------------------------------- MODULE Initfs -------------------------------
(***************************************************************************)
(* The initial file system: init_vfs and mount (src/fs/vfs.c) look for the *)
(* module that is an archive and mount it, initfs_hmount (src/fs/initfs.c) *)
(* caches where its first entries are, initfs_hread finds a file and reads *)
(* it.  Every request to the ramdisk passes through initrd_handler.        *)
(*                                                                         *)
(* The heap is what kmalloc is to these functions, the first run of free   *)
(* pages (module KMem): which page they get matters, because hmount        *)
(* indexes a pointer to the whole cache as if it pointed to one entry, and *)
(* writes entry i that many caches further on.  Memory is counted in       *)
(* units; an archive is a sequence of blocks, the first one block 0.       *)
(***************************************************************************)
EXTENDS Integers, FiniteSets, Sequences, FiniteSetsExt

CONSTANTS
  NEntries,    \* N_ENTRIES, the entries the cache was made for
  EntrySize,   \* the size of one
  PageSize,    \* the size of a page
  BlockSize,   \* INITRD_BLOCK_SIZE and sizeof(initfs_block)
  ModuleSets,  \* possible modules, sequences of archives
  Rooms,       \* how many pages the heap may have
  HeapUsed,    \* the pages at its beginning taken before init_vfs
  Requests,    \* what hread is asked, records [name, start, size]
  Leftovers    \* what memory may hold behind a name, up to the first 0

(* Names are sequences of characters.  A block is a header, right or       *)
(* damaged, one of those that make up a file, or empty.  In an archive     *)
(* each file has a name and its blocks follow its header; what follows     *)
(* them is a header, an empty block or nothing.                            *)
Names == Seq(STRING)
Blocks ==
  [kind : {"header", "bad", "data", "zero"}, name : Names, size : Nat]
IsHeader(block) == block.kind \in {"header", "bad"}
IsArchive(d) ==
  /\ \A b \in DOMAIN d : d[b].kind = "zero" => d[b].name = <<>>
  /\ \A b \in DOMAIN d : IsHeader(d[b]) => d[b].name # <<>>
  /\ \A b \in DOMAIN d : IsHeader(d[b]) =>
       \A c \in b + 1 .. Len(d) :
         LET before == (c - b - 1) * BlockSize
         IN  /\ before < d[b].size => d[c].kind = "data"
             /\ before - BlockSize < d[b].size /\ d[b].size <= before
                  => d[c].kind # "data"

(* A requested name is what follows the slash; for "/" it is empty.        *)
ASSUME InitfsAssumption ==
  /\ NEntries \in Nat \ {0} /\ EntrySize \in Nat \ {0}
  /\ PageSize \in Nat /\ NEntries * EntrySize <= PageSize
  /\ BlockSize \in Nat \ {0} /\ BlockSize <= PageSize
  /\ ModuleSets \subseteq Seq(Seq(Blocks))
  /\ \A ms \in ModuleSets : \A k \in DOMAIN ms : IsArchive(ms[k])
  /\ Rooms \subseteq Nat /\ HeapUsed \in Nat
  /\ Requests \subseteq [name : Names, start : Nat, size : Nat]
  /\ Leftovers \subseteq Names /\ <<>> \in Leftovers

VARIABLES
  modules,  \* the modules, as copy_modules left them
  at,       \* the module in the initial ramdisk
  room,     \* how many pages the heap has
  mem,      \* the heap: pages used, and those among them nobody can free
  pc,       \* what the kernel is doing
  bufs,     \* the pages the running call holds: name -> first page
  cache,    \* the first page of the cache, published in other_data
  cells,    \* what hmount wrote: i -> cache[i]
  cur,      \* cur_block of hmount, request.start_block of get_file_block
  call,     \* the read that runs
  answer    \* what the last read answered

kept == <<modules, at, room>>
initfsVars == <<kept, mem, pc, bufs, cache, cells, cur, call, answer>>

(* What a call may answer but a number of bytes, src/include/fs/errno.h.   *)
VFS_FAILED == -2
VFS_DEVERROR == -11
VFS_NOMEM == -13
VFS_NOTFOUND == -3
VFS_FSERROR == -5

(* Where the model stops: init_vfs panics; a read meets a page that is not *)
(* mapped, writes through the 0 of a kmalloc, copies from beyond its       *)
(* buffer, or goes by memory nobody wrote.                                 *)
Stopped == {"panic", "fault", "null", "overrun", "wild"}

-----------------------------------------------------------------------------
(* The heap.  A call takes the first run of free pages, if there is room;  *)
(* the mutant does not look whether there is.                              *)
Base == 0 .. HeapUsed - 1
Run(p, n) == p .. p + n - 1
FirstRun(used, n) ==
  CHOOSE p \in 0 .. 2 * room + n :
    /\ Run(p, n) \cap used = {}
    /\ \A q \in 0 .. p - 1 : Run(q, n) \cap used # {}
HasRoomAlways(m, n) == n > 0
HasRoom(m, n) == n > 0 /\ Cardinality(m.used) + n <= room
NextPage(m) == FirstRun(m.used, 1)
Took(m, S) == [m EXCEPT !.used = @ \cup S]
Freed(m, S) == [m EXCEPT !.used = @ \ S]
Lost(m, S) == [used |-> m.used \cup S, lost |-> m.lost \cup S]

-----------------------------------------------------------------------------
(* The device: initrd_handler under dev_ioctl_device.  It gets a copy of   *)
(* the parameters for every request and never frees it; the mutant does.   *)
(* A request that ends past the last block is refused.                     *)
Disk == modules[at]
Block(b) == Disk[b + 1]
InDevice(b, count) == b + count <= Len(Disk)
HandlerFreed(m) == m
Handler(m) == IF HasRoom(m, 1) THEN Lost(m, {NextPage(m)}) ELSE m
Answers(m, b, count) == HasRoom(m, 1) /\ InDevice(b, count)

(* hidentify: the first block is a header of this format, its checksum     *)
(* right.  When the device does not answer the buffer is lost.             *)
Identified(m) ==
  LET entry  == NextPage(m)
      with   == Took(m, {entry})
      asked  == Handler(with)
  IN  IF ~HasRoom(m, 1) THEN m
      ELSE IF ~Answers(with, 0, 1) THEN Lost(asked, {entry})
      ELSE Freed(asked, {entry})
Identifies(m) ==
  /\ HasRoom(m, 2)
  /\ InDevice(0, 1)
  /\ Block(0).kind = "header"

-----------------------------------------------------------------------------
(* A read of a file searches for name, which need not be the file's.  It   *)
(* is in get_file_block for get_file_size first, for read_file then.       *)
NoCall ==
  [file |-> <<>>, name |-> <<>>, start |-> 0, size |-> 0, length |-> 0,
   stage |-> "none"]
NoBufs == [params |-> {}, buffer |-> {}, entry |-> {}, postfile |-> {}]
Held == UNION {bufs[b] : b \in DOMAIN bufs}

Init ==
  /\ modules \in ModuleSets /\ at = 1 /\ room \in Rooms
  /\ HeapUsed <= room
  /\ mem = [used |-> Base, lost |-> {}]
  /\ pc = "identify" /\ bufs = NoBufs
  /\ cache = {} /\ cells = <<>> /\ cur = 0
  /\ call = NoCall /\ answer = 0

(* init_vfs puts one module after the other into the ramdisk.              *)
TryModule ==
  /\ pc = "identify" /\ at <= Len(modules)
  /\ mem' = Identified(mem)
  /\ IF Identifies(mem) THEN pc' = "mount" /\ at' = at
     ELSE pc' = pc /\ at' = at + 1
  /\ UNCHANGED <<modules, room, bufs, cache, cells, cur, call, answer>>

NoInitrd ==
  /\ pc = "identify" /\ at > Len(modules)
  /\ pc' = "panic"
  /\ UNCHANGED <<kept, mem, bufs, cache, cells, cur, call, answer>>

(* mount: the parameters it asks for are never freed; the file system is   *)
(* identified once more; then hmount takes its three buffers.              *)
Mounting == Lost(mem, {NextPage(mem)})
CanMount ==
  HasRoom(mem, 1) /\ Identifies(Mounting) /\ HasRoom(Identified(Mounting), 3)

MountBegins ==
  /\ pc = "mount" /\ CanMount
  /\ LET m == Identified(Mounting)
         params == NextPage(m)
         buffer == NextPage(Took(m, {params}))
         area == NextPage(Took(m, {params, buffer}))
     IN  /\ mem' = Took(m, {params, buffer, area})
         /\ bufs' = [bufs EXCEPT !.params = {params}, !.buffer = {buffer}]
         /\ cache' = {area}
  /\ pc' = "cache"
  /\ UNCHANGED <<kept, cells, cur, call, answer>>

(* The pages of cache[i], as the code indexes it, and the one it begins in.*)
CacheSize == NEntries * EntrySize
CellStart(i) == i * CacheSize
CellPage(i) == {c + (CellStart(i) \div PageSize) : c \in cache}
CellPages(i) ==
  LET units == CellStart(i) .. CellStart(i) + EntrySize - 1
  IN  UNION {{c + (u \div PageSize) : u \in units} : c \in cache}

(* The header after the one at block b; the mutant counts a block that is  *)
(* a part of one even where there is none.                                 *)
NextHeaderPast(b, size) == b + (size \div BlockSize) + 2
NextHeader(b, size) ==
  b + (size \div BlockSize) + 1 + (IF size % BlockSize = 0 THEN 0 ELSE 1)

(* The loop of hmount: a header goes into the cache.                       *)
CanCache ==
  /\ Len(cells) < NEntries
  /\ Answers(mem, cur, 1) /\ Block(cur).kind = "header"

CacheEntry ==
  /\ pc = "cache" /\ CanCache
  /\ mem' = Handler(mem)
  /\ cells' = Append(cells, [name |-> Block(cur).name, block |-> cur])
  /\ cur' = NextHeader(cur, Block(cur).size)
  /\ UNCHANGED <<kept, pc, bufs, cache, call, answer>>

(* It ends with success when the cache is full, or with two empty blocks,  *)
(* which it compares with a page it does not free.  Then the entry that    *)
(* stands for the end is cleared.                                          *)
EmptyCell == [name |-> <<>>, block |-> 0]
TestPage == NextPage(Handler(mem))
CanEnd ==
  /\ Len(cells) < NEntries
  /\ HasRoom(mem, 3)
  /\ InDevice(cur, 2)
  /\ Block(cur).kind = "zero" /\ Block(cur + 1).kind = "zero"

Mounted(m) ==
  /\ mem' = Freed(m, Held) /\ bufs' = NoBufs
  /\ cells' = Append(cells, EmptyCell)
  /\ pc' = "ready"
  /\ UNCHANGED <<kept, cache, cur, call, answer>>

CacheEnds ==
  /\ pc = "cache" /\ CanEnd
  /\ Mounted(Handler(Lost(Handler(mem), {TestPage})))

CacheFull == pc = "cache" /\ Len(cells) = NEntries /\ Mounted(mem)

(* Any failure of mount is a panic of init_vfs.  hmount frees its buffer   *)
(* when there is no page for the cache, but not the parameters.            *)
MountFails ==
  /\ pc = "mount" /\ ~CanMount
  /\ LET m == Identified(Mounting)
     IN  mem' = IF ~HasRoom(mem, 1) THEN mem
                ELSE IF Identifies(Mounting) /\ HasRoom(m, 1)
                THEN Lost(m, {NextPage(m)}) ELSE m
  /\ pc' = "panic"
  /\ UNCHANGED <<kept, bufs, cache, cells, cur, call, answer>>

(* The error paths of the loop free the cache that other_data points to,   *)
(* and all but one a pointer that need not have been initialised.          *)
CacheFails ==
  /\ pc = "cache" /\ Len(cells) < NEntries /\ ~CanCache /\ ~CanEnd
  /\ LET first == Handler(mem)
         second == Freed(Handler(Took(first, {TestPage})), {TestPage})
         tested == Answers(mem, cur, 1) /\ Block(cur).kind = "zero"
     IN  \E test \in {{}} \cup {{p} : p \in mem.used} :
           mem' = Freed(IF tested /\ HasRoom(first, 1) THEN second ELSE first,
                        Held \cup cache \cup test)
  /\ pc' = "panic"
  /\ UNCHANGED <<kept, bufs, cache, cells, cur, call, answer>>

-----------------------------------------------------------------------------
(* init_vfs takes a buffer before it reads, and keeps it; others may too.  *)
ReaderTakes ==
  /\ pc = "ready" /\ call.stage = "none" /\ HasRoom(mem, 1)
  /\ mem' = Lost(mem, {NextPage(mem)})
  /\ UNCHANGED <<kept, pc, bufs, cache, cells, cur, call, answer>>

(* hread and the beginning of read_file: the name without its slash is     *)
(* copied to a page of its own without the 0 that ends it, and goes on     *)
(* with what that page, which nobody clears, holds behind it; then the     *)
(* parameters of the device.  The answer of the first kmalloc is used as   *)
(* it comes.                                                               *)
HreadBegins(r) ==
  /\ pc = "ready" /\ HasRoom(mem, 2)
  /\ LET postfile == NextPage(mem)
         params == NextPage(Took(mem, {postfile}))
     IN  /\ mem' = Took(mem, {postfile, params})
         /\ bufs' = [bufs EXCEPT !.postfile = {postfile}, !.params = {params}]
  /\ \E left \in Leftovers :
       call' = [file |-> r.name, name |-> r.name \o left, start |-> r.start,
                size |-> r.size, length |-> 0, stage |-> "size"]
  /\ pc' = "find"
  /\ UNCHANGED <<kept, cache, cells, cur, answer>>

(* The end of a read; the mutant forgets the copy of the name.             *)
EndsForgetful(m, n) ==
  /\ mem' = Freed(m, Held \ bufs.postfile) /\ bufs' = NoBufs
  /\ answer' = n
  /\ call' = [NoCall EXCEPT !.stage = "done"] /\ cur' = 0
  /\ pc' = "ready"
  /\ UNCHANGED <<kept, cache, cells>>
Ends(m, n) ==
  /\ mem' = Freed(m, Held) /\ bufs' = NoBufs
  /\ answer' = n
  /\ call' = [NoCall EXCEPT !.stage = "done"] /\ cur' = 0
  /\ pc' = "ready"
  /\ UNCHANGED <<kept, cache, cells>>

HreadRefused ==
  /\ pc = "ready" /\ HasRoom(mem, 1) /\ ~HasRoom(mem, 2)
  /\ Ends(mem, VFS_DEVERROR)

Stops(how) ==
  /\ pc' = how
  /\ UNCHANGED <<kept, mem, bufs, cache, cells, cur, call, answer>>

(* Of an empty name nothing is copied, and read_file refuses the pointer.  *)
HreadNull(r) ==
  /\ pc = "ready" /\ ~HasRoom(mem, 1)
  /\ IF r.name = <<>> THEN Ends(mem, VFS_FAILED) ELSE Stops("null")

-----------------------------------------------------------------------------
(* get_file_block: it never frees the parameters it asks for.  The cache   *)
(* is searched to the first entry of that name, or to the last entry; an   *)
(* empty name is that of the entry that ends it, whose block is 0.         *)
Finding == Lost(mem, {NextPage(mem)})
Entries == {i \in 0 .. NEntries - 1 : i < Len(cells)}
Cached == {i \in Entries : cells[i + 1].name = call.name}
Searched == 0 .. (IF Cached = {} THEN NEntries - 1 ELSE Min(Cached))
SearchedMapped == UNION {CellPage(i) : i \in Searched} \subseteq Finding.used

(* The block is known: get_file_size or read_file goes on.                 *)
Found(m, b) ==
  /\ mem' = m
  /\ cur' = b
  /\ pc' = call.stage
  /\ UNCHANGED <<kept, cache, cells, call, answer>>

FindRefused ==
  /\ pc = "find" /\ ~HasRoom(mem, 1)
  /\ Ends(mem, VFS_DEVERROR)

FindCached ==
  /\ pc = "find" /\ HasRoom(mem, 1) /\ SearchedMapped
  /\ Cached # {}
  /\ Found(Finding, cells[Min(Cached) + 1].block)
  /\ bufs' = bufs

FindFaults ==
  /\ pc = "find" /\ HasRoom(mem, 1) /\ ~SearchedMapped
  /\ Stops("fault")

(* Not in the cache: the search starts at the last entry whose block is    *)
(* not 0.  If entries hmount did not write come before it, or there is     *)
(* none, it goes by what memory happens to hold.                           *)
Missing == pc = "find" /\ HasRoom(mem, 1) /\ SearchedMapped /\ Cached = {}
NonZero == {i \in Entries : cells[i + 1].block # 0}

FindNoMemory == Missing /\ ~HasRoom(Finding, 1) /\ Ends(Finding, VFS_NOMEM)

FindWild ==
  /\ Missing /\ HasRoom(Finding, 1)
  /\ (Len(cells) < NEntries \/ NonZero = {})
  /\ Stops("wild")

(* req_type of the request is not initialised here nor in get_file_size:   *)
(* it is a read or it is not, and the device refuses it.                   *)
FindManually ==
  /\ Missing /\ HasRoom(Finding, 1) /\ NonZero # {}
  /\ LET entry == NextPage(Finding)
         with == Took(Finding, {entry})
         start == cells[Max(NonZero) + 1].block
     IN  \E req_read \in BOOLEAN :
           IF req_read /\ Answers(with, start, 1)
           THEN /\ mem' = Handler(with)
                /\ bufs' = [bufs EXCEPT !.entry = {entry}]
                /\ cur' = start
                /\ pc' = "walk"
                /\ UNCHANGED <<kept, cache, cells, call, answer>>
           ELSE LET asked == IF req_read THEN Handler(with) ELSE with
                IN  Ends(Freed(asked, {entry}), VFS_DEVERROR)

(* The loop over the headers, which reads the next one.  The buffer of a   *)
(* search that finds its file is never freed.  The mutant answers with the *)
(* header before.                                                          *)
Next1 == NextHeader(cur, Block(cur).size)
BlockBefore == cur
BlockFound == Next1

WalkOn ==
  /\ pc = "walk" /\ IsHeader(Block(cur))
  /\ Answers(mem, Next1, 1)
  /\ IF Block(Next1).name = call.name
     THEN /\ Found(Lost(Handler(mem), bufs.entry), BlockFound)
          /\ bufs' = [bufs EXCEPT !.entry = {}]
     ELSE /\ mem' = Handler(mem)
          /\ cur' = Next1
          /\ UNCHANGED <<kept, pc, bufs, cache, cells, call, answer>>

(* An empty block must be followed by another, the end of the archive.     *)
WalkEnds ==
  /\ pc = "walk" /\ Block(cur).kind = "zero"
  /\ Answers(mem, cur + 1, 1)
  /\ IF Block(cur + 1).kind = "zero"
     THEN Ends(Handler(mem), VFS_NOTFOUND)
     ELSE /\ mem' = Lost(Freed(Handler(mem), Held \ bufs.entry), bufs.entry)
          /\ bufs' = NoBufs
          /\ answer' = VFS_FSERROR
          /\ call' = [NoCall EXCEPT !.stage = "done"] /\ cur' = 0
          /\ pc' = "ready"
          /\ UNCHANGED <<kept, cache, cells>>

WalkFails ==
  /\ pc = "walk"
  /\ ~Answers(mem, IF Block(cur).kind = "zero" THEN cur + 1 ELSE Next1, 1)
  /\ Ends(Handler(mem), VFS_DEVERROR)

-----------------------------------------------------------------------------
(* The rest of get_file_size, which never frees the header it reads.  The  *)
(* walk finds an empty name in an empty block, whose checksum is not right.*)
SizeRefused ==
  /\ pc = "size"
  /\ \/ ~HasRoom(mem, 1) /\ Ends(mem, VFS_NOMEM)
     \/ LET with == Lost(mem, {NextPage(mem)})
        IN  /\ HasRoom(mem, 1)
            /\ \/ Ends(with, VFS_DEVERROR)
               \/ ~Answers(with, cur, 1) /\ Ends(Handler(with), VFS_DEVERROR)
               \/ /\ Answers(with, cur, 1) /\ Block(cur).kind # "header"
                  /\ Ends(Handler(with), VFS_FSERROR)

(* The size is known; read_file answers 0 past the end of the file, and    *)
(* looks for the block a second time otherwise.                            *)
SizeKnown ==
  /\ pc = "size" /\ HasRoom(mem, 2)
  /\ Answers(mem, cur, 1) /\ Block(cur).kind = "header"
  /\ LET m == Handler(Lost(mem, {NextPage(mem)}))
     IN  IF call.start >= Block(cur).size
         THEN Ends(m, 0)
         ELSE /\ mem' = m
              /\ call' = [call EXCEPT !.stage = "read",
                                      !.length = Block(cur).size]
              /\ pc' = "find"
              /\ UNCHANGED <<kept, bufs, cache, cells, cur, answer>>

(* The request of read_file.  To the end of the file it is one byte more   *)
(* than there is.  The first block is counted from the beginning of the    *)
(* archive, the last from that of the file: for any file but the first the *)
(* number of blocks is too small, and wraps when it is negative.           *)
toread ==
  IF call.start + call.size >= call.length
  THEN call.length - call.start + 1 ELSE call.size
start_block == cur + (call.start \div BlockSize) + 1
end_block == (call.start + toread + BlockSize - 1) \div BlockSize
blocks == end_block - start_block + 1
BufferPages == (blocks * BlockSize + PageSize - 1) \div PageSize

(* kmalloc(0) and a size near 2^32 are refused as well.                    *)
ReadNoMemory ==
  /\ pc = "read"
  /\ (blocks <= 0 \/ ~HasRoom(mem, BufferPages))
  /\ Ends(mem, VFS_NOMEM)

(* The copy of the answer begins in the buffer; when the blocks were too   *)
(* few it runs past its last page.                                         *)
Reading == Run(FirstRun(mem.used, BufferPages), BufferPages)
CopyFits == (call.start % BlockSize) + toread <= BufferPages * PageSize

ReadBlocks ==
  /\ pc = "read" /\ blocks > 0 /\ HasRoom(mem, BufferPages)
  /\ LET with == Took(mem, Reading)
     IN  IF Answers(with, start_block, blocks)
         THEN /\ CopyFits
              /\ Ends(Freed(Handler(with), Reading), toread)
         ELSE Ends(Freed(Handler(with), Reading), VFS_DEVERROR)

ReadOverruns ==
  /\ pc = "read" /\ blocks > 0 /\ HasRoom(mem, BufferPages)
  /\ Answers(Took(mem, Reading), start_block, blocks) /\ ~CopyFits
  /\ Stops("overrun")

Next ==
  \/ TryModule \/ NoInitrd \/ MountBegins \/ CacheEntry \/ CacheEnds
  \/ CacheFull \/ MountFails \/ CacheFails
  \/ ReaderTakes \/ \E r \in Requests : HreadBegins(r) \/ HreadNull(r)
  \/ HreadRefused
  \/ FindRefused \/ FindCached \/ FindFaults \/ FindNoMemory \/ FindWild
  \/ FindManually \/ WalkOn \/ WalkEnds \/ WalkFails
  \/ SizeRefused \/ SizeKnown \/ ReadNoMemory \/ ReadBlocks \/ ReadOverruns

Spec == Init /\ [][Next]_initfsVars

-----------------------------------------------------------------------------
Headers == {b \in 0 .. Len(Disk) - 1 : IsHeader(Block(b))}

(* Types; what the heap hands out never exceeds the memory there is, what  *)
(* is lost is used, and a call holds pages only while it runs.             *)
TypeOK ==
  /\ at \in 1 .. Len(modules) + 1
  /\ pc \in {"identify", "mount", "cache", "ready", "find", "walk", "size",
            "read"} \cup Stopped
  /\ Cardinality(mem.used) <= room
  /\ (pc # "panic" => (mem.lost \cup cache \cup Held) \subseteq mem.used)
  /\ (pc \in {"identify", "mount", "ready"} => Held = {})
  /\ Len(cells) <= NEntries + 1
  /\ answer \in Int

(* hmount writes its entries a whole cache apart, far beyond the page it   *)
(* allocated; yet it never writes to a page that is not mapped or that     *)
(* somebody uses: each request leaves one page of lost parameters behind,  *)
(* and these follow the cache one by one.  Freeing them would make it      *)
(* write over the heap.                                                    *)
MountWritesOwn ==
  pc # "panic" =>
    \A i \in 0 .. Len(cells) - 1 : CellPages(i) \subseteq cache \cup mem.lost

(* The cache holds the first entries of the archive, in their order, each  *)
(* at the block of its header, whatever the sizes of the files between.    *)
CacheFaithful ==
  \A i \in 1 .. Len(cells) :
    cells[i] # EmptyCell =>
      /\ cells[i].block \in Headers
      /\ Block(cells[i].block).name = cells[i].name
      /\ Cardinality({b \in Headers : b < cells[i].block}) = i - 1

(* get_file_block answers with the header of a file whose whole name is    *)
(* the one it searches for, from a cache that is faithful or after walking *)
(* the archive behind it.  That name begins with the one of the request    *)
(* and may be longer: what is read under /a may be /abc.  An empty one is  *)
(* found in the first block or in an empty block, and only the first gets  *)
(* as far as a read.  For a name that is in the cache no page is touched   *)
(* that is not mapped, which a search for any other may do.                *)
FoundWhereItIs ==
  /\ CacheFaithful
  /\ pc \in {"size", "read"} =>
       /\ \E left \in Leftovers : call.name = call.file \o left
       /\ \/ cur \in Headers /\ Block(cur).name = call.name
          \/ call.name = <<>> /\ cur = 0
          \/ call.name = <<>> /\ pc = "size" /\ Block(cur).kind = "zero"
  /\ pc = "fault" => Cached = {}

(* Between calls every page in use is one taken before init_vfs, the       *)
(* cache, or one that a named leak has lost: no path through mount or read *)
(* forgets anything else, and none frees what it does not hold.            *)
NothingElseLost ==
  pc \in {"identify", "ready"} =>
    /\ mem.used = Base \cup cache \cup mem.lost
    /\ mem.lost \cap (Base \cup cache) = {}

=============================================================================
