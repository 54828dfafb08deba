------------------------------- MODULE DevFs -------------------------------
(***************************************************************************)
(* The file system of the devices, src/fs/dev.c: a tree of entries, each   *)
(* in a block of a ramdisk, an entry being linked to the next and previous *)
(* of its directory, to its parent and, a directory, to its first entry.   *)
(* Block 0 is the root; a link of 0 is no link.                            *)
(*                                                                         *)
(* A path is the sequence of its parts after the root's, as path_get_part  *)
(* and path_get_left of src/fs/path.c cut them.  Each function runs to its *)
(* end: nothing else touches the ramdisk meanwhile.  A call the code       *)
(* refuses changes nothing: it is a stuttering step.                       *)
(***************************************************************************)
EXTENDS Integers, FiniteSetsExt, SequencesExt

CONSTANTS
  BlockNum,   \* DEVFS_BLOCKNUM, the blocks of the ramdisk
  Names,      \* the names of the entries
  MaxDepth    \* bound of the model: the parts a path may have

ASSUME DevFsAssumption ==
  /\ BlockNum \in Nat \ {0}
  /\ MaxDepth \in Nat \ {0}
  /\ "/" \notin Names

VARIABLE blocks   \* the ramdisk: block number -> devfs_entry

Blocks == 0 .. BlockNum - 1
Paths == UNION {[1 .. n -> Names] : n \in 0 .. MaxDepth}
Below == Paths \ {<<>>}

EntryTypes == {"empty", "entry", "link"}

(* A devfs_entry.  No function tells a device from a directory: both are   *)
(* of type "entry".  Of what dev_setparams writes the model keeps whether a  *)
(* handler is installed, of the source of a link whether it is written.    *)
Empty == [name |-> "/", type |-> "empty", data |-> 0, next |-> 0, prev |-> 0,
          parent |-> 0, handler |-> FALSE, source |-> FALSE]
Root == [Empty EXCEPT !.type = "entry"]

-----------------------------------------------------------------------------
NotFound == -1

(* The loop over the entries of a directory, from block b and for at most  *)
(* n entries: where it finds a name.  The loop ends when the next is 0.    *)
Search(first, name) ==
  LET from[n \in 0 .. BlockNum] ==
        [b \in Blocks |-> IF n = 0 \/ b = 0 THEN NotFound
                         ELSE IF blocks[b].name = name THEN b
                         ELSE from[n - 1][blocks[b].next]]
  IN  from[BlockNum][first]

(* The loop of dev_create: the last entry of a directory that has one.     *)
LastEntry(first) ==
  LET from[n \in 0 .. BlockNum] ==
        [b \in Blocks |-> IF n = 0 \/ blocks[b].next = 0 THEN b
                         ELSE from[n - 1][blocks[b].next]]
  IN  from[BlockNum][first]

(* dev_get_entry_block: from the root, part by part.  It looks for a part  *)
(* under whatever entry the part before named, directory or not.           *)
dev_get_entry_block(path) ==
  LET block[k \in 0 .. Len(path)] ==
        IF k = 0 THEN 0
        ELSE LET above == block[k - 1]
             IN  IF above = NotFound THEN NotFound
                 ELSE Search(blocks[above].data, path[k])
  IN  block[Len(path)]

FreeBlocks == {b \in Blocks : blocks[b].type = "empty"}

-----------------------------------------------------------------------------
Init == blocks = [b \in Blocks |-> IF b = 0 THEN Root ELSE Empty]

(* dev_create goes on when its tests pass, that answer DEV_EXIST,          *)
(* DEV_NOTFOUND and DEV_FULL otherwise.                                    *)
CreateAccepts(path) ==
  /\ dev_get_entry_block(path) = NotFound
  /\ dev_get_entry_block(Front(path)) # NotFound
  /\ FreeBlocks # {}

(* The entry dev_create writes.  Mutant: the parent taken from the search  *)
(* of the entry itself.                                                    *)
NewEntryOrphan(name, type, prev, parent) ==
  [Empty EXCEPT !.name = name, !.type = type, !.prev = prev,
                !.parent = NotFound]

NewEntry(name, type, prev, parent) ==
  [Empty EXCEPT !.name = name, !.type = type, !.prev = prev, !.parent = parent]

(* dev_create on a path it accepts: the ramdisk afterwards.  The entry is  *)
(* the first of its directory or is linked behind the last one.            *)
Created(path, type) ==
  LET parent == dev_get_entry_block(Front(path))
      new == Min(FreeBlocks)
      first == blocks[parent].data
      prev == IF first = 0 THEN 0 ELSE LastEntry(first)
      entry == NewEntry(Last(path), type, prev, parent)
      linked == IF first = 0
                THEN [blocks EXCEPT ![parent].data = new]
                ELSE [blocks EXCEPT ![prev].next = new]
  IN  [linked EXCEPT ![new] = entry]

dev_create(path, type) ==
  /\ CreateAccepts(path)
  /\ blocks' = Created(path, type)

(* dev_link writes the source of the link into the block whose number is   *)
(* the answer of dev_create, which is 0 for success: into the root.  Of    *)
(* the source only counts whether it is found: in Next it is the root, or  *)
(* the link itself, which is not found when the link can be created.       *)
dev_link(path, source) ==
  /\ dev_get_entry_block(source) # NotFound
  /\ CreateAccepts(path)
  /\ blocks' = [Created(path, "link") EXCEPT ![0].source = TRUE]

(* dev_remove: the ramdisk afterwards.  The removed entry is erased only   *)
(* when it has a next and a previous entry; the parent is written only     *)
(* when it is not the root.  Mutants: the previous entry stays linked to   *)
(* the block that is erased; the entry is erased in all cases.             *)
RemovedUnlinked(b) ==
  LET e == blocks[b]
  IN  IF e.next > 0 /\ e.prev > 0
      THEN [blocks EXCEPT ![e.next].prev = e.prev, ![b] = Empty]
      ELSE blocks
RemovedErased(b) ==
  IF b = 0 THEN blocks ELSE [blocks EXCEPT ![b] = Empty]

Removed(b) ==
  LET e == blocks[b]
      onParent == IF e.parent > 0 /\ e.prev = 0
                  THEN [blocks EXCEPT ![e.parent].data = e.next]
                  ELSE blocks
      onPrev == IF e.prev > 0
                THEN [onParent EXCEPT ![e.prev].next = e.next]
                ELSE onParent
      onNext == IF e.next > 0
                THEN [onPrev EXCEPT ![e.next].prev = e.prev]
                ELSE onPrev
  IN  IF e.next > 0 /\ e.prev > 0 THEN [onNext EXCEPT ![b] = Empty] ELSE onNext

dev_remove(path) ==
  LET b == dev_get_entry_block(path)
  IN  b # NotFound /\ blocks' = Removed(b)

(* The same operations as the virtual file system calls them: the handlers *)
(* only turn every error into VFS_ERROR.                                   *)
dev_hcreate(filename) == dev_create(filename, "entry")
dev_hmkdir(dirname) == dev_create(dirname, "entry")
dev_hremove(filename) == dev_remove(filename)
dev_hlink(linkname, filename) == dev_link(linkname, filename)

(* dev_hrmdir removes an entry that has none under it.                     *)
dev_hrmdir(path) ==
  LET b == dev_get_entry_block(path)
  IN  b # NotFound /\ blocks[b].data = 0 /\ blocks' = Removed(b)

(* dev_setparams: the driver puts its handler in the entry.                *)
dev_setparams(path) ==
  LET b == dev_get_entry_block(path)
  IN  b # NotFound /\ blocks' = [blocks EXCEPT ![b].handler = TRUE]

Next ==
  \/ \E path \in Below :
       \/ dev_create(path, "entry") \/ dev_hcreate(path) \/ dev_hmkdir(path)
       \/ \E source \in {<<>>, path} :
            dev_link(path, source) \/ dev_hlink(path, source)
  \/ \E path \in Paths :
       \/ dev_remove(path) \/ dev_hremove(path) \/ dev_hrmdir(path)
       \/ dev_setparams(path)

Spec == Init /\ [][Next]_blocks

-----------------------------------------------------------------------------
TypeOK ==
  blocks \in [Blocks -> [name : Names \cup {"/"}, type : EntryTypes,
                         data : Blocks, next : Blocks, prev : Blocks,
                         parent : Blocks, handler : BOOLEAN,
                         source : BOOLEAN]]

(* The entries a loop over the directory in block dir passes through.      *)
Entries(dir) ==
  LET from[n \in 0 .. BlockNum] ==
        [b \in Blocks |-> IF n = 0 \/ b = 0 THEN {}
                         ELSE {b} \cup from[n - 1][blocks[b].next]]
  IN  from[BlockNum][blocks[dir].data]
Found == {p \in Paths : dev_get_entry_block(p) # NotFound}
Reached == {dev_get_entry_block(p) : p \in Found}

(* The links make a tree of the entries that can be found: the loop over a *)
(* directory ends, passes only through entries in use that name it as      *)
(* their parent, and never twice through one name.  dev_remove updates     *)
(* these links only in part, and dev_create gives the erased blocks out    *)
(* again.                                                                  *)
LinksSound ==
  \A dir \in Reached :
    LET entries == Entries(dir)
    IN  /\ blocks[dir].data # 0 => blocks[LastEntry(blocks[dir].data)].next = 0
        /\ \A b \in entries :
             /\ blocks[b].type # "empty"
             /\ blocks[b].parent = dir
             /\ \A c \in entries : blocks[c].name = blocks[b].name => c = b

(* The file system keeps the promise of module NameSpace.                  *)
TheNames == INSTANCE NameSpace WITH
              tree <- [p \in Found |-> blocks[dev_get_entry_block(p)].handler]
NamesPromise == TheNames!Spec

-----------------------------------------------------------------------------
(* What the code says of itself and does not do; see the README.           *)

(* dev_remove "rimuove un file/link/cartella" (dev.c:189): the name it is  *)
(* given is found no more.                                                 *)
RemovedIsGone ==
  [][\A path \in Below : dev_remove(path) => path \notin Found']_blocks

=============================================================================
