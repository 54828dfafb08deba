-------------------------------- MODULE KMem --------------------------------
(***************************************************************************)
(* The kernel heap: kmalloc and kfree over the memory area of the kernel.  *)
(* One call runs through every level of the memory manager,                *)
(*    level 6  src/mm/kmem.c      kmalloc, kfree                           *)
(*    level 5  src/mm/mem_area.c  mem_alloc, mem_free                      *)
(*    level 4  src/mm/mem_desc.c  the chain of descriptor pages            *)
(*    level 3  src/mm/virmem.c    the bitmap of virtual pages              *)
(*    level 2  src/mm/paging.c    the page directory and page tables       *)
(*    level 1  src/mm/fismem.c    the bitmap of physical pages (Fismem)    *)
(* and each pass through the loops of vir_alloc and vir_free, which handle *)
(* one page, is a step of the model.  pc and run hold where in the call    *)
(* the kernel is.  There is one thread of control: no interrupt handler    *)
(* calls the memory manager.                                               *)
(*                                                                         *)
(* The model starts where phase 1 of init_mm leaves the machine and begins *)
(* with the init_desc of phase 2.  What copy_modules allocates afterwards  *)
(* is a call of kmalloc like any other; the page tables its                *)
(* identity_mapping may add under the kernel, and the pages of the         *)
(* modules, are in BootFrames.                                             *)
(***************************************************************************)
EXTENDS Fismem, Sequences

CONSTANTS
  BootFrames,    \* the physical pages whose bit is set when phase 1 ends
  Drifts,        \* how far fis_freepages may be below the real count then
  BootTable,     \* the page table of the kernel image (KERNEL_PAGETBL2_TMP)
  VFirst,        \* first page init_vm leaves clear, g_end/PAGE_SIZE + 2
  MaxPages,      \* MAX_PAGES, the number of virtual pages
  TableEntries,  \* TABLE_ENTRIES, the pages one page table maps
  AllocNum,      \* ALLOC_NUM, the descriptors of a descriptor page
  Sizes          \* the sizes, in pages, that callers of kmalloc ask for

(* The last assumption is the machine this code works on: the installed    *)
(* memory runs out before the heap reaches the last page table of the      *)
(* directory, the one the kernel maps onto the directory itself and the    *)
(* bitmap of virtual pages does not reserve.                               *)
ASSUME KMemAssumption ==
  /\ BootFrames \subseteq Frames /\ 0 \in BootFrames
  /\ BootTable \in BootFrames \ {0}
  /\ Drifts \subseteq Int
  /\ \A d \in Drifts :
       Cardinality(Frames \ BootFrames) - d \in 0 .. UWrap - 1
  /\ VFirst \in Nat \ {0} /\ MaxPages \in Nat
  /\ TableEntries \in Nat \ {0} /\ AllocNum \in Nat \ {0}
  /\ Sizes \subseteq Nat
  /\ VFirst + FisPages + TableEntries < MaxPages

VARIABLES
  page_bitmap,  \* kmem_area.page_bitmap, the virtual pages marked used
  pde,          \* page directory entry -> its page table, 0: not present
  pte,          \* virtual page -> the page it is mapped to, 0: not present
  chain,        \* the descriptor pages from kmem_area.first_alloc, in order
  pc,           \* what the kernel is executing
  run,          \* the loop of vir_alloc or vir_free: next page, pages left
  block,        \* the allocation being recorded, freed or given back
  live,         \* the blocks callers of kmalloc hold
  failed,       \* whether the last call was a kmalloc that answered 0
  nullFreed,    \* history: whether a caller ever passed that 0 to kfree
  drift         \* history: the member of Drifts this boot started from

levelVars == <<fis_bitmap, fis_freepages, page_bitmap, pde, pte>>
callerVars == <<live, failed, nullFreed>>
kmemVars == <<levelVars, chain, pc, run, block, callerVars, drift>>

HeapPages == VFirst .. MaxPages - 1
PdEntry(v) == v \div TableEntries
PdEntries == {PdEntry(v) : v \in HeapPages}
KernelEntry == PdEntry(VFirst - 1)

Pages(b) == b.address .. b.address + b.size - 1
NoBlock == [address |-> 0, size |-> 0]
NoRun == [page |-> 0, left |-> 0]

(* The loop of vir_alloc or vir_free over a block; the mutant stops a page *)
(* short of its end.                                                       *)
RunShort(b) == [page |-> b.address, left |-> b.size - 1]
RunOver(b) == [page |-> b.address, left |-> b.size]

Busy == {"boot", "map", "record", "mapdesc", "unmap", "unwind"}
Stopped == {"lost", "overrun", "panic"}

-----------------------------------------------------------------------------
(* Level 4, the chain of descriptor pages.                                 *)

Slots == 1 .. AllocNum
EmptyPage(at) == [at |-> at, free |-> AllocNum,
                  allocs |-> [s \in Slots |-> NoBlock]]

(* The blocks the descriptors record: an entry is in use iff its size is   *)
(* not 0.                                                                  *)
RecordsOf(page) ==
  {page.allocs[s] : s \in {x \in Slots : page.allocs[x].size # 0}}
Records == UNION {RecordsOf(chain[i]) : i \in DOMAIN chain}

(* find_first_free_desc_page: the first page whose counter of free entries *)
(* is not 0, the last page if there is none.  new_allocation tries the     *)
(* first page before it calls it, which finds the same page.               *)
find_first_free_desc_page ==
  Lowest({i \in DOMAIN chain : chain[i].free > 0 \/ i = Len(chain)})

EmptySlots(i) == {s \in Slots : chain[i].allocs[s].size = 0}

(* A descriptor page with one entry and the counter rewritten; its         *)
(* mutants: the counter is not, an emptied entry keeps its block.          *)
WithEntryUncounted(page, s, b, free) ==
  [page EXCEPT !.allocs = [@ EXCEPT ![s] = b]]
WithEntryKept(page, s, b, free) ==
  [at |-> page.at, free |-> free,
   allocs |-> [page.allocs EXCEPT ![s] = IF b.size = 0 THEN @ ELSE b]]
WithEntry(page, s, b, free) ==
  [at |-> page.at, free |-> free, allocs |-> [page.allocs EXCEPT ![s] = b]]

(* free_allocation: the pages its loop searches.  It leaves the loop when  *)
(* the page it has just stepped to has no next, so the last page of a      *)
(* chain of two pages or more is never searched.                           *)
SearchedPages == {i \in DOMAIN chain : i = 1 \/ i < Len(chain)}

Matches(i, address) == {s \in Slots : chain[i].allocs[s].address = address}
MatchingPages(address) ==
  {i \in SearchedPages : chain[i].free < AllocNum /\ Matches(i, address) # {}}

-----------------------------------------------------------------------------
(* Level 3, the checks vir_alloc makes before it touches anything.         *)

(* find_clear_bits: the start of the first run of count clear bits.  The   *)
(* bits past MAX_PAGES are not part of the bitmap; a run that reaches them *)
(* is refused by the caller.                                               *)
ClearRuns(count) ==
  {v \in 0 .. MaxPages : PageRange(v, count) \cap page_bitmap = {}}
find_clear_bits(count) == Lowest(ClearRuns(count))

(* The mutant asks for virtual pages only.                                 *)
VirAllocUnchecked(pages) ==
  LET avail == find_clear_bits(pages)
  IN  avail + pages < MaxPages /\ avail > 0

VirAllocAccepts(pages) ==
  LET avail == find_clear_bits(pages)
      fisav == fis_find_pages(pages)
  IN  /\ avail + pages < MaxPages
      /\ avail > 0
      /\ fisav <= fis_freepages
      /\ fisav > 0
      /\ pages <= fisav

-----------------------------------------------------------------------------
Init ==
  /\ fis_bitmap = BootFrames
  /\ drift \in Drifts
  /\ fis_freepages = FreeCount - drift
  /\ page_bitmap = 0 .. VFirst - 1
  /\ pde = [e \in PdEntries |-> IF e = KernelEntry THEN BootTable ELSE 0]
  /\ pte = [v \in HeapPages |-> 0]
  /\ chain = <<>>
  /\ pc = "boot"
  /\ run = NoRun
  /\ block = NoBlock
  /\ live = {}
  /\ failed = FALSE
  /\ nullFreed = FALSE

(* init_desc(bitmap, 1, &first_alloc): the first descriptor page.          *)
InitDesc ==
  /\ pc = "boot"
  /\ IF VirAllocAccepts(1)
     THEN /\ pc' = "mapdesc"
          /\ run' = [page |-> find_clear_bits(1), left |-> 1]
     ELSE /\ pc' = "panic"
          /\ run' = run
  /\ UNCHANGED <<levelVars, chain, block, callerVars, drift>>

(* kmalloc(n pages), as far as the loop of vir_alloc.                      *)
KmallocBegins(n) ==
  /\ pc = "idle"
  /\ VirAllocAccepts(n)
  /\ LET new == [address |-> find_clear_bits(n), size |-> n]
     IN  /\ block' = new
         /\ run' = RunOver(new)
  /\ pc' = "map"
  /\ failed' = FALSE
  /\ UNCHANGED <<levelVars, chain, live, nullFreed, drift>>

(* kmalloc answers 0: vir_alloc's checks fail before anything changes.     *)
KmallocRefused(n) ==
  /\ pc = "idle"
  /\ ~VirAllocAccepts(n)
  /\ failed' = TRUE
  /\ UNCHANGED <<levelVars, chain, pc, run, block, live, nullFreed, drift>>

(* What follows the last page of a vir_alloc: new_allocation records the   *)
(* block, or a new descriptor page is linked at the end of the chain.      *)
VirAllocReturns(at) ==
  IF pc = "map"
  THEN /\ pc' = "record"
       /\ chain' = chain
  ELSE /\ pc' = IF block = NoBlock THEN "idle" ELSE "record"
       /\ chain' = Append(chain, EmptyPage(at))

(* What follows a vir_alloc that gave up: mem_alloc answers 0 for a block, *)
(* and takes the block back when its descriptor page is what is missing.   *)
(* The mutant tries the same page again.                                   *)
VirAllocRetries == UNCHANGED <<chain, pc, run, block, failed>>

VirAllocGivesUp ==
  /\ chain' = chain
  /\ IF pc = "map" \/ block = NoBlock
     THEN /\ pc' = IF pc = "map" THEN "idle" ELSE "panic"
          /\ block' = NoBlock
          /\ run' = NoRun
          /\ failed' = (pc = "map")
     ELSE /\ pc' = "unwind"
          /\ run' = RunOver(block)
          /\ UNCHANGED <<block, failed>>

(* One pass through the loop of vir_alloc is fis_alloc(1), paging_alloc,   *)
(* set_bit; paging_alloc takes a second page when the directory has no     *)
(* page table there.  A page table on the page after the end of memory     *)
(* cannot be cleared: its entries read back as ones, that is as present.   *)
(* The mutant of NewTable looks for it before the page has its bit.        *)
NewPage == FirstClear(fis_bitmap)
NewTableTooEarly == FirstClear(fis_bitmap)
NewTable == FirstClear(fis_bitmap \cup {NewPage})
NeedsTable == pde[PdEntry(run.page)] = 0
ReadsPresent(v) == pde[PdEntry(v)] \notin Frames \/ pte[v] # 0

Mapped(v, page) ==
  /\ pte' = [pte EXCEPT ![v] = page]
  /\ page_bitmap' = page_bitmap \cup {v}
  /\ block' = block
  /\ IF run.left > 1
     THEN /\ run' = [page |-> v + 1, left |-> run.left - 1]
          /\ UNCHANGED <<pc, chain>>
     ELSE /\ run' = NoRun
          /\ VirAllocReturns(v)

MapPage ==
  /\ pc \in {"map", "mapdesc"}
  /\ ~NeedsTable /\ ~ReadsPresent(run.page)
  /\ NewPage \in Frames
  /\ fis_bitmap' = fis_bitmap \cup {NewPage}
  /\ fis_freepages' = Minus(fis_freepages, 1)
  /\ Mapped(run.page, NewPage)
  /\ UNCHANGED <<pde, callerVars, drift>>

MapPageAndTable ==
  /\ pc \in {"map", "mapdesc"}
  /\ NeedsTable
  /\ NewPage \in Frames /\ NewTable \in Frames
  /\ fis_bitmap' = fis_bitmap \cup {NewPage, NewTable}
  /\ fis_freepages' = Minus(fis_freepages, 2)
  /\ pde' = [pde EXCEPT ![PdEntry(run.page)] = NewTable]
  /\ Mapped(run.page, NewPage)
  /\ UNCHANGED <<callerVars, drift>>

(* paging_alloc answers ERR_PAGEALREADY: vir_alloc frees the page it has   *)
(* just taken and gives up; a new page table stays in the directory, and   *)
(* the pages of the block mapped so far stay mapped.                       *)
MapRefused ==
  /\ pc \in {"map", "mapdesc"}
  /\ NewPage \in Frames
  /\ \/ /\ NeedsTable
        /\ NewTable = FisPages
        /\ fis_bitmap' = fis_bitmap \cup {NewTable}
        /\ fis_freepages' = Minus(fis_freepages, 1)
        /\ pde' = [pde EXCEPT ![PdEntry(run.page)] = NewTable]
     \/ /\ ~NeedsTable
        /\ ReadsPresent(run.page)
        /\ UNCHANGED <<fis_bitmap, fis_freepages, pde>>
  /\ VirAllocGivesUp
  /\ UNCHANGED <<page_bitmap, pte, live, nullFreed, drift>>

(* No installed page is left: fis_alloc answers with one that does not     *)
(* exist, or its search never ends.  The model stops here.                 *)
MapLost ==
  /\ pc \in {"map", "mapdesc"}
  /\ NewPage \notin Frames \/ (NeedsTable /\ NewTable > FisPages)
  /\ pc' = "lost"
  /\ UNCHANGED <<levelVars, chain, run, block, callerVars, drift>>

-----------------------------------------------------------------------------
(* new_allocation, in its three outcomes: the block goes to the first      *)
(* empty entry of the page found; or a descriptor page has to be added     *)
(* first; or there is no memory for one and mem_alloc gives the block      *)
(* back.  The caller of kmalloc has its block when the entry is written.   *)
RecordBlock ==
  /\ pc = "record"
  /\ LET i == find_first_free_desc_page
     IN  /\ chain[i].free > 0
         /\ EmptySlots(i) # {}
         /\ chain' = [chain EXCEPT ![i] =
              WithEntry(@, Lowest(EmptySlots(i)), block, @.free - 1)]
  /\ pc' = "idle"
  /\ block' = NoBlock
  /\ live' = live \cup {block}
  /\ UNCHANGED <<levelVars, run, failed, nullFreed, drift>>

AddDescriptorPage ==
  /\ pc = "record"
  /\ chain[find_first_free_desc_page].free = 0
  /\ VirAllocAccepts(1)
  /\ run' = [page |-> find_clear_bits(1), left |-> 1]
  /\ pc' = "mapdesc"
  /\ UNCHANGED <<levelVars, chain, block, callerVars, drift>>

(* The mutant of DescriptorPageRefused forgets the block it has mapped.    *)
DescriptorPageForgotten ==
  /\ pc = "record"
  /\ chain[find_first_free_desc_page].free = 0
  /\ ~VirAllocAccepts(1)
  /\ pc' = "idle" /\ block' = NoBlock
  /\ failed' = TRUE
  /\ UNCHANGED <<levelVars, chain, run, live, nullFreed, drift>>

DescriptorPageRefused ==
  /\ pc = "record"
  /\ chain[find_first_free_desc_page].free = 0
  /\ ~VirAllocAccepts(1)
  /\ run' = RunOver(block)
  /\ pc' = "unwind"
  /\ UNCHANGED <<levelVars, chain, block, callerVars, drift>>

(* A page whose counter says it has a free entry and that has none: the    *)
(* entry written is the one past the array, the counter and the next       *)
(* pointer of the page itself.  The model stops here.                      *)
RecordOverruns ==
  /\ pc = "record"
  /\ chain[find_first_free_desc_page].free > 0
  /\ EmptySlots(find_first_free_desc_page) = {}
  /\ pc' = "overrun"
  /\ UNCHANGED <<levelVars, chain, run, block, callerVars, drift>>

-----------------------------------------------------------------------------
CallerGaveUp(b) ==
  /\ live' = live \ {b}
  /\ failed' = FALSE
  /\ nullFreed' = (nullFreed \/ b = NoBlock)

(* kfree(address), as far as the loop of vir_free: free_allocation empties *)
(* the first entry that holds the address.  An empty entry holds address   *)
(* 0, which kfree(0) therefore finds.                                      *)
KfreeFinds(b) ==
  /\ pc = "idle"
  /\ MatchingPages(b.address) # {}
  /\ LET i == Lowest(MatchingPages(b.address))
         s == Lowest(Matches(i, b.address))
         found == chain[i].allocs[s]
     IN  /\ chain' = [chain EXCEPT ![i] =
                         WithEntry(@, s, NoBlock, @.free + 1)]
         /\ IF found.size = 0
            THEN UNCHANGED <<pc, run, block>>
            ELSE /\ pc' = "unmap"
                 /\ run' = RunOver(found)
                 /\ block' = found
  /\ CallerGaveUp(b)
  /\ UNCHANGED <<levelVars, drift>>

(* No searched page holds the address: kfree answers the address, and no   *)
(* caller looks at the answer.                                             *)
KfreeMisses(b) ==
  /\ pc = "idle"
  /\ MatchingPages(b.address) = {}
  /\ CallerGaveUp(b)
  /\ UNCHANGED <<levelVars, chain, pc, run, block, drift>>

(* mem_free, or the mem_alloc that gives a block back, returns.            *)
VirFreeReturns ==
  /\ pc' = "idle" /\ run' = NoRun /\ block' = NoBlock
  /\ failed' = (pc = "unwind")

(* paging_free, clear_bit and fis_free of one page; its mutants: the bit   *)
(* of the virtual page stays set, the page is not counted as free, the     *)
(* whole page table is cleared.                                            *)
UnmappedBitStays(v) ==
  /\ pte' = [pte EXCEPT ![v] = 0]
  /\ fis_bitmap' = fis_bitmap \ {pte[v]}
  /\ fis_freepages' = Plus(fis_freepages, 1)
  /\ UNCHANGED <<page_bitmap, pde>>

UnmappedUncounted(v) ==
  /\ pte' = [pte EXCEPT ![v] = 0]
  /\ page_bitmap' = page_bitmap \ {v}
  /\ fis_bitmap' = fis_bitmap \ {pte[v]}
  /\ UNCHANGED <<fis_freepages, pde>>

UnmappedTable(v) ==
  /\ pte' = [u \in HeapPages |-> IF PdEntry(u) = PdEntry(v) THEN 0 ELSE pte[u]]
  /\ page_bitmap' = page_bitmap \ {v}
  /\ fis_bitmap' = fis_bitmap \ {pte[v]}
  /\ fis_freepages' = Plus(fis_freepages, 1)
  /\ pde' = pde

Unmapped(v) ==
  /\ pte' = [pte EXCEPT ![v] = 0]
  /\ page_bitmap' = page_bitmap \ {v}
  /\ fis_bitmap' = fis_bitmap \ {pte[v]}
  /\ fis_freepages' = Plus(fis_freepages, 1)
  /\ pde' = pde

(* One pass through the loop of vir_free: the bit and the mapping are      *)
(* checked, and the page is given back.  A failed check ends the call.     *)
UnmapPage ==
  /\ pc \in {"unmap", "unwind"}
  /\ LET v == run.page
     IN  IF v \notin page_bitmap \/ pte[v] = 0
         THEN UNCHANGED levelVars /\ VirFreeReturns
         ELSE /\ Unmapped(v)
              /\ IF run.left > 1
                 THEN /\ run' = [page |-> v + 1, left |-> run.left - 1]
                      /\ UNCHANGED <<pc, block, failed>>
                 ELSE VirFreeReturns
  /\ UNCHANGED <<chain, live, nullFreed, drift>>

-----------------------------------------------------------------------------
Kmalloc == \E n \in Sizes : KmallocBegins(n) \/ KmallocRefused(n)

(* Callers free what they hold, and the 0 a failed kmalloc gave them, as   *)
(* the error path of initfs_hmount does (initfs.c:529-531).                *)
Kfree == \E b \in live \cup (IF failed THEN {NoBlock} ELSE {}) :
           KfreeFinds(b) \/ KfreeMisses(b)

Mapping == MapPage \/ MapPageAndTable \/ MapRefused \/ MapLost

Recording == RecordBlock \/ AddDescriptorPage \/ DescriptorPageRefused
               \/ RecordOverruns

(* What the kernel does inside a call; a call that was made goes on.       *)
Continue == InitDesc \/ Mapping \/ Recording \/ UnmapPage

Next == Kmalloc \/ Kfree \/ Continue

Spec == Init /\ [][Next]_kmemVars

(* The processor goes on executing the call: interrupt handlers return.    *)
FairSpec == Spec /\ WF_kmemVars(Continue)

-----------------------------------------------------------------------------
HeapBlocks == {b \in [address : HeapPages, size : 1 .. MaxPages] :
                 b.address + b.size <= MaxPages}
DescEntries == {NoBlock} \cup HeapBlocks
DescPages == [at : HeapPages, free : Nat, allocs : [Slots -> DescEntries]]

(* Every variable has its type; the only bit ever set past the end of      *)
(* memory is the first one.                                                *)
TypeOK ==
  /\ FismemTypeOK
  /\ fis_bitmap \subseteq 0 .. FisPages
  /\ page_bitmap \subseteq 0 .. MaxPages - 1
  /\ pde \in [PdEntries -> 0 .. FisPages]
  /\ pte \in [HeapPages -> Frames]
  /\ chain \in Seq(DescPages)
  /\ pc \in {"idle"} \cup Busy \cup Stopped
  /\ run \in [page : {0} \cup HeapPages, left : 0 .. MaxPages]
  /\ block \in DescEntries
  /\ live \subseteq HeapBlocks
  /\ failed \in BOOLEAN /\ nullFreed \in BOOLEAN
  /\ drift \in Drifts

MappedPages == {v \in HeapPages : pte[v] # 0}
DescriptorPages == {chain[i].at : i \in DOMAIN chain}
LiveTables == {e \in PdEntries : pde[e] # 0}
Poisoned == \E e \in PdEntries : pde[e] \notin Frames

(* A physical page has one owner.  The pages under two heap pages differ,  *)
(* no page is both mapped and a page table, the two uses have their bit    *)
(* set, and neither ever touches what boot reserved.  The bitmap of        *)
(* fismem.c, the page directory and the page tables are three separate     *)
(* records of this, and no lock or check ties them together.               *)
FramesExclusive ==
  /\ \A v \in MappedPages :
       /\ pte[v] \in fis_bitmap \ BootFrames
       /\ \A u \in MappedPages : pte[u] = pte[v] => u = v
       /\ \A e \in LiveTables : pde[e] # pte[v]
  /\ \A e \in LiveTables :
       /\ pde[e] \in fis_bitmap
       /\ e # KernelEntry => pde[e] \notin BootFrames
       /\ \A d \in LiveTables : pde[d] = pde[e] => d = e

(* vir_alloc trusts the bitmap of virtual pages, paging_alloc the page     *)
(* tables: a heap page is marked used exactly when it is mapped, in every  *)
(* state of every call.  Were it marked and not mapped, the block under it *)
(* would fault; were it mapped and not marked, every later vir_alloc there *)
(* would be refused halfway.                                               *)
BitmapMatchesPaging ==
  \A v \in HeapPages : v \in page_bitmap <=> pte[v] # 0

(* The counter of free pages never drifts: through allocations, failures   *)
(* and frees it stays below the real count by what it was off at boot, but *)
(* for the wrap-around of the unsigned counter.                            *)
CounterConserved ==
  LET real == FreeCount - Cardinality(fis_bitmap \ Frames) - drift
  IN  fis_freepages \in {real, real + UWrap}

(* A block a caller holds is recorded, every page of it is mapped, and no  *)
(* other block or descriptor page lies over it, whatever call is running.  *)
HeldBlocksIntact ==
  \A b \in live :
    /\ b \in Records
    /\ Pages(b) \subseteq MappedPages \ DescriptorPages
    /\ \A c \in Records \ {b} : Pages(b) \cap Pages(c) = {}

(* Between calls every mapped page belongs to a recorded block or is a     *)
(* descriptor page: the failures of kmalloc give back all they took, the   *)
(* refusal of a descriptor page after the block was mapped included.  The  *)
(* exception is the poisoned page table, after which vir_alloc leaves the  *)
(* pages it had mapped (virmem.c, the TODO of line 95).                    *)
NothingLeaks ==
  pc = "idle" /\ ~Poisoned =>
    MappedPages = DescriptorPages \cup UNION {Pages(b) : b \in Records}

(* The counter of a descriptor page is the number of its empty entries     *)
(* until someone frees the 0 of a failed kmalloc, and never less:          *)
(* new_allocation looks for an empty entry on its word alone.              *)
DescriptorCountsExact ==
  \A i \in DOMAIN chain :
    /\ chain[i].free >= Cardinality(EmptySlots(i))
    /\ nullFreed \/ chain[i].free = Cardinality(EmptySlots(i))

(* The checks of vir_alloc keep the kernel inside installed memory, unless *)
(* the counter says more pages are free than are (boot left it too high,   *)
(* or it wrapped below 0) or the call itself creates a page table, which   *)
(* the checks do not count: it is about to, or it has, and all that is     *)
(* mapped through that table belongs to the block of the call.             *)
MappedThrough(e) == {v \in MappedPages : PdEntry(v) = e}

LostOnlyByTables ==
  pc = "lost" =>
    \/ fis_freepages > FreeCount
    \/ NeedsTable
    \/ \E e \in LiveTables \ {KernelEntry} :
         MappedThrough(e) # {} /\ MappedThrough(e) \subseteq Pages(block)

(* A call never touches the pages of the blocks others hold: whatever runs *)
(* next, a held block stays over the same physical pages.                  *)
HeldPagesStayPut ==
  [][\A b \in live \cap live' : \A v \in Pages(b) : pte'[v] = pte[v]]_kmemVars

(* Every call returns, or has stopped the kernel.                          *)
CallsReturn == pc \in Busy ~> pc \in {"idle"} \cup Stopped

(* The heap keeps the promise of module Heap.                              *)
TheHeap == INSTANCE Heap WITH
             Space <- HeapPages, BlockSizes <- Sizes,
             blocks <- Records, held <- live
HeapPromise == TheHeap!Spec

-----------------------------------------------------------------------------
(* What the code says of itself and does not do; see the README.           *)

(* free_allocation goes over all the pages to find the descriptor to empty *)
(* (mem_desc.c:140): a freed block is no longer recorded, if no one freed  *)
(* a 0 before.                                                             *)
FreedBlocksForgotten ==
  pc = "idle" /\ ~nullFreed => Records \subseteq live

=============================================================================
