------------------------------- MODULE MemArea -------------------------------
(***************************************************************************)
(* The memory areas of tasks: init_memory_area, free_memory_area,          *)
(* switch_memory_area (src/mm/mem_area.c), the page directories under them *)
(* (src/mm/paging.c) and the page fault handler (src/mm/page_fault.c).     *)
(*                                                                         *)
(* Directories and page tables are the same thing, pages of entries that   *)
(* the processor and the kernel read in different ways.  word[f] is the    *)
(* content of physical page f when f is a directory or a table.  The       *)
(* processor walks from the directory in CR3.  paging.c instead works at   *)
(* PD_VIRT and PT_VIRT, the last page and the last table of the address    *)
(* space, where the entry of a directory that points to a directory makes  *)
(* the tables appear as data; what it finds there need not be the          *)
(* directory in CR3, and in a task it is not.                              *)
(*                                                                         *)
(* vir_alloc maps one page per step, because tables and pages come from    *)
(* the same memory; the other calls run undisturbed (no interrupt handler  *)
(* calls the memory manager).  The kernel's descriptors are the one page   *)
(* of them made at boot: the model stays below the number of blocks it     *)
(* records, and leaves the chain of pages to module KMem.  The counter of  *)
(* free pages is right.                                                    *)
(***************************************************************************)
EXTENDS Integers, FiniteSets

CONSTANTS
  FisPages,      \* physical pages installed
  TableEntries,  \* TABLE_ENTRIES, of a directory and of a table
  LowPages,      \* the pages of the first megabyte
  ImagePages,    \* the pages of the kernel image, as init_paging maps them
  KernelEntry,   \* the directory entry of g_start, 768
  AreaPages,     \* pages of a memory_area
  DirPages,      \* pages init_paging_data asks for: sizeof(pagedir_t), 4096
  KernelSizes,   \* the sizes kernel code asks kmalloc for, in pages
  TaskSizes,     \* the sizes asked for in the area of a task
  Descriptors,   \* bound: ALLOC_NUM, the blocks a descriptor page records
  MaxHeld,       \* bound: the blocks kernel code holds at a time
  MaxTaskBlocks  \* bound: the blocks a task holds at a time

ASSUME MemAreaAssumption ==
  /\ FisPages \in Nat /\ TableEntries \in Nat
  /\ LowPages \in 4 .. TableEntries - 1
  /\ KernelEntry \in LowPages + 1 .. TableEntries - 2
  /\ ImagePages \in 1 .. TableEntries - 1
  /\ LowPages + ImagePages < FisPages
  /\ AreaPages \in Nat \ {0} /\ DirPages \in Nat \ {0}
  /\ KernelSizes \subseteq Nat \ {0} /\ TaskSizes \subseteq Nat \ {0}
  /\ Descriptors \in Nat /\ MaxHeld \in Nat /\ MaxTaskBlocks \in Nat

VARIABLES
  used,       \* fis_bitmap, the physical pages taken
  word,       \* the entries of the pages that are directories or tables
  heap,       \* kmem_area.page_bitmap, as far as the kernel's heap goes
  kdesc,      \* kmem_area.first_alloc->allocs: the kernel's descriptors
  held,       \* those that kernel code other than mem_area.c holds
  area,       \* address -> memory_area, of the areas that exist
  cmem_area,  \* the current area's address, 0: kmem_area
  pc,         \* what the kernel is executing
  job,        \* the loop of vir_alloc: for whom, next page, end, purpose
  fault       \* the fault being handled: the page and EIP's parity

memVars == <<used, word, heap>>
ownVars == <<kdesc, held, area, cmem_area>>
vars == <<memVars, ownVars, pc, job, fault>>

Frames == 0 .. FisPages - 1
Entries == 0 .. TableEntries - 1
Last == TableEntries - 1
VirtPages == 0 .. TableEntries * TableEntries - 1
Entry(v) == v \div TableEntries
Slot(v) == v % TableEntries

(* The pages init_paging uses: the directory at KERNEL_PAGEDIR_TMP and its *)
(* two tables, all in the first megabyte; the image is loaded behind it.   *)
KernelDir == 1
LowTable == 2
KernelTable == 3
BootFrames == 0 .. LowPages + ImagePages - 1

KernelStart == KernelEntry * TableEntries
HeapStart == KernelStart + ImagePages
HeapPages == HeapStart .. Last * TableEntries - 1
TaskPages == LowPages .. KernelStart - 1

PageRange(at, n) == at .. at + n - 1
PagesOf(blocks) == UNION {PageRange(b.address, b.size) : b \in blocks}
Slots == 1 .. Descriptors
NoBlock == [address |-> 0, size |-> 0]
NoJob == [owner |-> 0, first |-> 0, next |-> 0, end |-> 0, for |-> "none"]
NoFault == [page |-> 0, odd |-> FALSE]

Lowest(S) == CHOOSE p \in S : \A q \in S : p <= q

-----------------------------------------------------------------------------
(* What the processor finds for page v when CR3 is d, and what paging.c    *)
(* finds: the directory at PD_VIRT, the table at PT_VIRT for an entry, and *)
(* with them get_physical.  0 is a page or table that is not present.      *)
Translate(d, v) ==
  IF word[d][Entry(v)] = 0 THEN 0 ELSE word[word[d][Entry(v)]][Slot(v)]

PD_VIRT(d) == word[word[d][Last]][Last]
PT_VIRT(d, e) == word[word[d][Last]][e]
get_physical(d, v) ==
  IF word[PD_VIRT(d)][Entry(v)] = 0 THEN 0
  ELSE word[PT_VIRT(d, Entry(v))][Slot(v)]

CR3 == IF cmem_area = 0 THEN KernelDir ELSE area[cmem_area].pagedir

(* The checks of vir_alloc: a run of clear pages that ends before MAX_PAGES *)
(* and enough physical memory for the pages, not for their tables.  The    *)
(* bitmap of a task is clear from the first megabyte to the kernel.        *)
Bitmap(owner) == IF owner = 0 THEN heap ELSE area[owner].bitmap
Space(owner) == IF owner = 0 THEN HeapPages ELSE TaskPages
Runs(owner, n) ==
  {v \in Space(owner) :
     PageRange(v, n) \subseteq Space(owner) \ Bitmap(owner)}
VirAllocAccepts(owner, n) ==
  /\ Runs(owner, n) # {}
  /\ n <= Cardinality(Frames \ used)

Begin(owner, n, for) ==
  LET v == Lowest(Runs(owner, n))
  IN  /\ pc' = "map"
      /\ job' = [owner |-> owner, first |-> v, next |-> v, end |-> v + n,
                 for |-> for]

Idle == pc' = "idle" /\ job' = NoJob

(* vir_free of a set of pages seen through CR3: the entries are emptied    *)
(* and the physical pages given back.  What those contained is forgotten.  *)
EmptyTable == [i \in Entries |-> 0]
Emptied(d, pages) ==
  LET slots(f) == {Slot(v) : v \in {p \in pages : PT_VIRT(d, Entry(p)) = f}}
  IN  [f \in Frames |->
         IF \E p \in pages : get_physical(d, p) = f THEN EmptyTable
         ELSE IF slots(f) = {} THEN word[f]
         ELSE [i \in Entries |-> IF i \in slots(f) THEN 0 ELSE word[f][i]]]
Unmapped(d, pages) ==
  /\ used' = used \ {get_physical(d, v) : v \in pages}
  /\ word' = Emptied(d, pages)

(* new_allocation takes the first descriptor without a size.               *)
FreeSlots == {i \in Slots : kdesc[i].size = 0}
NewAllocation(b) == [kdesc EXCEPT ![Lowest(FreeSlots)] = b]

(* mem_free in the kernel's area goes by the address alone: free_allocation *)
(* empties the first descriptor that records it, whoever made that, and    *)
(* vir_free gives back as many pages as it says, up to one whose bit is    *)
(* clear or that is not mapped.                                            *)
SlotsOf(v) == {i \in Slots : kdesc[i].address = v}
FreeAllocation(v) ==
  IF SlotsOf(v) = {} THEN kdesc
  ELSE [kdesc EXCEPT ![Lowest(SlotsOf(v))] = NoBlock]
SizeFound(v) == IF SlotsOf(v) = {} THEN 0 ELSE kdesc[Lowest(SlotsOf(v))].size
PagesFreed(d, v, bitmap) ==
  {p \in PageRange(v, SizeFound(v)) :
     \A q \in v .. p : q \in bitmap /\ get_physical(d, q) # 0}

-----------------------------------------------------------------------------
(* init_paging, after remove_kernelident, and the init_desc of the kernel. *)
BootWord ==
  [f \in Frames |-> [i \in Entries |->
    CASE f = KernelDir /\ i = 0 -> LowTable
      [] f = KernelDir /\ i = KernelEntry -> KernelTable
      [] f = KernelDir /\ i = Last -> KernelDir
      [] f = LowTable /\ i \in 1 .. LowPages - 1 -> i
      [] f = KernelTable /\ i \in 0 .. ImagePages -> LowPages + i
      [] OTHER -> 0]]

Init ==
  /\ used = BootFrames \cup {LowPages + ImagePages}
  /\ word = BootWord
  /\ heap = {HeapStart}
  /\ kdesc = [i \in Slots |-> NoBlock] /\ held = {}
  /\ area = [a \in {} |-> 0]
  /\ cmem_area = 0
  /\ pc = "idle" /\ job = NoJob
  /\ fault = NoFault

-----------------------------------------------------------------------------
(* Blocks of kernel code and of tasks.  A call that is refused changes     *)
(* nothing and is no step.                                                 *)
KernelAlloc(n) ==
  /\ pc = "idle" /\ Cardinality(held) < MaxHeld
  /\ FreeSlots # {} /\ VirAllocAccepts(0, n)
  /\ Begin(0, n, "kernel")
  /\ UNCHANGED <<memVars, ownVars, fault>>

TaskAlloc(n) ==
  /\ pc = "idle" /\ cmem_area # 0
  /\ Cardinality(area[cmem_area].blocks) < MaxTaskBlocks
  /\ VirAllocAccepts(cmem_area, n)
  /\ Begin(cmem_area, n, "task")
  /\ UNCHANGED <<memVars, ownVars, fault>>

KernelFree(b) ==
  /\ pc = "idle" /\ b \in held
  /\ Unmapped(CR3, PagesFreed(CR3, b.address, heap))
  /\ heap' = heap \ PagesFreed(CR3, b.address, heap)
  /\ kdesc' = FreeAllocation(b.address) /\ held' = held \ {b}
  /\ UNCHANGED <<area, cmem_area, pc, job, fault>>

(* The blocks of a task lie apart and none is given back in part, so that  *)
(* in its own descriptors an address stands for one block.                 *)
TaskFree(b) ==
  /\ pc = "idle" /\ cmem_area # 0
  /\ b \in area[cmem_area].blocks
  /\ Unmapped(CR3, PageRange(b.address, b.size))
  /\ area' = [area EXCEPT ![cmem_area].blocks = @ \ {b},
                ![cmem_area].bitmap = @ \ PageRange(b.address, b.size)]
  /\ UNCHANGED <<heap, kdesc, held, cmem_area, pc, job, fault>>

(* switch_memory_area, to a task or back.                         *)
Switch(a) ==
  /\ pc = "idle" /\ a # cmem_area
  /\ cmem_area' = a
  /\ UNCHANGED <<memVars, kdesc, held, area, pc, job, fault>>

-----------------------------------------------------------------------------
(* init_memory_area, called from the area of the kernel: the memory_area,  *)
(* the directory, and then, in the new area, its page of descriptors.      *)
NoArea == [dir |-> 0, pagedir |-> 0, bitmap |-> {}, first |-> 0,
           blocks |-> {}]
Made == CHOOSE a \in DOMAIN area : area[a].first = 0
WithArea(a, rec) ==
  [x \in DOMAIN area \cup {a} |-> IF x = a THEN rec ELSE area[x]]
WithoutArea(a) == [x \in DOMAIN area \ {a} |-> area[x]]

InitMemoryArea ==
  /\ pc = "idle" /\ cmem_area = 0
  /\ \E i, j \in FreeSlots : i # j
  /\ VirAllocAccepts(0, AreaPages)
  /\ Begin(0, AreaPages, "area")
  /\ UNCHANGED <<memVars, ownVars, fault>>

AllocDirectory ==
  /\ pc = "directory"
  /\ VirAllocAccepts(0, DirPages)
  /\ Begin(0, DirPages, "directory")
  /\ UNCHANGED <<memVars, ownVars, fault>>

(* mem_free(&kmem_area, mem_area), back in the kernel's area.              *)
AreaBlock(a) == [address |-> a, size |-> AreaPages]
AreaGivenBack(a) ==
  /\ Unmapped(KernelDir, PagesFreed(KernelDir, a, heap))
  /\ heap' = heap \ PagesFreed(KernelDir, a, heap)
  /\ kdesc' = FreeAllocation(a)
  /\ area' = WithoutArea(a)

(* exit_failure1: no memory for the directory.                             *)
DirectoryRefused ==
  /\ pc = "directory"
  /\ ~VirAllocAccepts(0, DirPages)
  /\ AreaGivenBack(Made)
  /\ Idle
  /\ UNCHANGED <<held, cmem_area, fault>>

(* init_paging_data fills the directory from the one at PD_VIRT: the entry *)
(* of the first table, which maps the first megabyte and everything else   *)
(* below TABLE_ENTRIES pages, and all entries from the kernel's up, the    *)
(* last one included.  Then the switch to the new area.  The mutant makes  *)
(* the last entry point to the directory itself.                           *)
DirectoryRecursive(f) ==
  [e \in Entries |-> IF e = Last THEN f
     ELSE IF e = 0 \/ e >= KernelEntry THEN word[PD_VIRT(CR3)][e] ELSE 0]
Directory(f) ==
  [e \in Entries |->
     IF e = 0 \/ e >= KernelEntry THEN word[PD_VIRT(CR3)][e] ELSE 0]

InitPagingData ==
  /\ pc = "paging"
  /\ LET f == get_physical(CR3, job.first)
     IN  /\ word' = [word EXCEPT ![f] = Directory(f)]
         /\ area' = [area EXCEPT ![Made].dir = job.first,
                                 ![Made].pagedir = f]
  /\ cmem_area' = Made
  /\ pc' = "desc" /\ job' = NoJob
  /\ UNCHANGED <<used, heap, kdesc, held, fault>>

InitDesc ==
  /\ pc = "desc"
  /\ IF VirAllocAccepts(cmem_area, 1)
     THEN Begin(cmem_area, 1, "desc")
     ELSE pc' = "failed" /\ job' = NoJob
  /\ UNCHANGED <<memVars, ownVars, fault>>

(* exit_failure3: back in the kernel's area, free_paging_data is called    *)
(* with the physical address of the directory, as if it were virtual.      *)
(* Nothing is mapped there, as a rule, and it answers -1; if a page is, it *)
(* takes what it reads in that page for a directory, and the model stops.  *)
(* The mutant forgets to switch back.                                      *)
StillSwitched == cmem_area
SwitchedBack == 0
FreedPagingData(a) == get_physical(KernelDir, area[a].pagedir)

InitMemoryAreaFails ==
  /\ pc = "failed"
  /\ cmem_area' = SwitchedBack
  /\ IF FreedPagingData(cmem_area) = 0
     THEN AreaGivenBack(cmem_area) /\ Idle
     ELSE pc' = "wild" /\ UNCHANGED <<memVars, kdesc, area, job>>
  /\ UNCHANGED <<held, fault>>

(* free_memory_area, from the area of the kernel: the blocks of the task,  *)
(* its page of descriptors, the tables of its directory between the        *)
(* entries 256, the number of pages in a megabyte, and 768, one page of    *)
(* the block of the directory and the memory_area.  The descriptor of the  *)
(* directory is left as it is; the mutant gives back all of its pages.     *)
TablesOf(f) == {word[f][e] : e \in LowPages .. KernelEntry - 1} \ {0}
WholeDirectoryFreed(a) == PageRange(area[a].dir, DirPages)
DirPagesFreed(a) == {area[a].dir}

FreeMemoryArea(a) ==
  /\ pc = "idle" /\ cmem_area = 0
  /\ LET task == PagesOf(area[a].blocks) \cup {area[a].first}
         kernel == DirPagesFreed(a)
                     \cup PagesFreed(KernelDir, a, heap \ DirPagesFreed(a))
     IN  /\ used' = (used \ TablesOf(area[a].pagedir))
                      \ {get_physical(KernelDir, v) : v \in task \cup kernel}
         /\ word' = Emptied(KernelDir, task \cup kernel)
         /\ heap' = heap \ kernel
  /\ kdesc' = FreeAllocation(a)
  /\ area' = WithoutArea(a)
  /\ UNCHANGED <<held, cmem_area, pc, job, fault>>

-----------------------------------------------------------------------------
(* The loop of vir_alloc: fis_alloc(1), then paging_alloc on the directory *)
(* at PD_VIRT, which takes one more page for a table that is missing and   *)
(* enters the tables of the kernel in the directory of the kernel too.     *)
(* The mutant of PageAlready maps over a page that is present.             *)
NewPage == Lowest(Frames \ used)
NewTable == Lowest(Frames \ (used \cup {NewPage}))
NeedsTable == word[PD_VIRT(CR3)][Entry(job.next)] = 0
PageOverwritten == FALSE
PageAlready == ~NeedsTable /\ get_physical(CR3, job.next) # 0
MemoryLeft == Cardinality(Frames \ used) >= (IF NeedsTable THEN 2 ELSE 1)

TableEntered ==
  LET e == Entry(job.next)
      dirs == {PD_VIRT(CR3)} \cup (IF e >= KernelEntry THEN {KernelDir}
                                    ELSE {})
  IN  [f \in Frames |->
         CASE f \in dirs -> [word[f] EXCEPT ![e] = NewTable]
           [] f = NewTable -> EmptyTable
           [] OTHER -> word[f]]

(* What the caller does with the block when the loop ends.                 *)
NewBlock == [address |-> job.first, size |-> job.end - job.first]
Recorded ==
  CASE job.for \in {"kernel", "area", "directory"} ->
         /\ kdesc' = NewAllocation(NewBlock)
         /\ held' = IF job.for = "kernel" THEN held \cup {NewBlock} ELSE held
         /\ cmem_area' = cmem_area
    [] job.for = "task" -> UNCHANGED <<kdesc, held, cmem_area>>
    [] job.for = "desc" -> cmem_area' = 0 /\ UNCHANGED <<kdesc, held>>

AreaAfter(last) ==
  CASE job.for = "area" -> IF last THEN WithArea(job.first, NoArea) ELSE area
    [] job.for = "task" ->
         [area EXCEPT
            ![job.owner].bitmap = @ \cup {job.next},
            ![job.owner].blocks = IF last THEN @ \cup {NewBlock} ELSE @]
    [] job.for = "desc" ->
         [area EXCEPT ![job.owner].bitmap = @ \cup {job.next},
                      ![job.owner].first = job.first]
    [] OTHER -> area

Goes == CASE job.for = "area" -> "directory"
          [] job.for = "directory" -> "paging"
          [] OTHER -> "idle"

MapPage ==
  /\ pc = "map"
  /\ MemoryLeft /\ ~PageAlready
  /\ LET table == IF NeedsTable THEN TableEntered ELSE word
         t == IF NeedsTable THEN NewTable ELSE PT_VIRT(CR3, Entry(job.next))
         last == job.next + 1 = job.end
     IN  /\ word' = [table EXCEPT ![t][Slot(job.next)] = NewPage]
         /\ used' = used \cup {NewPage}
                      \cup (IF NeedsTable THEN {NewTable} ELSE {})
         /\ heap' = IF job.owner = 0 THEN heap \cup {job.next} ELSE heap
         /\ area' = AreaAfter(last)
         /\ IF last
            THEN /\ Recorded
                 /\ pc' = Goes
                 /\ job' = IF Goes = "paging" THEN job ELSE NoJob
            ELSE /\ job' = [job EXCEPT !.next = @ + 1]
                 /\ UNCHANGED <<pc, kdesc, held, cmem_area>>
  /\ fault' = fault

(* The page is present already: vir_alloc gives back the page it has just  *)
(* taken and answers 0, to init_desc or to mem_alloc.                      *)
MapRefused ==
  /\ pc = "map"
  /\ Frames \ used # {} /\ PageAlready
  /\ pc' = IF job.for = "desc" THEN "failed" ELSE "idle"
  /\ job' = NoJob
  /\ UNCHANGED <<memVars, ownVars, fault>>

(* No installed page is left; module KMem follows this further.            *)
MapLost ==
  /\ pc = "map"
  /\ ~MemoryLeft /\ (Frames \ used # {} => ~PageAlready)
  /\ pc' = "lost"
  /\ UNCHANGED <<memVars, ownVars, job, fault>>

-----------------------------------------------------------------------------
(* Code uses a page of a block it holds: kernel code in whatever area is   *)
(* current, a task its own.  The access only matters to the model when the *)
(* processor does not find the page; the instruction that makes it is at   *)
(* an odd address or at an even one.                                       *)
Usable ==
  PagesOf(held) \cup
    (IF cmem_area = 0 THEN {} ELSE PagesOf(area[cmem_area].blocks))

Faults(v, odd) ==
  /\ pc = "idle"
  /\ Translate(CR3, v) = 0
  /\ pc' = "fault"
  /\ fault' = [page |-> v, odd |-> odd]
  /\ UNCHANGED <<memVars, ownVars, job>>

(* page_fault stands in the interrupt table itself, and the processor      *)
(* pushes the error code last: what the function takes for its argument is *)
(* EIP, whose lowest bit decides between a missing page and a violated     *)
(* protection, and its return takes the error code, 0 or 2, for the        *)
(* address to go on at, in page 0, which is never mapped.                  *)
Repairable ==
  /\ ~fault.odd
  /\ fault.page >= KernelStart
  /\ word[KernelDir][Entry(fault.page)] # 0

ReturnsTo == [page |-> 0, odd |-> FALSE]

CopiesEntry ==
  /\ pc = "fault"
  /\ Repairable
  /\ word' = [word EXCEPT ![PD_VIRT(CR3)][Entry(fault.page)] =
                 word[KernelDir][Entry(fault.page)]]
  /\ fault' = ReturnsTo
  /\ UNCHANGED <<used, heap, ownVars, pc, job>>

FaultPanics ==
  /\ pc = "fault"
  /\ ~Repairable
  /\ pc' = "panic"
  /\ UNCHANGED <<memVars, ownVars, job, fault>>

-----------------------------------------------------------------------------
Allocate == \E n \in KernelSizes : KernelAlloc(n)
AllocateInTask == \E n \in TaskSizes : TaskAlloc(n)
Free == \E b \in held : KernelFree(b)
FreeInTask ==
  \E b \in (IF cmem_area = 0 THEN {} ELSE area[cmem_area].blocks) :
    TaskFree(b)
SwitchArea == \E a \in {0} \cup DOMAIN area : Switch(a)
FreeArea == \E a \in DOMAIN area : FreeMemoryArea(a)
Use == \E v \in Usable, odd \in BOOLEAN : Faults(v, odd)
Mapping == MapPage \/ MapRefused \/ MapLost
Making == AllocDirectory \/ DirectoryRefused \/ InitPagingData \/ InitDesc
            \/ InitMemoryAreaFails
Handling == CopiesEntry \/ FaultPanics

Continue == Mapping \/ Making \/ Handling

Next ==
  \/ Allocate \/ AllocateInTask \/ Free \/ FreeInTask
  \/ SwitchArea \/ InitMemoryArea \/ FreeArea \/ Use
  \/ Continue

Spec == Init /\ [][Next]_vars

(* The processor goes on with a call or a handler once it is in it.        *)
FairSpec == Spec /\ WF_vars(Continue)

-----------------------------------------------------------------------------
Blocks == [address : VirtPages, size : 1 .. TableEntries * TableEntries]
Areas == [dir : VirtPages, pagedir : Frames, bitmap : SUBSET TaskPages,
          first : {0} \cup TaskPages, blocks : SUBSET Blocks]

(* Every variable has its type.                                            *)
TypeOK ==
  /\ used \subseteq Frames
  /\ word \in [Frames -> [Entries -> Frames]]
  /\ heap \subseteq HeapPages
  /\ kdesc \in [Slots -> Blocks \cup {NoBlock}] /\ held \subseteq Blocks
  /\ DOMAIN area \subseteq HeapPages
  /\ \A a \in DOMAIN area : area[a] \in Areas
  /\ cmem_area \in {0} \cup DOMAIN area
  /\ pc \in {"idle", "map", "directory", "paging", "desc", "failed", "fault",
             "panic", "lost", "wild"}
  /\ fault \in [page : VirtPages, odd : BOOLEAN]

Built == {a \in DOMAIN area : area[a].pagedir # 0}
Complete == {a \in DOMAIN area : area[a].first # 0}

(* The directory of a task is a copy of the kernel's taken once, and the   *)
(* copy goes stale, but never wrong: an entry is the kernel's or missing,  *)
(* and below the kernel there is nothing but the first table.  The reason  *)
(* is the last entry: copied with the others, it shows the kernel's        *)
(* directory at PD_VIRT in every area, so that paging_alloc and page_fault *)
(* never write the directory of the task they run for.                     *)
TasksOwnNoTables ==
  \A a \in Built :
    LET d == area[a].pagedir
    IN  /\ PD_VIRT(d) = KernelDir
        /\ \A e \in Entries : word[d][e] \in {0, word[KernelDir][e]}
        /\ \A e \in 1 .. KernelEntry - 1 : word[d][e] = 0

(* There is never more than one finished memory area: the first page a     *)
(* task is given lies in the first table, which all directories share, so  *)
(* the init_desc of a second area finds it present.                        *)
OneTask ==
  /\ Cardinality(Complete) <= 1
  /\ \A a \in Complete : get_physical(KernelDir, LowPages) # 0

(* Whatever is given back takes nothing from anybody else.  The descriptor *)
(* of a directory outlives it, and says two pages where one was given      *)
(* back; a block that is made at the same address later can be freed       *)
(* through it, and its own descriptor outlives it in turn.  Pages are lost *)
(* in this way, but never those of a block somebody holds, of an area or   *)
(* of a directory: no physical page is under two virtual pages, and        *)
(* between calls the known blocks lie apart, all their pages are taken and *)
(* mapped, and every page of the heap but the first stands in a descriptor.*)
KnownBlocks == held \cup {AreaBlock(a) : a \in DOMAIN area}
                 \cup {[address |-> area[a].dir, size |-> DirPages] :
                         a \in Built}
MappedPages == {v \in HeapPages \cup TaskPages : get_physical(KernelDir, v) # 0}
RecordedPages == PagesOf({kdesc[i] : i \in Slots})
ReleasesTakeOwnPages ==
  /\ \A v, u \in MappedPages :
       get_physical(KernelDir, v) = get_physical(KernelDir, u) => v = u
  /\ pc = "idle" =>
       /\ \A b, c \in KnownBlocks :
            b # c => PageRange(b.address, b.size)
                       \cap PageRange(c.address, c.size) = {}
       /\ PagesOf(KnownBlocks) \subseteq heap \ {HeapStart}
       /\ heap \subseteq {HeapStart} \cup RecordedPages
       /\ heap = MappedPages \cap HeapPages

(* What page_fault says of its second case: a page of the kernel that is   *)
(* allocated and not present is mapped.                                    *)
AllocatedPageMapped ==
  \A v \in HeapPages :
    (pc = "fault" /\ fault.page = v /\ v \in heap) ~> Translate(CR3, v) # 0

=============================================================================
