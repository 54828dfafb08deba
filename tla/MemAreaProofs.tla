---------------------------- MODULE MemAreaProofs ----------------------------
(***************************************************************************)
(* Proofs about the memory areas: every variable keeps its type, no        *)
(* directory of a task has a table of its own, there is never a second     *)
(* finished task, and what is given back takes no page of anybody else.    *)
(* All four follow from one inductive invariant, IInv.  At the end, that   *)
(* no page fault returns to the instruction that made it.                  *)
(*                                                                         *)
(* None of the four is inductive, and they need each other. That a         *)
(* directory keeps its content depends on the page it lies in, which no    *)
(* other page may map and no table may be (MemInv); that no page is mapped *)
(* twice depends on what paging_alloc finds at PD_VIRT, which in a task is *)
(* the directory of the kernel only as long as the task's last entry shows *)
(* it (DirectoryInv). What may be mapped next is decided by bitmaps, so    *)
(* these must say what is mapped (BitmapsTell). The blocks of the kernel   *)
(* must lie apart, those that are in the making too, for one that is freed *)
(* to take no page of another (BlocksInv); and as it is freed by address,  *)
(* maybe through a descriptor that is not its own, descriptors nobody      *)
(* knows of must take no page of a block either (SlotsInv). Which area a   *)
(* call works for is only known from where the call stands (AreasInv,      *)
(* JobInv).                                                                *)
(*                                                                         *)
(* The proof has a lemma for each way memory changes (a page entered in a  *)
(* table, one entered with its table, pages emptied, a directory filled),  *)
(* each telling what becomes of Table and Page, and a lemma for each       *)
(* action. Table(e) and Page(v) are what the kernel's directory shows at   *)
(* an entry and at a page, and by lemma Current what every area sees.      *)
(***************************************************************************)
EXTENDS MemArea, TLAPS, FiniteSetTheorems, NaturalsInduction, WellFoundedInduction

(* The tables and pages the kernel's directory shows, and the pages that   *)
(* are given out: the kernel's heap and the space of tasks.                *)
Table(e) == word[KernelDir][e]
Page(v) == get_physical(KernelDir, v)
Managed == HeapPages \cup TaskPages

WordTyped == used \subseteq Frames /\ word \in [Frames -> [Entries -> Frames]]

(* The tables lie in pages of their own, taken and not of the boot, but    *)
(* for the first table, the one of the image and the last entry, which is  *)
(* the directory.                                                          *)
TablesApart ==
  /\ BootFrames \subseteq used
  /\ Table(0) = LowTable /\ Table(KernelEntry) = KernelTable
  /\ Table(Last) = KernelDir
  /\ \A e \in Entries \ {0, KernelEntry, Last} :
       Table(e) # 0 => Table(e) \in used \ BootFrames
  /\ \A e, g \in Entries : Table(e) = Table(g) => e = g \/ Table(e) = 0

(* A mapped page lies in a taken page of memory that is no table and is    *)
(* mapped once.                                                            *)
PagesApart ==
  /\ \A v \in Managed : Page(v) # 0 =>
       Page(v) \in used \ BootFrames /\ \A e \in Entries : Table(e) # Page(v)
  /\ \A v, u \in Managed : Page(v) = Page(u) => v = u \/ Page(v) = 0

MemInv == WordTyped /\ TablesApart /\ PagesApart

(* The directory of a task: its last entry shows the kernel's, the others  *)
(* are the kernel's or missing.                                            *)
DirectoryAt(d) ==
  /\ word[d][Last] = KernelDir
  /\ \A e \in Entries : word[d][e] \in {0, Table(e)}
  /\ \A e \in 1 .. KernelEntry - 1 : word[d][e] = 0
DirectoryInv ==
  \A a \in Built :
    /\ area[a].dir \in HeapPages /\ area[a].pagedir = Page(area[a].dir)
    /\ DirectoryAt(area[a].pagedir)

(* The bitmaps tell which pages are mapped.                                *)
BitmapsTell ==
  /\ heap \subseteq HeapPages /\ HeapStart \in heap
  /\ \A v \in HeapPages : v \in heap <=> Page(v) # 0
  /\ \A v \in TaskPages :
       Page(v) # 0 <=> \E a \in DOMAIN area : v \in area[a].bitmap

(* The pages vir_alloc has mapped so far and those it has left, and of the *)
(* kernel's heap the pages that are mapped and belong to no recorded part  *)
(* yet.                                                                    *)
InJob == pc \in {"map", "lost"}
JobDone == PageRange(job.first, job.next - job.first)
JobLeft == PageRange(job.next, job.end - job.next)
KernelJobPages ==
  IF InJob /\ job.owner = 0 THEN JobDone
  ELSE IF pc = "paging" THEN PageRange(job.first, DirPages) ELSE {}

(* The parts of the kernel's heap somebody knows of: blocks of kernel      *)
(* code, memory_areas and directories.                                     *)
DirBlock(a) == [address |-> area[a].dir, size |-> DirPages]
Part(role, a, b) == [role |-> role, of |-> a, block |-> b]
Parts ==
  {Part("held", 0, b) : b \in held}
    \cup {Part("area", a, AreaBlock(a)) : a \in DOMAIN area}
    \cup {Part("directory", a, DirBlock(a)) : a \in Built}
PartPages(p) == PageRange(p.block.address, p.block.size)

(* The parts are recorded and lie apart, from one another and from what is *)
(* being mapped; and every page of the heap is in a recorded block or      *)
(* being mapped.                                                           *)
Records == {kdesc[i] : i \in Slots}
BlocksInv ==
  /\ kdesc \in [Slots -> Blocks \cup {NoBlock}]
  /\ \A p \in Parts : p.block \in Records \cap Blocks
                       /\ PartPages(p) \subseteq heap \ {HeapStart}
  /\ \A p, q \in Parts : p # q => PartPages(p) \cap PartPages(q) = {}
  /\ KernelJobPages \subseteq heap \ {HeapStart}
  /\ \A p \in Parts : PartPages(p) \cap KernelJobPages = {}
  /\ heap \subseteq {HeapStart} \cup PagesOf(Records) \cup KernelJobPages

(* A descriptor can be found by a free that means another block at the     *)
(* same address.  What it then takes with the first page is its tail: the  *)
(* tails of all descriptors, known and forgotten, are taken, lie apart and *)
(* hold no page a known block begins with, nor one being mapped that may.  *)
Tail(i) == PageRange(kdesc[i].address + 1, kdesc[i].size - 1)
JobHeads == {v \in KernelJobPages : pc = "paging" => v = job.first}
PartHeads == {HeapStart} \cup {p.block.address : p \in Parts}
SlotsInv ==
  /\ \A i \in Slots : Tail(i) \subseteq heap
  /\ \A i \in Slots : Tail(i) \cap (PartHeads \cup JobHeads) = {}
  /\ \A i, j \in Slots : i # j => Tail(i) \cap Tail(j) = {}

(* The descriptor page has room for the block in the making.               *)
Recording == (InJob /\ job.owner = 0) \/ pc = "directory"
TwoFree == \E i, j \in FreeSlots : i # j
RoomInv ==
  /\ Recording => FreeSlots # {}
  /\ InJob /\ job.for = "area" => TwoFree

(* An area is unfinished while init_memory_area runs, and only then.       *)
Building ==
  \/ pc \in {"directory", "paging", "desc", "failed", "wild"}
  \/ InJob /\ job.for \in {"directory", "desc"}
Unfinished == DOMAIN area \ Complete
TaskJobPages(a) ==
  IF InJob /\ job.for = "task" /\ job.owner = a THEN JobDone ELSE {}

(* A finished area has its page of descriptors and blocks that lie apart.  *)
TaskOf(a) ==
  /\ a \in Built /\ area[a].first = LowPages
  /\ area[a].bitmap = {LowPages} \cup PagesOf(area[a].blocks) \cup TaskJobPages(a)
  /\ LowPages \notin PagesOf(area[a].blocks) \cup TaskJobPages(a)
  /\ PagesOf(area[a].blocks) \cap TaskJobPages(a) = {}
  /\ \A b, c \in area[a].blocks :
       b # c => PageRange(b.address, b.size) \cap PageRange(c.address, c.size) = {}

AreasInv ==
  /\ DOMAIN area \subseteq HeapPages
  /\ \A a \in DOMAIN area : area[a] \in Areas
  /\ \A a \in Unfinished : Building /\ area[a].bitmap = {} /\ area[a].blocks = {}
  /\ \A a, c \in Unfinished : a = c
  /\ \A a, c \in Complete : a = c
  /\ \A a \in Complete : TaskOf(a)
  /\ cmem_area \in {0} \cup Built

(* Where the kernel is, and what it is there for.                          *)
JobInv ==
  /\ pc \in {"idle", "map", "directory", "paging", "desc", "failed", "fault",
             "panic", "lost", "wild"}
  /\ fault \in [page : VirtPages, odd : BOOLEAN]
  /\ InJob =>
       /\ job \in [owner : {0} \cup DOMAIN area, first : VirtPages, next : VirtPages,
                   end : VirtPages,
                   for : {"kernel", "task", "area", "directory", "desc"}]
       /\ job.first <= job.next /\ job.next < job.end
       /\ PageRange(job.first, job.end - job.first) \subseteq Space(job.owner)
       /\ JobLeft \cap Bitmap(job.owner) = {}
       /\ job.for \in {"kernel", "area", "directory"} => job.owner = 0
       /\ job.for = "area" => job.end - job.first = AreaPages /\ cmem_area = 0
       /\ job.for = "directory" => job.end - job.first = DirPages /\ cmem_area = 0
       /\ job.for = "task" => job.owner = cmem_area /\ cmem_area \in Complete
       /\ job.for = "desc" =>
            /\ job.owner = cmem_area /\ cmem_area \in Unfinished
            /\ job.first = LowPages /\ job.next = LowPages /\ job.end = LowPages + 1
  /\ pc \in {"directory", "paging"} \/ (InJob /\ job.for = "directory") =>
       /\ cmem_area = 0 /\ Unfinished # {}
       /\ \A a \in Unfinished : area[a] = NoArea
  /\ pc = "paging" =>
       /\ job.first \in HeapPages
       /\ [address |-> job.first, size |-> DirPages] \in Records
  /\ pc \in {"desc", "failed"} => cmem_area \in Unfinished

IInv == MemInv /\ DirectoryInv /\ BitmapsTell /\ BlocksInv /\ SlotsInv
          /\ RoomInv /\ AreasInv /\ JobInv

-----------------------------------------------------------------------------
(* Constants and arithmetic of pages.                                      *)
LEMMA Sizes ==
  /\ FisPages \in Nat /\ TableEntries \in Nat /\ LowPages \in Nat
  /\ KernelEntry \in Nat /\ ImagePages \in Nat \ {0}
  /\ 4 <= LowPages /\ LowPages < TableEntries /\ LowPages < KernelEntry
  /\ KernelEntry + 2 <= TableEntries /\ ImagePages < TableEntries
  /\ LowPages + ImagePages < FisPages
  /\ AreaPages \in Nat \ {0} /\ DirPages \in Nat \ {0}
  /\ KernelSizes \subseteq Nat \ {0} /\ TaskSizes \subseteq Nat \ {0}
BY MemAreaAssumption

(* Products of the number of entries.                                      *)
LEMMA TablesGrow ==
  ASSUME NEW a \in Int, NEW b \in Int, a <= b
  PROVE  /\ TableEntries * a <= TableEntries * b
         /\ TableEntries * a \in Int /\ TableEntries * b \in Int
<1>1. b - a \in Nat /\ TableEntries \in Nat
  BY Sizes
<1>2. TableEntries * (b - a) >= 0
  BY <1>1
<1>3. TableEntries * (b - a) = TableEntries * b - TableEntries * a
  BY Sizes
<1> QED
  BY <1>2, <1>3, Sizes

LEMMA EntrySlot ==
  ASSUME NEW v \in Nat
  PROVE  /\ Entry(v) \in Int /\ Slot(v) \in Entries
         /\ v = TableEntries * Entry(v) + Slot(v)
<1>1. TableEntries \in Nat \ {0}
  BY Sizes
<1> QED
  BY <1>1 DEF Entry, Slot, Entries

LEMMA SamePlace ==
  ASSUME NEW v \in Nat, NEW u \in Nat, Entry(v) = Entry(u), Slot(v) = Slot(u)
  PROVE  v = u
BY EntrySlot

(* The pages the heap of the kernel and those of tasks may have.           *)
LEMMA Bounds ==
  /\ KernelStart = TableEntries * KernelEntry /\ KernelStart \in Nat
  /\ HeapStart = KernelStart + ImagePages /\ HeapStart \in Nat
  /\ Last * TableEntries = TableEntries * Last /\ TableEntries * Last \in Nat
  /\ LowPages < KernelStart /\ HeapStart < TableEntries * Last
  /\ TableEntries * Last < TableEntries * TableEntries
  /\ TableEntries * TableEntries \in Nat
<1>1. /\ TableEntries * KernelEntry \in Nat /\ TableEntries * Last \in Nat
      /\ TableEntries * TableEntries \in Nat /\ Last \in Nat
      /\ Last = TableEntries - 1
  BY Sizes DEF Last
<1>2. KernelStart = TableEntries * KernelEntry /\ HeapStart = KernelStart + ImagePages
  BY Sizes DEF KernelStart, HeapStart
<1>3. Last * TableEntries = TableEntries * Last
  BY <1>1, Sizes
<1>4. TableEntries * 1 <= TableEntries * KernelEntry /\ TableEntries * 1 = TableEntries
  BY TablesGrow, Sizes
<1>5. TableEntries * (KernelEntry + 1) <= TableEntries * Last
  <2>1. KernelEntry + 1 <= Last /\ KernelEntry + 1 \in Int /\ Last \in Int
    BY <1>1, Sizes
  <2> QED
    BY <2>1, TablesGrow
<1>6. TableEntries * (KernelEntry + 1) = TableEntries * KernelEntry + TableEntries
  BY Sizes
<1>7. TableEntries * TableEntries = TableEntries * Last + TableEntries
  BY <1>1, Sizes
<1>8. LowPages < KernelStart /\ HeapStart < TableEntries * Last
      /\ TableEntries * Last < TableEntries * TableEntries
  BY <1>1, <1>2, <1>4, <1>5, <1>6, <1>7, Sizes
<1> QED
  BY <1>1, <1>2, <1>3, <1>8, Sizes

LEMMA Spaces ==
  /\ HeapPages \subseteq Nat /\ TaskPages \subseteq Nat
  /\ HeapPages \cap TaskPages = {} /\ HeapStart \in HeapPages
  /\ LowPages \in TaskPages /\ 0 \notin HeapPages /\ 0 \notin TaskPages
  /\ HeapPages \subseteq VirtPages /\ TaskPages \subseteq VirtPages
  /\ \A v \in TaskPages : LowPages <= v
BY Bounds, Sizes DEF HeapPages, TaskPages, VirtPages

LEMMA ManagedEntry ==
  ASSUME NEW v \in Managed
  PROVE  /\ v \in Nat /\ Entry(v) \in Entries \ {Last} /\ Slot(v) \in Entries
<1>1. v \in Nat /\ v < TableEntries * Last
  <2>1. CASE v \in HeapPages
    BY <2>1, Bounds DEF HeapPages
  <2>2. CASE v \in TaskPages
    BY <2>2, Bounds, Sizes DEF TaskPages
  <2> QED
    BY <2>1, <2>2 DEF Managed
<1>2. /\ Entry(v) \in Int /\ Slot(v) \in Int /\ 0 <= Slot(v) /\ Slot(v) < TableEntries
      /\ v = TableEntries * Entry(v) + Slot(v) /\ Slot(v) \in Entries
  BY <1>1, EntrySlot, Sizes DEF Entries
<1>3. ~(Entry(v) >= Last)
  <2> SUFFICES ASSUME Entry(v) >= Last PROVE FALSE
    OBVIOUS
  <2>1. TableEntries * Last <= TableEntries * Entry(v) /\ TableEntries * Entry(v) \in Int
    BY <1>2, TablesGrow, Sizes DEF Last
  <2> QED
    BY <1>1, <1>2, <2>1, Bounds
<1>4. ~(Entry(v) <= -1)
  <2> SUFFICES ASSUME Entry(v) <= -1 PROVE FALSE
    OBVIOUS
  <2>1. TableEntries * Entry(v) <= TableEntries * (-1) /\ TableEntries * Entry(v) \in Int
    BY <1>2, TablesGrow
  <2>2. TableEntries * (-1) = -TableEntries
    BY Sizes
  <2> QED
    BY <1>1, <1>2, <2>1, <2>2, Sizes
<1> QED
  BY <1>1, <1>2, <1>3, <1>4, Sizes DEF Entries, Last

LEMMA LowEntry == Entry(LowPages) = 0 /\ 0 \in Entries /\ Last \in Entries /\ KernelEntry \in Entries
  /\ 0 # Last /\ KernelEntry # Last /\ 0 # KernelEntry
<1>1. LowPages \in Nat /\ LowPages < TableEntries
  BY Sizes
<1>2. /\ Entry(LowPages) \in Int /\ Slot(LowPages) \in Int
      /\ 0 <= Slot(LowPages) /\ Slot(LowPages) < TableEntries
      /\ LowPages = TableEntries * Entry(LowPages) + Slot(LowPages)
  BY <1>1, EntrySlot, Sizes DEF Entries
<1>3. ~(Entry(LowPages) >= 1)
  <2> SUFFICES ASSUME Entry(LowPages) >= 1 PROVE FALSE
    OBVIOUS
  <2>1. TableEntries * 1 <= TableEntries * Entry(LowPages)
        /\ TableEntries * Entry(LowPages) \in Int
    BY <1>2, TablesGrow
  <2>2. TableEntries * 1 = TableEntries
    BY Sizes
  <2> QED
    BY <1>1, <1>2, <2>1, <2>2, Sizes
<1>4. ~(Entry(LowPages) <= -1)
  <2> SUFFICES ASSUME Entry(LowPages) <= -1 PROVE FALSE
    OBVIOUS
  <2>1. TableEntries * Entry(LowPages) <= TableEntries * (-1)
        /\ TableEntries * Entry(LowPages) \in Int
    BY <1>2, TablesGrow
  <2>2. TableEntries * (-1) = -TableEntries
    BY Sizes
  <2> QED
    BY <1>1, <1>2, <2>1, <2>2, Sizes
<1>5. Entry(LowPages) = 0
  BY <1>2, <1>3, <1>4
<1> QED
  BY <1>5, Sizes DEF Entries, Last


-----------------------------------------------------------------------------
(* What paging.c sees: the kernel's directory and tables, from every area. *)
LEMMA FramesAre ==
  /\ KernelDir \in BootFrames /\ LowTable \in BootFrames
  /\ KernelTable \in BootFrames /\ 0 \in BootFrames /\ BootFrames \subseteq Frames
  /\ KernelDir # 0 /\ LowTable # 0 /\ KernelTable # 0
  /\ KernelDir # LowTable /\ KernelDir # KernelTable /\ LowTable # KernelTable
  /\ KernelDir \in Frames /\ LowPages + ImagePages \in Frames \ BootFrames
BY Sizes DEF KernelDir, LowTable, KernelTable, BootFrames, Frames

LEMMA TableIs ==
  ASSUME MemInv, NEW e \in Entries
  PROVE  /\ Table(e) \in Frames
         /\ Table(e) = 0 \/ Table(e) \in used
         /\ Table(e) = KernelDir <=> e = Last
<1>1. Table(e) \in Frames
  BY FramesAre DEF MemInv, WordTyped, Table
<1>2. Table(e) = KernelDir <=> e = Last
  BY FramesAre, LowEntry DEF MemInv, TablesApart
<1>3. Table(e) = 0 \/ Table(e) \in used
  <2>1. {LowTable, KernelTable, KernelDir} \subseteq used
    BY FramesAre DEF MemInv, TablesApart
  <2>2. e \notin {0, KernelEntry, Last} => Table(e) = 0 \/ Table(e) \in used
    BY DEF MemInv, TablesApart
  <2>3. e \in {0, KernelEntry, Last} => Table(e) \in used
    BY <2>1 DEF MemInv, TablesApart
  <2> QED
    BY <2>2, <2>3
<1> QED
  BY <1>1, <1>2, <1>3

LEMMA Sees ==
  ASSUME NEW d, word[d][Last] = KernelDir, word[KernelDir][Last] = KernelDir
  PROVE  /\ PD_VIRT(d) = KernelDir
         /\ \A e : PT_VIRT(d, e) = Table(e)
         /\ \A v : get_physical(d, v) = Page(v)
BY DEF PD_VIRT, PT_VIRT, get_physical, Table, Page

LEMMA PageIs ==
  ASSUME MemInv, NEW v \in Managed
  PROVE  /\ Page(v) = IF Table(Entry(v)) = 0 THEN 0
                      ELSE word[Table(Entry(v))][Slot(v)]
         /\ Page(v) \in Frames
<1>1. word[KernelDir][Last] = KernelDir
  BY DEF MemInv, TablesApart, Table
<1>2. PD_VIRT(KernelDir) = KernelDir /\ \A e : PT_VIRT(KernelDir, e) = Table(e)
  BY <1>1, Sees
<1>3. Page(v) = IF Table(Entry(v)) = 0 THEN 0 ELSE word[Table(Entry(v))][Slot(v)]
  BY <1>2 DEF Page, get_physical, Table
<1>4. Entry(v) \in Entries /\ Slot(v) \in Entries
  BY ManagedEntry
<1>5. Table(Entry(v)) \in Frames /\ 0 \in Frames
  BY <1>4, TableIs, FramesAre
<1>6. word[Table(Entry(v))][Slot(v)] \in Frames
  BY <1>4, <1>5 DEF MemInv, WordTyped
<1> QED
  BY <1>3, <1>5, <1>6

LEMMA Current ==
  ASSUME MemInv, DirectoryInv, cmem_area \in {0} \cup Built
  PROVE  /\ word[CR3][Last] = KernelDir /\ PD_VIRT(CR3) = KernelDir
         /\ \A e : PT_VIRT(CR3, e) = Table(e)
         /\ \A v : get_physical(CR3, v) = Page(v)
<1>1. word[KernelDir][Last] = KernelDir
  BY DEF MemInv, TablesApart, Table
<1>2. word[CR3][Last] = KernelDir
  <2>1. CASE cmem_area = 0
    BY <1>1, <2>1 DEF CR3
  <2>2. CASE cmem_area # 0
    BY <2>2 DEF CR3, DirectoryInv, DirectoryAt
  <2> QED
    BY <2>1, <2>2
<1> QED
  BY <1>1, <1>2, Sees

(* A page of memory is entered for a page, perhaps with one for its table: *)
(* what that does to the tables and the pages decides MemInv.              *)
TablesBecome(e0, y) ==
  \A e \in Entries : Table(e)' = IF e = e0 /\ Table(e0) = 0 THEN y ELSE Table(e)
PagesBecome(v0, x) == \A v \in Managed : Page(v)' = IF v = v0 THEN x ELSE Page(v)

LEMMA PageNext ==
  ASSUME NEW v, word'[KernelDir][Last] = KernelDir
  PROVE  Page(v)' = IF Table(Entry(v))' = 0 THEN 0 ELSE word'[Table(Entry(v))'][Slot(v)]
BY DEF Page, get_physical, PD_VIRT, PT_VIRT, Table

LEMMA MemFrom ==
  ASSUME WordTyped', TablesApart, PagesApart, NEW taken \in SUBSET Frames,
         used' = used \cup taken,
         taken \cap used = {},
         NEW e0 \in Entries, NEW v0 \in Managed, NEW x, NEW y,
         Page(v0) = 0, x \in taken, x # y,
         Table(e0) = 0 => y \in taken,
         TablesBecome(e0, y), PagesBecome(v0, x)
  PROVE  MemInv'
<1>0. /\ \A e \in Entries : Table(e)' = IF e = e0 /\ Table(e0) = 0 THEN y ELSE Table(e)
      /\ \A v \in Managed : Page(v)' = IF v = v0 THEN x ELSE Page(v)
  BY DEF TablesBecome, PagesBecome
<1>1. /\ BootFrames \subseteq used /\ \A e \in Entries : Table(e) \in used \/ Table(e) = 0
      /\ 0 \in used
  BY FramesAre, LowEntry DEF TablesApart
<1>2. x \notin used /\ x # 0 /\ x \notin BootFrames
  BY <1>1
<1>3. Table(e0) = 0 => y \notin used /\ y # 0 /\ y \notin BootFrames /\ y \in used'
  BY <1>1
<1>4. e0 \in {0, KernelEntry, Last} => Table(e0) # 0
  BY FramesAre DEF TablesApart
<1>5. TablesApart'
  <2>1. BootFrames \subseteq used'
    BY <1>1
  <2>2. Table(0)' = LowTable /\ Table(KernelEntry)' = KernelTable
        /\ Table(Last)' = KernelDir
    BY <1>0, <1>4, LowEntry DEF TablesApart
  <2>3. \A e \in Entries \ {0, KernelEntry, Last} :
          Table(e)' # 0 => Table(e)' \in used' \ BootFrames
    BY <1>0, <1>3 DEF TablesApart
  <2>4. \A e, g \in Entries : Table(e)' = Table(g)' => e = g \/ Table(e)' = 0
    BY <1>0, <1>1, <1>3 DEF TablesApart
  <2> QED
    BY <2>1, <2>2, <2>3, <2>4 DEF TablesApart
<1>6. PagesApart'
  <2>1. \A v \in Managed : Page(v) # 0 => Page(v) \in used
    BY DEF PagesApart
  <2>2. ASSUME NEW v \in Managed, Page(v)' # 0
        PROVE  Page(v)' \in used' \ BootFrames /\ \A e \in Entries : Table(e)' # Page(v)'
    <3>1. CASE v = v0
      <4>1. Page(v)' = x
        BY <1>0, <3>1
      <4>2. \A e \in Entries : Table(e)' # x
        BY <1>0, <1>1, <1>2
      <4> QED
        BY <1>2, <4>1, <4>2
    <3>2. CASE v # v0
      <4>1. Page(v)' = Page(v) /\ Page(v) # 0
        BY <1>0, <2>2, <3>2
      <4>2. \A e \in Entries : Table(e)' # Page(v)
        BY <1>0, <1>3, <2>1, <4>1 DEF PagesApart
      <4> QED
        BY <4>1, <4>2 DEF PagesApart
    <3> QED
      BY <3>1, <3>2
  <2>3. \A v, u \in Managed : Page(v)' = Page(u)' => v = u \/ Page(v)' = 0
    BY <1>0, <1>1, <1>2, <2>1 DEF PagesApart
  <2> QED
    BY <2>2, <2>3 DEF PagesApart
<1> QED
  BY <1>5, <1>6 DEF MemInv


(* paging_alloc enters page x of memory for the page v.                    *)
Entered(w, t, s, x) == [w EXCEPT ![t][s] = x]
Aside(f) == f # KernelDir /\ \A e \in Entries : Table(e) # f

EntersAt(w, k, t, s, x) ==
  /\ k \in [Frames -> [Entries -> Frames]] /\ k[t][s] = x
  /\ \A f \in Frames, i \in Entries : f # t \/ i # s => k[f][i] = w[f][i]
  /\ \A f \in Frames : f # t => k[f] = w[f]

LEMMA Enters ==
  ASSUME NEW w \in [Frames -> [Entries -> Frames]], NEW t \in Frames,
         NEW s \in Entries, NEW x \in Frames
  PROVE  EntersAt(w, Entered(w, t, s, x), t, s, x)
BY DEF Entered, EntersAt

LEMMA MapsInTable ==
  ASSUME MemInv, NEW v0 \in Managed, Page(v0) = 0, Table(Entry(v0)) # 0,
         NEW x \in Frames \ used, used' = used \cup {x},
         word' = Entered(word, Table(Entry(v0)), Slot(v0), x)
  PROVE  /\ MemInv'
         /\ \A e \in Entries : Table(e)' = Table(e)
         /\ \A v \in Managed : Page(v)' = IF v = v0 THEN x ELSE Page(v)
         /\ \A f \in Frames : Aside(f) => word'[f] = word[f]
<1>1. PICK e0 \in Entries, s0 \in Entries, t \in Frames :
        e0 = Entry(v0) /\ s0 = Slot(v0) /\ t = Table(e0) /\ e0 # Last
  BY ManagedEntry, TableIs
<1>2. /\ word' \in [Frames -> [Entries -> Frames]] /\ word'[t][s0] = x
      /\ \A f \in Frames, i \in Entries :
           f # t \/ i # s0 => word'[f][i] = word[f][i]
      /\ \A f \in Frames : f # t => word'[f] = word[f]
  <2>1. word' = Entered(word, t, s0, x) /\ x \in Frames
    BY <1>1
  <2>2. PICK w \in [Frames -> [Entries -> Frames]] : w = word
    BY DEF MemInv, WordTyped
  <2>3. EntersAt(w, Entered(w, t, s0, x), t, s0, x)
    BY <1>1, <2>1, <2>2, Enters
  <2> QED
    BY <2>1, <2>2, <2>3 DEF EntersAt
<1>3. t # KernelDir /\ t # 0
  BY <1>1, TableIs
<1>4. \A e \in Entries : Table(e)' = Table(e)
  BY <1>2, <1>3, FramesAre DEF Table
<1>5. word'[KernelDir][Last] = KernelDir
  BY <1>4, LowEntry DEF MemInv, TablesApart, Table
<1>6. ASSUME NEW v \in Managed
      PROVE  Page(v)' = IF v = v0 THEN x ELSE Page(v)
  <2>1. PICK e \in Entries, s \in Entries : e = Entry(v) /\ s = Slot(v) /\ e # Last
    BY ManagedEntry
  <2>2. Page(v)' = IF Table(e) = 0 THEN 0 ELSE word'[Table(e)][s]
    BY <1>4, <1>5, <2>1 DEF Page, get_physical, PD_VIRT, PT_VIRT, Table
  <2>3. Page(v) = IF Table(e) = 0 THEN 0 ELSE word[Table(e)][s]
    BY <2>1, PageIs
  <2>4. CASE v = v0
    BY <1>1, <1>2, <1>3, <2>1, <2>2, <2>4
  <2>5. CASE v # v0
    <3>1. e # e0 \/ s # s0
      BY <1>1, <2>1, <2>5, ManagedEntry, SamePlace
    <3>2. Table(e) # 0 => Table(e) # t \/ s # s0
      BY <1>1, <1>3, <3>1 DEF MemInv, TablesApart
    <3>3. Table(e) \in Frames
      BY TableIs
    <3> QED
      BY <1>2, <2>2, <2>3, <2>5, <3>2, <3>3
  <2> QED
    BY <2>4, <2>5
<1>7. MemInv'
  <2>1. WordTyped'
    BY <1>2 DEF WordTyped, MemInv
  <2>2. TablesBecome(e0, x + 1) /\ PagesBecome(v0, x)
    BY <1>1, <1>3, <1>4, <1>6 DEF TablesBecome, PagesBecome
  <2>3. x # x + 1 /\ x \in {x} /\ {x} \in SUBSET Frames /\ {x} \cap used = {}
    BY DEF Frames
  <2>4. Table(e0) = 0 => x + 1 \in {x}
    BY <1>1, <1>3
  <2>5. TablesApart /\ PagesApart
    BY DEF MemInv
  <2> QED
    BY <2>1, <2>2, <2>3, <2>4, <2>5, MemFrom
<1>8. \A f \in Frames : Aside(f) => word'[f] = word[f]
  BY <1>1, <1>2 DEF Aside
<1> QED
  BY <1>4, <1>6, <1>7, <1>8

(* The same, with page y of memory for the table that is missing.          *)
WithTable(e, y) ==
  [f \in Frames |->
     IF f = KernelDir THEN [word[f] EXCEPT ![e] = y]
     ELSE IF f = y THEN EmptyTable ELSE word[f]]

LEMMA MakesTable ==
  ASSUME MemInv, NEW e \in Entries, NEW y \in Frames, y # KernelDir
  PROVE  /\ WithTable(e, y) \in [Frames -> [Entries -> Frames]]
         /\ WithTable(e, y)[KernelDir][e] = y
         /\ \A g \in Entries : g # e => WithTable(e, y)[KernelDir][g] = word[KernelDir][g]
         /\ \A s \in Entries : WithTable(e, y)[y][s] = 0
         /\ \A f \in Frames : f # KernelDir /\ f # y => WithTable(e, y)[f] = word[f]
<1>1. EmptyTable \in [Entries -> Frames] /\ \A s \in Entries : EmptyTable[s] = 0
  BY FramesAre DEF EmptyTable
<1>2. /\ [word[KernelDir] EXCEPT ![e] = y] \in [Entries -> Frames]
      /\ [word[KernelDir] EXCEPT ![e] = y][e] = y
      /\ \A g \in Entries : g # e => [word[KernelDir] EXCEPT ![e] = y][g] = word[KernelDir][g]
  BY FramesAre DEF MemInv, WordTyped
<1>3. \A f \in Frames : word[f] \in [Entries -> Frames]
  BY DEF MemInv, WordTyped
<1> HIDE DEF EmptyTable
<1> QED
  BY <1>1, <1>2, <1>3, FramesAre DEF WithTable

LEMMA MapsWithTable ==
  ASSUME MemInv, NEW v0 \in Managed, Page(v0) = 0, Table(Entry(v0)) = 0,
         NEW x \in Frames \ used, NEW y \in Frames \ (used \cup {x}),
         used' = used \cup {x, y},
         word' = Entered(WithTable(Entry(v0), y), y, Slot(v0), x)
  PROVE  /\ MemInv'
         /\ \A e \in Entries :
              Table(e)' = IF e = Entry(v0) THEN y ELSE Table(e)
         /\ \A v \in Managed : Page(v)' = IF v = v0 THEN x ELSE Page(v)
         /\ \A f \in Frames \ {y} : Aside(f) => word'[f] = word[f]
<1>1. PICK e0 \in Entries, s0 \in Entries :
        e0 = Entry(v0) /\ s0 = Slot(v0) /\ e0 # Last
  BY ManagedEntry
<1>2. y # KernelDir /\ y # 0 /\ {x, y} \in SUBSET Frames /\ {x, y} \cap used = {} /\ x # y
  BY FramesAre DEF MemInv, TablesApart
<1>3. PICK w \in [Frames -> [Entries -> Frames]] :
        /\ w = WithTable(e0, y) /\ w[KernelDir][e0] = y
        /\ \A g \in Entries : g # e0 => w[KernelDir][g] = word[KernelDir][g]
        /\ \A s \in Entries : w[y][s] = 0
        /\ \A f \in Frames : f # KernelDir /\ f # y => w[f] = word[f]
  BY <1>2, MakesTable
<1>4. word' = Entered(w, y, s0, x)
  BY <1>1, <1>3
<1>5. /\ word' \in [Frames -> [Entries -> Frames]] /\ word'[y][s0] = x
      /\ \A s \in Entries : s # s0 => word'[y][s] = 0
      /\ \A f \in Frames : f # y => word'[f] = w[f]
  <2>1. x \in Frames
    OBVIOUS
  <2>2. EntersAt(w, Entered(w, y, s0, x), y, s0, x)
    BY <1>1, <1>3, <2>1, Enters
  <2>3. EntersAt(w, word', y, s0, x)
    BY <1>4, <2>2
  <2> QED
    BY <1>2, <1>3, <2>3 DEF EntersAt
<1>6. \A e \in Entries : Table(e)' = IF e = e0 THEN y ELSE Table(e)
  BY <1>2, <1>3, <1>5, FramesAre DEF Table
<1>7. word'[KernelDir][Last] = KernelDir
  BY <1>1, <1>6, LowEntry DEF MemInv, TablesApart, Table
<1>8. ASSUME NEW v \in Managed
      PROVE  Page(v)' = IF v = v0 THEN x ELSE Page(v)
  <2>1. PICK e \in Entries, s \in Entries : e = Entry(v) /\ s = Slot(v) /\ e # Last
    BY ManagedEntry
  <2>2. Page(v)' = IF Table(e)' = 0 THEN 0 ELSE word'[Table(e)'][s]
    BY <1>7, <2>1, PageNext
  <2>3. Page(v) = IF Table(e) = 0 THEN 0 ELSE word[Table(e)][s]
    BY <2>1, PageIs
  <2>4. CASE v = v0
    <3>1. e = e0 /\ s = s0 /\ Table(e)' = y
      BY <1>1, <1>6, <2>1, <2>4
    <3> QED
      BY <1>2, <1>5, <2>2, <2>4, <3>1
  <2>5. CASE v # v0 /\ e = e0
    <3>1. s # s0 /\ Table(e)' = y /\ Table(e) = 0
      BY <1>1, <1>6, <2>1, <2>5, ManagedEntry, SamePlace
    <3> QED
      BY <1>2, <1>5, <2>2, <2>3, <2>5, <3>1
  <2>6. CASE v # v0 /\ e # e0
    <3>1. Table(e)' = Table(e) /\ Table(e) \in Frames /\ Table(e) # KernelDir
      BY <1>6, <2>1, <2>6, TableIs
    <3>2. Table(e) # 0 => Table(e) # y
      BY TableIs
    <3>3. Table(e) # 0 => word'[Table(e)] = word[Table(e)]
      BY <1>3, <1>5, <3>1, <3>2
    <3> QED
      BY <2>2, <2>3, <2>6, <3>1, <3>3
  <2> QED
    BY <2>4, <2>5, <2>6
<1>9. MemInv'
  <2>1. WordTyped'
    BY <1>2, <1>5 DEF WordTyped, MemInv
  <2>2. Table(e0) = 0 /\ y \in {x, y} /\ x \in {x, y}
    BY <1>1
  <2>3. TablesBecome(e0, y) /\ PagesBecome(v0, x)
    BY <1>6, <1>8, <2>2 DEF TablesBecome, PagesBecome
  <2>4. TablesApart /\ PagesApart
    BY DEF MemInv
  <2> QED
    BY <1>2, <2>1, <2>2, <2>3, <2>4, MemFrom
<1>10. \A f \in Frames \ {y} : Aside(f) => word'[f] = word[f]
  BY <1>3, <1>5 DEF Aside
<1> QED
  BY <1>1, <1>6, <1>8, <1>9, <1>10

(* vir_free empties the entries of the pages and gives their memory back.  *)
LEMMA Unmaps ==
  ASSUME MemInv, NEW pages \in SUBSET Managed, \A v \in pages : Page(v) # 0,
         NEW d, word[d][Last] = KernelDir, Unmapped(d, pages)
  PROVE  /\ MemInv'
         /\ \A e \in Entries : Table(e)' = Table(e)
         /\ \A v \in Managed : Page(v)' = IF v \in pages THEN 0 ELSE Page(v)
         /\ \A f \in Frames : Aside(f) /\ (\A v \in pages : Page(v) # f) =>
              word'[f] = word[f]
<1> DEFINE Hits(f) == {Slot(v) : v \in {p \in pages : Table(Entry(p)) = f}}
<1>1. word[KernelDir][Last] = KernelDir
  BY DEF MemInv, TablesApart, Table
<1>2. (\A e : PT_VIRT(d, e) = Table(e)) /\ \A v : get_physical(d, v) = Page(v)
  BY <1>1, Sees
<1>3. word' = [f \in Frames |->
                 IF \E p \in pages : Page(p) = f THEN EmptyTable
                 ELSE IF Hits(f) = {} THEN word[f]
                 ELSE [i \in Entries |-> IF i \in Hits(f) THEN 0 ELSE word[f][i]]]
  BY <1>2 DEF Unmapped, Emptied
<1>4. used' = used \ {Page(v) : v \in pages}
  BY <1>2 DEF Unmapped
<1>5. word' \in [Frames -> [Entries -> Frames]]
  <2>1. EmptyTable \in [Entries -> Frames]
    BY FramesAre DEF EmptyTable
  <2>2. ASSUME NEW f \in Frames
        PROVE  /\ word[f] \in [Entries -> Frames]
               /\ [i \in Entries |-> IF i \in Hits(f) THEN 0 ELSE word[f][i]]
                    \in [Entries -> Frames]
    <3>1. word[f] \in [Entries -> Frames]
      BY DEF MemInv, WordTyped
    <3> HIDE DEF Hits
    <3> QED
      BY <3>1, FramesAre
  <2> HIDE DEF Hits
  <2> QED
    BY <1>3, <2>1, <2>2
<1>6. ASSUME NEW f \in Frames, \A v \in pages : Page(v) # f
      PROVE  \A i \in Entries : word'[f][i] = IF i \in Hits(f) THEN 0 ELSE word[f][i]
  <2> HIDE DEF Hits
  <2>1. CASE Hits(f) = {}
    BY <1>3, <1>6, <2>1
  <2>2. CASE Hits(f) # {}
    BY <1>3, <1>6, <2>2
  <2> QED
    BY <2>1, <2>2
<1>7. \A v \in pages, e \in Entries : Table(e) # Page(v)
  BY DEF MemInv, PagesApart
<1>8. Hits(KernelDir) = {}
  <2> SUFFICES ASSUME NEW p \in pages, Table(Entry(p)) = KernelDir PROVE FALSE
    OBVIOUS
  <2> QED
    BY ManagedEntry, TableIs
<1>9. \A v \in pages : Page(v) # KernelDir
  BY <1>7, LowEntry DEF MemInv, TablesApart
<1>10. \A e \in Entries : Table(e)' = Table(e)
  BY <1>6, <1>8, <1>9, FramesAre DEF Table
<1>11. word'[KernelDir][Last] = KernelDir
  BY <1>1, <1>10, LowEntry DEF Table
<1>12. ASSUME NEW v \in Managed
       PROVE  Page(v)' = IF v \in pages THEN 0 ELSE Page(v)
  <2>1. PICK e \in Entries, s \in Entries : e = Entry(v) /\ s = Slot(v) /\ e # Last
    BY ManagedEntry
  <2>2. Page(v)' = IF Table(e) = 0 THEN 0 ELSE word'[Table(e)][s]
    BY <1>10, <1>11, <2>1 DEF Page, get_physical, PD_VIRT, PT_VIRT, Table
  <2>3. Page(v) = IF Table(e) = 0 THEN 0 ELSE word[Table(e)][s]
    BY <2>1, PageIs
  <2>4. CASE Table(e) = 0
    BY <2>2, <2>3, <2>4
  <2>5. CASE Table(e) # 0
    <3>1. word'[Table(e)][s] = IF s \in Hits(Table(e)) THEN 0 ELSE word[Table(e)][s]
      BY <1>6, <1>7, TableIs
    <3>2. ASSUME s \in Hits(Table(e)) PROVE v \in pages
      <4>1. PICK p \in pages : Slot(p) = s /\ Table(Entry(p)) = Table(e)
        BY <3>2
      <4>2. Entry(p) = e
        BY <2>5, <4>1, ManagedEntry DEF MemInv, TablesApart
      <4>3. p = v
        BY <2>1, <4>1, <4>2, ManagedEntry, SamePlace
      <4> QED
        BY <4>3
    <3>3. v \in pages => s \in Hits(Table(e))
      BY <2>1
    <3> HIDE DEF Hits
    <3> QED
      BY <2>2, <2>3, <2>5, <3>1, <3>2, <3>3
  <2> QED
    BY <2>4, <2>5
<1>13. MemInv'
  <2>1. WordTyped'
    BY <1>4, <1>5 DEF WordTyped, MemInv
  <2>2. \A v \in pages : Page(v) \notin BootFrames
    BY DEF MemInv, PagesApart
  <2>3. TablesApart'
    <3>1. BootFrames \subseteq used'
      BY <1>4, <2>2 DEF MemInv, TablesApart
    <3>2. \A e \in Entries \ {0, KernelEntry, Last} :
            Table(e)' # 0 => Table(e)' \in used' \ BootFrames
      BY <1>4, <1>7, <1>10 DEF MemInv, TablesApart
    <3> QED
      BY <1>10, <3>1, <3>2, LowEntry DEF MemInv, TablesApart
  <2>4. PagesApart'
    <3>1. ASSUME NEW v \in Managed, Page(v)' # 0
          PROVE  Page(v)' \in used' \ BootFrames /\ \A e \in Entries : Table(e)' # Page(v)'
      <4>1. Page(v)' = Page(v) /\ v \notin pages /\ Page(v) # 0
        BY <1>12, <3>1
      <4>2. \A p \in pages : Page(p) # Page(v)
        BY <4>1 DEF MemInv, PagesApart
      <4>3. Page(v) \in used \ BootFrames /\ \A e \in Entries : Table(e) # Page(v)
        BY <4>1 DEF MemInv, PagesApart
      <4> QED
        BY <1>4, <1>10, <4>1, <4>2, <4>3
    <3>2. \A v, u \in Managed : Page(v)' = Page(u)' => v = u \/ Page(v)' = 0
      BY <1>12 DEF MemInv, PagesApart
    <3> QED
      BY <3>1, <3>2 DEF PagesApart
  <2> QED
    BY <2>1, <2>3, <2>4 DEF MemInv
<1>14. ASSUME NEW f \in Frames, Aside(f), \A v \in pages : Page(v) # f
       PROVE  word'[f] = word[f]
  <2>1. Hits(f) = {}
    <3> SUFFICES ASSUME NEW p \in pages, Table(Entry(p)) = f PROVE FALSE
      OBVIOUS
    <3> QED
      BY <1>14, ManagedEntry DEF Aside
  <2> HIDE DEF Hits
  <2> QED
    BY <1>3, <1>14, <2>1
<1> QED
  BY <1>10, <1>12, <1>13, <1>14


(* What a step keeps of the memory: no table goes, and a page that stays   *)
(* where it is keeps its content.                                          *)
TablesKept == \A e \in Entries : Table(e)' = Table(e) \/ Table(e) = 0
ContentsKept ==
  \A v \in Managed :
    Page(v) # 0 /\ Page(v)' = Page(v) => word'[Page(v)] = word[Page(v)]

LEMMA PageAside ==
  ASSUME MemInv, NEW v \in Managed, Page(v) # 0
  PROVE  Aside(Page(v)) /\ Page(v) \in used /\ Page(v) \in Frames
<1>1. Page(v) \in used \ BootFrames /\ \A e \in Entries : Table(e) # Page(v)
  BY DEF MemInv, PagesApart
<1> QED
  BY <1>1, FramesAre, PageIs DEF Aside

LEMMA DirectoryKept ==
  ASSUME NEW d \in Frames, DirectoryAt(d), word'[d] = word[d], TablesKept
  PROVE  DirectoryAt(d)'
<1>1. \A e \in Entries : word'[d][e] \in {0, Table(e)'}
  BY DEF DirectoryAt, TablesKept
<1> QED
  BY <1>1 DEF DirectoryAt

LEMMA DirectoriesKept ==
  ASSUME MemInv, DirectoryInv, TablesKept, ContentsKept,
         \A a \in Built' : /\ a \in Built
                           /\ area'[a].dir = area[a].dir
                           /\ area'[a].pagedir = area[a].pagedir,
         \A a \in Built' : \A v \in HeapPages : v = area[a].dir => Page(v)' = Page(v)
  PROVE  DirectoryInv'
<1> SUFFICES ASSUME NEW a \in Built'
             PROVE  /\ area'[a].dir \in HeapPages /\ area'[a].pagedir = Page(area[a].dir)'
                    /\ DirectoryAt(area[a].pagedir)'
  BY DEF DirectoryInv
<1>1. /\ a \in Built /\ area'[a].dir = area[a].dir /\ area'[a].pagedir = area[a].pagedir
      /\ area[a].dir \in HeapPages /\ area[a].pagedir = Page(area[a].dir)
      /\ DirectoryAt(area[a].pagedir) /\ area[a].pagedir # 0
  BY DEF DirectoryInv, Built
<1>2. PICK v \in HeapPages : v = area[a].dir
  BY <1>1
<1>3. PICK d : d = area[a].pagedir
  OBVIOUS
<1>4. Page(v)' = Page(v) /\ Page(v) = d /\ d # 0 /\ v \in Managed
  BY <1>1, <1>2, <1>3 DEF Managed
<1>5. d \in Frames /\ word'[d] = word[d]
  BY <1>4, PageAside DEF ContentsKept
<1>6. DirectoryAt(d)'
  BY <1>1, <1>3, <1>5, DirectoryKept
<1>7. area'[a].dir = v /\ area'[a].pagedir = d
  BY <1>1, <1>2, <1>3
<1>8. Page(area[a].dir)' = Page(v)' /\ DirectoryAt(area[a].pagedir)' <=> DirectoryAt(d)'
  BY <1>7
<1> QED
  BY <1>1, <1>4, <1>6, <1>7, <1>8

-----------------------------------------------------------------------------
(* The memory as boot leaves it: of the pages in question the first of the *)
(* heap is mapped, the kernel's first page of descriptors.                 *)
LEMMA BootTables ==
  ASSUME word = BootWord
  PROVE  /\ word \in [Frames -> [Entries -> Frames]]
         /\ \A e \in Entries :
              Table(e) = IF e = 0 THEN LowTable ELSE IF e = KernelEntry THEN KernelTable
                         ELSE IF e = Last THEN KernelDir ELSE 0
         /\ \A i \in Entries :
              word[LowTable][i] = IF i \in 1 .. LowPages - 1 THEN i ELSE 0
         /\ \A i \in Entries :
              word[KernelTable][i] = IF i \in 0 .. ImagePages THEN LowPages + i ELSE 0
<1> DEFINE B(f, i) == CASE f = KernelDir /\ i = 0 -> LowTable
                        [] f = KernelDir /\ i = KernelEntry -> KernelTable
                        [] f = KernelDir /\ i = Last -> KernelDir
                        [] f = LowTable /\ i \in 1 .. LowPages - 1 -> i
                        [] f = KernelTable /\ i \in 0 .. ImagePages -> LowPages + i
                        [] OTHER -> 0
<1>1. /\ \A i \in Entries :
           B(KernelDir, i) = IF i = 0 THEN LowTable ELSE IF i = KernelEntry THEN KernelTable
                             ELSE IF i = Last THEN KernelDir ELSE 0
      /\ \A i \in Entries : B(LowTable, i) = IF i \in 1 .. LowPages - 1 THEN i ELSE 0
      /\ \A i \in Entries :
           B(KernelTable, i) = IF i \in 0 .. ImagePages THEN LowPages + i ELSE 0
  BY FramesAre, LowEntry
<1>2. ASSUME NEW f \in Frames, NEW i \in Entries PROVE B(f, i) \in Frames
  <2>1. i \in 1 .. LowPages - 1 => i \in Frames
    BY Sizes DEF Frames
  <2>2. i \in 0 .. ImagePages => LowPages + i \in Frames
    BY Sizes DEF Frames
  <2> QED
    BY <2>1, <2>2, FramesAre
<1>3. word = [f \in Frames |-> [i \in Entries |-> B(f, i)]]
  BY DEF BootWord
<1> HIDE DEF B
<1>4. word \in [Frames -> [Entries -> Frames]]
  BY <1>2, <1>3
<1>5. \A f \in Frames, i \in Entries : word[f][i] = B(f, i)
  BY <1>3
<1> QED
  BY <1>1, <1>4, <1>5, FramesAre DEF Table

LEMMA BootPages ==
  ASSUME word = BootWord, NEW v \in Managed
  PROVE  Page(v) = IF v = HeapStart THEN LowPages + ImagePages ELSE 0
<1>1. word[KernelDir][Last] = KernelDir
  BY BootTables, LowEntry DEF Table
<1>2. PICK e \in Entries, s \in Entries :
        e = Entry(v) /\ s = Slot(v) /\ e # Last
  BY ManagedEntry
<1>3. v \in Nat /\ v = TableEntries * e + s
  BY <1>2, ManagedEntry, EntrySlot
<1>4. Page(v) = IF Table(e) = 0 THEN 0 ELSE word[Table(e)][s]
  BY <1>1, <1>2 DEF Page, get_physical, PD_VIRT, PT_VIRT, Table
<1>5. /\ v \in TaskPages => LowPages <= v /\ v < KernelStart
      /\ v \in HeapPages => HeapStart <= v
      /\ v \in TaskPages \/ v \in HeapPages
  BY Bounds, Sizes DEF TaskPages, HeapPages, Managed
<1>6. s \in Nat /\ s < TableEntries
  BY Sizes DEF Entries
<1>7. CASE e = 0
  <2>1. v = s /\ LowPages <= v
    BY <1>3, <1>5, <1>6, <1>7, Bounds, Sizes
  <2>2. Page(v) = 0
    <3>1. Table(e) = LowTable
      BY <1>7, BootTables
    <3>2. s \notin 1 .. LowPages - 1
      BY <1>6, <2>1, Sizes
    <3> QED
      BY <1>4, <3>1, <3>2, BootTables
  <2>3. v # HeapStart
    <3>1. TableEntries * 1 <= TableEntries * KernelEntry /\ TableEntries * 1 = TableEntries
      BY TablesGrow, Sizes
    <3> QED
      BY <1>6, <2>1, <3>1, Bounds, Sizes
  <2> QED
    BY <2>2, <2>3
<1>8. CASE e = KernelEntry
  <2>1. v = KernelStart + s
    BY <1>3, <1>8, Bounds
  <2>2. ImagePages <= s /\ (v = HeapStart <=> s = ImagePages)
    BY <1>5, <1>6, <2>1, Bounds, Sizes
  <2>3. Page(v) = IF s \in 0 .. ImagePages THEN LowPages + s ELSE 0
    <3>1. Table(e) = KernelTable
      BY <1>8, BootTables, LowEntry
    <3> QED
      BY <1>4, <3>1, BootTables, FramesAre
  <2> QED
    BY <1>6, <2>2, <2>3, Sizes
<1>9. CASE e # 0 /\ e # KernelEntry
  <2>1. Page(v) = 0
    BY <1>2, <1>4, <1>9, BootTables
  <2>2. v # HeapStart
    <3>1. SUFFICES ASSUME v = HeapStart PROVE FALSE
      OBVIOUS
    <3>2. TableEntries * e + s = TableEntries * KernelEntry + ImagePages
      BY <1>3, <3>1, Bounds
    <3>3. e \in Int /\ KernelEntry \in Int /\ ImagePages \in Nat /\ ImagePages < TableEntries
      BY Sizes DEF Entries
    <3>4. CASE e < KernelEntry
      <4>1. TableEntries * (e + 1) <= TableEntries * KernelEntry
        BY <3>3, <3>4, TablesGrow
      <4>2. TableEntries * (e + 1) = TableEntries * e + TableEntries
        BY <3>3, Sizes
      <4>3. TableEntries * e \in Int /\ TableEntries * KernelEntry \in Int
        BY <3>3, Sizes
      <4> QED
        BY <1>6, <3>2, <3>3, <4>1, <4>2, <4>3, Sizes
    <3>5. CASE e > KernelEntry
      <4>1. TableEntries * (KernelEntry + 1) <= TableEntries * e
        BY <3>3, <3>5, TablesGrow
      <4>2. TableEntries * (KernelEntry + 1) = TableEntries * KernelEntry + TableEntries
        BY <3>3, Sizes
      <4>3. TableEntries * e \in Int /\ TableEntries * KernelEntry \in Int
        BY <3>3, Sizes
      <4> QED
        BY <1>6, <3>2, <3>3, <4>1, <4>2, <4>3, Sizes
    <3> QED
      BY <1>9, <3>3, <3>4, <3>5
  <2> QED
    BY <2>1, <2>2
<1> QED
  BY <1>7, <1>8, <1>9

LEMMA InitMem == Init => MemInv
<1> SUFFICES ASSUME Init PROVE MemInv
  OBVIOUS
<1>1. word = BootWord /\ used = BootFrames \cup {LowPages + ImagePages}
  BY DEF Init
<1>2. WordTyped
  BY <1>1, BootTables, FramesAre DEF WordTyped
<1>3. TablesApart
  BY <1>1, BootTables, FramesAre, LowEntry DEF TablesApart
<1>4. PagesApart
  <2>1. \A v \in Managed : Page(v) # 0 => v = HeapStart /\ Page(v) = LowPages + ImagePages
    BY <1>1, BootPages
  <2>2. LowPages + ImagePages \in used \ BootFrames
    BY <1>1, FramesAre
  <2>3. \A e \in Entries : Table(e) \in BootFrames
    BY <1>1, BootTables, FramesAre
  <2> QED
    BY <2>1, <2>2, <2>3 DEF PagesApart
<1> QED
  BY <1>2, <1>3, <1>4 DEF MemInv


-----------------------------------------------------------------------------
(* The lowest element of a set of numbers exists: vir_alloc and fis_alloc  *)
(* take the first run and the first page that is free.                     *)
LEMMA LowestIs ==
  ASSUME NEW T \in SUBSET Nat, T # {}
  PROVE  Lowest(T) \in T /\ \A n \in T : Lowest(T) <= n
<1> DEFINE R == {ss \in Nat \X Nat : ss[1] < ss[2]}
<1>1. IsWellFoundedOn(R, Nat)
  BY NatLessThanWellFounded DEF OpToRel
<1>2. PICK m \in T : \A n \in T : ~(<<n, m>> \in R)
  BY <1>1, WFMin
<1>3. ASSUME NEW n \in T PROVE m <= n
  <2>1. m \in Nat /\ n \in Nat
    OBVIOUS
  <2>2. n < m => <<n, m>> \in R
    BY <2>1, SMT
  <2> QED
    BY <1>2, <2>1, <2>2
<1>4. \E p \in T : \A q \in T : p <= q
  BY <1>3
<1> QED
  BY <1>4 DEF Lowest

(* Steps that leave the memory and the blocks alone.                       *)
LEMMA QuietMem ==
  ASSUME MemInv, DirectoryInv, BitmapsTell, word' = word, used' = used,
         heap' = heap, area' = area
  PROVE  MemInv' /\ DirectoryInv' /\ BitmapsTell'
<1>1. \A e : Table(e)' = Table(e)
  BY DEF Table
<1>2. \A v : Page(v)' = Page(v)
  BY DEF Page, get_physical, PD_VIRT, PT_VIRT
<1>3. MemInv'
  BY <1>1, <1>2 DEF MemInv, WordTyped, TablesApart, PagesApart
<1>4. BitmapsTell'
  BY <1>2 DEF BitmapsTell
<1>5. DirectoryInv'
  <2>1. TablesKept /\ ContentsKept /\ Built' = Built
    BY <1>1 DEF TablesKept, ContentsKept, Built
  <2> QED
    BY <1>2, <2>1, DirectoriesKept
<1> QED
  BY <1>3, <1>4, <1>5

LEMMA QuietBlocks ==
  ASSUME BlocksInv, SlotsInv, UNCHANGED <<heap, kdesc, held, area>>,
         KernelJobPages' = KernelJobPages, JobHeads' = JobHeads
  PROVE  BlocksInv' /\ SlotsInv'
<1>1. Parts' = Parts /\ PartHeads' = PartHeads /\ Records' = Records
  BY DEF Parts, PartHeads, Built, DirBlock, Records
<1>2. BlocksInv'
  BY <1>1 DEF BlocksInv
<1>3. \A i \in Slots : Tail(i)' = Tail(i)
  BY DEF Tail
<1>4. SlotsInv'
  BY <1>1, <1>3 DEF SlotsInv
<1> QED
  BY <1>2, <1>4

LEMMA QuietAreas ==
  ASSUME AreasInv, UNCHANGED <<area, cmem_area>>, Unfinished # {} => Building',
         \A a \in DOMAIN area : TaskJobPages(a)' = TaskJobPages(a)
  PROVE  AreasInv'
<1>1. Unfinished' = Unfinished /\ Complete' = Complete /\ Built' = Built
  BY DEF Unfinished, Complete, Built
<1>2. \A a \in Complete : TaskOf(a)'
  <2> TAKE a \in Complete
  <2>1. TaskOf(a) /\ TaskJobPages(a)' = TaskJobPages(a)
    BY DEF AreasInv, Complete
  <2> QED
    BY <1>1, <2>1 DEF TaskOf
<1> QED
  BY <1>1, <1>2 DEF AreasInv

(* The invariant holds when the memory manager has started.                *)
LEMMA InitAll == Init => IInv
<1> SUFFICES ASSUME Init PROVE IInv
  OBVIOUS
<1>1. MemInv
  BY InitMem
<1>2. DOMAIN area = {} /\ Built = {} /\ Complete = {} /\ Unfinished = {}
  BY DEF Init, Built, Complete, Unfinished
<1>3. DirectoryInv
  BY <1>2 DEF DirectoryInv
<1>4. BitmapsTell
  <2>1. \A v \in Managed : Page(v) # 0 <=> v = HeapStart
    <3> TAKE v \in Managed
    <3>1. Page(v) = IF v = HeapStart THEN LowPages + ImagePages ELSE 0
      BY BootPages DEF Init
    <3> QED
      BY <3>1, Sizes
  <2>2. heap = {HeapStart} /\ HeapStart \in HeapPages /\ HeapStart \notin TaskPages
    BY Spaces DEF Init
  <2>3. HeapPages \subseteq Managed /\ TaskPages \subseteq Managed
    BY DEF Managed
  <2> QED
    BY <1>2, <2>1, <2>2, <2>3 DEF BitmapsTell
<1>5. BlocksInv
  <2>1. Parts = {} /\ KernelJobPages = {}
    BY <1>2 DEF Parts, KernelJobPages, InJob, Init
  <2> QED
    BY <2>1 DEF BlocksInv, Init
<1>50. SlotsInv
  <2>1. \A i \in Slots : kdesc[i] = NoBlock
    BY DEF Init
  <2>2. \A i \in Slots : Tail(i) = {}
    BY <2>1 DEF Tail, NoBlock, PageRange
  <2> QED
    BY <2>2 DEF SlotsInv
<1>51. RoomInv
  BY DEF RoomInv, Recording, InJob, Init
<1>6. AreasInv
  BY <1>2 DEF AreasInv, Init
<1>7. JobInv
  <2>1. 0 \in VirtPages
    BY Bounds DEF VirtPages
  <2> QED
    BY <2>1 DEF JobInv, Init, InJob, NoFault
<1> QED
  BY <1>1, <1>3, <1>4, <1>5, <1>50, <1>51, <1>6, <1>7 DEF IInv

-----------------------------------------------------------------------------
(* vir_alloc begins: a run of pages nobody has.                            *)
LEMMA SpaceIs ==
  ASSUME NEW owner
  PROVE  /\ Space(owner) \subseteq Nat /\ Space(owner) \subseteq Managed
         /\ \A v \in Space(owner) : v < TableEntries * Last
<1>1. Space(owner) = HeapPages \/ Space(owner) = TaskPages
  BY DEF Space
<1>2. \A v \in HeapPages \cup TaskPages : v < TableEntries * Last
  BY Bounds, Sizes DEF HeapPages, TaskPages
<1> QED
  BY <1>1, <1>2, Spaces DEF Managed

LEMMA Begins ==
  ASSUME NEW owner, NEW n \in Nat \ {0}, NEW for, VirAllocAccepts(owner, n),
         Begin(owner, n, for)
  PROVE  \E v \in Space(owner) :
           /\ pc' = "map"
           /\ job' = [owner |-> owner, first |-> v, next |-> v, end |-> v + n,
                      for |-> for]
           /\ PageRange(v, n) \subseteq Space(owner) \ Bitmap(owner)
           /\ v \in VirtPages /\ v + n \in VirtPages
           /\ \A u \in Runs(owner, n) : v <= u
<1>1. Runs(owner, n) # {} /\ Runs(owner, n) \in SUBSET Nat
  BY SpaceIs DEF VirAllocAccepts, Runs
<1>2. PICK v \in Runs(owner, n) : v = Lowest(Runs(owner, n)) /\ \A u \in Runs(owner, n) : v <= u
  BY <1>1, LowestIs
<1>3. v \in Space(owner) /\ PageRange(v, n) \subseteq Space(owner) \ Bitmap(owner)
  BY DEF Runs
<1>4. v \in Nat /\ v + n - 1 \in PageRange(v, n)
  BY <1>3, SpaceIs DEF PageRange
<1>5. v + n - 1 < TableEntries * Last
  BY <1>3, <1>4, SpaceIs
<1>6. v \in VirtPages /\ v + n \in VirtPages
  BY <1>4, <1>5, Bounds DEF VirtPages
<1> QED
  BY <1>2, <1>3, <1>6 DEF Begin

LEMMA BeginKeeps ==
  ASSUME IInv, pc \notin {"map", "lost", "paging"},
         NEW owner \in {0} \cup DOMAIN area, NEW n \in Nat \ {0},
         NEW for \in {"kernel", "task", "area", "directory", "desc"},
         VirAllocAccepts(owner, n), Begin(owner, n, for),
         UNCHANGED <<memVars, ownVars, fault>>,
         Unfinished # {} => for \in {"directory", "desc"},
         for \in {"kernel", "area", "directory"} => owner = 0,
         owner = 0 => FreeSlots # {}, for = "area" => TwoFree,
         for = "area" => n = AreaPages /\ cmem_area = 0,
         for = "directory" =>
           /\ n = DirPages /\ cmem_area = 0 /\ Unfinished # {}
           /\ \A a \in Unfinished : area[a] = NoArea,
         for = "task" => owner = cmem_area /\ cmem_area \in Complete,
         for = "desc" => owner = cmem_area /\ cmem_area \in Unfinished /\ n = 1
  PROVE  IInv'
<1>1. PICK v \in Space(owner) :
           /\ pc' = "map"
           /\ job' = [owner |-> owner, first |-> v, next |-> v, end |-> v + n,
                      for |-> for]
           /\ PageRange(v, n) \subseteq Space(owner) \ Bitmap(owner)
           /\ v \in VirtPages /\ v + n \in VirtPages
           /\ \A u \in Runs(owner, n) : v <= u
  BY Begins
<1>2. /\ MemInv /\ DirectoryInv /\ BitmapsTell /\ BlocksInv /\ SlotsInv
      /\ AreasInv /\ JobInv /\ word' = word /\ used' = used /\ heap' = heap /\ area' = area
      /\ kdesc' = kdesc /\ held' = held /\ cmem_area' = cmem_area /\ fault' = fault
  BY DEF IInv, memVars, ownVars
<1>3. v \in Nat /\ v < v + n /\ v + n - v = n /\ v <= v
  BY <1>1, SpaceIs
<1>4. JobDone' = {} /\ InJob' /\ ~InJob
  BY <1>1, <1>3 DEF JobDone, PageRange, InJob
<1>5. MemInv' /\ DirectoryInv' /\ BitmapsTell'
  BY <1>2, QuietMem
<1>6. BlocksInv' /\ SlotsInv'
  <2>1. KernelJobPages' = {} /\ KernelJobPages = {}
    BY <1>1, <1>4 DEF KernelJobPages
  <2>2. JobHeads' = {} /\ JobHeads = {}
    BY <2>1 DEF JobHeads
  <2> QED
    BY <1>2, <2>1, <2>2, QuietBlocks
<1>60. RoomInv'
  <2>1. FreeSlots' = FreeSlots /\ (TwoFree' <=> TwoFree)
    BY <1>2 DEF FreeSlots, TwoFree
  <2>2. job'.owner = owner /\ job'.for = for /\ pc' # "directory"
    BY <1>1
  <2> QED
    BY <2>1, <2>2 DEF RoomInv, Recording
<1>7. AreasInv'
  <2>1. \A a \in DOMAIN area : TaskJobPages(a)' = {} /\ TaskJobPages(a) = {}
    BY <1>4 DEF TaskJobPages
  <2>2. Unfinished # {} => Building'
    BY <1>1, <1>4 DEF Building
  <2> QED
    BY <1>2, <2>1, <2>2, QuietAreas
<1>8. JobInv'
  <2>1. Complete' = Complete /\ Unfinished' = Unfinished
    BY <1>2 DEF Complete, Unfinished
  <2>2. Bitmap(owner)' = Bitmap(owner) /\ Space(owner)' = Space(owner)
    BY <1>2 DEF Bitmap, Space
  <2>3. /\ job'.owner = owner /\ job'.first = v /\ job'.next = v /\ job'.end = v + n
        /\ job'.for = for
        /\ job' \in [owner : {0} \cup DOMAIN area, first : VirtPages, next : VirtPages,
                     end : VirtPages,
                     for : {"kernel", "task", "area", "directory", "desc"}]
    BY <1>1
  <2>4. /\ PageRange(v, (v + n) - v) \subseteq Space(owner)
        /\ PageRange(v, (v + n) - v) \cap Bitmap(owner) = {}
    BY <1>1, <1>3
  <2>5. JobLeft' = PageRange(v, (v + n) - v)
    BY <2>3 DEF JobLeft
  <2>6. for = "desc" => v = LowPages
    <3> SUFFICES ASSUME for = "desc" PROVE v = LowPages
      OBVIOUS
    <3>1. owner = cmem_area /\ cmem_area \in Unfinished /\ n = 1 /\ owner # 0
      BY <1>2, Spaces DEF AreasInv, Unfinished
    <3>2. Bitmap(owner) = {} /\ Space(owner) = TaskPages
      BY <1>2, <3>1 DEF AreasInv, Bitmap, Space
    <3>3. PageRange(LowPages, 1) = {LowPages}
      BY Sizes DEF PageRange
    <3>4. LowPages \in Runs(owner, n)
      BY <3>1, <3>2, <3>3, Spaces DEF Runs
    <3>5. v <= LowPages /\ LowPages <= v
      BY <1>1, <3>2, <3>4, Spaces
    <3> QED
      BY <1>3, <3>5, Sizes
  <2>7. fault' \in [page : VirtPages, odd : BOOLEAN]
    BY <1>2 DEF JobInv
  <2> QED
    BY <1>1, <1>2, <1>3, <2>1, <2>2, <2>3, <2>4, <2>5, <2>6, <2>7 DEF JobInv, InJob
<1> QED
  BY <1>5, <1>6, <1>60, <1>7, <1>8 DEF IInv


(* Between calls, and in the fault handler, no area is unfinished and      *)
(* nothing is being mapped.                                                *)
LEMMA AtRest ==
  ASSUME AreasInv, pc \in {"idle", "fault", "panic"}
  PROVE  /\ Unfinished = {} /\ DOMAIN area = Complete /\ KernelJobPages = {}
         /\ \A a : TaskJobPages(a) = {}
<1>1. ~InJob /\ ~Building /\ pc # "paging"
  BY DEF InJob, Building
<1>2. Unfinished = {}
  BY <1>1 DEF AreasInv
<1> QED
  BY <1>1, <1>2 DEF Unfinished, Complete, KernelJobPages, TaskJobPages

LEMMA KernelAllocKeeps ==
  ASSUME IInv, NEW n \in KernelSizes, KernelAlloc(n)
  PROVE  IInv'
<1>1. /\ pc = "idle" /\ n \in Nat \ {0} /\ VirAllocAccepts(0, n) /\ Begin(0, n, "kernel")
      /\ FreeSlots # {}
      /\ UNCHANGED <<memVars, ownVars, fault>>
  BY Sizes DEF KernelAlloc
<1>2. Unfinished = {}
  BY <1>1, AtRest DEF IInv
<1> QED
  BY <1>1, <1>2, BeginKeeps

LEMMA TaskAllocKeeps ==
  ASSUME IInv, NEW n \in TaskSizes, TaskAlloc(n)
  PROVE  IInv'
<1>1. /\ pc = "idle" /\ n \in Nat \ {0} /\ VirAllocAccepts(cmem_area, n)
      /\ Begin(cmem_area, n, "task") /\ cmem_area # 0
      /\ UNCHANGED <<memVars, ownVars, fault>>
  BY Sizes DEF TaskAlloc
<1>2. Unfinished = {} /\ DOMAIN area = Complete
  BY <1>1, AtRest DEF IInv
<1>3. cmem_area \in DOMAIN area
  BY <1>1 DEF IInv, AreasInv, Built
<1>4. PICK owner \in {0} \cup DOMAIN area : owner = cmem_area
  BY <1>3
<1>5. owner # 0
  BY <1>1, <1>4
<1> QED
  BY <1>1, <1>2, <1>3, <1>4, <1>5, BeginKeeps

LEMMA InitMemoryAreaKeeps ==
  ASSUME IInv, InitMemoryArea
  PROVE  IInv'
<1>1. /\ pc = "idle" /\ AreaPages \in Nat \ {0} /\ VirAllocAccepts(0, AreaPages)
      /\ Begin(0, AreaPages, "area") /\ cmem_area = 0 /\ TwoFree /\ FreeSlots # {}
      /\ UNCHANGED <<memVars, ownVars, fault>>
  BY Sizes DEF InitMemoryArea, TwoFree
<1>2. Unfinished = {}
  BY <1>1, AtRest DEF IInv
<1> QED
  BY <1>1, <1>2, BeginKeeps

LEMMA AllocDirectoryKeeps ==
  ASSUME IInv, AllocDirectory
  PROVE  IInv'
<1>1. /\ pc = "directory" /\ DirPages \in Nat \ {0} /\ VirAllocAccepts(0, DirPages)
      /\ Begin(0, DirPages, "directory")
      /\ UNCHANGED <<memVars, ownVars, fault>>
  BY Sizes DEF AllocDirectory
<1>2. /\ cmem_area = 0 /\ Unfinished # {} /\ \A a \in Unfinished : area[a] = NoArea
      /\ FreeSlots # {}
  BY <1>1 DEF IInv, JobInv, RoomInv, Recording
<1> QED
  BY <1>1, <1>2, BeginKeeps

(* Steps that only change what the kernel is executing.                    *)
LEMMA StateKeeps ==
  ASSUME IInv, UNCHANGED <<memVars, ownVars>>, KernelJobPages' = KernelJobPages,
         JobHeads' = JobHeads, Recording' => Recording,
         (InJob /\ job.for = "area")' => InJob /\ job.for = "area",
         \A a \in DOMAIN area : TaskJobPages(a)' = TaskJobPages(a),
         Unfinished # {} => Building', JobInv'
  PROVE  IInv'
<1>1. /\ MemInv /\ DirectoryInv /\ BitmapsTell /\ BlocksInv /\ SlotsInv /\ RoomInv
      /\ AreasInv /\ word' = word /\ used' = used /\ heap' = heap
      /\ UNCHANGED <<heap, kdesc, held, area>> /\ UNCHANGED <<area, cmem_area>>
  BY DEF IInv, memVars, ownVars
<1>2. FreeSlots' = FreeSlots /\ (TwoFree' <=> TwoFree)
  BY <1>1 DEF FreeSlots, TwoFree
<1>3. RoomInv'
  BY <1>1, <1>2 DEF RoomInv
<1> QED
  BY <1>1, <1>3, QuietMem, QuietBlocks, QuietAreas DEF IInv

LEMMA InitDescKeeps ==
  ASSUME IInv, InitDesc
  PROVE  IInv'
<1>1. /\ pc = "desc" /\ UNCHANGED <<memVars, ownVars, fault>>
      /\ \/ VirAllocAccepts(cmem_area, 1) /\ Begin(cmem_area, 1, "desc")
         \/ pc' = "failed"
  BY DEF InitDesc
<1>2. cmem_area \in Unfinished /\ cmem_area \in DOMAIN area
  BY <1>1 DEF IInv, JobInv, Unfinished
<1>3. CASE VirAllocAccepts(cmem_area, 1) /\ Begin(cmem_area, 1, "desc")
  <2>1. PICK owner \in {0} \cup DOMAIN area : owner = cmem_area
    BY <1>2
  <2>2. PICK n \in Nat \ {0} : n = 1
    OBVIOUS
  <2>3. VirAllocAccepts(owner, n) /\ Begin(owner, n, "desc") /\ owner = cmem_area
    BY <1>3, <2>1, <2>2
  <2>4. pc \notin {"map", "lost", "paging"}
    BY <1>1
  <2>5. owner # 0
    BY <1>2, <2>1, Spaces DEF IInv, AreasInv
  <2> QED
    BY <1>1, <1>2, <2>1, <2>2, <2>3, <2>4, <2>5, BeginKeeps
<1>4. CASE pc' = "failed"
  <2>1. KernelJobPages' = KernelJobPages /\ Building' /\ ~InJob' /\ ~Recording'
        /\ \A a \in DOMAIN area : TaskJobPages(a)' = TaskJobPages(a)
    BY <1>1, <1>4 DEF KernelJobPages, InJob, TaskJobPages, Building, Recording
  <2>2. JobInv'
    <3>1. Unfinished' = Unfinished
      BY <1>1 DEF Unfinished, Complete, ownVars
    <3> QED
      BY <1>1, <1>2, <1>4, <3>1 DEF IInv, JobInv, InJob, ownVars
  <2>3. JobHeads' = JobHeads
    BY <1>1, <1>4 DEF JobHeads, KernelJobPages, InJob
  <2> QED
    BY <1>1, <2>1, <2>2, <2>3, StateKeeps
<1> QED
  BY <1>1, <1>3, <1>4

LEMMA MapLostKeeps ==
  ASSUME IInv, MapLost
  PROVE  IInv'
<1>1. /\ pc = "map" /\ pc' = "lost" /\ UNCHANGED <<memVars, ownVars, job, fault>>
  BY DEF MapLost
<1>2. JobDone' = JobDone /\ JobLeft' = JobLeft /\ InJob /\ InJob'
  BY <1>1 DEF JobDone, JobLeft, InJob
<1>3. /\ KernelJobPages' = KernelJobPages /\ (Building <=> Building')
      /\ \A a \in DOMAIN area : TaskJobPages(a)' = TaskJobPages(a)
  BY <1>1, <1>2 DEF KernelJobPages, TaskJobPages, Building
<1>4. JobInv'
  <2>1. Unfinished' = Unfinished /\ Complete' = Complete
    BY <1>1 DEF Unfinished, Complete, ownVars
  <2>2. Bitmap(job.owner)' = Bitmap(job.owner)
    BY <1>1 DEF Bitmap, memVars, ownVars
  <2>3. Space(job.owner)' = Space(job.owner)
    BY <1>1 DEF Space
  <2> QED
    BY <1>1, <1>2, <2>1, <2>2, <2>3 DEF IInv, JobInv, ownVars
<1>5. Unfinished # {} => Building'
  BY <1>3 DEF IInv, AreasInv
<1>6. /\ JobHeads' = JobHeads /\ (Recording' => Recording)
      /\ job' = job
  BY <1>1, <1>2, <1>3 DEF JobHeads, Recording
<1> QED
  BY <1>1, <1>2, <1>3, <1>4, <1>5, <1>6, StateKeeps

LEMMA FaultsKeeps ==
  ASSUME IInv, NEW v \in Usable, NEW odd \in BOOLEAN, Faults(v, odd)
  PROVE  IInv'
<1>1. /\ pc = "idle" /\ pc' = "fault" /\ fault' = [page |-> v, odd |-> odd]
      /\ UNCHANGED <<memVars, ownVars, job>>
  BY DEF Faults
<1>2. v \in VirtPages
  <2>1. CASE v \in PagesOf(held)
    <3>1. PICK b \in held : v \in PageRange(b.address, b.size)
      BY <2>1 DEF PagesOf
    <3>2. Part("held", 0, b) \in Parts
      BY <3>1 DEF Parts
    <3>3. v \in heap
      BY <3>1, <3>2 DEF IInv, BlocksInv, PartPages, Part
    <3> QED
      BY <3>3, Spaces DEF IInv, BitmapsTell
  <2>2. CASE v \notin PagesOf(held)
    <3>1. cmem_area # 0 /\ v \in PagesOf(area[cmem_area].blocks)
      BY <2>2 DEF Usable
    <3>2. cmem_area \in Complete
      BY <1>1, <3>1, AtRest DEF IInv, AreasInv, Built
    <3>3. v \in area[cmem_area].bitmap /\ area[cmem_area] \in Areas
      BY <3>1, <3>2 DEF IInv, AreasInv, TaskOf, Complete
    <3> QED
      BY <3>3, Spaces DEF Areas
  <2> QED
    BY <2>1, <2>2
<1>3. /\ KernelJobPages' = {} /\ KernelJobPages = {} /\ Unfinished = {}
      /\ \A a : TaskJobPages(a)' = {} /\ TaskJobPages(a) = {}
      /\ JobHeads' = {} /\ JobHeads = {} /\ ~InJob' /\ ~Recording'
  <2>1. ~InJob' /\ ~Recording'
    BY <1>1 DEF InJob, Recording
  <2>2. KernelJobPages' = {} /\ KernelJobPages = {}
    BY <1>1, <2>1, AtRest DEF IInv, KernelJobPages
  <2> QED
    BY <1>1, <2>1, <2>2, AtRest DEF IInv, JobHeads, TaskJobPages
<1>4. JobInv'
  BY <1>1, <1>2 DEF JobInv, InJob
<1> QED
  BY <1>1, <1>3, <1>4, StateKeeps

LEMMA FaultPanicsKeeps ==
  ASSUME IInv, FaultPanics
  PROVE  IInv'
<1>1. pc = "fault" /\ pc' = "panic" /\ UNCHANGED <<memVars, ownVars, job, fault>>
  BY DEF FaultPanics
<1>2. /\ KernelJobPages' = {} /\ KernelJobPages = {} /\ Unfinished = {}
      /\ \A a : TaskJobPages(a)' = {} /\ TaskJobPages(a) = {}
      /\ JobHeads' = {} /\ JobHeads = {} /\ ~InJob' /\ ~Recording'
  <2>1. ~InJob' /\ ~Recording'
    BY <1>1 DEF InJob, Recording
  <2>2. KernelJobPages' = {} /\ KernelJobPages = {}
    BY <1>1, <2>1, AtRest DEF IInv, KernelJobPages
  <2> QED
    BY <1>1, <2>1, <2>2, AtRest DEF IInv, JobHeads, TaskJobPages
<1>3. JobInv'
  BY <1>1 DEF IInv, JobInv, InJob
<1> QED
  BY <1>1, <1>2, <1>3, StateKeeps

(* Copying an entry of the kernel's directory to the directory at PD_VIRT  *)
(* copies it to itself.                                                    *)
LEMMA CopiesEntryKeeps ==
  ASSUME IInv, CopiesEntry
  PROVE  IInv'
<1>1. /\ pc = "fault" /\ pc' = pc /\ fault' = ReturnsTo
      /\ UNCHANGED <<used, heap, ownVars, job>>
      /\ word' = [word EXCEPT ![PD_VIRT(CR3)][Entry(fault.page)] =
                     word[KernelDir][Entry(fault.page)]]
  BY DEF CopiesEntry
<1>2. PD_VIRT(CR3) = KernelDir
  BY Current DEF IInv, AreasInv
<1>3. word' = word
  <2>1. PICK e : e = Entry(fault.page)
    OBVIOUS
  <2>2. word' = [word EXCEPT ![KernelDir][e] = word[KernelDir][e]]
    BY <1>1, <1>2, <2>1
  <2>3. word \in [Frames -> [Entries -> Frames]] /\ KernelDir \in Frames
    BY FramesAre DEF IInv, MemInv, WordTyped
  <2> QED
    BY <2>2, <2>3
<1>4. /\ KernelJobPages' = {} /\ KernelJobPages = {} /\ Unfinished = {}
      /\ \A a : TaskJobPages(a)' = {} /\ TaskJobPages(a) = {}
      /\ JobHeads' = {} /\ JobHeads = {} /\ ~InJob' /\ ~Recording'
  <2>1. ~InJob' /\ ~Recording'
    BY <1>1 DEF InJob, Recording
  <2>2. KernelJobPages' = {} /\ KernelJobPages = {}
    BY <1>1, <2>1, AtRest DEF IInv, KernelJobPages
  <2> QED
    BY <1>1, <2>1, <2>2, AtRest DEF IInv, JobHeads, TaskJobPages
<1>5. JobInv'
  <2>1. ReturnsTo \in [page : VirtPages, odd : BOOLEAN]
    BY Bounds DEF ReturnsTo, VirtPages
  <2> QED
    BY <1>1, <2>1 DEF IInv, JobInv, InJob
<1>6. UNCHANGED <<memVars, ownVars>>
  BY <1>1, <1>3 DEF memVars
<1> QED
  BY <1>4, <1>5, <1>6, StateKeeps

LEMMA SwitchKeeps ==
  ASSUME IInv, NEW a \in {0} \cup DOMAIN area, Switch(a)
  PROVE  IInv'
<1>1. /\ pc = "idle" /\ pc' = pc /\ cmem_area' = a
      /\ UNCHANGED <<memVars, kdesc, held, area, job, fault>>
  BY DEF Switch
<1>2. MemInv' /\ DirectoryInv' /\ BitmapsTell'
  <2>1. word' = word /\ used' = used /\ heap' = heap /\ area' = area
    BY <1>1 DEF memVars
  <2> QED
    BY <2>1, QuietMem DEF IInv
<1>3. /\ KernelJobPages' = {} /\ KernelJobPages = {} /\ Unfinished = {}
      /\ \A c : TaskJobPages(c)' = {} /\ TaskJobPages(c) = {}
      /\ DOMAIN area = Complete /\ ~InJob'
      /\ JobHeads' = {} /\ JobHeads = {} /\ RoomInv'
  <2>1. ~InJob'
    BY <1>1 DEF InJob
  <2>2. KernelJobPages' = {} /\ KernelJobPages = {}
    BY <1>1, <2>1, AtRest DEF IInv, KernelJobPages
  <2>3. RoomInv'
    BY <1>1, <2>1 DEF RoomInv, Recording
  <2> QED
    BY <1>1, <2>1, <2>2, <2>3, AtRest DEF IInv, JobHeads, TaskJobPages
<1>4. BlocksInv' /\ SlotsInv'
  BY <1>1, <1>3, QuietBlocks DEF IInv, memVars
<1>5. AreasInv'
  <2>1. Unfinished' = {} /\ Complete' = Complete /\ Built' = Built
    BY <1>1, <1>3 DEF Unfinished, Complete, Built
  <2>2. \A c \in Complete : TaskOf(c) /\ c \in Built
    BY DEF IInv, AreasInv, TaskOf
  <2>3. \A c \in Complete : TaskOf(c)'
    BY <1>1, <1>3, <2>1, <2>2 DEF TaskOf
  <2>4. a \in {0} \cup Built
    BY <1>3, <2>2
  <2> QED
    BY <1>1, <2>1, <2>3, <2>4 DEF IInv, AreasInv
<1>6. JobInv'
  BY <1>1 DEF IInv, JobInv, InJob
<1> QED
  BY <1>2, <1>3, <1>4, <1>5, <1>6 DEF IInv


-----------------------------------------------------------------------------
(* The next page of vir_alloc is mapped nowhere, except when it is the     *)
(* first page of a second area.                                            *)
LEMMA JobIs ==
  ASSUME IInv, InJob
  PROVE  /\ job.first \in Nat /\ job.next \in Nat /\ job.end \in Nat
         /\ job.first <= job.next /\ job.next < job.end
         /\ job.next \in Space(job.owner) /\ job.first \in Space(job.owner)
         /\ job.next \in Managed
         /\ job.next \notin Bitmap(job.owner) /\ job.next \in JobLeft
         /\ \A v \in JobDone : v \in Space(job.owner) /\ v # job.next
<1>1. /\ job.first \in VirtPages /\ job.next \in VirtPages /\ job.end \in VirtPages
      /\ job.first <= job.next /\ job.next < job.end
      /\ PageRange(job.first, job.end - job.first) \subseteq Space(job.owner)
      /\ JobLeft \cap Bitmap(job.owner) = {}
  BY DEF IInv, JobInv
<1>2. job.first \in Nat /\ job.next \in Nat /\ job.end \in Nat
  BY <1>1, Bounds DEF VirtPages
<1>3. PICK f \in Nat, n \in Nat, e \in Nat : f = job.first /\ n = job.next /\ e = job.end
  BY <1>2
<1>4. f <= n /\ n < e
  BY <1>1, <1>3
<1>5. n \in PageRange(f, e - f) /\ f \in PageRange(f, e - f) /\ n \in PageRange(n, e - n)
  BY <1>4 DEF PageRange
<1>6. \A v \in PageRange(f, n - f) : v \in PageRange(f, e - f) /\ v # n
  BY <1>4 DEF PageRange
<1>7. Space(job.owner) \subseteq Managed
  BY SpaceIs
<1> QED
  BY <1>1, <1>2, <1>3, <1>4, <1>5, <1>6, <1>7 DEF JobLeft, JobDone

LEMMA NextUnmapped ==
  ASSUME IInv, InJob, job.for # "desc"
  PROVE  Page(job.next) = 0
<1>1. /\ job.next \in Space(job.owner) /\ job.next \notin Bitmap(job.owner)
      /\ job.for \in {"kernel", "task", "area", "directory", "desc"}
  BY JobIs DEF IInv, JobInv
<1>2. CASE job.for = "task"
  <2>1. job.owner = cmem_area /\ cmem_area \in Complete /\ cmem_area # 0
    BY <1>2, Spaces DEF IInv, JobInv, AreasInv, Complete
  <2>2. job.next \in TaskPages /\ job.next \notin area[cmem_area].bitmap
    BY <1>1, <2>1 DEF Space, Bitmap
  <2>3. ASSUME NEW a \in DOMAIN area, job.next \in area[a].bitmap PROVE FALSE
    <3>1. a \in Complete
      BY <2>3 DEF IInv, AreasInv, Unfinished
    <3>2. a = cmem_area
      BY <2>1, <3>1 DEF IInv, AreasInv
    <3> QED
      BY <2>2, <2>3, <3>2
  <2> QED
    BY <2>2, <2>3 DEF IInv, BitmapsTell
<1>3. CASE job.for # "task"
  <2>1. job.owner = 0
    BY <1>1, <1>3 DEF IInv, JobInv
  <2> QED
    BY <1>1, <2>1 DEF IInv, BitmapsTell, Space, Bitmap
<1> QED
  BY <1>2, <1>3

LEMMA MapRefusedKeeps ==
  ASSUME IInv, MapRefused
  PROVE  IInv'
<1>1. /\ pc = "map" /\ InJob /\ PageAlready /\ job' = NoJob
      /\ pc' = (IF job.for = "desc" THEN "failed" ELSE "idle")
      /\ UNCHANGED <<memVars, ownVars, fault>>
  BY DEF MapRefused, InJob
<1>2. \A v : get_physical(CR3, v) = Page(v)
  BY Current DEF IInv, AreasInv
<1>3. Page(job.next) # 0
  BY <1>1, <1>2 DEF PageAlready
<1>4. job.for = "desc" /\ pc' = "failed" /\ ~InJob'
  BY <1>1, <1>3, NextUnmapped DEF InJob
<1>5. cmem_area \in Unfinished /\ job.owner = cmem_area /\ cmem_area # 0
  BY <1>1, <1>4, Spaces DEF IInv, JobInv, AreasInv, Unfinished
<1>6. /\ KernelJobPages = {} /\ KernelJobPages' = {} /\ Building'
      /\ \A a : TaskJobPages(a)' = {} /\ TaskJobPages(a) = {}
  BY <1>1, <1>4, <1>5 DEF KernelJobPages, TaskJobPages, Building
<1>7. JobInv'
  <2>1. Unfinished' = Unfinished
    BY <1>1 DEF Unfinished, Complete, ownVars
  <2> QED
    BY <1>1, <1>4, <1>5, <2>1 DEF IInv, JobInv, ownVars
<1>8. JobHeads' = {} /\ JobHeads = {} /\ ~Recording'
  BY <1>4, <1>6 DEF JobHeads, Recording
<1> QED
  BY <1>1, <1>4, <1>6, <1>7, <1>8, StateKeeps

(* What mapping the next page does to the memory.                          *)
PageAdded(n) ==
  /\ MemInv' /\ TablesKept /\ ContentsKept
  /\ \A v \in Managed : Page(v)' # 0 <=> v = n \/ Page(v) # 0
  /\ \A v \in Managed : v # n => Page(v)' = Page(v)

LEMMA MemoryIs ==
  ASSUME MemInv, NEW k \in {1, 2}, Cardinality(Frames \ used) >= k
  PROVE  /\ NewPage \in Frames \ used
         /\ k = 2 => NewTable \in Frames \ (used \cup {NewPage})
<1>1. Frames \subseteq Nat
  BY DEF Frames
<1>2. Frames \ used # {}
  <2> SUFFICES ASSUME Frames \ used = {} PROVE FALSE
    OBVIOUS
  <2>1. Cardinality({}) = 0
    BY FS_EmptySet
  <2>2. Cardinality(Frames \ used) = 0
    BY <2>1
  <2> QED
    BY <2>2
<1>3. NewPage \in Frames \ used
  <2>1. Frames \ used \in SUBSET Nat
    BY <1>1
  <2> QED
    BY <1>2, <2>1, LowestIs DEF NewPage
<1>4. ASSUME k = 2 PROVE Frames \ (used \cup {NewPage}) # {}
  <2> SUFFICES ASSUME Frames \ (used \cup {NewPage}) = {} PROVE FALSE
    OBVIOUS
  <2>1. Frames \ used = {NewPage}
    BY <1>3
  <2>2. PICK p : p = NewPage
    OBVIOUS
  <2>3. Cardinality({p}) = 1
    BY FS_Singleton
  <2>4. Cardinality(Frames \ used) = 1
    BY <2>1, <2>2, <2>3
  <2> QED
    BY <1>4, <2>4
<1>5. ASSUME k = 2 PROVE NewTable \in Frames \ (used \cup {NewPage})
  <2>1. Frames \ (used \cup {NewPage}) \in SUBSET Nat
    BY <1>1
  <2> QED
    BY <1>4, <1>5, <2>1, LowestIs DEF NewTable
<1> QED
  BY <1>3, <1>5

LEMMA MapPageMem ==
  ASSUME IInv, MapPage
  PROVE  Page(job.next) = 0 /\ PageAdded(job.next)
<1>1. /\ InJob /\ MemoryLeft /\ ~PageAlready /\ MemInv
      /\ cmem_area \in {0} \cup Built /\ DirectoryInv
  BY DEF MapPage, InJob, IInv, AreasInv
<1>2. /\ PD_VIRT(CR3) = KernelDir
      /\ \A e : PT_VIRT(CR3, e) = Table(e)
      /\ \A v : get_physical(CR3, v) = Page(v)
  BY <1>1, Current
<1>3. PICK n \in Managed : n = job.next
  BY <1>1, JobIs
<1>4. NeedsTable <=> Table(Entry(n)) = 0
  BY <1>2, <1>3 DEF NeedsTable, Table
<1>5. Page(n) = 0
  <2>1. CASE NeedsTable
    BY <1>1, <1>4, <2>1, PageIs
  <2>2. CASE ~NeedsTable
    BY <1>1, <1>2, <1>3, <2>2 DEF PageAlready
  <2> QED
    BY <2>1, <2>2
<1>6. Entry(n) \in Entries /\ Slot(n) \in Entries
  BY ManagedEntry
<1>7. CASE ~NeedsTable
  <2>1. Cardinality(Frames \ used) >= 1
    BY <1>1, <1>7 DEF MemoryLeft
  <2>2. PICK x \in Frames \ used : x = NewPage
    BY <1>1, <2>1, MemoryIs
  <2>3. /\ word' = [word EXCEPT ![Table(Entry(n))][Slot(n)] = x]
        /\ used' = used \cup {x}
    BY <1>2, <1>3, <1>7, <2>2 DEF MapPage
  <2>4. /\ MemInv'
        /\ \A e \in Entries : Table(e)' = Table(e)
        /\ \A v \in Managed : Page(v)' = IF v = n THEN x ELSE Page(v)
        /\ \A f \in Frames : Aside(f) => word'[f] = word[f]
    BY <1>1, <1>4, <1>5, <1>7, <2>3, MapsInTable DEF Entered
  <2>5. x # 0
    BY <1>1, FramesAre DEF MemInv, TablesApart
  <2>6. TablesKept /\ ContentsKept
    BY <1>1, <2>4, PageAside DEF TablesKept, ContentsKept
  <2> QED
    BY <1>3, <1>5, <2>4, <2>5, <2>6 DEF PageAdded
<1>8. CASE NeedsTable
  <2>1. Cardinality(Frames \ used) >= 2
    BY <1>1, <1>8 DEF MemoryLeft
  <2>2. NewPage \in Frames \ used /\ NewTable \in Frames \ (used \cup {NewPage})
    BY <1>1, <2>1, MemoryIs
  <2>3. PICK x \in Frames \ used : x = NewPage
    BY <2>2
  <2>4. PICK y \in Frames \ (used \cup {x}) : y = NewTable
    BY <2>2, <2>3
  <2>5. TableEntered = WithTable(Entry(n), y)
    <3> DEFINE dirs == {KernelDir} \cup
                         (IF Entry(n) >= KernelEntry THEN {KernelDir} ELSE {})
    <3>1. TableEntered = [f \in Frames |->
             CASE f \in dirs -> [word[f] EXCEPT ![Entry(n)] = y]
               [] f = y -> EmptyTable
               [] OTHER -> word[f]]
      BY <1>2, <1>3, <2>4 DEF TableEntered
    <3>2. dirs = {KernelDir}
      OBVIOUS
    <3> HIDE DEF dirs
    <3>3. \A f \in Frames :
            (CASE f \in dirs -> [word[f] EXCEPT ![Entry(n)] = y]
               [] f = y -> EmptyTable
               [] OTHER -> word[f])
            = IF f = KernelDir THEN [word[f] EXCEPT ![Entry(n)] = y]
              ELSE IF f = y THEN EmptyTable ELSE word[f]
      <4>1. y # KernelDir
        BY <1>1, FramesAre DEF MemInv, TablesApart
      <4> QED
        BY <3>2, <4>1
    <3> QED
      BY <3>1, <3>3 DEF WithTable
  <2>6. /\ word' = [TableEntered EXCEPT ![y][Slot(n)] = x]
        /\ used' = used \cup {x, y}
    BY <1>3, <1>8, <2>3, <2>4 DEF MapPage
  <2>7. /\ MemInv'
        /\ \A e \in Entries : Table(e)' = IF e = Entry(n) THEN y ELSE Table(e)
        /\ \A v \in Managed : Page(v)' = IF v = n THEN x ELSE Page(v)
        /\ \A f \in Frames \ {y} : Aside(f) => word'[f] = word[f]
    BY <1>1, <1>4, <1>5, <1>8, <2>5, <2>6, MapsWithTable DEF Entered
  <2>8. x # 0
    BY <1>1, FramesAre DEF MemInv, TablesApart
  <2>9. TablesKept
    BY <1>4, <1>8, <2>7 DEF TablesKept
  <2>10. ContentsKept
    <3> SUFFICES ASSUME NEW v \in Managed, Page(v) # 0
                 PROVE  word'[Page(v)] = word[Page(v)]
      BY DEF ContentsKept
    <3>1. Aside(Page(v)) /\ Page(v) \in Frames \ {y}
      BY <1>1, PageAside
    <3> QED
      BY <2>7, <3>1
  <2> QED
    BY <1>3, <1>5, <2>7, <2>8, <2>9, <2>10 DEF PageAdded
<1> QED
  BY <1>7, <1>8


(* Whom vir_alloc works for follows from its purpose.                      *)
LEMMA Owners ==
  ASSUME IInv, InJob
  PROVE  /\ job.for \in {"kernel", "task", "area", "directory", "desc"}
         /\ job.owner = 0 <=> job.for \in {"kernel", "area", "directory"}
         /\ job.owner # 0 => job.owner = cmem_area /\ job.owner \in DOMAIN area
                             /\ job.owner \in Built
<1>1. /\ job.for \in {"kernel", "task", "area", "directory", "desc"}
      /\ job.for \in {"kernel", "area", "directory"} => job.owner = 0
      /\ job.for = "task" => job.owner = cmem_area /\ cmem_area \in Complete
      /\ job.for = "desc" => job.owner = cmem_area /\ cmem_area \in Unfinished
  BY DEF IInv, JobInv
<1>2. 0 \notin DOMAIN area
  BY Spaces DEF IInv, AreasInv
<1> QED
  BY <1>1, <1>2 DEF Complete, Unfinished, IInv, AreasInv

(* The loop goes one page further.                                         *)
(* The pages from f to n, as the loop goes on.                             *)
DoneBefore(f, n) == PageRange(f, n - f)
LEMMA RangesFurther ==
  ASSUME IInv, InJob
  PROVE  /\ DoneBefore(job.first, job.next + 1) = JobDone \cup {job.next}
         /\ DoneBefore(job.next + 1, job.end) = JobLeft \ {job.next}
<1>1. PICK f \in Nat, n \in Nat, e \in Nat :
        f = job.first /\ n = job.next /\ e = job.end /\ f <= n /\ n < e
  BY JobIs
<1>2. DoneBefore(f, n + 1) = PageRange(f, n - f) \cup {n}
  BY <1>1 DEF PageRange, DoneBefore
<1>3. DoneBefore(n + 1, e) = PageRange(n, e - n) \ {n}
  BY <1>1 DEF PageRange, DoneBefore
<1> QED
  BY <1>1, <1>2, <1>3 DEF JobDone, JobLeft

LEMMA OneFurther ==
  ASSUME IInv, InJob
  PROVE  /\ job.next + 1 # job.end => job.next + 1 \in VirtPages /\ job.next + 1 < job.end
         /\ job.end - job.first \in 1 .. TableEntries * TableEntries
<1>1. PICK f \in Nat, n \in Nat, e \in Nat :
        f = job.first /\ n = job.next /\ e = job.end /\ f <= n /\ n < e
  BY JobIs
<1>4. e \in VirtPages
  BY <1>1 DEF IInv, JobInv
<1>5. e < TableEntries * TableEntries
  BY <1>4, Bounds DEF VirtPages
<1>6. n + 1 # e => n + 1 \in VirtPages /\ n + 1 < e
  BY <1>1, <1>5, Bounds DEF VirtPages
<1>7. e - f \in 1 .. TableEntries * TableEntries
  BY <1>1, <1>5, Bounds
<1> QED
  BY <1>1, <1>6, <1>7

LEMMA Further ==
  ASSUME IInv, InJob, job'.first = job.first, job'.next = job.next + 1,
         job'.end = job.end
  PROVE  JobDone' = JobDone \cup {job.next} /\ JobLeft' = JobLeft \ {job.next}
<1>1. /\ JobDone' = DoneBefore(job.first, job.next + 1)
      /\ JobLeft' = DoneBefore(job.next + 1, job.end)
  BY DEF JobDone, JobLeft, DoneBefore
<1> QED
  BY <1>1, RangesFurther

(* The block vir_alloc returns is what its loop has mapped.                *)
LEMMA NewBlockIs ==
  ASSUME IInv, InJob
  PROVE  /\ NewBlock \in Blocks
         /\ NewBlock.address = job.first /\ NewBlock.size = job.end - job.first
         /\ job.next + 1 = job.end =>
              PageRange(job.first, job.end - job.first) = JobDone \cup {job.next}
<1>1. job.first \in VirtPages /\ job.end - job.first \in 1 .. TableEntries * TableEntries
  BY OneFurther DEF IInv, JobInv
<1>2. PICK b : b = NewBlock
  OBVIOUS
<1>3. /\ b = [address |-> job.first, size |-> job.end - job.first]
      /\ b.address = job.first /\ b.size = job.end - job.first
  BY <1>2 DEF NewBlock
<1>4. b \in Blocks
  BY <1>1, <1>3 DEF Blocks
<1>5. ASSUME job.next + 1 = job.end
      PROVE  PageRange(job.first, job.end - job.first) = JobDone \cup {job.next}
  <2>1. DoneBefore(job.first, job.end) = JobDone \cup {job.next}
    BY <1>5, RangesFurther
  <2> QED
    BY <2>1 DEF DoneBefore
<1> QED
  BY <1>2, <1>3, <1>4, <1>5

(* A page is mapped in the heap of the kernel: the bitmap and directories. *)
LEMMA HeapPageAdded ==
  ASSUME IInv, NEW n \in HeapPages, PageAdded(n), Page(n) = 0, heap' = heap \cup {n},
         \A a \in DOMAIN area' : area'[a].bitmap = {} \/ a \in DOMAIN area,
         \A a \in DOMAIN area : a \in DOMAIN area' /\ area'[a] = area[a],
         \A a \in Built' : a \in Built
  PROVE  MemInv' /\ DirectoryInv' /\ BitmapsTell'
<1>1. MemInv'
  BY DEF PageAdded
<1>2. n \in Managed /\ n \notin TaskPages /\ n \notin heap
  BY Spaces DEF Managed, IInv, BitmapsTell
<1>3. BitmapsTell'
  <2>1. \A v \in HeapPages : v \in heap' <=> Page(v)' # 0
    BY DEF PageAdded, IInv, BitmapsTell, Managed
  <2>2. ASSUME NEW v \in TaskPages
        PROVE  Page(v)' # 0 <=> \E a \in DOMAIN area' : v \in area'[a].bitmap
    <3>1. Page(v)' # 0 <=> Page(v) # 0
      BY <1>2 DEF PageAdded, Managed
    <3>2. Page(v) # 0 <=> \E a \in DOMAIN area : v \in area[a].bitmap
      BY DEF IInv, BitmapsTell
    <3> QED
      BY <3>1, <3>2
  <2>3. heap' \subseteq HeapPages /\ HeapStart \in heap'
    BY DEF IInv, BitmapsTell
  <2> QED
    BY <2>1, <2>2, <2>3 DEF BitmapsTell
<1>4. DirectoryInv'
  <2>1. ASSUME NEW a \in Built'
        PROVE  /\ a \in Built /\ area'[a].dir = area[a].dir
               /\ area'[a].pagedir = area[a].pagedir
               /\ Page(area[a].dir) # 0 /\ area[a].dir \in HeapPages
    <3>1. a \in Built /\ a \in DOMAIN area
      BY <2>1 DEF Built
    <3>2. area[a].pagedir = Page(area[a].dir) /\ area[a].dir \in HeapPages
      BY <3>1 DEF IInv, DirectoryInv
    <3> QED
      BY <3>1, <3>2 DEF Built
  <2>2. \A a \in Built' : \A v \in HeapPages : v = area[a].dir => Page(v)' = Page(v)
    <3> TAKE a \in Built'
    <3> TAKE v \in HeapPages
    <3>1. v = area[a].dir => v # n
      BY <2>1
    <3> QED
      BY <3>1 DEF PageAdded, Managed
  <2>3. MemInv /\ DirectoryInv /\ TablesKept /\ ContentsKept
    BY DEF IInv, PageAdded
  <2> QED
    BY <2>1, <2>2, <2>3, DirectoriesKept
<1> QED
  BY <1>1, <1>3, <1>4

LEMMA BlockHasPages ==
  ASSUME NEW b \in Blocks
  PROVE  b.address \in PageRange(b.address, b.size)
<1>1. b.address \in Nat /\ b.size \in Nat /\ b.size >= 1
  BY Bounds DEF Blocks, VirtPages
<1> QED
  BY <1>1 DEF PageRange

(* A descriptor is written and the others stay as they are.                *)
SlotSet(k, b) ==
  /\ kdesc' \in [Slots -> Blocks \cup {NoBlock}] /\ kdesc'[k] = b
  /\ \A i \in Slots : i # k => kdesc'[i] = kdesc[i]

LEMMA SlotsAre ==
  /\ Slots \in SUBSET Nat
  /\ \A b \in Blocks : b.size # 0 /\ b # NoBlock
  /\ NoBlock.size = 0 /\ NoBlock.address = 0 /\ PageRange(0, 0) = {}
BY MemAreaAssumption DEF Slots, Blocks, NoBlock, PageRange

(* new_allocation finds a descriptor that records nothing.                 *)
LEMMA SlotTaken ==
  ASSUME kdesc \in [Slots -> Blocks \cup {NoBlock}], FreeSlots # {}, NEW b \in Blocks,
         kdesc' = NewAllocation(b)
  PROVE  \E k \in Slots : kdesc[k] = NoBlock /\ SlotSet(k, b)
<1>1. FreeSlots \in SUBSET Nat /\ FreeSlots \subseteq Slots
  BY SlotsAre DEF FreeSlots
<1>2. PICK k \in FreeSlots : k = Lowest(FreeSlots)
  BY <1>1, LowestIs
<1>3. k \in Slots /\ kdesc[k].size = 0 /\ kdesc[k] \in Blocks \cup {NoBlock}
  BY DEF FreeSlots
<1>4. kdesc[k] = NoBlock
  BY <1>3, SlotsAre
<1>5. SlotSet(k, b)
  BY <1>2, <1>3 DEF NewAllocation, SlotSet
<1> QED
  BY <1>3, <1>4, <1>5

(* What lies in a block is its first page and the tail.                    *)
LEMMA HeadAndTail ==
  ASSUME NEW b \in Blocks
  PROVE  /\ PageRange(b.address, b.size) = {b.address} \cup PageRange(b.address + 1, b.size - 1)
         /\ b.address \notin PageRange(b.address + 1, b.size - 1)
<1>1. PICK x \in Nat, n \in Nat : x = b.address /\ n = b.size /\ n >= 1
  BY Bounds DEF Blocks, VirtPages
<1>2. x .. x + n - 1 = {x} \cup (x + 1) .. (x + 1) + (n - 1) - 1
  BY <1>1
<1>3. x \notin (x + 1) .. (x + 1) + (n - 1) - 1
  OBVIOUS
<1> QED
  BY <1>1, <1>2, <1>3 DEF PageRange

(* The first pages of the known blocks are apart from what is being mapped. *)
LEMMA HeadsApart ==
  ASSUME BlocksInv, HeapStart \in heap
  PROVE  PartHeads \subseteq heap \ KernelJobPages
<1>1. HeapStart \notin KernelJobPages
  BY DEF BlocksInv
<1>2. ASSUME NEW p \in Parts PROVE p.block.address \in heap \ KernelJobPages
  <2>1. /\ p.block \in Blocks /\ PartPages(p) \subseteq heap
        /\ PartPages(p) \cap KernelJobPages = {}
    BY DEF BlocksInv
  <2>2. p.block.address \in PartPages(p)
    BY <2>1, BlockHasPages DEF PartPages
  <2> QED
    BY <2>1, <2>2
<1> QED
  BY <1>1, <1>2 DEF PartHeads

(* What the loop has mapped is recorded: its tail is apart from the others. *)
Filled(b) ==
  /\ kdesc' \in [Slots -> Blocks \cup {NoBlock}] /\ b \in Records'
  /\ \A c \in Records \cap Blocks : c \in Records'
  /\ PagesOf(Records) \subseteq PagesOf(Records)'
  /\ PageRange(b.address, b.size) \subseteq PagesOf(Records)'

LEMMA SlotFilled ==
  ASSUME BlocksInv, SlotsInv, JobHeads = KernelJobPages, FreeSlots # {},
         HeapStart \in heap, NEW n, n \notin heap, heap' = heap \cup {n},
         NEW b \in Blocks, kdesc' = NewAllocation(b),
         PageRange(b.address, b.size) = KernelJobPages \cup {n},
         PartHeads' \cup JobHeads' \subseteq PartHeads \cup {b.address}
  PROVE  SlotsInv' /\ Filled(b)
<1>1. PICK k \in Slots : kdesc[k] = NoBlock /\ SlotSet(k, b)
  BY SlotTaken DEF BlocksInv
<1>2. /\ Tail(k)' \subseteq KernelJobPages \cup {n} /\ b.address \notin Tail(k)'
      /\ b.address \in KernelJobPages \cup {n}
  <2>1. Tail(k)' = PageRange(b.address + 1, b.size - 1)
    BY <1>1 DEF Tail, SlotSet
  <2> QED
    BY <2>1, HeadAndTail
<1>3. \A i \in Slots : i # k => Tail(i)' = Tail(i)
  BY <1>1 DEF Tail, SlotSet
<1>4. \A i \in Slots : /\ Tail(i) \cap (KernelJobPages \cup {n}) = {}
                       /\ Tail(i) \cap PartHeads = {} /\ Tail(i) \subseteq heap
  BY DEF SlotsInv
<1>5. PartHeads \cap (KernelJobPages \cup {n}) = {} /\ KernelJobPages \subseteq heap
  BY HeadsApart DEF BlocksInv
<1>6. \A i \in Slots : Tail(i)' \subseteq heap'
  BY <1>2, <1>3, <1>4, <1>5
<1>7. \A i \in Slots : Tail(i)' \cap (PartHeads \cup JobHeads)' = {}
  <2>1. Tail(k)' \cap (PartHeads \cup JobHeads)' = {}
    BY <1>2, <1>5
  <2>2. ASSUME NEW i \in Slots, i # k PROVE Tail(i)' \cap (PartHeads \cup JobHeads)' = {}
    BY <1>2, <1>3, <1>4, <2>2
  <2> QED
    BY <2>1, <2>2
<1>8. \A i, j \in Slots : i # j => Tail(i)' \cap Tail(j)' = {}
  BY <1>2, <1>3, <1>4 DEF SlotsInv
<1>9. SlotsInv'
  BY <1>6, <1>7, <1>8 DEF SlotsInv
<1>10. /\ b \in Records' /\ \A c \in Records \cap Blocks : c \in Records'
  BY <1>1, SlotsAre DEF SlotSet, Records
<1>11. PagesOf(Records) \subseteq PagesOf(Records)'
  <2> SUFFICES ASSUME NEW c \in Records, NEW v \in PageRange(c.address, c.size)
               PROVE  v \in PagesOf(Records)'
    BY DEF PagesOf
  <2>1. c # NoBlock
    BY SlotsAre
  <2>2. c \in Records'
    BY <1>10, <2>1 DEF BlocksInv, Records
  <2> QED
    BY <2>2 DEF PagesOf
<1>12. PageRange(b.address, b.size) \subseteq PagesOf(Records)'
  BY <1>10 DEF PagesOf
<1> QED
  BY <1>1, <1>9, <1>10, <1>11, <1>12 DEF Filled, SlotSet

(* A block is recorded for someone, and what the loop has mapped is it.    *)
LEMMA PartAdded ==
  ASSUME BlocksInv, SlotsInv, FreeSlots # {}, pc # "paging",
         HeapStart \in heap, NEW n, n \notin heap, heap' = heap \cup {n},
         NEW q, q.block \in Blocks, PartPages(q) = KernelJobPages \cup {n},
         Parts' = Parts \cup {q}, kdesc' = NewAllocation(q.block),
         KernelJobPages' = {}
  PROVE  BlocksInv' /\ SlotsInv'
<1>0. SlotsInv' /\ Filled(q.block)
  <2>1. JobHeads = KernelJobPages /\ JobHeads' = {}
    BY DEF JobHeads
  <2>2. PartHeads' \subseteq PartHeads \cup {q.block.address}
    BY DEF PartHeads
  <2>3. PageRange(q.block.address, q.block.size) = KernelJobPages \cup {n}
    BY DEF PartPages
  <2>4. PICK b \in Blocks : b = q.block
    OBVIOUS
  <2> QED
    BY <2>1, <2>2, <2>3, <2>4, SlotFilled
<1>1. \A p \in Parts : /\ p.block \in Records \cap Blocks
                       /\ PartPages(p) \subseteq heap \ {HeapStart}
                       /\ PartPages(p) \cap KernelJobPages = {}
  BY DEF BlocksInv
<1>2. \A p \in Parts : PartPages(p) \cap PartPages(q) = {}
  BY <1>1
<1>3. \A p \in Parts' : /\ p.block \in Records' \cap Blocks
                        /\ PartPages(p) \subseteq heap' \ {HeapStart}
  BY <1>0, <1>1 DEF BlocksInv, Filled
<1>4. \A p, r \in Parts' : p # r => PartPages(p) \cap PartPages(r) = {}
  BY <1>2 DEF BlocksInv
<1>5. PagesOf(Records) \cup PartPages(q) \subseteq PagesOf(Records)'
  BY <1>0 DEF Filled, PartPages
<1>6. heap' \subseteq {HeapStart} \cup PagesOf(Records)' \cup KernelJobPages'
  BY <1>5 DEF BlocksInv
<1>7. BlocksInv'
  BY <1>0, <1>3, <1>4, <1>6 DEF BlocksInv, Filled
<1> QED
  BY <1>0, <1>7


(* vir_alloc for the kernel maps a page of the heap.                       *)
LEMMA KernelPage ==
  ASSUME IInv, MapPage, job.owner = 0
  PROVE  /\ InJob /\ pc = "map" /\ fault' = fault /\ heap' = heap \cup {job.next}
         /\ job.next \in HeapPages /\ job.next \notin heap /\ HeapStart \in heap
         /\ KernelJobPages = JobDone /\ PageAdded(job.next) /\ Page(job.next) = 0
         /\ job.for \in {"kernel", "area", "directory"}
         /\ \A a : TaskJobPages(a) = {} /\ FreeSlots # {} /\ JobHeads = KernelJobPages
<1>1. InJob /\ pc = "map" /\ fault' = fault /\ heap' = heap \cup {job.next}
  BY DEF MapPage, InJob
<1>2. job.next \in HeapPages /\ job.next \notin heap
  BY <1>1, JobIs DEF Space, Bitmap
<1>3. HeapStart \in heap
  BY DEF IInv, BitmapsTell
<1>4. PageAdded(job.next) /\ Page(job.next) = 0
  BY MapPageMem
<1>5. job.for \in {"kernel", "area", "directory"}
  BY <1>1, Owners
<1>6. KernelJobPages = JobDone /\ \A a : TaskJobPages(a) = {}
  BY <1>1, <1>5 DEF KernelJobPages, TaskJobPages
<1>7. FreeSlots # {} /\ JobHeads = KernelJobPages
  BY <1>1 DEF IInv, RoomInv, Recording, JobHeads
<1> QED
  BY <1>1, <1>2, <1>3, <1>4, <1>5, <1>6, <1>7

(* vir_alloc for the kernel, in the middle of its loop.                    *)
LEMMA MapKernelOn ==
  ASSUME IInv, MapPage, job.owner = 0, job.next + 1 # job.end
  PROVE  IInv'
<1>1. /\ InJob /\ pc = "map" /\ fault' = fault /\ heap' = heap \cup {job.next}
      /\ job.next \in HeapPages /\ job.next \notin heap /\ HeapStart \in heap
      /\ KernelJobPages = JobDone /\ PageAdded(job.next) /\ Page(job.next) = 0
      /\ job.for \in {"kernel", "area", "directory"}
      /\ \A a : TaskJobPages(a) = {} /\ JobHeads = KernelJobPages
  BY KernelPage
<1>2. /\ UNCHANGED <<pc, kdesc, held, cmem_area>>
      /\ job' = [job EXCEPT !.next = @ + 1] /\ area' = AreaAfter(FALSE)
  BY DEF MapPage
<1>3. area' = area
  BY <1>1, <1>2 DEF AreaAfter
<1>4. /\ job'.owner = 0 /\ job'.first = job.first /\ job'.next = job.next + 1
      /\ job'.end = job.end /\ job'.for = job.for
      /\ job' \in [owner : {0} \cup DOMAIN area, first : VirtPages, next : VirtPages,
                   end : VirtPages,
                   for : {"kernel", "task", "area", "directory", "desc"}]
  <2>1. job \in [owner : {0} \cup DOMAIN area, first : VirtPages, next : VirtPages,
                 end : VirtPages,
                 for : {"kernel", "task", "area", "directory", "desc"}]
    BY <1>1 DEF IInv, JobInv
  <2>2. job.next + 1 \in VirtPages
    BY <1>1, OneFurther
  <2> QED
    BY <1>2, <2>1, <2>2
<1>5. MemInv' /\ DirectoryInv' /\ BitmapsTell'
  <2>1. PICK n \in HeapPages : n = job.next
    BY <1>1
  <2>2. Built' = Built
    BY <1>3 DEF Built
  <2> QED
    BY <1>1, <1>3, <2>1, <2>2, HeapPageAdded
<1>6. JobDone' = JobDone \cup {job.next} /\ JobLeft' = JobLeft \ {job.next} /\ InJob'
  BY <1>1, <1>2, <1>4, Further DEF InJob
<1>7. BlocksInv' /\ SlotsInv'
  <2>1. KernelJobPages' = KernelJobPages \cup {job.next}
    BY <1>1, <1>4, <1>6 DEF KernelJobPages
  <2>2. Parts' = Parts /\ PartHeads' = PartHeads /\ Records' = Records
    BY <1>2, <1>3 DEF Parts, PartHeads, Built, DirBlock, Records
  <2>3. BlocksInv /\ SlotsInv
    BY DEF IInv
  <2>4. BlocksInv'
    BY <1>1, <1>2, <2>1, <2>2, <2>3 DEF BlocksInv
  <2>5. JobHeads' = JobHeads \cup {job.next}
    BY <1>1, <1>2, <2>1 DEF JobHeads
  <2>6. \A i \in Slots : Tail(i)' = Tail(i)
    BY <1>2 DEF Tail
  <2>7. SlotsInv'
    BY <1>1, <2>2, <2>3, <2>5, <2>6 DEF SlotsInv
  <2> QED
    BY <2>4, <2>7
<1>70. RoomInv'
  <2>1. FreeSlots' = FreeSlots /\ (TwoFree' <=> TwoFree)
    BY <1>2 DEF FreeSlots, TwoFree
  <2> QED
    BY <1>1, <1>2, <1>4, <1>6, <2>1 DEF IInv, RoomInv, Recording
<1>8. AreasInv'
  <2>1. \A a : TaskJobPages(a)' = {}
    BY <1>1, <1>4 DEF TaskJobPages
  <2>2. Building => Building'
    BY <1>1, <1>2, <1>4, <1>6 DEF Building
  <2> QED
    BY <1>1, <1>2, <1>3, <2>1, <2>2, QuietAreas DEF IInv, AreasInv
<1>9. JobInv'
  <2>1. Complete' = Complete /\ Unfinished' = Unfinished
    BY <1>3 DEF Complete, Unfinished
  <2>2. Bitmap(0)' = heap \cup {job.next} /\ Bitmap(0) = heap
    BY <1>1 DEF Bitmap
  <2>3. Space(0)' = Space(0)
    BY DEF Space
  <2>4. JobLeft \cap Bitmap(0) = {}
    BY <1>1 DEF IInv, JobInv
  <2>5. JobLeft' \cap Bitmap(0)' = {}
    BY <1>6, <2>2, <2>4
  <2>6. job.first <= job.next + 1 /\ job.next + 1 < job.end
    <3>1. /\ job.first \in Nat /\ job.next \in Nat /\ job.first <= job.next
          /\ job.next + 1 < job.end
      BY <1>1, JobIs, OneFurther
    <3> QED
      BY <3>1
  <2>7. PageRange(job.first, job.end - job.first) \subseteq Space(0)
    BY <1>1 DEF IInv, JobInv
  <2>8. job'.owner = 0 /\ job'.first <= job'.next /\ job'.next < job'.end
        /\ PageRange(job'.first, job'.end - job'.first) \subseteq Space(0)'
    BY <1>4, <2>3, <2>6, <2>7
  <2>9. /\ Bitmap(job.owner)' = Bitmap(0)' /\ Space(job.owner)' = Space(0)'
    BY <1>4
  <2>10. /\ job.for = "area" => job.end - job.first = AreaPages /\ cmem_area = 0
         /\ job.for = "directory" =>
              /\ job.end - job.first = DirPages /\ cmem_area = 0 /\ Unfinished # {}
              /\ \A a \in Unfinished : area[a] = NoArea
    BY <1>1 DEF IInv, JobInv
  <2>11. fault \in [page : VirtPages, odd : BOOLEAN]
    BY DEF IInv, JobInv
  <2> QED
    BY <1>1, <1>2, <1>3, <1>4, <1>6, <2>1, <2>5, <2>8, <2>9, <2>10, <2>11 DEF JobInv
<1> QED
  BY <1>5, <1>7, <1>70, <1>8, <1>9 DEF IInv

(* The last page of a block of kernel code.                                *)
LEMMA MapKernelBlock ==
  ASSUME IInv, MapPage, job.for = "kernel", job.next + 1 = job.end
  PROVE  IInv'
<1>0. InJob /\ job.owner = 0
  BY Owners DEF MapPage, InJob
<1>1. /\ InJob /\ pc = "map" /\ fault' = fault /\ heap' = heap \cup {job.next}
      /\ job.next \in HeapPages /\ job.next \notin heap /\ HeapStart \in heap
      /\ KernelJobPages = JobDone /\ PageAdded(job.next) /\ Page(job.next) = 0
      /\ \A a : TaskJobPages(a) = {} /\ FreeSlots # {} /\ JobHeads = KernelJobPages
  BY <1>0, KernelPage
<1>2. /\ kdesc' = NewAllocation(NewBlock) /\ held' = held \cup {NewBlock}
      /\ cmem_area' = cmem_area /\ area' = area /\ pc' = "idle"
  BY DEF MapPage, Recorded, AreaAfter, Goes
<1>3. Unfinished = {}
  BY <1>1 DEF IInv, AreasInv, Building
<1>4. PICK b : b = NewBlock
  OBVIOUS
<1>5. b \in Blocks /\ PageRange(b.address, b.size) = KernelJobPages \cup {job.next}
  BY <1>1, <1>4, NewBlockIs
<1>6. MemInv' /\ DirectoryInv' /\ BitmapsTell'
  <2>1. PICK n \in HeapPages : n = job.next
    BY <1>1
  <2>2. Built' = Built
    BY <1>2 DEF Built
  <2> QED
    BY <1>1, <1>2, <2>1, <2>2, HeapPageAdded
<1>7. ~InJob' /\ KernelJobPages' = {} /\ \A a : TaskJobPages(a)' = {}
  BY <1>2 DEF InJob, KernelJobPages, TaskJobPages
<1>8. BlocksInv' /\ SlotsInv'
  <2>1. PICK q : q = Part("held", 0, b)
    OBVIOUS
  <2>2. q.block = b /\ PartPages(q) = KernelJobPages \cup {job.next}
    BY <1>5, <2>1 DEF Part, PartPages
  <2>3. Parts' = Parts \cup {q}
    BY <1>2, <1>4, <2>1 DEF Parts, Built, DirBlock
  <2>4. BlocksInv /\ SlotsInv /\ kdesc' = NewAllocation(q.block) /\ q.block \in Blocks
    BY <1>2, <1>4, <1>5, <2>2 DEF IInv
  <2> QED
    BY <1>1, <1>7, <2>2, <2>3, <2>4, PartAdded
<1>80. RoomInv'
  BY <1>2, <1>7 DEF RoomInv, Recording
<1>9. AreasInv'
  BY <1>1, <1>2, <1>3, <1>7, QuietAreas DEF IInv
<1>10. JobInv'
  BY <1>1, <1>2, <1>7 DEF IInv, JobInv
<1> QED
  BY <1>6, <1>8, <1>80, <1>9, <1>10 DEF IInv

(* The last page of a memory_area.                                         *)
LEMMA MapKernelArea ==
  ASSUME IInv, MapPage, job.for = "area", job.next + 1 = job.end
  PROVE  IInv'
<1>0. InJob /\ job.owner = 0
  BY Owners DEF MapPage, InJob
<1>1. /\ InJob /\ pc = "map" /\ fault' = fault /\ heap' = heap \cup {job.next}
      /\ job.next \in HeapPages /\ job.next \notin heap /\ HeapStart \in heap
      /\ KernelJobPages = JobDone /\ PageAdded(job.next) /\ Page(job.next) = 0
      /\ \A a : TaskJobPages(a) = {} /\ FreeSlots # {} /\ JobHeads = KernelJobPages
  BY <1>0, KernelPage
<1>2. /\ kdesc' = NewAllocation(NewBlock) /\ held' = held
      /\ cmem_area' = cmem_area /\ area' = WithArea(job.first, NoArea)
      /\ pc' = "directory"
  BY DEF MapPage, Recorded, AreaAfter, Goes
<1>3. Unfinished = {}
  BY <1>1 DEF IInv, AreasInv, Building
<1>4. PICK b, a : b = NewBlock /\ a = job.first
  OBVIOUS
<1>5. /\ b \in Blocks /\ PageRange(b.address, b.size) = KernelJobPages \cup {job.next}
      /\ b.address = a /\ b.size = AreaPages /\ b = AreaBlock(a)
  <2>1. job.end - job.first = AreaPages
    BY <1>1 DEF IInv, JobInv
  <2> QED
    BY <1>1, <1>4, <2>1, NewBlockIs DEF NewBlock, AreaBlock
<1>6. a \in HeapPages /\ a \notin DOMAIN area
  <2>1. a \in HeapPages /\ a \in Nat
    BY <1>0, <1>4, JobIs, Spaces DEF Space
  <2>2. a \in PageRange(a, AreaPages)
    BY <2>1, Sizes DEF PageRange
  <2>3. ASSUME a \in DOMAIN area PROVE FALSE
    <3>1. PICK p : p = Part("area", a, AreaBlock(a))
      OBVIOUS
    <3>2. p \in Parts
      BY <2>3, <3>1 DEF Parts
    <3>3. PartPages(p) = KernelJobPages \cup {job.next}
      BY <1>5, <3>1 DEF Part, PartPages
    <3>4. PartPages(p) \subseteq heap
      BY <3>2 DEF IInv, BlocksInv
    <3> QED
      BY <1>1, <3>3, <3>4
  <2> QED
    BY <2>1, <2>3
<1>7. /\ DOMAIN area' = DOMAIN area \cup {a} /\ area'[a] = NoArea
      /\ \A c \in DOMAIN area : area'[c] = area[c]
  BY <1>2, <1>4, <1>6 DEF WithArea
<1>8. /\ Built' = Built /\ Complete' = Complete /\ Unfinished' = {a}
  <2>1. NoArea.pagedir = 0 /\ NoArea.first = 0 /\ NoArea.bitmap = {}
    BY DEF NoArea
  <2>2. Built' = Built
    BY <1>6, <1>7, <2>1 DEF Built
  <2>3. Complete' = Complete
    BY <1>6, <1>7, <2>1 DEF Complete
  <2> QED
    BY <1>3, <1>6, <1>7, <2>2, <2>3 DEF Unfinished, Complete
<1>9. MemInv' /\ DirectoryInv' /\ BitmapsTell'
  <2>1. PICK n \in HeapPages : n = job.next
    BY <1>1
  <2>2. \A c \in DOMAIN area' : area'[c].bitmap = {} \/ c \in DOMAIN area
    BY <1>7 DEF NoArea
  <2>3. /\ \A c \in DOMAIN area : c \in DOMAIN area' /\ area'[c] = area[c]
        /\ \A c \in Built' : c \in Built
    BY <1>7, <1>8
  <2> QED
    BY <1>1, <2>1, <2>2, <2>3, HeapPageAdded
<1>10. ~InJob' /\ KernelJobPages' = {} /\ \A c : TaskJobPages(c)' = {}
  BY <1>2 DEF InJob, KernelJobPages, TaskJobPages
<1>11. \A c \in Built : c \in DOMAIN area /\ area'[c] = area[c]
  BY <1>7 DEF Built
<1>12. BlocksInv' /\ SlotsInv'
  <2>1. PICK q : q = Part("area", a, AreaBlock(a))
    OBVIOUS
  <2>2. q.block = b /\ PartPages(q) = KernelJobPages \cup {job.next}
    BY <1>5, <2>1 DEF Part, PartPages
  <2>3. \A c \in Built : DirBlock(c)' = DirBlock(c)
    BY <1>11 DEF DirBlock
  <2>4. Parts' = Parts \cup {q}
    <3>1. {Part("area", c, AreaBlock(c)) : c \in DOMAIN area'} =
            {Part("area", c, AreaBlock(c)) : c \in DOMAIN area} \cup {q}
      BY <1>7, <2>1
    <3>2. {Part("directory", c, DirBlock(c)') : c \in Built'} =
            {Part("directory", c, DirBlock(c)) : c \in Built}
      BY <1>8, <2>3
    <3> QED
      BY <1>2, <3>1, <3>2 DEF Parts
  <2>5. BlocksInv /\ SlotsInv /\ kdesc' = NewAllocation(q.block) /\ q.block \in Blocks
    BY <1>2, <1>4, <1>5, <2>2 DEF IInv
  <2> QED
    BY <1>1, <1>10, <2>2, <2>4, <2>5, PartAdded
<1>120. RoomInv'
  <2>1. TwoFree /\ kdesc \in [Slots -> Blocks \cup {NoBlock}]
    BY <1>1 DEF IInv, RoomInv, BlocksInv
  <2>2. PICK k \in Slots : SlotSet(k, b)
    BY <1>1, <1>2, <1>4, <1>5, <2>1, SlotTaken
  <2>3. PICK i \in FreeSlots : i # k
    BY <2>1 DEF TwoFree
  <2>4. i \in FreeSlots'
    BY <2>2, <2>3 DEF FreeSlots, SlotSet
  <2> QED
    BY <1>10, <2>4 DEF RoomInv
<1>13. AreasInv'
  <2>1. NoArea \in Areas
    BY FramesAre, Bounds DEF NoArea, Areas, VirtPages
  <2>2. \A c \in Complete : c \in DOMAIN area /\ TaskOf(c)
    BY DEF Complete, IInv, AreasInv
  <2>3. \A c \in Complete : TaskOf(c)'
    BY <1>1, <1>7, <1>8, <1>10, <2>2 DEF TaskOf
  <2>4. Building'
    BY <1>2 DEF Building
  <2>5. /\ DOMAIN area \subseteq HeapPages /\ \A c \in DOMAIN area : area[c] \in Areas
        /\ \A c, d \in Complete : c = d
        /\ cmem_area \in {0} \cup Built
    BY DEF IInv, AreasInv
  <2>6. area'[a].bitmap = {} /\ area'[a].blocks = {}
    BY <1>7 DEF NoArea
  <2> QED
    BY <1>2, <1>6, <1>7, <1>8, <2>1, <2>3, <2>4, <2>5, <2>6 DEF AreasInv
<1>14. JobInv'
  <2>1. cmem_area = 0
    BY <1>1 DEF IInv, JobInv
  <2>2. fault \in [page : VirtPages, odd : BOOLEAN]
    BY DEF IInv, JobInv
  <2> QED
    BY <1>1, <1>2, <1>7, <1>8, <1>10, <2>1, <2>2 DEF JobInv
<1> QED
  BY <1>9, <1>12, <1>120, <1>13, <1>14 DEF IInv

(* The last page of a directory: what it is for is settled a step later.   *)
LEMMA MapKernelDirectory ==
  ASSUME IInv, MapPage, job.for = "directory", job.next + 1 = job.end
  PROVE  IInv'
<1>0. InJob /\ job.owner = 0
  BY Owners DEF MapPage, InJob
<1>1. /\ InJob /\ pc = "map" /\ fault' = fault /\ heap' = heap \cup {job.next}
      /\ job.next \in HeapPages /\ job.next \notin heap /\ HeapStart \in heap
      /\ KernelJobPages = JobDone /\ PageAdded(job.next) /\ Page(job.next) = 0
      /\ \A a : TaskJobPages(a) = {} /\ FreeSlots # {} /\ JobHeads = KernelJobPages
  BY <1>0, KernelPage
<1>2. /\ kdesc' = NewAllocation(NewBlock) /\ held' = held
      /\ cmem_area' = cmem_area /\ area' = area /\ pc' = "paging" /\ job' = job
  BY DEF MapPage, Recorded, AreaAfter, Goes
<1>3. /\ job.end - job.first = DirPages /\ cmem_area = 0 /\ Unfinished # {}
      /\ \A a \in Unfinished : area[a] = NoArea
  BY <1>1 DEF IInv, JobInv
<1>4. PICK b, a : b = NewBlock /\ a = job.first
  OBVIOUS
<1>5. /\ b \in Blocks /\ PageRange(b.address, b.size) = KernelJobPages \cup {job.next}
      /\ b.address = a /\ b.size = DirPages /\ b = [address |-> job.first, size |-> DirPages]
  BY <1>1, <1>3, <1>4, NewBlockIs DEF NewBlock
<1>6. MemInv' /\ DirectoryInv' /\ BitmapsTell'
  <2>1. PICK n \in HeapPages : n = job.next
    BY <1>1
  <2>2. Built' = Built
    BY <1>2 DEF Built
  <2> QED
    BY <1>1, <1>2, <2>1, <2>2, HeapPageAdded
<1>7. /\ ~InJob' /\ KernelJobPages' = KernelJobPages \cup {job.next}
      /\ \A c : TaskJobPages(c)' = {}
  BY <1>2, <1>4, <1>5 DEF InJob, KernelJobPages, TaskJobPages
<1>8. BlocksInv' /\ SlotsInv' /\ b \in Records'
  <2>1. Parts' = Parts /\ PartHeads' = PartHeads
    BY <1>2 DEF Parts, PartHeads, Built, DirBlock
  <2>2. BlocksInv /\ SlotsInv /\ kdesc' = NewAllocation(b)
    BY <1>2, <1>4 DEF IInv
  <2>3. SlotsInv' /\ Filled(b)
    <3>1. JobHeads' \subseteq {b.address}
      BY <1>2, <1>4, <1>5 DEF JobHeads
    <3> QED
      BY <1>1, <1>5, <2>1, <2>2, <3>1, SlotFilled
  <2>4. \A p \in Parts : /\ p.block \in Records \cap Blocks
                         /\ PartPages(p) \subseteq heap \ {HeapStart}
                         /\ PartPages(p) \cap KernelJobPages = {}
    BY <2>2 DEF BlocksInv
  <2>5. \A p \in Parts : PartPages(p) \cap KernelJobPages' = {}
    BY <1>1, <1>7, <2>4
  <2>6. KernelJobPages \subseteq heap \ {HeapStart}
        /\ heap \subseteq {HeapStart} \cup PagesOf(Records) \cup KernelJobPages
        /\ \A p, q \in Parts : p # q => PartPages(p) \cap PartPages(q) = {}
    BY <2>2 DEF BlocksInv
  <2>7. KernelJobPages' \subseteq heap' \ {HeapStart}
        /\ heap' \subseteq {HeapStart} \cup PagesOf(Records)' \cup KernelJobPages'
    BY <1>1, <1>7, <2>3, <2>6 DEF Filled
  <2>8. \A p \in Parts : /\ p.block \in Records' \cap Blocks
                         /\ PartPages(p) \subseteq heap' \ {HeapStart}
    BY <1>1, <2>3, <2>4 DEF Filled
  <2>9. BlocksInv'
    BY <2>1, <2>3, <2>5, <2>6, <2>7, <2>8 DEF BlocksInv, Filled
  <2> QED
    BY <2>3, <2>9 DEF Filled
<1>80. RoomInv'
  BY <1>2, <1>7 DEF RoomInv, Recording
<1>9. AreasInv'
  <2>1. Building'
    BY <1>2 DEF Building
  <2> QED
    BY <1>1, <1>2, <1>7, <2>1, QuietAreas DEF IInv
<1>10. JobInv'
  <2>1. Complete' = Complete /\ Unfinished' = Unfinished
    BY <1>2 DEF Complete, Unfinished
  <2>2. job.first \in HeapPages
    BY <1>0, JobIs DEF Space
  <2>3. fault \in [page : VirtPages, odd : BOOLEAN]
    BY DEF IInv, JobInv
  <2>4. [address |-> job.first, size |-> DirPages] \in Records'
    BY <1>4, <1>5, <1>8
  <2> QED
    BY <1>1, <1>2, <1>3, <1>7, <2>1, <2>2, <2>3, <2>4 DEF JobInv
<1> QED
  BY <1>6, <1>8, <1>80, <1>9, <1>10 DEF IInv

(* A page is mapped in the area of a task.                                 *)
PageOfTask(o, n) ==
  /\ DOMAIN area' = DOMAIN area
  /\ \A c \in DOMAIN area : c # o => area'[c] = area[c]
  /\ area'[o].dir = area[o].dir /\ area'[o].pagedir = area[o].pagedir
  /\ area'[o].bitmap = area[o].bitmap \cup {n}

LEMMA TaskPage ==
  ASSUME IInv, MapPage, NEW o \in DOMAIN area, job.owner = o,
         NEW n \in TaskPages, job.next = n, PageOfTask(o, n),
         UNCHANGED <<heap, kdesc, held>>
  PROVE  /\ MemInv' /\ DirectoryInv' /\ BitmapsTell' /\ Built' = Built
         /\ KernelJobPages' = {} => BlocksInv' /\ SlotsInv'
         /\ (InJob' => job'.owner = o /\ job'.for # "area") /\ pc' # "directory" => RoomInv'
<1>1. /\ DOMAIN area' = DOMAIN area
      /\ \A c \in DOMAIN area : c # o => area'[c] = area[c]
      /\ area'[o].dir = area[o].dir /\ area'[o].pagedir = area[o].pagedir
      /\ area'[o].bitmap = area[o].bitmap \cup {n}
  BY DEF PageOfTask
<1>2. PageAdded(n) /\ Page(n) = 0
  BY MapPageMem
<1>3. o # 0 /\ n \in Managed /\ n \notin HeapPages
  BY Spaces DEF Managed, IInv, AreasInv
<1>4. Built' = Built
  BY <1>1 DEF Built
<1>5. BitmapsTell'
  <2>1. \A v \in HeapPages : v \in heap' <=> Page(v)' # 0
    BY <1>2, <1>3 DEF PageAdded, IInv, BitmapsTell, Managed
  <2>2. ASSUME NEW v \in TaskPages
        PROVE  Page(v)' # 0 <=> \E a \in DOMAIN area' : v \in area'[a].bitmap
    <3>1. Page(v)' # 0 <=> v = n \/ Page(v) # 0
      BY <1>2 DEF PageAdded, Managed
    <3>2. Page(v) # 0 <=> \E a \in DOMAIN area : v \in area[a].bitmap
      BY DEF IInv, BitmapsTell
    <3>3. \A a \in DOMAIN area : v \in area'[a].bitmap <=>
            v \in area[a].bitmap \/ (a = o /\ v = n)
      BY <1>1
    <3> QED
      BY <1>1, <3>1, <3>2, <3>3
  <2>3. heap' \subseteq HeapPages /\ HeapStart \in heap'
    BY DEF IInv, BitmapsTell
  <2> QED
    BY <2>1, <2>2, <2>3 DEF BitmapsTell
<1>6. DirectoryInv'
  <2>1. \A a \in Built' : /\ a \in Built /\ area'[a].dir = area[a].dir
                          /\ area'[a].pagedir = area[a].pagedir
    BY <1>1, <1>4 DEF Built
  <2>2. \A a \in Built' : \A v \in HeapPages : v = area[a].dir => Page(v)' = Page(v)
    BY <1>2, <1>3 DEF PageAdded, Managed
  <2>3. MemInv /\ DirectoryInv /\ TablesKept /\ ContentsKept
    BY <1>2 DEF IInv, PageAdded
  <2> QED
    BY <2>1, <2>2, <2>3, DirectoriesKept
<1>7. ASSUME KernelJobPages' = {} PROVE BlocksInv' /\ SlotsInv'
  <2>1. KernelJobPages = {} /\ JobHeads = {} /\ JobHeads' = {}
    BY <1>3, <1>7 DEF KernelJobPages, MapPage, JobHeads
  <2>2. \A c \in Built : DirBlock(c)' = DirBlock(c)
    BY <1>1 DEF DirBlock, Built
  <2>3. Parts' = Parts /\ Records' = Records
    <3>1. {Part("directory", c, DirBlock(c)') : c \in Built'} =
            {Part("directory", c, DirBlock(c)) : c \in Built}
      BY <1>4, <2>2
    <3> QED
      BY <1>1, <3>1 DEF Parts, Records
  <2>4. PartHeads' = PartHeads
    BY <2>3 DEF PartHeads
  <2>5. \A i \in Slots : Tail(i)' = Tail(i)
    BY DEF Tail
  <2>6. BlocksInv'
    BY <1>7, <2>1, <2>3 DEF BlocksInv, IInv
  <2>7. SlotsInv'
    BY <2>1, <2>4, <2>5 DEF SlotsInv, IInv
  <2> QED
    BY <2>6, <2>7
<1>8. ASSUME InJob' => job'.owner = o /\ job'.for # "area", pc' # "directory"
      PROVE  RoomInv'
  BY <1>3, <1>8 DEF RoomInv, Recording
<1> QED
  BY <1>2, <1>4, <1>5, <1>6, <1>7, <1>8 DEF PageAdded

(* vir_alloc for a task runs in the only area there is.                    *)
LEMMA TaskJob ==
  ASSUME IInv, MapPage, job.for = "task"
  PROVE  /\ InJob /\ pc = "map" /\ job.owner = cmem_area /\ cmem_area \in Complete
         /\ job.owner # 0 /\ Complete = {cmem_area} /\ Unfinished = {}
         /\ DOMAIN area = {cmem_area}
         /\ job.next \in TaskPages /\ job.next \notin area[cmem_area].bitmap
         /\ TaskJobPages(cmem_area) = JobDone /\ TaskOf(cmem_area)
         /\ area[cmem_area] \in Areas
<1>1. InJob /\ pc = "map"
  BY DEF MapPage, InJob
<1>2. job.owner = cmem_area /\ cmem_area \in Complete
  BY <1>1 DEF IInv, JobInv
<1>3. job.owner # 0 /\ cmem_area \in DOMAIN area
  BY <1>1, <1>2, Owners DEF Complete
<1>4. Unfinished = {} /\ Complete = {cmem_area}
  BY <1>1, <1>2 DEF IInv, AreasInv, Building
<1>5. job.next \in TaskPages /\ job.next \notin area[cmem_area].bitmap
  BY <1>1, <1>2, <1>3, JobIs DEF Space, Bitmap
<1> QED
  BY <1>1, <1>2, <1>3, <1>4, <1>5 DEF TaskJobPages, Unfinished, IInv, AreasInv

(* vir_alloc for a task, in the middle of its loop and at its end.         *)
LEMMA MapTaskOn ==
  ASSUME IInv, MapPage, job.for = "task", job.next + 1 # job.end
  PROVE  IInv'
<1>1. /\ InJob /\ pc = "map" /\ job.owner = cmem_area /\ cmem_area \in Complete
      /\ job.owner # 0 /\ Complete = {cmem_area} /\ Unfinished = {}
      /\ DOMAIN area = {cmem_area}
      /\ job.next \in TaskPages /\ job.next \notin area[cmem_area].bitmap
      /\ TaskJobPages(cmem_area) = JobDone /\ TaskOf(cmem_area)
      /\ area[cmem_area] \in Areas
  BY TaskJob
<1>2. PICK o \in DOMAIN area, n \in TaskPages : o = cmem_area /\ n = job.next
  BY <1>1
<1>3. /\ UNCHANGED <<pc, kdesc, held, cmem_area, heap, fault>>
      /\ job' = [job EXCEPT !.next = @ + 1] /\ area' = AreaAfter(FALSE)
  BY <1>1 DEF MapPage
<1>4. PICK x : x = [area[o] EXCEPT !.bitmap = @ \cup {n}]
  OBVIOUS
<1>40. area' = [area EXCEPT ![o] = x]
  BY <1>1, <1>2, <1>3, <1>4 DEF AreaAfter
<1>41. /\ x \in Areas /\ x.first = area[o].first /\ x.blocks = area[o].blocks
       /\ x.bitmap = area[o].bitmap \cup {n}
       /\ x.dir = area[o].dir /\ x.pagedir = area[o].pagedir
  BY <1>1, <1>2, <1>4 DEF Areas
<1>42. /\ area'[o] = x /\ DOMAIN area' = DOMAIN area
       /\ \A c \in DOMAIN area : c # o => area'[c] = area[c]
  BY <1>40
<1>5. /\ area'[o] \in Areas /\ PageOfTask(o, n) /\ area'[o].first = area[o].first
      /\ area'[o].blocks = area[o].blocks /\ area'[o].bitmap = area[o].bitmap \cup {n}
  BY <1>41, <1>42 DEF PageOfTask
<1>6. /\ job'.owner = o /\ job'.first = job.first /\ job'.next = job.next + 1
      /\ job'.end = job.end /\ job'.for = "task"
      /\ job' \in [owner : {0} \cup DOMAIN area, first : VirtPages, next : VirtPages,
                   end : VirtPages,
                   for : {"kernel", "task", "area", "directory", "desc"}]
  <2>1. job \in [owner : {0} \cup DOMAIN area, first : VirtPages, next : VirtPages,
                 end : VirtPages,
                 for : {"kernel", "task", "area", "directory", "desc"}]
    BY <1>1 DEF IInv, JobInv
  <2>2. job.next + 1 \in VirtPages
    BY <1>1, OneFurther
  <2> QED
    BY <1>1, <1>2, <1>3, <2>1, <2>2
<1>7. JobDone' = JobDone \cup {n} /\ JobLeft' = JobLeft \ {n} /\ InJob'
  BY <1>1, <1>2, <1>3, <1>6, Further DEF InJob
<1>8. KernelJobPages' = {} /\ TaskJobPages(o)' = JobDone \cup {n} /\ TaskJobPages(o) = JobDone
  BY <1>1, <1>2, <1>3, <1>6, <1>7 DEF KernelJobPages, TaskJobPages
<1>9. /\ MemInv' /\ DirectoryInv' /\ BitmapsTell' /\ BlocksInv' /\ SlotsInv'
      /\ RoomInv' /\ Built' = Built
  BY <1>1, <1>2, <1>3, <1>5, <1>8, TaskPage
<1>10. Complete' = Complete /\ Unfinished' = {}
  BY <1>1, <1>2, <1>42, <1>5 DEF Complete, Unfinished
<1>11. AreasInv'
  <2>1. TaskOf(o)'
    <3>1. TaskOf(o) /\ n \notin area[o].bitmap /\ cmem_area = o
      BY <1>1, <1>2
    <3> QED
      BY <1>5, <1>8, <1>9, <3>1 DEF TaskOf
  <2>2. Complete' = {o} /\ DOMAIN area' = {o} /\ o \in HeapPages /\ cmem_area' \in {0} \cup Built'
    BY <1>1, <1>2, <1>3, <1>42, <1>9, <1>10 DEF IInv, AreasInv
  <2> QED
    BY <1>5, <1>10, <2>1, <2>2 DEF AreasInv
<1>12. JobInv'
  <2>1. Bitmap(o)' = Bitmap(o) \cup {n} /\ Space(o)' = Space(o) /\ o # 0
    BY <1>1, <1>2, <1>5 DEF Bitmap, Space
  <2>2. JobLeft \cap Bitmap(o) = {}
        /\ PageRange(job.first, job.end - job.first) \subseteq Space(o)
    BY <1>1, <1>2 DEF IInv, JobInv
  <2>3. JobLeft' \cap Bitmap(o)' = {}
    BY <1>7, <2>1, <2>2
  <2>4. job.first <= job.next + 1 /\ job.next + 1 < job.end
    <3>1. /\ job.first \in Nat /\ job.next \in Nat /\ job.first <= job.next
          /\ job.next + 1 < job.end
      BY <1>1, JobIs, OneFurther
    <3> QED
      BY <3>1
  <2>5. job'.first <= job'.next /\ job'.next < job'.end
        /\ PageRange(job'.first, job'.end - job'.first) \subseteq Space(o)'
    BY <1>6, <2>1, <2>2, <2>4
  <2>6. /\ Bitmap(job.owner)' = Bitmap(o)' /\ Space(job.owner)' = Space(o)'
    BY <1>6
  <2>7. job'.owner = cmem_area' /\ cmem_area' \in Complete'
    BY <1>1, <1>2, <1>3, <1>6, <1>10
  <2>8. fault \in [page : VirtPages, odd : BOOLEAN]
    BY DEF IInv, JobInv
  <2> QED
    BY <1>1, <1>3, <1>42, <1>6, <1>7, <2>3, <2>5, <2>6, <2>7, <2>8 DEF JobInv
<1> QED
  BY <1>9, <1>11, <1>12 DEF IInv

LEMMA MapTaskBlock ==
  ASSUME IInv, MapPage, job.for = "task", job.next + 1 = job.end
  PROVE  IInv'
<1>1. /\ InJob /\ pc = "map" /\ job.owner = cmem_area /\ cmem_area \in Complete
      /\ job.owner # 0 /\ Complete = {cmem_area} /\ Unfinished = {}
      /\ DOMAIN area = {cmem_area}
      /\ job.next \in TaskPages /\ job.next \notin area[cmem_area].bitmap
      /\ TaskJobPages(cmem_area) = JobDone /\ TaskOf(cmem_area)
      /\ area[cmem_area] \in Areas
  BY TaskJob
<1>2. PICK o \in DOMAIN area, n \in TaskPages, b \in {NewBlock} :
        o = cmem_area /\ n = job.next /\ b = NewBlock
  BY <1>1
<1>3. /\ UNCHANGED <<kdesc, held, cmem_area, heap, fault>> /\ pc' = "idle"
      /\ area' = AreaAfter(TRUE)
  BY <1>1 DEF MapPage, Recorded, Goes
<1>4. PICK x : x = [area[o] EXCEPT !.bitmap = @ \cup {n}, !.blocks = @ \cup {b}]
  OBVIOUS
<1>40. area' = [area EXCEPT ![o] = x]
  <2>1. area' = [area EXCEPT ![o].bitmap = @ \cup {n}, ![o].blocks = @ \cup {b}]
    BY <1>1, <1>2, <1>3 DEF AreaAfter
  <2> QED
    BY <1>4, <2>1
<1>5. /\ b \in Blocks /\ PageRange(b.address, b.size) = JobDone \cup {n}
  BY <1>1, <1>2, NewBlockIs
<1>41. /\ x \in Areas /\ x.first = area[o].first /\ x.blocks = area[o].blocks \cup {b}
       /\ x.bitmap = area[o].bitmap \cup {n}
       /\ x.dir = area[o].dir /\ x.pagedir = area[o].pagedir
  BY <1>1, <1>2, <1>4, <1>5 DEF Areas
<1>42. /\ area'[o] = x /\ DOMAIN area' = DOMAIN area
       /\ \A c \in DOMAIN area : c # o => area'[c] = area[c]
  BY <1>40
<1>6. /\ area'[o] \in Areas /\ PageOfTask(o, n) /\ area'[o].first = area[o].first
      /\ area'[o].blocks = area[o].blocks \cup {b}
      /\ area'[o].bitmap = area[o].bitmap \cup {n}
  BY <1>41, <1>42 DEF PageOfTask
<1>7. /\ ~InJob' /\ KernelJobPages' = {} /\ TaskJobPages(o)' = {}
      /\ TaskJobPages(o) = JobDone
  BY <1>1, <1>2, <1>3 DEF KernelJobPages, TaskJobPages, InJob
<1>8. /\ MemInv' /\ DirectoryInv' /\ BitmapsTell' /\ BlocksInv' /\ SlotsInv'
      /\ RoomInv' /\ Built' = Built
  BY <1>1, <1>2, <1>3, <1>6, <1>7, TaskPage
<1>9. Complete' = Complete /\ Unfinished' = {}
  BY <1>1, <1>2, <1>42, <1>6 DEF Complete, Unfinished
<1>10. AreasInv'
  <2>1. TaskOf(o) /\ n \notin area[o].bitmap /\ cmem_area = o
    BY <1>1, <1>2
  <2>2. PagesOf(area'[o].blocks) = PagesOf(area[o].blocks) \cup JobDone \cup {n}
    BY <1>5, <1>6 DEF PagesOf
  <2>3. /\ area[o].bitmap = {LowPages} \cup PagesOf(area[o].blocks) \cup JobDone
        /\ LowPages \notin PagesOf(area[o].blocks) \cup JobDone
        /\ PagesOf(area[o].blocks) \cap JobDone = {}
        /\ o \in Built /\ area[o].first = LowPages
    BY <1>7, <2>1 DEF TaskOf
  <2>4. n # LowPages /\ n \notin PagesOf(area[o].blocks)
    BY <2>1, <2>3
  <2>5. \A c \in area[o].blocks :
          PageRange(c.address, c.size) \cap PageRange(b.address, b.size) = {}
    BY <1>5, <2>3, <2>4 DEF PagesOf
  <2>6. \A c, d \in area'[o].blocks :
          c # d => PageRange(c.address, c.size) \cap PageRange(d.address, d.size) = {}
    <3>1. \A c, d \in area[o].blocks :
          c # d => PageRange(c.address, c.size) \cap PageRange(d.address, d.size) = {}
      BY <2>1 DEF TaskOf
    <3> QED
      BY <1>6, <2>5, <3>1
  <2>7. TaskOf(o)'
    BY <1>6, <1>7, <1>8, <2>2, <2>3, <2>4, <2>6 DEF TaskOf
  <2>8. Complete' = {o} /\ DOMAIN area' = {o} /\ o \in HeapPages /\ cmem_area' \in {0} \cup Built'
    BY <1>1, <1>2, <1>3, <1>42, <1>8, <1>9 DEF IInv, AreasInv
  <2> QED
    BY <1>6, <1>9, <2>7, <2>8 DEF AreasInv
<1>11. JobInv'
  BY <1>3, <1>7 DEF IInv, JobInv
<1> QED
  BY <1>8, <1>10, <1>11 DEF IInv

(* The page of descriptors: the area is finished, and it is the only one.  *)
LEMMA MapDesc ==
  ASSUME IInv, MapPage, job.for = "desc"
  PROVE  IInv'
<1>1. InJob /\ pc = "map"
  BY DEF MapPage, InJob
<1>2. /\ job.owner = cmem_area /\ cmem_area \in Unfinished
      /\ job.first = LowPages /\ job.next = LowPages /\ job.end = LowPages + 1
      /\ cmem_area \in DOMAIN area
  BY <1>1 DEF IInv, JobInv, Unfinished
<1>3. PICK o \in DOMAIN area, n \in TaskPages :
        o = cmem_area /\ n = job.next /\ n = LowPages
  BY <1>2, Spaces
<1>4. /\ UNCHANGED <<kdesc, held, heap, fault>> /\ pc' = "idle" /\ cmem_area' = 0
      /\ area' = AreaAfter(TRUE) /\ job.for = "desc"
  <2>1. o # 0
    BY Spaces DEF IInv, AreasInv
  <2>2. job.next + 1 = job.end
    BY <1>2
  <2> QED
    BY <1>2, <1>3, <2>1, <2>2 DEF MapPage, Recorded, Goes
<1>50. PICK x : x = [area[o] EXCEPT !.bitmap = @ \cup {n}, !.first = n]
  OBVIOUS
<1>51. area' = [area EXCEPT ![o] = x]
  BY <1>2, <1>3, <1>4, <1>50 DEF AreaAfter
<1>52. area[o] \in Areas
  BY DEF IInv, AreasInv
<1>53. /\ x \in Areas /\ x.first = n /\ x.blocks = area[o].blocks
       /\ x.bitmap = area[o].bitmap \cup {n}
       /\ x.dir = area[o].dir /\ x.pagedir = area[o].pagedir
  BY <1>50, <1>52 DEF Areas
<1>5. /\ area'[o] = x /\ DOMAIN area' = DOMAIN area
      /\ \A c \in DOMAIN area : c # o => area'[c] = area[c]
  BY <1>51
<1>6. /\ area'[o] \in Areas /\ PageOfTask(o, n) /\ area'[o].first = n
      /\ area'[o].blocks = area[o].blocks /\ area'[o].bitmap = area[o].bitmap \cup {n}
  BY <1>5, <1>53 DEF PageOfTask
<1>7. ~InJob' /\ KernelJobPages' = {} /\ TaskJobPages(o)' = {}
  BY <1>4 DEF KernelJobPages, TaskJobPages, InJob
<1>8. /\ MemInv' /\ DirectoryInv' /\ BitmapsTell' /\ BlocksInv' /\ SlotsInv'
      /\ RoomInv' /\ Built' = Built
  BY <1>2, <1>3, <1>4, <1>6, <1>7, TaskPage
<1>9. Complete = {} /\ Unfinished = {o} /\ DOMAIN area = {o}
  <2>1. Page(n) = 0
    BY <1>3, MapPageMem
  <2>2. ASSUME NEW c \in Complete PROVE FALSE
    <3>1. c \in DOMAIN area /\ n \in area[c].bitmap
      BY <1>3 DEF IInv, AreasInv, TaskOf, Complete
    <3> QED
      BY <2>1, <3>1 DEF IInv, BitmapsTell
  <2>3. Unfinished = {o}
    BY <1>2, <1>3 DEF IInv, AreasInv
  <2> QED
    BY <2>2, <2>3 DEF Unfinished
<1>10. n # 0 /\ Complete' = {o} /\ Unfinished' = {}
  <2>1. n # 0
    BY Spaces
  <2> QED
    BY <1>5, <1>6, <1>9, <2>1 DEF Complete, Unfinished
<1>11. AreasInv'
  <2>1. area[o].bitmap = {} /\ area[o].blocks = {} /\ o \in Built
    BY <1>2, <1>3, <1>9, Spaces DEF IInv, AreasInv
  <2>2. PagesOf({}) = {}
    BY DEF PagesOf
  <2>3. TaskOf(o)'
    BY <1>3, <1>6, <1>7, <1>8, <2>1, <2>2 DEF TaskOf
  <2>4. DOMAIN area' = {o} /\ o \in HeapPages
    BY <1>5, <1>9 DEF IInv, AreasInv
  <2> QED
    BY <1>4, <1>6, <1>10, <2>3, <2>4 DEF AreasInv
<1>12. JobInv'
  BY <1>4, <1>7 DEF IInv, JobInv
<1> QED
  BY <1>8, <1>11, <1>12 DEF IInv

LEMMA MapPageKeeps ==
  ASSUME IInv, MapPage
  PROVE  IInv'
<1>1. InJob
  BY DEF MapPage, InJob
<1>2. CASE job.owner = 0 /\ job.next + 1 # job.end
  BY <1>2, MapKernelOn
<1>3. CASE job.owner = 0 /\ job.next + 1 = job.end
  <2>1. job.for \in {"kernel", "area", "directory"}
    BY <1>1, <1>3, Owners
  <2> QED
    BY <1>3, <2>1, MapKernelBlock, MapKernelArea, MapKernelDirectory
<1>4. CASE job.owner # 0
  <2>1. job.for \in {"task", "desc"}
    BY <1>1, <1>4, Owners
  <2> QED
    BY <2>1, MapTaskOn, MapTaskBlock, MapDesc
<1> QED
  BY <1>2, <1>3, <1>4

-----------------------------------------------------------------------------
(* Pages are given back: what that does to memory, bitmaps and blocks.     *)
PagesRemoved(pages) ==
  /\ MemInv' /\ TablesKept /\ ContentsKept
  /\ \A v \in Managed : Page(v)' = IF v \in pages THEN 0 ELSE Page(v)

LEMMA PagesGone ==
  ASSUME MemInv, NEW pages \in SUBSET Managed, \A v \in pages : Page(v) # 0,
         NEW d, word[d][Last] = KernelDir, Unmapped(d, pages)
  PROVE  PagesRemoved(pages)
<1>1. /\ MemInv'
      /\ \A e \in Entries : Table(e)' = Table(e)
      /\ \A v \in Managed : Page(v)' = IF v \in pages THEN 0 ELSE Page(v)
      /\ \A f \in Frames : Aside(f) /\ (\A v \in pages : Page(v) # f) =>
           word'[f] = word[f]
  BY Unmaps
<1>2. ContentsKept
  <2> SUFFICES ASSUME NEW v \in Managed, Page(v) # 0, Page(v)' = Page(v)
               PROVE  word'[Page(v)] = word[Page(v)]
    BY DEF ContentsKept
  <2>1. v \notin pages
    BY <1>1
  <2>2. \A u \in pages : Page(u) # Page(v)
    BY <2>1 DEF MemInv, PagesApart
  <2>3. Aside(Page(v)) /\ Page(v) \in Frames
    BY PageAside
  <2> QED
    BY <1>1, <2>2, <2>3
<1>3. TablesKept
  BY <1>1 DEF TablesKept
<1> QED
  BY <1>1, <1>2, <1>3 DEF PagesRemoved

LEMMA GoneFromBitmaps ==
  ASSUME IInv, NEW pages \in SUBSET Managed, PagesRemoved(pages),
         heap' = heap \ pages, HeapStart \notin pages,
         \A v \in TaskPages :
           (\E a \in DOMAIN area' : v \in area'[a].bitmap)
             <=> v \notin pages /\ \E a \in DOMAIN area : v \in area[a].bitmap,
         \A a \in Built' : /\ a \in Built /\ area'[a].dir = area[a].dir
                           /\ area'[a].pagedir = area[a].pagedir
                           /\ area[a].dir \notin pages
  PROVE  MemInv' /\ DirectoryInv' /\ BitmapsTell'
<1>1. MemInv'
  BY DEF PagesRemoved
<1>2. BitmapsTell'
  <2>1. \A v \in HeapPages : v \in heap' <=> Page(v)' # 0
    BY DEF PagesRemoved, IInv, BitmapsTell, Managed
  <2>2. ASSUME NEW v \in TaskPages
        PROVE  Page(v)' # 0 <=> \E a \in DOMAIN area' : v \in area'[a].bitmap
    <3>1. Page(v)' # 0 <=> v \notin pages /\ Page(v) # 0
      BY DEF PagesRemoved, Managed
    <3>2. Page(v) # 0 <=> \E a \in DOMAIN area : v \in area[a].bitmap
      BY DEF IInv, BitmapsTell
    <3> QED
      BY <3>1, <3>2
  <2>3. heap' \subseteq HeapPages /\ HeapStart \in heap'
    BY DEF IInv, BitmapsTell
  <2> QED
    BY <2>1, <2>2, <2>3 DEF BitmapsTell
<1>3. DirectoryInv'
  <2>1. MemInv /\ DirectoryInv /\ TablesKept /\ ContentsKept
    BY DEF IInv, PagesRemoved
  <2>2. \A a \in Built' : \A v \in HeapPages : v = area[a].dir => Page(v)' = Page(v)
    BY DEF PagesRemoved, Managed
  <2> QED
    BY <2>1, <2>2, DirectoriesKept
<1> QED
  BY <1>1, <1>2, <1>3

(* mem_free finds a descriptor by the address, its own or another: all it  *)
(* takes is the first page and the tail of that descriptor.                *)
Freed(v) == PageRange(v, SizeFound(v))
FoundAt(k, v) ==
  /\ kdesc[k] \in Blocks /\ kdesc[k].address = v
  /\ Freed(v) = {v} \cup Tail(k)
  /\ Freed(v) = PageRange(kdesc[k].address, kdesc[k].size)
  /\ kdesc' = FreeAllocation(v) => SlotSet(k, NoBlock)

LEMMA SlotFound ==
  ASSUME IInv, NEW p \in Parts, NEW v, v = p.block.address
  PROVE  v \in Nat /\ v \in PartHeads /\ \E k \in Slots : FoundAt(k, v)
<1>1. /\ p.block \in Records \cap Blocks /\ PartPages(p) \subseteq heap
      /\ kdesc \in [Slots -> Blocks \cup {NoBlock}]
  BY DEF IInv, BlocksInv
<1>2. v \in heap /\ v \in Nat /\ v # 0
  <2>1. v \in PartPages(p)
    BY <1>1, BlockHasPages DEF PartPages
  <2> QED
    BY <1>1, <2>1, Spaces DEF IInv, BitmapsTell
<1>3. SlotsOf(v) # {} /\ SlotsOf(v) \in SUBSET Nat
  BY <1>1, SlotsAre DEF SlotsOf, Records
<1>4. PICK k \in SlotsOf(v) : k = Lowest(SlotsOf(v))
  BY <1>3, LowestIs
<1>5. k \in Slots /\ kdesc[k].address = v /\ kdesc[k] \in Blocks
  BY <1>1, <1>2, SlotsAre DEF SlotsOf
<1>6. SizeFound(v) = kdesc[k].size
  BY <1>3, <1>4 DEF SizeFound
<1>7. Freed(v) = PageRange(kdesc[k].address, kdesc[k].size)
  BY <1>5, <1>6 DEF Freed
<1>8. Freed(v) = {v} \cup Tail(k)
  BY <1>5, <1>7, HeadAndTail DEF Tail
<1>9. kdesc' = FreeAllocation(v) => SlotSet(k, NoBlock)
  BY <1>1, <1>3, <1>4, <1>5 DEF FreeAllocation, SlotSet
<1>10. FoundAt(k, v)
  BY <1>5, <1>7, <1>8, <1>9 DEF FoundAt
<1> QED
  BY <1>2, <1>5, <1>10 DEF PartHeads

(* A descriptor of another block has another address.                      *)
LEMMA OthersKept ==
  ASSUME IInv, NEW p \in Parts, NEW v, v = p.block.address,
         NEW k \in Slots, FoundAt(k, v), NEW q \in Parts, q # p
  PROVE  /\ \E j \in Slots : j # k /\ kdesc[j] = q.block
         /\ PartPages(q) \cap Freed(v) = {}
<1>1. /\ q.block \in Records \cap Blocks /\ p.block \in Blocks
      /\ PartPages(p) \cap PartPages(q) = {} /\ SlotsInv
  BY DEF IInv, BlocksInv
<1>2. v \in PartPages(p) /\ q.block.address \in PartPages(q)
  BY <1>1, BlockHasPages DEF PartPages
<1>3. q.block.address # v
  BY <1>1, <1>2
<1>4. PICK j \in Slots : kdesc[j] = q.block
  BY <1>1 DEF Records
<1>5. j # k
  BY <1>3, <1>4 DEF FoundAt
<1>6. PartPages(q) = {q.block.address} \cup Tail(j)
  BY <1>1, <1>4, HeadAndTail DEF PartPages, Tail
<1>7. v \in PartHeads /\ q.block.address \in PartHeads
  BY DEF PartHeads
<1>8. Tail(j) \cap Tail(k) = {} /\ v \notin Tail(j) /\ q.block.address \notin Tail(k)
  BY <1>1, <1>5, <1>7 DEF SlotsInv
<1>9. PartPages(q) \cap Freed(v) = {}
  BY <1>3, <1>6, <1>8 DEF FoundAt
<1> QED
  BY <1>4, <1>5, <1>9

(* What a free of a known block takes: taken and mapped pages, of no other *)
(* block; and vir_free meets no page that stops it.                        *)
LEMMA FreedIs ==
  ASSUME IInv, NEW p \in Parts, NEW v, v = p.block.address
  PROVE  /\ Freed(v) \subseteq heap \ {HeapStart} /\ Freed(v) \subseteq HeapPages
         /\ \A u \in Freed(v) : Page(u) # 0
         /\ \A q \in Parts : q # p => PartPages(q) \cap Freed(v) = {}
<1>1. PICK k \in Slots : FoundAt(k, v)
  BY SlotFound
<1>2. v \in PartPages(p) /\ PartPages(p) \subseteq heap \ {HeapStart}
  BY BlockHasPages DEF IInv, BlocksInv, PartPages
<1>3. Tail(k) \subseteq heap \ {HeapStart}
  BY DEF IInv, SlotsInv, PartHeads
<1>4. Freed(v) \subseteq heap \ {HeapStart}
  BY <1>1, <1>2, <1>3 DEF FoundAt
<1>5. \A q \in Parts : q # p => PartPages(q) \cap Freed(v) = {}
  BY <1>1, OthersKept
<1> QED
  BY <1>4, <1>5 DEF IInv, BitmapsTell

LEMMA FreesAll ==
  ASSUME IInv, NEW p \in Parts, NEW v, v = p.block.address,
         NEW d, \A u : get_physical(d, u) = Page(u),
         NEW bitmap, Freed(v) \subseteq bitmap
  PROVE  PagesFreed(d, v, bitmap) = Freed(v)
<1>1. v \in Nat
  BY SlotFound
<1>2. \A u \in Freed(v) : Page(u) # 0
  BY FreedIs
<1>3. \A u \in Freed(v) : v .. u \subseteq Freed(v)
  <2>1. PICK k \in Slots : FoundAt(k, v)
    BY SlotFound
  <2>2. PICK n \in Nat : n = kdesc[k].size /\ Freed(v) = v .. v + n - 1
    <3>1. kdesc[k].size \in Nat
      BY <2>1, Bounds DEF FoundAt, Blocks
    <3>2. Freed(v) = v .. v + kdesc[k].size - 1
      BY <2>1 DEF FoundAt, PageRange
    <3> QED
      BY <3>1, <3>2
  <2>3. \A u \in v .. v + n - 1 : v .. u \subseteq v .. v + n - 1
    BY <1>1
  <2> QED
    BY <2>2, <2>3
<1>4. \A u \in Freed(v) : \A w \in v .. u : w \in bitmap /\ get_physical(d, w) # 0
  BY <1>2, <1>3
<1> QED
  BY <1>4 DEF PagesFreed, Freed

(* Known blocks go, by one descriptor and perhaps a page more.             *)
LEMMA Released ==
  ASSUME IInv, KernelJobPages = {}, KernelJobPages' = {},
         NEW p \in Parts, NEW v, v = p.block.address, kdesc' = FreeAllocation(v),
         NEW more, heap' = heap \ (Freed(v) \cup more),
         more \subseteq PartHeads \ {HeapStart},
         Parts' \subseteq Parts \ {p}, \A q \in Parts' : PartPages(q) \cap more = {}
  PROVE  BlocksInv' /\ SlotsInv'
<1>1. PICK k \in Slots : FoundAt(k, v)
  BY SlotFound
<1>2. SlotSet(k, NoBlock)
  BY <1>1 DEF FoundAt
<1>3. BlocksInv /\ SlotsInv /\ JobHeads' = {} /\ PartHeads' \subseteq PartHeads
  BY DEF IInv, JobHeads, PartHeads
<1>4. \A q \in Parts' : /\ q.block \in Records' \cap Blocks
                        /\ PartPages(q) \subseteq heap' \ {HeapStart}
  <2> TAKE q \in Parts'
  <2>1. q \in Parts /\ q # p
    OBVIOUS
  <2>2. PartPages(q) \cap Freed(v) = {}
    BY <2>1, FreedIs
  <2>3. PICK j \in Slots : j # k /\ kdesc[j] = q.block
    BY <1>1, <2>1, OthersKept
  <2>4. q.block \in Records'
    BY <1>2, <2>3 DEF SlotSet, Records
  <2> QED
    BY <1>3, <2>1, <2>2, <2>4 DEF BlocksInv
<1>5. heap' \subseteq {HeapStart} \cup PagesOf(Records)'
  <2> SUFFICES ASSUME NEW u \in heap', u # HeapStart PROVE u \in PagesOf(Records)'
    OBVIOUS
  <2>1. PICK b \in Records : u \in PageRange(b.address, b.size)
    BY <1>3 DEF BlocksInv, PagesOf
  <2>2. PICK j \in Slots : kdesc[j] = b
    BY DEF Records
  <2>3. j # k
    BY <1>1, <2>1, <2>2 DEF FoundAt
  <2>4. b \in Records'
    BY <1>2, <2>2, <2>3 DEF Records, SlotSet
  <2> QED
    BY <2>1, <2>4 DEF PagesOf
<1>6. BlocksInv'
  <2>1. \A q, r \in Parts' : q # r => PartPages(q) \cap PartPages(r) = {}
    BY <1>3 DEF BlocksInv
  <2> QED
    BY <1>2, <1>4, <1>5, <2>1 DEF BlocksInv, SlotSet
<1>7. Tail(k)' = {} /\ \A i \in Slots : i # k => Tail(i)' = Tail(i)
  <2>1. Tail(k)' = PageRange(NoBlock.address + 1, NoBlock.size - 1)
    BY <1>2 DEF Tail, SlotSet
  <2>2. PageRange(NoBlock.address + 1, NoBlock.size - 1) = {}
    BY DEF NoBlock, PageRange
  <2> QED
    BY <1>2, <2>1, <2>2 DEF Tail, SlotSet
<1>8. \A i \in Slots : i # k => Tail(i) \cap (Freed(v) \cup more) = {}
  <2> SUFFICES ASSUME NEW i \in Slots, i # k
               PROVE  Tail(i) \cap (Freed(v) \cup more) = {}
    OBVIOUS
  <2>1. Tail(i) \cap Tail(k) = {} /\ Tail(i) \cap PartHeads = {}
    BY <1>3 DEF SlotsInv
  <2>2. v \in PartHeads
    BY SlotFound
  <2> QED
    BY <1>1, <2>1, <2>2 DEF FoundAt
<1>9. SlotsInv'
  BY <1>3, <1>7, <1>8 DEF SlotsInv
<1> QED
  BY <1>6, <1>9

(* mem_free of a block of kernel code.                                     *)
LEMMA KernelFreeKeeps ==
  ASSUME IInv, NEW b \in held, KernelFree(b)
  PROVE  IInv'
<1> DEFINE U == Freed(b.address)
<1>1. /\ pc = "idle" /\ Unmapped(CR3, PagesFreed(CR3, b.address, heap))
      /\ heap' = heap \ PagesFreed(CR3, b.address, heap)
      /\ kdesc' = FreeAllocation(b.address) /\ held' = held \ {b}
      /\ UNCHANGED <<area, cmem_area, pc, job, fault>>
  BY DEF KernelFree
<1>2. /\ KernelJobPages' = {} /\ KernelJobPages = {} /\ Unfinished = {}
      /\ \A c : TaskJobPages(c)' = {} /\ TaskJobPages(c) = {}
      /\ DOMAIN area = Complete /\ ~InJob'
      /\ JobHeads' = {} /\ JobHeads = {} /\ RoomInv'
  <2>1. ~InJob'
    BY <1>1 DEF InJob
  <2>2. KernelJobPages' = {} /\ KernelJobPages = {}
    BY <1>1, <2>1, AtRest DEF IInv, KernelJobPages
  <2>3. RoomInv'
    BY <1>1, <2>1 DEF RoomInv, Recording
  <2> QED
    BY <1>1, <2>1, <2>2, <2>3, AtRest DEF IInv, JobHeads, TaskJobPages
<1>3. PICK q : q = Part("held", 0, b)
  OBVIOUS
<1>4. q \in Parts /\ q.block = b /\ BlocksInv
  BY <1>3 DEF Parts, PartPages, Part, IInv
<1>5. /\ U \subseteq heap \ {HeapStart} /\ U \subseteq HeapPages
      /\ \A v \in U : Page(v) # 0
      /\ \A p \in Parts : p # q => PartPages(p) \cap U = {}
  BY <1>4, FreedIs
<1>6. Unmapped(CR3, U) /\ heap' = heap \ U
  <2>1. \A u : get_physical(CR3, u) = Page(u)
    BY Current DEF IInv, AreasInv
  <2>2. PagesFreed(CR3, b.address, heap) = U
    BY <1>4, <1>5, <2>1, FreesAll
  <2> QED
    BY <1>1, <2>2
<1>7. PagesRemoved(U)
  <2>1. word[CR3][Last] = KernelDir
    BY Current DEF IInv, AreasInv
  <2>2. U \in SUBSET Managed /\ MemInv
    BY <1>5 DEF Managed, IInv
  <2> HIDE DEF U
  <2> QED
    BY <1>5, <1>6, <2>1, <2>2, PagesGone
<1>8. Built' = Built /\ \A a \in Built : DirBlock(a)' = DirBlock(a)
  BY <1>1 DEF Built, DirBlock
<1>9. \A a \in Built : Part("directory", a, DirBlock(a)) \in Parts
                       /\ Part("directory", a, DirBlock(a)) # q
  BY <1>3 DEF Parts, Part
<1>10. MemInv' /\ DirectoryInv' /\ BitmapsTell'
  <2>1. ASSUME NEW a \in Built PROVE area[a].dir \notin U
    <3>1. PICK p : p = Part("directory", a, DirBlock(a))
      OBVIOUS
    <3>2. p \in Parts /\ p # q
      BY <1>9, <3>1
    <3>3. PartPages(p) \cap U = {} /\ p.block \in Blocks
      BY <1>4, <1>5, <3>2 DEF BlocksInv
    <3>4. p.block.address \in PartPages(p) /\ p.block.address = area[a].dir
      BY <3>1, <3>3, BlockHasPages DEF PartPages, Part, DirBlock
    <3> QED
      BY <3>3, <3>4
  <2>2. \A v \in TaskPages : v \notin U
    BY <1>5, Spaces
  <2>3. U \in SUBSET Managed /\ HeapStart \notin U
    BY <1>5 DEF Managed
  <2> HIDE DEF U
  <2> QED
    BY <1>1, <1>6, <1>7, <1>8, <2>1, <2>2, <2>3, GoneFromBitmaps
<1>11. BlocksInv' /\ SlotsInv'
  <2>1. Parts' = Parts \ {q}
    BY <1>1, <1>3, <1>8 DEF Parts, Part
  <2>2. heap' = heap \ (U \cup {})
    BY <1>6
  <2> QED
    BY <1>1, <1>2, <1>4, <2>1, <2>2, Released
<1>12. AreasInv'
  BY <1>1, <1>2, QuietAreas DEF IInv
<1>13. JobInv'
  BY <1>1, <1>2 DEF IInv, JobInv
<1> QED
  BY <1>2, <1>10, <1>11, <1>12, <1>13 DEF IInv

(* mem_free of a block of a task.                                          *)
LEMMA TaskFreeKeeps ==
  ASSUME IInv, cmem_area # 0, NEW b \in area[cmem_area].blocks, TaskFree(b)
  PROVE  IInv'
<1> DEFINE U == PageRange(b.address, b.size)
<1>1. /\ pc = "idle" /\ Unmapped(CR3, U)
      /\ area' = [area EXCEPT ![cmem_area].blocks = @ \ {b}, ![cmem_area].bitmap = @ \ U]
      /\ UNCHANGED <<heap, kdesc, held, cmem_area, pc, job, fault>>
  BY DEF TaskFree
<1>2. /\ KernelJobPages' = {} /\ KernelJobPages = {} /\ Unfinished = {}
      /\ \A c : TaskJobPages(c)' = {} /\ TaskJobPages(c) = {}
      /\ DOMAIN area = Complete /\ ~InJob'
      /\ JobHeads' = {} /\ JobHeads = {} /\ RoomInv'
  <2>1. ~InJob'
    BY <1>1 DEF InJob
  <2>2. KernelJobPages' = {} /\ KernelJobPages = {}
    BY <1>1, <2>1, AtRest DEF IInv, KernelJobPages
  <2>3. RoomInv'
    BY <1>1, <2>1 DEF RoomInv, Recording
  <2> QED
    BY <1>1, <2>1, <2>2, <2>3, AtRest DEF IInv, JobHeads, TaskJobPages
<1>3. cmem_area \in Built /\ cmem_area \in DOMAIN area
  BY DEF IInv, AreasInv, Built
<1>4. PICK o \in DOMAIN area : o = cmem_area
  BY <1>3
<1>5. DOMAIN area = {o} /\ TaskOf(o) /\ area[o] \in Areas /\ b \in area[o].blocks
  BY <1>2, <1>4 DEF IInv, AreasInv
<1>6. PICK x : x = [area[o] EXCEPT !.blocks = @ \ {b}, !.bitmap = @ \ U]
  OBVIOUS
<1>7. area' = [area EXCEPT ![o] = x]
  BY <1>1, <1>4, <1>6
<1>8. /\ x \in Areas /\ x.first = area[o].first /\ x.blocks = area[o].blocks \ {b}
      /\ x.bitmap = area[o].bitmap \ U /\ x.dir = area[o].dir
      /\ x.pagedir = area[o].pagedir
  <2> HIDE DEF U
  <2> QED
    BY <1>5, <1>6 DEF Areas
<1>9. /\ area'[o] = x /\ DOMAIN area' = {o}
  BY <1>5, <1>7
<1>10. Built' = Built /\ Complete' = Complete /\ Unfinished' = {}
  BY <1>2, <1>5, <1>8, <1>9 DEF Built, Complete, Unfinished
<1>11. U \subseteq area[o].bitmap /\ U \subseteq TaskPages /\ U \cap HeapPages = {}
  <2>1. U \subseteq PagesOf(area[o].blocks)
    BY <1>5 DEF PagesOf
  <2>2. PagesOf(area[o].blocks) \subseteq area[o].bitmap
    BY <1>5 DEF TaskOf
  <2>3. area[o].bitmap \subseteq TaskPages
    BY <1>5 DEF Areas
  <2> QED
    BY <2>1, <2>2, <2>3, Spaces
<1>12. PagesRemoved(U)
  <2>1. word[CR3][Last] = KernelDir
    BY Current DEF IInv, AreasInv
  <2>2. U \in SUBSET Managed /\ MemInv
    BY <1>11 DEF Managed, IInv
  <2>3. \A v \in U : Page(v) # 0
    BY <1>11 DEF IInv, BitmapsTell
  <2> HIDE DEF U
  <2> QED
    BY <1>1, <2>1, <2>2, <2>3, PagesGone
<1>13. MemInv' /\ DirectoryInv' /\ BitmapsTell'
  <2>1. heap' = heap \ U /\ HeapStart \notin U /\ U \in SUBSET Managed
    BY <1>1, <1>11, Spaces DEF Managed, IInv, BitmapsTell
  <2>2. \A a \in Built' : /\ a \in Built /\ area'[a].dir = area[a].dir
                          /\ area'[a].pagedir = area[a].pagedir
                          /\ area[a].dir \notin U
    <3>1. \A a \in Built : a = o /\ area[a].dir \in HeapPages
      BY <1>5 DEF Built, IInv, DirectoryInv
    <3> QED
      BY <1>8, <1>9, <1>10, <1>11, <3>1
  <2>3. \A v \in TaskPages :
           (\E a \in DOMAIN area' : v \in area'[a].bitmap)
             <=> v \notin U /\ \E a \in DOMAIN area : v \in area[a].bitmap
    <3> HIDE DEF U
    <3> QED
      BY <1>5, <1>8, <1>9
  <2> HIDE DEF U
  <2> QED
    BY <1>12, <2>1, <2>2, <2>3, GoneFromBitmaps
<1>14. BlocksInv' /\ SlotsInv'
  <2>1. \A c \in Built : c = o /\ DirBlock(c)' = DirBlock(c)
    BY <1>5, <1>8, <1>9 DEF DirBlock, Built
  <2>2. Parts' = Parts /\ Records' = Records
    <3>1. {Part("directory", c, DirBlock(c)') : c \in Built'} =
            {Part("directory", c, DirBlock(c)) : c \in Built}
      BY <1>10, <2>1
    <3> QED
      BY <1>1, <1>5, <1>9, <3>1 DEF Parts, Records
  <2>3. PartHeads' = PartHeads
    BY <2>2 DEF PartHeads
  <2>4. \A i \in Slots : Tail(i)' = Tail(i)
    BY <1>1 DEF Tail
  <2>5. BlocksInv'
    BY <1>1, <1>2, <2>2 DEF BlocksInv, IInv
  <2>6. SlotsInv'
    BY <1>1, <1>2, <2>3, <2>4 DEF SlotsInv, IInv
  <2> QED
    BY <2>5, <2>6
<1>15. AreasInv'
  <2>1. PagesOf(area[o].blocks \ {b}) = PagesOf(area[o].blocks) \ U
    <3>1. \A c \in area[o].blocks \ {b} : PageRange(c.address, c.size) \cap U = {}
      BY <1>5 DEF TaskOf
    <3> QED
      BY <3>1 DEF PagesOf
  <2>2. area[o].bitmap = {LowPages} \cup PagesOf(area[o].blocks)
        /\ LowPages \notin PagesOf(area[o].blocks)
    BY <1>2, <1>5 DEF TaskOf
  <2>3. U \subseteq PagesOf(area[o].blocks)
    BY <1>5 DEF PagesOf
  <2>4. x.bitmap = {LowPages} \cup PagesOf(x.blocks) /\ LowPages \notin PagesOf(x.blocks)
    <3> HIDE DEF U
    <3> QED
      BY <1>8, <2>1, <2>2, <2>3
  <2>5. o \in Built /\ area[o].first = LowPages
        /\ \A c, d \in x.blocks :
             c # d => PageRange(c.address, c.size) \cap PageRange(d.address, d.size) = {}
    BY <1>5, <1>8 DEF TaskOf
  <2>6. TaskOf(o)'
    BY <1>2, <1>8, <1>9, <1>10, <2>4, <2>5 DEF TaskOf
  <2>7. Complete' = {o} /\ o \in HeapPages /\ cmem_area' \in {0} \cup Built'
    BY <1>1, <1>2, <1>5, <1>10 DEF IInv, AreasInv
  <2> QED
    BY <1>8, <1>9, <1>10, <2>6, <2>7 DEF AreasInv
<1>16. JobInv'
  BY <1>1, <1>2 DEF IInv, JobInv
<1> QED
  BY <1>2, <1>13, <1>14, <1>15, <1>16 DEF IInv

(* The pages of a memory_area and of a directory belong to no other part.  *)
LEMMA AreaPart ==
  ASSUME IInv, NEW a \in DOMAIN area
  PROVE  /\ Freed(a) \subseteq heap \ {HeapStart} /\ Freed(a) \subseteq HeapPages
         /\ \A v \in Freed(a) : Page(v) # 0
         /\ \A p \in Parts : p # Part("area", a, AreaBlock(a)) =>
              PartPages(p) \cap Freed(a) = {}
         /\ \A bitmap : Freed(a) \subseteq bitmap =>
              PagesFreed(KernelDir, a, bitmap) = Freed(a)
<1>1. PICK q : q = Part("area", a, AreaBlock(a))
  OBVIOUS
<1>2. q \in Parts /\ q.block.address = a
  BY <1>1 DEF Parts, Part, AreaBlock
<1>3. \A u : get_physical(KernelDir, u) = Page(u)
  BY DEF Page
<1> QED
  BY <1>1, <1>2, <1>3, FreedIs, FreesAll

LEMMA DirectoryPart ==
  ASSUME IInv, NEW a \in Built
  PROVE  /\ area[a].dir \in heap \ {HeapStart}
         /\ area[a].dir \in PartHeads
         /\ \A p \in Parts : p # Part("directory", a, DirBlock(a)) =>
              area[a].dir \notin PartPages(p)
<1>1. PICK q : q = Part("directory", a, DirBlock(a))
  OBVIOUS
<1>2. q \in Parts /\ BlocksInv
  BY <1>1 DEF Parts, IInv
<1>3. area[a].dir \in PartPages(q)
  <2>1. q.block \in Blocks /\ q.block = DirBlock(a)
    BY <1>1, <1>2 DEF BlocksInv, Part
  <2>2. q.block.address \in PartPages(q)
    BY <2>1, BlockHasPages DEF PartPages
  <2> QED
    BY <2>1, <2>2 DEF DirBlock
<1>4. area[a].dir \in PartHeads
  BY <1>1, <1>2 DEF PartHeads, Part, DirBlock
<1> QED
  BY <1>1, <1>2, <1>3, <1>4 DEF BlocksInv

(* An unfinished memory_area is given back.                                *)
LEMMA GivenBack ==
  ASSUME IInv, NEW a \in Unfinished, AreaGivenBack(a), held' = held,
         KernelJobPages = {}, KernelJobPages' = {}
  PROVE  /\ MemInv' /\ DirectoryInv' /\ BitmapsTell' /\ BlocksInv' /\ SlotsInv'
         /\ DOMAIN area' = Complete /\ \A c \in Complete : area'[c] = area[c]
         /\ Complete' = Complete /\ Unfinished' = {}
         /\ \A c \in Complete : c \in Built => c \in Built'
<1> DEFINE U == Freed(a)
<1>0. PagesFreed(KernelDir, a, heap) = U
  BY AreaPart DEF Unfinished
<1>1. /\ Unmapped(KernelDir, U) /\ heap' = heap \ U
      /\ kdesc' = FreeAllocation(a) /\ area' = WithoutArea(a)
  BY <1>0 DEF AreaGivenBack
<1>2. DOMAIN area = Complete \cup {a} /\ a \notin Complete /\ a \in DOMAIN area
      /\ area[a].bitmap = {}
  BY DEF IInv, AreasInv, Unfinished, Complete
<1>3. DOMAIN area' = Complete /\ \A c \in Complete : area'[c] = area[c]
  BY <1>1, <1>2 DEF WithoutArea
<1>4. Complete' = Complete /\ Unfinished' = {} /\ Built' = Built \ {a}
  BY <1>2, <1>3 DEF Complete, Unfinished, Built
<1>5. /\ U \subseteq heap \ {HeapStart} /\ U \subseteq HeapPages
      /\ \A v \in U : Page(v) # 0
      /\ \A p \in Parts : p # Part("area", a, AreaBlock(a)) => PartPages(p) \cap U = {}
  BY <1>2, AreaPart
<1>6. U \in SUBSET Managed /\ HeapStart \notin U /\ \A v \in TaskPages : v \notin U
  BY <1>5, Spaces DEF Managed
<1>7. PagesRemoved(U)
  <2>1. word[KernelDir][Last] = KernelDir /\ MemInv
    BY DEF IInv, MemInv, TablesApart, Table
  <2> HIDE DEF U
  <2> QED
    BY <1>1, <1>5, <1>6, <2>1, PagesGone
<1>8. MemInv' /\ DirectoryInv' /\ BitmapsTell'
  <2>1. ASSUME NEW c \in Built'
        PROVE  /\ c \in Built /\ area'[c].dir = area[c].dir
               /\ area'[c].pagedir = area[c].pagedir /\ area[c].dir \notin U
    <3>1. c \in Built /\ area'[c] = area[c]
      BY <1>2, <1>3, <1>4 DEF Built
    <3>2. PICK p : p = Part("directory", c, DirBlock(c))
      OBVIOUS
    <3>3. p \in Parts /\ p # Part("area", a, AreaBlock(a)) /\ p.block \in Blocks
      BY <3>1, <3>2 DEF Parts, Part, IInv, BlocksInv
    <3>4. area[c].dir \in PartPages(p)
      BY <3>2, <3>3, BlockHasPages DEF PartPages, Part, DirBlock
    <3> QED
      BY <1>5, <3>1, <3>3, <3>4
  <2>2. \A v \in TaskPages :
           (\E c \in DOMAIN area' : v \in area'[c].bitmap)
             <=> v \notin U /\ \E c \in DOMAIN area : v \in area[c].bitmap
    BY <1>2, <1>3, <1>6
  <2> HIDE DEF U
  <2> QED
    BY <1>1, <1>6, <1>7, <2>1, <2>2, GoneFromBitmaps
<1>9. BlocksInv' /\ SlotsInv'
  <2>1. \A c \in Built' : c \in Built /\ DirBlock(c)' = DirBlock(c)
    BY <1>2, <1>3, <1>4 DEF DirBlock, Built
  <2>2. Parts' \subseteq Parts /\ Part("area", a, AreaBlock(a)) \notin Parts'
    <3>1. {Part("directory", c, DirBlock(c)') : c \in Built'} \subseteq
            {Part("directory", c, DirBlock(c)) : c \in Built}
      BY <2>1
    <3>2. Parts' \subseteq Parts
      BY <1>2, <1>3, <3>1 DEF Parts
    <3>3. ASSUME Part("area", a, AreaBlock(a)) \in Parts' PROVE FALSE
      BY <1>2, <1>3, <3>3 DEF Parts, Part
    <3> QED
      BY <3>2, <3>3
  <2>3. PICK p \in Parts : p = Part("area", a, AreaBlock(a)) /\ p.block.address = a
    <3>1. Part("area", a, AreaBlock(a)) \in Parts
      BY <1>2 DEF Parts
    <3>2. Part("area", a, AreaBlock(a)).block.address = a
      BY DEF Part, AreaBlock
    <3> QED
      BY <3>1, <3>2
  <2>4. PICK more : more = {}
    OBVIOUS
  <2>5. /\ heap' = heap \ (Freed(a) \cup more)
        /\ more \subseteq PartHeads \ {HeapStart}
        /\ \A q \in Parts' : PartPages(q) \cap more = {}
    BY <1>1, <2>4
  <2>6. Parts' \subseteq Parts \ {p}
    BY <2>2, <2>3
  <2>7. kdesc' = FreeAllocation(a)
    BY <1>1 DEF AreaGivenBack
  <2> HIDE DEF U
  <2> QED
    BY <2>3, <2>5, <2>6, <2>7, Released
<1> QED
  BY <1>2, <1>3, <1>4, <1>8, <1>9

LEMMA GivenBackAreas ==
  ASSUME IInv, NEW a \in Unfinished,
         DOMAIN area' = Complete, \A c \in Complete : area'[c] = area[c],
         Complete' = Complete, Unfinished' = {},
         \A c \in Complete : c \in Built => c \in Built',
         \A c : TaskJobPages(c)' = {} /\ TaskJobPages(c) = {},
         cmem_area' = 0
  PROVE  AreasInv'
<1>1. \A c \in Complete : TaskOf(c) /\ c \in DOMAIN area
  BY DEF IInv, AreasInv, Complete
<1>2. \A c \in Complete : TaskOf(c)'
  BY <1>1 DEF TaskOf
<1>3. /\ DOMAIN area' \subseteq HeapPages /\ \A c \in DOMAIN area' : area'[c] \in Areas
      /\ \A c, d \in Complete : c = d
  BY <1>1 DEF IInv, AreasInv
<1> QED
  BY <1>2, <1>3 DEF AreasInv

LEMMA DirectoryRefusedKeeps ==
  ASSUME IInv, DirectoryRefused
  PROVE  IInv'
<1>1. /\ pc = "directory" /\ AreaGivenBack(Made) /\ pc' = "idle"
      /\ UNCHANGED <<held, cmem_area, fault>>
  BY DEF DirectoryRefused, Idle
<1>2. cmem_area = 0 /\ Unfinished # {}
  BY <1>1 DEF IInv, JobInv
<1>3. Made \in Unfinished
  <2>1. \E a \in DOMAIN area : area[a].first = 0
    BY <1>2 DEF Unfinished, Complete
  <2>2. Made \in DOMAIN area /\ area[Made].first = 0
    BY <2>1 DEF Made
  <2> QED
    BY <2>2 DEF Unfinished, Complete
<1>4. PICK a \in Unfinished : a = Made
  BY <1>3
<1>5. /\ KernelJobPages' = {} /\ KernelJobPages = {} /\ ~InJob'
      /\ \A c : TaskJobPages(c)' = {} /\ TaskJobPages(c) = {}
  BY <1>1 DEF KernelJobPages, TaskJobPages, InJob
<1>6. /\ MemInv' /\ DirectoryInv' /\ BitmapsTell' /\ BlocksInv' /\ SlotsInv'
      /\ DOMAIN area' = Complete /\ \A c \in Complete : area'[c] = area[c]
      /\ Complete' = Complete /\ Unfinished' = {}
      /\ \A c \in Complete : c \in Built => c \in Built'
  BY <1>1, <1>4, <1>5, GivenBack
<1>7. AreasInv'
  BY <1>1, <1>2, <1>5, <1>6, GivenBackAreas
<1>8. JobInv' /\ RoomInv'
  BY <1>1, <1>5 DEF IInv, JobInv, RoomInv, Recording
<1> QED
  BY <1>6, <1>7, <1>8 DEF IInv

LEMMA InitMemoryAreaFailsKeeps ==
  ASSUME IInv, InitMemoryAreaFails
  PROVE  IInv'
<1>1. /\ pc = "failed" /\ cmem_area' = 0 /\ UNCHANGED <<held, fault>>
      /\ \/ AreaGivenBack(cmem_area) /\ pc' = "idle"
         \/ pc' = "wild" /\ UNCHANGED <<memVars, kdesc, area, job>>
  BY DEF InitMemoryAreaFails, Idle, SwitchedBack
<1>2. cmem_area \in Unfinished
  BY <1>1 DEF IInv, JobInv
<1>3. /\ KernelJobPages' = {} /\ KernelJobPages = {} /\ ~InJob'
      /\ \A c : TaskJobPages(c)' = {} /\ TaskJobPages(c) = {}
  BY <1>1 DEF KernelJobPages, TaskJobPages, InJob
<1>4. CASE AreaGivenBack(cmem_area) /\ pc' = "idle"
  <2>1. PICK a \in Unfinished : a = cmem_area
    BY <1>2
  <2>2. /\ MemInv' /\ DirectoryInv' /\ BitmapsTell' /\ BlocksInv' /\ SlotsInv'
        /\ DOMAIN area' = Complete /\ \A c \in Complete : area'[c] = area[c]
        /\ Complete' = Complete /\ Unfinished' = {}
        /\ \A c \in Complete : c \in Built => c \in Built'
    BY <1>1, <1>3, <1>4, <2>1, GivenBack
  <2>3. AreasInv'
    BY <1>1, <1>2, <1>3, <2>2, GivenBackAreas
  <2>4. JobInv' /\ RoomInv'
    BY <1>1, <1>3, <1>4 DEF IInv, JobInv, RoomInv, Recording
  <2> QED
    BY <2>2, <2>3, <2>4 DEF IInv
<1>5. CASE pc' = "wild" /\ UNCHANGED <<memVars, kdesc, area, job>>
  <2>1. MemInv' /\ DirectoryInv' /\ BitmapsTell'
    <3>1. word' = word /\ used' = used /\ heap' = heap /\ area' = area
      BY <1>5 DEF memVars
    <3> QED
      BY <3>1, QuietMem DEF IInv
  <2>2. BlocksInv' /\ SlotsInv'
    <3>1. JobHeads' = {} /\ JobHeads = {}
      BY <1>3 DEF JobHeads
    <3> QED
      BY <1>1, <1>3, <1>5, <3>1, QuietBlocks DEF IInv, memVars
  <2>3. AreasInv'
    <3>1. Unfinished' = Unfinished /\ Complete' = Complete /\ Built' = Built
      BY <1>5 DEF Unfinished, Complete, Built
    <3>2. \A c \in Complete : TaskOf(c)'
      BY <1>3, <1>5, <3>1 DEF TaskOf, IInv, AreasInv
    <3>3. Building'
      BY <1>5 DEF Building
    <3> QED
      BY <1>1, <1>5, <3>1, <3>2, <3>3 DEF IInv, AreasInv
  <2>4. JobInv' /\ RoomInv'
    BY <1>1, <1>3, <1>5 DEF IInv, JobInv, RoomInv, Recording
  <2> QED
    BY <2>1, <2>2, <2>3, <2>4 DEF IInv
<1> QED
  BY <1>1, <1>4, <1>5

(* free_memory_area: the directory shows no table of the task's own, so    *)
(* only pages of the task and the area, and one of the directory, go.      *)
LEMMA FreeMemoryAreaKeeps ==
  ASSUME IInv, NEW a \in DOMAIN area, FreeMemoryArea(a)
  PROVE  IInv'
<1> DEFINE task == PagesOf(area[a].blocks) \cup {area[a].first}
           kernel == {area[a].dir} \cup Freed(a)
           U == task \cup kernel
<1>0. PagesFreed(KernelDir, a, heap \ {area[a].dir}) = Freed(a)
  <2>1. pc = "idle"
    BY DEF FreeMemoryArea
  <2>2. a \in Built
    BY <2>1, AtRest DEF IInv, AreasInv, TaskOf
  <2>3. PICK p : p = Part("directory", a, DirBlock(a))
    OBVIOUS
  <2>4. p \in Parts /\ p # Part("area", a, AreaBlock(a)) /\ p.block \in Blocks
    BY <2>2, <2>3 DEF Parts, Part, IInv, BlocksInv
  <2>5. area[a].dir \in PartPages(p)
    BY <2>3, <2>4, BlockHasPages DEF PartPages, Part, DirBlock
  <2>6. Freed(a) \subseteq heap \ {area[a].dir}
    BY <2>4, <2>5, AreaPart
  <2> QED
    BY <2>6, AreaPart
<1>1. /\ pc = "idle" /\ cmem_area = 0
      /\ used' = (used \ TablesOf(area[a].pagedir))
                   \ {get_physical(KernelDir, v) : v \in U}
      /\ word' = Emptied(KernelDir, U)
      /\ heap' = heap \ kernel /\ kdesc' = FreeAllocation(a)
      /\ area' = WithoutArea(a)
      /\ UNCHANGED <<held, cmem_area, pc, job, fault>>
  BY <1>0 DEF FreeMemoryArea, DirPagesFreed
<1>2. /\ KernelJobPages' = {} /\ KernelJobPages = {} /\ Unfinished = {}
      /\ \A c : TaskJobPages(c)' = {} /\ TaskJobPages(c) = {}
      /\ DOMAIN area = Complete /\ ~InJob'
      /\ JobHeads' = {} /\ JobHeads = {} /\ RoomInv'
  <2>1. ~InJob'
    BY <1>1 DEF InJob
  <2>2. KernelJobPages' = {} /\ KernelJobPages = {}
    BY <1>1, <2>1, AtRest DEF IInv, KernelJobPages
  <2>3. RoomInv'
    BY <1>1, <2>1 DEF RoomInv, Recording
  <2> QED
    BY <1>1, <2>1, <2>2, <2>3, AtRest DEF IInv, JobHeads, TaskJobPages
<1>3. DOMAIN area = {a} /\ TaskOf(a) /\ a \in Built /\ area[a] \in Areas
  BY <1>2 DEF IInv, AreasInv, TaskOf
<1>4. DOMAIN area' = {} /\ Built' = {} /\ Complete' = {} /\ Unfinished' = {}
  <2>1. DOMAIN area' = {}
    BY <1>1, <1>3 DEF WithoutArea
  <2> QED
    BY <2>1 DEF Built, Complete, Unfinished
<1>5. task = area[a].bitmap /\ task \subseteq TaskPages
  <2>1. task = area[a].bitmap
    BY <1>2, <1>3 DEF TaskOf
  <2> QED
    BY <1>3, <2>1 DEF Areas
<1>6. /\ kernel \subseteq heap \ {HeapStart} /\ kernel \subseteq HeapPages
      /\ \A v \in kernel : Page(v) # 0
  <2>1. /\ Freed(a) \subseteq heap \ {HeapStart}
        /\ area[a].dir \in heap \ {HeapStart}
    BY <1>3, AreaPart, DirectoryPart
  <2> QED
    BY <2>1 DEF IInv, BitmapsTell
<1>7. U \in SUBSET Managed /\ HeapStart \notin U /\ heap' = heap \ U
      /\ \A v \in U : Page(v) # 0
  <2>1. \A v \in task : Page(v) # 0
    BY <1>5 DEF IInv, BitmapsTell
  <2>2. heap \subseteq HeapPages
    BY DEF IInv, BitmapsTell
  <2> HIDE DEF task, kernel
  <2> QED
    BY <1>1, <1>5, <1>6, <2>1, <2>2, Spaces DEF Managed
<1>8. TablesOf(area[a].pagedir) = {}
  <2>1. \A e \in LowPages .. KernelEntry - 1 : word[area[a].pagedir][e] = 0
    <3>1. \A e \in 1 .. KernelEntry - 1 : word[area[a].pagedir][e] = 0
      BY <1>3 DEF IInv, DirectoryInv, DirectoryAt
    <3> QED
      BY <3>1, Sizes
  <2> QED
    BY <2>1 DEF TablesOf
<1>9. PagesRemoved(U)
  <2>1. word[KernelDir][Last] = KernelDir /\ MemInv
    BY DEF IInv, MemInv, TablesApart, Table
  <2>2. Unmapped(KernelDir, U)
    BY <1>1, <1>8 DEF Unmapped
  <2> HIDE DEF U
  <2> QED
    BY <1>7, <2>1, <2>2, PagesGone
<1>10. MemInv' /\ DirectoryInv' /\ BitmapsTell'
  <2>1. \A v \in TaskPages :
           (\E c \in DOMAIN area' : v \in area'[c].bitmap)
             <=> v \notin U /\ \E c \in DOMAIN area : v \in area[c].bitmap
    <3> HIDE DEF task, kernel
    <3> QED
      BY <1>3, <1>4, <1>5
  <2> HIDE DEF U
  <2> QED
    BY <1>4, <1>7, <1>9, <2>1, GoneFromBitmaps
<1>11. BlocksInv' /\ SlotsInv'
  <2>1. Parts' = {Part("held", 0, b) : b \in held}
    BY <1>1, <1>4 DEF Parts
  <2>2. PICK p \in Parts : p = Part("area", a, AreaBlock(a)) /\ p.block.address = a
    <3>1. Part("area", a, AreaBlock(a)) \in Parts
      BY <1>3 DEF Parts
    <3>2. Part("area", a, AreaBlock(a)).block.address = a
      BY DEF Part, AreaBlock
    <3> QED
      BY <3>1, <3>2
  <2>3. ASSUME NEW q \in Parts'
        PROVE  q \in Parts /\ q # p /\ area[a].dir \notin PartPages(q)
    <3>1. q \in Parts /\ q # p /\ q # Part("directory", a, DirBlock(a))
      BY <2>1, <2>2, <2>3 DEF Parts, Part
    <3> QED
      BY <1>3, <3>1, DirectoryPart
  <2>4. {area[a].dir} \subseteq PartHeads \ {HeapStart}
    BY <1>3, DirectoryPart
  <2>5. heap' = heap \ (Freed(a) \cup {area[a].dir})
    BY <1>1
  <2>6. Parts' \subseteq Parts \ {p}
        /\ \A q \in Parts' : PartPages(q) \cap {area[a].dir} = {}
    BY <2>3
  <2> QED
    BY <1>1, <1>2, <2>2, <2>4, <2>5, <2>6, Released
<1>12. AreasInv'
  BY <1>1, <1>4 DEF AreasInv
<1>13. JobInv'
  BY <1>1, <1>2 DEF IInv, JobInv
<1> QED
  BY <1>2, <1>10, <1>11, <1>12, <1>13 DEF IInv

-----------------------------------------------------------------------------
(* The directory is filled: neither tables nor pages are where it lies.    *)
LEMMA DirectoryIs ==
  ASSUME MemInv, CR3 = KernelDir, NEW f \in Frames
  PROVE  /\ Directory(f) \in [Entries -> Frames]
         /\ \A e \in Entries :
              Directory(f)[e] = IF e = 0 \/ e >= KernelEntry THEN Table(e) ELSE 0
<1>1. PD_VIRT(CR3) = KernelDir
  <2>1. word[KernelDir][Last] = KernelDir
    BY DEF MemInv, TablesApart, Table
  <2> QED
    BY <2>1, Sees
<1>2. Directory(f) = [e \in Entries |->
                        IF e = 0 \/ e >= KernelEntry THEN Table(e) ELSE 0]
  BY <1>1 DEF Directory, Table
<1>3. \A e \in Entries : Table(e) \in Frames
  BY TableIs
<1> QED
  BY <1>2, <1>3, FramesAre

LEMMA Fills ==
  ASSUME MemInv, CR3 = KernelDir, NEW v0 \in Managed, Page(v0) # 0, NEW f, f = Page(v0),
         word' = [word EXCEPT ![f] = Directory(f)], used' = used
  PROVE  /\ MemInv' /\ TablesKept
         /\ \A v \in Managed : Page(v)' = Page(v)
         /\ \A g \in Frames : g # f => word'[g] = word[g]
         /\ DirectoryAt(f)'
<1>1. Aside(f) /\ f \in Frames
  BY PageAside
<1>2. PICK dir \in [Entries -> Frames] :
        /\ dir = Directory(f)
        /\ \A e \in Entries : dir[e] = IF e = 0 \/ e >= KernelEntry THEN Table(e) ELSE 0
  BY <1>1, DirectoryIs
<1>3. /\ word' \in [Frames -> [Entries -> Frames]] /\ word'[f] = dir
      /\ \A g \in Frames : g # f => word'[g] = word[g]
  <2>1. word \in [Frames -> [Entries -> Frames]]
    BY DEF MemInv, WordTyped
  <2>2. word' = [word EXCEPT ![f] = dir]
    BY <1>2
  <2> QED
    BY <1>1, <2>1, <2>2
<1>4. \A e : Table(e)' = Table(e)
  BY <1>1, <1>3, FramesAre DEF Aside, Table
<1>5. word'[KernelDir][Last] = KernelDir
  BY <1>4 DEF MemInv, TablesApart, Table
<1>6. ASSUME NEW v \in Managed PROVE Page(v)' = Page(v)
  <2>1. PICK e \in Entries, s \in Entries : e = Entry(v) /\ s = Slot(v)
    BY ManagedEntry
  <2>2. Page(v)' = IF Table(e) = 0 THEN 0 ELSE word'[Table(e)][s]
    BY <1>4, <1>5, <2>1, PageNext
  <2>3. Page(v) = IF Table(e) = 0 THEN 0 ELSE word[Table(e)][s]
    BY <2>1, PageIs
  <2>4. Table(e) # f /\ Table(e) \in Frames
    BY <1>1, TableIs DEF Aside
  <2> QED
    BY <1>3, <2>2, <2>3, <2>4
<1>7. MemInv'
  <2>1. WordTyped'
    BY <1>3 DEF MemInv, WordTyped
  <2> QED
    BY <1>4, <1>6, <2>1 DEF MemInv, TablesApart, PagesApart
<1>8. TablesKept
  BY <1>4 DEF TablesKept
<1>9. DirectoryAt(f)'
  <2>1. word'[f][Last] = KernelDir
    <3>1. Last >= KernelEntry
      BY Sizes DEF Last
    <3> QED
      BY <1>2, <1>3, <3>1, LowEntry DEF MemInv, TablesApart
  <2>2. \A e \in Entries : word'[f][e] \in {0, Table(e)'}
    BY <1>2, <1>3, <1>4
  <2>3. \A e \in 1 .. KernelEntry - 1 : word'[f][e] = 0
    <3>1. \A e \in 1 .. KernelEntry - 1 :
            e \in Entries /\ ~(e = 0 \/ e >= KernelEntry)
      BY Sizes DEF Entries
    <3> QED
      BY <1>2, <1>3, <3>1
  <2> QED
    BY <2>1, <2>2, <2>3 DEF DirectoryAt
<1> QED
  BY <1>3, <1>6, <1>7, <1>8, <1>9

LEMMA MadeIs ==
  ASSUME IInv, Unfinished # {}
  PROVE  Unfinished = {Made} /\ Made \in DOMAIN area /\ Made \notin Complete
<1>1. \E a \in DOMAIN area : area[a].first = 0
  BY DEF Unfinished, Complete
<1>2. Made \in DOMAIN area /\ area[Made].first = 0
  BY <1>1 DEF Made
<1>3. Made \in Unfinished
  BY <1>2 DEF Unfinished, Complete
<1> QED
  BY <1>2, <1>3 DEF IInv, AreasInv, Complete

LEMMA InitPagingDataKeeps ==
  ASSUME IInv, InitPagingData
  PROVE  IInv'
<1>1. /\ pc = "paging" /\ pc' = "desc" /\ cmem_area' = Made
      /\ word' = [word EXCEPT ![get_physical(CR3, job.first)] =
                     Directory(get_physical(CR3, job.first))]
      /\ area' = [area EXCEPT ![Made].dir = job.first,
                              ![Made].pagedir = get_physical(CR3, job.first)]
      /\ UNCHANGED <<used, heap, kdesc, held, fault>>
  BY DEF InitPagingData
<1>2. /\ cmem_area = 0 /\ Unfinished # {} /\ \A a \in Unfinished : area[a] = NoArea
      /\ job.first \in HeapPages
      /\ [address |-> job.first, size |-> DirPages] \in Records
  BY <1>1 DEF IInv, JobInv
<1>3. CR3 = KernelDir /\ \A v : get_physical(CR3, v) = Page(v)
  BY <1>2, Current DEF IInv, AreasInv, CR3
<1>4. PICK m \in DOMAIN area, v0 \in HeapPages, f \in {Page(job.first)} :
        m = Made /\ v0 = job.first /\ f = Page(v0)
  BY <1>2, MadeIs
<1>5. Unfinished = {m} /\ m \notin Complete /\ area[m] = NoArea
  BY <1>2, <1>4, MadeIs
<1>6. KernelJobPages = PageRange(v0, DirPages) /\ ~InJob
  BY <1>1, <1>4 DEF KernelJobPages, InJob
<1>7. v0 \in KernelJobPages
  BY <1>6, Sizes, Spaces DEF PageRange
<1>8. f # 0
  BY <1>4, <1>7 DEF IInv, BlocksInv, BitmapsTell
<1>9. word' = [word EXCEPT ![f] = Directory(f)]
  BY <1>1, <1>3, <1>4
<1>10. /\ MemInv' /\ TablesKept
       /\ \A v \in Managed : Page(v)' = Page(v)
       /\ \A g \in Frames : g # f => word'[g] = word[g]
       /\ DirectoryAt(f)'
  <2>1. v0 \in Managed /\ MemInv
    BY DEF Managed, IInv
  <2> QED
    BY <1>1, <1>3, <1>4, <1>8, <1>9, <2>1, Fills
<1>11. PICK x : x = [NoArea EXCEPT !.dir = v0, !.pagedir = f]
  OBVIOUS
<1>12. x = [dir |-> v0, pagedir |-> f, bitmap |-> {}, first |-> 0, blocks |-> {}]
  BY <1>11 DEF NoArea
<1>13. area' = [area EXCEPT ![m] = x]
  <2>1. area' = [area EXCEPT ![m].dir = v0, ![m].pagedir = f]
    BY <1>1, <1>3, <1>4
  <2> QED
    BY <1>5, <1>11, <2>1
<1>14. /\ DOMAIN area' = DOMAIN area /\ area'[m] = x
       /\ \A c \in DOMAIN area : c # m => area'[c] = area[c]
  BY <1>13
<1>15. /\ Complete' = Complete /\ Unfinished' = {m} /\ Built' = Built \cup {m}
       /\ m \notin Built
  <2>1. x.first = 0 /\ x.pagedir = f
    BY <1>12
  <2>2. area[m].first = 0 /\ area[m].pagedir = 0
    BY <1>5 DEF NoArea
  <2>3. Complete' = Complete
    BY <1>14, <2>1, <2>2 DEF Complete
  <2>4. Built' = Built \cup {m} /\ m \notin Built
    BY <1>8, <1>14, <2>1, <2>2 DEF Built
  <2> QED
    BY <1>5, <1>14, <2>3, <2>4 DEF Unfinished
<1>16. DirectoryInv'
  <2> SUFFICES ASSUME NEW a \in Built'
               PROVE  /\ area'[a].dir \in HeapPages
                      /\ area'[a].pagedir = Page(area[a].dir)'
                      /\ DirectoryAt(area[a].pagedir)'
    BY DEF DirectoryInv
  <2>1. CASE a = m
    <3>1. area'[a].dir = v0 /\ area'[a].pagedir = f
      BY <1>12, <1>14, <2>1
    <3>2. Page(area[a].dir)' = Page(v0)' /\ (DirectoryAt(area[a].pagedir)' <=> DirectoryAt(f)')
      BY <3>1
    <3>3. Page(v0)' = f
      BY <1>4, <1>10 DEF Managed
    <3> QED
      BY <1>10, <3>1, <3>2, <3>3
  <2>2. CASE a # m
    <3>1. a \in Built /\ area'[a] = area[a] /\ a \in DOMAIN area
      BY <1>14, <1>15, <2>2 DEF Built
    <3>2. PICK v \in HeapPages, d \in {area[a].pagedir} :
            v = area[a].dir /\ d = area[a].pagedir
      BY <3>1 DEF IInv, DirectoryInv
    <3>3. d = Page(v) /\ DirectoryAt(d) /\ d # 0
      BY <3>1, <3>2 DEF IInv, DirectoryInv, Built
    <3>4. v # v0
      <4>1. PICK p : p = Part("directory", a, DirBlock(a))
        OBVIOUS
      <4>2. p \in Parts
        BY <3>1, <4>1 DEF Parts
      <4>3. PartPages(p) \cap KernelJobPages = {} /\ p.block \in Blocks
        BY <4>2 DEF IInv, BlocksInv
      <4>4. v \in PartPages(p)
        BY <3>2, <4>1, <4>3, BlockHasPages DEF PartPages, Part, DirBlock
      <4> QED
        BY <1>7, <4>3, <4>4
    <3>5. v \in Managed /\ v0 \in Managed /\ MemInv
      BY DEF Managed, IInv
    <3>6. d # f /\ d \in Frames
      BY <1>4, <3>3, <3>4, <3>5, PageIs DEF MemInv, PagesApart
    <3>7. DirectoryAt(d)'
      BY <1>10, <3>3, <3>6, DirectoryKept
    <3>8. area'[a].dir = v /\ area'[a].pagedir = d
      BY <3>1, <3>2
    <3>9. Page(area[a].dir)' = Page(v)' /\ (DirectoryAt(area[a].pagedir)' <=> DirectoryAt(d)')
      BY <3>8
    <3>10. Page(v)' = d
      BY <1>10, <3>3, <3>5
    <3> QED
      BY <3>7, <3>8, <3>9, <3>10
  <2> QED
    BY <2>1, <2>2
<1>17. BitmapsTell'
  <2>1. heap' = heap /\ \A v \in HeapPages \cup TaskPages : Page(v)' = Page(v)
    BY <1>1, <1>10 DEF Managed
  <2>2. \A a \in DOMAIN area : area'[a].bitmap = area[a].bitmap
    <3>1. area[m].bitmap = {} /\ x.bitmap = {}
      BY <1>5, <1>12 DEF NoArea
    <3> QED
      BY <1>14, <3>1
  <2> QED
    BY <1>14, <2>1, <2>2 DEF IInv, BitmapsTell
<1>18. ~InJob' /\ KernelJobPages' = {} /\ \A c : TaskJobPages(c)' = {} /\ TaskJobPages(c) = {}
  BY <1>1, <1>6 DEF InJob, KernelJobPages, TaskJobPages
<1>19. BlocksInv' /\ SlotsInv'
  <2>1. PICK b : b = [address |-> v0, size |-> DirPages]
    OBVIOUS
  <2>2. PICK q : q = Part("directory", m, b)
    OBVIOUS
  <2>3. /\ q.block = b /\ b \in Records /\ PartPages(q) = KernelJobPages
        /\ q.block.address = v0
    BY <1>2, <1>4, <1>6, <2>1, <2>2 DEF Part, PartPages
  <2>4. /\ \A c \in Built : DirBlock(c)' = DirBlock(c)
        /\ DirBlock(m)' = b
    <3>1. \A c \in Built : area'[c] = area[c]
      BY <1>14, <1>15 DEF Built
    <3>2. area'[m].dir = v0
      BY <1>12, <1>14
    <3> QED
      BY <2>1, <3>1, <3>2 DEF DirBlock
  <2>5. Parts' = Parts \cup {q}
    <3>1. {Part("directory", c, DirBlock(c)') : c \in Built'} =
            {Part("directory", c, DirBlock(c)) : c \in Built} \cup {q}
      BY <1>15, <2>2, <2>4
    <3> QED
      BY <1>1, <1>14, <3>1 DEF Parts
  <2>6. BlocksInv /\ SlotsInv /\ Records' = Records /\ PagesOf(Records)' = PagesOf(Records)
    BY <1>1 DEF IInv, PagesOf, Records
  <2>7. b \in Blocks
    <3>1. b # NoBlock
      BY <2>1, Sizes DEF NoBlock
    <3> QED
      BY <2>3, <2>6, <3>1 DEF BlocksInv, Records
  <2>8. KernelJobPages \subseteq PagesOf(Records)
    BY <2>3 DEF PagesOf, PartPages
  <2>9. \A p \in Parts' : /\ p.block \in Records' \cap Blocks
                          /\ PartPages(p) \subseteq heap' \ {HeapStart}
    BY <1>1, <2>3, <2>5, <2>6, <2>7 DEF BlocksInv
  <2>10. \A p, r \in Parts' : p # r => PartPages(p) \cap PartPages(r) = {}
    BY <2>3, <2>5, <2>6 DEF BlocksInv
  <2>11. heap' \subseteq {HeapStart} \cup PagesOf(Records)'
    BY <1>1, <2>6, <2>8 DEF BlocksInv
  <2>12. BlocksInv'
    BY <1>1, <1>18, <2>6, <2>9, <2>10, <2>11 DEF BlocksInv
  <2>13. PartHeads' \cup JobHeads' \subseteq PartHeads \cup JobHeads
    <3>1. v0 \in JobHeads
      BY <1>4, <1>7 DEF JobHeads
    <3>2. PartHeads' \subseteq PartHeads \cup {v0}
      BY <2>3, <2>5 DEF PartHeads
    <3> QED
      BY <1>18, <3>1, <3>2 DEF JobHeads
  <2>14. \A i \in Slots : Tail(i)' = Tail(i)
    BY <1>1 DEF Tail
  <2>15. SlotsInv'
    BY <1>1, <2>6, <2>13, <2>14 DEF SlotsInv
  <2> QED
    BY <2>12, <2>15
<1>20. AreasInv'
  <2>1. \A c \in Complete : TaskOf(c) /\ c \in DOMAIN area /\ c # m
    BY <1>5 DEF IInv, AreasInv, Complete
  <2>2. \A c \in Complete : TaskOf(c)'
    BY <1>14, <1>15, <1>18, <2>1 DEF TaskOf
  <2>3. Building'
    BY <1>1 DEF Building
  <2>4. x \in Areas
    <3>1. f \in Frames
      BY <1>4, PageIs DEF Managed, IInv
    <3> QED
      BY <1>12, <3>1, Spaces DEF Areas
  <2>5. \A c \in DOMAIN area' : area'[c] \in Areas
    BY <1>14, <2>4 DEF IInv, AreasInv
  <2>6. x.bitmap = {} /\ x.blocks = {}
    BY <1>12
  <2>7. cmem_area' \in Built'
    BY <1>1, <1>4, <1>15
  <2> QED
    BY <1>14, <1>15, <2>2, <2>3, <2>5, <2>6, <2>7 DEF IInv, AreasInv
<1>21. JobInv' /\ RoomInv'
  BY <1>1, <1>4, <1>15, <1>18 DEF IInv, JobInv, RoomInv, Recording
<1> QED
  BY <1>10, <1>16, <1>17, <1>19, <1>20, <1>21 DEF IInv

-----------------------------------------------------------------------------
(* Every step keeps the inductive invariant.                               *)
LEMMA StepKeeps ==
  ASSUME IInv, [Next]_vars
  PROVE  IInv'
<1>1. CASE Allocate
  BY <1>1, KernelAllocKeeps DEF Allocate
<1>2. CASE AllocateInTask
  BY <1>2, TaskAllocKeeps DEF AllocateInTask
<1>3. CASE Free
  BY <1>3, KernelFreeKeeps DEF Free
<1>4. CASE FreeInTask
  <2>1. cmem_area # 0 /\ \E b \in area[cmem_area].blocks : TaskFree(b)
    BY <1>4 DEF FreeInTask
  <2> QED
    BY <2>1, TaskFreeKeeps
<1>5. CASE SwitchArea
  BY <1>5, SwitchKeeps DEF SwitchArea
<1>6. CASE InitMemoryArea
  BY <1>6, InitMemoryAreaKeeps
<1>7. CASE FreeArea
  BY <1>7, FreeMemoryAreaKeeps DEF FreeArea
<1>8. CASE Use
  BY <1>8, FaultsKeeps DEF Use
<1>9. CASE Mapping
  BY <1>9, MapPageKeeps, MapRefusedKeeps, MapLostKeeps DEF Mapping
<1>10. CASE Making
  BY <1>10, AllocDirectoryKeeps, DirectoryRefusedKeeps, InitPagingDataKeeps,
     InitDescKeeps, InitMemoryAreaFailsKeeps DEF Making
<1>11. CASE Handling
  BY <1>11, CopiesEntryKeeps, FaultPanicsKeeps DEF Handling
<1>12. CASE UNCHANGED vars
  <2>1. UNCHANGED <<memVars, ownVars, pc, job, fault>>
    BY <1>12 DEF vars
  <2>2. UNCHANGED <<word, used, heap, kdesc, held, area, cmem_area, pc, job, fault>>
    BY <2>1 DEF memVars, ownVars
  <2>3. /\ InJob' = InJob /\ JobDone' = JobDone /\ JobLeft' = JobLeft
        /\ (Building' <=> Building)
    BY <2>2 DEF InJob, JobDone, JobLeft, Building
  <2>4. KernelJobPages' = KernelJobPages
        /\ \A a \in DOMAIN area : TaskJobPages(a)' = TaskJobPages(a)
    BY <2>2, <2>3 DEF KernelJobPages, TaskJobPages
  <2>5. JobInv'
    <3>1. Unfinished' = Unfinished /\ Complete' = Complete
      BY <2>2 DEF Unfinished, Complete
    <3>2. Bitmap(job.owner)' = Bitmap(job.owner) /\ Space(job.owner)' = Space(job.owner)
      BY <2>2 DEF Bitmap, Space
    <3>3. Records' = Records
      BY <2>2 DEF Records
    <3> QED
      BY <2>2, <2>3, <3>1, <3>2, <3>3 DEF IInv, JobInv
  <2>6. Unfinished # {} => Building'
    BY <2>3 DEF IInv, AreasInv
  <2>7. JobHeads' = JobHeads /\ (Recording' <=> Recording) /\ job' = job
    BY <2>2, <2>3, <2>4 DEF JobHeads, Recording
  <2> QED
    BY <2>1, <2>3, <2>4, <2>5, <2>6, <2>7, StateKeeps
<1> QED
  BY <1>1, <1>2, <1>3, <1>4, <1>5, <1>6, <1>7, <1>8, <1>9, <1>10, <1>11, <1>12
  DEF Next, Continue

LEMMA Inductive == Spec => []IInv
<1>1. IInv /\ [Next]_vars => IInv'
  BY StepKeeps
<1> QED
  BY InitAll, <1>1, PTL DEF Spec

-----------------------------------------------------------------------------
(* The variables of the memory areas, the directories and the fault        *)
(* handler keep their types, through every call and every failure of one.  *)
THEOREM AreasTyped == Spec => []TypeOK
<1>1. IInv => TypeOK
  <2> SUFFICES ASSUME IInv PROVE TypeOK
    OBVIOUS
  <2>1. used \subseteq Frames /\ word \in [Frames -> [Entries -> Frames]]
    BY DEF IInv, MemInv, WordTyped
  <2>2. heap \subseteq HeapPages /\ kdesc \in [Slots -> Blocks \cup {NoBlock}]
    BY DEF IInv, BitmapsTell, BlocksInv
  <2>3. held \subseteq Blocks
    <3> SUFFICES ASSUME NEW b \in held PROVE b \in Blocks
      OBVIOUS
    <3>1. Part("held", 0, b) \in Parts
      BY DEF Parts
    <3> QED
      BY <3>1 DEF IInv, BlocksInv, Part
  <2>4. /\ DOMAIN area \subseteq HeapPages /\ \A a \in DOMAIN area : area[a] \in Areas
        /\ cmem_area \in {0} \cup DOMAIN area
    BY DEF IInv, AreasInv, Built
  <2>5. /\ pc \in {"idle", "map", "directory", "paging", "desc", "failed", "fault",
                   "panic", "lost", "wild"}
        /\ fault \in [page : VirtPages, odd : BOOLEAN]
    BY DEF IInv, JobInv
  <2> QED
    BY <2>1, <2>2, <2>3, <2>4, <2>5 DEF TypeOK
<1> QED
  BY Inductive, <1>1, PTL

(* No directory of a task has a table of its own: what the kernel finds at *)
(* PD_VIRT is its own directory in every area, and an entry of a task's    *)
(* directory is that of the kernel's or missing.  So free_memory_area has  *)
(* no table to free, and page_fault never repairs a task's directory.      *)
THEOREM DirectoriesAreCopies == Spec => []TasksOwnNoTables
<1>1. IInv => TasksOwnNoTables
  <2> SUFFICES ASSUME IInv, NEW a \in Built, NEW d, d = area[a].pagedir
               PROVE  /\ PD_VIRT(d) = KernelDir
                      /\ \A e \in Entries : word[d][e] \in {0, word[KernelDir][e]}
                      /\ \A e \in 1 .. KernelEntry - 1 : word[d][e] = 0
    BY DEF TasksOwnNoTables
  <2>1. DirectoryAt(d)
    BY DEF IInv, DirectoryInv
  <2>2. word[KernelDir][Last] = KernelDir /\ word[d][Last] = KernelDir
    BY <2>1 DEF IInv, MemInv, TablesApart, Table, DirectoryAt
  <2>3. PD_VIRT(d) = KernelDir
    BY <2>2, Sees
  <2> QED
    BY <2>1, <2>3 DEF DirectoryAt, Table
<1> QED
  BY Inductive, <1>1, PTL

(* There is never more than one finished memory area, since the first page *)
(* of a task is taken in all areas once it is taken in one: init_desc      *)
(* fails for the second.                                                   *)
THEOREM NoSecondTask == Spec => []OneTask
<1>1. IInv => OneTask
  <2> SUFFICES ASSUME IInv PROVE OneTask
    OBVIOUS
  <2>1. Cardinality(Complete) <= 1
    <3>1. CASE Complete = {}
      <4>1. Cardinality({}) = 0
        BY FS_EmptySet
      <4> QED
        BY <3>1, <4>1
    <3>2. CASE Complete # {}
      <4>1. PICK a \in Complete : TRUE
        BY <3>2
      <4>2. Complete = {a}
        BY <4>1 DEF IInv, AreasInv
      <4>3. Cardinality({a}) = 1
        BY FS_Singleton
      <4> QED
        BY <4>2, <4>3
    <3> QED
      BY <3>1, <3>2
  <2>2. \A a \in Complete : get_physical(KernelDir, LowPages) # 0
    <3> TAKE a \in Complete
    <3>1. a \in DOMAIN area /\ LowPages \in area[a].bitmap
      BY DEF IInv, AreasInv, TaskOf, Complete
    <3>2. Page(LowPages) # 0
      BY <3>1, Spaces DEF IInv, BitmapsTell
    <3> QED
      BY <3>2 DEF Page
  <2> QED
    BY <2>1, <2>2 DEF OneTask
<1> QED
  BY Inductive, <1>1, PTL

(* Whatever is given back takes no page of anybody else, though blocks of  *)
(* the kernel are freed by address and through descriptors that may be of  *)
(* another block: no page of memory is ever under two pages of the heap or *)
(* of the tasks, and between calls the blocks of kernel code, the areas    *)
(* and the directories lie apart with all their pages taken and mapped,    *)
(* and every page of the heap but the first stands in a descriptor.        *)
THEOREM NeighboursKept == Spec => []ReleasesTakeOwnPages
<1>1. IInv => ReleasesTakeOwnPages
  <2> SUFFICES ASSUME IInv PROVE ReleasesTakeOwnPages
    OBVIOUS
  <2>1. \A v : get_physical(KernelDir, v) = Page(v)
    BY DEF Page
  <2>2. MappedPages = {v \in Managed : Page(v) # 0}
    BY <2>1 DEF MappedPages, Managed
  <2>3. \A v, u \in MappedPages : Page(v) = Page(u) => v = u
    BY <2>2 DEF IInv, MemInv, PagesApart
  <2>4. \A b \in KnownBlocks :
           \E p \in Parts : p.block = b /\ PartPages(p) = PageRange(b.address, b.size)
    <3> TAKE b \in KnownBlocks
    <3>1. PICK role, of : Part(role, of, b) \in Parts
      <4>1. CASE b \in held
        BY <4>1 DEF Parts
      <4>2. CASE \E a \in DOMAIN area : b = AreaBlock(a)
        BY <4>2 DEF Parts
      <4>3. CASE \E a \in Built : b = [address |-> area[a].dir, size |-> DirPages]
        BY <4>3 DEF Parts, DirBlock
      <4> QED
        BY <4>1, <4>2, <4>3 DEF KnownBlocks
    <3>2. Part(role, of, b).block = b
      BY DEF Part
    <3> QED
      BY <3>1, <3>2 DEF PartPages
  <2>5. \A b, c \in KnownBlocks :
           b # c => PageRange(b.address, b.size) \cap PageRange(c.address, c.size) = {}
    <3> SUFFICES ASSUME NEW b \in KnownBlocks, NEW c \in KnownBlocks, b # c
                 PROVE  PageRange(b.address, b.size) \cap PageRange(c.address, c.size) = {}
      OBVIOUS
    <3>1. PICK p \in Parts : p.block = b /\ PartPages(p) = PageRange(b.address, b.size)
      BY <2>4
    <3>2. PICK q \in Parts : q.block = c /\ PartPages(q) = PageRange(c.address, c.size)
      BY <2>4
    <3> QED
      BY <3>1, <3>2 DEF IInv, BlocksInv
  <2>6. PagesOf(KnownBlocks) \subseteq heap \ {HeapStart}
    <3> SUFFICES ASSUME NEW b \in KnownBlocks
                 PROVE  PageRange(b.address, b.size) \subseteq heap \ {HeapStart}
      BY DEF PagesOf
    <3>1. PICK p \in Parts : PartPages(p) = PageRange(b.address, b.size)
      BY <2>4
    <3> QED
      BY <3>1 DEF IInv, BlocksInv
  <2>7. ASSUME pc = "idle" PROVE heap \subseteq {HeapStart} \cup RecordedPages
    <3>1. KernelJobPages = {}
      BY <2>7, AtRest DEF IInv
    <3> QED
      BY <3>1 DEF IInv, BlocksInv, RecordedPages, Records
  <2>8. heap = MappedPages \cap HeapPages
    BY <2>2 DEF IInv, BitmapsTell, Managed
  <2> QED
    BY <2>1, <2>3, <2>5, <2>6, <2>7, <2>8 DEF ReleasesTakeOwnPages
<1> QED
  BY Inductive, <1>1, PTL

-----------------------------------------------------------------------------
(* Nothing but page_fault runs between a fault and the panic, and it       *)
(* copies an entry once at most: what it returns to is a page below the    *)
(* kernel, whose fault it cannot repair.  No fault ever goes back to the   *)
(* instruction that made it.                                               *)
THEOREM FaultsNeverReturn ==
  Spec => [][(pc = "fault") =>
               \/ pc' = "panic"
               \/ Repairable /\ pc' = "fault" /\ ~Repairable']_vars
<1>1. KernelStart \in Nat \ {0}
  BY MemAreaAssumption DEF KernelStart
<1>2. ASSUME Next, pc = "fault"
      PROVE  CopiesEntry \/ FaultPanics
  BY <1>2 DEF Next, Continue, Mapping, Making, Handling, Allocate, Free,
     AllocateInTask, FreeInTask, SwitchArea, FreeArea, Use, KernelAlloc,
     TaskAlloc, KernelFree, TaskFree, Switch, InitMemoryArea, FreeMemoryArea,
     Faults, MapPage, MapRefused, MapLost, AllocDirectory, DirectoryRefused,
     InitPagingData, InitDesc, InitMemoryAreaFails
<1>3. ASSUME CopiesEntry
      PROVE  Repairable /\ pc' = "fault" /\ ~Repairable'
  <2>1. fault'.page = 0
    BY <1>3 DEF CopiesEntry, ReturnsTo
  <2> QED BY <1>1, <1>3, <2>1 DEF CopiesEntry, Repairable, KernelStart
<1>4. [Next]_vars => [(pc = "fault") =>
                        \/ pc' = "panic"
                        \/ Repairable /\ pc' = "fault" /\ ~Repairable']_vars
  BY <1>2, <1>3 DEF FaultPanics
<1> QED BY <1>4, PTL DEF Spec

=============================================================================
