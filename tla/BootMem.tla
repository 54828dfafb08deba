------------------------------ MODULE BootMem ------------------------------
(***************************************************************************)
(* The boot of the memory manager: how multiboot_check (src/multiboot.c)   *)
(* reads what the loader says, what init_fismem (src/mm/fismem.c)          *)
(* reserves of physical memory, what prepare_modules                       *)
(* reserves for the modules the loader left behind the kernel, and how     *)
(* copy_modules moves them into the heap.  It is what leaves module KMem   *)
(* its BootFrames and its Drifts.                                          *)
(*                                                                         *)
(* Sizes are in units, PageSize of them to a page.  The loader puts the    *)
(* modules on page boundaries, which the header of boot.S asks for, one    *)
(* after the other behind the kernel, and their descriptions in the first  *)
(* megabyte: nothing else is mapped when prepare_modules reads them.       *)
(***************************************************************************)
EXTENDS Fismem, FiniteSetsExt, SequencesExt

CONSTANTS
  PageSize,       \* units of a page
  SizeWrap,       \* 2^32 in units, where a sum of sizes wraps
  LowPages,       \* the pages of the first megabyte; the kernel follows
  TableEntries,   \* TABLE_ENTRIES, the pages one page table maps
  KernelVirtual,  \* g_start / PAGE_SIZE, below which no heap address lies
  KernelSizes,    \* possible values of g_end - g_start
  MemoryMaps,     \* possible mmap, sequences of [base, length, usable]
  ModuleLists,    \* possible modules, sequences of their sizes
  InfoPage,       \* the page of the descriptions, mods_addr
  Extras,         \* pages a kmalloc may take beside those of its block
  MAX_MMAP        \* the regions mmap has room for

ASSUME BootMemAssumption ==
  /\ PageSize \in Nat \ {0} /\ SizeWrap \in Nat \ {0}
  /\ TableEntries \in Nat \ {0} /\ TableEntries <= FisPages
  /\ LowPages \in Nat /\ InfoPage \in 1 .. LowPages - 1
  /\ KernelVirtual \in Nat /\ FisPages <= KernelVirtual
  /\ KernelSizes \subseteq Nat \ {0}
  /\ \A k \in KernelSizes : LowPages + k \div PageSize + 1 < TableEntries
  /\ MemoryMaps \subseteq Seq([base : Nat, length : Nat, usable : BOOLEAN])
  /\ ModuleLists \subseteq Seq(Nat \ {0})
  /\ Extras \subseteq Nat /\ MAX_MMAP \in Nat

VARIABLES
  flags,     \* the groups of multiboot_info the loader filled in
  kernel,    \* g_end - g_start
  mmap,      \* the memory map
  mods,      \* the sizes of the modules
  pc,        \* what boot is doing
  at,        \* the index of the loop it is in
  identity,  \* the pages of memory mapped on themselves
  entries,   \* the directory entries below KernelVirtual with a page table
  tables,    \* the pages of the page tables identity_mapping added
  desc,      \* the pages init_desc took
  homes,     \* the pages kmalloc took for each module copied, in order
  again      \* history: pages reserved that had been reserved before

given == <<flags, kernel, mmap, mods>>
handed == <<identity, entries, tables, desc, homes>>
bootVars == <<fismemVars, given, pc, at, handed, again>>

-----------------------------------------------------------------------------
(* The pages a size takes; the mutant forgets the last, partial one.       *)
WholePages(size) == size \div PageSize
PagesIn(size) == size \div PageSize + (IF size % PageSize = 0 THEN 0 ELSE 1)

Low == 0 .. LowPages - 1

(* The kernel: the pages init_paging maps it in, and those init_fismem     *)
(* reserves for it.  KernelSize, which it takes from the counter, is one   *)
(* less than what it reserves.                                             *)
KernelSize == kernel \div PageSize + 1
KernelMapped == LowPages .. LowPages + kernel \div PageSize + 1
KernelPages == LowPages .. LowPages + KernelSize

(* Where the loader puts a module: on the first page boundary after the    *)
(* kernel and the modules before it.                                       *)
Ceiling(size) == (size + PageSize - 1) \div PageSize
LoadedAt(image, sizes, i) ==
  LET end[j \in 0 .. Len(sizes)] ==
        IF j = 0 THEN LowPages + Ceiling(image)
        ELSE end[j - 1] + Ceiling(sizes[j])
  IN  end[i - 1]
ModuleAt(i) == LoadedAt(kernel, mods, i)
ModulePages(i) == PageRange(ModuleAt(i), Ceiling(mods[i]))

(* init_mm, the usable memory: a part above 32 bits becomes 0xFFFFFFFF, and *)
(* the sum wraps.  The system asks for four megabytes.                     *)
Clipped(x) == IF x < SizeWrap THEN x ELSE SizeWrap - 1
memmap_size ==
  FoldLeft(LAMBDA sum, m :
             IF m.usable THEN (sum + Clipped(m.length)) % SizeWrap ELSE sum,
           0, mmap)
mem_needed == TableEntries * PageSize

-----------------------------------------------------------------------------
(* multiboot_info behind its flags: the groups and their words, and where  *)
(* the two lie that matter to memory.  A group keeps its place when its    *)
(* flag is clear, but multiboot_check, which goes from one to the next,    *)
(* steps over the modules only: it reads the others where the last one     *)
(* it knows of ends.                                                       *)
Words == [meminfo |-> 2, bootdrive |-> 1, cmdline |-> 1, modules |-> 2,
          syms |-> 4, mmap |-> 2]
Groups == DOMAIN Words
Place == [modules |-> 4, mmap |-> 10]
Step(g) == IF g \in flags \cup {"modules"} THEN Words[g] ELSE 0
mbstack ==
  LET modules == Step("meminfo") + Step("bootdrive") + Step("cmdline")
  IN  [modules |-> modules, mmap |-> modules + Step("modules") + Step("syms")]
ReadRight(g) == g \in flags => mbstack[g] = Place[g]

Init ==
  /\ flags \in SUBSET Groups
  /\ kernel \in KernelSizes /\ mmap \in MemoryMaps /\ mods \in ModuleLists
  /\ "modules" \notin flags => mods = <<>>
  /\ "mmap" \notin flags => mmap = <<>>
  /\ ModuleAt(Len(mods) + 1) <= FisPages
  /\ fis_bitmap = {} /\ fis_freepages = 0
  /\ pc = "check" /\ at = 1
  /\ identity = Low \ {0} /\ entries = {0} /\ tables = {}
  /\ desc = {} /\ homes = <<>> /\ again = 0

(* multiboot_check: a group read in the wrong place, or a memory map       *)
(* longer than mmap, which is copied over what follows mmap, and the model *)
(* stops.                                                                  *)
MultibootCheck ==
  /\ pc = "check"
  /\ pc' = IF ReadRight("modules") /\ ReadRight("mmap") /\ Len(mmap) <= MAX_MMAP
           THEN "start" ELSE "wild"
  /\ UNCHANGED <<fismemVars, given, at, handed, again>>

TooSmall ==
  /\ pc = "start" /\ memmap_size < mem_needed
  /\ pc' = "panic"
  /\ UNCHANGED <<fismemVars, given, at, handed, again>>

(* The first half of init_fismem: the first megabyte and the kernel.       *)
ReserveKernel ==
  /\ pc = "start" /\ memmap_size >= mem_needed
  /\ fis_bitmap' = Low \cup KernelPages
  /\ fis_freepages' = Minus(FisPages, LowPages + KernelSize)
  /\ pc' = "mmap"
  /\ UNCHANGED <<given, at, handed, again>>

(* An accepted fis_manual_alloc; its mutant pays for the new pages only.   *)
ReserveNew(page, count) ==
  /\ fis_bitmap' = fis_bitmap \cup PageRange(page, count)
  /\ fis_freepages' =
       Minus(fis_freepages, Cardinality(PageRange(page, count) \ fis_bitmap))
  /\ again' = again + Cardinality(PageRange(page, count) \cap fis_bitmap)
Reserve(page, count) ==
  /\ fis_manual_alloc(page, count)
  /\ again' = again + Cardinality(PageRange(page, count) \cap fis_bitmap)

(* The second half: the regions of the map that are not usable, from the   *)
(* page each begins in, for as many pages as its size; a refusal is        *)
(* ignored.                                                                *)
ReserveRegion ==
  /\ pc = "mmap" /\ at <= Len(mmap)
  /\ LET page  == Clipped(mmap[at].base) \div PageSize
         count == PagesIn(Clipped(mmap[at].length))
     IN  IF ~mmap[at].usable /\ ManualAllocAccepts(page, count)
         THEN Reserve(page, count)
         ELSE UNCHANGED <<fismemVars, again>>
  /\ at' = at + 1
  /\ UNCHANGED <<given, pc, handed>>

(* prepare_modules: index 0 is the page of the descriptions.  With no      *)
(* module it does nothing, with a refusal boot panics.                     *)
RegionsReserved ==
  /\ pc = "mmap" /\ at > Len(mmap)
  /\ pc' = IF mods = <<>> THEN "desc" ELSE "prepare"
  /\ at' = 0
  /\ UNCHANGED <<fismemVars, given, handed, again>>

PreparedAt(i) == IF i = 0 THEN InfoPage ELSE ModuleAt(i)
PreparedCount(i) == IF i = 0 THEN 1 ELSE PagesIn(mods[i])

Prepare ==
  /\ pc = "prepare"
  /\ ManualAllocAccepts(PreparedAt(at), PreparedCount(at))
  /\ Reserve(PreparedAt(at), PreparedCount(at))
  /\ pc' = IF at = Len(mods) THEN "desc" ELSE "prepare"
  /\ at' = at + 1
  /\ UNCHANGED <<given, handed>>

PrepareRefused ==
  /\ pc = "prepare"
  /\ ~ManualAllocAccepts(PreparedAt(at), PreparedCount(at))
  /\ pc' = "panic"
  /\ UNCHANGED <<fismemVars, given, at, handed, again>>

-----------------------------------------------------------------------------
(* What n calls of fis_alloc(1) take: the n lowest clear bits.             *)
LowestClear(n) ==
  {p \in FreeFrames : Cardinality({q \in FreeFrames : q < p}) < n}
Taken(S) ==
  /\ fis_bitmap' = fis_bitmap \cup S
  /\ fis_freepages' = Minus(fis_freepages, Cardinality(S))

(* The checks of vir_alloc that read physical memory: module KMem has      *)
(* the call in full.                                                       *)
VirAllocAccepts(n) ==
  LET fisav == fis_find_pages(n)
  IN  fisav <= fis_freepages /\ fisav > 0 /\ n <= fisav

(* Phase 2 of init_mm and copy_modules allocate n pages, and extra ones    *)
(* for page tables and descriptors.                                        *)
Allocates(n, extra) ==
  /\ VirAllocAccepts(n) /\ n + extra <= FreeCount
  /\ Taken(LowestClear(n + extra))

InitDesc ==
  /\ pc = "desc"
  /\ \E extra \in Extras :
       Allocates(1, extra) /\ desc' = LowestClear(1 + extra)
  /\ pc' = "copy"
  /\ at' = 1
  /\ UNCHANGED <<given, identity, entries, tables, homes, again>>

(* identity_mapping of a module, a page table for every directory entry    *)
(* that has none.  That of the page of the descriptions finds it mapped,   *)
(* as all the first megabyte, and its answer is ignored.                   *)
EntriesNeeded(i) == {p \div TableEntries : p \in ModulePages(i)} \ entries

MapModule ==
  /\ pc = "copy" /\ at <= Len(mods)
  /\ ModulePages(at) \cap identity = {}
  /\ LET n == Cardinality(EntriesNeeded(at))
     IN  /\ n <= FreeCount
         /\ Taken(LowestClear(n))
         /\ tables' = tables \cup LowestClear(n)
  /\ entries' = entries \cup EntriesNeeded(at)
  /\ identity' = identity \cup ModulePages(at)
  /\ pc' = "allocate"
  /\ UNCHANGED <<given, at, desc, homes, again>>

(* kmalloc and memcpy.                                                     *)
CopyModule ==
  /\ pc = "allocate"
  /\ \E extra \in Extras :
       LET n == PagesIn(mods[at])
       IN  /\ Allocates(n, extra)
           /\ homes' = Append(homes, LowestClear(n + extra))
  /\ pc' = "release"
  /\ UNCHANGED <<given, at, identity, entries, tables, desc, again>>

(* Boot panics when an allocation answers 0, and is lost when memory runs   *)
(* out below its checks, as in KMem, or below identity_mapping.            *)
Allocating == pc \in {"desc", "allocate"}
Asked == IF pc = "desc" THEN 1 ELSE PagesIn(mods[at])

AllocationRefused ==
  /\ Allocating /\ ~VirAllocAccepts(Asked)
  /\ pc' = "panic"
  /\ UNCHANGED <<fismemVars, given, at, handed, again>>

MemoryLost ==
  /\ \/ /\ Allocating /\ VirAllocAccepts(Asked)
        /\ \E extra \in Extras : Asked + extra > FreeCount
     \/ /\ pc = "copy" /\ at <= Len(mods)
        /\ Cardinality(EntriesNeeded(at)) > FreeCount
  /\ pc' = "lost"
  /\ UNCHANGED <<fismemVars, given, at, handed, again>>

(* paging_free of the module, then fis_manual_free of mod_start, which by  *)
(* then holds the virtual address of the copy: the page is beyond memory   *)
(* and the call refused.                                                   *)
Unmapped(i) == identity \ PageRange(ModuleAt(i), PagesIn(mods[i]))

ReleaseModule ==
  /\ pc = "release"
  /\ identity' = Unmapped(at)
  /\ fis_manual_free(KernelVirtual, PagesIn(mods[at]))
  /\ pc' = "copy"
  /\ at' = at + 1
  /\ UNCHANGED <<given, entries, tables, desc, homes, again>>

ModulesCopied ==
  /\ pc = "copy" /\ at > Len(mods)
  /\ pc' = "done"
  /\ UNCHANGED <<fismemVars, given, at, handed, again>>

Next ==
  \/ MultibootCheck
  \/ TooSmall \/ ReserveKernel \/ ReserveRegion \/ RegionsReserved
  \/ Prepare \/ PrepareRefused \/ InitDesc \/ MapModule \/ CopyModule
  \/ AllocationRefused \/ MemoryLost \/ ReleaseModule \/ ModulesCopied

Spec == Init /\ [][Next]_bootVars

-----------------------------------------------------------------------------
Booting == fis_bitmap # {}
Handed == desc \cup tables \cup UNION ToSet(homes)

(* The modules whose only copy is where the loader put it, and that        *)
(* prepare_modules has been through.                                       *)
Waiting ==
  {i \in DOMAIN mods :
     /\ i > Len(homes)
     /\ pc \notin {"check", "wild", "start", "mmap"}
     /\ (pc \in {"prepare", "panic"} => i < at)}

(* Types; page 0 is always reserved when KMem starts, no bit is set past   *)
(* the end of memory; the counter is allowed to wrap, as it does when it   *)
(* is too low and a page table is taken after the checks.                  *)
TypeOK ==
  /\ FismemTypeOK
  /\ Booting => 0 \in fis_bitmap
  /\ fis_bitmap \subseteq Frames
  /\ identity \subseteq Frames \ {0} /\ tables \subseteq Frames
  /\ Cardinality(tables) = Cardinality(entries) - 1
  /\ Len(homes) <= Len(mods)
  /\ again \in Nat

(* Every page init_paging maps the kernel in, and the first megabyte, is   *)
(* reserved from init_fismem on and is never given to the heap or to a     *)
(* page table: two computations, in two files, that must agree.            *)
KernelKept ==
  Booting => /\ Low \cup KernelMapped \subseteq fis_bitmap
             /\ (Low \cup KernelMapped) \cap Handed = {}

(* A module prepare_modules has accepted keeps its pages until it is       *)
(* copied: neither the descriptors, nor the copies of the modules before   *)
(* it, nor the page tables of its own mapping are put over it.             *)
ModulesKept ==
  \A i \in Waiting :
    ModulePages(i) \subseteq fis_bitmap /\ ModulePages(i) \cap Handed = {}

(* What boot hands out never overlaps: the descriptors, the page tables    *)
(* and the copy of each module have pages of their own.                    *)
HandedApart ==
  /\ desc \cap tables = {}
  /\ \A i \in DOMAIN homes :
       /\ homes[i] \cap (desc \cup tables) = {}
       /\ \A j \in DOMAIN homes : i # j => homes[i] \cap homes[j] = {}

(* Boot acts on what the loader said: it reads the modules and the memory  *)
(* map right when no group before them is missing, as with loaders that    *)
(* fill in all of them, unless the memory map is longer than mmap.         *)
LoaderRead ==
  /\ pc = "wild" /\ Groups \subseteq flags => Len(mmap) > MAX_MMAP
  /\ pc \notin {"check", "wild"} =>
       /\ flags \cap {"modules", "mmap"} # {} =>
            {"meminfo", "bootdrive", "cmdline"} \subseteq flags
       /\ "mmap" \in flags => "syms" \in flags

(* Nothing that boot reserves or hands out lies over anything else.        *)
MemoryKept == LoaderRead /\ KernelKept /\ ModulesKept /\ HandedApart

(* How far the counter of free pages is from the truth: one too high for   *)
(* the last page of the kernel, one too low for each page fis_manual_alloc *)
(* reserved again.  Up to a wrap, it is the drift KMem starts from.        *)
CounterTold ==
  Booting => fis_freepages = (FreeCount + 1 - again) % UWrap

=============================================================================
