---------------------------- MODULE BootMemProofs ----------------------------
(***************************************************************************)
(* That boot keeps what it has to keep, for every machine, every memory    *)
(* map and every list of modules.                                          *)
(***************************************************************************)
EXTENDS BootMem, FiniteSetTheorems, WellFoundedInduction, TLAPS

(* The first part of boot, before the heap is used: nothing is handed out. *)
Early == {"check", "wild", "start", "mmap", "prepare", "desc"}
Unread == {"check", "wild", "start"}
NothingHanded == desc = {} /\ tables = {} /\ homes = <<>>

Reserved == Low \cup KernelMapped

(* What the parts of MemoryKept need of each other.  Once the kernel is    *)
(* reserved everything reserved or handed out has its bit, and no step     *)
(* clears one: what is handed out next, being clear, lies over none of it. *)
KernelInv ==
  /\ pc \notin {"check", "wild", "start", "panic"} => Reserved \subseteq fis_bitmap
  /\ pc \in {"check", "wild", "start"} => fis_bitmap = {}
  /\ fis_bitmap # {} => Reserved \subseteq fis_bitmap
HandedInv ==
  /\ pc \in Early => NothingHanded
  /\ Handed \subseteq fis_bitmap
  /\ Handed \cap Reserved = {}
ShapeInv ==
  /\ kernel \in KernelSizes /\ mmap \in MemoryMaps
  /\ mods \in Seq(Nat \ {0}) /\ homes \in Seq(SUBSET Frames)
  /\ at \in Nat
  /\ pc \in {"check", "wild", "start"} => at = 1
  /\ pc = "prepare" => at <= Len(mods)
  /\ pc = "allocate" => at <= Len(mods)
  /\ pc = "release" => at <= Len(mods) /\ at # 0
  /\ pc \in {"copy", "allocate", "release"} => at # 0

KeptInv == ShapeInv /\ KernelInv /\ HandedInv /\ ModulesKept /\ HandedApart /\ LoaderRead

-----------------------------------------------------------------------------
(* Two ways of the code to round a size up to pages agree.                 *)
LEMMA RoundedAlike ==
  ASSUME NEW size \in Nat
  PROVE  PagesIn(size) = Ceiling(size)
<1>1. PageSize \in Nat \ {0}
  BY BootMemAssumption
<1>2. CASE size % PageSize = 0
  <2>1. \E q \in Nat : size = q * PageSize
    BY <1>1, <1>2, SMT
  <2> QED BY <1>1, <1>2, <2>1, SMT DEF PagesIn, Ceiling
<1>3. CASE size % PageSize # 0
  BY <1>1, <1>3, SMT DEF PagesIn, Ceiling
<1> QED BY <1>2, <1>3

LEMMA StrictlyBelow ==
  ASSUME NEW m \in Nat, NEW n \in Nat, m <= n, m # n
  PROVE  m + 1 <= n
OBVIOUS

LEMMA LowestClearIsFree ==
  ASSUME NEW n
  PROVE  LowestClear(n) \subseteq FreeFrames /\ LowestClear(n) \cap fis_bitmap = {}
BY DEF LowestClear, FreeFrames

LEMMA PagesTyped ==
  ASSUME NEW size \in Nat
  PROVE  PagesIn(size) \in Nat
<1>1. PageSize \in Nat \ {0}
  BY BootMemAssumption
<1> QED BY <1>1, SMT DEF PagesIn

-----------------------------------------------------------------------------
(* The first state, and a step that changes none of what the invariant is  *)
(* about but where boot is.                                                *)
LEMMA InitKept == Init => KeptInv
<1> SUFFICES ASSUME Init PROVE KeptInv
  OBVIOUS
<1>1. ShapeInv
  <2>1. mods \in Seq(Nat \ {0})
    BY BootMemAssumption DEF Init
  <2> QED BY <2>1 DEF Init, ShapeInv
<1>2. KernelInv
  BY DEF Init, KernelInv
<1>3. HandedInv
  <2>1. UNION ToSet(homes) = {}
    BY DEF Init, ToSet
  <2> QED BY <2>1 DEF Init, HandedInv, NothingHanded, Handed
<1>4. ModulesKept /\ HandedApart /\ LoaderRead
  BY DEF Init, ModulesKept, Waiting, HandedApart, LoaderRead
<1> QED BY <1>1, <1>2, <1>3, <1>4 DEF KeptInv

(* A step takes a set S of clear pages, or none, and hands out nothing     *)
(* else; no bit is cleared and no module begins to wait.  Then the kernel, *)
(* the modules and what was handed out keep what is theirs.                *)
Grows == fis_bitmap \subseteq fis_bitmap'
Given == UNCHANGED <<kernel, mods, flags, mmap>>

LEMMA KernelStep ==
  ASSUME KernelInv, Given, Grows, pc \notin Unread, pc' \notin Unread,
         pc = "panic" => fis_bitmap' = fis_bitmap /\ pc' = "panic"
  PROVE  KernelInv'
BY DEF KernelInv, Given, Grows, Unread, Reserved, KernelMapped

LEMMA LoaderStep ==
  ASSUME LoaderRead, Given, pc \notin {"check", "wild"}, pc' \notin {"check", "wild"}
  PROVE  LoaderRead'
BY DEF LoaderRead, Given

LEMMA ModulePagesSame ==
  ASSUME Given, NEW i
  PROVE  ModulePages(i)' = ModulePages(i)
BY DEF Given, ModulePages, ModuleAt

LEMMA PagesStep ==
  ASSUME KernelInv, HandedInv, ModulesKept, Given, Grows,
         NEW S, S \subseteq fis_bitmap', S \cap fis_bitmap = {},
         Handed' \subseteq Handed \cup S, Waiting' \subseteq Waiting,
         S = {} \/ pc \notin Unread \cup {"panic"}
  PROVE  /\ Handed' \subseteq fis_bitmap' /\ (Handed \cap Reserved = {})'
         /\ ModulesKept'
<1>1. Handed' \subseteq fis_bitmap'
  BY DEF HandedInv, Grows
<1>2. (Handed \cap Reserved = {})'
  <2>1. Reserved' = Reserved
    BY DEF Given, Reserved, KernelMapped
  <2>2. S \cap Reserved = {}
    BY DEF KernelInv, Unread
  <2> QED BY <2>1, <2>2 DEF HandedInv
<1>3. ModulesKept'
  <2> SUFFICES ASSUME NEW i \in Waiting'
               PROVE  (ModulePages(i) \subseteq fis_bitmap /\ ModulePages(i) \cap Handed = {})'
    BY DEF ModulesKept
  <2>1. ModulePages(i) \subseteq fis_bitmap /\ ModulePages(i) \cap Handed = {}
    BY DEF ModulesKept
  <2> QED BY <2>1, ModulePagesSame DEF Grows
<1> QED BY <1>1, <1>2, <1>3

LEMMA HomesGrow ==
  ASSUME homes \in Seq(SUBSET Frames), NEW S \in SUBSET Frames, homes' = Append(homes, S)
  PROVE  UNION ToSet(homes') = S \cup UNION ToSet(homes)
<1>1. DOMAIN homes = 1 .. Len(homes) /\ Len(homes) \in Nat
  OBVIOUS
<1>2. DOMAIN homes' = 1 .. Len(homes) + 1
  OBVIOUS
<1>3. \A j \in DOMAIN homes : homes'[j] = homes[j] /\ j \in DOMAIN homes'
  BY <1>1, <1>2
<1>4. Len(homes) + 1 \in DOMAIN homes' /\ homes'[Len(homes) + 1] = S
  BY <1>1, <1>2
<1>5. \A j \in DOMAIN homes' : j \in DOMAIN homes \/ j = Len(homes) + 1
  BY <1>1, <1>2
<1> QED BY <1>3, <1>4, <1>5, Zenon DEF ToSet

(* Nothing is handed out: what lies where stays as it was.                 *)
LEMMA QuietStep ==
  ASSUME KeptInv, Given, Grows, UNCHANGED <<desc, tables, homes>>,
         Waiting' \subseteq Waiting, pc' \in Early => pc \in Early
  PROVE  HandedInv' /\ ModulesKept' /\ HandedApart'
<1>1. Handed' = Handed
  BY Zenon DEF Handed
<1>2. /\ Handed' \subseteq fis_bitmap' /\ (Handed \cap Reserved = {})'
      /\ ModulesKept'
  <2>1. {} \subseteq fis_bitmap' /\ {} \cap fis_bitmap = {}
    OBVIOUS
  <2>2. Handed' \subseteq Handed \cup {}
    BY <1>1
  <2> QED BY <2>1, <2>2, PagesStep DEF KeptInv
<1>3. HandedInv'
  BY <1>2 DEF KeptInv, HandedInv, NothingHanded
<1>4. HandedApart'
  BY DEF KeptInv, HandedApart
<1> QED BY <1>2, <1>3, <1>4

-----------------------------------------------------------------------------
(* One lemma per action.                                                   *)
LEMMA MultibootCheckKeeps ==
  ASSUME KeptInv, MultibootCheck
  PROVE  KeptInv'
<1>1. Given /\ Grows /\ UNCHANGED <<fis_bitmap, desc, tables, homes, at>>
  BY DEF MultibootCheck, Given, Grows, given, handed, fismemVars
<1>2. pc = "check" /\ pc' \in {"start", "wild"}
  BY DEF MultibootCheck
<1>3. Waiting' \subseteq Waiting
  BY <1>1, <1>2 DEF Waiting
<1>4. HandedInv' /\ ModulesKept' /\ HandedApart'
  BY <1>1, <1>2, <1>3, QuietStep DEF Early
<1>5. KernelInv' /\ ShapeInv'
  BY <1>1, <1>2 DEF KeptInv, KernelInv, ShapeInv, Given
<1>6. LoaderRead'
  <2>1. flags' = flags /\ mmap' = mmap
    BY <1>1 DEF Given
  <2>2. CASE pc' = "wild"
    <3> SUFFICES ASSUME Groups \subseteq flags PROVE Len(mmap) > MAX_MMAP
      BY <2>1, <2>2 DEF LoaderRead
    <3>1. Step("meminfo") = 2 /\ Step("bootdrive") = 1 /\ Step("cmdline") = 1
          /\ Step("modules") = 2 /\ Step("syms") = 4
      BY DEF Step, Words, Groups
    <3>2. ReadRight("modules") /\ ReadRight("mmap")
      BY <3>1 DEF ReadRight, mbstack, Place
    <3>3. Len(mmap) \in Nat /\ MAX_MMAP \in Nat
      BY BootMemAssumption DEF KeptInv, ShapeInv
    <3> QED BY <2>2, <3>2, <3>3 DEF MultibootCheck
  <2>3. CASE pc' = "start"
    <3>1. ReadRight("modules") /\ ReadRight("mmap")
      BY <2>3 DEF MultibootCheck
    <3>2. /\ Step("meminfo") = (IF "meminfo" \in flags THEN 2 ELSE 0)
          /\ Step("bootdrive") = (IF "bootdrive" \in flags THEN 1 ELSE 0)
          /\ Step("cmdline") = (IF "cmdline" \in flags THEN 1 ELSE 0)
          /\ Step("modules") = 2
          /\ Step("syms") = (IF "syms" \in flags THEN 4 ELSE 0)
      BY DEF Step, Words
    <3>3. flags \cap {"modules", "mmap"} # {} =>
            {"meminfo", "bootdrive", "cmdline"} \subseteq flags
      BY <3>1, <3>2 DEF ReadRight, mbstack, Place
    <3>4. "mmap" \in flags => "syms" \in flags
      BY <3>1, <3>2 DEF ReadRight, mbstack, Place
    <3> QED BY <2>1, <2>3, <3>3, <3>4 DEF LoaderRead
  <2> QED BY <1>2, <2>2, <2>3
<1> QED BY <1>4, <1>5, <1>6 DEF KeptInv

LEMMA ReserveKernelKeeps ==
  ASSUME KeptInv, ReserveKernel
  PROVE  KeptInv'
<1>1. Given /\ UNCHANGED <<desc, tables, homes, at>>
  BY DEF ReserveKernel, Given, given, handed
<1>2. pc = "start" /\ pc' = "mmap"
  BY DEF ReserveKernel
<1>3. Grows
  BY <1>2 DEF KeptInv, KernelInv, Grows
<1>4. Waiting' \subseteq Waiting
  BY <1>2 DEF Waiting
<1>5. HandedInv' /\ ModulesKept' /\ HandedApart'
  BY <1>1, <1>2, <1>3, <1>4, QuietStep DEF Early
<1>6. KernelInv'
  <2>1. Reserved' \subseteq fis_bitmap'
    <3>0. LowPages \in Nat /\ kernel \in Nat /\ PageSize \in Nat \ {0}
      BY BootMemAssumption DEF KeptInv, ShapeInv
    <3>1. kernel \div PageSize \in Nat
      BY <3>0, SMT
    <3>2. KernelMapped = KernelPages
      BY <3>0, <3>1 DEF KernelMapped, KernelPages, KernelSize
    <3> QED BY <1>1, <3>2 DEF ReserveKernel, Reserved, KernelMapped, Given
  <2> QED BY <1>2, <2>1 DEF KernelInv
<1>7. ShapeInv' /\ LoaderRead'
  BY <1>1, <1>2, LoaderStep DEF KeptInv, ShapeInv, Given
<1> QED BY <1>5, <1>6, <1>7 DEF KeptInv

LEMMA ReserveRegionKeeps ==
  ASSUME KeptInv, ReserveRegion
  PROVE  KeptInv'
<1>1. Given /\ UNCHANGED <<desc, tables, homes, pc>>
  BY DEF ReserveRegion, Given, given, handed
<1>2. pc = "mmap" /\ at' = at + 1
  BY DEF ReserveRegion
<1>3. Grows
  BY DEF ReserveRegion, Reserve, fis_manual_alloc, fismemVars, Grows
<1>4. Waiting' \subseteq Waiting
  BY <1>1, <1>2 DEF Waiting
<1>5. HandedInv' /\ ModulesKept' /\ HandedApart'
  BY <1>1, <1>2, <1>3, <1>4, QuietStep DEF Early
<1>6. KernelInv' /\ LoaderRead'
  BY <1>1, <1>2, <1>3, KernelStep, LoaderStep DEF KeptInv, Unread
<1>7. ShapeInv'
  BY <1>1, <1>2 DEF KeptInv, ShapeInv, Given
<1> QED BY <1>5, <1>6, <1>7 DEF KeptInv

LEMMA RegionsReservedKeeps ==
  ASSUME KeptInv, RegionsReserved
  PROVE  KeptInv'
<1>1. Given /\ Grows /\ UNCHANGED <<desc, tables, homes>>
  BY DEF RegionsReserved, Given, Grows, given, handed, fismemVars
<1>2. pc = "mmap" /\ at' = 0 /\ pc' \in {"desc", "prepare"}
  BY DEF RegionsReserved
<1>3. DOMAIN mods' = 1 .. Len(mods) /\ Len(mods) \in Nat
  BY <1>1 DEF KeptInv, ShapeInv, Given
<1>4. Waiting' = {}
  <2>1. CASE pc' = "prepare"
    BY <1>2, <1>3, <2>1 DEF Waiting
  <2>2. CASE pc' = "desc"
    <3>1. mods' = <<>>
      BY <1>1, <2>2 DEF RegionsReserved, Given
    <3> QED BY <3>1 DEF Waiting
  <2> QED BY <1>2, <2>1, <2>2
<1>5. HandedInv' /\ ModulesKept' /\ HandedApart'
  BY <1>1, <1>2, <1>4, QuietStep DEF Early
<1>6. KernelInv' /\ LoaderRead'
  BY <1>1, <1>2, KernelStep, LoaderStep DEF KeptInv, Unread
<1>7. ShapeInv'
  BY <1>1, <1>2, <1>3 DEF KeptInv, ShapeInv, Given
<1> QED BY <1>5, <1>6, <1>7 DEF KeptInv

LEMMA PrepareKeeps ==
  ASSUME KeptInv, Prepare
  PROVE  KeptInv'
<1>1. Given /\ UNCHANGED <<desc, tables, homes>>
  BY DEF Prepare, Given, given, handed
<1>2. pc = "prepare" /\ at' = at + 1 /\ pc' \in {"desc", "prepare"}
  BY DEF Prepare
<1>3. fis_bitmap' = fis_bitmap \cup PageRange(PreparedAt(at), PreparedCount(at))
  BY DEF Prepare, Reserve, fis_manual_alloc
<1>4. Grows
  BY <1>3 DEF Grows
<1>5. KernelInv' /\ LoaderRead'
  BY <1>1, <1>2, <1>4, KernelStep, LoaderStep DEF KeptInv, Unread
<1>6. NothingHanded /\ NothingHanded'
  BY <1>1, <1>2 DEF KeptInv, HandedInv, Early, NothingHanded
<1>7. Handed = {} /\ Handed' = {}
  BY <1>6 DEF Handed, NothingHanded, ToSet
<1>8. HandedInv' /\ HandedApart'
  BY <1>6, <1>7 DEF HandedInv, HandedApart, NothingHanded
<1>9. at \in Nat /\ Len(mods) \in Nat /\ at <= Len(mods) /\ DOMAIN mods = 1 .. Len(mods)
  BY <1>2 DEF KeptInv, ShapeInv
<1>10. ModulesKept'
  <2> SUFFICES ASSUME NEW i \in Waiting'
               PROVE  (ModulePages(i) \subseteq fis_bitmap)'
    BY <1>7 DEF ModulesKept
  <2>1. i \in 1 .. Len(mods) /\ i <= at
    <3>1. i \in 1 .. Len(mods) /\ (pc' = "prepare" => i < at')
      BY <1>1, <1>9 DEF Waiting, Given
    <3>2. CASE at = Len(mods)
      BY <3>1, <3>2
    <3>3. CASE at # Len(mods)
      <4>1. pc' = "prepare"
        BY <3>3 DEF Prepare
      <4>2. i < at + 1
        BY <1>2, <3>1, <4>1
      <4> QED BY <1>9, <3>1, <4>2
    <3> QED BY <3>2, <3>3
  <2>2. CASE i < at
    <3>1. i \in Waiting
      BY <1>2, <1>6, <1>9, <2>1, <2>2 DEF Waiting, NothingHanded
    <3> QED BY <1>1, <1>4, <3>1, ModulePagesSame DEF KeptInv, ModulesKept, Grows
  <2>3. CASE i = at
    <3>1. mods[i] \in Nat
      BY <2>1 DEF KeptInv, ShapeInv
    <3>2. ModulePages(i) = PageRange(PreparedAt(at), PreparedCount(at))
      BY <2>1, <2>3, <3>1, RoundedAlike DEF ModulePages, PreparedAt, PreparedCount
    <3> QED BY <1>1, <1>3, <3>2, ModulePagesSame
  <2> QED BY <1>9, <2>1, <2>2, <2>3
<1>11. ShapeInv'
  <2>1. at' \in Nat
    BY <1>2, <1>9
  <2>2. ASSUME pc' = "prepare" PROVE at' <= Len(mods)
    <3>1. at # Len(mods)
      BY <2>2 DEF Prepare
    <3>2. at + 1 <= Len(mods)
      BY <1>9, <3>1, StrictlyBelow
    <3> QED BY <1>2, <3>2
  <2> QED BY <1>1, <1>2, <2>1, <2>2 DEF KeptInv, ShapeInv, Given
<1> QED BY <1>5, <1>8, <1>10, <1>11 DEF KeptInv

(* The steps that only give up.                                            *)
LEMMA StopKeeps ==
  ASSUME KeptInv, TooSmall \/ PrepareRefused \/ AllocationRefused \/ MemoryLost \/ ModulesCopied
  PROVE  KeptInv'
<1>1. Given /\ UNCHANGED <<fis_bitmap, desc, tables, homes, at>>
  BY DEF TooSmall, PrepareRefused, AllocationRefused, MemoryLost, ModulesCopied,
         Given, given, handed, fismemVars
<1>2. \/ pc = "start" /\ pc' = "panic"
      \/ pc \in {"prepare", "desc", "allocate"} /\ pc' = "panic"
      \/ pc \in {"desc", "allocate", "copy"} /\ pc' \in {"lost", "done"}
  BY DEF TooSmall, PrepareRefused, AllocationRefused, MemoryLost, ModulesCopied, Allocating
<1>3. DOMAIN mods = 1 .. Len(mods) /\ Len(mods) \in Nat
  BY DEF KeptInv, ShapeInv
<1>4. Waiting' \subseteq Waiting
  <2>1. CASE pc = "start"
    <3>1. at' = 1 /\ pc' = "panic"
      BY <1>1, <1>2, <2>1 DEF KeptInv, ShapeInv, Unread
    <3> QED BY <1>1, <1>3, <3>1 DEF Waiting, Given
  <2>2. CASE pc # "start"
    BY <1>1, <1>2, <2>2 DEF Waiting, Given
  <2> QED BY <2>1, <2>2
<1>5. Grows
  BY <1>1 DEF Grows
<1>6. HandedInv' /\ ModulesKept' /\ HandedApart'
  BY <1>1, <1>2, <1>4, <1>5, QuietStep DEF Early
<1>7. KernelInv'
  BY <1>1, <1>2 DEF KeptInv, KernelInv, Given, Reserved, KernelMapped
<1>8. ShapeInv' /\ LoaderRead'
  BY <1>1, <1>2, LoaderStep DEF KeptInv, ShapeInv, Given
<1> QED BY <1>6, <1>7, <1>8 DEF KeptInv

LEMMA ReleaseModuleKeeps ==
  ASSUME KeptInv, ReleaseModule
  PROVE  KeptInv'
<1>1. Given /\ UNCHANGED <<desc, tables, homes>>
  BY DEF ReleaseModule, Given, given
<1>2. pc = "release" /\ pc' = "copy" /\ at' = at + 1
  BY DEF ReleaseModule
<1>3. at \in 1 .. Len(mods) /\ Len(mods) \in Nat
  BY <1>2 DEF KeptInv, ShapeInv
<1>4. Grows
  <2>1. mods[at] \in Nat
    BY <1>3 DEF KeptInv, ShapeInv
  <2>2. PagesIn(mods[at]) \in Nat
    BY <2>1, PagesTyped
  <2>3. PageRange(KernelVirtual, 0) = {}
    BY BootMemAssumption DEF PageRange
  <2>4. CASE PagesIn(mods[at]) = 0
    BY <2>3, <2>4 DEF ReleaseModule, fis_manual_free, fismemVars, Grows
  <2>5. CASE PagesIn(mods[at]) # 0
    <3>1. ~(KernelVirtual + PagesIn(mods[at]) <= FisPages)
      <4>1. KernelVirtual \in Nat /\ FisPages \in Nat /\ FisPages <= KernelVirtual
        BY BootMemAssumption, FismemAssumption
      <4> QED BY <2>2, <2>5, <4>1
    <3> QED BY <3>1 DEF ReleaseModule, fis_manual_free, fismemVars, Grows
  <2> QED BY <2>4, <2>5
<1>5. Waiting' \subseteq Waiting
  BY <1>1, <1>2 DEF Waiting, Given
<1>6. HandedInv' /\ ModulesKept' /\ HandedApart'
  BY <1>1, <1>2, <1>4, <1>5, QuietStep DEF Early
<1>7. KernelInv' /\ LoaderRead'
  BY <1>1, <1>2, <1>4, KernelStep, LoaderStep DEF KeptInv, Unread
<1>8. ShapeInv'
  <2>1. at' \in Nat /\ at' # 0
    BY <1>2, <1>3
  <2> QED BY <1>1, <1>2, <2>1 DEF KeptInv, ShapeInv, Given
<1> QED BY <1>6, <1>7, <1>8 DEF KeptInv

(* The three steps that hand out pages S, each to one of three.            *)
LEMMA HandOutStep ==
  ASSUME KeptInv, Given, NEW S \in SUBSET Frames, S \cap fis_bitmap = {},
         fis_bitmap' = fis_bitmap \cup S, Handed' = Handed \cup S,
         Waiting' \subseteq Waiting,
         pc \notin Unread \cup {"panic"}, pc' \notin Early \cup {"panic"}
  PROVE  KernelInv' /\ LoaderRead' /\ HandedInv' /\ ModulesKept'
<1>1. Grows
  BY DEF Grows
<1>2. /\ Handed' \subseteq fis_bitmap' /\ (Handed \cap Reserved = {})'
      /\ ModulesKept'
  BY <1>1, PagesStep DEF KeptInv
<1>3. HandedInv'
  BY <1>2 DEF HandedInv
<1>4. KernelInv' /\ LoaderRead'
  BY <1>1, KernelStep, LoaderStep DEF KeptInv, Unread, Early
<1> QED BY <1>2, <1>3, <1>4

LEMMA InitDescKeeps ==
  ASSUME KeptInv, InitDesc
  PROVE  KeptInv'
<1>1. Given /\ UNCHANGED <<tables, homes>>
  BY DEF InitDesc, Given, given
<1>2. pc = "desc" /\ pc' = "copy" /\ at' = 1
  BY DEF InitDesc
<1>3. PICK S \in SUBSET Frames :
        S \cap fis_bitmap = {} /\ fis_bitmap' = fis_bitmap \cup S /\ desc' = S
  <2>1. PICK extra \in Extras : Allocates(1, extra) /\ desc' = LowestClear(1 + extra)
    BY DEF InitDesc
  <2>2. LowestClear(1 + extra) \subseteq Frames /\ LowestClear(1 + extra) \cap fis_bitmap = {}
    BY LowestClearIsFree DEF FreeFrames
  <2> QED BY <2>1, <2>2 DEF Allocates, Taken
<1>4. NothingHanded
  BY <1>2 DEF KeptInv, HandedInv, Early
<1>5. Handed' = Handed \cup S
  BY <1>1, <1>3, <1>4 DEF Handed, NothingHanded
<1>6. Waiting' \subseteq Waiting
  BY <1>1, <1>2 DEF Waiting, Given
<1>7. KernelInv' /\ LoaderRead' /\ HandedInv' /\ ModulesKept'
  BY <1>1, <1>2, <1>3, <1>5, <1>6, HandOutStep DEF Unread, Early
<1>8. HandedApart' /\ ShapeInv'
  BY <1>1, <1>2, <1>3, <1>4 DEF KeptInv, HandedApart, NothingHanded, ShapeInv, Given
<1> QED BY <1>7, <1>8 DEF KeptInv

LEMMA MapModuleKeeps ==
  ASSUME KeptInv, MapModule
  PROVE  KeptInv'
<1>1. Given /\ UNCHANGED <<at, desc, homes>>
  BY DEF MapModule, Given, given
<1>2. pc = "copy" /\ pc' = "allocate" /\ at <= Len(mods)
  BY DEF MapModule
<1> DEFINE S == LowestClear(Cardinality(EntriesNeeded(at)))
<1>3. fis_bitmap' = fis_bitmap \cup S /\ tables' = tables \cup S
  BY DEF MapModule, Taken
<1>4. S \subseteq Frames /\ S \cap fis_bitmap = {}
  BY LowestClearIsFree DEF FreeFrames
<1> HIDE DEF S
<1>5. Handed' = Handed \cup S
  BY <1>1, <1>3 DEF Handed
<1>6. Waiting' \subseteq Waiting
  BY <1>1, <1>2 DEF Waiting, Given
<1>7. KernelInv' /\ LoaderRead' /\ HandedInv' /\ ModulesKept'
  BY <1>1, <1>2, <1>3, <1>4, <1>5, <1>6, HandOutStep DEF Unread, Early
<1>8. S \cap Handed = {}
  BY <1>4 DEF KeptInv, HandedInv
<1>9. HandedApart'
  <2>1. S \cap desc = {} /\ \A i \in DOMAIN homes : homes[i] \cap S = {}
    BY <1>8 DEF Handed, ToSet
  <2> QED BY <1>1, <1>3, <2>1 DEF KeptInv, HandedApart
<1>10. ShapeInv'
  BY <1>1, <1>2 DEF KeptInv, ShapeInv, Given
<1> QED BY <1>7, <1>9, <1>10 DEF KeptInv

LEMMA CopyModuleKeeps ==
  ASSUME KeptInv, CopyModule
  PROVE  KeptInv'
<1>1. Given /\ UNCHANGED <<at, desc, tables>>
  BY DEF CopyModule, Given, given
<1>2. pc = "allocate" /\ pc' = "release"
  BY DEF CopyModule
<1>3. PICK S \in SUBSET Frames :
        /\ S \cap fis_bitmap = {} /\ fis_bitmap' = fis_bitmap \cup S
        /\ homes' = Append(homes, S)
  <2>1. PICK extra \in Extras :
          /\ Allocates(PagesIn(mods[at]), extra)
          /\ homes' = Append(homes, LowestClear(PagesIn(mods[at]) + extra))
    BY DEF CopyModule
  <2> DEFINE S == LowestClear(PagesIn(mods[at]) + extra)
  <2>2. S \subseteq Frames /\ S \cap fis_bitmap = {}
    BY LowestClearIsFree DEF FreeFrames
  <2>3. fis_bitmap' = fis_bitmap \cup S /\ homes' = Append(homes, S)
    BY <2>1 DEF Allocates, Taken
  <2> HIDE DEF S
  <2> QED BY <2>2, <2>3
<1>4. homes \in Seq(SUBSET Frames)
  BY DEF KeptInv, ShapeInv
<1>5. /\ homes' \in Seq(SUBSET Frames) /\ Len(homes') = Len(homes) + 1
      /\ Len(homes) \in Nat
      /\ \A i \in DOMAIN homes' :
           \/ (i \in DOMAIN homes /\ homes'[i] = homes[i])
           \/ (i = Len(homes) + 1 /\ homes'[i] = S)
  <2>1. Len(homes) \in Nat /\ DOMAIN homes = 1 .. Len(homes)
    BY <1>4
  <2>2. /\ homes' \in Seq(SUBSET Frames) /\ Len(homes') = Len(homes) + 1
        /\ DOMAIN homes' = 1 .. Len(homes) + 1
    BY <1>3, <1>4
  <2>3. \A i \in 1 .. Len(homes) : homes'[i] = homes[i]
    BY <1>3, <1>4
  <2>4. homes'[Len(homes) + 1] = S
    BY <1>3, <1>4
  <2>5. \A i \in 1 .. Len(homes) + 1 : i \in 1 .. Len(homes) \/ i = Len(homes) + 1
    BY <2>1
  <2> QED BY <2>1, <2>2, <2>3, <2>4, <2>5, Zenon
<1>6. Handed' = Handed \cup S
  BY <1>1, <1>3, <1>4, HomesGrow DEF Handed
<1>7. Waiting' \subseteq Waiting
  <2>1. \A i \in DOMAIN mods : i \in Nat
    BY DEF KeptInv, ShapeInv
  <2> QED BY <1>1, <1>2, <1>5, <2>1 DEF Waiting, Given
<1>8. KernelInv' /\ LoaderRead' /\ HandedInv' /\ ModulesKept'
  BY <1>1, <1>2, <1>3, <1>6, <1>7, HandOutStep DEF Unread, Early
<1>9. S \cap Handed = {}
  BY <1>3 DEF KeptInv, HandedInv
<1>10. HandedApart'
  <2>1. S \cap desc = {} /\ S \cap tables = {} /\ \A i \in DOMAIN homes : homes[i] \cap S = {}
    BY <1>9 DEF Handed, ToSet
  <2> QED BY <1>1, <1>5, <2>1 DEF KeptInv, HandedApart
<1>11. ShapeInv'
  <2>1. at <= Len(mods) /\ at # 0
    BY <1>2 DEF KeptInv, ShapeInv
  <2> QED BY <1>1, <1>2, <1>5, <2>1 DEF KeptInv, ShapeInv, Given
<1> QED BY <1>8, <1>10, <1>11 DEF KeptInv

-----------------------------------------------------------------------------
LEMMA KeptStep ==
  ASSUME KeptInv, [Next]_bootVars
  PROVE  KeptInv'
<1>1. CASE MultibootCheck
  BY <1>1, MultibootCheckKeeps
<1>2. CASE ReserveKernel
  BY <1>2, ReserveKernelKeeps
<1>3. CASE ReserveRegion
  BY <1>3, ReserveRegionKeeps
<1>4. CASE RegionsReserved
  BY <1>4, RegionsReservedKeeps
<1>5. CASE Prepare
  BY <1>5, PrepareKeeps
<1>6. CASE InitDesc
  BY <1>6, InitDescKeeps
<1>7. CASE MapModule
  BY <1>7, MapModuleKeeps
<1>8. CASE CopyModule
  BY <1>8, CopyModuleKeeps
<1>9. CASE ReleaseModule
  BY <1>9, ReleaseModuleKeeps
<1>10. CASE TooSmall \/ PrepareRefused \/ AllocationRefused \/ MemoryLost \/ ModulesCopied
  BY <1>10, StopKeeps
<1>11. CASE UNCHANGED bootVars
  <2>1. Given /\ Grows /\ UNCHANGED <<fis_bitmap, desc, tables, homes, at, pc>>
    BY <1>11 DEF bootVars, fismemVars, given, handed, Given, Grows
  <2>2. Waiting' \subseteq Waiting
    BY <2>1 DEF Waiting, Given
  <2>3. HandedInv' /\ ModulesKept' /\ HandedApart'
    BY <2>1, <2>2, QuietStep
  <2>4. KernelInv' /\ ShapeInv' /\ LoaderRead'
    <3>1. mbstack' = mbstack /\ flags' = flags /\ mmap' = mmap
      BY <2>1 DEF Given, mbstack, Step
    <3> QED BY <2>1, <3>1 DEF KeptInv, KernelInv, ShapeInv, LoaderRead, Given,
                             Reserved, KernelMapped
  <2> QED BY <2>3, <2>4 DEF KeptInv
<1> QED BY <1>1, <1>2, <1>3, <1>4, <1>5, <1>6, <1>7, <1>8, <1>9, <1>10, <1>11 DEF Next

(* Boot keeps what it has to keep: it acts on what the loader said; the    *)
(* kernel, and each module until it is copied, keep their pages; what is   *)
(* handed out to the descriptors, the page tables and the copies is apart. *)
THEOREM KeptThroughout == Spec => []MemoryKept
<1>1. Init => KeptInv
  BY InitKept
<1>2. KeptInv /\ [Next]_bootVars => KeptInv'
  BY KeptStep
<1>3. KeptInv => MemoryKept
  <2> SUFFICES ASSUME KeptInv PROVE KernelKept
    BY DEF KeptInv, MemoryKept
  <2> QED BY DEF KeptInv, KernelInv, HandedInv, KernelKept, Booting, Reserved
<1> QED BY <1>1, <1>2, <1>3, PTL DEF Spec

-----------------------------------------------------------------------------
(* What is needed to count.  A set of numbers has a least one; a function  *)
(* defined by recursion on 0 .. n exists.                                  *)
LEMMA LeastExists ==
  ASSUME NEW T \in SUBSET Nat, T # {}
  PROVE  \E x \in T : \A y \in T : x <= y
<1> DEFINE R == {ss \in Nat \X Nat : ss[1] < ss[2]}
<1>1. IsWellFoundedOn(R, Nat)
  BY NatLessThanWellFounded DEF OpToRel
<1>2. PICK x \in T : \A y \in T : ~(<<y, x>> \in R)
  BY <1>1, WFMin
<1>3. ASSUME NEW y \in T PROVE x <= y
  <2>1. x \in Nat /\ y \in Nat
    OBVIOUS
  <2>2. (y < x) => <<y, x>> \in R
    BY <2>1, SMT
  <2> QED BY <1>2, <2>1, <2>2
<1> QED BY <1>3

Sums(f, n, x, d) == f[0] = x /\ \A j \in 1 .. n : f[j] = f[j - 1] + d[j]

LEMMA SumsExist ==
  ASSUME NEW n \in Nat, NEW x \in Nat, NEW d \in [1 .. n -> Nat]
  PROVE  \E f \in [0 .. n -> Nat] : Sums(f, n, x, d)
<1> DEFINE Good(m) == \E f \in [0 .. m -> Nat] : Sums(f, m, x, d)
           T == {m \in 0 .. n : ~Good(m)}
<1>1. Good(0)
  <2>1. [j \in 0 .. 0 |-> x] \in [0 .. 0 -> Nat]
    OBVIOUS
  <2>2. Sums([j \in 0 .. 0 |-> x], 0, x, d)
    BY DEF Sums
  <2> QED BY <2>1, <2>2
<1>2. ASSUME NEW m \in 1 .. n, Good(m - 1)
      PROVE  Good(m)
  <2>1. PICK f \in [0 .. m - 1 -> Nat] : Sums(f, m - 1, x, d)
    BY <1>2
  <2> DEFINE g == [j \in 0 .. m |-> IF j = m THEN f[m - 1] + d[m] ELSE f[j]]
  <2>2. m - 1 \in 0 .. m - 1 /\ d[m] \in Nat
    OBVIOUS
  <2>3. f[m - 1] \in Nat
    BY <2>2
  <2>4. g \in [0 .. m -> Nat]
    BY <2>2, <2>3
  <2>5. g[0] = x
    BY <2>1 DEF Sums
  <2>6. ASSUME NEW j \in 1 .. m PROVE g[j] = g[j - 1] + d[j]
    <3>1. CASE j = m
      BY <3>1
    <3>2. CASE j # m
      BY <2>1, <3>2 DEF Sums
    <3> QED BY <3>1, <3>2
  <2> HIDE DEF g
  <2> QED BY <2>4, <2>5, <2>6 DEF Sums
<1> HIDE DEF Good
<1>3. T = {}
  <2> SUFFICES ASSUME T # {} PROVE FALSE
    OBVIOUS
  <2>1. T \in SUBSET Nat
    OBVIOUS
  <2>2. PICK m \in T : \A y \in T : m <= y
    BY <2>1, LeastExists
  <2>3. m \in 1 .. n /\ ~Good(m)
    BY <1>1, <2>2
  <2>4. Good(m - 1)
    BY <2>2, <2>3
  <2> QED BY <1>2, <2>3, <2>4
<1>4. Good(n)
  BY <1>3
<1> QED BY <1>4 DEF Good

(* The modules lie one behind the other, from the kernel on.               *)
LEMMA CeilingTyped ==
  ASSUME NEW size \in Nat
  PROVE  Ceiling(size) \in Nat
<1>1. PageSize \in Nat \ {0}
  BY BootMemAssumption
<1> QED BY <1>1, SMT DEF Ceiling

LEMMA LoadedIs ==
  ASSUME NEW image \in Nat, NEW sizes \in Seq(Nat)
  PROVE  /\ LoadedAt(image, sizes, 1) = LowPages + Ceiling(image)
         /\ \A i \in 1 .. Len(sizes) :
              LoadedAt(image, sizes, i + 1) = LoadedAt(image, sizes, i) + Ceiling(sizes[i])
<1> DEFINE n == Len(sizes)
           x == LowPages + Ceiling(image)
           d == [j \in 1 .. n |-> Ceiling(sizes[j])]
           L == CHOOSE f : f = [j \in 0 .. n |-> IF j = 0 THEN x ELSE f[j - 1] + Ceiling(sizes[j])]
<1>1. n \in Nat /\ \A j \in 1 .. n : sizes[j] \in Nat
  OBVIOUS
<1>2. x \in Nat
  <2>1. LowPages \in Nat
    BY BootMemAssumption
  <2>2. Ceiling(image) \in Nat
    BY CeilingTyped
  <2> QED BY <2>1, <2>2
<1>3. d \in [1 .. n -> Nat]
  BY <1>1, CeilingTyped
<1> HIDE DEF x
<1>4. PICK f \in [0 .. n -> Nat] : Sums(f, n, x, d)
  <2> HIDE DEF n, d
  <2> QED BY <1>1, <1>2, <1>3, SumsExist
<1>5. f = [j \in 0 .. n |-> IF j = 0 THEN x ELSE f[j - 1] + Ceiling(sizes[j])]
  BY <1>1, <1>4 DEF Sums
<1>6. L = [j \in 0 .. n |-> IF j = 0 THEN x ELSE L[j - 1] + Ceiling(sizes[j])]
  BY <1>5
<1>7. \A i : LoadedAt(image, sizes, i) = L[i - 1]
  BY DEF LoadedAt, x
<1> HIDE DEF L, n
<1>8. L[0] = x /\ \A j \in 1 .. n : L[j] = L[j - 1] + Ceiling(sizes[j])
  BY <1>1, <1>6
<1>9. ASSUME NEW i \in 1 .. n
      PROVE  LoadedAt(image, sizes, i + 1) = LoadedAt(image, sizes, i) + Ceiling(sizes[i])
  <2>1. i + 1 - 1 = i
    OBVIOUS
  <2>2. LoadedAt(image, sizes, i + 1) = L[i] /\ LoadedAt(image, sizes, i) = L[i - 1]
    BY <1>7, <2>1
  <2> QED BY <1>8, <2>2
<1> QED BY <1>7, <1>8, <1>9 DEF x, n

LEMMA ModulesFollow ==
  ASSUME ShapeInv
  PROVE  /\ Len(mods) \in Nat
         /\ \A i \in 1 .. Len(mods) + 1 :
              ModuleAt(i) \in Nat /\ ModuleAt(i) >= LowPages
         /\ \A i \in 1 .. Len(mods) :
              /\ mods[i] \in Nat /\ Ceiling(mods[i]) \in Nat
              /\ ModuleAt(i) + Ceiling(mods[i]) = ModuleAt(i + 1)
         /\ \A i \in 1 .. Len(mods) + 1 : ModuleAt(i) <= ModuleAt(Len(mods) + 1)
<1>1. /\ mods \in Seq(Nat) /\ Len(mods) \in Nat /\ kernel \in Nat
      /\ \A i \in 1 .. Len(mods) : mods[i] \in Nat
  BY BootMemAssumption DEF ShapeInv
<1>2. /\ LowPages \in Nat /\ Ceiling(kernel) \in Nat
      /\ \A i \in 1 .. Len(mods) : Ceiling(mods[i]) \in Nat
  BY <1>1, CeilingTyped, BootMemAssumption
<1>3. /\ ModuleAt(1) = LowPages + Ceiling(kernel)
      /\ \A i \in 1 .. Len(mods) : ModuleAt(i + 1) = ModuleAt(i) + Ceiling(mods[i])
  BY <1>1, LoadedIs DEF ModuleAt
<1> DEFINE n == Len(mods) + 1
           Good(i) == ModuleAt(i) \in Nat /\ ModuleAt(i) >= LowPages
           T == {i \in 1 .. n : ~Good(i)}
           U == {k \in 0 .. n - 1 : ~(ModuleAt(n - k) <= ModuleAt(n))}
<1>4. T = {}
  <2> SUFFICES ASSUME T # {} PROVE FALSE
    OBVIOUS
  <2>1. T \in SUBSET Nat
    BY <1>1
  <2>2. PICK i \in T : \A y \in T : i <= y
    <3> HIDE DEF T
    <3> QED BY <2>1, LeastExists
  <2>3. Good(1)
    BY <1>2, <1>3
  <2>4. i \in Nat /\ i # 1 /\ i - 1 \in 1 .. Len(mods) /\ i - 1 < i /\ i - 1 + 1 = i
        /\ ~Good(i)
    <3> HIDE DEF Good
    <3> QED BY <1>1, <2>2, <2>3
  <2>5. Good(i - 1)
    <3> HIDE DEF Good
    <3> QED BY <1>1, <2>2, <2>4
  <2>6. ModuleAt(i) = ModuleAt(i - 1) + Ceiling(mods[i - 1])
    BY <1>3, <2>4
  <2> QED BY <1>2, <2>4, <2>5, <2>6
<1>5. \A i \in 1 .. n : Good(i)
  <2> HIDE DEF Good
  <2> QED BY <1>4
<1>6. U = {}
  <2> SUFFICES ASSUME U # {} PROVE FALSE
    OBVIOUS
  <2>1. U \in SUBSET Nat
    BY <1>1
  <2>2. PICK k \in U : \A y \in U : k <= y
    <3> HIDE DEF U
    <3> QED BY <2>1, LeastExists
  <2>3. ModuleAt(n - 0) = ModuleAt(n) /\ ModuleAt(n) \in Nat
    BY <1>1, <1>5
  <2>4. k \in Nat /\ k # 0 /\ k - 1 \in 0 .. n - 1
        /\ n - k \in 1 .. Len(mods) /\ n - k + 1 = n - (k - 1)
    BY <1>1, <2>2, <2>3
  <2>5. ModuleAt(n - (k - 1)) <= ModuleAt(n)
    BY <2>2, <2>4
  <2>6. ModuleAt(n - k + 1) = ModuleAt(n - k) + Ceiling(mods[n - k])
    BY <1>3, <2>4
  <2>7. ModuleAt(n - k) \in Nat /\ ModuleAt(n - k + 1) \in Nat /\ Ceiling(mods[n - k]) \in Nat
    BY <1>1, <1>2, <1>5, <2>4
  <2>8. ModuleAt(n - k) <= ModuleAt(n)
    BY <2>3, <2>4, <2>5, <2>6, <2>7
  <2> QED BY <2>2, <2>8
<1>7. ASSUME NEW i \in 1 .. n
      PROVE  ModuleAt(i) <= ModuleAt(n)
  <2>1. n - i \in 0 .. n - 1 /\ n - (n - i) = i
    BY <1>1
  <2> QED BY <1>6, <2>1
<1> QED BY <1>1, <1>2, <1>3, <1>5, <1>7

(* The n lowest clear bits are n.                                          *)
Below(p) == {q \in FreeFrames : q < p}

LEMMA FramesFinite ==
  /\ IsFiniteSet(Frames) /\ Cardinality(Frames) = FisPages
  /\ \A S \in SUBSET Frames : IsFiniteSet(S) /\ Cardinality(S) \in Nat /\ S \in SUBSET Nat
                              /\ Cardinality(S) <= FisPages
<1>1. FisPages \in Nat /\ FisPages > 1
  BY FismemAssumption
<1>2. IsFiniteSet(Frames) /\ Cardinality(Frames) = FisPages
  <2>1. IsFiniteSet(0 .. FisPages - 1) /\ Cardinality(0 .. FisPages - 1) =
          IF 0 > FisPages - 1 THEN 0 ELSE FisPages - 1 - 0 + 1
    BY <1>1, FS_Interval
  <2> QED BY <1>1, <2>1 DEF Frames
<1>3. ASSUME NEW S \in SUBSET Frames
      PROVE  IsFiniteSet(S) /\ Cardinality(S) \in Nat /\ S \in SUBSET Nat
             /\ Cardinality(S) <= FisPages
  <2>1. IsFiniteSet(S) /\ Cardinality(S) <= FisPages
    BY <1>2, FS_Subset
  <2>2. Cardinality(S) \in Nat
    BY <2>1, FS_CardinalityType
  <2> QED BY <2>1, <2>2 DEF Frames
<1> QED BY <1>2, <1>3

LEMMA LowestClearGrows ==
  ASSUME NEW n \in Nat, Cardinality(LowestClear(n)) = n, n < FreeCount
  PROVE  Cardinality(LowestClear(n + 1)) = n + 1
<1> DEFINE F == FreeFrames
           L == LowestClear(n)
<1>1. F \in SUBSET Frames /\ F \in SUBSET Nat /\ IsFiniteSet(F) /\ Cardinality(F) \in Nat
  BY FramesFinite DEF FreeFrames
<1>2. L \in SUBSET F /\ IsFiniteSet(L)
  BY <1>1, FS_Subset DEF LowestClear
<1>3. F \ L # {}
  <2> SUFFICES ASSUME F \ L = {} PROVE FALSE
    OBVIOUS
  <2>1. L = F
    BY <1>2
  <2> QED BY <1>1, <2>1 DEF FreeCount
<1>4. PICK p \in F \ L : \A q \in F \ L : p <= q
  <2>1. F \ L \in SUBSET Nat
    BY <1>1
  <2> HIDE DEF F, L
  <2> QED BY <1>3, <2>1, LeastExists
<1>5. \A S \in SUBSET F : IsFiniteSet(S) /\ Cardinality(S) \in Nat
  BY <1>1, FramesFinite
<1>6. \A q \in F : Below(q) \in SUBSET F /\ (q \in L <=> Cardinality(Below(q)) < n)
  BY DEF Below, LowestClear
<1>7. \A q \in F : \A r \in F : q <= r => Below(q) \subseteq Below(r)
  <2> SUFFICES ASSUME NEW q \in F, NEW r \in F, q <= r, NEW x \in Below(q)
               PROVE  x \in Below(r)
    OBVIOUS
  <2>1. x \in F /\ x < q
    BY DEF Below
  <2>2. x \in Nat /\ q \in Nat /\ r \in Nat
    BY <1>1, <2>1
  <2> QED BY <2>1, <2>2 DEF Below
<1>8. \A q \in F : \A r \in F : q <= r => Cardinality(Below(q)) <= Cardinality(Below(r))
  <2> HIDE DEF F
  <2>1. ASSUME NEW q \in F, NEW r \in F, q <= r
        PROVE  Cardinality(Below(q)) <= Cardinality(Below(r))
    <3>1. Below(q) \subseteq Below(r) /\ IsFiniteSet(Below(r))
      BY <1>5, <1>6, <1>7, <2>1
    <3> QED BY <3>1, FS_Subset
  <2> QED BY <2>1
<1>9. Below(p) = L
  <2>1. Below(p) \subseteq L
    <3> SUFFICES ASSUME NEW q \in Below(p), q \notin L PROVE FALSE
      OBVIOUS
    <3>1. q \in F /\ q < p
      BY DEF Below
    <3>2. q \in Nat /\ p \in Nat /\ p <= q
      BY <1>1, <1>4, <3>1
    <3> QED BY <3>1, <3>2
  <2>2. ASSUME NEW q \in L PROVE q \in Below(p)
    <3>1. q \in F /\ p \in F /\ q \in Nat /\ p \in Nat /\ q # p
      BY <1>1, <1>2, <1>4
    <3>2. ~(p <= q)
      <4> SUFFICES ASSUME p <= q PROVE FALSE
        OBVIOUS
      <4>1. Cardinality(Below(p)) <= Cardinality(Below(q))
        BY <1>8, <3>1
      <4>2. Cardinality(Below(q)) < n /\ ~(Cardinality(Below(p)) < n)
        BY <1>4, <1>6, <3>1, <2>2
      <4>3. Cardinality(Below(q)) \in Nat /\ Cardinality(Below(p)) \in Nat
        BY <1>5, <1>6, <3>1
      <4> QED BY <4>1, <4>2, <4>3
    <3> QED BY <3>1, <3>2 DEF Below
  <2> QED BY <2>1, <2>2
<1>10. LowestClear(n + 1) = L \cup {p}
  <2>1. \A q \in F : q \in LowestClear(n + 1) <=> Cardinality(Below(q)) < n + 1
    BY DEF Below, LowestClear
  <2>2. LowestClear(n + 1) \subseteq F
    BY DEF LowestClear
  <2>3. ASSUME NEW q \in F
        PROVE  q \in LowestClear(n + 1) <=> q \in L \cup {p}
    <3>1. Cardinality(Below(q)) \in Nat /\ q \in Nat /\ p \in Nat /\ p \in F
      BY <1>1, <1>4, <1>5, <1>6
    <3>2. CASE q \in L
      BY <1>6, <2>1, <3>1, <3>2
    <3>3. CASE q = p
      BY <1>9, <2>1, <3>3
    <3>4. CASE q \notin L \cup {p}
      <4>1. p <= q /\ p # q
        BY <1>4, <3>4
      <4>2. L \cup {p} \subseteq Below(q)
        <5>1. Below(p) \subseteq Below(q)
          BY <1>7, <3>1, <4>1
        <5>2. p \in Below(q)
          BY <3>1, <4>1 DEF Below
        <5> QED BY <1>9, <5>1, <5>2
      <4>3. Cardinality(L \cup {p}) = n + 1
        <5>1. IsFiniteSet(L) /\ p \notin L
          BY <1>2, <1>4
        <5>2. Cardinality(L \cup {p}) = Cardinality(L) + 1
          BY <5>1, FS_AddElement
        <5> QED BY <5>2
      <4>4. Cardinality(L \cup {p}) <= Cardinality(Below(q))
        BY <1>5, <1>6, <4>2, FS_Subset
      <4>5. ~(Cardinality(Below(q)) < n + 1)
        BY <3>1, <4>3, <4>4
      <4> QED BY <2>1, <3>4, <4>5
    <3> QED BY <3>2, <3>3, <3>4
  <2> QED BY <1>2, <1>4, <2>2, <2>3
<1> QED BY <1>2, <1>4, <1>10, FS_AddElement

LEMMA LowestClearIs ==
  ASSUME NEW n \in Nat, n <= FreeCount
  PROVE  /\ Cardinality(LowestClear(n)) = n /\ IsFiniteSet(LowestClear(n))
         /\ LowestClear(n) \subseteq Frames /\ LowestClear(n) \cap fis_bitmap = {}
<1> DEFINE T == {k \in 0 .. n : Cardinality(LowestClear(k)) # k}
<1>0. FreeCount \in Nat
  BY FramesFinite DEF FreeCount, FreeFrames
<1>1. T = {}
  <2> SUFFICES ASSUME T # {} PROVE FALSE
    OBVIOUS
  <2>1. PICK k \in T : \A y \in T : k <= y
    <3>1. T \in SUBSET Nat
      OBVIOUS
    <3> HIDE DEF T
    <3> QED BY <3>1, LeastExists
  <2>2. Cardinality(LowestClear(0)) = 0
    <3>1. \A p \in FreeFrames : Cardinality(Below(p)) \in Nat
      BY FramesFinite DEF FreeFrames, Below
    <3>2. \A p \in FreeFrames : ~(Cardinality(Below(p)) < 0)
      BY <3>1
    <3>3. LowestClear(0) = {}
      BY <3>2 DEF LowestClear, Below
    <3> QED BY <3>3, FS_EmptySet
  <2>3. k \in Nat /\ k # 0 /\ k <= n /\ k - 1 \in 0 .. n /\ k - 1 \in Nat /\ k - 1 < k
        /\ k - 1 + 1 = k /\ Cardinality(LowestClear(k)) # k
    BY <2>1, <2>2
  <2>4. Cardinality(LowestClear(k - 1)) = k - 1
    BY <2>1, <2>3
  <2>5. k - 1 < FreeCount
    BY <1>0, <2>3
  <2>6. Cardinality(LowestClear(k - 1 + 1)) = k - 1 + 1
    BY <2>3, <2>4, <2>5, LowestClearGrows
  <2> QED BY <2>3, <2>6
<1>2. n \in 0 .. n
  OBVIOUS
<1>3. LowestClear(n) \subseteq Frames /\ LowestClear(n) \cap fis_bitmap = {}
  BY LowestClearIsFree DEF FreeFrames
<1>4. IsFiniteSet(LowestClear(n))
  BY <1>3, FramesFinite
<1> QED BY <1>1, <1>2, <1>3, <1>4

(* The counter, after c pages are subtracted of which some were free.      *)
LEMMA WrapUnique ==
  ASSUME NEW u \in Nat \ {0}, NEW q \in Int, NEW r \in 0 .. u - 1
  PROVE  (u * q + r) % u = r
BY SMT

Told(free, more, counter) == \E q \in Int : free + 1 - more = UWrap * q + counter

LEMMA ToldIs ==
  ASSUME NEW free \in Nat, NEW more \in Nat, NEW counter \in 0 .. UWrap - 1,
         Told(free, more, counter)
  PROVE  counter = (free + 1 - more) % UWrap
<1>1. PICK q \in Int : free + 1 - more = UWrap * q + counter
  BY DEF Told
<1>2. UWrap \in Nat \ {0}
  BY FismemAssumption
<1>3. (UWrap * q + counter) % UWrap = counter
  BY <1>2, WrapUnique
<1> QED BY <1>1, <1>3

LEMMA ToldMinus ==
  ASSUME NEW free \in Nat, NEW more \in Nat, NEW counter \in 0 .. UWrap - 1,
         Told(free, more, counter), NEW c \in 0 .. UWrap - 1,
         NEW free1 \in Nat, NEW more1 \in Nat, free1 - more1 = free - more - c
  PROVE  Minus(counter, c) \in 0 .. UWrap - 1 /\ Told(free1, more1, Minus(counter, c))
<1>1. PICK q \in Int : free + 1 - more = UWrap * q + counter
  BY DEF Told
<1>2. UWrap \in Nat
  BY FismemAssumption
<1>3. CASE counter >= c
  <2>1. Minus(counter, c) = counter - c
    BY <1>3 DEF Minus
  <2>2. free1 + 1 - more1 = UWrap * q + (counter - c)
    BY <1>1, <1>2
  <2>3. counter - c \in 0 .. UWrap - 1
    BY <1>2, <1>3
  <2>4. Told(free1, more1, counter - c)
    BY <2>2 DEF Told
  <2> QED BY <2>1, <2>3, <2>4
<1>4. CASE ~(counter >= c)
  <2>1. Minus(counter, c) = counter - c + UWrap
    BY <1>4 DEF Minus
  <2>2. UWrap * q = UWrap * (q - 1) + UWrap
    BY <1>1, <1>2
  <2>3. free1 + 1 - more1 = UWrap * (q - 1) + (counter - c + UWrap) /\ q - 1 \in Int
    BY <1>1, <1>2, <2>2
  <2>4. counter - c + UWrap \in 0 .. UWrap - 1
    BY <1>2, <1>4
  <2>5. Told(free1, more1, counter - c + UWrap)
    BY <2>3 DEF Told
  <2> QED BY <2>1, <2>4, <2>5
<1> QED BY <1>3, <1>4

(* Every page that leaves the free ones leaves the counter, and a page     *)
(* reserved again leaves it once more; what boot maps and hands out is     *)
(* memory, and a page table stands behind every directory entry but the    *)
(* first.                                                                  *)
ValueInv ==
  /\ fis_bitmap \subseteq Frames /\ again \in Nat
  /\ fis_freepages \in 0 .. UWrap - 1
  /\ Booting => Told(FreeCount, again, fis_freepages)
  /\ pc \in Unread => again = 0
MapInv ==
  /\ identity \subseteq Frames \ {0} /\ tables \subseteq Frames /\ entries \subseteq Frames
  /\ Cardinality(tables) = Cardinality(entries) - 1
IndexInv ==
  /\ ModuleAt(Len(mods) + 1) <= FisPages
  /\ Len(homes) <= Len(mods)
  /\ pc = "mmap" => at # 0
  /\ pc \in {"copy", "allocate"} => Len(homes) = at - 1 /\ at <= Len(mods) + 1
  /\ pc = "release" => Len(homes) = at
CountInv == ValueInv /\ MapInv /\ IndexInv

LEMMA FreeCountTyped == FreeCount \in Nat /\ FreeCount <= FisPages
BY FramesFinite DEF FreeCount, FreeFrames

LEMMA LowTyped ==
  /\ LowPages \in Nat /\ LowPages >= 2 /\ InfoPage \in Nat /\ InfoPage < LowPages
  /\ \A k \in KernelSizes :
       k \in Nat /\ k \div PageSize \in Nat /\ LowPages + k \div PageSize + 1 < FisPages
<1>1. /\ LowPages \in Nat /\ InfoPage \in 1 .. LowPages - 1
      /\ PageSize \in Nat \ {0} /\ TableEntries \in Nat /\ TableEntries <= FisPages
      /\ FisPages \in Nat
  BY BootMemAssumption, FismemAssumption
<1>2. ASSUME NEW k \in KernelSizes
      PROVE  k \in Nat /\ k \div PageSize \in Nat /\ LowPages + k \div PageSize + 1 < FisPages
  <2>1. k \in Nat /\ LowPages + k \div PageSize + 1 < TableEntries
    BY BootMemAssumption
  <2>2. k \div PageSize \in Nat
    BY <1>1, <2>1, SMT
  <2> QED BY <1>1, <2>1, <2>2
<1> QED BY <1>1, <1>2

(* A step that gives S, which is clear, away.                              *)
LEMMA TakenCounts ==
  ASSUME ValueInv, Booting, NEW S \in SUBSET Frames, S \cap fis_bitmap = {}, Taken(S),
         pc' \notin Unread, again' = again
  PROVE  ValueInv'
<1>1. fis_bitmap' = fis_bitmap \cup S /\ fis_freepages' = Minus(fis_freepages, Cardinality(S))
  BY DEF Taken
<1>2. fis_bitmap' \subseteq Frames /\ fis_bitmap # {}
  BY <1>1 DEF ValueInv, Booting
<1>3. /\ IsFiniteSet(S) /\ Cardinality(S) \in Nat /\ Cardinality(S) <= FisPages
      /\ IsFiniteSet(FreeFrames)
  BY FramesFinite DEF FreeFrames
<1>4. FreeCount' = FreeCount - Cardinality(S)
  <2>1. FreeFrames' = FreeFrames \ S /\ FreeFrames \cap S = S
    BY <1>1 DEF FreeFrames
  <2>2. Cardinality(FreeFrames \ S) = Cardinality(FreeFrames) - Cardinality(S)
    BY <1>3, <2>1, FS_Difference
  <2> QED BY <2>1, <2>2 DEF FreeCount
<1>5. FreeCount \in Nat /\ FreeCount' \in Nat
  <2>1. FreeFrames' \in SUBSET Frames
    BY DEF FreeFrames, Frames
  <2> QED BY <2>1, FreeCountTyped, FramesFinite DEF FreeCount
<1>6. Cardinality(S) \in 0 .. UWrap - 1
  BY <1>3, FismemAssumption
<1>7. FreeCount' - again = FreeCount - again - Cardinality(S)
  BY <1>3, <1>4, <1>5 DEF ValueInv
<1>8. fis_freepages' \in 0 .. UWrap - 1 /\ Told(FreeCount', again, fis_freepages')
  BY <1>1, <1>2, <1>5, <1>6, <1>7, ToldMinus DEF ValueInv
<1> QED BY <1>2, <1>8 DEF ValueInv

(* An accepted fis_manual_alloc.                                           *)
LEMMA ReserveCounts ==
  ASSUME ValueInv, Booting, NEW page \in Nat, NEW count \in Nat,
         ManualAllocAccepts(page, count), Reserve(page, count), pc' \notin Unread
  PROVE  ValueInv'
<1> DEFINE P == PageRange(page, count)
<1>0. FisPages \in Nat /\ UWrap \in Nat /\ UWrap > FisPages + 2
  BY FismemAssumption
<1>1. /\ fis_bitmap' = fis_bitmap \cup P /\ fis_freepages' = Minus(fis_freepages, count)
      /\ again' = again + Cardinality(P \cap fis_bitmap)
  BY DEF Reserve, fis_manual_alloc
<1>2. page + count < FisPages
  BY DEF ManualAllocAccepts
<1>3. P \subseteq Frames
  BY <1>0, <1>2 DEF PageRange, Frames
<1>4. Cardinality(P) = count
  <2>1. page \in Int /\ page + count - 1 \in Int
    OBVIOUS
  <2>2. Cardinality(page .. page + count - 1) =
          IF page > page + count - 1 THEN 0 ELSE page + count - 1 - page + 1
    BY <2>1, FS_Interval
  <2> QED BY <2>2 DEF PageRange
<1> HIDE DEF P
<1>5. fis_bitmap' \subseteq Frames
  BY <1>1, <1>3 DEF ValueInv
<1>6. /\ IsFiniteSet(P) /\ Cardinality(P \cap fis_bitmap) \in Nat
      /\ IsFiniteSet(FreeFrames) /\ Cardinality(FreeFrames \cap P) \in Nat
  BY <1>3, FramesFinite DEF FreeFrames
<1>7. FreeCount' = FreeCount - Cardinality(FreeFrames \cap P)
  <2>1. FreeFrames' = FreeFrames \ P
    BY <1>1 DEF FreeFrames
  <2>2. Cardinality(FreeFrames \ P) = Cardinality(FreeFrames) - Cardinality(FreeFrames \cap P)
    BY <1>6, FS_Difference
  <2> QED BY <2>1, <2>2 DEF FreeCount
<1>8. Cardinality(FreeFrames \cap P) = count - Cardinality(P \cap fis_bitmap)
  <2>1. FreeFrames \cap P = P \ fis_bitmap
    BY <1>3 DEF FreeFrames
  <2>2. Cardinality(P \ fis_bitmap) = Cardinality(P) - Cardinality(P \cap fis_bitmap)
    BY <1>6, FS_Difference
  <2> QED BY <1>4, <2>1, <2>2
<1>9. FreeCount \in Nat /\ FreeCount' \in Nat
  <2>1. FreeFrames' \in SUBSET Frames
    BY DEF FreeFrames, Frames
  <2> QED BY <2>1, FreeCountTyped, FramesFinite DEF FreeCount
<1>10. again \in Nat /\ again' \in Nat /\ FreeCount' - again' = FreeCount - again - count
  BY <1>1, <1>6, <1>7, <1>8, <1>9 DEF ValueInv
<1>11. count \in 0 .. UWrap - 1
  BY <1>0, <1>2
<1>12. fis_freepages' \in 0 .. UWrap - 1 /\ Told(FreeCount', again', fis_freepages')
  BY <1>1, <1>9, <1>10, <1>11, ToldMinus DEF ValueInv
<1> QED BY <1>5, <1>10, <1>12 DEF ValueInv

(* A step that takes nothing.                                              *)
LEMMA ValueSame ==
  ASSUME ValueInv, UNCHANGED <<fis_bitmap, fis_freepages, again>>, pc' \in Unread => pc \in Unread
  PROVE  ValueInv'
<1>1. FreeCount' = FreeCount /\ Booting' = Booting
  BY DEF FreeCount, FreeFrames, Booting
<1> QED BY <1>1 DEF ValueInv

LEMMA MapSame ==
  ASSUME MapInv, UNCHANGED <<tables, entries>>, identity' \subseteq identity
  PROVE  MapInv'
BY DEF MapInv

LEMMA IndexSame ==
  ASSUME IndexInv, Given, UNCHANGED homes,
         \/ pc' \notin {"mmap", "copy", "allocate", "release"}
         \/ at' = at /\ pc = pc'
         \/ at' = at /\ pc = "copy" /\ pc' = "allocate"
  PROVE  IndexInv'
<1>1. ModuleAt(Len(mods) + 1)' = ModuleAt(Len(mods) + 1)
  BY DEF Given, ModuleAt
<1> QED BY <1>1 DEF IndexInv, Given

(* One lemma per action that counts.                                       *)
LEMMA ReserveKernelCounts ==
  ASSUME KeptInv, CountInv, ReserveKernel
  PROVE  CountInv'
<1>1. /\ pc = "start" /\ pc' = "mmap" /\ Given /\ UNCHANGED <<at, again>>
      /\ UNCHANGED <<identity, entries, tables, homes>>
      /\ fis_bitmap' = Low \cup KernelPages
      /\ fis_freepages' = Minus(FisPages, LowPages + KernelSize)
  BY DEF ReserveKernel, Given, given, handed
<1>2. at = 1 /\ again = 0
  BY <1>1 DEF KeptInv, ShapeInv, CountInv, ValueInv, Unread
<1>3. /\ LowPages \in Nat /\ KernelSize \in Nat /\ LowPages + KernelSize < FisPages
      /\ FisPages \in Nat /\ UWrap \in Nat /\ UWrap > FisPages + 2
  <2>1. kernel \in KernelSizes
    BY DEF KeptInv, ShapeInv
  <2> QED BY <2>1, LowTyped, FismemAssumption DEF KernelSize
<1>4. fis_bitmap' = 0 .. LowPages + KernelSize
  <2>1. Low \cup KernelPages = 0 .. LowPages + KernelSize
    <3> HIDE DEF KernelSize
    <3> QED BY <1>3 DEF Low, KernelPages
  <2> QED BY <1>1, <2>1
<1> HIDE DEF KernelSize
<1>5. fis_bitmap' \subseteq Frames
  BY <1>3, <1>4 DEF Frames
<1>6. FreeCount' = FisPages - (LowPages + KernelSize) - 1 /\ FreeCount' \in Nat
  <2>1. FreeFrames' = LowPages + KernelSize + 1 .. FisPages - 1
    BY <1>3, <1>4 DEF FreeFrames, Frames
  <2>2. LowPages + KernelSize + 1 \in Int /\ FisPages - 1 \in Int
    BY <1>3
  <2>3. Cardinality(LowPages + KernelSize + 1 .. FisPages - 1) =
          IF LowPages + KernelSize + 1 > FisPages - 1 THEN 0
          ELSE FisPages - 1 - (LowPages + KernelSize + 1) + 1
    BY <2>2, FS_Interval
  <2>4. Cardinality(LowPages + KernelSize + 1 .. FisPages - 1) =
          FisPages - (LowPages + KernelSize) - 1
    BY <1>3, <2>3
  <2> QED BY <1>3, <2>1, <2>4 DEF FreeCount
<1>7. fis_freepages' = FreeCount' + 1 /\ fis_freepages' \in 0 .. UWrap - 1
  BY <1>1, <1>3, <1>6 DEF Minus
<1>8. Told(FreeCount', 0, fis_freepages')
  <2>1. FreeCount' + 1 - 0 = UWrap * 0 + fis_freepages'
    BY <1>3, <1>6, <1>7
  <2> QED BY <2>1 DEF Told
<1>9. ValueInv'
  BY <1>1, <1>2, <1>5, <1>7, <1>8 DEF ValueInv, Unread
<1>10. MapInv'
  BY <1>1, MapSame DEF CountInv
<1>11. IndexInv'
  <2>1. ModuleAt(Len(mods) + 1)' = ModuleAt(Len(mods) + 1)
    BY <1>1 DEF Given, ModuleAt
  <2> QED BY <1>1, <1>2, <2>1 DEF CountInv, IndexInv, Given
<1> QED BY <1>9, <1>10, <1>11 DEF CountInv

LEMMA BootingWhen ==
  ASSUME KeptInv, pc \notin Unread \cup {"panic"}
  PROVE  Booting
<1>1. LowPages \in Nat /\ LowPages >= 2
  BY LowTyped
<1>2. 0 \in Low
  BY <1>1 DEF Low
<1> QED BY <1>2 DEF KeptInv, KernelInv, Unread, Reserved, Booting

LEMMA ClippedTyped ==
  ASSUME NEW x \in Nat
  PROVE  Clipped(x) \in Nat /\ Clipped(x) \div PageSize \in Nat /\ PagesIn(Clipped(x)) \in Nat
<1>1. SizeWrap \in Nat \ {0} /\ PageSize \in Nat \ {0}
  BY BootMemAssumption
<1>2. Clipped(x) \in Nat
  BY <1>1 DEF Clipped
<1> HIDE DEF Clipped
<1>3. Clipped(x) \div PageSize \in Nat
  BY <1>1, <1>2, SMT
<1> QED BY <1>2, <1>3, PagesTyped

LEMMA ReserveRegionCounts ==
  ASSUME KeptInv, CountInv, ReserveRegion
  PROVE  CountInv'
<1>1. /\ pc = "mmap" /\ pc' = "mmap" /\ Given /\ at' = at + 1
      /\ UNCHANGED <<identity, entries, tables, homes>>
      /\ at \in 1 .. Len(mmap)
  <2>1. /\ at \in Nat /\ at # 0 /\ at <= Len(mmap)
        /\ mmap \in Seq([base : Nat, length : Nat, usable : BOOLEAN])
    BY BootMemAssumption DEF KeptInv, ShapeInv, CountInv, IndexInv, ReserveRegion
  <2>2. at \in 1 .. Len(mmap)
    BY <2>1
  <2> QED BY <2>2 DEF ReserveRegion, Given, given, handed
<1>2. mmap[at].base \in Nat /\ mmap[at].length \in Nat
  <2> DEFINE R == [base : Nat, length : Nat, usable : BOOLEAN]
  <2>1. mmap \in Seq(R)
    BY BootMemAssumption DEF KeptInv, ShapeInv
  <2>2. mmap[at] \in R
    <3> HIDE DEF R
    <3> QED BY <1>1, <2>1
  <2> QED BY <2>2
<1> DEFINE page == Clipped(mmap[at].base) \div PageSize
           count == PagesIn(Clipped(mmap[at].length))
<1>3. page \in Nat /\ count \in Nat
  BY <1>2, ClippedTyped
<1>4. \/ ManualAllocAccepts(page, count) /\ Reserve(page, count)
      \/ UNCHANGED <<fis_bitmap, fis_freepages, again>>
  BY DEF ReserveRegion, fismemVars
<1>5. Booting
  BY <1>1, BootingWhen DEF Unread
<1> HIDE DEF page, count
<1>6. ValueInv'
  <2>1. CASE ManualAllocAccepts(page, count) /\ Reserve(page, count)
    BY <1>1, <1>3, <1>5, <2>1, ReserveCounts DEF CountInv, Unread
  <2>2. CASE UNCHANGED <<fis_bitmap, fis_freepages, again>>
    BY <1>1, <2>2, ValueSame DEF CountInv
  <2> QED BY <1>4, <2>1, <2>2
<1>7. MapInv'
  BY <1>1, MapSame DEF CountInv
<1>8. IndexInv'
  <2>1. ModuleAt(Len(mods) + 1)' = ModuleAt(Len(mods) + 1)
    BY <1>1 DEF Given, ModuleAt
  <2>2. at' # 0
    BY <1>1
  <2> QED BY <1>1, <2>1, <2>2 DEF CountInv, IndexInv, Given
<1> QED BY <1>6, <1>7, <1>8 DEF CountInv

LEMMA PrepareCounts ==
  ASSUME KeptInv, CountInv, Prepare
  PROVE  CountInv'
<1>1. /\ pc = "prepare" /\ pc' \in {"prepare", "desc"} /\ Given
      /\ UNCHANGED <<identity, entries, tables, homes>>
      /\ ManualAllocAccepts(PreparedAt(at), PreparedCount(at))
      /\ Reserve(PreparedAt(at), PreparedCount(at))
  BY DEF Prepare, Given, given, handed
<1>2. PreparedAt(at) \in Nat /\ PreparedCount(at) \in Nat
  <2>1. CASE at = 0
    BY <2>1, LowTyped DEF PreparedAt, PreparedCount
  <2>2. CASE at # 0
    <3>1. at \in 1 .. Len(mods)
      BY <1>1, <2>2 DEF KeptInv, ShapeInv
    <3>2. ModuleAt(at) \in Nat /\ mods[at] \in Nat
      BY <3>1, ModulesFollow DEF KeptInv
    <3> QED BY <2>2, <3>2, PagesTyped DEF PreparedAt, PreparedCount
  <2> QED BY <2>1, <2>2
<1>3. Booting
  BY <1>1, BootingWhen DEF Unread
<1>4. ValueInv'
  BY <1>1, <1>2, <1>3, ReserveCounts DEF CountInv, Unread
<1>5. MapInv'
  BY <1>1, MapSame DEF CountInv
<1>6. IndexInv'
  BY <1>1, IndexSame DEF CountInv
<1> QED BY <1>4, <1>5, <1>6 DEF CountInv

LEMMA InitDescCounts ==
  ASSUME KeptInv, CountInv, InitDesc
  PROVE  CountInv'
<1>1. /\ pc = "desc" /\ pc' = "copy" /\ at' = 1 /\ Given
      /\ UNCHANGED <<identity, entries, tables, homes, again>>
  BY DEF InitDesc, Given, given
<1>2. Booting
  BY <1>1, BootingWhen DEF Unread
<1>3. PICK extra \in Extras : 1 + extra <= FreeCount /\ Taken(LowestClear(1 + extra))
  BY DEF InitDesc, Allocates
<1>4. 1 + extra \in Nat
  BY BootMemAssumption
<1>5. LowestClear(1 + extra) \in SUBSET Frames /\ LowestClear(1 + extra) \cap fis_bitmap = {}
  BY <1>3, <1>4, LowestClearIs
<1>6. ValueInv'
  BY <1>1, <1>2, <1>3, <1>5, TakenCounts DEF CountInv, Unread
<1>7. MapInv'
  BY <1>1, MapSame DEF CountInv
<1>8. IndexInv'
  <2>1. ModuleAt(Len(mods) + 1)' = ModuleAt(Len(mods) + 1)
    BY <1>1 DEF Given, ModuleAt
  <2>2. homes = <<>> /\ Len(mods) \in Nat
    BY <1>1 DEF KeptInv, HandedInv, NothingHanded, Early, ShapeInv
  <2> QED BY <1>1, <2>1, <2>2 DEF CountInv, IndexInv, Given
<1> QED BY <1>6, <1>7, <1>8 DEF CountInv

LEMMA EntriesNeededIs ==
  ASSUME KeptInv, CountInv, NEW i \in 1 .. Len(mods)
  PROVE  /\ ModulePages(i) \subseteq Frames \ {0}
         /\ EntriesNeeded(i) \subseteq Frames /\ EntriesNeeded(i) \cap entries = {}
         /\ Cardinality(EntriesNeeded(i)) \in Nat
<1>0. FisPages \in Nat /\ TableEntries \in Nat \ {0} /\ LowPages \in Nat /\ LowPages >= 2
  BY BootMemAssumption, FismemAssumption, LowTyped
<1>1. /\ ModuleAt(i) \in Nat /\ ModuleAt(i) >= LowPages /\ Ceiling(mods[i]) \in Nat
      /\ ModuleAt(i) + Ceiling(mods[i]) <= FisPages
  <2>1. Len(mods) \in Nat /\ i \in 1 .. Len(mods) + 1 /\ i + 1 \in 1 .. Len(mods) + 1
    BY DEF KeptInv, ShapeInv
  <2>2. /\ ModuleAt(i) \in Nat /\ ModuleAt(i) >= LowPages /\ Ceiling(mods[i]) \in Nat
        /\ ModuleAt(i) + Ceiling(mods[i]) = ModuleAt(i + 1)
    BY <2>1, ModulesFollow DEF KeptInv
  <2>3. /\ ModuleAt(i + 1) \in Nat /\ ModuleAt(Len(mods) + 1) \in Nat
        /\ ModuleAt(i + 1) <= ModuleAt(Len(mods) + 1)
    BY <2>1, ModulesFollow DEF KeptInv
  <2>4. ModuleAt(Len(mods) + 1) <= FisPages
    BY DEF CountInv, IndexInv
  <2> QED BY <1>0, <2>2, <2>3, <2>4
<1>2. ModulePages(i) \subseteq Frames \ {0}
  BY <1>0, <1>1 DEF ModulePages, PageRange, Frames
<1>3. \A p \in Frames : p \div TableEntries \in Frames
  <2> SUFFICES ASSUME NEW p \in Nat, p < FisPages
               PROVE  p \div TableEntries \in Nat /\ p \div TableEntries <= p
    BY <1>0, SMT DEF Frames
  <2> QED BY <1>0, SMT
<1>4. EntriesNeeded(i) \subseteq Frames
  BY <1>2, <1>3 DEF EntriesNeeded
<1> QED BY <1>2, <1>4, FramesFinite DEF EntriesNeeded

LEMMA MapModuleCounts ==
  ASSUME KeptInv, CountInv, MapModule
  PROVE  CountInv'
<1>1. /\ pc = "copy" /\ pc' = "allocate" /\ at <= Len(mods) /\ Given
      /\ UNCHANGED <<at, desc, homes, again>>
  BY DEF MapModule, Given, given
<1>2. Booting /\ at \in 1 .. Len(mods)
  BY <1>1, BootingWhen DEF Unread, KeptInv, ShapeInv
<1> DEFINE E == EntriesNeeded(at)
           S == LowestClear(Cardinality(E))
<1>3. /\ Cardinality(E) <= FreeCount /\ Taken(S) /\ tables' = tables \cup S
      /\ entries' = entries \cup E /\ identity' = identity \cup ModulePages(at)
  BY DEF MapModule
<1>4. /\ ModulePages(at) \subseteq Frames \ {0} /\ E \subseteq Frames /\ E \cap entries = {}
      /\ Cardinality(E) \in Nat
  BY <1>2, EntriesNeededIs
<1>5. /\ Cardinality(S) = Cardinality(E)
      /\ S \in SUBSET Frames /\ S \cap fis_bitmap = {}
  BY <1>3, <1>4, LowestClearIs
<1>6. S \cap tables = {}
  BY <1>5 DEF KeptInv, HandedInv, Handed
<1> HIDE DEF E, S
<1>7. ValueInv'
  BY <1>1, <1>2, <1>3, <1>5, TakenCounts DEF CountInv, Unread
<1>8. MapInv'
  <2>1. tables \in SUBSET Frames /\ entries \in SUBSET Frames
    BY DEF CountInv, MapInv
  <2>2. /\ IsFiniteSet(S) /\ IsFiniteSet(E) /\ IsFiniteSet(tables) /\ IsFiniteSet(entries)
        /\ Cardinality(S) \in Nat /\ Cardinality(tables) \in Nat /\ Cardinality(entries) \in Nat
    BY <1>4, <1>5, <2>1, FramesFinite
  <2>3. Cardinality(tables') = Cardinality(tables) + Cardinality(S)
    <3>1. Cardinality(tables \cup S) =
            Cardinality(tables) + Cardinality(S) - Cardinality(tables \cap S)
      BY <2>2, FS_Union
    <3>2. Cardinality(tables \cap S) = 0
      BY <1>6, FS_EmptySet
    <3> QED BY <1>3, <2>2, <3>1, <3>2
  <2>4. Cardinality(entries') = Cardinality(entries) + Cardinality(E)
    <3>1. Cardinality(entries \cup E) =
            Cardinality(entries) + Cardinality(E) - Cardinality(entries \cap E)
      BY <2>2, FS_Union
    <3>2. Cardinality(entries \cap E) = 0
      BY <1>4, FS_EmptySet
    <3> QED BY <1>3, <1>4, <2>2, <3>1, <3>2
  <2>5. Cardinality(tables') = Cardinality(entries') - 1
    BY <1>5, <2>2, <2>3, <2>4 DEF CountInv, MapInv
  <2>6. identity' \subseteq Frames \ {0} /\ tables' \subseteq Frames /\ entries' \subseteq Frames
    BY <1>3, <1>4, <1>5 DEF CountInv, MapInv
  <2> QED BY <2>5, <2>6 DEF MapInv
<1>9. IndexInv'
  BY <1>1, IndexSame DEF CountInv
<1> QED BY <1>7, <1>8, <1>9 DEF CountInv

LEMMA CopyModuleCounts ==
  ASSUME KeptInv, CountInv, CopyModule
  PROVE  CountInv'
<1>1. /\ pc = "allocate" /\ pc' = "release" /\ Given
      /\ UNCHANGED <<at, identity, entries, tables, again>>
  BY DEF CopyModule, Given, given
<1>2. Booting /\ at \in 1 .. Len(mods) /\ Len(mods) \in Nat
  BY <1>1, BootingWhen DEF Unread, KeptInv, ShapeInv
<1>3. PICK extra \in Extras :
        LET n == PagesIn(mods[at]) IN
        /\ n + extra <= FreeCount /\ Taken(LowestClear(n + extra))
        /\ homes' = Append(homes, LowestClear(n + extra))
  BY DEF CopyModule, Allocates
<1> DEFINE n == PagesIn(mods[at]) + extra
<1>4. n \in Nat
  <2>1. mods[at] \in Nat
    BY <1>2 DEF KeptInv, ShapeInv
  <2>2. PagesIn(mods[at]) \in Nat /\ extra \in Nat
    BY <2>1, PagesTyped, BootMemAssumption
  <2> QED BY <2>2
<1>5. LowestClear(n) \in SUBSET Frames /\ LowestClear(n) \cap fis_bitmap = {}
  <2>1. n <= FreeCount
    BY <1>3
  <2> HIDE DEF n
  <2> QED BY <1>4, <2>1, LowestClearIs
<1>6. ValueInv'
  <2>1. Taken(LowestClear(n))
    BY <1>3
  <2> HIDE DEF n
  <2> QED BY <1>1, <1>2, <1>5, <2>1, TakenCounts DEF CountInv, Unread
<1>7. MapInv'
  BY <1>1, MapSame DEF CountInv
<1>8. IndexInv'
  <2>1. ModuleAt(Len(mods) + 1)' = ModuleAt(Len(mods) + 1)
    BY <1>1 DEF Given, ModuleAt
  <2>2. homes \in Seq(SUBSET Frames) /\ Len(homes) = at - 1
    BY <1>1 DEF KeptInv, ShapeInv, CountInv, IndexInv
  <2>3. Len(homes') = at
    <3>1. homes' = Append(homes, LowestClear(n))
      BY <1>3
    <3> HIDE DEF n
    <3> QED BY <1>2, <1>5, <2>2, <3>1
  <2> QED BY <1>1, <1>2, <2>1, <2>3 DEF CountInv, IndexInv, Given
<1> QED BY <1>6, <1>7, <1>8 DEF CountInv

LEMMA ReleaseModuleCounts ==
  ASSUME KeptInv, CountInv, ReleaseModule
  PROVE  CountInv'
<1>1. /\ pc = "release" /\ pc' = "copy" /\ at' = at + 1 /\ Given
      /\ UNCHANGED <<entries, tables, homes, again>> /\ identity' \subseteq identity
  BY DEF ReleaseModule, Given, given, Unmapped
<1>2. at \in 1 .. Len(mods) /\ Len(mods) \in Nat
  BY <1>1 DEF KeptInv, ShapeInv
<1>3. UNCHANGED <<fis_bitmap, fis_freepages>>
  <2>1. mods[at] \in Nat
    BY <1>2 DEF KeptInv, ShapeInv
  <2>2. PagesIn(mods[at]) \in Nat
    BY <2>1, PagesTyped
  <2>3. KernelVirtual \in Nat /\ FisPages \in Nat /\ FisPages <= KernelVirtual /\ UWrap \in Nat
    BY BootMemAssumption, FismemAssumption
  <2>4. CASE PagesIn(mods[at]) = 0
    <3>1. PageRange(KernelVirtual, 0) = {}
      BY <2>3 DEF PageRange
    <3>2. Plus(fis_freepages, 0) = fis_freepages
      BY <2>3 DEF Plus, CountInv, ValueInv
    <3> QED BY <2>4, <3>1, <3>2 DEF ReleaseModule, fis_manual_free, fismemVars
  <2>5. CASE PagesIn(mods[at]) # 0
    <3>1. ~(KernelVirtual + PagesIn(mods[at]) <= FisPages)
      BY <2>2, <2>3, <2>5
    <3> QED BY <3>1 DEF ReleaseModule, fis_manual_free, fismemVars
  <2> QED BY <2>4, <2>5
<1>4. ValueInv'
  BY <1>1, <1>3, ValueSame DEF CountInv, Unread
<1>5. MapInv'
  BY <1>1, MapSame DEF CountInv
<1>6. IndexInv'
  <2>1. ModuleAt(Len(mods) + 1)' = ModuleAt(Len(mods) + 1)
    BY <1>1 DEF Given, ModuleAt
  <2>2. Len(homes) = at' - 1 /\ at' <= Len(mods) + 1
    BY <1>1, <1>2 DEF CountInv, IndexInv
  <2> QED BY <1>1, <2>1, <2>2 DEF CountInv, IndexInv, Given
<1> QED BY <1>4, <1>5, <1>6 DEF CountInv

LEMMA QuietCounts ==
  ASSUME KeptInv, CountInv,
         \/ MultibootCheck \/ TooSmall \/ RegionsReserved \/ PrepareRefused
         \/ AllocationRefused \/ MemoryLost \/ ModulesCopied \/ UNCHANGED bootVars
  PROVE  CountInv'
<1>1. Given /\ UNCHANGED <<fis_bitmap, fis_freepages, again, identity, entries, tables, homes>>
  BY DEF MultibootCheck, TooSmall, RegionsReserved, PrepareRefused, AllocationRefused,
         MemoryLost, ModulesCopied, bootVars, fismemVars, given, handed, Given
<1>2. \/ pc' = pc /\ at' = at
      \/ pc = "check" /\ pc' \in {"start", "wild"}
      \/ pc' \in {"panic", "desc", "prepare", "lost", "done"}
  BY DEF MultibootCheck, TooSmall, RegionsReserved, PrepareRefused, AllocationRefused,
         MemoryLost, ModulesCopied, bootVars
<1>3. ValueInv'
  BY <1>1, <1>2, ValueSame DEF CountInv, Unread
<1>4. MapInv'
  BY <1>1, MapSame DEF CountInv
<1>5. IndexInv'
  BY <1>1, <1>2, IndexSame DEF CountInv
<1> QED BY <1>3, <1>4, <1>5 DEF CountInv

LEMMA InitCounts == Init => CountInv
<1> SUFFICES ASSUME Init PROVE CountInv
  OBVIOUS
<1>1. FisPages \in Nat /\ FisPages > 1 /\ UWrap \in Nat /\ UWrap > FisPages + 2
      /\ LowPages \in Nat /\ LowPages < FisPages
  <2>1. kernel \in KernelSizes
    BY DEF Init
  <2> QED BY <2>1, LowTyped, FismemAssumption
<1>2. ValueInv
  BY <1>1 DEF Init, ValueInv, Booting
<1>3. MapInv
  <2>1. Low \ {0} \subseteq Frames \ {0} /\ {0} \subseteq Frames
    BY <1>1 DEF Low, Frames
  <2>2. Cardinality({}) = 0 /\ Cardinality({0}) = 1
    BY FS_EmptySet, FS_Singleton
  <2> QED BY <2>1, <2>2 DEF Init, MapInv
<1>4. IndexInv
  <2>1. mods \in Seq(Nat \ {0}) /\ Len(<<>>) = 0
    BY BootMemAssumption DEF Init
  <2>2. Len(mods) \in Nat
    BY <2>1
  <2> QED BY <2>1, <2>2 DEF Init, IndexInv
<1> QED BY <1>2, <1>3, <1>4 DEF CountInv

LEMMA StepCounts ==
  ASSUME KeptInv, CountInv, [Next]_bootVars
  PROVE  CountInv'
<1>1. CASE ReserveKernel
  BY <1>1, ReserveKernelCounts
<1>2. CASE ReserveRegion
  BY <1>2, ReserveRegionCounts
<1>3. CASE Prepare
  BY <1>3, PrepareCounts
<1>4. CASE InitDesc
  BY <1>4, InitDescCounts
<1>5. CASE MapModule
  BY <1>5, MapModuleCounts
<1>6. CASE CopyModule
  BY <1>6, CopyModuleCounts
<1>7. CASE ReleaseModule
  BY <1>7, ReleaseModuleCounts
<1>8. CASE \/ MultibootCheck \/ TooSmall \/ RegionsReserved \/ PrepareRefused
           \/ AllocationRefused \/ MemoryLost \/ ModulesCopied \/ UNCHANGED bootVars
  BY <1>8, QuietCounts
<1> QED BY <1>1, <1>2, <1>3, <1>4, <1>5, <1>6, <1>7, <1>8 DEF Next

LEMMA BootCounts == Spec => [](KeptInv /\ CountInv)
<1>1. Init => KeptInv /\ CountInv
  BY InitKept, InitCounts
<1>2. KeptInv /\ CountInv /\ [Next]_bootVars => (KeptInv /\ CountInv)'
  BY KeptStep, StepCounts
<1> QED BY <1>1, <1>2, PTL DEF Spec

(* Types, for every machine: page 0 stays reserved, nothing past the end   *)
(* of memory is reserved, mapped on itself or made a page table, and there *)
(* is one page table more for each directory entry identity_mapping adds.  *)
THEOREM BootTyped == Spec => []TypeOK
<1>1. KeptInv /\ CountInv => TypeOK
  <2> SUFFICES ASSUME KeptInv, CountInv PROVE TypeOK
    OBVIOUS
  <2>1. FismemTypeOK
    <3>1. Frames \subseteq BitmapBits
      BY FismemAssumption DEF Frames, BitmapBits
    <3> QED BY <3>1 DEF FismemTypeOK, CountInv, ValueInv
  <2>2. Booting => 0 \in fis_bitmap
    <3>1. 0 \in Low
      BY LowTyped DEF Low
    <3> QED BY <3>1 DEF KeptInv, KernelInv, Booting, Reserved
  <2> QED BY <2>1, <2>2 DEF TypeOK, CountInv, ValueInv, MapInv, IndexInv
<1> QED BY <1>1, BootCounts, PTL

(* Whatever the memory map repeats, boot leaves the counter of free pages  *)
(* one above the truth, for the last page of the kernel, less one for each *)
(* page reserved again: the drift KMem starts from is nothing else.        *)
THEOREM CounterIsTold == Spec => []CounterTold
<1>1. CountInv => CounterTold
  <2> SUFFICES ASSUME CountInv, Booting
               PROVE  fis_freepages = (FreeCount + 1 - again) % UWrap
    BY DEF CounterTold
  <2> QED BY ToldIs, FreeCountTyped DEF CountInv, ValueInv
<1> QED BY <1>1, BootCounts, PTL

=============================================================================
