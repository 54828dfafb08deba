----------------------------- MODULE KMemProofs -----------------------------
(***************************************************************************)
(* Proofs about the kernel heap, for every size of memory, of the          *)
(* directory and of the descriptor pages that satisfies the assumptions,   *)
(* in five parts:                                                          *)
(*   - types, the exclusive physical pages, and that the bitmap agrees     *)
(*     with the page tables;                                               *)
(*   - the blocks callers of kmalloc hold, the counters of the descriptor  *)
(*     pages that record them, and which freed blocks stay recorded;       *)
(*   - the counter of free pages, for every error it may have when boot    *)
(*     ends, and how memory can run out below the checks;                  *)
(*   - that the heap keeps the promise of module Heap: each step of a call *)
(*     is an allocation, a release or nothing, seen from outside;          *)
(*   - that every call is over after a bounded number of steps.            *)
(***************************************************************************)
EXTENDS KMem, TLAPS, WellFoundedInduction, FiniteSetTheorems,
        SequenceTheorems

(* What boot reserved stays reserved: no call clears the bit of a page     *)
(* that phase 1 of init_mm set.                                            *)
BootReserved ==
  /\ BootFrames \subseteq fis_bitmap
  /\ 0 .. VFirst - 1 \subseteq page_bitmap

(* Inside a loop the pages still to do lie in the heap, a call that works  *)
(* on a block works on one that lies in the heap, and once phase 2 is over *)
(* there is a descriptor page.                                             *)
CallShape ==
  /\ pc = "boot" => block = NoBlock
  /\ pc \in {"map", "mapdesc", "unmap", "unwind"} =>
       run.page \in HeapPages /\ run.left >= 1 /\ run.page + run.left <= MaxPages
  /\ pc \in {"map", "record", "unmap", "unwind"} => block \in HeapBlocks
  /\ pc = "mapdesc" => run.left = 1
  /\ pc \in {"idle", "map", "record", "unmap", "unwind"} => chain # <<>>
  /\ pc = "mapdesc" /\ block # NoBlock => chain # <<>>

CallInv == TypeOK /\ BootReserved /\ CallShape

(* The inductive invariant.  Its parts need each other: a page that        *)
(* vir_free gives back is none of those boot reserved because the mapped   *)
(* pages are exclusive, and a mapped page is exclusive because fis_alloc   *)
(* finds the bits of all the others set.                                   *)
IInv == CallInv /\ FramesExclusive /\ BitmapMatchesPaging

-----------------------------------------------------------------------------
(* A set of naturals has a least element.                                  *)
LEMMA MinExists ==
  ASSUME NEW T \in SUBSET Nat, T # {}
  PROVE  \E x \in T : \A y \in T : x <= y
<1> DEFINE R == {ss \in Nat \X Nat : ss[1] < ss[2]}
<1>1. IsWellFoundedOn(R, Nat)
  BY NatLessThanWellFounded DEF OpToRel
<1>2. PICK x \in T : \A y \in T : ~(<<y, x>> \in R)
  BY <1>1, WFMin
<1>3. ASSUME NEW y \in T PROVE x <= y
  <2>1. x \in Nat /\ y \in Nat
    OBVIOUS
  <2>2. (y < x) => <<y, x>> \in R
    BY <2>1, SMT
  <2>3. ~(y < x)
    BY <1>2, <2>2
  <2> QED BY <2>1, <2>3
<1> QED BY <1>3

(* The searches of the bitmaps answer with a member of what they search.   *)
LEMMA LowestIn ==
  ASSUME NEW T \in SUBSET Nat, T # {}
  PROVE  Lowest(T) \in T /\ \A y \in T : Lowest(T) <= y
<1>1. \E x \in T : \A y \in T : x <= y
  BY MinExists
<1> QED BY <1>1 DEF Lowest

(* fis_alloc answers with a page whose bit is clear.                       *)
LEMMA FirstClearIsClear ==
  ASSUME NEW bits, BitmapBits \ bits # {}
  PROVE  FirstClear(bits) \in BitmapBits \ bits
<1>1. BitmapBits \ bits \in SUBSET Nat
  BY FismemAssumption DEF BitmapBits
<1> QED BY <1>1, LowestIn DEF FirstClear

LEMMA NewPageIsClear ==
  ASSUME TypeOK
  PROVE  NewPage \in BitmapBits \ fis_bitmap
<1>1. FisPages + 1 \in BitmapBits \ fis_bitmap
  BY FismemAssumption DEF TypeOK, BitmapBits
<1> QED BY <1>1, FirstClearIsClear DEF NewPage

LEMMA NewTableIsClear ==
  ASSUME TypeOK, NewPage \in Frames
  PROVE  NewTable \in BitmapBits \ (fis_bitmap \cup {NewPage})
<1>1. FisPages + 1 \in BitmapBits \ (fis_bitmap \cup {NewPage})
  BY FismemAssumption DEF TypeOK, BitmapBits, Frames
<1> QED BY <1>1, FirstClearIsClear DEF NewTable

(* A run of clear bits that vir_alloc accepts lies in the heap, and none   *)
(* of its bits is set.                                                     *)
LEMMA AcceptedRun ==
  ASSUME TypeOK, BootReserved, NEW n \in Nat, VirAllocAccepts(n)
  PROVE  /\ n >= 1
         /\ find_clear_bits(n) \in HeapPages
         /\ find_clear_bits(n) + n < MaxPages
         /\ PageRange(find_clear_bits(n), n) \cap page_bitmap = {}
<1> DEFINE avail == find_clear_bits(n)
<1>1. ClearRuns(n) \in SUBSET Nat
  BY KMemAssumption DEF ClearRuns
<1>2. MaxPages \in ClearRuns(n)
  BY KMemAssumption DEF ClearRuns, PageRange, TypeOK
<1>3. avail \in ClearRuns(n) /\ \A v \in ClearRuns(n) : avail <= v
  BY <1>1, <1>2, LowestIn DEF find_clear_bits
<1>4. avail + n < MaxPages /\ avail > 0
  BY DEF VirAllocAccepts
<1>5. n >= 1
  <2>1. CASE n = 0
    <3>1. 0 \in ClearRuns(n)
      BY <2>1, KMemAssumption DEF ClearRuns, PageRange
    <3> QED BY <3>1, <1>3, <1>4, KMemAssumption DEF ClearRuns
  <2> QED BY <2>1
<1>6. avail \in Nat /\ PageRange(avail, n) \cap page_bitmap = {}
  BY <1>3, KMemAssumption DEF ClearRuns
<1>7. avail \in PageRange(avail, n)
  BY <1>5, <1>6 DEF PageRange
<1>8. avail \notin 0 .. VFirst - 1
  BY <1>6, <1>7 DEF BootReserved
<1>9. avail \in HeapPages
  BY <1>4, <1>6, <1>8, KMemAssumption DEF HeapPages
<1> QED BY <1>4, <1>5, <1>6, <1>9

-----------------------------------------------------------------------------
(* The chain of descriptor pages.                                          *)
LEMMA FirstFreePageExists ==
  ASSUME TypeOK, chain # <<>>
  PROVE  find_first_free_desc_page \in 1 .. Len(chain)
<1> DEFINE candidates == {i \in DOMAIN chain : chain[i].free > 0 \/ i = Len(chain)}
<1>1. chain \in Seq(DescPages)
  BY DEF TypeOK
<1>2. Len(chain) \in Nat \ {0} /\ DOMAIN chain = 1 .. Len(chain)
  BY <1>1, EmptySeq, LenProperties
<1>3. candidates \in SUBSET Nat /\ candidates # {}
  BY <1>2
<1>4. Lowest(candidates) \in candidates
  BY <1>3, LowestIn
<1> QED BY <1>2, <1>4 DEF find_first_free_desc_page

LEMMA LowestSlot ==
  ASSUME NEW S \in SUBSET Slots, S # {}
  PROVE  Lowest(S) \in S
<1>1. S \in SUBSET Nat
  BY DEF Slots
<1> QED BY <1>1, LowestIn

LEMMA EmptyPageType ==
  ASSUME NEW at \in HeapPages
  PROVE  EmptyPage(at) \in DescPages
BY KMemAssumption DEF EmptyPage, DescPages, DescEntries

LEMMA WithEntryType ==
  ASSUME NEW page \in DescPages, NEW s \in Slots, NEW b \in DescEntries,
         NEW free \in Nat
  PROVE  WithEntry(page, s, b, free) \in DescPages
BY DEF WithEntry, DescPages

LEMMA ChainUpdate ==
  ASSUME TypeOK, NEW i \in 1 .. Len(chain), NEW page \in DescPages
  PROVE  /\ [chain EXCEPT ![i] = page] \in Seq(DescPages)
         /\ [chain EXCEPT ![i] = page] # <<>>
<1>1. chain \in Seq(DescPages)
  BY DEF TypeOK
<1>2. Len([chain EXCEPT ![i] = page]) = Len(chain)
  BY <1>1, ExceptSeq
<1>3. Len(chain) \in Nat /\ Len(chain) # 0
  BY <1>1, LenProperties
<1> QED BY <1>1, <1>2, <1>3, ExceptSeq, EmptySeq

LEMMA ChainPages ==
  ASSUME TypeOK, NEW i \in 1 .. Len(chain)
  PROVE  /\ chain[i] \in DescPages
         /\ chain[i].free \in Nat
         /\ \A s \in Slots : chain[i].allocs[s] \in DescEntries
<1>1. chain[i] \in DescPages
  BY ElementOfSeq DEF TypeOK
<1> QED BY <1>1 DEF DescPages

(* A block of the heap is not the empty entry.                             *)
LEMMA HeapBlockSize ==
  ASSUME NEW b \in DescEntries
  PROVE  b \in HeapBlocks <=> b.size # 0
BY KMemAssumption DEF DescEntries, HeapBlocks, NoBlock

LEMMA PdEntryType ==
  ASSUME NEW v \in HeapPages
  PROVE  PdEntry(v) \in PdEntries
BY DEF PdEntries

-----------------------------------------------------------------------------
(* The common end of the passes through the loop of vir_alloc.             *)
LEMMA MappedTyping ==
  ASSUME CallInv, pc \in {"map", "mapdesc"},
         NEW page \in Frames, Mapped(run.page, page)
  PROVE  /\ pte' \in [HeapPages -> Frames]
         /\ page_bitmap' \subseteq 0 .. MaxPages - 1
         /\ chain' \in Seq(DescPages)
         /\ pc' \in {"idle"} \cup Busy \cup Stopped
         /\ run' \in [page : {0} \cup HeapPages, left : 0 .. MaxPages]
         /\ block' \in DescEntries
         /\ 0 .. VFirst - 1 \subseteq page_bitmap'
         /\ CallShape'
<1> USE DEF CallInv
<1>1. /\ run.page \in HeapPages /\ run.left >= 1
      /\ run.page + run.left <= MaxPages
  BY DEF CallShape
<1>2. run.left \in Nat
  BY KMemAssumption DEF TypeOK
<1>3. pte' \in [HeapPages -> Frames]
  BY DEF Mapped, TypeOK
<1>4. /\ page_bitmap' \subseteq 0 .. MaxPages - 1
      /\ 0 .. VFirst - 1 \subseteq page_bitmap'
  <2>1. page_bitmap' = page_bitmap \cup {run.page}
    BY DEF Mapped
  <2>2. /\ page_bitmap \subseteq 0 .. MaxPages - 1
        /\ 0 .. VFirst - 1 \subseteq page_bitmap
    BY DEF TypeOK, BootReserved
  <2>3. run.page \in 0 .. MaxPages - 1
    BY <1>1, KMemAssumption DEF HeapPages
  <2> QED BY <2>1, <2>2, <2>3
<1>5. block' = block /\ block \in DescEntries
  BY DEF Mapped, TypeOK
<1>6. CASE run.left > 1
  <2>1. /\ run' = [page |-> run.page + 1, left |-> run.left - 1]
        /\ pc' = pc /\ chain' = chain
    BY <1>6 DEF Mapped
  <2>2. run.page + 1 \in HeapPages
    BY <1>1, <1>2, <1>6, KMemAssumption DEF HeapPages
  <2>3. pc = "map"
    BY <1>6 DEF CallShape
  <2>4. /\ run' \in [page : {0} \cup HeapPages, left : 0 .. MaxPages]
        /\ run'.page \in HeapPages /\ run'.left >= 1
        /\ run'.page + run'.left <= MaxPages
    BY <2>1, <2>2, <1>1, <1>2, <1>6, KMemAssumption DEF HeapPages
  <2>5. CallShape'
    BY <2>1, <2>3, <2>4, <1>5 DEF CallShape
  <2> QED
    BY <2>1, <2>4, <2>5, <1>3, <1>4, <1>5 DEF TypeOK
<1>7. CASE ~(run.left > 1)
  <2>1. run' = NoRun /\ VirAllocReturns(run.page)
    BY <1>7 DEF Mapped
  <2>2. run' \in [page : {0} \cup HeapPages, left : 0 .. MaxPages]
    BY <2>1, KMemAssumption DEF NoRun
  <2>3. CASE pc = "map"
    <3>1. pc' = "record" /\ chain' = chain
      BY <2>1, <2>3 DEF VirAllocReturns
    <3>2. CallShape'
      BY <3>1, <2>3, <1>5 DEF CallShape
    <3> QED BY <3>1, <3>2, <2>2, <1>3, <1>4, <1>5 DEF TypeOK, Busy
  <2>4. CASE pc = "mapdesc"
    <3>1. /\ pc' = IF block = NoBlock THEN "idle" ELSE "record"
          /\ chain' = Append(chain, EmptyPage(run.page))
      BY <2>1, <2>4 DEF VirAllocReturns
    <3>2. chain' \in Seq(DescPages) /\ chain' # <<>>
      BY <3>1, <1>1, EmptyPageType, AppendProperties DEF TypeOK
    <3>3. block # NoBlock => block \in HeapBlocks
      BY <1>5 DEF DescEntries
    <3>4. CallShape'
      BY <3>1, <3>2, <3>3, <1>5 DEF CallShape
    <3> QED BY <3>1, <3>2, <3>4, <2>2, <1>3, <1>4, <1>5 DEF Busy
  <2> QED BY <2>3, <2>4
<1> QED BY <1>2, <1>6, <1>7

LEMMA GivesUpTyping ==
  ASSUME CallInv, pc \in {"map", "mapdesc"}, VirAllocGivesUp, page_bitmap' = page_bitmap
  PROVE  /\ chain' = chain
         /\ pc' \in {"idle", "panic", "unwind"}
         /\ run' \in [page : {0} \cup HeapPages, left : 0 .. MaxPages]
         /\ block' \in DescEntries /\ failed' \in BOOLEAN
         /\ CallShape'
<1> USE DEF CallInv
<1>1. CASE pc = "map" \/ block = NoBlock
  <2>1. /\ chain' = chain /\ block' = NoBlock /\ run' = NoRun
        /\ pc' = IF pc = "map" THEN "idle" ELSE "panic"
        /\ failed' \in BOOLEAN
    BY <1>1 DEF VirAllocGivesUp
  <2>2. run' \in [page : {0} \cup HeapPages, left : 0 .. MaxPages]
    BY <2>1, KMemAssumption DEF NoRun
  <2>3. CallShape'
    BY <2>1 DEF CallShape
  <2> QED BY <2>1, <2>2, <2>3 DEF DescEntries
<1>2. CASE ~(pc = "map" \/ block = NoBlock)
  <2>1. /\ chain' = chain /\ block' = block /\ failed' = failed
        /\ pc' = "unwind" /\ run' = RunOver(block)
    BY <1>2 DEF VirAllocGivesUp
  <2>2. block \in HeapBlocks /\ chain # <<>>
    BY <1>2 DEF TypeOK, DescEntries, CallShape
  <2>3. /\ run'.page \in HeapPages /\ run'.left >= 1
        /\ run'.page + run'.left <= MaxPages
        /\ run' \in [page : {0} \cup HeapPages, left : 0 .. MaxPages]
    BY <2>1, <2>2, KMemAssumption DEF RunOver, HeapBlocks
  <2>4. CallShape'
    BY <2>1, <2>2, <2>3 DEF CallShape
  <2> QED BY <2>1, <2>3, <2>4 DEF TypeOK
<1> QED BY <1>1, <1>2

(* Taking a page with its bit clear keeps the bitmap and the counter in    *)
(* their ranges.                                                           *)
LEMMA TakeTyping ==
  ASSUME TypeOK, NEW taken \in SUBSET (0 .. FisPages), NEW c \in {1, 2},
         fis_bitmap' = fis_bitmap \cup taken,
         fis_freepages' = Minus(fis_freepages, c)
  PROVE  fis_bitmap' \subseteq 0 .. FisPages /\ FismemTypeOK'
<1>1. fis_bitmap' \subseteq 0 .. FisPages
  BY DEF TypeOK
<1>2. fis_freepages' \in 0 .. UWrap - 1
  BY FismemAssumption DEF TypeOK, FismemTypeOK, Minus
<1>3. fis_bitmap' \subseteq BitmapBits
  BY <1>1, FismemAssumption DEF BitmapBits
<1> QED BY <1>1, <1>2, <1>3 DEF FismemTypeOK

LEMMA GiveTyping ==
  ASSUME TypeOK, NEW given,
         fis_bitmap' = fis_bitmap \ given,
         fis_freepages' = Plus(fis_freepages, 1)
  PROVE  fis_bitmap' \subseteq 0 .. FisPages /\ FismemTypeOK'
<1>1. fis_bitmap' \subseteq 0 .. FisPages
  BY DEF TypeOK
<1>2. fis_freepages' \in 0 .. UWrap - 1
  BY FismemAssumption DEF TypeOK, FismemTypeOK, Plus
<1>3. fis_bitmap' \subseteq BitmapBits
  BY <1>1, FismemAssumption DEF BitmapBits
<1> QED BY <1>1, <1>2, <1>3 DEF FismemTypeOK

-----------------------------------------------------------------------------
LEMMA InitTyping == Init => CallInv
<1> SUFFICES ASSUME Init PROVE CallInv
  OBVIOUS
<1> USE DEF Init
<1>1. FismemTypeOK /\ fis_bitmap \subseteq 0 .. FisPages
  <2>1. BootFrames \subseteq 0 .. FisPages /\ BootFrames \subseteq BitmapBits
    BY KMemAssumption, FismemAssumption DEF Frames, BitmapBits
  <2>2. fis_freepages \in 0 .. UWrap - 1
    BY KMemAssumption DEF FreeCount, FreeFrames
  <2> QED BY <2>1, <2>2 DEF FismemTypeOK
<1>2. page_bitmap \subseteq 0 .. MaxPages - 1
  BY KMemAssumption, FismemAssumption
<1>3. pde \in [PdEntries -> 0 .. FisPages]
  BY KMemAssumption, FismemAssumption DEF Frames
<1>4. pte \in [HeapPages -> Frames]
  BY FismemAssumption DEF Frames
<1>5. chain \in Seq(DescPages)
  BY EmptySeq
<1>6. run \in [page : {0} \cup HeapPages, left : 0 .. MaxPages]
  BY KMemAssumption DEF NoRun
<1>7. TypeOK
  BY <1>1, <1>2, <1>3, <1>4, <1>5, <1>6 DEF TypeOK, Busy, DescEntries
<1>8. BootReserved
  BY DEF BootReserved
<1>9. CallShape
  BY DEF CallShape
<1> QED BY <1>7, <1>8, <1>9 DEF CallInv

(* Every step keeps the invariant of the calls, one step of the proof for  *)
(* each action.                                                            *)
LEMMA StepTyping == CallInv /\ FramesExclusive /\ [Next]_kmemVars => CallInv'
<1> SUFFICES ASSUME CallInv, FramesExclusive, [Next]_kmemVars PROVE CallInv'
  OBVIOUS
<1> USE DEF CallInv
<1> DEFINE RunType == [page : {0} \cup HeapPages, left : 0 .. MaxPages]
<1>acc. VirAllocAccepts(1) => /\ find_clear_bits(1) \in HeapPages
                              /\ find_clear_bits(1) + 1 <= MaxPages
                              /\ 1 \in 0 .. MaxPages
  <2>1. SUFFICES ASSUME VirAllocAccepts(1)
                 PROVE  /\ find_clear_bits(1) \in HeapPages
                        /\ find_clear_bits(1) + 1 <= MaxPages
                        /\ 1 \in 0 .. MaxPages
    OBVIOUS
  <2>2. find_clear_bits(1) \in HeapPages /\ find_clear_bits(1) + 1 < MaxPages
    BY <2>1, AcceptedRun
  <2> QED BY <2>2, KMemAssumption DEF HeapPages
<1>1. CASE InitDesc
  <2>1. run' \in RunType
    BY <1>1, <1>acc, KMemAssumption DEF InitDesc, TypeOK
  <2>2. pc' \in Busy \cup Stopped
    BY <1>1 DEF InitDesc, Busy, Stopped
  <2>3. TypeOK'
    BY <1>1, <2>1, <2>2 DEF InitDesc, TypeOK, levelVars, callerVars, FismemTypeOK
  <2>4. CASE VirAllocAccepts(1)
    <3>1. /\ pc' = "mapdesc" /\ run' = [page |-> find_clear_bits(1), left |-> 1]
          /\ block' = block /\ chain' = chain
      BY <1>1, <2>4 DEF InitDesc
    <3>2. block = NoBlock
      BY <1>1 DEF InitDesc, CallShape
    <3>3. CallShape'
      BY <3>1, <3>2, <2>4, <1>acc DEF CallShape
    <3> QED BY <3>3, <2>3, <1>1 DEF InitDesc, BootReserved, levelVars
  <2>5. CASE ~VirAllocAccepts(1)
    <3>1. pc' = "panic"
      BY <1>1, <2>5 DEF InitDesc
    <3>2. CallShape'
      BY <3>1 DEF CallShape
    <3> QED BY <3>2, <2>3, <1>1 DEF InitDesc, BootReserved, levelVars
  <2> QED BY <2>4, <2>5
<1>2. ASSUME NEW n \in Sizes, KmallocBegins(n) PROVE CallInv'
  <2>1. n \in Nat
    BY KMemAssumption
  <2>2. /\ n >= 1 /\ find_clear_bits(n) \in HeapPages
        /\ find_clear_bits(n) + n < MaxPages
    BY <1>2, <2>1, AcceptedRun DEF KmallocBegins
  <2>3. /\ block' = [address |-> find_clear_bits(n), size |-> n]
        /\ run' = [page |-> find_clear_bits(n), left |-> n]
    BY <1>2 DEF KmallocBegins, RunOver
  <2>4. block' \in HeapBlocks /\ block' \in DescEntries
    BY <2>1, <2>2, <2>3, KMemAssumption DEF HeapBlocks, DescEntries, HeapPages
  <2>5. run' \in RunType
    BY <2>1, <2>2, <2>3, KMemAssumption DEF HeapPages
  <2>6. TypeOK'
    BY <1>2, <2>4, <2>5
    DEF KmallocBegins, TypeOK, levelVars, FismemTypeOK, Busy
  <2>7. CallShape'
    BY <1>2, <2>1, <2>2, <2>3, <2>4, KMemAssumption
    DEF KmallocBegins, CallShape, HeapPages
  <2> QED BY <1>2, <2>6, <2>7 DEF KmallocBegins, BootReserved, levelVars
<1>3. ASSUME NEW n \in Sizes, KmallocRefused(n) PROVE CallInv'
  BY <1>3 DEF KmallocRefused, TypeOK, CallShape, BootReserved, levelVars,
              FismemTypeOK
<1>4. CASE MapPage
  <2>1. /\ pc \in {"map", "mapdesc"} /\ NewPage \in Frames
        /\ Mapped(run.page, NewPage)
        /\ fis_bitmap' = fis_bitmap \cup {NewPage}
        /\ fis_freepages' = Minus(fis_freepages, 1)
        /\ UNCHANGED <<pde, callerVars, drift>>
    BY <1>4 DEF MapPage
  <2>2. {NewPage} \in SUBSET (0 .. FisPages)
    BY <2>1, FismemAssumption DEF Frames
  <2>3. fis_bitmap' \subseteq 0 .. FisPages /\ FismemTypeOK'
    BY <2>1, <2>2, TakeTyping
  <2>4. TypeOK'
    BY <2>1, <2>3, MappedTyping DEF TypeOK, callerVars
  <2> QED BY <2>1, <2>4, MappedTyping DEF BootReserved
<1>5. CASE MapPageAndTable
  <2>1. /\ pc \in {"map", "mapdesc"} /\ NewPage \in Frames /\ NewTable \in Frames
        /\ Mapped(run.page, NewPage)
        /\ fis_bitmap' = fis_bitmap \cup {NewPage, NewTable}
        /\ fis_freepages' = Minus(fis_freepages, 2)
        /\ pde' = [pde EXCEPT ![PdEntry(run.page)] = NewTable]
        /\ UNCHANGED <<callerVars, drift>>
    BY <1>5 DEF MapPageAndTable
  <2>2. {NewPage, NewTable} \in SUBSET (0 .. FisPages)
    BY <2>1, FismemAssumption DEF Frames
  <2>3. fis_bitmap' \subseteq 0 .. FisPages /\ FismemTypeOK'
    BY <2>1, <2>2, TakeTyping
  <2>4. pde' \in [PdEntries -> 0 .. FisPages]
    BY <2>1, <2>2 DEF TypeOK
  <2>5. TypeOK'
    BY <2>1, <2>3, <2>4, MappedTyping DEF TypeOK, callerVars
  <2> QED BY <2>1, <2>5, MappedTyping DEF BootReserved
<1>6. CASE MapRefused
  <2>1. /\ pc \in {"map", "mapdesc"} /\ NewPage \in Frames
        /\ VirAllocGivesUp
        /\ UNCHANGED <<page_bitmap, pte, live, nullFreed, drift>>
    BY <1>6 DEF MapRefused
  <2>2. /\ fis_bitmap' \subseteq 0 .. FisPages /\ FismemTypeOK'
        /\ pde' \in [PdEntries -> 0 .. FisPages]
        /\ fis_bitmap \subseteq fis_bitmap'
    <3>1. CASE /\ NewTable = FisPages
               /\ fis_bitmap' = fis_bitmap \cup {NewTable}
               /\ fis_freepages' = Minus(fis_freepages, 1)
               /\ pde' = [pde EXCEPT ![PdEntry(run.page)] = NewTable]
      <4>1. {NewTable} \in SUBSET (0 .. FisPages)
        BY <3>1, FismemAssumption
      <4>2. fis_bitmap' \subseteq 0 .. FisPages /\ FismemTypeOK'
        BY <3>1, <4>1, TakeTyping
      <4>3. pde' \in [PdEntries -> 0 .. FisPages]
        BY <3>1, <4>1 DEF TypeOK
      <4> QED BY <3>1, <4>2, <4>3
    <3>2. CASE UNCHANGED <<fis_bitmap, fis_freepages, pde>>
      BY <3>2 DEF TypeOK, FismemTypeOK
    <3> QED BY <1>6, <3>1, <3>2 DEF MapRefused
  <2>3. TypeOK'
    BY <2>1, <2>2, GivesUpTyping DEF TypeOK, Busy, Stopped
  <2> QED BY <2>1, <2>2, <2>3, GivesUpTyping DEF BootReserved
<1>7. CASE MapLost
  BY <1>7 DEF MapLost, TypeOK, CallShape, BootReserved, levelVars, callerVars,
              FismemTypeOK, Stopped
<1>8. CASE RecordBlock
  <2> DEFINE i == find_first_free_desc_page
             s == Lowest(EmptySlots(i))
  <2>1. /\ pc = "record" /\ chain[i].free > 0 /\ EmptySlots(i) # {}
        /\ chain' = [chain EXCEPT ![i] =
                       WithEntry(chain[i], s, block, chain[i].free - 1)]
        /\ pc' = "idle" /\ block' = NoBlock
        /\ live' = live \cup {block}
        /\ UNCHANGED <<levelVars, run, failed, nullFreed, drift>>
    BY <1>8 DEF RecordBlock
  <2>2. chain # <<>> /\ block \in HeapBlocks /\ block \in DescEntries
    BY <2>1 DEF CallShape, DescEntries
  <2>3. i \in 1 .. Len(chain)
    BY <2>2, FirstFreePageExists
  <2>4. s \in Slots
    BY <2>1, LowestSlot DEF EmptySlots
  <2>5. WithEntry(chain[i], s, block, chain[i].free - 1) \in DescPages
    BY <2>1, <2>2, <2>3, <2>4, ChainPages, WithEntryType
  <2>6. chain' \in Seq(DescPages) /\ chain' # <<>>
    BY <2>1, <2>3, <2>5, ChainUpdate
  <2>7. TypeOK'
    BY <2>1, <2>2, <2>6 DEF TypeOK, levelVars, FismemTypeOK, DescEntries
  <2>8. CallShape'
    BY <2>1, <2>6 DEF CallShape
  <2> QED BY <2>1, <2>7, <2>8 DEF BootReserved, levelVars
<1>9. CASE AddDescriptorPage
  <2>1. /\ pc = "record" /\ VirAllocAccepts(1)
        /\ run' = [page |-> find_clear_bits(1), left |-> 1]
        /\ pc' = "mapdesc"
        /\ UNCHANGED <<levelVars, chain, block, callerVars, drift>>
    BY <1>9 DEF AddDescriptorPage
  <2>2. run' \in RunType
    BY <2>1, <1>acc, KMemAssumption
  <2>3. TypeOK'
    BY <2>1, <2>2 DEF TypeOK, levelVars, callerVars, FismemTypeOK, Busy
  <2>4. CallShape'
    BY <2>1, <1>acc DEF CallShape
  <2> QED BY <2>1, <2>3, <2>4 DEF BootReserved, levelVars
<1>10. CASE DescriptorPageRefused
  <2>1. /\ pc = "record" /\ run' = RunOver(block) /\ pc' = "unwind"
        /\ UNCHANGED <<levelVars, chain, block, callerVars, drift>>
    BY <1>10 DEF DescriptorPageRefused
  <2>2. block \in HeapBlocks /\ chain # <<>>
    BY <2>1 DEF CallShape
  <2>3. /\ run'.page \in HeapPages /\ run'.left >= 1
        /\ run'.page + run'.left <= MaxPages /\ run' \in RunType
    BY <2>1, <2>2, KMemAssumption DEF RunOver, HeapBlocks
  <2>4. TypeOK'
    BY <2>1, <2>3 DEF TypeOK, levelVars, callerVars, FismemTypeOK, Busy
  <2>5. CallShape'
    BY <2>1, <2>2, <2>3 DEF CallShape
  <2> QED BY <2>1, <2>4, <2>5 DEF BootReserved, levelVars
<1>11. CASE RecordOverruns
  BY <1>11 DEF RecordOverruns, TypeOK, CallShape, BootReserved, levelVars,
               callerVars, FismemTypeOK, Stopped
<1>12. ASSUME NEW b \in live \cup {NoBlock}, KfreeFinds(b) PROVE CallInv'
  <2> DEFINE i == Lowest(MatchingPages(b.address))
             s == Lowest(Matches(i, b.address))
             found == chain[i].allocs[s]
  <2>1. /\ pc = "idle" /\ MatchingPages(b.address) # {}
        /\ chain' = [chain EXCEPT ![i] =
                       WithEntry(chain[i], s, NoBlock, chain[i].free + 1)]
        /\ IF found.size = 0 THEN UNCHANGED <<pc, run, block>>
           ELSE pc' = "unmap" /\ run' = RunOver(found) /\ block' = found
        /\ CallerGaveUp(b)
        /\ UNCHANGED <<levelVars, drift>>
    BY <1>12 DEF KfreeFinds
  <2>2. MatchingPages(b.address) \in SUBSET (1 .. Len(chain))
    BY LenProperties DEF MatchingPages, SearchedPages, TypeOK
  <2>3. i \in MatchingPages(b.address) /\ i \in 1 .. Len(chain)
    <3>1. MatchingPages(b.address) \in SUBSET Nat
      BY <2>2
    <3> QED BY <2>1, <2>2, <3>1, LowestIn
  <2>4. s \in Slots
    BY <2>3, LowestSlot DEF MatchingPages, Matches
  <2>5. found \in DescEntries /\ chain[i] \in DescPages /\ chain[i].free \in Nat
    BY <2>3, <2>4, ChainPages
  <2>6. WithEntry(chain[i], s, NoBlock, chain[i].free + 1) \in DescPages
    <3>1. NoBlock \in DescEntries /\ chain[i].free + 1 \in Nat
      BY <2>5 DEF DescEntries
    <3> QED BY <2>4, <2>5, <3>1, WithEntryType
  <2>7. chain' \in Seq(DescPages) /\ chain' # <<>>
    BY <2>1, <2>3, <2>6, ChainUpdate
  <2>8. live' \subseteq HeapBlocks /\ failed' \in BOOLEAN /\ nullFreed' \in BOOLEAN
    BY <2>1 DEF CallerGaveUp, TypeOK
  <2>9. CASE found.size = 0
    <3>1. TypeOK'
      BY <2>1, <2>7, <2>8, <2>9 DEF TypeOK, levelVars, FismemTypeOK
    <3>2. CallShape'
      BY <2>1, <2>7, <2>9 DEF CallShape
    <3> QED BY <2>1, <3>1, <3>2 DEF BootReserved, levelVars
  <2>10. CASE found.size # 0
    <3>1. found \in HeapBlocks
      BY <2>5, <2>10, HeapBlockSize
    <3>2. pc' = "unmap" /\ run' = RunOver(found) /\ block' = found
      BY <2>1, <2>10
    <3>3. /\ run'.page \in HeapPages /\ run'.left >= 1
          /\ run'.page + run'.left <= MaxPages /\ run' \in RunType
      BY <3>1, <3>2, KMemAssumption DEF RunOver, HeapBlocks
    <3>4. TypeOK'
      BY <2>1, <2>5, <2>7, <2>8, <3>2, <3>3
      DEF TypeOK, levelVars, FismemTypeOK, Busy
    <3>5. CallShape'
      BY <2>7, <3>1, <3>2, <3>3 DEF CallShape
    <3> QED BY <2>1, <3>4, <3>5 DEF BootReserved, levelVars
  <2> QED BY <2>9, <2>10
<1>13. ASSUME NEW b \in live \cup {NoBlock}, KfreeMisses(b) PROVE CallInv'
  BY <1>13 DEF KfreeMisses, CallerGaveUp, TypeOK, CallShape, BootReserved,
               levelVars, FismemTypeOK
<1>14. CASE UnmapPage
  <2> DEFINE v == run.page
  <2>1. /\ v \in HeapPages /\ run.left >= 1 /\ v + run.left <= MaxPages
        /\ run.left \in Nat /\ block \in HeapBlocks /\ chain # <<>>
    BY <1>14, KMemAssumption DEF UnmapPage, CallShape, TypeOK
  <2>2. /\ pc \in {"unmap", "unwind"}
        /\ UNCHANGED <<chain, live, nullFreed, drift>>
    BY <1>14 DEF UnmapPage
  <2>3. /\ fis_bitmap' \subseteq 0 .. FisPages /\ FismemTypeOK'
        /\ pde' \in [PdEntries -> 0 .. FisPages]
        /\ pte' \in [HeapPages -> Frames]
        /\ page_bitmap' \subseteq 0 .. MaxPages - 1
    <3>1. CASE UNCHANGED levelVars
      BY <3>1 DEF levelVars, TypeOK, FismemTypeOK
    <3>2. CASE Unmapped(v)
      <4>1. /\ fis_bitmap' = fis_bitmap \ {pte[v]}
            /\ fis_freepages' = Plus(fis_freepages, 1)
        BY <3>2 DEF Unmapped
      <4>2. fis_bitmap' \subseteq 0 .. FisPages /\ FismemTypeOK'
        BY <4>1, GiveTyping
      <4>3. 0 \in Frames
        BY FismemAssumption DEF Frames
      <4> QED BY <3>2, <4>2, <4>3 DEF Unmapped, TypeOK
    <3> QED BY <1>14, <3>1, <3>2 DEF UnmapPage
  <2>4. /\ run' \in RunType /\ pc' \in {"idle", "unmap", "unwind"}
        /\ block' \in DescEntries /\ failed' \in BOOLEAN /\ CallShape'
    <3>1. CASE VirFreeReturns
      <4>1. run' \in RunType
        BY <3>1, KMemAssumption DEF VirFreeReturns, NoRun
      <4>2. CallShape'
        BY <3>1, <2>1, <2>2 DEF VirFreeReturns, CallShape
      <4> QED BY <3>1, <4>1, <4>2 DEF VirFreeReturns, DescEntries
    <3>2. CASE /\ run.left > 1
               /\ run' = [page |-> v + 1, left |-> run.left - 1]
               /\ UNCHANGED <<pc, block, failed>>
      <4>1. v + 1 \in HeapPages
        BY <3>2, <2>1, KMemAssumption DEF HeapPages
      <4>2. /\ run' \in RunType /\ run'.page \in HeapPages /\ run'.left >= 1
            /\ run'.page + run'.left <= MaxPages
        BY <3>2, <2>1, <4>1, KMemAssumption DEF HeapPages
      <4>3. CallShape'
        BY <3>2, <2>1, <2>2, <4>2 DEF CallShape
      <4> QED BY <3>2, <2>2, <4>2, <4>3 DEF TypeOK
    <3> QED BY <1>14, <3>1, <3>2 DEF UnmapPage
  <2>5. TypeOK'
    BY <2>2, <2>3, <2>4 DEF TypeOK, Busy
  <2>6. BootReserved'
    <3>1. CASE UNCHANGED levelVars
      BY <3>1 DEF levelVars, BootReserved
    <3>2. CASE Unmapped(v) /\ pte[v] # 0
      <4>1. pte[v] \notin BootFrames
        BY <2>1, <3>2 DEF FramesExclusive, MappedPages
      <4>2. v \notin 0 .. VFirst - 1
        BY <2>1, KMemAssumption DEF HeapPages
      <4> QED BY <3>2, <4>1, <4>2 DEF Unmapped, BootReserved
    <3> QED BY <1>14, <3>1, <3>2 DEF UnmapPage
  <2> QED BY <2>4, <2>5, <2>6
<1>15. CASE UNCHANGED kmemVars
  BY <1>15 DEF kmemVars, levelVars, callerVars, TypeOK, CallShape,
               BootReserved, FismemTypeOK
<1> QED
  BY <1>1, <1>2, <1>3, <1>4, <1>5, <1>6, <1>7, <1>8, <1>9, <1>10, <1>11,
     <1>12, <1>13, <1>14, <1>15
  DEF Next, Kmalloc, Kfree, Continue, Mapping, Recording

-----------------------------------------------------------------------------
(* Who owns a physical page.  The steps that leave the levels below the    *)
(* descriptors alone change no owner.                                      *)
LEMMA SameLevels ==
  ASSUME FramesExclusive, BitmapMatchesPaging, UNCHANGED levelVars
  PROVE  FramesExclusive' /\ BitmapMatchesPaging'
BY DEF FramesExclusive, BitmapMatchesPaging, MappedPages, LiveTables, levelVars

(* A page fis_alloc finds is not page 0, and nobody has it.                *)
LEMMA NewPageUnowned ==
  ASSUME CallInv, FramesExclusive
  PROVE  /\ NewPage # 0 /\ NewPage \notin BootFrames /\ NewPage \notin fis_bitmap
         /\ \A v \in MappedPages : pte[v] # NewPage
         /\ \A e \in LiveTables : pde[e] # NewPage
<1>1. NewPage \notin fis_bitmap
  BY NewPageIsClear DEF CallInv
<1> QED BY <1>1, KMemAssumption DEF CallInv, BootReserved, FramesExclusive

LEMMA NewTableUnowned ==
  ASSUME CallInv, FramesExclusive, NewPage \in Frames
  PROVE  /\ NewTable # 0 /\ NewTable # NewPage
         /\ NewTable \notin BootFrames /\ NewTable \notin fis_bitmap
         /\ \A v \in MappedPages : pte[v] # NewTable
         /\ \A e \in LiveTables : pde[e] # NewTable
<1>1. NewTable \notin fis_bitmap /\ NewTable # NewPage
  BY NewTableIsClear DEF CallInv
<1> QED BY <1>1, KMemAssumption DEF CallInv, BootReserved, FramesExclusive

(* Mapping a page nobody has leaves every page with one owner.             *)
LEMMA MappingExclusive ==
  ASSUME CallInv, FramesExclusive, BitmapMatchesPaging,
         NEW v \in HeapPages, NEW page, page # 0,
         page \notin BootFrames,
         \A u \in MappedPages : pte[u] # page,
         \A e \in PdEntries : pde'[e] # 0 => pde'[e] # page,
         page \in fis_bitmap', fis_bitmap \subseteq fis_bitmap',
         \A e \in PdEntries :
           pde'[e] # 0 =>
             /\ pde'[e] \in fis_bitmap'
             /\ e # KernelEntry => pde'[e] \notin BootFrames
             /\ \A d \in PdEntries : pde'[d] = pde'[e] => d = e
             /\ \A u \in MappedPages : pte[u] # pde'[e],
         pte' = [pte EXCEPT ![v] = page],
         page_bitmap' = page_bitmap \cup {v}
  PROVE  FramesExclusive' /\ BitmapMatchesPaging'
<1> USE DEF CallInv
<1>1. \A u \in HeapPages : pte'[u] = IF u = v THEN page ELSE pte[u]
  BY DEF TypeOK
<1>2. \A u \in MappedPages' : u # v => u \in MappedPages /\ pte'[u] = pte[u]
  BY <1>1 DEF MappedPages
<1>3. ASSUME NEW u \in MappedPages'
      PROVE  /\ pte'[u] \in fis_bitmap' \ BootFrames
             /\ \A w \in MappedPages' : pte'[w] = pte'[u] => w = u
             /\ \A e \in LiveTables' : pde'[e] # pte'[u]
  <2>1. CASE u = v
    BY <1>1, <1>2, <2>1 DEF MappedPages, LiveTables
  <2>2. CASE u # v
    <3>1. /\ u \in MappedPages /\ pte'[u] = pte[u]
          /\ pte[u] \in fis_bitmap \ BootFrames /\ pte[u] # page
      BY <1>2, <2>2 DEF FramesExclusive
    <3>2. \A w \in MappedPages' : pte'[w] = pte'[u] => w = u
      BY <1>1, <1>2, <3>1 DEF FramesExclusive, MappedPages
    <3> QED BY <3>1, <3>2 DEF LiveTables
  <2> QED BY <2>1, <2>2
<1>4. FramesExclusive'
  BY <1>3 DEF FramesExclusive, LiveTables
<1>5. BitmapMatchesPaging'
  BY <1>1 DEF BitmapMatchesPaging
<1> QED BY <1>4, <1>5

LEMMA StepExclusive ==
  IInv /\ [Next]_kmemVars => FramesExclusive' /\ BitmapMatchesPaging'
<1> SUFFICES ASSUME CallInv, FramesExclusive, BitmapMatchesPaging,
                    [Next]_kmemVars
             PROVE  FramesExclusive' /\ BitmapMatchesPaging'
  BY DEF IInv
<1>1. CASE UNCHANGED levelVars
  BY <1>1, SameLevels
<1>2. CASE MapPage
  <2>1. /\ run.page \in HeapPages
        /\ pte' = [pte EXCEPT ![run.page] = NewPage]
        /\ page_bitmap' = page_bitmap \cup {run.page}
        /\ fis_bitmap' = fis_bitmap \cup {NewPage} /\ pde' = pde
    BY <1>2 DEF MapPage, Mapped, CallInv, CallShape
  <2> QED BY <2>1, NewPageUnowned, MappingExclusive
          DEF FramesExclusive, LiveTables
<1>3. CASE MapPageAndTable
  <2> DEFINE t == PdEntry(run.page)
  <2>1. /\ run.page \in HeapPages /\ NewPage \in Frames
        /\ pte' = [pte EXCEPT ![run.page] = NewPage]
        /\ page_bitmap' = page_bitmap \cup {run.page}
        /\ fis_bitmap' = fis_bitmap \cup {NewPage, NewTable}
        /\ pde' = [pde EXCEPT ![t] = NewTable]
    BY <1>3 DEF MapPageAndTable, Mapped, CallInv, CallShape
  <2>2. \A e \in PdEntries : pde'[e] = IF e = t THEN NewTable ELSE pde[e]
    BY <2>1 DEF CallInv, TypeOK
  <2>3. ASSUME NEW e \in PdEntries, pde'[e] # 0
        PROVE  /\ pde'[e] # NewPage /\ pde'[e] \in fis_bitmap'
               /\ e # KernelEntry => pde'[e] \notin BootFrames
               /\ \A d \in PdEntries : pde'[d] = pde'[e] => d = e
               /\ \A u \in MappedPages : pte[u] # pde'[e]
    <3>1. CASE e = t
      BY <2>1, <2>2, <3>1, NewTableUnowned DEF LiveTables
    <3>2. CASE e # t
      BY <2>1, <2>2, <2>3, <3>2, NewPageUnowned, NewTableUnowned
      DEF FramesExclusive, LiveTables
    <3> QED BY <3>1, <3>2
  <2> QED BY <2>1, <2>3, NewPageUnowned, MappingExclusive
<1>4. CASE MapRefused
  <2> DEFINE t == PdEntry(run.page)
  <2>1. CASE /\ fis_bitmap' = fis_bitmap \cup {NewTable}
             /\ pde' = [pde EXCEPT ![t] = NewTable]
    <3>1. UNCHANGED <<pte, page_bitmap>> /\ NewPage \in Frames
      BY <1>4 DEF MapRefused
    <3>2. \A e \in PdEntries : pde'[e] = IF e = t THEN NewTable ELSE pde[e]
      BY <2>1 DEF CallInv, TypeOK
    <3>3. MappedPages' = MappedPages
      BY <3>1 DEF MappedPages
    <3>4. ASSUME NEW e \in LiveTables'
          PROVE  /\ pde'[e] \in fis_bitmap'
                 /\ e # KernelEntry => pde'[e] \notin BootFrames
                 /\ \A d \in LiveTables' : pde'[d] = pde'[e] => d = e
                 /\ \A u \in MappedPages : pte[u] # pde'[e]
      <4>1. CASE e = t
        BY <2>1, <3>1, <3>2, <4>1, NewTableUnowned DEF LiveTables
      <4>2. CASE e # t
        BY <2>1, <3>1, <3>2, <4>2, NewTableUnowned
        DEF FramesExclusive, LiveTables
      <4> QED BY <4>1, <4>2
    <3>5. FramesExclusive'
      BY <2>1, <3>1, <3>3, <3>4 DEF FramesExclusive
    <3>6. BitmapMatchesPaging'
      BY <3>1 DEF BitmapMatchesPaging
    <3> QED BY <3>5, <3>6
  <2>2. CASE UNCHANGED <<fis_bitmap, fis_freepages, pde>>
    BY <1>4, <2>2, SameLevels DEF MapRefused, levelVars
  <2> QED BY <1>4, <2>1, <2>2 DEF MapRefused
<1>5. CASE UnmapPage
  <2> DEFINE v == run.page
  <2>1. CASE Unmapped(v) /\ pte[v] # 0
    <3>1. /\ pte' = [pte EXCEPT ![v] = 0] /\ page_bitmap' = page_bitmap \ {v}
          /\ fis_bitmap' = fis_bitmap \ {pte[v]} /\ pde' = pde
      BY <2>1 DEF Unmapped
    <3>2. v \in HeapPages /\ v \in MappedPages
      BY <1>5, <2>1 DEF UnmapPage, CallInv, CallShape, MappedPages
    <3>3. \A u \in HeapPages : pte'[u] = IF u = v THEN 0 ELSE pte[u]
      BY <3>1 DEF CallInv, TypeOK
    <3>4. MappedPages' = MappedPages \ {v} /\ LiveTables' = LiveTables
      BY <3>1, <3>3 DEF MappedPages, LiveTables
    <3>5. \A u \in MappedPages' :
            /\ pte'[u] = pte[u] /\ pte[u] # pte[v] /\ u \in MappedPages
      BY <3>2, <3>3, <3>4 DEF FramesExclusive, MappedPages
    <3>6. FramesExclusive'
      BY <3>1, <3>2, <3>4, <3>5 DEF FramesExclusive
    <3>7. BitmapMatchesPaging'
      BY <3>1, <3>3 DEF BitmapMatchesPaging
    <3> QED BY <3>6, <3>7
  <2>2. CASE UNCHANGED levelVars
    BY <2>2, SameLevels
  <2> QED BY <1>5, <2>1, <2>2 DEF UnmapPage
<1>6. ASSUME NEW n \in Sizes, KmallocBegins(n) \/ KmallocRefused(n)
      PROVE  UNCHANGED levelVars
  BY <1>6 DEF KmallocBegins, KmallocRefused
<1>7. ASSUME NEW b, KfreeFinds(b) \/ KfreeMisses(b)
      PROVE  UNCHANGED levelVars
  BY <1>7 DEF KfreeFinds, KfreeMisses
<1>8. Recording => UNCHANGED levelVars
  BY DEF Recording, RecordBlock, AddDescriptorPage, DescriptorPageRefused,
         RecordOverruns
<1>9. InitDesc \/ MapLost \/ UNCHANGED kmemVars => UNCHANGED levelVars
  BY DEF InitDesc, MapLost, kmemVars
<1> QED
  BY <1>1, <1>2, <1>3, <1>4, <1>5, <1>6, <1>7, <1>8, <1>9
  DEF Next, Kmalloc, Kfree, Continue, Mapping

LEMMA InitExclusive == Init => FramesExclusive /\ BitmapMatchesPaging
<1> SUFFICES ASSUME Init PROVE FramesExclusive /\ BitmapMatchesPaging
  OBVIOUS
<1>1. MappedPages = {}
  BY DEF Init, MappedPages
<1>2. \A e \in LiveTables : e = KernelEntry /\ pde[e] = BootTable
  BY DEF Init, LiveTables
<1>3. FramesExclusive
  BY <1>1, <1>2, KMemAssumption DEF FramesExclusive, Init
<1>4. BitmapMatchesPaging
  BY KMemAssumption DEF BitmapMatchesPaging, Init, HeapPages
<1> QED BY <1>3, <1>4

-----------------------------------------------------------------------------
(* The inductive invariant holds in every reachable state.                 *)
THEOREM Invariance == Spec => []IInv
<1>1. Init => IInv
  BY InitTyping, InitExclusive DEF IInv
<1>2. IInv /\ [Next]_kmemVars => IInv'
  BY StepTyping, StepExclusive DEF IInv
<1> QED BY <1>1, <1>2, PTL DEF Spec

(* No call ever takes a variable of the memory manager out of its range:   *)
(* the loops of vir_alloc and vir_free stay inside the heap, the counter   *)
(* of free pages inside its 32 bits, the chain made of descriptor pages.   *)
THEOREM Typing == Spec => []TypeOK
<1>1. IInv => TypeOK
  BY DEF IInv, CallInv
<1> QED BY <1>1, Invariance, PTL

(* However allocations, failures and frees follow each other, no physical  *)
(* page is given out twice, by fis_alloc to two heap pages or to a heap    *)
(* page and a page table, and none boot reserved is given out at all.      *)
THEOREM Exclusive == Spec => []FramesExclusive
<1>1. IInv => FramesExclusive
  BY DEF IInv
<1> QED BY <1>1, Invariance, PTL

(* The bitmap of virmem.c and the page tables of paging.c never disagree   *)
(* about a page of the heap, in the middle of a call included.             *)
THEOREM BitmapAgrees == Spec => []BitmapMatchesPaging
<1>1. IInv => BitmapMatchesPaging
  BY DEF IInv
<1> QED BY <1>1, Invariance, PTL

-----------------------------------------------------------------------------

(* The entries of the descriptor pages.                                    *)
Entry(i, s) == chain[i].allocs[s]

(* No block is recorded twice: freeing it once forgets it.                 *)
RecordedOnce ==
  \A i, j \in DOMAIN chain : \A s, t \in Slots :
    Entry(i, s).size # 0 /\ Entry(i, s) = Entry(j, t) => i = j /\ s = t

(* What is recorded is mapped, a page for one block or as a descriptor     *)
(* page.                                                                   *)
BlocksApart ==
  /\ DescriptorPages \subseteq MappedPages
  /\ \A b \in Records : Pages(b) \subseteq MappedPages \ DescriptorPages
  /\ \A b, c \in Records : b # c => Pages(b) \cap Pages(c) = {}

(* The block of the running call, of which the part in hand is mapped, is  *)
(* apart from all of them; what vir_alloc is about to map is not mapped.   *)
Calling == {"map", "record", "mapdesc", "unmap", "unwind"}
Looping == {"map", "unmap", "unwind"}
ToDo == run.page .. run.page + run.left - 1
InHand ==
  IF pc = "map" THEN block.address .. run.page - 1
  ELSE IF pc \in {"record", "mapdesc"} THEN Pages(block)
  ELSE IF pc \in {"unmap", "unwind"} THEN ToDo
  ELSE {}
CallApart ==
  /\ pc \in Looping => run.page + run.left = block.address + block.size
                       /\ run.page >= block.address
  /\ pc \in Calling => /\ Pages(block) \cap DescriptorPages = {}
                       /\ \A b \in Records : Pages(b) \cap Pages(block) = {}
  /\ InHand \subseteq MappedPages
  /\ pc \in {"map", "mapdesc"} => ToDo \cap MappedPages = {}

(* As long as no page table lies beyond the end of memory, nothing is      *)
(* mapped but what is recorded, in hand, or a descriptor page.             *)
RecordPages == UNION {Pages(b) : b \in Records}
AllOwned ==
  pc \notin Stopped /\ ~Poisoned =>
    MappedPages \subseteq DescriptorPages \cup RecordPages \cup InHand

BlockInv ==
  /\ IInv /\ RecordedOnce /\ BlocksApart /\ CallApart /\ AllOwned
  /\ live \subseteq Records

-----------------------------------------------------------------------------
(* The chain of descriptor pages as its entries.                           *)
LEMMA RecordsAreEntries ==
  ASSUME NEW b
  PROVE  b \in Records <=> b.size # 0 /\ \E i \in DOMAIN chain, s \in Slots : Entry(i, s) = b
<1>1. b \in Records <=> \E i \in DOMAIN chain : b \in RecordsOf(chain[i])
  BY DEF Records
<1>2. ASSUME NEW i \in DOMAIN chain
      PROVE  b \in RecordsOf(chain[i]) <=> b.size # 0 /\ \E s \in Slots : Entry(i, s) = b
  BY DEF RecordsOf, Entry
<1> QED BY <1>1, <1>2

LEMMA ChainShape ==
  ASSUME TypeOK
  PROVE  /\ Len(chain) \in Nat /\ DOMAIN chain = 1 .. Len(chain)
         /\ \A i \in DOMAIN chain, s \in Slots : Entry(i, s) \in DescEntries
         /\ Records \subseteq HeapBlocks
         /\ \A b \in DescEntries : b.size # 0 <=> b \in HeapBlocks
<1>1. Len(chain) \in Nat /\ DOMAIN chain = 1 .. Len(chain)
  BY LenProperties DEF TypeOK
<1>2. \A i \in DOMAIN chain, s \in Slots : Entry(i, s) \in DescEntries
  BY <1>1, ChainPages DEF Entry
<1>3. \A b \in DescEntries : b.size # 0 <=> b \in HeapBlocks
  BY HeapBlockSize
<1>4. Records \subseteq HeapBlocks
  BY <1>2, <1>3, RecordsAreEntries
<1> QED BY <1>1, <1>2, <1>3, <1>4

LEMMA BlockPages ==
  ASSUME NEW b \in HeapBlocks
  PROVE  /\ b.address \in Nat \ {0} /\ b.size \in Nat \ {0}
         /\ b.address \in Pages(b) /\ Pages(b) \subseteq HeapPages
BY KMemAssumption DEF HeapBlocks, HeapPages, Pages

Written(i, s, b, free) == chain' = [chain EXCEPT ![i] = WithEntry(chain[i], s, b, free)]

LEMMA EntryWritten ==
  ASSUME TypeOK, NEW i \in DOMAIN chain, NEW s \in Slots, NEW b, NEW free,
         Written(i, s, b, free)
  PROVE  /\ DOMAIN chain' = DOMAIN chain
         /\ DescriptorPages' = DescriptorPages
         /\ Entry(i, s)' = b
         /\ \A j \in DOMAIN chain, t \in Slots : j # i \/ t # s => Entry(j, t)' = Entry(j, t)
<1>1. chain[i] \in DescPages /\ chain \in Seq(DescPages)
  BY ChainShape, ChainPages DEF TypeOK
<1>2. DOMAIN chain' = DOMAIN chain
  BY DEF Written
<1>3. \A j \in DOMAIN chain : chain'[j] = IF j = i THEN WithEntry(chain[i], s, b, free) ELSE chain[j]
  BY DEF Written
<1>4. /\ WithEntry(chain[i], s, b, free).at = chain[i].at
      /\ \A t \in Slots : WithEntry(chain[i], s, b, free).allocs[t]
                            = IF t = s THEN b ELSE chain[i].allocs[t]
  BY <1>1 DEF WithEntry, DescPages
<1>5. DescriptorPages' = DescriptorPages
  BY <1>2, <1>3, <1>4 DEF DescriptorPages
<1> QED BY <1>2, <1>3, <1>4, <1>5 DEF Entry

LEMMA PageAppended ==
  ASSUME TypeOK, NEW at, chain' = Append(chain, EmptyPage(at))
  PROVE  /\ DOMAIN chain' = DOMAIN chain \cup {Len(chain) + 1}
         /\ DescriptorPages' = DescriptorPages \cup {at}
         /\ Records' = Records
         /\ RecordedOnce => RecordedOnce'
<1>1. chain \in Seq(DescPages) /\ Len(chain) \in Nat /\ DOMAIN chain = 1 .. Len(chain)
  BY ChainShape DEF TypeOK
<1> PICK n \in Nat : n = Len(chain) + 1
  BY <1>1
<1>2. /\ DOMAIN chain' = 1 .. n /\ chain'[n] = EmptyPage(at)
      /\ \A j \in DOMAIN chain : chain'[j] = chain[j]
  BY <1>1
<1>3. DOMAIN chain' = DOMAIN chain \cup {n}
  BY <1>1, <1>2
<1>4. DescriptorPages' = DescriptorPages \cup {at}
  BY <1>2, <1>3 DEF DescriptorPages, EmptyPage
<1>5. \A t \in Slots : Entry(n, t)'.size = 0
  BY <1>2 DEF Entry, EmptyPage, NoBlock
<1>6. \A j \in DOMAIN chain, t \in Slots : Entry(j, t)' = Entry(j, t)
  BY <1>2 DEF Entry
<1>7. Records' = Records
  <2>1. ASSUME NEW b PROVE b \in Records <=> b \in Records'
    <3>1. b \in Records <=> b.size # 0 /\ \E i \in DOMAIN chain, s \in Slots : Entry(i, s) = b
      BY RecordsAreEntries
    <3>2. b \in Records' <=> b.size # 0 /\ \E i \in DOMAIN chain', s \in Slots : Entry(i, s)' = b
      BY <1>2 DEF Records, RecordsOf, Entry
    <3> QED BY <1>3, <1>5, <1>6, <3>1, <3>2
  <2> QED BY <2>1
<1>8. RecordedOnce => RecordedOnce'
  BY <1>3, <1>5, <1>6 DEF RecordedOnce
<1> QED BY <1>3, <1>4, <1>7, <1>8
LEMMA SameRecords ==
  ASSUME chain' = chain
  PROVE  /\ Records' = Records /\ DescriptorPages' = DescriptorPages
         /\ RecordedOnce => RecordedOnce'
BY DEF Records, RecordsOf, DescriptorPages, RecordedOnce, Entry

LEMMA SameMapping ==
  ASSUME pte' = pte
  PROVE  MappedPages' = MappedPages
BY DEF MappedPages

(* Nothing is recorded, mapped or unmapped.                                *)
LEMMA SameBlocks ==
  ASSUME RecordedOnce, BlocksApart, chain' = chain, pte' = pte
  PROVE  RecordedOnce' /\ BlocksApart'
BY SameRecords, SameMapping DEF BlocksApart, Pages

LEMMA NoPages == Pages(NoBlock) = {}
BY DEF Pages, NoBlock

(* What vir_alloc accepts is not mapped.                                   *)
LEMMA AcceptedIsUnmapped ==
  ASSUME IInv, NEW n \in Nat, VirAllocAccepts(n)
  PROVE  /\ find_clear_bits(n) \in Nat /\ n >= 1
         /\ (find_clear_bits(n) .. find_clear_bits(n) + n - 1) \cap MappedPages = {}
<1>1. /\ n >= 1 /\ find_clear_bits(n) \in HeapPages
      /\ PageRange(find_clear_bits(n), n) \cap page_bitmap = {}
  BY AcceptedRun DEF IInv, CallInv
<1>2. MappedPages \subseteq page_bitmap
  BY DEF IInv, BitmapMatchesPaging, MappedPages
<1>3. find_clear_bits(n) \in Nat
  BY <1>1, KMemAssumption DEF HeapPages
<1> QED BY <1>1, <1>2, <1>3 DEF PageRange

-----------------------------------------------------------------------------
(* Steps that move no mapping and no record.                               *)
LEMMA InitDescBlocks ==
  ASSUME BlockInv, InitDesc
  PROVE  RecordedOnce' /\ BlocksApart' /\ CallApart' /\ AllOwned' /\ (live \subseteq Records)'
<1>1. /\ pc = "boot" /\ block = NoBlock /\ block' = NoBlock
      /\ UNCHANGED <<chain, pte, pde, live>>
  BY DEF InitDesc, BlockInv, IInv, CallInv, CallShape, levelVars, callerVars
<1>2. RecordedOnce' /\ BlocksApart'
  BY <1>1, SameBlocks DEF BlockInv
<1>3. Records' = Records /\ DescriptorPages' = DescriptorPages /\ MappedPages' = MappedPages
  BY <1>1, SameRecords, SameMapping
<1>4. (live \subseteq Records)'
  BY <1>1, <1>3 DEF BlockInv
<1>5. InHand' = {} /\ InHand = {} /\ pc' \in {"mapdesc", "panic"}
  BY <1>1, NoPages DEF InHand, InitDesc
<1>6. CallApart'
  <2>1. pc' = "mapdesc" => ToDo' \cap MappedPages = {}
    <3> SUFFICES ASSUME pc' = "mapdesc" PROVE ToDo' \cap MappedPages = {}
      OBVIOUS
    <3>1. VirAllocAccepts(1) /\ run' = [page |-> find_clear_bits(1), left |-> 1]
      BY DEF InitDesc
    <3>2. (find_clear_bits(1) .. find_clear_bits(1) + 1 - 1) \cap MappedPages = {}
      BY <3>1, AcceptedIsUnmapped DEF BlockInv
    <3>3. ToDo' = find_clear_bits(1) .. find_clear_bits(1) + 1 - 1
      BY <3>1 DEF ToDo
    <3> QED BY <3>2, <3>3
  <2>2. Pages(block)' = {}
    BY <1>1, NoPages DEF Pages
  <2> QED BY <1>3, <1>5, <2>1, <2>2 DEF CallApart, Looping
<1>7. AllOwned'
  <2>1. Poisoned' = Poisoned
    BY <1>1 DEF Poisoned
  <2>2. RecordPages' = RecordPages
    BY <1>3 DEF RecordPages, Pages
  <2> QED BY <1>1, <1>3, <1>5, <2>1, <2>2 DEF BlockInv, AllOwned, Stopped
<1> QED BY <1>2, <1>4, <1>6, <1>7

LEMMA KmallocBlocks ==
  ASSUME BlockInv, NEW n \in Sizes, KmallocBegins(n)
  PROVE  RecordedOnce' /\ BlocksApart' /\ CallApart' /\ AllOwned' /\ (live \subseteq Records)'
<1>1. /\ pc = "idle" /\ pc' = "map" /\ VirAllocAccepts(n)
      /\ block' = [address |-> find_clear_bits(n), size |-> n]
      /\ run' = [page |-> find_clear_bits(n), left |-> n]
      /\ UNCHANGED <<chain, pte, pde, live>>
  BY DEF KmallocBegins, levelVars, RunOver
<1>2. RecordedOnce' /\ BlocksApart'
  BY <1>1, SameBlocks DEF BlockInv
<1>3. Records' = Records /\ DescriptorPages' = DescriptorPages /\ MappedPages' = MappedPages
  BY <1>1, SameRecords, SameMapping
<1>4. (live \subseteq Records)'
  BY <1>1, <1>3 DEF BlockInv
<1>5. /\ find_clear_bits(n) \in Nat /\ n \in Nat /\ n >= 1
      /\ (find_clear_bits(n) .. find_clear_bits(n) + n - 1) \cap MappedPages = {}
  BY <1>1, KMemAssumption, AcceptedIsUnmapped DEF BlockInv
<1>6. InHand' = {} /\ InHand = {}
  BY <1>1, <1>5 DEF InHand
<1>7. CallApart'
  <2>1. /\ Pages(block)' = find_clear_bits(n) .. find_clear_bits(n) + n - 1
        /\ ToDo' = find_clear_bits(n) .. find_clear_bits(n) + n - 1
    BY <1>1 DEF Pages, ToDo
  <2>2. Pages(block)' \cap MappedPages = {} /\ ToDo' \cap MappedPages = {}
    BY <1>5, <2>1
  <2>3. \A b \in Records : Pages(b)' \cap Pages(block)' = {}
    BY <2>2 DEF BlockInv, BlocksApart, Pages
  <2>4. Pages(block)' \cap DescriptorPages = {}
    BY <2>2 DEF BlockInv, BlocksApart
  <2>5. run'.page + run'.left = block'.address + block'.size /\ run'.page >= block'.address
    BY <1>1, <1>5
  <2> QED BY <1>1, <1>3, <1>6, <2>2, <2>3, <2>4, <2>5 DEF CallApart
<1>8. AllOwned'
  <2>1. Poisoned' = Poisoned
    BY <1>1 DEF Poisoned
  <2>2. RecordPages' = RecordPages
    BY <1>3 DEF RecordPages, Pages
  <2> QED BY <1>1, <1>3, <1>6, <2>1, <2>2 DEF BlockInv, AllOwned, Stopped
<1> QED BY <1>2, <1>4, <1>7, <1>8

(* A call that does nothing, or stops the kernel.                          *)
LEMMA IdleBlocks ==
  ASSUME BlockInv, UNCHANGED <<chain, pte, pde, block, run>>, live' \subseteq live,
         pc' = pc \/ pc' \in Stopped
  PROVE  RecordedOnce' /\ BlocksApart' /\ CallApart' /\ AllOwned' /\ (live \subseteq Records)'
<1>1. RecordedOnce' /\ BlocksApart'
  BY SameBlocks DEF BlockInv
<1>2. Records' = Records /\ DescriptorPages' = DescriptorPages /\ MappedPages' = MappedPages
  BY SameRecords, SameMapping
<1>3. (live \subseteq Records)'
  BY <1>2 DEF BlockInv
<1>4. CallApart' /\ AllOwned'
  <2>1. CASE pc' = pc
    <3>1. InHand' = InHand /\ ToDo' = ToDo /\ Pages(block)' = Pages(block)
      BY <2>1 DEF InHand, ToDo, Pages
    <3>2. Poisoned' = Poisoned
      BY DEF Poisoned
    <3>3. RecordPages' = RecordPages
      BY <1>2 DEF RecordPages, Pages
    <3>4. CallApart'
      BY <1>2, <2>1, <3>1 DEF BlockInv, CallApart, Pages
    <3> QED BY <1>2, <2>1, <3>1, <3>2, <3>3, <3>4 DEF BlockInv, AllOwned
  <2>2. CASE pc' \in Stopped
    <3>1. InHand' = {}
      BY <2>2 DEF InHand, Stopped
    <3> QED BY <2>2, <3>1 DEF CallApart, AllOwned, Calling, Looping, Stopped
  <2> QED BY <2>1, <2>2
<1> QED BY <1>1, <1>3, <1>4
-----------------------------------------------------------------------------
(* A page of the heap is mapped.                                           *)
LEMMA MappedBlocks ==
  ASSUME BlockInv, pc \in {"map", "mapdesc"}, NEW page, page # 0,
         Mapped(run.page, page), live' = live, Poisoned => Poisoned'
  PROVE  RecordedOnce' /\ BlocksApart' /\ CallApart' /\ AllOwned' /\ (live \subseteq Records)'
<1> PICK v \in HeapPages : v = run.page
  BY DEF BlockInv, IInv, CallInv, CallShape
<1>1. /\ v \in Nat /\ run.left \in Nat /\ run.left >= 1 /\ block.address \in Nat
      /\ block.size \in Nat
  BY KMemAssumption DEF BlockInv, IInv, CallInv, CallShape, TypeOK, DescEntries,
     HeapPages, HeapBlocks, NoBlock
<1>2. v \notin MappedPages /\ v \in ToDo
  <2>1. v \in ToDo
    BY <1>1 DEF ToDo
  <2> QED BY <2>1 DEF BlockInv, CallApart
<1>3. MappedPages' = MappedPages \cup {v}
  BY DEF Mapped, MappedPages, BlockInv, IInv, CallInv, TypeOK
<1>4. block' = block
  BY DEF Mapped
<1>5. CASE pc = "map"
  <2>1. /\ run.page + run.left = block.address + block.size /\ run.page >= block.address
        /\ Pages(block) \cap DescriptorPages = {}
        /\ \A b \in Records : Pages(b) \cap Pages(block) = {}
        /\ block.address .. v - 1 \subseteq MappedPages /\ ToDo \cap MappedPages = {}
    BY <1>5 DEF BlockInv, CallApart, Looping, Calling, InHand
  <2>2. chain' = chain
    BY <1>5 DEF Mapped, VirAllocReturns
  <2>3. Records' = Records /\ DescriptorPages' = DescriptorPages /\ RecordedOnce'
    BY <2>2, SameRecords DEF BlockInv
  <2>4. v \in Pages(block)
    BY <1>1, <2>1 DEF Pages
  <2>5. BlocksApart'
    BY <1>3, <2>1, <2>3, <2>4 DEF BlockInv, BlocksApart, Pages
  <2>6. InHand' = (block.address .. v - 1) \cup {v} /\ pc' \in {"map", "record"}
    <3>1. block.address .. v = (block.address .. v - 1) \cup {v}
      BY <1>1, <2>1
    <3>2. CASE run.left > 1
      <4>1. run' = [page |-> v + 1, left |-> run.left - 1] /\ pc' = "map"
        BY <1>5, <3>2 DEF Mapped
      <4>2. InHand' = block.address .. (v + 1) - 1
        BY <1>4, <4>1 DEF InHand
      <4> QED BY <1>1, <3>1, <4>1, <4>2
    <3>3. CASE ~(run.left > 1)
      <4>1. pc' = "record"
        BY <1>5, <3>3 DEF Mapped, VirAllocReturns
      <4>2. v + 1 = block.address + block.size
        BY <1>1, <2>1, <3>3
      <4>3. InHand' = block.address .. block.address + block.size - 1
        BY <1>4, <4>1 DEF InHand, Pages
      <4> QED BY <1>1, <3>1, <4>1, <4>2, <4>3
    <3> QED BY <1>1, <3>2, <3>3
  <2>7. pc' = "map" => /\ ToDo' \subseteq ToDo \ {v}
                       /\ run'.page + run'.left = block'.address + block'.size
                       /\ run'.page >= block'.address
    <3> SUFFICES ASSUME pc' = "map"
                 PROVE  /\ ToDo' \subseteq ToDo \ {v}
                        /\ run'.page + run'.left = block'.address + block'.size
                        /\ run'.page >= block'.address
      OBVIOUS
    <3>1. run.left > 1
      BY <1>5 DEF Mapped, VirAllocReturns
    <3>2. run' = [page |-> v + 1, left |-> run.left - 1]
      BY <3>1 DEF Mapped
    <3>3. ToDo' = v + 1 .. (v + 1) + (run.left - 1) - 1
      BY <3>2 DEF ToDo
    <3>4. ToDo' \subseteq ToDo \ {v}
      <4>1. (v + 1) + (run.left - 1) - 1 = v + run.left - 1
        BY <1>1
      <4>2. ToDo' = v + 1 .. v + run.left - 1 /\ ToDo = v .. v + run.left - 1
        BY <3>3, <4>1 DEF ToDo
      <4>3. v + run.left - 1 \in Int
        BY <1>1
      <4> QED BY <1>1, <4>2, <4>3
    <3> QED BY <1>1, <1>4, <2>1, <3>2, <3>4
  <2>8. CallApart'
    <3>1. ToDo' \cap MappedPages' = {} \/ pc' # "map"
      BY <1>3, <2>1, <2>7
    <3>2. InHand' \subseteq MappedPages'
      BY <1>3, <2>1, <2>6
    <3>3. Pages(block)' = Pages(block) /\ \A b : Pages(b)' = Pages(b)
      BY <1>4 DEF Pages
    <3> QED BY <2>1, <2>3, <2>6, <2>7, <3>1, <3>2, <3>3 DEF CallApart, Looping
  <2>9. AllOwned'
    <3>1. RecordPages' = RecordPages
      BY <2>3 DEF RecordPages, Pages
    <3>2. InHand = block.address .. v - 1
      BY <1>5 DEF InHand
    <3> SUFFICES ASSUME ~Poisoned'
                 PROVE  MappedPages' \subseteq
                          DescriptorPages' \cup RecordPages' \cup InHand'
      BY DEF AllOwned
    <3>3. MappedPages \subseteq DescriptorPages \cup RecordPages \cup InHand
      BY <1>5 DEF BlockInv, AllOwned, Stopped
    <3>4. InHand' = InHand \cup {v}
      BY <2>6, <3>2
    <3> QED BY <1>3, <2>3, <3>1, <3>3, <3>4, Zenon
  <2> QED BY <2>3, <2>5, <2>8, <2>9 DEF BlockInv
<1>6. CASE pc = "mapdesc"
  <2>1. run.left = 1
    BY <1>6 DEF BlockInv, IInv, CallInv, CallShape
  <2>2. /\ chain' = Append(chain, EmptyPage(v)) /\ run' = NoRun
        /\ pc' = IF block = NoBlock THEN "idle" ELSE "record"
    BY <1>6, <2>1 DEF Mapped, VirAllocReturns
  <2>3. Records' = Records /\ DescriptorPages' = DescriptorPages \cup {v} /\ RecordedOnce'
    BY <2>2, PageAppended DEF BlockInv, IInv, CallInv
  <2>4. /\ Pages(block) \cap DescriptorPages = {} /\ Pages(block) \subseteq MappedPages
        /\ \A b \in Records : Pages(b) \cap Pages(block) = {}
        /\ InHand = Pages(block)
    BY <1>6 DEF BlockInv, CallApart, Calling, InHand
  <2>5. BlocksApart'
    BY <1>2, <1>3, <2>3 DEF BlockInv, BlocksApart, Pages
  <2>6. InHand' = Pages(block) /\ pc' \in {"idle", "record"}
    BY <1>4, <2>2, NoPages DEF InHand, Pages
  <2>7. CallApart'
    <3>1. Pages(block)' = Pages(block) /\ \A b : Pages(b)' = Pages(b)
      BY <1>4 DEF Pages
    <3> QED BY <1>2, <1>3, <2>3, <2>4, <2>6, <3>1 DEF CallApart, Looping
  <2>8. AllOwned'
    <3>1. RecordPages' = RecordPages
      BY <2>3 DEF RecordPages, Pages
    <3> QED BY <1>3, <1>6, <2>3, <2>4, <2>6, <3>1 DEF BlockInv, AllOwned, Stopped
  <2> QED BY <2>3, <2>5, <2>7, <2>8 DEF BlockInv
<1> QED BY <1>5, <1>6

LEMMA MapPageBlocks ==
  ASSUME BlockInv, MapPage \/ MapPageAndTable
  PROVE  RecordedOnce' /\ BlocksApart' /\ CallApart' /\ AllOwned' /\ (live \subseteq Records)'
<1>1. /\ pc \in {"map", "mapdesc"} /\ Mapped(run.page, NewPage) /\ live' = live
  BY DEF MapPage, MapPageAndTable, callerVars
<1>2. NewPage # 0
  BY NewPageUnowned DEF BlockInv, IInv
<1>3. Poisoned => Poisoned'
  <2>1. CASE MapPage
    BY <2>1 DEF MapPage, Poisoned
  <2>2. CASE MapPageAndTable
    <3>1. /\ pde' = [pde EXCEPT ![PdEntry(run.page)] = NewTable]
          /\ pde[PdEntry(run.page)] = 0
      BY <2>2 DEF MapPageAndTable, NeedsTable
    <3>2. 0 \in Frames
      BY FismemAssumption DEF Frames
    <3> QED BY <3>1, <3>2 DEF Poisoned, BlockInv, IInv, CallInv, TypeOK
  <2> QED BY <2>1, <2>2
<1> QED BY <1>1, <1>2, <1>3, MappedBlocks

(* vir_alloc gives up only when the page table is beyond memory: whatever  *)
(* it is about to map is not mapped.                                       *)
LEMMA MapRefusedBlocks ==
  ASSUME BlockInv, MapRefused
  PROVE  RecordedOnce' /\ BlocksApart' /\ CallApart' /\ AllOwned' /\ (live \subseteq Records)'
<1>1. /\ pc \in {"map", "mapdesc"} /\ VirAllocGivesUp /\ chain' = chain
      /\ UNCHANGED <<page_bitmap, pte, live>>
  BY DEF MapRefused, VirAllocGivesUp
<1>2. RecordedOnce' /\ BlocksApart'
  BY <1>1, SameBlocks DEF BlockInv
<1>3. Records' = Records /\ DescriptorPages' = DescriptorPages /\ MappedPages' = MappedPages
  BY <1>1, SameRecords, SameMapping
<1>4. Poisoned'
  <2>1. run.page \in HeapPages /\ PdEntry(run.page) \in PdEntries
    BY <1>1, PdEntryType DEF BlockInv, IInv, CallInv, CallShape
  <2>2. CASE NewTable = FisPages /\ pde' = [pde EXCEPT ![PdEntry(run.page)] = NewTable]
    <3>1. FisPages \notin Frames
      BY FismemAssumption DEF Frames
    <3> QED BY <2>1, <2>2, <3>1 DEF Poisoned, BlockInv, IInv, CallInv, TypeOK
  <2>3. CASE ReadsPresent(run.page) /\ pde' = pde
    <3>1. run.page \in ToDo
      <4>1. run.page \in Nat /\ run.left \in Nat /\ run.left >= 1
        BY <1>1, KMemAssumption DEF BlockInv, IInv, CallInv, CallShape, TypeOK, HeapPages
      <4> QED BY <4>1 DEF ToDo
    <3>2. run.page \notin MappedPages
      BY <1>1, <3>1 DEF BlockInv, CallApart
    <3>3. pde[PdEntry(run.page)] \notin Frames
      BY <2>1, <2>3, <3>2 DEF ReadsPresent, MappedPages
    <3> QED BY <2>1, <2>3, <3>3 DEF Poisoned
  <2> QED BY <2>2, <2>3 DEF MapRefused
<1>5. CallApart'
  <2>1. CASE pc = "map" \/ block = NoBlock
    <3>1. pc' \in {"idle", "panic"}
      BY <1>1, <2>1 DEF VirAllocGivesUp
    <3> QED BY <3>1 DEF CallApart, InHand, Looping, Calling
  <2>2. CASE ~(pc = "map" \/ block = NoBlock)
    <3>1. /\ pc' = "unwind" /\ block' = block
          /\ run' = [page |-> block.address, left |-> block.size]
      BY <1>1, <2>2 DEF VirAllocGivesUp, RunOver
    <3>2. pc = "mapdesc"
      BY <1>1, <2>2
    <3>3. /\ Pages(block) \subseteq MappedPages /\ Pages(block) \cap DescriptorPages = {}
          /\ \A b \in Records : Pages(b) \cap Pages(block) = {}
      BY <3>2 DEF BlockInv, CallApart, InHand, Calling
    <3>4. InHand' = Pages(block) /\ Pages(block)' = Pages(block) /\ \A b : Pages(b)' = Pages(b)
      BY <3>1 DEF InHand, ToDo, Pages
    <3>5. block.address \in Nat
      BY KMemAssumption DEF BlockInv, IInv, CallInv, TypeOK, DescEntries, HeapBlocks, HeapPages, NoBlock
    <3> QED BY <1>3, <3>1, <3>3, <3>4, <3>5 DEF CallApart
  <2> QED BY <2>1, <2>2
<1> QED BY <1>1, <1>2, <1>3, <1>4, <1>5 DEF AllOwned, BlockInv
-----------------------------------------------------------------------------
(* Steps that write a record.                                              *)
LEMMA RecordBlocks ==
  ASSUME BlockInv, RecordBlock
  PROVE  /\ RecordedOnce' /\ BlocksApart' /\ CallApart' /\ AllOwned' /\ (live \subseteq Records)'
         /\ Records' = Records \cup {block}
<1>0. TypeOK /\ pc = "record" /\ block \in HeapBlocks /\ block # NoBlock /\ chain # <<>>
  BY KMemAssumption DEF BlockInv, IInv, CallInv, CallShape, RecordBlock, HeapBlocks, NoBlock, HeapPages
<1> PICK i \in DOMAIN chain : i = find_first_free_desc_page
  BY <1>0, FirstFreePageExists, ChainShape
<1> PICK s \in Slots : s = Lowest(EmptySlots(i)) /\ Entry(i, s).size = 0
  <2>1. EmptySlots(i) # {} /\ EmptySlots(i) \in SUBSET Slots
    BY DEF RecordBlock, EmptySlots
  <2> QED BY <2>1, LowestSlot DEF EmptySlots, Entry
<1> PICK b : b = block
  OBVIOUS
<1> PICK free : free = chain[i].free - 1
  OBVIOUS
<1>1. /\ Written(i, s, b, free)
      /\ pc' = "idle" /\ live' = live \cup {b} /\ UNCHANGED <<pte, pde>>
  BY DEF RecordBlock, levelVars, Written
<1>2. /\ DOMAIN chain' = DOMAIN chain /\ DescriptorPages' = DescriptorPages
      /\ Entry(i, s)' = b
      /\ \A j \in DOMAIN chain, t \in Slots : j # i \/ t # s => Entry(j, t)' = Entry(j, t)
  BY <1>0, <1>1, EntryWritten
<1>3. b.size # 0 /\ b.address \in Pages(b)
  BY <1>0, BlockPages
<1>4. Records' = Records \cup {b}
  <2> SUFFICES ASSUME NEW c PROVE c \in Records' <=> c \in Records \/ c = b
    OBVIOUS
  <2>1. c \in Records <=> c.size # 0 /\ \E j \in DOMAIN chain, t \in Slots : Entry(j, t) = c
    BY RecordsAreEntries
  <2>2. c \in Records' <=> c.size # 0 /\ \E j \in DOMAIN chain', t \in Slots : Entry(j, t)' = c
    BY DEF Records, RecordsOf, Entry
  <2> QED BY <1>2, <1>3, <2>1, <2>2
<1>5. /\ Pages(b) \cap DescriptorPages = {} /\ Pages(b) \subseteq MappedPages
      /\ \A c \in Records : Pages(c) \cap Pages(b) = {}
      /\ InHand = Pages(b)
  BY <1>0 DEF BlockInv, CallApart, Calling, InHand
<1>6. b \notin Records
  BY <1>3, <1>5
<1>7. MappedPages' = MappedPages
  BY <1>1, SameMapping
<1>8. RecordedOnce'
  <2>1. \A j \in DOMAIN chain, t \in Slots : Entry(j, t) # b
    BY <1>3, <1>6, RecordsAreEntries
  <2> QED BY <1>2, <2>1 DEF BlockInv, RecordedOnce
<1>9. BlocksApart'
  BY <1>2, <1>4, <1>5, <1>7 DEF BlockInv, BlocksApart, Pages
<1>10. CallApart' /\ InHand' = {}
  BY <1>1 DEF CallApart, InHand, Looping, Calling
<1>11. AllOwned'
  <2> SUFFICES ASSUME ~Poisoned'
               PROVE  MappedPages' \subseteq
                        DescriptorPages' \cup RecordPages' \cup InHand'
    BY DEF AllOwned
  <2>1. MappedPages \subseteq DescriptorPages \cup RecordPages \cup Pages(b)
    BY <1>0, <1>1, <1>5 DEF BlockInv, AllOwned, Stopped, Poisoned
  <2>2. RecordPages' = RecordPages \cup Pages(b)
    BY <1>4 DEF RecordPages, Pages
  <2> QED BY <1>2, <1>7, <2>1, <2>2, Zenon
<1>12. (live \subseteq Records)'
  BY <1>1, <1>4 DEF BlockInv
<1> QED BY <1>4, <1>8, <1>9, <1>10, <1>11, <1>12

LEMMA DescriptorPageBlocks ==
  ASSUME BlockInv, AddDescriptorPage \/ DescriptorPageRefused
  PROVE  RecordedOnce' /\ BlocksApart' /\ CallApart' /\ AllOwned' /\ (live \subseteq Records)'
<1>1. /\ pc = "record" /\ pc' \in {"mapdesc", "unwind"}
      /\ UNCHANGED <<chain, pte, pde, block, live>>
      /\ block \in HeapBlocks
  BY DEF AddDescriptorPage, DescriptorPageRefused, levelVars, callerVars,
         BlockInv, IInv, CallInv, CallShape
<1>2. RecordedOnce' /\ BlocksApart'
  BY <1>1, SameBlocks DEF BlockInv
<1>3. Records' = Records /\ DescriptorPages' = DescriptorPages /\ MappedPages' = MappedPages
  BY <1>1, SameRecords, SameMapping
<1>4. /\ Pages(block) \subseteq MappedPages /\ Pages(block) \cap DescriptorPages = {}
      /\ \A b \in Records : Pages(b) \cap Pages(block) = {}
      /\ InHand = Pages(block)
  BY <1>1 DEF BlockInv, CallApart, InHand, Calling
<1>5. Pages(block)' = Pages(block) /\ \A b : Pages(b)' = Pages(b)
  BY <1>1 DEF Pages
<1>6. pc' = "unwind" => run' = [page |-> block.address, left |-> block.size]
  BY DEF AddDescriptorPage, DescriptorPageRefused, RunOver
<1>7. InHand' = Pages(block)
  BY <1>1, <1>5, <1>6 DEF InHand, ToDo, Pages
<1>8. pc' = "mapdesc" => ToDo' \cap MappedPages = {}
  <2> SUFFICES ASSUME pc' = "mapdesc" PROVE ToDo' \cap MappedPages = {}
    OBVIOUS
  <2>1. VirAllocAccepts(1) /\ run' = [page |-> find_clear_bits(1), left |-> 1]
    BY DEF AddDescriptorPage, DescriptorPageRefused
  <2>2. (find_clear_bits(1) .. find_clear_bits(1) + 1 - 1) \cap MappedPages = {}
    BY <2>1, AcceptedIsUnmapped DEF BlockInv
  <2> QED BY <2>1, <2>2 DEF ToDo
<1>9. CallApart'
  <2>1. block.address \in Nat
    BY <1>1, BlockPages
  <2> QED BY <1>1, <1>3, <1>4, <1>5, <1>6, <1>7, <1>8, <2>1 DEF CallApart, Looping
<1>10. AllOwned'
  <2>1. Poisoned' = Poisoned
    BY <1>1 DEF Poisoned
  <2>2. RecordPages' = RecordPages
    BY <1>3 DEF RecordPages, Pages
  <2> QED BY <1>1, <1>3, <1>4, <1>7, <2>1, <2>2 DEF BlockInv, AllOwned, Stopped
<1>11. (live \subseteq Records)'
  BY <1>1, <1>3 DEF BlockInv
<1> QED BY <1>2, <1>9, <1>10, <1>11

(* kfree empties the one entry that records the block, or, called with the *)
(* 0 of a failed kmalloc, an empty one.                                    *)
LEMMA KfreeFindsEntry ==
  ASSUME BlockInv, NEW b \in live \cup {NoBlock}, KfreeFinds(b)
  PROVE  \E i \in DOMAIN chain, s \in Slots, free \in Nat :
           /\ Entry(i, s) = b /\ free = chain[i].free + 1
           /\ Written(i, s, NoBlock, free)
           /\ IF b.size = 0 THEN UNCHANGED <<pc, run, block>>
              ELSE pc' = "unmap" /\ run' = RunOver(b) /\ block' = b
<1>1. TypeOK
  BY DEF BlockInv, IInv, CallInv
<1>2. Len(chain) \in Nat /\ DOMAIN chain = 1 .. Len(chain)
  BY <1>1, ChainShape
<1>3. MatchingPages(b.address) \in SUBSET Nat /\ MatchingPages(b.address) # {}
  BY <1>2 DEF KfreeFinds, MatchingPages, SearchedPages
<1> PICK i \in DOMAIN chain : i = Lowest(MatchingPages(b.address)) /\ i \in MatchingPages(b.address)
  BY <1>3, LowestIn DEF MatchingPages, SearchedPages
<1> PICK s \in Slots : s = Lowest(Matches(i, b.address)) /\ Entry(i, s).address = b.address
  <2>1. Matches(i, b.address) # {} /\ Matches(i, b.address) \in SUBSET Slots
    BY DEF MatchingPages, Matches
  <2> QED BY <2>1, LowestSlot DEF Matches, Entry
<1>4. Entry(i, s) \in DescEntries
  BY <1>1, ChainShape
<1>5. Entry(i, s) = b
  <2>1. CASE b = NoBlock
    <3>1. Entry(i, s).address = 0
      BY <2>1 DEF NoBlock
    <3>2. Entry(i, s) \notin HeapBlocks
      BY <3>1, BlockPages
    <3> QED BY <1>4, <2>1, <3>2 DEF DescEntries
  <2>2. CASE b \in live
    <3>1. b \in Records /\ b \in HeapBlocks
      BY <1>1, <2>2, ChainShape DEF BlockInv
    <3>2. b.address # 0 /\ b.address \in Pages(b)
      BY <3>1, BlockPages
    <3>3. Entry(i, s) \in HeapBlocks
      BY <1>4, <3>2 DEF DescEntries, NoBlock
    <3>4. Entry(i, s) \in Records
      BY <1>1, <1>4, <3>3, ChainShape, RecordsAreEntries
    <3>5. b.address \in Pages(Entry(i, s))
      BY <3>3, BlockPages
    <3> QED BY <3>1, <3>2, <3>4, <3>5 DEF BlockInv, BlocksApart
  <2> QED BY <2>1, <2>2
<1>6. chain[i].free + 1 \in Nat
  BY <1>1, <1>2, ChainPages
<1> PICK free \in Nat : free = chain[i].free + 1
  BY <1>6
<1>7. Written(i, s, NoBlock, free)
  BY DEF KfreeFinds, Written
<1>8. IF b.size = 0 THEN UNCHANGED <<pc, run, block>>
      ELSE pc' = "unmap" /\ run' = RunOver(b) /\ block' = b
  BY <1>5 DEF KfreeFinds, Entry
<1> QED BY <1>5, <1>7, <1>8

LEMMA KfreeBlocks ==
  ASSUME BlockInv, NEW b \in live \cup {NoBlock}, KfreeFinds(b)
  PROVE  /\ RecordedOnce' /\ BlocksApart' /\ CallApart' /\ AllOwned' /\ (live \subseteq Records)'
         /\ Records' = Records \ {b}
<1>0. TypeOK /\ pc = "idle" /\ live' = live \ {b} /\ UNCHANGED <<pte, pde>>
  BY DEF BlockInv, IInv, CallInv, KfreeFinds, CallerGaveUp, levelVars
<1>1. PICK i \in DOMAIN chain, s \in Slots, free \in Nat :
        /\ Entry(i, s) = b /\ Written(i, s, NoBlock, free)
        /\ IF b.size = 0 THEN UNCHANGED <<pc, run, block>>
           ELSE pc' = "unmap" /\ run' = RunOver(b) /\ block' = b
  BY KfreeFindsEntry
<1>2. /\ DOMAIN chain' = DOMAIN chain /\ DescriptorPages' = DescriptorPages
      /\ Entry(i, s)' = NoBlock
      /\ \A j \in DOMAIN chain, t \in Slots : j # i \/ t # s => Entry(j, t)' = Entry(j, t)
  BY <1>0, <1>1, EntryWritten
<1>3. MappedPages' = MappedPages /\ Poisoned' = Poisoned
  BY <1>0, SameMapping DEF Poisoned
<1>4. RecordedOnce'
  BY <1>2 DEF BlockInv, RecordedOnce, NoBlock
<1>5. Records' = Records \ {b}
  <2> SUFFICES ASSUME NEW c PROVE c \in Records' <=> c \in Records /\ c # b
    OBVIOUS
  <2>1. c \in Records <=> c.size # 0 /\ \E j \in DOMAIN chain, t \in Slots : Entry(j, t) = c
    BY RecordsAreEntries
  <2>2. c \in Records' <=> c.size # 0 /\ \E j \in DOMAIN chain', t \in Slots : Entry(j, t)' = c
    BY DEF Records, RecordsOf, Entry
  <2>3. b.size # 0 => \A j \in DOMAIN chain, t \in Slots : j # i \/ t # s => Entry(j, t) # b
    BY <1>1 DEF BlockInv, RecordedOnce
  <2>4. NoBlock.size = 0
    BY DEF NoBlock
  <2> QED BY <1>1, <1>2, <2>1, <2>2, <2>3, <2>4
<1>6. (live \subseteq Records)'
  BY <1>0, <1>5 DEF BlockInv
<1>7. BlocksApart'
  BY <1>2, <1>3, <1>5 DEF BlockInv, BlocksApart, Pages
<1>8. InHand = {}
  BY <1>0 DEF InHand
<1>9. MappedPages \subseteq DescriptorPages \cup RecordPages \/ Poisoned
  BY <1>0, <1>8 DEF BlockInv, AllOwned, Stopped
<1>10. CASE b = NoBlock
  <2>1. UNCHANGED <<pc, run, block>> /\ b \notin Records
    BY <1>1, <1>10, RecordsAreEntries DEF NoBlock
  <2>2. InHand' = {} /\ RecordPages' = RecordPages
    BY <1>0, <1>5, <2>1 DEF InHand, RecordPages, Pages
  <2>3. CallApart'
    BY <1>0, <2>1, <2>2 DEF CallApart, Looping, Calling
  <2>4. AllOwned'
    BY <1>2, <1>3, <1>9, <2>2 DEF AllOwned
  <2> QED BY <1>4, <1>5, <1>6, <1>7, <2>3, <2>4
<1>11. CASE b \in live
  <2>1. b \in Records /\ b \in HeapBlocks
    BY <1>0, <1>11, ChainShape DEF BlockInv
  <2>2. b.address \in Nat /\ b.size # 0
    BY <2>1, BlockPages
  <2>3. pc' = "unmap" /\ run' = [page |-> b.address, left |-> b.size] /\ block' = b
    BY <1>1, <2>2 DEF RunOver
  <2>4. InHand' = Pages(b) /\ Pages(block)' = Pages(b) /\ \A c : Pages(c)' = Pages(c)
    BY <2>3 DEF InHand, ToDo, Pages
  <2>5. CallApart'
    BY <1>2, <1>3, <1>5, <2>1, <2>2, <2>3, <2>4 DEF CallApart, BlockInv, BlocksApart
  <2>6. RecordPages \subseteq RecordPages' \cup Pages(b)
    BY <1>5 DEF RecordPages, Pages
  <2>7. AllOwned'
    BY <1>2, <1>3, <1>9, <2>4, <2>6 DEF AllOwned
  <2> QED BY <1>4, <1>5, <1>6, <1>7, <2>5, <2>7
<1> QED BY <1>10, <1>11

-----------------------------------------------------------------------------
(* vir_free finds every page of the block mapped, and unmaps no other.     *)
LEMMA UnmapBlocks ==
  ASSUME BlockInv, UnmapPage
  PROVE  RecordedOnce' /\ BlocksApart' /\ CallApart' /\ AllOwned' /\ (live \subseteq Records)'
<1> PICK v \in HeapPages : v = run.page
  BY DEF BlockInv, IInv, CallInv, CallShape, UnmapPage
<1>0. /\ pc \in {"unmap", "unwind"} /\ UNCHANGED <<chain, live>>
      /\ v \in Nat /\ run.left \in Nat /\ run.left >= 1
      /\ block.address \in Nat /\ block.size \in Nat
      /\ v + run.left = block.address + block.size /\ v >= block.address
  BY KMemAssumption DEF UnmapPage, BlockInv, IInv, CallInv, CallShape, TypeOK, CallApart, Looping,
     HeapPages, HeapBlocks
<1>1. ToDo = v .. v + run.left - 1 /\ InHand = ToDo
  BY <1>0 DEF ToDo, InHand
<1>2. v \in ToDo /\ ToDo \subseteq Pages(block)
  BY <1>0, <1>1 DEF Pages
<1>3. v \in MappedPages /\ ToDo \subseteq MappedPages
  BY <1>1, <1>2 DEF BlockInv, CallApart
<1>4. v \in page_bitmap /\ pte[v] # 0
  BY <1>3 DEF MappedPages, BlockInv, IInv, BitmapMatchesPaging
<1>5. /\ pte' = [pte EXCEPT ![v] = 0] /\ pde' = pde
      /\ IF run.left > 1
         THEN run' = [page |-> v + 1, left |-> run.left - 1] /\ UNCHANGED <<pc, block, failed>>
         ELSE VirFreeReturns
  BY <1>4 DEF UnmapPage, Unmapped
<1>6. MappedPages' = MappedPages \ {v} /\ Poisoned' = Poisoned
  BY <1>5 DEF MappedPages, Poisoned, BlockInv, IInv, CallInv, TypeOK
<1>7. Records' = Records /\ DescriptorPages' = DescriptorPages /\ RecordedOnce'
  BY <1>0, SameRecords DEF BlockInv
<1>8. /\ Pages(block) \cap DescriptorPages = {}
      /\ \A b \in Records : Pages(b) \cap Pages(block) = {}
  BY <1>0 DEF BlockInv, CallApart, Calling
<1>9. BlocksApart'
  BY <1>2, <1>6, <1>7, <1>8 DEF BlockInv, BlocksApart, Pages
<1>10. (live \subseteq Records)'
  BY <1>0, <1>7 DEF BlockInv
<1>11. RecordPages' = RecordPages
  BY <1>7 DEF RecordPages, Pages
<1>12. MappedPages \subseteq DescriptorPages \cup RecordPages \cup ToDo \/ Poisoned
  BY <1>0, <1>1 DEF BlockInv, AllOwned, Stopped
<1>13. CASE run.left > 1
  <2>1. run' = [page |-> v + 1, left |-> run.left - 1] /\ pc' = pc /\ block' = block
    BY <1>5, <1>13
  <2>2. ToDo' = ToDo \ {v} /\ InHand' = ToDo'
    <3>1. ToDo' = v + 1 .. (v + 1) + (run.left - 1) - 1
      BY <2>1 DEF ToDo
    <3>2. (v + 1) + (run.left - 1) - 1 = v + run.left - 1 /\ v + run.left - 1 \in Int
      BY <1>0
    <3>3. ToDo' = ToDo \ {v}
      BY <1>0, <1>1, <3>1, <3>2
    <3>4. InHand' = ToDo'
      BY <1>0, <2>1 DEF InHand, ToDo
    <3> QED BY <3>3, <3>4
  <2>3. Pages(block)' = Pages(block) /\ \A b : Pages(b)' = Pages(b)
    BY <2>1 DEF Pages
  <2>4. run'.page + run'.left = block'.address + block'.size /\ run'.page >= block'.address
    BY <1>0, <2>1
  <2>5. CallApart'
    BY <1>0, <1>3, <1>6, <1>7, <1>8, <2>1, <2>2, <2>3, <2>4 DEF CallApart
  <2>6. AllOwned'
    BY <1>6, <1>7, <1>11, <1>12, <2>2 DEF AllOwned
  <2> QED BY <1>7, <1>9, <1>10, <2>5, <2>6
<1>14. CASE ~(run.left > 1)
  <2>1. pc' = "idle" /\ ToDo = {v}
    <3>1. run.left = 1
      BY <1>0, <1>14
    <3> QED BY <1>0, <1>1, <1>5, <3>1 DEF VirFreeReturns
  <2>2. InHand' = {} /\ CallApart'
    BY <2>1 DEF InHand, CallApart, Looping, Calling
  <2>3. AllOwned'
    BY <1>6, <1>7, <1>11, <1>12, <2>1, <2>2 DEF AllOwned
  <2> QED BY <1>7, <1>9, <1>10, <2>2, <2>3
<1> QED BY <1>13, <1>14

-----------------------------------------------------------------------------
LEMMA InitBlocks == Init => BlockInv
<1> SUFFICES ASSUME Init PROVE BlockInv
  OBVIOUS
<1>1. IInv
  BY InitTyping, InitExclusive DEF IInv
<1>2. /\ chain = <<>> /\ pc = "boot" /\ live = {} /\ block = NoBlock
      /\ MappedPages = {}
  BY DEF Init, MappedPages
<1>3. DOMAIN chain = {}
  BY <1>2
<1>4. Records = {} /\ DescriptorPages = {} /\ RecordedOnce
  BY <1>3 DEF Records, DescriptorPages, RecordedOnce
<1>5. InHand = {}
  BY <1>2 DEF InHand
<1>6. CallApart
  BY <1>2, <1>5 DEF CallApart, Looping, Calling
<1> QED BY <1>1, <1>2, <1>4, <1>5, <1>6 DEF BlockInv, BlocksApart, AllOwned

LEMMA StepBlocks == BlockInv /\ [Next]_kmemVars => BlockInv'
<1> SUFFICES ASSUME BlockInv, [Next]_kmemVars PROVE BlockInv'
  OBVIOUS
<1>1. IInv'
  BY StepTyping, StepExclusive DEF BlockInv, IInv
<1> DEFINE Kept == RecordedOnce' /\ BlocksApart' /\ CallApart' /\ AllOwned' /\ (live \subseteq Records)'
<1>2. ASSUME NEW n \in Sizes, KmallocBegins(n) PROVE Kept
  BY <1>2, KmallocBlocks
<1>3. ASSUME NEW n \in Sizes, KmallocRefused(n) PROVE Kept
  BY <1>3, IdleBlocks DEF KmallocRefused, levelVars
<1>4. ASSUME NEW b \in live \cup {NoBlock}, KfreeFinds(b) PROVE Kept
  BY <1>4, KfreeBlocks
<1>5. ASSUME NEW b, KfreeMisses(b) PROVE Kept
  BY <1>5, IdleBlocks DEF KfreeMisses, CallerGaveUp, levelVars
<1>6. ASSUME InitDesc PROVE Kept
  BY <1>6, InitDescBlocks
<1>7. ASSUME MapPage \/ MapPageAndTable PROVE Kept
  BY <1>7, MapPageBlocks
<1>8. ASSUME MapRefused PROVE Kept
  BY <1>8, MapRefusedBlocks
<1>9. ASSUME MapLost \/ RecordOverruns PROVE Kept
  BY <1>9, IdleBlocks DEF MapLost, RecordOverruns, levelVars, callerVars, Stopped
<1>10. ASSUME RecordBlock PROVE Kept
  BY <1>10, RecordBlocks
<1>11. ASSUME AddDescriptorPage \/ DescriptorPageRefused PROVE Kept
  BY <1>11, DescriptorPageBlocks
<1>12. ASSUME UnmapPage PROVE Kept
  BY <1>12, UnmapBlocks
<1>13. ASSUME UNCHANGED kmemVars PROVE Kept
  BY <1>13, IdleBlocks DEF kmemVars, levelVars, callerVars
<1>14. Kmalloc => Kept
  BY <1>2, <1>3 DEF Kmalloc
<1>15. Kfree => Kept
  BY <1>4, <1>5 DEF Kfree
<1>16. Continue => Kept
  BY <1>6, <1>7, <1>8, <1>9, <1>10, <1>11, <1>12 DEF Continue, Mapping, Recording
<1>17. Kept
  BY <1>13, <1>14, <1>15, <1>16 DEF Next
<1> QED BY <1>1, <1>17 DEF BlockInv

THEOREM BlockInvariance == Spec => []BlockInv
BY InitBlocks, StepBlocks, PTL DEF Spec

(* However calls follow each other and whichever fail, a block a caller    *)
(* holds is recorded and mapped, and nothing else lies over it.            *)
THEOREM BlocksIntact == Spec => []HeldBlocksIntact
<1>1. BlockInv => HeldBlocksIntact
  BY DEF BlockInv, BlocksApart, HeldBlocksIntact
<1> QED BY <1>1, BlockInvariance, PTL

(* Between calls nothing is mapped but recorded blocks and descriptor      *)
(* pages: kmalloc gives back all a failure had taken.                      *)
THEOREM NoLeak == Spec => []NothingLeaks
<1>1. BlockInv => NothingLeaks
  <2> SUFFICES ASSUME BlockInv, pc = "idle", ~Poisoned
               PROVE  MappedPages = DescriptorPages \cup UNION {Pages(b) : b \in Records}
    BY DEF NothingLeaks
  <2>1. InHand = {}
    BY DEF InHand
  <2>2. MappedPages \subseteq DescriptorPages \cup RecordPages
    BY <2>1 DEF BlockInv, AllOwned, Stopped
  <2>3. DescriptorPages \cup RecordPages \subseteq MappedPages
    BY DEF BlockInv, BlocksApart, RecordPages
  <2> QED BY <2>2, <2>3 DEF RecordPages
<1> QED BY <1>1, BlockInvariance, PTL

(* No step of any call moves a page of a block someone holds.              *)
LEMMA StepStays ==
  BlockInv /\ [Next]_kmemVars =>
    \A b \in live \cap live' : \A v \in Pages(b) : pte'[v] = pte[v]
<1> SUFFICES ASSUME BlockInv, [Next]_kmemVars, NEW b \in live, NEW v \in Pages(b)
             PROVE  pte'[v] = pte[v]
  OBVIOUS
<1>1. b \in Records /\ v \in MappedPages /\ v \in HeapPages
  BY DEF BlockInv, BlocksApart, MappedPages
<1>2. CASE MapPage \/ MapPageAndTable
  <2>1. run.page \in ToDo
    <3>1. run.page \in Nat /\ run.left \in Nat /\ run.left >= 1
      BY <1>2, KMemAssumption DEF MapPage, MapPageAndTable, BlockInv, IInv, CallInv,
         CallShape, TypeOK, HeapPages
    <3> QED BY <3>1 DEF ToDo
  <2>2. run.page \notin MappedPages
    BY <1>2, <2>1 DEF MapPage, MapPageAndTable, BlockInv, CallApart
  <2>3. pte' = [pte EXCEPT ![run.page] = NewPage]
    BY <1>2 DEF MapPage, MapPageAndTable, Mapped
  <2> QED BY <1>1, <2>2, <2>3 DEF BlockInv, IInv, CallInv, TypeOK
<1>3. CASE UnmapPage
  <2>1. run.page \in Pages(block)
    <3>1. /\ run.page \in Nat /\ run.left \in Nat /\ run.left >= 1
          /\ block.address \in Nat /\ block.size \in Nat
          /\ run.page + run.left = block.address + block.size /\ run.page >= block.address
      BY <1>3, KMemAssumption DEF UnmapPage, BlockInv, IInv, CallInv, CallShape, TypeOK,
         CallApart, Looping, HeapPages, HeapBlocks
    <3> QED BY <3>1 DEF Pages
  <2>2. Pages(b) \cap Pages(block) = {}
    BY <1>1, <1>3 DEF UnmapPage, BlockInv, CallApart, Calling
  <2>3. v # run.page
    BY <2>1, <2>2
  <2>4. pte' = pte \/ pte' = [pte EXCEPT ![run.page] = 0]
    BY <1>3 DEF UnmapPage, Unmapped, levelVars
  <2> QED BY <1>1, <2>3, <2>4 DEF BlockInv, IInv, CallInv, TypeOK
<1>4. CASE MapRefused \/ MapLost \/ InitDesc \/ Recording \/ UNCHANGED kmemVars
  BY <1>4 DEF MapRefused, MapLost, InitDesc, Recording, RecordBlock, AddDescriptorPage,
     DescriptorPageRefused, RecordOverruns, kmemVars, levelVars
<1>5. CASE Kmalloc \/ Kfree
  BY <1>5 DEF Kmalloc, KmallocBegins, KmallocRefused, Kfree, KfreeFinds, KfreeMisses, levelVars
<1> QED BY <1>2, <1>3, <1>4, <1>5 DEF Next, Continue, Mapping

THEOREM StaysPut == Spec => HeldPagesStayPut
BY BlockInvariance, StepStays, PTL DEF Spec, HeldPagesStayPut

-----------------------------------------------------------------------------
(* The counters of the descriptor pages.                                   *)
Empties(i) == Cardinality(EmptySlots(i))

LEMMA EmptiesFinite ==
  ASSUME NEW i
  PROVE  IsFiniteSet(EmptySlots(i)) /\ Empties(i) \in Nat
<1>1. IsFiniteSet(Slots)
  BY FS_Interval, KMemAssumption DEF Slots
<1>2. EmptySlots(i) \subseteq Slots
  BY DEF EmptySlots
<1> QED BY <1>1, <1>2, FS_Subset, FS_CardinalityType DEF Empties

LEMMA CountsWritten ==
  ASSUME TypeOK, NEW i \in DOMAIN chain, NEW s \in Slots, NEW b, NEW free,
         Written(i, s, b, free)
  PROVE  /\ DOMAIN chain' = DOMAIN chain
         /\ chain'[i].free = free
         /\ \A j \in DOMAIN chain : j # i => chain'[j] = chain[j]
         /\ b.size = 0 => EmptySlots(i)' = EmptySlots(i) \cup {s}
         /\ b.size # 0 => EmptySlots(i)' = EmptySlots(i) \ {s}
<1>1. DOMAIN chain' = DOMAIN chain
  BY EntryWritten
<1>2. \A j \in DOMAIN chain : chain'[j] = IF j = i THEN WithEntry(chain[i], s, b, free) ELSE chain[j]
  BY DEF Written
<1>3. Entry(i, s)' = b /\ \A t \in Slots : t # s => Entry(i, t)' = Entry(i, t)
  BY EntryWritten
<1>4. \A t : t \in EmptySlots(i)' <=> t \in Slots /\ Entry(i, t)'.size = 0
  BY DEF EmptySlots, Entry
<1>5. \A t : t \in EmptySlots(i) <=> t \in Slots /\ Entry(i, t).size = 0
  BY DEF EmptySlots, Entry
<1>6. chain'[i].free = free
  BY <1>2 DEF WithEntry
<1> QED BY <1>1, <1>2, <1>3, <1>4, <1>5, <1>6

LEMMA SameCounts ==
  ASSUME DescriptorCountsExact, chain' = chain, nullFreed => nullFreed'
  PROVE  DescriptorCountsExact'
BY DEF DescriptorCountsExact, EmptySlots

LEMMA AppendedCounts ==
  ASSUME TypeOK, DescriptorCountsExact, nullFreed' = nullFreed, NEW at,
         chain' = Append(chain, EmptyPage(at))
  PROVE  DescriptorCountsExact'
<1>1. chain \in Seq(DescPages) /\ Len(chain) \in Nat /\ DOMAIN chain = 1 .. Len(chain)
  BY ChainShape DEF TypeOK
<1> PICK n \in Nat : n = Len(chain) + 1
  BY <1>1
<1>2. /\ DOMAIN chain' = 1 .. n /\ chain'[n] = EmptyPage(at)
      /\ \A j \in DOMAIN chain : chain'[j] = chain[j]
  BY <1>1
<1>3. EmptySlots(n)' = Slots
  BY <1>2 DEF EmptySlots, EmptyPage, NoBlock
<1>4. Cardinality(Slots) = AllocNum
  BY FS_Interval, KMemAssumption DEF Slots
<1>5. chain'[n].free = AllocNum /\ AllocNum \in Nat
  BY <1>2, KMemAssumption DEF EmptyPage
<1>6. ASSUME NEW j \in DOMAIN chain
      PROVE  chain'[j] = chain[j] /\ EmptySlots(j)' = EmptySlots(j)
  BY <1>2 DEF EmptySlots
<1>7. ASSUME NEW j \in DOMAIN chain', j \notin DOMAIN chain PROVE j = n
  BY <1>1, <1>2, <1>7
<1>8. ASSUME NEW j \in DOMAIN chain'
      PROVE  /\ chain'[j].free >= Cardinality(EmptySlots(j)')
             /\ nullFreed' \/ chain'[j].free = Cardinality(EmptySlots(j)')
  <2>1. CASE j \in DOMAIN chain
    BY <1>6, <2>1 DEF DescriptorCountsExact
  <2>2. CASE j \notin DOMAIN chain
    BY <1>3, <1>4, <1>5, <1>7, <2>2
  <2> QED BY <2>1, <2>2
<1> QED BY <1>8 DEF DescriptorCountsExact

LEMMA WrittenCounts ==
  ASSUME TypeOK, DescriptorCountsExact, NEW i \in DOMAIN chain, NEW s \in Slots,
         NEW b, NEW free \in Nat, Written(i, s, b, free), nullFreed => nullFreed',
         \/ b.size # 0 /\ Entry(i, s).size = 0 /\ free = chain[i].free - 1
         \/ b.size = 0 /\ Entry(i, s).size # 0 /\ free = chain[i].free + 1
         \/ b.size = 0 /\ Entry(i, s).size = 0 /\ free = chain[i].free + 1 /\ nullFreed'
  PROVE  DescriptorCountsExact'
<1>1. /\ DOMAIN chain' = DOMAIN chain /\ chain'[i].free = free
      /\ \A j \in DOMAIN chain : j # i => chain'[j] = chain[j]
      /\ b.size = 0 => EmptySlots(i)' = EmptySlots(i) \cup {s}
      /\ b.size # 0 => EmptySlots(i)' = EmptySlots(i) \ {s}
  BY CountsWritten
<1>2. s \in EmptySlots(i) <=> Entry(i, s).size = 0
  BY DEF EmptySlots, Entry
<1>3. IsFiniteSet(EmptySlots(i)) /\ Empties(i) \in Nat
  BY EmptiesFinite
<1>4. /\ chain[i].free >= Empties(i) /\ (nullFreed \/ chain[i].free = Empties(i))
      /\ chain[i].free \in Nat
  <2>1. i \in 1 .. Len(chain)
    BY ChainShape
  <2> QED BY <2>1, ChainPages DEF DescriptorCountsExact, Empties
<1> DEFINE now == Cardinality(EmptySlots(i)')
<1>5. free >= now /\ (nullFreed' \/ free = now)
  <2>1. CASE b.size # 0 /\ Entry(i, s).size = 0 /\ free = chain[i].free - 1
    <3>1. EmptySlots(i)' = EmptySlots(i) \ {s} /\ s \in EmptySlots(i)
      BY <1>1, <1>2, <2>1
    <3>2. now = Empties(i) - 1
      BY <1>3, <3>1, FS_RemoveElement DEF Empties
    <3> HIDE DEF now
    <3> QED BY <1>3, <1>4, <2>1, <3>2
  <2>2. CASE b.size = 0 /\ Entry(i, s).size # 0 /\ free = chain[i].free + 1
    <3>1. EmptySlots(i)' = EmptySlots(i) \cup {s} /\ s \notin EmptySlots(i)
      BY <1>1, <1>2, <2>2
    <3>2. now = Empties(i) + 1
      BY <1>3, <3>1, FS_AddElement DEF Empties
    <3> HIDE DEF now
    <3> QED BY <1>3, <1>4, <2>2, <3>2
  <2>3. CASE b.size = 0 /\ Entry(i, s).size = 0 /\ free = chain[i].free + 1 /\ nullFreed'
    <3>1. EmptySlots(i)' = EmptySlots(i)
      BY <1>1, <1>2, <2>3
    <3>2. now = Empties(i)
      BY <3>1 DEF Empties
    <3> HIDE DEF now
    <3> QED BY <1>3, <1>4, <2>3, <3>2
  <2> QED BY <2>1, <2>2, <2>3
<1>6. ASSUME NEW j \in DOMAIN chain, j # i
      PROVE  chain'[j] = chain[j] /\ EmptySlots(j)' = EmptySlots(j)
  BY <1>1, <1>6 DEF EmptySlots
<1>7. ASSUME NEW j \in DOMAIN chain'
      PROVE  /\ chain'[j].free >= Cardinality(EmptySlots(j)')
             /\ nullFreed' \/ chain'[j].free = Cardinality(EmptySlots(j)')
  <2>1. CASE j = i
    BY <1>1, <1>5, <2>1
  <2>2. CASE j # i
    BY <1>1, <1>6, <2>2 DEF DescriptorCountsExact
  <2> QED BY <2>1, <2>2
<1> QED BY <1>7 DEF DescriptorCountsExact

LEMMA StepCounts ==
  BlockInv /\ DescriptorCountsExact /\ [Next]_kmemVars => DescriptorCountsExact'
<1> SUFFICES ASSUME BlockInv, DescriptorCountsExact, [Next]_kmemVars
             PROVE  DescriptorCountsExact'
  OBVIOUS
<1>1. TypeOK
  BY DEF BlockInv, IInv, CallInv
<1>2. CASE RecordBlock
  <2>1. pc = "record" /\ block \in HeapBlocks /\ chain # <<>>
    BY <1>2 DEF BlockInv, IInv, CallInv, CallShape, RecordBlock
  <2> PICK i \in DOMAIN chain : i = find_first_free_desc_page
    BY <1>1, <2>1, FirstFreePageExists, ChainShape
  <2> PICK s \in Slots : s = Lowest(EmptySlots(i)) /\ Entry(i, s).size = 0
    <3>1. EmptySlots(i) # {} /\ EmptySlots(i) \in SUBSET Slots
      BY <1>2 DEF RecordBlock, EmptySlots
    <3> QED BY <3>1, LowestSlot DEF EmptySlots, Entry
  <2>2. chain[i].free > 0 /\ chain[i].free \in Nat
    BY <1>1, <1>2, ChainShape, ChainPages DEF RecordBlock
  <2> PICK free \in Nat : free = chain[i].free - 1
    BY <2>2
  <2> PICK b : b = block
    OBVIOUS
  <2>3. Written(i, s, b, free) /\ nullFreed' = nullFreed
    BY <1>2 DEF RecordBlock, Written
  <2>4. b.size # 0
    BY <2>1, BlockPages
  <2> QED BY <1>1, <2>3, <2>4, WrittenCounts
<1>3. CASE Kfree
  <2> PICK b \in live \cup {NoBlock} : KfreeFinds(b) \/ KfreeMisses(b)
    BY <1>3 DEF Kfree
  <2>1. nullFreed' = (nullFreed \/ b = NoBlock)
    BY DEF KfreeFinds, KfreeMisses, CallerGaveUp
  <2>2. CASE KfreeFinds(b)
    <3>1. PICK i \in DOMAIN chain, s \in Slots, free \in Nat :
            /\ Entry(i, s) = b /\ free = chain[i].free + 1
            /\ Written(i, s, NoBlock, free)
      BY <2>2, KfreeFindsEntry
    <3>2. NoBlock.size = 0 /\ (b.size # 0 \/ b = NoBlock)
      <4>1. b = NoBlock \/ b \in HeapBlocks
        BY <1>1, ChainShape DEF BlockInv
      <4> QED BY <4>1, BlockPages DEF NoBlock
    <3>3. nullFreed => nullFreed'
      BY <2>1
    <3> QED BY <1>1, <2>1, <3>1, <3>2, <3>3, WrittenCounts
  <2>3. CASE KfreeMisses(b)
    BY <2>1, <2>3 DEF KfreeMisses, DescriptorCountsExact, EmptySlots
  <2> QED BY <2>2, <2>3
<1>4. CASE MapPage \/ MapPageAndTable
  <2>1. /\ nullFreed' = nullFreed
        /\ chain' = chain \/ chain' = Append(chain, EmptyPage(run.page))
    BY <1>4 DEF MapPage, MapPageAndTable, Mapped, VirAllocReturns, callerVars
  <2> QED BY <1>1, <2>1, SameCounts, AppendedCounts
<1>5. CASE Kmalloc \/ InitDesc \/ MapRefused \/ MapLost \/ AddDescriptorPage
             \/ DescriptorPageRefused \/ RecordOverruns \/ UnmapPage \/ UNCHANGED kmemVars
  <2>1. chain' = chain /\ nullFreed' = nullFreed
    BY <1>5 DEF Kmalloc, KmallocBegins, KmallocRefused, InitDesc, MapRefused, VirAllocGivesUp,
       MapLost, AddDescriptorPage, DescriptorPageRefused, RecordOverruns, UnmapPage, kmemVars,
       callerVars
  <2> QED BY <2>1, SameCounts
<1> QED BY <1>2, <1>3, <1>4, <1>5 DEF Next, Continue, Mapping, Recording

(* new_allocation may trust the counter of a descriptor page: it never     *)
(* tells fewer entries free than are, and tells how many there are until   *)
(* someone passes kfree the 0 of a failed kmalloc.                         *)
THEOREM CountsExact == Spec => []DescriptorCountsExact
<1>1. Init => DescriptorCountsExact
  <2> SUFFICES ASSUME Init PROVE DescriptorCountsExact
    OBVIOUS
  <2>1. DOMAIN chain = {}
    BY DEF Init
  <2> QED BY <2>1 DEF DescriptorCountsExact
<1> QED BY <1>1, StepCounts, BlockInvariance, PTL DEF Spec

-----------------------------------------------------------------------------
(* What kfree forgets.  The loop of free_allocation does not search the    *)
(* last page of a chain of two or more.                                    *)
InLastPage(b) == Len(chain) > 1 /\ b \in RecordsOf(chain[Len(chain)])

(* The address is enough to know a held block by.                          *)
LEMMA AddressTells ==
  ASSUME BlockInv, NEW b \in live, NEW i \in DOMAIN chain, NEW s \in Slots
  PROVE  Entry(i, s).address = b.address <=> Entry(i, s) = b
<1>1. TypeOK
  BY DEF BlockInv, IInv, CallInv
<1>2. b \in Records /\ b \in HeapBlocks
  BY <1>1, ChainShape DEF BlockInv
<1>3. b.address # 0 /\ b.address \in Pages(b)
  BY <1>2, BlockPages
<1>4. Entry(i, s) \in DescEntries
  BY <1>1, ChainShape
<1>5. ASSUME Entry(i, s).address = b.address PROVE Entry(i, s) = b
  <2>1. Entry(i, s) \in HeapBlocks
    BY <1>3, <1>4, <1>5 DEF DescEntries, NoBlock
  <2>2. Entry(i, s) \in Records
    BY <1>1, <1>4, <2>1, ChainShape, RecordsAreEntries
  <2>3. b.address \in Pages(Entry(i, s))
    BY <1>5, <2>1, BlockPages
  <2> QED BY <1>2, <1>3, <2>2, <2>3 DEF BlockInv, BlocksApart
<1> QED BY <1>5

(* A page with an entry in use says so, as long as the counters are exact. *)
LEMMA UsedIsCounted ==
  ASSUME TypeOK, DescriptorCountsExact, ~nullFreed,
         NEW i \in DOMAIN chain, NEW s \in Slots, Entry(i, s).size # 0
  PROVE  chain[i].free < AllocNum
<1>1. IsFiniteSet(Slots) /\ Cardinality(Slots) = AllocNum
  <2>1. IsFiniteSet(Slots)
    BY FS_Interval, KMemAssumption DEF Slots
  <2>2. Cardinality(Slots) = AllocNum
    BY FS_Interval, KMemAssumption DEF Slots
  <2> QED BY <2>1, <2>2
<1>2. EmptySlots(i) \subseteq Slots \ {s}
  BY DEF EmptySlots, Entry
<1>3. /\ IsFiniteSet(Slots \ {s})
      /\ Cardinality(Slots \ {s}) = AllocNum - 1
  BY <1>1, FS_RemoveElement
<1>4. Cardinality(EmptySlots(i)) <= AllocNum - 1
  BY <1>2, <1>3, FS_Subset
<1>5. chain[i].free = Cardinality(EmptySlots(i))
  BY DEF DescriptorCountsExact
<1>6. Cardinality(EmptySlots(i)) \in Nat /\ AllocNum \in Nat
  BY EmptiesFinite, KMemAssumption DEF Empties
<1> QED BY <1>4, <1>5, <1>6

LEMMA FreeForgets ==
  ASSUME BlockInv, DescriptorCountsExact, ~nullFreed,
         NEW b \in live, KfreeFinds(b) \/ KfreeMisses(b)
  PROVE  b \in Records' <=> InLastPage(b)
<1>1. /\ TypeOK /\ b \in Records
      /\ Len(chain) \in Nat /\ DOMAIN chain = 1 .. Len(chain)
  BY ChainShape DEF BlockInv, IInv, CallInv
<1>2. b.size # 0
  BY <1>1, RecordsAreEntries
<1>3. InLastPage(b) <=> /\ Len(chain) > 1
                        /\ \E s \in Slots : Entry(Len(chain), s) = b
  BY <1>2 DEF InLastPage, RecordsOf, Entry
<1>4. CASE KfreeFinds(b)
  <2>1. Records' = Records \ {b}
    BY <1>4, KfreeBlocks
  <2>2. PICK i \in SearchedPages : Matches(i, b.address) # {}
    BY <1>4 DEF KfreeFinds, MatchingPages
  <2>3. i \in DOMAIN chain /\ (i = 1 \/ i < Len(chain))
    BY DEF SearchedPages
  <2>4. PICK s \in Slots : Entry(i, s) = b
    BY <2>2, <2>3, AddressTells DEF Matches, Entry
  <2>5. ~InLastPage(b)
    <3>1. SUFFICES ASSUME Len(chain) > 1, NEW t \in Slots,
                          Entry(Len(chain), t) = b
                   PROVE  FALSE
      BY <1>3
    <3>2. Len(chain) \in DOMAIN chain /\ i # Len(chain)
      BY <1>1, <2>3, <3>1
    <3> QED BY <1>2, <2>3, <2>4, <3>1, <3>2 DEF BlockInv, RecordedOnce
  <2> QED BY <2>1, <2>5
<1>5. CASE KfreeMisses(b)
  <2>1. Records' = Records
    BY <1>5, SameRecords DEF KfreeMisses
  <2>2. PICK i \in DOMAIN chain, s \in Slots : Entry(i, s) = b
    BY <1>1, RecordsAreEntries
  <2>3. Matches(i, b.address) # {} /\ chain[i].free < AllocNum
    BY <1>1, <1>2, <2>2, UsedIsCounted DEF Matches, Entry
  <2>4. i \notin SearchedPages
    BY <1>5, <2>3 DEF KfreeMisses, MatchingPages
  <2>5. i = Len(chain) /\ Len(chain) > 1
    BY <1>1, <2>4 DEF SearchedPages
  <2> QED BY <1>1, <1>3, <2>1, <2>2, <2>5
<1> QED BY <1>4, <1>5

(* Exactly which freed blocks stay recorded, for any chain and however it  *)
(* came about: until someone passes kfree the 0 of a failed kmalloc, a     *)
(* call of kfree forgets its block unless the block is recorded in the     *)
(* last page of a chain of two pages or more, and never forgets it then.   *)
THEOREM ForgetsAllButTheLast ==
  Spec => [][\A b \in live \ live' :
               ~nullFreed => (b \in Records' <=> InLastPage(b))]_kmemVars
<1>1. ASSUME BlockInv, DescriptorCountsExact, Next, ~nullFreed,
             NEW b \in live \ live'
      PROVE  b \in Records' <=> InLastPage(b)
  <2>1. Kfree
    BY <1>1 DEF Next, Kmalloc, KmallocBegins, KmallocRefused, Continue,
       InitDesc, Mapping, MapPage, MapPageAndTable, MapRefused, MapLost,
       Recording, RecordBlock, AddDescriptorPage, DescriptorPageRefused,
       RecordOverruns, UnmapPage, callerVars
  <2>2. PICK c \in live \cup {NoBlock} : KfreeFinds(c) \/ KfreeMisses(c)
    BY <2>1 DEF Kfree
  <2>3. live' = live \ {c}
    BY <2>2 DEF KfreeFinds, KfreeMisses, CallerGaveUp
  <2>4. c = b
    BY <2>3
  <2> QED BY <1>1, <2>2, <2>4, FreeForgets
<1>2. BlockInv /\ DescriptorCountsExact /\ [Next]_kmemVars =>
        [\A b \in live \ live' :
           ~nullFreed => (b \in Records' <=> InLastPage(b))]_kmemVars
  BY <1>1
<1> QED BY <1>2, BlockInvariance, CountsExact, PTL DEF Spec

-----------------------------------------------------------------------------
(* The counter of free pages.                                              *)
(* What the bitmap says of the counter: the free pages of memory, less the *)
(* bits set past its end.                                                  *)
Told(bits) == Cardinality(Frames \ bits) - Cardinality(bits \ Frames)

CounterInv == fis_freepages \in {Told(fis_bitmap) - drift, Told(fis_bitmap) - drift + UWrap}

-----------------------------------------------------------------------------
LEMMA PagesFinite ==
  ASSUME NEW bits \in SUBSET (0 .. FisPages)
  PROVE  /\ IsFiniteSet(Frames \ bits) /\ IsFiniteSet(bits \ Frames)
         /\ Cardinality(Frames \ bits) \in Nat /\ Cardinality(bits \ Frames) \in 0 .. 1
<1>1. IsFiniteSet(Frames)
  BY FismemAssumption, FS_Interval DEF Frames
<1>2. IsFiniteSet(Frames \ bits)
  BY <1>1, FS_Subset
<1>3. bits \ Frames \in SUBSET {FisPages}
  BY FismemAssumption DEF Frames
<1>4. IsFiniteSet({FisPages}) /\ Cardinality({FisPages}) = 1
  BY FS_Singleton
<1>5. IsFiniteSet(bits \ Frames) /\ Cardinality(bits \ Frames) <= 1
  BY <1>3, <1>4, FS_Subset
<1>6. Cardinality(Frames \ bits) \in Nat /\ Cardinality(bits \ Frames) \in Nat
  BY <1>2, <1>5, FS_CardinalityType
<1> QED BY <1>2, <1>5, <1>6

LEMMA ToldType ==
  ASSUME NEW bits \in SUBSET (0 .. FisPages)
  PROVE  Told(bits) \in Int
<1>1. Cardinality(Frames \ bits) \in Nat /\ Cardinality(bits \ Frames) \in Nat
  BY PagesFinite
<1> QED BY <1>1 DEF Told

(* A bit set, wherever it is, makes one free page less.                    *)
LEMMA SetBit ==
  ASSUME NEW bits \in SUBSET (0 .. FisPages), NEW p \in 0 .. FisPages, p \notin bits
  PROVE  Told(bits \cup {p}) = Told(bits) - 1
<1>1. /\ IsFiniteSet(Frames \ bits) /\ IsFiniteSet(bits \ Frames)
      /\ Cardinality(Frames \ bits) \in Nat /\ Cardinality(bits \ Frames) \in Nat
  BY PagesFinite
<1>2. CASE p \in Frames
  <2>1. Frames \ (bits \cup {p}) = (Frames \ bits) \ {p} /\ (bits \cup {p}) \ Frames = bits \ Frames
    BY <1>2
  <2>2. Cardinality((Frames \ bits) \ {p}) = Cardinality(Frames \ bits) - 1
    BY <1>1, <1>2, FS_RemoveElement
  <2>3. Told(bits \cup {p}) = Cardinality((Frames \ bits) \ {p}) - Cardinality(bits \ Frames)
    BY <2>1, Zenon DEF Told
  <2>4. Told(bits) = Cardinality(Frames \ bits) - Cardinality(bits \ Frames)
    BY DEF Told
  <2> QED BY <1>1, <2>2, <2>3, <2>4
<1>3. CASE p \notin Frames
  <2>1. Frames \ (bits \cup {p}) = Frames \ bits /\ (bits \cup {p}) \ Frames = (bits \ Frames) \cup {p}
    BY <1>3
  <2>2. Cardinality((bits \ Frames) \cup {p}) = Cardinality(bits \ Frames) + 1
    BY <1>1, <1>3, FS_AddElement
  <2>3. Told(bits \cup {p}) = Cardinality(Frames \ bits) - Cardinality((bits \ Frames) \cup {p})
    BY <2>1, Zenon DEF Told
  <2>4. Told(bits) = Cardinality(Frames \ bits) - Cardinality(bits \ Frames)
    BY DEF Told
  <2> QED BY <1>1, <2>2, <2>3, <2>4
<1> QED BY <1>2, <1>3

LEMMA ClearBit ==
  ASSUME NEW bits \in SUBSET (0 .. FisPages), NEW p \in bits
  PROVE  Told(bits \ {p}) = Told(bits) + 1
<1>1. bits \ {p} \in SUBSET (0 .. FisPages) /\ (bits \ {p}) \cup {p} = bits
  OBVIOUS
<1>2. Told(bits) = Told(bits \ {p}) - 1
  <2>1. p \in 0 .. FisPages /\ p \notin bits \ {p}
    OBVIOUS
  <2>2. Told((bits \ {p}) \cup {p}) = Told(bits \ {p}) - 1
    BY <1>1, <2>1, SetBit
  <2> QED BY <1>1, <2>2
<1>3. Told(bits \ {p}) \in Int
  BY <1>1, ToldType
<1> QED BY <1>2, <1>3

(* How far from 0 and from a wrap the right count is.                      *)
LEMMA ToldBounds ==
  ASSUME NEW bits \in SUBSET (0 .. FisPages), BootFrames \subseteq bits, drift \in Drifts
  PROVE  /\ Told(bits) \in Int /\ drift \in Int
         /\ Told(bits) - drift <= UWrap - 1
         /\ Told(bits) - drift > 1 - UWrap
<1> DEFINE boot == Cardinality(Frames \ BootFrames)
<1>1. /\ Cardinality(Frames \ bits) \in Nat /\ Cardinality(bits \ Frames) \in 0 .. 1
  BY PagesFinite
<1>2. BootFrames \in SUBSET (0 .. FisPages)
  BY KMemAssumption, FismemAssumption DEF Frames
<1>3. IsFiniteSet(Frames \ BootFrames) /\ boot \in Nat
  BY <1>2, PagesFinite
<1>4. Cardinality(Frames \ bits) <= boot
  <2>1. Frames \ bits \in SUBSET (Frames \ BootFrames)
    OBVIOUS
  <2> QED BY <1>3, <2>1, FS_Subset
<1>5. boot <= FisPages
  <2>1. IsFiniteSet(Frames) /\ Cardinality(Frames) = FisPages
    <3>1. FisPages \in Nat /\ FisPages > 1
      BY FismemAssumption
    <3>2. IsFiniteSet(0 .. FisPages - 1) /\ Cardinality(0 .. FisPages - 1) = FisPages
      BY <3>1, FS_Interval
    <3> QED BY <3>2 DEF Frames
  <2>2. Frames \ BootFrames \in SUBSET Frames
    OBVIOUS
  <2> QED BY <2>1, <2>2, FS_Subset
<1>6. drift \in Int /\ boot - drift \in 0 .. UWrap - 1
  BY KMemAssumption
<1>7. FisPages \in Nat /\ UWrap \in Nat /\ UWrap > FisPages + 2
  BY FismemAssumption
<1> HIDE DEF boot
<1> QED BY <1>1, <1>3, <1>4, <1>5, <1>6, <1>7 DEF Told

(* One page less and one page more in the counter.                         *)
LEMMA TakeCounted ==
  ASSUME NEW told \in Int, NEW counter \in 0 .. UWrap - 1, counter \in {told, told + UWrap},
         told > 1 - UWrap, NEW c \in {1, 2}
  PROVE  Minus(counter, c) \in {told - c, told - c + UWrap}
BY FismemAssumption DEF Minus

LEMMA GiveCounted ==
  ASSUME NEW told \in Int, NEW counter \in 0 .. UWrap - 1, counter \in {told, told + UWrap},
         told < UWrap - 1
  PROVE  Plus(counter, 1) \in {told + 1, told + 1 + UWrap}
BY FismemAssumption DEF Plus
-----------------------------------------------------------------------------
(* The steps that move the counter: they set and clear as many bits.       *)
LEMMA StepCounter == IInv /\ CounterInv /\ [Next]_kmemVars => CounterInv'
<1> SUFFICES ASSUME IInv, CounterInv, [Next]_kmemVars PROVE CounterInv'
  OBVIOUS
<1> USE DEF CounterInv
<1>1. /\ fis_bitmap \in SUBSET (0 .. FisPages) /\ drift \in Drifts
      /\ fis_freepages \in 0 .. UWrap - 1 /\ BootFrames \subseteq fis_bitmap
      /\ TypeOK /\ FisPages \in Nat
  BY FismemAssumption DEF IInv, CallInv, TypeOK, FismemTypeOK, BootReserved
<1> DEFINE told == Told(fis_bitmap) - drift
<1>2. told \in Int /\ told > 1 - UWrap /\ drift \in Int /\ Told(fis_bitmap) \in Int
  BY <1>1, ToldBounds
<1>3. ASSUME fis_freepages' = fis_freepages, fis_bitmap' = fis_bitmap, drift' = drift
      PROVE  CounterInv'
  BY <1>3
<1>4. ASSUME NEW p \in 0 .. FisPages, p \notin fis_bitmap, drift' = drift,
             fis_bitmap' = fis_bitmap \cup {p}, fis_freepages' = Minus(fis_freepages, 1)
      PROVE  CounterInv'
  <2>1. Told(fis_bitmap') = Told(fis_bitmap) - 1
    BY <1>1, <1>4, SetBit
  <2>2. fis_freepages' \in {told - 1, told - 1 + UWrap}
    BY <1>1, <1>2, <1>4, TakeCounted
  <2> QED BY <1>2, <1>4, <2>1, <2>2, FismemAssumption
<1>5. CASE MapPage
  <2>1. NewPage \in 0 .. FisPages /\ NewPage \notin fis_bitmap
    BY <1>1, <1>5, NewPageIsClear DEF MapPage, Frames
  <2> QED BY <1>4, <1>5, <2>1 DEF MapPage
<1>6. CASE MapPageAndTable
  <2>1. /\ NewPage \in 0 .. FisPages /\ NewPage \notin fis_bitmap
        /\ NewTable \in 0 .. FisPages /\ NewTable \notin fis_bitmap \cup {NewPage}
    BY <1>1, <1>6, NewPageIsClear, NewTableIsClear DEF MapPageAndTable, Frames
  <2>2. fis_bitmap' = (fis_bitmap \cup {NewPage}) \cup {NewTable}
    BY <1>6 DEF MapPageAndTable
  <2>3. Told(fis_bitmap \cup {NewPage}) = Told(fis_bitmap) - 1
    BY <1>1, <2>1, SetBit
  <2>4. fis_bitmap \cup {NewPage} \in SUBSET (0 .. FisPages)
    BY <1>1, <2>1
  <2>5. Told(fis_bitmap') = Told(fis_bitmap \cup {NewPage}) - 1
    BY <2>1, <2>2, <2>4, SetBit
  <2>6. fis_freepages' \in {told - 2, told - 2 + UWrap}
    BY <1>1, <1>2, <1>6, TakeCounted DEF MapPageAndTable
  <2>7. drift' = drift
    BY <1>6 DEF MapPageAndTable
  <2> QED BY <1>2, <2>3, <2>5, <2>6, <2>7, FismemAssumption
<1>7. CASE MapRefused
  <2>1. CASE NewTable = FisPages /\ fis_bitmap' = fis_bitmap \cup {NewTable}
             /\ fis_freepages' = Minus(fis_freepages, 1)
    <3>1. NewTable \in 0 .. FisPages /\ NewTable \notin fis_bitmap /\ drift' = drift
      BY <1>1, <1>7, <2>1, NewTableIsClear DEF MapRefused
    <3> QED BY <1>4, <2>1, <3>1
  <2>2. CASE UNCHANGED <<fis_bitmap, fis_freepages>>
    BY <1>3, <1>7, <2>2 DEF MapRefused
  <2> QED BY <1>7, <2>1, <2>2 DEF MapRefused
<1>8. CASE UnmapPage
  <2>1. CASE Unmapped(run.page) /\ pte[run.page] # 0
    <3> DEFINE p == pte[run.page]
    <3>1. run.page \in HeapPages /\ run.page \in MappedPages
      BY <1>8, <2>1 DEF UnmapPage, IInv, CallInv, CallShape, MappedPages
    <3>2. p \in fis_bitmap /\ p \notin BootFrames
      BY <3>1 DEF IInv, FramesExclusive
    <3>3. fis_bitmap' = fis_bitmap \ {p} /\ fis_freepages' = Plus(fis_freepages, 1)
          /\ drift' = drift
      BY <1>8, <2>1 DEF Unmapped, UnmapPage
    <3>4. Told(fis_bitmap') = Told(fis_bitmap) + 1
      BY <1>1, <3>2, <3>3, ClearBit
    <3>5. fis_bitmap' \in SUBSET (0 .. FisPages) /\ BootFrames \subseteq fis_bitmap'
      BY <1>1, <3>2, <3>3
    <3>6. Told(fis_bitmap') - drift <= UWrap - 1
      BY <1>1, <3>5, ToldBounds
    <3>7. told < UWrap - 1
      BY <1>2, <3>4, <3>6, FismemAssumption
    <3>8. fis_freepages' \in {told + 1, told + 1 + UWrap}
      BY <1>1, <1>2, <3>3, <3>7, GiveCounted
    <3> QED BY <1>2, <3>3, <3>4, <3>8, FismemAssumption
  <2>2. CASE UNCHANGED levelVars
    BY <1>3, <1>8, <2>2 DEF UnmapPage, levelVars
  <2> QED BY <1>8, <2>1, <2>2 DEF UnmapPage
<1>9. ASSUME NEW n \in Sizes, KmallocBegins(n) \/ KmallocRefused(n)
      PROVE  CounterInv'
  BY <1>3, <1>9 DEF KmallocBegins, KmallocRefused, levelVars
<1>10. ASSUME NEW b, KfreeFinds(b) \/ KfreeMisses(b)
       PROVE  CounterInv'
  BY <1>3, <1>10 DEF KfreeFinds, KfreeMisses, levelVars
<1>11. CASE Recording
  BY <1>3, <1>11 DEF Recording, RecordBlock, AddDescriptorPage, DescriptorPageRefused,
         RecordOverruns, levelVars
<1>12. CASE InitDesc \/ MapLost \/ UNCHANGED kmemVars
  BY <1>3, <1>12 DEF InitDesc, MapLost, kmemVars, levelVars
<1> QED
  BY <1>5, <1>6, <1>7, <1>8, <1>9, <1>10, <1>11, <1>12
  DEF Next, Kmalloc, Kfree, Continue, Mapping

(* Through every sequence of allocations, failures and frees the counter   *)
(* of free pages is off by what it was off when boot ended, up to a wrap.  *)
THEOREM CounterKept == Spec => []CounterConserved
<1>1. Init => CounterInv
  <2> SUFFICES ASSUME Init PROVE CounterInv
    OBVIOUS
  <2>1. fis_bitmap \ Frames = {}
    BY KMemAssumption DEF Init
  <2>2. Cardinality(fis_bitmap \ Frames) = 0
    BY <2>1, FS_EmptySet
  <2>3. Cardinality(Frames \ fis_bitmap) \in Nat /\ drift \in Int
    <3>1. fis_bitmap \in SUBSET (0 .. FisPages)
      BY KMemAssumption, FismemAssumption DEF Init, Frames
    <3> QED BY <3>1, PagesFinite, KMemAssumption DEF Init
  <2>4. fis_freepages = Cardinality(Frames \ fis_bitmap) - drift
    BY DEF Init, FreeCount, FreeFrames
  <2>5. Told(fis_bitmap) = Cardinality(Frames \ fis_bitmap)
    BY <2>2, <2>3 DEF Told
  <2> QED BY <2>4, <2>5 DEF CounterInv
<1>2. IInv /\ CounterInv => CounterConserved
  BY DEF CounterInv, CounterConserved, Told, FreeCount, FreeFrames
<1> QED BY <1>1, <1>2, Invariance, StepCounter, PTL DEF Spec

-----------------------------------------------------------------------------
(* Why a call may run out of memory that the checks of vir_alloc had       *)
(* counted.  A heap page is mapped through a table of the directory, and   *)
(* the kernel has its own from boot.                                       *)
UnderTables == \A v \in HeapPages : pte[v] # 0 => pde[PdEntry(v)] # 0
KernelTable == KernelEntry \in PdEntries => pde[KernelEntry] # 0

(* Until a loop of vir_alloc ends, the pages it has left to map are free,  *)
(* or the counter is wrong, or the loop itself has taken a page table.     *)
Covered == fis_freepages > FreeCount \/ FreeCount >= run.left
ByTable ==
  \E e \in LiveTables \ {KernelEntry} :
    MappedThrough(e) # {} /\ MappedThrough(e) \subseteq Pages(block)
LostInv ==
  /\ UnderTables /\ KernelTable /\ LostOnlyByTables
  /\ pc \in {"map", "mapdesc"} => Covered \/ ByTable

LEMMA FreeCountType ==
  ASSUME TypeOK
  PROVE  IsFiniteSet(FreeFrames) /\ FreeCount \in Nat /\ fis_freepages \in 0 .. UWrap - 1
<1>1. fis_bitmap \in SUBSET (0 .. FisPages) /\ fis_freepages \in 0 .. UWrap - 1
  BY DEF TypeOK, FismemTypeOK
<1> QED BY <1>1, PagesFinite DEF FreeFrames, FreeCount

LEMMA AcceptedIsCovered ==
  ASSUME TypeOK, NEW n \in Nat, VirAllocAccepts(n)
  PROVE  fis_freepages > FreeCount \/ FreeCount >= n
<1>1. FreeCount \in Nat /\ fis_freepages \in Nat
  BY FreeCountType, FismemAssumption
<1>2. fis_find_pages(n) <= fis_freepages
  BY DEF VirAllocAccepts
<1> QED BY <1>1, <1>2 DEF fis_find_pages

(* One page mapped through a table that is there.                          *)
LEMMA MapPageCovered ==
  ASSUME BlockInv, LostInv, MapPage, pc' = "map"
  PROVE  (Covered \/ ByTable)'
<1>0. TypeOK
  BY DEF BlockInv, IInv, CallInv
<1> PICK v \in HeapPages : v = run.page
  BY DEF BlockInv, IInv, CallInv, CallShape, MapPage
<1>1. /\ run.left > 1 /\ run' = [page |-> v + 1, left |-> run.left - 1]
      /\ pc = "map" /\ block' = block
  BY DEF MapPage, Mapped, VirAllocReturns
<1>2. /\ NewPage \in Frames /\ fis_bitmap' = fis_bitmap \cup {NewPage}
      /\ fis_freepages' = Minus(fis_freepages, 1)
      /\ pte' = [pte EXCEPT ![v] = NewPage] /\ pde' = pde
  BY DEF MapPage, Mapped
<1>3. CASE Covered
  <2>1. NewPage \in FreeFrames
    BY <1>0, <1>2, NewPageIsClear DEF FreeFrames
  <2>2. FreeFrames' = FreeFrames \ {NewPage}
    BY <1>2 DEF FreeFrames
  <2>3. FreeCount' = FreeCount - 1
    BY <1>0, <2>1, <2>2, FreeCountType, FS_RemoveElement DEF FreeCount
  <2>4. FreeCount \in Nat /\ fis_freepages \in 0 .. UWrap - 1 /\ run.left \in Nat
    BY <1>0, FreeCountType DEF TypeOK
  <2>5. CASE fis_freepages > FreeCount
    <3>1. fis_freepages' = fis_freepages - 1
      BY <1>2, <2>4, <2>5 DEF Minus
    <3>2. fis_freepages' > FreeCount'
      BY <2>3, <2>4, <2>5, <3>1, FismemAssumption
    <3> QED BY <3>2 DEF Covered
  <2>6. CASE FreeCount >= run.left
    <3>1. run'.left = run.left - 1
      BY <1>1
    <3>2. FreeCount' >= run'.left
      BY <2>3, <2>4, <2>6, <3>1
    <3> QED BY <3>2 DEF Covered
  <2> QED BY <1>3, <2>5, <2>6 DEF Covered
<1>4. CASE ByTable
  <2> PICK e \in LiveTables \ {KernelEntry} :
             MappedThrough(e) # {} /\ MappedThrough(e) \subseteq Pages(block)
    BY <1>4 DEF ByTable
  <2>1. v \in Pages(block)
    <3>1. /\ v \in Nat /\ run.left \in Nat /\ block.address \in Nat /\ block.size \in Nat
          /\ v + run.left = block.address + block.size /\ v >= block.address
      BY <1>1, KMemAssumption DEF BlockInv, IInv, CallInv, CallShape, TypeOK, CallApart,
         Looping, HeapPages, HeapBlocks
    <3> QED BY <1>1, <3>1 DEF Pages
  <2>2. MappedPages' = MappedPages \cup {v}
    <3>1. NewPage # 0
      BY NewPageUnowned DEF BlockInv, IInv
    <3> QED BY <1>0, <1>2, <3>1 DEF MappedPages, TypeOK
  <2>3. MappedThrough(e)' = {u \in MappedPages' : PdEntry(u) = e}
    BY DEF MappedThrough, PdEntry
  <2>4. MappedThrough(e)' # {} /\ MappedThrough(e)' \subseteq Pages(block)
    BY <2>1, <2>2, <2>3 DEF MappedThrough
  <2>5. Pages(block)' = Pages(block) /\ LiveTables' = LiveTables
    BY <1>1, <1>2 DEF Pages, LiveTables
  <2> QED BY <2>4, <2>5 DEF ByTable, KernelEntry, PdEntry
<1> QED BY <1>1, <1>3, <1>4 DEF LostInv

(* The first page mapped through a new table is a page of the call.        *)
LEMMA TableCovered ==
  ASSUME BlockInv, LostInv, MapPageAndTable, pc' = "map"
  PROVE  ByTable'
<1>0. TypeOK
  BY DEF BlockInv, IInv, CallInv
<1> PICK v \in HeapPages : v = run.page
  BY DEF BlockInv, IInv, CallInv, CallShape, MapPageAndTable
<1> PICK e \in PdEntries : e = PdEntry(v)
  BY PdEntryType
<1>1. pc = "map" /\ block' = block /\ run.left > 1
  BY DEF MapPageAndTable, Mapped, VirAllocReturns
<1>2. /\ pde[e] = 0 /\ NewPage \in Frames /\ pde' = [pde EXCEPT ![e] = NewTable]
      /\ pte' = [pte EXCEPT ![v] = NewPage]
  BY DEF MapPageAndTable, NeedsTable, Mapped
<1>3. e # KernelEntry
  BY <1>2 DEF LostInv, KernelTable
<1>4. NewPage # 0 /\ NewTable # 0
  BY <1>2, NewPageUnowned, NewTableUnowned DEF BlockInv, IInv
<1>5. e \in LiveTables'
  BY <1>0, <1>2, <1>4 DEF LiveTables, TypeOK
<1>6. MappedPages' = MappedPages \cup {v}
  BY <1>0, <1>2, <1>4 DEF MappedPages, TypeOK
<1>7. \A u \in MappedPages : PdEntry(u) # e
  BY <1>2 DEF LostInv, UnderTables, MappedPages
<1>8. MappedThrough(e)' = {u \in MappedPages' : PdEntry(u) = e}
  BY DEF MappedThrough, PdEntry
<1>9. MappedThrough(e)' = {v}
  BY <1>6, <1>7, <1>8
<1>10. v \in Pages(block)
  <2>1. /\ v \in Nat /\ run.left \in Nat /\ block.address \in Nat /\ block.size \in Nat
        /\ v + run.left = block.address + block.size /\ v >= block.address
    BY <1>1, KMemAssumption DEF BlockInv, IInv, CallInv, CallShape, TypeOK, CallApart,
       Looping, HeapPages, HeapBlocks
  <2> QED BY <1>1, <2>1 DEF Pages
<1>11. Pages(block)' = Pages(block)
  BY <1>1 DEF Pages
<1> QED BY <1>3, <1>5, <1>9, <1>10, <1>11 DEF ByTable, KernelEntry, PdEntry

LEMMA StepTables ==
  BlockInv /\ LostInv /\ [Next]_kmemVars => UnderTables' /\ KernelTable'
<1> SUFFICES ASSUME BlockInv, UnderTables, KernelTable, [Next]_kmemVars
             PROVE  UnderTables' /\ KernelTable'
  BY DEF LostInv
<1>0. TypeOK
  BY DEF BlockInv, IInv, CallInv
<1>1. ASSUME UNCHANGED <<pte, pde>> PROVE UnderTables' /\ KernelTable'
  BY <1>1 DEF UnderTables, KernelTable, KernelEntry, PdEntry
<1>2. ASSUME NEW v \in HeapPages, v = run.page, NEW page,
             pte' = [pte EXCEPT ![v] = page], pde' = pde, page = 0 \/ ~NeedsTable
      PROVE  UnderTables' /\ KernelTable'
  BY <1>0, <1>2 DEF UnderTables, KernelTable, NeedsTable, TypeOK
<1>3. ASSUME NEW v \in HeapPages, v = run.page, NewTable # 0,
             \/ pte' = pte
             \/ \E page : pte' = [pte EXCEPT ![v] = page],
             pde' = [pde EXCEPT ![PdEntry(v)] = NewTable]
      PROVE  UnderTables' /\ KernelTable'
  <2>1. PdEntry(v) \in PdEntries
    BY PdEntryType
  <2>2. \A e \in PdEntries : pde[e] # 0 => pde'[e] # 0
    BY <1>0, <1>3, <2>1 DEF TypeOK
  <2>3. pde'[PdEntry(v)] # 0
    BY <1>0, <1>3, <2>1 DEF TypeOK
  <2>4. \A u \in HeapPages : u # v => pte'[u] = pte[u]
    BY <1>0, <1>3 DEF TypeOK
  <2> QED BY <2>2, <2>3, <2>4, PdEntryType DEF UnderTables, KernelTable
<1>4. pc \in {"map", "mapdesc", "unmap", "unwind"} => run.page \in HeapPages
  BY DEF BlockInv, IInv, CallInv, CallShape
<1>5. CASE MapPage
  BY <1>2, <1>4, <1>5 DEF MapPage, Mapped
<1>6. CASE MapPageAndTable
  <2>1. NewTable # 0
    BY <1>6, NewTableUnowned DEF MapPageAndTable, BlockInv, IInv
  <2> QED BY <1>3, <1>4, <1>6, <2>1 DEF MapPageAndTable, Mapped
<1>7. CASE MapRefused
  <2>1. NewTable # 0
    BY <1>7, NewTableUnowned DEF MapRefused, BlockInv, IInv
  <2>2. pte' = pte /\ (pde' = pde \/ pde' = [pde EXCEPT ![PdEntry(run.page)] = NewTable])
    BY <1>7 DEF MapRefused
  <2>3. run.page \in HeapPages
    BY <1>4, <1>7 DEF MapRefused
  <2> QED BY <1>1, <1>3, <2>1, <2>2, <2>3
<1>8. CASE UnmapPage
  <2>1. UNCHANGED <<pte, pde>> \/ (pte' = [pte EXCEPT ![run.page] = 0] /\ pde' = pde)
    BY <1>8 DEF UnmapPage, Unmapped, levelVars
  <2>2. run.page \in HeapPages
    BY <1>4, <1>8 DEF UnmapPage
  <2> QED BY <1>1, <1>2, <2>1, <2>2
<1>9. CASE Kmalloc \/ Kfree \/ InitDesc \/ MapLost \/ Recording \/ UNCHANGED kmemVars
  <2>1. UNCHANGED <<pte, pde>>
    BY <1>9 DEF Kmalloc, KmallocBegins, KmallocRefused, Kfree, KfreeFinds, KfreeMisses,
       InitDesc, MapLost, Recording, RecordBlock, AddDescriptorPage, DescriptorPageRefused,
       RecordOverruns, kmemVars, levelVars
  <2> QED BY <1>1, <2>1
<1> QED BY <1>5, <1>6, <1>7, <1>8, <1>9 DEF Next, Continue, Mapping

LEMMA StepLost == BlockInv /\ LostInv /\ [Next]_kmemVars => LostInv'
<1> SUFFICES ASSUME BlockInv, LostInv, [Next]_kmemVars PROVE LostInv'
  OBVIOUS
<1> DEFINE Mapping2 == pc \in {"map", "mapdesc"}
<1> DEFINE Kept == LostOnlyByTables' /\ (Mapping2' => (Covered \/ ByTable)')
<1>0. TypeOK
  BY DEF BlockInv, IInv, CallInv
<1>1. UnderTables' /\ KernelTable'
  BY StepTables
<1>2. ASSUME NEW n \in Nat, VirAllocAccepts(n), UNCHANGED levelVars, run'.left = n,
             pc' # "lost"
      PROVE  Kept
  <2>1. fis_freepages > FreeCount \/ FreeCount >= n
    BY <1>0, <1>2, AcceptedIsCovered
  <2> QED BY <1>2, <2>1 DEF LostOnlyByTables, Covered, FreeCount, FreeFrames, levelVars
<1>3. ASSUME pc' \notin {"map", "mapdesc", "lost"} PROVE Kept
  BY <1>3 DEF LostOnlyByTables
<1>4. ASSUME UNCHANGED <<levelVars, run, block>>, pc' = pc PROVE Kept
  <2>1. /\ Covered' = Covered /\ NeedsTable' = NeedsTable
        /\ (fis_freepages > FreeCount)' = (fis_freepages > FreeCount)
    BY <1>4 DEF Covered, NeedsTable, FreeCount, FreeFrames, levelVars
  <2>2. ByTable' = ByTable
    BY <1>4 DEF ByTable, MappedThrough, MappedPages, LiveTables, Pages, levelVars
  <2> QED BY <1>4, <2>1, <2>2 DEF LostInv, LostOnlyByTables, ByTable
<1>5. ASSUME MapLost PROVE Kept
  <2>1. /\ Mapping2 /\ pc' = "lost" /\ UNCHANGED <<levelVars, block, run>>
        /\ NewPage \notin Frames \/ NeedsTable
    BY <1>5 DEF MapLost
  <2>2. /\ FreeCount' = FreeCount /\ fis_freepages' = fis_freepages
        /\ NeedsTable' = NeedsTable /\ ByTable' = ByTable
    BY <2>1 DEF NeedsTable, FreeCount, FreeFrames, levelVars, ByTable, MappedThrough,
       MappedPages, LiveTables, Pages
  <2>3. NewPage \notin Frames => FreeFrames = {}
    <3> SUFFICES ASSUME NewPage \notin Frames, NEW p \in FreeFrames PROVE FALSE
      OBVIOUS
    <3>1. BitmapBits \ fis_bitmap \in SUBSET Nat /\ p \in BitmapBits \ fis_bitmap
      BY FismemAssumption DEF BitmapBits, FreeFrames, Frames
    <3>2. NewPage <= p /\ NewPage \in BitmapBits
      BY <3>1, LowestIn DEF NewPage, FirstClear
    <3> QED BY <3>1, <3>2, FismemAssumption DEF BitmapBits, FreeFrames, Frames
  <2>4. FreeFrames = {} => FreeCount = 0
    BY FS_EmptySet DEF FreeCount
  <2>5. run.left \in Nat /\ run.left >= 1
    BY <1>0, <2>1 DEF TypeOK, BlockInv, IInv, CallInv, CallShape
  <2>6. fis_freepages > FreeCount \/ NeedsTable \/ ByTable
    BY <2>1, <2>3, <2>4, <2>5 DEF LostInv, Covered
  <2> QED BY <2>1, <2>2, <2>6 DEF LostOnlyByTables, ByTable
<1>6. ASSUME NEW n \in Sizes, KmallocBegins(n) PROVE Kept
  <2>1. n \in Nat
    BY KMemAssumption
  <2> QED BY <1>2, <1>6, <2>1 DEF KmallocBegins, RunOver
<1>7. ASSUME NEW n \in Sizes, KmallocRefused(n) PROVE Kept
  BY <1>3, <1>7 DEF KmallocRefused
<1>8. ASSUME NEW b, KfreeFinds(b) \/ KfreeMisses(b) PROVE Kept
  BY <1>3, <1>8 DEF KfreeFinds, KfreeMisses
<1>9. ASSUME InitDesc PROVE Kept
  BY <1>2, <1>3, <1>9 DEF InitDesc
<1>10. ASSUME AddDescriptorPage PROVE Kept
  BY <1>2, <1>10 DEF AddDescriptorPage
<1>11. ASSUME RecordBlock \/ DescriptorPageRefused \/ RecordOverruns PROVE Kept
  BY <1>3, <1>11 DEF RecordBlock, DescriptorPageRefused, RecordOverruns
<1>12. ASSUME UnmapPage PROVE Kept
  BY <1>3, <1>12 DEF UnmapPage, VirFreeReturns
<1>13. ASSUME MapRefused PROVE Kept
  BY <1>3, <1>13 DEF MapRefused, VirAllocGivesUp
<1>14. ASSUME MapPage \/ MapPageAndTable PROVE Kept
  <2>1. pc' \in {"map", "idle", "record"}
    <3>1. pc = "mapdesc" => run.left = 1
      BY DEF BlockInv, IInv, CallInv, CallShape
    <3> QED BY <1>14, <3>1 DEF MapPage, MapPageAndTable, Mapped, VirAllocReturns
  <2>2. pc' = "map" => (Covered \/ ByTable)'
    BY <1>14, MapPageCovered, TableCovered
  <2> QED BY <2>1, <2>2 DEF LostOnlyByTables
<1>15. UNCHANGED kmemVars => Kept
  BY <1>4 DEF kmemVars
<1>16. Kept
  BY <1>5, <1>6, <1>7, <1>8, <1>9, <1>10, <1>11, <1>12, <1>13, <1>14, <1>15
  DEF Next, Kmalloc, Kfree, Continue, Mapping, Recording
<1> QED BY <1>1, <1>16 DEF LostInv

(* The checks of vir_alloc keep the kernel inside installed memory but for *)
(* a counter that says too much and for the page tables of the call.       *)
THEOREM LostByTables == Spec => []LostOnlyByTables
<1>1. Init => LostInv
  BY KMemAssumption DEF Init, LostInv, UnderTables, KernelTable, LostOnlyByTables
<1>2. LostInv => LostOnlyByTables
  BY DEF LostInv
<1> QED BY <1>1, <1>2, BlockInvariance, StepLost, PTL DEF Spec

-----------------------------------------------------------------------------
(* The promise of the heap.                                                *)
(* The block of a call has one of the sizes callers ask for, and so has    *)
(* all that is recorded.                                                   *)
Asked(b) == b = NoBlock \/ b.size \in Sizes
SizesAsked == Asked(block) /\ \A b \in Records : Asked(b)
PromiseInv == BlockInv /\ SizesAsked

(* What a step may do to the records and to the block of the call.         *)
LEMMA QuietSteps ==
  ASSUME BlockInv, InitDesc \/ Mapping \/ AddDescriptorPage \/ DescriptorPageRefused
                     \/ RecordOverruns \/ UnmapPage \/ UNCHANGED kmemVars
  PROVE  Records' = Records /\ live' = live /\ block' \in {block, NoBlock}
<1>1. TypeOK
  BY DEF BlockInv, IInv, CallInv
<1>2. CASE MapPage \/ MapPageAndTable
  <2>1. /\ block' = block /\ live' = live
        /\ chain' = chain \/ chain' = Append(chain, EmptyPage(run.page))
    BY <1>2 DEF MapPage, MapPageAndTable, Mapped, VirAllocReturns, callerVars
  <2> QED BY <1>1, <2>1, SameRecords, PageAppended
<1>3. CASE MapRefused
  BY <1>3, SameRecords DEF MapRefused, VirAllocGivesUp
<1>4. CASE InitDesc \/ MapLost \/ AddDescriptorPage \/ DescriptorPageRefused
             \/ RecordOverruns \/ UNCHANGED kmemVars
  BY <1>4, SameRecords DEF InitDesc, MapLost, AddDescriptorPage, DescriptorPageRefused,
     RecordOverruns, kmemVars, callerVars
<1>5. CASE UnmapPage
  BY <1>5, SameRecords DEF UnmapPage, VirFreeReturns
<1> QED BY <1>2, <1>3, <1>4, <1>5 DEF Mapping

LEMMA KmallocSteps ==
  ASSUME BlockInv, Kmalloc
  PROVE  Records' = Records /\ live' = live /\ (block' = block \/ block'.size \in Sizes)
<1>1. chain' = chain /\ live' = live /\ (block' = block \/ block'.size \in Sizes)
  BY DEF Kmalloc, KmallocBegins, KmallocRefused
<1> QED BY <1>1, SameRecords

LEMMA KfreeSteps ==
  ASSUME BlockInv, Kfree
  PROVE  \E b \in live \cup {NoBlock} :
           /\ live' = live \ {b} /\ Records' \in {Records, Records \ {b}}
           /\ block' \in {block, b}
<1>1. PICK b \in live \cup {NoBlock} : KfreeFinds(b) \/ KfreeMisses(b)
  BY DEF Kfree
<1>2. live' = live \ {b}
  BY <1>1 DEF KfreeFinds, KfreeMisses, CallerGaveUp
<1>3. CASE KfreeFinds(b)
  <2>1. Records' = Records \ {b}
    BY <1>3, KfreeBlocks
  <2>2. block' \in {block, b}
    BY <1>3, KfreeFindsEntry
  <2> QED BY <1>2, <2>1, <2>2
<1>4. CASE KfreeMisses(b)
  <2>1. Records' = Records /\ block' = block
    BY <1>4, SameRecords DEF KfreeMisses
  <2> QED BY <1>2, <2>1
<1> QED BY <1>1, <1>3, <1>4

LEMMA RecordSteps ==
  ASSUME BlockInv, RecordBlock
  PROVE  /\ Records' = Records \cup {block} /\ live' = live \cup {block}
         /\ block' = NoBlock /\ block \in HeapBlocks
         /\ \A c \in Records : Pages(block) \cap Pages(c) = {}
<1>1. Records' = Records \cup {block}
  BY RecordBlocks
<1>2. pc = "record" /\ live' = live \cup {block} /\ block' = NoBlock
  BY DEF RecordBlock
<1>3. block \in HeapBlocks
  BY <1>2 DEF BlockInv, IInv, CallInv, CallShape
<1>4. \A c \in Records : Pages(block) \cap Pages(c) = {}
  BY <1>2 DEF BlockInv, CallApart, Calling
<1> QED BY <1>1, <1>2, <1>3, <1>4

LEMMA StepAsked == PromiseInv /\ [Next]_kmemVars => SizesAsked'
<1> SUFFICES ASSUME BlockInv, SizesAsked, [Next]_kmemVars PROVE SizesAsked'
  BY DEF PromiseInv
<1>1. ASSUME NEW b PROVE Asked(b)' <=> Asked(b)
  BY DEF Asked
<1>2. CASE InitDesc \/ Mapping \/ AddDescriptorPage \/ DescriptorPageRefused
             \/ RecordOverruns \/ UnmapPage \/ UNCHANGED kmemVars
  BY <1>2, QuietSteps DEF SizesAsked, Asked
<1>3. CASE Kmalloc
  BY <1>3, KmallocSteps DEF SizesAsked, Asked
<1>4. CASE Kfree
  <2>1. PICK b \in live \cup {NoBlock} :
           Records' \in {Records, Records \ {b}} /\ block' \in {block, b}
    BY <1>4, KfreeSteps
  <2>2. b = NoBlock \/ b \in Records
    BY DEF BlockInv
  <2> QED BY <2>1, <2>2 DEF SizesAsked, Asked
<1>5. CASE RecordBlock
  BY <1>5, RecordSteps DEF SizesAsked, Asked
<1> QED BY <1>2, <1>3, <1>4, <1>5 DEF Next, Continue, Recording

(* Recording the block of a call is what its caller sees of the            *)
(* allocation, the emptied descriptor what it sees of the release.         *)
LEMMA StepPromised ==
  PromiseInv /\ [Next]_kmemVars => [TheHeap!Next]_(TheHeap!heapVars)
<1> SUFFICES ASSUME BlockInv, SizesAsked, [Next]_kmemVars
             PROVE  TheHeap!Next \/ (Records' = Records /\ live' = live)
  BY DEF PromiseInv, TheHeap!heapVars
<1>1. ASSUME NEW b \in HeapBlocks, Asked(b) PROVE b \in TheHeap!Blocks
  <2>1. b.size \in Sizes \ {0} /\ b.address \in HeapPages
    BY <1>1, BlockPages DEF Asked, NoBlock, HeapBlocks
  <2>2. b = [address |-> b.address, size |-> b.size]
    BY DEF HeapBlocks
  <2> QED BY <2>1, <2>2 DEF TheHeap!Blocks
<1>2. CASE InitDesc \/ Mapping \/ AddDescriptorPage \/ DescriptorPageRefused
             \/ RecordOverruns \/ UnmapPage \/ UNCHANGED kmemVars
  BY <1>2, QuietSteps
<1>3. CASE Kmalloc
  BY <1>3, KmallocSteps
<1>4. CASE Kfree
  <2>1. PICK b \in live \cup {NoBlock} :
           live' = live \ {b} /\ Records' \in {Records, Records \ {b}}
    BY <1>4, KfreeSteps
  <2>2. Records \subseteq HeapBlocks /\ live \subseteq Records
    BY ChainShape DEF BlockInv, IInv, CallInv
  <2>3. CASE b \in live
    <3>1. b \in TheHeap!Blocks
      BY <1>1, <2>2, <2>3 DEF SizesAsked
    <3>2. TheHeap!Free(b)
      BY <2>1, <2>3 DEF TheHeap!Free
    <3> QED BY <3>1, <3>2 DEF TheHeap!Next
  <2>4. CASE b \notin live
    <3>1. b \notin Records
      BY <2>2, <2>4, BlockPages DEF NoBlock
    <3> QED BY <2>1, <2>4, <3>1
  <2> QED BY <2>3, <2>4
<1>5. CASE RecordBlock
  <2>1. block \in TheHeap!Blocks
    BY <1>1, <1>5, RecordSteps DEF SizesAsked
  <2>2. TheHeap!Extent(block) \subseteq HeapPages
    BY <1>5, RecordSteps, BlockPages DEF TheHeap!Extent, Pages
  <2>3. \A c \in Records : TheHeap!Extent(block) \cap TheHeap!Extent(c) = {}
    BY <1>5, RecordSteps DEF TheHeap!Extent, Pages
  <2>4. TheHeap!Alloc(block)
    BY <1>5, <2>2, <2>3, RecordSteps DEF TheHeap!Alloc
  <2> QED BY <2>1, <2>4 DEF TheHeap!Next
<1> QED BY <1>2, <1>3, <1>4, <1>5 DEF Next, Continue, Recording

(* The heap, with its descriptors, bitmaps, page tables and failures,      *)
(* implements module Heap: kmalloc gives out pages no block occupies or    *)
(* nothing, and a block is given out again only once it was taken back.    *)
THEOREM PromiseKept == Spec => HeapPromise
<1>1. Init => TheHeap!Init /\ SizesAsked
  <2> SUFFICES ASSUME Init PROVE TheHeap!Init /\ SizesAsked
    OBVIOUS
  <2>1. DOMAIN chain = {} /\ live = {} /\ block = NoBlock
    BY DEF Init
  <2>2. Records = {}
    BY <2>1 DEF Records
  <2> QED BY <2>1, <2>2 DEF TheHeap!Init, SizesAsked, Asked
<1>2. Init => PromiseInv
  BY <1>1, InitBlocks DEF PromiseInv
<1>3. PromiseInv /\ [Next]_kmemVars => PromiseInv'
  BY StepBlocks, StepAsked DEF PromiseInv
<1> QED BY <1>1, <1>2, <1>3, StepPromised, PTL DEF Spec, HeapPromise, TheHeap!Spec


-----------------------------------------------------------------------------
(* How much a call has left to do.  vir_alloc and vir_free go through      *)
(* their loops once for each page; a block for which no descriptor page    *)
(* has an entry left may need one page more, and all its pages given back  *)
(* if there is none.  Each of these happens once: the descriptor page that *)
(* was added has an entry for the block.                                   *)
NoneFree == chain[find_first_free_desc_page].free = 0
CallLeft ==
  IF pc = "map" THEN MaxPages + 3 + run.left
  ELSE IF pc = "boot" \/ (pc = "record" /\ NoneFree) THEN MaxPages + 3
  ELSE IF pc = "mapdesc" THEN MaxPages + 2
  ELSE IF pc \in {"unmap", "unwind"} THEN run.left
  ELSE IF pc = "record" THEN 1 ELSE 0

LEMMA CallLeftIs ==
  ASSUME CallInv
  PROVE  /\ CallLeft \in 0 .. 2 * MaxPages + 3
         /\ CallLeft = 0 <=> pc \notin Busy
<1>1. run.left \in 0 .. MaxPages /\ MaxPages \in Nat
  BY KMemAssumption DEF CallInv, TypeOK
<1>2. pc \in {"map", "unmap", "unwind"} => run.left >= 1
  BY DEF CallInv, CallShape
<1> QED BY <1>1, <1>2 DEF CallLeft, Busy

(* A page just linked at the end of the chain has a free entry, so the     *)
(* search of new_allocation ends at a page that has one.                   *)
LEMMA AddedIsFound ==
  ASSUME TypeOK, NEW at \in HeapPages, chain' = Append(chain, EmptyPage(at))
  PROVE  ~NoneFree'
<1> DEFINE found == {i \in DOMAIN chain' : chain'[i].free > 0 \/ i = Len(chain')}
<1>1. chain \in Seq(DescPages) /\ Len(chain) \in Nat
  BY LenProperties DEF TypeOK
<1> PICK n \in Nat : n = Len(chain) + 1
  BY <1>1
<1>2. /\ DOMAIN chain' = 1 .. n /\ Len(chain') = n
      /\ chain'[n] = EmptyPage(at)
  BY <1>1
<1>3. found \in SUBSET Nat /\ n \in found
  BY <1>2
<1>4. Lowest(found) \in found
  BY <1>3, LowestIn
<1>5. find_first_free_desc_page' = Lowest(found)
  BY DEF find_first_free_desc_page, Lowest
<1>6. chain'[n].free \in Nat \ {0}
  BY <1>2, KMemAssumption DEF EmptyPage
<1>7. \A i \in 1 .. n : i # n => chain'[i].free \in Nat
  BY <1>1, ChainPages
<1> HIDE DEF found
<1>8. chain'[Lowest(found)].free \in Nat \ {0}
  <2>1. PICK i \in 1 .. n : i = Lowest(found)
    BY <1>2, <1>4 DEF found
  <2>2. chain'[i].free > 0 \/ i = n
    BY <1>2, <1>4, <2>1 DEF found
  <2>3. chain'[i].free \in Nat \ {0}
    BY <1>6, <1>7, <2>2
  <2> QED BY <2>1, <2>3
<1> QED BY <1>5, <1>8 DEF NoneFree

LEMMA MappedShrinks ==
  ASSUME CallInv, pc \in {"map", "mapdesc"}, NEW page, Mapped(run.page, page)
  PROVE  CallLeft' < CallLeft
<1>1. /\ run.left \in 1 .. MaxPages /\ MaxPages \in Nat /\ run.page \in HeapPages
      /\ pc = "mapdesc" => run.left = 1
  BY KMemAssumption DEF CallInv, TypeOK, CallShape
<1>2. CASE run.left > 1
  <2>1. pc = "map" /\ pc' = pc /\ run'.left = run.left - 1
    BY <1>1, <1>2 DEF Mapped
  <2> QED BY <1>1, <2>1 DEF CallLeft
<1>3. CASE ~(run.left > 1) /\ pc = "map"
  <2>1. pc' = "record"
    BY <1>3 DEF Mapped, VirAllocReturns
  <2> QED BY <1>1, <1>3, <2>1 DEF CallLeft
<1>4. CASE ~(run.left > 1) /\ pc = "mapdesc"
  <2>1. /\ pc' \in {"idle", "record"}
        /\ chain' = Append(chain, EmptyPage(run.page))
    BY <1>4 DEF Mapped, VirAllocReturns
  <2>2. ~NoneFree'
    BY <1>1, <2>1, AddedIsFound DEF CallInv
  <2>3. CallLeft' \in {0, 1} /\ CallLeft = MaxPages + 2
    BY <1>4, <2>1, <2>2 DEF CallLeft
  <2> QED BY <1>1, <2>3
<1> QED BY <1>2, <1>3, <1>4

(* A call that stops in the middle gives its block back page by page.      *)
LEMMA UnwindShrinks ==
  ASSUME CallInv, block \in HeapBlocks, pc' = "unwind", run' = RunOver(block),
         pc = "mapdesc" \/ (pc = "record" /\ NoneFree)
  PROVE  CallLeft' < CallLeft
<1>1. run'.left \in 0 .. MaxPages /\ MaxPages \in Nat
  BY KMemAssumption DEF RunOver, HeapBlocks
<1> QED BY <1>1 DEF CallLeft

LEMMA StepShrinks ==
  CallInv /\ [Next]_kmemVars =>
    [(pc \in Busy) => Continue /\ CallLeft' < CallLeft]_kmemVars
<1> SUFFICES ASSUME CallInv, Next, pc \in Busy
             PROVE  Continue /\ CallLeft' < CallLeft
  OBVIOUS
<1>1. Continue
  BY DEF Next, Kmalloc, Kfree, KmallocBegins, KmallocRefused, KfreeFinds,
         KfreeMisses, Busy
<1> SUFFICES CallLeft' < CallLeft
  BY <1>1
<1>2. /\ CallLeft \in Nat /\ CallLeft > 0 /\ MaxPages \in Nat
      /\ run.left \in 0 .. MaxPages
  BY CallLeftIs, KMemAssumption DEF CallInv, TypeOK
<1>3. pc' \notin Busy => CallLeft' = 0
  BY DEF CallLeft, Busy
<1>4. CASE InitDesc
  BY <1>2, <1>4 DEF InitDesc, CallLeft
<1>5. CASE MapPage \/ MapPageAndTable
  BY <1>5, MappedShrinks DEF MapPage, MapPageAndTable
<1>6. CASE MapRefused
  <2>1. CASE pc = "map" \/ block = NoBlock
    <3>1. pc' \in {"idle", "panic"}
      BY <1>6, <2>1 DEF MapRefused, VirAllocGivesUp
    <3> QED BY <1>2, <1>3, <3>1 DEF Busy
  <2>2. CASE ~(pc = "map" \/ block = NoBlock)
    <3>1. pc = "mapdesc" /\ pc' = "unwind" /\ run' = RunOver(block)
      BY <1>6, <2>2 DEF MapRefused, VirAllocGivesUp
    <3>2. block \in HeapBlocks
      BY <2>2 DEF CallInv, TypeOK, DescEntries
    <3> QED BY <3>1, <3>2, UnwindShrinks
  <2> QED BY <2>1, <2>2
<1>7. CASE MapLost \/ RecordBlock \/ RecordOverruns
  BY <1>2, <1>3, <1>7 DEF MapLost, RecordBlock, RecordOverruns, Busy
<1>8. CASE AddDescriptorPage
  <2>1. pc = "record" /\ NoneFree /\ pc' = "mapdesc"
    BY <1>8 DEF AddDescriptorPage, NoneFree
  <2> QED BY <1>2, <2>1 DEF CallLeft
<1>9. CASE DescriptorPageRefused
  <2>1. /\ pc = "record" /\ NoneFree /\ pc' = "unwind"
        /\ run' = RunOver(block)
    BY <1>9 DEF DescriptorPageRefused, NoneFree
  <2>2. block \in HeapBlocks
    BY <2>1 DEF CallInv, CallShape
  <2> QED BY <2>1, <2>2, UnwindShrinks
<1>10. CASE UnmapPage
  <2>1. pc \in {"unmap", "unwind"}
    BY <1>10 DEF UnmapPage
  <2>2. CASE pc' = "idle"
    BY <1>2, <1>3, <2>2 DEF Busy
  <2>3. CASE pc' # "idle"
    <3>1. pc' = pc /\ run'.left = run.left - 1
      BY <1>10, <2>3 DEF UnmapPage, VirFreeReturns
    <3> QED BY <1>2, <2>1, <3>1 DEF CallLeft
  <2> QED BY <2>2, <2>3
<1> QED BY <1>1, <1>4, <1>5, <1>6, <1>7, <1>8, <1>9, <1>10
        DEF Continue, Mapping, Recording

(* No loop of the memory manager runs forever: what a call has left is     *)
(* bounded by the number of virtual pages, nothing but the call itself     *)
(* runs until it is over, and each of its steps leaves less.               *)
THEOREM CallsAreBounded ==
  Spec => /\ [](CallLeft \in 0 .. 2 * MaxPages + 3
                /\ (CallLeft = 0 <=> pc \notin Busy))
          /\ [][(pc \in Busy) => Continue /\ CallLeft' < CallLeft]_kmemVars
<1>1. IInv => CallInv
  BY DEF IInv
<1>2. CallInv => /\ CallLeft \in 0 .. 2 * MaxPages + 3
                 /\ CallLeft = 0 <=> pc \notin Busy
  BY CallLeftIs
<1> QED BY <1>1, <1>2, Invariance, StepShrinks, PTL DEF Spec

=============================================================================
