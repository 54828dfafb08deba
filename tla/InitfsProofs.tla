---------------------------- MODULE InitfsProofs ----------------------------
(***************************************************************************)
(* Proofs about the initial file system, for every archive, size of the    *)
(* heap, number of entries and request that satisfies the assumptions.     *)
(*                                                                         *)
(* That hmount writes to pages of its own rests on what each of its steps  *)
(* leaves in the heap, so the invariant accounts for the heap page by      *)
(* page.  Until the cache is taken the pages in use are a run from the     *)
(* beginning but for one hole, that of the buffer hidentify freed, which   *)
(* the next request fills with its lost parameters.  The cache is the last *)
(* page of a run without a hole, and each entry is preceded by a request   *)
(* that lost the next page: entry i, at most i pages further on, lies in   *)
(* the cache or in these.  That the cache holds the first entries rests on *)
(* counting the headers, which the shape of an archive lets NextHeader     *)
(* reach one by one; the walk behind the cache stays out of the data of    *)
(* the files for the same reason.                                          *)
(***************************************************************************)
EXTENDS Initfs, FiniteSetTheorems, WellFoundedInduction, TLAPS

Pages == 0 .. room - 1

(* The heap in terms of what is added to it: m becomes n by losing pages   *)
(* that were free.                                                         *)
Heaps == {m \in [used : SUBSET Nat, lost : SUBSET Nat] : IsFiniteSet(m.used)}
Leaks(m, n) == \E S \in SUBSET (Pages \ m.used) : n = Lost(m, S)

KeptInv ==
  /\ modules \in ModuleSets /\ room \in Rooms /\ HeapUsed <= room
  /\ at \in 1 .. Len(modules) + 1
  /\ at \in DOMAIN modules \/ (pc \in {"identify", "panic"} /\ cells = <<>>)

(* Every page of heap m in use is one that was in use at first, one of the *)
(* cache, c, lost or held, in H, and only one of these.                    *)
Accounted(m, c, H) ==
  /\ m.used = Base \cup c \cup m.lost \cup H
  /\ m.lost \cap (Base \cup c) = {}
  /\ H \cap (Base \cup c \cup m.lost) = {}
EntryApart(b) == b.entry \cap (b.params \cup b.buffer \cup b.postfile) = {}
PageHeaps == [used : SUBSET Pages, lost : SUBSET Pages]
Buffers == [params : SUBSET Pages, buffer : SUBSET Pages,
            entry : SUBSET Pages, postfile : SUBSET Pages]
HeapInv ==
  /\ mem \in PageHeaps /\ bufs \in Buffers /\ cache \subseteq Pages
  /\ pc # "panic" => Accounted(mem, cache, Held) /\ EntryApart(bufs)
  /\ pc \in {"identify", "mount", "ready"} => bufs = NoBufs
  /\ pc # "walk" => bufs.entry = {}

(* Until the cache is taken the pages in use are the first ones but for    *)
(* one hole at most; from then on there is none, and each entry has left a *)
(* lost page behind it.                                                    *)
OneHole(m) == \E k, h \in Nat : m.used \cup {h} = 0 .. k
LeftBehind(a) ==
  /\ cache = {a} /\ mem.used = 0 .. a + Len(cells)
  /\ a + 1 .. a + Len(cells) \subseteq mem.lost
SegmentInv ==
  /\ pc \in {"identify", "mount"} =>
       OneHole(mem) /\ cells = <<>> /\ cache = {} /\ cur = 0
  /\ pc = "cache" => \E a \in Nat : LeftBehind(a)
  /\ MountWritesOwn

(* The read that runs, and where its search has ended: at the header of a  *)
(* file with the name searched for; an empty name is that of the entry at  *)
(* the end of the cache, whose block is 0, or of an empty block when the   *)
(* cache is full, and its size is refused.                                 *)
Calls == [file : Names, name : Names, start : Nat, size : Nat, length : Nat,
          stage : {"none", "size", "read", "done"}]
FoundAt(b) ==
  \/ b \in Headers /\ Block(b).name = call.name
  \/ call.name = <<>> /\ b = 0 /\ Cached # {}
  \/ call.name = <<>> /\ call.stage = "size" /\ Block(b).kind = "zero"
(* The headers before a block of the archive.                              *)
Before(b) == {h \in Headers : h < b}
CellsInv ==
  /\ cells \in Seq([name : Names, block : Nat]) /\ Len(cells) <= NEntries + 1
  /\ pc = "cache" => Len(cells) <= NEntries /\ Cardinality(Before(cur)) = Len(cells)
  /\ CacheFaithful

Asked ==
  /\ call.stage \in {"size", "read"}
  /\ \E left \in Leftovers : call.name = call.file \o left
  /\ call.stage = "read" /\ call.name = <<>> => Cached # {}
CallInv ==
  /\ cur \in Nat /\ answer \in Int
  /\ call \in Calls
  /\ pc \in {"identify", "mount", "cache", "ready", "find", "walk", "size",
            "read"} \cup Stopped
  /\ pc \in {"find", "walk", "size", "read"} => Asked
  /\ pc \in {"size", "read"} => call.stage = pc /\ FoundAt(cur)
  /\ pc = "walk" => cur \in 0 .. Len(Disk) - 1 /\ Block(cur).kind # "data"
                     /\ Cached = {}
  /\ pc = "fault" => Cached = {}

IInv == KeptInv /\ HeapInv /\ SegmentInv /\ CellsInv /\ CallInv

-----------------------------------------------------------------------------
LEMMA Sizes ==
  /\ NEntries \in Nat \ {0} /\ EntrySize \in Nat \ {0}
  /\ PageSize \in Nat \ {0} /\ NEntries * EntrySize <= PageSize
  /\ BlockSize \in Nat \ {0} /\ BlockSize <= PageSize
  /\ HeapUsed \in Nat
<1>1. /\ NEntries \in Nat \ {0} /\ EntrySize \in Nat \ {0}
      /\ PageSize \in Nat /\ NEntries * EntrySize <= PageSize
      /\ BlockSize \in Nat \ {0} /\ BlockSize <= PageSize
      /\ HeapUsed \in Nat
  BY InitfsAssumption
<1> QED
  BY <1>1

LEMMA RoomIsNat == room \in Rooms => room \in Nat
  BY InitfsAssumption

(* A set of naturals has a least element.                                  *)
LEMMA LeastExists ==
  ASSUME NEW T \in SUBSET Nat, T # {}
  PROVE  \E x \in T : \A y \in T : x <= y
<1> DEFINE R == {ss \in Nat \X Nat : ss[1] < ss[2]}
<1>1. IsWellFoundedOn(R, Nat)
  BY NatLessThanWellFounded DEF OpToRel
<1>2. PICK x \in T : \A y \in T : ~(<<y, x>> \in R)
  BY <1>1, WFMin
<1>3. ASSUME NEW y \in T PROVE x <= y
  <2>1. x \in Nat /\ y \in Nat
    OBVIOUS
  <2>2. (y < x) => <<y, x>> \in R
    BY <2>1, SMT
  <2>3. ~(y < x)
    BY <1>2, <2>2
  <2> QED BY <2>1, <2>3
<1> QED BY <1>3

-----------------------------------------------------------------------------
(* What kmalloc finds.                                                     *)
LEMMA FirstRunIs ==
  ASSUME NEW used, NEW n \in Nat, room \in Nat,
         NEW c \in 0 .. 2 * room + n, Run(c, n) \cap used = {}
  PROVE  /\ FirstRun(used, n) \in 0 .. c
         /\ Run(FirstRun(used, n), n) \cap used = {}
         /\ \A q \in 0 .. FirstRun(used, n) - 1 : Run(q, n) \cap used # {}
<1> DEFINE T == {q \in 0 .. 2 * room + n : Run(q, n) \cap used = {}}
<1>1. T \in SUBSET Nat /\ T # {} /\ c \in T
  OBVIOUS
<1>2. PICK p \in T : \A q \in T : p <= q
  BY <1>1, LeastExists
<1>3. p \in Nat /\ p <= c /\ Run(p, n) \cap used = {}
  BY <1>1, <1>2
<1>4. ASSUME NEW q \in 0 .. p - 1
      PROVE  Run(q, n) \cap used # {}
  <2>1. q \in 0 .. 2 * room + n /\ ~(p <= q)
    BY <1>2, <1>3
  <2> QED
    BY <1>2, <2>1
<1> DEFINE Is(r) == /\ Run(r, n) \cap used = {}
                    /\ \A q \in 0 .. r - 1 : Run(q, n) \cap used # {}
<1>5. Is(p)
  BY <1>3, <1>4
<1>6. FirstRun(used, n) = CHOOSE r \in 0 .. 2 * room + n : Is(r)
  BY DEF FirstRun
<1>7. p \in 0 .. 2 * room + n
  BY <1>2
<1>8. Is(FirstRun(used, n)) /\ FirstRun(used, n) \in 0 .. 2 * room + n
  <2> HIDE DEF Is
  <2> QED BY <1>5, <1>6, <1>7
<1>9. FirstRun(used, n) <= c
  <2>1. ASSUME c < FirstRun(used, n) PROVE FALSE
    <3>1. c \in 0 .. FirstRun(used, n) - 1
      BY <1>8, <2>1
    <3> QED
      BY <1>8, <3>1
  <2> QED
    BY <1>8, <2>1
<1> QED
  BY <1>8, <1>9

(* The page it finds is free, is one of the memory there is, and no page   *)
(* below it is free.                                                       *)
LEMMA NextPageIs ==
  ASSUME room \in Nat, NEW m \in Heaps, HasRoom(m, 1)
  PROVE  /\ NextPage(m) \in Pages \ m.used
         /\ \A q \in 0 .. NextPage(m) - 1 : q \in m.used
<1>1. m.used \in SUBSET Nat /\ IsFiniteSet(m.used)
  BY DEF Heaps
<1>2. Cardinality(m.used) \in Nat /\ Cardinality(m.used) < room
  BY <1>1, FS_CardinalityType DEF HasRoom
<1>3. IsFiniteSet(Pages) /\ Cardinality(Pages) = room
  BY FS_Interval DEF Pages
<1>4. PICK c \in Pages : c \notin m.used
  <2>1. ASSUME Pages \subseteq m.used PROVE FALSE
    <3>1. Cardinality(Pages) <= Cardinality(m.used)
      BY <1>1, <2>1, FS_Subset
    <3> QED
      BY <1>2, <1>3, <3>1
  <2> QED
    BY <2>1
<1>5. c \in 0 .. 2 * room + 1 /\ Run(c, 1) \cap m.used = {}
  BY <1>4 DEF Pages, Run
<1>6. PICK p : p = NextPage(m)
  OBVIOUS
<1>7. /\ p \in 0 .. c /\ Run(p, 1) \cap m.used = {}
      /\ \A q \in 0 .. p - 1 : Run(q, 1) \cap m.used # {}
  BY <1>5, <1>6, FirstRunIs DEF NextPage
<1>8. \A q \in Nat : Run(q, 1) = {q}
  BY DEF Run
<1>9. p \in Nat /\ p < room
  BY <1>4, <1>7 DEF Pages
<1>10. p \notin m.used
  BY <1>7, <1>8, <1>9
<1>11. \A q \in 0 .. p - 1 : q \in m.used
  BY <1>7, <1>8, <1>9
<1> QED
  BY <1>6, <1>9, <1>10, <1>11 DEF Pages

(* The heaps that come of it.                                              *)
LEMMA Parts ==
  ASSUME NEW m \in Heaps, NEW S
  PROVE  /\ Took(m, S) = [used |-> m.used \cup S, lost |-> m.lost]
         /\ Freed(m, S) = [used |-> m.used \ S, lost |-> m.lost]
         /\ Lost(m, S) = [used |-> m.used \cup S, lost |-> m.lost \cup S]
BY DEF Took, Freed, Lost, Heaps

LEMMA HeapsClosed ==
  ASSUME NEW m \in Heaps, NEW S \in SUBSET Nat, IsFiniteSet(S)
  PROVE  Took(m, S) \in Heaps /\ Freed(m, S) \in Heaps /\ Lost(m, S) \in Heaps
<1>1. m.used \in SUBSET Nat /\ m.lost \in SUBSET Nat /\ IsFiniteSet(m.used)
  BY DEF Heaps
<1>2. IsFiniteSet(m.used \cup S) /\ IsFiniteSet(m.used \ S)
  BY <1>1, FS_Union, FS_Difference
<1>3. /\ Took(m, S) = [used |-> m.used \cup S, lost |-> m.lost]
      /\ Freed(m, S) = [used |-> m.used \ S, lost |-> m.lost]
      /\ Lost(m, S) = [used |-> m.used \cup S, lost |-> m.lost \cup S]
  BY Parts, Zenon
<1>4. ASSUME NEW U \in SUBSET Nat, NEW L \in SUBSET Nat, IsFiniteSet(U)
      PROVE  [used |-> U, lost |-> L] \in Heaps
  BY <1>4 DEF Heaps
<1>5. /\ m.used \cup S \in SUBSET Nat /\ m.used \ S \in SUBSET Nat
      /\ m.lost \cup S \in SUBSET Nat
  BY <1>1
<1> QED
  BY <1>1, <1>2, <1>3, <1>4, <1>5

LEMMA PagesFinite ==
  ASSUME room \in Nat, NEW S \in SUBSET Pages
  PROVE  S \in SUBSET Nat /\ IsFiniteSet(S)
<1>1. IsFiniteSet(Pages)
  BY FS_Interval DEF Pages
<1>2. IsFiniteSet(S)
  BY <1>1, FS_Subset
<1> QED
  BY <1>2 DEF Pages

LEMMA LeaksHeap ==
  ASSUME room \in Nat, NEW m \in Heaps, NEW n, Leaks(m, n)
  PROVE  n \in Heaps
<1>1. PICK S \in SUBSET (Pages \ m.used) : n = Lost(m, S)
  BY DEF Leaks
<1>2. S \in SUBSET Nat /\ IsFiniteSet(S)
  BY PagesFinite
<1> QED
  BY <1>1, <1>2, HeapsClosed

LEMMA LeaksNothing ==
  ASSUME NEW m \in Heaps
  PROVE  Leaks(m, m)
<1>1. Lost(m, {}) = [used |-> m.used, lost |-> m.lost]
  BY DEF Lost
<1>2. m = [used |-> m.used, lost |-> m.lost]
  BY DEF Heaps
<1> QED
  BY <1>1, <1>2, {} \in SUBSET (Pages \ m.used) DEF Leaks

LEMMA LeaksCompose ==
  ASSUME room \in Nat, NEW m \in Heaps, NEW n, NEW o, Leaks(m, n), Leaks(n, o)
  PROVE  Leaks(m, o)
<1>1. PICK S \in SUBSET (Pages \ m.used) : n = Lost(m, S)
  BY DEF Leaks
<1>2. PICK T \in SUBSET (Pages \ n.used) : o = Lost(n, T)
  BY DEF Leaks
<1>3. o = Lost(m, S \cup T) /\ n.used = m.used \cup S
  BY <1>1, <1>2 DEF Lost
<1>4. S \cup T \in SUBSET (Pages \ m.used)
  BY <1>3
<1> QED
  BY <1>3, <1>4 DEF Leaks

(* A page that is taken and never freed.                                   *)
LEMMA LostNext ==
  ASSUME room \in Nat, NEW m \in Heaps, HasRoom(m, 1)
  PROVE  Leaks(m, Lost(m, {NextPage(m)}))
BY NextPageIs DEF Leaks

LEMMA HandlerLeaks ==
  ASSUME room \in Nat, NEW m \in Heaps
  PROVE  Leaks(m, Handler(m)) /\ Handler(m) \in Heaps
<1>1. Leaks(m, Handler(m))
  BY LostNext, LeaksNothing DEF Handler
<1> QED
  BY <1>1, LeaksHeap

(* Pages taken for a while, and given back or lost in the end.             *)
LEMMA TakenForAWhile ==
  ASSUME room \in Nat, NEW m \in Heaps,
         NEW T \in SUBSET Nat, IsFiniteSet(T), T \cap m.used = {},
         NEW n, Leaks(Took(m, T), n)
  PROVE  /\ Leaks(m, Freed(n, T))
         /\ T \subseteq Pages => Leaks(m, Lost(n, T))
<1>1. PICK k : k = Took(m, T)
  OBVIOUS
<1>2. k \in Heaps /\ k.used = m.used \cup T /\ k.lost = m.lost
  BY <1>1, HeapsClosed, Parts
<1>3. PICK S \in SUBSET (Pages \ k.used) : n = Lost(k, S)
  BY <1>1 DEF Leaks
<1>4. n \in Heaps
  BY <1>1, <1>2, LeaksHeap
<1>5. n.used = m.used \cup T \cup S /\ n.lost = m.lost \cup S
  BY <1>2, <1>3 DEF Lost
<1>6. S \in SUBSET (Pages \ m.used) /\ S \cap T = {}
  BY <1>2
<1>7. Freed(n, T) = Lost(m, S)
  <2>1. (m.used \cup T \cup S) \ T = m.used \cup S
    BY <1>6
  <2> QED
    BY <1>4, <1>5, <2>1 DEF Freed, Lost, Heaps
<1>8. Lost(n, T) = Lost(m, S \cup T)
  <2>1. m.used \cup T \cup S \cup T = m.used \cup (S \cup T)
    OBVIOUS
  <2>2. m.lost \cup S \cup T = m.lost \cup (S \cup T)
    OBVIOUS
  <2> QED
    BY <1>5, <2>1, <2>2 DEF Lost
<1> QED
  BY <1>6, <1>7, <1>8 DEF Leaks

(* After one page there is room for one less.                              *)
LEMMA RoomLeft ==
  ASSUME room \in Nat, NEW m \in Heaps, NEW n \in Nat, n >= 1, HasRoom(m, n + 1)
  PROVE  HasRoom(Took(m, {NextPage(m)}), n) /\ HasRoom(m, 1)
<1>1. IsFiniteSet(m.used) /\ Cardinality(m.used) \in Nat
  BY FS_CardinalityType DEF Heaps
<1>2. HasRoom(m, 1)
  BY <1>1 DEF HasRoom
<1>3. NextPage(m) \notin m.used
  BY <1>2, NextPageIs
<1>4. Cardinality(m.used \cup {NextPage(m)}) = Cardinality(m.used) + 1
  BY <1>1, <1>3, FS_AddElement
<1>5. Took(m, {NextPage(m)}).used = m.used \cup {NextPage(m)}
  BY Parts
<1>6. Cardinality(m.used) + (n + 1) <= room
  BY DEF HasRoom
<1>7. Cardinality(m.used \cup {NextPage(m)}) + n <= room
  BY <1>1, <1>4, <1>6
<1> QED
  BY <1>2, <1>5, <1>7 DEF HasRoom

LEMMA NextTaken ==
  ASSUME room \in Nat, NEW m \in Heaps, HasRoom(m, 1)
  PROVE  /\ Took(m, {NextPage(m)}) \in Heaps /\ {NextPage(m)} \in SUBSET Nat
         /\ IsFiniteSet({NextPage(m)}) /\ {NextPage(m)} \subseteq Pages
         /\ {NextPage(m)} \cap m.used = {}
<1>1. NextPage(m) \in Pages \ m.used
  BY NextPageIs
<1>2. {NextPage(m)} \in SUBSET Nat /\ IsFiniteSet({NextPage(m)})
  BY <1>1, PagesFinite
<1> QED
  BY <1>1, <1>2, HeapsClosed

LEMMA IdentifiedLeaks ==
  ASSUME room \in Nat, NEW m \in Heaps
  PROVE  Leaks(m, Identified(m)) /\ Identified(m) \in Heaps
<1>1. Leaks(m, Identified(m))
  <2>1. CASE ~HasRoom(m, 1)
    BY <2>1, LeaksNothing DEF Identified
  <2>2. CASE HasRoom(m, 1)
    <3>1. PICK E, w : E = {NextPage(m)} /\ w = Took(m, E)
      OBVIOUS
    <3>2. w \in Heaps /\ E \in SUBSET Nat /\ IsFiniteSet(E) /\ E \subseteq Pages
          /\ E \cap m.used = {}
      BY <2>2, <3>1, NextTaken
    <3>3. Leaks(w, Handler(w))
      BY <3>2, HandlerLeaks
    <3>4. Leaks(m, Freed(Handler(w), E)) /\ Leaks(m, Lost(Handler(w), E))
      BY <3>1, <3>2, <3>3, TakenForAWhile
    <3> QED
      BY <2>2, <3>1, <3>4 DEF Identified
  <2> QED
    BY <2>1, <2>2
<1> QED
  BY <1>1, LeaksHeap

-----------------------------------------------------------------------------
(* Which page comes next, until the cache is there.                        *)
LEMMA NextAfterFull ==
  ASSUME room \in Nat, NEW m \in Heaps, NEW k \in Nat, m.used = 0 .. k,
         HasRoom(m, 1)
  PROVE  /\ NextPage(m) = k + 1 /\ k + 1 \in Pages
         /\ m.used \cup {NextPage(m)} = 0 .. k + 1
<1>1. PICK p : p = NextPage(m)
  OBVIOUS
<1>2. p \in Nat /\ p \in Pages /\ p \notin 0 .. k /\ \A q \in 0 .. p - 1 : q \in 0 .. k
  BY <1>1, NextPageIs DEF Pages
<1>3. p >= k + 1
  BY <1>2
<1>4. ASSUME p > k + 1 PROVE FALSE
  <2>1. k + 1 \in 0 .. p - 1
    BY <1>2, <1>4
  <2> QED
    BY <1>2, <2>1
<1>5. p = k + 1
  BY <1>2, <1>3, <1>4
<1>6. (0 .. k) \cup {k + 1} = 0 .. k + 1
  OBVIOUS
<1> QED
  BY <1>1, <1>2, <1>5, <1>6

LEMMA FillsHole ==
  ASSUME room \in Nat, NEW m \in Heaps, OneHole(m), HasRoom(m, 1)
  PROVE  \E k \in Nat : m.used \cup {NextPage(m)} = 0 .. k
<1>1. PICK k \in Nat, h \in Nat : m.used \cup {h} = 0 .. k
  BY DEF OneHole
<1>2. CASE h \in m.used
  <2>1. m.used = 0 .. k
    BY <1>1, <1>2
  <2> QED
    BY <2>1, NextAfterFull
<1>3. CASE h \notin m.used
  <2>1. PICK p : p = NextPage(m)
    OBVIOUS
  <2>2. p \in Nat /\ p \notin m.used /\ \A q \in 0 .. p - 1 : q \in m.used
    BY <2>1, NextPageIs DEF Pages
  <2>3. ~(h < p)
    <3>1. h < p => h \in 0 .. p - 1
      BY <2>2
    <3> QED
      BY <1>3, <2>2, <3>1
  <2>4. ~(p < h)
    <3>1. h \in 0 .. k
      BY <1>1
    <3>2. p < h => p \in 0 .. k
      BY <2>2, <3>1
    <3>3. p < h => p # h
      BY <2>2
    <3> QED
      BY <1>1, <2>2, <3>2, <3>3
  <2>5. p = h
    BY <2>2, <2>3, <2>4
  <2> QED
    BY <1>1, <2>1, <2>5
<1> QED
  BY <1>2, <1>3

LEMMA FullHasOneHole ==
  ASSUME NEW m, NEW k \in Nat, NEW p, m.used \cup {p} = 0 .. k
  PROVE  OneHole(m)
<1>1. p \in Nat
  <2>1. p \in 0 .. k
    OBVIOUS
  <2> QED
    BY <2>1
<1> QED
  BY <1>1 DEF OneHole

(* One identification leaves one hole, that of the buffer it frees.        *)
LEMMA IdentifiedHole ==
  ASSUME room \in Nat, NEW m \in Heaps, OneHole(m)
  PROVE  OneHole(Identified(m))
<1>1. CASE ~HasRoom(m, 1)
  BY <1>1 DEF Identified
<1>2. CASE HasRoom(m, 1)
  <2>1. PICK p, w, a : p = NextPage(m) /\ w = Took(m, {p}) /\ a = Handler(w)
    OBVIOUS
  <2>2. w \in Heaps /\ w.used = m.used \cup {p}
    BY <1>2, <2>1, NextTaken, Parts
  <2>3. PICK k \in Nat : w.used = 0 .. k
    BY <1>2, <2>1, <2>2, FillsHole
  <2>4. \E l \in Nat : l >= k /\ a.used = 0 .. l
    <3>1. CASE HasRoom(w, 1)
      <4>1. a = Lost(w, {NextPage(w)})
        BY <2>1, <3>1 DEF Handler
      <4>2. w.used \cup {NextPage(w)} = 0 .. k + 1
        BY <2>2, <2>3, <3>1, NextAfterFull
      <4>3. a.used = 0 .. k + 1
        BY <4>1, <4>2 DEF Lost
      <4> QED
        BY <4>3
    <3>2. CASE ~HasRoom(w, 1)
      BY <2>1, <2>3, <3>2 DEF Handler
    <3> QED
      BY <3>1, <3>2
  <2>5. PICK l \in Nat : l >= k /\ a.used = 0 .. l
    BY <2>4
  <2>6. p \in 0 .. l
    <3>1. p \in 0 .. k
      BY <2>2, <2>3
    <3> QED
      BY <2>5, <3>1
  <2>7. a \in Heaps
    BY <2>1, <2>2, HandlerLeaks
  <2>8. /\ Freed(a, {p}).used \cup {p} = 0 .. l
        /\ Lost(a, {p}).used \cup {p} = 0 .. l
    <3>1. Freed(a, {p}).used = a.used \ {p} /\ Lost(a, {p}).used = a.used \cup {p}
      BY <2>7 DEF Freed, Lost, Heaps
    <3> QED
      BY <2>5, <2>6, <3>1
  <2>9. OneHole(Freed(a, {p})) /\ OneHole(Lost(a, {p}))
    BY <2>5, <2>8, FullHasOneHole
  <2> QED
    BY <1>2, <2>1, <2>9 DEF Identified
<1> QED
  BY <1>1, <1>2

LEMMA IdentifiedFull ==
  ASSUME room \in Nat, NEW m \in Heaps, NEW k \in Nat, m.used = 0 .. k,
         Identifies(m)
  PROVE  Identified(m).used = (0 .. k) \cup {k + 2}
<1>1. HasRoom(m, 2) /\ InDevice(0, 1)
  BY DEF Identifies
<1>2. PICK p, w, a : p = NextPage(m) /\ w = Took(m, {p}) /\ a = Handler(w)
  OBVIOUS
<1>3. HasRoom(w, 1) /\ HasRoom(m, 1)
  BY <1>1, <1>2, RoomLeft
<1>4. w \in Heaps /\ w.used = 0 .. k + 1 /\ p = k + 1
  <2>1. m.used \cup {p} = 0 .. k + 1 /\ p = k + 1
    BY <1>2, <1>3, NextAfterFull
  <2>2. w \in Heaps /\ w.used = m.used \cup {p}
    BY <1>2, <1>3, NextTaken DEF Took, Heaps
  <2> QED
    BY <2>1, <2>2
<1>5. a = Lost(w, {NextPage(w)})
  BY <1>2, <1>3 DEF Handler
<1>6. a.used = 0 .. k + 2 /\ a \in Heaps
  <2>1. PICK l \in Nat : l = k + 1
    OBVIOUS
  <2>2. w.used \cup {NextPage(w)} = 0 .. l + 1
    BY <1>3, <1>4, <2>1, NextAfterFull
  <2>3. a \in Heaps
    BY <1>2, <1>4, HandlerLeaks
  <2> QED
    BY <1>5, <2>1, <2>2, <2>3 DEF Lost
<1>7. Identified(m) = Freed(a, {p})
  BY <1>1, <1>2, <1>3 DEF Identified, Answers
<1>8. Identified(m).used = (0 .. k + 2) \ {k + 1}
  BY <1>4, <1>6, <1>7, Parts
<1> QED
  BY <1>8

-----------------------------------------------------------------------------
(* Where the entries of the cache come to lie.                             *)
LEMMA CellLiesIn ==
  ASSUME NEW a \in Nat, cache = {a}, NEW i \in Nat
  PROVE  CellPages(i) \subseteq a .. a + i /\ CellPage(i) \subseteq CellPages(i)
<1>1. PICK cs, ps, es : cs = CacheSize /\ ps = PageSize /\ es = EntrySize
  OBVIOUS
<1>2. cs \in Nat /\ ps \in Nat \ {0} /\ es \in Nat \ {0} /\ cs <= ps /\ es <= cs
  <2>1. NEntries * EntrySize \in Nat /\ (NEntries - 1) * EntrySize >= 0
    BY Sizes
  <2>2. (NEntries - 1) * EntrySize = NEntries * EntrySize - EntrySize
    BY Sizes
  <2> QED
    BY <1>1, <2>1, <2>2, Sizes DEF CacheSize
<1>3. CellStart(i) = i * cs /\ i * cs \in Nat
  BY <1>1, <1>2 DEF CellStart
<1>4. i * cs <= i * ps
  <2>1. i * (ps - cs) >= 0
    BY <1>2
  <2>2. i * (ps - cs) = i * ps - i * cs
    BY <1>2
  <2> QED
    BY <1>2, <2>1, <2>2
<1>5. ASSUME NEW u \in i * cs .. i * cs + es - 1
      PROVE  u \div ps \in 0 .. i
  <2>1. u \in Nat /\ u < i * ps + ps
    BY <1>2, <1>3, <1>4
  <2>2. PICK q, r : q = u \div ps /\ r = u % ps
    OBVIOUS
  <2>3. q \in Int /\ r \in 0 .. ps - 1 /\ u = ps * q + r
    BY <1>2, <2>1, <2>2
  <2>4. ASSUME q >= i + 1 PROVE FALSE
    <3>1. ps * (q - (i + 1)) >= 0
      BY <1>2, <2>3, <2>4
    <3>2. ps * (q - (i + 1)) = ps * q - ps * i - ps
      BY <1>2, <2>3
    <3>3. i * ps = ps * i
      BY <1>2
    <3> QED
      BY <1>2, <2>1, <2>3, <3>1, <3>2, <3>3
  <2>5. ASSUME q < 0 PROVE FALSE
    <3>1. ps * (- 1 - q) >= 0
      BY <1>2, <2>3, <2>5
    <3>2. ps * (- 1 - q) = - ps - ps * q
      BY <1>2, <2>3
    <3> QED
      BY <1>2, <2>1, <2>3, <3>1, <3>2
  <2> QED
    BY <2>2, <2>3, <2>4, <2>5
<1>6. CellPages(i) = {a + (u \div ps) : u \in i * cs .. i * cs + es - 1}
  BY <1>1, <1>3 DEF CellPages
<1>7. CellPage(i) = {a + ((i * cs) \div ps)}
  BY <1>1, <1>3 DEF CellPage
<1>8. i * cs \in i * cs .. i * cs + es - 1
  BY <1>2, <1>3
<1>9. CellPages(i) \subseteq a .. a + i
  BY <1>5, <1>6
<1> QED
  BY <1>6, <1>7, <1>8, <1>9

-----------------------------------------------------------------------------
(* The pages in use stay accounted for.                                    *)
LEMMA StillAccounted ==
  ASSUME room \in Nat, NEW m \in PageHeaps, NEW c, NEW H, Accounted(m, c, H)
  PROVE  /\ m \in Heaps
         /\ \A n : Leaks(m, n) =>
              n \in PageHeaps /\ Accounted(n, c, H) /\ m.lost \subseteq n.lost
         /\ /\ Freed(m, H) \in PageHeaps /\ Accounted(Freed(m, H), c, {})
            /\ Freed(m, H).lost = m.lost
         /\ \A T \in SUBSET (Pages \ m.used) :
              /\ Took(m, T) \in PageHeaps /\ Accounted(Took(m, T), c, H \cup T)
              /\ Took(m, T).lost = m.lost
<1>1. m.used \in SUBSET Pages /\ m.lost \in SUBSET Pages
      /\ m \in [used : SUBSET Pages, lost : SUBSET Pages]
  BY DEF PageHeaps
<1>2. m \in Heaps
  <2>1. m.used \in SUBSET Nat /\ IsFiniteSet(m.used) /\ m.lost \in SUBSET Nat
    BY <1>1, PagesFinite
  <2> QED
    BY <1>1, <2>1 DEF Heaps
<1>3. ASSUME NEW n, Leaks(m, n)
      PROVE  n \in PageHeaps /\ Accounted(n, c, H) /\ m.lost \subseteq n.lost
  <2>1. PICK S \in SUBSET (Pages \ m.used) : n = Lost(m, S)
    BY <1>3 DEF Leaks
  <2>2. n = [used |-> m.used \cup S, lost |-> m.lost \cup S]
    BY <2>1 DEF Lost
  <2>3. S \cap (Base \cup c \cup m.lost \cup H) = {}
    BY DEF Accounted
  <2> QED
    BY <1>1, <2>2, <2>3 DEF Accounted, PageHeaps
<1>4. /\ Freed(m, H) \in PageHeaps /\ Accounted(Freed(m, H), c, {})
      /\ Freed(m, H).lost = m.lost
  <2>1. Freed(m, H) = [used |-> m.used \ H, lost |-> m.lost]
    BY <1>2, Parts
  <2> QED
    BY <1>1, <2>1 DEF Accounted, PageHeaps
<1>5. ASSUME NEW T \in SUBSET (Pages \ m.used)
      PROVE  /\ Took(m, T) \in PageHeaps /\ Accounted(Took(m, T), c, H \cup T)
             /\ Took(m, T).lost = m.lost
  <2>1. Took(m, T) = [used |-> m.used \cup T, lost |-> m.lost]
    BY <1>2, Parts
  <2> QED
    BY <1>1, <2>1 DEF Accounted, PageHeaps
<1> QED
  BY <1>2, <1>3, <1>4, <1>5

HeldIn(b) == UNION {b[x] : x \in DOMAIN b}

LEMMA HeldParts ==
  /\ \A b \in Buffers :
       HeldIn(b) = b.params \cup b.buffer \cup b.entry \cup b.postfile
  /\ NoBufs \in Buffers /\ HeldIn(NoBufs) = {} /\ EntryApart(NoBufs)
  /\ NoBufs.entry = {}
<1>1. ASSUME NEW b \in Buffers
      PROVE  HeldIn(b) = b.params \cup b.buffer \cup b.entry \cup b.postfile
  <2>1. DOMAIN b = {"params", "buffer", "entry", "postfile"}
    BY DEF Buffers
  <2> QED
    BY <2>1 DEF HeldIn
<1>2. NoBufs \in Buffers
  BY DEF NoBufs, Buffers
<1>3. /\ NoBufs.params = {} /\ NoBufs.buffer = {} /\ NoBufs.entry = {}
      /\ NoBufs.postfile = {}
  BY DEF NoBufs
<1> QED
  BY <1>1, <1>2, <1>3 DEF EntryApart

Reads == {"ready", "find", "walk", "size", "read"}

(* A step of a read touches neither the cache nor what leads to it: what   *)
(* remains to be shown is what it does to the heap and to the call.        *)
LEMMA ReadStep ==
  ASSUME IInv, pc \in Reads, pc' \in Reads \cup (Stopped \ {"panic"}),
         UNCHANGED <<kept, cache, cells>>,
         mem' \in PageHeaps, mem.lost \subseteq mem'.lost,
         bufs' \in Buffers, EntryApart(bufs'), Accounted(mem', cache, HeldIn(bufs')),
         pc' = "ready" => bufs' = NoBufs,
         pc' # "walk" => bufs'.entry = {},
         CallInv'
  PROVE  IInv'
<1>1. /\ modules' = modules /\ at' = at /\ room' = room /\ cache' = cache
      /\ cells' = cells /\ at \in DOMAIN modules
      /\ pc \notin {"identify", "mount", "cache", "panic"}
      /\ pc' \notin {"identify", "mount", "cache", "panic"}
  BY DEF IInv, KeptInv, kept, Reads, Stopped
<1>2. KeptInv'
  BY <1>1 DEF IInv, KeptInv
<1>3. HeapInv'
  <2>1. Pages' = Pages /\ PageHeaps' = PageHeaps /\ Buffers' = Buffers
        /\ Held' = HeldIn(bufs')
    BY <1>1 DEF Pages, PageHeaps, Buffers, Held, HeldIn
  <2>2. cache \subseteq Pages
    BY DEF IInv, HeapInv
  <2> QED
    BY <1>1, <2>1, <2>2 DEF HeapInv
<1>4. SegmentInv'
  <2>1. \A i : CellPages(i)' = CellPages(i)
    BY <1>1 DEF CellPages, CellStart, CacheSize
  <2> QED
    BY <1>1, <2>1 DEF IInv, SegmentInv, MountWritesOwn
<1>5. CellsInv'
  <2>1. Headers' = Headers /\ \A b : Block(b)' = Block(b)
    BY <1>1 DEF Headers, Block, Disk
  <2> QED
    BY <1>1, <2>1 DEF IInv, CellsInv, CacheFaithful
<1> QED
  BY <1>2, <1>3, <1>4, <1>5 DEF IInv

LEMMA ReadState ==
  ASSUME IInv, pc \in Reads
  PROVE  /\ room \in Nat /\ mem \in PageHeaps /\ mem \in Heaps /\ bufs \in Buffers
         /\ Held = HeldIn(bufs) /\ Accounted(mem, cache, HeldIn(bufs))
         /\ EntryApart(bufs) /\ at \in DOMAIN modules
         /\ pc = "ready" => bufs = NoBufs
         /\ pc # "walk" => bufs.entry = {}
<1>1. pc \notin {"identify", "panic"} /\ Held = HeldIn(bufs)
  BY DEF Reads, Held, HeldIn
<1>2. room \in Nat
  BY RoomIsNat DEF IInv, KeptInv
<1>3. mem \in PageHeaps /\ Accounted(mem, cache, HeldIn(bufs))
  BY <1>1 DEF IInv, HeapInv
<1>4. mem \in Heaps
  BY <1>2, <1>3, StillAccounted
<1> QED
  BY <1>1, <1>2, <1>3, <1>4 DEF IInv, HeapInv, KeptInv

(* A read ends, having lost some pages or none.                            *)
LEMMA EndsKeeps ==
  ASSUME IInv, pc \in Reads, NEW m, Leaks(mem, m), NEW n \in Int, Ends(m, n)
  PROVE  IInv'
<1>1. /\ room \in Nat /\ mem \in PageHeaps /\ mem \in Heaps
      /\ Held = HeldIn(bufs) /\ Accounted(mem, cache, HeldIn(bufs))
  BY ReadState
<1>2. PICK H : H = HeldIn(bufs)
  OBVIOUS
<1>3. m \in PageHeaps /\ Accounted(m, cache, H) /\ mem.lost \subseteq m.lost
  BY <1>1, <1>2, StillAccounted
<1>4. /\ Freed(m, H) \in PageHeaps /\ Accounted(Freed(m, H), cache, {})
      /\ Freed(m, H).lost = m.lost
  BY <1>1, <1>3, StillAccounted
<1>5. mem' = Freed(m, H) /\ bufs' = NoBufs /\ pc' = "ready" /\ answer' = n
      /\ UNCHANGED <<kept, cache, cells>> /\ cur' = 0
      /\ call' = [NoCall EXCEPT !.stage = "done"]
  BY <1>1, <1>2 DEF Ends
<1>6. CallInv'
  <2>1. call' = [file |-> <<>>, name |-> <<>>, start |-> 0, size |-> 0,
                    length |-> 0, stage |-> "done"]
    BY <1>5 DEF NoCall
  <2>2. call' \in Calls
    BY <2>1 DEF Calls, Names
  <2>3. cur' \in Nat /\ answer' \in Int
    BY <1>5
  <2> QED
    BY <1>5, <2>2, <2>3 DEF CallInv
<1>7. pc' \in Reads \cup (Stopped \ {"panic"})
  BY <1>5 DEF Reads
<1> QED
  BY <1>3, <1>4, <1>5, <1>6, <1>7, HeldParts, ReadStep

-----------------------------------------------------------------------------
(* The archive.                                                            *)
LEMMA DiskIs ==
  ASSUME KeptInv, at \in DOMAIN modules
  PROVE  /\ Disk \in Seq(Blocks) /\ Len(Disk) \in Nat /\ IsArchive(Disk)
         /\ \A b \in 0 .. Len(Disk) - 1 : Block(b) \in Blocks
<1>1. modules \in Seq(Seq(Blocks)) /\ IsArchive(Disk)
  BY InitfsAssumption DEF KeptInv, Disk
<1>2. Disk \in Seq(Blocks)
  BY <1>1 DEF Disk
<1>3. \A b \in 0 .. Len(Disk) - 1 : Disk[b + 1] \in Blocks
  BY <1>2
<1> QED
  BY <1>1, <1>2, <1>3 DEF Block

(* How many blocks a file of s bytes has.                                  *)
LEMMA FileBlocks ==
  ASSUME NEW s \in Nat
  PROVE  \E k \in Nat :
           /\ k = (s \div BlockSize) + (IF s % BlockSize = 0 THEN 0 ELSE 1)
           /\ k * BlockSize - BlockSize < s /\ s <= k * BlockSize
           /\ \A j \in Nat : j < k => j * BlockSize < s
<1>1. PICK bs \in Nat \ {0} : bs = BlockSize
  BY Sizes
<1>2. PICK q, r : q = s \div bs /\ r = s % bs
  OBVIOUS
<1>3. q \in Int /\ r \in 0 .. bs - 1 /\ s = bs * q + r
  BY <1>2
<1>4. q >= 0
  <2>1. ASSUME q < 0 PROVE FALSE
    <3>1. bs * (- 1 - q) >= 0
      BY <1>3, <2>1
    <3>2. bs * (- 1 - q) = - bs - bs * q
      BY <1>3
    <3> QED
      BY <1>3, <3>1, <3>2
  <2> QED
    BY <1>3, <2>1
<1>5. PICK k : k = q + (IF r = 0 THEN 0 ELSE 1)
  OBVIOUS
<1>6. k \in Nat /\ (k + 1) * bs = k * bs + bs /\ q * bs = bs * q
      /\ (q + 1) * bs = bs * q + bs
  BY <1>3, <1>4, <1>5
<1>7. k * bs - bs < s /\ s <= k * bs
  <2>1. CASE r = 0
    BY <1>3, <1>5, <1>6, <2>1
  <2>2. CASE r # 0
    BY <1>3, <1>5, <1>6, <2>2
  <2> QED
    BY <2>1, <2>2
<1>8. ASSUME NEW j \in Nat, j < k PROVE j * bs < s
  <2>1. (k - 1 - j) * bs >= 0
    BY <1>6, <1>8
  <2>2. (k - 1 - j) * bs = k * bs - bs - j * bs
    BY <1>6
  <2> QED
    BY <1>6, <1>7, <2>1, <2>2
<1> QED
  BY <1>1, <1>2, <1>5, <1>6, <1>7, <1>8

(* What lies behind a header.                                              *)
LEMMA NextHeaderIs ==
  ASSUME KeptInv, at \in DOMAIN modules, NEW b \in Headers
  PROVE  LET n == NextHeader(b, Block(b).size)
         IN  /\ n \in Nat /\ b < n
             /\ n < Len(Disk) => Block(n).kind # "data"
             /\ \A c \in Headers : ~(b < c /\ c < n)
<1>1. /\ Disk \in Seq(Blocks) /\ Len(Disk) \in Nat /\ IsArchive(Disk)
      /\ b \in 0 .. Len(Disk) - 1 /\ IsHeader(Block(b)) /\ Block(b) \in Blocks
  BY DiskIs DEF Headers
<1>2. PICK d, s : d = Disk /\ s = Block(b).size
  OBVIOUS
<1>3. s \in Nat /\ d[b + 1].size = s /\ DOMAIN d = 1 .. Len(d)
  BY <1>1, <1>2 DEF Blocks, Block
<1>4. PICK k \in Nat :
           /\ k = (s \div BlockSize) + (IF s % BlockSize = 0 THEN 0 ELSE 1)
           /\ k * BlockSize - BlockSize < s /\ s <= k * BlockSize
           /\ \A j \in Nat : j < k => j * BlockSize < s
  BY <1>3, FileBlocks
<1>5. NextHeader(b, s) = b + k + 1
  <2>1. s \div BlockSize \in Int
    BY <1>3, Sizes
  <2> QED
    BY <1>1, <1>4, <2>1 DEF NextHeader
<1>6. ASSUME NEW c \in b + 1 .. Len(d) - 1
      PROVE  /\ (c - b - 1) * BlockSize < s => Block(c).kind = "data"
             /\ (c - b - 1) * BlockSize - BlockSize < s
                  /\ s <= (c - b - 1) * BlockSize => Block(c).kind # "data"
  <2>1. c + 1 \in (b + 1) + 1 .. Len(d) /\ b + 1 \in DOMAIN d
        /\ (c + 1) - (b + 1) - 1 = c - b - 1
    BY <1>1, <1>2, <1>3
  <2>2. IsHeader(d[b + 1])
    BY <1>1, <1>2 DEF Block
  <2>3. /\ ((c + 1) - (b + 1) - 1) * BlockSize < s => d[c + 1].kind = "data"
        /\ ((c + 1) - (b + 1) - 1) * BlockSize - BlockSize < s
             /\ s <= ((c + 1) - (b + 1) - 1) * BlockSize => d[c + 1].kind # "data"
    BY <1>1, <1>2, <1>3, <2>1, <2>2 DEF IsArchive
  <2> QED
    BY <1>2, <2>1, <2>3 DEF Block
<1>7. PICK n : n = NextHeader(b, s)
  OBVIOUS
<1>8. n \in Nat /\ b < n /\ n - b - 1 = k
  BY <1>1, <1>5, <1>7
<1>9. n < Len(Disk) => Block(n).kind # "data"
  <2>1. n < Len(d) => n \in b + 1 .. Len(d) - 1
    BY <1>1, <1>2, <1>8
  <2> QED
    BY <1>2, <1>4, <1>6, <1>8, <2>1
<1>10. ASSUME NEW c \in Headers, b < c, c < n PROVE FALSE
  <2>1. c \in 0 .. Len(d) - 1 /\ IsHeader(Block(c))
    BY <1>2 DEF Headers
  <2>2. c \in b + 1 .. Len(d) - 1 /\ c - b - 1 \in Nat /\ c - b - 1 < k
    BY <1>1, <1>2, <1>8, <1>10, <2>1
  <2>3. PICK j \in Nat : j = c - b - 1
    BY <2>2
  <2>4. j * BlockSize < s
    BY <1>4, <2>2, <2>3
  <2>5. Block(c).kind = "data"
    BY <1>6, <2>2, <2>3, <2>4
  <2> QED
    BY <2>1, <2>5 DEF IsHeader
<1> QED
  BY <1>2, <1>7, <1>8, <1>9, <1>10

-----------------------------------------------------------------------------
(* The search in the cache.                                                *)
LEMMA CachedIs ==
  ASSUME IInv, pc = "find", Cached # {}
  PROVE  /\ Min(Cached) \in Cached /\ Min(Cached) \in 0 .. Len(cells) - 1
         /\ cells[Min(Cached) + 1].block \in Nat
         /\ FoundAt(cells[Min(Cached) + 1].block)
         /\ SearchedMapped
<1>1. /\ Cached \in SUBSET Nat /\ \A i \in Cached : i < Len(cells)
      /\ cells \in Seq([name : Names, block : Nat])
  BY Sizes DEF Cached, Entries, IInv, CellsInv
<1>2. PICK least \in Cached : \A i \in Cached : least <= i
  BY <1>1, LeastExists
<1>3. Min(Cached) \in Cached
  BY <1>2 DEF Min
<1>4. PICK p : p = Min(Cached)
  OBVIOUS
<1>5. p \in Cached /\ p \in Nat /\ p < Len(cells) /\ cells[p + 1].name = call.name
  BY <1>1, <1>3, <1>4 DEF Cached
<1>6. p + 1 \in 1 .. Len(cells)
  BY <1>1, <1>5
<1>7. cells[p + 1].block \in Nat /\ FoundAt(cells[p + 1].block)
  <2>1. CASE cells[p + 1] # EmptyCell
    <3>1. cells[p + 1].block \in Headers
          /\ Block(cells[p + 1].block).name = cells[p + 1].name
      BY <1>6, <2>1 DEF IInv, CellsInv, CacheFaithful
    <3> QED
      BY <1>5, <3>1 DEF FoundAt, Headers
  <2>2. CASE cells[p + 1] = EmptyCell
    <3>1. EmptyCell.name = <<>> /\ EmptyCell.block = 0
      BY DEF EmptyCell
    <3> QED
      BY <1>5, <2>2, <3>1 DEF FoundAt
  <2> QED
    BY <2>1, <2>2
<1>8. SearchedMapped
  <2>1. \A i \in 0 .. p : CellPages(i) \subseteq cache \cup mem.lost
    BY <1>1, <1>5 DEF IInv, SegmentInv, MountWritesOwn
  <2>2. cache \cup mem.lost \subseteq mem.used
    BY DEF IInv, HeapInv, Accounted
  <2>3. mem.used \subseteq Finding.used
    BY DEF Finding, Lost
  <2>4. \A i \in 0 .. p : CellPage(i) \subseteq CellPages(i)
    <3>1. ASSUME NEW i \in Nat, NEW c \in cache
          PROVE  c + (CellStart(i) \div PageSize) \in CellPages(i)
      <4>1. CellStart(i) \in Int /\ EntrySize \in Nat \ {0}
        BY Sizes DEF CellStart, CacheSize
      <4>2. CellStart(i) \in CellStart(i) .. CellStart(i) + EntrySize - 1
        BY <4>1
      <4> QED
        BY <4>2 DEF CellPages
    <3> QED
      BY <3>1, <1>5 DEF CellPage
  <2>5. Searched = 0 .. p
    BY <1>4 DEF Searched
  <2>6. \A i \in Searched : CellPage(i) \subseteq Finding.used
    BY <2>1, <2>2, <2>3, <2>4, <2>5
  <2> QED
    BY <2>6 DEF SearchedMapped
<1> QED
  BY <1>3, <1>4, <1>5, <1>7, <1>8

LEMMA LastEntryIs ==
  ASSUME IInv, NonZero # {}
  PROVE  cells[Max(NonZero) + 1].block \in Headers
<1>1. /\ NonZero \in SUBSET Nat /\ \A i \in NonZero : i < Len(cells) /\ i <= NEntries - 1
      /\ cells \in Seq([name : Names, block : Nat])
  BY Sizes DEF NonZero, Entries, IInv, CellsInv
<1>2. PICK n \in Nat : n = NEntries
  BY Sizes
<1>3. PICK greatest \in NonZero : \A i \in NonZero : i <= greatest
  <2>1. {n - i : i \in NonZero} \in SUBSET Nat /\ {n - i : i \in NonZero} # {}
    <3>1. ASSUME NEW i \in NonZero PROVE n - i \in Nat
      <4>1. i \in Nat /\ i <= n - 1
        BY <1>1, <1>2
      <4> QED
        BY <4>1
    <3> QED
      BY <3>1
  <2>2. PICK x \in {n - i : i \in NonZero} : \A y \in {n - i : i \in NonZero} : x <= y
    BY <2>1, LeastExists
  <2>3. PICK g \in NonZero : x = n - g
    BY <2>2
  <2>4. ASSUME NEW i \in NonZero PROVE i <= g
    <3>1. n - g <= n - i
      BY <2>2, <2>3
    <3> QED
      BY <1>1, <1>2, <3>1
  <2> QED
    BY <2>4
<1>4. Max(NonZero) \in NonZero
  BY <1>3 DEF Max
<1>5. PICK p : p = Max(NonZero)
  OBVIOUS
<1>6. p \in Nat /\ p < Len(cells) /\ cells[p + 1].block # 0
  BY <1>1, <1>4, <1>5 DEF NonZero
<1>7. p + 1 \in 1 .. Len(cells) /\ cells[p + 1] # EmptyCell
  <2>1. EmptyCell.block = 0
    BY DEF EmptyCell
  <2> QED
    BY <1>1, <1>6, <2>1
<1>8. cells[p + 1].block \in Headers
  BY <1>7 DEF IInv, CellsInv, CacheFaithful
<1> QED
  BY <1>5, <1>8

LEMMA FindingLeaks ==
  ASSUME IInv, pc \in Reads, HasRoom(mem, 1)
  PROVE  Leaks(mem, Finding) /\ Finding \in Heaps /\ Finding \in PageHeaps
         /\ Accounted(Finding, cache, HeldIn(bufs)) /\ mem.lost \subseteq Finding.lost
<1>1. Leaks(mem, Finding)
  BY ReadState, LostNext DEF Finding
<1> QED
  BY <1>1, ReadState, LeaksHeap, StillAccounted

(* Nothing that a read has taken or found changes what the archive is.     *)
LEMMA SameArchive ==
  ASSUME UNCHANGED kept
  PROVE  Disk' = Disk /\ Headers' = Headers /\ \A b : Block(b)' = Block(b)
BY DEF kept, Disk, Headers, Block

LEMMA FoundKeeps ==
  ASSUME IInv, pc \in {"find", "walk"}, NEW b \in Nat, FoundAt(b),
         NEW m \in PageHeaps, mem.lost \subseteq m.lost,
         NEW bs \in Buffers, Accounted(m, cache, HeldIn(bs)), bs.entry = {},
         Found(m, b), bufs' = bs
  PROVE  IInv'
<1>1. /\ mem' = m /\ cur' = b /\ pc' = call.stage /\ call' = call /\ answer' = answer
      /\ UNCHANGED kept /\ UNCHANGED <<cache, cells>>
  BY DEF Found
<1>2. call.stage \in {"size", "read"} /\ Asked /\ call \in Calls
      /\ answer \in Int
  BY DEF IInv, CallInv, Asked
<1>3. CallInv'
  <2>1. Headers' = Headers /\ Block(b)' = Block(b) /\ Cached' = Cached
    BY <1>1, SameArchive DEF Cached, Entries
  <2>2. FoundAt(cur)'
    BY <1>1, <2>1, SameArchive DEF FoundAt
  <2>3. Asked'
    BY <1>1, <1>2, <2>1 DEF Asked
  <2> QED
    BY <1>1, <1>2, <2>2, <2>3 DEF CallInv
<1>4. EntryApart(bs)
  BY DEF EntryApart
<1>5. pc \in Reads /\ pc' \in Reads \cup (Stopped \ {"panic"}) /\ pc' # "ready"
  BY <1>1, <1>2 DEF Reads
<1> QED
  BY <1>1, <1>3, <1>4, <1>5, ReadStep

LEMMA StopsKeeps ==
  ASSUME IInv, pc \in Reads, pc # "walk", NEW how \in Stopped \ {"panic"},
         how = "fault" => Cached = {}, Stops(how)
  PROVE  IInv'
<1>1. pc' = how /\ UNCHANGED <<kept, mem, bufs, cache, cells, cur, call, answer>>
  BY DEF Stops
<1>2. CallInv'
  <2>1. Cached' = Cached
    BY <1>1 DEF Cached, Entries
  <2>2. how \notin {"find", "walk", "size", "read"}
    BY DEF Stopped
  <2> QED
    BY <1>1, <2>1, <2>2 DEF IInv, CallInv
<1>3. pc' # "ready" /\ pc' # "walk"
  BY <1>1 DEF Stopped
<1> QED
  BY <1>1, <1>2, <1>3, ReadState, ReadStep

-----------------------------------------------------------------------------
(* The steps of a read, one by one.                                        *)
LEMMA Errors ==
  /\ VFS_DEVERROR \in Int /\ VFS_NOMEM \in Int /\ VFS_NOTFOUND \in Int
  /\ VFS_FSERROR \in Int /\ VFS_FAILED \in Int
BY DEF VFS_FAILED, VFS_DEVERROR, VFS_NOMEM, VFS_NOTFOUND, VFS_FSERROR

LEMMA ReaderTakesKeeps ==
  ASSUME IInv, ReaderTakes
  PROVE  IInv'
<1>1. /\ pc = "ready" /\ pc \in Reads /\ HasRoom(mem, 1) /\ mem' = Finding
      /\ UNCHANGED <<kept, pc, bufs, cache, cells, cur, call, answer>>
  BY DEF ReaderTakes, Finding, Reads
<1>2. CallInv'
  BY <1>1 DEF IInv, CallInv
<1> QED
  BY <1>1, <1>2, FindingLeaks, ReadState, ReadStep

LEMMA HreadBeginsKeeps ==
  ASSUME IInv, NEW r \in Requests, HreadBegins(r)
  PROVE  IInv'
<1>1. PICK p, w, q : p = NextPage(mem) /\ w = Took(mem, {p}) /\ q = NextPage(w)
  OBVIOUS
<1>2. /\ pc = "ready" /\ pc \in Reads /\ HasRoom(mem, 2)
      /\ mem' = Took(mem, {p, q})
      /\ bufs' = [bufs EXCEPT !.postfile = {p}, !.params = {q}]
      /\ \E left \in Leftovers :
           call' = [file |-> r.name, name |-> r.name \o left, start |-> r.start,
                    size |-> r.size, length |-> 0, stage |-> "size"]
      /\ pc' = "find" /\ cur' = cur /\ answer' = answer
      /\ UNCHANGED <<kept, cache, cells>>
  BY <1>1 DEF HreadBegins, Reads
<1>3. /\ room \in Nat /\ mem \in Heaps /\ mem \in PageHeaps /\ bufs = NoBufs
      /\ Accounted(mem, cache, HeldIn(NoBufs))
  BY <1>2, ReadState
<1>4. HasRoom(w, 1) /\ HasRoom(mem, 1)
  BY <1>1, <1>2, <1>3, RoomLeft
<1>5. w \in Heaps /\ w.used = mem.used \cup {p} /\ p \in Pages \ mem.used
  BY <1>1, <1>3, <1>4, NextTaken, NextPageIs DEF Took, Heaps
<1>6. q \in Pages \ w.used
  BY <1>1, <1>3, <1>4, <1>5, NextPageIs
<1>7. {p, q} \in SUBSET (Pages \ mem.used)
  BY <1>5, <1>6
<1>8. /\ mem' \in PageHeaps /\ Accounted(mem', cache, {} \cup {p, q})
      /\ mem'.lost = mem.lost
  BY <1>2, <1>3, <1>7, HeldParts, StillAccounted
<1>9. bufs' = [params |-> {q}, buffer |-> {}, entry |-> {}, postfile |-> {p}]
  BY <1>2, <1>3 DEF NoBufs
<1>10. bufs' \in Buffers /\ EntryApart(bufs') /\ bufs'.entry = {}
  BY <1>7, <1>9 DEF Buffers, EntryApart
<1>11. HeldIn(bufs') = {p, q}
  BY <1>9, <1>10, HeldParts
<1>12. CallInv'
  <2>1. r \in [name : Names, start : Nat, size : Nat]
    BY InitfsAssumption
  <2>2. PICK left \in Leftovers :
          call' = [file |-> r.name, name |-> r.name \o left, start |-> r.start,
                   size |-> r.size, length |-> 0, stage |-> "size"]
    BY <1>2
  <2>3. r.name \o left \in Names
    BY <2>1, InitfsAssumption DEF Names
  <2>4. call' \in Calls /\ Asked'
    BY <2>1, <2>2, <2>3 DEF Calls, Asked
  <2> QED
    BY <1>2, <2>4 DEF IInv, CallInv
<1>13. pc' \in Reads /\ Accounted(mem', cache, HeldIn(bufs'))
  BY <1>2, <1>8, <1>11 DEF Reads
<1> QED
  BY <1>2, <1>8, <1>10, <1>12, <1>13, ReadStep

LEMMA FindKeeps ==
  ASSUME IInv,
         FindRefused \/ FindCached \/ FindFaults \/ FindNoMemory \/ FindWild
  PROVE  IInv'
<1>1. pc = "find" /\ pc \in Reads /\ pc # "walk"
  BY DEF FindRefused, FindCached, FindFaults, FindNoMemory, FindWild, Missing,
         Reads
<1>2. room \in Nat /\ mem \in Heaps /\ bufs \in Buffers /\ bufs.entry = {}
  BY <1>1, ReadState
<1>3. CASE FindRefused
  BY <1>1, <1>2, <1>3, LeaksNothing, Errors, EndsKeeps DEF FindRefused
<1>4. CASE FindCached
  <2>1. HasRoom(mem, 1) /\ Cached # {} /\ bufs' = bufs
        /\ Found(Finding, cells[Min(Cached) + 1].block)
    BY <1>4 DEF FindCached
  <2>2. PICK b : b = cells[Min(Cached) + 1].block
    OBVIOUS
  <2>3. b \in Nat /\ FoundAt(b)
    BY <1>1, <2>1, <2>2, CachedIs
  <2>4. /\ Finding \in PageHeaps /\ Accounted(Finding, cache, HeldIn(bufs))
        /\ mem.lost \subseteq Finding.lost
    BY <1>1, <2>1, FindingLeaks
  <2> QED
    BY <1>1, <1>2, <2>1, <2>2, <2>3, <2>4, FoundKeeps
<1>5. CASE FindFaults
  <2>1. Stops("fault") /\ ~SearchedMapped
    BY <1>5 DEF FindFaults
  <2>2. Cached = {}
    BY <1>1, <2>1, CachedIs
  <2>3. "fault" \in Stopped \ {"panic"}
    BY DEF Stopped
  <2> QED
    BY <1>1, <2>1, <2>2, <2>3, StopsKeeps
<1>6. CASE FindNoMemory
  <2>1. HasRoom(mem, 1) /\ Ends(Finding, VFS_NOMEM)
    BY <1>6 DEF FindNoMemory, Missing
  <2> QED
    BY <1>1, <2>1, FindingLeaks, Errors, EndsKeeps
<1>7. CASE FindWild
  <2>1. Stops("wild") /\ "wild" \in Stopped \ {"panic"}
    BY <1>7 DEF FindWild, Stopped
  <2> QED
    BY <1>1, <2>1, StopsKeeps
<1> QED
  BY <1>3, <1>4, <1>5, <1>6, <1>7

(* The buffer of get_file_block, from when it is taken.                    *)
LEMMA FindManuallyKeeps ==
  ASSUME IInv, FindManually
  PROVE  IInv'
<1>1. pc = "find" /\ pc \in Reads /\ HasRoom(mem, 1) /\ HasRoom(Finding, 1)
      /\ NonZero # {}
  BY DEF FindManually, Missing, Reads
<1>2. /\ room \in Nat /\ bufs \in Buffers /\ bufs.entry = {} /\ mem \in Heaps
      /\ Leaks(mem, Finding) /\ Finding \in Heaps /\ Finding \in PageHeaps
      /\ Accounted(Finding, cache, HeldIn(bufs)) /\ mem.lost \subseteq Finding.lost
  BY <1>1, ReadState, FindingLeaks
<1>3. PICK f, p, w, start :
        /\ f = Finding /\ p = NextPage(f) /\ w = Took(f, {p})
        /\ start = cells[Max(NonZero) + 1].block
  OBVIOUS
<1>4. /\ w \in Heaps /\ {p} \in SUBSET Nat /\ IsFiniteSet({p}) /\ {p} \cap f.used = {}
      /\ p \in Pages \ f.used
  BY <1>1, <1>2, <1>3, NextTaken, NextPageIs
<1>5. PICK req_read \in BOOLEAN :
        IF req_read /\ Answers(w, start, 1)
        THEN /\ mem' = Handler(w)
             /\ bufs' = [bufs EXCEPT !.entry = {p}]
             /\ cur' = start /\ pc' = "walk"
             /\ UNCHANGED <<kept, cache, cells, call, answer>>
        ELSE LET asked == IF req_read THEN Handler(w) ELSE w
             IN  Ends(Freed(asked, {p}), VFS_DEVERROR)
  BY <1>3 DEF FindManually
<1>6. CASE req_read /\ Answers(w, start, 1)
  <2>1. PICK H, Q : H = HeldIn(bufs) /\ Q = {p}
    OBVIOUS
  <2>2. Accounted(f, cache, H) /\ Q \in SUBSET (Pages \ f.used) /\ f \in PageHeaps
    BY <1>2, <1>3, <1>4, <2>1
  <2>3. /\ w \in PageHeaps /\ Accounted(w, cache, H \cup Q) /\ w.lost = f.lost
    <3>1. /\ Took(f, Q) \in PageHeaps /\ Accounted(Took(f, Q), cache, H \cup Q)
          /\ Took(f, Q).lost = f.lost
      BY <1>2, <2>2, StillAccounted
    <3> QED
      BY <1>3, <2>1, <3>1
  <2>4. Leaks(w, Handler(w))
    BY <1>2, <1>4, HandlerLeaks
  <2>5. /\ Handler(w) \in PageHeaps /\ Accounted(Handler(w), cache, H \cup Q)
        /\ w.lost \subseteq Handler(w).lost
    BY <1>2, <2>3, <2>4, StillAccounted
  <2>6. PICK bs : bs = bufs'
    OBVIOUS
  <2>7. /\ bs.params = bufs.params /\ bs.buffer = bufs.buffer
        /\ bs.postfile = bufs.postfile /\ bs.entry = Q /\ bs \in Buffers
    BY <1>2, <1>4, <1>5, <1>6, <2>1, <2>6 DEF Buffers
  <2>8. HeldIn(bs) = H \cup Q
    BY <1>2, <2>1, <2>7, HeldParts
  <2>9. H \subseteq f.used
    BY <2>2 DEF Accounted
  <2>10. EntryApart(bs)
    BY <1>2, <1>4, <2>1, <2>7, <2>9, HeldParts DEF EntryApart
  <2>11. CallInv'
    <3>1. start \in Headers
      BY <1>1, <1>3, LastEntryIs
    <3>2. Disk' = Disk /\ \A b : Block(b)' = Block(b)
      BY <1>5, <1>6, SameArchive
    <3>3. start \in 0 .. Len(Disk) - 1 /\ Block(start).kind # "data" /\ start \in Nat
      BY <3>1 DEF Headers, IsHeader
    <3>4. cur' \in 0 .. Len(Disk') - 1 /\ Block(cur)'.kind # "data" /\ cur' \in Nat
      BY <1>5, <1>6, <3>2, <3>3
    <3>5. call' = call /\ answer' = answer /\ pc' = "walk"
      BY <1>5, <1>6
    <3>6. call \in Calls /\ answer \in Int /\ Asked /\ Cached = {}
      BY <1>1 DEF IInv, CallInv, FindManually, Missing
    <3>7. Cached' = Cached /\ Asked'
      BY <1>5, <1>6, <3>5, <3>6 DEF Cached, Entries, Asked
    <3> QED
      BY <3>4, <3>5, <3>6, <3>7 DEF CallInv
  <2>12. /\ UNCHANGED <<kept, cache, cells>> /\ pc' = "walk" /\ pc' \in Reads
         /\ mem' = Handler(w)
    BY <1>5, <1>6 DEF Reads
  <2>13. mem.lost \subseteq mem'.lost
    BY <1>2, <1>3, <2>3, <2>5, <2>12
  <2> QED
    BY <1>1, <2>5, <2>6, <2>7, <2>8, <2>10, <2>11, <2>12, <2>13, ReadStep
<1>7. CASE ~(req_read /\ Answers(w, start, 1))
  <2>1. PICK a : a = (IF req_read THEN Handler(w) ELSE w)
    OBVIOUS
  <2>2. Leaks(w, a)
    BY <1>2, <1>4, <2>1, HandlerLeaks, LeaksNothing
  <2>3. Leaks(f, Freed(a, {p}))
    BY <1>2, <1>3, <1>4, <2>2, TakenForAWhile
  <2>4. Leaks(mem, Freed(a, {p}))
    BY <1>2, <1>3, <2>3, LeaksCompose
  <2>5. Ends(Freed(a, {p}), VFS_DEVERROR)
    BY <1>5, <1>7, <2>1
  <2> QED
    BY <1>1, <2>4, <2>5, Errors, EndsKeeps
<1> QED
  BY <1>6, <1>7

(* Held pages may be lost or freed at any time.                            *)
LEMMA HeldGiven ==
  ASSUME NEW m \in PageHeaps, NEW c, NEW H, Accounted(m, c, H), NEW E \in SUBSET H
  PROVE  /\ Lost(m, E) \in PageHeaps /\ Accounted(Lost(m, E), c, H \ E)
         /\ m.lost \subseteq Lost(m, E).lost
         /\ Freed(m, E) \in PageHeaps /\ Accounted(Freed(m, E), c, H \ E)
         /\ Freed(m, E).lost = m.lost
<1>1. m.used \in SUBSET Pages /\ m.lost \in SUBSET Pages
      /\ m \in [used : SUBSET Pages, lost : SUBSET Pages]
  BY DEF PageHeaps
<1>2. E \subseteq m.used
  BY DEF Accounted
<1>3. /\ Freed(m, E) = [used |-> m.used \ E, lost |-> m.lost]
      /\ Lost(m, E) = [used |-> m.used \cup E, lost |-> m.lost \cup E]
  BY <1>1 DEF Freed, Lost
<1>4. Lost(m, E) \in PageHeaps /\ Freed(m, E) \in PageHeaps
  BY <1>1, <1>2, <1>3 DEF PageHeaps
<1>5. Accounted(Lost(m, E), c, H \ E)
  BY <1>2, <1>3 DEF Accounted
<1>6. Accounted(Freed(m, E), c, H \ E)
  BY <1>3 DEF Accounted
<1> QED
  BY <1>3, <1>4, <1>5, <1>6

LEMMA WalkOnKeeps ==
  ASSUME IInv, WalkOn
  PROVE  IInv'
<1>1. pc = "walk" /\ pc \in Reads /\ IsHeader(Block(cur)) /\ Answers(mem, Next1, 1)
  BY DEF WalkOn, Reads
<1>2. PICK n : n = Next1
  OBVIOUS
<1>3. cur \in Headers /\ KeptInv /\ at \in DOMAIN modules
  BY <1>1, ReadState DEF IInv, CallInv, Headers
<1>4. n \in Nat /\ (n < Len(Disk) => Block(n).kind # "data")
  BY <1>2, <1>3, NextHeaderIs DEF Next1
<1>5. n \in 0 .. Len(Disk) - 1 /\ Block(n).kind # "data" /\ Len(Disk) \in Nat
  BY <1>1, <1>2, <1>3, <1>4, DiskIs DEF Answers, InDevice
<1>6. /\ room \in Nat /\ mem \in PageHeaps /\ mem \in Heaps /\ bufs \in Buffers
      /\ Accounted(mem, cache, HeldIn(bufs)) /\ EntryApart(bufs)
  BY <1>1, ReadState
<1>7. PICK h, H, E : h = Handler(mem) /\ H = HeldIn(bufs) /\ E = bufs.entry
  OBVIOUS
<1>8. Leaks(mem, h)
  BY <1>6, <1>7, HandlerLeaks
<1>9. h \in PageHeaps /\ Accounted(h, cache, H) /\ mem.lost \subseteq h.lost
  BY <1>6, <1>7, <1>8, StillAccounted
<1>10. CASE Block(n).name = call.name
  <2>1. /\ Found(Lost(h, E), n) /\ bufs' = [bufs EXCEPT !.entry = {}]
    BY <1>2, <1>7, <1>10 DEF WalkOn, BlockFound
  <2>2. FoundAt(n)
    <3>1. Block(n) \in Blocks /\ n + 1 \in DOMAIN Disk /\ IsArchive(Disk)
      BY <1>3, <1>5, DiskIs
    <3>2. CASE IsHeader(Block(n))
      BY <1>5, <1>10, <3>2 DEF FoundAt, Headers
    <3>3. CASE ~IsHeader(Block(n))
      <4>1. Block(n).kind = "zero"
        BY <1>5, <3>1, <3>3 DEF IsHeader, Blocks
      <4>2. call.name = <<>>
        BY <1>10, <3>1, <4>1 DEF IsArchive, Block
      <4>3. call.stage = "size"
        BY <1>1, <4>2 DEF IInv, CallInv, Asked
      <4> QED
        BY <4>1, <4>2, <4>3 DEF FoundAt
    <3> QED
      BY <3>2, <3>3
  <2>3. PICK bs : bs = bufs'
    OBVIOUS
  <2>4. /\ bs.params = bufs.params /\ bs.buffer = bufs.buffer
        /\ bs.postfile = bufs.postfile /\ bs.entry = {} /\ bs \in Buffers
    BY <1>6, <2>1, <2>3 DEF Buffers
  <2>5. HeldIn(bs) = H \ E /\ E \in SUBSET H
    BY <1>6, <1>7, <2>4, HeldParts DEF EntryApart
  <2>6. /\ Lost(h, E) \in PageHeaps /\ Accounted(Lost(h, E), cache, HeldIn(bs))
        /\ h.lost \subseteq Lost(h, E).lost
    BY <1>9, <2>5, HeldGiven
  <2>7. mem.lost \subseteq Lost(h, E).lost
    BY <1>9, <2>6
  <2> QED
    BY <1>1, <1>4, <2>1, <2>2, <2>3, <2>4, <2>6, <2>7, FoundKeeps
<1>11. CASE Block(n).name # call.name
  <2>1. /\ mem' = h /\ cur' = n
        /\ UNCHANGED <<kept, pc, bufs, cache, cells, call, answer>>
    BY <1>2, <1>7, <1>11 DEF WalkOn
  <2>2. CallInv'
    <3>1. Disk' = Disk /\ \A b : Block(b)' = Block(b)
      BY <2>1, SameArchive
    <3>2. cur' \in 0 .. Len(Disk') - 1 /\ Block(cur)'.kind # "data" /\ cur' \in Nat
      BY <1>4, <1>5, <2>1, <3>1
    <3>3. call' = call /\ answer' = answer /\ pc' = "walk"
      BY <1>1, <2>1
    <3>4. call \in Calls /\ answer \in Int /\ Asked /\ Cached = {}
      BY <1>1 DEF IInv, CallInv
    <3>5. Cached' = Cached /\ Asked'
      BY <2>1, <3>4 DEF Cached, Entries, Asked
    <3> QED
      BY <3>2, <3>3, <3>4, <3>5 DEF CallInv
  <2> QED
    BY <1>1, <1>6, <1>7, <1>9, <2>1, <2>2, ReadStep
<1> QED
  BY <1>10, <1>11

LEMMA WalkEndsKeeps ==
  ASSUME IInv, WalkEnds \/ WalkFails
  PROVE  IInv'
<1>1. pc = "walk" /\ pc \in Reads
  BY DEF WalkEnds, WalkFails, Reads
<1>2. /\ room \in Nat /\ mem \in PageHeaps /\ mem \in Heaps /\ bufs \in Buffers
      /\ Accounted(mem, cache, HeldIn(bufs)) /\ EntryApart(bufs)
      /\ Held = HeldIn(bufs)
  BY <1>1, ReadState
<1>3. PICK h, H, E : h = Handler(mem) /\ H = HeldIn(bufs) /\ E = bufs.entry
  OBVIOUS
<1>4. Leaks(mem, h)
  BY <1>2, <1>3, HandlerLeaks
<1>5. CASE \E n \in {VFS_NOTFOUND, VFS_DEVERROR} : Ends(h, n)
  BY <1>1, <1>4, <1>5, Errors, EndsKeeps
<1>6. CASE ~ \E n \in {VFS_NOTFOUND, VFS_DEVERROR} : Ends(h, n)
  <2>1. /\ mem' = Lost(Freed(h, H \ E), E) /\ bufs' = NoBufs
        /\ answer' = VFS_FSERROR /\ call' = [NoCall EXCEPT !.stage = "done"]
        /\ cur' = 0 /\ pc' = "ready" /\ UNCHANGED <<kept, cache, cells>>
    BY <1>2, <1>3, <1>6 DEF WalkEnds, WalkFails
  <2>2. h \in PageHeaps /\ Accounted(h, cache, H) /\ mem.lost \subseteq h.lost
    BY <1>2, <1>3, <1>4, StillAccounted
  <2>3. E \in SUBSET H
    BY <1>2, <1>3, HeldParts
  <2>4. PICK f : f = Freed(h, H \ E)
    OBVIOUS
  <2>5. PICK F : F = H \ E
    OBVIOUS
  <2>6. Freed(h, F) \in PageHeaps /\ Accounted(Freed(h, F), cache, H \ F)
        /\ Freed(h, F).lost = h.lost
    BY <2>2, <2>5, HeldGiven
  <2>7. f \in PageHeaps /\ Accounted(f, cache, E) /\ f.lost = h.lost
    BY <2>3, <2>4, <2>5, <2>6
  <2>8. /\ Lost(f, E) \in PageHeaps /\ Accounted(Lost(f, E), cache, E \ E)
        /\ f.lost \subseteq Lost(f, E).lost
    BY <2>7, HeldGiven
  <2>9. mem' \in PageHeaps /\ Accounted(mem', cache, {}) /\ mem.lost \subseteq mem'.lost
    BY <2>1, <2>2, <2>4, <2>7, <2>8
  <2>10. CallInv'
    <3>1. call' = [file |-> <<>>, name |-> <<>>, start |-> 0, size |-> 0,
                    length |-> 0, stage |-> "done"]
      BY <2>1 DEF NoCall
    <3>2. call' \in Calls
      BY <3>1 DEF Calls, Names
    <3>3. cur' \in Nat /\ answer' \in Int
      BY <2>1, Errors
    <3> QED
      BY <2>1, <3>2, <3>3 DEF CallInv
  <2>11. pc' \in Reads
    BY <2>1 DEF Reads
  <2> QED
    BY <1>1, <2>1, <2>9, <2>10, <2>11, HeldParts, ReadStep
<1> QED
  BY <1>5, <1>6

LEMMA SizeKeeps ==
  ASSUME IInv, SizeRefused \/ SizeKnown
  PROVE  IInv'
<1>1. pc = "size" /\ pc \in Reads
  BY DEF SizeRefused, SizeKnown, Reads
<1>2. /\ room \in Nat /\ mem \in PageHeaps /\ mem \in Heaps /\ bufs \in Buffers
      /\ Accounted(mem, cache, HeldIn(bufs)) /\ EntryApart(bufs)
      /\ bufs.entry = {} /\ at \in DOMAIN modules
  BY <1>1, ReadState
<1>3. FoundAt(cur) /\ Asked /\ call \in Calls /\ cur \in Nat /\ answer \in Int
  BY <1>1 DEF IInv, CallInv
<1>4. ASSUME HasRoom(mem, 1)
      PROVE  Leaks(mem, Finding) /\ Leaks(mem, Handler(Finding))
  <2>1. Leaks(mem, Finding) /\ Finding \in Heaps
    BY <1>1, <1>4, FindingLeaks
  <2>2. PICK f : f = Finding
    OBVIOUS
  <2>3. Leaks(f, Handler(f))
    BY <1>2, <2>1, <2>2, HandlerLeaks
  <2> QED
    BY <1>2, <2>1, <2>2, <2>3, LeaksCompose
<1>5. CASE SizeRefused
  <2>1. CASE ~HasRoom(mem, 1) /\ Ends(mem, VFS_NOMEM)
    BY <1>1, <1>2, <2>1, LeaksNothing, Errors, EndsKeeps
  <2>2. CASE HasRoom(mem, 1) /\ Ends(Finding, VFS_DEVERROR)
    BY <1>1, <1>4, <2>2, Errors, EndsKeeps
  <2>3. CASE HasRoom(mem, 1) /\ \E n \in {VFS_DEVERROR, VFS_FSERROR} :
               Ends(Handler(Finding), n)
    BY <1>1, <1>4, <2>3, Errors, EndsKeeps
  <2> QED
    BY <1>5, <2>1, <2>2, <2>3 DEF SizeRefused, Finding
<1>6. CASE SizeKnown
  <2>1. HasRoom(mem, 1)
    BY <1>2, <1>6, FS_CardinalityType DEF SizeKnown, HasRoom, Heaps
  <2>2. PICK m : m = Handler(Finding)
    OBVIOUS
  <2>3. Leaks(mem, m)
    BY <1>4, <2>1, <2>2
  <2>4. CASE Ends(m, 0)
    BY <1>1, <2>3, <2>4, EndsKeeps
  <2>5. CASE ~Ends(m, 0)
    <3>1. /\ mem' = m /\ pc' = "find"
          /\ call' = [call EXCEPT !.stage = "read", !.length = Block(cur).size]
          /\ UNCHANGED <<kept, bufs, cache, cells, cur, answer>>
      BY <1>6, <2>2, <2>5 DEF SizeKnown, Finding
    <3>2. m \in PageHeaps /\ Accounted(m, cache, HeldIn(bufs))
          /\ mem.lost \subseteq m.lost
      BY <1>2, <2>3, StillAccounted
    <3>3. Block(cur).size \in Nat /\ Block(cur).kind = "header"
          /\ Block(cur).name # <<>>
      <4>1. Block(cur).kind = "header" /\ cur \in 0 .. Len(Disk) - 1
        BY <1>2, <1>3, <1>6, DiskIs DEF SizeKnown, Answers, InDevice, IInv
      <4>2. Block(cur) \in Blocks /\ IsArchive(Disk) /\ cur + 1 \in DOMAIN Disk
        BY <1>2, <4>1, DiskIs DEF IInv
      <4> QED
        BY <4>1, <4>2 DEF Blocks, IsArchive, IsHeader, Block
    <3>4. call' \in Calls /\ call'.name = call.name /\ call'.file = call.file
          /\ call'.stage = "read"
      BY <1>3, <3>1, <3>3 DEF Calls
    <3>5. CallInv'
      <4>1. call.name = <<>> => Cached # {}
        BY <1>3, <3>3 DEF FoundAt
      <4>2. Cached' = Cached
        BY <3>1, <3>4 DEF Cached, Entries
      <4>3. Asked'
        BY <1>3, <3>4, <4>1, <4>2 DEF Asked
      <4> QED
        BY <1>3, <3>1, <3>4, <4>3 DEF CallInv
    <3>6. pc' \in Reads
      BY <3>1 DEF Reads
    <3> QED
      BY <1>1, <1>2, <3>1, <3>2, <3>5, <3>6, ReadStep
  <2> QED
    BY <2>4, <2>5
<1> QED
  BY <1>5, <1>6

(* The buffer of read_file is a run of free pages, however long.           *)
LEMMA ReadingIs ==
  ASSUME IInv, pc = "read", blocks > 0
  PROVE  /\ toread \in Int /\ BufferPages \in Nat
         /\ Reading \in SUBSET Nat /\ IsFiniteSet(Reading)
         /\ Reading \cap mem.used = {}
<1>1. call \in Calls /\ cur \in Nat
  BY DEF IInv, CallInv
<1>2. call.start \in Nat /\ call.size \in Nat /\ call.length \in Nat
  BY <1>1 DEF Calls
<1>3. toread \in Int
  BY <1>2 DEF toread
<1>4. start_block \in Int /\ end_block \in Int
  BY <1>1, <1>2, <1>3, Sizes DEF start_block, end_block
<1>5. blocks \in Nat
  BY <1>4 DEF blocks
<1>6. BufferPages \in Nat
  <2>1. PICK b, s, p : b = blocks * BlockSize + PageSize - 1 /\ p = PageSize
                        /\ s = blocks * BlockSize
    OBVIOUS
  <2>2. s \in Nat
    BY <1>5, <2>1, Sizes
  <2>3. b \in Nat /\ p \in Nat \ {0}
    BY <2>1, <2>2, Sizes
  <2>4. b \div p \in Nat
    BY <2>3
  <2> QED
    BY <2>1, <2>4 DEF BufferPages
<1>7. room \in Nat /\ mem \in PageHeaps
  BY ReadState DEF Reads
<1>8. PICK n, u : n = BufferPages /\ u = mem.used
  OBVIOUS
<1>9. room \in 0 .. 2 * room + n /\ Run(room, n) \cap u = {}
  BY <1>6, <1>7, <1>8 DEF Run, PageHeaps, Pages
<1>10. /\ FirstRun(u, n) \in 0 .. room /\ Run(FirstRun(u, n), n) \cap u = {}
  BY <1>6, <1>7, <1>8, <1>9, FirstRunIs
<1>11. PICK q \in Nat : q = FirstRun(u, n)
  BY <1>10
<1>12. Run(q, n) \in SUBSET Nat /\ IsFiniteSet(Run(q, n))
  <2>1. q + n - 1 \in Int /\ q \in Int
    BY <1>6, <1>8
  <2>2. IsFiniteSet(q .. q + n - 1)
    BY <2>1, FS_Interval
  <2> QED
    BY <2>1, <2>2 DEF Run
<1> QED
  BY <1>3, <1>6, <1>8, <1>10, <1>11, <1>12 DEF Reading

LEMMA ReadKeeps ==
  ASSUME IInv, ReadNoMemory \/ ReadBlocks \/ ReadOverruns
  PROVE  IInv'
<1>1. pc = "read" /\ pc \in Reads /\ pc # "walk"
  BY DEF ReadNoMemory, ReadBlocks, ReadOverruns, Reads
<1>2. room \in Nat /\ mem \in Heaps
  BY <1>1, ReadState
<1>3. CASE ReadNoMemory
  BY <1>1, <1>2, <1>3, LeaksNothing, Errors, EndsKeeps DEF ReadNoMemory
<1>4. CASE ReadBlocks
  <2>1. PICK T, w : T = Reading /\ w = Took(mem, T)
    OBVIOUS
  <2>2. T \in SUBSET Nat /\ IsFiniteSet(T) /\ T \cap mem.used = {} /\ toread \in Int
    BY <1>1, <1>4, <2>1, ReadingIs DEF ReadBlocks
  <2>3. w \in Heaps
    BY <1>2, <2>1, <2>2, HeapsClosed
  <2>4. Leaks(w, Handler(w))
    BY <1>2, <2>3, HandlerLeaks
  <2>5. Leaks(mem, Freed(Handler(w), T))
    BY <1>2, <2>1, <2>2, <2>4, TakenForAWhile
  <2>6. \/ Ends(Freed(Handler(w), T), toread)
        \/ Ends(Freed(Handler(w), T), VFS_DEVERROR)
    BY <1>4, <2>1 DEF ReadBlocks
  <2> QED
    BY <1>1, <2>2, <2>5, <2>6, Errors, EndsKeeps
<1>5. CASE ReadOverruns
  <2>1. Stops("overrun") /\ "overrun" \in Stopped \ {"panic"}
    BY <1>5 DEF ReadOverruns, Stopped
  <2> QED
    BY <1>1, <2>1, StopsKeeps
<1> QED
  BY <1>3, <1>4, <1>5

LEMMA HreadKeeps ==
  ASSUME IInv, HreadRefused \/ \E r \in Requests : HreadNull(r)
  PROVE  IInv'
<1>1. pc = "ready" /\ pc \in Reads /\ pc # "walk"
  BY DEF HreadRefused, HreadNull, Reads
<1>2. room \in Nat /\ mem \in Heaps
  BY <1>1, ReadState
<1>3. CASE HreadRefused
  BY <1>1, <1>2, <1>3, LeaksNothing, Errors, EndsKeeps DEF HreadRefused
<1>4. CASE \E r \in Requests : HreadNull(r)
  <2>1. "null" \in Stopped \ {"panic"}
    BY DEF Stopped
  <2>2. Ends(mem, VFS_FAILED) \/ Stops("null")
    BY <1>4 DEF HreadNull
  <2> QED
    BY <1>1, <1>2, <2>1, <2>2, LeaksNothing, Errors, EndsKeeps, StopsKeeps
<1> QED
  BY <1>3, <1>4

-----------------------------------------------------------------------------
(* The invariant holds when init_vfs starts.                               *)
LEMMA InitHolds ==
  ASSUME Init
  PROVE  IInv
<1>1. /\ modules \in ModuleSets /\ at = 1 /\ room \in Rooms /\ HeapUsed <= room
      /\ mem = [used |-> Base, lost |-> {}] /\ pc = "identify" /\ bufs = NoBufs
      /\ cache = {} /\ cells = <<>> /\ cur = 0 /\ call = NoCall /\ answer = 0
  BY DEF Init
<1>2. room \in Nat /\ modules \in Seq(Seq(Blocks))
  <2>1. modules \in Seq(Seq(Blocks))
    BY <1>1, InitfsAssumption
  <2> QED
    BY <1>1, <2>1, RoomIsNat
<1>3. KeptInv
  BY <1>1, <1>2 DEF KeptInv
<1>4. HeapInv
  <2>1. Base \subseteq Pages
    BY <1>1, <1>2, Sizes DEF Base, Pages
  <2>2. Held = {} /\ NoBufs \in Buffers /\ EntryApart(NoBufs) /\ NoBufs.entry = {}
    BY <1>1, HeldParts DEF Held, HeldIn
  <2>3. Accounted(mem, cache, Held)
    BY <1>1, <2>2 DEF Accounted
  <2> QED
    BY <1>1, <2>1, <2>2, <2>3 DEF HeapInv, PageHeaps
<1>5. SegmentInv
  <2>1. OneHole(mem)
    <3>1. CASE HeapUsed = 0
      <4>1. Base \cup {0} = 0 .. 0
        BY <3>1 DEF Base
      <4> QED
        BY <1>1, <4>1 DEF OneHole
    <3>2. CASE HeapUsed # 0
      <4>1. HeapUsed - 1 \in Nat /\ Base \cup {0} = 0 .. HeapUsed - 1
        BY <3>2, Sizes DEF Base
      <4> QED
        BY <1>1, <4>1 DEF OneHole
    <3> QED
      BY <3>1, <3>2
  <2>2. MountWritesOwn
    BY <1>1 DEF MountWritesOwn
  <2> QED
    BY <1>1, <2>1, <2>2 DEF SegmentInv
<1>6. CellsInv
  BY <1>1, Sizes DEF CellsInv, CacheFaithful
<1>7. CallInv
  <2>1. call \in Calls
    BY <1>1 DEF NoCall, Calls, Names
  <2> QED
    BY <1>1, <2>1 DEF CallInv
<1> QED
  BY <1>3, <1>4, <1>5, <1>6, <1>7 DEF IInv

(* What is known before the cache is made.                                 *)
LEMMA StartState ==
  ASSUME IInv, pc \in {"identify", "mount", "cache"}
  PROVE  /\ room \in Nat /\ mem \in PageHeaps /\ mem \in Heaps /\ bufs \in Buffers
         /\ Held = HeldIn(bufs) /\ Accounted(mem, cache, Held)
         /\ EntryApart(bufs) /\ bufs.entry = {}
         /\ pc # "cache" => bufs = NoBufs /\ Held = {} /\ cache = {} /\ cells = <<>>
<1>1. Held = HeldIn(bufs) /\ room \in Nat
  BY RoomIsNat DEF Held, HeldIn, IInv, KeptInv
<1>2. mem \in PageHeaps /\ Accounted(mem, cache, Held)
  BY DEF IInv, HeapInv
<1>3. mem \in Heaps
  BY <1>1, <1>2, StillAccounted
<1>4. pc # "cache" => bufs = NoBufs /\ cache = {} /\ cells = <<>>
  BY DEF IInv, HeapInv, SegmentInv
<1> QED
  BY <1>1, <1>2, <1>3, <1>4, HeldParts DEF IInv, HeapInv

LEMMA TryModuleKeeps ==
  ASSUME IInv, TryModule
  PROVE  IInv'
<1>1. /\ pc = "identify" /\ at <= Len(modules) /\ mem' = Identified(mem)
      /\ pc' \in {"identify", "mount"}
      /\ pc' = "mount" => at' = at
      /\ at' \in {at, at + 1}
      /\ UNCHANGED <<modules, room, bufs, cache, cells, cur, call, answer>>
  BY DEF TryModule
<1>2. /\ room \in Nat /\ mem \in PageHeaps /\ mem \in Heaps /\ bufs = NoBufs
      /\ Held = {} /\ Accounted(mem, cache, Held) /\ cache = {} /\ cells = <<>>
  BY <1>1, StartState
<1>3. PICK m : m = Identified(mem)
  OBVIOUS
<1>4. Leaks(mem, m)
  BY <1>2, <1>3, IdentifiedLeaks
<1>5. m \in PageHeaps /\ Accounted(m, cache, {}) /\ mem.lost \subseteq m.lost
  BY <1>2, <1>4, StillAccounted
<1>6. modules \in Seq(Seq(Blocks)) /\ at \in 1 .. Len(modules)
  <2>1. modules \in Seq(Seq(Blocks))
    BY InitfsAssumption DEF IInv, KeptInv
  <2> QED
    BY <1>1, <2>1 DEF IInv, KeptInv
<1>7. KeptInv'
  BY <1>1, <1>2, <1>6 DEF IInv, KeptInv
<1>8. HeapInv'
  <2>1. Pages' = Pages /\ PageHeaps' = PageHeaps /\ Buffers' = Buffers
        /\ Held' = Held /\ bufs' = NoBufs
    BY <1>1, <1>2 DEF Pages, PageHeaps, Buffers, Held
  <2> QED
    BY <1>1, <1>2, <1>3, <1>5, <2>1, HeldParts DEF HeapInv
<1>9. SegmentInv'
  <2>1. OneHole(mem')
    BY <1>1, <1>2, IdentifiedHole DEF IInv, SegmentInv
  <2>2. cells' = <<>> /\ cache' = {} /\ cur' = 0 /\ pc' # "cache"
    BY <1>1, <1>2 DEF IInv, SegmentInv
  <2>3. MountWritesOwn'
    BY <2>2 DEF MountWritesOwn
  <2> QED
    BY <2>1, <2>2, <2>3 DEF SegmentInv
<1>10. CellsInv'
  BY <1>1, <1>2, Sizes DEF IInv, CellsInv, CacheFaithful
<1>11. CallInv'
  BY <1>1 DEF IInv, CallInv
<1> QED
  BY <1>7, <1>8, <1>9, <1>10, <1>11 DEF IInv

(* A failure before the file system is mounted is a panic.                 *)
LEMMA PanicKeeps ==
  ASSUME IInv, pc \in {"identify", "mount", "cache"}, pc' = "panic",
         mem' \in PageHeaps, UNCHANGED <<kept, bufs, cache, cells, cur, call, answer>>
  PROVE  IInv'
<1>1. /\ modules' = modules /\ at' = at /\ room' = room /\ cache' = cache
      /\ cells' = cells /\ bufs' = bufs /\ cur' = cur /\ call' = call
      /\ answer' = answer
  BY DEF kept
<1>2. KeptInv'
  <2>1. at \in DOMAIN modules \/ cells = <<>>
    BY DEF IInv, KeptInv
  <2> QED
    BY <1>1, <2>1 DEF IInv, KeptInv
<1>3. HeapInv'
  <2>1. Pages' = Pages /\ PageHeaps' = PageHeaps /\ Buffers' = Buffers
    BY <1>1 DEF Pages, PageHeaps, Buffers
  <2>2. bufs.entry = {} /\ bufs \in Buffers /\ cache \subseteq Pages
    BY DEF IInv, HeapInv
  <2> QED
    BY <1>1, <2>1, <2>2 DEF HeapInv
<1>4. SegmentInv'
  BY DEF SegmentInv, MountWritesOwn
<1>5. CellsInv'
  <2>1. Headers' = Headers /\ \A b : Block(b)' = Block(b)
    BY <1>1 DEF Headers, Block, Disk
  <2> QED
    BY <1>1, <2>1 DEF IInv, CellsInv, CacheFaithful
<1>6. CallInv'
  BY <1>1 DEF IInv, CallInv, Stopped
<1> QED
  BY <1>2, <1>3, <1>4, <1>5, <1>6 DEF IInv

LEMMA FailsKeep ==
  ASSUME IInv, NoInitrd \/ MountFails \/ CacheFails
  PROVE  IInv'
<1>1. /\ pc \in {"identify", "mount", "cache"} /\ pc' = "panic"
      /\ UNCHANGED <<kept, bufs, cache, cells, cur, call, answer>>
  BY DEF NoInitrd, MountFails, CacheFails
<1>2. /\ room \in Nat /\ mem \in PageHeaps /\ mem \in Heaps
      /\ Accounted(mem, cache, Held)
  BY <1>1, StartState
<1>3. \A m : Leaks(mem, m) => m \in PageHeaps
  BY <1>2, StillAccounted
<1>4. CASE NoInitrd
  BY <1>1, <1>2, <1>4, PanicKeeps DEF NoInitrd
<1>5. CASE MountFails
  <2>1. PICK l, m : l = Mounting /\ m = Identified(l)
    OBVIOUS
  <2>2. mem' = IF ~HasRoom(mem, 1) THEN mem
               ELSE IF Identifies(Mounting) /\ HasRoom(m, 1)
               THEN Lost(m, {NextPage(m)}) ELSE m
    BY <1>5, <2>1 DEF MountFails
  <2>3. CASE ~HasRoom(mem, 1)
    BY <1>1, <1>2, <2>2, <2>3, PanicKeeps
  <2>4. CASE HasRoom(mem, 1)
    <3>1. Leaks(mem, l)
      BY <1>2, <2>1, <2>4, LostNext DEF Mounting
    <3>2. l \in Heaps
      BY <1>2, <3>1, LeaksHeap
    <3>3. Leaks(l, m) /\ m \in Heaps
      BY <1>2, <2>1, <3>2, IdentifiedLeaks
    <3>4. Leaks(mem, m)
      BY <1>2, <3>1, <3>3, LeaksCompose
    <3>5. HasRoom(m, 1) => Leaks(m, Lost(m, {NextPage(m)}))
      BY <1>2, <3>3, LostNext
    <3>6. HasRoom(m, 1) => Leaks(mem, Lost(m, {NextPage(m)}))
      BY <1>2, <3>4, <3>5, LeaksCompose
    <3>7. mem' \in PageHeaps
      BY <1>3, <2>2, <2>4, <3>4, <3>6
    <3> QED
      BY <1>1, <3>7, PanicKeeps
  <2> QED
    BY <2>3, <2>4
<1>6. CASE CacheFails
  <2>1. PICK h, T, w, s : /\ h = Handler(mem) /\ T = {NextPage(h)}
                          /\ w = Took(h, T) /\ s = Freed(Handler(w), T)
    OBVIOUS
  <2>2. PICK x, S : /\ (x = s /\ HasRoom(h, 1)) \/ x = h
                    /\ mem' = Freed(x, S)
    <3>1. TestPage = NextPage(h)
      BY <2>1 DEF TestPage
    <3>2. \E test \in {{}} \cup {{p} : p \in mem.used} :
            mem' = Freed(IF Answers(mem, cur, 1) /\ Block(cur).kind = "zero"
                              /\ HasRoom(h, 1) THEN s ELSE h,
                         Held \cup cache \cup test)
      BY <1>6, <2>1, <3>1 DEF CacheFails
    <3> QED
      BY <3>2
  <2>3. Leaks(mem, h) /\ h \in Heaps
    BY <1>2, <2>1, HandlerLeaks
  <2>4. ASSUME HasRoom(h, 1) PROVE Leaks(mem, s)
    <3>1. /\ w \in Heaps /\ T \in SUBSET Nat /\ IsFiniteSet(T) /\ T \cap h.used = {}
      BY <1>2, <2>1, <2>3, <2>4, NextTaken
    <3>2. Leaks(w, Handler(w))
      BY <1>2, <3>1, HandlerLeaks
    <3>3. Leaks(h, s)
      BY <1>2, <2>1, <2>3, <3>1, <3>2, TakenForAWhile
    <3> QED
      BY <1>2, <2>3, <3>3, LeaksCompose
  <2>5. x \in PageHeaps
    BY <1>3, <2>2, <2>3, <2>4
  <2>6. Freed(x, S) \in PageHeaps
    <3>1. Freed(x, S) = [used |-> x.used \ S, lost |-> x.lost]
      BY <2>5 DEF Freed, PageHeaps
    <3>2. x.used \in SUBSET Pages /\ x.lost \in SUBSET Pages
      BY <2>5 DEF PageHeaps
    <3> QED
      BY <3>1, <3>2 DEF PageHeaps
  <2> QED
    BY <1>1, <2>2, <2>6, PanicKeeps
<1> QED
  BY <1>4, <1>5, <1>6

(* mount has its three buffers: the cache is the last page in use, and     *)
(* there is no hole before it.                                             *)
LEMMA MountBeginsKeeps ==
  ASSUME IInv, MountBegins
  PROVE  IInv'
<1>1. pc = "mount" /\ CanMount
  BY DEF MountBegins
<1>2. /\ room \in Nat /\ mem \in PageHeaps /\ mem \in Heaps /\ bufs = NoBufs
      /\ Held = {} /\ Accounted(mem, {}, {}) /\ cache = {} /\ cells = <<>>
      /\ OneHole(mem) /\ cur = 0
  BY <1>1, StartState DEF IInv, SegmentInv
<1>3. PICK l, m, p, w, q, v, a :
        /\ l = Mounting /\ m = Identified(l)
        /\ p = NextPage(m) /\ w = Took(m, {p})
        /\ q = NextPage(w) /\ v = Took(m, {p, q}) /\ a = NextPage(v)
  OBVIOUS
<1>4. HasRoom(mem, 1) /\ Identifies(l) /\ HasRoom(m, 3)
  BY <1>1, <1>3 DEF CanMount
<1>5. /\ mem' = Took(m, {p, q, a}) /\ cache' = {a}
      /\ bufs' = [bufs EXCEPT !.params = {p}, !.buffer = {q}]
      /\ pc' = "cache" /\ UNCHANGED <<kept, cells, cur, call, answer>>
  BY <1>3 DEF MountBegins
<1>6. Leaks(mem, l) /\ l = Lost(mem, {NextPage(mem)})
  BY <1>2, <1>3, <1>4, LostNext DEF Mounting
<1>7. l \in Heaps
  BY <1>2, <1>6, LeaksHeap
<1>8. PICK k \in Nat : l.used = 0 .. k
  BY <1>2, <1>4, <1>6, FillsHole DEF Lost
<1>9. m.used = (0 .. k) \cup {k + 2}
  BY <1>2, <1>3, <1>4, <1>7, <1>8, IdentifiedFull
<1>10. Leaks(l, m) /\ m \in Heaps
  BY <1>2, <1>3, <1>7, IdentifiedLeaks
<1>11. m \in PageHeaps /\ Accounted(m, {}, {})
  <2>1. Leaks(mem, m)
    BY <1>2, <1>6, <1>10, LeaksCompose
  <2> QED
    BY <1>2, <2>1, StillAccounted
<1>12. HasRoom(m, 1) /\ HasRoom(w, 2)
  <2>1. HasRoom(m, 2 + 1)
    BY <1>4
  <2> QED
    BY <1>2, <1>3, <1>10, <2>1, RoomLeft
<1>13. w \in Heaps /\ w.used = 0 .. k + 2 /\ p = k + 1 /\ p \in Pages
  <2>1. p \in Pages \ m.used /\ \A i \in 0 .. p - 1 : i \in m.used
    BY <1>2, <1>3, <1>10, <1>12, NextPageIs
  <2>2. p \in Nat
    BY <2>1 DEF Pages
  <2>3. k + 1 \notin m.used
    BY <1>9
  <2>4. ~(k + 1 < p)
    <3>1. k + 1 < p => k + 1 \in 0 .. p - 1
      BY <2>2
    <3> QED
      BY <2>1, <2>3, <3>1
  <2>5. ~(p < k + 1)
    <3>1. p < k + 1 => p \in 0 .. k
      BY <2>2
    <3> QED
      BY <1>9, <2>1, <3>1
  <2>6. p = k + 1
    BY <2>2, <2>4, <2>5
  <2>7. w \in Heaps /\ w.used = m.used \cup {p}
    BY <1>2, <1>3, <1>10, <1>12, NextTaken DEF Took, Heaps
  <2> QED
    BY <1>9, <2>1, <2>6, <2>7
<1>14. v = Took(w, {q})
  <2>1. m.used \cup {p} \cup {q} = m.used \cup {p, q}
    OBVIOUS
  <2> QED
    BY <1>3, <1>10, <1>13, <2>1 DEF Took, Heaps
<1>15. HasRoom(w, 1) /\ HasRoom(v, 1)
  <2>1. PICK n \in Nat : n = 1
    OBVIOUS
  <2>2. HasRoom(w, n + 1) /\ n >= 1
    BY <1>12, <2>1
  <2>3. HasRoom(Took(w, {NextPage(w)}), n) /\ HasRoom(w, 1)
    BY <1>2, <1>13, <2>2, RoomLeft
  <2> QED
    BY <1>3, <1>14, <2>1, <2>3
<1>16. v \in Heaps /\ v.used = 0 .. k + 3 /\ q = k + 3 /\ q \in Pages
  <2>1. PICK i \in Nat : i = k + 2
    OBVIOUS
  <2>2. q = i + 1 /\ i + 1 \in Pages /\ w.used \cup {q} = 0 .. i + 1
    BY <1>2, <1>3, <1>13, <1>15, <2>1, NextAfterFull
  <2>3. v \in Heaps /\ v.used = w.used \cup {q}
    BY <1>2, <1>3, <1>13, <1>14, <1>15, NextTaken DEF Took, Heaps
  <2> QED
    BY <2>1, <2>2, <2>3
<1>17. a = k + 4 /\ a \in Pages /\ v.used \cup {a} = 0 .. k + 4
  <2>1. PICK i \in Nat : i = k + 3
    OBVIOUS
  <2>2. a = i + 1 /\ i + 1 \in Pages /\ v.used \cup {a} = 0 .. i + 1
    BY <1>2, <1>3, <1>15, <1>16, <2>1, NextAfterFull
  <2> QED
    BY <2>1, <2>2
<1>18. /\ mem'.used = m.used \cup {p, q, a} /\ mem'.lost = m.lost
       /\ mem' \in [used : SUBSET Pages, lost : SUBSET Pages]
  BY <1>5, <1>11, <1>13, <1>16, <1>17 DEF Took, PageHeaps
<1>19. mem'.used = 0 .. a
  <2>1. m.used \cup {p, q, a} = v.used \cup {a}
    BY <1>3, <1>10 DEF Took, Heaps
  <2> QED
    BY <1>17, <1>18, <2>1
<1>20. PICK bs : bs = bufs'
  OBVIOUS
<1>21. bs = [params |-> {p}, buffer |-> {q}, entry |-> {}, postfile |-> {}]
  BY <1>2, <1>5, <1>20 DEF NoBufs
<1>22. bs \in Buffers /\ EntryApart(bs) /\ bs.entry = {}
  BY <1>13, <1>16, <1>21 DEF Buffers, EntryApart
<1>23. HeldIn(bs) = {p, q}
  BY <1>21, <1>22, HeldParts
<1>24. /\ modules' = modules /\ at' = at /\ room' = room /\ cells' = cells
       /\ cur' = cur /\ call' = call /\ answer' = answer
  BY <1>5 DEF kept
<1>25. KeptInv'
  BY <1>1, <1>24, <1>5 DEF IInv, KeptInv
<1>26. HeapInv'
  <2>1. Pages' = Pages /\ PageHeaps' = PageHeaps /\ Buffers' = Buffers
        /\ Held' = HeldIn(bs)
    BY <1>20, <1>24 DEF Pages, PageHeaps, Buffers, Held, HeldIn
  <2>2. Accounted(mem', {a}, {p, q})
    <3>1. p \notin m.used /\ q \notin m.used /\ a \notin m.used /\ a # p /\ a # q
      BY <1>9, <1>13, <1>16, <1>17
    <3> QED
      BY <1>11, <1>18, <3>1 DEF Accounted
  <2> QED
    BY <1>5, <1>17, <1>18, <1>20, <1>22, <1>23, <2>1, <2>2 DEF HeapInv, PageHeaps
<1>27. SegmentInv'
  <2>1. Len(cells') = 0 /\ cells' = <<>>
    BY <1>2, <1>24
  <2>2. LeftBehind(a)'
    <3>1. (a + 1 .. a + 0) = {} /\ a + 0 = a /\ a \in Nat
      BY <1>17
    <3> QED
      BY <1>5, <1>19, <2>1, <3>1 DEF LeftBehind
  <2>3. a \in Nat
    BY <1>17
  <2>4. MountWritesOwn'
    BY <2>1 DEF MountWritesOwn
  <2> QED
    BY <1>5, <2>2, <2>3, <2>4 DEF SegmentInv
<1>28. CellsInv'
  <2>1. cells' = <<>> /\ cur' = 0
    BY <1>2, <1>24
  <2>2. Before(cur)' = {}
    BY <2>1 DEF Before, Headers
  <2>3. Cardinality(Before(cur)') = 0
    BY <2>2, FS_EmptySet
  <2> QED
    BY <2>1, <2>3, Sizes DEF CellsInv, CacheFaithful
<1>29. CallInv'
  BY <1>5, <1>24 DEF IInv, CallInv
<1> QED
  BY <1>25, <1>26, <1>27, <1>28, <1>29 DEF IInv

(* Every entry lies in the cache or in a page its own request, or an       *)
(* earlier one, has left behind.                                           *)
LEMMA EntriesLieBehind ==
  ASSUME NEW a \in Nat, LeftBehind(a), cells \in Seq([name : Names, block : Nat])
  PROVE  \A i \in 0 .. Len(cells) : CellPages(i) \subseteq cache \cup mem.lost
<1> SUFFICES ASSUME NEW i \in 0 .. Len(cells)
             PROVE  CellPages(i) \subseteq cache \cup mem.lost
  OBVIOUS
<1>1. Len(cells) \in Nat /\ i \in Nat /\ cache = {a}
      /\ a + 1 .. a + Len(cells) \subseteq mem.lost
  BY DEF LeftBehind
<1>2. CellPages(i) \subseteq a .. a + i
  BY <1>1, CellLiesIn
<1>3. a .. a + i \subseteq {a} \cup (a + 1 .. a + Len(cells))
  BY <1>1
<1> QED
  BY <1>1, <1>2, <1>3

LEMMA HeadersFinite ==
  ASSUME KeptInv, at \in DOMAIN modules, NEW b
  PROVE  IsFiniteSet(Before(b)) /\ Cardinality(Before(b)) \in Nat
<1>1. Len(Disk) \in Nat
  BY DiskIs
<1>2. IsFiniteSet(0 .. Len(Disk) - 1)
  BY <1>1, FS_Interval
<1>3. Before(b) \in SUBSET (0 .. Len(Disk) - 1)
  BY DEF Before, Headers
<1> QED
  BY <1>2, <1>3, FS_Subset, FS_CardinalityType

LEMMA CacheEntryKeeps ==
  ASSUME IInv, CacheEntry
  PROVE  IInv'
<1>1. /\ pc = "cache" /\ CanCache /\ mem' = Handler(mem)
      /\ cells' = Append(cells, [name |-> Block(cur).name, block |-> cur])
      /\ cur' = NextHeader(cur, Block(cur).size)
      /\ UNCHANGED <<kept, pc, bufs, cache, call, answer>>
  BY DEF CacheEntry
<1>2. /\ room \in Nat /\ mem \in PageHeaps /\ mem \in Heaps /\ bufs \in Buffers
      /\ Accounted(mem, cache, Held) /\ EntryApart(bufs) /\ bufs.entry = {}
      /\ cells \in Seq([name : Names, block : Nat]) /\ cur \in Nat
      /\ KeptInv /\ at \in DOMAIN modules /\ Cardinality(Before(cur)) = Len(cells)
  BY <1>1, StartState DEF IInv, CellsInv, CallInv, KeptInv
<1>3. PICK a \in Nat : LeftBehind(a)
  BY <1>1 DEF IInv, SegmentInv
<1>4. PICK n, x, h : n = Len(cells) /\ h = Handler(mem)
                     /\ x = [name |-> Block(cur).name, block |-> cur]
  OBVIOUS
<1>5. n \in Nat /\ n < NEntries /\ HasRoom(mem, 1) /\ InDevice(cur, 1)
      /\ Block(cur).kind = "header"
  BY <1>1, <1>2, <1>4 DEF CanCache, Answers
<1>6. cur \in Headers /\ Block(cur) \in Blocks
  <2>1. cur \in 0 .. Len(Disk) - 1
    BY <1>2, <1>5, DiskIs DEF InDevice
  <2> QED
    BY <1>2, <1>5, <2>1, DiskIs DEF Headers, IsHeader
<1>7. /\ modules' = modules /\ at' = at /\ room' = room /\ bufs' = bufs /\ pc' = pc
      /\ cache' = cache /\ call' = call /\ answer' = answer
  BY <1>1 DEF kept
<1>8. Headers' = Headers /\ \A b : Block(b)' = Block(b)
  BY <1>1, SameArchive
<1>9. cells' \in Seq([name : Names, block : Nat]) /\ Len(cells') = n + 1
      /\ cells'[n + 1] = x /\ \A i \in 1 .. n : cells'[i] = cells[i]
  <2>1. x \in [name : Names, block : Nat]
    BY <1>2, <1>4, <1>6 DEF Blocks, Names
  <2> QED
    BY <1>1, <1>2, <1>4, <2>1
<1>10. h = Lost(mem, {NextPage(mem)}) /\ Leaks(mem, h)
  BY <1>2, <1>4, <1>5, HandlerLeaks DEF Handler
<1>11. h \in PageHeaps /\ Accounted(h, cache, Held) /\ mem.lost \subseteq h.lost
  BY <1>2, <1>10, StillAccounted
<1>12. HeapInv'
  <2>1. Pages' = Pages /\ PageHeaps' = PageHeaps /\ Buffers' = Buffers /\ Held' = Held
    BY <1>7 DEF Pages, PageHeaps, Buffers, Held
  <2> QED
    BY <1>1, <1>2, <1>4, <1>7, <1>11, <2>1 DEF HeapInv, IInv
<1>13. LeftBehind(a)'
  <2>1. PICK k \in Nat : k = a + n
    BY <1>5
  <2>2. mem.used = 0 .. k /\ a + 1 .. k \subseteq mem.lost /\ cache = {a}
    BY <1>3, <1>4, <2>1 DEF LeftBehind
  <2>3. NextPage(mem) = k + 1 /\ mem.used \cup {NextPage(mem)} = 0 .. k + 1
    BY <1>2, <1>5, <2>2, NextAfterFull
  <2>4. h.used = 0 .. k + 1 /\ h.lost = mem.lost \cup {k + 1}
    BY <1>10, <2>3 DEF Lost
  <2>5. a + 1 .. k + 1 \subseteq h.lost
    <3>1. a + 1 .. k + 1 \subseteq (a + 1 .. k) \cup {k + 1}
      OBVIOUS
    <3> QED
      BY <2>2, <2>4, <3>1
  <2>6. k + 1 = a + Len(cells')
    BY <1>5, <1>9, <2>1
  <2> QED
    BY <1>1, <1>4, <1>7, <2>2, <2>4, <2>5, <2>6 DEF LeftBehind
<1>14. SegmentInv'
  <2>1. \A i \in 0 .. n : CellPages(i) \subseteq cache \cup mem.lost
    BY <1>2, <1>3, <1>4, EntriesLieBehind
  <2>2. MountWritesOwn'
    <3>1. \A i : CellPages(i)' = CellPages(i)
      BY <1>7 DEF CellPages, CellStart, CacheSize
    <3>2. 0 .. Len(cells') - 1 = 0 .. n
      BY <1>5, <1>9
    <3> QED
      BY <1>1, <1>4, <1>7, <1>11, <2>1, <3>1, <3>2 DEF MountWritesOwn
  <2> QED
    BY <1>1, <1>7, <1>13, <2>2 DEF SegmentInv
<1>15. CellsInv'
  <2>1. PICK b : b = cur'
    OBVIOUS
  <2>2. b \in Nat /\ cur < b /\ \A c \in Headers : ~(cur < c /\ c < b)
    BY <1>1, <1>2, <1>6, <2>1, NextHeaderIs
  <2>3. Before(b) = Before(cur) \cup {cur} /\ cur \notin Before(cur)
    <3>1. \A c \in Headers : c \in Nat
      BY DEF Headers
    <3> QED
      <4>1. ASSUME NEW c \in Headers
            PROVE  c < b <=> c < cur \/ c = cur
        <5>1. c \in Nat /\ ~(cur < c /\ c < b)
          BY <2>2, <3>1
        <5> QED
          BY <1>2, <2>2, <5>1
      <4>2. cur < cur <=> FALSE
        BY <1>2
      <4> QED
        BY <1>6, <4>1, <4>2 DEF Before
  <2>4. Cardinality(Before(b)) = n + 1
    BY <1>2, <1>4, <2>3, HeadersFinite, FS_AddElement
  <2>5. Before(cur)' = Before(b)
    BY <1>8, <2>1 DEF Before
  <2>6. CacheFaithful'
    <3>1. ASSUME NEW i \in 1 .. Len(cells'), cells'[i] # EmptyCell
          PROVE  /\ cells'[i].block \in Headers
                 /\ Block(cells'[i].block).name = cells'[i].name
                 /\ Cardinality({c \in Headers : c < cells'[i].block}) = i - 1
      <4>1. CASE i \in 1 .. n
        BY <1>4, <1>9, <3>1, <4>1 DEF IInv, CellsInv, CacheFaithful
      <4>2. CASE i = n + 1
        <5>1. cells'[i].block = cur /\ cells'[i].name = Block(cur).name
          BY <1>4, <1>9, <4>2
        <5> QED
          BY <1>2, <1>4, <1>5, <1>6, <4>2, <5>1 DEF Before
      <4> QED
        BY <1>5, <1>9, <4>1, <4>2
    <3> QED
      BY <1>8, <3>1 DEF CacheFaithful, EmptyCell
  <2>7. Len(cells') <= NEntries
    BY <1>5, <1>9, Sizes
  <2> QED
    BY <1>9, <2>4, <2>5, <2>6, <2>7, Sizes DEF CellsInv
<1>16. CallInv'
  <2>1. cur' \in Nat
    BY <1>1, <1>2, <1>6, NextHeaderIs
  <2> QED
    BY <1>1, <1>7, <2>1 DEF IInv, CallInv
<1>17. KeptInv'
  BY <1>1, <1>2, <1>7 DEF KeptInv
<1> QED
  BY <1>12, <1>14, <1>15, <1>16, <1>17 DEF IInv

(* hmount ends with success.                                               *)
LEMMA MountedKeeps ==
  ASSUME IInv, pc = "cache", NEW m, Leaks(mem, m), Mounted(m)
  PROVE  IInv'
<1>1. /\ mem' = Freed(m, Held) /\ bufs' = NoBufs /\ pc' = "ready"
      /\ cells' = Append(cells, EmptyCell)
      /\ UNCHANGED <<kept, cache, cur, call, answer>>
  BY DEF Mounted
<1>2. /\ room \in Nat /\ mem \in PageHeaps /\ mem \in Heaps
      /\ Accounted(mem, cache, Held)
      /\ cells \in Seq([name : Names, block : Nat]) /\ Len(cells) <= NEntries
      /\ KeptInv /\ at \in DOMAIN modules /\ cur \in Nat
  BY StartState DEF IInv, CellsInv, KeptInv, CallInv
<1>3. PICK a \in Nat : LeftBehind(a)
  BY DEF IInv, SegmentInv
<1>4. m \in PageHeaps /\ Accounted(m, cache, Held) /\ mem.lost \subseteq m.lost
  BY <1>2, StillAccounted
<1>5. PICK H : H = Held
  OBVIOUS
<1>6. /\ Freed(m, H) \in PageHeaps /\ Accounted(Freed(m, H), cache, {})
      /\ Freed(m, H).lost = m.lost
  BY <1>2, <1>4, <1>5, StillAccounted
<1>7. /\ modules' = modules /\ at' = at /\ room' = room
      /\ cache' = cache /\ call' = call /\ answer' = answer /\ cur' = cur
  BY <1>1 DEF kept
<1>8. PICK n \in Nat : n = Len(cells)
  BY <1>2
<1>9. cells' \in Seq([name : Names, block : Nat]) /\ Len(cells') = n + 1
      /\ cells'[n + 1] = EmptyCell /\ \A i \in 1 .. n : cells'[i] = cells[i]
  <2>1. EmptyCell \in [name : Names, block : Nat]
    BY DEF EmptyCell, Names
  <2> QED
    BY <1>1, <1>2, <1>8, <2>1
<1>10. KeptInv'
  BY <1>2, <1>7 DEF KeptInv
<1>11. HeapInv'
  <2>1. Pages' = Pages /\ PageHeaps' = PageHeaps /\ Buffers' = Buffers /\ Held' = {}
    BY <1>1, <1>7, HeldParts DEF Pages, PageHeaps, Buffers, Held, HeldIn
  <2> QED
    BY <1>1, <1>5, <1>6, <1>7, <2>1, HeldParts DEF HeapInv, IInv
<1>12. SegmentInv'
  <2>1. \A i \in 0 .. n : CellPages(i) \subseteq cache \cup mem.lost
    BY <1>2, <1>3, <1>8, EntriesLieBehind
  <2>2. \A i : CellPages(i)' = CellPages(i)
    BY <1>7 DEF CellPages, CellStart, CacheSize
  <2>3. 0 .. Len(cells') - 1 = 0 .. n
    BY <1>9
  <2>4. MountWritesOwn'
    BY <1>1, <1>4, <1>5, <1>6, <1>7, <2>1, <2>2, <2>3 DEF MountWritesOwn
  <2> QED
    BY <1>1, <2>4 DEF SegmentInv
<1>13. CellsInv'
  <2>1. Headers' = Headers /\ \A b : Block(b)' = Block(b)
    BY <1>1, SameArchive
  <2>2. CacheFaithful'
    <3>1. ASSUME NEW i \in 1 .. Len(cells'), cells'[i] # EmptyCell
          PROVE  i \in 1 .. n /\ cells'[i] = cells[i]
      BY <1>9, <3>1
    <3> QED
      BY <1>8, <2>1, <3>1 DEF IInv, CellsInv, CacheFaithful, EmptyCell
  <2>3. Len(cells') <= NEntries + 1
    BY <1>2, <1>8, <1>9, Sizes
  <2> QED
    BY <1>1, <1>9, <2>2, <2>3 DEF CellsInv
<1>14. CallInv'
  BY <1>1, <1>7 DEF IInv, CallInv
<1> QED
  BY <1>10, <1>11, <1>12, <1>13, <1>14 DEF IInv

LEMMA CacheEndsKeeps ==
  ASSUME IInv, CacheEnds \/ CacheFull
  PROVE  IInv'
<1>1. pc = "cache"
  BY DEF CacheEnds, CacheFull
<1>2. room \in Nat /\ mem \in Heaps
  BY <1>1, StartState
<1>3. CASE CacheFull
  BY <1>1, <1>2, <1>3, LeaksNothing, MountedKeeps DEF CacheFull
<1>4. CASE CacheEnds
  <2>1. HasRoom(mem, 3) /\ Mounted(Handler(Lost(Handler(mem), {TestPage})))
    BY <1>4 DEF CacheEnds, CanEnd
  <2>2. PICK h, l, g : h = Handler(mem) /\ l = Lost(h, {NextPage(h)})
                       /\ g = Handler(l)
    OBVIOUS
  <2>3. Leaks(mem, h) /\ h \in Heaps
    BY <1>2, <2>2, HandlerLeaks
  <2>4. HasRoom(h, 1)
    <3>1. Cardinality(mem.used) \in Nat /\ IsFiniteSet(mem.used)
      BY <1>2, FS_CardinalityType DEF Heaps
    <3>2. HasRoom(mem, 1)
      BY <1>2, <2>1, <3>1 DEF HasRoom
    <3>3. h.used = mem.used \cup {NextPage(mem)}
      BY <2>2, <3>2 DEF Handler, Lost
    <3>4. Cardinality(h.used) <= Cardinality(mem.used) + 1
          /\ Cardinality(h.used) \in Nat
      <4>1. PICK u, p : u = mem.used /\ p = NextPage(mem)
        OBVIOUS
      <4>2. Cardinality(u \cup {p}) = IF p \in u THEN Cardinality(u) ELSE Cardinality(u) + 1
        BY <3>1, <4>1, FS_AddElement
      <4> QED
        BY <3>1, <3>3, <4>1, <4>2
    <3> QED
      BY <1>2, <2>1, <3>1, <3>4 DEF HasRoom
  <2>5. Leaks(h, l) /\ l \in Heaps
    BY <1>2, <2>2, <2>3, <2>4, LostNext, LeaksHeap
  <2>6. Leaks(l, g)
    BY <1>2, <2>2, <2>5, HandlerLeaks
  <2>7. Leaks(mem, l)
    BY <1>2, <2>3, <2>5, LeaksCompose
  <2>8. Leaks(mem, g)
    BY <1>2, <2>6, <2>7, LeaksCompose
  <2>9. Mounted(g)
    BY <2>1, <2>2 DEF TestPage
  <2> QED
    BY <1>1, <2>8, <2>9, MountedKeeps
<1> QED
  BY <1>3, <1>4

-----------------------------------------------------------------------------
LEMMA StepKeeps ==
  ASSUME IInv, [Next]_initfsVars
  PROVE  IInv'
<1>1. CASE TryModule \/ NoInitrd \/ MountBegins \/ CacheEntry \/ CacheEnds
           \/ CacheFull \/ MountFails \/ CacheFails
  BY <1>1, TryModuleKeeps, FailsKeep, MountBeginsKeeps, CacheEntryKeeps,
     CacheEndsKeeps, Zenon
<1>2. CASE ReaderTakes \/ (\E r \in Requests : HreadBegins(r) \/ HreadNull(r))
           \/ HreadRefused
  BY <1>2, ReaderTakesKeeps, HreadBeginsKeeps, HreadKeeps, Zenon
<1>3. CASE FindRefused \/ FindCached \/ FindFaults \/ FindNoMemory \/ FindWild
           \/ FindManually
  BY <1>3, FindKeeps, FindManuallyKeeps, Zenon
<1>4. CASE WalkOn \/ WalkEnds \/ WalkFails \/ SizeRefused \/ SizeKnown
           \/ ReadNoMemory \/ ReadBlocks \/ ReadOverruns
  BY <1>4, WalkOnKeeps, WalkEndsKeeps, SizeKeeps, ReadKeeps, Zenon
<1>5. CASE UNCHANGED initfsVars
  <2>1. /\ modules' = modules /\ at' = at /\ room' = room /\ mem' = mem /\ pc' = pc
        /\ bufs' = bufs /\ cache' = cache /\ cells' = cells /\ cur' = cur
        /\ call' = call /\ answer' = answer
    BY <1>5 DEF initfsVars, kept
  <2>2. Headers' = Headers /\ (\A b : Block(b)' = Block(b)) /\ Disk' = Disk
        /\ (\A i : CellPages(i)' = CellPages(i)) /\ Cached' = Cached /\ Held' = Held
        /\ Pages' = Pages
    BY <2>1 DEF Headers, Block, Disk, CellPages, CellStart, CacheSize, Cached,
                Entries, Held, Pages
  <2>3. KeptInv' /\ HeapInv' /\ CallInv'
    BY <2>1, <2>2 DEF IInv, KeptInv, HeapInv, CallInv, PageHeaps, Buffers, Asked,
                      FoundAt
  <2>4. SegmentInv'
    BY <2>1, <2>2 DEF IInv, SegmentInv, MountWritesOwn, LeftBehind
  <2>5. CellsInv'
    BY <2>1, <2>2 DEF IInv, CellsInv, CacheFaithful, Before, EmptyCell
  <2> QED
    BY <2>3, <2>4, <2>5 DEF IInv
<1> QED
  BY <1>1, <1>2, <1>3, <1>4, <1>5, Zenon DEF Next


LEMMA UsedFits ==
  ASSUME room \in Nat, NEW S \in SUBSET Pages
  PROVE  Cardinality(S) <= room
<1>1. IsFiniteSet(Pages) /\ Cardinality(Pages) = room
  <2>1. IsFiniteSet(0 .. room - 1)
        /\ Cardinality(0 .. room - 1) =
             IF 0 > room - 1 THEN 0 ELSE (room - 1) - 0 + 1
    BY FS_Interval
  <2> QED
    BY <2>1 DEF Pages
<1>2. Cardinality(S) <= Cardinality(Pages)
  BY <1>1, FS_Subset
<1> QED
  BY <1>1, <1>2

(* Types; the heap never hands out more than there is, what is lost is     *)
(* used, and no call holds a page that is not running.                     *)
THEOREM InitfsTyped == Spec => []TypeOK
<1>1. ASSUME IInv
      PROVE  TypeOK
  <2>1. Cardinality(mem.used) <= room
    <3>1. room \in Nat
      BY <1>1, RoomIsNat DEF IInv, KeptInv
    <3>2. mem.used \in SUBSET Pages
      BY <1>1 DEF IInv, HeapInv, PageHeaps
    <3> QED
      BY <3>1, <3>2, UsedFits
  <2>2. pc # "panic" => (mem.lost \cup cache \cup Held) \subseteq mem.used
    BY <1>1 DEF IInv, HeapInv, Accounted
  <2>3. pc \in {"identify", "mount", "ready"} => Held = {}
    BY <1>1, HeldParts DEF IInv, HeapInv, Held, HeldIn
  <2>4. at \in 1 .. Len(modules) + 1
    BY <1>1 DEF IInv, KeptInv
  <2>5. Len(cells) <= NEntries + 1
    BY <1>1 DEF IInv, CellsInv
  <2>6. answer \in Int
        /\ pc \in {"identify", "mount", "cache", "ready", "find", "walk", "size",
                  "read"} \cup Stopped
    BY <1>1 DEF IInv, CallInv
  <2> QED
    BY <2>1, <2>2, <2>3, <2>4, <2>5, <2>6 DEF TypeOK
<1> QED
  BY <1>1, InitHolds, StepKeeps, PTL DEF Spec

(* Each entry that hmount writes a whole cache further on lands in the     *)
(* cache or in pages that requests have lost: none that is not mapped and  *)
(* none that anybody holds.                                                *)
THEOREM MountStaysOwn == Spec => []MountWritesOwn
<1>1. IInv => MountWritesOwn
  BY DEF IInv, SegmentInv
<1> QED
  BY <1>1, InitHolds, StepKeeps, PTL DEF Spec

(* The cache is the first entries of the archive in their order; what      *)
(* get_file_block answers is the header of the file whose name it searches *)
(* for, which is the requested one with what memory held behind it, or for *)
(* an empty name the first block or an empty one; only a name that is not  *)
(* cached makes it read a page that is not mapped.                         *)
THEOREM FoundRight == Spec => []FoundWhereItIs
<1>1. IInv => FoundWhereItIs
  BY DEF IInv, CellsInv, CallInv, Asked, FoundAt, FoundWhereItIs
<1> QED
  BY <1>1, InitHolds, StepKeeps, PTL DEF Spec

(* Between calls the pages in use are those taken before init_vfs, the     *)
(* cache and what the named leaks have lost.                               *)
THEOREM NothingForgotten == Spec => []NothingElseLost
<1>1. ASSUME IInv
      PROVE  NothingElseLost
  <2>1. pc \in {"identify", "ready"} => Accounted(mem, cache, {})
    BY <1>1, HeldParts DEF IInv, HeapInv, Held, HeldIn
  <2> QED
    BY <2>1 DEF Accounted, NothingElseLost
<1> QED
  BY <1>1, InitHolds, StepKeeps, PTL DEF Spec

=============================================================================
