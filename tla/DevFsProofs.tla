---------------------------- MODULE DevFsProofs ----------------------------
(***************************************************************************)
(* That the links of the file system of the devices are sound, and that it *)
(* keeps the promise of module NameSpace, for every ramdisk and all names; *)
(* and which names dev_remove fails to remove.                             *)
(***************************************************************************)
EXTENDS DevFs, FiniteSetTheorems, WellFoundedInduction, TLAPS

(* What the ramdisk stands for: the names T that can be found, each with   *)
(* its block, and the names under each in the order of their list.         *)
Named(T) ==
  /\ T \subseteq Paths /\ <<>> \in T
  /\ \A q \in T : q # <<>> => Front(q) \in T
Placed(T, at) ==
  /\ at \in [T -> Blocks] /\ at[<<>>] = 0
  /\ \A p \in T, q \in T : at[p] = at[q] => p = q
Listed(T, under) ==
  /\ under \in [T -> Seq(T)]
  /\ \A p \in T : \A i \in 1 .. Len(under[p]) :
       /\ under[p][i] # <<>> /\ Front(under[p][i]) = p
       /\ \A j \in 1 .. Len(under[p]) : under[p][i] = under[p][j] => i = j
  /\ \A q \in T : q # <<>> => \E i \in 1 .. Len(under[Front(q)]) : under[Front(q)][i] = q

(* How the entries are linked.  The previous entry is missing where        *)
(* dev_remove was called on the first entry of the root, which it leaves   *)
(* where it is.                                                            *)
FirstOf(list, at) == IF list = <<>> THEN 0 ELSE at[list[1]]
NextOf(list, at, i) == IF i = Len(list) THEN 0 ELSE at[list[i + 1]]
PrevOf(list, at, i) == IF i = 1 THEN 0 ELSE at[list[i - 1]]

Linked(p, list, at) ==
  /\ blocks[at[p]].type # "empty"
  /\ blocks[at[p]].data = FirstOf(list, at)
  /\ \A i \in 1 .. Len(list) :
       /\ blocks[at[list[i]]].name = Last(list[i])
       /\ blocks[at[list[i]]].parent = at[p]
       /\ blocks[at[list[i]]].next = NextOf(list, at, i)
       /\ \/ blocks[at[list[i]]].prev = PrevOf(list, at, i)
          \/ p = <<>> /\ blocks[at[list[i]]].prev = 0
RootAlone == blocks[0].next = 0 /\ blocks[0].prev = 0 /\ blocks[0].parent = 0

StandsFor(T, at, under) ==
  /\ Named(T) /\ Placed(T, at) /\ Listed(T, under)
  /\ \A p \in T : Linked(p, under[p], at)
  /\ RootAlone

DevInv == TypeOK /\ \E T, at, under : StandsFor(T, at, under)

-----------------------------------------------------------------------------
(* Names.                                                                  *)
LEMMA PathsAre ==
  \A p : p \in Paths <=> p \in Seq(Names) /\ Len(p) <= MaxDepth
<1>1. MaxDepth \in Nat
  BY DevFsAssumption
<1>2. ASSUME NEW p, p \in Paths PROVE p \in Seq(Names) /\ Len(p) <= MaxDepth
  <2>1. PICK n \in 0 .. MaxDepth : p \in [1 .. n -> Names]
    BY <1>2 DEF Paths
  <2> QED BY <1>1, <2>1
<1>3. ASSUME NEW p, p \in Seq(Names), Len(p) <= MaxDepth PROVE p \in Paths
  <2>1. Len(p) \in 0 .. MaxDepth /\ p \in [1 .. Len(p) -> Names]
    BY <1>1, <1>3
  <2> QED BY <2>1 DEF Paths
<1> QED BY <1>2, <1>3

LEMMA FrontIs ==
  ASSUME NEW q \in Seq(Names), q # <<>>
  PROVE  /\ Front(q) \in Seq(Names) /\ Len(Front(q)) = Len(q) - 1
         /\ Last(q) \in Names /\ Append(Front(q), Last(q)) = q
         /\ \A i \in 1 .. Len(q) - 1 : Front(q)[i] = q[i]
<1>1. Len(q) \in Nat /\ Len(q) # 0
  OBVIOUS
<1>2. Len(q) - 1 \in Nat /\ Len(q) \in 1 .. Len(q)
  BY <1>1
<1>3. /\ Front(q) \in Seq(Names) /\ Len(Front(q)) = Len(q) - 1
      /\ \A i \in 1 .. Len(q) - 1 : Front(q)[i] = q[i]
  <2> DEFINE m == Len(q) - 1
  <2>1. m \in Nat /\ m <= Len(q)
    BY <1>1, <1>2
  <2>2. \A i \in 1 .. m : 1 <= 1 + i - 1 /\ q[i] \in Names
    BY <1>1
  <2>3. /\ SubSeq(q, 1, m) \in Seq(Names) /\ Len(SubSeq(q, 1, m)) = m
        /\ \A i \in 1 .. m : SubSeq(q, 1, m)[i] = q[i]
    <3> HIDE DEF m
    <3> QED BY <1>1, <2>1, <2>2
  <2> QED BY <2>3 DEF Front
<1>4. Last(q) \in Names
  BY <1>2 DEF Last
<1>5. Append(Front(q), Last(q)) = q
  <2>1. /\ Append(Front(q), Last(q)) \in Seq(Names)
        /\ Len(Append(Front(q), Last(q))) = Len(q)
    BY <1>1, <1>3, <1>4
  <2>2. ASSUME NEW i \in 1 .. Len(q) PROVE Append(Front(q), Last(q))[i] = q[i]
    <3>1. CASE i = Len(q)
      BY <1>3, <1>4, <3>1 DEF Last
    <3>2. CASE i # Len(q)
      <4>1. i \in 1 .. Len(q) - 1
        BY <1>1, <3>2
      <4> QED BY <1>3, <1>4, <4>1
    <3> QED BY <3>1, <3>2
  <2> QED BY <2>1, <2>2
<1> QED BY <1>3, <1>4, <1>5

LEMMA AppendIs ==
  ASSUME NEW p \in Seq(Names), NEW n \in Names
  PROVE  /\ Append(p, n) \in Seq(Names) /\ Append(p, n) # <<>>
         /\ Front(Append(p, n)) = p /\ Last(Append(p, n)) = n
<1>1. /\ Append(p, n) \in Seq(Names) /\ Len(Append(p, n)) = Len(p) + 1 /\ Len(p) \in Nat
      /\ Append(p, n)[Len(p) + 1] = n
      /\ \A i \in 1 .. Len(p) : Append(p, n)[i] = p[i]
  OBVIOUS
<1>2. Append(p, n) # <<>>
  BY <1>1
<1>3. Front(Append(p, n)) = p
  <2>1. /\ Front(Append(p, n)) \in Seq(Names) /\ Len(Front(Append(p, n))) = Len(p)
        /\ \A i \in 1 .. Len(p) : Front(Append(p, n))[i] = p[i]
    <3> DEFINE q == Append(p, n)
    <3>1. /\ q \in Seq(Names) /\ q # <<>> /\ Len(q) - 1 = Len(p)
          /\ \A i \in 1 .. Len(p) : q[i] = p[i]
      BY <1>1, <1>2
    <3> HIDE DEF q
    <3>2. /\ Front(q) \in Seq(Names) /\ Len(Front(q)) = Len(q) - 1
          /\ \A i \in 1 .. Len(q) - 1 : Front(q)[i] = q[i]
      BY <3>1, FrontIs
    <3> QED BY <3>1, <3>2 DEF q
  <2> QED BY <2>1
<1>4. Last(Append(p, n)) = n
  BY <1>1 DEF Last
<1> QED BY <1>1, <1>2, <1>3, <1>4

(* What lies under a name p goes with it, and no more.                     *)
LEMMA PrefixIs ==
  ASSUME NEW p \in Seq(Names), NEW q \in Seq(Names)
  PROVE  /\ IsPrefix(p, p)
         /\ q # <<>> /\ IsPrefix(p, Front(q)) => IsPrefix(p, q)
         /\ q # <<>> /\ IsPrefix(p, q) /\ p # q => IsPrefix(p, Front(q))
         /\ IsPrefix(p, <<>>) => p = <<>>
         /\ p # <<>> => ~IsPrefix(p, Front(p))
<1>1. \A r \in Seq(Names) :
        IsPrefix(p, r) <=> Len(p) <= Len(r) /\ \A i \in 1 .. Len(p) : p[i] = r[i]
  <2> SUFFICES ASSUME NEW r \in Seq(Names), Len(p) <= Len(r)
               PROVE  SubSeq(p, 1, Len(p)) = SubSeq(r, 1, Len(p)) <=>
                        \A i \in 1 .. Len(p) : p[i] = r[i]
    BY DEF IsPrefix
  <2>1. Len(p) \in Nat /\ Len(r) \in Nat
    OBVIOUS
  <2>2. /\ SubSeq(p, 1, Len(p)) \in Seq(Names) /\ SubSeq(r, 1, Len(p)) \in Seq(Names)
        /\ Len(SubSeq(p, 1, Len(p))) = Len(p) /\ Len(SubSeq(r, 1, Len(p))) = Len(p)
        /\ \A i \in 1 .. Len(p) :
             SubSeq(p, 1, Len(p))[i] = p[i] /\ SubSeq(r, 1, Len(p))[i] = r[i]
    BY <2>1
  <2> QED BY <2>2
<1>2. Len(p) \in Nat /\ Len(q) \in Nat
  OBVIOUS
<1>3. IsPrefix(p, p)
  BY <1>1, <1>2
<1>4. ASSUME q # <<>>
      PROVE  /\ IsPrefix(p, Front(q)) => IsPrefix(p, q)
             /\ IsPrefix(p, q) /\ p # q => IsPrefix(p, Front(q))
  <2>1. /\ Front(q) \in Seq(Names) /\ Len(Front(q)) = Len(q) - 1
        /\ \A i \in 1 .. Len(q) - 1 : Front(q)[i] = q[i]
    BY <1>4, FrontIs
  <2>2. ASSUME IsPrefix(p, Front(q)) PROVE IsPrefix(p, q)
    BY <1>1, <1>2, <2>1, <2>2
  <2>3. ASSUME IsPrefix(p, q), p # q PROVE IsPrefix(p, Front(q))
    <3>1. Len(p) <= Len(q) /\ \A i \in 1 .. Len(p) : p[i] = q[i]
      BY <1>1, <2>3
    <3>2. Len(p) # Len(q)
      BY <2>3, <3>1
    <3> QED BY <1>1, <1>2, <2>1, <3>1, <3>2
  <2> QED BY <2>2, <2>3
<1>5. ASSUME IsPrefix(p, <<>>) PROVE p = <<>>
  <2>1. Len(p) <= Len(<<>>)
    BY <1>5 DEF IsPrefix
  <2> QED BY <1>2, <2>1
<1>6. ASSUME p # <<>> PROVE ~IsPrefix(p, Front(p))
  <2>1. Len(Front(p)) = Len(p) - 1
    BY <1>6, FrontIs
  <2> QED BY <1>2, <2>1 DEF IsPrefix
<1> QED BY <1>3, <1>4, <1>5, <1>6

-----------------------------------------------------------------------------
(* Recursion on 0 .. n: what holds at 0 and goes on holds, and a function  *)
(* so defined exists.                                                      *)
LEMMA LeastExists ==
  ASSUME NEW T \in SUBSET Nat, T # {}
  PROVE  \E x \in T : \A y \in T : x <= y
<1> DEFINE R == {ss \in Nat \X Nat : ss[1] < ss[2]}
<1>1. IsWellFoundedOn(R, Nat)
  BY NatLessThanWellFounded DEF OpToRel
<1>2. PICK x \in T : \A y \in T : ~(<<y, x>> \in R)
  BY <1>1, WFMin
<1>3. ASSUME NEW y \in T PROVE x <= y
  <2>1. x \in Nat /\ y \in Nat
    OBVIOUS
  <2>2. (y < x) => <<y, x>> \in R
    BY <2>1, SMT
  <2> QED BY <1>2, <2>1, <2>2
<1> QED BY <1>3

(* S is the set of the numbers of which something holds.                   *)
LEMMA GoesOn ==
  ASSUME NEW N \in Nat, NEW S, 0 \in S, \A n \in 1 .. N : n - 1 \in S => n \in S
  PROVE  0 .. N \subseteq S
<1> DEFINE T == 0 .. N \ S
<1>1. ASSUME T # {} PROVE FALSE
  <2>1. T \in SUBSET Nat
    OBVIOUS
  <2>2. PICK m \in T : \A y \in T : m <= y
    <3> HIDE DEF T
    <3> QED BY <1>1, <2>1, LeastExists
  <2>3. m \in 1 .. N /\ m \notin S
    BY <2>2
  <2>4. m - 1 \in S
    BY <2>2, <2>3
  <2> QED BY <2>3, <2>4
<1> QED BY <1>1

Follows(f, N, x0, G) == f[0] = x0 /\ \A n \in 1 .. N : f[n] = G[n][f[n - 1]]

LEMMA RecursionExists ==
  ASSUME NEW N \in Nat, NEW S, NEW x0 \in S, NEW G \in [1 .. N -> [S -> S]]
  PROVE  \E f \in [0 .. N -> S] : Follows(f, N, x0, G)
<1> DEFINE Good(m) == \E f \in [0 .. m -> S] : Follows(f, m, x0, G)
           Z == {m \in 0 .. N : Good(m)}
<1>1. Good(0)
  <2>1. [j \in 0 .. 0 |-> x0] \in [0 .. 0 -> S] /\ Follows([j \in 0 .. 0 |-> x0], 0, x0, G)
    BY DEF Follows
  <2> QED BY <2>1
<1>2. ASSUME NEW m \in 1 .. N, Good(m - 1) PROVE Good(m)
  <2>1. PICK f \in [0 .. m - 1 -> S] : Follows(f, m - 1, x0, G)
    BY <1>2
  <2> DEFINE g == [n \in 0 .. m |-> IF n = m THEN G[m][f[m - 1]] ELSE f[n]]
  <2>2. f[m - 1] \in S /\ G[m] \in [S -> S]
    OBVIOUS
  <2>3. g \in [0 .. m -> S]
    BY <2>2
  <2>4. g[0] = x0
    BY <2>1 DEF Follows
  <2>5. ASSUME NEW n \in 1 .. m PROVE g[n] = G[n][g[n - 1]]
    <3>1. CASE n = m
      BY <3>1
    <3>2. CASE n # m
      BY <2>1, <3>2 DEF Follows
    <3> QED BY <3>1, <3>2
  <2> HIDE DEF g
  <2> QED BY <2>3, <2>4, <2>5 DEF Follows
<1> HIDE DEF Good
<1>3. 0 .. N \subseteq Z
  <2>1. 0 \in Z /\ \A n \in 1 .. N : n - 1 \in Z => n \in Z
    BY <1>1, <1>2
  <2> HIDE DEF Z
  <2> QED BY <2>1, GoesOn
<1>4. Good(N)
  BY <1>3
<1> QED BY <1>4 DEF Good

-----------------------------------------------------------------------------
(* The list of a directory: entries in blocks of their own, of names of    *)
(* their own, fewer than there are blocks.                                 *)
LEMMA ListIs ==
  ASSUME NEW T, NEW at, NEW under, StandsFor(T, at, under), NEW p \in T
  PROVE  /\ under[p] \in Seq(T) /\ Len(under[p]) \in Nat /\ Len(under[p]) < BlockNum
         /\ \A i \in 1 .. Len(under[p]) :
              /\ under[p][i] \in T /\ under[p][i] # <<>>
              /\ under[p][i] \in Seq(Names) /\ p \in Seq(Names)
              /\ Append(p, Last(under[p][i])) = under[p][i]
              /\ at[under[p][i]] \in Blocks /\ at[under[p][i]] # 0
              /\ \A j \in 1 .. Len(under[p]) :
                   /\ Last(under[p][i]) = Last(under[p][j]) => i = j
                   /\ at[under[p][i]] = at[under[p][j]] => i = j
         /\ \A n \in Names : Append(p, n) \in T =>
              \E i \in 1 .. Len(under[p]) : under[p][i] = Append(p, n)
<1> DEFINE list == under[p]
<1>1. /\ list \in Seq(T) /\ Len(list) \in Nat
      /\ \A i \in 1 .. Len(list) : list[i] \in T /\ list[i] # <<>> /\ Front(list[i]) = p
  BY DEF StandsFor, Listed
<1>2. T \subseteq Seq(Names) /\ <<>> \in T
  BY PathsAre DEF StandsFor, Named
<1>3. ASSUME NEW i \in 1 .. Len(list)
      PROVE  /\ list[i] \in Seq(Names) /\ p \in Seq(Names) /\ Last(list[i]) \in Names
             /\ Append(p, Last(list[i])) = list[i]
             /\ at[list[i]] \in Blocks /\ at[list[i]] # 0
  <2>1. /\ list[i] \in T /\ list[i] # <<>> /\ Front(list[i]) = p /\ list[i] \in Seq(Names)
        /\ p \in Seq(Names)
    BY <1>1, <1>2
  <2>2. Append(p, Last(list[i])) = list[i] /\ Last(list[i]) \in Names
    BY <2>1, FrontIs
  <2>3. at[list[i]] \in Blocks /\ at[list[i]] # 0
    BY <1>2, <2>1 DEF StandsFor, Placed
  <2> QED BY <2>1, <2>2, <2>3
<1>4. ASSUME NEW i \in 1 .. Len(list), NEW j \in 1 .. Len(list)
      PROVE  /\ list[i] = list[j] => i = j
             /\ Last(list[i]) = Last(list[j]) => i = j
             /\ at[list[i]] = at[list[j]] => i = j
  <2>1. list[i] = list[j] => i = j
    BY DEF StandsFor, Listed
  <2>2. Last(list[i]) = Last(list[j]) => list[i] = list[j]
    BY <1>3
  <2>3. at[list[i]] = at[list[j]] => list[i] = list[j]
    BY <1>1 DEF StandsFor, Placed
  <2> QED BY <2>1, <2>2, <2>3
<1>5. Len(list) < BlockNum
  <2>0. BlockNum \in Nat \ {0}
    BY DevFsAssumption
  <2>1. /\ IsFiniteSet(1 .. Len(list)) /\ Cardinality(1 .. Len(list)) = Len(list)
        /\ IsFiniteSet(1 .. BlockNum - 1) /\ Cardinality(1 .. BlockNum - 1) = BlockNum - 1
    <3>1. \A n \in Nat : IsFiniteSet(1 .. n) /\ Cardinality(1 .. n) = n
      <4> TAKE n \in Nat
      <4>1. /\ IsFiniteSet(1 .. n)
            /\ Cardinality(1 .. n) = IF 1 > n THEN 0 ELSE n - 1 + 1
        BY FS_Interval
      <4> QED BY <4>1
    <3>2. BlockNum - 1 \in Nat
      BY <2>0
    <3> HIDE DEF list
    <3> QED BY <1>1, <3>1, <3>2
  <2> DEFINE f == [i \in 1 .. Len(list) |-> at[list[i]]]
  <2>2. f \in [1 .. Len(list) -> 1 .. BlockNum - 1]
    BY <1>3, <2>0 DEF Blocks
  <2>3. \A i, j \in 1 .. Len(list) : f[i] = f[j] => i = j
    BY <1>4
  <2>4. ~(Cardinality(1 .. BlockNum - 1) < Cardinality(1 .. Len(list)))
    <3> HIDE DEF f, list
    <3> SUFFICES ASSUME Cardinality(1 .. BlockNum - 1) < Cardinality(1 .. Len(list))
                 PROVE  FALSE
      OBVIOUS
    <3>1. \E i, j \in 1 .. Len(list) : i # j /\ f[i] = f[j]
      BY <2>1, <2>2, FS_PigeonHole
    <3> QED BY <2>3, <3>1
  <2> QED BY <1>1, <2>0, <2>1, <2>4
<1>6. ASSUME NEW n \in Names, Append(p, n) \in T
      PROVE  \E i \in 1 .. Len(list) : list[i] = Append(p, n)
  <2>1. p \in Seq(Names)
    BY <1>2
  <2>2. Append(p, n) # <<>> /\ Front(Append(p, n)) = p
    BY <2>1, AppendIs
  <2> QED BY <1>6, <2>2 DEF StandsFor, Listed
<1> HIDE DEF list
<1>7. \A i \in 1 .. Len(list) :
        /\ list[i] \in T /\ list[i] # <<>>
        /\ list[i] \in Seq(Names) /\ p \in Seq(Names)
        /\ Append(p, Last(list[i])) = list[i]
        /\ at[list[i]] \in Blocks /\ at[list[i]] # 0
        /\ \A j \in 1 .. Len(list) :
             /\ Last(list[i]) = Last(list[j]) => i = j
             /\ at[list[i]] = at[list[j]] => i = j
  BY <1>1, <1>3, <1>4
<1> QED BY <1>1, <1>5, <1>6, <1>7 DEF list

(* The links of the list, one by one.                                      *)
LEMMA LinksAre ==
  ASSUME NEW T, NEW at, NEW under, StandsFor(T, at, under), NEW p \in T
  PROVE  /\ blocks[at[p]].data = FirstOf(under[p], at)
         /\ \A i \in 1 .. Len(under[p]) :
              /\ blocks[at[under[p][i]]].name = Last(under[p][i])
              /\ blocks[at[under[p][i]]].next =
                   IF i = Len(under[p]) THEN 0 ELSE at[under[p][i + 1]]
BY DEF StandsFor, Linked, NextOf

LEMMA NextTyped ==
  ASSUME TypeOK, NEW b \in Blocks
  PROVE  blocks[b].next \in Blocks /\ blocks[b].data \in Blocks /\ 0 \in Blocks
<1>1. 0 \in Blocks
  BY DevFsAssumption DEF Blocks
<1>2. blocks[b].next \in Blocks /\ blocks[b].data \in Blocks
  BY DEF TypeOK
<1> QED BY <1>1, <1>2

(* The loop of dev_get_entry_block, unfolded.                              *)
SearchLoop(L, name) ==
  /\ \A first : Search(first, name) = L[BlockNum][first]
  /\ \A n \in 0 .. BlockNum : \A b \in Blocks :
       L[n][b] = IF n = 0 \/ b = 0 THEN NotFound
                 ELSE IF blocks[b].name = name THEN b
                 ELSE L[n - 1][blocks[b].next]

LEMMA SearchUnfolds ==
  ASSUME TypeOK, NEW name
  PROVE  \E L : SearchLoop(L, name)
<1> DEFINE S == [Blocks -> Blocks \cup {NotFound}]
           x0 == [b \in Blocks |-> NotFound]
           One(g) == [b \in Blocks |-> IF b = 0 THEN NotFound
                                       ELSE IF blocks[b].name = name THEN b
                                       ELSE g[blocks[b].next]]
           G == [n \in 1 .. BlockNum |-> [g \in S |-> One(g)]]
           L == CHOOSE f : f = [n \in 0 .. BlockNum |->
                  [b \in Blocks |-> IF n = 0 \/ b = 0 THEN NotFound
                                    ELSE IF blocks[b].name = name THEN b
                                    ELSE f[n - 1][blocks[b].next]]]
<1>0. BlockNum \in Nat
  BY DevFsAssumption
<1>1. x0 \in S
  OBVIOUS
<1>2. G \in [1 .. BlockNum -> [S -> S]]
  <2>1. \A g \in S : One(g) \in S
    BY NextTyped
  <2> HIDE DEF One, S
  <2> QED BY <2>1
<1>3. PICK f \in [0 .. BlockNum -> S] : Follows(f, BlockNum, x0, G)
  <2> HIDE DEF S, x0, G
  <2> QED BY <1>0, <1>1, <1>2, RecursionExists
<1>4. f[0] = x0 /\ \A n \in 1 .. BlockNum : f[n] = One(f[n - 1])
  <2>1. \A n \in 1 .. BlockNum : f[n - 1] \in S
    BY <1>0, <1>3
  <2> HIDE DEF S, x0, One
  <2> QED BY <1>3, <2>1 DEF Follows
<1>5. \A n \in 0 .. BlockNum :
        f[n] = [b \in Blocks |-> IF n = 0 \/ b = 0 THEN NotFound
                                 ELSE IF blocks[b].name = name THEN b
                                 ELSE f[n - 1][blocks[b].next]]
  <2> SUFFICES ASSUME NEW n \in 0 .. BlockNum
               PROVE  f[n] = [b \in Blocks |-> IF n = 0 \/ b = 0 THEN NotFound
                                 ELSE IF blocks[b].name = name THEN b
                                 ELSE f[n - 1][blocks[b].next]]
    OBVIOUS
  <2>1. CASE n = 0
    BY <1>4, <2>1
  <2>2. CASE n # 0
    <3>1. n \in 1 .. BlockNum
      BY <1>0, <2>2
    <3>2. f[n] = One(f[n - 1])
      BY <1>4, <3>1
    <3> QED BY <2>2, <3>2
  <2> QED BY <2>1, <2>2
<1>6. f = [n \in 0 .. BlockNum |->
             [b \in Blocks |-> IF n = 0 \/ b = 0 THEN NotFound
                               ELSE IF blocks[b].name = name THEN b
                               ELSE f[n - 1][blocks[b].next]]]
  BY <1>3, <1>5
<1>7. L = [n \in 0 .. BlockNum |->
             [b \in Blocks |-> IF n = 0 \/ b = 0 THEN NotFound
                               ELSE IF blocks[b].name = name THEN b
                               ELSE L[n - 1][blocks[b].next]]]
  BY <1>6
<1>8. \A first : Search(first, name) = L[BlockNum][first]
  BY DEF Search
<1> HIDE DEF L
<1>9. \A n \in 0 .. BlockNum : \A b \in Blocks :
        L[n][b] = IF n = 0 \/ b = 0 THEN NotFound
                  ELSE IF blocks[b].name = name THEN b
                  ELSE L[n - 1][blocks[b].next]
  <2> TAKE n \in 0 .. BlockNum
  <2>1. L[n] = [b \in Blocks |-> IF n = 0 \/ b = 0 THEN NotFound
                                 ELSE IF blocks[b].name = name THEN b
                                 ELSE L[n - 1][blocks[b].next]]
    BY <1>7, Zenon
  <2> QED BY <2>1
<1>10. SearchLoop(L, name)
  BY <1>8, <1>9 DEF SearchLoop
<1> QED BY <1>10

(* The loop of dev_create, unfolded.                                       *)
LastLoop(L) ==
  /\ \A first : LastEntry(first) = L[BlockNum][first]
  /\ \A n \in 0 .. BlockNum : \A b \in Blocks :
       L[n][b] = IF n = 0 \/ blocks[b].next = 0 THEN b
                 ELSE L[n - 1][blocks[b].next]

LEMMA LastUnfolds ==
  ASSUME TypeOK
  PROVE  \E L : LastLoop(L)
<1> DEFINE S == [Blocks -> Blocks]
           x0 == [b \in Blocks |-> b]
           One(g) == [b \in Blocks |-> IF blocks[b].next = 0 THEN b
                                       ELSE g[blocks[b].next]]
           G == [n \in 1 .. BlockNum |-> [g \in S |-> One(g)]]
           L == CHOOSE f : f = [n \in 0 .. BlockNum |->
                  [b \in Blocks |-> IF n = 0 \/ blocks[b].next = 0 THEN b
                                    ELSE f[n - 1][blocks[b].next]]]
<1>0. BlockNum \in Nat
  BY DevFsAssumption
<1>1. x0 \in S
  OBVIOUS
<1>2. G \in [1 .. BlockNum -> [S -> S]]
  <2>1. \A g \in S : One(g) \in S
    BY NextTyped
  <2> HIDE DEF One, S
  <2> QED BY <2>1
<1>3. PICK f \in [0 .. BlockNum -> S] : Follows(f, BlockNum, x0, G)
  <2> HIDE DEF S, x0, G
  <2> QED BY <1>0, <1>1, <1>2, RecursionExists
<1>4. f[0] = x0 /\ \A n \in 1 .. BlockNum : f[n] = One(f[n - 1])
  <2>1. \A n \in 1 .. BlockNum : f[n - 1] \in S
    BY <1>0, <1>3
  <2> HIDE DEF S, x0, One
  <2> QED BY <1>3, <2>1 DEF Follows
<1>5. \A n \in 0 .. BlockNum :
        f[n] = [b \in Blocks |-> IF n = 0 \/ blocks[b].next = 0 THEN b
                                 ELSE f[n - 1][blocks[b].next]]
  <2> SUFFICES ASSUME NEW n \in 0 .. BlockNum
               PROVE  f[n] = [b \in Blocks |-> IF n = 0 \/ blocks[b].next = 0 THEN b
                                               ELSE f[n - 1][blocks[b].next]]
    OBVIOUS
  <2>1. CASE n = 0
    BY <1>4, <2>1
  <2>2. CASE n # 0
    <3>1. n \in 1 .. BlockNum
      BY <1>0, <2>2
    <3>2. f[n] = One(f[n - 1])
      BY <1>4, <3>1
    <3> QED BY <2>2, <3>2
  <2> QED BY <2>1, <2>2
<1>6. f = [n \in 0 .. BlockNum |->
             [b \in Blocks |-> IF n = 0 \/ blocks[b].next = 0 THEN b
                               ELSE f[n - 1][blocks[b].next]]]
  BY <1>3, <1>5
<1>7. L = [n \in 0 .. BlockNum |->
             [b \in Blocks |-> IF n = 0 \/ blocks[b].next = 0 THEN b
                               ELSE L[n - 1][blocks[b].next]]]
  BY <1>6
<1>8. \A first : LastEntry(first) = L[BlockNum][first]
  BY DEF LastEntry
<1> HIDE DEF L
<1>9. \A n \in 0 .. BlockNum : \A b \in Blocks :
        L[n][b] = IF n = 0 \/ blocks[b].next = 0 THEN b
                  ELSE L[n - 1][blocks[b].next]
  <2> TAKE n \in 0 .. BlockNum
  <2>1. L[n] = [b \in Blocks |-> IF n = 0 \/ blocks[b].next = 0 THEN b
                                 ELSE L[n - 1][blocks[b].next]]
    BY <1>7, Zenon
  <2> QED BY <2>1
<1>10. LastLoop(L)
  BY <1>8, <1>9 DEF LastLoop
<1> QED BY <1>10

(* The entries of a directory, unfolded.                                   *)
EntriesLoop(L) ==
  /\ \A dir : Entries(dir) = L[BlockNum][blocks[dir].data]
  /\ \A n \in 0 .. BlockNum : \A b \in Blocks :
       L[n][b] = IF n = 0 \/ b = 0 THEN {}
                 ELSE {b} \cup L[n - 1][blocks[b].next]

LEMMA EntriesUnfold ==
  ASSUME TypeOK
  PROVE  \E L : EntriesLoop(L)
<1> DEFINE S == [Blocks -> SUBSET Blocks]
           x0 == [b \in Blocks |-> {}]
           One(g) == [b \in Blocks |-> IF b = 0 THEN {}
                                       ELSE {b} \cup g[blocks[b].next]]
           G == [n \in 1 .. BlockNum |-> [g \in S |-> One(g)]]
           L == CHOOSE f : f = [n \in 0 .. BlockNum |->
                  [b \in Blocks |-> IF n = 0 \/ b = 0 THEN {}
                                    ELSE {b} \cup f[n - 1][blocks[b].next]]]
<1>0. BlockNum \in Nat
  BY DevFsAssumption
<1>1. x0 \in S
  OBVIOUS
<1>2. G \in [1 .. BlockNum -> [S -> S]]
  <2>1. \A g \in S : One(g) \in S
    BY NextTyped
  <2> HIDE DEF One, S
  <2> QED BY <2>1
<1>3. PICK f \in [0 .. BlockNum -> S] : Follows(f, BlockNum, x0, G)
  <2> HIDE DEF S, x0, G
  <2> QED BY <1>0, <1>1, <1>2, RecursionExists
<1>4. f[0] = x0 /\ \A n \in 1 .. BlockNum : f[n] = One(f[n - 1])
  <2>1. \A n \in 1 .. BlockNum : f[n - 1] \in S
    BY <1>0, <1>3
  <2> HIDE DEF S, x0, One
  <2> QED BY <1>3, <2>1 DEF Follows
<1>5. \A n \in 0 .. BlockNum :
        f[n] = [b \in Blocks |-> IF n = 0 \/ b = 0 THEN {}
                                 ELSE {b} \cup f[n - 1][blocks[b].next]]
  <2> SUFFICES ASSUME NEW n \in 0 .. BlockNum
               PROVE  f[n] = [b \in Blocks |-> IF n = 0 \/ b = 0 THEN {}
                                               ELSE {b} \cup f[n - 1][blocks[b].next]]
    OBVIOUS
  <2>1. CASE n = 0
    BY <1>4, <2>1
  <2>2. CASE n # 0
    <3>1. n \in 1 .. BlockNum
      BY <1>0, <2>2
    <3>2. f[n] = One(f[n - 1])
      BY <1>4, <3>1
    <3> QED BY <2>2, <3>2
  <2> QED BY <2>1, <2>2
<1>6. f = [n \in 0 .. BlockNum |->
             [b \in Blocks |-> IF n = 0 \/ b = 0 THEN {}
                               ELSE {b} \cup f[n - 1][blocks[b].next]]]
  BY <1>3, <1>5
<1>7. L = [n \in 0 .. BlockNum |->
             [b \in Blocks |-> IF n = 0 \/ b = 0 THEN {}
                               ELSE {b} \cup L[n - 1][blocks[b].next]]]
  BY <1>6
<1>8. \A dir : Entries(dir) = L[BlockNum][blocks[dir].data]
  BY DEF Entries
<1> HIDE DEF L
<1>9. \A n \in 0 .. BlockNum : \A b \in Blocks :
        L[n][b] = IF n = 0 \/ b = 0 THEN {}
                  ELSE {b} \cup L[n - 1][blocks[b].next]
  <2> TAKE n \in 0 .. BlockNum
  <2>1. L[n] = [b \in Blocks |-> IF n = 0 \/ b = 0 THEN {}
                                 ELSE {b} \cup L[n - 1][blocks[b].next]]
    BY <1>7, Zenon
  <2> QED BY <2>1
<1>10. EntriesLoop(L)
  BY <1>8, <1>9 DEF EntriesLoop
<1> QED BY <1>10

(* The loop finds the name under p when it is there.                       *)
LEMMA SearchFinds ==
  ASSUME TypeOK, NEW T, NEW at, NEW under, StandsFor(T, at, under), NEW p \in T,
         NEW name \in Names
  PROVE  Search(blocks[at[p]].data, name) =
           IF Append(p, name) \in T THEN at[Append(p, name)] ELSE NotFound
<1> DEFINE list == under[p]
<1>0. PICK L : SearchLoop(L, name)
  BY SearchUnfolds
<1>1. /\ \A first : Search(first, name) = L[BlockNum][first]
      /\ \A n \in 0 .. BlockNum : \A b \in Blocks :
            L[n][b] = IF n = 0 \/ b = 0 THEN NotFound
                      ELSE IF blocks[b].name = name THEN b
                      ELSE L[n - 1][blocks[b].next]
  BY <1>0 DEF SearchLoop
<1>2. /\ list \in Seq(T) /\ Len(list) \in Nat /\ Len(list) < BlockNum
      /\ \A i \in 1 .. Len(list) : list[i] \in T /\ at[list[i]] \in Blocks /\ at[list[i]] # 0
  BY ListIs
<1>3. \A i \in 1 .. Len(list) :
        /\ blocks[at[list[i]]].name = Last(list[i])
        /\ blocks[at[list[i]]].next = IF i = Len(list) THEN 0 ELSE at[list[i + 1]]
  BY LinksAre
<1>4. BlockNum \in Nat /\ 0 \in Blocks
  BY DevFsAssumption DEF Blocks
<1>5. blocks[at[p]].data = FirstOf(list, at)
  BY LinksAre
<1>6. /\ \A i \in 1 .. Len(list) : \A j \in 1 .. Len(list) :
           Last(list[i]) = Last(list[j]) => i = j
      /\ \A i \in 1 .. Len(list) : Append(p, Last(list[i])) = list[i]
      /\ Append(p, name) \in T => \E i \in 1 .. Len(list) : list[i] = Append(p, name)
      /\ Last(Append(p, name)) = name
  <2>1. p \in Seq(Names)
    BY PathsAre DEF StandsFor, Named
  <2>2. Last(Append(p, name)) = name
    BY <2>1, AppendIs
  <2>3. /\ \A i \in 1 .. Len(under[p]) : \A j \in 1 .. Len(under[p]) :
             Last(under[p][i]) = Last(under[p][j]) => i = j
        /\ \A i \in 1 .. Len(under[p]) : Append(p, Last(under[p][i])) = under[p][i]
        /\ Append(p, name) \in T => \E i \in 1 .. Len(under[p]) : under[p][i] = Append(p, name)
    BY ListIs
  <2> QED BY <2>2, <2>3
<1> HIDE DEF list
<1> DEFINE Right(n, i) ==
             /\ \A j \in i .. Len(list) : Last(list[j]) = name => L[n][at[list[i]]] = at[list[j]]
             /\ (\A j \in i .. Len(list) : Last(list[j]) # name) => L[n][at[list[i]]] = NotFound
           Z == {n \in 0 .. BlockNum : \A i \in 1 .. Len(list) : Len(list) - i < n => Right(n, i)}
<1>7. 0 .. BlockNum \subseteq Z
  <2>1. 0 \in Z
    <3>1. \A i \in 1 .. Len(list) : ~(Len(list) - i < 0)
      BY <1>2
    <3> HIDE DEF Right
    <3> QED BY <1>4, <3>1
  <2>2. ASSUME NEW n \in 1 .. BlockNum, n - 1 \in Z PROVE n \in Z
    <3> SUFFICES ASSUME NEW i \in 1 .. Len(list), Len(list) - i < n PROVE Right(n, i)
      OBVIOUS
    <3>1. L[n][at[list[i]]] = IF Last(list[i]) = name THEN at[list[i]]
                              ELSE L[n - 1][blocks[at[list[i]]].next]
      BY <1>1, <1>2, <1>3
    <3>2. \A j \in i .. Len(list) : j \in 1 .. Len(list)
      OBVIOUS
    <3>3. CASE Last(list[i]) = name
      <4>1. L[n][at[list[i]]] = at[list[i]] /\ i \in i .. Len(list)
        BY <3>1, <3>3
      <4>2. \A j \in i .. Len(list) : Last(list[j]) = name => j = i
        BY <1>6, <3>2, <3>3
      <4> QED BY <3>3, <4>1, <4>2
    <3>4. CASE Last(list[i]) # name /\ i = Len(list)
      <4>1. L[n][at[list[i]]] = L[n - 1][0]
        BY <1>3, <3>1, <3>4
      <4>2. L[n - 1][0] = NotFound
        BY <1>1, <1>4
      <4>3. \A j \in i .. Len(list) : j = i
        BY <3>4
      <4> QED BY <3>4, <4>1, <4>2, <4>3
    <3>5. CASE Last(list[i]) # name /\ i # Len(list)
      <4>1. i + 1 \in 1 .. Len(list) /\ Len(list) - (i + 1) < n - 1
        BY <1>2, <3>5
      <4>2. L[n][at[list[i]]] = L[n - 1][at[list[i + 1]]]
        BY <1>3, <3>1, <3>5
      <4>3. Right(n - 1, i + 1)
        <5> HIDE DEF Right
        <5> QED BY <2>2, <4>1
      <4>4. \A j \in i .. Len(list) : j # i => j \in i + 1 .. Len(list)
        OBVIOUS
      <4>5. \A j \in i + 1 .. Len(list) : j \in i .. Len(list)
        OBVIOUS
      <4> QED BY <3>5, <4>2, <4>3, <4>4, <4>5
    <3> QED BY <3>3, <3>4, <3>5
  <2> HIDE DEF Z
  <2> QED BY <1>4, <2>1, <2>2, GoesOn
<1>8. CASE list = <<>>
  <2>1. blocks[at[p]].data = 0 /\ Len(list) = 0
    BY <1>5, <1>8 DEF FirstOf
  <2>2. Search(0, name) = NotFound
    BY <1>1, <1>4
  <2>3. Append(p, name) \notin T
    BY <1>6, <2>1
  <2> QED BY <2>1, <2>2, <2>3
<1>9. CASE list # <<>>
  <2>1. 1 \in 1 .. Len(list) /\ Len(list) - 1 < BlockNum
    <3>1. list \in Seq(T) /\ Len(list) \in Nat /\ Len(list) < BlockNum
      BY <1>2
    <3>2. Len(list) # 0
      BY <1>9, <3>1
    <3> QED BY <1>4, <3>1, <3>2
  <2>2. Right(BlockNum, 1)
    <3> HIDE DEF Right
    <3> QED BY <1>4, <1>7, <2>1
  <2>3. Search(blocks[at[p]].data, name) = L[BlockNum][at[list[1]]]
    BY <1>1, <1>5, <1>9 DEF FirstOf
  <2>4. CASE Append(p, name) \in T
    <3>1. PICK i \in 1 .. Len(list) : list[i] = Append(p, name)
      BY <1>6, <2>4
    <3> QED BY <1>6, <2>2, <2>3, <2>4, <3>1
  <2>5. CASE Append(p, name) \notin T
    <3>1. \A i \in 1 .. Len(list) : Last(list[i]) # name
      BY <1>2, <1>6, <2>5
    <3> QED BY <2>2, <2>3, <2>5, <3>1
  <2> QED BY <2>4, <2>5
<1> QED BY <1>8, <1>9

(* The lookup of a path answers its block, or that there is none.          *)
LEMMA LookupIs ==
  ASSUME TypeOK, NEW T, NEW at, NEW under, StandsFor(T, at, under), NEW path \in Paths
  PROVE  dev_get_entry_block(path) = IF path \in T THEN at[path] ELSE NotFound
<1> DEFINE N == Len(path)
           left(k) == SubSeq(path, 1, k)
           answer(k) == IF left(k) \in T THEN at[left(k)] ELSE NotFound
           L == CHOOSE f : f = [k \in 0 .. N |->
                  IF k = 0 THEN 0
                  ELSE LET above == f[k - 1]
                       IN  IF above = NotFound THEN NotFound
                           ELSE Search(blocks[above].data, path[k])]
           g == [k \in 0 .. N |-> answer(k)]
<1>1. path \in Seq(Names) /\ N \in Nat
  BY PathsAre
<1>2. /\ T \subseteq Paths /\ <<>> \in T /\ at \in [T -> Blocks] /\ at[<<>>] = 0
      /\ \A q \in T : q # <<>> => Front(q) \in T
  BY DEF StandsFor, Named, Placed
<1>3. \A k \in 0 .. N : left(k) \in Seq(Names) /\ Len(left(k)) = k
  BY <1>1
<1>4. ASSUME NEW k \in 1 .. N
      PROVE  /\ path[k] \in Names /\ left(k - 1) \in Seq(Names)
             /\ left(k) = Append(left(k - 1), path[k])
             /\ left(k) # <<>> /\ Front(left(k)) = left(k - 1)
  <2>1. path[k] \in Names /\ k - 1 \in 0 .. N /\ k \in 0 .. N
    BY <1>1
  <2>2. /\ left(k) \in Seq(Names) /\ Len(left(k)) = k
        /\ left(k - 1) \in Seq(Names) /\ Len(left(k - 1)) = k - 1
    BY <1>3, <2>1
  <2>3. /\ \A i \in 1 .. k : left(k)[i] = path[i]
        /\ \A i \in 1 .. k - 1 : left(k - 1)[i] = path[i]
    BY <1>1
  <2>4. /\ Append(left(k - 1), path[k]) \in Seq(Names)
        /\ Len(Append(left(k - 1), path[k])) = k
        /\ \A i \in 1 .. k : Append(left(k - 1), path[k])[i] = path[i]
    <3> HIDE DEF left
    <3> QED BY <2>1, <2>2, <2>3
  <2>5. left(k) = Append(left(k - 1), path[k])
    <3> DEFINE u == left(k)
               v == Append(left(k - 1), path[k])
    <3>1. u \in Seq(Names) /\ v \in Seq(Names) /\ Len(u) = Len(v) /\ Len(u) \in Nat
          /\ \A i \in 1 .. Len(u) : u[i] = v[i]
      BY <2>2, <2>3, <2>4
    <3> HIDE DEF u, v
    <3>2. u = v
      BY <3>1
    <3> QED BY <3>2 DEF u, v
  <2>6. Append(left(k - 1), path[k]) # <<>> /\ Front(Append(left(k - 1), path[k])) = left(k - 1)
    <3> HIDE DEF left
    <3> QED BY <2>1, <2>2, AppendIs
  <2> QED BY <2>1, <2>2, <2>5, <2>6
<1>5. answer(0) = 0
  <2>1. left(0) = <<>>
    BY <1>1, <1>3
  <2> QED BY <1>2, <2>1
<1>6. ASSUME NEW k \in 1 .. N
      PROVE  answer(k) = IF answer(k - 1) = NotFound THEN NotFound
                         ELSE Search(blocks[answer(k - 1)].data, path[k])
  <2>1. /\ path[k] \in Names /\ left(k) = Append(left(k - 1), path[k])
        /\ left(k) # <<>> /\ Front(left(k)) = left(k - 1)
    BY <1>4
  <2> HIDE DEF left
  <2>2. CASE left(k - 1) \in T
    <3>1. answer(k - 1) = at[left(k - 1)] /\ at[left(k - 1)] # NotFound
      <4>1. at[left(k - 1)] \in Blocks
        BY <1>2, <2>2
      <4>2. NotFound \notin Blocks
        BY DEF NotFound, Blocks
      <4> QED BY <2>2, <4>1, <4>2
    <3>2. Search(blocks[at[left(k - 1)]].data, path[k]) = answer(k)
      BY <2>1, <2>2, SearchFinds
    <3> QED BY <3>1, <3>2
  <2>3. CASE left(k - 1) \notin T
    BY <1>2, <2>1, <2>3
  <2> QED BY <2>2, <2>3
<1> HIDE DEF answer
<1>7. g = [k \in 0 .. N |->
             IF k = 0 THEN 0
             ELSE LET above == g[k - 1]
                  IN  IF above = NotFound THEN NotFound
                      ELSE Search(blocks[above].data, path[k])]
  <2>1. ASSUME NEW k \in 0 .. N
        PROVE  g[k] = IF k = 0 THEN 0
                      ELSE LET above == g[k - 1]
                           IN  IF above = NotFound THEN NotFound
                               ELSE Search(blocks[above].data, path[k])
    <3>1. CASE k = 0
      BY <1>5, <3>1
    <3>2. CASE k # 0
      <4>1. k \in 1 .. N /\ k - 1 \in 0 .. N
        BY <1>1, <3>2
      <4>2. g[k] = answer(k) /\ g[k - 1] = answer(k - 1)
        BY <4>1
      <4> QED BY <1>6, <3>2, <4>1, <4>2
    <3> QED BY <3>1, <3>2
  <2>2. g = [k \in 0 .. N |-> g[k]]
    OBVIOUS
  <2> HIDE DEF g, N
  <2> QED BY <2>1, <2>2
<1>8. L = [k \in 0 .. N |->
             IF k = 0 THEN 0
             ELSE LET above == L[k - 1]
                  IN  IF above = NotFound THEN NotFound
                      ELSE Search(blocks[above].data, path[k])]
  <2> HIDE DEF g, N
  <2> QED BY <1>7
<1>9. dev_get_entry_block(path) = L[N]
  BY DEF dev_get_entry_block
<1> HIDE DEF L
<1> DEFINE Z == {k \in 0 .. N : L[k] = answer(k)}
<1>10. 0 .. N \subseteq Z
  <2>1. 0 \in Z
    <3>1. L[0] = 0
      BY <1>1, <1>8
    <3> QED BY <1>1, <1>5, <3>1
  <2>2. ASSUME NEW k \in 1 .. N, k - 1 \in Z PROVE k \in Z
    <3>1. L[k] = IF L[k - 1] = NotFound THEN NotFound
                 ELSE Search(blocks[L[k - 1]].data, path[k])
      BY <1>1, <1>8
    <3> QED BY <1>6, <2>2, <3>1
  <2> HIDE DEF Z, N
  <2> QED BY <1>1, <2>1, <2>2, GoesOn
<1>11. L[N] = answer(N) /\ left(N) = path
  <2>1. L[N] = answer(N)
    BY <1>1, <1>10
  <2>2. left(N) = path
    BY <1>1, <1>3
  <2> QED BY <2>1, <2>2
<1> QED BY <1>9, <1>11 DEF answer

(* The loop of dev_create stops at the last entry of the list.             *)
LEMMA LastIs ==
  ASSUME TypeOK, NEW T, NEW at, NEW under, StandsFor(T, at, under), NEW p \in T,
         under[p] # <<>>
  PROVE  LastEntry(blocks[at[p]].data) = at[under[p][Len(under[p])]]
<1> DEFINE list == under[p]
<1>0. PICK L : LastLoop(L)
  BY LastUnfolds
<1>1. /\ \A first : LastEntry(first) = L[BlockNum][first]
      /\ \A n \in 0 .. BlockNum : \A b \in Blocks :
            L[n][b] = IF n = 0 \/ blocks[b].next = 0 THEN b
                      ELSE L[n - 1][blocks[b].next]
  BY <1>0 DEF LastLoop
<1>2. /\ list \in Seq(T) /\ Len(list) \in Nat /\ Len(list) < BlockNum
      /\ \A i \in 1 .. Len(list) : at[list[i]] \in Blocks /\ at[list[i]] # 0
  BY ListIs
<1>3. /\ blocks[at[p]].data = at[list[1]]
      /\ \A i \in 1 .. Len(list) :
           blocks[at[list[i]]].next = IF i = Len(list) THEN 0 ELSE at[list[i + 1]]
  BY LinksAre DEF FirstOf
<1>4. BlockNum \in Nat /\ Len(list) # 0
  BY <1>2, DevFsAssumption
<1> HIDE DEF list
<1> DEFINE Right(n, i) == L[n][at[list[i]]] = at[list[Len(list)]]
           Z == {n \in 0 .. BlockNum : \A i \in 1 .. Len(list) : Len(list) - i <= n => Right(n, i)}
<1>5. 0 .. BlockNum \subseteq Z
  <2>1. 0 \in Z
    <3> SUFFICES ASSUME NEW i \in 1 .. Len(list), Len(list) - i <= 0 PROVE Right(0, i)
      BY <1>4
    <3>1. i = Len(list)
      BY <1>2
    <3>2. L[0][at[list[i]]] = at[list[i]]
      BY <1>1, <1>2, <1>4
    <3> QED BY <3>1, <3>2
  <2>2. ASSUME NEW n \in 1 .. BlockNum, n - 1 \in Z PROVE n \in Z
    <3> SUFFICES ASSUME NEW i \in 1 .. Len(list), Len(list) - i <= n PROVE Right(n, i)
      OBVIOUS
    <3>1. CASE i = Len(list)
      <4>1. L[n][at[list[i]]] = at[list[i]]
        BY <1>1, <1>2, <1>3, <3>1
      <4> QED BY <3>1, <4>1
    <3>2. CASE i # Len(list)
      <4>1. i + 1 \in 1 .. Len(list) /\ Len(list) - (i + 1) <= n - 1
        BY <1>2, <3>2
      <4>2. L[n][at[list[i]]] = L[n - 1][at[list[i + 1]]]
        BY <1>1, <1>2, <1>3, <3>2, <4>1
      <4> QED BY <2>2, <4>1, <4>2
    <3> QED BY <3>1, <3>2
  <2> HIDE DEF Z
  <2> QED BY <1>4, <2>1, <2>2, GoesOn
<1>6. Right(BlockNum, 1)
  <2>1. 1 \in 1 .. Len(list) /\ Len(list) - 1 <= BlockNum /\ BlockNum \in 0 .. BlockNum
    BY <1>2, <1>4
  <2> HIDE DEF Right
  <2> QED BY <1>5, <2>1
<1> QED BY <1>1, <1>3, <1>6 DEF list

(* The entries of a directory are those of its list.                       *)
LEMMA EntriesAre ==
  ASSUME TypeOK, NEW T, NEW at, NEW under, StandsFor(T, at, under), NEW p \in T
  PROVE  Entries(at[p]) = {at[under[p][i]] : i \in 1 .. Len(under[p])}
<1> DEFINE list == under[p]
<1>0. PICK L : EntriesLoop(L)
  BY EntriesUnfold
<1>1. /\ \A dir : Entries(dir) = L[BlockNum][blocks[dir].data]
      /\ \A n \in 0 .. BlockNum : \A b \in Blocks :
           /\ n = 0 \/ b = 0 => L[n][b] = {}
           /\ n # 0 /\ b # 0 => L[n][b] = {b} \cup L[n - 1][blocks[b].next]
  BY <1>0, Zenon DEF EntriesLoop
<1>2. /\ list \in Seq(T) /\ Len(list) \in Nat /\ Len(list) < BlockNum
      /\ \A i \in 1 .. Len(list) : at[list[i]] \in Blocks /\ at[list[i]] # 0
  BY ListIs
<1>3. /\ blocks[at[p]].data = FirstOf(list, at)
      /\ \A i \in 1 .. Len(list) :
           blocks[at[list[i]]].next = IF i = Len(list) THEN 0 ELSE at[list[i + 1]]
  BY LinksAre
<1>4. BlockNum \in Nat /\ 0 \in Blocks
  BY DevFsAssumption DEF Blocks
<1> HIDE DEF list
<1> DEFINE Rest(i) == {at[list[j]] : j \in i .. Len(list)}
           Right(n, i) == L[n][at[list[i]]] = Rest(i)
           Z == {n \in 0 .. BlockNum : \A i \in 1 .. Len(list) : Len(list) - i < n => Right(n, i)}
<1>5. 0 .. BlockNum \subseteq Z
  <2>1. 0 \in Z
    <3>1. \A i \in 1 .. Len(list) : ~(Len(list) - i < 0)
      BY <1>2
    <3> HIDE DEF Right
    <3> QED BY <1>4, <3>1
  <2>2. ASSUME NEW n \in 1 .. BlockNum, n - 1 \in Z PROVE n \in Z
    <3> SUFFICES ASSUME NEW i \in 1 .. Len(list), Len(list) - i < n PROVE Right(n, i)
      <4> HIDE DEF Right
      <4> QED OBVIOUS
    <3>1. L[n][at[list[i]]] = {at[list[i]]} \cup L[n - 1][blocks[at[list[i]]].next]
      <4>1. n \in 0 .. BlockNum /\ n # 0 /\ at[list[i]] \in Blocks /\ at[list[i]] # 0
        BY <1>2, <1>4
      <4> QED BY <1>1, <4>1, Zenon
    <3>2. CASE i = Len(list)
      <4>1. n - 1 \in 0 .. BlockNum /\ blocks[at[list[i]]].next = 0
        BY <1>3, <1>4, <3>2
      <4>3. L[n - 1][blocks[at[list[i]]].next] = {}
        BY <1>1, <1>4, <4>1, Zenon
      <4>2. i .. Len(list) = {i}
        BY <3>2
      <4> QED BY <3>1, <4>3, <4>2
    <3>3. CASE i # Len(list)
      <4>1. i + 1 \in 1 .. Len(list) /\ Len(list) - (i + 1) < n - 1
        BY <1>2, <3>3
      <4>2. L[n - 1][at[list[i + 1]]] = Rest(i + 1)
        <5>1. Right(n - 1, i + 1)
          <6> HIDE DEF Right
          <6> QED BY <2>2, <4>1
        <5> QED BY <5>1
      <4>3. i .. Len(list) = {i} \cup (i + 1 .. Len(list))
        BY <1>2
      <4>4. Rest(i) = {at[list[i]]} \cup Rest(i + 1)
        BY <4>3
      <4> QED BY <1>3, <3>1, <3>3, <4>2, <4>4
    <3> QED BY <3>2, <3>3
  <2> HIDE DEF Z
  <2> QED BY <1>4, <2>1, <2>2, GoesOn
<1>6. CASE list = <<>>
  <2>1. 1 .. Len(list) = {}
    BY <1>6
  <2>2. L[BlockNum][0] = {}
    <3>1. BlockNum \in 0 .. BlockNum
      BY <1>4
    <3> QED BY <1>1, <1>4, <3>1, Zenon
  <2> QED BY <1>1, <1>3, <1>6, <2>1, <2>2 DEF FirstOf, list
<1>7. CASE list # <<>>
  <2>1. 1 \in 1 .. Len(list) /\ Len(list) - 1 < BlockNum /\ BlockNum \in 0 .. BlockNum
    <3>1. list \in Seq(T) /\ Len(list) \in Nat /\ Len(list) < BlockNum
      BY <1>2
    <3>2. Len(list) # 0
      BY <1>7, <3>1
    <3> QED BY <1>4, <3>1, <3>2
  <2>2. Right(BlockNum, 1)
    <3> HIDE DEF Right
    <3> QED BY <1>5, <2>1
  <2>3. Entries(at[p]) = Rest(1)
    BY <1>1, <1>3, <1>7, <2>2 DEF FirstOf
  <2> QED BY <2>3 DEF list
<1> QED BY <1>6, <1>7

-----------------------------------------------------------------------------
(* What the ramdisk stands for decides what is found, and that the links   *)
(* are sound.                                                              *)
Reads ==
  TypeOK => \A T, at, under : StandsFor(T, at, under) =>
    /\ Found = T
    /\ \A p \in Paths : dev_get_entry_block(p) = IF p \in T THEN at[p] ELSE NotFound
    /\ \A p \in T : under[p] # <<>> =>
         LastEntry(blocks[at[p]].data) = at[under[p][Len(under[p])]]
    /\ LinksSound

LEMMA AlwaysReads == Reads
<1> SUFFICES ASSUME TypeOK, NEW T, NEW at, NEW under, StandsFor(T, at, under)
             PROVE  /\ Found = T
                    /\ \A p \in Paths :
                         dev_get_entry_block(p) = IF p \in T THEN at[p] ELSE NotFound
                    /\ \A p \in T : under[p] # <<>> =>
                         LastEntry(blocks[at[p]].data) = at[under[p][Len(under[p])]]
                    /\ LinksSound
  BY DEF Reads
<1>1. \A p \in Paths : dev_get_entry_block(p) = IF p \in T THEN at[p] ELSE NotFound
  BY LookupIs
<1>2. \A p \in T : under[p] # <<>> =>
         LastEntry(blocks[at[p]].data) = at[under[p][Len(under[p])]]
  BY LastIs
<1>3. T \subseteq Paths /\ at \in [T -> Blocks] /\ NotFound \notin Blocks
  BY DEF StandsFor, Named, Placed, NotFound, Blocks
<1>4. Found = T
  BY <1>1, <1>3 DEF Found
<1>5. LinksSound
  <2>1. Reached = {at[p] : p \in T}
    <3>1. Reached = {dev_get_entry_block(p) : p \in T}
      BY <1>4 DEF Reached
    <3>2. \A p \in T : dev_get_entry_block(p) = at[p]
      BY <1>1, <1>3
    <3> QED BY <3>1, <3>2
  <2> SUFFICES ASSUME NEW p \in T
               PROVE  LET dir == at[p]
                          entries == Entries(dir)
                      IN  /\ blocks[dir].data # 0 => blocks[LastEntry(blocks[dir].data)].next = 0
                          /\ \A b \in entries :
                               /\ blocks[b].type # "empty"
                               /\ blocks[b].parent = dir
                               /\ \A c \in entries : blocks[c].name = blocks[b].name => c = b
    BY <2>1 DEF LinksSound
  <2> DEFINE list == under[p]
  <2>2. Entries(at[p]) = {at[list[i]] : i \in 1 .. Len(list)}
    BY EntriesAre
  <2>3. /\ list \in Seq(T) /\ Len(list) \in Nat
        /\ \A i \in 1 .. Len(list) :
             /\ list[i] \in T
             /\ \A j \in 1 .. Len(list) : Last(list[i]) = Last(list[j]) => i = j
    BY ListIs
  <2>4. /\ blocks[at[p]].data = FirstOf(list, at)
        /\ \A i \in 1 .. Len(list) :
             /\ blocks[at[list[i]]].name = Last(list[i])
             /\ blocks[at[list[i]]].next = IF i = Len(list) THEN 0 ELSE at[list[i + 1]]
    BY LinksAre
  <2>5. \A i \in 1 .. Len(list) :
          blocks[at[list[i]]].type # "empty" /\ blocks[at[list[i]]].parent = at[p]
    BY <2>3 DEF StandsFor, Linked
  <2>6. ASSUME blocks[at[p]].data # 0
        PROVE  blocks[LastEntry(blocks[at[p]].data)].next = 0
    <3>1. list # <<>>
      BY <2>4, <2>6 DEF FirstOf
    <3>2. LastEntry(blocks[at[p]].data) = at[list[Len(list)]]
      BY <1>2, <3>1
    <3>3. Len(list) \in 1 .. Len(list)
      <4>1. list \in Seq(T) /\ Len(list) \in Nat
        BY <2>3
      <4>2. Len(list) # 0
        BY <3>1, <4>1
      <4> QED BY <4>1, <4>2
    <3> QED BY <2>4, <3>2, <3>3
  <2>7. ASSUME NEW i \in 1 .. Len(list)
        PROVE  /\ blocks[at[list[i]]].type # "empty"
               /\ blocks[at[list[i]]].parent = at[p]
               /\ \A j \in 1 .. Len(list) :
                    blocks[at[list[j]]].name = blocks[at[list[i]]].name =>
                      at[list[j]] = at[list[i]]
    <3>1. \A j \in 1 .. Len(list) :
            blocks[at[list[j]]].name = blocks[at[list[i]]].name => j = i
      BY <2>3, <2>4
    <3> QED BY <2>5, <3>1
  <2> HIDE DEF list
  <2> QED BY <2>2, <2>6, <2>7
<1> QED BY <1>1, <1>2, <1>4, <1>5

LEMMA NextReads == Reads'
BY AlwaysReads, PTL

-----------------------------------------------------------------------------
(* The steps.  Whether a driver is installed and what a link names are no  *)
(* links.                                                                  *)
LinksOf(e) == [name |-> e.name, type |-> e.type, data |-> e.data, next |-> e.next,
               prev |-> e.prev, parent |-> e.parent]

LEMMA InitStands ==
  ASSUME Init
  PROVE  StandsFor({<<>>}, [p \in {<<>>} |-> 0], [p \in {<<>>} |-> <<>>])
<1> DEFINE T == {<<>>}
           at == [p \in {<<>>} |-> 0]
           under == [p \in {<<>>} |-> <<>>]
<1>1. 0 \in Blocks /\ MaxDepth \in Nat
  BY DevFsAssumption DEF Blocks
<1>2. Named(T)
  <2>1. <<>> \in Seq(Names) /\ Len(<<>>) <= MaxDepth
    BY <1>1
  <2> QED BY <2>1, PathsAre DEF Named
<1>3. Placed(T, at)
  BY <1>1 DEF Placed
<1>4. Listed(T, under)
  <2>1. under \in [T -> Seq(T)]
    OBVIOUS
  <2>2. \A p \in T : 1 .. Len(under[p]) = {}
    OBVIOUS
  <2> QED BY <2>1, <2>2 DEF Listed
<1>5. \A p \in T : Linked(p, under[p], at)
  <2>1. blocks[0] = Root
    BY <1>1 DEF Init
  <2>2. 1 .. Len(<<>>) = {}
    OBVIOUS
  <2> QED BY <2>1, <2>2 DEF Linked, FirstOf, Root, Empty
<1>6. RootAlone
  BY <1>1 DEF Init, RootAlone, Root, Empty
<1> QED BY <1>2, <1>3, <1>4, <1>5, <1>6 DEF StandsFor

LEMMA LinksSame ==
  ASSUME NEW T, NEW at, NEW under, StandsFor(T, at, under),
         \A b \in Blocks : LinksOf(blocks'[b]) = LinksOf(blocks[b])
  PROVE  StandsFor(T, at, under)'
<1>1. \A b \in Blocks :
        /\ blocks'[b].name = blocks[b].name /\ blocks'[b].type = blocks[b].type
        /\ blocks'[b].data = blocks[b].data /\ blocks'[b].next = blocks[b].next
        /\ blocks'[b].prev = blocks[b].prev /\ blocks'[b].parent = blocks[b].parent
  BY DEF LinksOf
<1>2. Named(T)' /\ Placed(T, at)' /\ Listed(T, under)'
  BY DEF StandsFor, Named, Placed, Listed
<1>3. ASSUME NEW p \in T PROVE Linked(p, under[p], at)'
  <2>1. Linked(p, under[p], at) /\ at[p] \in Blocks
    BY DEF StandsFor, Placed
  <2>2. \A i \in 1 .. Len(under[p]) : at[under[p][i]] \in Blocks
    BY ListIs
  <2> QED BY <1>1, <2>1, <2>2 DEF Linked
<1>4. RootAlone'
  <2>1. 0 \in Blocks
    BY DevFsAssumption DEF Blocks
  <2> QED BY <1>1, <2>1 DEF StandsFor, RootAlone
<1> QED BY <1>2, <1>3, <1>4 DEF StandsFor

(* The lowest free block holds no entry that can be found.                 *)
LEMMA FreeIs ==
  ASSUME NEW T, NEW at, NEW under, StandsFor(T, at, under), FreeBlocks # {}
  PROVE  /\ Min(FreeBlocks) \in Blocks /\ Min(FreeBlocks) # 0
         /\ \A p \in T : at[p] # Min(FreeBlocks)
<1>1. FreeBlocks \in SUBSET Nat
  BY DevFsAssumption DEF FreeBlocks, Blocks
<1>2. Min(FreeBlocks) \in FreeBlocks
  <2>1. \E x \in FreeBlocks : \A y \in FreeBlocks : x <= y
    BY <1>1, LeastExists
  <2> QED BY <2>1 DEF Min
<1>3. \A p \in T : blocks[at[p]].type # "empty"
  BY DEF StandsFor, Linked
<1>4. <<>> \in T /\ at[<<>>] = 0
  BY DEF StandsFor, Named, Placed
<1> QED BY <1>2, <1>3, <1>4 DEF FreeBlocks

(* What dev_create writes, in terms of what the ramdisk stands for.        *)
CreatedIs(at, list, dir, path, type, new) ==
  /\ blocks'[new].name = Last(path) /\ blocks'[new].type = type
  /\ blocks'[new].data = 0 /\ blocks'[new].next = 0 /\ blocks'[new].parent = at[dir]
  /\ blocks'[new].prev = IF list = <<>> THEN 0 ELSE at[list[Len(list)]]
  /\ list = <<>> => blocks'[at[dir]].data = new
  /\ list # <<>> => blocks'[at[list[Len(list)]]].next = new
  /\ \A b \in Blocks : b # new =>
       /\ blocks'[b].name = blocks[b].name /\ blocks'[b].type = blocks[b].type
       /\ blocks'[b].prev = blocks[b].prev /\ blocks'[b].parent = blocks[b].parent
       /\ list # <<>> \/ b # at[dir] => blocks'[b].data = blocks[b].data
       /\ list = <<>> \/ b # at[list[Len(list)]] => blocks'[b].next = blocks[b].next

LEMMA CreatedWrites ==
  ASSUME TypeOK, NEW T, NEW at, NEW under, StandsFor(T, at, under),
         NEW path \in Below, CreateAccepts(path), NEW type,
         \A b \in Blocks : LinksOf(blocks'[b]) = LinksOf(Created(path, type)[b])
  PROVE  /\ path \notin T /\ Front(path) \in T
         /\ CreatedIs(at, under[Front(path)], Front(path), path, type, Min(FreeBlocks))
<1> DEFINE dir == Front(path)
           list == under[dir]
           new == Min(FreeBlocks)
<1>1. /\ \A p \in Paths : dev_get_entry_block(p) = IF p \in T THEN at[p] ELSE NotFound
      /\ \A p \in T : under[p] # <<>> =>
           LastEntry(blocks[at[p]].data) = at[under[p][Len(under[p])]]
  BY AlwaysReads DEF Reads
<1>2. path \in Paths /\ path # <<>> /\ dir \in Paths
  <2>1. path \in Seq(Names) /\ Len(path) <= MaxDepth /\ path # <<>>
    BY PathsAre DEF Below
  <2>2. dir \in Seq(Names) /\ Len(dir) = Len(path) - 1
    BY <2>1, FrontIs
  <2>3. Len(dir) <= MaxDepth
    BY <2>1, <2>2, DevFsAssumption
  <2> QED BY <2>1, <2>2, <2>3, PathsAre
<1>3. path \notin T /\ dir \in T /\ dev_get_entry_block(dir) = at[dir]
  <2>1. at \in [T -> Blocks] /\ NotFound \notin Blocks
    BY DEF StandsFor, Placed, NotFound, Blocks
  <2>2. path \notin T
    BY <1>1, <1>2, <2>1 DEF CreateAccepts
  <2>3. dir \in T
    BY <1>1, <1>2 DEF CreateAccepts
  <2> QED BY <1>1, <1>2, <2>2, <2>3
<1>4. new \in Blocks /\ new # at[dir] /\ at[dir] \in Blocks
  BY <1>3, FreeIs DEF CreateAccepts, StandsFor, Placed
<1>5. blocks[at[dir]].data = FirstOf(list, at)
  BY <1>3, LinksAre
<1>6. list = <<>> \/ (/\ LastEntry(blocks[at[dir]].data) = at[list[Len(list)]]
                      /\ at[list[Len(list)]] \in Blocks /\ at[list[Len(list)]] # new
                      /\ at[list[1]] # 0)
  <2>1. /\ list \in Seq(T) /\ Len(list) \in Nat
        /\ \A i \in 1 .. Len(list) : list[i] \in T /\ at[list[i]] \in Blocks /\ at[list[i]] # 0
    BY <1>3, ListIs
  <2> SUFFICES ASSUME list # <<>>
               PROVE  /\ LastEntry(blocks[at[dir]].data) = at[list[Len(list)]]
                      /\ at[list[Len(list)]] \in Blocks /\ at[list[Len(list)]] # new
                      /\ at[list[1]] # 0
    OBVIOUS
  <2>2. Len(list) # 0
    <3> HIDE DEF list
    <3> QED BY <2>1
  <2>3. Len(list) \in 1 .. Len(list) /\ 1 \in 1 .. Len(list)
    BY <2>1, <2>2
  <2> QED BY <1>1, <1>3, <2>1, <2>3, FreeIs DEF CreateAccepts
<1> DEFINE first == blocks[at[dir]].data
           prev == IF first = 0 THEN 0 ELSE LastEntry(first)
           linked == IF first = 0 THEN [blocks EXCEPT ![at[dir]].data = new]
                     ELSE [blocks EXCEPT ![prev].next = new]
           entry == NewEntry(Last(path), type, prev, at[dir])
<1>7. Created(path, type) = [linked EXCEPT ![new] = entry]
  BY <1>3 DEF Created
<1>8. \A b \in Blocks :
        /\ blocks'[b].name = Created(path, type)[b].name
        /\ blocks'[b].type = Created(path, type)[b].type
        /\ blocks'[b].data = Created(path, type)[b].data
        /\ blocks'[b].next = Created(path, type)[b].next
        /\ blocks'[b].prev = Created(path, type)[b].prev
        /\ blocks'[b].parent = Created(path, type)[b].parent
  BY Zenon DEF LinksOf
<1>9. blocks \in [Blocks -> [name : Names \cup {"/"}, type : EntryTypes,
                         data : Blocks, next : Blocks, prev : Blocks,
                         parent : Blocks, handler : BOOLEAN, source : BOOLEAN]]
  BY DEF TypeOK
<1>10. /\ entry.name = Last(path) /\ entry.type = type /\ entry.data = 0
       /\ entry.next = 0 /\ entry.prev = prev /\ entry.parent = at[dir]
  BY DEF NewEntry, Empty
<1>11. /\ linked \in [Blocks -> [name : Names \cup {"/"}, type : EntryTypes,
                         data : Blocks, next : Blocks, prev : Blocks,
                         parent : Blocks, handler : BOOLEAN, source : BOOLEAN]]
       /\ list = <<>> => prev = 0 /\ linked = [blocks EXCEPT ![at[dir]].data = new]
       /\ list # <<>> => prev = at[list[Len(list)]] /\ linked = [blocks EXCEPT ![prev].next = new]
  <2>1. CASE list = <<>>
    <3>1. first = 0
      BY <1>5, <2>1 DEF FirstOf
    <3> HIDE DEF new, dir
    <3> QED BY <1>4, <1>9, <2>1, <3>1
  <2>2. CASE list # <<>>
    <3>1. first # 0 /\ LastEntry(first) = at[list[Len(list)]] /\ at[list[Len(list)]] \in Blocks
      BY <1>5, <1>6, <2>2 DEF FirstOf
    <3>2. prev = at[list[Len(list)]]
      BY <3>1
    <3> HIDE DEF new, dir, list
    <3> QED BY <1>4, <1>9, <2>2, <3>1, <3>2
  <2> QED BY <2>1, <2>2
<1> HIDE DEF new, dir, list, first, entry, linked, prev
<1>12. \A b \in Blocks : Created(path, type)[b] = IF b = new THEN entry ELSE linked[b]
  BY <1>7, <1>11
<1>13. CASE list = <<>>
  <2>1. \A b \in Blocks :
          /\ linked[b].name = blocks[b].name /\ linked[b].type = blocks[b].type
          /\ linked[b].prev = blocks[b].prev /\ linked[b].parent = blocks[b].parent
          /\ linked[b].next = blocks[b].next
          /\ linked[b].data = IF b = at[dir] THEN new ELSE blocks[b].data
    BY <1>4, <1>9, <1>11, <1>13
  <2>2. prev = 0
    BY <1>11, <1>13
  <2>3. CreatedIs(at, list, dir, path, type, new)
    BY <1>4, <1>8, <1>10, <1>12, <1>13, <2>1, <2>2 DEF CreatedIs
  <2> QED BY <1>3, <2>3 DEF new, dir, list
<1>14. CASE list # <<>>
  <2>1. prev \in Blocks /\ prev # new /\ prev = at[list[Len(list)]]
    BY <1>6, <1>11, <1>14
  <2>2. \A b \in Blocks :
          /\ linked[b].name = blocks[b].name /\ linked[b].type = blocks[b].type
          /\ linked[b].prev = blocks[b].prev /\ linked[b].parent = blocks[b].parent
          /\ linked[b].data = blocks[b].data
          /\ linked[b].next = IF b = prev THEN new ELSE blocks[b].next
    BY <1>9, <1>11, <1>14, <2>1
  <2>3. CreatedIs(at, list, dir, path, type, new)
    BY <1>4, <1>8, <1>10, <1>12, <1>14, <2>1, <2>2 DEF CreatedIs
  <2> QED BY <1>3, <2>3 DEF new, dir, list
<1> QED BY <1>13, <1>14

AtWith(T, at, path, new) == [q \in T \cup {path} |-> IF q = path THEN new ELSE at[q]]
UnderWith(T, under, path) ==
  [q \in T \cup {path} |-> IF q = path THEN <<>>
                           ELSE IF q = Front(path) THEN Append(under[q], path)
                           ELSE under[q]]

LEMMA CreatedStands ==
  ASSUME NEW T, NEW at, NEW under, StandsFor(T, at, under),
         NEW path \in Below, path \notin T, Front(path) \in T,
         NEW type, type # "empty", NEW new \in Blocks, new # 0, \A p \in T : at[p] # new,
         CreatedIs(at, under[Front(path)], Front(path), path, type, new)
  PROVE  StandsFor(T \cup {path}, AtWith(T, at, path, new), UnderWith(T, under, path))'
<1> DEFINE dir == Front(path)
           list == under[dir]
           T2 == T \cup {path}
           at2 == [q \in T2 |-> IF q = path THEN new ELSE at[q]]
           under2 == [q \in T2 |-> IF q = path THEN <<>>
                                   ELSE IF q = dir THEN Append(under[q], path) ELSE under[q]]
<1>1. path \in Paths /\ path # <<>> /\ dir \in T /\ dir # path
  BY DEF Below
<1>2. /\ T \subseteq Paths /\ <<>> \in T /\ \A q \in T : q # <<>> => Front(q) \in T
      /\ at \in [T -> Blocks] /\ at[<<>>] = 0
      /\ \A p \in T, q \in T : at[p] = at[q] => p = q
      /\ under \in [T -> Seq(T)]
  BY DEF StandsFor, Named, Placed, Listed
<1>3. \A q \in T : /\ q # path /\ at2[q] = at[q] /\ q \in T2
                   /\ under2[q] = IF q = dir THEN Append(under[q], path) ELSE under[q]
  BY <1>1
<1>4. at2[path] = new /\ under2[path] = <<>> /\ path \in T2
  BY <1>1
<1>5. \A q \in T : \A i \in 1 .. Len(under[q]) :
        /\ under[q][i] \in T /\ under[q][i] # <<>> /\ Front(under[q][i]) = q
        /\ at[under[q][i]] \in Blocks /\ at[under[q][i]] # new
        /\ \A j \in 1 .. Len(under[q]) : under[q][i] = under[q][j] => i = j
  <2> SUFFICES ASSUME NEW q \in T, NEW i \in 1 .. Len(under[q])
               PROVE  /\ under[q][i] \in T /\ under[q][i] # <<>> /\ Front(under[q][i]) = q
                      /\ at[under[q][i]] \in Blocks /\ at[under[q][i]] # new
                      /\ \A j \in 1 .. Len(under[q]) : under[q][i] = under[q][j] => i = j
    OBVIOUS
  <2>1. under[q][i] \in T
    BY ListIs
  <2> QED BY <1>2, <2>1 DEF StandsFor, Listed
<1>6. /\ list \in Seq(T) /\ Len(list) \in Nat
      /\ Append(list, path) \in Seq(T2) /\ Len(Append(list, path)) = Len(list) + 1
      /\ \A i \in 1 .. Len(list) : Append(list, path)[i] = list[i]
      /\ Append(list, path)[Len(list) + 1] = path
      /\ Append(list, path) # <<>>
  <2>1. list \in Seq(T) /\ list \in Seq(T2) /\ path \in T2
    BY <1>1, <1>2
  <2> HIDE DEF list, T2
  <2> QED BY <2>1
<1> HIDE DEF dir, list
<1>7. Named(T2)'
  BY <1>1, <1>2 DEF Named, dir
<1>8. Placed(T2, at2)'
  <2>1. at2 \in [T2 -> Blocks] /\ at2[<<>>] = 0
    BY <1>1, <1>2
  <2>2. \A p \in T2, q \in T2 : at2[p] = at2[q] => p = q
    BY <1>2, <1>3, <1>4
  <2> HIDE DEF at2, T2
  <2> QED BY <2>1, <2>2 DEF Placed
<1>9. \A q \in T2 : \/ q = path
                    \/ q = dir /\ q \in T /\ under2[q] = Append(list, path)
                    \/ q \in T /\ q # dir /\ under2[q] = under[q]
  <2> TAKE q \in T2
  <2>1. q = path \/ q \in T
    OBVIOUS
  <2> HIDE DEF under2, T2, at2
  <2> QED BY <1>3, <2>1 DEF list
<1>10. Listed(T2, under2)'
  <2>1. under2 \in [T2 -> Seq(T2)]
    <3>1. \A q \in T : under[q] \in Seq(T2)
      BY <1>2
    <3> QED BY <1>6, <3>1 DEF list
  <2> HIDE DEF under2, T2, at2
  <2>2. ASSUME NEW q \in T2, NEW i \in 1 .. Len(under2[q])
        PROVE  /\ under2[q][i] # <<>> /\ Front(under2[q][i]) = q
               /\ \A j \in 1 .. Len(under2[q]) : under2[q][i] = under2[q][j] => i = j
    <3>1. CASE q = path
      BY <1>4, <3>1
    <3>2. CASE q = dir /\ q \in T /\ under2[q] = Append(list, path)
      <4>1. \A j \in 1 .. Len(under2[q]) :
              \/ j \in 1 .. Len(list) /\ under2[q][j] = list[j]
              \/ j = Len(list) + 1 /\ under2[q][j] = path
        BY <1>6, <3>2
      <4>2. \A j \in 1 .. Len(list) : list[j] \in T /\ list[j] # <<>> /\ Front(list[j]) = q
              /\ \A k \in 1 .. Len(list) : list[j] = list[k] => j = k
        BY <1>5, <3>2 DEF list
      <4> QED BY <1>1, <3>2, <4>1, <4>2 DEF dir
    <3>3. CASE q \in T /\ q # dir /\ under2[q] = under[q]
      BY <1>5, <3>3
    <3> QED BY <1>9, <3>1, <3>2, <3>3
  <2>3. ASSUME NEW q \in T2, q # <<>>
        PROVE  \E i \in 1 .. Len(under2[Front(q)]) : under2[Front(q)][i] = q
    <3>1. CASE q = path
      <4>1. under2[dir] = Append(list, path)
        BY <1>1, <1>3 DEF list
      <4>2. Len(list) + 1 \in 1 .. Len(Append(list, path))
        BY <1>6
      <4> QED BY <1>6, <3>1, <4>1, <4>2 DEF dir
    <3>2. CASE q \in T
      <4>1. PICK i \in 1 .. Len(under[Front(q)]) : under[Front(q)][i] = q
        BY <2>3, <3>2 DEF StandsFor, Listed
      <4>2. Front(q) \in T
        BY <1>2, <2>3, <3>2
      <4>3. CASE Front(q) = dir
        <5>1. under2[Front(q)] = Append(list, path) /\ i \in 1 .. Len(list) /\ list[i] = q
          BY <1>3, <4>1, <4>2, <4>3 DEF list
        <5>2. i \in 1 .. Len(Append(list, path))
          BY <1>6, <5>1
        <5> QED BY <1>6, <5>1, <5>2
      <4>4. CASE Front(q) # dir
        BY <1>3, <4>1, <4>2, <4>4
      <4> QED BY <4>3, <4>4
    <3> QED BY <3>1, <3>2 DEF T2
  <2> QED BY <2>1, <2>2, <2>3 DEF Listed
<1>11. /\ blocks'[new].name = Last(path) /\ blocks'[new].type = type
       /\ blocks'[new].data = 0 /\ blocks'[new].next = 0 /\ blocks'[new].parent = at[dir]
       /\ blocks'[new].prev = IF list = <<>> THEN 0 ELSE at[list[Len(list)]]
       /\ list = <<>> => blocks'[at[dir]].data = new
       /\ list # <<>> => blocks'[at[list[Len(list)]]].next = new
       /\ \A b \in Blocks : b # new =>
            /\ blocks'[b].name = blocks[b].name /\ blocks'[b].type = blocks[b].type
            /\ blocks'[b].prev = blocks[b].prev /\ blocks'[b].parent = blocks[b].parent
            /\ list # <<>> \/ b # at[dir] => blocks'[b].data = blocks[b].data
            /\ list = <<>> \/ b # at[list[Len(list)]] => blocks'[b].next = blocks[b].next
  BY Zenon DEF CreatedIs, dir, list
<1>12. \A q \in T : Linked(q, under[q], at)
  BY DEF StandsFor
<1>13. list # <<>> => Len(list) \in 1 .. Len(list)
  BY <1>6
<1>14. /\ list = under[dir]
       /\ \A j \in 1 .. Len(list) : /\ list[j] \in T /\ at2[list[j]] = at[list[j]]
                                    /\ at[list[j]] \in Blocks /\ at[list[j]] # new
       /\ \A j \in 1 .. Len(list) : \A k \in 1 .. Len(list) :
            at[list[j]] = at[list[k]] => j = k
  <2>1. \A j \in 1 .. Len(list) : list[j] \in T /\ at[list[j]] \in Blocks /\ at[list[j]] # new
    BY <1>1, <1>5 DEF list
  <2>2. \A j \in 1 .. Len(list) : \A k \in 1 .. Len(list) : list[j] = list[k] => j = k
    BY <1>1, <1>5 DEF list
  <2>3. \A j \in 1 .. Len(list) : at2[list[j]] = at[list[j]]
    <3> HIDE DEF at2, T2, under2
    <3> QED BY <1>3, <2>1
  <2>4. \A j \in 1 .. Len(list) : \A k \in 1 .. Len(list) :
          at[list[j]] = at[list[k]] => j = k
    <3> SUFFICES ASSUME NEW j \in 1 .. Len(list), NEW k \in 1 .. Len(list),
                        at[list[j]] = at[list[k]]
                 PROVE  j = k
      OBVIOUS
    <3>1. list[j] \in T /\ list[k] \in T
      BY <2>1
    <3>2. list[j] = list[k]
      BY <1>2, <3>1, Zenon
    <3> QED BY <2>2, <3>2
  <2>5. list = under[dir]
    BY DEF list
  <2> HIDE DEF at2, T2, under2
  <2> QED BY <2>1, <2>3, <2>4, <2>5
<1> HIDE DEF at2, T2, under2
<1>15. Linked(path, <<>>, at2)'
  BY <1>4, <1>11 DEF Linked, FirstOf
<1>16. Linked(dir, Append(list, path), at2)'
  <2>1. /\ at2[dir] = at[dir] /\ at[dir] \in Blocks /\ at[dir] # new
        /\ Linked(dir, list, at)
    BY <1>1, <1>2, <1>3, <1>12 DEF list
  <2>2. blocks'[at2[dir]].type # "empty"
    BY <1>11, <2>1 DEF Linked
  <2>3. blocks'[at2[dir]].data = FirstOf(Append(list, path), at2)
    <3>1. CASE list = <<>>
      <4>1. Append(list, path)[1] = path
        BY <3>1
      <4> QED BY <1>4, <1>6, <1>11, <2>1, <3>1, <4>1 DEF FirstOf
    <3>2. CASE list # <<>>
      <4>1. 1 \in 1 .. Len(list)
        BY <1>6, <1>13, <3>2
      <4>2. blocks'[at2[dir]].data = at[list[1]]
        BY <1>11, <2>1, <3>2 DEF Linked, FirstOf
      <4> QED BY <1>6, <1>14, <4>1, <4>2 DEF FirstOf
    <3> QED BY <3>1, <3>2
  <2>4. ASSUME NEW i \in 1 .. Len(list)
        PROVE  /\ blocks'[at2[Append(list, path)[i]]].name = Last(Append(list, path)[i])
               /\ blocks'[at2[Append(list, path)[i]]].parent = at2[dir]
               /\ blocks'[at2[Append(list, path)[i]]].next = NextOf(Append(list, path), at2, i)
               /\ \/ blocks'[at2[Append(list, path)[i]]].prev = PrevOf(Append(list, path), at2, i)
                  \/ dir = <<>> /\ blocks'[at2[Append(list, path)[i]]].prev = 0
    <3>1. /\ Append(list, path)[i] = list[i] /\ at2[list[i]] = at[list[i]]
          /\ at[list[i]] \in Blocks /\ at[list[i]] # new
      BY <1>6, <1>14
    <3>2. /\ blocks[at[list[i]]].name = Last(list[i]) /\ blocks[at[list[i]]].parent = at[dir]
          /\ blocks[at[list[i]]].next = NextOf(list, at, i)
          /\ \/ blocks[at[list[i]]].prev = PrevOf(list, at, i)
             \/ dir = <<>> /\ blocks[at[list[i]]].prev = 0
      BY <2>1 DEF Linked
    <3>3. blocks'[at[list[i]]].next = NextOf(Append(list, path), at2, i)
      <4>0. list # <<>> /\ i # Len(Append(list, path)) /\ Len(list) \in 1 .. Len(list)
        BY <1>6, <1>13
      <4>1. CASE i = Len(list)
        <5>1. Append(list, path)[i + 1] = path
          BY <1>6, <4>1
        <5> QED BY <1>4, <1>11, <4>0, <4>1, <5>1 DEF NextOf
      <4>2. CASE i # Len(list)
        <5>1. i + 1 \in 1 .. Len(list)
          BY <1>6, <4>2
        <5>2. Append(list, path)[i + 1] = list[i + 1] /\ at2[list[i + 1]] = at[list[i + 1]]
          BY <1>6, <1>14, <5>1
        <5>3. at[list[i]] # at[list[Len(list)]]
          BY <1>14, <4>0, <4>2
        <5>4. blocks'[at[list[i]]].next = at[list[i + 1]]
          BY <1>11, <3>1, <3>2, <4>2, <5>3 DEF NextOf
        <5> QED BY <4>0, <5>2, <5>4 DEF NextOf
      <4> QED BY <4>1, <4>2
    <3>4. PrevOf(Append(list, path), at2, i) = PrevOf(list, at, i)
      <4>1. CASE i = 1
        BY <4>1 DEF PrevOf
      <4>2. CASE i # 1
        <5>1. i - 1 \in 1 .. Len(list)
          BY <1>6, <4>2
        <5> QED BY <1>6, <1>14, <4>2, <5>1 DEF PrevOf
      <4> QED BY <4>1, <4>2
    <3> QED BY <1>11, <2>1, <3>1, <3>2, <3>3, <3>4
  <2>5. /\ blocks'[at2[path]].name = Last(path) /\ blocks'[at2[path]].parent = at2[dir]
        /\ blocks'[at2[path]].next = NextOf(Append(list, path), at2, Len(list) + 1)
        /\ blocks'[at2[path]].prev = PrevOf(Append(list, path), at2, Len(list) + 1)
    <3>1. NextOf(Append(list, path), at2, Len(list) + 1) = 0
      BY <1>6 DEF NextOf
    <3>2. PrevOf(Append(list, path), at2, Len(list) + 1) =
            IF list = <<>> THEN 0 ELSE at[list[Len(list)]]
      <4>1. CASE list = <<>>
        BY <4>1 DEF PrevOf
      <4>2. CASE list # <<>>
        <5>1. Len(list) \in 1 .. Len(list) /\ Len(list) + 1 # 1 /\ Len(list) + 1 - 1 = Len(list)
          BY <1>6, <1>13, <4>2
        <5> QED BY <1>6, <1>14, <4>2, <5>1 DEF PrevOf
      <4> QED BY <4>1, <4>2
    <3> QED BY <1>4, <1>11, <2>1, <3>1, <3>2
  <2>6. \A i \in 1 .. Len(Append(list, path)) :
          i \in 1 .. Len(list) \/ (i = Len(list) + 1 /\ Append(list, path)[i] = path)
    BY <1>6
  <2> QED BY <2>2, <2>3, <2>4, <2>5, <2>6 DEF Linked
<1>17. ASSUME NEW q \in T, q # dir PROVE Linked(q, under[q], at2)'
  <2> DEFINE its == under[q]
  <2>1. /\ its \in Seq(T) /\ Len(its) \in Nat /\ Linked(q, its, at)
        /\ \A i \in 1 .. Len(its) :
             /\ its[i] \in T /\ Front(its[i]) = q /\ at2[its[i]] = at[its[i]]
             /\ at[its[i]] \in Blocks /\ at[its[i]] # new
    <3>1. \A i \in 1 .. Len(its) : its[i] \in T
      BY <1>5
    <3> QED BY <1>2, <1>3, <1>5, <1>12, <3>1
  <2> HIDE DEF its
  <2>2. at2[q] = at[q] /\ at[q] \in Blocks /\ at[q] # new /\ at[q] # at[dir]
    BY <1>1, <1>2, <1>3, <1>17
  <2>3. \A i \in 1 .. Len(its) : list = <<>> \/ at[its[i]] # at[list[Len(list)]]
    <3> SUFFICES ASSUME NEW i \in 1 .. Len(its), list # <<>>, at[its[i]] = at[list[Len(list)]]
                 PROVE  FALSE
      OBVIOUS
    <3>1. list[Len(list)] \in T /\ its[i] \in T /\ Front(list[Len(list)]) = dir
      BY <1>1, <1>5, <1>13, <1>14, <2>1
    <3>2. its[i] = list[Len(list)]
      BY <1>2, <3>1
    <3> QED BY <1>17, <2>1, <3>1, <3>2
  <2>4. blocks'[at2[q]].type # "empty"
    BY <1>11, <2>1, <2>2 DEF Linked
  <2>5. blocks'[at2[q]].data = FirstOf(its, at2)
    <3>1. blocks'[at2[q]].data = FirstOf(its, at)
      BY <1>11, <2>1, <2>2 DEF Linked
    <3>2. FirstOf(its, at) = FirstOf(its, at2)
      <4>1. its = <<>> \/ 1 \in 1 .. Len(its)
        BY <2>1
      <4> QED BY <2>1, <4>1 DEF FirstOf
    <3> QED BY <3>1, <3>2
  <2>6. ASSUME NEW i \in 1 .. Len(its)
        PROVE  /\ blocks'[at2[its[i]]].name = Last(its[i])
               /\ blocks'[at2[its[i]]].parent = at2[q]
               /\ blocks'[at2[its[i]]].next = NextOf(its, at2, i)
               /\ \/ blocks'[at2[its[i]]].prev = PrevOf(its, at2, i)
                  \/ q = <<>> /\ blocks'[at2[its[i]]].prev = 0
    <3>1. NextOf(its, at2, i) = NextOf(its, at, i) /\ PrevOf(its, at2, i) = PrevOf(its, at, i)
      <4>1. i = Len(its) \/ i + 1 \in 1 .. Len(its)
        BY <2>1
      <4>2. i = 1 \/ i - 1 \in 1 .. Len(its)
        BY <2>1
      <4> QED BY <2>1, <4>1, <4>2 DEF NextOf, PrevOf
    <3>2. /\ blocks[at[its[i]]].name = Last(its[i]) /\ blocks[at[its[i]]].parent = at[q]
          /\ blocks[at[its[i]]].next = NextOf(its, at, i)
          /\ \/ blocks[at[its[i]]].prev = PrevOf(its, at, i)
             \/ q = <<>> /\ blocks[at[its[i]]].prev = 0
      BY <2>1 DEF Linked
    <3> QED BY <1>11, <2>1, <2>2, <2>3, <3>1, <3>2
  <2>7. Linked(q, its, at2)'
    BY <2>4, <2>5, <2>6 DEF Linked
  <2> QED BY <2>7 DEF its
<1>18. \A q \in T2 : Linked(q, under2[q], at2)'
  BY <1>4, <1>9, <1>15, <1>16, <1>17
<1>19. RootAlone'
  <2>1. 0 \in Blocks /\ (list = <<>> \/ 0 # at[list[Len(list)]])
    <3>1. 0 \in Blocks
      BY DevFsAssumption DEF Blocks
    <3>2. list # <<>> => at[list[Len(list)]] # at[<<>>]
      BY <1>1, <1>2, <1>5, <1>13, <1>14
    <3> QED BY <1>2, <3>1, <3>2
  <2> QED BY <1>11, <2>1 DEF StandsFor, RootAlone
<1>20. StandsFor(T2, at2, under2)'
  BY <1>7, <1>8, <1>10, <1>18, <1>19 DEF StandsFor
<1> QED BY <1>20 DEF T2, at2, under2, dir, AtWith, UnderWith

-----------------------------------------------------------------------------
(* What dev_remove writes, block by block.                                 *)
EntrySet == [name : Names \cup {"/"}, type : EntryTypes, data : Blocks, next : Blocks,
             prev : Blocks, parent : Blocks, handler : BOOLEAN, source : BOOLEAN]

SameBut(e, f) == /\ f.name = e.name /\ f.type = e.type /\ f.parent = e.parent
                 /\ f.handler = e.handler

LEMMA EmptyTyped ==
  /\ Empty \in EntrySet /\ Root \in EntrySet
<1>1. 0 \in Blocks
  BY DevFsAssumption DEF Blocks
<1> QED BY <1>1 DEF EntrySet, Empty, Root, EntryTypes

LEMMA WithNext ==
  ASSUME NEW r \in EntrySet, NEW m \in Blocks, NEW e, e = [r EXCEPT !.next = m]
  PROVE  /\ e \in EntrySet /\ SameBut(r, e)
         /\ e.data = r.data /\ e.prev = r.prev /\ e.next = m
<1>1. r \in [name : Names \cup {"/"}, type : EntryTypes, data : Blocks, next : Blocks,
             prev : Blocks, parent : Blocks, handler : BOOLEAN, source : BOOLEAN]
  BY DEF EntrySet
<1>2. e \in EntrySet
  BY <1>1 DEF EntrySet
<1> QED BY <1>1, <1>2 DEF SameBut

LEMMA WithPrev ==
  ASSUME NEW r \in EntrySet, NEW m \in Blocks, NEW e, e = [r EXCEPT !.prev = m]
  PROVE  /\ e \in EntrySet /\ SameBut(r, e)
         /\ e.data = r.data /\ e.next = r.next /\ e.prev = m
<1>1. r \in [name : Names \cup {"/"}, type : EntryTypes, data : Blocks, next : Blocks,
             prev : Blocks, parent : Blocks, handler : BOOLEAN, source : BOOLEAN]
  BY DEF EntrySet
<1>2. e \in EntrySet
  BY <1>1 DEF EntrySet
<1> QED BY <1>1, <1>2 DEF SameBut

LEMMA RemovedAt ==
  ASSUME TypeOK, NEW c \in Blocks
  PROVE  LET e == blocks[c]
         IN  /\ Removed(c) \in [Blocks -> EntrySet]
             /\ \A b \in Blocks : b # c \/ e.next = 0 \/ e.prev = 0 =>
                  /\ SameBut(blocks[b], Removed(c)[b])
                  /\ Removed(c)[b].data =
                       IF e.parent # 0 /\ e.prev = 0 /\ b = e.parent THEN e.next
                       ELSE blocks[b].data
                  /\ Removed(c)[b].next =
                       IF e.prev # 0 /\ b = e.prev THEN e.next ELSE blocks[b].next
                  /\ Removed(c)[b].prev =
                       IF e.next # 0 /\ b = e.next THEN e.prev ELSE blocks[b].prev
<1> DEFINE e == blocks[c]
           onParent == IF e.parent # 0 /\ e.prev = 0
                       THEN [blocks EXCEPT ![e.parent].data = e.next] ELSE blocks
           onPrev == IF e.prev # 0 THEN [onParent EXCEPT ![e.prev].next = e.next] ELSE onParent
           onNext == IF e.next # 0 THEN [onPrev EXCEPT ![e.next].prev = e.prev] ELSE onPrev
           done == IF e.next # 0 /\ e.prev # 0 THEN [onNext EXCEPT ![c] = Empty] ELSE onNext
<1>1. blocks \in [Blocks -> EntrySet]
  BY DEF TypeOK, EntrySet
<1>2. e \in EntrySet /\ \A n \in Blocks : n > 0 <=> n # 0
  BY <1>1, DevFsAssumption DEF Blocks
<1>3. /\ e.next \in Blocks /\ e.prev \in Blocks /\ e.parent \in Blocks
      /\ (e.next > 0 <=> e.next # 0) /\ (e.prev > 0 <=> e.prev # 0)
      /\ (e.parent > 0 <=> e.parent # 0)
  BY <1>2 DEF EntrySet
<1>4. Removed(c) = done
  BY <1>3, Zenon DEF Removed
<1> HIDE DEF e, onPrev, onNext, done
<1>5. /\ onParent \in [Blocks -> EntrySet]
      /\ \A b \in Blocks :
           /\ SameBut(blocks[b], onParent[b])
           /\ onParent[b].next = blocks[b].next /\ onParent[b].prev = blocks[b].prev
           /\ onParent[b].data = IF e.parent # 0 /\ e.prev = 0 /\ b = e.parent THEN e.next
                                 ELSE blocks[b].data
  BY <1>1, <1>3 DEF EntrySet, SameBut
<1> HIDE DEF onParent
<1>6. /\ onPrev \in [Blocks -> EntrySet]
      /\ \A b \in Blocks :
           /\ SameBut(onParent[b], onPrev[b])
           /\ onPrev[b].data = onParent[b].data /\ onPrev[b].prev = onParent[b].prev
           /\ onPrev[b].next = IF e.prev # 0 /\ b = e.prev THEN e.next ELSE onParent[b].next
  <2>1. CASE e.prev = 0
    BY <1>5, <2>1 DEF onPrev, SameBut
  <2>2. CASE e.prev # 0
    <3>1. onPrev = [onParent EXCEPT ![e.prev].next = e.next]
      BY <2>2 DEF onPrev
    <3>2. \A b \in Blocks : /\ onParent[b] \in EntrySet
                            /\ onPrev[b] = IF b = e.prev THEN [onParent[b] EXCEPT !.next = e.next]
                                           ELSE onParent[b]
      BY <1>5, <3>1
    <3>3. \A b \in Blocks :
            /\ onPrev[b] \in EntrySet /\ SameBut(onParent[b], onPrev[b])
            /\ onPrev[b].data = onParent[b].data /\ onPrev[b].prev = onParent[b].prev
            /\ onPrev[b].next = IF b = e.prev THEN e.next ELSE onParent[b].next
      <4> SUFFICES ASSUME NEW b \in Blocks
                   PROVE  /\ onPrev[b] \in EntrySet /\ SameBut(onParent[b], onPrev[b])
                          /\ onPrev[b].data = onParent[b].data /\ onPrev[b].prev = onParent[b].prev
                          /\ onPrev[b].next = IF b = e.prev THEN e.next ELSE onParent[b].next
        OBVIOUS
      <4>1. CASE b = e.prev
        <5>1. onParent[b] \in EntrySet /\ onPrev[b] = [onParent[b] EXCEPT !.next = e.next]
          BY <3>2, <4>1
        <5> DEFINE r == onParent[b]
                   m == e.next
                   w == onPrev[b]
        <5>2. r \in EntrySet /\ m \in Blocks /\ w = [r EXCEPT !.next = m]
          BY <1>3, <5>1
        <5> HIDE DEF r, m, w
        <5>3. w \in EntrySet /\ SameBut(r, w) /\ w.data = r.data /\ w.prev = r.prev /\ w.next = m
          BY <5>2, WithNext
        <5> QED BY <4>1, <5>3 DEF r, m, w
      <4>2. CASE b # e.prev
        BY <3>2, <4>2 DEF SameBut
      <4> QED BY <4>1, <4>2
    <3>4. onPrev \in [Blocks -> EntrySet]
      <4>1. onPrev = [b \in Blocks |-> onPrev[b]]
        BY <1>5, <3>1
      <4> QED BY <3>3, <4>1
    <3> QED BY <2>2, <3>3, <3>4
  <2> QED BY <2>1, <2>2
<1>7. /\ onNext \in [Blocks -> EntrySet]
      /\ \A b \in Blocks :
           /\ SameBut(onPrev[b], onNext[b])
           /\ onNext[b].data = onPrev[b].data /\ onNext[b].next = onPrev[b].next
           /\ onNext[b].prev = IF e.next # 0 /\ b = e.next THEN e.prev ELSE onPrev[b].prev
  <2>1. CASE e.next = 0
    BY <1>6, <2>1 DEF onNext, SameBut
  <2>2. CASE e.next # 0
    <3>1. onNext = [onPrev EXCEPT ![e.next].prev = e.prev]
      BY <2>2 DEF onNext
    <3>2. \A b \in Blocks : /\ onPrev[b] \in EntrySet
                            /\ onNext[b] = IF b = e.next THEN [onPrev[b] EXCEPT !.prev = e.prev]
                                           ELSE onPrev[b]
      BY <1>6, <3>1
    <3>3. \A b \in Blocks :
            /\ onNext[b] \in EntrySet /\ SameBut(onPrev[b], onNext[b])
            /\ onNext[b].data = onPrev[b].data /\ onNext[b].next = onPrev[b].next
            /\ onNext[b].prev = IF b = e.next THEN e.prev ELSE onPrev[b].prev
      <4> SUFFICES ASSUME NEW b \in Blocks
                   PROVE  /\ onNext[b] \in EntrySet /\ SameBut(onPrev[b], onNext[b])
                          /\ onNext[b].data = onPrev[b].data /\ onNext[b].next = onPrev[b].next
                          /\ onNext[b].prev = IF b = e.next THEN e.prev ELSE onPrev[b].prev
        OBVIOUS
      <4>1. CASE b = e.next
        <5>1. onPrev[b] \in EntrySet /\ onNext[b] = [onPrev[b] EXCEPT !.prev = e.prev]
          BY <3>2, <4>1
        <5> DEFINE r == onPrev[b]
                   m == e.prev
                   w == onNext[b]
        <5>2. r \in EntrySet /\ m \in Blocks /\ w = [r EXCEPT !.prev = m]
          BY <1>3, <5>1
        <5> HIDE DEF r, m, w
        <5>3. w \in EntrySet /\ SameBut(r, w) /\ w.data = r.data /\ w.next = r.next /\ w.prev = m
          BY <5>2, WithPrev
        <5> QED BY <4>1, <5>3 DEF r, m, w
      <4>2. CASE b # e.next
        BY <3>2, <4>2 DEF SameBut
      <4> QED BY <4>1, <4>2
    <3>4. onNext \in [Blocks -> EntrySet]
      <4>1. onNext = [b \in Blocks |-> onNext[b]]
        BY <1>6, <3>1
      <4> QED BY <3>3, <4>1
    <3> QED BY <2>2, <3>3, <3>4
  <2> QED BY <2>1, <2>2
<1>8. /\ done \in [Blocks -> EntrySet]
      /\ \A b \in Blocks : b # c \/ e.next = 0 \/ e.prev = 0 => done[b] = onNext[b]
  BY <1>7, EmptyTyped DEF done
<1>9. ASSUME NEW b \in Blocks, b # c \/ e.next = 0 \/ e.prev = 0
      PROVE  /\ SameBut(blocks[b], done[b])
             /\ done[b].data = IF e.parent # 0 /\ e.prev = 0 /\ b = e.parent THEN e.next
                               ELSE blocks[b].data
             /\ done[b].next = IF e.prev # 0 /\ b = e.prev THEN e.next ELSE blocks[b].next
             /\ done[b].prev = IF e.next # 0 /\ b = e.next THEN e.prev ELSE blocks[b].prev
  BY <1>5, <1>6, <1>7, <1>8, <1>9 DEF SameBut
<1> QED BY <1>4, <1>8, <1>9 DEF e

(* In terms of what the ramdisk stands for.  The first entry of the root,  *)
(* and one whose previous is missing, stay.                                *)
StaysIs(list, at) ==
  \A b \in Blocks :
    /\ SameBut(blocks[b], blocks'[b])
    /\ blocks'[b].data = blocks[b].data /\ blocks'[b].next = blocks[b].next
    /\ \/ blocks'[b].prev = blocks[b].prev
       \/ blocks'[b].prev = 0 /\ \E j \in 1 .. Len(list) : b = at[list[j]]

RemovedIs(at, dir, list, i) ==
  \A b \in Blocks : b # at[list[i]] =>
    /\ SameBut(blocks[b], blocks'[b])
    /\ blocks'[b].data = IF i = 1 /\ b = at[dir] THEN NextOf(list, at, 1)
                         ELSE blocks[b].data
    /\ blocks'[b].next = IF i # 1 /\ b = at[list[i - 1]] THEN NextOf(list, at, i)
                         ELSE blocks[b].next
    /\ blocks'[b].prev = IF i # Len(list) /\ b = at[list[i + 1]] THEN PrevOf(list, at, i)
                         ELSE blocks[b].prev

(* dev_remove takes an entry out of its directory unless its parent is the *)
(* root and it has no previous entry.                                      *)
Stays(b) == blocks[b].parent = 0 /\ blocks[b].prev = 0

LEMMA RemovedWrites ==
  ASSUME TypeOK, NEW T, NEW at, NEW under, StandsFor(T, at, under),
         NEW dir \in T, NEW i \in 1 .. Len(under[dir]),
         blocks' = Removed(at[under[dir][i]])
  PROVE  IF Stays(at[under[dir][i]])
         THEN dir = <<>> /\ StaysIs(under[dir], at)
         ELSE RemovedIs(at, dir, under[dir], i)
<1> DEFINE list == under[dir]
           c == at[list[i]]
           e == blocks[c]
<1>1. /\ Len(list) \in Nat
      /\ \A j \in 1 .. Len(list) : list[j] \in T /\ at[list[j]] \in Blocks /\ at[list[j]] # 0
  BY ListIs
<1>2. /\ e.parent = at[dir] /\ e.next = NextOf(list, at, i)
      /\ e.prev = PrevOf(list, at, i) \/ (dir = <<>> /\ e.prev = 0)
  <2>1. Linked(dir, list, at)
    BY DEF StandsFor
  <2> QED BY <2>1 DEF Linked
<1>3. c \in Blocks
  BY <1>1
<1>4. \A b \in Blocks : b # c \/ e.next = 0 \/ e.prev = 0 =>
        /\ SameBut(blocks[b], blocks'[b])
        /\ blocks'[b].data = IF e.parent # 0 /\ e.prev = 0 /\ b = e.parent THEN e.next
                             ELSE blocks[b].data
        /\ blocks'[b].next = IF e.prev # 0 /\ b = e.prev THEN e.next ELSE blocks[b].next
        /\ blocks'[b].prev = IF e.next # 0 /\ b = e.next THEN e.prev ELSE blocks[b].prev
  <2> HIDE DEF c
  <2>1. blocks' = Removed(c)
    BY DEF c
  <2> QED BY <1>3, <2>1, RemovedAt
<1>5. /\ NextOf(list, at, i) # 0 <=> i # Len(list)
      /\ i # Len(list) => i + 1 \in 1 .. Len(list) /\ NextOf(list, at, i) = at[list[i + 1]]
  <2>1. i # Len(list) => i + 1 \in 1 .. Len(list)
    BY <1>1
  <2> QED BY <1>1, <2>1 DEF NextOf
<1>6. /\ PrevOf(list, at, i) # 0 <=> i # 1
      /\ i # 1 => PrevOf(list, at, i) = at[list[i - 1]]
  <2>1. i # 1 => i - 1 \in 1 .. Len(list)
    BY <1>1
  <2> QED BY <1>1, <2>1 DEF PrevOf
<1>7. at[dir] = 0 <=> dir = <<>>
  BY DEF StandsFor, Named, Placed
<1>10. Stays(at[under[dir][i]]) <=> dir = <<>> /\ e.prev = 0
  BY <1>2, <1>7 DEF Stays
<1> HIDE DEF list, c, e
<1>8. ASSUME dir = <<>> /\ e.prev = 0
      PROVE  dir = <<>> /\ StaysIs(under[dir], at)
  <2>1. ASSUME NEW b \in Blocks
        PROVE  /\ SameBut(blocks[b], blocks'[b])
               /\ blocks'[b].data = blocks[b].data /\ blocks'[b].next = blocks[b].next
               /\ \/ blocks'[b].prev = blocks[b].prev
                  \/ blocks'[b].prev = 0 /\ \E j \in 1 .. Len(list) : b = at[list[j]]
    BY <1>2, <1>4, <1>5, <1>7, <1>8
  <2> QED BY <1>8, <2>1 DEF StaysIs, list
<1>9. ASSUME ~(dir = <<>> /\ e.prev = 0)
      PROVE  RemovedIs(at, dir, under[dir], i)
  <2>1. e.prev = PrevOf(list, at, i)
    BY <1>2, <1>9
  <2>2. e.prev = 0 => i = 1 /\ e.parent # 0
    BY <1>2, <1>6, <1>7, <1>9, <2>1
  <2>3. ASSUME NEW b \in Blocks, b # at[list[i]]
        PROVE  /\ SameBut(blocks[b], blocks'[b])
               /\ blocks'[b].data = IF i = 1 /\ b = at[dir] THEN NextOf(list, at, 1)
                                    ELSE blocks[b].data
               /\ blocks'[b].next = IF i # 1 /\ b = at[list[i - 1]] THEN NextOf(list, at, i)
                                    ELSE blocks[b].next
               /\ blocks'[b].prev = IF i # Len(list) /\ b = at[list[i + 1]]
                                    THEN PrevOf(list, at, i) ELSE blocks[b].prev
    BY <1>2, <1>4, <1>5, <1>6, <2>1, <2>2, <2>3 DEF c
  <2> QED BY <2>3 DEF RemovedIs, list
<1> QED BY <1>8, <1>9, <1>10

LEMMA StaysStands ==
  ASSUME NEW T, NEW at, NEW under, StandsFor(T, at, under), <<>> \in T,
         StaysIs(under[<<>>], at)
  PROVE  StandsFor(T, at, under)'
<1>1. \A b \in Blocks :
        /\ blocks'[b].name = blocks[b].name /\ blocks'[b].type = blocks[b].type
        /\ blocks'[b].data = blocks[b].data /\ blocks'[b].next = blocks[b].next
        /\ blocks'[b].parent = blocks[b].parent
        /\ \/ blocks'[b].prev = blocks[b].prev
           \/ /\ blocks'[b].prev = 0
              /\ \E j \in 1 .. Len(under[<<>>]) : b = at[under[<<>>][j]]
  BY Zenon DEF StaysIs, SameBut
<1>2. Named(T)' /\ Placed(T, at)' /\ Listed(T, under)'
  BY DEF StandsFor, Named, Placed, Listed
<1>3. ASSUME NEW p \in T PROVE Linked(p, under[p], at)'
  <2>1. Linked(p, under[p], at) /\ at[p] \in Blocks
    BY DEF StandsFor, Placed
  <2>2. \A i \in 1 .. Len(under[p]) : at[under[p][i]] \in Blocks
    BY ListIs
  <2>3. ASSUME NEW i \in 1 .. Len(under[p])
        PROVE  \/ blocks'[at[under[p][i]]].prev = PrevOf(under[p], at, i)
               \/ p = <<>> /\ blocks'[at[under[p][i]]].prev = 0
    <3>1. \/ blocks[at[under[p][i]]].prev = PrevOf(under[p], at, i)
          \/ p = <<>> /\ blocks[at[under[p][i]]].prev = 0
      BY <2>1 DEF Linked
    <3>2. CASE p = <<>>
      BY <1>1, <2>2, <3>1, <3>2
    <3>3. CASE p # <<>>
      <4>1. \A j \in 1 .. Len(under[<<>>]) : at[under[p][i]] # at[under[<<>>][j]]
        <5> SUFFICES ASSUME NEW j \in 1 .. Len(under[<<>>]),
                            at[under[p][i]] = at[under[<<>>][j]]
                     PROVE  FALSE
          OBVIOUS
        <5>1. under[p][i] \in T /\ under[<<>>][j] \in T
          BY ListIs
        <5>2. under[p][i] = under[<<>>][j]
          BY <5>1 DEF StandsFor, Placed
        <5> QED BY <3>3, <5>2 DEF StandsFor, Listed
      <4> QED BY <1>1, <2>2, <3>1, <3>3, <4>1
    <3> QED BY <3>2, <3>3
  <2> QED BY <1>1, <2>1, <2>2, <2>3 DEF Linked
<1>4. RootAlone'
  <2>1. 0 \in Blocks
    BY DevFsAssumption DEF Blocks
  <2> QED BY <1>1, <2>1 DEF StandsFor, RootAlone
<1> QED BY <1>2, <1>3, <1>4 DEF StandsFor

(* The names left when p goes with all that lies under it.                 *)
Left(T, p) == {q \in T : ~IsPrefix(p, q)}
Without(list, i) == [j \in 1 .. Len(list) - 1 |-> IF j < i THEN list[j] ELSE list[j + 1]]

LEMMA WithoutIs ==
  ASSUME NEW S, NEW list \in Seq(S), NEW i \in 1 .. Len(list)
  PROVE  /\ Without(list, i) \in Seq(S) /\ Len(Without(list, i)) = Len(list) - 1
         /\ \A j \in 1 .. Len(list) - 1 :
              /\ j < i => j \in 1 .. Len(list) /\ Without(list, i)[j] = list[j]
              /\ j >= i => j + 1 \in 1 .. Len(list) /\ Without(list, i)[j] = list[j + 1]
<1>1. Len(list) \in Nat /\ Len(list) - 1 \in Nat
  OBVIOUS
<1>2. \A j \in 1 .. Len(list) - 1 : j \in 1 .. Len(list) /\ j + 1 \in 1 .. Len(list)
  BY <1>1
<1>3. \A j \in 1 .. Len(list) : list[j] \in S
  OBVIOUS
<1>4. Without(list, i) \in [1 .. Len(list) - 1 -> S]
  BY <1>2, <1>3 DEF Without
<1>5. Without(list, i) \in Seq(S) /\ Len(Without(list, i)) = Len(list) - 1
  <2> DEFINE w == Without(list, i)
             m == Len(list) - 1
  <2>1. w \in [1 .. m -> S] /\ m \in Nat
    BY <1>1, <1>4
  <2> HIDE DEF w, m
  <2>2. w \in Seq(S) /\ Len(w) = m
    BY <2>1
  <2> QED BY <2>2 DEF w, m
<1> QED BY <1>2, <1>5 DEF Without

LEMMA RemovedStands ==
  ASSUME NEW T, NEW at, NEW under, StandsFor(T, at, under),
         NEW dir \in T, NEW i \in 1 .. Len(under[dir]), RemovedIs(at, dir, under[dir], i)
  PROVE  StandsFor(Left(T, under[dir][i]),
                   [q \in Left(T, under[dir][i]) |-> at[q]],
                   [q \in Left(T, under[dir][i]) |->
                      IF q = dir THEN Without(under[q], i) ELSE under[q]])'
<1> DEFINE list == under[dir]
           p == list[i]
           T2 == Left(T, p)
           at2 == [q \in T2 |-> at[q]]
           list2 == Without(list, i)
           under2 == [q \in T2 |-> IF q = dir THEN Without(under[q], i) ELSE under[q]]
<1>1. /\ T \subseteq Paths /\ <<>> \in T /\ \A q \in T : q # <<>> => Front(q) \in T
      /\ at \in [T -> Blocks] /\ at[<<>>] = 0
      /\ \A q \in T, r \in T : at[q] = at[r] => q = r
      /\ under \in [T -> Seq(T)]
  BY DEF StandsFor, Named, Placed, Listed
<1>2. T \subseteq Seq(Names)
  BY <1>1, PathsAre
<1>3. \A q \in T : /\ under[q] \in Seq(T) /\ Len(under[q]) \in Nat
                   /\ \A j \in 1 .. Len(under[q]) :
                        /\ under[q][j] \in T /\ under[q][j] # <<>> /\ Front(under[q][j]) = q
                        /\ at[under[q][j]] \in Blocks /\ at[under[q][j]] # 0
                        /\ \A k \in 1 .. Len(under[q]) :
                             /\ under[q][j] = under[q][k] => j = k
                             /\ at[under[q][j]] = at[under[q][k]] => j = k
  <2> SUFFICES ASSUME NEW q \in T
               PROVE  /\ under[q] \in Seq(T) /\ Len(under[q]) \in Nat
                      /\ \A j \in 1 .. Len(under[q]) :
                        /\ under[q][j] \in T /\ under[q][j] # <<>> /\ Front(under[q][j]) = q
                        /\ at[under[q][j]] \in Blocks /\ at[under[q][j]] # 0
                        /\ \A k \in 1 .. Len(under[q]) :
                             /\ under[q][j] = under[q][k] => j = k
                             /\ at[under[q][j]] = at[under[q][k]] => j = k
    OBVIOUS
  <2>1. \A j \in 1 .. Len(under[q]) :
          /\ Front(under[q][j]) = q
          /\ \A k \in 1 .. Len(under[q]) : under[q][j] = under[q][k] => j = k
    BY DEF StandsFor, Listed
  <2> QED BY <2>1, ListIs
<1>4. p \in T /\ p # <<>> /\ Front(p) = dir
  BY <1>3
<1> HIDE DEF p, list, list2
<1>5. \A q \in T2 : q \in T /\ ~IsPrefix(p, q) /\ at2[q] = at[q]
                    /\ under2[q] = IF q = dir THEN list2 ELSE under[q]
  BY DEF Left, list, list2
<1>6. p \notin T2 /\ dir \in T2 /\ <<>> \in T2
  BY <1>1, <1>2, <1>4, PrefixIs DEF Left
<1>7. \A q \in T2 : q # <<>> => Front(q) \in T2
  BY <1>1, <1>2, <1>4, PrefixIs DEF Left
<1>8. \A q \in T2 : \A j \in 1 .. Len(under[q]) :
        under[q][j] \in T2 \/ (q = dir /\ j = i)
  <2> SUFFICES ASSUME NEW q \in T2, NEW j \in 1 .. Len(under[q]), under[q][j] \notin T2
               PROVE  q = dir /\ j = i
    OBVIOUS
  <2> DEFINE r == under[q][j]
  <2>1. q \in T /\ ~IsPrefix(p, q)
    BY <1>5
  <2>2. r \in T /\ r # <<>> /\ Front(r) = q /\ IsPrefix(p, r)
    BY <1>3, <2>1 DEF Left
  <2>3. r = p
    <3> HIDE DEF r
    <3> QED BY <1>2, <1>4, <2>1, <2>2, PrefixIs
  <2>4. q = dir
    BY <1>4, <2>2, <2>3
  <2> QED BY <1>3, <2>3, <2>4 DEF p, list
<1>9. /\ list \in Seq(T) /\ Len(list) \in Nat /\ i \in 1 .. Len(list)
      /\ list2 \in Seq(T) /\ Len(list2) = Len(list) - 1
      /\ \A j \in 1 .. Len(list2) :
           /\ j < i => j \in 1 .. Len(list) /\ list2[j] = list[j]
           /\ j >= i => j + 1 \in 1 .. Len(list) /\ list2[j] = list[j + 1]
  <2>1. list \in Seq(T) /\ Len(list) \in Nat /\ i \in 1 .. Len(list)
    BY <1>3 DEF list
  <2> QED BY <2>1, WithoutIs DEF list2
<1>10. \A j \in 1 .. Len(list2) :
         \E k \in 1 .. Len(list) : /\ k # i /\ list2[j] = list[k]
                                   /\ k = IF j < i THEN j ELSE j + 1
  <2> TAKE j \in 1 .. Len(list2)
  <2>1. j < i \/ j >= i
    BY <1>9
  <2>2. CASE j < i
    BY <1>9, <2>2
  <2>3. CASE j >= i
    BY <1>9, <2>3
  <2> QED BY <2>1, <2>2, <2>3
<1>11. \A j \in 1 .. Len(list) :
         /\ list[j] \in T /\ list[j] # <<>> /\ Front(list[j]) = dir
         /\ at[list[j]] \in Blocks /\ at[list[j]] # 0
         /\ j # i => list[j] \in T2
         /\ \A k \in 1 .. Len(list) : /\ list[j] = list[k] => j = k
                                      /\ at[list[j]] = at[list[k]] => j = k
  BY <1>3, <1>6, <1>8 DEF list
<1> HIDE DEF T2, at2, under2
<1>12. Named(T2)'
  BY <1>1, <1>5, <1>6, <1>7 DEF Named
<1>13. Placed(T2, at2)'
  <2>1. at2 \in [T2 -> Blocks]
    BY <1>1, <1>5 DEF at2
  <2> QED BY <1>1, <1>5, <1>6, <2>1 DEF Placed
<1>14. \A j \in 1 .. Len(list2) : /\ list2[j] \in T2 /\ list2[j] # <<>> /\ Front(list2[j]) = dir
                                  /\ \A k \in 1 .. Len(list2) : list2[j] = list2[k] => j = k
  <2> SUFFICES ASSUME NEW j \in 1 .. Len(list2), NEW k \in 1 .. Len(list2)
               PROVE  /\ list2[j] \in T2 /\ list2[j] # <<>> /\ Front(list2[j]) = dir
                      /\ list2[j] = list2[k] => j = k
    OBVIOUS
  <2>1. PICK u \in 1 .. Len(list) : /\ u # i /\ list2[j] = list[u]
                                    /\ u = IF j < i THEN j ELSE j + 1
    BY <1>10
  <2>2. PICK v \in 1 .. Len(list) : /\ v # i /\ list2[k] = list[v]
                                    /\ v = IF k < i THEN k ELSE k + 1
    BY <1>10
  <2>3. list2[j] = list2[k] => u = v
    BY <1>11, <2>1, <2>2
  <2>4. u = v => j = k
    BY <1>9, <2>1, <2>2
  <2> QED BY <1>11, <2>1, <2>3, <2>4
<1>15. Listed(T2, under2)'
  <2>1. under2 \in [T2 -> Seq(T2)]
    <3> SUFFICES ASSUME NEW q \in T2
                 PROVE  (IF q = dir THEN Without(under[q], i) ELSE under[q]) \in Seq(T2)
      BY DEF under2
    <3>1. CASE q = dir
      <4>1. list2 \in Seq(T2)
        BY <1>9, <1>14
      <4> QED BY <3>1, <4>1 DEF list2, list
    <3>2. CASE q # dir
      <4>1. under[q] \in Seq(T) /\ \A j \in 1 .. Len(under[q]) : under[q][j] \in T2
        BY <1>3, <1>5, <1>8, <3>2
      <4> QED BY <3>2, <4>1
    <3> QED BY <3>1, <3>2
  <2>2. \A q \in T2 : \A j \in 1 .. Len(under2[q]) :
          /\ under2[q][j] # <<>> /\ Front(under2[q][j]) = q
          /\ \A k \in 1 .. Len(under2[q]) : under2[q][j] = under2[q][k] => j = k
    <3> TAKE q \in T2
    <3>1. CASE q = dir
      BY <1>5, <1>14, <3>1
    <3>2. CASE q # dir
      BY <1>3, <1>5, <3>2
    <3> QED BY <3>1, <3>2
  <2>3. ASSUME NEW q \in T2, q # <<>>
        PROVE  \E j \in 1 .. Len(under2[Front(q)]) : under2[Front(q)][j] = q
    <3>1. PICK j \in 1 .. Len(under[Front(q)]) : under[Front(q)][j] = q
      BY <1>5, <2>3 DEF StandsFor, Listed
    <3>2. Front(q) \in T2
      BY <1>7, <2>3
    <3>3. CASE Front(q) = dir
      <4>1. under2[Front(q)] = list2 /\ j \in 1 .. Len(list) /\ list[j] = q
        BY <1>5, <3>1, <3>2, <3>3 DEF list
      <4>2. j # i
        BY <1>6, <4>1 DEF p
      <4>3. CASE j < i
        <5>1. j \in 1 .. Len(list2)
          BY <1>9, <4>1, <4>3
        <5> QED BY <1>9, <4>1, <4>3, <5>1
      <4>4. CASE j > i
        <5>1. j - 1 \in 1 .. Len(list2) /\ j - 1 >= i /\ (j - 1) + 1 = j
          BY <1>9, <4>1, <4>4
        <5>2. list2[j - 1] = list[j]
          BY <1>9, <5>1
        <5> QED BY <4>1, <5>1, <5>2
      <4> QED BY <1>9, <4>1, <4>2, <4>3, <4>4
    <3>4. CASE Front(q) # dir
      BY <1>5, <3>1, <3>2, <3>4
    <3> QED BY <3>3, <3>4
  <2> QED BY <2>1, <2>2, <2>3 DEF Listed
<1>16. \A b \in Blocks : b # at[p] =>
         /\ blocks'[b].name = blocks[b].name /\ blocks'[b].type = blocks[b].type
         /\ blocks'[b].parent = blocks[b].parent
         /\ blocks'[b].data = IF i = 1 /\ b = at[dir] THEN NextOf(list, at, 1)
                              ELSE blocks[b].data
         /\ blocks'[b].next = IF i # 1 /\ b = at[list[i - 1]] THEN NextOf(list, at, i)
                              ELSE blocks[b].next
         /\ blocks'[b].prev = IF i # Len(list) /\ b = at[list[i + 1]] THEN PrevOf(list, at, i)
                              ELSE blocks[b].prev
  BY Zenon DEF RemovedIs, SameBut, p, list
<1>17. \A q \in T : Linked(q, under[q], at)
  BY DEF StandsFor
<1>18. \A q \in T2 : at[q] \in Blocks /\ at[q] # at[p]
  BY <1>1, <1>4, <1>5, <1>6
<1>19. i - 1 \in 1 .. Len(list) \/ i = 1
  BY <1>9
<1>20. i + 1 \in 1 .. Len(list) \/ i = Len(list)
  BY <1>9
<1>21. Linked(dir, list2, at2)'
  <2>1. Linked(dir, list, at) /\ at2[dir] = at[dir] /\ at[dir] \in Blocks /\ at[dir] # at[p]
    BY <1>5, <1>6, <1>17, <1>18 DEF list
  <2>2. blocks'[at2[dir]].type # "empty"
    BY <1>16, <2>1 DEF Linked
  <2>3. blocks'[at2[dir]].data = FirstOf(list2, at2)
    <3>1. list2 = <<>> <=> Len(list) = 1
      BY <1>9
    <3>2. blocks[at[dir]].data = at[list[1]]
      BY <1>9, <2>1 DEF Linked, FirstOf
    <3>3. CASE Len(list) = 1
      BY <1>9, <1>16, <2>1, <3>1, <3>3 DEF FirstOf, NextOf
    <3>4. CASE Len(list) # 1
      <4>1. 1 \in 1 .. Len(list2) /\ list2 # <<>>
        BY <1>9, <3>1, <3>4
      <4>2. at2[list2[1]] = at[list2[1]]
        BY <1>5, <1>14, <4>1
      <4>3. CASE i = 1
        BY <1>9, <1>16, <2>1, <3>4, <4>1, <4>2, <4>3 DEF FirstOf, NextOf
      <4>4. CASE i # 1
        BY <1>9, <1>16, <2>1, <3>2, <4>1, <4>2, <4>4 DEF FirstOf
      <4> QED BY <4>3, <4>4
    <3> QED BY <3>3, <3>4
  <2>4. ASSUME NEW j \in 1 .. Len(list2)
        PROVE  /\ blocks'[at2[list2[j]]].name = Last(list2[j])
               /\ blocks'[at2[list2[j]]].parent = at2[dir]
               /\ blocks'[at2[list2[j]]].next = NextOf(list2, at2, j)
               /\ \/ blocks'[at2[list2[j]]].prev = PrevOf(list2, at2, j)
                  \/ dir = <<>> /\ blocks'[at2[list2[j]]].prev = 0
    <3>1. PICK k \in 1 .. Len(list) : /\ k # i /\ list2[j] = list[k]
                                      /\ k = IF j < i THEN j ELSE j + 1
      BY <1>10
    <3>2. /\ at2[list2[j]] = at[list[k]] /\ at[list[k]] \in Blocks /\ at[list[k]] # at[p]
      BY <1>5, <1>11, <1>14, <1>18, <3>1
    <3>3. /\ blocks[at[list[k]]].name = Last(list[k]) /\ blocks[at[list[k]]].parent = at[dir]
          /\ blocks[at[list[k]]].next = NextOf(list, at, k)
          /\ \/ blocks[at[list[k]]].prev = PrevOf(list, at, k)
             \/ dir = <<>> /\ blocks[at[list[k]]].prev = 0
      BY <2>1 DEF Linked
    <3>4. i # 1 => (at[list[k]] = at[list[i - 1]] <=> k = i - 1)
      BY <1>11, <1>19
    <3>5. i # Len(list) => (at[list[k]] = at[list[i + 1]] <=> k = i + 1)
      BY <1>11, <1>20
    <3>6. \A m \in 1 .. Len(list2) : at2[list2[m]] = at[list2[m]]
      BY <1>5, <1>14
    <3>7. blocks'[at[list[k]]].next = NextOf(list2, at2, j)
      <4>1. CASE k = i - 1
        <5>1. j = i - 1 /\ i # 1 /\ (j = Len(list2) <=> i = Len(list))
          BY <1>9, <3>1, <4>1
        <5>2. blocks'[at[list[k]]].next = NextOf(list, at, i)
          BY <1>16, <3>2, <3>4, <4>1, <5>1
        <5>3. CASE i = Len(list)
          BY <5>1, <5>2, <5>3 DEF NextOf
        <5>4. CASE i # Len(list)
          <6>1. j + 1 = i /\ i \in 1 .. Len(list2)
            BY <1>9, <5>1, <5>4
          <6>2. at2[list2[j + 1]] = at[list[i + 1]]
            BY <1>9, <3>6, <6>1
          <6> QED BY <5>1, <5>2, <5>4, <6>2 DEF NextOf
        <5> QED BY <5>3, <5>4
      <4>2. CASE k # i - 1
        <5>1. blocks'[at[list[k]]].next = NextOf(list, at, k)
          BY <1>16, <3>2, <3>3, <3>4, <4>2
        <5>2. k = Len(list) <=> j = Len(list2)
          BY <1>9, <3>1, <4>2
        <5>3. CASE j = Len(list2)
          BY <5>1, <5>2, <5>3 DEF NextOf
        <5>4. CASE j # Len(list2)
          <6>1. j + 1 \in 1 .. Len(list2) /\ (j < i => j + 1 < i) /\ (j >= i => j + 1 >= i)
            BY <1>9, <3>1, <4>2, <5>4
          <6>2. list2[j + 1] = list[k + 1]
            <7>1. CASE j < i
              BY <1>9, <3>1, <6>1, <7>1
            <7>2. CASE j >= i
              <8>1. k = j + 1 /\ list2[j + 1] = list[(j + 1) + 1]
                BY <1>9, <3>1, <6>1, <7>2
              <8> QED BY <8>1
            <7> QED BY <1>9, <7>1, <7>2
          <6> QED BY <3>6, <5>1, <5>2, <5>4, <6>1, <6>2 DEF NextOf
        <5> QED BY <5>3, <5>4
      <4> QED BY <4>1, <4>2
    <3>8. k # i + 1 => PrevOf(list2, at2, j) = PrevOf(list, at, k)
      <4> SUFFICES ASSUME k # i + 1
                   PROVE  PrevOf(list2, at2, j) = PrevOf(list, at, k)
        OBVIOUS
      <4>1. k = 1 <=> j = 1
        BY <1>9, <3>1
      <4>2. CASE j = 1
        BY <4>1, <4>2 DEF PrevOf
      <4>3. CASE j # 1
        <5>1. j - 1 \in 1 .. Len(list2) /\ (j < i => j - 1 < i) /\ (j >= i => j - 1 >= i)
          BY <1>9, <3>1, <4>3
        <5>2. list2[j - 1] = list[k - 1]
          <6>1. CASE j < i
            BY <1>9, <3>1, <5>1, <6>1
          <6>2. CASE j >= i
            <7>1. k = j + 1 /\ list2[j - 1] = list[(j - 1) + 1] /\ k - 1 = (j - 1) + 1
              BY <1>9, <3>1, <5>1, <6>2
            <7> QED BY <7>1
          <6> QED BY <1>9, <6>1, <6>2
        <5> QED BY <3>6, <4>1, <4>3, <5>1, <5>2 DEF PrevOf
      <4> QED BY <4>2, <4>3
    <3>9. \/ blocks'[at[list[k]]].prev = PrevOf(list2, at2, j)
          \/ dir = <<>> /\ blocks'[at[list[k]]].prev = 0
      <4>1. CASE k = i + 1
        <5>1. j = i /\ i # Len(list)
          BY <1>9, <3>1, <4>1
        <5>2. blocks'[at[list[k]]].prev = PrevOf(list, at, i)
          BY <1>16, <3>2, <3>5, <4>1, <5>1
        <5>3. CASE i = 1
          BY <5>1, <5>2, <5>3 DEF PrevOf
        <5>4. CASE i # 1
          <6>1. j - 1 \in 1 .. Len(list2) /\ j - 1 < i
            BY <1>9, <5>1, <5>4
          <6>2. at2[list2[j - 1]] = at[list[i - 1]]
            BY <1>9, <3>6, <5>1, <6>1
          <6> QED BY <5>1, <5>2, <5>4, <6>2 DEF PrevOf
        <5> QED BY <5>3, <5>4
      <4>2. CASE k # i + 1
        <5>1. blocks'[at[list[k]]].prev = blocks[at[list[k]]].prev
          BY <1>16, <3>2, <3>5, <4>2
        <5> QED BY <3>3, <3>8, <4>2, <5>1
      <4> QED BY <4>1, <4>2
    <3> QED BY <1>16, <2>1, <3>1, <3>2, <3>3, <3>7, <3>9
  <2> QED BY <2>2, <2>3, <2>4 DEF Linked
<1>22. ASSUME NEW q \in T2, q # dir PROVE Linked(q, under[q], at2)'
  <2> DEFINE its == under[q]
  <2>1. /\ its \in Seq(T) /\ Len(its) \in Nat /\ Linked(q, its, at) /\ q \in T
        /\ \A j \in 1 .. Len(its) :
             /\ its[j] \in T /\ Front(its[j]) = q /\ at2[its[j]] = at[its[j]]
             /\ at[its[j]] \in Blocks /\ at[its[j]] # at[p]
    <3>1. q \in T /\ \A j \in 1 .. Len(its) : its[j] \in T2
      BY <1>5, <1>8, <1>22
    <3> QED BY <1>3, <1>5, <1>17, <1>18, <3>1
  <2> HIDE DEF its
  <2>2. at2[q] = at[q] /\ at[q] \in Blocks /\ at[q] # at[p] /\ at[q] # at[dir]
    BY <1>1, <1>5, <1>18, <1>22
  <2>3. \A j \in 1 .. Len(its) : \A k \in 1 .. Len(list) : at[its[j]] # at[list[k]]
    <3> SUFFICES ASSUME NEW j \in 1 .. Len(its), NEW k \in 1 .. Len(list),
                        at[its[j]] = at[list[k]]
                 PROVE  FALSE
      OBVIOUS
    <3>1. its[j] = list[k]
      BY <1>1, <1>11, <2>1
    <3> QED BY <1>11, <1>22, <2>1, <3>1
  <2>4. blocks'[at2[q]].type # "empty"
    BY <1>16, <2>1, <2>2 DEF Linked
  <2>5. blocks'[at2[q]].data = FirstOf(its, at2)
    <3>1. blocks'[at2[q]].data = FirstOf(its, at)
      BY <1>16, <2>1, <2>2 DEF Linked
    <3>2. FirstOf(its, at) = FirstOf(its, at2)
      <4>1. its = <<>> \/ 1 \in 1 .. Len(its)
        BY <2>1
      <4> QED BY <2>1, <4>1 DEF FirstOf
    <3> QED BY <3>1, <3>2
  <2>6. ASSUME NEW j \in 1 .. Len(its)
        PROVE  /\ blocks'[at2[its[j]]].name = Last(its[j])
               /\ blocks'[at2[its[j]]].parent = at2[q]
               /\ blocks'[at2[its[j]]].next = NextOf(its, at2, j)
               /\ \/ blocks'[at2[its[j]]].prev = PrevOf(its, at2, j)
                  \/ q = <<>> /\ blocks'[at2[its[j]]].prev = 0
    <3>1. NextOf(its, at2, j) = NextOf(its, at, j) /\ PrevOf(its, at2, j) = PrevOf(its, at, j)
      <4>1. j = Len(its) \/ j + 1 \in 1 .. Len(its)
        BY <2>1
      <4>2. j = 1 \/ j - 1 \in 1 .. Len(its)
        BY <2>1
      <4> QED BY <2>1, <4>1, <4>2 DEF NextOf, PrevOf
    <3>2. /\ blocks[at[its[j]]].name = Last(its[j]) /\ blocks[at[its[j]]].parent = at[q]
          /\ blocks[at[its[j]]].next = NextOf(its, at, j)
          /\ \/ blocks[at[its[j]]].prev = PrevOf(its, at, j)
             \/ q = <<>> /\ blocks[at[its[j]]].prev = 0
      BY <2>1 DEF Linked
    <3>3. /\ i # 1 => at[its[j]] # at[list[i - 1]]
          /\ i # Len(list) => at[its[j]] # at[list[i + 1]]
      BY <1>19, <1>20, <2>3
    <3>4. /\ blocks'[at[its[j]]].name = blocks[at[its[j]]].name
          /\ blocks'[at[its[j]]].parent = blocks[at[its[j]]].parent
          /\ blocks'[at[its[j]]].next = blocks[at[its[j]]].next
          /\ blocks'[at[its[j]]].prev = blocks[at[its[j]]].prev
      BY <1>16, <2>1, <3>3
    <3> QED BY <2>1, <2>2, <3>1, <3>2, <3>4
  <2>7. Linked(q, its, at2)'
    BY <2>4, <2>5, <2>6 DEF Linked
  <2> QED BY <2>7 DEF its
<1>23. \A q \in T2 : Linked(q, under2[q], at2)'
  BY <1>5, <1>21, <1>22
<1>24. RootAlone'
  <2>1. 0 \in Blocks /\ 0 # at[p]
    <3>1. 0 \in Blocks
      BY DevFsAssumption DEF Blocks
    <3> QED BY <1>1, <1>4, <3>1
  <2>2. (i # 1 => 0 # at[list[i - 1]]) /\ (i # Len(list) => 0 # at[list[i + 1]])
    BY <1>11, <1>19, <1>20
  <2> QED BY <1>16, <2>1, <2>2 DEF StandsFor, RootAlone
<1>25. StandsFor(T2, at2, under2)'
  BY <1>12, <1>13, <1>15, <1>23, <1>24 DEF StandsFor
<1> QED BY <1>25 DEF T2, at2, under2, p, list

-----------------------------------------------------------------------------
(* What a step does to the names: it adds one with no driver, it installs  *)
(* a driver, it removes a name with what lies under it, or nothing.        *)
Kept(q, at, at2) == blocks'[at2[q]].handler = blocks[at[q]].handler

Moves(T, at, T2, at2) ==
  \/ \E p \in T, n \in Names :
       /\ Append(p, n) \notin T /\ T2 = T \cup {Append(p, n)}
       /\ \A q \in T : Kept(q, at, at2)
       /\ blocks'[at2[Append(p, n)]].handler = FALSE
  \/ \E p \in T :
       /\ T2 = T /\ blocks'[at2[p]].handler = TRUE
       /\ \A q \in T : q = p \/ Kept(q, at, at2)
  \/ \E p \in T \ {<<>>} : T2 = Left(T, p) /\ \A q \in T2 : Kept(q, at, at2)
  \/ T2 = T /\ \A q \in T : Kept(q, at, at2)

StepsTo(T, at) ==
  \E T2, at2, under2 : StandsFor(T2, at2, under2)' /\ Moves(T, at, T2, at2)

LEMMA CreatedTyped ==
  ASSUME TypeOK, NEW T, NEW at, NEW under, StandsFor(T, at, under),
         NEW path \in Below, CreateAccepts(path), NEW type \in EntryTypes
  PROVE  /\ Created(path, type) \in [Blocks -> EntrySet]
         /\ \A b \in Blocks : Created(path, type)[b].handler =
                                IF b = Min(FreeBlocks) THEN FALSE ELSE blocks[b].handler
<1> DEFINE dir == Front(path)
           new == Min(FreeBlocks)
           first == blocks[at[dir]].data
           prev == IF first = 0 THEN 0 ELSE LastEntry(first)
           linked == IF first = 0 THEN [blocks EXCEPT ![at[dir]].data = new]
                     ELSE [blocks EXCEPT ![prev].next = new]
           entry == NewEntry(Last(path), type, prev, at[dir])
<1>1. path \in Seq(Names) /\ path # <<>>
  BY PathsAre DEF Below
<1>2. Last(path) \in Names
  BY <1>1, FrontIs
<1>3. /\ \A p \in Paths : dev_get_entry_block(p) = IF p \in T THEN at[p] ELSE NotFound
      /\ \A p \in T : under[p] # <<>> =>
           LastEntry(blocks[at[p]].data) = at[under[p][Len(under[p])]]
  BY AlwaysReads DEF Reads
<1>4. dir \in T /\ dev_get_entry_block(dir) = at[dir] /\ at[dir] \in Blocks
  <2>1. dir \in Paths
    <3>1. path \in Seq(Names) /\ Len(path) <= MaxDepth
      BY PathsAre DEF Below
    <3>2. dir \in Seq(Names) /\ Len(dir) = Len(path) - 1 /\ Len(path) \in Nat
      BY <1>1, FrontIs
    <3>3. Len(dir) <= MaxDepth
      BY <3>1, <3>2, DevFsAssumption
    <3> QED BY <3>2, <3>3, PathsAre
  <2>2. dir \in T
    BY <1>3, <2>1 DEF CreateAccepts
  <2> QED BY <1>3, <2>1, <2>2 DEF StandsFor, Placed
<1>5. new \in Blocks
  BY FreeIs DEF CreateAccepts
<1>6. prev \in Blocks
  <2>1. 0 \in Blocks
    BY DevFsAssumption DEF Blocks
  <2>2. ASSUME first # 0 PROVE LastEntry(first) \in Blocks
    <3>1. under[dir] # <<>>
      BY <1>4, <2>2, LinksAre DEF FirstOf
    <3>2. /\ under[dir] \in Seq(T) /\ Len(under[dir]) \in Nat
          /\ \A i \in 1 .. Len(under[dir]) : at[under[dir][i]] \in Blocks
      BY <1>4, ListIs
    <3>3. Len(under[dir]) # 0
      <4> DEFINE list == under[dir]
      <4>1. list \in Seq(T) /\ Len(list) \in Nat /\ list # <<>>
        BY <3>1, <3>2
      <4> HIDE DEF list
      <4>2. Len(list) # 0
        BY <4>1
      <4> QED BY <4>2 DEF list
    <3>4. Len(under[dir]) \in 1 .. Len(under[dir])
      BY <3>2, <3>3
    <3> QED BY <1>3, <1>4, <3>1, <3>2, <3>4
  <2> QED BY <2>1, <2>2
<1>7. Created(path, type) = [linked EXCEPT ![new] = entry]
  BY <1>4 DEF Created
<1> HIDE DEF dir, new, prev
<1>8. entry \in EntrySet /\ entry.handler = FALSE
  <2>1. 0 \in Blocks
    BY DevFsAssumption DEF Blocks
  <2> QED BY <1>2, <1>4, <1>6, <2>1 DEF EntrySet, NewEntry, Empty
<1>9. blocks \in [Blocks -> EntrySet]
  BY DEF TypeOK, EntrySet
<1> HIDE DEF first, entry
<1>10. linked \in [Blocks -> EntrySet] /\ \A b \in Blocks : linked[b].handler = blocks[b].handler
  <2>1. CASE first = 0
    BY <1>4, <1>5, <1>9, <2>1 DEF EntrySet
  <2>2. CASE first # 0
    BY <1>5, <1>6, <1>9, <2>2 DEF EntrySet
  <2> QED BY <2>1, <2>2
<1> HIDE DEF linked
<1> QED BY <1>5, <1>7, <1>8, <1>10 DEF new

LEMMA CreateSteps ==
  ASSUME TypeOK, NEW T, NEW at, NEW under, StandsFor(T, at, under),
         NEW path \in Below, CreateAccepts(path), NEW type \in {"entry", "link"},
         \A b \in Blocks : /\ LinksOf(blocks'[b]) = LinksOf(Created(path, type)[b])
                           /\ blocks'[b].handler = Created(path, type)[b].handler
  PROVE  StepsTo(T, at)
<1>0. PICK new : new = Min(FreeBlocks)
  OBVIOUS
<1> DEFINE T2 == T \cup {path}
           at2 == AtWith(T, at, path, new)
           under2 == UnderWith(T, under, path)
<1>1. /\ path \notin T /\ Front(path) \in T
      /\ CreatedIs(at, under[Front(path)], Front(path), path, type, new)
  BY <1>0, CreatedWrites
<1>2. new \in Blocks /\ new # 0 /\ \A p \in T : at[p] # new
  BY <1>0, FreeIs DEF CreateAccepts
<1>3. StandsFor(T2, at2, under2)'
  <2>1. type # "empty"
    OBVIOUS
  <2> QED BY <1>1, <1>2, <2>1, CreatedStands
<1>4. Moves(T, at, T2, at2)
  <2>1. \A b \in Blocks : blocks'[b].handler = IF b = new THEN FALSE ELSE blocks[b].handler
    <3>1. type \in EntryTypes
      BY DEF EntryTypes
    <3> QED BY <1>0, <3>1, CreatedTyped
  <2>2. at \in [T -> Blocks]
    BY DEF StandsFor, Placed
  <2>3. \A q \in T : Kept(q, at, at2)
    BY <1>1, <1>2, <2>1, <2>2 DEF Kept, AtWith
  <2>4. blocks'[at2[path]].handler = FALSE
    BY <1>2, <2>1 DEF AtWith
  <2>5. Last(path) \in Names /\ Append(Front(path), Last(path)) = path
    <3>1. path \in Seq(Names) /\ path # <<>>
      BY PathsAre DEF Below
    <3> QED BY <3>1, FrontIs
  <2> HIDE DEF at2
  <2> QED BY <1>1, <2>3, <2>4, <2>5 DEF Moves
<1> HIDE DEF T2, at2, under2
<1> QED BY <1>3, <1>4 DEF StepsTo

LEMMA RemoveSteps ==
  ASSUME TypeOK, NEW T, NEW at, NEW under, StandsFor(T, at, under),
         NEW path \in Paths, dev_remove(path)
  PROVE  TypeOK' /\ StepsTo(T, at)
<1> DEFINE c == dev_get_entry_block(path)
<1>1. c = (IF path \in T THEN at[path] ELSE NotFound) /\ c # NotFound /\ blocks' = Removed(c)
  BY AlwaysReads DEF Reads, dev_remove
<1> HIDE DEF c
<1>2. path \in T /\ c = at[path]
  BY <1>1
<1>3. /\ <<>> \in T /\ at \in [T -> Blocks] /\ at[<<>>] = 0
      /\ \A q \in T, r \in T : at[q] = at[r] => q = r
  BY DEF StandsFor, Named, Placed
<1>4. c \in Blocks
  BY <1>2, <1>3
<1>5. TypeOK'
  BY <1>1, <1>4, RemovedAt DEF TypeOK, EntrySet
<1>6. CASE path = <<>>
  <2>1. \A b \in Blocks : SameBut(blocks[b], blocks'[b]) /\ LinksOf(blocks'[b]) = LinksOf(blocks[b])
    <3>1. c = 0 /\ blocks[c].next = 0 /\ blocks[c].prev = 0 /\ blocks[c].parent = 0
      BY <1>2, <1>3, <1>6 DEF StandsFor, RootAlone
    <3>2. \A b \in Blocks :
            /\ SameBut(blocks[b], blocks'[b])
            /\ blocks'[b].data = blocks[b].data /\ blocks'[b].next = blocks[b].next
            /\ blocks'[b].prev = blocks[b].prev
      BY <1>1, <1>4, <3>1, RemovedAt
    <3> QED BY <3>2 DEF SameBut, LinksOf
  <2>2. StandsFor(T, at, under)'
    BY <2>1, LinksSame
  <2>3. Moves(T, at, T, at)
    BY <1>3, <2>1 DEF Moves, Kept, SameBut
  <2> QED BY <1>5, <2>2, <2>3 DEF StepsTo
<1>7. CASE path # <<>>
  <2> DEFINE dir == Front(path)
  <2>1. dir \in T
    BY <1>2, <1>7 DEF StandsFor, Named
  <2>2. PICK i \in 1 .. Len(under[dir]) : under[dir][i] = path
    BY <1>2, <1>7 DEF StandsFor, Listed
  <2>3. blocks' = Removed(at[under[dir][i]])
    BY <1>1, <1>2, <2>2
  <2>4. CASE dir = <<>> /\ StaysIs(under[dir], at)
    <3>1. StandsFor(T, at, under)'
      BY <1>3, <2>4, StaysStands
    <3>2. Moves(T, at, T, at)
      <4>1. \A b \in Blocks : blocks'[b].handler = blocks[b].handler
        BY <2>4 DEF StaysIs, SameBut
      <4> QED BY <1>3, <4>1 DEF Moves, Kept
    <3> QED BY <1>5, <3>1, <3>2 DEF StepsTo
  <2>5. CASE RemovedIs(at, dir, under[dir], i)
    <3> DEFINE T2 == Left(T, path)
               at2 == [q \in T2 |-> at[q]]
               under2 == [q \in T2 |-> IF q = dir THEN Without(under[q], i) ELSE under[q]]
    <3>1. StandsFor(T2, at2, under2)'
      <4> HIDE DEF dir
      <4>1. StandsFor(Left(T, under[dir][i]),
                      [q \in Left(T, under[dir][i]) |-> at[q]],
                      [q \in Left(T, under[dir][i]) |->
                         IF q = dir THEN Without(under[q], i) ELSE under[q]])'
        BY <2>1, <2>5, RemovedStands
      <4> QED BY <2>2, <4>1
    <3>2. Moves(T, at, T2, at2)
      <4>1. \A b \in Blocks : b # at[path] => blocks'[b].handler = blocks[b].handler
        BY <2>2, <2>5 DEF RemovedIs, SameBut
      <4>2. path \in Seq(Names)
        BY PathsAre
      <4>3. \A q \in T2 : q \in T /\ q # path /\ at2[q] = at[q]
        BY <4>2, PrefixIs DEF Left
      <4> HIDE DEF at2
      <4>4. \A q \in T2 : Kept(q, at, at2)
        BY <1>2, <1>3, <4>1, <4>3 DEF Kept
      <4>5. path \in T \ {<<>>}
        BY <1>2, <1>7
      <4> HIDE DEF T2
      <4>6. T2 = Left(T, path)
        BY DEF T2
      <4> QED BY <4>4, <4>5, <4>6 DEF Moves
    <3> HIDE DEF T2, at2, under2
    <3> QED BY <1>5, <3>1, <3>2 DEF StepsTo
  <2> QED BY <2>1, <2>3, <2>4, <2>5, RemovedWrites
<1> QED BY <1>6, <1>7

LEMMA CreateTyped ==
  ASSUME TypeOK, NEW T, NEW at, NEW under, StandsFor(T, at, under),
         NEW path \in Below, dev_create(path, "entry")
  PROVE  TypeOK' /\ StepsTo(T, at)
<1>1. CreateAccepts(path) /\ blocks' = Created(path, "entry") /\ "entry" \in EntryTypes
  BY DEF dev_create, EntryTypes
<1>2. TypeOK'
  BY <1>1, CreatedTyped DEF TypeOK, EntrySet
<1>3. StepsTo(T, at)
  BY <1>1, CreateSteps
<1> QED BY <1>2, <1>3

LEMMA LinkTyped ==
  ASSUME TypeOK, NEW T, NEW at, NEW under, StandsFor(T, at, under),
         NEW path \in Below, NEW source, dev_link(path, source)
  PROVE  TypeOK' /\ StepsTo(T, at)
<1> DEFINE done == Created(path, "link")
<1>1. CreateAccepts(path) /\ blocks' = [done EXCEPT ![0].source = TRUE]
  BY DEF dev_link
<1>2. done \in [Blocks -> EntrySet]
  <2>1. "link" \in EntryTypes
    BY DEF EntryTypes
  <2> QED BY <1>1, <2>1, CreatedTyped
<1>3. 0 \in Blocks
  BY DevFsAssumption DEF Blocks
<1> HIDE DEF done
<1>4. blocks' \in [Blocks -> EntrySet]
  BY <1>1, <1>2, <1>3 DEF EntrySet
<1>5. \A b \in Blocks : LinksOf(blocks'[b]) = LinksOf(done[b]) /\ blocks'[b].handler = done[b].handler
  BY <1>1, <1>2, <1>3 DEF EntrySet, LinksOf
<1>6. StepsTo(T, at)
  BY <1>1, <1>5, CreateSteps DEF done
<1> QED BY <1>4, <1>6 DEF TypeOK, EntrySet

LEMMA SetParamsSteps ==
  ASSUME TypeOK, NEW T, NEW at, NEW under, StandsFor(T, at, under),
         NEW path \in Paths, dev_setparams(path)
  PROVE  TypeOK' /\ StepsTo(T, at)
<1> DEFINE c == dev_get_entry_block(path)
<1>1. /\ c = (IF path \in T THEN at[path] ELSE NotFound) /\ c # NotFound
      /\ blocks' = [blocks EXCEPT ![c].handler = TRUE]
  BY AlwaysReads DEF Reads, dev_setparams
<1> HIDE DEF c
<1>2. /\ at \in [T -> Blocks]
      /\ \A q \in T, r \in T : at[q] = at[r] => q = r
  BY DEF StandsFor, Placed
<1>3. path \in T /\ c = at[path] /\ c \in Blocks
  BY <1>1, <1>2
<1>4. blocks \in [Blocks -> EntrySet]
  BY DEF TypeOK, EntrySet
<1>5. blocks' \in [Blocks -> EntrySet]
  BY <1>1, <1>3, <1>4 DEF EntrySet
<1>6. \A b \in Blocks : /\ LinksOf(blocks'[b]) = LinksOf(blocks[b])
                        /\ blocks'[b].handler = IF b = c THEN TRUE ELSE blocks[b].handler
  BY <1>1, <1>3, <1>4 DEF EntrySet, LinksOf
<1>7. StandsFor(T, at, under)'
  BY <1>6, LinksSame
<1>8. Moves(T, at, T, at)
  <2>1. blocks'[at[path]].handler = TRUE
    BY <1>3, <1>6
  <2>2. \A q \in T : q = path \/ Kept(q, at, at)
    BY <1>2, <1>3, <1>6 DEF Kept
  <2> QED BY <1>3, <2>1, <2>2 DEF Moves
<1> QED BY <1>5, <1>7, <1>8 DEF StepsTo, TypeOK, EntrySet

LEMMA NextSteps ==
  ASSUME TypeOK, NEW T, NEW at, NEW under, StandsFor(T, at, under), Next
  PROVE  TypeOK' /\ StepsTo(T, at)
<1>1. ASSUME NEW path \in Below,
             dev_create(path, "entry") \/ dev_hcreate(path) \/ dev_hmkdir(path)
      PROVE  TypeOK' /\ StepsTo(T, at)
  <2>1. dev_create(path, "entry")
    BY <1>1 DEF dev_hcreate, dev_hmkdir
  <2> QED BY <2>1, CreateTyped
<1>2. ASSUME NEW path \in Below, NEW source \in {<<>>, path},
             dev_link(path, source) \/ dev_hlink(path, source)
      PROVE  TypeOK' /\ StepsTo(T, at)
  <2>1. dev_link(path, source)
    BY <1>2 DEF dev_hlink
  <2> QED BY <2>1, LinkTyped
<1>3. ASSUME NEW path \in Paths,
             dev_remove(path) \/ dev_hremove(path) \/ dev_hrmdir(path)
      PROVE  TypeOK' /\ StepsTo(T, at)
  <2>1. dev_remove(path)
    BY <1>3 DEF dev_hremove, dev_hrmdir, dev_remove
  <2> QED BY <2>1, RemoveSteps
<1>4. ASSUME NEW path \in Paths, dev_setparams(path)
      PROVE  TypeOK' /\ StepsTo(T, at)
  BY <1>4, SetParamsSteps
<1> QED BY <1>1, <1>2, <1>3, <1>4 DEF Next

LEMMA InitTyped ==
  ASSUME Init
  PROVE  DevInv
<1>1. TypeOK
  BY EmptyTyped DEF Init, TypeOK, EntrySet
<1> QED BY <1>1, InitStands DEF DevInv

LEMMA DevInvKept ==
  ASSUME DevInv, [Next]_blocks
  PROVE  DevInv'
<1>1. TypeOK
  BY DEF DevInv
<1>2. PICK T, at, under : StandsFor(T, at, under)
  BY DEF DevInv
<1>3. CASE Next
  <2>1. TypeOK' /\ StepsTo(T, at)
    BY <1>1, <1>2, <1>3, NextSteps
  <2> QED BY <2>1 DEF DevInv, StepsTo
<1>4. CASE UNCHANGED blocks
  <2>1. StandsFor(T, at, under)'
    BY <1>2, <1>4, LinksSame
  <2>2. TypeOK'
    BY <1>1, <1>4 DEF TypeOK
  <2> QED BY <2>1, <2>2 DEF DevInv
<1> QED BY <1>3, <1>4

LEMMA Invariant == Spec => []DevInv
<1>1. Init => DevInv
  BY InitTyped
<1>2. DevInv /\ [Next]_blocks => DevInv'
  BY DevInvKept
<1> QED BY <1>1, <1>2, PTL DEF Spec

(* The ramdisk holds entries, and their links are block numbers.           *)
THEOREM DevTyped == Spec => []TypeOK
<1>1. DevInv => TypeOK
  BY DEF DevInv
<1> QED BY <1>1, Invariant, PTL

(* The links of the entries that can be found make a tree, whatever was    *)
(* created, linked and removed before.                                     *)
THEOREM LinksStaySound == Spec => []LinksSound
<1>1. DevInv => LinksSound
  BY AlwaysReads DEF DevInv, Reads
<1> QED BY <1>1, Invariant, PTL

-----------------------------------------------------------------------------
(* The names, as module NameSpace sees them.                               *)
Tree == [p \in Found |-> blocks[dev_get_entry_block(p)].handler]

LEMMA TreeIs ==
  ASSUME TypeOK, NEW T, NEW at, NEW under, StandsFor(T, at, under)
  PROVE  Tree = [p \in T |-> blocks[at[p]].handler]
<1>1. Found = T /\ \A p \in Paths : dev_get_entry_block(p) = IF p \in T THEN at[p] ELSE NotFound
  BY AlwaysReads DEF Reads
<1>2. T \subseteq Paths
  BY DEF StandsFor, Named
<1>3. \A p \in T : dev_get_entry_block(p) = at[p]
  BY <1>1, <1>2
<1> QED BY <1>1, <1>3 DEF Tree

TreeReads ==
  TypeOK => \A T, at, under : StandsFor(T, at, under) =>
              Tree = [p \in T |-> blocks[at[p]].handler]

LEMMA NextTree == TreeReads'
<1>1. TreeReads
  BY TreeIs DEF TreeReads
<1> QED BY <1>1, PTL

LEMMA NamesInit ==
  ASSUME Init
  PROVE  TheNames!Init
<1> DEFINE T == {<<>>}
           at == [p \in {<<>>} |-> 0]
           under == [p \in {<<>>} |-> <<>>]
<1>1. StandsFor(T, at, under) /\ TypeOK
  BY InitStands, InitTyped DEF DevInv
<1>2. 0 \in Blocks
  BY DevFsAssumption DEF Blocks
<1>3. blocks[0].handler = FALSE
  BY <1>2 DEF Init, Root, Empty
<1> HIDE DEF under
<1>4. Tree = [p \in T |-> blocks[at[p]].handler]
  <2> HIDE DEF T, at
  <2> QED BY <1>1, TreeIs
<1>5. Tree = [p \in T |-> FALSE]
  BY <1>3, <1>4
<1> QED BY <1>5 DEF TheNames!Init, Tree

LEMMA NamesStep ==
  ASSUME DevInv, [Next]_blocks
  PROVE  [TheNames!Next]_Tree
<1>1. TypeOK
  BY DEF DevInv
<1>2. PICK T, at, under : StandsFor(T, at, under)
  BY DEF DevInv
<1>3. CASE UNCHANGED blocks
  BY <1>3 DEF Tree, Found, dev_get_entry_block, Search
<1>4. CASE Next
  <2>1. TypeOK' /\ StepsTo(T, at)
    BY <1>1, <1>2, <1>4, NextSteps
  <2>2. PICK T2, at2, under2 : StandsFor(T2, at2, under2)' /\ Moves(T, at, T2, at2)
    BY <2>1 DEF StepsTo
  <2>3. Tree = [p \in T |-> blocks[at[p]].handler]
    BY <1>1, <1>2, TreeIs
  <2>4. Tree' = [p \in T2 |-> blocks'[at2[p]].handler]
    BY <2>1, <2>2, NextTree DEF TreeReads
  <2>5. CASE \E p \in T, n \in Names :
               /\ Append(p, n) \notin T /\ T2 = T \cup {Append(p, n)}
               /\ \A q \in T : Kept(q, at, at2)
               /\ blocks'[at2[Append(p, n)]].handler = FALSE
    <3>1. PICK p \in T, n \in Names :
               /\ Append(p, n) \notin T /\ T2 = T \cup {Append(p, n)}
               /\ \A q \in T : blocks'[at2[q]].handler = blocks[at[q]].handler
               /\ blocks'[at2[Append(p, n)]].handler = FALSE
      BY <2>5, Zenon DEF Kept
    <3>2. TypeOK /\ at \in [T -> Blocks] /\ \A q \in T : blocks[at[q]].handler \in BOOLEAN
      BY <1>1, <1>2 DEF TypeOK, StandsFor, Placed
    <3>3. Tree' = [q \in T \cup {Append(p, n)} |-> q \in T /\ Tree[q]]
      <4>1. \A q \in T2 : blocks'[at2[q]].handler = (q \in T /\ Tree[q])
        <5> TAKE q \in T2
        <5>1. CASE q \in T
          <6>1. blocks'[at2[q]].handler = blocks[at[q]].handler /\ Tree[q] = blocks[at[q]].handler
            BY <2>3, <3>1, <5>1
          <6> QED BY <3>2, <5>1, <6>1
        <5>2. CASE q \notin T
          BY <3>1, <5>2
        <5> QED BY <5>1, <5>2
      <4> QED BY <2>4, <3>1, <4>1
    <3>4. DOMAIN Tree = T
      BY <2>3
    <3>5. TheNames!Create(p, n)
      BY <3>1, <3>3, <3>4 DEF TheNames!Create, Tree
    <3> QED BY <3>4, <3>5 DEF TheNames!Next, Tree
  <2>6. CASE \E p \in T :
               /\ T2 = T /\ blocks'[at2[p]].handler = TRUE
               /\ \A q \in T : q = p \/ Kept(q, at, at2)
    <3>1. PICK p \in T :
               /\ T2 = T /\ blocks'[at2[p]].handler = TRUE
               /\ \A q \in T : q = p \/ blocks'[at2[q]].handler = blocks[at[q]].handler
      BY <2>6, Zenon DEF Kept
    <3>2. Tree' = [Tree EXCEPT ![p] = TRUE]
      BY <2>3, <2>4, <3>1
    <3>3. DOMAIN Tree = T
      BY <2>3
    <3>4. TheNames!Configure(p)
      BY <3>2, <3>3 DEF TheNames!Configure, Tree
    <3> QED BY <3>3, <3>4 DEF TheNames!Next, Tree
  <2>7. CASE \E p \in T \ {<<>>} : T2 = Left(T, p) /\ \A q \in T2 : Kept(q, at, at2)
    <3>1. PICK p \in T \ {<<>>} :
            /\ T2 = {q \in T : ~IsPrefix(p, q)}
            /\ \A q \in T2 : blocks'[at2[q]].handler = blocks[at[q]].handler
      BY <2>7, Zenon DEF Kept, Left
    <3>2. DOMAIN Tree = T
      BY <2>3
    <3>3. Tree' = [q \in {q \in T : ~IsPrefix(p, q)} |-> Tree[q]]
      BY <2>3, <2>4, <3>1
    <3>4. TheNames!Drop(p)
      BY <3>2, <3>3 DEF TheNames!Drop, TheNames!IsPrefix, IsPrefix, Tree
    <3> QED BY <3>2, <3>4 DEF TheNames!Next, Tree
  <2>8. CASE T2 = T /\ \A q \in T : Kept(q, at, at2)
    <3>1. Tree' = Tree
      BY <2>3, <2>4, <2>8 DEF Kept
    <3> QED BY <3>1
  <2> QED BY <2>2, <2>5, <2>6, <2>7, <2>8, Zenon DEF Moves
<1> QED BY <1>3, <1>4

(* The file system of the devices keeps the promise of module NameSpace:   *)
(* a name goes only with its own removal or that of a name above it, no    *)
(* operation on one entry changes what another name stands for, and a new  *)
(* entry never inherits the driver of an old one.                          *)
THEOREM NamesKept == Spec => NamesPromise
<1>1. Init => TheNames!Init
  BY NamesInit
<1>2. DevInv /\ [Next]_blocks => [TheNames!Next]_Tree
  BY NamesStep
<1> QED BY <1>1, <1>2, Invariant, PTL DEF Spec, NamesPromise, TheNames!Spec, Tree

-----------------------------------------------------------------------------
(* What dev_remove removes.                                                *)
FoundReads ==
  TypeOK => \A T, at, under : StandsFor(T, at, under) =>
              /\ Found = T
              /\ \A p \in T : dev_get_entry_block(p) = at[p]

LEMMA NowFound == FoundReads
<1> SUFFICES ASSUME TypeOK, NEW T, NEW at, NEW under, StandsFor(T, at, under)
             PROVE  /\ Found = T
                    /\ \A p \in T : dev_get_entry_block(p) = at[p]
  BY DEF FoundReads
<1>1. /\ Found = T
      /\ \A p \in Paths : dev_get_entry_block(p) = IF p \in T THEN at[p] ELSE NotFound
  BY AlwaysReads DEF Reads
<1>2. T \subseteq Paths
  BY DEF StandsFor, Named
<1> QED BY <1>1, <1>2

LEMMA NextFound == FoundReads'
BY NowFound, PTL

LEMMA RemoveFinds ==
  ASSUME DevInv, NEW path \in Below, dev_remove(path)
  PROVE  Found' = IF Stays(dev_get_entry_block(path)) THEN Found
                  ELSE {q \in Found : ~IsPrefix(path, q)}
<1>1. TypeOK
  BY DEF DevInv
<1>2. PICK T, at, under : StandsFor(T, at, under)
  BY DEF DevInv
<1>3. path \in Paths /\ path # <<>>
  BY DEF Below
<1>4. /\ path \in T /\ Found = T /\ dev_get_entry_block(path) = at[path]
      /\ blocks' = Removed(at[path])
  BY <1>1, <1>2, <1>3, AlwaysReads DEF Reads, dev_remove
<1>5. TypeOK'
  BY <1>1, <1>2, <1>3, RemoveSteps
<1> DEFINE dir == Front(path)
<1>6. dir \in T /\ <<>> \in T
  BY <1>2, <1>3, <1>4 DEF StandsFor, Named
<1>7. PICK i \in 1 .. Len(under[dir]) : under[dir][i] = path
  BY <1>2, <1>3, <1>4 DEF StandsFor, Listed
<1>8. IF Stays(at[path])
      THEN dir = <<>> /\ StaysIs(under[dir], at)
      ELSE RemovedIs(at, dir, under[dir], i)
  <2>1. blocks' = Removed(at[under[dir][i]])
    BY <1>4, <1>7
  <2> HIDE DEF dir
  <2>2. IF Stays(at[under[dir][i]])
        THEN dir = <<>> /\ StaysIs(under[dir], at)
        ELSE RemovedIs(at, dir, under[dir], i)
    BY <1>1, <1>2, <1>6, <2>1, RemovedWrites
  <2> QED BY <1>7, <2>2
<1>9. CASE Stays(at[path])
  <2>1. StandsFor(T, at, under)'
    BY <1>2, <1>6, <1>8, <1>9, StaysStands
  <2>2. Found' = T
    BY <1>5, <2>1, NextFound DEF FoundReads
  <2> QED BY <1>4, <1>9, <2>2
<1>10. CASE ~Stays(at[path])
  <2> HIDE DEF dir
  <2>1. StandsFor(Left(T, under[dir][i]),
                  [q \in Left(T, under[dir][i]) |-> at[q]],
                  [q \in Left(T, under[dir][i]) |->
                     IF q = dir THEN Without(under[q], i) ELSE under[q]])'
    BY <1>2, <1>6, <1>8, <1>10, RemovedStands
  <2>2. Found' = Left(T, under[dir][i])
    BY <1>5, <2>1, NextFound DEF FoundReads
  <2> QED BY <1>4, <1>7, <1>10, <2>2 DEF Left
<1> QED BY <1>9, <1>10

(* Exactly which names dev_remove leaves.  An entry of the root without a  *)
(* previous one is found still, with all that is under it: the first, and  *)
(* the one after an entry that was left so.  Any other is gone with all    *)
(* that was under it, and in both cases every other name stays.            *)
THEOREM RemovesAllButTheFirst ==
  Spec => [][\A path \in Below :
               dev_remove(path) =>
                 Found' = IF Stays(dev_get_entry_block(path)) THEN Found
                          ELSE {q \in Found : ~IsPrefix(path, q)}]_blocks
<1>1. DevInv /\ [Next]_blocks =>
        [\A path \in Below :
           dev_remove(path) =>
             Found' = IF Stays(dev_get_entry_block(path)) THEN Found
                      ELSE {q \in Found : ~IsPrefix(path, q)}]_blocks
  BY RemoveFinds
<1> QED BY <1>1, Invariant, PTL DEF Spec

=============================================================================
