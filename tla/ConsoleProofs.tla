---------------------------- MODULE ConsoleProofs ----------------------------
(***************************************************************************)
(* The console and the log, for every size of the page, of the tab and of  *)
(* the log and for all strings of at most half the log: the types          *)
(* (ConsoleTyped), that the text stays on the page and behind the cursor   *)
(* (PageStaysIntact) and that the log, or what of it stands behind its     *)
(* buffer, is the end of what was printed (LogStaysRecent).                *)
(*                                                                         *)
(* Two invariants carry them, and no step of one needs the other.  PageInv *)
(* bounds the text by the line of the cursor, which putc's arithmetic      *)
(* keeps; LogInv says what the places of klogcat may rely on, also when a  *)
(* handler has printed in between: that a log about to be shifted is long  *)
(* enough for it, so that its 0 is moved along and never lost.             *)
(*                                                                         *)
(* Then vsprintf, for every format, width of a word and arguments: that it *)
(* stays within its format (InFormat), and that what is written of a       *)
(* number, by it or by ucvt, is the text that strtoul, strtol and strtoi   *)
(* read it from (NumbersAreRead).                                          *)
(*                                                                         *)
(* The second goes by way of one description of such texts, Written:       *)
(* blanks, a sign, a prefix, zeros, the digits from the first that is not  *)
(* 0 on, blanks.  The digits number() divides out say the number, in a     *)
(* base of its own (Spells, DigitsOfIs); a sequence of digits that says a  *)
(* number is summed up to it by the loops of the three readers, or runs    *)
(* over where the number does (AccumulatedIs, SumIs); what number() and    *)
(* ucvt put around the digits keeps to the description (NumberIs, UcvtIs), *)
(* of which the readers find sign, base and digits (PartsRead).  Functions *)
(* defined by recursion are followed by GoesOn and AllBelow, which are     *)
(* induction up to a bound, over a set of numbers instead of a formula.    *)
(***************************************************************************)
EXTENDS Console, Format, NaturalsInduction, WellFoundedInduction, TLAPS

LEMMA Sizes ==
  /\ MaxW \in Nat \ {0} /\ MaxH \in Nat \ {0} /\ Tab \in Nat \ {0}
  /\ LogSize \in Nat \ {0} /\ MaxPast \in Nat \ {0}
  /\ Tab <= MaxW /\ MaxPast <= LogSize
  /\ Strings \cup Typed \subseteq Seq(STRING)
  /\ \A str \in Strings \cup Typed : 2 * Len(str) <= LogSize + 1
BY ConsoleAssumption

(* Products of the width.                                                  *)
LEMMA Rows ==
  ASSUME NEW a \in Int
  PROVE  /\ MaxW * a \in Int /\ MaxW * (a + 1) = MaxW * a + MaxW
         /\ MaxW * (a - 1) = MaxW * a - MaxW
BY Sizes

LEMMA RowsGrow ==
  ASSUME NEW a \in Int, NEW b \in Int, a <= b
  PROVE  MaxW * a <= MaxW * b
<1>1. b - a \in Nat /\ MaxW \in Nat
  BY Sizes
<1>2. MaxW * (b - a) >= 0
  BY <1>1
<1>3. MaxW * (b - a) = MaxW * b - MaxW * a
  BY Sizes
<1> QED
  BY <1>2, <1>3, Sizes

(* A column less than two lines wide wraps once at most.                   *)
LEMMA Wraps ==
  ASSUME NEW v \in Int, 0 <= v, v < 2 * MaxW
  PROVE  /\ v < MaxW => v % MaxW = v /\ v \div MaxW = 0
         /\ v >= MaxW => v % MaxW = v - MaxW /\ v \div MaxW = 1
<1> DEFINE q == v \div MaxW  r == v % MaxW
<1>1. q \in Int /\ r \in 0 .. MaxW - 1 /\ v = MaxW * q + r
  BY Sizes
<1> HIDE DEF q, r
<1>2. q < 2
  <2>1. SUFFICES ASSUME q >= 2 PROVE FALSE
    BY <1>1
  <2>2. MaxW * 2 <= MaxW * q
    BY <1>1, <2>1, RowsGrow
  <2> QED
    BY <1>1, <2>2, Sizes
<1>3. q > -1
  <2>1. SUFFICES ASSUME q <= -1 PROVE FALSE
    BY <1>1
  <2>2. MaxW * q <= MaxW * (-1)
    BY <1>1, <2>1, RowsGrow
  <2> QED
    BY <1>1, <2>2, Sizes
<1>4. q = 0 \/ q = 1
  BY <1>1, <1>2, <1>3
<1>5. (q = 0 => v = r) /\ (q = 1 => v = MaxW + r)
  BY <1>1, Sizes
<1> QED
  BY <1>1, <1>4, <1>5, Sizes DEF q, r

-----------------------------------------------------------------------------
(* The page: every text is in the lines down to that of the cursor, and,   *)
(* unless a carriage return has put it back, before the cursor.            *)
PageInv ==
  /\ x \in 0 .. MaxW - 1 /\ y \in 0 .. MaxH - 1 /\ returned \in BOOLEAN
  /\ \A d \in ink : d \in Nat /\ d < MaxW * (y + 1)
  /\ spilled \subseteq MaxW * MaxH .. MaxW * MaxH + Tab - 2
  /\ NoTextAhead

Pos(cursor) == cursor.x + MaxW * cursor.y

LEMMA CellHere ==
  ASSUME PageInv
  PROVE  Cell \in Nat /\ MaxW * y <= Cell /\ Cell < MaxW * (y + 1)
         /\ Cell < MaxW * MaxH
<1>1. x \in Int /\ 0 <= x /\ x < MaxW /\ y \in Nat /\ y + 1 <= MaxH
  BY Sizes DEF PageInv
<1>2. MaxW * (y + 1) = MaxW * y + MaxW /\ MaxW * y \in Int
  BY <1>1, Rows
<1>3. MaxW * 0 <= MaxW * y /\ MaxW * 0 = 0
  BY <1>1, RowsGrow, Sizes
<1>4. MaxW * (y + 1) <= MaxW * MaxH /\ MaxW * MaxH \in Int
  BY <1>1, RowsGrow, Rows, Sizes
<1> QED
  BY <1>1, <1>2, <1>3, <1>4, Sizes DEF Cell

(* The switch of putc and the line feed after it.                          *)
LEMMA MovesOn ==
  ASSUME PageInv, NEW ch
  PROVE  LET p == Moved(ch)
             cursor == Wrapped(p)
         IN  /\ cursor.x \in 0 .. MaxW - 1 /\ cursor.y \in y .. y + 1 /\ Pos(cursor) = Pos(p)
             /\ Pos(p) \in Int
             /\ ch = "nl" => Pos(p) = MaxW * (y + 1)
             /\ ch = "bs" => Pos(p) = IF x = 0 THEN Cell ELSE Cell - 1
             /\ ch = "tab" => Pos(p) = Cell + Tab
             /\ ch = "nul" => Pos(p) = Cell
             /\ ch \notin Controls => Pos(p) = Cell + 1
<1> DEFINE p == Moved(ch)  cursor == Wrapped(p)
<1>1. x \in Int /\ 0 <= x /\ x < MaxW /\ y \in Nat
  BY Sizes DEF PageInv
<1>2. /\ ch = "cr" => p.x = 0 /\ p.y = y
      /\ ch = "nl" => p.x = 0 /\ p.y = y + 1
      /\ ch = "bs" => p.x = (IF x = 0 THEN 0 ELSE x - 1) /\ p.y = y
      /\ ch = "tab" => p.x = x + Tab /\ p.y = y
      /\ ch = "nul" => p.x = x /\ p.y = y
      /\ ch \notin Controls => p.x = x + 1 /\ p.y = y
  BY DEF Moved, Controls
<1>3. ch \in Controls => ch \in {"nul", "cr", "nl", "bs", "tab"}
  BY DEF Controls
<1>4. cursor.x = p.x % MaxW /\ cursor.y = p.y + p.x \div MaxW
  BY DEF Wrapped
<1> HIDE DEF p, cursor
<1>5. p.x \in Int /\ 0 <= p.x /\ p.x < 2 * MaxW /\ p.y \in Nat
  BY <1>1, <1>2, <1>3, Sizes
<1>6. /\ p.x < MaxW => cursor.x = p.x /\ cursor.y = p.y
      /\ p.x >= MaxW => cursor.x = p.x - MaxW /\ cursor.y = p.y + 1
  BY <1>4, <1>5, Wraps
<1>7. ch # "nl" => p.y = y
  BY <1>2, <1>3
<1>8. ch = "nl" => p.x < MaxW
  BY <1>2, Sizes
<1>9. cursor.x \in 0 .. MaxW - 1 /\ cursor.y \in y .. y + 1
  BY <1>1, <1>2, <1>5, <1>6, <1>7, <1>8, Sizes
<1>10. Pos(cursor) = Pos(p) /\ Pos(p) \in Int
  <2>1. MaxW * (p.y + 1) = MaxW * p.y + MaxW /\ MaxW * p.y \in Int
    BY <1>5, Rows
  <2> QED
    BY <1>5, <1>6, <2>1, Sizes DEF Pos
<1>11. MaxW * y \in Int /\ MaxW * (y + 1) \in Int
  BY <1>1, Rows
<1>12. /\ ch = "nl" => Pos(p) = MaxW * (y + 1)
       /\ ch = "bs" => Pos(p) = IF x = 0 THEN Cell ELSE Cell - 1
       /\ ch = "tab" => Pos(p) = Cell + Tab
       /\ ch = "nul" => Pos(p) = Cell
       /\ ch \notin Controls => Pos(p) = Cell + 1
  BY <1>1, <1>2, <1>11, Sizes DEF Pos, Cell
<1> QED
  BY <1>9, <1>10, <1>12 DEF p, cursor

(* The cells that show text after the switch: none beyond the line of the  *)
(* cursor, and none at the cursor or after it.                             *)
LEMMA TextBehind ==
  ASSUME PageInv, NEW ch, NEW d \in (ink \ Blanked(ch)) \cup Printed(ch)
  PROVE  /\ d \in Nat /\ d < MaxW * (Wrapped(Moved(ch)).y + 1)
         /\ ch = "cr" \/ (ch # "nl" /\ returned) \/ d < Pos(Wrapped(Moved(ch)))
<1> DEFINE p == Moved(ch)  cursor == Wrapped(p)
<1>1. /\ cursor.y \in y .. y + 1 /\ Pos(cursor) = Pos(p) /\ y \in Nat
      /\ ch = "nl" => Pos(p) = MaxW * (y + 1)
      /\ ch = "bs" => Pos(p) = IF x = 0 THEN Cell ELSE Cell - 1
      /\ ch = "tab" => Pos(p) = Cell + Tab
      /\ ch = "nul" => Pos(p) = Cell
      /\ ch \notin Controls => Pos(p) = Cell + 1
  BY MovesOn DEF PageInv
<1> HIDE DEF p, cursor
<1>2. Cell \in Nat /\ Cell < MaxW * (y + 1)
  BY CellHere
<1>3. /\ d \in ink => d \in Nat /\ d < MaxW * (y + 1)
      /\ d \in ink /\ ~returned => d < Cell
  BY DEF PageInv, NoTextAhead
<1>4. d \notin ink => ch \notin Controls /\ d = Cell
  BY DEF Printed
<1>5. d \in Nat /\ d < MaxW * (y + 1)
  BY <1>2, <1>3, <1>4
<1>6. MaxW * (y + 1) <= MaxW * (cursor.y + 1)
      /\ MaxW * (y + 1) \in Int /\ MaxW * (cursor.y + 1) \in Int
  BY <1>1, RowsGrow, Sizes
<1>7. d < MaxW * (cursor.y + 1)
  BY <1>5, <1>6
<1>8. ch = "bs" /\ x > 0 => d # Cell - 1
  <2>1. ch = "bs" /\ x > 0 => Blanked(ch) = {Cell - 1}
    BY DEF Blanked
  <2> QED
    BY <1>2, <1>4, <2>1 DEF Controls, Printed
<1>9. ASSUME ~(ch = "cr" \/ (ch # "nl" /\ returned))
      PROVE  d < Pos(p)
  <2>1. CASE ch = "nl"
    BY <1>1, <1>5, <2>1
  <2>2. CASE ch # "nl" /\ d \in ink
    <3>1. d < Cell
      BY <1>3, <1>9, <2>2
    <3>2. x \in Nat
      BY Sizes DEF PageInv
    <3> QED
      BY <1>1, <1>2, <1>5, <1>8, <1>9, <2>2, <3>1, <3>2, Sizes DEF Controls
  <2>3. CASE d \notin ink
    BY <1>1, <1>2, <1>4, <2>3
  <2> QED
    BY <2>1, <2>2, <2>3
<1> QED
  BY <1>1, <1>5, <1>7, <1>9 DEF p, cursor

LEMMA BlanksNear ==
  ASSUME PageInv, NEW ch, NEW d \in Blanked(ch), d >= MaxW * MaxH
  PROVE  d \in MaxW * MaxH .. MaxW * MaxH + Tab - 2
<1>1. Cell \in Nat /\ Cell < MaxW * MaxH /\ MaxW * MaxH \in Int
  BY CellHere, Sizes
<1>2. CASE ch = "tab"
  BY <1>1, <1>2, Sizes DEF Blanked
<1>3. CASE ch # "tab"
  <2>1. d = Cell - 1
    BY <1>3 DEF Blanked
  <2> QED
    BY <1>1, <2>1
<1> QED
  BY <1>2, <1>3

LEMMA PutcKeepsPage ==
  ASSUME PageInv, NEW ch, Putc(ch)
  PROVE  PageInv'
<1> DEFINE cursor == Wrapped(Moved(ch))
           cells == (ink \ Blanked(ch)) \cup Printed(ch)
<1>1. /\ x' = cursor.x
      /\ PastPage(cursor) => y' = MaxH - 1 /\ ink' = Scrolled(cells)
      /\ ~PastPage(cursor) => y' = cursor.y /\ ink' = cells
      /\ spilled' = spilled \cup {d \in Blanked(ch) : d >= MaxW * MaxH}
      /\ returned' = (ch = "cr" \/ (ch # "nl" /\ returned))
  BY DEF Putc
<1>2. /\ cursor.x \in 0 .. MaxW - 1 /\ cursor.y \in y .. y + 1
      /\ y \in Nat /\ y + 1 <= MaxH
  BY MovesOn, Sizes DEF PageInv
<1>3. \A d \in cells :
        /\ d \in Nat /\ d < MaxW * (cursor.y + 1)
        /\ returned' \/ d < Pos(cursor)
  BY <1>1, TextBehind
<1>4. spilled' \subseteq MaxW * MaxH .. MaxW * MaxH + Tab - 2
  BY <1>1, BlanksNear DEF PageInv
<1> HIDE DEF cursor, cells
<1>5. returned' \in BOOLEAN
  BY <1>1
<1>6. CASE PastPage(cursor)
  <2>1. cursor.y = MaxH
    BY <1>2, <1>6, Sizes DEF PastPage
  <2>2. /\ MaxW * (MaxH + 1) = MaxW * MaxH + MaxW /\ MaxW * MaxH \in Int
        /\ MaxW * (MaxH - 1) = MaxW * MaxH - MaxW /\ (MaxH - 1) + 1 = MaxH
    BY Rows, Sizes
  <2>3. Cell' = cursor.x + MaxW * (MaxH - 1)
    BY <1>1, <1>6 DEF Cell
  <2>4. Pos(cursor) = Cell' + MaxW
    BY <1>2, <2>1, <2>2, <2>3, Sizes DEF Pos
  <2>5. \A d \in ink' : d + MaxW \in cells /\ d \in Nat
    BY <1>1, <1>3, <1>6, Sizes DEF Scrolled
  <2>6. \A d \in ink' : d \in Nat /\ d < MaxW * (y' + 1)
    BY <1>1, <1>3, <1>6, <2>1, <2>2, <2>5, Sizes
  <2>7. ~returned' => \A d \in ink' : d < Cell'
    <3>1. Cell' \in Int
      BY <1>2, <2>2, <2>3, Sizes
    <3> QED
      BY <1>3, <2>4, <2>5, <3>1, Sizes
  <2>8. x' \in 0 .. MaxW - 1 /\ y' \in 0 .. MaxH - 1
    BY <1>1, <1>2, <1>6, Sizes
  <2> QED
    BY <1>4, <1>5, <2>6, <2>7, <2>8 DEF PageInv, NoTextAhead
<1>7. CASE ~PastPage(cursor)
  <2>1. cursor.y < MaxH
    BY <1>2, <1>7, Sizes DEF PastPage
  <2>2. Pos(cursor) = Cell'
    BY <1>1, <1>7 DEF Pos, Cell
  <2>3. \A d \in ink' : d \in Nat /\ d < MaxW * (y' + 1)
    BY <1>1, <1>3, <1>7
  <2>4. ~returned' => \A d \in ink' : d < Cell'
    BY <1>1, <1>3, <1>7, <2>2
  <2>5. x' \in 0 .. MaxW - 1 /\ y' \in 0 .. MaxH - 1
    BY <1>1, <1>2, <1>7, <2>1, Sizes
  <2> QED
    BY <1>4, <1>5, <2>3, <2>4, <2>5 DEF PageInv, NoTextAhead
<1> QED
  BY <1>6, <1>7

-----------------------------------------------------------------------------
(* The least and the greatest of some numbers.                             *)
LEMMA MinLeast ==
  ASSUME NEW T \in SUBSET Nat, T # {}
  PROVE  Min(T) \in T /\ \A n \in T : Min(T) <= n
<1> DEFINE R == {ss \in Nat \X Nat : ss[1] < ss[2]}
<1>1. IsWellFoundedOn(R, Nat)
  BY NatLessThanWellFounded DEF OpToRel
<1>2. PICK m \in T : \A n \in T : ~(<<n, m>> \in R)
  BY <1>1, WFMin
<1>3. ASSUME NEW n \in T PROVE m <= n
  <2>1. m \in Nat /\ n \in Nat
    OBVIOUS
  <2>2. n < m => <<n, m>> \in R
    BY <2>1, SMT
  <2> QED
    BY <1>2, <2>1, <2>2
<1>4. \E m1 \in T : \A n \in T : m1 <= n
  BY <1>3
<1> QED
  BY <1>4 DEF Min

LEMMA MaxGreatest ==
  ASSUME NEW T \in SUBSET Nat, T # {}, NEW bound \in Nat, \A n \in T : n <= bound
  PROVE  Max(T) \in T /\ \A n \in T : n <= Max(T)
<1> DEFINE U == {bound - n : n \in T}
<1>1. U \in SUBSET Nat /\ U # {}
  <2>1. \A n \in T : bound - n \in Nat
    OBVIOUS
  <2>2. U \subseteq Nat
    BY <2>1
  <2>3. PICK n \in T : TRUE
    OBVIOUS
  <2>4. bound - n \in U
    OBVIOUS
  <2> QED
    BY <2>2, <2>4
<1>2. PICK u \in U : \A v \in U : u <= v
  BY <1>1, MinLeast
<1>3. PICK m \in T : u = bound - m
  OBVIOUS
<1>4. \A n \in T : m >= n
  <2> TAKE n \in T
  <2>1. u <= bound - n
    BY <1>2
  <2>2. m \in Nat /\ n \in Nat
    OBVIOUS
  <2> QED
    BY <1>3, <2>1, <2>2
<1>5. \E m1 \in T : \A n \in T : m1 >= n
  BY <1>4
<1>6. Max(T) \in T /\ \A n \in T : Max(T) >= n
  BY <1>5 DEF Max
<1>7. Max(T) \in Nat /\ \A n \in T : n \in Nat
  BY <1>6
<1> QED
  BY <1>6, <1>7

LEMMA StrlenIs ==
  ASSUME NEW str \in Seq(STRING)
  PROVE  /\ Strlen(str) \in 0 .. Len(str)
         /\ \A i \in 1 .. Strlen(str) : str[i] # "nul"
<1> DEFINE T == {i \in 0 .. Len(str) : i < Len(str) => str[i + 1] = "nul"}
<1>1. T \in SUBSET Nat /\ Len(str) \in T
  OBVIOUS
<1>2. Strlen(str) \in T /\ \A i \in T : Strlen(str) <= i
  BY <1>1, MinLeast DEF Strlen
<1>3. ASSUME NEW i \in 1 .. Strlen(str)
      PROVE  str[i] # "nul"
  <2>1. i - 1 \in 0 .. Len(str) /\ (i - 1) + 1 = i /\ i - 1 < Strlen(str)
        /\ Strlen(str) \in 0 .. Len(str)
    BY <1>2
  <2>2. i - 1 \notin T
    BY <1>2, <2>1
  <2> QED
    BY <2>1, <2>2
<1> QED
  BY <1>2, <1>3

(* Where a text that starts at kprint_log ends.                            *)
EndOf(l) == Min({i \in 0 .. LogSize + MaxPast : i \in Bytes => l[i] = "nul"})

LEMMA EndIs ==
  ASSUME NEW l
  PROVE  /\ EndOf(l) \in 0 .. LogSize + MaxPast
         /\ \A i \in 0 .. EndOf(l) - 1 : l[i] # "nul"
         /\ EndOf(l) \in Bytes => l[EndOf(l)] = "nul"
<1> DEFINE T == {i \in 0 .. LogSize + MaxPast : i \in Bytes => l[i] = "nul"}
<1>1. T \in SUBSET Nat /\ LogSize + MaxPast \in T
  BY Sizes DEF Bytes
<1>2. EndOf(l) \in T /\ \A i \in T : EndOf(l) <= i
  BY <1>1, MinLeast DEF EndOf
<1>3. ASSUME NEW i \in 0 .. EndOf(l) - 1
      PROVE  l[i] # "nul"
  <2>1. i \in 0 .. LogSize + MaxPast /\ i < EndOf(l) /\ EndOf(l) \in 0 .. LogSize + MaxPast
    BY <1>2, Sizes
  <2> QED
    BY <1>2, <2>1
<1> QED
  BY <1>2, <1>3

LEMMA EndFound ==
  ASSUME NEW l, NEW n \in Bytes, \A i \in 0 .. n - 1 : l[i] # "nul",
         l[n] = "nul"
  PROVE  EndOf(l) = n
<1>1. EndOf(l) \in 0 .. LogSize + MaxPast /\ n \in Nat /\ n < LogSize + MaxPast
  BY EndIs, Sizes DEF Bytes
<1>2. ~(EndOf(l) < n)
  <2> SUFFICES ASSUME EndOf(l) < n PROVE FALSE
    OBVIOUS
  <2>1. EndOf(l) \in 0 .. n - 1 /\ EndOf(l) \in Bytes
    BY <1>1, Sizes DEF Bytes
  <2> QED
    BY <2>1, EndIs
<1>3. ~(n < EndOf(l))
  <2> SUFFICES ASSUME n < EndOf(l) PROVE FALSE
    OBVIOUS
  <2>1. n \in 0 .. EndOf(l) - 1
    BY <1>1, Sizes
  <2> QED
    BY <2>1, EndIs
<1> QED
  BY <1>1, <1>2, <1>3, Sizes

LEMMA LongestIs ==
  ASSUME NEW str \in Strings \cup Typed
  PROVE  Longest \in Nat /\ Strlen(str) <= Longest /\ Strlen(str) \in Nat
         /\ 2 * Strlen(str) <= LogSize + 1 /\ str \in Seq(STRING)
<1> DEFINE T == {Len(s) : s \in Strings \cup Typed}
<1>1. \A s \in Strings \cup Typed : Len(s) \in Nat /\ 2 * Len(s) <= LogSize + 1
  BY Sizes
<1>2. T \in SUBSET Nat /\ T # {} /\ \A n \in T : n <= LogSize + 1
  <2>1. \A s \in Strings \cup Typed : Len(s) <= LogSize + 1
    <3> TAKE s \in Strings \cup Typed
    <3>1. \A n \in Nat : 2 * n <= LogSize + 1 => n <= LogSize + 1
      BY Sizes
    <3> QED
      BY <1>1, <3>1
  <2>2. T \subseteq Nat /\ Len(str) \in T
    BY <1>1
  <2> QED
    BY <2>1, <2>2
<1>3. Longest \in T /\ \A n \in T : n <= Longest
  <2>1. LogSize + 1 \in Nat
    BY Sizes
  <2> QED
    BY <1>2, <2>1, MaxGreatest DEF Longest
<1>4. str \in Seq(STRING) /\ Strlen(str) \in 0 .. Len(str)
  BY StrlenIs, Sizes
<1>5. Len(str) <= Longest
  BY <1>3
<1> QED
  BY <1>1, <1>2, <1>3, <1>4, <1>5, Sizes

(* The end of a sequence.                                                  *)
LEMMA LastIs ==
  ASSUME NEW s \in Seq(STRING), NEW n \in Nat
  PROVE  /\ LastOf(s, n) \in Seq(STRING)
         /\ Len(LastOf(s, n)) = IF Len(s) <= n THEN Len(s) ELSE n
         /\ \A i \in 1 .. Len(LastOf(s, n)) :
              LastOf(s, n)[i] = s[Len(s) - Len(LastOf(s, n)) + i]
<1>1. CASE Len(s) <= n
  BY <1>1 DEF LastOf
<1>2. CASE Len(s) > n
  <2> DEFINE a == Len(s) - n + 1
  <2>1. a \in 1 .. Len(s) + 1 /\ Len(s) - a + 1 = n /\ Len(s) \in Nat
    BY <1>2
  <2>2. LastOf(s, n) = SubSeq(s, a, Len(s))
    BY <1>2 DEF LastOf
  <2>3. /\ SubSeq(s, a, Len(s)) \in Seq(STRING)
        /\ Len(SubSeq(s, a, Len(s))) = n
        /\ \A i \in 1 .. n : SubSeq(s, a, Len(s))[i] = s[i + a - 1]
    BY <2>1
  <2>4. \A i \in 1 .. n : i + a - 1 = Len(s) - n + i
    BY <2>1
  <2> HIDE DEF a
  <2> QED
    BY <1>2, <2>1, <2>2, <2>3, <2>4
<1> QED
  BY <1>1, <1>2

-----------------------------------------------------------------------------
(* The log.  Its text, or what of it is behind the buffer, is the end of   *)
(* what was said.  A call that is about to shift the log found it too long *)
(* for its string, and a call that came between leaves it so: so the shift *)
(* never takes more than there is.  While the log ends in its buffer and   *)
(* nothing came between, it is all that was said or long enough, after the *)
(* shift together with the string that is about to come.                   *)
FrameSet == [at : {"print", "shift", "append"}, i : Nat, str : Strings \cup Typed]
Stack == frames \in Seq(FrameSet) /\ Len(frames) <= 2
LogTypes ==
  /\ LogLen \in Bytes
  /\ said \in Seq(STRING) /\ Len(said) <= LogSize
  /\ whole \in BOOLEAN /\ disturbed \in BOOLEAN

Running(place) == frames # <<>> /\ Top.at = place
Pending == IF Running("append") THEN Strlen(Top.str) ELSE 0
ShiftNeeded ==
  /\ Running("shift") => LogLen + Strlen(Top.str) > LogSize
  /\ Len(frames) = 2 /\ frames[2].at = "shift" =>
       LogLen + Pending + Strlen(frames[2].str) > LogSize

First(n) == IF n < LogSize THEN 0 ELSE LogSize
TextIs(l, first, n, s) ==
  n - first <= Len(s) /\ \A i \in first .. n - 1 : l[i] = s[Len(s) - n + i + 1]

Calm == LogLen < LogSize /\ ~disturbed
Enough ==
  \/ whole /\ LogLen = Len(said)
  \/ LogLen + Longest > LogSize
  \/ LogLen + Pending + Longest > LogSize
LogInv ==
  /\ Stack /\ LogTypes /\ ShiftNeeded
  /\ TextIs(log, First(LogLen), LogLen, said)
  /\ Calm => Enough

LEMMA LogLenIs == LogLen = EndOf(log)
BY DEF LogLen, EndOf

(* Lengths, and what a call in the stack may be.                           *)
LEMMA Lengths ==
  ASSUME LogTypes
  PROVE  LogLen \in Nat /\ LogLen < LogSize + MaxPast /\ Len(said) \in Nat
         /\ LogSize \in Nat /\ MaxPast \in Nat
BY Sizes DEF LogTypes, Bytes

LEMMA Pops ==
  ASSUME NEW S, NEW s \in Seq(S), s # <<>>
  PROVE  /\ Tail(s) \in Seq(S) /\ Len(Tail(s)) = Len(s) - 1
         /\ \A k \in 1 .. Len(s) - 1 : Tail(s)[k] = s[k + 1]
         /\ Head(s) = s[1] /\ s[1] \in S /\ Len(s) \in Nat \ {0}
OBVIOUS

LEMMA StackPops ==
  ASSUME Stack, frames # <<>>
  PROVE  /\ Tail(frames) \in Seq(FrameSet) /\ Len(Tail(frames)) = Len(frames) - 1
         /\ \A k \in 1 .. Len(frames) - 1 : Tail(frames)[k] = frames[k + 1]
         /\ Head(frames) = frames[1] /\ frames[1] \in FrameSet
         /\ Len(frames) \in 1 .. 2
<1>1. frames \in Seq(FrameSet)
  BY DEF Stack
<1>2. /\ Tail(frames) \in Seq(FrameSet) /\ Len(Tail(frames)) = Len(frames) - 1
      /\ \A k \in 1 .. Len(frames) - 1 : Tail(frames)[k] = frames[k + 1]
      /\ Head(frames) = frames[1] /\ frames[1] \in FrameSet
      /\ Len(frames) \in Nat \ {0}
  BY <1>1, Pops
<1>3. Len(frames) \in 1 .. 2
  BY <1>2 DEF Stack
<1> QED
  BY <1>2, <1>3

LEMMA TopIs ==
  ASSUME Stack, frames # <<>>
  PROVE  /\ Top \in FrameSet /\ Top = frames[1] /\ Len(frames) \in 1 .. 2
         /\ Top.str \in Strings \cup Typed /\ Strlen(Top.str) \in Nat
         /\ Len(frames) = 2 =>
              frames[2].str \in Strings \cup Typed /\ Strlen(frames[2].str) \in Nat
<1>1. Top = frames[1] /\ Top \in FrameSet /\ Len(frames) \in 1 .. 2
  BY StackPops DEF Top
<1>2. Len(frames) = 2 => frames[2] \in FrameSet
  <2>1. frames \in Seq(FrameSet)
    BY DEF Stack
  <2>2. \A k \in 1 .. Len(frames) : frames[k] \in FrameSet
    BY <2>1
  <2> QED
    BY <2>2
<1>3. \A f \in FrameSet : f.str \in Strings \cup Typed
  BY DEF FrameSet
<1> QED
  BY <1>1, <1>2, <1>3, LongestIs

(* The running call is replaced, called over or left.                      *)
LEMMA TopReplaced ==
  ASSUME Stack, frames # <<>>, NEW f \in FrameSet,
         frames' = <<f>> \o Tail(frames)
  PROVE  /\ Stack' /\ frames' # <<>> /\ Top' = f /\ Len(frames') = Len(frames)
         /\ \A k \in 2 .. Len(frames) : frames'[k] = frames[k]
<1>1. /\ Tail(frames) \in Seq(FrameSet) /\ Len(Tail(frames)) = Len(frames) - 1
      /\ \A k \in 1 .. Len(frames) - 1 : Tail(frames)[k] = frames[k + 1]
      /\ Len(frames) \in 1 .. 2
  BY StackPops DEF Stack
<1>2. /\ frames' \in Seq(FrameSet) /\ Len(frames') = Len(frames)
      /\ frames'[1] = f
      /\ \A k \in 2 .. Len(frames) : frames'[k] = Tail(frames)[k - 1]
  BY <1>1
<1>3. \A k \in 2 .. Len(frames) : frames'[k] = frames[k]
  BY <1>1, <1>2
<1>4. Head(frames') = f /\ frames' # <<>>
  BY <1>1, <1>2
<1> QED
  BY <1>1, <1>2, <1>3, <1>4 DEF Stack, Top

LEMMA TopCalled ==
  ASSUME Stack, Len(frames) <= 1, NEW str \in Strings \cup Typed, Call(str)
  PROVE  /\ Stack' /\ frames' # <<>> /\ Top' = [at |-> "print", i |-> 0, str |-> str]
         /\ \A k \in 2 .. Len(frames') : k = 2 /\ frames # <<>> /\ frames'[k] = Top
<1> DEFINE f == [at |-> "print", i |-> 0, str |-> str]
<1>1. f \in FrameSet /\ frames' = <<f>> \o frames
  BY DEF FrameSet, Call
<1> HIDE DEF f
<1>2. /\ frames' \in Seq(FrameSet) /\ Len(frames') = Len(frames) + 1
      /\ frames'[1] = f /\ Head(frames') = f /\ frames' # <<>>
      /\ Len(frames) \in 0 .. 1
      /\ \A k \in 2 .. Len(frames) + 1 : frames'[k] = frames[k - 1]
  BY <1>1 DEF Stack
<1>3. \A k \in 2 .. Len(frames') : k = 2 /\ frames # <<>> /\ frames'[k] = Top
  BY <1>2 DEF Stack, Top
<1> QED
  BY <1>2, <1>3 DEF Stack, Top, f

LEMMA TopLeft ==
  ASSUME Stack, frames # <<>>, frames' = Tail(frames)
  PROVE  /\ Stack' /\ Len(frames') = Len(frames) - 1 /\ Len(frames) \in 1 .. 2
         /\ \A k \in 1 .. Len(frames') : frames'[k] = frames[k + 1]
         /\ frames' # <<>> => Top' = frames[2] /\ Len(frames) = 2
<1>1. /\ frames' \in Seq(FrameSet) /\ Len(frames') = Len(frames) - 1
      /\ Len(frames) \in 1 .. 2
      /\ \A k \in 1 .. Len(frames') : frames'[k] = frames[k + 1]
  BY StackPops DEF Stack
<1>2. frames' # <<>> => Head(frames') = frames[2] /\ Len(frames) = 2
  BY <1>1
<1> QED
  BY <1>1, <1>2 DEF Stack, Top

LEMMA ToPlace ==
  ASSUME Stack, frames # <<>>, NEW place \in {"print", "shift", "append"},
         GoesTo(place)
  PROVE  /\ Stack' /\ frames' # <<>> /\ Len(frames') = Len(frames)
         /\ Top'.at = place /\ Top'.str = Top.str
         /\ \A k \in 2 .. Len(frames) : frames'[k] = frames[k]
<1> DEFINE f == [Top EXCEPT !.at = place]
<1>1. f \in FrameSet /\ f.at = place /\ f.str = Top.str
  BY TopIs DEF FrameSet
<1>2. frames' = <<f>> \o Tail(frames)
  BY DEF GoesTo
<1> HIDE DEF f
<1> QED
  BY <1>1, <1>2, TopReplaced

-----------------------------------------------------------------------------
LEMMA InitLog == Init => LogInv
<1> SUFFICES ASSUME Init PROVE LogInv
  OBVIOUS
<1>1. frames = <<>> /\ said = <<>> /\ whole = TRUE /\ disturbed = FALSE
  BY DEF Init
<1>2. 0 \in Bytes /\ log[0] = "nul"
  BY Sizes DEF Init, Bytes
<1>3. LogLen = 0
  BY <1>2, EndFound, LogLenIs
<1>4. Stack /\ LogTypes
  <2>1. frames \in Seq(FrameSet) /\ Len(frames) = 0 /\ said \in Seq(STRING) /\ Len(said) = 0
    BY <1>1
  <2>2. 0 <= 2 /\ 0 <= LogSize
    BY Sizes
  <2> QED
    BY <1>1, <1>2, <1>3, <2>1, <2>2 DEF Stack, LogTypes
<1>5. ShiftNeeded
  BY <1>1 DEF ShiftNeeded, Running
<1>6. First(0) = 0 /\ TextIs(log, 0, 0, said) /\ Enough
  BY <1>1, <1>3, Sizes DEF First, TextIs, Enough
<1> QED
  BY <1>3, <1>4, <1>5, <1>6 DEF LogInv

(* Steps that leave the log alone: what the page shows, a new call, and    *)
(* the measure.                                                            *)
LEMMA LogKept ==
  ASSUME LogInv, UNCHANGED logged, Stack', disturbed' \in BOOLEAN,
         disturbed => disturbed', ShiftNeeded',
         Calm' /\ Running("append") =>
           Running("append")' /\ Top'.str = Top.str
  PROVE  LogInv'
<1>1. LogLen' = LogLen /\ log' = log /\ said' = said /\ whole' = whole
  BY DEF LogLen, logged
<1>2. LogTypes'
  BY <1>1 DEF LogInv, LogTypes
<1>3. TextIs(log, First(LogLen), LogLen, said)'
  BY <1>1 DEF LogInv, TextIs, First
<1>4. Calm' => Calm
  BY <1>1 DEF Calm
<1>5. Calm' => Enough'
  <2> SUFFICES ASSUME Calm' PROVE Enough'
    OBVIOUS
  <2>1. Enough
    BY <1>4 DEF LogInv
  <2>2. CASE Running("append")
    BY <1>1, <2>1, <2>2 DEF Enough, Pending
  <2>3. CASE ~Running("append")
    <3>1. LogLen + Pending = LogLen
      BY <2>3, Lengths DEF Pending, LogInv
    <3> QED
      BY <1>1, <2>1, <3>1 DEF Enough
  <2> QED
    BY <2>2, <2>3
<1> QED
  BY <1>2, <1>3, <1>5 DEF LogInv

(* The shift: the text in the buffer is moved with its 0; of a log without *)
(* one in the buffer nothing behind it is moved, and nothing before it     *)
(* becomes a 0.                                                            *)
LEMMA ShiftMoves ==
  ASSUME LogInv, Shift
  PROVE  LET s == Strlen(Top.str)
         IN  /\ LogLen' \in Bytes
             /\ LogLen < LogSize => /\ LogLen' = LogLen - s
                                    /\ \A i \in 0 .. LogLen' : log'[i] = log[i + s]
             /\ LogLen >= LogSize => /\ LogLen' = LogLen
                                     /\ \A i \in LogSize .. LogLen : log'[i] = log[i]
<1> DEFINE s == Strlen(Top.str)
           L == LogLen
<1>1. /\ frames # <<>> /\ Running("shift") /\ Stack /\ LogTypes
      /\ log' = Shifted(s)
  BY DEF Shift, At, Running, LogInv
<1>2. s \in Nat /\ 2 * s <= LogSize + 1
  BY <1>1, TopIs, LongestIs
<1>3. L + s > LogSize
  BY <1>1 DEF LogInv, ShiftNeeded
<1>4. /\ L = EndOf(log) /\ L \in Bytes /\ L \in Nat /\ L < LogSize + MaxPast
      /\ LogSize \in Nat /\ MaxPast \in Nat
  BY <1>1, LogLenIs, Lengths DEF LogTypes
<1> HIDE DEF s, L
<1>5. /\ \A i \in Bytes : i < LogSize - s => log'[i] = log[i + s]
      /\ \A i \in Bytes : i >= LogSize - s => log'[i] = log[i]
  BY <1>1, <1>2, <1>4 DEF Shifted, Bytes
<1>6. (\A i \in 0 .. L - 1 : log[i] # "nul") /\ log[L] = "nul"
  BY <1>4, EndIs
<1>7. CASE L < LogSize
  <2> DEFINE n == L - s
  <2>1. n \in Nat /\ n + s = L /\ n < LogSize - s /\ n \in Bytes
    BY <1>2, <1>3, <1>4, <1>7 DEF Bytes
  <2> HIDE DEF n
  <2>2. \A i \in 0 .. n : log'[i] = log[i + s] /\ i + s \in 0 .. L
    <3> TAKE i \in 0 .. n
    <3>1. i \in Bytes /\ i < LogSize - s /\ i + s \in 0 .. L
      BY <1>2, <1>4, <2>1 DEF Bytes
    <3> QED
      BY <1>5, <3>1
  <2>3. ASSUME NEW i \in 0 .. n - 1 PROVE log'[i] # "nul"
    <3>1. i \in 0 .. n /\ i + s \in 0 .. L - 1
      BY <1>2, <2>1
    <3> QED
      BY <1>6, <2>2, <3>1
  <2>4. log'[n] = "nul"
    <3>1. n \in 0 .. n
      BY <2>1
    <3> QED
      BY <1>6, <2>1, <2>2, <3>1
  <2>5. EndOf(log') = n
    BY <2>1, <2>3, <2>4, EndFound
  <2>6. LogLen' = n
    BY <2>5 DEF LogLen, EndOf
  <2> QED
    BY <1>4, <1>7, <2>1, <2>2, <2>6 DEF n, L, s
<1>8. CASE L >= LogSize
  <2>1. ASSUME NEW i \in 0 .. L - 1 PROVE log'[i] # "nul"
    <3>1. CASE i < LogSize - s
      <4>1. i \in Bytes /\ i + s \in 0 .. L - 1
        BY <1>2, <1>4, <1>8, <3>1 DEF Bytes
      <4> QED
        BY <1>5, <1>6, <3>1, <4>1
    <3>2. CASE i >= LogSize - s
      <4>1. i \in Bytes
        BY <1>4 DEF Bytes
      <4> QED
        BY <1>5, <1>6, <3>2, <4>1
    <3> QED
      BY <1>2, <1>4, <3>1, <3>2
  <2>2. \A i \in LogSize .. L : log'[i] = log[i]
    <3> TAKE i \in LogSize .. L
    <3>1. i \in Bytes /\ i >= LogSize - s
      BY <1>2, <1>4 DEF Bytes
    <3> QED
      BY <1>5, <3>1
  <2>3. log'[L] = "nul"
    <3>1. L \in LogSize .. L
      BY <1>4, <1>8
    <3> QED
      BY <1>6, <2>2, <3>1
  <2>4. EndOf(log') = L
    BY <1>4, <2>1, <2>3, EndFound
  <2>5. LogLen' = L
    BY <2>4 DEF LogLen, EndOf
  <2> QED
    BY <1>4, <1>8, <2>2, <2>5 DEF L
<1> QED
  BY <1>4, <1>7, <1>8

LEMMA ShiftKeepsLog ==
  ASSUME LogInv, Shift
  PROVE  LogInv'
<1> DEFINE s == Strlen(Top.str)
           L == LogLen
<1>1. /\ frames # <<>> /\ Running("shift") /\ Stack /\ LogTypes /\ GoesTo("append")
      /\ said' = said /\ whole' = whole /\ disturbed' = disturbed
  BY DEF Shift, At, Running, LogInv
<1>2. /\ Stack' /\ frames' # <<>> /\ Len(frames') = Len(frames)
      /\ Top'.at = "append" /\ Top'.str = Top.str
      /\ \A k \in 2 .. Len(frames) : frames'[k] = frames[k]
  BY <1>1, ToPlace
<1>3. s \in Nat /\ s <= Longest /\ Longest \in Nat
  BY <1>1, TopIs, LongestIs
<1>4. L + s > LogSize
  BY <1>1 DEF LogInv, ShiftNeeded
<1>5. L \in Nat /\ LogSize \in Nat /\ Len(said) \in Nat /\ LogSize > 0
  BY <1>1, Lengths, Sizes
<1>6. /\ LogLen' \in Bytes
      /\ L < LogSize => /\ LogLen' = L - s
                        /\ \A i \in 0 .. LogLen' : log'[i] = log[i + s]
      /\ L >= LogSize => /\ LogLen' = L
                         /\ \A i \in LogSize .. L : log'[i] = log[i]
  BY ShiftMoves
<1>7. Pending' = s
  BY <1>2 DEF Pending, Running
<1> DEFINE n == LogLen'
<1>13. /\ n \in Bytes /\ n \in Nat
       /\ L < LogSize => n = L - s
       /\ L >= LogSize => n = L
  BY <1>6, Sizes DEF Bytes
<1> HIDE DEF s, L, n
<1>8. LogTypes'
  BY <1>1, <1>13 DEF LogTypes, n
<1>9. n + s >= L
  BY <1>3, <1>5, <1>13
<1>10. ShiftNeeded'
  <2>1. ~Running("shift")'
    BY <1>2 DEF Running
  <2>2. ASSUME Len(frames') = 2, frames'[2].at = "shift"
        PROVE  n + s + Strlen(frames'[2].str) > LogSize
    <3>1. Len(frames) = 2 /\ frames'[2] = frames[2]
      BY <1>2, <2>2
    <3>2. L + Pending + Strlen(frames[2].str) > LogSize /\ Strlen(frames[2].str) \in Nat
      BY <1>1, <2>2, <3>1, TopIs DEF LogInv, ShiftNeeded, L
    <3>3. Pending = 0
      BY <1>1 DEF Pending, Running
    <3> DEFINE other == Strlen(frames[2].str)
    <3>4. other \in Nat /\ L + other > LogSize
      BY <1>5, <3>2, <3>3
    <3> HIDE DEF other
    <3>5. n + s + other > LogSize
      BY <1>3, <1>5, <1>9, <1>13, <3>4
    <3> QED
      BY <3>1, <3>5 DEF other
  <2> QED
    BY <1>7, <2>1, <2>2 DEF ShiftNeeded, n
<1>11. TextIs(log', First(n), n, said)
  <2>1. TextIs(log, First(L), L, said)
    BY DEF LogInv, L
  <2>2. CASE L < LogSize
    <3>1. n = L - s /\ n < LogSize /\ First(L) = 0 /\ First(n) = 0
      BY <1>3, <1>5, <1>13, <2>2 DEF First
    <3>2. /\ L - 0 <= Len(said)
          /\ \A j \in 0 .. L - 1 : log[j] = said[Len(said) - L + j + 1]
      BY <2>1, <3>1 DEF TextIs
    <3>3. \A i \in 0 .. n : log'[i] = log[i + s]
      BY <1>6, <2>2 DEF n
    <3>4. ASSUME NEW i \in 0 .. n - 1
          PROVE  log'[i] = said[Len(said) - n + i + 1]
      <4>1. i \in 0 .. n /\ i + s \in 0 .. L - 1
            /\ Len(said) - L + (i + s) + 1 = Len(said) - n + i + 1
        BY <1>3, <1>5, <1>13, <3>1
      <4> QED
        BY <3>2, <3>3, <4>1
    <3>5. n - 0 <= Len(said)
      BY <1>3, <1>5, <1>13, <3>1, <3>2
    <3>6. TextIs(log', 0, n, said)
      BY <3>4, <3>5 DEF TextIs
    <3> QED
      BY <3>1, <3>6
  <2>3. CASE L >= LogSize
    <3>1. n = L /\ \A i \in LogSize .. L : log'[i] = log[i]
      BY <1>6, <1>13, <2>3
    <3>2. First(L) = LogSize
      BY <1>5, <2>3 DEF First
    <3>3. \A i \in LogSize .. L - 1 : i \in LogSize .. L
      BY <1>5
    <3>4. TextIs(log', LogSize, L, said)
      BY <2>1, <3>1, <3>2, <3>3 DEF TextIs
    <3> QED
      BY <3>1, <3>2, <3>4
  <2> QED
    BY <1>5, <2>2, <2>3
<1>12. Enough'
  <2>1. n + s + Longest > LogSize
    BY <1>3, <1>4, <1>5, <1>9, <1>13
  <2> QED
    BY <1>7, <2>1 DEF Enough, n
<1> QED
  BY <1>1, <1>2, <1>8, <1>10, <1>11, <1>12 DEF LogInv, TextIs, First, n

LEMMA Joins ==
  ASSUME NEW a \in Seq(STRING), NEW b \in Seq(STRING)
  PROVE  /\ a \o b \in Seq(STRING) /\ Len(a \o b) = Len(a) + Len(b)
         /\ Len(a) \in Nat /\ Len(b) \in Nat
         /\ \A i \in 1 .. Len(a) : (a \o b)[i] = a[i]
         /\ \A i \in 1 .. Len(b) : (a \o b)[Len(a) + i] = b[i]
OBVIOUS

(* strcat: the string is appended to both.                                 *)
Appended(str) ==
  /\ Len(str) = Strlen(Top.str)
  /\ LogLen' = LogLen + Len(str) /\ LogLen' \in Bytes
  /\ \A i \in 0 .. LogLen - 1 : log'[i] = log[i]
  /\ \A i \in LogLen .. LogLen' - 1 : log'[i] = str[i - LogLen + 1]
  /\ said' = LastOf(said \o str, LogSize)
  /\ whole' = (whole /\ Len(said \o str) <= LogSize)

LEMMA StrcatAppends ==
  ASSUME LogInv, Strcat
  PROVE  \E str \in Seq(STRING) : Appended(str)
<1> DEFINE str == SubSeq(Top.str, 1, Strlen(Top.str))
           s == Strlen(Top.str)
           L == LogLen
           end == L + Len(str)
<1>1. /\ frames # <<>> /\ Stack /\ LogTypes /\ end \in Bytes
      /\ log' = [i \in Bytes |-> IF i \in L .. end - 1
                              THEN str[i - L + 1]
                              ELSE IF i = end THEN "nul" ELSE log[i]]
      /\ said' = LastOf(said \o str, LogSize)
      /\ whole' = (whole /\ Len(said \o str) <= LogSize)
  BY DEF Strcat, At, LogInv
<1>2. /\ s \in 0 .. Len(Top.str) /\ Top.str \in Seq(STRING)
      /\ \A i \in 1 .. s : Top.str[i] # "nul"
  BY <1>1, TopIs, LongestIs, StrlenIs
<1>3. /\ str \in Seq(STRING) /\ Len(str) = s /\ s \in Nat
      /\ \A i \in 1 .. s : str[i] # "nul"
  BY <1>2
<1> HIDE DEF str, s
<1>4. /\ L = EndOf(log) /\ L \in Nat /\ L < LogSize + MaxPast
      /\ LogSize \in Nat /\ MaxPast \in Nat
  BY <1>1, LogLenIs, Lengths
<1>5. end = L + s /\ end \in Nat
  BY <1>3, <1>4
<1> HIDE DEF end, L
<1>6. \A i \in 0 .. end : i \in Bytes
  BY <1>1, <1>4, <1>5 DEF Bytes
<1>7. /\ \A i \in 0 .. L - 1 : log'[i] = log[i]
      /\ \A i \in L .. end - 1 : log'[i] = str[i - L + 1]
      /\ log'[end] = "nul"
  <2>1. \A i \in Bytes :
          log'[i] = IF i \in L .. end - 1 THEN str[i - L + 1]
                    ELSE IF i = end THEN "nul" ELSE log[i]
    BY <1>1
  <2>2. \A i \in 0 .. L - 1 : i \in 0 .. end /\ i \notin L .. end - 1 /\ i # end
    BY <1>3, <1>4, <1>5
  <2>3. \A i \in L .. end - 1 : i \in 0 .. end
    BY <1>3, <1>4, <1>5
  <2>4. end \in Bytes /\ end \notin L .. end - 1
    BY <1>1, <1>4, <1>5
  <2> QED
    BY <1>6, <2>1, <2>2, <2>3, <2>4
<1>8. ASSUME NEW i \in 0 .. end - 1 PROVE log'[i] # "nul"
  <2>1. CASE i < L
    <3>1. i \in 0 .. L - 1
      BY <1>4, <2>1
    <3> QED
      BY <1>4, <1>7, <3>1, EndIs
  <2>2. CASE i >= L
    <3>1. i \in L .. end - 1 /\ i - L + 1 \in 1 .. s
      BY <1>3, <1>4, <1>5, <2>2
    <3> QED
      BY <1>3, <1>7, <3>1
  <2> QED
    BY <1>4, <2>1, <2>2
<1>9. EndOf(log') = end
  BY <1>1, <1>7, <1>8, EndFound
<1>10. LogLen' = end
  BY <1>9 DEF LogLen, EndOf
<1>11. Appended(str)
  BY <1>1, <1>3, <1>5, <1>7, <1>10 DEF Appended, L, s
<1> QED
  BY <1>3, <1>11

LEMMA StrcatKeepsLog ==
  ASSUME LogInv, Strcat
  PROVE  LogInv'
<1> DEFINE s == Strlen(Top.str)
           L == LogLen
           end == LogLen'
<1>1. /\ frames # <<>> /\ Running("append") /\ Stack /\ LogTypes
      /\ frames' = Tail(frames) /\ disturbed' = disturbed
  BY DEF Strcat, At, Running, LogInv
<1>2. /\ Stack' /\ Len(frames') = Len(frames) - 1 /\ Len(frames) \in 1 .. 2
      /\ \A k \in 1 .. Len(frames') : frames'[k] = frames[k + 1]
      /\ frames' # <<>> => Top' = frames[2] /\ Len(frames) = 2
  BY <1>1, TopLeft
<1>3. PICK str \in Seq(STRING) : Appended(str)
  BY StrcatAppends
<1> DEFINE t == said \o str
<1>4. /\ Len(str) = s /\ end = L + s /\ end \in Bytes
      /\ \A i \in 0 .. L - 1 : log'[i] = log[i]
      /\ \A i \in L .. end - 1 : log'[i] = str[i - L + 1]
      /\ said' = LastOf(t, LogSize)
      /\ whole' = (whole /\ Len(t) <= LogSize)
  BY <1>3 DEF Appended
<1>5. said \in Seq(STRING) /\ Len(said) <= LogSize
  BY <1>1 DEF LogTypes
<1>6. /\ t \in Seq(STRING) /\ Len(t) = Len(said) + s
      /\ \A i \in 1 .. Len(said) : t[i] = said[i]
      /\ \A i \in 1 .. s : t[Len(said) + i] = str[i]
  <2>1. str \in Seq(STRING) /\ Len(str) = s
    BY <1>3, <1>4
  <2>2. /\ t \in Seq(STRING) /\ Len(t) = Len(said) + Len(str)
        /\ \A i \in 1 .. Len(said) : t[i] = said[i]
        /\ \A i \in 1 .. Len(str) : t[Len(said) + i] = str[i]
    BY <1>5, <2>1, Joins
  <2> QED
    BY <2>1, <2>2
<1>7. /\ s \in Nat /\ s <= Longest /\ Longest \in Nat
  BY <1>1, TopIs, LongestIs
<1>8. /\ L \in Nat /\ LogSize \in Nat /\ Len(said) \in Nat /\ LogSize > 0
      /\ MaxPast \in Nat /\ MaxPast <= LogSize
  BY <1>1, Lengths, Sizes
<1> HIDE DEF s, L, t
<1>9. /\ said' \in Seq(STRING)
      /\ Len(said') = IF Len(t) <= LogSize THEN Len(t) ELSE LogSize
      /\ \A i \in 1 .. Len(said') : said'[i] = t[Len(t) - Len(said') + i]
  BY <1>4, <1>6, <1>8, LastIs
<1>10. LogTypes'
  BY <1>1, <1>4, <1>6, <1>7, <1>8, <1>9 DEF LogTypes
<1>11. end \in Nat /\ end < LogSize + MaxPast
  BY <1>4, <1>8 DEF Bytes
<1> HIDE DEF end
<1>12. ShiftNeeded'
  <2>1. ~(Len(frames') = 2)
    BY <1>2
  <2>2. ASSUME Running("shift")'
        PROVE  end + Strlen(Top'.str) > LogSize
    <3>1. Len(frames) = 2 /\ Top' = frames[2] /\ frames[2].at = "shift"
      BY <1>2, <2>2 DEF Running
    <3>2. L + s + Strlen(frames[2].str) > LogSize
      BY <1>1, <3>1 DEF LogInv, ShiftNeeded, Pending, L, s
    <3> QED
      BY <1>4, <3>1, <3>2
  <2> QED
    BY <2>1, <2>2 DEF ShiftNeeded, end
<1>13. TextIs(log', First(end), end, said')
  <2> DEFINE a == First(L)
             b == First(end)
  <2>1. /\ a \in Nat /\ b \in Nat /\ a <= b /\ a <= L /\ b <= end
        /\ end - b <= LogSize
    BY <1>4, <1>7, <1>8, <1>11 DEF First
  <2>2. /\ L - a <= Len(said)
        /\ \A i \in a .. L - 1 : log[i] = said[Len(said) - L + i + 1]
    BY DEF LogInv, TextIs, L
  <2> HIDE DEF a, b
  <2>3. Len(said') \in Nat /\ end - b <= Len(said') /\ Len(said') <= Len(t)
    BY <1>4, <1>6, <1>7, <1>8, <1>9, <1>11, <2>1, <2>2
  <2>4. ASSUME NEW i \in b .. end - 1
        PROVE  log'[i] = said'[Len(said') - end + i + 1]
    <3> DEFINE j == Len(said') - end + i + 1
    <3>1. j \in 1 .. Len(said') /\ i \in Nat /\ i < end /\ i >= a
      BY <1>11, <2>1, <2>3
    <3>2. said'[j] = t[Len(t) - Len(said') + j]
      BY <1>9, <3>1
    <3>3. Len(t) - Len(said') + j = Len(said) - L + i + 1
      BY <1>4, <1>6, <1>7, <1>8, <2>3, <3>1
    <3> HIDE DEF j
    <3>4. CASE i < L
      <4>1. i \in a .. L - 1 /\ i \in 0 .. L - 1
            /\ Len(said) - L + i + 1 \in 1 .. Len(said)
        BY <1>8, <2>1, <2>2, <3>1, <3>4
      <4>2. log'[i] = said[Len(said) - L + i + 1]
        BY <1>4, <2>2, <4>1
      <4> QED
        BY <1>6, <3>2, <3>3, <4>1, <4>2 DEF j
    <3>5. CASE i >= L
      <4>1. i - L + 1 \in 1 .. s /\ i \in L .. end - 1
            /\ Len(said) - L + i + 1 = Len(said) + (i - L + 1)
        BY <1>4, <1>7, <1>8, <3>1, <3>5
      <4>2. t[Len(said) - L + i + 1] = str[i - L + 1]
        BY <1>6, <4>1
      <4>3. log'[i] = str[i - L + 1]
        BY <1>4, <4>1
      <4> QED
        BY <3>2, <3>3, <4>2, <4>3 DEF j
    <3> QED
      BY <1>8, <3>1, <3>4, <3>5
  <2>5. TextIs(log', b, end, said')
    BY <2>3, <2>4 DEF TextIs
  <2> QED
    BY <2>5 DEF b
<1>14. Calm' => Enough'
  <2> SUFFICES ASSUME Calm' PROVE Enough'
    OBVIOUS
  <2>1. end < LogSize /\ ~disturbed
    BY <1>1 DEF Calm, end
  <2>2. L < LogSize
    BY <1>4, <1>7, <1>8, <2>1
  <2>3. Enough
    BY <2>1, <2>2 DEF LogInv, Calm, L
  <2>4. Pending = s
    BY <1>1 DEF Pending, s
  <2>5. CASE whole /\ L = Len(said)
    <3>1. Len(t) = end /\ Len(t) <= LogSize
      BY <1>4, <1>6, <1>7, <1>8, <1>11, <2>1, <2>5
    <3>2. Len(said') = end /\ whole'
      BY <1>4, <1>9, <2>5, <3>1, Zenon
    <3> QED
      BY <3>2 DEF Enough, end
  <2>6. CASE L + Longest > LogSize \/ L + s + Longest > LogSize
    <3>1. end + Longest > LogSize
      BY <1>4, <1>7, <1>8, <2>6
    <3> QED
      BY <3>1 DEF Enough, end
  <2> QED
    BY <2>3, <2>4, <2>5, <2>6 DEF Enough, L
<1> QED
  BY <1>2, <1>10, <1>12, <1>13, <1>14 DEF LogInv, TextIs, First, end

LEMMA PrintKeepsLog ==
  ASSUME LogInv, Kprint \/ KeyPrints
  PROVE  LogInv'
<1>1. Stack /\ LogTypes /\ Len(frames) \in Nat
  BY DEF LogInv, Stack
<1>2. PICK str \in Strings \cup Typed : Call(str)
  BY DEF Kprint, KeyPrints
<1>3. Len(frames) <= 1 /\ UNCHANGED logged
  <2>1. CASE Kprint
    <3>1. frames = <<>> /\ UNCHANGED logged
      BY <2>1 DEF Kprint
    <3>2. Len(<<>>) = 0
      OBVIOUS
    <3> QED
      BY <3>1, <3>2
  <2>2. CASE KeyPrints
    <3>1. Len(frames) = 1 /\ UNCHANGED logged
      BY <2>2 DEF KeyPrints
    <3> QED
      BY <3>1
  <2> QED
    BY <2>1, <2>2
<1>4. /\ disturbed' \in BOOLEAN /\ (disturbed => disturbed')
      /\ ~disturbed' /\ frames # <<>> => Top.at \notin {"shift", "append"}
  <2>1. CASE Kprint
    BY <1>1, <2>1 DEF Kprint, LogTypes
  <2>2. CASE KeyPrints
    <3>1. disturbed' = (disturbed \/ Top.at \in {"shift", "append"})
      BY <2>2 DEF KeyPrints
    <3> QED
      BY <1>1, <3>1 DEF LogTypes
  <2> QED
    BY <2>1, <2>2
<1>5. /\ Stack' /\ frames' # <<>>
      /\ Top' = [at |-> "print", i |-> 0, str |-> str]
      /\ \A k \in 2 .. Len(frames') : k = 2 /\ frames # <<>> /\ frames'[k] = Top
  BY <1>1, <1>2, <1>3, TopCalled
<1>6. ShiftNeeded'
  <2>1. ~Running("shift")' /\ Pending' = 0
    BY <1>5 DEF Running, Pending
  <2>2. ASSUME Len(frames') = 2, frames'[2].at = "shift"
        PROVE  LogLen' + 0 + Strlen(frames'[2].str) > LogSize
    <3>1. frames # <<>> /\ frames'[2] = Top /\ Running("shift")
      BY <1>5, <2>2 DEF Running
    <3>2. LogLen + Strlen(Top.str) > LogSize
      BY <3>1 DEF LogInv, ShiftNeeded
    <3>3. LogLen' = LogLen /\ LogLen \in Nat
      BY <1>1, <1>3, Lengths DEF LogLen, logged
    <3> QED
      BY <3>1, <3>2, <3>3
  <2> QED
    BY <2>1, <2>2 DEF ShiftNeeded
<1>7. Calm' => ~Running("append")
  BY <1>4 DEF Calm, Running
<1> QED
  BY <1>3, <1>4, <1>5, <1>6, <1>7, LogKept

LEMMA PrintcKeepsLog ==
  ASSUME LogInv, Printc
  PROVE  LogInv'
<1>1. /\ Stack /\ LogTypes /\ frames # <<>> /\ Top.at = "print"
      /\ UNCHANGED <<logged, disturbed>>
      /\ frames' = <<[Top EXCEPT !.i = @ + 1]>> \o Tail(frames)
  BY DEF LogInv, Printc, At
<1> DEFINE f == [Top EXCEPT !.i = @ + 1]
<1>2. f \in FrameSet /\ f.at = "print"
  BY <1>1, TopIs DEF FrameSet
<1> HIDE DEF f
<1>3. frames' = <<f>> \o Tail(frames)
  BY <1>1 DEF f
<1>4. /\ Stack' /\ frames' # <<>> /\ Top' = f /\ Len(frames') = Len(frames)
      /\ \A k \in 2 .. Len(frames) : frames'[k] = frames[k]
  BY <1>1, <1>2, <1>3, TopReplaced
<1>5. ~Running("append") /\ ~Running("shift")' /\ Pending' = 0 /\ Pending = 0
  BY <1>1, <1>2, <1>4 DEF Running, Pending
<1>6. LogLen' = LogLen /\ disturbed' = disturbed /\ disturbed \in BOOLEAN
  BY <1>1 DEF LogLen, logged, LogTypes
<1>7. ShiftNeeded'
  <2>1. Len(frames') = 2 => Len(frames) = 2 /\ frames'[2] = frames[2]
    BY <1>4
  <2> QED
    BY <1>5, <1>6, <2>1 DEF LogInv, ShiftNeeded
<1> QED
  BY <1>1, <1>4, <1>5, <1>6, <1>7, LogKept

(* The measure finds whether the string fits.                              *)
LEMMA MeasureKeepsLog ==
  ASSUME LogInv, Measure
  PROVE  LogInv'
<1>1. /\ Stack /\ LogTypes /\ frames # <<>> /\ Top.at = "print"
      /\ UNCHANGED <<logged, disturbed>>
  BY DEF LogInv, Measure, At
<1>2. PICK place \in {"shift", "append"} :
        /\ GoesTo(place)
        /\ place = IF TooLong(Top.str) THEN "shift" ELSE "append"
  BY DEF Measure
<1>3. /\ Stack' /\ frames' # <<>> /\ Len(frames') = Len(frames)
      /\ Top'.at = place /\ Top'.str = Top.str
      /\ \A k \in 2 .. Len(frames) : frames'[k] = frames[k]
  BY <1>1, <1>2, ToPlace
<1>4. LogLen' = LogLen /\ disturbed' = disturbed /\ disturbed \in BOOLEAN
  BY <1>1 DEF LogLen, logged, LogTypes
<1>5. LogLen \in Nat /\ LogSize \in Nat
  BY <1>1, Lengths
<1>6. Pending = 0 /\ Pending' \in Nat
  BY <1>1, <1>3, TopIs DEF Pending, Running
<1>7. ShiftNeeded'
  <2>1. Running("shift")' => LogLen + Strlen(Top.str) > LogSize
    BY <1>2, <1>3 DEF TooLong, Running
  <2>2. ASSUME Len(frames') = 2, frames'[2].at = "shift"
        PROVE  LogLen + Pending' + Strlen(frames'[2].str) > LogSize
    <3>1. Len(frames) = 2 /\ frames'[2] = frames[2]
      BY <1>3, <2>2
    <3>2. LogLen + 0 + Strlen(frames[2].str) > LogSize /\ Strlen(frames[2].str) \in Nat
      BY <1>1, <1>6, <2>2, <3>1, TopIs DEF LogInv, ShiftNeeded
    <3> QED
      BY <1>5, <1>6, <3>1, <3>2
  <2> QED
    BY <1>3, <1>4, <2>1, <2>2 DEF ShiftNeeded
<1>8. ~Running("append")
  BY <1>1 DEF Running
<1> QED
  BY <1>1, <1>3, <1>4, <1>7, <1>8, LogKept

-----------------------------------------------------------------------------
LEMMA InitPage == Init => PageInv
<1> SUFFICES ASSUME Init PROVE PageInv
  OBVIOUS
<1>1. x = 0 /\ y = 0 /\ ink = {} /\ spilled = {} /\ returned = FALSE
  BY DEF Init
<1>2. 0 \in 0 .. MaxW - 1 /\ 0 \in 0 .. MaxH - 1
  BY Sizes
<1>3. NoTextAhead
  BY <1>1 DEF NoTextAhead
<1> QED
  BY <1>1, <1>2, <1>3 DEF PageInv

LEMMA PageKept ==
  ASSUME PageInv, UNCHANGED page
  PROVE  PageInv'
BY DEF page, PageInv, NoTextAhead, Cell

LEMMA StepKeepsPage == PageInv /\ [Next]_consoleVars => PageInv'
<1> SUFFICES ASSUME PageInv, [Next]_consoleVars PROVE PageInv'
  OBVIOUS
<1>1. CASE Kprint
  BY <1>1, PageKept DEF Kprint
<1>2. CASE KeyPrints
  BY <1>2, PageKept DEF KeyPrints
<1>3. CASE Printc
  BY <1>3, PutcKeepsPage DEF Printc
<1>4. CASE Measure
  BY <1>4, PageKept DEF Measure
<1>5. CASE Shift
  <2>1. UNCHANGED page
    BY <1>5 DEF Shift
  <2> QED
    BY <2>1, PageKept
<1>6. CASE Strcat
  <2>1. UNCHANGED page
    BY <1>6 DEF Strcat
  <2> QED
    BY <2>1, PageKept
<1>7. CASE UNCHANGED consoleVars
  BY <1>7, PageKept DEF consoleVars
<1> QED
  BY <1>1, <1>2, <1>3, <1>4, <1>5, <1>6, <1>7 DEF Next

LEMMA StepKeepsLog == LogInv /\ [Next]_consoleVars => LogInv'
<1> SUFFICES ASSUME LogInv, [Next]_consoleVars PROVE LogInv'
  OBVIOUS
<1>1. CASE UNCHANGED consoleVars
  <2>1. UNCHANGED logged /\ frames' = frames /\ disturbed' = disturbed
    BY <1>1 DEF consoleVars
  <2>2. LogLen' = LogLen /\ Pending' = Pending
    BY <2>1 DEF LogLen, logged, Pending, Running, Top
  <2>3. Stack' /\ ShiftNeeded' /\ disturbed' \in BOOLEAN
    BY <2>1, <2>2 DEF LogInv, LogTypes, Stack, ShiftNeeded, Running, Top
  <2> QED
    BY <2>1, <2>3, LogKept DEF Running, Top
<1> QED
  BY <1>1, PrintKeepsLog, PrintcKeepsLog, MeasureKeepsLog, ShiftKeepsLog,
     StrcatKeepsLog DEF Next

(* Between two characters the cursor is on the page, never more than two   *)
(* calls of kprint run, and what strlen counts in the log has an end.      *)
THEOREM ConsoleTyped == Spec => []TypeOK
<1>1. PageInv /\ LogInv => TypeOK
  BY DEF PageInv, LogInv, LogTypes, Stack, TypeOK
<1> QED
  BY <1>1, InitPage, InitLog, StepKeepsPage, StepKeepsLog, PTL DEF Spec

(* What putc writes stays on the page or near it, and no text stands at    *)
(* the cursor or behind it.                                                *)
THEOREM PageStaysIntact == Spec => []PageIntact
<1>1. PageInv => PageIntact
  <2> SUFFICES ASSUME PageInv PROVE PageIntact
    OBVIOUS
  <2>1. y \in Nat /\ y + 1 <= MaxH /\ MaxH \in Int
    BY Sizes DEF PageInv
  <2>2. MaxW * (y + 1) <= MaxW * MaxH /\ MaxW * (y + 1) \in Int
        /\ MaxW * MaxH \in Int
    BY <2>1, RowsGrow, Rows, Sizes
  <2>3. \A d \in ink : d \in Nat /\ d < MaxW * (y + 1)
    BY DEF PageInv
  <2>4. ink \subseteq 0 .. MaxW * MaxH - 1
    BY <2>2, <2>3
  <2> QED
    BY <2>4 DEF PageInv, PageIntact, WritesNear
<1> QED
  BY <1>1, InitPage, StepKeepsPage, PTL DEF Spec

(* The log in its buffer, or once it is full what stands behind it, is the *)
(* end of what was printed, whatever came between the steps of a klogcat;  *)
(* and if nothing did, the log is all of it or so long that one of the     *)
(* strings would not fit.                                                  *)
THEOREM LogStaysRecent == Spec => []LogIsRecent
<1>1. LogInv => LogInOrder
  <2> SUFFICES ASSUME LogInv PROVE LogInOrder
    OBVIOUS
  <2> DEFINE L == LogLen
             a == First(L)
             n == L - a
             w == LastOf(said, n)
  <2>1. /\ LogTypes /\ TextIs(log, a, L, said)
        /\ said \in Seq(STRING) /\ Len(said) \in Nat
    BY Lengths DEF LogInv, LogTypes
  <2>2. L \in Nat /\ a \in Nat /\ n \in Nat
    BY <2>1, Lengths DEF First
  <2>3. /\ n <= Len(said)
        /\ \A i \in a .. L - 1 : log[i] = said[Len(said) - L + i + 1]
    BY <2>1 DEF TextIs
  <2> HIDE DEF L, a
  <2>4. /\ w \in Seq(STRING) /\ Len(w) = n
        /\ \A i \in 1 .. n : w[i] = said[Len(said) - n + i]
    <3> HIDE DEF n
    <3>1. /\ w \in Seq(STRING)
          /\ Len(w) = IF Len(said) <= n THEN Len(said) ELSE n
          /\ \A i \in 1 .. Len(w) : w[i] = said[Len(said) - Len(w) + i]
      BY <2>1, <2>2, LastIs
    <3>2. n <= Len(said)
      BY <2>3 DEF n
    <3>3. Len(w) = n
      BY <2>1, <2>2, <3>1, <3>2
    <3> QED
      BY <3>1, <3>3
  <2> HIDE DEF w
  <2>5. \A i \in 1 .. n : log[a + i - 1] = w[i]
    <3> TAKE i \in 1 .. n
    <3>1. /\ a + i - 1 \in a .. L - 1
          /\ Len(said) - L + (a + i - 1) + 1 = Len(said) - n + i
      BY <2>1, <2>2
    <3>2. log[a + i - 1] = said[Len(said) - L + (a + i - 1) + 1]
      BY <2>3, <3>1
    <3> QED
      BY <2>4, <3>1, <3>2
  <2>6. w = [i \in 1 .. n |-> w[i]]
    BY <2>4
  <2>7. LogText(a) = w
    BY <2>5, <2>6 DEF LogText, L
  <2> QED
    BY <2>7 DEF LogInOrder, First, L, a, w
<1>2. LogInv => LogLong
  <2> SUFFICES ASSUME LogInv, Calm, \A k \in DOMAIN frames : frames[k].at # "append"
               PROVE  \/ whole /\ LogLen = Len(said)
                      \/ LogLen + Longest > LogSize
    BY DEF LogLong, Calm
  <2>1. Stack /\ Enough /\ LogTypes
    BY DEF LogInv
  <2>2. ~Running("append")
    <3> SUFFICES ASSUME frames # <<>>, Top.at = "append" PROVE FALSE
      BY DEF Running
    <3>1. Top = frames[1] /\ 1 \in DOMAIN frames
      BY <2>1, TopIs DEF Stack
    <3> QED
      BY <3>1
  <2>3. LogLen + Pending = LogLen
    BY <2>1, <2>2, Lengths DEF Pending
  <2> QED
    BY <2>1, <2>3 DEF Enough
<1> QED
  BY <1>1, <1>2, InitLog, StepKeepsLog, PTL DEF Spec, LogIsRecent

-----------------------------------------------------------------------------
(* vsprintf, which formats what kprint prints.                             *)

(* Only the character the conversion ends with is stepped over without     *)
(* being looked at again: it is never the terminator.                      *)
EndInv == pc # "past" /\ (pc = "written" => c # NUL)

(* A format that ends inside a directive, behind its flags, its width, its *)
(* point or its l, ends vsprintf and not the memory behind the format.     *)
THEOREM InFormat == FormatSpec => []StaysInFormat
<1>1. FormatInit => EndInv
  BY DEF FormatInit, EndInv
<1>2. EndInv /\ [FormatNext]_formatVars => EndInv'
  <2> SUFFICES ASSUME EndInv, [FormatNext]_formatVars PROVE EndInv'
    OBVIOUS
  <2> USE DEF EndInv, Advance, Stay, NUL
  <2>1. CASE Copy \/ Directive
    BY <2>1 DEF Copy, Directive
  <2>2. CASE Flag \/ FieldWidth \/ WidthDigit
    BY <2>2 DEF Flag, FieldWidth, WidthDigit, FlagChars, Decimals
  <2>3. CASE Dot \/ Precision \/ PrecisionDigit \/ Qualifier
    BY <2>3 DEF Dot, Precision, PrecisionDigit, Qualifier, Decimals
  <2>4. CASE ConvertNumber
    BY <2>4 DEF ConvertNumber, Numeric
  <2>5. CASE ConvertText
    BY <2>5 DEF ConvertText
  <2>6. CASE ConvertOther
    BY <2>6 DEF ConvertOther, AtEnd
  <2>7. CASE NextChar \/ Returns \/ Calls \/ Ucvt \/ UcvtReturns
    BY <2>7 DEF NextChar, Returns, Calls, Ucvt, UcvtReturns
  <2>8. CASE UNCHANGED formatVars
    BY <2>8 DEF formatVars
  <2> QED BY <2>1, <2>2, <2>3, <2>4, <2>5, <2>6, <2>7, <2>8 DEF FormatNext
<1>3. EndInv => StaysInFormat
  BY DEF EndInv, StaysInFormat
<1> QED BY <1>1, <1>2, <1>3, PTL DEF FormatSpec

-----------------------------------------------------------------------------
(* S is the set of the numbers of which something holds.                   *)
LEMMA GoesOn ==
  ASSUME NEW N \in Nat, NEW S, 0 \in S, \A n \in 1 .. N : n - 1 \in S => n \in S
  PROVE  0 .. N \subseteq S
<1> DEFINE T == 0 .. N \ S
<1>1. ASSUME T # {} PROVE FALSE
  <2>1. T \in SUBSET Nat
    OBVIOUS
  <2>2. PICK m \in T : \A yy \in T : m <= yy
    <3> HIDE DEF T
    <3> QED BY <1>1, <2>1, MinLeast
  <2>3. m \in 1 .. N /\ m \notin S
    BY <2>2
  <2>4. m - 1 \in S
    BY <2>2, <2>3
  <2> QED BY <2>3, <2>4
<1> QED BY <1>1

LEMMA AllBelow ==
  ASSUME NEW N \in Nat, NEW S, \A n \in 0 .. N : 0 .. n - 1 \subseteq S => n \in S
  PROVE  0 .. N \subseteq S
<1> DEFINE T == 0 .. N \ S
<1>1. ASSUME T # {} PROVE FALSE
  <2>1. T \in SUBSET Nat
    OBVIOUS
  <2>2. PICK m \in T : \A yy \in T : m <= yy
    <3> HIDE DEF T
    <3> QED BY <1>1, <2>1, MinLeast
  <2>3. m \in 0 .. N /\ m \notin S
    BY <2>2
  <2>4. 0 .. m - 1 \subseteq S
    <3>1. ASSUME NEW yy \in 0 .. m - 1 PROVE yy \in S
      <4>1. yy \in 0 .. N /\ ~(m <= yy)
        BY <2>3
      <4> QED BY <2>2, <4>1
    <3> QED BY <3>1
  <2> QED BY <2>3, <2>4
<1> QED BY <1>1

-----------------------------------------------------------------------------
(* The characters of numbers.                                              *)
Marks == {" ", "-", "+", "x", "X"}
Glyphs == DOMAIN DigitOf \cup Marks

LEMMA ConcatIs ==
  ASSUME NEW X, NEW s \in Seq(X), NEW t \in Seq(X)
  PROVE  /\ s \o t \in Seq(X) /\ Len(s \o t) = Len(s) + Len(t)
         /\ \A i \in 1 .. Len(s) : (s \o t)[i] = s[i]
         /\ \A i \in 1 .. Len(t) : (s \o t)[Len(s) + i] = t[i]
<1>1. Len(s) \in Nat /\ Len(t) \in Nat
  OBVIOUS
<1>2. \A i \in 1 .. Len(s) + Len(t) : (s \o t)[i] = IF i <= Len(s) THEN s[i] ELSE t[i - Len(s)]
  OBVIOUS
<1>3. \A i \in 1 .. Len(s) : i \in 1 .. Len(s) + Len(t) /\ i <= Len(s)
  BY <1>1
<1>4. \A i \in 1 .. Len(t) :
        Len(s) + i \in 1 .. Len(s) + Len(t) /\ ~(Len(s) + i <= Len(s)) /\ Len(s) + i - Len(s) = i
  BY <1>1
<1>5. s \o t \in Seq(X) /\ Len(s \o t) = Len(s) + Len(t)
  OBVIOUS
<1> QED BY <1>2, <1>3, <1>4, <1>5

LEMMA TablesAre ==
  /\ DOMAIN Upper = 1 .. 16 /\ DOMAIN Lower = 1 .. 16
  /\ Lower[1] = "0" /\ Lower[2] = "1" /\ Lower[3] = "2" /\ Lower[4] = "3"
  /\ Lower[5] = "4" /\ Lower[6] = "5" /\ Lower[7] = "6" /\ Lower[8] = "7"
  /\ Lower[9] = "8" /\ Lower[10] = "9" /\ Lower[11] = "a" /\ Lower[12] = "b"
  /\ Lower[13] = "c" /\ Lower[14] = "d" /\ Lower[15] = "e" /\ Lower[16] = "f"
<1> DEFINE X == {Upper[i] : i \in 1 .. 16} \cup {"a", "b", "c", "d", "e", "f"}
           A == SubSeq(Upper, 1, 10)
           B == <<"a", "b", "c", "d", "e", "f">>
<1>1. Upper \in Seq(X) /\ Len(Upper) = 16 /\ DOMAIN Upper = 1 .. 16
  BY DEF Upper
<1>2. /\ A \in Seq(X) /\ Len(A) = 10 /\ \A i \in 1 .. 10 : A[i] = Upper[i]
  <2>1. \A i \in 1 .. 10 : Upper[i] \in X
    OBVIOUS
  <2> DEFINE up == Upper
  <2>2. up \in Seq(X) /\ Len(up) = 16 /\ \A i \in 1 .. 10 : up[i] \in X
    BY <1>1, <2>1
  <2> HIDE DEF X, up
  <2>3. SubSeq(up, 1, 10) \in Seq(X) /\ Len(SubSeq(up, 1, 10)) = 10
        /\ \A i \in 1 .. 10 : SubSeq(up, 1, 10)[i] = up[i]
    BY <2>2
  <2> QED BY <2>3 DEF up
<1>3. B \in Seq(X) /\ Len(B) = 6
  OBVIOUS
<1>4. Lower = A \o B
  BY DEF Lower
<1> HIDE DEF A, X
<1>5. /\ DOMAIN Lower = 1 .. 16
      /\ \A i \in 1 .. 10 : Lower[i] = Upper[i]
      /\ \A i \in 11 .. 16 : Lower[i] = B[i - 10]
  <2> HIDE DEF B
  <2>1. /\ A \o B \in Seq(X) /\ Len(A \o B) = 16
        /\ \A i \in 1 .. 10 : (A \o B)[i] = A[i]
        /\ \A i \in 1 .. 6 : (A \o B)[10 + i] = B[i]
    <3> DEFINE u == A \o B
    <3>0. A \in Seq(X) /\ B \in Seq(X)
      BY <1>2, <1>3
    <3>1. /\ u \in Seq(X) /\ Len(u) = Len(A) + Len(B)
          /\ \A i \in 1 .. Len(A) : u[i] = A[i]
          /\ \A i \in 1 .. Len(B) : u[Len(A) + i] = B[i]
      <4> HIDE DEF B
      <4> QED BY <3>0, ConcatIs, SMTT(30)
    <3> HIDE DEF u
    <3>2. Len(A) = 10 /\ Len(B) = 6
      BY <1>2, <1>3
    <3>3. /\ u \in Seq(X) /\ Len(u) = 16
          /\ \A i \in 1 .. 10 : u[i] = A[i]
          /\ \A i \in 1 .. 6 : u[10 + i] = B[i]
      BY <3>1, <3>2
    <3> QED BY <3>3 DEF u
  <2>2. Lower \in Seq(X) /\ Len(Lower) = 16
    BY <1>4, <2>1
  <2>3. DOMAIN Lower = 1 .. 16
    BY <2>2
  <2>4. \A i \in 11 .. 16 : i - 10 \in 1 .. 6 /\ 10 + (i - 10) = i
    OBVIOUS
  <2>5. \A i \in 11 .. 16 : Lower[i] = B[i - 10]
    <3> TAKE i \in 11 .. 16
    <3>1. (A \o B)[10 + (i - 10)] = B[i - 10] /\ 10 + (i - 10) = i
      BY <2>1, <2>4
    <3> QED BY <1>4, <3>1
  <2> QED BY <1>2, <1>4, <2>1, <2>3, <2>5
<1>6. /\ Lower[11] = "a" /\ Lower[12] = "b" /\ Lower[13] = "c"
      /\ Lower[14] = "d" /\ Lower[15] = "e" /\ Lower[16] = "f"
  BY <1>5
<1>7. /\ Lower[1] = "0" /\ Lower[2] = "1" /\ Lower[3] = "2" /\ Lower[4] = "3"
      /\ Lower[5] = "4" /\ Lower[6] = "5" /\ Lower[7] = "6" /\ Lower[8] = "7"
      /\ Lower[9] = "8" /\ Lower[10] = "9"
  BY <1>5 DEF Upper
<1> QED BY <1>1, <1>5, <1>6, <1>7

LEMMA DigitIs ==
  /\ \A d \in 0 .. 15 : /\ Upper[d + 1] \in DOMAIN DigitOf /\ DigitOf[Upper[d + 1]] = d
                        /\ Lower[d + 1] \in DOMAIN DigitOf /\ DigitOf[Lower[d + 1]] = d
  /\ \A d \in 0 .. 9 : Lower[d + 1] = Upper[d + 1]
  /\ Upper[1] = "0" /\ Lower[1] = "0" /\ "0" \in DOMAIN DigitOf /\ DigitOf["0"] = 0
  /\ \A ch \in Marks : ch \notin DOMAIN DigitOf
  /\ \A ch \in DOMAIN DigitOf :
       DigitOf[ch] \in 0 .. 15 /\ ch \in {Upper[DigitOf[ch] + 1], Lower[DigitOf[ch] + 1]}
<1> DEFINE D == DOMAIN DigitOf
<1>1. D = Range(Upper) \cup Range(Lower)
  BY DEF DigitOf
<1>2. \A ch \in D : DigitOf[ch] = CHOOSE d \in 0 .. 15 : ch \in {Upper[d + 1], Lower[d + 1]}
  BY DEF DigitOf
<1>3. DOMAIN Upper = 1 .. 16 /\ DOMAIN Lower = 1 .. 16
  BY TablesAre
<1>4. \A d \in 0 .. 15 : Upper[d + 1] \in D /\ Lower[d + 1] \in D
  BY <1>1, <1>3 DEF Range
<1>5. \A d, e \in 0 .. 15 : Upper[d + 1] \in {Upper[e + 1], Lower[e + 1]} => d = e
  BY TablesAre DEF Upper
<1>6. \A d, e \in 0 .. 15 : Lower[d + 1] \in {Upper[e + 1], Lower[e + 1]} => d = e
  BY TablesAre DEF Upper
<1>7. \A ch \in D : \E d \in 0 .. 15 : ch \in {Upper[d + 1], Lower[d + 1]}
  <2> SUFFICES ASSUME NEW ch \in D PROVE \E d \in 0 .. 15 : ch \in {Upper[d + 1], Lower[d + 1]}
    OBVIOUS
  <2>1. PICK i \in 1 .. 16 : ch \in {Upper[i], Lower[i]}
    BY <1>1, <1>3 DEF Range
  <2>2. i - 1 \in 0 .. 15 /\ i - 1 + 1 = i
    OBVIOUS
  <2> QED BY <2>1, <2>2
<1> HIDE DEF D
<1>8. \A d \in 0 .. 15 : DigitOf[Upper[d + 1]] = d
  <2> SUFFICES ASSUME NEW d \in 0 .. 15 PROVE DigitOf[Upper[d + 1]] = d
    OBVIOUS
  <2> DEFINE ch == Upper[d + 1]
             P(e) == ch \in {Upper[e + 1], Lower[e + 1]}
  <2>1. \A e \in 0 .. 15 : P(e) <=> e = d
    BY <1>5
  <2>2. DigitOf[ch] = CHOOSE e \in 0 .. 15 : P(e)
    BY <1>2, <1>4
  <2> HIDE DEF P, ch
  <2>3. DigitOf[ch] = d
    BY <2>1, <2>2
  <2> QED BY <2>3 DEF ch
<1>9. \A d \in 0 .. 15 : DigitOf[Lower[d + 1]] = d
  <2> SUFFICES ASSUME NEW d \in 0 .. 15 PROVE DigitOf[Lower[d + 1]] = d
    OBVIOUS
  <2> DEFINE ch == Lower[d + 1]
             P(e) == ch \in {Upper[e + 1], Lower[e + 1]}
  <2>1. \A e \in 0 .. 15 : P(e) <=> e = d
    BY <1>6
  <2>2. DigitOf[ch] = CHOOSE e \in 0 .. 15 : P(e)
    BY <1>2, <1>4
  <2> HIDE DEF P, ch
  <2>3. DigitOf[ch] = d
    BY <2>1, <2>2
  <2> QED BY <2>3 DEF ch
<1>10. Upper[1] = "0" /\ Lower[1] = "0" /\ "0" \in D /\ DigitOf["0"] = 0
  <2>1. Upper[0 + 1] = "0" /\ Lower[0 + 1] = "0" /\ 0 \in 0 .. 15
    BY TablesAre DEF Upper
  <2> QED BY <1>4, <1>8, <2>1
<1>11. \A ch \in Marks : ch \notin D
  <2>1. ASSUME NEW i \in 1 .. 16
        PROVE  Upper[i] \in {"0", "1", "2", "3", "4", "5", "6", "7", "8", "9",
                              "A", "B", "C", "D", "E", "F"}
    BY DEF Upper
  <2>2. ASSUME NEW i \in 1 .. 16
        PROVE  Lower[i] \in {"0", "1", "2", "3", "4", "5", "6", "7", "8", "9",
                              "a", "b", "c", "d", "e", "f"}
    BY TablesAre
  <2>3. \A i \in 1 .. 16 : Upper[i] \notin Marks /\ Lower[i] \notin Marks
    <3> TAKE i \in 1 .. 16
    <3>1. Upper[i] \notin Marks
      BY <2>1 DEF Marks
    <3>2. Lower[i] \notin Marks
      BY <2>2 DEF Marks
    <3> QED BY <3>1, <3>2
  <2> QED BY <1>1, <1>3, <2>3 DEF Range
<1>12. \A ch \in D :
         DigitOf[ch] \in 0 .. 15 /\ ch \in {Upper[DigitOf[ch] + 1], Lower[DigitOf[ch] + 1]}
  <2> TAKE ch \in D
  <2>1. PICK d \in 0 .. 15 : ch \in {Upper[d + 1], Lower[d + 1]}
    BY <1>7
  <2>2. DigitOf[ch] = d
    BY <1>8, <1>9, <2>1
  <2> QED BY <2>1, <2>2
<1>13. \A d \in 0 .. 9 : Lower[d + 1] = Upper[d + 1]
  BY TablesAre DEF Upper
<1> QED BY <1>4, <1>8, <1>9, <1>10, <1>11, <1>12, <1>13 DEF D

-----------------------------------------------------------------------------
(* A function defined by recursion from one number to the next.            *)
Follows(f, N, x0, G) == f[0] = x0 /\ \A n \in 1 .. N : f[n] = G[n][f[n - 1]]

LEMMA RecExists ==
  ASSUME NEW N \in Nat, NEW S, NEW x0 \in S, NEW G \in [1 .. N -> [S -> S]]
  PROVE  \E f \in [0 .. N -> S] : Follows(f, N, x0, G)
<1> DEFINE Good(m) == \E f \in [0 .. m -> S] : Follows(f, m, x0, G)
           T == {m \in 0 .. N : Good(m)}
<1>1. Good(0)
  <2>1. [n \in 0 .. 0 |-> x0] \in [0 .. 0 -> S] /\ [n \in 0 .. 0 |-> x0][0] = x0
    OBVIOUS
  <2>2. 1 .. 0 = {}
    OBVIOUS
  <2>3. Follows([n \in 0 .. 0 |-> x0], 0, x0, G)
    BY <2>1, <2>2 DEF Follows
  <2> QED BY <2>1, <2>3
<1>2. ASSUME NEW m \in 1 .. N, Good(m - 1) PROVE Good(m)
  <2>1. PICK f \in [0 .. m - 1 -> S] : Follows(f, m - 1, x0, G)
    BY <1>2
  <2> DEFINE g == [n \in 0 .. m |-> IF n = m THEN G[m][f[m - 1]] ELSE f[n]]
  <2>2. m - 1 \in 0 .. m - 1 /\ f[m - 1] \in S
    OBVIOUS
  <2>3. G[m][f[m - 1]] \in S
    BY <2>2
  <2>4. g \in [0 .. m -> S]
    BY <2>3
  <2>5. g[0] = x0
    BY <2>1 DEF Follows
  <2>6. ASSUME NEW n \in 1 .. m PROVE g[n] = G[n][g[n - 1]]
    <3>1. CASE n = m
      BY <3>1
    <3>2. CASE n # m
      BY <2>1, <3>2 DEF Follows
    <3> QED BY <3>1, <3>2
  <2> HIDE DEF g
  <2> QED BY <2>4, <2>5, <2>6 DEF Follows
<1>3. 0 .. N \subseteq T
  <2> HIDE DEF Good
  <2>1. 0 \in T
    BY <1>1
  <2>2. \A m \in 1 .. N : m - 1 \in T => m \in T
    BY <1>2
  <2> HIDE DEF T
  <2> QED BY <2>1, <2>2, GoesOn
<1>4. Good(N)
  <2> HIDE DEF Good
  <2> QED BY <1>3
<1> QED BY <1>4

-----------------------------------------------------------------------------
(* The powers of a base.                                                   *)
Powers(p, base, n) ==
  /\ p \in [0 .. n -> Nat \ {0}]
  /\ p[0] = 1 /\ \A i \in 1 .. n : p[i] = base * p[i - 1]

LEMMA PowersExist ==
  ASSUME NEW base \in Nat \ {0}, NEW n \in Nat
  PROVE  \E p : Powers(p, base, n) /\ p[n] = Power(base, n)
<1> DEFINE S == Nat \ {0}
           G == [i \in 1 .. n |-> [xx \in S |-> base * xx]]
           F(h) == [i \in 0 .. n |-> IF i = 0 THEN 1 ELSE base * h[i - 1]]
           p == CHOOSE h : h = F(h)
<1>1. \A xx \in S : base * xx \in S
  OBVIOUS
<1>2. G \in [1 .. n -> [S -> S]] /\ 1 \in S
  BY <1>1
<1>3. PICK f \in [0 .. n -> S] : Follows(f, n, 1, G)
  <2> HIDE DEF G, S
  <2> QED BY <1>2, RecExists
<1>4. f[0] = 1 /\ \A i \in 1 .. n : f[i - 1] \in S /\ f[i] = base * f[i - 1]
  <2>1. \A i \in 1 .. n : f[i - 1] \in S
    <3> HIDE DEF S
    <3> QED OBVIOUS
  <2> QED BY <1>3, <2>1 DEF Follows
<1>5. f = F(f)
  <2> HIDE DEF S
  <2> QED BY <1>4
<1>6. p = F(p)
  <2> HIDE DEF F
  <2> QED BY <1>5
<1>7. Power(base, n) = p[n]
  BY DEF Power
<1> HIDE DEF p
<1>8. \A i \in 0 .. n : p[i] = IF i = 0 THEN 1 ELSE base * p[i - 1]
  BY <1>6
<1>9. p = [i \in 0 .. n |-> p[i]]
  BY <1>6
<1>10. p[0] = 1 /\ \A i \in 1 .. n : p[i] = base * p[i - 1]
  <2>1. 0 \in 0 .. n /\ \A i \in 1 .. n : i \in 0 .. n /\ i # 0
    OBVIOUS
  <2> HIDE DEF F, G, S
  <2> QED BY <1>8, <2>1
<1>11. \A i \in 0 .. n : p[i] \in S
  <2> DEFINE T == {i \in 0 .. n : p[i] \in S}
  <2>1. 0 \in T
    BY <1>10
  <2>2. \A i \in 1 .. n : i - 1 \in T => i \in T
    BY <1>1, <1>10
  <2> HIDE DEF T
  <2>3. 0 .. n \subseteq T
    BY <2>1, <2>2, GoesOn
  <2> QED BY <2>3 DEF T
<1>12. p \in [0 .. n -> S]
  <2> HIDE DEF S, F
  <2> QED BY <1>9, <1>11
<1> QED BY <1>7, <1>10, <1>12 DEF Powers

LEMMA PowersAgree ==
  ASSUME NEW base \in Nat \ {0}, NEW n \in Nat, NEW m \in 0 .. n,
         NEW p, Powers(p, base, n), NEW q, Powers(q, base, m)
  PROVE  p[m] = q[m]
<1> DEFINE T == {i \in 0 .. m : p[i] = q[i]}
<1>1. 0 \in T
  BY DEF Powers
<1>2. \A i \in 1 .. m : i - 1 \in T => i \in T
  BY DEF Powers
<1>3. m \in Nat
  OBVIOUS
<1> HIDE DEF T
<1>4. 0 .. m \subseteq T
  BY <1>1, <1>2, <1>3, GoesOn
<1> QED BY <1>3, <1>4 DEF T

LEMMA PowerIs ==
  ASSUME NEW base \in Nat \ {0}
  PROVE  /\ Power(base, 0) = 1
         /\ \A n \in Nat : Power(base, n) \in Nat \ {0}
         /\ \A n \in Nat : Power(base, n + 1) = base * Power(base, n)
<1>1. Power(base, 0) = 1
  <2>1. PICK p : Powers(p, base, 0) /\ p[0] = Power(base, 0)
    BY PowersExist
  <2> QED BY <2>1 DEF Powers
<1>2. ASSUME NEW n \in Nat PROVE Power(base, n) \in Nat \ {0}
  <2>1. PICK p : Powers(p, base, n) /\ p[n] = Power(base, n)
    BY PowersExist
  <2> QED BY <2>1 DEF Powers
<1>3. ASSUME NEW n \in Nat PROVE Power(base, n + 1) = base * Power(base, n)
  <2> DEFINE m == n + 1
  <2>1. m \in Nat /\ n \in 0 .. m /\ m - 1 = n /\ m \in 1 .. m
    OBVIOUS
  <2> HIDE DEF m
  <2>2. PICK p : Powers(p, base, m) /\ p[m] = Power(base, m)
    BY <2>1, PowersExist
  <2>3. PICK q : Powers(q, base, n) /\ q[n] = Power(base, n)
    BY PowersExist
  <2>4. p[n] = q[n]
    BY <2>1, <2>2, <2>3, PowersAgree
  <2>5. p[m] = base * p[m - 1]
    BY <2>1, <2>2 DEF Powers
  <2>6. Power(base, m) = base * Power(base, n)
    BY <2>1, <2>2, <2>3, <2>4, <2>5
  <2> QED BY <2>6 DEF m
<1> QED BY <1>1, <1>2, <1>3

LEMMA WordIs ==
  Word \in Nat /\ LONG_MAX \in Nat /\ Word = 2 * LONG_MAX + 2
<1> DEFINE b == Bits - 1
           H == Power(2, b)
<1>1. Bits \in Nat /\ b \in Nat /\ b + 1 = Bits
  BY NumbersAssumption
<1> HIDE DEF b
<1>2. Power(2, b + 1) = 2 * H /\ H \in Nat \ {0}
  BY <1>1, PowerIs
<1> HIDE DEF H
<1>3. Word = 2 * H
  BY <1>1, <1>2 DEF Word
<1>4. LONG_MAX = H - 1
  BY <1>2, <1>3 DEF LONG_MAX
<1> QED BY <1>2, <1>3, <1>4

LEMMA PowersGrow ==
  ASSUME NEW base \in Nat \ {0, 1}, NEW n \in Nat
  PROVE  /\ \A i \in 0 .. n : Power(base, i) <= Power(base, n)
         /\ Power(2, n) <= Power(base, n)
<1>1. \A k \in Nat : /\ Power(base, k) \in Nat \ {0}
                     /\ Power(base, k + 1) = base * Power(base, k)
                     /\ Power(2, k) \in Nat \ {0}
                     /\ Power(2, k + 1) = 2 * Power(2, k)
  <2>1. base \in Nat \ {0} /\ 2 \in Nat \ {0}
    OBVIOUS
  <2>2. \A k \in Nat : Power(base, k) \in Nat \ {0} /\ Power(base, k + 1) = base * Power(base, k)
    BY <2>1, PowerIs
  <2>3. \A k \in Nat : Power(2, k) \in Nat \ {0} /\ Power(2, k + 1) = 2 * Power(2, k)
    BY <2>1, PowerIs
  <2> QED BY <2>2, <2>3
<1>2. Power(base, 0) = 1 /\ Power(2, 0) = 1
  BY PowerIs
<1>3. \A xx \in Nat : xx <= base * xx /\ base * xx \in Nat
  OBVIOUS
<1>4. \A xx, yy \in Nat : yy <= xx => 2 * yy <= base * xx
  OBVIOUS
<1> DEFINE T == {k \in 0 .. n : Power(2, k) <= Power(base, k)}
<1>5. 0 \in T
  BY <1>2
<1>6. ASSUME NEW k \in 1 .. n, k - 1 \in T PROVE k \in T
  <2> DEFINE j == k - 1
  <2>1. j \in Nat /\ j + 1 = k
    OBVIOUS
  <2> HIDE DEF j
  <2>2. Power(2, j) <= Power(base, j)
    BY <1>6 DEF j
  <2>3. 2 * Power(2, j) <= base * Power(base, j)
    BY <1>1, <1>4, <2>1, <2>2
  <2>4. Power(2, j + 1) <= Power(base, j + 1)
    BY <1>1, <2>1, <2>3
  <2>5. Power(2, k) <= Power(base, k)
    BY <2>1, <2>4
  <2> QED BY <2>5
<1> HIDE DEF T
<1>7. 0 .. n \subseteq T
  BY <1>5, <1>6, GoesOn
<1>8. Power(2, n) <= Power(base, n)
  <2>1. n \in 0 .. n
    OBVIOUS
  <2> QED BY <1>7, <2>1 DEF T
<1>9. ASSUME NEW i \in 0 .. n PROVE Power(base, i) <= Power(base, n)
  <2> DEFINE m == n - i
             U == {k \in 0 .. m : Power(base, i) <= Power(base, i + k)}
  <2>1. m \in Nat /\ i \in Nat /\ i + m = n
    OBVIOUS
  <2> HIDE DEF m
  <2>2. 0 \in U
    BY <1>1, <2>1
  <2>3. ASSUME NEW k \in 1 .. m, k - 1 \in U PROVE k \in U
    <3> DEFINE j == i + (k - 1)
    <3>1. j \in Nat /\ j + 1 = i + k
      BY <2>1
    <3> HIDE DEF j
    <3>2. Power(base, i) <= Power(base, j)
      BY <2>3 DEF j
    <3>3. Power(base, j) <= Power(base, j + 1)
      BY <1>1, <1>3, <3>1
    <3>4. Power(base, i) <= Power(base, i + k)
      <4> DEFINE xx == Power(base, i)  yy == Power(base, j)  z == Power(base, j + 1)
      <4>1. xx \in Nat /\ yy \in Nat /\ z \in Nat
        <5>1. j + 1 \in Nat
          BY <3>1
        <5> HIDE DEF j
        <5> QED BY <1>1, <2>1, <3>1, <5>1
      <4>2. xx <= yy /\ yy <= z
        BY <3>2, <3>3
      <4> HIDE DEF xx, yy, z
      <4>3. xx <= z
        BY <4>1, <4>2
      <4> QED BY <3>1, <4>3 DEF xx, z
    <3> QED BY <3>4
  <2> HIDE DEF U
  <2>4. 0 .. m \subseteq U
    BY <2>1, <2>2, <2>3, GoesOn
  <2>5. m \in 0 .. m
    BY <2>1
  <2> QED BY <2>1, <2>4, <2>5 DEF U
<1> QED BY <1>8, <1>9

(* How many digits a number has.                                           *)
LEMMA LengthIs ==
  ASSUME NEW base \in Nat \ {0, 1}, NEW v \in 0 .. Word - 1, NEW n \in Nat \ {0},
         v < Power(base, n), n = 1 \/ Power(base, n - 1) <= v
  PROVE  Min({k \in 1 .. Bits : v < Power(base, k)}) = n
<1> DEFINE K == {k \in 1 .. Bits : v < Power(base, k)}
           m == n - 1
<1>1. Bits \in Nat /\ Bits >= 1 /\ v \in Nat /\ n \in Nat /\ m \in Nat /\ n >= 1
      /\ Word \in Nat /\ v < Word
  BY NumbersAssumption, WordIs
<1>2. \A k \in Nat : Power(base, k) \in Nat
  BY PowerIs
<1>3. n = 1 \/ Power(base, m) <= v
  OBVIOUS
<1>4. Word <= Power(base, Bits)
  BY <1>1, PowersGrow DEF Word
<1>5. n <= Bits
  <2> SUFFICES ASSUME n > Bits PROVE FALSE
    BY <1>1
  <2>1. Bits \in 0 .. m /\ n # 1
    BY <1>1
  <2> HIDE DEF m
  <2>2. Power(base, Bits) <= Power(base, m)
    BY <1>1, <2>1, PowersGrow
  <2> DEFINE xx == Power(base, Bits)  yy == Power(base, m)
  <2>3. xx \in Nat /\ yy \in Nat
    BY <1>1, <1>2
  <2>4. xx <= yy /\ yy <= v /\ Word <= xx
    BY <1>3, <1>4, <2>1, <2>2
  <2> HIDE DEF xx, yy
  <2> QED BY <1>1, <2>3, <2>4
<1>6. n \in K
  BY <1>1, <1>5
<1>7. ASSUME NEW k \in K PROVE n <= k
  <2> SUFFICES ASSUME k < n PROVE FALSE
    BY <1>1
  <2>1. k \in Nat /\ k \in 0 .. m /\ n # 1 /\ v < Power(base, k)
    BY <1>1
  <2> HIDE DEF m, K
  <2>2. Power(base, k) <= Power(base, m)
    BY <1>1, <2>1, PowersGrow
  <2> DEFINE xx == Power(base, k)  yy == Power(base, m)
  <2>3. xx \in Nat /\ yy \in Nat
    BY <1>1, <1>2, <2>1
  <2>4. xx <= yy /\ yy <= v /\ v < xx
    BY <1>3, <2>1, <2>2
  <2> HIDE DEF xx, yy
  <2> QED BY <1>1, <2>3, <2>4
<1>8. K \in SUBSET Nat /\ K # {}
  BY <1>6
<1> HIDE DEF K
<1>9. Min(K) \in K /\ \A yy \in K : Min(K) <= yy
  BY <1>8, MinLeast
<1>10. n <= Min(K) /\ Min(K) <= n /\ Min(K) \in Nat
  BY <1>6, <1>7, <1>8, <1>9
<1>11. Min(K) = n
  BY <1>1, <1>10
<1> QED BY <1>11 DEF K

-----------------------------------------------------------------------------
(* The characters of u are digits of the base that say v: V[i] is what the *)
(* first i of them say.                                                    *)
Bases == {8, 10, 16}
Figures(u, base) ==
  \A i \in 1 .. Len(u) : u[i] \in DOMAIN DigitOf /\ DigitOf[u[i]] < base
Says(V, u, base, v) ==
  /\ V \in [0 .. Len(u) -> Nat] /\ V[0] = 0 /\ V[Len(u)] = v
  /\ \A i \in 1 .. Len(u) : V[i] = V[i - 1] * base + DigitOf[u[i]]
Spells(u, base, v) ==
  u \in Seq(Glyphs) /\ Figures(u, base) /\ \E V : Says(V, u, base, v)

LEMMA SpellsNothing ==
  ASSUME NEW base \in Bases
  PROVE  Spells(<<>>, base, 0)
<1> DEFINE V == [i \in 0 .. 0 |-> 0]
<1>1. Len(<<>>) = 0 /\ 1 .. 0 = {}
  OBVIOUS
<1>2. V \in [0 .. 0 -> Nat] /\ V[0] = 0
  OBVIOUS
<1> HIDE DEF V
<1>3. Says(V, <<>>, base, 0)
  BY <1>1, <1>2 DEF Says
<1>4. <<>> \in Seq(Glyphs)
  OBVIOUS
<1> QED BY <1>1, <1>3, <1>4 DEF Spells, Figures

LEMMA AppendIs ==
  ASSUME NEW u \in Seq(Glyphs), NEW ch \in Glyphs
  PROVE  /\ Append(u, ch) \in Seq(Glyphs) /\ Len(Append(u, ch)) = Len(u) + 1
         /\ Len(u) \in Nat
         /\ \A i \in 1 .. Len(u) : Append(u, ch)[i] = u[i]
         /\ Append(u, ch)[Len(u) + 1] = ch
  OBVIOUS

LEMMA SpellsMore ==
  ASSUME NEW base \in Bases, NEW u, NEW v, Spells(u, base, v),
         NEW ch \in DOMAIN DigitOf, DigitOf[ch] < base
  PROVE  Spells(Append(u, ch), base, v * base + DigitOf[ch])
<1> DEFINE w == Append(u, ch)
           n == Len(u)
           d == DigitOf[ch]
<1>1. ch \in Glyphs /\ u \in Seq(Glyphs) /\ base \in Nat /\ d \in Nat
  BY DigitIs DEF Glyphs, Spells, Bases
<1>2. /\ w \in Seq(Glyphs) /\ Len(w) = n + 1 /\ n \in Nat
      /\ (\A i \in 1 .. n : w[i] = u[i]) /\ w[n + 1] = ch
  BY <1>1, AppendIs
<1>3. PICK V : Says(V, u, base, v)
  BY DEF Spells
<1> HIDE DEF w
<1>4. V \in [0 .. n -> Nat] /\ V[0] = 0 /\ V[n] = v /\ v \in Nat
      /\ \A i \in 1 .. n : V[i] = V[i - 1] * base + DigitOf[u[i]]
  BY <1>2, <1>3 DEF Says
<1> HIDE DEF n
<1> DEFINE m == n + 1
           W == [i \in 0 .. m |-> IF i = m THEN v * base + d ELSE V[i]]
<1>5. v * base + d \in Nat
  BY <1>1, <1>4
<1>6. W \in [0 .. m -> Nat] /\ W[0] = 0 /\ W[m] = v * base + d
  BY <1>2, <1>4, <1>5
<1>7. ASSUME NEW i \in 1 .. m PROVE W[i] = W[i - 1] * base + DigitOf[w[i]]
  <2>1. CASE i = m
    <3>1. W[i] = v * base + d /\ W[i - 1] = V[n] /\ w[i] = ch
      BY <1>2, <2>1
    <3> QED BY <1>4, <3>1
  <2>2. CASE i # m
    <3>1. i \in 1 .. n /\ W[i] = V[i] /\ W[i - 1] = V[i - 1] /\ w[i] = u[i]
      BY <1>2, <2>2
    <3> QED BY <1>4, <3>1
  <2> QED BY <2>1, <2>2
<1>8. Figures(w, base)
  <2> SUFFICES ASSUME NEW i \in 1 .. m PROVE w[i] \in DOMAIN DigitOf /\ DigitOf[w[i]] < base
    BY <1>2 DEF Figures
  <2>1. Figures(u, base)
    BY DEF Spells
  <2>2. CASE i = m
    BY <1>2, <2>2
  <2>3. CASE i # m
    <3>1. i \in 1 .. n /\ w[i] = u[i]
      BY <1>2, <2>3
    <3> QED BY <2>1, <3>1 DEF Figures, n
  <2> QED BY <2>2, <2>3
<1> HIDE DEF W
<1>9. Says(W, w, base, v * base + d)
  BY <1>2, <1>6, <1>7 DEF Says
<1> QED BY <1>2, <1>8, <1>9 DEF Spells, w

LEMMA DivIs ==
  ASSUME NEW base \in Bases, NEW n \in Nat
  PROVE  /\ n \div base \in Nat /\ n % base \in 0 .. base - 1
         /\ n = (n \div base) * base + (n % base)
         /\ n >= base => n \div base >= 1 /\ n \div base < n
         /\ \A P \in Nat : n < base * P <=> n \div base < P
<1>1. CASE base = 8
  BY <1>1
<1>2. CASE base = 10
  BY <1>2
<1>3. CASE base = 16
  BY <1>3
<1> QED BY <1>1, <1>2, <1>3 DEF Bases

(* tmp[n] are the digits of n.                                             *)
Tables == {Upper, Lower}
Tabled(f, n, base, digits) ==
  f[n] = IF n < base THEN <<digits[n + 1]>>
         ELSE Append(f[n \div base], digits[(n % base) + 1])

LEMMA TablesTyped ==
  ASSUME NEW digits \in Tables, NEW d \in 0 .. 15
  PROVE  digits[d + 1] \in Glyphs /\ digits[d + 1] \in DOMAIN DigitOf
         /\ DigitOf[digits[d + 1]] = d
BY DigitIs DEF Tables, Glyphs

LEMMA TmpExists ==
  ASSUME NEW base \in Bases, NEW digits \in Tables, NEW N \in Nat
  PROVE  \E f \in [0 .. N -> Seq(Glyphs)] : \A n \in 0 .. N : Tabled(f, n, base, digits)
<1> DEFINE Good(m) == \E f \in [0 .. m -> Seq(Glyphs)] : \A n \in 0 .. m : Tabled(f, n, base, digits)
           T == {m \in 0 .. N : Good(m)}
<1>0. base \in Nat /\ base >= 8 /\ base <= 16
  BY DEF Bases
<1>1. Good(0)
  <2> DEFINE f == [n \in 0 .. 0 |-> <<digits[1]>>]
  <2>1. digits[0 + 1] \in Glyphs
    BY TablesTyped
  <2>2. f \in [0 .. 0 -> Seq(Glyphs)]
    BY <2>1
  <2>3. Tabled(f, 0, base, digits)
    BY <1>0 DEF Tabled
  <2> HIDE DEF f
  <2> QED BY <2>2, <2>3
<1>2. ASSUME NEW m \in 1 .. N, Good(m - 1) PROVE Good(m)
  <2>1. PICK f \in [0 .. m - 1 -> Seq(Glyphs)] : \A n \in 0 .. m - 1 : Tabled(f, n, base, digits)
    BY <1>2
  <2> DEFINE xx == IF m < base THEN <<digits[m + 1]>>
                  ELSE Append(f[m \div base], digits[(m % base) + 1])
             g == [n \in 0 .. m |-> IF n = m THEN xx ELSE f[n]]
  <2>2. xx \in Seq(Glyphs)
    <3>1. CASE m < base
      <4>1. m \in 0 .. 15
        BY <1>0, <3>1
      <4>2. digits[m + 1] \in Glyphs
        BY <4>1, TablesTyped
      <4> QED BY <3>1, <4>2
    <3>2. CASE ~(m < base)
      <4>0. m \in Nat /\ m >= base
        BY <1>0, <3>2
      <4>1. m \div base \in 0 .. m - 1 /\ m % base \in 0 .. 15
        <5>1. /\ m \div base \in Nat /\ m % base \in 0 .. base - 1
              /\ m >= base => m \div base >= 1 /\ m \div base < m
          BY <4>0, DivIs
        <5> QED BY <1>0, <4>0, <5>1
      <4>2. digits[(m % base) + 1] \in Glyphs
        BY <4>1, TablesTyped
      <4>3. f[m \div base] \in Seq(Glyphs)
        BY <4>1
      <4>4. Append(f[m \div base], digits[(m % base) + 1]) \in Seq(Glyphs)
        BY <4>2, <4>3, AppendIs
      <4> QED BY <3>2, <4>4
    <3> QED BY <3>1, <3>2
  <2>3. \A n \in 0 .. m - 1 : g[n] = f[n]
    OBVIOUS
  <2>4. g[m] = xx
    OBVIOUS
  <2> HIDE DEF xx
  <2>5. g \in [0 .. m -> Seq(Glyphs)]
    BY <2>2
  <2> HIDE DEF g
  <2>6. ASSUME NEW n \in 0 .. m PROVE Tabled(g, n, base, digits)
    <3> DEFINE q == n \div base
    <3>1. q \in Nat /\ (n >= base => q < n)
      <4>1. n \in Nat
        OBVIOUS
      <4> QED BY <4>1, DivIs
    <3> HIDE DEF q
    <3>2. n >= base => g[q] = f[q]
      BY <2>3, <3>1
    <3>3. CASE n = m
      BY <1>0, <2>4, <3>2, <3>3 DEF Tabled, xx, q
    <3>4. CASE n # m
      <4>1. n \in 0 .. m - 1 /\ g[n] = f[n]
        BY <2>3, <3>4
      <4>2. Tabled(f, n, base, digits)
        BY <2>1, <4>1
      <4>3. n < base \/ (n >= base /\ ~(n < base))
        BY <1>0
      <4> QED BY <3>2, <4>1, <4>2, <4>3 DEF Tabled, q
    <3> QED BY <3>3, <3>4
  <2> QED BY <2>5, <2>6
<1>3. 0 .. N \subseteq T
  <2> HIDE DEF Good
  <2>1. 0 \in T
    BY <1>1
  <2>2. \A m \in 1 .. N : m - 1 \in T => m \in T
    BY <1>2
  <2> HIDE DEF T
  <2> QED BY <2>1, <2>2, GoesOn
<1>4. Good(N)
  <2> HIDE DEF Good
  <2> QED BY <1>3
<1> QED BY <1>4

(* What number and ucvt rely on: the digits say the number, there are no   *)
(* more of them than it needs, and but for 0 itself none is a leading 0.   *)
Digital(u, n, base) ==
  /\ Spells(u, base, n) /\ Len(u) \in Nat \ {0}
  /\ n < Power(base, Len(u)) /\ (Len(u) = 1 \/ Power(base, Len(u) - 1) <= n)
  /\ IF n = 0 THEN u = <<"0">> ELSE u[1] # "0"

LEMMA FirstDigit ==
  ASSUME NEW base \in Bases, NEW digits \in Tables, NEW n \in 0 .. base - 1
  PROVE  Digital(<<digits[n + 1]>>, n, base)
<1> DEFINE ch == digits[n + 1]
<1>1. n \in 0 .. 15 /\ base \in Nat /\ base \in Nat \ {0} /\ n \in Nat
  BY DEF Bases
<1>2. ch \in Glyphs /\ ch \in DOMAIN DigitOf /\ DigitOf[ch] = n
  BY <1>1, TablesTyped
<1>3. n = 0 => ch = "0"
  BY DigitIs DEF Tables
<1> HIDE DEF ch
<1>4. Spells(Append(<<>>, ch), base, 0 * base + DigitOf[ch])
  <2>1. Spells(<<>>, base, 0) /\ DigitOf[ch] < base
    BY <1>1, <1>2, SpellsNothing
  <2> QED BY <1>2, <2>1, SpellsMore
<1>5. Append(<<>>, ch) = <<ch>> /\ Len(<<ch>>) = 1 /\ <<ch>>[1] = ch
  OBVIOUS
<1>6. 0 * base + DigitOf[ch] = n
  BY <1>1, <1>2
<1>7. Power(base, 1) = base
  <2>1. Power(base, 0 + 1) = base * Power(base, 0) /\ Power(base, 0) = 1 /\ 0 + 1 = 1
    BY <1>1, PowerIs
  <2> QED BY <1>1, <2>1
<1>8. n # 0 => ch # "0"
  BY <1>2, DigitIs
<1>9. n < Power(base, 1)
  BY <1>1, <1>7
<1>10. Spells(<<ch>>, base, n)
  BY <1>4, <1>5, <1>6
<1> QED BY <1>3, <1>5, <1>8, <1>9, <1>10 DEF Digital, ch

LEMMA NextDigit ==
  ASSUME NEW base \in Bases, NEW digits \in Tables, NEW n \in Nat, n >= base,
         NEW u, Digital(u, n \div base, base)
  PROVE  Digital(Append(u, digits[(n % base) + 1]), n, base)
<1> DEFINE q == n \div base
           r == n % base
           ch == digits[r + 1]
           w == Append(u, ch)
<1>1. /\ q \in Nat /\ r \in 0 .. base - 1 /\ n = q * base + r /\ q >= 1
      /\ \A P \in Nat : n < base * P <=> q < P
  BY DivIs
<1>2. base \in Nat \ {0} /\ r \in 0 .. 15 /\ Digital(u, q, base)
  BY <1>1 DEF Bases
<1> HIDE DEF q, r
<1>3. ch \in Glyphs /\ ch \in DOMAIN DigitOf /\ DigitOf[ch] = r
  BY <1>2, TablesTyped
<1> HIDE DEF ch
<1>4. Spells(u, base, q) /\ u \in Seq(Glyphs)
  BY <1>2 DEF Digital, Spells
<1>5. Spells(w, base, n)
  <2>1. DigitOf[ch] < base
    BY <1>1, <1>2, <1>3
  <2>2. Spells(w, base, q * base + DigitOf[ch])
    BY <1>3, <1>4, <2>1, SpellsMore
  <2> QED BY <1>1, <1>3, <2>2
<1>6. Len(w) = Len(u) + 1 /\ \A i \in 1 .. Len(u) : w[i] = u[i]
  BY <1>3, <1>4, AppendIs
<1>7. /\ Len(u) \in Nat \ {0} /\ q < Power(base, Len(u))
      /\ Len(u) = 1 \/ Power(base, Len(u) - 1) <= q
      /\ u[1] # "0"
  BY <1>1, <1>2 DEF Digital
<1> HIDE DEF w
<1> DEFINE l == Len(u)
<1>8. l \in Nat /\ l >= 1 /\ Len(w) = l + 1 /\ 1 \in 1 .. l /\ w[1] = u[1]
  BY <1>6, <1>7
<1>9. q < Power(base, l) /\ (l = 1 \/ Power(base, l - 1) <= q) /\ u[1] # "0"
  BY <1>7
<1> HIDE DEF l
<1>10. \A k \in Nat : Power(base, k) \in Nat /\ Power(base, k + 1) = base * Power(base, k)
  BY <1>2, PowerIs
<1>11. n < Power(base, l + 1)
  BY <1>1, <1>8, <1>9, <1>10
<1>12. Power(base, l) <= n
  <2>1. CASE l = 1
    <3>1. Power(base, 1) = base
      <4>1. Power(base, 0 + 1) = base * Power(base, 0) /\ Power(base, 0) = 1 /\ 0 + 1 = 1
        BY <1>2, PowerIs
      <4> QED BY <1>2, <4>1
    <3> QED BY <1>2, <2>1, <3>1
  <2>2. CASE l # 1
    <3> DEFINE k == l - 1
    <3>1. k \in Nat /\ k + 1 = l /\ Power(base, k) <= q
      BY <1>8, <1>9, <2>2
    <3> HIDE DEF k
    <3>2. Power(base, k) \in Nat /\ Power(base, l) = base * Power(base, k)
      BY <1>10, <3>1
    <3>3. ~(q < Power(base, k))
      BY <1>1, <3>1, <3>2
    <3>4. ~(n < base * Power(base, k))
      BY <1>1, <3>2, <3>3
    <3>5. base * Power(base, k) \in Nat
      BY <1>2, <3>2
    <3> QED BY <3>2, <3>4, <3>5
  <2> QED BY <2>1, <2>2
<1>13. l + 1 - 1 = l /\ n # 0 /\ l + 1 \in Nat \ {0}
  BY <1>2, <1>8
<1>14. Digital(w, n, base)
  BY <1>5, <1>8, <1>9, <1>11, <1>12, <1>13 DEF Digital
<1> QED BY <1>14 DEF w, ch, r

LEMMA DigitsOfIs ==
  ASSUME NEW base \in Bases, NEW digits \in Tables, NEW v \in Nat
  PROVE  Digital(DigitsOf(v, base, digits), v, base)
<1> DEFINE F(h) == [n \in 0 .. v |->
                      IF n < base THEN <<digits[n + 1]>>
                      ELSE Append(h[n \div base], digits[(n % base) + 1])]
           tmp == CHOOSE h : h = F(h)
<1>1. PICK f \in [0 .. v -> Seq(Glyphs)] : \A n \in 0 .. v : Tabled(f, n, base, digits)
  BY TmpExists
<1>2. f = F(f)
  BY <1>1 DEF Tabled
<1>3. tmp = F(tmp)
  <2> HIDE DEF F
  <2> QED BY <1>2
<1>4. DigitsOf(v, base, digits) = tmp[v]
  BY DEF DigitsOf
<1> HIDE DEF tmp
<1>5. \A n \in 0 .. v : tmp[n] = IF n < base THEN <<digits[n + 1]>>
                                 ELSE Append(tmp[n \div base], digits[(n % base) + 1])
  BY <1>3
<1> DEFINE T == {n \in 0 .. v : Digital(tmp[n], n, base)}
<1>6. ASSUME NEW n \in 0 .. v, 0 .. n - 1 \subseteq T PROVE n \in T
  <2>1. base \in Nat /\ n \in Nat
    BY DEF Bases
  <2>2. CASE n < base
    <3>1. n \in 0 .. base - 1
      BY <2>1, <2>2
    <3>2. Digital(<<digits[n + 1]>>, n, base)
      BY <3>1, FirstDigit
    <3> QED BY <1>5, <2>2, <3>2
  <2>3. CASE ~(n < base)
    <3>1. n >= base
      BY <2>1, <2>3
    <3> DEFINE q == n \div base
    <3>2. q \in 0 .. n - 1
      BY <3>1, DivIs
    <3>3. q \in T
      BY <1>6, <3>2
    <3>4. Digital(tmp[n \div base], n \div base, base)
      BY <3>3
    <3>5. Digital(Append(tmp[n \div base], digits[(n % base) + 1]), n, base)
      BY <2>1, <3>1, <3>4, NextDigit
    <3> QED BY <1>5, <2>3, <3>5
  <2> QED BY <2>2, <2>3
<1> HIDE DEF T
<1>7. 0 .. v \subseteq T
  BY <1>6, AllBelow
<1>8. v \in T
  BY <1>7
<1> QED BY <1>4, <1>8 DEF T

-----------------------------------------------------------------------------
(* What the loop of strtoul and strtol makes of the digits.                *)
Capped(v, limit) == IF v <= limit THEN v ELSE Overflow
AddDigit(xx, d, limit, base) ==
  IF xx = Overflow \/ PastLimit(xx, d, limit, base) THEN Overflow ELSE xx * base + d

LEMMA AddDigitIs ==
  ASSUME NEW base \in Bases, NEW limit \in Nat, NEW xx \in Nat, NEW d \in 0 .. base - 1
  PROVE  AddDigit(Capped(xx, limit), d, limit, base) = Capped(xx * base + d, limit)
<1> USE DEF AddDigit, Capped, PastLimit, Overflow
<1>1. CASE base = 8
  BY <1>1
<1>2. CASE base = 10
  BY <1>2
<1>3. CASE base = 16
  BY <1>3
<1> QED BY <1>1, <1>2, <1>3 DEF Bases

LEMMA AddDigitTyped ==
  ASSUME NEW base \in Bases, NEW limit \in Nat, NEW xx \in Nat \cup {Overflow}, NEW d \in Nat
  PROVE  AddDigit(xx, d, limit, base) \in Nat \cup {Overflow}
<1> base \in Nat
  BY DEF Bases
<1>1. CASE xx = Overflow
  BY <1>1 DEF AddDigit
<1>2. CASE xx \in Nat
  <2>1. xx * base + d \in Nat
    BY <1>2
  <2> QED BY <2>1 DEF AddDigit
<1> QED BY <1>1, <1>2

LEMMA FiguresAre ==
  ASSUME NEW base \in Bases, NEW u, NEW v, Spells(u, base, v)
  PROVE  /\ u \in Seq(Glyphs) /\ Len(u) \in Nat /\ DOMAIN u = 1 .. Len(u)
         /\ \A i \in 1 .. Len(u) :
              /\ u[i] \in DOMAIN DigitOf /\ u[i] \in Glyphs
              /\ DigitOf[u[i]] \in 0 .. base - 1
<1>1. u \in Seq(Glyphs) /\ Figures(u, base)
  BY DEF Spells
<1>2. base \in Nat
  BY DEF Bases
<1>3. \A i \in 1 .. Len(u) : u[i] \in DOMAIN DigitOf /\ DigitOf[u[i]] < base
  BY <1>1 DEF Figures
<1>4. \A ch \in DOMAIN DigitOf : DigitOf[ch] \in 0 .. 15
  BY DigitIs
<1>5. \A i \in 1 .. Len(u) : DigitOf[u[i]] \in 0 .. base - 1
  BY <1>2, <1>3, <1>4
<1> QED BY <1>1, <1>3, <1>5 DEF Glyphs

LEMMA AccumulatedIs ==
  ASSUME NEW base \in Bases, NEW limit \in Nat, NEW u, NEW v, Spells(u, base, v)
  PROVE  Accumulated(u, limit, base) = Capped(v, limit)
<1> DEFINE n == Len(u)
           S == Nat \cup {Overflow}
           G == [i \in 1 .. n |-> [xx \in S |-> AddDigit(xx, DigitOf[u[i]], limit, base)]]
           F(h) == [i \in 0 .. n |-> IF i = 0 THEN 0
                                     ELSE AddDigit(h[i - 1], DigitOf[u[i]], limit, base)]
           acc == CHOOSE h : h = F(h)
<1>1. n \in Nat /\ \A i \in 1 .. n : DigitOf[u[i]] \in 0 .. base - 1 /\ DigitOf[u[i]] \in Nat
  <2>1. base \in Nat
    BY DEF Bases
  <2> QED BY <2>1, FiguresAre
<1>2. Accumulated(u, limit, base) = acc[n]
  BY DEF Accumulated, AddDigit
<1> HIDE DEF n
<1>3. \A i \in 1 .. n : \A xx \in S : AddDigit(xx, DigitOf[u[i]], limit, base) \in S
  BY <1>1, AddDigitTyped
<1>4. G \in [1 .. n -> [S -> S]] /\ 0 \in S
  <2> HIDE DEF S
  <2>1. G \in [1 .. n -> [S -> S]]
    BY <1>3
  <2> QED BY <2>1 DEF S
<1>5. PICK f \in [0 .. n -> S] : Follows(f, n, 0, G)
  <2> HIDE DEF G, S
  <2> QED BY <1>1, <1>4, RecExists
<1>6. f = F(f)
  <2>1. \A i \in 1 .. n : f[i - 1] \in S
    <3> HIDE DEF S
    <3> QED BY <1>1
  <2> HIDE DEF S
  <2>2. \A i \in 1 .. n : f[i] = AddDigit(f[i - 1], DigitOf[u[i]], limit, base)
    BY <1>5, <2>1 DEF Follows
  <2>3. f[0] = 0
    BY <1>5 DEF Follows
  <2>4. \A i \in 0 .. n : f[i] = IF i = 0 THEN 0
                                 ELSE AddDigit(f[i - 1], DigitOf[u[i]], limit, base)
    BY <1>1, <2>2, <2>3
  <2>5. f = [i \in 0 .. n |-> f[i]]
    OBVIOUS
  <2> QED BY <2>4, <2>5
<1>7. acc = F(acc)
  <2> HIDE DEF F
  <2> QED BY <1>6
<1> HIDE DEF acc
<1>8. \A i \in 0 .. n : acc[i] = IF i = 0 THEN 0
                                 ELSE AddDigit(acc[i - 1], DigitOf[u[i]], limit, base)
  BY <1>7
<1>9. PICK V : Says(V, u, base, v)
  BY DEF Spells
<1>10. /\ V \in [0 .. n -> Nat] /\ V[0] = 0 /\ V[n] = v
       /\ \A i \in 1 .. n : V[i] = V[i - 1] * base + DigitOf[u[i]]
  BY <1>9 DEF Says, n
<1> DEFINE T == {i \in 0 .. n : acc[i] = Capped(V[i], limit)}
<1>11. 0 \in T
  <2>1. acc[0] = 0
    BY <1>1, <1>8
  <2> QED BY <1>1, <1>10, <2>1 DEF Capped
<1>12. ASSUME NEW i \in 1 .. n, i - 1 \in T PROVE i \in T
  <2>1. acc[i - 1] = Capped(V[i - 1], limit) /\ V[i - 1] \in Nat
    BY <1>1, <1>10, <1>12
  <2>2. AddDigit(Capped(V[i - 1], limit), DigitOf[u[i]], limit, base)
          = Capped(V[i - 1] * base + DigitOf[u[i]], limit)
    <3> DEFINE d == DigitOf[u[i]]  xx == V[i - 1]
    <3>1. d \in 0 .. base - 1 /\ xx \in Nat
      BY <1>1, <2>1
    <3> HIDE DEF d, xx
    <3>2. AddDigit(Capped(xx, limit), d, limit, base) = Capped(xx * base + d, limit)
      BY <3>1, AddDigitIs
    <3> QED BY <3>2 DEF d, xx
  <2>3. acc[i] = AddDigit(acc[i - 1], DigitOf[u[i]], limit, base)
    BY <1>1, <1>8
  <2>4. V[i] = V[i - 1] * base + DigitOf[u[i]]
    BY <1>10
  <2>5. acc[i] = Capped(V[i], limit)
    BY <2>1, <2>2, <2>3, <2>4
  <2> QED BY <2>5
<1> HIDE DEF T
<1>13. 0 .. n \subseteq T
  BY <1>1, <1>11, <1>12, GoesOn
<1>14. n \in T
  BY <1>1, <1>13
<1> QED BY <1>2, <1>10, <1>14 DEF T

-----------------------------------------------------------------------------
(* The sum of strtoi, and how it notices that it was too much.             *)
SumOf(digits, base) ==
  CHOOSE h : h = [i \in 0 .. Len(digits) |->
                    IF i = 0 THEN 0 ELSE (h[i - 1] * base + DigitOf[digits[i]]) % Word]

LEMMA SaysGrow ==
  ASSUME NEW base \in Bases, NEW u, NEW v, NEW V, Says(V, u, base, v),
         NEW n \in Nat, n = Len(u), \A i \in 1 .. n : DigitOf[u[i]] \in 0 .. base - 1
  PROVE  /\ \A i \in 0 .. n : V[i] \in Nat /\ V[i] <= v
         /\ \A i \in 1 .. n : V[i - 1] <= V[i]
<1>1. /\ V \in [0 .. n -> Nat] /\ V[n] = v
      /\ \A i \in 1 .. n : V[i] = V[i - 1] * base + DigitOf[u[i]]
  BY DEF Says
<1>2. \A xx \in Nat, d \in 0 .. base - 1 : xx <= xx * base + d
  BY DEF Bases
<1>3. ASSUME NEW i \in 1 .. n PROVE V[i - 1] <= V[i]
  <2>1. V[i - 1] \in Nat /\ DigitOf[u[i]] \in 0 .. base - 1
    BY <1>1
  <2> DEFINE xx == V[i - 1]  d == DigitOf[u[i]]
  <2>2. xx <= xx * base + d
    <3> HIDE DEF xx, d
    <3>1. xx \in Nat /\ d \in 0 .. base - 1
      BY <2>1 DEF xx, d
    <3> QED BY <1>2, <3>1
  <2> QED BY <1>1, <2>2
<1> DEFINE T == {k \in 0 .. n : V[n - k] <= v}
<1>4. 0 \in T
  BY <1>1
<1>5. ASSUME NEW k \in 1 .. n, k - 1 \in T PROVE k \in T
  <2> DEFINE i == n - (k - 1)
  <2>1. i \in 1 .. n /\ i - 1 = n - k /\ n - k \in 0 .. n
    OBVIOUS
  <2>2. V[i] <= v
    BY <1>5
  <2> HIDE DEF i
  <2>3. V[i - 1] <= V[i]
    BY <1>3, <2>1
  <2>4. V[i - 1] \in Nat /\ V[i] \in Nat /\ v \in Nat
    <3>1. i - 1 \in 0 .. n /\ i \in 0 .. n /\ n \in 0 .. n
      BY <2>1
    <3> HIDE DEF T
    <3> QED BY <1>1, <3>1
  <2>5. V[n - k] <= v
    <3> DEFINE xx == V[i - 1]  yy == V[i]
    <3>1. xx \in Nat /\ yy \in Nat /\ v \in Nat /\ xx <= yy /\ yy <= v
      BY <2>2, <2>3, <2>4
    <3> HIDE DEF xx, yy
    <3>2. xx <= v
      BY <3>1
    <3> QED BY <2>1, <3>2 DEF xx
  <2> QED BY <2>5
<1> HIDE DEF T
<1>6. 0 .. n \subseteq T
  BY <1>4, <1>5, GoesOn
<1>7. ASSUME NEW i \in 0 .. n PROVE V[i] \in Nat /\ V[i] <= v
  <2> DEFINE k == n - i
  <2>1. k \in 0 .. n /\ n - k = i
    OBVIOUS
  <2> HIDE DEF k
  <2>2. V[n - k] <= v
    BY <1>6, <2>1 DEF T
  <2> QED BY <1>1, <2>1, <2>2
<1> QED BY <1>3, <1>7

LEMMA SumIs ==
  ASSUME NEW base \in Bases, NEW u, NEW v, Spells(u, base, v), v < Word
  PROVE  /\ SumOf(u, base)[Len(u)] = v
         /\ (\E i \in DOMAIN u : Signed(SumOf(u, base)[i - 1]) > Signed(SumOf(u, base)[i]))
              <=> Negative(v)
<1> DEFINE n == Len(u)
           S == 0 .. Word - 1
           G == [i \in 1 .. n |-> [xx \in S |-> (xx * base + DigitOf[u[i]]) % Word]]
           F(h) == [i \in 0 .. n |-> IF i = 0 THEN 0
                                     ELSE (h[i - 1] * base + DigitOf[u[i]]) % Word]
           sum == SumOf(u, base)
<1>1. n \in Nat /\ \A i \in 1 .. n : DigitOf[u[i]] \in 0 .. base - 1 /\ DigitOf[u[i]] \in Nat
  <2>1. base \in Nat
    BY DEF Bases
  <2> QED BY <2>1, FiguresAre
<1>2. Word \in Nat /\ LONG_MAX \in Nat /\ Word = 2 * LONG_MAX + 2 /\ base \in Nat
  BY WordIs DEF Bases
<1>3. DOMAIN u = 1 .. n
  BY FiguresAre
<1>4. sum = CHOOSE h : h = F(h)
  BY DEF SumOf
<1>5. PICK V : Says(V, u, base, v)
  BY DEF Spells
<1>6. /\ V \in [0 .. n -> Nat] /\ V[0] = 0 /\ V[n] = v
      /\ \A i \in 1 .. n : V[i] = V[i - 1] * base + DigitOf[u[i]]
  BY <1>5 DEF Says
<1>7. /\ \A i \in 0 .. n : V[i] \in Nat /\ V[i] <= v
      /\ \A i \in 1 .. n : V[i - 1] <= V[i]
  <2> HIDE DEF n
  <2>1. n = Len(u)
    BY DEF n
  <2> QED BY <1>1, <1>5, <2>1, SaysGrow
<1> HIDE DEF n, sum
<1>8. V = F(V)
  <2>1. ASSUME NEW i \in 1 .. n PROVE V[i] = (V[i - 1] * base + DigitOf[u[i]]) % Word
    <3> DEFINE xx == V[i]
    <3>1. xx \in Nat /\ xx <= v /\ v \in Nat
      BY <1>1, <1>6, <1>7
    <3> HIDE DEF xx
    <3>2. xx % Word = xx
      BY <1>2, <3>1
    <3> QED BY <1>6, <3>2 DEF xx
  <2>2. \A i \in 0 .. n : V[i] = IF i = 0 THEN 0 ELSE (V[i - 1] * base + DigitOf[u[i]]) % Word
    BY <1>1, <1>6, <2>1
  <2>3. V = [i \in 0 .. n |-> V[i]]
    BY <1>6
  <2> QED BY <2>2, <2>3
<1>9. sum = F(sum)
  <2> HIDE DEF F
  <2> QED BY <1>4, <1>8
<1>10. \A i \in 0 .. n : sum[i] = IF i = 0 THEN 0 ELSE (sum[i - 1] * base + DigitOf[u[i]]) % Word
  BY <1>9
<1> DEFINE T == {i \in 0 .. n : sum[i] = V[i]}
<1>11. 0 \in T
  BY <1>1, <1>6, <1>10
<1>12. ASSUME NEW i \in 1 .. n, i - 1 \in T PROVE i \in T
  <2>1. sum[i - 1] = V[i - 1]
    BY <1>12
  <2>2. sum[i] = (V[i - 1] * base + DigitOf[u[i]]) % Word
    BY <1>1, <1>10, <2>1
  <2>3. V[i] = (V[i - 1] * base + DigitOf[u[i]]) % Word
    <3>1. i \in 0 .. n /\ i # 0
      BY <1>1
    <3>2. \A j \in 0 .. n : V[j] = IF j = 0 THEN 0 ELSE (V[j - 1] * base + DigitOf[u[j]]) % Word
      BY <1>8
    <3> QED BY <3>1, <3>2
  <2> QED BY <2>2, <2>3
<1> HIDE DEF T, F
<1>13. 0 .. n \subseteq T
  BY <1>1, <1>11, <1>12, GoesOn
<1>14. \A i \in 0 .. n : sum[i] = V[i]
  BY <1>13 DEF T
<1>15. sum[n] = v
  BY <1>1, <1>6, <1>14
<1>16. CASE ~Negative(v)
  <2>1. ASSUME NEW i \in 1 .. n PROVE ~(Signed(sum[i - 1]) > Signed(sum[i]))
    <3> DEFINE xx == V[i - 1]  yy == V[i]
    <3>1. xx \in Nat /\ yy \in Nat /\ v \in Nat /\ xx <= yy /\ yy <= v
      BY <1>1, <1>6, <1>7
    <3>2. sum[i - 1] = xx /\ sum[i] = yy
      <4>1. i - 1 \in 0 .. n /\ i \in 0 .. n
        BY <1>1
      <4> QED BY <1>14, <4>1
    <3> HIDE DEF xx, yy
    <3>3. ~(Signed(xx) > Signed(yy))
      BY <1>2, <1>16, <3>1 DEF Signed, Negative
    <3> QED BY <3>2, <3>3
  <2> QED BY <1>3, <1>15, <1>16, <2>1 DEF sum, n
<1>17. CASE Negative(v)
  <2> DEFINE I == {i \in 0 .. n : V[i] > LONG_MAX}
  <2>1. n \in I
    BY <1>1, <1>6, <1>17 DEF Negative
  <2>2. I \in SUBSET Nat
    OBVIOUS
  <2> HIDE DEF I
  <2>3. PICK i \in I : \A k \in I : i <= k
    BY <2>1, <2>2, MinLeast
  <2>4. i \in 0 .. n /\ V[i] > LONG_MAX
    BY <2>3 DEF I
  <2>5. i # 0
    BY <1>2, <1>6, <2>4
  <2>6. i \in 1 .. n /\ i - 1 \in 0 .. n /\ ~(i <= i - 1)
    BY <1>1, <2>4, <2>5
  <2>7. ~(V[i - 1] > LONG_MAX)
    BY <2>3, <2>6 DEF I
  <2>8. Signed(sum[i - 1]) > Signed(sum[i])
    <3> DEFINE xx == V[i - 1]  yy == V[i]
    <3>1. xx \in Nat /\ yy \in Nat /\ v \in Nat /\ yy <= v /\ yy > LONG_MAX /\ ~(xx > LONG_MAX)
      BY <1>1, <1>6, <1>7, <2>4, <2>6, <2>7
    <3>2. sum[i - 1] = xx /\ sum[i] = yy
      BY <1>14, <2>4, <2>6
    <3> HIDE DEF xx, yy
    <3>3. Signed(xx) > Signed(yy)
      BY <1>2, <3>1 DEF Signed, Negative
    <3> QED BY <3>2, <3>3
  <2> QED BY <1>3, <1>15, <1>17, <2>6, <2>8 DEF sum, n
<1> QED BY <1>16, <1>17

-----------------------------------------------------------------------------
(* Texts in parts.                                                         *)
Texts == Seq(Glyphs)

LEMMA SameText ==
  ASSUME NEW s \in Texts, NEW t \in Texts, Len(s) = Len(t), \A i \in 1 .. Len(s) : s[i] = t[i]
  PROVE  s = t
BY DEF Texts

LEMMA Joined ==
  ASSUME NEW s \in Texts, NEW t \in Texts
  PROVE  /\ s \o t \in Texts /\ Len(s \o t) = Len(s) + Len(t)
         /\ Len(s) \in Nat /\ Len(t) \in Nat
         /\ \A i \in 1 .. Len(s) : (s \o t)[i] = s[i]
         /\ \A i \in 1 .. Len(t) : (s \o t)[Len(s) + i] = t[i]
BY ConcatIs DEF Texts

LEMMA JoinedInTurn ==
  ASSUME NEW s \in Texts, NEW t \in Texts, NEW u \in Texts
  PROVE  (s \o t) \o u = s \o (t \o u)
<1> DEFINE l == (s \o t) \o u
           r == s \o (t \o u)
           a == s \o t
           b == t \o u
           m == Len(s)
           n == Len(t)
           k == Len(u)
<1>1. /\ a \in Texts /\ Len(a) = m + n /\ m \in Nat /\ n \in Nat
      /\ \A i \in 1 .. m : a[i] = s[i]
      /\ \A i \in 1 .. n : a[m + i] = t[i]
  BY Joined
<1>2. /\ b \in Texts /\ Len(b) = n + k /\ k \in Nat
      /\ \A i \in 1 .. n : b[i] = t[i]
      /\ \A i \in 1 .. k : b[n + i] = u[i]
  BY Joined
<1> HIDE DEF a, b
<1>3. /\ l \in Texts /\ Len(l) = Len(a) + k
      /\ \A i \in 1 .. Len(a) : l[i] = a[i]
      /\ \A i \in 1 .. k : l[Len(a) + i] = u[i]
  BY <1>1, Joined DEF a
<1>4. /\ r \in Texts /\ Len(r) = m + Len(b)
      /\ \A i \in 1 .. m : r[i] = s[i]
      /\ \A i \in 1 .. Len(b) : r[m + i] = b[i]
  BY <1>2, Joined DEF b
<1> HIDE DEF l, r, m, n, k
<1>5. Len(l) = m + n + k /\ Len(r) = m + n + k
  BY <1>1, <1>2, <1>3, <1>4
<1>6. ASSUME NEW i \in 1 .. m + n + k PROVE l[i] = r[i]
  <2>1. CASE i <= m
    <3>1. i \in 1 .. m /\ i \in 1 .. Len(a)
      BY <1>1, <2>1
    <3> QED BY <1>1, <1>3, <1>4, <3>1
  <2>2. CASE m < i /\ i <= m + n
    <3> DEFINE h == i - m
    <3>1. h \in 1 .. n /\ h \in 1 .. Len(b) /\ i = m + h /\ i \in 1 .. Len(a)
      BY <1>1, <1>2, <2>2
    <3> HIDE DEF h
    <3>2. l[i] = a[i] /\ a[m + h] = t[h] /\ r[m + h] = b[h] /\ b[h] = t[h]
      BY <1>1, <1>2, <1>3, <1>4, <3>1
    <3> QED BY <3>1, <3>2
  <2>3. CASE i > m + n
    <3> DEFINE h == i - (m + n)
    <3>1. h \in 1 .. k /\ n + h \in 1 .. Len(b) /\ i = Len(a) + h /\ i = m + (n + h)
      BY <1>1, <1>2, <2>3
    <3> HIDE DEF h
    <3>2. l[Len(a) + h] = u[h] /\ r[m + (n + h)] = b[n + h] /\ b[n + h] = u[h]
      BY <1>2, <1>3, <1>4, <3>1
    <3> QED BY <3>1, <3>2
  <2> QED BY <1>1, <1>2, <2>1, <2>2, <2>3
<1>7. l = r
  BY <1>3, <1>4, <1>5, <1>6, SameText
<1> QED BY <1>7 DEF l, r, a, b

LEMMA JoinedToNothing ==
  ASSUME NEW s \in Texts
  PROVE  s \o <<>> = s /\ <<>> \o s = s /\ <<>> \in Texts
BY DEF Texts

LEMMA MaxOf ==
  ASSUME NEW a \in Int, NEW b \in Int
  PROVE  Max({a, b}) = IF a >= b THEN a ELSE b
<1>1. CASE a >= b
  <2>1. a \in {a, b} /\ \A yy \in {a, b} : a >= yy
    BY <1>1
  <2>2. Max({a, b}) \in {a, b} /\ \A yy \in {a, b} : Max({a, b}) >= yy
    BY <2>1 DEF Max
  <2>3. Max({a, b}) >= a /\ (Max({a, b}) = a \/ Max({a, b}) = b)
    BY <2>2
  <2> QED BY <1>1, <2>3
<1>2. CASE ~(a >= b)
  <2>1. b \in {a, b} /\ \A yy \in {a, b} : b >= yy
    BY <1>2
  <2>2. Max({a, b}) \in {a, b} /\ \A yy \in {a, b} : Max({a, b}) >= yy
    BY <2>1 DEF Max
  <2>3. Max({a, b}) >= b /\ (Max({a, b}) = a \/ Max({a, b}) = b)
    BY <2>2
  <2> QED BY <1>2, <2>3
<1> QED BY <1>1, <1>2

LEMMA CopiesAre ==
  ASSUME NEW ch \in Glyphs, NEW n \in Int
  PROVE  /\ Copies(ch, n) \in Texts
         /\ Len(Copies(ch, n)) = (IF n >= 0 THEN n ELSE 0)
         /\ \A i \in 1 .. Len(Copies(ch, n)) : Copies(ch, n)[i] = ch
         /\ n <= 0 => Copies(ch, n) = <<>>
<1> DEFINE l == IF n >= 0 THEN n ELSE 0
<1>1. Copies(ch, n) = [i \in 1 .. l |-> ch] /\ l \in Nat
  BY MaxOf DEF Copies
<1> HIDE DEF l
<1>2. [i \in 1 .. l |-> ch] \in Texts /\ Len([i \in 1 .. l |-> ch]) = l
      /\ \A i \in 1 .. l : [k \in 1 .. l |-> ch][i] = ch
  BY <1>1 DEF Texts
<1>3. n <= 0 => l = 0
  BY DEF l
<1>4. l = 0 => [i \in 1 .. l |-> ch] = <<>>
  OBVIOUS
<1> QED BY <1>1, <1>2, <1>3, <1>4 DEF l

LEMMA CopiesJoined ==
  ASSUME NEW ch \in Glyphs, NEW m \in Nat, NEW n \in Nat
  PROVE  Copies(ch, m) \o Copies(ch, n) = Copies(ch, m + n)
<1> DEFINE a == Copies(ch, m)
           b == Copies(ch, n)
           d == Copies(ch, m + n)
           j == a \o b
<1>1. a \in Texts /\ Len(a) = m /\ \A i \in 1 .. m : a[i] = ch
  BY CopiesAre
<1>2. b \in Texts /\ Len(b) = n /\ \A i \in 1 .. n : b[i] = ch
  BY CopiesAre
<1>3. d \in Texts /\ Len(d) = m + n /\ \A i \in 1 .. m + n : d[i] = ch
  <2> DEFINE k == m + n
  <2>1. k \in Int /\ k >= 0
    OBVIOUS
  <2> HIDE DEF k
  <2>2. Copies(ch, k) \in Texts /\ Len(Copies(ch, k)) = k /\ \A i \in 1 .. k : Copies(ch, k)[i] = ch
    BY <2>1, CopiesAre
  <2> QED BY <2>2 DEF k
<1> HIDE DEF a, b, d
<1>4. /\ j \in Texts /\ Len(j) = m + n
      /\ \A i \in 1 .. m : j[i] = a[i]
      /\ \A i \in 1 .. n : j[m + i] = b[i]
  BY <1>1, <1>2, Joined
<1> HIDE DEF j
<1>5. ASSUME NEW i \in 1 .. m + n PROVE j[i] = d[i]
  <2>1. CASE i <= m
    BY <1>1, <1>3, <1>4, <2>1
  <2>2. CASE i > m
    <3> DEFINE h == i - m
    <3>1. h \in 1 .. n /\ i = m + h
      BY <2>2
    <3> HIDE DEF h
    <3>2. j[m + h] = ch
      BY <1>2, <1>4, <3>1
    <3> QED BY <1>3, <3>1, <3>2
  <2> QED BY <2>1, <2>2
<1>6. j = d
  BY <1>3, <1>4, <1>5, SameText
<1> QED BY <1>6 DEF j, a, b, d

LEMMA Begins ==
  ASSUME NEW s \in Texts, NEW t \in Texts
  PROVE  /\ s # <<>> => s \o t # <<>> /\ (s \o t)[1] = s[1]
         /\ t # <<>> => s \o t # <<>>
<1>1. s # <<>> => Len(s) # 0
  BY DEF Texts
<1>2. t # <<>> => Len(t) # 0
  BY DEF Texts
<1>3. s \o t # <<>> <=> Len(s \o t) # 0
  <2> DEFINE u == s \o t
  <2>1. u \in Texts
    BY Joined
  <2> HIDE DEF u
  <2>2. u # <<>> <=> Len(u) # 0
    BY <2>1 DEF Texts
  <2> QED BY <2>2 DEF u
<1>4. Len(s \o t) = Len(s) + Len(t) /\ Len(s) \in Nat /\ Len(t) \in Nat
      /\ \A i \in 1 .. Len(s) : (s \o t)[i] = s[i]
  BY Joined
<1>5. Len(s) # 0 => (s \o t)[1] = s[1]
  <2> SUFFICES ASSUME Len(s) # 0 PROVE (s \o t)[1] = s[1]
    OBVIOUS
  <2>1. 1 \in 1 .. Len(s)
    BY <1>4
  <2> QED BY <1>4, <2>1
<1>6. Len(s) # 0 => Len(s \o t) # 0
  BY <1>4
<1>7. Len(t) # 0 => Len(s \o t) # 0
  BY <1>4
<1> QED BY <1>1, <1>2, <1>3, <1>5, <1>6, <1>7, Zenon

(* What stays behind a number of characters.                               *)
LEMMA BehindIs ==
  ASSUME NEW s \in Texts, NEW t \in Texts
  PROVE  SubSeq(s \o t, Len(s) + 1, Len(s \o t)) = t
<1> DEFINE u == s \o t
           m == Len(s)
           n == Len(t)
           v == SubSeq(u, m + 1, m + n)
<1>1. /\ u \in Texts /\ Len(u) = m + n /\ m \in Nat /\ n \in Nat
      /\ \A i \in 1 .. n : u[m + i] = t[i]
  BY Joined
<1> HIDE DEF u, m
<1>2. v \in Texts /\ Len(v) = n /\ \A i \in 1 .. n : v[i] = u[m + i]
  <2> HIDE DEF n
  <2>1. \A i \in m + 1 .. m + n : u[i] \in Glyphs
    BY <1>1 DEF Texts
  <2>2. v = [i \in 1 .. n |-> u[m + i]]
    BY <1>1, <2>1 DEF Texts
  <2>3. \A i \in 1 .. n : u[m + i] \in Glyphs
    BY <1>1, <2>1
  <2>4. [i \in 1 .. n |-> u[m + i]] \in Texts /\ Len([i \in 1 .. n |-> u[m + i]]) = n
    BY <1>1, <2>3 DEF Texts
  <2>5. \A i \in 1 .. n : [k \in 1 .. n |-> u[m + k]][i] = u[m + i]
    OBVIOUS
  <2> HIDE DEF v
  <2> QED BY <2>2, <2>4, <2>5
<1> HIDE DEF v
<1>3. v = t
  <2>1. \A i \in 1 .. Len(v) : v[i] = t[i]
    BY <1>1, <1>2
  <2> QED BY <1>2, <2>1, SameText
<1> QED BY <1>1, <1>3 DEF v, u, m

LEMMA FrontIs ==
  ASSUME NEW s \in Texts, NEW t \in Texts
  PROVE  SubSeq(s \o t, 1, Len(s)) = s
<1> DEFINE u == s \o t
           m == Len(s)
           v == SubSeq(u, 1, m)
<1>1. /\ u \in Texts /\ Len(u) = m + Len(t) /\ m \in Nat /\ Len(t) \in Nat
      /\ \A i \in 1 .. m : u[i] = s[i]
  BY Joined
<1> HIDE DEF u, m
<1>2. v \in Texts /\ Len(v) = m /\ \A i \in 1 .. m : v[i] = u[i]
  <2>1. \A i \in 1 .. m : u[i] \in Glyphs
    BY <1>1 DEF Texts, m
  <2>2. v = [i \in 1 .. m |-> u[i]]
    BY <1>1, <2>1 DEF Texts
  <2>4. [i \in 1 .. m |-> u[i]] \in Texts /\ Len([i \in 1 .. m |-> u[i]]) = m
    BY <1>1, <2>1 DEF Texts
  <2>5. \A i \in 1 .. m : [k \in 1 .. m |-> u[k]][i] = u[i]
    OBVIOUS
  <2> HIDE DEF v
  <2> QED BY <2>2, <2>4, <2>5
<1> HIDE DEF v
<1>3. v = s
  <2>1. \A i \in 1 .. Len(v) : v[i] = s[i]
    BY <1>1, <1>2
  <2>2. Len(v) = Len(s)
    BY <1>2 DEF m
  <2> QED BY <1>2, <2>1, <2>2, SameText
<1> QED BY <1>3 DEF v, u, m

(* The first character that is none of those passed over.                  *)
LEMMA AfterIs ==
  ASSUME NEW ch \in Glyphs, NEW n \in Nat, NEW w \in Texts, w = <<>> \/ w[1] # ch
  PROVE  After(Copies(ch, n) \o w, {ch}) = w
<1> DEFINE a == Copies(ch, n)
           s == a \o w
           rest == {i \in DOMAIN s : s[i] \notin {ch}}
<1>1. a \in Texts /\ Len(a) = n /\ \A i \in 1 .. n : a[i] = ch
  BY CopiesAre
<1> HIDE DEF a
<1>2. /\ s \in Texts /\ Len(s) = n + Len(w) /\ Len(w) \in Nat
      /\ \A i \in 1 .. n : s[i] = a[i]
      /\ \A i \in 1 .. Len(w) : s[n + i] = w[i]
  BY <1>1, Joined
<1>3. SubSeq(s, n + 1, Len(s)) = w
  BY <1>1, BehindIs
<1> HIDE DEF s
<1>4. DOMAIN s = 1 .. Len(s)
  BY <1>2 DEF Texts
<1>5. \A i \in rest : i \in Nat /\ n + 1 <= i
  BY <1>1, <1>2, <1>4
<1>6. After(s, {ch}) = IF rest = {} THEN <<>> ELSE SubSeq(s, Min(rest), Len(s))
  BY DEF After
<1>7. CASE w = <<>>
  <2>1. Len(w) = 0
    BY <1>7
  <2>2. rest = {}
    BY <1>2, <1>4, <1>5, <2>1
  <2> QED BY <1>6, <1>7, <2>2 DEF s, a
<1>8. CASE w # <<>>
  <2>1. Len(w) # 0
    BY <1>8 DEF Texts
  <2>2. 1 \in 1 .. Len(w) /\ n + 1 \in 1 .. Len(s)
    BY <1>2, <2>1
  <2>3. s[n + 1] # ch
    BY <1>2, <1>8, <2>2
  <2>4. n + 1 \in rest
    BY <1>4, <2>2, <2>3
  <2> HIDE DEF rest
  <2>5. rest \in SUBSET Nat /\ rest # {}
    BY <1>5, <2>4
  <2>6. Min(rest) \in rest /\ \A yy \in rest : Min(rest) <= yy
    BY <2>5, MinLeast
  <2>7. Min(rest) = n + 1
    <3>1. Min(rest) \in Nat /\ n + 1 <= Min(rest) /\ Min(rest) <= n + 1
      BY <1>5, <2>4, <2>6
    <3> QED BY <3>1
  <2>8. After(s, {ch}) = w
    BY <1>3, <1>6, <2>5, <2>7
  <2> QED BY <2>8 DEF s, a
<1> QED BY <1>7, <1>8

(* The characters before the first that ends them.                         *)
LEMMA UpToIs ==
  ASSUME NEW u \in Texts, NEW r \in Texts, NEW ends \in SUBSET DOMAIN (u \o r),
         \A i \in 1 .. Len(u) : i \notin ends,
         r # <<>> => Len(u) + 1 \in ends
  PROVE  SubSeq(u \o r, 1, Min(ends \cup {Len(u \o r) + 1}) - 1) = u
<1> DEFINE s == u \o r
           n == Len(u)
           E == ends \cup {Len(s) + 1}
<1>1. s \in Texts /\ Len(s) = n + Len(r) /\ n \in Nat /\ Len(r) \in Nat
  BY Joined
<1>2. SubSeq(s, 1, n) = u
  BY FrontIs
<1>3. r = <<>> => Len(r) = 0
  OBVIOUS
<1>4. ends \in SUBSET DOMAIN s
  OBVIOUS
<1> HIDE DEF s
<1>5. DOMAIN s = 1 .. Len(s)
  BY <1>1 DEF Texts
<1>6. \A i \in 1 .. n : i \notin ends
  OBVIOUS
<1>7. r # <<>> => n + 1 \in ends
  OBVIOUS
<1> HIDE DEF n
<1>8. n + 1 \in E
  BY <1>1, <1>3, <1>7
<1>9. \A yy \in E : yy \in Nat /\ n + 1 <= yy
  <2> TAKE yy \in E
  <2>1. CASE yy \in ends
    BY <1>1, <1>4, <1>5, <1>6, <2>1
  <2>2. CASE yy = Len(s) + 1
    BY <1>1, <2>2
  <2> QED BY <2>1, <2>2
<1> HIDE DEF E
<1>10. E \in SUBSET Nat /\ E # {}
  BY <1>8, <1>9
<1>11. Min(E) \in E /\ \A yy \in E : Min(E) <= yy
  BY <1>10, MinLeast
<1>12. Min(E) = n + 1
  <2>1. Min(E) \in Nat /\ n + 1 <= Min(E) /\ Min(E) <= n + 1
    BY <1>8, <1>9, <1>11
  <2> QED BY <1>1, <2>1
<1>13. Min(E) - 1 = n
  BY <1>1, <1>12
<1>14. SubSeq(s, 1, Min(E) - 1) = u
  BY <1>2, <1>13
<1> QED BY <1>14 DEF s, E

LEMMA SpellsZeros ==
  ASSUME NEW base \in Bases, NEW w, NEW v, Spells(w, base, v), NEW j \in Nat
  PROVE  Spells(Copies("0", j) \o w, base, v)
<1> DEFINE z == Copies("0", j)
           u == z \o w
           n == Len(w)
<1>1. "0" \in Glyphs /\ "0" \in DOMAIN DigitOf /\ DigitOf["0"] = 0
  BY DigitIs DEF Glyphs
<1>2. z \in Texts /\ Len(z) = j /\ \A i \in 1 .. j : z[i] = "0"
  BY <1>1, CopiesAre
<1>3. w \in Texts /\ n \in Nat /\ \A i \in 1 .. n : w[i] \in DOMAIN DigitOf /\ DigitOf[w[i]] < base
  BY FiguresAre DEF Spells, Figures, Texts
<1> HIDE DEF z
<1>4. /\ u \in Texts /\ Len(u) = j + n
      /\ \A i \in 1 .. j : u[i] = z[i]
      /\ \A i \in 1 .. n : u[j + i] = w[i]
  BY <1>2, <1>3, Joined
<1>5. PICK V : Says(V, w, base, v)
  BY DEF Spells
<1>6. /\ V \in [0 .. n -> Nat] /\ V[0] = 0 /\ V[n] = v
      /\ \A i \in 1 .. n : V[i] = V[i - 1] * base + DigitOf[w[i]]
  BY <1>5 DEF Says
<1>7. base \in Nat /\ base > 0
  BY DEF Bases
<1> HIDE DEF u, n
<1> DEFINE l == j + n
           W == [i \in 0 .. l |-> IF i <= j THEN 0 ELSE V[i - j]]
<1>8. W \in [0 .. l -> Nat]
  <2>1. ASSUME NEW i \in 0 .. l PROVE (IF i <= j THEN 0 ELSE V[i - j]) \in Nat
    <3>1. ~(i <= j) => i - j \in 0 .. n
      BY <1>3
    <3> QED BY <1>6, <3>1
  <2> QED BY <2>1
<1>9. W[0] = 0 /\ W[l] = v
  <2>1. l \in 0 .. l /\ 0 \in 0 .. l /\ l - j = n /\ (l <= j => n = 0)
    BY <1>3
  <2>2. W[l] = IF l <= j THEN 0 ELSE V[l - j]
    BY <2>1
  <2> QED BY <1>6, <2>1, <2>2
<1>10. ASSUME NEW i \in 1 .. l
       PROVE  /\ W[i] = W[i - 1] * base + DigitOf[u[i]]
              /\ u[i] \in DOMAIN DigitOf /\ DigitOf[u[i]] < base
  <2>1. CASE i <= j
    <3>1. W[i] = 0 /\ W[i - 1] = 0 /\ u[i] = "0"
      BY <1>2, <1>4, <2>1
    <3> QED BY <1>1, <1>7, <3>1
  <2>2. CASE i > j
    <3> DEFINE h == i - j
    <3>1. h \in 1 .. n /\ i = j + h /\ i \in 0 .. l /\ i - 1 \in 0 .. l /\ ~(i <= j)
          /\ (i - 1 <= j => h - 1 = 0) /\ (i - 1) - j = h - 1
      BY <1>3, <2>2
    <3>2. W[i] = V[h]
      BY <3>1
    <3>3. W[i - 1] = IF i - 1 <= j THEN 0 ELSE V[(i - 1) - j]
      BY <3>1
    <3> HIDE DEF h, W
    <3>4. W[i - 1] = V[h - 1]
      BY <1>6, <3>1, <3>3
    <3>5. u[i] = w[h]
      BY <1>4, <3>1
    <3> QED BY <1>3, <1>6, <3>1, <3>2, <3>4, <3>5
  <2> QED BY <2>1, <2>2
<1> HIDE DEF W, l
<1>11. Len(u) = l /\ u \in Seq(Glyphs)
  BY <1>4 DEF l, Texts
<1>12. Says(W, u, base, v)
  BY <1>8, <1>9, <1>10, <1>11 DEF Says
<1>13. Figures(u, base)
  BY <1>10, <1>11 DEF Figures
<1>14. Spells(u, base, v)
  BY <1>11, <1>12, <1>13 DEF Spells
<1> QED BY <1>14 DEF u, z

-----------------------------------------------------------------------------
(* A number as it is written: blanks, a sign, a prefix, zeros, the digits  *)
(* from the first that is not 0 on, blanks.                                *)
Signs == {<<>>, <<"-">>, <<"+">>}
HexMarks == {<<>>, <<"0", "x">>, <<"0", "X">>}
Text(m, sgn, pre, j, w, n) ==
  Copies(" ", m) \o (sgn \o (pre \o (Copies("0", j) \o (w \o Copies(" ", n)))))
Written(s, base, v, m, sgn) ==
  \E pre \in HexMarks, j \in Nat, n \in Nat, w \in Texts :
    /\ s = Text(m, sgn, pre, j, w, n)
    /\ pre # <<>> => base = 16
    /\ Spells(w, base, v)
    /\ IF w = <<>> THEN j # 0 ELSE w[1] # "0"

LEMMA PartsTyped ==
  /\ \A sgn \in Signs : sgn \in Texts /\ Len(sgn) \in {0, 1}
                        /\ (sgn # <<>> => Len(sgn) = 1 /\ sgn[1] \in {"-", "+"} /\ sgn = <<sgn[1]>>)
  /\ \A pre \in HexMarks : pre \in Texts /\ Len(pre) \in {0, 2}
                        /\ (pre # <<>> => Len(pre) = 2 /\ pre[1] = "0" /\ pre[2] \in {"x", "X"})
  /\ {" ", "-", "+", "x", "X", "0"} \subseteq Glyphs
<1>1. {" ", "-", "+", "x", "X", "0"} \subseteq Glyphs
  BY DigitIs DEF Glyphs, Marks
<1> HIDE DEF Glyphs
<1>2. <<>> \in Texts /\ <<"-">> \in Texts /\ <<"+">> \in Texts
      /\ <<"0", "x">> \in Texts /\ <<"0", "X">> \in Texts
  <2>1. ASSUME NEW a \in Glyphs PROVE <<a>> \in Texts
    BY DEF Texts
  <2>2. ASSUME NEW a \in Glyphs, NEW b \in Glyphs PROVE <<a, b>> \in Texts
    BY DEF Texts
  <2>3. <<>> \in Texts
    BY DEF Texts
  <2> QED BY <1>1, <2>1, <2>2, <2>3
<1> HIDE DEF Texts
<1>3. ASSUME NEW sgn \in Signs
      PROVE  sgn \in Texts /\ Len(sgn) \in {0, 1}
             /\ (sgn # <<>> => Len(sgn) = 1 /\ sgn[1] \in {"-", "+"} /\ sgn = <<sgn[1]>>)
  BY <1>2 DEF Signs
<1>4. ASSUME NEW pre \in HexMarks
      PROVE  pre \in Texts /\ Len(pre) \in {0, 2}
             /\ (pre # <<>> => Len(pre) = 2 /\ pre[1] = "0" /\ pre[2] \in {"x", "X"})
  BY <1>2 DEF HexMarks
<1> QED BY <1>1, <1>3, <1>4

LEMMA CopiesTaken ==
  ASSUME NEW ch \in Glyphs, NEW n \in Nat
  PROVE  /\ Copies(ch, n) \in Texts /\ Len(Copies(ch, n)) = n
         /\ \A i \in 1 .. n : Copies(ch, n)[i] = ch
         /\ n = 0 => Copies(ch, n) = <<>>
         /\ n # 0 => Copies(ch, n) # <<>>
<1>2. n \in Int /\ n >= 0
  OBVIOUS
<1>3. /\ Copies(ch, n) \in Texts
      /\ Len(Copies(ch, n)) = (IF n >= 0 THEN n ELSE 0)
      /\ \A i \in 1 .. Len(Copies(ch, n)) : Copies(ch, n)[i] = ch
      /\ n <= 0 => Copies(ch, n) = <<>>
  BY <1>2, CopiesAre
<1>4. Len(Copies(ch, n)) = n
  BY <1>2, <1>3
<1>5. n # 0 => Copies(ch, n) # <<>>
  BY <1>4
<1>6. n = 0 => Copies(ch, n) = <<>>
  BY <1>3
<1> QED BY <1>3, <1>4, <1>5, <1>6

LEMMA CopiesHere ==
  ASSUME NEW n \in Nat
  PROVE  /\ Copies(" ", n) \in Texts /\ Len(Copies(" ", n)) = n
         /\ \A i \in 1 .. n : Copies(" ", n)[i] = " "
         /\ n = 0 => Copies(" ", n) = <<>>
         /\ n # 0 => Copies(" ", n) # <<>>
         /\ Copies("0", n) \in Texts /\ Len(Copies("0", n)) = n
         /\ \A i \in 1 .. n : Copies("0", n)[i] = "0"
         /\ n = 0 => Copies("0", n) = <<>>
         /\ n # 0 => Copies("0", n) # <<>>
<1>1. " " \in Glyphs /\ "0" \in Glyphs
  BY PartsTyped
<1> QED BY <1>1, CopiesTaken

(* What strtoul, strtol and strtoi find in it.                             *)
LEMMA PartsRead ==
  ASSUME NEW base \in Bases, NEW s, NEW v, NEW m \in Nat, NEW sgn \in Signs,
         Written(s, base, v, m, sgn)
  PROVE  /\ SignOf(After(s, {" "})) = sgn
         /\ Base(Unsigned(After(s, {" "})), base) = base
         /\ Spells(Digits(Unsigned(After(s, {" "})), base), base, v)
         /\ m # 0 => s[1] = " "
         /\ m = 0 => s # <<>> /\ SignOf(s) = sgn
<1>1. PICK pre \in HexMarks, j \in Nat, n \in Nat, w \in Texts :
        /\ s = Text(m, sgn, pre, j, w, n)
        /\ pre # <<>> => base = 16
        /\ Spells(w, base, v)
        /\ IF w = <<>> THEN j # 0 ELSE w[1] # "0"
  BY DEF Written
<1> DEFINE z == Copies("0", j)
           b == Copies(" ", n)
           x0 == w \o b
           x1 == z \o x0
           x2 == pre \o x1
           x3 == sgn \o x2
           u == z \o w
<1>2. {" ", "-", "+", "x", "X", "0"} \subseteq Glyphs /\ "0" \in DOMAIN DigitOf
      /\ \A ch \in DOMAIN DigitOf : ch \notin {" ", "-", "+", "x", "X"}
  BY PartsTyped, DigitIs DEF Marks
<1>3. /\ sgn \in Texts
      /\ sgn # <<>> => Len(sgn) = 1 /\ sgn[1] \in {"-", "+"} /\ sgn = <<sgn[1]>>
  BY PartsTyped
<1>4. /\ pre \in Texts
      /\ pre # <<>> => Len(pre) = 2 /\ pre[1] = "0" /\ pre[2] \in {"x", "X"}
  BY PartsTyped
<1>5. z \in Texts /\ Len(z) = j /\ (\A i \in 1 .. j : z[i] = "0") /\ (j # 0 => z # <<>>)
  BY CopiesHere
<1>6. b \in Texts /\ Len(b) = n /\ \A i \in 1 .. n : b[i] = " "
  BY CopiesHere
<1>7. Spells(u, base, v)
  BY <1>1, SpellsZeros
<1>8. /\ u \in Texts /\ Len(u) \in Nat
      /\ \A i \in 1 .. Len(u) : u[i] \in DOMAIN DigitOf /\ DigitOf[u[i]] \in 0 .. base - 1
  BY <1>7, FiguresAre DEF Texts
<1> HIDE DEF z, b
<1>9. x0 \in Texts /\ x1 \in Texts /\ x2 \in Texts /\ x3 \in Texts
  <2>1. x0 \in Texts
    BY <1>6, Joined
  <2> HIDE DEF x0
  <2>2. x1 \in Texts
    BY <1>5, <2>1, Joined
  <2> HIDE DEF x1
  <2>3. x2 \in Texts
    BY <1>4, <2>2, Joined
  <2> HIDE DEF x2
  <2>4. x3 \in Texts
    BY <1>3, <2>3, Joined
  <2> QED BY <2>1, <2>2, <2>3, <2>4
<1>10. x1 = u \o b
  BY <1>5, <1>6, JoinedInTurn
<1>11. u # <<>> /\ u[1] \in DOMAIN DigitOf
  <2>1. CASE w = <<>>
    <3>1. j # 0
      BY <1>1, <2>1
    <3>2. z # <<>>
      BY <1>5, <3>1
    <3>3. u # <<>>
      BY <1>1, <1>5, <3>2, Begins
    <3> HIDE DEF u
    <3>4. Len(u) # 0
      BY <1>8, <3>3 DEF Texts
    <3>5. 1 \in 1 .. Len(u)
      BY <1>8, <3>4
    <3> QED BY <1>8, <3>3, <3>5
  <2>2. CASE w # <<>>
    <3>3. u # <<>>
      BY <1>1, <1>5, <2>2, Begins
    <3> HIDE DEF u
    <3>4. Len(u) # 0
      BY <1>8, <3>3 DEF Texts
    <3>5. 1 \in 1 .. Len(u)
      BY <1>8, <3>4
    <3> QED BY <1>8, <3>3, <3>5
  <2> QED BY <2>1, <2>2
<1>12. s = Copies(" ", m) \o x3
  BY <1>1 DEF Text, z, b
<1> HIDE DEF u
<1>13. x1 # <<>> /\ x1[1] \in DOMAIN DigitOf
  <2>1. u \o b # <<>> /\ (u \o b)[1] = u[1]
    BY <1>6, <1>8, <1>11, Begins
  <2> QED BY <1>10, <1>11, <2>1
<1> HIDE DEF x0, x1
<1>14. x2 # <<>> /\ x2[1] \in DOMAIN DigitOf /\ (pre = <<>> => x2 = x1)
  <2>1. CASE pre = <<>>
    <3>1. x2 = x1
      BY <1>9, <2>1, JoinedToNothing
    <3> QED BY <1>13, <3>1
  <2>2. CASE pre # <<>>
    <3>1. x2 # <<>> /\ x2[1] = pre[1]
      BY <1>4, <1>9, <2>2, Begins
    <3> QED BY <1>2, <1>4, <2>2, <3>1
  <2> QED BY <2>1, <2>2
<1>15. Len(x2) = Len(pre) + Len(x1) /\ Len(x1) \in Nat /\ Len(pre) \in Nat
       /\ \A i \in 1 .. Len(pre) : x2[i] = pre[i]
  BY <1>4, <1>9, Joined
<1>16. SubSeq(x2, Len(pre) + 1, Len(x2)) = x1
  BY <1>4, <1>9, BehindIs
<1>17. SubSeq(x3, Len(sgn) + 1, Len(x3)) = x2
  <2> HIDE DEF x2
  <2> QED BY <1>3, <1>9, BehindIs
<1> HIDE DEF x2
<1>18. x3 # <<>> /\ x3[1] # " " /\ SignOf(x3) = sgn
  <2>1. CASE sgn = <<>>
    <3>1. x3 = x2
      BY <1>9, <2>1, JoinedToNothing
    <3>2. x3 # <<>> /\ x3[1] \in DOMAIN DigitOf
      BY <1>14, <3>1
    <3>3. x3[1] \notin {" ", "-", "+"}
      BY <1>2, <3>2
    <3> HIDE DEF x3
    <3> QED BY <2>1, <3>2, <3>3 DEF SignOf
  <2>2. CASE sgn # <<>>
    <3>1. x3 # <<>> /\ x3[1] = sgn[1]
      BY <1>3, <1>9, <2>2, Begins
    <3>2. sgn[1] \in {"-", "+"} /\ sgn = <<sgn[1]>>
      BY <1>3, <2>2
    <3> HIDE DEF x3
    <3>3. SignOf(x3) = <<x3[1]>>
      BY <3>1, <3>2 DEF SignOf
    <3> QED BY <3>1, <3>2, <3>3
  <2> QED BY <2>1, <2>2
<1> HIDE DEF x3
<1>19. After(s, {" "}) = x3
  BY <1>2, <1>9, <1>12, <1>18, AfterIs
<1>20. Unsigned(x3) = x2
  BY <1>17, <1>18 DEF Unsigned
<1>21. x1 = u \o b /\ Len(x1) = Len(u) + Len(b) /\ DOMAIN x1 = 1 .. Len(x1)
       /\ (\A i \in 1 .. Len(u) : x1[i] = u[i])
       /\ (\A i \in 1 .. Len(b) : x1[Len(u) + i] = b[i])
  <2>1. Len(u \o b) = Len(u) + Len(b)
        /\ (\A i \in 1 .. Len(u) : (u \o b)[i] = u[i])
        /\ (\A i \in 1 .. Len(b) : (u \o b)[Len(u) + i] = b[i])
    BY <1>6, <1>8, Joined
  <2>2. DOMAIN x1 = 1 .. Len(x1)
    BY <1>9 DEF Texts
  <2> QED BY <1>10, <2>1, <2>2
<1>22. HexPrefix(x2, base) <=> pre # <<>>
  <2>1. CASE pre # <<>>
    <3>1. base = 16 /\ Len(pre) = 2 /\ pre[1] = "0" /\ pre[2] \in {"x", "X"}
      BY <1>1, <1>4, <2>1
    <3>2. 1 \in 1 .. Len(pre) /\ 2 \in 1 .. Len(pre) /\ Len(x2) >= 2
      BY <1>15, <3>1
    <3>3. x2[1] = "0" /\ x2[2] \in {"x", "X"}
      BY <1>15, <3>1, <3>2
    <3> QED BY <2>1, <3>1, <3>2, <3>3 DEF HexPrefix
  <2>2. CASE pre = <<>>
    <3>1. x2 = x1
      BY <1>14, <2>2
    <3>2. Len(x1) >= 2 => x1[2] \notin {"x", "X"}
      <4>1. CASE 2 <= Len(u)
        <5>1. 2 \in 1 .. Len(u)
          BY <1>8, <4>1
        <5>2. x1[2] = u[2] /\ u[2] \in DOMAIN DigitOf
          BY <1>8, <1>21, <5>1
        <5> QED BY <1>2, <5>2
      <4>2. CASE 2 > Len(u) /\ Len(x1) >= 2
        <5> DEFINE h == 2 - Len(u)
        <5>0. Len(b) = n /\ Len(u) \in Nat /\ Len(x1) = Len(u) + Len(b) /\ Len(x1) >= 2 /\ 2 > Len(u)
          BY <1>6, <1>8, <1>21, <4>2
        <5>1. h \in 1 .. n /\ Len(u) + h = 2
          BY <5>0
        <5> HIDE DEF h
        <5>2. x1[Len(u) + h] = b[h] /\ b[h] = " "
          BY <1>6, <1>21, <5>1
        <5> QED BY <5>1, <5>2
      <4> QED BY <1>8, <4>1, <4>2
    <3> QED BY <2>2, <3>1, <3>2 DEF HexPrefix
  <2> QED BY <2>1, <2>2
<1>23. Base(x2, base) = base
  <2>1. base # 0
    BY DEF Bases
  <2>2. HexPrefix(x2, base) => base = 16
    BY <1>1, <1>22
  <2> QED BY <2>1, <2>2 DEF Base
<1>24. Digits(x2, base) = u
  <2> DEFINE ends == {i \in DOMAIN x1 : ~IsDigit(x1[i]) \/ DigitOf[x1[i]] >= base}
  <2>1. (IF HexPrefix(x2, base) THEN SubSeq(x2, 3, Len(x2)) ELSE x2) = x1
    <3>1. CASE pre # <<>>
      <4>0. Len(pre) = 2
        BY <1>4, <3>1
      <4>1. Len(pre) + 1 = 3
        BY <4>0
      <4> QED BY <1>16, <1>22, <3>1, <4>1
    <3>2. CASE pre = <<>>
      BY <1>14, <1>22, <3>2
    <3> QED BY <3>1, <3>2
  <2>2. Digits(x2, base) = SubSeq(x1, 1, Min(ends \cup {Len(x1) + 1}) - 1)
    BY <1>23, <2>1 DEF Digits
  <2>3. \A i \in 1 .. Len(u) : i \notin ends
    <3> TAKE i \in 1 .. Len(u)
    <3>1. x1[i] = u[i] /\ u[i] \in DOMAIN DigitOf /\ DigitOf[u[i]] \in 0 .. base - 1
      BY <1>8, <1>21
    <3>2. base \in Nat
      BY DEF Bases
    <3>3. ~(DigitOf[u[i]] >= base)
      BY <3>1, <3>2
    <3> QED BY <3>1, <3>3 DEF IsDigit
  <2>4. b # <<>> => Len(u) + 1 \in ends
    <3> SUFFICES ASSUME b # <<>> PROVE Len(u) + 1 \in ends
      OBVIOUS
    <3>0. b \in Seq(Glyphs) /\ Len(b) = n
      BY <1>6 DEF Texts
    <3>1. Len(b) # 0
      <4> HIDE DEF ends
      <4> QED BY <3>0
    <3>2. 1 \in 1 .. Len(b) /\ 1 \in 1 .. n /\ Len(u) + 1 \in 1 .. Len(x1)
      <4>1. Len(b) = n /\ Len(u) \in Nat /\ Len(x1) = Len(u) + Len(b)
        BY <1>6, <1>8, <1>21
      <4> HIDE DEF ends
      <4> QED BY <3>1, <4>1
    <3>3. x1[Len(u) + 1] = " "
      BY <1>6, <1>21, <3>2
    <3>4. ~IsDigit(" ")
      BY <1>2 DEF IsDigit
    <3>5. Len(u) + 1 \in DOMAIN x1
      BY <1>21, <3>2
    <3> QED BY <3>3, <3>4, <3>5
  <2>5. ends \in SUBSET DOMAIN (u \o b)
    BY <1>21
  <2> HIDE DEF ends
  <2>6. SubSeq(u \o b, 1, Min(ends \cup {Len(u \o b) + 1}) - 1) = u
    BY <1>6, <1>8, <2>3, <2>4, <2>5, UpToIs
  <2> QED BY <1>21, <2>2, <2>6
<1>25. m # 0 => s[1] = " "
  <2> SUFFICES ASSUME m # 0 PROVE s[1] = " "
    OBVIOUS
  <2> DEFINE bl == " "
             yy == Copies(bl, m)
  <2>1. yy \in Texts /\ (\A i \in 1 .. m : yy[i] = bl) /\ (m # 0 => yy # <<>>)
    BY CopiesHere
  <2>2. s = yy \o x3
    BY <1>12
  <2> HIDE DEF yy, bl
  <2>3. s[1] = yy[1] /\ 1 \in 1 .. m
    BY <1>9, <2>1, <2>2, Begins
  <2>4. s[1] = bl
    BY <2>1, <2>3
  <2> QED BY <2>4 DEF bl
<1>26. m = 0 => s # <<>> /\ SignOf(s) = sgn
  <2> SUFFICES ASSUME m = 0 PROVE s = x3
    BY <1>18
  <2> DEFINE yy == Copies(" ", m)
  <2>1. yy = <<>>
    BY CopiesHere
  <2>2. s = yy \o x3
    BY <1>12
  <2> HIDE DEF yy
  <2> QED BY <1>9, <2>1, <2>2, JoinedToNothing
<1> QED BY <1>7, <1>18, <1>19, <1>20, <1>23, <1>24, <1>25, <1>26

LEMMA StrtoulReads ==
  ASSUME NEW base \in Bases, NEW s, NEW v \in 0 .. Word - 1, NEW m \in Nat, NEW sgn \in Signs,
         Written(s, base, v, m, sgn)
  PROVE  strtoul(s, base) = IF sgn = <<"-">> THEN Negated(v) ELSE v
<1> DEFINE t == After(s, {" "})
           xx == Unsigned(t)
<1>1. SignOf(t) = sgn /\ Base(xx, base) = base /\ Spells(Digits(xx, base), base, v)
  BY PartsRead
<1>2. Word \in Nat /\ Word >= 2 /\ Word - 1 \in Nat
  BY WordIs
<1> HIDE DEF xx, t
<1>3. Accumulated(Digits(xx, base), Word - 1, base) = Capped(v, Word - 1)
  <2> DEFINE limit == Word - 1
             u == Digits(xx, base)
  <2>1. limit \in Nat /\ Spells(u, base, v)
    BY <1>1, <1>2
  <2> HIDE DEF limit, u
  <2>2. Accumulated(u, limit, base) = Capped(v, limit)
    BY <2>1, AccumulatedIs
  <2> QED BY <2>2 DEF limit, u
<1>4. Capped(v, Word - 1) = v /\ v # Overflow
  BY <1>2 DEF Capped, Overflow
<1>5. Accumulated(Digits(xx, base), Word - 1, Base(xx, base)) = v
  BY <1>1, <1>3, <1>4
<1>6. strtoul(s, base) = IF v = Overflow THEN Word - 1
                         ELSE IF SignOf(t) = <<"-">> THEN Negated(v) ELSE v
  BY <1>5 DEF strtoul, xx, t
<1> QED BY <1>1, <1>4, <1>6

LEMMA StrtolReads ==
  ASSUME NEW base \in Bases, NEW s, NEW v \in 0 .. Word - 1, NEW m \in Nat, NEW sgn \in Signs,
         Written(s, base, v, m, sgn)
  PROVE  strtol(s, base) =
           IF sgn = <<"-">> THEN Negated(IF v <= LONG_MAX + 1 THEN v ELSE LONG_MAX + 1)
           ELSE IF v <= LONG_MAX THEN v ELSE LONG_MAX
<1> DEFINE t == After(s, {" "})
           xx == Unsigned(t)
           limit == IF sgn = <<"-">> THEN LONG_MAX + 1 ELSE LONG_MAX
           u == Digits(xx, base)
           acc == Accumulated(u, limit, base)
<1>1. SignOf(t) = sgn /\ Base(xx, base) = base /\ Spells(u, base, v)
  BY PartsRead
<1>2. LONG_MAX \in Nat /\ limit \in Nat /\ v \in Nat
  BY WordIs
<1> HIDE DEF xx, t, u, limit
<1>3. acc = Capped(v, limit)
  BY <1>1, <1>2, AccumulatedIs
<1>4. strtol(s, base) = IF sgn = <<"-">> THEN Negated(IF acc = Overflow THEN limit ELSE acc)
                        ELSE IF acc = Overflow THEN limit ELSE acc
  <2>1. strtol(s, base) =
          LET neg == SignOf(t) = <<"-">>
              most == IF neg THEN LONG_MAX + 1 ELSE LONG_MAX
              sum == Accumulated(Digits(xx, base), most, Base(xx, base))
              value == IF sum = Overflow THEN most ELSE sum
          IN  IF neg THEN Negated(value) ELSE value
    BY DEF strtol, xx, t
  <2>2. CASE sgn = <<"-">>
    <3>1. limit = LONG_MAX + 1
      BY <2>2 DEF limit
    <3>2. SignOf(t) = <<"-">> /\ Accumulated(Digits(xx, base), LONG_MAX + 1, Base(xx, base)) = acc
      BY <1>1, <2>2, <3>1 DEF u
    <3> HIDE DEF acc
    <3>3. strtol(s, base) = Negated(IF acc = Overflow THEN LONG_MAX + 1 ELSE acc)
      BY <2>1, <3>2
    <3> QED BY <2>2, <3>1, <3>3
  <2>3. CASE sgn # <<"-">>
    BY <1>1, <2>1, <2>3, Zenon DEF limit, u
  <2> QED BY <2>2, <2>3
<1> HIDE DEF acc
<1>5. (IF acc = Overflow THEN limit ELSE acc) = IF v <= limit THEN v ELSE limit
  BY <1>2, <1>3 DEF Capped, Overflow
<1> QED BY <1>4, <1>5 DEF limit

LEMMA StrtoiReads ==
  ASSUME NEW s, NEW v \in 0 .. Word - 1, NEW sgn \in Signs, Written(s, 10, v, 0, sgn)
  PROVE  strtoi(s, 10) =
           LET value == IF Negative(v) THEN LONG_MAX ELSE v
           IN  IF sgn = <<"-">> THEN Negated(value) ELSE value
<1>1. PICK pre \in HexMarks, j \in Nat, n \in Nat, w \in Texts :
        /\ s = Text(0, sgn, pre, j, w, n)
        /\ pre # <<>> => 10 = 16
        /\ Spells(w, 10, v)
        /\ IF w = <<>> THEN j # 0 ELSE w[1] # "0"
  BY DEF Written
<1> DEFINE z == Copies("0", j)
           b == Copies(" ", n)
           x0 == w \o b
           x1 == z \o x0
           x3 == sgn \o x1
<1>2. 10 \in Bases /\ {" ", "-", "+", "x", "X", "0"} \subseteq Glyphs
      /\ \A ch \in DOMAIN DigitOf : ch \notin {" ", "-", "+", "x", "X"}
  BY PartsTyped, DigitIs DEF Marks, Bases
<1>3. /\ sgn \in Texts
      /\ sgn # <<>> => Len(sgn) = 1 /\ sgn[1] \in {"-", "+"} /\ sgn = <<sgn[1]>>
  BY PartsTyped
<1>4. z \in Texts /\ Len(z) = j /\ (\A i \in 1 .. j : z[i] = "0") /\ (j # 0 => z # <<>>)
  BY CopiesHere
<1>5. b \in Texts /\ Len(b) = n /\ \A i \in 1 .. n : b[i] = " "
  BY CopiesHere
<1>6. /\ w \in Texts /\ Len(w) \in Nat
      /\ \A i \in 1 .. Len(w) : w[i] \in DOMAIN DigitOf /\ DigitOf[w[i]] \in 0 .. 9
  <2>1. 10 - 1 = 9
    OBVIOUS
  <2>2. /\ w \in Seq(Glyphs) /\ Len(w) \in Nat
        /\ \A i \in 1 .. Len(w) : w[i] \in DOMAIN DigitOf /\ DigitOf[w[i]] \in 0 .. 10 - 1
    BY <1>1, <1>2, FiguresAre
  <2> QED BY <2>1, <2>2 DEF Texts
<1>7. s = x3
  <2>1. pre = <<>> /\ Copies(" ", 0) = <<>>
    <3>1. pre = <<>>
      BY <1>1
    <3>2. Copies(" ", 0) = <<>>
      BY CopiesHere
    <3> QED BY <3>1, <3>2
  <2>2. x0 \in Texts
    BY <1>5, Joined
  <2> HIDE DEF x0
  <2>3. x1 \in Texts
    BY <1>4, <2>2, Joined
  <2> HIDE DEF x1
  <2>4. x3 \in Texts /\ <<>> \o x1 = x1
    BY <1>3, <2>3, Joined, JoinedToNothing
  <2>5. s = Copies(" ", 0) \o (sgn \o (pre \o x1))
    BY <1>1 DEF Text, x1, x0
  <2>6. s = <<>> \o x3
    BY <2>1, <2>4, <2>5
  <2> HIDE DEF x3
  <2> QED BY <2>4, <2>6, JoinedToNothing
<1> HIDE DEF z, b
<1>8. x0 \in Texts /\ x1 \in Texts
  <2>1. x0 \in Texts
    BY <1>5, Joined
  <2> HIDE DEF x0
  <2> QED BY <1>4, <2>1, Joined
<1>9. /\ Len(x0) = Len(w) + Len(b) /\ DOMAIN x0 = 1 .. Len(x0)
      /\ \A i \in 1 .. Len(w) : x0[i] = w[i]
      /\ \A i \in 1 .. Len(b) : x0[Len(w) + i] = b[i]
  <2>1. DOMAIN x0 = 1 .. Len(x0)
    <3> HIDE DEF x0
    <3> QED BY <1>8 DEF Texts
  <2> QED BY <1>5, <2>1, Joined
<1>10. x0 = <<>> \/ x0[1] # "0"
  <2>1. CASE w # <<>>
    <3>1. x0[1] = w[1]
      BY <1>5, <2>1, Begins
    <3> QED BY <1>1, <2>1, <3>1
  <2>2. CASE w = <<>>
    <3>1. x0 = b
      BY <1>5, <2>2, JoinedToNothing
    <3>0. b \in Seq(Glyphs) /\ Len(b) = n
      BY <1>5 DEF Texts
    <3>2. Len(b) # 0 => b[1] = " "
      <4>1. n # 0 => 1 \in 1 .. n
        OBVIOUS
      <4> QED BY <1>5, <3>0, <4>1
    <3>3. b # <<>> => Len(b) # 0
      <4> HIDE DEF x0
      <4> QED BY <3>0
    <3> QED BY <3>1, <3>2, <3>3
  <2> QED BY <2>1, <2>2
<1>11. After(x1, {"0"}) = x0
  BY <1>2, <1>8, <1>10, AfterIs DEF z
<1>12. SignOf(x3) = sgn
  <2>1. CASE sgn = <<>>
    <3>1. x3 = x1
      BY <1>8, <2>1, JoinedToNothing
    <3>2. x1[1] \in DOMAIN DigitOf
      <4>1. CASE j # 0
        <5>1. x1[1] = z[1] /\ 1 \in 1 .. j
          BY <1>4, <1>8, <4>1, Begins
        <5>2. "0" \in DOMAIN DigitOf
          BY DigitIs
        <5> QED BY <1>4, <5>1, <5>2
      <4>2. CASE j = 0
        <5>1. w # <<>>
          BY <1>1, <4>2
        <5>2. z = <<>>
          BY <4>2, CopiesHere DEF z
        <5>3. x1 = x0
          <6> HIDE DEF x0
          <6> QED BY <1>8, <5>2, JoinedToNothing
        <5>4. x0[1] = w[1]
          BY <1>5, <5>1, Begins
        <5>5. Len(w) # 0
          BY <1>6, <5>1 DEF Texts
        <5>6. 1 \in 1 .. Len(w)
          BY <1>6, <5>5
        <5> QED BY <1>6, <5>3, <5>4, <5>6
      <4> QED BY <4>1, <4>2
    <3>3. x1[1] \notin {"-", "+"}
      BY <1>2, <3>2
    <3> HIDE DEF x1
    <3> QED BY <2>1, <3>1, <3>3 DEF SignOf
  <2>2. CASE sgn # <<>>
    <3>1. x3 # <<>> /\ x3[1] = sgn[1]
      <4> HIDE DEF x1
      <4> QED BY <1>3, <1>8, <2>2, Begins
    <3>2. sgn[1] \in {"-", "+"} /\ sgn = <<sgn[1]>>
      BY <1>3, <2>2
    <3> HIDE DEF x3
    <3>3. SignOf(x3) = <<x3[1]>>
      BY <3>1, <3>2 DEF SignOf
    <3> QED BY <3>1, <3>2, <3>3
  <2> QED BY <2>1, <2>2
<1>13. Unsigned(x3) = x1
  <2>1. SubSeq(x3, Len(sgn) + 1, Len(x3)) = x1
    <3> HIDE DEF x1
    <3> QED BY <1>3, <1>8, BehindIs
  <2> HIDE DEF x3
  <2> QED BY <1>12, <2>1 DEF Unsigned
<1> HIDE DEF x3, x1
<1> DEFINE ends == {i \in DOMAIN x0 : \A d \in 1 .. 10 : x0[i] # Upper[d]}
<1>14. SubSeq(x0, 1, Min(ends \cup {Len(x0) + 1}) - 1) = w
  <2>1. \A i \in 1 .. Len(w) : i \notin ends
    <3> TAKE i \in 1 .. Len(w)
    <3> DEFINE d == DigitOf[w[i]]
    <3>1. w[i] \in DOMAIN DigitOf /\ d \in 0 .. 9
      BY <1>6
    <3>2. w[i] \in {Upper[d + 1], Lower[d + 1]} /\ Upper[d + 1] = Lower[d + 1]
      BY <3>1, DigitIs
    <3>3. x0[i] = w[i]
      BY <1>9
    <3> HIDE DEF d
    <3>4. d + 1 \in 1 .. 10 /\ x0[i] = Upper[d + 1]
      BY <3>1, <3>2, <3>3
    <3> QED BY <3>4
  <2>2. b # <<>> => Len(w) + 1 \in ends
    <3> SUFFICES ASSUME b # <<>> PROVE Len(w) + 1 \in ends
      OBVIOUS
    <3>0. b \in Seq(Glyphs) /\ Len(b) = n
      BY <1>5 DEF Texts
    <3>1. Len(b) # 0
      <4> HIDE DEF ends
      <4> QED BY <3>0
    <3>2. 1 \in 1 .. Len(b) /\ 1 \in 1 .. n /\ Len(w) + 1 \in 1 .. Len(x0)
      <4>1. Len(b) = n /\ Len(w) \in Nat /\ Len(x0) = Len(w) + Len(b)
        BY <1>5, <1>6, <1>9
      <4> HIDE DEF ends
      <4> QED BY <3>1, <4>1
    <3>3. x0[Len(w) + 1] = " "
      BY <1>5, <1>9, <3>2
    <3>4. \A d \in 1 .. 10 : Upper[d] # " "
      <4> TAKE d \in 1 .. 10
      <4>1. d - 1 \in 0 .. 15 /\ (d - 1) + 1 = d
        OBVIOUS
      <4>2. Upper[(d - 1) + 1] \in DOMAIN DigitOf
        BY <4>1, DigitIs
      <4> QED BY <1>2, <4>1, <4>2
    <3>5. Len(w) + 1 \in DOMAIN x0
      BY <1>9, <3>2
    <3> QED BY <3>3, <3>4, <3>5
  <2>3. ends \in SUBSET DOMAIN (w \o b)
    OBVIOUS
  <2> HIDE DEF ends
  <2>4. SubSeq(w \o b, 1, Min(ends \cup {Len(w \o b) + 1}) - 1) = w
    BY <1>5, <1>6, <2>1, <2>2, <2>3, UpToIs
  <2> QED BY <2>4
<1>15. /\ SumOf(w, 10)[Len(w)] = v
       /\ (\E i \in DOMAIN w : Signed(SumOf(w, 10)[i - 1]) > Signed(SumOf(w, 10)[i]))
            <=> Negative(v)
  <2>1. v < Word
    BY WordIs
  <2> QED BY <1>1, <1>2, <2>1, SumIs
<1>16. After(Unsigned(s), {"0"}) = x0 /\ SignOf(s) = sgn
  BY <1>7, <1>11, <1>12, <1>13
<1> HIDE DEF x0
<1>17. strtoi(s, 10) =
         LET value == IF \E i \in DOMAIN w : Signed(SumOf(w, 10)[i - 1]) > Signed(SumOf(w, 10)[i])
                      THEN LONG_MAX ELSE SumOf(w, 10)[Len(w)]
         IN  IF sgn = <<"-">> THEN Negated(value) ELSE value
  <2>1. strtoi(s, 10) =
          LET t == After(Unsigned(s), {"0"})
              ends1 == {i \in DOMAIN t : \A d \in 1 .. 10 : t[i] # Upper[d]}
              digits == SubSeq(t, 1, Min(ends1 \cup {Len(t) + 1}) - 1)
              overflow == \E i \in DOMAIN digits :
                            Signed(SumOf(digits, 10)[i - 1]) > Signed(SumOf(digits, 10)[i])
              value == IF overflow THEN LONG_MAX ELSE SumOf(digits, 10)[Len(digits)]
          IN  IF SignOf(s) = <<"-">> THEN Negated(value) ELSE value
    BY DEF strtoi, SumOf
  <2> QED BY <1>14, <1>16, <2>1
<1> QED BY <1>15, <1>17

-----------------------------------------------------------------------------
(* What number and ucvt write is such a text.                              *)
Cat(s, t) == s \o t

LEMMA CatIs ==
  /\ \A s, t \in Texts : Cat(s, t) \in Texts
  /\ \A s, t, u \in Texts : Cat(Cat(s, t), u) = Cat(s, Cat(t, u))
<1>1. ASSUME NEW s \in Texts, NEW t \in Texts PROVE Cat(s, t) \in Texts
  BY Joined DEF Cat
<1>2. ASSUME NEW s \in Texts, NEW t \in Texts, NEW u \in Texts
      PROVE  Cat(Cat(s, t), u) = Cat(s, Cat(t, u))
  BY JoinedInTurn DEF Cat
<1> QED BY <1>1, <1>2

LEMMA CopiesMore ==
  ASSUME NEW ch \in Glyphs, NEW m \in Nat, NEW n \in Nat, NEW l, l = m + n, NEW R \in Texts
  PROVE  Cat(Copies(ch, m), Cat(Copies(ch, n), R)) = Cat(Copies(ch, l), R)
<1>1. Copies(ch, m) \in Texts /\ Copies(ch, n) \in Texts
  BY CopiesTaken
<1>2. Cat(Cat(Copies(ch, m), Copies(ch, n)), R) = Cat(Copies(ch, m), Cat(Copies(ch, n), R))
  BY <1>1, CatIs
<1>3. Cat(Copies(ch, m), Copies(ch, n)) = Copies(ch, m + n)
  BY CopiesJoined DEF Cat
<1> QED BY <1>2, <1>3

FrontOf(b, sgn, pre, o) == (Copies(" ", b) \o sgn) \o (pre \o Copies("0", o))
Filled(a, F, k, B, n) == ((Copies(" ", a) \o (F \o Copies("0", k))) \o B) \o Copies(" ", n)

InOne(a, b, o, k, z, n, sgn, pre, w) ==
  Filled(a, FrontOf(b, sgn, pre, o), k, Cat(Copies("0", z), w), n)
    = Text(a + b, sgn, pre, o + (k + z), w, n)

LEMMA TextJoined ==
  ASSUME NEW a \in Nat, NEW b \in Nat, NEW o \in Nat, NEW k \in Nat, NEW z \in Nat, NEW n \in Nat,
         NEW sgn \in Texts, NEW pre \in Texts, NEW w \in Texts
  PROVE  InOne(a, b, o, k, z, n, sgn, pre, w)
<1> DEFINE ab == a + b
           okz == o + (k + z)
<1>12. ab \in Nat /\ ab = a + b /\ okz \in Nat /\ okz = o + (k + z)
  OBVIOUS
<1> HIDE DEF ab, okz
<1> DEFINE bl == " "
           A == Copies(bl, a)
           B == Copies(bl, b)
           O == Copies("0", o)
           K == Copies("0", k)
           Z == Copies("0", z)
           N == Copies(bl, n)
           F == Cat(Cat(B, sgn), Cat(pre, O))
           r0 == Cat(w, N)
           r1 == Cat(K, Cat(Z, r0))
           r2 == Cat(sgn, Cat(pre, Cat(O, r1)))
           kz == k + z
<1>1. A \in Texts /\ B \in Texts /\ O \in Texts /\ K \in Texts /\ Z \in Texts /\ N \in Texts
  BY CopiesHere
<1>0. bl \in Glyphs
  BY PartsTyped
<1> HIDE DEF bl
<1>2. /\ bl \in Glyphs /\ "0" \in Glyphs /\ kz \in Nat /\ kz = k + z
      /\ okz \in Nat /\ okz = o + kz /\ ab \in Nat /\ ab = a + b
  <2>1. "0" \in Glyphs
    BY PartsTyped
  <2> QED BY <1>0, <1>12, <2>1
<1>3. r0 \in Texts
  <2> HIDE DEF N
  <2> QED BY <1>1, CatIs
<1>4. r1 \in Texts
  <2> HIDE DEF K, Z, r0
  <2> QED BY <1>1, <1>3, CatIs
<1>5. r2 \in Texts
  <2> HIDE DEF O, r1
  <2> QED BY <1>1, <1>4, CatIs
<1>6. Cat(Cat(Cat(A, Cat(F, K)), Cat(Z, w)), N) = Cat(A, Cat(B, r2))
  <2> HIDE DEF A, B, O, K, Z, N
  <2>1. Cat(F, r1) = Cat(B, r2) /\ F \in Texts
    <3> HIDE DEF r1
    <3> DEFINE p == Cat(B, sgn)
               q == Cat(pre, O)
               s == Cat(O, r1)
               t == Cat(pre, s)
    <3>1. p \in Texts /\ q \in Texts /\ s \in Texts
      BY <1>1, <1>4, CatIs
    <3>2. Cat(q, r1) = t
      BY <1>1, <1>4, CatIs
    <3>3. t \in Texts
      <4> HIDE DEF s
      <4> QED BY <3>1, CatIs
    <3>4. Cat(p, t) = Cat(B, Cat(sgn, t))
      <4> HIDE DEF t
      <4> QED BY <1>1, <3>3, CatIs
    <3>5. Cat(Cat(p, q), r1) = Cat(p, Cat(q, r1)) /\ Cat(p, q) \in Texts
      <4> HIDE DEF p, q
      <4> QED BY <1>4, <3>1, CatIs
    <3> QED BY <3>2, <3>4, <3>5
  <2> HIDE DEF F
  <2>2. Cat(Cat(Cat(A, Cat(F, K)), Cat(Z, w)), N) = Cat(A, Cat(F, r1))
    <3> DEFINE p == Cat(F, K)
               q == Cat(Z, w)
               s == Cat(A, p)
               t == Cat(q, N)
    <3>1. p \in Texts /\ q \in Texts
      BY <1>1, <2>1, CatIs
    <3>2. t = Cat(Z, r0)
      BY <1>1, CatIs
    <3>3. t \in Texts /\ s \in Texts
      <4> HIDE DEF p, q
      <4> QED BY <1>1, <3>1, CatIs
    <3>4. Cat(s, t) = Cat(A, Cat(p, t))
      <4> HIDE DEF p, t
      <4> QED BY <1>1, <3>1, <3>3, CatIs
    <3>5. Cat(Cat(s, q), N) = Cat(s, t)
      <4> HIDE DEF s, q
      <4> QED BY <1>1, <3>1, <3>3, CatIs
    <3>6. Cat(p, t) = Cat(F, Cat(K, t))
      <4> HIDE DEF t
      <4> QED BY <1>1, <2>1, <3>3, CatIs
    <3>7. Cat(K, t) = r1
      BY <3>2
    <3> HIDE DEF t, r1
    <3> QED BY <3>4, <3>5, <3>6, <3>7
  <2> QED BY <2>1, <2>2
<1>7. r1 = Cat(Copies("0", kz), r0)
  <2> HIDE DEF r0, kz
  <2> QED BY <1>2, <1>3, CopiesMore
<1>8. Cat(O, Cat(Copies("0", kz), r0)) = Cat(Copies("0", okz), r0)
  <2> HIDE DEF r0, kz
  <2> QED BY <1>2, <1>3, CopiesMore
<1>9. Cat(A, Cat(B, r2)) = Cat(Copies(bl, ab), r2)
  <2> HIDE DEF r2
  <2> QED BY <1>2, <1>5, CopiesMore
<1> HIDE DEF r1
<1>10. r2 = Cat(sgn, Cat(pre, Cat(Copies("0", okz), r0)))
  BY <1>7, <1>8
<1> HIDE DEF r2
<1>11. Cat(Cat(Cat(A, Cat(F, K)), Cat(Z, w)), N)
         = Cat(Copies(bl, ab), Cat(sgn, Cat(pre, Cat(Copies("0", okz), r0))))
  BY <1>6, <1>9, <1>10
<1>13. Filled(a, FrontOf(b, sgn, pre, o), k, Cat(Copies("0", z), w), n)
         = Text(ab, sgn, pre, okz, w, n)
  BY <1>11, Zenon DEF Cat, Text, bl, Filled, FrontOf
<1> QED BY <1>13 DEF ab, okz, InOne

(* The digits, but for the 0 that 0 is written as.                         *)
Parted(u, base, v) ==
  \E z \in Nat, w \in Texts :
    /\ u = Copies("0", z) \o w /\ Spells(w, base, v)
    /\ IF w = <<>> THEN z # 0 ELSE w[1] # "0"

LEMMA DigitsParted ==
  ASSUME NEW base \in Bases, NEW v \in Nat, NEW tmp, Digital(tmp, v, base)
  PROVE  /\ tmp \in Texts /\ Len(tmp) \in Nat \ {0}
         /\ Parted(tmp, base, v)
<1>1. tmp \in Texts /\ Len(tmp) \in Nat \ {0} /\ Spells(tmp, base, v)
  BY DEF Digital, Spells, Texts
<1>2. CASE v = 0
  <2>1. tmp = <<"0">>
    BY <1>2 DEF Digital
  <2>2. Copies("0", 1) = <<"0">>
    <3> DEFINE s == Copies("0", 1)
               t == <<"0">>
    <3>1. s \in Texts /\ Len(s) = 1 /\ \A i \in 1 .. 1 : s[i] = "0"
      BY CopiesHere
    <3>2. t \in Texts /\ Len(t) = 1 /\ t[1] = "0"
      BY <1>1, <2>1
    <3> HIDE DEF s, t
    <3>3. \A i \in 1 .. Len(s) : s[i] = t[i]
      BY <3>1, <3>2
    <3>4. s = t
      BY <3>1, <3>2, <3>3, SameText
    <3> QED BY <3>4 DEF s, t
  <2>3. tmp = Copies("0", 1) \o <<>> /\ <<>> \in Texts
    BY <1>1, <2>1, <2>2, JoinedToNothing
  <2>4. Spells(<<>>, base, v)
    BY <1>2, SpellsNothing
  <2> DEFINE w == <<>>
  <2>5. w \in Texts /\ tmp = Copies("0", 1) \o w /\ Spells(w, base, v) /\ w = <<>>
    BY <2>3, <2>4
  <2> HIDE DEF w
  <2>6. 1 \in Nat /\ 1 # 0
    OBVIOUS
  <2> QED BY <1>1, <2>5, <2>6 DEF Parted
<1>3. CASE v # 0
  <2>1. tmp[1] # "0"
    BY <1>3 DEF Digital
  <2>2. tmp # <<>>
    BY <1>1
  <2>3. tmp = Copies("0", 0) \o tmp
    <3>1. Copies("0", 0) = <<>>
      BY CopiesHere
    <3> QED BY <1>1, <3>1, JoinedToNothing
  <2> QED BY <1>1, <2>1, <2>2, <2>3 DEF Parted
<1> QED BY <1>2, <1>3

LEMMA Clipped ==
  ASSUME NEW ch, NEW n \in Int
  PROVE  Copies(ch, n) = Copies(ch, IF n >= 0 THEN n ELSE 0)
<1> DEFINE k == IF n >= 0 THEN n ELSE 0
<1>1. k \in Int /\ k >= 0 /\ Max({n, 0}) = k
  BY MaxOf
<1> HIDE DEF k
<1>2. Max({k, 0}) = k
  BY <1>1, MaxOf
<1>3. Copies(ch, n) = Copies(ch, k)
  BY <1>1, <1>2 DEF Copies
<1> QED BY <1>3 DEF k

LEMMA OneCopy ==
  ASSUME NEW ch \in Glyphs
  PROVE  Copies(ch, 1) = <<ch>>
<1> DEFINE s == Copies(ch, 1)
           t == <<ch>>
<1>1. s \in Texts /\ Len(s) = 1 /\ \A i \in 1 .. 1 : s[i] = ch
  BY CopiesTaken
<1>2. t \in Texts /\ Len(t) = 1 /\ t[1] = ch
  BY DEF Texts
<1> HIDE DEF s, t
<1>3. \A i \in 1 .. Len(s) : s[i] = t[i]
  BY <1>1, <1>2
<1>4. s = t
  BY <1>1, <1>2, <1>3, SameText
<1> QED BY <1>4 DEF s, t

Formed(a, b, k, n, sgn, base, v, F, B, s) ==
  /\ Written(s, base, v, a + b, sgn)
  /\ Len(F) \in Nat /\ Len(B) \in Nat
  /\ Len(s) = a + Len(F) + k + Len(B) + n

LEMMA FormIs ==
  ASSUME NEW a \in Nat, NEW b \in Nat, NEW o \in Nat, NEW k \in Nat, NEW z \in Nat, NEW n \in Nat,
         NEW sgn \in Signs, NEW pre \in HexMarks, NEW w \in Texts, NEW base \in Bases, NEW v,
         pre # <<>> => base = 16, Spells(w, base, v), IF w = <<>> THEN z # 0 ELSE w[1] # "0",
         NEW F, F = FrontOf(b, sgn, pre, o),
         NEW B, B = Copies("0", z) \o w,
         NEW s, s = Filled(a, F, k, B, n)
  PROVE  Formed(a, b, k, n, sgn, base, v, F, B, s)
<1>1. sgn \in Texts /\ pre \in Texts
  BY PartsTyped
<1>2. s = Text(a + b, sgn, pre, o + (k + z), w, n)
  <2> DEFINE C == Cat(Copies("0", z), w)
  <2>0. InOne(a, b, o, k, z, n, sgn, pre, w)
    BY <1>1, TextJoined
  <2>1. Filled(a, FrontOf(b, sgn, pre, o), k, C, n) = Text(a + b, sgn, pre, o + (k + z), w, n)
    BY <2>0 DEF InOne
  <2>2. B = C
    BY DEF Cat
  <2> HIDE DEF C
  <2> QED BY <2>1, <2>2
<1>3. Written(s, base, v, a + b, sgn)
  <2> DEFINE j == o + (k + z)
             ab == a + b
  <2>1. j \in Nat /\ ab \in Nat /\ (z # 0 => j # 0)
    OBVIOUS
  <2>2. s = Text(ab, sgn, pre, j, w, n)
    BY <1>2
  <2> HIDE DEF j, ab
  <2>3. IF w = <<>> THEN j # 0 ELSE w[1] # "0"
    BY <2>1
  <2>4. Written(s, base, v, ab, sgn)
    BY <2>1, <2>2, <2>3 DEF Written
  <2> QED BY <2>4 DEF ab
<1> DEFINE bl == " "
           A == Copies(bl, a)
           K == Copies("0", k)
           N == Copies(bl, n)
           b1 == Copies(bl, b)
           b2 == Copies("0", o)
           b3 == Copies("0", z)
<1>4. /\ A \in Texts /\ Len(A) = a /\ K \in Texts /\ Len(K) = k
      /\ N \in Texts /\ Len(N) = n /\ b1 \in Texts /\ b2 \in Texts /\ b3 \in Texts
  BY CopiesHere
<1>5. /\ F = (b1 \o sgn) \o (pre \o b2) /\ B = b3 \o w
      /\ s = ((A \o (F \o K)) \o B) \o N
  BY Zenon DEF Filled, FrontOf
<1> HIDE DEF bl, A, K, N, b1, b2, b3
<1>6. F \in Texts /\ B \in Texts /\ Len(F) \in Nat /\ Len(B) \in Nat
  <2>1. b1 \o sgn \in Texts /\ pre \o b2 \in Texts /\ b3 \o w \in Texts
    BY <1>1, <1>4, Joined
  <2>2. F \in Texts /\ B \in Texts
    BY <1>5, <2>1, Joined
  <2> QED BY <2>2, Joined
<1> DEFINE xx == F \o K
           yy == A \o xx
           h == yy \o B
<1>7. xx \in Texts /\ Len(xx) = Len(F) + k
  BY <1>4, <1>6, Joined
<1>8. yy \in Texts /\ Len(yy) = a + Len(xx)
  <2> HIDE DEF xx
  <2> QED BY <1>4, <1>7, Joined
<1>9. h \in Texts /\ Len(h) = Len(yy) + Len(B)
  <2> HIDE DEF yy
  <2> QED BY <1>6, <1>8, Joined
<1>10. Len(s) = Len(h) + n
  <2>1. s = h \o N
    BY <1>5
  <2> HIDE DEF h
  <2>2. Len(h \o N) = Len(h) + Len(N)
    BY <1>4, <1>9, Joined
  <2> QED BY <1>4, <2>1, <2>2
<1>11. Len(s) = a + Len(F) + k + Len(B) + n
  <2> HIDE DEF xx, yy, h
  <2> QED BY <1>6, <1>7, <1>8, <1>9, <1>10
<1> QED BY <1>3, <1>6, <1>11 DEF Formed

LEMMA FilledIs ==
  ASSUME NEW F \in Texts, NEW B \in Texts, NEW p \in Nat
  PROVE  /\ Filled(0, F, 0, B, p) = (F \o B) \o Copies(" ", p)
         /\ Filled(0, F, p, B, 0) = (F \o Copies("0", p)) \o B
         /\ Filled(p, F, 0, B, 0) = (Copies(" ", p) \o F) \o B
<1> DEFINE bl == " "
           e == Copies(bl, 0)
           o == Copies("0", 0)
           A == Copies(bl, p)
           K == Copies("0", p)
<1>1. e = <<>> /\ o = <<>> /\ A \in Texts /\ K \in Texts
  BY CopiesHere
<1>2. /\ Filled(0, F, 0, B, p) = ((e \o (F \o o)) \o B) \o A
      /\ Filled(0, F, p, B, 0) = ((e \o (F \o K)) \o B) \o e
      /\ Filled(p, F, 0, B, 0) = ((A \o (F \o o)) \o B) \o e
  BY Zenon DEF Filled
<1> HIDE DEF e, o, A, K, bl
<1>3. F \o o = F /\ e \o F = F
  BY <1>1, JoinedToNothing
<1>4. F \o K \in Texts /\ A \o F \in Texts
  BY <1>1, Joined
<1>5. e \o (F \o K) = F \o K
  <2> DEFINE xx == F \o K
  <2> HIDE DEF xx
  <2>1. xx \in Texts => <<>> \o xx = xx
    BY JoinedToNothing
  <2>2. xx \in Texts
    BY <1>4 DEF xx
  <2> QED BY <1>1, <2>1, <2>2 DEF xx
<1>6. ((F \o K) \o B) \o e = (F \o K) \o B
  <2> DEFINE yy == F \o K
             xx == yy \o B
  <2>1. yy \in Texts
    BY <1>4
  <2> HIDE DEF yy
  <2>2. xx \in Texts
    BY <2>1, Joined
  <2> HIDE DEF xx
  <2>3. xx \o <<>> = xx
    BY <2>2, JoinedToNothing
  <2> QED BY <1>1, <2>3 DEF xx, yy
<1>7. ((A \o F) \o B) \o e = (A \o F) \o B
  <2> DEFINE yy == A \o F
             xx == yy \o B
  <2>1. yy \in Texts
    BY <1>4
  <2> HIDE DEF yy
  <2>2. xx \in Texts
    BY <2>1, Joined
  <2> HIDE DEF xx
  <2>3. xx \o <<>> = xx
    BY <2>2, JoinedToNothing
  <2> QED BY <1>1, <2>3 DEF xx, yy
<1>8. /\ Filled(0, F, 0, B, p) = (F \o B) \o A
      /\ Filled(0, F, p, B, 0) = (F \o K) \o B
      /\ Filled(p, F, 0, B, 0) = (A \o F) \o B
  BY <1>2, <1>3, <1>5, <1>6, <1>7, Zenon
<1> QED BY <1>8 DEF A, K, bl

Marked(v, type) == "SIGN" \in type /\ Negative(v)
SignForm(F, b, sgn, v, type) ==
  /\ F = Copies(" ", b) \o sgn
  /\ sgn = <<"-">> <=> Marked(v, type)
  /\ sgn = <<"+">> => "PLUS" \in type
  /\ b + Len(sgn) = IF Marked(v, type) \/ type \cap {"PLUS", "SPACE"} # {} THEN 1 ELSE 0

LEMMA SignIs ==
  ASSUME NEW v, NEW type
  PROVE  \E b \in {0, 1}, sgn \in Signs : SignForm(Sign(v, type), b, sgn, v, type)
<1> DEFINE bl == " "
           e == Copies(bl, 0)
           one == Copies(bl, 1)
           F == Sign(v, type)
<1>0. bl \in Glyphs
  BY PartsTyped
<1>1. F = IF Marked(v, type) THEN <<"-">>
          ELSE IF "PLUS" \in type THEN <<"+">>
          ELSE IF "SPACE" \in type THEN <<bl>> ELSE <<>>
  BY Zenon DEF Sign, Marked
<1>2. \A b, sgn : SignForm(F, b, sgn, v, type) <=>
        /\ F = Copies(bl, b) \o sgn
        /\ sgn = <<"-">> <=> Marked(v, type)
        /\ sgn = <<"+">> => "PLUS" \in type
        /\ b + Len(sgn) = IF Marked(v, type) \/ type \cap {"PLUS", "SPACE"} # {} THEN 1 ELSE 0
  BY Zenon DEF SignForm
<1>3. e = <<>>
  BY CopiesHere
<1> HIDE DEF bl, F
<1>4. one = <<bl>>
  BY <1>0, OneCopy
<1>5. one \in Texts /\ \A s \in Signs : s \in Texts
  BY <1>0, PartsTyped, CopiesTaken
<1> HIDE DEF e, one
<1>6. /\ \A s \in Signs : e \o s = s
      /\ one \o <<>> = one
  BY <1>3, <1>5, JoinedToNothing
<1>7. <<"-">> \in Signs /\ <<"+">> \in Signs /\ <<>> \in Signs
  BY DEF Signs
<1>8. CASE Marked(v, type)
  <2> DEFINE g == <<"-">>
  <2>1. F = e \o g /\ g \in Signs /\ Len(g) = 1 /\ g # <<"+">>
    BY <1>1, <1>6, <1>7, <1>8
  <2>2. SignForm(F, 0, g, v, type)
    <3>1. g = <<"-">> /\ 0 + Len(g) = 1
      BY <2>1
    <3> HIDE DEF g
    <3> QED BY <1>2, <1>8, <2>1, <3>1 DEF e
  <2> HIDE DEF g
  <2> QED BY <2>1, <2>2 DEF F
<1>9. CASE ~Marked(v, type) /\ "PLUS" \in type
  <2> DEFINE g == <<"+">>
  <2>1. F = e \o g /\ g \in Signs /\ Len(g) = 1 /\ g # <<"-">>
    BY <1>1, <1>6, <1>7, <1>9
  <2>2. SignForm(F, 0, g, v, type)
    <3>1. g = <<"+">> /\ 0 + Len(g) = 1
      BY <2>1
    <3> HIDE DEF g
    <3> QED BY <1>2, <1>9, <2>1, <3>1 DEF e
  <2> HIDE DEF g
  <2> QED BY <2>1, <2>2 DEF F
<1>10. CASE ~Marked(v, type) /\ "PLUS" \notin type /\ "SPACE" \in type
  <2> DEFINE g == <<>>
  <2>1. F = one \o g /\ g \in Signs /\ Len(g) = 0 /\ g # <<"-">> /\ g # <<"+">>
    BY <1>1, <1>4, <1>6, <1>7, <1>10
  <2>2. SignForm(F, 1, g, v, type)
    <3>1. 1 + Len(g) = 1
      BY <2>1
    <3> HIDE DEF g
    <3> QED BY <1>2, <1>10, <2>1, <3>1 DEF one
  <2> HIDE DEF g
  <2> QED BY <2>1, <2>2 DEF F
<1>11. CASE ~Marked(v, type) /\ "PLUS" \notin type /\ "SPACE" \notin type
  <2> DEFINE g == <<>>
  <2>1. F = e \o g /\ g \in Signs /\ Len(g) = 0 /\ g # <<"-">> /\ g # <<"+">>
    BY <1>1, <1>6, <1>7, <1>11
  <2>2. SignForm(F, 0, g, v, type)
    <3>1. 0 + Len(g) = 0
      BY <2>1
    <3> HIDE DEF g
    <3> QED BY <1>2, <1>11, <2>1, <3>1 DEF e
  <2> HIDE DEF g
  <2> QED BY <2>1, <2>2 DEF F
<1> QED BY <1>8, <1>9, <1>10, <1>11

SpecialForm(F, pre, o, base, type) ==
  /\ F = pre \o Copies("0", o)
  /\ pre # <<>> => base = 16
  /\ Len(pre) + o = IF "SPECIAL" \notin type \/ base = 10 THEN 0 ELSE base \div 8

LEMMA SpecialIs ==
  ASSUME NEW base \in Bases, NEW type
  PROVE  \E pre \in HexMarks, o \in {0, 1} : SpecialForm(Special(base, type), pre, o, base, type)
<1> DEFINE e == Copies("0", 0)
           one == Copies("0", 1)
           F == Special(base, type)
<1>1. e = <<>> /\ one \in Texts
  BY CopiesHere
<1>2. one = <<"0">>
  BY PartsTyped, OneCopy
<1> HIDE DEF e, one
<1>3. /\ \A s \in HexMarks : s \in Texts /\ s \o e = s
      /\ <<>> \o one = one
  BY <1>1, PartsTyped, JoinedToNothing
<1>4. <<>> \in HexMarks /\ <<"0", "x">> \in HexMarks /\ <<"0", "X">> \in HexMarks
  BY DEF HexMarks
<1>5. CASE "SPECIAL" \notin type \/ base = 10
  <2> DEFINE g == <<>>
  <2>1. F = g \o e /\ g \in HexMarks /\ Len(g) + 0 = 0
    BY <1>3, <1>4, <1>5 DEF Special
  <2>2. SpecialForm(F, g, 0, base, type)
    BY <1>5, <2>1 DEF SpecialForm, e
  <2> HIDE DEF g, F
  <2> QED BY <2>1, <2>2 DEF F
<1>6. CASE "SPECIAL" \in type /\ base = 8
  <2> DEFINE g == <<>>
  <2>1. F = g \o one /\ g \in HexMarks /\ Len(g) + 1 = 1 /\ base \div 8 = 1
    BY <1>2, <1>3, <1>4, <1>6 DEF Special
  <2>2. SpecialForm(F, g, 1, base, type)
    BY <1>6, <2>1 DEF SpecialForm, one
  <2> HIDE DEF g, F
  <2> QED BY <2>1, <2>2 DEF F
<1>7. CASE "SPECIAL" \in type /\ base = 16
  <2> DEFINE g == <<"0", IF "SMALL" \in type THEN "x" ELSE "X">>
  <2>1. F = g /\ g \in HexMarks /\ Len(g) + 0 = 2 /\ base \div 8 = 2
    BY <1>4, <1>7 DEF Special
  <2>2. F = g \o e
    <3> HIDE DEF g
    <3> QED BY <1>3, <2>1
  <2>3. SpecialForm(F, g, 0, base, type)
    <3> HIDE DEF g, F
    <3> QED BY <1>7, <2>1, <2>2 DEF SpecialForm, e
  <2> HIDE DEF g, F
  <2> QED BY <2>1, <2>3 DEF F
<1> QED BY <1>5, <1>6, <1>7 DEF Bases

(* F in front of B, and padded to size.                                    *)
Laid(F, B, size, type) ==
  LET pad == size - Len(F) - Len(B)
  IN  IF "LEFT" \in type THEN (F \o B) \o Copies(" ", pad)
      ELSE IF "ZEROPAD" \in type THEN (F \o Copies("0", pad)) \o B
      ELSE (Copies(" ", pad) \o F) \o B

LaidOut(F, B, size, type) ==
  \E a \in Nat, k \in Nat, n \in Nat :
    /\ Laid(F, B, size, type) = Filled(a, F, k, B, n)
    /\ a + Len(F) + k + Len(B) + n = Max({size, Len(F) + Len(B)})

LEMMA LaidIs ==
  ASSUME NEW F \in Texts, NEW B \in Texts, NEW size \in Int, NEW type
  PROVE  LaidOut(F, B, size, type)
<1> DEFINE bl == " "
           f == Len(F)
           g == Len(B)
           pad == size - f - g
           p == IF pad >= 0 THEN pad ELSE 0
           A == Copies(bl, pad)
           K == Copies("0", pad)
           P == Copies(bl, p)
           Q == Copies("0", p)
<1>1. f \in Nat /\ g \in Nat
  BY DEF Texts
<1>2. Laid(F, B, size, type) = IF "LEFT" \in type THEN (F \o B) \o A
                               ELSE IF "ZEROPAD" \in type THEN (F \o K) \o B
                               ELSE (A \o F) \o B
  BY Zenon DEF Laid
<1>3. pad \in Int /\ p \in Nat
  BY <1>1
<1>4. /\ Filled(0, F, 0, B, p) = (F \o B) \o P
      /\ Filled(0, F, p, B, 0) = (F \o Q) \o B
      /\ Filled(p, F, 0, B, 0) = (P \o F) \o B
  <2> HIDE DEF p
  <2> QED BY <1>3, FilledIs
<1> HIDE DEF bl
<1>5. A = P /\ K = Q
  <2> HIDE DEF pad
  <2> QED BY <1>3, Clipped
<1> HIDE DEF f, g
<1>6. p + f + g = Max({size, f + g})
  <2>1. f + g \in Int
    BY <1>1
  <2>2. Max({size, f + g}) = IF size >= f + g THEN size ELSE f + g
    BY <2>1, MaxOf
  <2> QED BY <1>1, <2>2
<1> HIDE DEF pad, p, A, K, P, Q
<1>7. CASE "LEFT" \in type
  <2>1. Laid(F, B, size, type) = Filled(0, F, 0, B, p)
    BY <1>2, <1>4, <1>5, <1>7
  <2>2. 0 + f + 0 + g + p = Max({size, f + g})
    BY <1>1, <1>3, <1>6
  <2> QED BY <1>3, <2>1, <2>2 DEF f, g, LaidOut
<1>8. CASE "LEFT" \notin type /\ "ZEROPAD" \in type
  <2>1. Laid(F, B, size, type) = Filled(0, F, p, B, 0)
    BY <1>2, <1>4, <1>5, <1>8
  <2>2. 0 + f + p + g + 0 = Max({size, f + g})
    BY <1>1, <1>3, <1>6
  <2> QED BY <1>3, <2>1, <2>2 DEF f, g, LaidOut
<1>9. CASE "LEFT" \notin type /\ "ZEROPAD" \notin type
  <2>1. Laid(F, B, size, type) = Filled(p, F, 0, B, 0)
    BY <1>2, <1>4, <1>5, <1>9
  <2>2. p + f + 0 + g + 0 = Max({size, f + g})
    BY <1>1, <1>3, <1>6
  <2> QED BY <1>3, <2>1, <2>2 DEF f, g, LaidOut
<1> QED BY <1>7, <1>8, <1>9

(* The digits, and the zeros the precision asks for.                       *)
LEMMA BodyIs ==
  ASSUME NEW base \in Bases, NEW v \in Nat, NEW tmp, Digital(tmp, v, base),
         NEW precision1 \in Int, NEW B, B = Copies("0", precision1 - Len(tmp)) \o tmp
  PROVE  /\ B \in Texts /\ Len(tmp) \in Nat /\ Len(B) = Max({precision1, Len(tmp)})
         /\ Parted(B, base, v)
<1> DEFINE l == Len(tmp)
           short == precision1 - l
           yy == IF short >= 0 THEN short ELSE 0
           Y == Copies("0", yy)
<1>1. tmp \in Texts /\ l \in Nat
  BY DigitsParted
<1>2. PICK z \in Nat, w \in Texts :
              /\ tmp = Copies("0", z) \o w /\ Spells(w, base, v)
              /\ IF w = <<>> THEN z # 0 ELSE w[1] # "0"
  <2>1. Parted(tmp, base, v)
    BY DigitsParted
  <2> QED BY <2>1 DEF Parted
<1> DEFINE Z == Copies("0", z)
<1>3. short \in Int /\ yy \in Nat
  BY <1>1
<1>4. Copies("0", short) = Y
  <2> HIDE DEF short
  <2> QED BY <1>3, Clipped
<1>5. Y \in Texts /\ Len(Y) = yy /\ Z \in Texts
  <2> HIDE DEF yy
  <2> QED BY <1>3, CopiesHere
<1>6. B = Y \o tmp
  BY <1>4
<1> HIDE DEF Y
<1>7. B \in Texts /\ Len(B) = yy + l
  <2>1. B \in Texts /\ Len(B) = Len(Y) + Len(tmp)
    BY <1>1, <1>5, <1>6, Joined
  <2> QED BY <1>5, <2>1
<1>8. yy + l = Max({precision1, l})
  <2>1. Max({precision1, l}) = IF precision1 >= l THEN precision1 ELSE l
    <3> HIDE DEF l
    <3> QED BY <1>1, MaxOf
  <2> HIDE DEF l
  <2> QED BY <1>1, <2>1
<1>9. B = Copies("0", yy + z) \o w
  <2> HIDE DEF Z
  <2>1. (Y \o Z) \o w = Y \o (Z \o w)
    BY <1>5, JoinedInTurn
  <2>2. Y \o Z = Copies("0", yy + z)
    <3> HIDE DEF yy
    <3>1. "0" \in Glyphs
      BY PartsTyped
    <3> QED BY <1>3, <3>1, CopiesJoined DEF Y, Z
  <2> HIDE DEF yy
  <2> QED BY <1>2, <1>6, <2>1, <2>2 DEF Z
<1>10. yy + z \in Nat /\ (z # 0 => yy + z # 0)
  BY <1>3
<1> DEFINE xx == yy + z
<1>11. xx \in Nat /\ B = Copies("0", xx) \o w /\ (z # 0 => xx # 0)
  BY <1>9, <1>10
<1> HIDE DEF xx, yy
<1>12. IF w = <<>> THEN xx # 0 ELSE w[1] # "0"
  BY <1>2, <1>11
<1> QED BY <1>1, <1>2, <1>7, <1>8, <1>11, <1>12 DEF Parted


ReadsAs(s, base, v, sgn) == \E m \in Nat : Written(s, base, v, m, sgn)

LaidSo(base, v, b, o, sgn, pre, F, B, size, type, s) ==
  /\ ReadsAs(s, base, v, sgn)
  /\ Len(F) = b + Len(sgn) + Len(pre) + o
  /\ Len(s) = Max({size, Len(F) + Len(B)})

LEMMA LaidReads ==
  ASSUME NEW base \in Bases, NEW v, NEW b \in Nat, NEW o \in Nat,
         NEW sgn \in Signs, NEW pre \in HexMarks, pre # <<>> => base = 16,
         NEW F, F = FrontOf(b, sgn, pre, o), NEW B \in Texts, Parted(B, base, v),
         NEW size \in Int, NEW type, NEW s, s = Laid(F, B, size, type)
  PROVE  LaidSo(base, v, b, o, sgn, pre, F, B, size, type, s)
<1> DEFINE bl == " "
           b1 == Copies(bl, b)
           b2 == Copies("0", o)
<1>1. b1 \in Texts /\ Len(b1) = b /\ b2 \in Texts /\ Len(b2) = o
  BY CopiesHere
<1>2. sgn \in Texts /\ pre \in Texts /\ Len(sgn) \in Nat /\ Len(pre) \in Nat
  <2>1. sgn \in Texts /\ pre \in Texts
    BY PartsTyped
  <2> QED BY <2>1 DEF Texts
<1>3. F = (b1 \o sgn) \o (pre \o b2)
  BY Zenon DEF FrontOf
<1> HIDE DEF bl, b1, b2
<1> DEFINE xx == b1 \o sgn
           yy == pre \o b2
<1>4. xx \in Texts /\ Len(xx) = b + Len(sgn) /\ yy \in Texts /\ Len(yy) = Len(pre) + o
  BY <1>1, <1>2, Joined
<1>5. F \in Texts /\ Len(F) = b + Len(sgn) + Len(pre) + o
  <2>1. F = xx \o yy
    BY <1>3
  <2> HIDE DEF xx, yy
  <2>2. F \in Texts /\ Len(F) = Len(xx) + Len(yy)
    BY <1>4, <2>1, Joined
  <2> QED BY <1>2, <1>4, <2>2
<1>6. PICK a \in Nat, k \in Nat, n \in Nat :
        /\ Laid(F, B, size, type) = Filled(a, F, k, B, n)
        /\ a + Len(F) + k + Len(B) + n = Max({size, Len(F) + Len(B)})
  <2>1. LaidOut(F, B, size, type)
    BY <1>5, LaidIs
  <2> QED BY <2>1 DEF LaidOut
<1>7. PICK z \in Nat, w \in Texts :
        /\ B = Copies("0", z) \o w /\ Spells(w, base, v)
        /\ IF w = <<>> THEN z # 0 ELSE w[1] # "0"
  BY DEF Parted
<1>8. s = Filled(a, F, k, B, n)
  BY <1>6
<1>9. Written(s, base, v, a + b, sgn) /\ Len(s) = a + Len(F) + k + Len(B) + n
  <2>1. Formed(a, b, k, n, sgn, base, v, F, B, s)
    BY <1>7, <1>8, FormIs
  <2> QED BY <2>1 DEF Formed
<1>10. a + b \in Nat
  OBVIOUS
<1> QED BY <1>5, <1>6, <1>9, <1>10 DEF ReadsAs, LaidSo

(* What number writes of v.                                                *)
NumberReads(v, base, size, prec, type, s, k) ==
  \E sgn \in Signs :
    /\ ReadsAs(s, base, Magnitude(v, type), sgn)
    /\ sgn = <<"-">> <=> Marked(v, type)
    /\ sgn = <<"+">> => "PLUS" \in type
    /\ Len(s) =
         Max({size,
              (IF Marked(v, type) \/ type \cap {"PLUS", "SPACE"} # {} THEN 1 ELSE 0)
                + Max({prec, k})
                + (IF "SPECIAL" \notin type \/ base = 10 THEN 0 ELSE base \div 8)})

LEMMA NumberIs ==
  ASSUME NEW base \in Bases, NEW v, NEW type, Magnitude(v, type) \in 0 .. Word - 1,
         NEW size \in Int, NEW prec \in Int, NEW s, s = number(v, base, size, prec, type),
         NEW k, k = Min({h \in 1 .. Bits : Magnitude(v, type) < Power(base, h)})
  PROVE  NumberReads(v, base, size, prec, type, s, k)
<1> DEFINE M == Magnitude(v, type)
           digits == IF "SMALL" \in type THEN Lower ELSE Upper
           tmp == DigitsOf(M, base, digits)
           l == Len(tmp)
           short == prec - l
           B == Copies("0", short) \o tmp
           G == Sign(v, type)
           H == Special(base, type)
           F == G \o H
<1>1. s = Laid(F, B, size, type)
  BY Zenon DEF number, Laid
<1>2. M \in 0 .. Word - 1 /\ M \in Nat /\ digits \in Tables
  <2>1. M \in 0 .. Word - 1
    OBVIOUS
  <2> HIDE DEF M
  <2>2. M \in Nat
    BY <2>1, WordIs
  <2> QED BY <2>1, <2>2 DEF Tables
<1> HIDE DEF M, digits
<1>3. Digital(tmp, M, base)
  BY <1>2, DigitsOfIs
<1> HIDE DEF tmp
<1>4. B \in Texts /\ l \in Nat /\ Len(B) = Max({prec, l}) /\ Parted(B, base, M)
  BY <1>2, <1>3, BodyIs
<1>5. l = k
  <2>1. base \in Nat \ {0, 1}
    BY DEF Bases
  <2>2. l \in Nat \ {0} /\ M < Power(base, l) /\ (l = 1 \/ Power(base, l - 1) <= M)
    BY <1>3 DEF Digital
  <2> HIDE DEF l
  <2>3. Min({h \in 1 .. Bits : M < Power(base, h)}) = l
    BY <1>2, <2>1, <2>2, LengthIs
  <2> QED BY <2>3 DEF M
<1> HIDE DEF l, B, G, H
<1>6. PICK b \in {0, 1}, sgn \in Signs : SignForm(G, b, sgn, v, type)
  BY SignIs DEF G
<1>7. PICK pre \in HexMarks, o \in {0, 1} : SpecialForm(H, pre, o, base, type)
  BY SpecialIs DEF H
<1> DEFINE signed == IF Marked(v, type) \/ type \cap {"PLUS", "SPACE"} # {} THEN 1 ELSE 0
           special == IF "SPECIAL" \notin type \/ base = 10 THEN 0 ELSE base \div 8
<1>8. F = FrontOf(b, sgn, pre, o)
  BY <1>6, <1>7, Zenon DEF FrontOf, SignForm, SpecialForm
<1>9. /\ sgn = <<"-">> <=> Marked(v, type)
      /\ sgn = <<"+">> => "PLUS" \in type
      /\ b + Len(sgn) = signed
  BY <1>6, Zenon DEF SignForm
<1>10. Len(pre) + o = special /\ (pre # <<>> => base = 16)
  BY <1>7, Zenon DEF SpecialForm
<1> HIDE DEF F, signed, special
<1>11. b \in Nat /\ o \in Nat
  OBVIOUS
<1>12. /\ ReadsAs(s, base, M, sgn)
       /\ Len(F) = b + Len(sgn) + Len(pre) + o
       /\ Len(s) = Max({size, Len(F) + Len(B)})
  <2>1. LaidSo(base, M, b, o, sgn, pre, F, B, size, type, s)
    BY <1>1, <1>4, <1>8, <1>10, <1>11, LaidReads
  <2> QED BY <2>1 DEF LaidSo
<1>13. Len(s) = Max({size, signed + Max({prec, k}) + special})
  <2> DEFINE q == Max({prec, k})
  <2>1. Len(B) = q /\ q \in Int
    <3>1. Max({prec, k}) = IF prec >= k THEN prec ELSE k
      BY <1>4, <1>5, MaxOf
    <3> QED BY <1>4, <1>5, <3>1
  <2> HIDE DEF q
  <2>2. Len(sgn) \in Nat /\ Len(pre) \in Nat
    <3>1. sgn \in Texts /\ pre \in Texts
      BY PartsTyped
    <3> QED BY <3>1 DEF Texts
  <2>3. Len(F) + Len(B) = signed + q + special
    BY <1>9, <1>10, <1>11, <1>12, <2>1, <2>2
  <2> QED BY <1>12, <2>3 DEF q
<1> QED BY <1>9, <1>12, <1>13, Zenon DEF M, signed, special, NumberReads


(* What ucvt writes of v.                                                  *)
LEMMA SignAlone ==
  ASSUME NEW sgn \in Signs
  PROVE  FrontOf(0, sgn, <<>>, 0) = sgn
<1> DEFINE bl == " "
           e == Copies(bl, 0)
           o == Copies("0", 0)
<1>1. e = <<>> /\ o = <<>>
  BY CopiesHere
<1>2. FrontOf(0, sgn, <<>>, 0) = (e \o sgn) \o (<<>> \o o)
  BY Zenon DEF FrontOf
<1>3. sgn \in Texts
  BY PartsTyped
<1> HIDE DEF bl, e, o
<1>4. e \o sgn = sgn /\ sgn \o <<>> = sgn /\ <<>> \o <<>> = <<>>
  BY <1>1, <1>3, JoinedToNothing
<1> QED BY <1>1, <1>2, <1>4

Before(a, F, k, B) == ((Copies(" ", a) \o F) \o Copies("0", k)) \o B

LEMMA FilledBefore ==
  ASSUME NEW F \in Texts, NEW B \in Texts, NEW a \in Nat, NEW k \in Nat
  PROVE  Filled(a, F, k, B, 0) = Before(a, F, k, B)
<1> DEFINE bl == " "
           e == Copies(bl, 0)
           A == Copies(bl, a)
           K == Copies("0", k)
           xx == A \o F
           yy == xx \o K
           h == yy \o B
<1>1. e = <<>> /\ A \in Texts /\ K \in Texts
  BY CopiesHere
<1>2. Filled(a, F, k, B, 0) = ((A \o (F \o K)) \o B) \o e
  BY Zenon DEF Filled
<1> HIDE DEF bl, e, A, K
<1>3. A \o (F \o K) = (A \o F) \o K
  BY <1>1, JoinedInTurn
<1>4. xx \in Texts
  BY <1>1, Joined
<1>5. yy \in Texts
  <2> HIDE DEF xx
  <2> QED BY <1>1, <1>4, Joined
<1>6. h \in Texts
  <2> HIDE DEF yy
  <2> QED BY <1>5, Joined
<1>7. h \o <<>> = h
  <2> HIDE DEF h
  <2> QED BY <1>6, JoinedToNothing
<1>8. Filled(a, F, k, B, 0) = h
  BY <1>1, <1>2, <1>3, <1>7
<1> QED BY <1>8, Zenon DEF h, yy, xx, A, K, bl, Before

LEMMA UcvtIs ==
  ASSUME NEW v \in Words, NEW base \in {8, 10, 16, -10}, NEW width \in Int, NEW flag,
         NEW minus, minus <=> (base < 0 /\ Negative(v)),
         NEW M, M = IF minus THEN Negated(v) ELSE v, M \in Words,
         NEW bs, bs = IF base < 0 THEN -base ELSE base,
         NEW s, s = ucvt(v, base, width, flag)
  PROVE  \E sgn \in Signs : ReadsAs(s, bs, M, sgn) /\ (sgn = <<"-">> <=> minus)
<1> DEFINE bl == " "
           sgn == IF minus THEN <<"-">> ELSE IF "ADD_PLUS" \in flag THEN <<"+">> ELSE <<>>
           tmp == DigitsOf(M, bs, Upper)
           pad == width - Len(sgn) - Len(tmp)
           p == IF pad >= 0 THEN pad ELSE 0
           spaces == IF "SPACE_PAD" \in flag THEN Copies(bl, pad) ELSE <<>>
           zeros == IF "ZERO_PAD" \in flag /\ spaces = <<>> THEN Copies("0", pad) ELSE <<>>
           a == IF "SPACE_PAD" \in flag THEN p ELSE 0
           k == IF "ZERO_PAD" \in flag /\ spaces = <<>> THEN p ELSE 0
<1>1. bs \in Bases
  <2>1. CASE base = -10
    <3>1. base < 0 /\ -base = 10
      <4>1. \A xx \in Int : xx + 10 = 0 => -xx = 10
        OBVIOUS
      <4>2. base \in Int /\ base + 10 = 0 /\ base < 0
        BY <2>1
      <4> QED BY <4>1, <4>2, Zenon
    <3>2. bs = 10
      BY <3>1
    <3> QED BY <3>2 DEF Bases
  <2>2. CASE base # -10
    BY <2>2 DEF Bases
  <2> QED BY <2>1, <2>2
<1>2. s = IF "LEFT_PAD" \in flag THEN (sgn \o tmp) \o spaces
          ELSE ((spaces \o sgn) \o zeros) \o tmp
  <2>1. ucvt(v, base, width, flag) =
          LET minus1 == base < 0 /\ Negative(v)
              front == IF minus1 THEN <<"-">> ELSE IF "ADD_PLUS" \in flag THEN <<"+">> ELSE <<>>
              tmp1 == DigitsOf(IF minus1 THEN Negated(v) ELSE v, IF base < 0 THEN -base ELSE base, Upper)
              pad1 == width - Len(front) - Len(tmp1)
              spaces1 == IF "SPACE_PAD" \in flag THEN Copies(bl, pad1) ELSE <<>>
              zeros1 == IF "ZERO_PAD" \in flag /\ spaces1 = <<>> THEN Copies("0", pad1) ELSE <<>>
          IN  IF "LEFT_PAD" \in flag THEN (front \o tmp1) \o spaces1
              ELSE ((spaces1 \o front) \o zeros1) \o tmp1
    BY Zenon DEF ucvt
  <2> HIDE DEF bl
  <2>2. CASE minus
    <3>1. base < 0 /\ Negative(v)
      BY <2>2
    <3> QED BY <2>1, <2>2, <3>1
  <2>3. CASE ~minus
    <3>1. ~(base < 0 /\ Negative(v))
      BY <2>3
    <3> QED BY <2>1, <2>3, <3>1
  <2> QED BY <2>2, <2>3
<1>3. sgn \in Signs /\ (sgn = <<"-">> <=> minus)
  <2>1. <<"-">> # <<"+">> /\ <<"-">> # <<>>
    OBVIOUS
  <2> QED BY <2>1 DEF Signs
<1> HIDE DEF sgn
<1>4. sgn \in Texts /\ M \in Nat /\ Upper \in Tables
  <2>1. sgn \in Texts
    BY <1>3, PartsTyped
  <2>2. M \in Nat
    BY WordIs DEF Words
  <2> QED BY <2>1, <2>2 DEF Tables
<1>5. Digital(tmp, M, bs)
  BY <1>1, <1>4, DigitsOfIs
<1> HIDE DEF tmp
<1>6. tmp \in Texts /\ Len(tmp) \in Nat /\ Parted(tmp, bs, M)
  BY <1>1, <1>4, <1>5, DigitsParted
<1>7. pad \in Int /\ p \in Nat /\ a \in Nat /\ k \in Nat
  <2>1. Len(sgn) \in Nat
    BY <1>4 DEF Texts
  <2>2. pad \in Int
    BY <1>6, <2>1
  <2>3. p \in Nat
    <3> HIDE DEF pad
    <3> QED BY <2>2
  <2> HIDE DEF pad, p
  <2> QED BY <2>2, <2>3
<1> HIDE DEF pad
<1>8. Copies(bl, pad) = Copies(bl, p) /\ Copies("0", pad) = Copies("0", p)
  <2> HIDE DEF bl
  <2> QED BY <1>7, Clipped
<1>9. Copies(bl, 0) = <<>> /\ Copies("0", 0) = <<>>
  BY CopiesHere
<1> HIDE DEF bl, p
<1>10. spaces = Copies(bl, a) /\ zeros = Copies("0", k)
  <2>1. spaces = Copies(bl, a)
    BY <1>8, <1>9, Zenon
  <2> HIDE DEF spaces, a
  <2>2. zeros = Copies("0", k)
    BY <1>8, <1>9, Zenon
  <2> QED BY <2>1, <2>2
<1> HIDE DEF spaces, zeros, a, k
<1>11. \E a1 \in Nat, k1 \in Nat, n1 \in Nat : s = Filled(a1, sgn, k1, tmp, n1)
  <2>1. CASE "LEFT_PAD" \in flag
    <3>1. Filled(0, sgn, 0, tmp, a) = (sgn \o tmp) \o Copies(bl, a)
      BY <1>4, <1>6, <1>7, FilledIs DEF bl
    <3>2. s = Filled(0, sgn, 0, tmp, a)
      BY <1>2, <1>10, <2>1, <3>1
    <3>3. 0 \in Nat
      OBVIOUS
    <3> QED BY <1>7, <3>2, <3>3
  <2>2. CASE "LEFT_PAD" \notin flag
    <3>1. Filled(a, sgn, k, tmp, 0) = ((Copies(bl, a) \o sgn) \o Copies("0", k)) \o tmp
      <4>1. Filled(a, sgn, k, tmp, 0) = Before(a, sgn, k, tmp)
        BY <1>4, <1>6, <1>7, FilledBefore
      <4> QED BY <4>1, Zenon DEF Before, bl
    <3>2. s = Filled(a, sgn, k, tmp, 0)
      BY <1>2, <1>10, <2>2, <3>1
    <3>3. 0 \in Nat
      OBVIOUS
    <3> QED BY <1>7, <3>2, <3>3
  <2> QED BY <2>1, <2>2
<1>12. PICK a1 \in Nat, k1 \in Nat, n1 \in Nat : s = Filled(a1, sgn, k1, tmp, n1)
  BY <1>11
<1>13. PICK z \in Nat, w \in Texts :
         /\ tmp = Copies("0", z) \o w /\ Spells(w, bs, M)
         /\ IF w = <<>> THEN z # 0 ELSE w[1] # "0"
  BY <1>6 DEF Parted
<1> DEFINE pre == <<>>
<1>14. pre \in HexMarks /\ (pre # <<>> => bs = 16) /\ 0 \in Nat
  BY DEF HexMarks
<1>15. sgn = FrontOf(0, sgn, pre, 0)
  BY <1>3, SignAlone
<1> HIDE DEF pre
<1>16. Formed(a1, 0, k1, n1, sgn, bs, M, sgn, tmp, s)
  BY <1>1, <1>3, <1>12, <1>13, <1>14, <1>15, FormIs
<1>17. Written(s, bs, M, a1 + 0, sgn) /\ a1 + 0 \in Nat
  BY <1>16 DEF Formed
<1> QED BY <1>3, <1>17 DEF ReadsAs

-----------------------------------------------------------------------------
(* The three of them read what was written.                                *)
Blank(s) == s[1] = " "
Nearest(v, neg) == IF ~neg /\ Negative(v) THEN LONG_MAX ELSE v
ReadBack(s, base, v, neg) ==
  /\ strtoul(s, base) = v
  /\ strtol(s, base) = Nearest(v, neg)
  /\ ~Blank(s) /\ base = 10 => strtoi(s, 10) = LeastRaised(Nearest(v, neg))

LEMMA NegatedIs ==
  ASSUME NEW v \in Words
  PROVE  /\ Negated(v) = IF v = 0 THEN 0 ELSE Word - v
         /\ Negated(v) \in Words /\ Negated(Negated(v)) = v
<1>1. Word \in Nat /\ Word >= 2 /\ v \in Nat /\ v < Word
  <2>1. Word \in Nat /\ Word >= 2
    BY WordIs
  <2> QED BY <2>1 DEF Words
<1>2. \A xx, n \in Nat : xx < n => xx % n = xx
  OBVIOUS
<1>3. \A n \in Nat \ {0} : n % n = 0
  OBVIOUS
<1>4. CASE v = 0
  <2>1. Negated(v) = 0
    BY <1>1, <1>3, <1>4 DEF Negated
  <2> QED BY <1>1, <1>4, <2>1 DEF Words
<1>5. CASE v # 0
  <2> DEFINE u == Word - v
  <2>1. u \in Nat /\ u < Word /\ Word - u = v
    BY <1>1, <1>5
  <2>2. Negated(v) = u
    BY <1>1, <1>2, <2>1 DEF Negated
  <2> HIDE DEF u
  <2>3. Negated(u) = v
    BY <1>1, <1>2, <2>1 DEF Negated
  <2> QED BY <1>1, <1>5, <2>1, <2>2, <2>3 DEF Words, u
<1> QED BY <1>4, <1>5

LEMMA ReadsBack ==
  ASSUME NEW v \in Words, NEW neg, neg => Negative(v),
         NEW M, M = IF neg THEN Negated(v) ELSE v,
         NEW base \in Bases, NEW s, NEW sgn \in Signs, sgn = <<"-">> <=> neg,
         ReadsAs(s, base, M, sgn)
  PROVE  /\ ReadBack(s, base, v, neg)
         /\ s[1] = "+" => sgn = <<"+">>
<1> DEFINE L == LONG_MAX
<1>1. /\ Word \in Nat /\ L \in Nat /\ Word = 2 * L + 2 /\ v \in 0 .. Word - 1
      /\ Words = 0 .. Word - 1
  BY WordIs DEF Words
<1>2. \A xx : Negative(xx) <=> xx > L
  BY DEF Negative
<1>3. M \in Words
  BY NegatedIs
<1>4. neg => /\ v > L /\ M = Word - v /\ M <= L + 1 /\ M > 0
             /\ Negated(M) = v /\ (M > L <=> v = L + 1) /\ (M <= L => M # L + 1)
  <2> SUFFICES ASSUME neg
               PROVE /\ v > L /\ M = Word - v /\ M <= L + 1 /\ M > 0
                     /\ Negated(M) = v /\ (M > L <=> v = L + 1) /\ (M <= L => M # L + 1)
    OBVIOUS
  <2>1. v > L /\ v # 0
    BY <1>1, <1>2
  <2>2. M = Negated(v)
    OBVIOUS
  <2>3. M = Word - v /\ Negated(M) = v
    BY <2>1, <2>2, NegatedIs
  <2> HIDE DEF L
  <2> QED BY <1>1, <2>1, <2>3
<1>5. ~neg => M = v
  OBVIOUS
<1>6. PICK m \in Nat : Written(s, base, M, m, sgn)
  BY DEF ReadsAs
<1>7. M \in 0 .. Word - 1
  BY <1>1, <1>3
<1>8. strtoul(s, base) = v
  <2>1. strtoul(s, base) = IF sgn = <<"-">> THEN Negated(M) ELSE M
    BY <1>6, <1>7, StrtoulReads
  <2> QED BY <1>4, <1>5, <2>1
<1>9. strtol(s, base) = Nearest(v, neg)
  <2>1. strtol(s, base) =
           IF sgn = <<"-">> THEN Negated(IF M <= L + 1 THEN M ELSE L + 1)
           ELSE IF M <= L THEN M ELSE L
    BY <1>6, <1>7, StrtolReads
  <2> HIDE DEF L
  <2>2. CASE neg
    BY <1>4, <2>1, <2>2 DEF Nearest
  <2>3. CASE ~neg
    <3>1. strtol(s, base) = IF v <= L THEN v ELSE L
      BY <1>5, <2>1, <2>3
    <3>2. v > L <=> ~(v <= L)
      BY <1>1
    <3>3. Nearest(v, neg) = IF v > L THEN L ELSE v
      BY <1>2, <2>3 DEF Nearest, L
    <3> QED BY <3>1, <3>2, <3>3
  <2> QED BY <2>2, <2>3
<1>10. /\ m # 0 => Blank(s)
       /\ m = 0 => s # <<>> /\ SignOf(s) = sgn
  BY <1>6, PartsRead, Zenon DEF Blank
<1>11. ASSUME ~Blank(s), base = 10 PROVE strtoi(s, 10) = LeastRaised(Nearest(v, neg))
  <2>1. m = 0
    BY <1>10, <1>11
  <2>2. Written(s, 10, M, 0, sgn)
    BY <1>6, <1>11, <2>1
  <2>3. strtoi(s, 10) = LET value == IF Negative(M) THEN L ELSE M
                        IN  IF sgn = <<"-">> THEN Negated(value) ELSE value
    BY <1>7, <2>2, StrtoiReads
  <2>4. \A xx : LeastRaised(xx) = IF xx = L + 1 THEN xx + 1 ELSE xx
    BY DEF LeastRaised
  <2>5. Negated(L) = L + 2
    <3>1. L \in Words
      BY <1>1 DEF Words
    <3>2. Negated(L) = IF L = 0 THEN 0 ELSE Word - L
      BY <3>1, NegatedIs
    <3>3. L # 0
      <4>1. Word >= 3
        <5> DEFINE b == Bits - 2
                   d == b + 1
        <5>1. b \in Nat /\ d + 1 = Bits /\ d \in Nat /\ d = b + 1
          BY NumbersAssumption
        <5> HIDE DEF b, d
        <5>2. /\ Power(2, b) \in Nat \ {0} /\ Power(2, d) = 2 * Power(2, b)
              /\ Power(2, d + 1) = 2 * Power(2, d)
          <6>1. 2 \in Nat \ {0}
            OBVIOUS
          <6>2. \A n \in Nat : /\ Power(2, n) \in Nat \ {0}
                               /\ Power(2, n + 1) = 2 * Power(2, n)
            BY <6>1, PowerIs
          <6> QED BY <5>1, <6>2
        <5>3. Word = 2 * (2 * Power(2, b))
          BY <5>1, <5>2 DEF Word
        <5> QED BY <5>2, <5>3
      <4> QED BY <1>1, <4>1
    <3> QED BY <1>1, <3>2, <3>3
  <2> DEFINE N == Nearest(v, neg)
  <2>6. CASE neg
    <3>1. N = v
      BY <2>6 DEF Nearest
    <3>2. strtoi(s, 10) = IF M > L THEN Negated(L) ELSE Negated(M)
      BY <1>2, <2>3, <2>6
    <3> HIDE DEF L, N
    <3>3. strtoi(s, 10) = IF v = L + 1 THEN L + 2 ELSE v
      BY <1>4, <2>5, <2>6, <3>2
    <3>4. LeastRaised(N) = IF v = L + 1 THEN v + 1 ELSE v
      BY <2>4, <3>1
    <3>5. v = L + 1 => v + 1 = L + 2
      BY <1>1
    <3> QED BY <3>3, <3>4, <3>5 DEF N
  <2>7. CASE ~neg
    <3>1. N = IF v > L THEN L ELSE v
      BY <1>2, <2>7 DEF Nearest
    <3>2. strtoi(s, 10) = IF v > L THEN L ELSE v
      BY <1>2, <1>5, <2>3, <2>7
    <3> HIDE DEF L, N
    <3>3. N # L + 1
      BY <1>1, <3>1
    <3> QED BY <2>4, <3>1, <3>2, <3>3 DEF N
  <2> QED BY <2>6, <2>7
<1>12. ASSUME s[1] = "+" PROVE sgn = <<"+">>
  <2>1. m = 0
    BY <1>10, <1>12, Zenon DEF Blank
  <2>2. SignOf(s) = <<"+">>
    <3>1. s # <<>>
      BY <1>10, <2>1
    <3> QED BY <1>12, <3>1 DEF SignOf
  <2> QED BY <1>10, <2>1, <2>2
<1> QED BY <1>8, <1>9, <1>11, <1>12 DEF ReadBack

-----------------------------------------------------------------------------
(* What vsprintf knows of a number when it is written.                     *)
DirectiveFlags == {"LEFT", "PLUS", "SPACE", "SPECIAL", "ZEROPAD"}
ConversionOf(base) ==
  CASE base = -10 -> "d" [] base = 10 -> "u" [] base = 8 -> "o" [] OTHER -> "X"
UcvtFlags == SUBSET {"ADD_PLUS", "SPACE_PAD", "ZERO_PAD", "LEFT_PAD"}
NumberWritten ==
  /\ flags \subseteq DirectiveFlags \cup {"SIGN", "SMALL"}
  /\ "SIGN" \in flags <=> c = "d"
  /\ arg \in Words
  /\ piece = number(arg, BaseOf(c), field_width, precision, flags)
UcvtWritten ==
  /\ flags = {"ucvt"} /\ arg \in Words
  /\ \E base \in {8, 10, 16, -10}, flag \in UcvtFlags :
       c = ConversionOf(base) /\ piece = ucvt(arg, base, field_width, flag)
NumbersInv ==
  /\ field_width \in Int /\ precision \in Int
  /\ pc \notin {"written", "ucvt"} => flags \subseteq DirectiveFlags
  /\ pc = "written" /\ c \in Numeric => NumberWritten
  /\ pc = "ucvt" => UcvtWritten

LEMMA FlagsTyped ==
  ASSUME NEW f \in FlagChars
  PROVE  FlagOf[f] \in DirectiveFlags
<1> DEFINE bl == " "
<1>1. f \in {"-", "+", bl, "#", "0"}
  BY Zenon DEF FlagChars
<1>2. FlagOf = [g \in {"-", "+", bl, "#", "0"} |->
        CASE g = "-" -> "LEFT" [] g = "+" -> "PLUS" [] g = bl -> "SPACE"
          [] g = "#" -> "SPECIAL" [] g = "0" -> "ZEROPAD"]
  BY Zenon DEF FlagOf, FlagChars
<1> HIDE DEF bl
<1>3. f \in {"-", "+", "#", "0"} \/ f = bl
  BY <1>1
<1> QED BY <1>2, <1>3 DEF DirectiveFlags

LEMMA DecimalsTyped ==
  \A d \in Decimals : DigitOf[d] \in Int
<1>1. 0 \in 0 .. 15 /\ 1 \in 0 .. 15 /\ Upper[0 + 1] = "0" /\ Upper[1 + 1] = "1"
  BY DEF Upper
<1>2. \A d \in 0 .. 15 : DigitOf[Upper[d + 1]] = d
  BY DigitIs
<1>3. DigitOf["0"] = 0 /\ DigitOf["1"] = 1
  BY <1>1, <1>2
<1> QED BY <1>3 DEF Decimals

LEMMA ResetKeepsNumbers ==
  ASSUME Reset, pc' \notin {"written", "ucvt"}
  PROVE  NumbersInv'
BY DEF Reset, NumbersInv

LEMMA InitNumbers == FormatInit => NumbersInv
BY DEF FormatInit, NumbersInv

LEMMA StepKeepsNumbers == NumbersInv /\ [FormatNext]_formatVars => NumbersInv'
<1> SUFFICES ASSUME NumbersInv, [FormatNext]_formatVars PROVE NumbersInv'
  OBVIOUS
<1> DEFINE reading == pc' \notin {"written", "ucvt"}
<1>1. CASE Copy \/ Directive \/ NextChar \/ Returns \/ Calls \/ UcvtReturns
  <2>1. Reset /\ reading
    BY <1>1 DEF Copy, Directive, NextChar, Returns, Calls, UcvtReturns, Advance, Stay
  <2> QED BY <2>1, ResetKeepsNumbers
<1>2. CASE Flag
  <2>1. pc = "flags" /\ flags' = flags \cup {FlagOf[c]} /\ FlagOf[c] \in DirectiveFlags
    BY <1>2, FlagsTyped DEF Flag
  <2>2. field_width' = field_width /\ precision' = precision /\ reading
    BY <1>2 DEF Flag, Advance
  <2> QED BY <2>1, <2>2 DEF NumbersInv
<1>3. CASE FieldWidth
  <2>1. pc = "flags" /\ precision' = precision /\ reading
    BY <1>3 DEF FieldWidth, Advance, Stay
  <2>2. field_width' \in Int /\ flags' \subseteq DirectiveFlags
    <3>1. field_width \in Int /\ flags \subseteq DirectiveFlags
      BY <2>1 DEF NumbersInv
    <3>2. CASE c \in Decimals /\ field_width' = DigitOf[c] /\ flags' = flags
      BY <3>1, <3>2, DecimalsTyped
    <3>3. CASE \E n \in Stars :
                 /\ field_width' = IF n < 0 THEN -n ELSE n
                 /\ flags' = IF n < 0 THEN flags \cup {"LEFT"} ELSE flags
      <4>1. Stars \subseteq Int
        BY FormatAssumption
      <4>2. PICK n \in Int :
                 /\ field_width' = IF n < 0 THEN -n ELSE n
                 /\ flags' = IF n < 0 THEN flags \cup {"LEFT"} ELSE flags
        BY <3>3, <4>1
      <4> QED BY <3>1, <4>2 DEF DirectiveFlags
    <3>4. CASE UNCHANGED <<field_width, flags>>
      BY <3>1, <3>4
    <3> QED BY <1>3, <3>2, <3>3, <3>4 DEF FieldWidth
  <2> QED BY <2>1, <2>2 DEF NumbersInv
<1>4. CASE WidthDigit
  <2>1. pc = "width" /\ precision' = precision /\ flags' = flags /\ reading
    BY <1>4 DEF WidthDigit, Advance, Stay
  <2>2. field_width \in Int
    BY DEF NumbersInv
  <2>3. field_width' \in Int
    BY <1>4, <2>2, DecimalsTyped DEF WidthDigit, SkipAtoi
  <2> QED BY <2>1, <2>3 DEF NumbersInv
<1>5. CASE Dot \/ Qualifier
  <2>1. /\ pc \in {"dot", "qualifier"} /\ reading
        /\ field_width' = field_width /\ precision' = precision /\ flags' = flags
    BY <1>5 DEF Dot, Qualifier, Advance, Stay
  <2> QED BY <2>1 DEF NumbersInv
<1>6. CASE Precision
  <2>1. pc = "point" /\ field_width' = field_width /\ flags' = flags /\ reading
    BY <1>6 DEF Precision, Advance, Stay
  <2>2. precision' \in Int
    <3>1. CASE c \in Decimals /\ precision' = DigitOf[c]
      BY <3>1, DecimalsTyped
    <3>2. CASE \E n \in Stars : precision' = Max({n, 0})
      <4>1. PICK n \in Int : precision' = Max({n, 0})
        BY <3>2, FormatAssumption
      <4>2. Max({n, 0}) = IF n >= 0 THEN n ELSE 0
        BY MaxOf
      <4> QED BY <4>1, <4>2
    <3> QED BY <1>6, <3>1, <3>2 DEF Precision
  <2> QED BY <2>1, <2>2 DEF NumbersInv
<1>7. CASE PrecisionDigit
  <2>1. pc = "precision" /\ field_width' = field_width /\ flags' = flags /\ reading
    BY <1>7 DEF PrecisionDigit, Advance, Stay
  <2>2. precision \in Int
    BY DEF NumbersInv
  <2>3. precision' \in Int
    BY <1>7, <2>2, DecimalsTyped DEF PrecisionDigit, SkipAtoi
  <2> QED BY <2>1, <2>3 DEF NumbersInv
<1>8. CASE ConvertNumber
  <2>1. /\ pc = "convert" /\ pc' = "written" /\ c' = c /\ c \in Numeric
        /\ precision' = precision
        /\ field_width' = IF c = "p" /\ field_width = -1 THEN 8 ELSE field_width
        /\ \E v \in Words :
             arg' = v /\ piece' = number(v, BaseOf(c), field_width', precision, flags')
    BY <1>8 DEF ConvertNumber, Stay
  <2>2. field_width' \in Int /\ precision' \in Int
    BY <2>1 DEF NumbersInv
  <2>3. flags \subseteq DirectiveFlags
    BY <2>1 DEF NumbersInv
  <2>4. flags' \subseteq DirectiveFlags \cup {"SIGN", "SMALL"} /\ ("SIGN" \in flags' <=> c = "d")
    <3>1. flags' = flags \cup (CASE c = "x" -> {"SMALL"} [] c = "d" -> {"SIGN"}
                            [] c = "p" /\ field_width = -1 -> {"ZEROPAD"}
                            [] OTHER -> {})
      BY <1>8 DEF ConvertNumber
    <3> QED BY <2>3, <3>1 DEF DirectiveFlags
  <2>5. arg' \in Words /\ piece' = number(arg', BaseOf(c'), field_width', precision', flags')
    BY <2>1
  <2>6. NumberWritten'
    BY <2>1, <2>4, <2>5 DEF NumberWritten
  <2> QED BY <2>1, <2>2, <2>6 DEF NumbersInv
<1>9. CASE ConvertText
  <2>1. /\ pc' = "written" /\ c' = c /\ c \notin Numeric
        /\ field_width' = field_width /\ precision' = precision
    BY <1>9 DEF ConvertText, Stay, Numeric
  <2> QED BY <2>1 DEF NumbersInv
<1>10. CASE ConvertOther
  <2>1. /\ pc = "convert" /\ pc' \in {"written", "char"} /\ c' = c /\ c \notin Numeric
        /\ field_width' = field_width /\ precision' = precision /\ flags' = flags
    BY <1>10 DEF ConvertOther, AtEnd, Stay
  <2> QED BY <2>1 DEF NumbersInv
<1>11. CASE Ucvt
  <2>1. /\ pc' = "ucvt" /\ precision' = precision /\ flags' = {"ucvt"}
        /\ \E v \in Words, base \in {8, 10, 16, -10}, width \in Widths, flag \in UcvtFlags :
             /\ arg' = v /\ piece' = ucvt(v, base, width, flag)
             /\ c' = ConversionOf(base) /\ field_width' = width
    BY <1>11, Zenon DEF Ucvt, ConversionOf, UcvtFlags
  <2>2. field_width' \in Int
    BY <2>1, FormatAssumption
  <2>3. UcvtWritten'
    BY <2>1 DEF UcvtWritten
  <2> QED BY <2>1, <2>2, <2>3 DEF NumbersInv
<1>12. CASE UNCHANGED formatVars
  <2>1. UNCHANGED <<pc, c, flags, field_width, precision, arg, piece>>
    BY <1>12 DEF formatVars
  <2> QED BY <2>1 DEF NumbersInv, NumberWritten, UcvtWritten
<1> QED BY <1>1, <1>2, <1>3, <1>4, <1>5, <1>6, <1>7, <1>8, <1>9, <1>10, <1>11, <1>12
        DEF FormatNext

LEMMA NumbersAreBack == NumbersInv => NumbersReadBack
<1> SUFFICES ASSUME NumbersInv, IsNumber PROVE NumbersReadBack
  BY DEF NumbersReadBack
<1> DEFINE base == BaseOf(c)
           neg == c = "d" /\ Negative(arg)
           length == "ucvt" \notin flags => Len(piece) = Max({field_width, Needed})
<1>1. c \in Numeric /\ pc \in {"written", "ucvt"}
  BY DEF IsNumber
<1>2. base \in Bases
  BY <1>1 DEF BaseOf, Bases, Numeric
<1>3. arg \in Words
  BY <1>1 DEF NumbersInv, NumberWritten, UcvtWritten
<1>4. SUFFICES ReadBack(piece, base, arg, neg) /\ length
  <2>1. Nearest(arg, neg) = Clamped(arg)
    BY DEF Nearest, Clamped
  <2> HIDE DEF neg
  <2> QED BY <1>4, <2>1, Zenon DEF NumbersReadBack, ReadBack, Blank, length, base
<1>5. Negated(arg) \in Words
  BY <1>3, NegatedIs
<1> DEFINE M == IF neg THEN Negated(arg) ELSE arg
<1>6. M \in Words /\ (neg => Negative(arg)) /\ M \in 0 .. Word - 1
  BY <1>3, <1>5 DEF Words
<1>7. CASE pc = "written"
  <2>1. NumberWritten /\ field_width \in Int /\ precision \in Int
    BY <1>1, <1>7 DEF NumbersInv
  <2>2. /\ "SIGN" \in flags <=> c = "d"
        /\ piece = number(arg, base, field_width, precision, flags)
    BY <2>1 DEF NumberWritten
  <2>3. Marked(arg, flags) <=> neg
    BY <2>2 DEF Marked
  <2>4. Magnitude(arg, flags) = M
    BY <2>3 DEF Magnitude, Marked
  <2> DEFINE k == Min({h \in 1 .. Bits : Magnitude(arg, flags) < Power(base, h)})
             plain == IF Marked(arg, flags) \/ flags \cap {"PLUS", "SPACE"} # {} THEN 1 ELSE 0
             rest == IF "SPECIAL" \notin flags \/ base = 10 THEN 0 ELSE base \div 8
  <2>5. PICK sgn \in Signs :
           /\ ReadsAs(piece, base, Magnitude(arg, flags), sgn)
           /\ sgn = <<"-">> <=> Marked(arg, flags)
           /\ sgn = <<"+">> => "PLUS" \in flags
           /\ Len(piece) = Max({field_width, plain + Max({precision, k}) + rest})
    <3>1. k = Min({h \in 1 .. Bits : Magnitude(arg, flags) < Power(base, h)})
      OBVIOUS
    <3>2. Magnitude(arg, flags) \in 0 .. Word - 1
      BY <1>6, <2>4
    <3> HIDE DEF base, k
    <3>3. NumberReads(arg, base, field_width, precision, flags, piece, k)
      BY <1>2, <2>1, <2>2, <3>1, <3>2, NumberIs
    <3> QED BY <3>3, Zenon DEF NumberReads
  <2> HIDE DEF k, plain, rest
  <2>6. ReadBack(piece, base, arg, neg) /\ (piece[1] = "+" => sgn = <<"+">>)
    <3>1. ReadsAs(piece, base, M, sgn) /\ (sgn = <<"-">> <=> neg)
      BY <2>3, <2>4, <2>5
    <3>2. M = IF neg THEN Negated(arg) ELSE arg
      OBVIOUS
    <3> HIDE DEF base, neg, M
    <3> QED BY <1>2, <1>3, <1>6, <3>1, <3>2, ReadsBack
  <2>7. Needed = plain + Max({precision, k}) + rest
    <3> DEFINE magnitude == IF c = "d" THEN (IF Negative(arg) THEN Word - arg ELSE arg) ELSE arg
               signed == (c = "d" /\ Negative(arg)) \/ piece[1] = "+"
                           \/ flags \cap {"PLUS", "SPACE"} # {}
    <3>1. Needed = (IF signed THEN 1 ELSE 0)
                     + Max({precision, Min({h \in 1 .. Bits : magnitude < Power(base, h)})})
                     + (IF "SPECIAL" \notin flags \/ base = 10 THEN 0 ELSE base \div 8)
      BY DEF Needed
    <3>2. signed <=> (Marked(arg, flags) \/ flags \cap {"PLUS", "SPACE"} # {})
      BY <2>3, <2>5, <2>6
    <3>3. magnitude = Magnitude(arg, flags)
      <4>1. neg => Negated(arg) = Word - arg
        <5>1. Negative(arg) => arg # 0
          BY <1>3, WordIs DEF Negative, Words
        <5> QED BY <1>3, <5>1, NegatedIs
      <4> QED BY <2>4, <4>1
    <3> HIDE DEF magnitude, signed, base
    <3> QED BY <3>1, <3>2, <3>3 DEF k, plain, rest
  <2>8. length
    BY <2>5, <2>7
  <2> QED BY <2>6, <2>8
<1>8. CASE pc = "ucvt"
  <2>1. UcvtWritten /\ field_width \in Int
    BY <1>8 DEF NumbersInv
  <2>2. PICK b \in {8, 10, 16, -10}, flag \in UcvtFlags :
          c = ConversionOf(b) /\ piece = ucvt(arg, b, field_width, flag)
    BY <2>1 DEF UcvtWritten
  <2>3. base = (IF b < 0 THEN -b ELSE b) /\ (neg <=> (b < 0 /\ Negative(arg)))
    <3>1. CASE b + 10 = 0
      <4>1. \A xx \in Int : xx + 10 = 0 => -xx = 10 /\ xx < 0
        OBVIOUS
      <4>2. b \in Int /\ c = "d"
        BY <2>2, <3>1 DEF ConversionOf
      <4>3. base = 10
        BY <4>2 DEF BaseOf
      <4> HIDE DEF base
      <4> QED BY <3>1, <4>1, <4>2, <4>3, Zenon
    <3>2. CASE b + 10 # 0
      <4>1. b \in {8, 10, 16} /\ b # -10 /\ ~(b < 0)
        BY <3>2
      <4>2. c # "d" /\ base = b
        BY <2>2, <4>1 DEF ConversionOf, BaseOf
      <4> HIDE DEF base
      <4> QED BY <4>1, <4>2
    <3> QED BY <3>1, <3>2
  <2>4. \E sgn \in Signs : ReadsAs(piece, base, M, sgn) /\ (sgn = <<"-">> <=> neg)
    <3>1. M = IF neg THEN Negated(arg) ELSE arg
      OBVIOUS
    <3> HIDE DEF base, neg, M
    <3> QED BY <1>3, <1>6, <2>1, <2>2, <2>3, <3>1, UcvtIs
  <2>5. PICK sgn \in Signs : ReadsAs(piece, base, M, sgn) /\ (sgn = <<"-">> <=> neg)
    BY <2>4
  <2>6. ReadBack(piece, base, arg, neg)
    <3>1. M = IF neg THEN Negated(arg) ELSE arg
      OBVIOUS
    <3> HIDE DEF base, neg, M
    <3> QED BY <1>2, <1>3, <1>6, <2>5, <3>1, ReadsBack
  <2>7. length
    BY <2>1 DEF UcvtWritten
  <2> QED BY <2>6, <2>7
<1> QED BY <1>1, <1>7, <1>8

(* Whatever is written of a word, by number for a directive or by ucvt, is *)
(* read back, and is as long as asked for.                                 *)
THEOREM NumbersAreRead == FormatSpec => []NumbersReadBack
BY InitNumbers, StepKeepsNumbers, NumbersAreBack, PTL DEF FormatSpec

=============================================================================
