------------------------------ MODULE Numbers ------------------------------
(***************************************************************************)
(* Numbers as text: number of src/var/vsprintf.c and ucvt of               *)
(* src/var/stdlib.c write them, strtol, strtoul and strtoi of the same     *)
(* file read them.  A word has Bits bits and is its unsigned value; a text *)
(* is the sequence of its characters, its terminator left out.             *)
(***************************************************************************)
EXTENDS Integers, FiniteSetsExt, SequencesExt

CONSTANT Bits     \* the width of int and long

ASSUME NumbersAssumption == Bits \in Nat /\ Bits >= 4

(* A power, multiplied out.                                                *)
Power(base, n) ==
  LET p[i \in 0 .. n] == IF i = 0 THEN 1 ELSE base * p[i - 1]
  IN  p[n]

Word == Power(2, Bits)
LONG_MAX == Word \div 2 - 1
Words == 0 .. Word - 1
Negative(v) == v > LONG_MAX
Negated(v) == (Word - v) % Word
Signed(v) == IF Negative(v) THEN v - Word ELSE v

(* The digits of a base up to 16.  Lower case is chosen by SMALL.          *)
Upper == <<"0", "1", "2", "3", "4", "5", "6", "7", "8", "9",
           "A", "B", "C", "D", "E", "F">>
Lower == SubSeq(Upper, 1, 10) \o <<"a", "b", "c", "d", "e", "f">>
DigitOf ==
  [c \in Range(Upper) \cup Range(Lower) |->
     CHOOSE d \in 0 .. 15 : c \in {Upper[d + 1], Lower[d + 1]}]
IsDigit(c) == c \in DOMAIN DigitOf

Copies(c, n) == [i \in 1 .. Max({n, 0}) |-> c]

(* The division of number() is unsigned whatever the sign of its int; 0    *)
(* has one digit.                                                          *)
DigitsOf(v, base, digits) ==
  LET tmp[n \in 0 .. v] ==
        IF n < base THEN <<digits[n + 1]>>
        ELSE Append(tmp[n \div base], digits[(n % base) + 1])
  IN  tmp[v]

-----------------------------------------------------------------------------
(* The value number() writes the digits of.                                *)
Magnitude(v, type) ==
  IF "SIGN" \in type /\ Negative(v) THEN Negated(v) ELSE v

Sign(v, type) ==
  IF "SIGN" \in type /\ Negative(v) THEN <<"-">>
  ELSE IF "PLUS" \in type THEN <<"+">>
  ELSE IF "SPACE" \in type THEN <<" ">> ELSE <<>>

Special(base, type) ==
  IF "SPECIAL" \notin type THEN <<>>
  ELSE IF base = 8 THEN <<"0">>
  ELSE IF base = 16 THEN <<"0", IF "SMALL" \in type THEN "x" ELSE "X">>
  ELSE <<>>

number(v, base, size, precision, type) ==
  LET digits == IF "SMALL" \in type THEN Lower ELSE Upper
      tmp == DigitsOf(Magnitude(v, type), base, digits)
      front == Sign(v, type) \o Special(base, type)
      body == Copies("0", precision - Len(tmp)) \o tmp
      pad == size - Len(front) - Len(body)
  IN  IF "LEFT" \in type THEN front \o body \o Copies(" ", pad)
      ELSE IF "ZEROPAD" \in type THEN front \o Copies("0", pad) \o body
      ELSE Copies(" ", pad) \o front \o body

(* ucvt: a negative base means a signed number, and LEFT_PAD means the     *)
(* right side.  dcvt calls it with the base negated.                       *)
ucvt(v, base, width, flag) ==
  LET minus == base < 0 /\ Negative(v)
      front == IF minus THEN <<"-">>
               ELSE IF "ADD_PLUS" \in flag THEN <<"+">> ELSE <<>>
      tmp == DigitsOf(IF minus THEN Negated(v) ELSE v,
                      IF base < 0 THEN -base ELSE base, Upper)
      pad == width - Len(front) - Len(tmp)
      spaces == IF "SPACE_PAD" \in flag THEN Copies(" ", pad) ELSE <<>>
      zeros == IF "ZERO_PAD" \in flag /\ spaces = <<>> THEN Copies("0", pad)
               ELSE <<>>
  IN  IF "LEFT_PAD" \in flag THEN front \o tmp \o spaces
      ELSE spaces \o front \o zeros \o tmp

-----------------------------------------------------------------------------
(* What strtol, strtoul and strtoi begin with: blanks, a sign, a prefix.   *)
After(s, chars) ==
  LET rest == {i \in DOMAIN s : s[i] \notin chars}
  IN  IF rest = {} THEN <<>> ELSE SubSeq(s, Min(rest), Len(s))
SignOf(s) == IF s # <<>> /\ s[1] \in {"-", "+"} THEN <<s[1]>> ELSE <<>>
Unsigned(s) == SubSeq(s, Len(SignOf(s)) + 1, Len(s))
HexPrefix(s, base) ==
  base \in {0, 16} /\ Len(s) >= 2 /\ s[1] = "0" /\ s[2] \in {"x", "X"}
Base(s, base) ==
  IF HexPrefix(s, base) THEN 16
  ELSE IF base # 0 THEN base
  ELSE IF s # <<>> /\ s[1] = "0" THEN 8 ELSE 10
Digits(s, base) ==
  LET t == IF HexPrefix(s, base) THEN SubSeq(s, 3, Len(s)) ELSE s
      ends == {i \in DOMAIN t :
                 ~IsDigit(t[i]) \/ DigitOf[t[i]] >= Base(s, base)}
  IN  SubSeq(t, 1, Min(ends \cup {Len(t) + 1}) - 1)

(* The loop over the digits, up to a limit: Overflow when the number is    *)
(* larger.  The last digit is compared with the remainder, which the       *)
(* mutant forgets.                                                         *)
Overflow == -1
PastLimitLate(acc, digit, limit, base) == acc > limit \div base
PastLimit(acc, digit, limit, base) ==
  acc > limit \div base \/ (acc = limit \div base /\ digit > limit % base)
Accumulated(digits, limit, base) ==
  LET acc[i \in 0 .. Len(digits)] ==
        IF i = 0 THEN 0
        ELSE LET before == acc[i - 1]
                 digit == DigitOf[digits[i]]
             IN  IF before = Overflow \/ PastLimit(before, digit, limit, base)
                 THEN Overflow ELSE before * base + digit
  IN  acc[Len(digits)]

strtol(s, base) ==
  LET t == After(s, {" "})
      neg == SignOf(t) = <<"-">>
      limit == IF neg THEN LONG_MAX + 1 ELSE LONG_MAX
      acc == Accumulated(Digits(Unsigned(t), base), limit,
                         Base(Unsigned(t), base))
      value == IF acc = Overflow THEN limit ELSE acc
  IN  IF neg THEN Negated(value) ELSE value

strtoul(s, base) ==
  LET t == After(s, {" "})
      acc == Accumulated(Digits(Unsigned(t), base), Word - 1,
                         Base(Unsigned(t), base))
  IN  IF acc = Overflow THEN Word - 1
      ELSE IF SignOf(t) = <<"-">> THEN Negated(acc) ELSE acc

(* strtoi wraps around and notices when a sum is smaller than the one      *)
(* before; blanks are no part of a number to it, nor are small letters.    *)
strtoi(s, base) ==
  LET t == After(Unsigned(s), {"0"})
      ends == {i \in DOMAIN t : \A d \in 1 .. base : t[i] # Upper[d]}
      digits == SubSeq(t, 1, Min(ends \cup {Len(t) + 1}) - 1)
      sum[i \in 0 .. Len(digits)] ==
        IF i = 0 THEN 0
        ELSE (sum[i - 1] * base + DigitOf[digits[i]]) % Word
      overflow == \E i \in DOMAIN digits : Signed(sum[i - 1]) > Signed(sum[i])
      value == IF overflow THEN LONG_MAX ELSE sum[Len(digits)]
  IN  IF SignOf(s) = <<"-">> THEN Negated(value) ELSE value

=============================================================================
