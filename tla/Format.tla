------------------------------- MODULE Format -------------------------------
(***************************************************************************)
(* vsprintf, src/var/vsprintf.c: the format is read character by           *)
(* character, each as the step that reads it meets it, so that formats of  *)
(* every length are followed; what a directive writes is kept until the    *)
(* next begins.  A caller of ucvt, src/var/stdlib.c, may come between.     *)
(***************************************************************************)
EXTENDS Numbers

CONSTANTS
  MaxNumber,  \* bound of the model: the numbers in a format, and lengths
  Stars,      \* what a caller passes for a * in a format
  Widths      \* the widths ucvt is called with

ASSUME FormatAssumption ==
  MaxNumber \in Nat /\ Stars \subseteq Int /\ Widths \subseteq Nat

VARIABLES
  pc,           \* what vsprintf does next
  c,            \* *fmt
  flags,        \* the flags of the directive
  field_width,  \* -1 when there is none
  precision,    \* -1 when there is none
  arg,          \* the number it converts
  piece         \* what it wrote

formatVars == <<pc, c, flags, field_width, precision, arg, piece>>

NUL == "NUL"
FlagChars == {"-", "+", " ", "#", "0"}
FlagOf == [f \in FlagChars |->
  CASE f = "-" -> "LEFT" [] f = "+" -> "PLUS" [] f = " " -> "SPACE"
    [] f = "#" -> "SPECIAL" [] f = "0" -> "ZEROPAD"]
Decimals == {"0", "1"}   \* two of the ten
Numeric == {"d", "u", "x", "X", "o", "p"}
Chars == FlagChars \cup Decimals \cup Numeric \cup
         {"%", "*", ".", "l", "c", "s", "n", "q", NUL}

(* ++fmt: past the terminator there is nothing to read.  A digit comes     *)
(* only where the number stays within the bound of the model.              *)
Advance(then, number1) ==
  IF c = NUL THEN pc' = "past" /\ c' = c
  ELSE /\ pc' = then
       /\ c' \in IF number1 * 10 > MaxNumber THEN Chars \ Decimals ELSE Chars

Stay(then) == pc' = then /\ c' = c

Reset ==
  /\ flags' = {} /\ field_width' = -1 /\ precision' = -1
  /\ arg' = 0 /\ piece' = <<>>

FormatInit ==
  /\ pc = "char" /\ c \in Chars
  /\ flags = {} /\ field_width = -1 /\ precision = -1
  /\ arg = 0 /\ piece = <<>>

-----------------------------------------------------------------------------
Copy ==
  /\ pc = "char" /\ c \notin {"%", NUL}
  /\ Advance("char", 0) /\ Reset

Directive ==
  /\ pc = "char" /\ c = "%"
  /\ Advance("flags", 0) /\ Reset

Flag ==
  /\ pc = "flags" /\ c \in FlagChars
  /\ flags' = flags \cup {FlagOf[c]}
  /\ Advance("flags", 0)
  /\ UNCHANGED <<field_width, precision, arg, piece>>

(* The field width: digits, by skip_atoi, or a star, behind which fmt      *)
(* stays: it is then the character of the conversion.                      *)
SkipAtoi(n) == n * 10 + DigitOf[c]

FieldWidth ==
  /\ pc = "flags" /\ c \notin FlagChars
  /\ \/ /\ c \in Decimals
        /\ field_width' = DigitOf[c] /\ flags' = flags
        /\ Advance("width", DigitOf[c])
     \/ /\ c = "*" /\ Stay("dot")
        /\ \E n \in Stars :
             /\ field_width' = IF n < 0 THEN -n ELSE n
             /\ flags' = IF n < 0 THEN flags \cup {"LEFT"} ELSE flags
     \/ /\ c \notin Decimals \cup {"*"} /\ Stay("dot")
        /\ UNCHANGED <<field_width, flags>>
  /\ UNCHANGED <<precision, arg, piece>>

WidthDigit ==
  /\ pc = "width"
  /\ IF c \in Decimals
     THEN field_width' = SkipAtoi(field_width)
          /\ Advance("width", SkipAtoi(field_width))
     ELSE field_width' = field_width /\ Stay("dot")
  /\ UNCHANGED <<flags, precision, arg, piece>>

Dot ==
  /\ pc = "dot"
  /\ IF c = "." THEN Advance("point", 0) ELSE Stay("qualifier")
  /\ UNCHANGED <<flags, field_width, precision, arg, piece>>

Precision ==
  /\ pc = "point"
  /\ \/ /\ c \in Decimals
        /\ precision' = DigitOf[c] /\ Advance("precision", DigitOf[c])
     \/ /\ c = "*" /\ Stay("qualifier")
        /\ \E n \in Stars : precision' = Max({n, 0})
     \/ /\ c \notin Decimals \cup {"*"} /\ Stay("qualifier")
        /\ precision' = 0
  /\ UNCHANGED <<flags, field_width, arg, piece>>

PrecisionDigit ==
  /\ pc = "precision"
  /\ IF c \in Decimals
     THEN precision' = SkipAtoi(precision)
          /\ Advance("precision", SkipAtoi(precision))
     ELSE precision' = precision /\ Stay("qualifier")
  /\ UNCHANGED <<flags, field_width, arg, piece>>

Qualifier ==
  /\ pc = "qualifier"
  /\ IF c = "l" THEN Advance("convert", 0) ELSE Stay("convert")
  /\ UNCHANGED <<flags, field_width, precision, arg, piece>>

-----------------------------------------------------------------------------
BaseOf(conversion) ==
  CASE conversion \in {"d", "u"} -> 10 [] conversion = "o" -> 8 [] OTHER -> 16

(* x falls through to X, d to u; p has a width of its own.                 *)
ConvertNumber ==
  /\ pc = "convert" /\ c \in Numeric
  /\ flags' = flags \cup (CASE c = "x" -> {"SMALL"} [] c = "d" -> {"SIGN"}
                            [] c = "p" /\ field_width = -1 -> {"ZEROPAD"}
                            [] OTHER -> {})
  /\ field_width' = IF c = "p" /\ field_width = -1 THEN 8 ELSE field_width
  /\ \E v \in Words :
       /\ arg' = v
       /\ piece' = number(v, BaseOf(c), field_width', precision, flags')
  /\ Stay("written") /\ UNCHANGED precision

Padded(text) ==
  LET pad == Copies(" ", field_width - Len(text))
  IN  IF "LEFT" \in flags THEN text \o pad ELSE pad \o text

(* A character, a string of which the precision is the most that is        *)
(* written, the count of characters, a percent sign.                       *)
ConvertText ==
  /\ pc = "convert" /\ c \in {"c", "s", "n", "%"}
  /\ \/ c = "c" /\ piece' = Padded(<<"z">>)
     \/ /\ c = "s"
        /\ \E len \in 0 .. MaxNumber :
             piece' = Padded(Copies("z", IF precision < 0 THEN len
                                         ELSE Min({len, precision})))
     \/ c = "n" /\ piece' = <<>>
     \/ c = "%" /\ piece' = <<"%">>
  /\ Stay("written")
  /\ UNCHANGED <<flags, field_width, precision, arg>>

(* Anything else is copied behind a percent sign.  At the terminator fmt   *)
(* goes back by one, for the loop to come to it again; the mutant does not.*)
AtEndForward == Stay("written")
AtEnd == Stay("char")

ConvertOther ==
  /\ pc = "convert" /\ c \in Chars \ (Numeric \cup {"c", "s", "n", "%"})
  /\ IF c = NUL THEN AtEnd ELSE Stay("written")
  /\ piece' = IF c = NUL THEN <<"%">> ELSE <<"%", c>>
  /\ UNCHANGED <<flags, field_width, precision, arg>>

NextChar ==
  /\ pc = "written"
  /\ Advance("char", 0) /\ Reset

(* The end of a call, and the next one.                                    *)
Returns ==
  /\ pc = "char" /\ c = NUL
  /\ Stay("returned") /\ Reset

Calls ==
  /\ pc = "returned"
  /\ pc' = "char" /\ c' \in Chars /\ Reset

Ucvt ==
  /\ pc = "returned"
  /\ \E v \in Words, base \in {8, 10, 16, -10}, width \in Widths :
       \E flag \in SUBSET {"ADD_PLUS", "SPACE_PAD", "ZERO_PAD", "LEFT_PAD"} :
         /\ arg' = v
         /\ piece' = ucvt(v, base, width, flag)
         /\ c' = CASE base = -10 -> "d" [] base = 10 -> "u"
                   [] base = 8 -> "o" [] OTHER -> "X"
         /\ flags' = {"ucvt"} /\ field_width' = width
  /\ pc' = "ucvt" /\ UNCHANGED precision

UcvtReturns == pc = "ucvt" /\ pc' = "returned" /\ c' = NUL /\ Reset

FormatNext ==
  \/ Copy \/ Directive \/ Flag \/ FieldWidth \/ WidthDigit \/ Dot
  \/ Precision \/ PrecisionDigit \/ Qualifier
  \/ ConvertNumber \/ ConvertText \/ ConvertOther \/ NextChar
  \/ Returns \/ Calls \/ Ucvt \/ UcvtReturns

FormatSpec == FormatInit /\ [][FormatNext]_formatVars

-----------------------------------------------------------------------------
(* vsprintf never reads past the end of the format, wherever a directive   *)
(* breaks off.                                                             *)
StaysInFormat == pc # "past"

(* What is written is read back: by strtoul whatever it was, by strtol and *)
(* strtoi unless it does not fit a long, for which they answer the nearest *)
(* that does, strtoi one more than the least.  Nothing but the width, the  *)
(* precision and the number itself makes it as long as it is.              *)
IsNumber == pc \in {"written", "ucvt"} /\ c \in Numeric
Clamped(v) == IF c # "d" /\ Negative(v) THEN LONG_MAX ELSE v
LeastRaised(v) == IF v = LONG_MAX + 1 THEN v + 1 ELSE v
Needed ==
  LET magnitude == IF c = "d" THEN (IF Negative(arg) THEN Word - arg ELSE arg)
                   ELSE arg
      k == Min({k \in 1 .. Bits : magnitude < Power(BaseOf(c), k)})
      signed == (c = "d" /\ Negative(arg)) \/ piece[1] = "+"
                  \/ flags \cap {"PLUS", "SPACE"} # {}
  IN  (IF signed THEN 1 ELSE 0) + Max({precision, k})
        + (IF "SPECIAL" \notin flags \/ BaseOf(c) = 10 THEN 0
           ELSE BaseOf(c) \div 8)
NumbersReadBack ==
  IsNumber =>
    /\ strtoul(piece, BaseOf(c)) = arg
    /\ strtol(piece, BaseOf(c)) = Clamped(arg)
    /\ piece[1] # " " /\ BaseOf(c) = 10 =>
         strtoi(piece, 10) = LeastRaised(Clamped(arg))
    /\ "ucvt" \notin flags => Len(piece) = Max({field_width, Needed})

=============================================================================
