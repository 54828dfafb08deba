\* The formats, and the console with its log up to three bytes too long.
SPECIFICATION PrintSpec
CONSTANTS
  MaxW = 3
  MaxH = 2
  Tab = 2
  LogSize = 5
  MaxPast = 3
  Strings <- MCStrings
  Typed <- MCTyped
  Bits = 6
  MaxNumber = 11
  Stars <- MCStars
  Widths <- MCWidths
INVARIANTS
  TypeOK
  PageIntact
  
  StaysInFormat
  NumbersReadBack
CHECK_DEADLOCK FALSE
