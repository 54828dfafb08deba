------------------------------ MODULE Console ------------------------------
(***************************************************************************)
(* The console and the log of the kernel: putc and what it calls           *)
(* (src/video.c), kprint and klogcat (src/kernel.c).  kprint puts a string *)
(* on the page character by character, each with interrupts disabled, and  *)
(* appends it to the log in steps that an interrupt handler, which prints  *)
(* too, may come between.                                                  *)
(*                                                                         *)
(* Of the page the cells that show text are kept, numbered from its first  *)
(* one; of the log every byte from kprint_log on, the buffer and MaxPast   *)
(* bytes behind it, which klogcat writes too once the buffer is full.      *)
(* Whatever is there belongs to other variables of the kernel; that their  *)
(* owners leave those bytes alone meanwhile is an assumption of the model. *)
(***************************************************************************)
EXTENDS Integers, Sequences, FiniteSetsExt

CONSTANTS
  MaxW, MaxH, \* max_w and max_h, columns and rows
  Tab,        \* TAB_SIZE, also the number of cells a tab writes
  LogSize,    \* LOG_SIZE
  MaxPast,    \* bound of the model: the bytes followed behind kprint_log
  Strings,    \* what the kernel prints, sequences of characters
  Typed       \* what the handler of the keyboard prints

ASSUME ConsoleAssumption ==
  /\ Strings \cup Typed \subseteq Seq(STRING)
  /\ {MaxW, MaxH, Tab, LogSize, MaxPast} \subseteq Nat \ {0}
  /\ Tab <= MaxW /\ MaxPast <= LogSize
  /\ \A str \in Strings \cup Typed : 2 * Len(str) <= LogSize + 1

Controls == {"nul", "cr", "nl", "bs", "tab"}
Bytes == 0 .. LogSize + MaxPast - 1

VARIABLES
  x, y,      \* the cursor of curpage
  ink,       \* the cells that show a character
  spilled,   \* cells past the page that were written
  log,       \* the bytes from kprint_log on
  frames,    \* the running calls of kprint, the innermost first
  said,      \* the last LogSize characters given to strcat
  whole,     \* said is all there was
  returned,  \* a carriage return came after the last new line
  disturbed  \* a kprint came between the steps of a klogcat (never reset)

page == <<x, y, ink, spilled, returned>>
logged == <<log, said, whole>>
consoleVars == <<page, logged, frames, disturbed>>

Init ==
  /\ x = 0 /\ y = 0 /\ ink = {} /\ spilled = {}
  /\ log = [i \in Bytes |-> IF i < LogSize THEN "nul" ELSE "other"]
  /\ frames = <<>>
  /\ said = <<>> /\ whole = TRUE /\ returned = FALSE /\ disturbed = FALSE

-----------------------------------------------------------------------------
(* putc: the switch over the character moves the cursor and writes cells.  *)
Cell == x + MaxW * y
Moved(ch) ==
  CASE ch = "cr" -> [x |-> 0, y |-> y]
    [] ch = "nl" -> [x |-> 0, y |-> y + 1]
    [] ch = "bs" -> [x |-> IF x = 0 THEN 0 ELSE x - 1, y |-> y]
    [] ch = "tab" -> [x |-> x + Tab, y |-> y]
    [] ch = "nul" -> [x |-> x, y |-> y]
    [] OTHER -> [x |-> x + 1, y |-> y]
Blanked(ch) ==
  CASE ch = "tab" -> Cell .. Cell + Tab - 1
    [] ch = "bs" /\ x > 0 -> {Cell - 1}
    [] OTHER -> {}
Printed(ch) == IF ch \in Controls THEN {} ELSE {Cell}

(* Then a cursor past the line goes to the next, and one past the page     *)
(* scrolls it.  The mutants are late by one, or leave the last line.       *)
WrappedLate(c) ==
  IF c.x > MaxW THEN [x |-> c.x % MaxW, y |-> c.y + c.x \div MaxW] ELSE c
Wrapped(c) == [x |-> c.x % MaxW, y |-> c.y + c.x \div MaxW]
PastPageLate(c) == c.y > MaxH
PastPage(c) == c.y >= MaxH
ScrolledUncleared(cells) ==
  {c - MaxW : c \in {c \in cells : c >= MaxW}}
    \cup {c \in cells : c >= MaxW * (MaxH - 1)}
Scrolled(cells) == {c - MaxW : c \in {c \in cells : c >= MaxW}}

Putc(ch) ==
  LET c == Wrapped(Moved(ch))
      cells == (ink \ Blanked(ch)) \cup Printed(ch)
  IN  /\ x' = c.x
      /\ IF PastPage(c) THEN y' = MaxH - 1 /\ ink' = Scrolled(cells)
         ELSE y' = c.y /\ ink' = cells
      /\ spilled' = spilled \cup {d \in Blanked(ch) : d >= MaxW * MaxH}
      /\ returned' = (ch = "cr" \/ (ch # "nl" /\ returned))

-----------------------------------------------------------------------------
(* kprint.  A call may come between two steps of another one, which goes   *)
(* on when it ends; the handler masks its interrupt, so there are two at   *)
(* most.                                                                   *)
Top == Head(frames)
At(place) == frames # <<>> /\ Top.at = place
GoesTo(place) == frames' = <<[Top EXCEPT !.at = place]>> \o Tail(frames)
Call(str) == frames' = <<[at |-> "print", i |-> 0, str |-> str]>> \o frames

Kprint ==
  /\ frames = <<>>
  /\ \E str \in Strings : Call(str)
  /\ UNCHANGED <<page, logged, disturbed>>

KeyPrints ==
  /\ Len(frames) = 1
  /\ \E str \in Typed : Call(str)
  /\ disturbed' = (disturbed \/ Top.at \in {"shift", "append"})
  /\ UNCHANGED <<page, logged>>

Printc ==
  /\ At("print") /\ Top.i < Len(Top.str)
  /\ Putc(Top.str[Top.i + 1])
  /\ frames' = <<[Top EXCEPT !.i = @ + 1]>> \o Tail(frames)
  /\ UNCHANGED <<logged, disturbed>>

(* klogcat.  strlen follows the log over the end of the buffer when there  *)
(* is no 0 in it; the shift moves what is in the buffer, up to its end.    *)
(* The mutant makes room for the string twice.                             *)
Strlen(str) ==
  Min({i \in 0 .. Len(str) : i < Len(str) => str[i + 1] = "nul"})
LogLen ==
  Min({i \in 0 .. LogSize + MaxPast : i \in Bytes => log[i] = "nul"})

TooLong(str) == LogLen + Strlen(str) > LogSize
Measure ==
  /\ At("print") /\ Top.i = Len(Top.str)
  /\ GoesTo(IF TooLong(Top.str) THEN "shift" ELSE "append")
  /\ UNCHANGED <<page, logged, disturbed>>

ShiftedTwice(s) ==
  [i \in Bytes |-> IF i < LogSize - 2 * s THEN log[i + 2 * s] ELSE log[i]]
Shifted(s) ==
  [i \in Bytes |-> IF i < LogSize - s THEN log[i + s] ELSE log[i]]
Shift ==
  /\ At("shift")
  /\ log' = Shifted(Strlen(Top.str))
  /\ GoesTo("append")
  /\ UNCHANGED <<page, said, whole, disturbed>>

(* strcat: the string and its 0 from the end of the log on, wherever that  *)
(* is, so that a log which was exactly full goes on behind the buffer.     *)
LastOf(str, n) ==
  IF Len(str) <= n THEN str ELSE SubSeq(str, Len(str) - n + 1, Len(str))
Strcat ==
  LET str == SubSeq(Top.str, 1, Strlen(Top.str))
      end == LogLen + Len(str)
  IN  /\ At("append") /\ end \in Bytes
      /\ log' = [i \in Bytes |-> IF i \in LogLen .. end - 1
                                THEN str[i - LogLen + 1]
                                ELSE IF i = end THEN "nul" ELSE log[i]]
      /\ said' = LastOf(said \o str, LogSize)
      /\ whole' = (whole /\ Len(said \o str) <= LogSize)
      /\ frames' = Tail(frames)
      /\ UNCHANGED <<page, disturbed>>

Next == Kprint \/ KeyPrints \/ Printc \/ Measure \/ Shift \/ Strcat
Spec == Init /\ [][Next]_consoleVars

-----------------------------------------------------------------------------
(* Types: between two characters the cursor is on the page.                *)
TypeOK ==
  /\ x \in 0 .. MaxW - 1 /\ y \in 0 .. MaxH - 1
  /\ LogLen \in Bytes /\ Len(frames) <= 2 /\ Len(said) <= LogSize
  /\ {whole, returned, disturbed} \subseteq BOOLEAN

(* What putc writes stays on the page, or near: a tab in the last line     *)
(* blanks up to Tab - 1 cells behind the page.                             *)
WritesNear ==
  /\ ink \subseteq 0 .. MaxW * MaxH - 1
  /\ spilled \subseteq MaxW * MaxH .. MaxW * MaxH + Tab - 2

(* No text stands at the cursor or behind it, so that nothing printed      *)
(* covers older text, through tabs, scrolling and backspaces, unless a     *)
(* carriage return has put the cursor back on its line.                    *)
NoTextAhead == ~returned => \A c \in ink : c < Cell

PageIntact == WritesNear /\ NoTextAhead

(* A log that ends in its buffer is the end of what was printed, in whole  *)
(* strings and in the order they reached strcat, whatever interrupted a    *)
(* klogcat between its steps.  One that does not, as it was exactly full   *)
(* or a handler took the room klogcat had made, holds behind its buffer    *)
(* all that was printed since.                                             *)
LogText(first) == [i \in 1 .. LogLen - first |-> log[first + i - 1]]
LogInOrder ==
  LET first == IF LogLen < LogSize THEN 0 ELSE LogSize
  IN  LogText(first) = LastOf(said, LogLen - first)

(* And the log in its buffer is all that was printed, or so long that one  *)
(* of the strings would not fit; except while a klogcat shifts it, and     *)
(* once a kprint came between the steps of another.                        *)
Longest == Max({Len(str) : str \in Strings \cup Typed})
LogLong ==
  LogLen < LogSize /\ ~disturbed
    /\ (\A k \in DOMAIN frames : frames[k].at # "append") =>
    \/ whole /\ LogLen = Len(said)
    \/ LogLen + Longest > LogSize

LogIsRecent == LogInOrder /\ LogLong

=============================================================================
