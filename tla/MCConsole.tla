----------------------------- MODULE MCConsole -----------------------------
(***************************************************************************)
(* What the kernel prints, as the two halves of kprint: vsprintf makes the *)
(* text, for every format, and the console shows and logs it, for a few    *)
(* strings.  vsprintf keeps nothing between two calls and the console has  *)
(* no use for the format, so that the calls are all taken first; between   *)
(* them and the printing nothing is left over but that they have returned. *)
(***************************************************************************)
EXTENDS Console, Format

(* Every character of the switch in putc, alone and between letters; the   *)
(* empty string is what kprint("%c", 0) makes of a code typed on the pad.  *)
MCStrings == {
  <<"a", "nl">>, <<"a", "b", "bs">>, <<"cr">>, <<"tab", "a", "b">> }
MCTyped == { <<"t">>, <<"nul">>, <<"t", "u", "bs">> }

(* Stars of both signs.                                                    *)
MCStars == {-3, 2}
MCWidths == {0, 5}

PrintInit == Init /\ FormatInit
PrintNext ==
  \/ frames = <<>> /\ said = <<>> /\ FormatNext /\ UNCHANGED consoleVars
  \/ pc = "returned" /\ Next /\ UNCHANGED formatVars
PrintSpec == PrintInit /\ [][PrintNext]_<<consoleVars, formatVars>>
=============================================================================
