----------------------------- MODULE MCKeyboard -----------------------------
(* What the user types on: the keys that restart the machine, the two Alts *)
(* with the pad, the shifts with a letter, a lock, Caps Lock with a key of *)
(* two bytes, and Pause, whose codes are also Num Lock's.                  *)
EXTENDS Keyboard

MCKeySets == {
  {"lctrl", "rctrl", "alt", "del"},
  {"alt", "altgr", "pad"},
  {"lshift", "rshift", "letter"},
  {"scroll"},
  {"caps", "rctrl"},
  {"pause"} }
=============================================================================
