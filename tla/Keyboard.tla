------------------------------ MODULE Keyboard ------------------------------
(***************************************************************************)
(* The keyboard driver and the entry code of its interrupt: init_irq and   *)
(* enable_irq (src/irq.c), HWINT_MASTER (src/asm.S) and everything under   *)
(* keyboard_interrupt (src/dev/keyboard.c).  The handler runs with         *)
(* interrupts enabled and only its own request masked; while it waits for  *)
(* the answers to a led command the user goes on typing.                   *)
(*                                                                         *)
(* The left and the right key of a pair send the same code, the right one  *)
(* after the prefix E0; the Pause key sends the codes of others after E1.  *)
(* pad and del are keys of the numeric pad.  The keyboard, its controller  *)
(* and the interrupt controller are modelled from how the code uses them.  *)
(***************************************************************************)
EXTENDS Integers, Sequences

CONSTANTS
  KeySets,  \* possible sets of keys the user types on
  WireMax,  \* the user types while fewer bytes wait for the controller
  Polls     \* 0x10000, how often kb_wait and kb_ack look at a port

Pairs == {"lctrl", "rctrl", "alt", "altgr"}
Locks == {"num", "scroll"}
Keys == Pairs \cup Locks \cup
        {"lshift", "rshift", "caps", "letter", "pad", "del", "pause"}

ASSUME KeyboardAssumption ==
  /\ KeySets \subseteq SUBSET Keys
  /\ WireMax \in Nat /\ Polls \in Nat \ {0}

VARIABLES
  keys,      \* the keys the user types on
  held,      \* those that are down
  wire,      \* bytes the keyboard has not delivered yet
  obuf,      \* output buffer of the controller: [full, byte]; port 0x60
  ibuf,      \* its input buffer, a set of at most one command
  device,    \* the keyboard: the leds it shows, whether it expects a value
  masked,    \* bit 1 of the mask of the master interrupt controller
  pending,   \* an interrupt is requested
  installed, \* init_keyboard: how much of it is done
  frames,    \* the running handlers, the innermost first
  kmode, ke0, kleds, old_leds, npadch,
  muddled,   \* a byte of a key was lost or handled twice (never reset)
  hurried,   \* a command was sent before the last was taken (never reset)
  asked      \* Del was pressed with a Ctrl and an Alt down (never reset)

hardware == <<wire, obuf, ibuf, device>>
irq == <<masked, pending, installed>>
modes == <<kmode, ke0, kleds, old_leds, npadch>>
notes == <<muddled, hurried, asked>>
keyboardVars == <<keys, held, hardware, irq, frames, modes, notes>>

-----------------------------------------------------------------------------
(* The bytes of the keys.                                                  *)
Byte(code, up) == [code |-> code, up |-> up]
E0 == Byte("E0", FALSE)
E1 == Byte("E1", FALSE)
ACK == Byte("ACK", FALSE)
Code(k) ==
  IF k \in {"lctrl", "rctrl"} THEN "ctrl"
  ELSE IF k \in {"alt", "altgr"} THEN "alt" ELSE k
Bytes(k, up) ==
  IF k = "pause"
  THEN <<E1, Byte("ctrl", FALSE), Byte("num", FALSE),
         E1, Byte("ctrl", TRUE), Byte("num", TRUE)>>
  ELSE IF k \in {"rctrl", "altgr"} THEN <<E0, Byte(Code(k), up)>>
  ELSE <<Byte(Code(k), up)>>

Ctrls == {"lctrl", "rctrl"}
Alts == {"alt", "altgr"}

Press(k) ==
  /\ k \in keys
  /\ k = "pause" => held \cap Ctrls = {}
  /\ Len(wire) < WireMax
  /\ wire' = wire \o Bytes(k, FALSE)
  /\ held' = IF k = "pause" THEN held ELSE held \cup {k}
  /\ asked' = (asked \/ (/\ k = "del"
                         /\ held \cap Ctrls # {} /\ held \cap Alts # {}))
  /\ UNCHANGED <<keys, obuf, ibuf, device, irq, frames, modes, muddled,
                 hurried>>

Release(k) ==
  /\ k \in held
  /\ Len(wire) < WireMax
  /\ wire' = wire \o Bytes(k, TRUE)
  /\ held' = held \ {k}
  /\ UNCHANGED <<keys, obuf, ibuf, device, irq, frames, modes, notes>>

(* The controller offers the next byte and requests an interrupt.          *)
Arrives ==
  /\ ~obuf.full /\ wire # <<>>
  /\ obuf' = [full |-> TRUE, byte |-> Head(wire)]
  /\ wire' = Tail(wire)
  /\ pending' = TRUE
  /\ UNCHANGED <<keys, held, ibuf, device, masked, installed, frames, modes,
                 notes>>

(* The keyboard takes a command and answers it: the led command, or the    *)
(* leds that follow it.                                                    *)
SetLeds == [command |-> "leds", value |-> {}]
Value(leds) == [command |-> "value", value |-> leds]
Obeys ==
  \E c \in ibuf :
    /\ Len(wire) < WireMax
    /\ ibuf' = {}
    /\ wire' = Append(wire, ACK)
    /\ device' = [leds |-> IF c # SetLeds /\ device.expects THEN c.value
                           ELSE device.leds,
                  expects |-> c = SetLeds]
    /\ UNCHANGED <<keys, held, obuf, irq, frames, modes, notes>>

-----------------------------------------------------------------------------
(* init_irq masks every request; the keyboard has switched no led itself.  *)
Init ==
  /\ keys \in KeySets /\ held = {}
  /\ wire = <<>> /\ obuf = [full |-> FALSE, byte |-> Byte("none", TRUE)]
  /\ ibuf = {} /\ device = [leds |-> {"NUMLED"}, expects |-> FALSE]
  /\ masked = TRUE /\ pending = FALSE /\ installed = "no"
  /\ frames = <<>>
  /\ kmode = {} /\ ke0 = 0 /\ kleds = {"NUMLED"} /\ old_leds = {"NUMLED"}
  /\ npadch = FALSE
  /\ muddled = FALSE /\ hurried = FALSE /\ asked = FALSE

(* init_keyboard: the handler, then the mask.                              *)
AddHandler ==
  /\ installed = "no" /\ installed' = "handler"
  /\ UNCHANGED <<keys, held, hardware, masked, pending, frames, modes, notes>>

EnableIrq ==
  /\ installed = "handler" /\ installed' = "enabled"
  /\ masked' = FALSE
  /\ UNCHANGED <<keys, held, hardware, pending, frames, modes, notes>>

(* HWINT_MASTER(1): its own request is masked before interrupts are        *)
(* enabled for the handler, and unmasked after; the mutant does not mask   *)
(* it.  The model follows two handlers at most.                            *)
EnterUnmasked == masked' = masked
EnterMasks == masked' = TRUE
Frame(at) == [at |-> at, byte |-> ACK, i |-> 0]
Enter ==
  /\ pending /\ ~masked /\ Len(frames) < 2
  /\ pending' = FALSE
  /\ EnterMasks
  /\ frames' = <<Frame("read")>> \o frames
  /\ UNCHANGED <<keys, held, hardware, installed, modes, notes>>

Top == Head(frames)
At(place) == frames # <<>> /\ Top.at = place
Becomes(frame) == frames' = <<frame>> \o Tail(frames)
GoesTo(place) == Becomes([Top EXCEPT !.at = place, !.i = 0])

Leave ==
  /\ At("end")
  /\ masked' = FALSE
  /\ frames' = Tail(frames)
  /\ UNCHANGED <<keys, held, hardware, pending, installed, modes, notes>>

-----------------------------------------------------------------------------
(* keyboard_interrupt.  Reading the port empties the buffer; an empty      *)
(* buffer gives the last byte once more, which happens when kb_ack took    *)
(* the byte that the interrupt announced.                                  *)
Read ==
  /\ At("read")
  /\ obuf' = [obuf EXCEPT !.full = FALSE]
  /\ Becomes([Top EXCEPT !.at = "table", !.byte = obuf.byte])
  /\ muddled' = (muddled \/ (~obuf.full /\ obuf.byte # ACK))
  /\ UNCHANGED <<keys, held, wire, ibuf, device, irq, modes, hurried, asked>>

Prefix ==
  /\ At("table") /\ Top.byte \in {E0, E1}
  /\ ke0' = IF Top.byte = E0 THEN 1 ELSE 2
  /\ GoesTo("end")
  /\ UNCHANGED <<keys, held, hardware, irq, kmode, kleds, old_leds, npadch,
                 notes>>

(* An entry of key_table that returns; ke0 is reset after it.              *)
Entry(code, up) == At("table") /\ Top.byte = Byte(code, up)
Done(mode, npad) ==
  /\ kmode' = mode /\ npadch' = npad /\ ke0' = 0
  /\ GoesTo("end")
  /\ UNCHANGED <<keys, held, hardware, irq, kleds, old_leds, notes>>

(* The bit of kmode for a code; the mutant forgets the prefix.             *)
BitUnprefixed(code) ==
  [ctrl |-> "LCTRL", alt |-> "ALT", lshift |-> "LSHIFT",
   rshift |-> "RSHIFT"][code]
Bit(code) ==
  [ctrl |-> IF ke0 # 0 THEN "RCTRL" ELSE "LCTRL",
   alt |-> IF ke0 # 0 THEN "ALTGR" ELSE "ALT",
   lshift |-> "LSHIFT", rshift |-> "RSHIFT"][code]

ModifierDown ==
  \E code \in {"ctrl", "alt", "lshift", "rshift"} :
    Entry(code, FALSE) /\ Done(kmode \cup {Bit(code)}, npadch)

(* Releasing the left Alt prints the code typed on the pad, if any.  The   *)
(* mutants clear the bit of the left key, and keep the code.               *)
ClearedLeft(code) == kmode \ {BitUnprefixed(code)}
Cleared(code) == kmode \ {Bit(code)}
NpadchKept(code) == npadch
NpadchLeft(code) == npadch /\ (code = "alt" => ke0 # 0)
ModifierUp ==
  \E code \in {"ctrl", "alt", "lshift", "rshift"} :
    /\ Entry(code, TRUE)
    /\ Done(Cleared(code), NpadchLeft(code))

(* The codes that print, and those without effect.                         *)
Prints == Entry("letter", FALSE) /\ Done(kmode, npadch)
Nothing ==
  /\ At("table")
  /\ \/ Top.byte = ACK
     \/ Top.byte.up /\ Top.byte.code \notin {"ctrl", "alt", "lshift",
                                             "rshift", "caps"}
  /\ Done(kmode, npadch)

(* cursor: a digit of the pad belongs to a code while Alt is down, and Del *)
(* restarts the machine while Ctrl and Alt are.                            *)
Pad ==
  /\ Entry("pad", FALSE)
  /\ Done(kmode, npadch \/ (ke0 # 1 /\ "ALT" \in kmode))
CtrlAlt ==
  kmode \cap {"LCTRL", "RCTRL"} # {} /\ kmode \cap {"ALT", "ALTGR"} # {}
Del == Entry("del", FALSE) /\ ~CtrlAlt /\ Done(kmode, npadch)
Reboot ==
  /\ Entry("del", FALSE) /\ CtrlAlt
  /\ GoesTo("reboot")
  /\ UNCHANGED <<keys, held, hardware, irq, modes, notes>>

(* The locks: a led is toggled, by the mutant only switched on, and sent   *)
(* if the leds differ from those last sent.                                *)
Switched(led) == kleds \cup {led}
Toggled(led) == IF led \in kleds THEN kleds \ {led} ELSE kleds \cup {led}
Lock(led, mode) ==
  /\ kleds' = Toggled(led) /\ kmode' = mode
  /\ IF Toggled(led) # old_leds
     THEN old_leds' = Toggled(led) /\ GoesTo("wait1") /\ ke0' = ke0
     ELSE old_leds' = old_leds /\ GoesTo("end") /\ ke0' = 0
  /\ UNCHANGED <<keys, held, hardware, irq, npadch, notes>>

CapsDown ==
  /\ Entry("caps", FALSE) /\ "CAPSDOWN" \notin kmode
  /\ Lock("CAPSLED", {"CAPSDOWN"} \cup
          (IF "CAPS" \in kmode THEN kmode \ {"CAPS"} ELSE kmode \cup {"CAPS"}))
CapsRepeats ==
  Entry("caps", FALSE) /\ "CAPSDOWN" \in kmode /\ Done(kmode, npadch)
CapsUp == Entry("caps", TRUE) /\ Done(kmode \ {"CAPSDOWN"}, npadch)
NumOrScroll ==
  \/ Entry("num", FALSE) /\ Lock("NUMLED", kmode)
  \/ Entry("scroll", FALSE) /\ Lock("SCRLED", kmode)

-----------------------------------------------------------------------------
(* set_leds: kb_wait before each of two commands, kb_ack after it.  Each   *)
(* looks at the port Polls times at most; the mutant does not count.       *)
GoesOn == Top.i + 1 < Polls
LooksAgain == frames' = frames
Looks == Becomes([Top EXCEPT !.i = @ + 1])

KbWait(place, command, next) ==
  /\ At(place)
  /\ IF ibuf # {} /\ GoesOn
     THEN Looks /\ UNCHANGED <<ibuf, hurried>>
     ELSE /\ ibuf' = {command}
          /\ hurried' = (hurried \/ ibuf # {})
          /\ GoesTo(next)
  /\ UNCHANGED <<keys, held, wire, obuf, device, irq, modes, muddled, asked>>

(* Every byte that comes is read, and only the answer ends the loop.       *)
KbAck(place, next) ==
  /\ At(place)
  /\ obuf' = [obuf EXCEPT !.full = FALSE]
  /\ IF obuf.byte = ACK \/ ~GoesOn
     THEN /\ GoesTo(next)
          /\ ke0' = IF next = "end" THEN 0 ELSE ke0
     ELSE Looks /\ ke0' = ke0
  /\ muddled' = (muddled \/ (obuf.full /\ obuf.byte # ACK))
  /\ UNCHANGED <<keys, held, wire, ibuf, device, irq, kmode, kleds, old_leds,
                 npadch, hurried, asked>>

LedCommand ==
  \/ KbWait("wait1", SetLeds, "ack1") \/ KbAck("ack1", "wait2")
  \/ KbWait("wait2", Value(kleds), "ack2") \/ KbAck("ack2", "end")

Handler ==
  \/ Leave \/ Read \/ Prefix \/ ModifierDown \/ ModifierUp \/ Prints
  \/ Nothing \/ Pad \/ Del \/ Reboot \/ CapsDown \/ CapsRepeats \/ CapsUp
  \/ NumOrScroll \/ LedCommand

Rebooting == At("reboot")
Next ==
  \/ \E k \in Keys : Press(k) \/ Release(k)
  \/ Arrives \/ Obeys \/ AddHandler \/ EnableIrq
  \/ Enter \/ Handler

Spec == Init /\ [][Next]_keyboardVars
FairSpec == Spec /\ WF_keyboardVars(Handler)

-----------------------------------------------------------------------------
Modifiers == {"LSHIFT", "RSHIFT", "LCTRL", "RCTRL", "ALT", "ALTGR"}
BitOf == [lshift |-> "LSHIFT", rshift |-> "RSHIFT", lctrl |-> "LCTRL",
          rctrl |-> "RCTRL", alt |-> "ALT", altgr |-> "ALTGR",
          caps |-> "CAPSDOWN"]
Leds == {"SCRLED", "NUMLED", "CAPSLED"}

(* Types; a code typed on the pad waits only while Alt is down.            *)
TypeOK ==
  /\ held \subseteq keys /\ Len(wire) <= WireMax + 5
  /\ kmode \subseteq Modifiers \cup {"CAPS", "CAPSDOWN"} /\ ke0 \in 0 .. 2
  /\ kleds \subseteq Leds /\ old_leds \subseteq Leds
  /\ device.leds \subseteq Leds /\ installed \in {"no", "handler", "enabled"}
  /\ npadch \in BOOLEAN /\ (npadch => "ALT" \in kmode)

(* HWINT_MASTER keeps the handler from interrupting itself while it waits  *)
(* with interrupts enabled: ke0, kmode and the two bytes of a led command  *)
(* belong to one handler; and the keyboard is enabled again after it.      *)
MaskHolds ==
  /\ Len(frames) <= 1
  /\ masked = (installed # "enabled" \/ frames # <<>>)

(* When every byte has been handled kmode tells which modifiers and Caps   *)
(* Lock are down, for prefixed keys too, and no prefix is left over;       *)
(* unless kb_ack or the handler that finds the buffer empty after it lost  *)
(* or repeated the byte of a key.                                          *)
Idle == frames = <<>> /\ wire = <<>> /\ ~obuf.full
ModifiersFollow ==
  Idle /\ ~muddled =>
    /\ {BitOf[k] : k \in held \cap DOMAIN BitOf} = kmode \ {"CAPS"}
    /\ ke0 = 0

(* When the keyboard has taken what was sent, it shows the leds of kleds,  *)
(* and the one for Caps Lock is on exactly if capitals are, whatever was   *)
(* typed between the two bytes of a command; unless one was sent before    *)
(* the last was taken.                                                     *)
LedsTell ==
  frames = <<>> /\ ibuf = {} /\ ~hurried =>
    /\ device = [leds |-> kleds, expects |-> FALSE]
    /\ kleds = old_leds
    /\ ("CAPSLED" \in kleds) <=> ("CAPS" \in kmode)

(* The machine restarts only if the user pressed Del with a Ctrl and an    *)
(* Alt down, not on what releases and prefixes left behind.                *)
RebootMeant == Rebooting /\ ~muddled => asked

(* The handler returns, even if the keyboard never answers a led command.  *)
HandlerReturns == frames # <<>> ~> (frames = <<>> \/ Rebooting)

=============================================================================
