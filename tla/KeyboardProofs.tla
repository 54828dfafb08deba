--------------------------- MODULE KeyboardProofs ---------------------------
(***************************************************************************)
(* Proofs about the keyboard, for every set of keys and every length of    *)
(* the wire and of the waits: every variable keeps its type, the handler   *)
(* is never interrupted by itself, the modifier variables and the lights   *)
(* say what the bytes read so far and the keyboard have told, reboot is    *)
(* only reached by the keys that mean it, and the handler is done after a  *)
(* bounded number of its steps.                                            *)
(***************************************************************************)
EXTENDS Keyboard, TLAPS

(* The stack of handlers is empty or one frame, whatever the frame says,   *)
(* and nothing runs before enable_irq.  The length of frames alone would   *)
(* not do: a step must be known to put back as many frames as it takes.    *)
OneFrame == frames = <<>> \/ \E f : frames = <<f>>
MaskInv ==
  /\ OneFrame
  /\ masked = (installed # "enabled" \/ frames # <<>>)
  /\ frames # <<>> => installed = "enabled"

LEMMA Stacks ==
  \A f : /\ Tail(<<f>>) = <<>> /\ Len(<<f>>) = 1 /\ <<f>> # <<>>
         /\ <<f>> \o <<>> = <<f>>
  OBVIOUS

(* A step of the handler that replaces its frame leaves one frame.         *)
LEMMA FrameReplaced ==
  ASSUME OneFrame, frames # <<>>, NEW g, Becomes(g)
  PROVE  OneFrame' /\ frames' # <<>>
<1>1. PICK f : frames = <<f>>
  BY DEF OneFrame
<1>2. frames' = <<g>>
  BY <1>1, Stacks DEF Becomes
<1> QED
  BY <1>2, Stacks DEF OneFrame

(* Every step inside the handler is of that kind and leaves the masks.     *)
InHandler == frames # <<>> /\ (\E g : Becomes(g)) /\ UNCHANGED irq

LEMMA DoneInHandler ==
  ASSUME NEW code, NEW up, NEW mode, NEW npad, Entry(code, up), Done(mode, npad)
  PROVE  InHandler
BY DEF InHandler, Entry, Done, At, GoesTo

LEMMA LockInHandler ==
  ASSUME NEW code, NEW up, NEW led, NEW mode, Entry(code, up), Lock(led, mode)
  PROVE  InHandler
BY DEF InHandler, Entry, Lock, At, GoesTo

LEMMA HandlerSteps ==
  ASSUME Handler, ~Leave
  PROVE  InHandler
<1>1. CASE Read
  BY <1>1 DEF Read, InHandler, At
<1>2. CASE Prefix
  BY <1>2 DEF Prefix, InHandler, At, GoesTo
<1>3. CASE ModifierDown \/ ModifierUp
  BY <1>3, DoneInHandler DEF ModifierDown, ModifierUp
<1>4. CASE Prints \/ Pad \/ Del \/ CapsRepeats \/ CapsUp
  BY <1>4, DoneInHandler DEF Prints, Pad, Del, CapsRepeats, CapsUp
<1>5. CASE Nothing
  BY <1>5 DEF Nothing, Done, InHandler, At, GoesTo
<1>6. CASE Reboot
  BY <1>6 DEF Reboot, Entry, InHandler, At, GoesTo
<1>7. CASE CapsDown \/ NumOrScroll
  BY <1>7, LockInHandler DEF CapsDown, NumOrScroll
<1>8. CASE LedCommand
  <2>1. ASSUME NEW place, NEW command, NEW next, KbWait(place, command, next)
        PROVE  InHandler
    BY <2>1 DEF KbWait, InHandler, At, GoesTo, Looks, irq
  <2>2. ASSUME NEW place, NEW next, KbAck(place, next)
        PROVE  InHandler
    BY <2>2 DEF KbAck, InHandler, At, GoesTo, Looks, irq
  <2> QED
    BY <1>8, <2>1, <2>2 DEF LedCommand
<1> QED
  BY <1>1, <1>2, <1>3, <1>4, <1>5, <1>6, <1>7, <1>8 DEF Handler

-----------------------------------------------------------------------------
LEMMA InitMasked == Init => MaskInv
BY DEF Init, MaskInv, OneFrame

(* The entry code adds a frame only when there is none, because the mask   *)
(* is set as long as there is one; the return takes it away.               *)
LEMMA StepMasks ==
  ASSUME MaskInv, [Next]_keyboardVars
  PROVE  MaskInv'
<1>1. CASE UNCHANGED keyboardVars
  BY <1>1 DEF keyboardVars, irq, MaskInv, OneFrame
<1>2. ASSUME NEW k \in Keys, Press(k) \/ Release(k)
      PROVE  MaskInv'
  BY <1>2 DEF Press, Release, irq, MaskInv, OneFrame
<1>3. CASE Arrives \/ Obeys
  BY <1>3 DEF Arrives, Obeys, irq, MaskInv, OneFrame
<1>4. CASE AddHandler
  BY <1>4 DEF AddHandler, MaskInv, OneFrame
<1>5. CASE EnableIrq
  BY <1>5 DEF EnableIrq, MaskInv, OneFrame
<1>6. CASE Enter
  <2>1. frames = <<>>
    BY <1>6 DEF Enter, MaskInv
  <2>2. frames' = <<Frame("read")>>
    BY <1>6, <2>1, Stacks DEF Enter
  <2> QED
    BY <1>6, <2>2, Stacks DEF Enter, EnterMasks, MaskInv, OneFrame
<1>7. CASE Leave
  BY <1>7, Stacks DEF Leave, At, MaskInv, OneFrame
<1>8. CASE Handler /\ ~Leave
  <2>1. InHandler
    BY <1>8, HandlerSteps
  <2>2. OneFrame' /\ frames' # <<>>
    BY <2>1, FrameReplaced DEF InHandler, MaskInv
  <2> QED
    BY <2>1, <2>2 DEF InHandler, irq, MaskInv
<1> QED
  BY <1>1, <1>2, <1>3, <1>4, <1>5, <1>6, <1>7, <1>8 DEF Next

(* HWINT_MASTER (src/asm.S) keeps its own request masked exactly while its *)
(* handler runs, so the handler never interrupts itself.                   *)
THEOREM MaskKept == Spec => []MaskHolds
<1>1. MaskInv => MaskHolds
  BY Stacks DEF MaskInv, OneFrame, MaskHolds
<1> QED
  BY InitMasked, StepMasks, <1>1, PTL DEF Spec

-----------------------------------------------------------------------------
(* What the values are, frames and bytes included.                         *)
Codes == {"ctrl", "alt", "lshift", "rshift", "caps", "num", "scroll",
          "letter", "pad", "del", "E0", "E1", "ACK", "none"}
AnyByte == [code : Codes, up : BOOLEAN]
Places == {"read", "table", "end", "reboot", "wait1", "ack1", "wait2", "ack2"}
FrameSet == [at : Places, byte : AnyByte, i : Nat]

HardwareTypes ==
  /\ keys \subseteq Keys /\ held \subseteq keys \ {"pause"}
  /\ wire \in Seq(AnyByte) /\ Len(wire) <= WireMax + 5
  /\ obuf \in [full : BOOLEAN, byte : AnyByte]
  /\ device \in [leds : SUBSET Leds, expects : BOOLEAN]
  /\ \A c \in ibuf : c.command \in {"leds", "value"} /\ c.value \subseteq Leds
  /\ installed \in {"no", "handler", "enabled"}
ModeTypes ==
  /\ kmode \subseteq Modifiers \cup {"CAPS", "CAPSDOWN"} /\ ke0 \in 0 .. 2
  /\ kleds \subseteq Leds /\ old_leds \subseteq Leds
  /\ npadch \in BOOLEAN /\ (npadch => "ALT" \in kmode)
  /\ {muddled, hurried, asked} \subseteq BOOLEAN
FrameTypes == frames = <<>> \/ \E f \in FrameSet : frames = <<f>>
Types == HardwareTypes /\ ModeTypes /\ FrameTypes

LEMMA BytesTyped ==
  ASSUME NEW k \in Keys, NEW up \in BOOLEAN
  PROVE  Bytes(k, up) \in Seq(AnyByte) /\ Len(Bytes(k, up)) <= 6
<1>1. /\ {E0, E1, ACK} \subseteq AnyByte
      /\ \A b \in BOOLEAN : {Byte("ctrl", b), Byte("num", b)} \subseteq AnyByte
  BY DEF E0, E1, ACK, Byte, AnyByte, Codes
<1>2. k # "pause" => Byte(Code(k), up) \in AnyByte
  BY DEF Byte, Code, AnyByte, Codes, Keys, Pairs, Locks
<1>3. CASE k = "pause"
  <2>1. \A a, b, c, d, e, f \in AnyByte :
          <<a, b, c, d, e, f>> \in Seq(AnyByte) /\ Len(<<a, b, c, d, e, f>>) = 6
    OBVIOUS
  <2>2. Bytes(k, up) = <<E1, Byte("ctrl", FALSE), Byte("num", FALSE),
                         E1, Byte("ctrl", TRUE), Byte("num", TRUE)>>
    BY <1>3 DEF Bytes
  <2>3. /\ E1 \in AnyByte
        /\ Byte("ctrl", FALSE) \in AnyByte /\ Byte("num", FALSE) \in AnyByte
        /\ Byte("ctrl", TRUE) \in AnyByte /\ Byte("num", TRUE) \in AnyByte
    BY <1>1
  <2>4. Bytes(k, up) \in Seq(AnyByte) /\ Len(Bytes(k, up)) = 6
    <3>1. \A a, b, c, d, e \in AnyByte :
            <<a, b, c, a, d, e>> \in Seq(AnyByte) /\ Len(<<a, b, c, a, d, e>>) = 6
      BY <2>1
    <3> HIDE DEF AnyByte
    <3> DEFINE a == E1  b == Byte("ctrl", FALSE)  c == Byte("num", FALSE)
               d == Byte("ctrl", TRUE)  e == Byte("num", TRUE)
    <3>2. Bytes(k, up) = <<a, b, c, a, d, e>>
      BY <2>2
    <3>3. a \in AnyByte /\ b \in AnyByte /\ c \in AnyByte /\ d \in AnyByte
          /\ e \in AnyByte
      BY <2>3
    <3> HIDE DEF a, b, c, d, e
    <3> QED
      BY <3>1, <3>2, <3>3
  <2> QED
    BY <2>4
<1>4. CASE k # "pause"
  BY <1>1, <1>2, <1>4 DEF Bytes
<1> QED
  BY <1>3, <1>4

(* What the running handler and its replacement look like.                 *)
LEMMA TheFrame ==
  ASSUME FrameTypes, frames # <<>>
  PROVE  \E f \in FrameSet :
           /\ frames = <<f>> /\ Top = f /\ Tail(frames) = <<>>
           /\ \A place : At(place) <=> f.at = place
           /\ \A g : Becomes(g) => frames' = <<g>>
           /\ \A place :
                GoesTo(place) =>
                  frames' = <<[at |-> place, byte |-> f.byte, i |-> 0]>>
<1>1. PICK f \in FrameSet : frames = <<f>>
  BY DEF FrameTypes
<1>2. Top = f /\ Tail(frames) = <<>>
  BY <1>1, Stacks DEF Top
<1>3. \A place : At(place) <=> f.at = place
  BY <1>1, <1>2, Stacks DEF At
<1>4. \A g : Becomes(g) => frames' = <<g>>
  BY <1>2, Stacks DEF Becomes
<1>5. \A place : [Top EXCEPT !.at = place, !.i = 0]
                  = [at |-> place, byte |-> f.byte, i |-> 0]
  <2> TAKE place
  <2>1. f = [at |-> f.at, byte |-> f.byte, i |-> f.i]
    BY DEF FrameSet
  <2>2. [f EXCEPT !.at = place] = [at |-> place, byte |-> f.byte, i |-> f.i]
    BY <2>1
  <2>3. [[f EXCEPT !.at = place] EXCEPT !.i = 0]
        = [at |-> place, byte |-> f.byte, i |-> 0]
    BY <2>2, [[at |-> place, byte |-> f.byte, i |-> f.i] EXCEPT !.i = 0]
             = [at |-> place, byte |-> f.byte, i |-> 0]
  <2>4. [f EXCEPT !.at = place, !.i = 0]
        = [[f EXCEPT !.at = place] EXCEPT !.i = 0]
    OBVIOUS
  <2> QED
    BY <1>2, <2>3, <2>4
<1> QED
  BY <1>1, <1>2, <1>3, <1>4, <1>5 DEF GoesTo

LEMMA FrameGoes ==
  ASSUME FrameTypes, frames # <<>>, NEW place \in Places, GoesTo(place)
  PROVE  FrameTypes' /\ frames' # <<>> /\ (\A p : At(p)' <=> p = place)
<1>1. PICK f \in FrameSet :
        frames' = <<[at |-> place, byte |-> f.byte, i |-> 0]>>
  BY TheFrame
<1> DEFINE g == [at |-> place, byte |-> f.byte, i |-> 0]
<1>2. g \in FrameSet
  BY DEF FrameSet
<1>3. frames' = <<g>> /\ g.at = place
  BY <1>1
<1> HIDE DEF g
<1> QED
  BY <1>2, <1>3, Stacks DEF FrameTypes, At, Top

LEMMA FrameLooks ==
  ASSUME FrameTypes, frames # <<>>, Looks
  PROVE  FrameTypes' /\ frames' # <<>> /\ (\A p : At(p)' <=> At(p))
<1>1. PICK f \in FrameSet :
        Top = f /\ frames' = <<[Top EXCEPT !.i = @ + 1]>>
          /\ (\A place : At(place) <=> f.at = place)
  BY TheFrame DEF Looks
<1> DEFINE g == [f EXCEPT !.i = @ + 1]
<1>2. g \in FrameSet /\ g.at = f.at
  BY DEF FrameSet
<1>3. frames' = <<g>>
  BY <1>1
<1> HIDE DEF g
<1> QED
  BY <1>1, <1>2, <1>3, Stacks DEF FrameTypes, At, Top

(* The frame a byte is handled in, and the one after it.                   *)
LEMMA FrameReads ==
  ASSUME FrameTypes, frames # <<>>, obuf.byte \in AnyByte,
         Becomes([Top EXCEPT !.at = "table", !.byte = obuf.byte])
  PROVE  /\ FrameTypes' /\ frames' # <<>> /\ (\A p : At(p)' <=> p = "table")
         /\ Top'.byte = obuf.byte
<1>1. PICK f \in FrameSet :
        Top = f /\ frames' = <<[Top EXCEPT !.at = "table", !.byte = obuf.byte]>>
  BY TheFrame
<1> DEFINE g == [f EXCEPT !.at = "table", !.byte = obuf.byte]
           h == [f EXCEPT !.at = "table"]
<1>2. h \in FrameSet /\ h.at = "table"
  BY DEF FrameSet, Places
<1>3. g = [h EXCEPT !.byte = obuf.byte]
  OBVIOUS
<1>4. g \in FrameSet /\ g.at = "table" /\ g.byte = obuf.byte
  <2> HIDE DEF h
  <2> QED BY <1>2, <1>3 DEF FrameSet
<1>5. frames' = <<g>>
  BY <1>1
<1> HIDE DEF g
<1> QED
  BY <1>4, <1>5, Stacks DEF FrameTypes, At, Top

-----------------------------------------------------------------------------
LEMMA InitTyped == Init => Types
<1> SUFFICES ASSUME Init PROVE Types
  OBVIOUS
<1>1. keys \subseteq Keys /\ held \subseteq keys \ {"pause"}
  BY KeyboardAssumption DEF Init
<1>2. wire \in Seq(AnyByte) /\ Len(wire) <= WireMax + 5
  BY KeyboardAssumption DEF Init
<1>3. obuf \in [full : BOOLEAN, byte : AnyByte]
  BY DEF Init, AnyByte, Codes, Byte
<1>4. device \in [leds : SUBSET Leds, expects : BOOLEAN]
  BY DEF Init, Leds
<1>5. HardwareTypes
  BY <1>1, <1>2, <1>3, <1>4 DEF Init, HardwareTypes
<1>6. /\ ke0 \in 0 .. 2 /\ kmode = {} /\ npadch = FALSE /\ frames = <<>>
      /\ kleds \subseteq Leds /\ old_leds \subseteq Leds
  BY DEF Init, Leds
<1>7. muddled \in BOOLEAN /\ hurried \in BOOLEAN /\ asked \in BOOLEAN
  BY DEF Init
<1>8. ModeTypes /\ FrameTypes
  BY <1>6, <1>7 DEF ModeTypes, FrameTypes
<1> QED
  BY <1>5, <1>8 DEF Types

(* Outside the handler: the user, the keyboard, init_keyboard, the entry   *)
(* code and the return.                                                    *)
LEMMA OutsideTyped ==
  ASSUME Types, MaskInv,
         \/ \E k \in Keys : Press(k) \/ Release(k)
         \/ Arrives \/ Obeys \/ AddHandler \/ EnableIrq \/ Enter \/ Leave
  PROVE  Types'
<1> USE DEF Types
<1>1. ASSUME NEW k \in Keys, NEW up \in BOOLEAN,
             Len(wire) < WireMax, wire' = wire \o Bytes(k, up)
      PROVE  wire' \in Seq(AnyByte) /\ Len(wire') <= WireMax + 5
  <2>1. Bytes(k, up) \in Seq(AnyByte) /\ Len(Bytes(k, up)) <= 6
    BY BytesTyped
  <2>2. /\ wire \o Bytes(k, up) \in Seq(AnyByte)
        /\ Len(wire \o Bytes(k, up)) = Len(wire) + Len(Bytes(k, up))
    BY <2>1 DEF HardwareTypes
  <2>3. Len(wire) \in Nat /\ Len(Bytes(k, up)) \in Nat
    BY <2>1 DEF HardwareTypes
  <2> QED
    BY <1>1, <2>1, <2>2, <2>3, KeyboardAssumption
<1>2. ASSUME NEW k \in Keys, Press(k)
      PROVE  Types'
  <2>1. wire' \in Seq(AnyByte) /\ Len(wire') <= WireMax + 5
    BY <1>1, <1>2 DEF Press
  <2> QED
    BY <1>2, <2>1
    DEF Press, HardwareTypes, ModeTypes, FrameTypes, modes, irq
<1>3. ASSUME NEW k \in Keys, Release(k)
      PROVE  Types'
  <2>1. wire' \in Seq(AnyByte) /\ Len(wire') <= WireMax + 5
    BY <1>1, <1>3 DEF Release
  <2> QED
    BY <1>3, <2>1
    DEF Release, HardwareTypes, ModeTypes, FrameTypes, modes, irq, notes
<1>4. CASE Arrives
  <2>1. /\ Head(wire) \in AnyByte /\ Tail(wire) \in Seq(AnyByte)
        /\ Len(Tail(wire)) = Len(wire) - 1 /\ Len(wire) \in Nat
    BY <1>4 DEF Arrives, HardwareTypes
  <2>2. Len(wire') <= WireMax + 5
    BY <1>4, <2>1, KeyboardAssumption DEF Arrives, HardwareTypes
  <2> QED
    BY <1>4, <2>1, <2>2
    DEF Arrives, HardwareTypes, ModeTypes, FrameTypes, modes, notes
<1>5. CASE Obeys
  <2>1. PICK c \in ibuf :
          /\ Len(wire) < WireMax
          /\ ibuf' = {}
          /\ wire' = Append(wire, ACK)
          /\ device' = [leds |-> IF c # SetLeds /\ device.expects THEN c.value
                                ELSE device.leds,
                        expects |-> c = SetLeds]
          /\ UNCHANGED <<keys, held, obuf, irq, frames, modes, notes>>
    BY <1>5 DEF Obeys
  <2>2. ACK \in AnyByte
    BY DEF ACK, Byte, AnyByte, Codes
  <2>3. /\ wire' \in Seq(AnyByte) /\ Len(wire') = Len(wire) + 1
        /\ Len(wire) \in Nat
    BY <2>1, <2>2 DEF HardwareTypes
  <2>4. Len(wire') <= WireMax + 5
    BY <2>1, <2>3, KeyboardAssumption
  <2>5. device' \in [leds : SUBSET Leds, expects : BOOLEAN]
    BY <2>1 DEF HardwareTypes
  <2> QED
    BY <2>1, <2>3, <2>4, <2>5
    DEF HardwareTypes, ModeTypes, FrameTypes, modes, notes, irq
<1>6. CASE AddHandler \/ EnableIrq
  BY <1>6 DEF AddHandler, EnableIrq, HardwareTypes, ModeTypes, FrameTypes,
              hardware, modes, notes
<1>7. CASE Enter
  <2>1. frames = <<>>
    BY <1>7 DEF Enter, MaskInv
  <2>2. frames' = <<Frame("read")>>
    BY <1>7, <2>1, Stacks DEF Enter
  <2>3. Frame("read") \in FrameSet
    BY DEF Frame, FrameSet, Places, AnyByte, Codes, ACK, Byte
  <2>4. FrameTypes'
    BY <2>2, <2>3 DEF FrameTypes
  <2> QED
    BY <1>7, <2>4
    DEF Enter, HardwareTypes, ModeTypes, hardware, modes, notes
<1>8. CASE Leave
  <2>1. frames' = <<>>
    BY <1>8, Stacks DEF Leave, At, FrameTypes
  <2> QED
    BY <1>8, <2>1
    DEF Leave, HardwareTypes, ModeTypes, FrameTypes, hardware, modes, notes
<1> QED
  BY <1>2, <1>3, <1>4, <1>5, <1>6, <1>7, <1>8

(* Inside it: every step replaces the frame.                               *)
LEMMA DoneTyped ==
  ASSUME Types, frames # <<>>, NEW mode, NEW npad, Done(mode, npad),
         mode \subseteq Modifiers \cup {"CAPS", "CAPSDOWN"},
         npad \in BOOLEAN, npad => "ALT" \in mode
  PROVE  Types'
<1>1. FrameTypes'
  BY FrameGoes DEF Done, Places, Types
<1> QED
  BY <1>1 DEF Done, Types, HardwareTypes, ModeTypes, hardware, irq, notes

LEMMA LockTyped ==
  ASSUME Types, frames # <<>>, NEW led \in Leds, NEW mode, Lock(led, mode),
         mode \subseteq Modifiers \cup {"CAPS", "CAPSDOWN"},
         "ALT" \in kmode => "ALT" \in mode
  PROVE  Types'
<1>1. Toggled(led) \subseteq Leds
  BY DEF Toggled, Types, ModeTypes
<1>2. /\ kleds' = Toggled(led) /\ old_leds' = Toggled(led)
      /\ ke0' \in 0 .. 2 /\ kmode' = mode
      /\ GoesTo("wait1") \/ GoesTo("end")
      /\ UNCHANGED <<keys, held, hardware, irq, npadch, notes>>
  <2>1. CASE Toggled(led) # old_leds
    BY <2>1 DEF Lock, Types, ModeTypes
  <2>2. CASE Toggled(led) = old_leds
    BY <2>2 DEF Lock
  <2> QED
    BY <2>1, <2>2
<1>3. FrameTypes'
  BY <1>2, FrameGoes DEF Places, Types
<1> QED
  BY <1>1, <1>2, <1>3
  DEF Types, HardwareTypes, ModeTypes, hardware, irq, notes

LEMMA HandlerTyped ==
  ASSUME Types, Handler, ~Leave
  PROVE  Types'
<1>1. frames # <<>>
  BY HandlerSteps DEF InHandler
<1>2. Bit("ctrl") \in Modifiers /\ Bit("alt") \in Modifiers
      /\ Bit("lshift") \in Modifiers /\ Bit("rshift") \in Modifiers
  BY DEF Bit, Modifiers
<1>3. CASE Read
  <2>1. FrameTypes'
    BY <1>1, <1>3, FrameReads DEF Read, Types, HardwareTypes
  <2>2. obuf' \in [full : BOOLEAN, byte : AnyByte]
    BY <1>3 DEF Read, Types, HardwareTypes
  <2> QED
    BY <1>3, <2>1, <2>2
    DEF Read, Types, HardwareTypes, ModeTypes, irq, modes
<1>4. CASE Prefix
  <2>1. FrameTypes'
    BY <1>1, <1>4, FrameGoes DEF Prefix, Types, Places
  <2> QED
    BY <1>4, <2>1
    DEF Prefix, Types, HardwareTypes, ModeTypes, irq, notes, hardware
<1>5. CASE ModifierDown
  <2>1. PICK code \in {"ctrl", "alt", "lshift", "rshift"} :
          Done(kmode \cup {Bit(code)}, npadch)
    BY <1>5 DEF ModifierDown
  <2> QED
    BY <1>1, <1>2, <2>1, DoneTyped DEF Types, ModeTypes
<1>6. CASE ModifierUp
  <2>1. PICK code \in {"ctrl", "alt", "lshift", "rshift"} :
          Done(kmode \ {Bit(code)}, NpadchLeft(code))
    BY <1>6 DEF ModifierUp, Cleared
  <2>2. NpadchLeft(code) \in BOOLEAN
        /\ (NpadchLeft(code) => "ALT" \in kmode \ {Bit(code)})
    BY DEF NpadchLeft, Bit, Types, ModeTypes
  <2> QED
    BY <1>1, <2>1, <2>2, DoneTyped DEF Types, ModeTypes
<1>7. CASE Prints \/ Nothing \/ Del \/ CapsRepeats
  <2>1. Done(kmode, npadch)
    BY <1>7 DEF Prints, Nothing, Del, CapsRepeats
  <2> QED
    BY <1>1, <2>1, DoneTyped DEF Types, ModeTypes
<1>8. CASE Pad
  <2>1. /\ (npadch \/ (ke0 # 1 /\ "ALT" \in kmode)) \in BOOLEAN
        /\ (npadch \/ (ke0 # 1 /\ "ALT" \in kmode)) => "ALT" \in kmode
    BY DEF Types, ModeTypes
  <2> QED
    BY <1>1, <1>8, <2>1, DoneTyped DEF Pad, Types, ModeTypes
<1>9. CASE Reboot
  <2>1. FrameTypes'
    BY <1>1, <1>9, FrameGoes DEF Reboot, Types, Places
  <2> QED
    BY <1>9, <2>1
    DEF Reboot, Types, HardwareTypes, ModeTypes, hardware, irq, modes, notes
<1>10. CASE CapsDown
  <2> DEFINE mode == {"CAPSDOWN"} \cup
               (IF "CAPS" \in kmode THEN kmode \ {"CAPS"} ELSE kmode \cup {"CAPS"})
  <2>1. /\ mode \subseteq Modifiers \cup {"CAPS", "CAPSDOWN"}
        /\ "ALT" \in kmode => "ALT" \in mode
    BY DEF Types, ModeTypes
  <2>2. Lock("CAPSLED", mode) /\ "CAPSLED" \in Leds
    BY <1>10 DEF CapsDown, Leds
  <2> HIDE DEF mode
  <2> QED
    BY <1>1, <2>1, <2>2, LockTyped
<1>11. CASE CapsUp
  BY <1>1, <1>11, DoneTyped DEF CapsUp, Types, ModeTypes
<1>12. CASE NumOrScroll
  BY <1>1, <1>12, LockTyped DEF NumOrScroll, Types, ModeTypes, Leds
<1>13. CASE LedCommand
  <2>1. ASSUME NEW place, NEW command, NEW next \in Places,
               command.command \in {"leds", "value"}, command.value \subseteq Leds,
               KbWait(place, command, next)
        PROVE  Types'
    <3>1. FrameTypes'
      BY <1>1, <2>1, FrameGoes, FrameLooks DEF KbWait, Types
    <3>2. (ibuf' = ibuf \/ ibuf' = {command}) /\ hurried' \in BOOLEAN
      BY <2>1 DEF KbWait, Types, ModeTypes
    <3> QED
      BY <2>1, <3>1, <3>2
      DEF KbWait, Types, HardwareTypes, ModeTypes, irq, modes
  <2>2. ASSUME NEW place, NEW next \in Places, KbAck(place, next)
        PROVE  Types'
    <3>1. FrameTypes'
      BY <1>1, <2>2, FrameGoes, FrameLooks DEF KbAck, Types
    <3>2. ke0' \in 0 .. 2
      BY <2>2 DEF KbAck, Types, ModeTypes
    <3>3. obuf' \in [full : BOOLEAN, byte : AnyByte]
      BY <2>2 DEF KbAck, Types, HardwareTypes
    <3> QED
      BY <2>2, <3>1, <3>2, <3>3
      DEF KbAck, Types, HardwareTypes, ModeTypes, irq
  <2>3. /\ SetLeds.command = "leds" /\ SetLeds.value \subseteq Leds
        /\ Value(kleds).command = "value" /\ Value(kleds).value \subseteq Leds
    BY DEF SetLeds, Value, Types, ModeTypes
  <2>4. {"ack1", "wait2", "ack2", "end"} \subseteq Places
    BY DEF Places
  <2> QED
    BY <1>13, <2>1, <2>2, <2>3, <2>4 DEF LedCommand
<1> QED
  BY <1>3, <1>4, <1>5, <1>6, <1>7, <1>8, <1>9, <1>10, <1>11, <1>12, <1>13
  DEF Handler

LEMMA StepTyped ==
  ASSUME Types, MaskInv, [Next]_keyboardVars
  PROVE  Types'
<1>1. CASE UNCHANGED keyboardVars
  BY <1>1 DEF keyboardVars, hardware, irq, modes, notes, Types, HardwareTypes,
              ModeTypes, FrameTypes
<1>2. CASE Handler /\ ~Leave
  BY <1>2, HandlerTyped
<1> QED
  BY <1>1, <1>2, OutsideTyped DEF Next

(* Every key, led and modifier the driver can come to stays of its kind,   *)
(* and a code typed on the pad waits only while the left Alt is down.      *)
THEOREM KeyboardTyped == Spec => []TypeOK
<1>1. Types => TypeOK
  BY DEF Types, HardwareTypes, ModeTypes, TypeOK
<1> QED
  BY InitMasked, InitTyped, StepMasks, StepTyped, <1>1, PTL DEF Spec

-----------------------------------------------------------------------------
(* The leds, while a command to set them is on its way.  The keyboard      *)
(* shows them, or will when it takes the value that waits for it, except   *)
(* between the two bytes of the command.  They are those of kleds, except  *)
(* while the handler waits to send the first of the two.                   *)
LedsSent(v) ==
  \/ ibuf = {} /\ device = [leds |-> v, expects |-> FALSE]
  \/ ibuf = {Value(v)} /\ device.expects
HalfSent ==
  \/ ibuf = {SetLeds} /\ ~device.expects
  \/ ibuf = {} /\ device.expects
LedPlaces == {"wait1", "ack1", "wait2"}
LedInv ==
  /\ kleds = old_leds
  /\ ("CAPSLED" \in kleds) <=> ("CAPS" \in kmode)
  /\ ~hurried =>
       IF At("ack1") \/ At("wait2") THEN HalfSent
       ELSE \E v : LedsSent(v) /\ (At("wait1") \/ v = kleds)

LEMMA LedBytesDiffer ==
  \A v : SetLeds # Value(v) /\ Value(v).value = v
BY DEF SetLeds, Value

LEMMA InitLeds == Init => LedInv
BY DEF Init, LedInv, LedsSent, At

(* Steps that send nothing and switch no led.                              *)
LEMMA LedsKept ==
  ASSUME LedInv, UNCHANGED <<ibuf, device, kleds, old_leds, hurried>>,
         ("CAPS" \in kmode)' <=> ("CAPS" \in kmode),
         \A p \in LedPlaces : At(p)' <=> At(p)
  PROVE  LedInv'
<1>1. /\ At("ack1")' <=> At("ack1")
      /\ At("wait1")' <=> At("wait1")
      /\ At("wait2")' <=> At("wait2")
  BY DEF LedPlaces
<1>2. HalfSent' <=> HalfSent
  BY DEF HalfSent
<1>3. \A v : LedsSent(v)' <=> LedsSent(v)
  BY DEF LedsSent
<1> QED
  BY <1>1, <1>2, <1>3 DEF LedInv

LEMMA LedsObeyed ==
  ASSUME LedInv, Obeys
  PROVE  LedInv'
<1>1. PICK c \in ibuf :
        /\ ibuf' = {}
        /\ device' = [leds |-> IF c # SetLeds /\ device.expects THEN c.value
                              ELSE device.leds,
                      expects |-> c = SetLeds]
        /\ UNCHANGED <<frames, kleds, old_leds, kmode, hurried>>
  BY DEF Obeys, modes, notes
<1>2. \A p : At(p)' <=> At(p)
  BY <1>1 DEF At, Top
<1>3. CASE hurried
  BY <1>1, <1>3 DEF LedInv
<1>4. CASE ~hurried /\ (At("ack1") \/ At("wait2"))
  <2>1. c = SetLeds
    BY <1>1, <1>4 DEF LedInv, HalfSent
  <2>2. HalfSent'
    BY <1>1, <2>1 DEF HalfSent
  <2> QED
    BY <1>1, <1>2, <1>4, <2>2 DEF LedInv
<1>5. CASE ~hurried /\ ~(At("ack1") \/ At("wait2"))
  <2>1. PICK v : LedsSent(v) /\ (At("wait1") \/ v = kleds)
    BY <1>5 DEF LedInv
  <2>2. c = Value(v) /\ device.expects
    BY <1>1, <2>1 DEF LedsSent
  <2>3. ibuf' = {} /\ device' = [leds |-> v, expects |-> FALSE]
    BY <1>1, <2>2, LedBytesDiffer
  <2>4. LedsSent(v)'
    BY <2>3 DEF LedsSent
  <2> QED
    BY <1>1, <1>2, <1>5, <2>1, <2>4 DEF LedInv
<1> QED
  BY <1>3, <1>4, <1>5

LEMMA LedsLocked ==
  ASSUME Types, LedInv, At("table"), NEW led, NEW mode, Lock(led, mode),
         ("CAPSLED" \in Toggled(led)) <=> ("CAPS" \in mode)
  PROVE  LedInv'
<1>1. PICK f \in FrameSet : \A place : At(place) <=> f.at = place
  BY TheFrame DEF Types, At
<1>2. ~At("wait1") /\ ~At("ack1") /\ ~At("wait2")
  BY <1>1
<1>3. /\ kleds' = Toggled(led) /\ old_leds' = Toggled(led) /\ kmode' = mode
      /\ UNCHANGED <<ibuf, device, hurried>>
  BY DEF Lock, hardware, notes
<1>4. \A v : LedsSent(v)' <=> LedsSent(v)
  BY <1>3 DEF LedsSent
<1>5. CASE Toggled(led) # old_leds
  <2>1. At("wait1")' /\ ~At("ack1")' /\ ~At("wait2")'
    BY <1>5, FrameGoes DEF Lock, At, Types, Places
  <2> QED
    BY <1>2, <1>3, <1>4, <2>1 DEF LedInv
<1>6. CASE Toggled(led) = old_leds
  <2>1. ~At("wait1")' /\ ~At("ack1")' /\ ~At("wait2")'
    BY <1>6, FrameGoes DEF Lock, At, Types, Places
  <2> QED
    BY <1>2, <1>3, <1>4, <1>6, <2>1 DEF LedInv
<1> QED
  BY <1>5, <1>6

(* kb_wait sends the first byte when the last command is taken, and the    *)
(* second when the first is.                                               *)
LEMMA LedsWait ==
  ASSUME Types, LedInv,
         \/ KbWait("wait1", SetLeds, "ack1")
         \/ KbWait("wait2", Value(kleds), "ack2")
  PROVE  LedInv'
<1>1. frames # <<>>
  BY DEF KbWait, At
<1>2. UNCHANGED <<device, kleds, old_leds, kmode>>
  BY DEF KbWait, modes
<1>3. PICK f \in FrameSet : \A place : At(place) <=> f.at = place
  BY <1>1, TheFrame DEF Types
<1>4. CASE ibuf # {} /\ GoesOn
  <2>1. \A p : At(p)' <=> At(p)
    BY <1>1, <1>4, FrameLooks DEF KbWait, Types
  <2> QED
    BY <1>2, <1>4, <2>1, LedsKept DEF KbWait
<1>5. CASE ~(ibuf # {} /\ GoesOn) /\ ibuf # {}
  BY <1>2, <1>5 DEF KbWait, LedInv
<1>6. CASE ibuf = {} /\ KbWait("wait1", SetLeds, "ack1")
  <2>1. At("ack1")' /\ ibuf' = {SetLeds} /\ hurried' = hurried
    BY <1>1, <1>6, FrameGoes DEF KbWait, Types, Places, ModeTypes
  <2>2. ~hurried => ~device.expects
    <3>1. ~(At("ack1") \/ At("wait2"))
      BY <1>3, <1>6 DEF KbWait
    <3> QED
      BY <1>6, <3>1 DEF LedInv, LedsSent
  <2> QED
    BY <1>2, <2>1, <2>2 DEF LedInv, HalfSent
<1>7. CASE ibuf = {} /\ KbWait("wait2", Value(kleds), "ack2")
  <2>1. /\ At("ack2")' /\ ~At("ack1")' /\ ~At("wait2")'
        /\ ibuf' = {Value(kleds)} /\ hurried' = hurried
    BY <1>1, <1>7, FrameGoes DEF KbWait, Types, Places, ModeTypes
  <2>2. ~hurried => device.expects
    BY <1>7 DEF LedInv, HalfSent, KbWait, SetLeds
  <2>3. ~hurried => LedsSent(kleds)'
    BY <1>2, <2>1, <2>2 DEF LedsSent
  <2> QED
    BY <1>2, <2>1, <2>3 DEF LedInv
<1> QED
  BY <1>4, <1>5, <1>6, <1>7

LEMMA LedsAck ==
  ASSUME Types, LedInv, KbAck("ack1", "wait2") \/ KbAck("ack2", "end")
  PROVE  LedInv'
<1>1. frames # <<>>
  BY DEF KbAck, At
<1>2. UNCHANGED <<ibuf, device, kleds, old_leds, kmode, hurried>>
  BY DEF KbAck
<1>3. PICK f \in FrameSet : \A place : At(place) <=> f.at = place
  BY <1>1, TheFrame DEF Types
<1>4. /\ At("wait1")' <=> At("wait1")
      /\ (At("ack1") \/ At("wait2"))' <=> (At("ack1") \/ At("wait2"))
  <2>1. CASE Looks
    BY <1>1, <2>1, FrameLooks DEF Types
  <2>2. CASE KbAck("ack1", "wait2") /\ ~Looks
    <3>1. At("ack1") /\ GoesTo("wait2")
      BY <2>2 DEF KbAck
    <3> QED
      BY <1>1, <1>3, <3>1, FrameGoes DEF Types, Places
  <2>3. CASE KbAck("ack2", "end") /\ ~Looks
    <3>1. At("ack2") /\ GoesTo("end")
      BY <2>3 DEF KbAck
    <3> QED
      BY <1>1, <1>3, <3>1, FrameGoes DEF Types, Places
  <2> QED
    BY <2>1, <2>2, <2>3
<1>5. HalfSent' <=> HalfSent
  BY <1>2 DEF HalfSent
<1>6. \A v : LedsSent(v)' <=> LedsSent(v)
  BY <1>2 DEF LedsSent
<1> QED
  BY <1>2, <1>4, <1>5, <1>6 DEF LedInv

(* Every other step is quiet.                                              *)
LEMMA LedsDone ==
  ASSUME Types, LedInv, At("table"), NEW mode, NEW npad, Done(mode, npad),
         ("CAPS" \in mode) <=> ("CAPS" \in kmode)
  PROVE  LedInv'
<1>1. frames # <<>>
  BY DEF At
<1>2. PICK f \in FrameSet : \A place : At(place) <=> f.at = place
  BY <1>1, TheFrame DEF Types
<1>3. \A p \in LedPlaces : At(p)' <=> At(p)
  BY <1>1, <1>2, FrameGoes DEF Done, LedPlaces, Types, Places
<1> QED
  BY <1>3, LedsKept DEF Done, hardware, notes

LEMMA HandlerLeds ==
  ASSUME Types, LedInv, Handler, ~Leave
  PROVE  LedInv'
<1>1. frames # <<>>
  BY HandlerSteps DEF InHandler
<1>2. PICK f \in FrameSet : \A place : At(place) <=> f.at = place
  BY <1>1, TheFrame DEF Types
<1>3. CASE Read
  <2>1. \A p \in LedPlaces : At(p)' <=> At(p)
    BY <1>1, <1>2, <1>3, FrameReads
    DEF Read, LedPlaces, Types, HardwareTypes
  <2> QED
    BY <1>3, <2>1, LedsKept DEF Read, modes
<1>4. CASE Prefix \/ Reboot
  <2>1. \A p \in LedPlaces : At(p)' <=> At(p)
    BY <1>1, <1>2, <1>4, FrameGoes
    DEF Prefix, Reboot, Entry, LedPlaces, Types, Places
  <2> QED
    BY <1>4, <2>1, LedsKept DEF Prefix, Reboot, modes, hardware, notes
<1>5. CASE ModifierDown
  <2>1. PICK code \in {"ctrl", "alt", "lshift", "rshift"} :
          At("table") /\ Done(kmode \cup {Bit(code)}, npadch)
    BY <1>5 DEF ModifierDown, Entry
  <2>2. Bit(code) # "CAPS"
    BY DEF Bit
  <2> QED
    BY <2>1, <2>2, LedsDone
<1>6. CASE ModifierUp
  <2>1. PICK code \in {"ctrl", "alt", "lshift", "rshift"} :
          At("table") /\ Done(kmode \ {Bit(code)}, NpadchLeft(code))
    BY <1>6 DEF ModifierUp, Entry, Cleared
  <2>2. Bit(code) # "CAPS"
    BY DEF Bit
  <2> QED
    BY <2>1, <2>2, LedsDone
<1>7. CASE Prints \/ Nothing \/ Del \/ CapsRepeats \/ Pad
  <2>1. At("table") /\ \E npad : Done(kmode, npad)
    BY <1>7 DEF Prints, Nothing, Del, CapsRepeats, Pad, Entry
  <2> QED
    BY <2>1, LedsDone
<1>8. CASE CapsUp
  BY <1>8, LedsDone DEF CapsUp, Entry
<1>9. CASE CapsDown
  <2> DEFINE mode == {"CAPSDOWN"} \cup
               (IF "CAPS" \in kmode THEN kmode \ {"CAPS"} ELSE kmode \cup {"CAPS"})
  <2>1. ("CAPSLED" \in Toggled("CAPSLED")) <=> ("CAPS" \in mode)
    BY DEF Toggled, LedInv
  <2>2. At("table") /\ Lock("CAPSLED", mode)
    BY <1>9 DEF CapsDown, Entry
  <2> HIDE DEF mode
  <2> QED
    BY <2>1, <2>2, LedsLocked
<1>10. CASE NumOrScroll
  <2>1. \A led \in {"NUMLED", "SCRLED"} :
          ("CAPSLED" \in Toggled(led)) <=> ("CAPS" \in kmode)
    BY DEF Toggled, LedInv
  <2> QED
    BY <1>10, <2>1, LedsLocked DEF NumOrScroll, Entry
<1>11. CASE LedCommand
  BY <1>11, LedsWait, LedsAck DEF LedCommand
<1> QED
  BY <1>3, <1>4, <1>5, <1>6, <1>7, <1>8, <1>9, <1>10, <1>11 DEF Handler

LEMMA StepLeds ==
  ASSUME Types, MaskInv, LedInv, [Next]_keyboardVars
  PROVE  LedInv'
<1>1. CASE UNCHANGED keyboardVars
  <2>1. \A p \in LedPlaces : At(p)' <=> At(p)
    BY <1>1 DEF keyboardVars, At, Top
  <2> QED
    BY <1>1, <2>1, LedsKept DEF keyboardVars, hardware, modes, notes
<1>2. CASE (\E k \in Keys : Press(k) \/ Release(k)) \/ Arrives \/ AddHandler \/ EnableIrq
  <2>1. UNCHANGED <<frames, ibuf, device, kleds, old_leds, hurried, kmode>>
    BY <1>2 DEF Press, Release, Arrives, AddHandler, EnableIrq, modes, hardware,
                notes
  <2>2. \A p \in LedPlaces : At(p)' <=> At(p)
    BY <2>1 DEF At, Top
  <2> QED
    BY <2>1, <2>2, LedsKept
<1>3. CASE Enter
  <2>1. frames = <<>> /\ frames' = <<Frame("read")>>
    BY <1>3, Stacks DEF Enter, MaskInv
  <2>2. \A p \in LedPlaces : At(p)' <=> At(p)
    BY <2>1, Stacks DEF At, Top, Frame, LedPlaces
  <2> QED
    BY <1>3, <2>2, LedsKept DEF Enter, hardware, modes, notes
<1>4. CASE Leave
  <2>1. frames # <<>> /\ At("end")
    BY <1>4 DEF Leave, At
  <2>2. PICK f \in FrameSet :
          Tail(frames) = <<>> /\ \A place : At(place) <=> f.at = place
    BY <2>1, TheFrame DEF Types
  <2>3. \A p \in LedPlaces : At(p)' <=> At(p)
    BY <1>4, <2>1, <2>2 DEF Leave, At, LedPlaces
  <2> QED
    BY <1>4, <2>3, LedsKept DEF Leave, hardware, modes, notes
<1>5. CASE Handler /\ ~Leave
  BY <1>5, HandlerLeds
<1> QED
  BY <1>1, <1>2, <1>3, <1>4, <1>5, LedsObeyed DEF Next

(* Whatever is typed while set_leds waits between its two bytes, the       *)
(* keyboard ends up showing the leds of kleds, and capitals are on exactly *)
(* if their led is, as long as no byte was written over one not yet taken. *)
THEOREM LedsTold == Spec => []LedsTell
<1>1. LedInv /\ Types => LedsTell
  <2> SUFFICES ASSUME LedInv, Types, frames = <<>>, ibuf = {}, ~hurried
               PROVE  /\ device = [leds |-> kleds, expects |-> FALSE]
                      /\ kleds = old_leds
                      /\ ("CAPSLED" \in kleds) <=> ("CAPS" \in kmode)
    BY DEF LedsTell
  <2>1. ~At("ack1") /\ ~At("wait2") /\ ~At("wait1")
    BY DEF At
  <2>2. LedsSent(kleds)
    BY <2>1 DEF LedInv
  <2> QED
    BY <2>2 DEF LedInv, LedsSent
<1> QED
  BY InitMasked, InitTyped, InitLeds, StepMasks, StepTyped, StepLeds, <1>1, PTL
  DEF Spec

-----------------------------------------------------------------------------
(* What a byte means: from a state s of the modifiers and the prefix, its  *)
(* handling leads to t.  Only the codes of two keys follow a prefix, and a *)
(* Del that finds a Ctrl and an Alt down may restart the machine.          *)
State(mode, e0) == [mode |-> mode, e0 |-> e0]
States == [mode : SUBSET (Modifiers \cup {"CAPSDOWN"}), e0 : 0 .. 2]
BitAfter(code, e0) ==
  [ctrl |-> IF e0 # 0 THEN "RCTRL" ELSE "LCTRL",
   alt |-> IF e0 # 0 THEN "ALTGR" ELSE "ALT",
   lshift |-> "LSHIFT", rshift |-> "RSHIFT"][code]
Shifts == {"ctrl", "alt", "lshift", "rshift"}
Both(mode) ==
  mode \cap {"LCTRL", "RCTRL"} # {} /\ mode \cap {"ALT", "ALTGR"} # {}
ModeAfter(s, b) ==
  IF b.code \in Shifts
  THEN IF b.up THEN s.mode \ {BitAfter(b.code, s.e0)}
       ELSE s.mode \cup {BitAfter(b.code, s.e0)}
  ELSE IF b.code = "caps"
  THEN IF b.up THEN s.mode \ {"CAPSDOWN"} ELSE s.mode \cup {"CAPSDOWN"}
  ELSE s.mode
PrefixAfter(b) == IF b = E0 THEN 1 ELSE IF b = E1 THEN 2 ELSE 0
Means(s, b, t, may) ==
  /\ b \in AnyByte
  /\ s.e0 # 0 => b.code \in {"ctrl", "alt"}
  /\ b = Byte("del", FALSE) /\ Both(s.mode) => may
  /\ t = State(ModeAfter(s, b), PrefixAfter(b))

(* The bytes of w lead from s to t, through the states of W.               *)
Leads(W, w, may) ==
  \A i \in 1 .. Len(w) : Means(W[i - 1], w[i], W[i], may)
Told(s, w, t, may) ==
  \E W \in [0 .. Len(w) -> States] :
    W[0] = s /\ W[Len(w)] = t /\ Leads(W, w, may)

LEMMA MeansTyped ==
  ASSUME NEW s \in States, NEW b, NEW t, NEW may, Means(s, b, t, may)
  PROVE  t \in States
<1>1. ModeAfter(s, b) \subseteq Modifiers \cup {"CAPSDOWN"}
  BY DEF ModeAfter, BitAfter, Shifts, Modifiers, States
<1>2. PrefixAfter(b) \in 0 .. 2
  BY DEF PrefixAfter
<1> QED
  BY <1>1, <1>2 DEF Means, State, States

LEMMA ToldNothing ==
  ASSUME NEW s \in States, NEW may
  PROVE  Told(s, <<>>, s, may)
<1> DEFINE W == [i \in 0 .. Len(<<>>) |-> s]
<1>1. W \in [0 .. Len(<<>>) -> States] /\ W[0] = s /\ W[Len(<<>>)] = s
  OBVIOUS
<1>2. Leads(W, <<>>, may)
  BY DEF Leads
<1> HIDE DEF W
<1> QED
  BY <1>1, <1>2 DEF Told

LEMMA ToldOne ==
  ASSUME NEW w \in Seq(AnyByte), NEW s, NEW t, NEW u, NEW b, NEW may,
         Told(s, w, t, may), Means(t, b, u, may)
  PROVE  Told(s, Append(w, b), u, may)
<1>1. PICK W \in [0 .. Len(w) -> States] :
        W[0] = s /\ W[Len(w)] = t /\ Leads(W, w, may)
  BY DEF Told
<1> DEFINE n == Len(w)  v == Append(w, b)
           V == [i \in 0 .. n + 1 |-> IF i = n + 1 THEN u ELSE W[i]]
<1>2. n \in Nat /\ b \in AnyByte
  BY DEF Means
<1>3. /\ Len(v) = n + 1 /\ v[n + 1] = b
      /\ \A i \in 1 .. n : v[i] = w[i]
  BY <1>2
<1>4. t \in States /\ u \in States
  BY <1>1, <1>2, MeansTyped
<1>5. /\ V \in [0 .. n + 1 -> States]
      /\ V[n + 1] = u /\ \A i \in 0 .. n : V[i] = W[i]
  BY <1>1, <1>2, <1>4
<1> HIDE DEF V, v
<1>6. Leads(V, v, may)
  <2> SUFFICES ASSUME NEW i \in 1 .. n + 1
               PROVE  Means(V[i - 1], v[i], V[i], may)
    BY <1>2, <1>3 DEF Leads
  <2>1. CASE i = n + 1
    BY <1>1, <1>2, <1>3, <1>5, <2>1
  <2>2. CASE i # n + 1
    <3>1. i \in 1 .. n /\ i - 1 \in 0 .. n /\ i \in 0 .. n
      BY <1>2, <2>2
    <3> QED
      BY <1>1, <1>3, <1>5, <3>1 DEF Leads
  <2> QED
    BY <2>1, <2>2
<1>7. V[0] = s
  BY <1>1, <1>2, <1>5
<1>8. Told(s, v, u, may)
  BY <1>2, <1>3, <1>5, <1>6, <1>7 DEF Told
<1> QED
  BY <1>8 DEF v

LEMMA ToldHead ==
  ASSUME NEW w \in Seq(AnyByte), NEW s, NEW t, NEW may,
         Told(s, w, t, may), w # <<>>
  PROVE  \E u \in States : Means(s, Head(w), u, may) /\ Told(u, Tail(w), t, may)
<1>1. PICK W \in [0 .. Len(w) -> States] :
        W[0] = s /\ W[Len(w)] = t /\ Leads(W, w, may)
  BY DEF Told
<1> DEFINE n == Len(w)  v == Tail(w)
           V == [i \in 0 .. n - 1 |-> W[i + 1]]
<1>2. /\ n \in Nat \ {0} /\ Len(v) = n - 1 /\ Head(w) = w[1]
      /\ \A i \in 1 .. n - 1 : v[i] = w[i + 1]
  OBVIOUS
<1>3. /\ V \in [0 .. n - 1 -> States]
      /\ \A i \in 0 .. n - 1 : V[i] = W[i + 1]
  BY <1>1, <1>2
<1> HIDE DEF V, v
<1>4. Leads(V, v, may)
  <2> SUFFICES ASSUME NEW i \in 1 .. n - 1
               PROVE  Means(V[i - 1], v[i], V[i], may)
    BY <1>2 DEF Leads
  <2>1. i + 1 \in 1 .. n /\ i - 1 \in 0 .. n - 1 /\ i \in 0 .. n - 1
        /\ (i - 1) + 1 = (i + 1) - 1
    BY <1>2
  <2>2. Means(W[(i + 1) - 1], w[i + 1], W[i + 1], may)
    BY <1>1, <2>1 DEF Leads
  <2>3. V[i - 1] = W[(i + 1) - 1] /\ V[i] = W[i + 1] /\ v[i] = w[i + 1]
    BY <1>2, <1>3, <2>1
  <2> QED
    BY <2>2, <2>3
<1>5. Means(s, Head(w), W[1], may)
  <2>1. 1 \in 1 .. n /\ 1 - 1 = 0
    BY <1>2
  <2>2. Means(W[1 - 1], w[1], W[1], may)
    BY <1>1, <2>1 DEF Leads
  <2> QED
    BY <1>1, <1>2, <2>1, <2>2
<1>6. Told(W[1], v, t, may)
  <2>1. V[0] = W[1] /\ V[n - 1] = t
    <3>1. 0 \in 0 .. n - 1 /\ n - 1 \in 0 .. n - 1 /\ (n - 1) + 1 = n /\ 0 + 1 = 1
      BY <1>2
    <3> QED
      BY <1>1, <1>3, <3>1
  <2> QED
    BY <1>2, <1>3, <1>4, <2>1 DEF Told
<1>7. W[1] \in States
  BY <1>1, <1>2
<1> QED
  BY <1>5, <1>6, <1>7 DEF v

(* What may happen only grows.                                             *)
LEMMA ToldStill ==
  ASSUME NEW w \in Seq(AnyByte), NEW s, NEW t, NEW may, NEW now,
         Told(s, w, t, may), may => now
  PROVE  Told(s, w, t, now)
<1>1. PICK W \in [0 .. Len(w) -> States] :
        W[0] = s /\ W[Len(w)] = t /\ Leads(W, w, may)
  BY DEF Told
<1>2. Leads(W, w, now)
  BY <1>1 DEF Leads, Means
<1> QED
  BY <1>1, <1>2 DEF Told

(* The keys that are down, as the bits of kmode.                           *)
BitKeys == {"lshift", "rshift", "lctrl", "rctrl", "alt", "altgr", "caps"}
HeldMode(h) == {BitOf[k] : k \in h \cap DOMAIN BitOf}

LEMMA HeldBits ==
  ASSUME NEW h
  PROVE  /\ HeldMode(h) \subseteq Modifiers \cup {"CAPSDOWN"}
         /\ "LSHIFT" \in HeldMode(h) <=> "lshift" \in h
         /\ "RSHIFT" \in HeldMode(h) <=> "rshift" \in h
         /\ "LCTRL" \in HeldMode(h) <=> "lctrl" \in h
         /\ "RCTRL" \in HeldMode(h) <=> "rctrl" \in h
         /\ "ALT" \in HeldMode(h) <=> "alt" \in h
         /\ "ALTGR" \in HeldMode(h) <=> "altgr" \in h
         /\ "CAPSDOWN" \in HeldMode(h) <=> "caps" \in h
<1>1. /\ DOMAIN BitOf = BitKeys
      /\ BitOf["lshift"] = "LSHIFT" /\ BitOf["rshift"] = "RSHIFT"
      /\ BitOf["lctrl"] = "LCTRL" /\ BitOf["rctrl"] = "RCTRL"
      /\ BitOf["alt"] = "ALT" /\ BitOf["altgr"] = "ALTGR"
      /\ BitOf["caps"] = "CAPSDOWN"
  BY DEF BitOf, BitKeys
<1> QED
  BY <1>1 DEF HeldMode, BitKeys, Modifiers

LEMMA HeldModeIs ==
  ASSUME NEW h, NEW mode, mode \subseteq Modifiers \cup {"CAPSDOWN"},
         "LSHIFT" \in mode <=> "lshift" \in h,
         "RSHIFT" \in mode <=> "rshift" \in h,
         "LCTRL" \in mode <=> "lctrl" \in h,
         "RCTRL" \in mode <=> "rctrl" \in h,
         "ALT" \in mode <=> "alt" \in h,
         "ALTGR" \in mode <=> "altgr" \in h,
         "CAPSDOWN" \in mode <=> "caps" \in h
  PROVE  mode = HeldMode(h)
<1>1. \A e \in Modifiers \cup {"CAPSDOWN"} : e \in mode <=> e \in HeldMode(h)
  BY HeldBits DEF Modifiers
<1>2. HeldMode(h) \subseteq Modifiers \cup {"CAPSDOWN"}
  BY HeldBits
<1> QED
  BY <1>1, <1>2, Zenon

(* The last byte of a key leaves the modifiers of the keys now down.       *)
LastByte(k, up) == Byte(Code(k), up)
Prefixed(k) == k \in {"rctrl", "altgr"}
LEMMA LastByteMeans ==
  ASSUME NEW k \in Keys \ {"pause"}, NEW up \in BOOLEAN, NEW h, NEW may,
         k = "del" /\ ~up /\ h \cap Ctrls # {} /\ h \cap Alts # {} => may
  PROVE  Means(State(HeldMode(h), IF Prefixed(k) THEN 1 ELSE 0),
               LastByte(k, up),
               State(HeldMode(IF up THEN h \ {k} ELSE h \cup {k}), 0), may)
<1> DEFINE e0 == IF Prefixed(k) THEN 1 ELSE 0
           s == State(HeldMode(h), e0)
           b == LastByte(k, up)
           g == IF up THEN h \ {k} ELSE h \cup {k}
<1>1. s.mode = HeldMode(h) /\ s.e0 = e0 /\ b.code = Code(k) /\ b.up = up
  BY DEF State, LastByte, Byte
<1>2. b \in AnyByte /\ PrefixAfter(b) = 0
  BY DEF LastByte, Byte, Code, AnyByte, Codes, Keys, Pairs, Locks, PrefixAfter,
         E0, E1
<1>3. e0 # 0 => b.code \in {"ctrl", "alt"}
  BY <1>1 DEF Prefixed, Code
<1>4. b = Byte("del", FALSE) /\ Both(HeldMode(h)) => may
  <2>1. b = Byte("del", FALSE) => Code(k) = "del" /\ ~up
    <3>1. Byte("del", FALSE).code = "del" /\ Byte("del", FALSE).up = FALSE
      BY DEF Byte
    <3> HIDE DEF b
    <3> QED
      BY <1>1, <3>1
  <2>2. Code(k) = "del" => k = "del"
    BY DEF Code
  <2>3. Both(HeldMode(h)) => h \cap Ctrls # {} /\ h \cap Alts # {}
    BY HeldBits DEF Both, Ctrls, Alts
  <2> QED
    BY <2>1, <2>2, <2>3
<1>5. ModeAfter(s, b) = HeldMode(g)
  <2> HIDE DEF s, b, g, e0
  <2> DEFINE m == HeldMode(h)
  <2>1. CASE k \in {"caps", "lshift", "rshift", "lctrl", "rctrl", "alt", "altgr"}
    <3> DEFINE bit == BitOf[k]
    <3>1. ModeAfter(s, b) = IF up THEN m \ {bit} ELSE m \cup {bit}
      <4>1. CASE k = "caps"
        <5>1. b.code = "caps" /\ bit = "CAPSDOWN"
          BY <1>1, <4>1 DEF Code, BitOf
        <5> HIDE DEF m, bit
        <5> QED
          BY <1>1, <5>1 DEF ModeAfter, Shifts, m
      <4>2. CASE k # "caps"
        <5>1. Code(k) \in Shifts /\ BitAfter(Code(k), e0) = bit
          BY <2>1, <4>2 DEF Shifts, BitAfter, Code, BitOf, Prefixed, e0
        <5> HIDE DEF m, bit
        <5> QED
          BY <1>1, <5>1 DEF ModeAfter, m
      <4> QED
        BY <4>1, <4>2
    <3>2. (IF up THEN m \ {bit} ELSE m \cup {bit}) = HeldMode(g)
      <4> DEFINE n == IF up THEN m \ {bit} ELSE m \cup {bit}
      <4>1. n \subseteq Modifiers \cup {"CAPSDOWN"}
        BY <2>1, HeldBits DEF BitOf, Modifiers
      <4>2. /\ "LSHIFT" \in n <=> "lshift" \in g
            /\ "RSHIFT" \in n <=> "rshift" \in g
            /\ "LCTRL" \in n <=> "lctrl" \in g
            /\ "RCTRL" \in n <=> "rctrl" \in g
            /\ "ALT" \in n <=> "alt" \in g
            /\ "ALTGR" \in n <=> "altgr" \in g
            /\ "CAPSDOWN" \in n <=> "caps" \in g
        BY <2>1, HeldBits DEF BitOf, g
      <4> HIDE DEF n
      <4>3. n = HeldMode(g)
        BY <4>1, <4>2, HeldModeIs
      <4> QED
        BY <4>3 DEF n
    <3> QED
      BY <3>1, <3>2
  <2>2. CASE k \notin {"caps", "lshift", "rshift", "lctrl", "rctrl", "alt", "altgr"}
    <3>1. ModeAfter(s, b) = m
      BY <1>1, <2>2 DEF ModeAfter, Shifts, Code, Keys, Pairs, Locks
    <3>2. m = HeldMode(g)
      <4> HIDE DEF m
      <4>1. /\ m \subseteq Modifiers \cup {"CAPSDOWN"}
            /\ "LSHIFT" \in m <=> "lshift" \in g
            /\ "RSHIFT" \in m <=> "rshift" \in g
            /\ "LCTRL" \in m <=> "lctrl" \in g
            /\ "RCTRL" \in m <=> "rctrl" \in g
            /\ "ALT" \in m <=> "alt" \in g
            /\ "ALTGR" \in m <=> "altgr" \in g
            /\ "CAPSDOWN" \in m <=> "caps" \in g
        BY <2>2, HeldBits DEF g, m
      <4> QED
        BY <4>1, HeldModeIs
    <3> QED
      BY <3>1, <3>2
  <2> QED
    BY <2>1, <2>2
<1> QED
  BY <1>1, <1>2, <1>3, <1>4, <1>5 DEF Means

LEMMA PrefixMeans ==
  ASSUME NEW mode, NEW may, NEW b \in {E0, E1}
  PROVE  Means(State(mode, 0), b, State(mode, IF b = E0 THEN 1 ELSE 2), may)
<1>1. b \in AnyByte /\ b.code \notin Shifts /\ b.code # "caps"
      /\ b # Byte("del", FALSE)
  <2>1. b.code \in {"E0", "E1"} /\ b \in AnyByte
    <3>1. CASE b = E0
      BY <3>1 DEF E0, Byte, AnyByte, Codes
    <3>2. CASE b = E1
      BY <3>2 DEF E1, Byte, AnyByte, Codes
    <3> QED
      BY <3>1, <3>2
  <2>2. Byte("del", FALSE).code = "del"
    BY DEF Byte
  <2> QED
    BY <2>1, <2>2 DEF Shifts
<1>2. PrefixAfter(b) = IF b = E0 THEN 1 ELSE 2
  BY DEF PrefixAfter
<1>3. State(mode, 0).mode = mode /\ State(mode, 0).e0 = 0
  BY DEF State
<1> QED
  BY <1>1, <1>2, <1>3 DEF Means, ModeAfter

LEMMA NumMeans ==
  ASSUME NEW mode, NEW may, NEW up \in BOOLEAN
  PROVE  Means(State(mode, 0), Byte("num", up), State(mode, 0), may)
<1> DEFINE b == Byte("num", up)
<1>1. b \in AnyByte /\ b.code \notin Shifts /\ b.code # "caps"
      /\ b # Byte("del", FALSE) /\ PrefixAfter(b) = 0
  BY DEF E0, E1, Byte, AnyByte, Codes, Shifts, PrefixAfter
<1>2. State(mode, 0).mode = mode /\ State(mode, 0).e0 = 0
  BY DEF State
<1> HIDE DEF b
<1>3. Means(State(mode, 0), b, State(mode, 0), may)
  BY <1>1, <1>2 DEF Means, ModeAfter
<1> QED
  BY <1>3 DEF b

LEMMA PrefixedCtrlMeans ==
  ASSUME NEW mode, NEW may, NEW up \in BOOLEAN
  PROVE  Means(State(mode, 2), Byte("ctrl", up),
               State(IF up THEN mode \ {"RCTRL"} ELSE mode \cup {"RCTRL"}, 0), may)
<1> DEFINE b == Byte("ctrl", up)
<1>1. b \in AnyByte /\ b.code = "ctrl" /\ b.up = up
      /\ b # Byte("del", FALSE) /\ PrefixAfter(b) = 0
  BY DEF E0, E1, Byte, AnyByte, Codes, PrefixAfter
<1>2. State(mode, 2).mode = mode /\ State(mode, 2).e0 = 2
  BY DEF State
<1>3. BitAfter("ctrl", 2) = "RCTRL"
  BY DEF BitAfter
<1> HIDE DEF b
<1>4. Means(State(mode, 2), b,
            State(IF up THEN mode \ {"RCTRL"} ELSE mode \cup {"RCTRL"}, 0), may)
  BY <1>1, <1>2, <1>3 DEF Means, ModeAfter, Shifts
<1> QED
  BY <1>4 DEF b

LEMMA Appends ==
  ASSUME NEW S, NEW w \in Seq(S), NEW v \in Seq(S), NEW a \in S
  PROVE  /\ w \o <<a>> = Append(w, a)
         /\ Append(w, a) \in Seq(S)
         /\ w \o Append(v, a) = Append(w \o v, a)
OBVIOUS

(* The bytes of a key, from the keys that are down to those down after it. *)
LEMMA KeyTold ==
  ASSUME NEW k \in Keys \ {"pause"}, NEW up \in BOOLEAN, NEW h, NEW may,
         k = "del" /\ ~up /\ h \cap Ctrls # {} /\ h \cap Alts # {} => may,
         NEW w \in Seq(AnyByte), NEW s, Told(s, w, State(HeldMode(h), 0), may)
  PROVE  Told(s, w \o Bytes(k, up),
              State(HeldMode(IF up THEN h \ {k} ELSE h \cup {k}), 0), may)
<1> DEFINE b == LastByte(k, up)
           t == State(HeldMode(IF up THEN h \ {k} ELSE h \cup {k}), 0)
<1>1. Means(State(HeldMode(h), IF Prefixed(k) THEN 1 ELSE 0), b, t, may)
  BY LastByteMeans
<1>2. b \in AnyByte /\ E0 \in AnyByte
  BY <1>1, PrefixMeans DEF Means
<1> HIDE DEF b, t
<1>3. CASE Prefixed(k)
  <2>1. Means(State(HeldMode(h), 0), E0, State(HeldMode(h), 1), may)
    BY PrefixMeans
  <2>2. Told(s, Append(w, E0), State(HeldMode(h), 1), may)
    BY <2>1, ToldOne
  <2>3. Append(w, E0) \in Seq(AnyByte)
    BY <1>2
  <2>4. Told(s, Append(Append(w, E0), b), t, may)
    BY <1>1, <1>3, <2>2, <2>3, ToldOne
  <2>5. w \o <<E0, b>> = Append(Append(w, E0), b)
    BY <1>2
  <2>6. Bytes(k, up) = <<E0, b>>
    BY <1>3 DEF Bytes, Prefixed, LastByte, b
  <2> QED
    BY <2>4, <2>5, <2>6 DEF t
<1>4. CASE ~Prefixed(k)
  <2>1. Told(s, Append(w, b), t, may)
    BY <1>1, <1>4, ToldOne
  <2>2. Bytes(k, up) = <<b>>
    BY <1>4 DEF Bytes, Prefixed, LastByte, b
  <2>3. w \o <<b>> = Append(w, b)
    BY <1>2, Appends
  <2> QED
    BY <2>1, <2>2, <2>3 DEF t
<1> QED
  BY <1>3, <1>4

(* Pause leaves everything as it was: its codes press and release the      *)
(* right Ctrl, as the E1 before them makes it, and Num Lock.               *)
LEMMA PauseTold ==
  ASSUME NEW mode, "RCTRL" \notin mode, NEW may,
         NEW w \in Seq(AnyByte), NEW s, Told(s, w, State(mode, 0), may)
  PROVE  Told(s, w \o Bytes("pause", FALSE), State(mode, 0), may)
<1> DEFINE c == Byte("ctrl", FALSE)  n == Byte("num", FALSE)
           d == Byte("ctrl", TRUE)   o == Byte("num", TRUE)
           more == mode \cup {"RCTRL"}
<1>1. /\ E1 \in AnyByte /\ c \in AnyByte /\ n \in AnyByte
      /\ d \in AnyByte /\ o \in AnyByte
  BY DEF E1, Byte, AnyByte, Codes
<1>2. E1 # E0
  BY DEF E0, E1, Byte
<1>3. /\ Means(State(mode, 0), E1, State(mode, 2), may)
      /\ Means(State(mode, 2), c, State(more, 0), may)
      /\ Means(State(more, 0), n, State(more, 0), may)
      /\ Means(State(more, 0), E1, State(more, 2), may)
      /\ Means(State(more, 2), d, State(mode, 0), may)
      /\ Means(State(mode, 0), o, State(mode, 0), may)
  <2>1. more \ {"RCTRL"} = mode
    OBVIOUS
  <2>2. Means(State(more, 2), d, State(more \ {"RCTRL"}, 0), may)
    BY PrefixedCtrlMeans
  <2>3. Means(State(more, 2), d, State(mode, 0), may)
    BY <2>1, <2>2
  <2> QED
    BY <1>2, <2>3, PrefixMeans, PrefixedCtrlMeans, NumMeans
<1>4. w \o Bytes("pause", FALSE) = w \o <<E1, c, n, E1, d, o>>
  BY DEF Bytes
<1> HIDE DEF c, n, d, o, more
<1> DEFINE w1 == Append(w, E1)   w2 == Append(w1, c)  w3 == Append(w2, n)
           w4 == Append(w3, E1)  w5 == Append(w4, d)  w6 == Append(w5, o)
<1>5. w1 \in Seq(AnyByte) /\ Told(s, w1, State(mode, 2), may)
  BY <1>1, <1>3, ToldOne
<1> HIDE DEF w1
<1>6. w2 \in Seq(AnyByte) /\ Told(s, w2, State(more, 0), may)
  BY <1>1, <1>3, <1>5, ToldOne
<1> HIDE DEF w2
<1>7. w3 \in Seq(AnyByte) /\ Told(s, w3, State(more, 0), may)
  BY <1>1, <1>3, <1>6, ToldOne
<1> HIDE DEF w3
<1>8. w4 \in Seq(AnyByte) /\ Told(s, w4, State(more, 2), may)
  BY <1>1, <1>3, <1>7, ToldOne
<1> HIDE DEF w4
<1>9. w5 \in Seq(AnyByte) /\ Told(s, w5, State(mode, 0), may)
  BY <1>1, <1>3, <1>8, ToldOne
<1> HIDE DEF w5
<1>10. Told(s, w6, State(mode, 0), may)
  BY <1>1, <1>3, <1>9, ToldOne
<1>11. w \o <<E1, c, n, E1, d, o>> = w6
  <2>1. /\ w1 = w \o <<E1>> /\ w2 = w \o <<E1, c>>
    BY <1>1 DEF w1, w2
  <2>2. w3 = w \o <<E1, c, n>>
    BY <1>1, <2>1 DEF w3
  <2>3. w4 = w \o <<E1, c, n, E1>>
    BY <1>1, <2>2 DEF w4
  <2>4. w5 = w \o <<E1, c, n, E1, d>>
    BY <1>1, <2>3 DEF w5
  <2> QED
    BY <1>1, <2>4
<1> QED
  BY <1>4, <1>10, <1>11

-----------------------------------------------------------------------------
(* The bytes not handled yet, that of the running handler first, then the  *)
(* one the controller offers, then those on the wire, lead from the state  *)
(* of the driver to the one its user expects.  Between a prefix and its    *)
(* code the controller offers the code or has nothing but the prefix.      *)
Now == State(kmode \ {"CAPS"}, ke0)
Expected == State(HeldMode(held), 0)
Handling(s) == IF At("table") THEN Means(Now, Top.byte, s, asked) ELSE s = Now
Offered(s, t) == IF obuf.full THEN Means(s, obuf.byte, t, asked) ELSE t = s
Follows ==
  \E s, t \in States :
    Handling(s) /\ Offered(s, t) /\ Told(t, wire, Expected, asked)
HalfPrefixed == IF At("table") THEN Top.byte \in {E0, E1} ELSE ke0 # 0
Commanding == At("wait1") \/ At("ack1") \/ At("wait2") \/ At("ack2")
StreamInv ==
  ~muddled =>
    /\ Follows
    /\ HalfPrefixed => obuf.full \/ obuf.byte \in {E0, E1}
    /\ Commanding => ke0 = 0
    /\ At("reboot") => asked

LEMMA NowTyped == Types => Now \in States
BY DEF Types, ModeTypes, Now, State, States

LEMMA HeldNothing == HeldMode({}) = {}
BY DEF HeldMode

LEMMA InitFollows == Init => StreamInv
<1> SUFFICES ASSUME Init PROVE StreamInv
  OBVIOUS
<1>1. ~At("table") /\ ~Commanding /\ ~At("reboot")
  BY DEF Init, At, Commanding
<1>2. Now = State({}, 0) /\ Expected = State({}, 0)
  BY HeldNothing DEF Init, Now, Expected
<1>3. State({}, 0) \in States
  BY DEF State, States
<1>4. Told(State({}, 0), wire, State({}, 0), asked)
  BY <1>3, ToldNothing DEF Init
<1>5. ~obuf.full /\ ke0 = 0
  BY DEF Init
<1>6. Handling(State({}, 0)) /\ Offered(State({}, 0), State({}, 0))
  BY <1>1, <1>2, <1>5 DEF Handling, Offered
<1> QED
  BY <1>1, <1>2, <1>3, <1>4, <1>5, <1>6 DEF StreamInv, Follows, HalfPrefixed

(* What comes in at the end of the wire.                                   *)
LEMMA MeansStill ==
  ASSUME NEW s, NEW b, NEW t, NEW may, NEW now, Means(s, b, t, may), may => now
  PROVE  Means(s, b, t, now)
BY DEF Means

LEMMA FollowsIn ==
  ASSUME Types, StreamInv, UNCHANGED <<frames, obuf, kmode, ke0, muddled>>,
         asked => asked',
         \A s : Told(s, wire, Expected, asked') => Told(s, wire', Expected', asked')
  PROVE  StreamInv'
<1> SUFFICES ASSUME ~muddled PROVE StreamInv'
  BY DEF StreamInv
<1>1. \A p : At(p)' <=> At(p)
  BY DEF At, Top
<1>2. Now' = Now /\ Top' = Top
  BY DEF Now, Top
<1>3. PICK s \in States, t \in States :
        Handling(s) /\ Offered(s, t) /\ Told(t, wire, Expected, asked)
  BY DEF StreamInv, Follows
<1>4. Handling(s)'
  <2>1. CASE At("table")
    <3>1. Means(Now, Top.byte, s, asked')
      BY <1>3, <2>1, MeansStill DEF Handling
    <3> QED
      BY <1>1, <1>2, <2>1, <3>1 DEF Handling
  <2>2. CASE ~At("table")
    BY <1>1, <1>2, <1>3, <2>2 DEF Handling
  <2> QED
    BY <2>1, <2>2
<1>5. Offered(s, t)'
  <2>1. CASE obuf.full
    <3>1. Means(s, obuf.byte, t, asked')
      BY <1>3, <2>1, MeansStill DEF Offered
    <3> QED
      BY <2>1, <3>1 DEF Offered
  <2>2. CASE ~obuf.full
    BY <1>3, <2>2 DEF Offered
  <2> QED
    BY <2>1, <2>2
<1>6. Told(t, wire, Expected, asked')
  BY <1>3, ToldStill DEF Types, HardwareTypes
<1>7. Told(t, wire, Expected, asked)'
  BY <1>6
<1>8. Follows'
  BY <1>4, <1>5, <1>7 DEF Follows
<1>9. HalfPrefixed' <=> HalfPrefixed
  BY <1>1, <1>2 DEF HalfPrefixed
<1>10. Commanding' <=> Commanding
  BY <1>1 DEF Commanding
<1> QED
  BY <1>1, <1>8, <1>9, <1>10 DEF StreamInv

LEMMA AckMeans ==
  ASSUME NEW mode, NEW may
  PROVE  /\ Means(State(mode, 0), ACK, State(mode, 0), may)
         /\ \A e0, t : Means(State(mode, e0), ACK, t, may) =>
              e0 = 0 /\ t = State(mode, 0)
<1>1. /\ ACK \in AnyByte /\ ACK.code = "ACK" /\ ACK # E0 /\ ACK # E1
      /\ Byte("del", FALSE).code = "del"
  BY DEF ACK, E0, E1, Byte, AnyByte, Codes
<1>2. PrefixAfter(ACK) = 0
  BY <1>1 DEF PrefixAfter
<1>3. \A e0 : State(mode, e0).mode = mode /\ State(mode, e0).e0 = e0
  BY DEF State
<1>4. \A e0 : ModeAfter(State(mode, e0), ACK) = mode
  BY <1>1, <1>3 DEF ModeAfter, Shifts
<1> QED
  BY <1>1, <1>2, <1>3, <1>4 DEF Means

LEMMA OutsideFollows ==
  ASSUME Types, MaskInv, StreamInv,
         \/ \E k \in Keys : Press(k) \/ Release(k)
         \/ Obeys \/ AddHandler \/ EnableIrq \/ UNCHANGED keyboardVars
  PROVE  StreamInv'
<1>1. wire \in Seq(AnyByte)
  BY DEF Types, HardwareTypes
<1>2. ASSUME NEW k \in Keys, Press(k)
      PROVE  StreamInv'
  <2>1. /\ UNCHANGED <<frames, obuf, kmode, ke0, muddled>>
        /\ asked => asked'
        /\ wire' = wire \o Bytes(k, FALSE)
        /\ k = "del" /\ held \cap Ctrls # {} /\ held \cap Alts # {} => asked'
        /\ k = "pause" => held \cap Ctrls = {} /\ held' = held
        /\ k # "pause" => held' = held \cup {k}
    BY <1>2 DEF Press, modes
  <2>2. ASSUME NEW s, Told(s, wire, Expected, asked')
        PROVE  Told(s, wire', Expected', asked')
    <3>1. CASE k = "pause"
      <4>1. "RCTRL" \notin HeldMode(held)
        BY <2>1, <3>1, HeldBits DEF Ctrls
      <4>2. Told(s, wire \o Bytes("pause", FALSE), Expected, asked')
        BY <1>1, <2>2, <4>1, PauseTold DEF Expected
      <4>3. held' = held /\ wire' = wire \o Bytes("pause", FALSE)
        BY <2>1, <3>1, Zenon
      <4>4. Expected' = Expected
        BY <4>3 DEF Expected
      <4> QED
        BY <4>2, <4>3, <4>4, Zenon
    <3>2. CASE k # "pause"
      <4>1. Told(s, wire \o Bytes(k, FALSE),
                 State(HeldMode(IF FALSE THEN held \ {k} ELSE held \cup {k}), 0),
                 asked')
        BY <1>1, <2>1, <2>2, <3>2, KeyTold DEF Expected
      <4>2. held' = held \cup {k}
        BY <2>1, <3>2
      <4>3. Expected' = State(HeldMode(held \cup {k}), 0)
        BY <4>2 DEF Expected
      <4>4. (IF FALSE THEN held \ {k} ELSE held \cup {k}) = held \cup {k}
        OBVIOUS
      <4> QED
        BY <2>1, <4>1, <4>3, <4>4, Zenon
    <3> QED
      BY <3>1, <3>2
  <2> QED
    BY <2>1, <2>2, FollowsIn
<1>3. ASSUME NEW k \in Keys, Release(k)
      PROVE  StreamInv'
  <2>1. /\ UNCHANGED <<frames, obuf, kmode, ke0, muddled>> /\ asked' = asked
        /\ wire' = wire \o Bytes(k, TRUE) /\ held' = held \ {k} /\ k \in held
    BY <1>3 DEF Release, modes, notes
  <2>2. k # "pause"
    BY <2>1 DEF Types, HardwareTypes
  <2>3. ASSUME NEW s, Told(s, wire, Expected, asked')
        PROVE  Told(s, wire', Expected', asked')
    <3>1. Told(s, wire \o Bytes(k, TRUE),
               State(HeldMode(IF TRUE THEN held \ {k} ELSE held \cup {k}), 0),
               asked')
      BY <1>1, <2>2, <2>3, KeyTold DEF Expected
    <3> QED
      BY <2>1, <3>1 DEF Expected
  <2> QED
    BY <2>1, <2>3, FollowsIn
<1>4. CASE Obeys
  <2>1. /\ UNCHANGED <<frames, obuf, kmode, ke0, muddled>> /\ asked' = asked
        /\ wire' = Append(wire, ACK) /\ held' = held
    BY <1>4 DEF Obeys, modes, notes
  <2>2. ASSUME NEW s, Told(s, wire, Expected, asked')
        PROVE  Told(s, wire', Expected', asked')
    <3>1. Told(s, Append(wire, ACK), Expected, asked')
      BY <1>1, <2>2, ToldOne, AckMeans DEF Expected
    <3> QED
      BY <2>1, <3>1 DEF Expected
  <2> QED
    BY <2>1, <2>2, FollowsIn
<1>5. CASE AddHandler \/ EnableIrq \/ UNCHANGED keyboardVars
  <2>1. UNCHANGED <<frames, obuf, kmode, ke0, muddled, asked, wire, held>>
    BY <1>5 DEF AddHandler, EnableIrq, keyboardVars, hardware, modes, notes
  <2>2. Expected' = Expected
    BY <2>1 DEF Expected
  <2> QED
    BY <2>1, <2>2, FollowsIn
<1> QED
  BY <1>2, <1>3, <1>4, <1>5

(* A byte that arrives is the first of the wire, and is offered.           *)
LEMMA ArrivesFollows ==
  ASSUME Types, StreamInv, Arrives
  PROVE  StreamInv'
<1> SUFFICES ASSUME ~muddled PROVE StreamInv'
  BY DEF StreamInv, Arrives, notes
<1>1. /\ ~obuf.full /\ wire # <<>> /\ wire' = Tail(wire)
      /\ obuf'.full /\ obuf'.byte = Head(wire)
      /\ UNCHANGED <<held, frames, kmode, ke0, muddled, asked>>
  BY DEF Arrives, modes, notes
<1>2. \A p : At(p)' <=> At(p)
  BY <1>1 DEF At, Top
<1>3. Now' = Now /\ Top' = Top /\ Expected' = Expected
  BY <1>1 DEF Now, Top, Expected
<1>4. PICK s \in States, t \in States :
        Handling(s) /\ Offered(s, t) /\ Told(t, wire, Expected, asked)
  BY DEF StreamInv, Follows
<1>5. t = s
  BY <1>1, <1>4 DEF Offered
<1>6. PICK u \in States :
        Means(s, Head(wire), u, asked) /\ Told(u, Tail(wire), Expected, asked)
  BY <1>1, <1>4, <1>5, ToldHead DEF Types, HardwareTypes
<1>7. Handling(s)'
  BY <1>1, <1>2, <1>3, <1>4 DEF Handling
<1>8. Offered(s, u)'
  BY <1>1, <1>6 DEF Offered
<1>9. Told(u, wire, Expected, asked)'
  <2>1. Told(u, wire', Expected', asked')
    BY <1>1, <1>3, <1>6, Zenon
  <2> QED
    BY <2>1
<1>10. Follows'
  BY <1>7, <1>8, <1>9 DEF Follows
<1>11. Commanding' <=> Commanding
  BY <1>2 DEF Commanding
<1> QED
  BY <1>1, <1>2, <1>10, <1>11 DEF StreamInv

LEMMA EntersOrLeaves ==
  ASSUME Types, MaskInv, StreamInv, Enter \/ Leave
  PROVE  StreamInv'
<1> SUFFICES ASSUME ~muddled PROVE StreamInv'
  BY DEF StreamInv, Enter, Leave, notes
<1>1. UNCHANGED <<held, wire, obuf, kmode, ke0, muddled, asked>>
  BY DEF Enter, Leave, hardware, modes, notes
<1>2. \A p \in Places \ {"read", "end"} : ~At(p) /\ ~At(p)'
  <2>1. CASE Enter
    <3>1. frames = <<>> /\ frames' = <<Frame("read")>>
      BY <2>1, Stacks DEF Enter, MaskInv
    <3> QED
      BY <3>1, Stacks DEF At, Top, Frame
  <2>2. CASE Leave
    <3>1. frames # <<>> /\ At("end")
      BY <2>2 DEF Leave, At
    <3>2. PICK f \in FrameSet :
            Tail(frames) = <<>> /\ \A place : At(place) <=> f.at = place
      BY <3>1, TheFrame DEF Types
    <3> QED
      BY <2>2, <3>1, <3>2 DEF Leave, At
  <2> QED
    BY <2>1, <2>2
<1>3. /\ ~At("table") /\ ~At("table")' /\ ~Commanding /\ ~Commanding'
      /\ ~At("reboot") /\ ~At("reboot")'
  BY <1>2 DEF Places, Commanding
<1>4. Now' = Now /\ Expected' = Expected
  BY <1>1 DEF Now, Expected
<1>5. PICK s \in States, t \in States :
        Handling(s) /\ Offered(s, t) /\ Told(t, wire, Expected, asked)
  BY DEF StreamInv, Follows
<1>6. Handling(s)' /\ Offered(s, t)'
  BY <1>1, <1>3, <1>4, <1>5 DEF Handling, Offered
<1>7. Told(t, wire', Expected', asked')
  BY <1>1, <1>4, <1>5
<1>8. Follows'
  BY <1>6, <1>7 DEF Follows
<1> QED
  BY <1>1, <1>3, <1>8 DEF StreamInv, HalfPrefixed

(* The byte being handled leads to what its handling makes of the modes.   *)
LEMMA Handled ==
  ASSUME Types, StreamInv, ~muddled, At("table"),
         UNCHANGED <<held, wire, obuf, muddled, asked>>,
         ~At("table")', Now' = State(ModeAfter(Now, Top.byte), PrefixAfter(Top.byte)),
         Commanding' => ke0' = 0, At("reboot")' => asked
  PROVE  StreamInv'
<1>1. PICK s \in States, t \in States :
        /\ Means(Now, Top.byte, s, asked) /\ Offered(s, t)
        /\ Told(t, wire, Expected, asked)
  BY DEF StreamInv, Follows, Handling
<1>2. s = Now'
  BY <1>1 DEF Means
<1>3. Handling(s)' /\ Offered(s, t)'
  BY <1>1, <1>2 DEF Handling, Offered
<1>4. Expected' = Expected
  BY DEF Expected
<1>5. Told(t, wire', Expected', asked')
  BY <1>1, <1>4
<1>6. Follows'
  BY <1>3, <1>5 DEF Follows
<1>7. HalfPrefixed' => HalfPrefixed
  <2>1. Now'.e0 = ke0'
    BY DEF Now, State
  <2>2. Now'.e0 = PrefixAfter(Top.byte)
    BY DEF State
  <2> QED
    BY <2>1, <2>2 DEF HalfPrefixed, PrefixAfter
<1> QED
  BY <1>6, <1>7 DEF StreamInv

LEMMA ReadFollows ==
  ASSUME Types, StreamInv, Read
  PROVE  StreamInv'
<1> SUFFICES ASSUME ~muddled, ~muddled' PROVE StreamInv'
  BY DEF StreamInv, Read
<1>1. frames # <<>> /\ At("read")
  BY DEF Read, At
<1>2. PICK f \in FrameSet : \A place : At(place) <=> f.at = place
  BY <1>1, TheFrame DEF Types
<1>3. ~At("table") /\ At("table")' /\ ~Commanding' /\ ~At("reboot")'
      /\ Top'.byte = obuf.byte
  BY <1>1, <1>2, FrameReads
  DEF Read, Types, HardwareTypes, Commanding
<1>4. /\ ~obuf'.full /\ obuf'.byte = obuf.byte
      /\ UNCHANGED <<held, wire, kmode, ke0, asked>>
      /\ obuf.full \/ obuf.byte = ACK
  BY DEF Read, Types, HardwareTypes, modes
<1>5. Now' = Now /\ Expected' = Expected
  BY <1>4 DEF Now, Expected
<1>6. PICK t \in States :
        Offered(Now, t) /\ Told(t, wire, Expected, asked)
  BY <1>3 DEF StreamInv, Follows, Handling
<1>7. Means(Now, obuf.byte, t, asked)
  <2>1. CASE obuf.full
    BY <1>6, <2>1 DEF Offered
  <2>2. CASE ~obuf.full
    <3>1. obuf.byte = ACK /\ ACK \notin {E0, E1}
      BY <1>4, <2>2 DEF ACK, E0, E1, Byte
    <3>2. ke0 = 0
      BY <1>3, <2>2, <3>1 DEF StreamInv, HalfPrefixed
    <3>3. t = Now
      BY <1>6, <2>2 DEF Offered
    <3> QED
      BY <3>1, <3>2, <3>3, AckMeans DEF Now
  <2> QED
    BY <2>1, <2>2
<1>8. Handling(t)' /\ Offered(t, t)'
  BY <1>3, <1>4, <1>5, <1>7 DEF Handling, Offered
<1>9. Told(t, wire', Expected', asked')
  BY <1>4, <1>5, <1>6
<1>10. Follows'
  BY <1>8, <1>9 DEF Follows
<1> QED
  BY <1>3, <1>4, <1>10 DEF StreamInv, HalfPrefixed

LEMMA DoneFollows ==
  ASSUME Types, StreamInv, At("table"), NEW mode, NEW npad, Done(mode, npad),
         mode \ {"CAPS"} = ModeAfter(Now, Top.byte), PrefixAfter(Top.byte) = 0
  PROVE  StreamInv'
<1> SUFFICES ASSUME ~muddled PROVE StreamInv'
  BY DEF StreamInv, Done, notes
<1>1. /\ UNCHANGED <<held, wire, obuf, muddled, asked>>
      /\ kmode' = mode /\ ke0' = 0
  BY DEF Done, hardware, notes
<1>2. ~At("table")' /\ ~Commanding' /\ ~At("reboot")'
  BY FrameGoes DEF Done, At, Types, Places, Commanding
<1>3. Now' = State(ModeAfter(Now, Top.byte), PrefixAfter(Top.byte))
  BY <1>1 DEF Now
<1> QED
  BY <1>1, <1>2, <1>3, Handled

LEMMA LockFollows ==
  ASSUME Types, StreamInv, At("table"), NEW led, NEW mode, Lock(led, mode),
         mode \ {"CAPS"} = ModeAfter(Now, Top.byte), PrefixAfter(Top.byte) = 0,
         Top.byte.code \in {"caps", "num", "scroll"}
  PROVE  StreamInv'
<1> SUFFICES ASSUME ~muddled PROVE StreamInv'
  BY DEF StreamInv, Lock, notes
<1>1. ke0 = 0
  <2>1. PICK s : Means(Now, Top.byte, s, asked)
    BY DEF StreamInv, Follows, Handling
  <2>2. Now.e0 = ke0
    BY DEF Now, State
  <2> QED
    BY <2>1, <2>2 DEF Means
<1>2. /\ UNCHANGED <<held, wire, obuf, muddled, asked>>
      /\ kmode' = mode /\ ke0' = 0
      /\ GoesTo("wait1") \/ GoesTo("end")
  BY <1>1 DEF Lock, hardware, notes
<1>3. ~At("table")' /\ ~At("reboot")'
  BY <1>2, FrameGoes DEF At, Types, Places
<1>4. Now' = State(ModeAfter(Now, Top.byte), PrefixAfter(Top.byte))
  BY <1>2 DEF Now
<1> QED
  BY <1>2, <1>3, <1>4, Handled

LEMMA ByteFields ==
  \A code, up : /\ Byte(code, up).code = code /\ Byte(code, up).up = up
                /\ code \notin {"E0", "E1"} => PrefixAfter(Byte(code, up)) = 0
<1>1. \A code, up : Byte(code, up).code = code /\ Byte(code, up).up = up
  BY DEF Byte
<1>2. E0.code = "E0" /\ E1.code = "E1"
  BY DEF E0, E1, Byte
<1> QED
  BY <1>1, <1>2 DEF PrefixAfter

LEMMA ModifierFollows ==
  ASSUME Types, StreamInv, NEW code \in Shifts, NEW up \in BOOLEAN, NEW npad,
         Entry(code, up),
         Done(IF up THEN kmode \ {Bit(code)} ELSE kmode \cup {Bit(code)}, npad)
  PROVE  StreamInv'
<1> DEFINE bit == Bit(code)
           mode == IF up THEN kmode \ {bit} ELSE kmode \cup {bit}
<1>1. /\ At("table") /\ Top.byte.code = code /\ Top.byte.up = up
      /\ PrefixAfter(Top.byte) = 0
  BY ByteFields DEF Entry, Shifts
<1>2. Now.mode = kmode \ {"CAPS"} /\ Now.e0 = ke0
  BY DEF Now, State
<1>3. BitAfter(code, ke0) = bit /\ bit # "CAPS"
  BY DEF BitAfter, Bit, Shifts
<1> HIDE DEF bit
<1>4. mode \ {"CAPS"} = ModeAfter(Now, Top.byte)
  BY <1>1, <1>2, <1>3 DEF ModeAfter
<1>5. Done(mode, npad)
  BY DEF bit
<1> HIDE DEF mode
<1> QED
  BY <1>1, <1>4, <1>5, DoneFollows

LEMMA CodeFields ==
  ASSUME NEW b, NEW code \in Codes \ {"E0", "E1"}, NEW up \in BOOLEAN,
         b = Byte(code, up)
  PROVE  b.code = code /\ (b.up <=> up) /\ PrefixAfter(b) = 0
<1>1. b.code = code /\ b.up = up
  BY DEF Byte
<1>2. E0.code = "E0" /\ E1.code = "E1"
  BY DEF E0, E1, Byte
<1> QED
  BY <1>1, <1>2 DEF PrefixAfter

(* A code that changes no modifier.                                        *)
LEMMA PlainFollows ==
  ASSUME Types, StreamInv, At("table"), NEW npad, Done(kmode, npad),
         Top.byte.code \notin Shifts \cup {"caps"}, PrefixAfter(Top.byte) = 0
  PROVE  StreamInv'
<1>1. Now.mode = kmode \ {"CAPS"}
  BY DEF Now, State
<1>2. kmode \ {"CAPS"} = ModeAfter(Now, Top.byte)
  BY <1>1 DEF ModeAfter
<1> QED
  BY <1>2, DoneFollows

LEMMA CommandFollows ==
  ASSUME Types, StreamInv, LedCommand
  PROVE  StreamInv'
<1>0. muddled => muddled'
  <2>1. ASSUME NEW place, NEW command, NEW next, KbWait(place, command, next)
        PROVE  muddled => muddled'
    BY <2>1 DEF KbWait
  <2>2. ASSUME NEW place, NEW next, KbAck(place, next)
        PROVE  muddled => muddled'
    BY <2>2 DEF KbAck
  <2> QED
    BY <2>1, <2>2 DEF LedCommand
<1> SUFFICES ASSUME ~muddled, ~muddled' PROVE StreamInv'
  BY <1>0 DEF StreamInv
<1>1. frames # <<>> /\ Commanding
  BY DEF LedCommand, KbWait, KbAck, At, Commanding
<1>2. PICK f \in FrameSet : \A place : At(place) <=> f.at = place
  BY <1>1, TheFrame DEF Types
<1>3. ke0 = 0 /\ ~At("table")
  BY <1>1, <1>2 DEF StreamInv, Commanding
<1>4. ke0' = 0 /\ UNCHANGED <<kmode, wire, held, asked>>
  BY <1>3 DEF LedCommand, KbWait, KbAck, modes
<1>5. ~At("table")' /\ ~At("reboot")'
  <2>1. Looks \/ \E place \in {"ack1", "wait2", "ack2", "end"} : GoesTo(place)
    BY DEF LedCommand, KbWait, KbAck
  <2>2. CASE Looks
    BY <1>1, <1>2, <2>2, FrameLooks DEF Types, Commanding
  <2>3. CASE \E place \in {"ack1", "wait2", "ack2", "end"} : GoesTo(place)
    BY <1>1, <2>3, FrameGoes DEF Types, Places
  <2> QED
    BY <2>1, <2>2, <2>3
<1>6. Now' = Now /\ Expected' = Expected
  BY <1>3, <1>4 DEF Now, Expected
<1>7. PICK t \in States :
        Offered(Now, t) /\ Told(t, wire, Expected, asked)
  BY <1>3 DEF StreamInv, Follows, Handling
<1>8. \/ obuf' = obuf
      \/ ~obuf'.full /\ (obuf.full => obuf.byte = ACK)
  BY DEF LedCommand, KbWait, KbAck, Types, HardwareTypes
<1>9. Handling(Now)' /\ Offered(Now, t)'
  <2>1. Handling(Now)'
    BY <1>5, <1>6 DEF Handling
  <2>2. CASE obuf' = obuf
    BY <1>4, <1>6, <1>7, <2>1, <2>2 DEF Offered
  <2>3. CASE ~obuf'.full /\ ~obuf.full
    BY <1>6, <1>7, <2>1, <2>3 DEF Offered
  <2>4. CASE ~obuf'.full /\ obuf.full /\ obuf.byte = ACK
    <3>1. Means(Now, ACK, t, asked)
      BY <1>7, <2>4 DEF Offered
    <3>2. t = Now
      BY <1>3, <3>1, AckMeans DEF Now
    <3> QED
      BY <1>6, <2>1, <2>4, <3>2 DEF Offered
  <2> QED
    BY <1>8, <2>1, <2>2, <2>3, <2>4
<1>10. Told(t, wire', Expected', asked')
  BY <1>4, <1>6, <1>7
<1>11. Follows'
  BY <1>6, <1>7, <1>9, <1>10, NowTyped DEF Follows
<1> QED
  BY <1>4, <1>5, <1>11 DEF StreamInv, HalfPrefixed

LEMMA HandlerFollows ==
  ASSUME Types, StreamInv, Handler, ~Leave
  PROVE  StreamInv'
<1>1. frames # <<>>
  BY HandlerSteps DEF InHandler
<1>2. PICK f \in FrameSet :
        (\A place : At(place) <=> f.at = place) /\ Top = f
  BY <1>1, TheFrame DEF Types
<1>3. Now.mode = kmode \ {"CAPS"} /\ Now.e0 = ke0
  BY DEF Now, State
<1>4. CASE Prefix
  <2> SUFFICES ASSUME ~muddled PROVE StreamInv'
    BY <1>4 DEF StreamInv, Prefix, notes
  <2>1. /\ At("table") /\ Top.byte \in {E0, E1}
        /\ UNCHANGED <<held, wire, obuf, muddled, asked, kmode>>
        /\ ke0' = IF Top.byte = E0 THEN 1 ELSE 2
    BY <1>4 DEF Prefix, hardware, notes
  <2>2. ~At("table")' /\ ~Commanding' /\ ~At("reboot")'
    BY <1>1, <1>4, FrameGoes DEF Prefix, Types, Places, Commanding
  <2>3. Top.byte.code \in {"E0", "E1"}
    BY <2>1 DEF E0, E1, Byte
  <2>4. PrefixAfter(Top.byte) = ke0'
    BY <2>1 DEF PrefixAfter
  <2>5. ModeAfter(Now, Top.byte) = kmode \ {"CAPS"}
    BY <1>3, <2>3 DEF ModeAfter, Shifts
  <2>6. Now' = State(ModeAfter(Now, Top.byte), PrefixAfter(Top.byte))
    BY <2>1, <2>4, <2>5 DEF Now
  <2> QED
    BY <2>1, <2>2, <2>6, Handled
<1>5. CASE ModifierDown
  <2>1. PICK code \in Shifts :
          Entry(code, FALSE) /\ Done(kmode \cup {Bit(code)}, npadch)
    BY <1>5 DEF ModifierDown, Shifts
  <2>2. Done(IF FALSE THEN kmode \ {Bit(code)} ELSE kmode \cup {Bit(code)}, npadch)
    BY <2>1, Zenon
  <2> QED
    BY <2>1, <2>2, ModifierFollows
<1>6. CASE ModifierUp
  <2>1. PICK code \in Shifts :
          Entry(code, TRUE) /\ Done(kmode \ {Bit(code)}, NpadchLeft(code))
    BY <1>6 DEF ModifierUp, Cleared, Shifts
  <2>2. Done(IF TRUE THEN kmode \ {Bit(code)} ELSE kmode \cup {Bit(code)},
             NpadchLeft(code))
    BY <2>1, Zenon
  <2> QED
    BY <2>1, <2>2, ModifierFollows
<1>7. CASE Prints \/ Del \/ Pad
  <2>1. \E code \in {"letter", "del", "pad"} : Entry(code, FALSE)
    BY <1>7 DEF Prints, Del, Pad
  <2>2. \E npad : Done(kmode, npad)
    BY <1>7 DEF Prints, Del, Pad
  <2>3. /\ At("table") /\ Top.byte.code \notin Shifts \cup {"caps"}
        /\ PrefixAfter(Top.byte) = 0
    BY <2>1, ByteFields DEF Entry, Shifts
  <2> QED
    BY <2>2, <2>3, PlainFollows
<1>8. CASE Nothing
  <2>1. /\ At("table") /\ Done(kmode, npadch)
        /\ \/ Top.byte = ACK
           \/ Top.byte.up /\ Top.byte.code \notin Shifts \cup {"caps"}
    BY <1>8 DEF Nothing, Shifts
  <2>2. ACK.code = "ACK" /\ ~E0.up /\ ~E1.up /\ E0.code = "E0" /\ E1.code = "E1"
    BY DEF ACK, E0, E1, Byte
  <2>3. Top.byte.code \notin Shifts \cup {"caps"} /\ PrefixAfter(Top.byte) = 0
    BY <2>1, <2>2 DEF Shifts, PrefixAfter
  <2> QED
    BY <2>1, <2>3, PlainFollows
<1>9. CASE Reboot
  <2> SUFFICES ASSUME ~muddled PROVE StreamInv'
    BY <1>9 DEF StreamInv, Reboot, notes
  <2>1. /\ At("table") /\ Top.byte = Byte("del", FALSE) /\ CtrlAlt
        /\ UNCHANGED <<held, wire, obuf, muddled, asked, kmode, ke0>>
    BY <1>9 DEF Reboot, Entry, hardware, modes, notes
  <2>2. ~At("table")' /\ ~Commanding'
    BY <1>1, <1>9, FrameGoes DEF Reboot, Types, Places, Commanding
  <2>3. /\ Top.byte.code = "del" /\ PrefixAfter(Top.byte) = 0
    BY <2>1, CodeFields DEF Codes
  <2>4. PICK s : Means(Now, Top.byte, s, asked)
    BY <2>1 DEF StreamInv, Follows, Handling
  <2>5. ke0 = 0
    BY <1>3, <2>3, <2>4 DEF Means
  <2>6. asked
    <3>1. Both(Now.mode)
      BY <1>3, <2>1 DEF Both, CtrlAlt
    <3> QED
      BY <2>1, <2>4, <3>1 DEF Means
  <2>7. ModeAfter(Now, Top.byte) = kmode \ {"CAPS"}
    BY <1>3, <2>3 DEF ModeAfter, Shifts
  <2>8. Now' = State(ModeAfter(Now, Top.byte), PrefixAfter(Top.byte))
    BY <2>1, <2>3, <2>5, <2>7 DEF Now
  <2> QED
    BY <2>1, <2>2, <2>6, <2>8, Handled
<1>10. CASE CapsDown
  <2> DEFINE mode == {"CAPSDOWN"} \cup
               (IF "CAPS" \in kmode THEN kmode \ {"CAPS"} ELSE kmode \cup {"CAPS"})
  <2>1. At("table") /\ Lock("CAPSLED", mode)
    BY <1>10 DEF CapsDown, Entry
  <2>0. Top.byte = Byte("caps", FALSE)
    BY <1>10 DEF CapsDown, Entry
  <2>2. Top.byte.code = "caps" /\ ~Top.byte.up /\ PrefixAfter(Top.byte) = 0
    BY <2>0, CodeFields DEF Codes
  <2>3. mode \ {"CAPS"} = ModeAfter(Now, Top.byte)
    BY <1>3, <2>2 DEF ModeAfter, Shifts
  <2> HIDE DEF mode
  <2> QED
    BY <2>1, <2>2, <2>3, LockFollows
<1>11. CASE CapsRepeats
  <2>1. At("table") /\ Done(kmode, npadch) /\ "CAPSDOWN" \in kmode
    BY <1>11 DEF CapsRepeats, Entry
  <2>0. Top.byte = Byte("caps", FALSE)
    BY <1>11 DEF CapsRepeats, Entry
  <2>2. Top.byte.code = "caps" /\ ~Top.byte.up /\ PrefixAfter(Top.byte) = 0
    BY <2>0, CodeFields DEF Codes
  <2>3. kmode \ {"CAPS"} = ModeAfter(Now, Top.byte)
    BY <1>3, <2>1, <2>2 DEF ModeAfter, Shifts
  <2> QED
    BY <2>1, <2>2, <2>3, DoneFollows
<1>12. CASE CapsUp
  <2>1. At("table") /\ Done(kmode \ {"CAPSDOWN"}, npadch)
    BY <1>12 DEF CapsUp, Entry
  <2>0. Top.byte = Byte("caps", TRUE)
    BY <1>12 DEF CapsUp, Entry
  <2>2. Top.byte.code = "caps" /\ Top.byte.up /\ PrefixAfter(Top.byte) = 0
    BY <2>0, CodeFields DEF Codes
  <2>3. (kmode \ {"CAPSDOWN"}) \ {"CAPS"} = ModeAfter(Now, Top.byte)
    BY <1>3, <2>2 DEF ModeAfter, Shifts
  <2> QED
    BY <2>1, <2>2, <2>3, DoneFollows
<1>13. CASE NumOrScroll
  <2>1. PICK code \in {"num", "scroll"}, led \in Leds :
          At("table") /\ Top.byte = Byte(code, FALSE) /\ Lock(led, kmode)
    BY <1>13 DEF NumOrScroll, Entry, Leds
  <2>0. Top.byte = Byte(code, FALSE)
    BY <2>1
  <2>2. Top.byte.code = code /\ PrefixAfter(Top.byte) = 0
    BY <2>0, CodeFields DEF Codes
  <2>3. kmode \ {"CAPS"} = ModeAfter(Now, Top.byte)
    BY <1>3, <2>2 DEF ModeAfter, Shifts
  <2> QED
    BY <2>1, <2>2, <2>3, LockFollows
<1> QED
  BY <1>4, <1>5, <1>6, <1>7, <1>8, <1>9, <1>10, <1>11, <1>12, <1>13,
     ReadFollows, CommandFollows DEF Handler

LEMMA StepFollows ==
  ASSUME Types, MaskInv, StreamInv, [Next]_keyboardVars
  PROVE  StreamInv'
<1>1. CASE Handler /\ ~Leave
  BY <1>1, HandlerFollows
<1>2. CASE Leave \/ Enter
  BY <1>2, EntersOrLeaves
<1>3. CASE Arrives
  BY <1>3, ArrivesFollows
<1> QED
  BY <1>1, <1>2, <1>3, OutsideFollows DEF Next

(* When the driver has handled all the bytes, kmode holds the modifiers    *)
(* that are down and Caps Lock, with their prefixes, and no prefix is left *)
(* over, whatever came in between, unless kb_ack lost a byte or one was    *)
(* read twice.                                                             *)
THEOREM ModifiersTold == Spec => []ModifiersFollow
<1>1. StreamInv /\ Types => ModifiersFollow
  <2> SUFFICES ASSUME StreamInv, Types, Idle, ~muddled
               PROVE  HeldMode(held) = kmode \ {"CAPS"} /\ ke0 = 0
    BY DEF ModifiersFollow, HeldMode
  <2>1. /\ ~At("table") /\ ~obuf.full /\ wire = <<>>
    BY DEF Idle, At
  <2>2. Told(Now, wire, Expected, asked)
    BY <2>1 DEF StreamInv, Follows, Handling, Offered
  <2>3. Now = Expected
    BY <2>1, <2>2 DEF Told
  <2>4. /\ Now.mode = kmode \ {"CAPS"} /\ Now.e0 = ke0
        /\ Expected.mode = HeldMode(held) /\ Expected.e0 = 0
    BY DEF Now, Expected, State
  <2> QED
    BY <2>3, <2>4
<1> QED
  BY InitMasked, InitTyped, InitFollows, StepMasks, StepTyped, StepFollows, <1>1,
     PTL DEF Spec

(* The machine restarts only when the user pressed Del with a Ctrl and an  *)
(* Alt down: no order of presses, releases and prefixes makes the driver   *)
(* believe it, unless a byte was lost or read twice.                       *)
THEOREM RebootsMeant == Spec => []RebootMeant
<1>1. StreamInv => RebootMeant
  BY DEF StreamInv, RebootMeant, Rebooting
<1> QED
  BY InitMasked, InitTyped, InitFollows, StepMasks, StepTyped, StepFollows, <1>1,
     PTL DEF Spec

-----------------------------------------------------------------------------
(* How much a handler has left to do: the parts of the way from the        *)
(* interrupt to the return, the longest through the two bytes of a led     *)
(* command, and in a wait the looks at the port that are left.             *)
Stage == [read |-> 6, table |-> 5, wait1 |-> 4, ack1 |-> 3, wait2 |-> 2,
          ack2 |-> 1, end |-> 0, reboot |-> 0]
Remaining ==
  IF frames = <<>> THEN 0 ELSE Stage[Top.at] * Polls + (Polls - Top.i)

(* A wait that counts its looks stops before the last one it may take.     *)
Counting == frames # <<>> => Top.i < Polls
BoundInv == Types /\ MaskInv /\ Counting

LEMMA StageOrder ==
  \A m, n \in Nat : m < n => m * Polls + Polls <= n * Polls
<1> SUFFICES ASSUME NEW m \in Nat, NEW n \in Nat, m < n
             PROVE  m * Polls + Polls <= n * Polls
  OBVIOUS
<1>1. Polls \in Nat \ {0}
  BY KeyboardAssumption
<1>2. PICK d \in Nat : n = m + 1 + d
  <2>1. n - m - 1 \in Nat /\ n = m + 1 + (n - m - 1)
    OBVIOUS
  <2> QED BY <2>1
<1>3. n * Polls = m * Polls + Polls + d * Polls
  BY <1>1, <1>2
<1>4. d * Polls \in Nat /\ m * Polls \in Nat
  BY <1>1
<1> QED BY <1>1, <1>3, <1>4

LEMMA RemainingIs ==
  ASSUME FrameTypes, Counting
  PROVE  /\ Remaining \in 0 .. 7 * Polls
         /\ Remaining = 0 <=> frames = <<>>
<1>1. CASE frames = <<>>
  BY <1>1, KeyboardAssumption DEF Remaining
<1>2. CASE frames # <<>>
  <2>1. PICK f \in FrameSet : Top = f
    BY <1>2, TheFrame
  <2>2. f.i \in Nat /\ f.i < Polls /\ Polls \in Nat \ {0}
    BY <1>2, <2>1, KeyboardAssumption DEF Counting, FrameSet
  <2>3. Stage[f.at] \in 0 .. 6
    BY DEF FrameSet, Places, Stage
  <2>4. Stage[f.at] * Polls \in Nat /\ Stage[f.at] * Polls <= 6 * Polls
    <3>1. \A m \in 0 .. 6 : m * Polls \in Nat /\ m * Polls <= 6 * Polls
      BY <2>2
    <3> QED BY <2>3, <3>1
  <2>5. Remaining = Stage[f.at] * Polls + (Polls - f.i)
    BY <1>2, <2>1 DEF Remaining
  <2> QED BY <1>2, <2>2, <2>4, <2>5
<1> QED BY <1>1, <1>2

(* Going on to a later part leaves less, whatever looks were left.         *)
LEMMA LaterLess ==
  ASSUME FrameTypes, Counting, NEW place, At(place), NEW next \in Places,
         GoesTo(next), Stage[next] < Stage[place]
  PROVE  Remaining' < Remaining /\ Counting'
<1>1. frames # <<>>
  BY DEF At
<1>2. PICK f \in FrameSet :
        /\ Top = f /\ f.at = place
        /\ frames' = <<[at |-> next, byte |-> f.byte, i |-> 0]>>
  BY <1>1, TheFrame
<1> DEFINE g == [at |-> next, byte |-> f.byte, i |-> 0]
<1>3. frames' = <<g>> /\ g.at = next /\ g.i = 0
  BY <1>2
<1> HIDE DEF g
<1>4. Top' = g /\ frames' # <<>>
  BY <1>3, Stacks DEF Top
<1>5. /\ f.i \in Nat /\ f.i < Polls /\ Polls \in Nat \ {0}
      /\ place \in Places
  BY <1>1, <1>2, KeyboardAssumption DEF Counting, FrameSet
<1>6. Stage[place] \in Nat /\ Stage[next] \in Nat
  BY <1>5 DEF Stage, Places
<1>7. Stage[next] * Polls + Polls <= Stage[place] * Polls
  BY <1>6, StageOrder
<1>8. Stage[next] * Polls \in Nat /\ Stage[place] * Polls \in Nat
  BY <1>5, <1>6
<1>9. /\ Remaining = Stage[place] * Polls + (Polls - f.i)
      /\ Remaining' = Stage[next] * Polls + (Polls - 0)
  BY <1>1, <1>2, <1>3, <1>4 DEF Remaining
<1>10. Counting'
  BY <1>3, <1>4, <1>5 DEF Counting
<1> QED BY <1>5, <1>7, <1>8, <1>9, <1>10

(* And so does one more look.                                              *)
LEMMA LooksLess ==
  ASSUME FrameTypes, Counting, frames # <<>>, GoesOn, Looks
  PROVE  Remaining' < Remaining /\ Counting'
<1>1. PICK f \in FrameSet : Top = f /\ frames' = <<[Top EXCEPT !.i = @ + 1]>>
  BY TheFrame DEF Looks
<1> DEFINE g == [f EXCEPT !.i = @ + 1]
<1>2. g.at = f.at /\ g.i = f.i + 1
  BY DEF FrameSet
<1>3. frames' = <<g>>
  BY <1>1
<1> HIDE DEF g
<1>4. Top' = g /\ frames' # <<>>
  BY <1>3, Stacks DEF Top
<1>5. f.i \in Nat /\ f.i + 1 < Polls /\ Polls \in Nat \ {0}
  BY <1>1, KeyboardAssumption DEF GoesOn, FrameSet
<1>6. Stage[f.at] * Polls \in Nat
  <2>1. Stage[f.at] \in Nat
    BY DEF Stage, FrameSet, Places
  <2> QED BY <1>5, <2>1
<1>7. /\ Remaining = Stage[f.at] * Polls + (Polls - f.i)
      /\ Remaining' = Stage[f.at] * Polls + (Polls - (f.i + 1))
  BY <1>1, <1>2, <1>4 DEF Remaining
<1>8. Counting'
  BY <1>2, <1>4, <1>5 DEF Counting
<1> QED BY <1>5, <1>6, <1>7, <1>8

LEMMA ReadsLess ==
  ASSUME FrameTypes, Counting, Read
  PROVE  Remaining' < Remaining /\ Counting'
<1>1. PICK f \in FrameSet :
        /\ Top = f /\ f.at = "read"
        /\ frames' = <<[Top EXCEPT !.at = "table", !.byte = obuf.byte]>>
  BY TheFrame DEF Read, At
<1> DEFINE g == [f EXCEPT !.at = "table", !.byte = obuf.byte]
<1>2. g.at = "table" /\ g.i = f.i
  BY DEF FrameSet
<1>3. frames' = <<g>> /\ frames # <<>>
  BY <1>1 DEF Read, At
<1> HIDE DEF g
<1>4. Top' = g /\ frames' # <<>>
  BY <1>3, Stacks DEF Top
<1>5. f.i \in Nat /\ f.i < Polls /\ Polls \in Nat \ {0}
  BY <1>1, <1>3, KeyboardAssumption DEF Counting, FrameSet
<1>6. Stage["read"] = 6 /\ Stage["table"] = 5
  BY DEF Stage
<1>7. /\ Remaining = 6 * Polls + (Polls - f.i)
      /\ Remaining' = 5 * Polls + (Polls - f.i)
  BY <1>1, <1>2, <1>3, <1>4, <1>6 DEF Remaining
<1>8. Counting'
  BY <1>2, <1>4, <1>5 DEF Counting
<1> QED BY <1>5, <1>7, <1>8

(* Every step of the handler but the read and the looks goes to a later    *)
(* part; the return takes the frame away.                                  *)
LEMMA StagesDown ==
  /\ Stage["table"] = 5 /\ Stage["wait1"] = 4 /\ Stage["ack1"] = 3
  /\ Stage["wait2"] = 2 /\ Stage["ack2"] = 1 /\ Stage["end"] = 0
  /\ Stage["reboot"] = 0
  /\ {"table", "wait1", "ack1", "wait2", "ack2", "end", "reboot"}
       \subseteq Places
BY DEF Stage, Places

LEMMA EntryGoes ==
  ASSUME Handler, ~Leave, ~Read, ~LedCommand
  PROVE  At("table") /\ (GoesTo("end") \/ GoesTo("wait1") \/ GoesTo("reboot"))
<1>1. ASSUME NEW code, NEW up, NEW mode, NEW npad,
             Entry(code, up), Done(mode, npad)
      PROVE  At("table") /\ GoesTo("end")
  BY <1>1 DEF Entry, Done
<1>2. ASSUME NEW code, NEW up, NEW led, NEW mode,
             Entry(code, up), Lock(led, mode)
      PROVE  At("table") /\ (GoesTo("end") \/ GoesTo("wait1"))
  BY <1>2 DEF Entry, Lock
<1>3. CASE Prefix
  BY <1>3 DEF Prefix
<1>4. CASE Nothing
  BY <1>4 DEF Nothing, Done
<1>5. CASE Reboot
  BY <1>5 DEF Reboot, Entry
<1>6. CASE ModifierDown \/ ModifierUp
  BY <1>1, <1>6 DEF ModifierDown, ModifierUp
<1>7. CASE Prints \/ Pad \/ Del \/ CapsRepeats \/ CapsUp
  BY <1>1, <1>7 DEF Prints, Pad, Del, CapsRepeats, CapsUp
<1>8. CASE CapsDown \/ NumOrScroll
  BY <1>2, <1>8 DEF CapsDown, NumOrScroll
<1> QED BY <1>3, <1>4, <1>5, <1>6, <1>7, <1>8 DEF Handler

LEMMA CommandLess ==
  ASSUME FrameTypes, Counting, LedCommand
  PROVE  Remaining' < Remaining /\ Counting'
<1>1. ASSUME NEW place, NEW next \in Places, NEW command,
             Stage[next] < Stage[place], KbWait(place, command, next)
      PROVE  Remaining' < Remaining /\ Counting'
  <2>1. At(place) /\ frames # <<>>
    BY <1>1 DEF KbWait, At
  <2>2. (GoesOn /\ Looks) \/ GoesTo(next)
    BY <1>1 DEF KbWait
  <2> QED BY <1>1, <2>1, <2>2, LaterLess, LooksLess
<1>2. ASSUME NEW place, NEW next \in Places,
             Stage[next] < Stage[place], KbAck(place, next)
      PROVE  Remaining' < Remaining /\ Counting'
  <2>1. At(place) /\ frames # <<>>
    BY <1>2 DEF KbAck, At
  <2>2. (GoesOn /\ Looks) \/ GoesTo(next)
    BY <1>2 DEF KbAck
  <2> QED BY <1>2, <2>1, <2>2, LaterLess, LooksLess
<1>3. CASE KbWait("wait1", SetLeds, "ack1")
  <2>1. "ack1" \in Places /\ Stage["ack1"] < Stage["wait1"]
    BY StagesDown
  <2> QED BY <1>1, <1>3, <2>1, Zenon
<1>4. CASE KbAck("ack1", "wait2")
  BY <1>2, <1>4, StagesDown
<1>5. CASE KbWait("wait2", Value(kleds), "ack2")
  <2>1. "ack2" \in Places /\ Stage["ack2"] < Stage["wait2"]
    BY StagesDown
  <2> QED BY <1>1, <1>5, <2>1, Zenon
<1>6. CASE KbAck("ack2", "end")
  BY <1>2, <1>6, StagesDown
<1> QED BY <1>3, <1>4, <1>5, <1>6 DEF LedCommand

LEMMA HandlerLess ==
  ASSUME FrameTypes, Counting, Handler
  PROVE  Remaining' < Remaining /\ Counting'
<1>1. CASE Leave
  <2>1. frames # <<>> /\ frames' = <<>>
    BY <1>1, TheFrame DEF Leave, At
  <2>2. Remaining \in 0 .. 7 * Polls /\ Remaining # 0 /\ Polls \in Nat
    BY <2>1, RemainingIs, KeyboardAssumption
  <2>3. Remaining' = 0 /\ Counting'
    BY <2>1 DEF Remaining, Counting
  <2> QED BY <2>2, <2>3
<1>2. CASE Read
  BY <1>2, ReadsLess
<1>3. CASE LedCommand
  BY <1>3, CommandLess
<1>4. CASE ~Leave /\ ~Read /\ ~LedCommand
  <2>1. PICK next \in {"end", "wait1", "reboot"} :
          At("table") /\ GoesTo(next)
    BY <1>4, EntryGoes
  <2>2. next \in Places /\ Stage[next] < Stage["table"]
    BY StagesDown
  <2> QED BY <2>1, <2>2, LaterLess
<1> QED BY <1>1, <1>2, <1>3, <1>4

(* What the user, the keyboard and the entry code do while the handler     *)
(* runs is none of its steps and leaves its frame alone.                   *)
LEMMA OthersWait ==
  ASSUME BoundInv, Next, ~Handler
  PROVE  Counting' /\ (frames # <<>> => frames' = frames)
<1>1. CASE Enter
  <2>1. frames = <<>>
    BY <1>1 DEF Enter, BoundInv, MaskInv
  <2>2. frames' = <<Frame("read")>>
    BY <1>1, <2>1, Stacks DEF Enter
  <2>3. Top' = Frame("read")
    BY <2>2, Stacks DEF Top
  <2> QED BY <2>1, <2>3, KeyboardAssumption DEF Frame, Counting
<1>2. CASE ~Enter
  <2>1. frames' = frames
    BY <1>2 DEF Next, Press, Release, Arrives, Obeys, AddHandler, EnableIrq
  <2> QED BY <2>1 DEF BoundInv, Counting, Top
<1> QED BY <1>1, <1>2

(* The handler returns or restarts the machine within 7 times Polls of its *)
(* steps, whatever the keyboard answers and the user types meanwhile: each *)
(* leaves less to do, and nothing else touches what is left.               *)
THEOREM HandlerIsBounded ==
  Spec => /\ [](Remaining \in 0 .. 7 * Polls /\ (Remaining = 0 <=> frames = <<>>))
          /\ [][/\ Handler => Remaining' < Remaining
                /\ ~Handler /\ frames # <<>> => frames' = frames]_keyboardVars
<1>1. Init => BoundInv
  <2>1. Init => Counting
    BY DEF Init, Counting
  <2> QED BY <2>1, InitTyped, InitMasked DEF BoundInv
<1>2. BoundInv /\ [Next]_keyboardVars => Counting'
  <2>1. UNCHANGED keyboardVars /\ Counting => Counting'
    BY DEF keyboardVars, Counting, Top
  <2> QED BY <2>1, HandlerLess, OthersWait DEF BoundInv, Types
<1>3. BoundInv /\ [Next]_keyboardVars => BoundInv'
  BY <1>2, StepTyped, StepMasks DEF BoundInv
<1>4. BoundInv => /\ Remaining \in 0 .. 7 * Polls
                  /\ Remaining = 0 <=> frames = <<>>
  BY RemainingIs DEF BoundInv, Types
<1>5. BoundInv /\ [Next]_keyboardVars =>
        [/\ Handler => Remaining' < Remaining
         /\ ~Handler /\ frames # <<>> => frames' = frames]_keyboardVars
  BY HandlerLess, OthersWait DEF BoundInv, Types
<1> QED BY <1>1, <1>3, <1>4, <1>5, PTL DEF Spec

=============================================================================
