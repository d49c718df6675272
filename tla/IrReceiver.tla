----------------------------- MODULE IrReceiver ------------------------------
(***************************************************************************)
(* The receiver of the infrared remote (ir.c): an interrupt at every edge, *)
(* from whose distance a frame of 32 bits is decoded.  A frame is scaled   *)
(* to 4 bytes of one bit; the command is the third, inverted in the        *)
(* fourth.  Frames come whole, with one edge lost or bent, or as noise.    *)
(***************************************************************************)
EXTENDS Integers, Sequences, SequencesExt

CONSTANT MaxNoise   \* bound: edges of noise between two frames

IrReceiverAssumption == MaxNoise \in Nat

VARIABLES
  irState, irValue,     \* irBits is the length of irValue
  sending,              \* edges of the frame under way that are still to come
  key,                  \* what it says: a key, or Repeat
  intact,               \* no edge of it was lost or bent
  noise,                \* edges of noise since the last frame
  published             \* what was published since the frame began

vars == <<irState, irValue, sending, key, intact, noise, published>>

Bits == 4
Repeat == <<1, 1, 1, 1>>
Keys == {k \in [1..Bits -> 0..1] : k[3] # k[4]}

(* The classes of length the code tells apart; "both" is a repeat's space   *)
(* and that of a 1.                                                         *)
Lengths == {"lead", "leadSpace", "repeatSpace", "both", "short", "long", "other"}
RepeatSpace == {"repeatSpace", "both"}
Space1 == {"long", "both"}

Edge(level, dt) == [level |-> level, dt |-> dt]

Init ==
  /\ irState = "idle" /\ irValue = <<>>
  /\ sending = <<>> /\ key = Repeat /\ intact = FALSE /\ noise = 0 /\ published = <<>>
-----------------------------------------------------------------------------
(* Mutant: the inverted byte is not looked at.                              *)
irPublishUnchecked(k) == published' = Append(published, k)

irPublish(k) ==
  published' = IF k # Repeat /\ k[3] = k[4] THEN published ELSE Append(published, k)

(* A falling edge: a space ended, a mark starts.                            *)
SpaceEnds(dt) ==
  /\ UNCHANGED published
  /\ CASE irState = "leadSpace" /\ dt = "leadSpace" -> irState' = "bitMark" /\ irValue' = <<>>
       [] irState = "leadSpace" /\ dt \in RepeatSpace -> irState' = "repeatMark" /\ UNCHANGED irValue
       [] irState = "bitSpace" /\ dt \in Space1 \cup {"short"} ->
            /\ irValue' = Append(irValue, IF dt = "short" THEN 0 ELSE 1)
            /\ irState' = IF Len(irValue') = Bits THEN "stopMark" ELSE "bitMark"
       [] OTHER -> irState' = "leadMark" /\ UNCHANGED irValue

(* A rising edge: a mark ended.                                             *)
MarkEnds(dt) ==
  /\ UNCHANGED irValue
  /\ irState' = CASE irState = "leadMark" /\ dt = "lead" -> "leadSpace"
                  [] irState = "bitMark" /\ dt = "short" -> "bitSpace"
                  [] OTHER -> "idle"
  /\ CASE irState = "stopMark" -> irPublish(irValue)
       [] irState = "repeatMark" -> irPublish(Repeat)
       [] OTHER -> UNCHANGED published

ir_isr(edge) == IF edge.level = "low" THEN SpaceEnds(edge.dt) ELSE MarkEnds(edge.dt)
-----------------------------------------------------------------------------
(* The frames a remote can send: every space as long as it may be.          *)
Frames(k) ==
  IF k = Repeat
  THEN {<<Edge("low", "other"), Edge("high", "lead"), Edge("low", s), Edge("high", "short")>> :
          s \in RepeatSpace}
  ELSE {<<Edge("low", "other"), Edge("high", "lead"), Edge("low", "leadSpace")>>
          \o [i \in 1..2 * Bits |-> IF i % 2 = 1 THEN Edge("high", "short")
                                    ELSE Edge("low", spaces[i \div 2])]
          \o <<Edge("high", "short")>> :
        spaces \in {f \in [1..Bits -> {"short", "long", "both"}] :
                      \A i \in 1..Bits : (f[i] = "short") = (k[i] = 0)}}

(* After a pause, a frame begins.                                           *)
Press ==
  /\ sending = <<>>
  /\ \E k \in Keys \cup {Repeat} : key' = k /\ sending' \in Frames(k)
  /\ intact' = TRUE /\ noise' = 0 /\ published' = <<>>
  /\ UNCHANGED <<irState, irValue>>

NextEdge ==
  /\ sending # <<>>
  /\ ir_isr(Head(sending))
  /\ sending' = Tail(sending)
  /\ UNCHANGED <<key, intact, noise>>

(* One edge of a frame that is not seen, or at the wrong time; not the last  *)
(* edge of one frame and the first of the next.                             *)
LoseEdge ==
  /\ sending # <<>> /\ intact /\ (irState = "stopMark" => Len(sending) = 1)
  /\ sending' = Tail(sending) /\ intact' = FALSE
  /\ UNCHANGED <<irState, irValue, key, noise, published>>

(* The first edge ends the pause, which is longer than all other lengths.   *)
BendEdge(dt) ==
  /\ sending # <<>> /\ intact /\ dt # Head(sending).dt /\ Head(sending).dt # "other"
  /\ ir_isr([Head(sending) EXCEPT !.dt = dt])
  /\ sending' = Tail(sending) /\ intact' = FALSE
  /\ UNCHANGED <<key, noise>>

(* Edges that belong to no frame, some of them missed.                      *)
Noise(edge) ==
  /\ sending = <<>> /\ noise < MaxNoise
  /\ ir_isr(edge)
  /\ intact' = FALSE /\ noise' = noise + 1
  /\ UNCHANGED <<sending, key>>

Next ==
  \/ Press \/ NextEdge \/ LoseEdge
  \/ \E dt \in Lengths : BendEdge(dt) \/ \E l \in {"low", "high"} : Noise(Edge(l, dt))

Spec == Init /\ [][Next]_vars
-----------------------------------------------------------------------------
(* Types; the bits counted are those of the frame being received.           *)
TypeOK ==
  /\ irState \in {"idle", "leadMark", "leadSpace", "bitMark", "bitSpace", "stopMark", "repeatMark"}
  /\ Len(irValue) <= Bits /\ (irState = "stopMark" => Len(irValue) = Bits)
  /\ irState \in {"bitMark", "bitSpace"} => Len(irValue) < Bits

(* A frame that comes whole is published, once, when its last edge comes,   *)
(* whatever noise or broken frame was before; and one with an edge lost or  *)
(* bent is never taken for another key of the same remote.                  *)
KeyAsSent ==
  sending = <<>> /\ noise = 0 =>
    /\ intact => published = <<key>>
    /\ \A i \in DOMAIN published :
         published[i] \in {key, Repeat} \/ SubSeq(published[i], 1, 2) # SubSeq(key, 1, 2)
==============================================================================
