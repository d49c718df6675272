------------------------------ MODULE IrRemote -------------------------------
(***************************************************************************)
(* The task of the infrared remote (ir.c): keys come through a short queue *)
(* from the interrupt handler and become commands; digits are gathered     *)
(* into the number of a station, which is played when no other follows.    *)
(* What comes into the queue is what IrReceiver shows it to publish.  The  *)
(* volume is also set by other users, and put to 0 and back by clientTask. *)
(***************************************************************************)
EXTENDS Integers, Sequences, SequencesExt

CONSTANTS
  QueueSize,
  Digits,      \* the digits that are pressed
  Stations,    \* the stations that are set
  Wait,        \* IR_DIGITS_WAIT_MS, in ticks
  Wrap         \* irMillis returns 0..Wrap - 1

IrRemoteAssumption ==
  /\ QueueSize \in Nat \ {0}
  /\ Digits \subseteq {"0", "1", "2", "3", "4", "5", "6", "7", "8", "9"}
  /\ \A d \in Digits : \E v \in 0..9 : ToString(v) = d
  /\ Stations \subseteq Nat /\ Stations # {}
  /\ Wait \in Nat \ {0} /\ Wrap \in Nat /\ Wrap > Wait

VARIABLES
  irQueue,     \* [key, after]: the code, and the last key published up to it
  now,         \* irMillis()
  handling,    \* what irKey is at work on, or Idle
  last,        \* local of irTask
  irDigits, irDigitTime, irMuted,
  station,                     \* external: the player
  silent,      \* the volume register is 0
  fading,      \* clientTask has put it to 0 and will put it back
  volume,      \* static of webclient.c: was what it found there 0?
  newest,      \* reference: the key published last
  since,       \* reference: time since a digit was published, up to Wait
  wrapped      \* history: has the clock wrapped since irDigitTime was set?

player == <<silent, fading, volume>>
reference == <<newest, since>>
vars == <<irQueue, now, handling, last, irDigits, irDigitTime, irMuted, station, player,
          reference, wrapped>>

(* "other": the keys that only cancel a number, and codes that are no key.  *)
Others == {"step", "volume", "mute", "other"}
Keys == Digits \cup Others
Idle == [key |-> "none", after |-> "none"]
DigitsMax == 3

Init ==
  /\ irQueue = <<>> /\ now = 0 /\ handling = Idle /\ last = "none"
  /\ irDigits = <<>> /\ irDigitTime = 0 /\ irMuted = FALSE
  /\ station \in Stations /\ silent = FALSE /\ fading = FALSE /\ volume = FALSE
  /\ newest = "none" /\ since = Wait /\ wrapped = FALSE
-----------------------------------------------------------------------------
Full == Len(irQueue) = QueueSize

(* The interrupt handler publishes a key or a repeat, if the queue has room  *)
(* (irPublish).  A repeat may follow on anything, since the frame of the    *)
(* key that is held may have been rejected.                                 *)
Receive(code) ==
  /\ newest' = IF code = "repeat" \/ Full THEN newest ELSE code
  /\ irQueue' = IF Full THEN irQueue ELSE Append(irQueue, [key |-> code, after |-> newest'])
  /\ since' = IF code \in Digits /\ ~Full THEN 0 ELSE since
  /\ UNCHANGED <<now, handling, last, irDigits, irDigitTime, irMuted, station, player, wrapped>>

Tick ==
  /\ now' = (now + 1) % Wrap
  /\ since' = IF since < Wait THEN since + 1 ELSE since
  /\ wrapped' = (wrapped \/ now' = 0)
  /\ UNCHANGED <<irQueue, handling, last, irDigits, irDigitTime, irMuted, station, player, newest>>

(* Mutant: a repeat is remembered like a key.                               *)
TakeKeyAndLast ==
  /\ handling = Idle /\ irQueue # <<>>
  /\ handling' = Head(irQueue) /\ irQueue' = Tail(irQueue)
  /\ last' = Head(irQueue).key
  /\ UNCHANGED <<now, irDigits, irDigitTime, irMuted, station, player, reference, wrapped>>

(* irTask: a key; of the repeats it knows only the last key it has taken.   *)
TakeKey ==
  /\ handling = Idle /\ irQueue # <<>>
  /\ handling' = Head(irQueue) /\ irQueue' = Tail(irQueue)
  /\ last' = IF Head(irQueue).key = "repeat" THEN last ELSE Head(irQueue).key
  /\ UNCHANGED <<now, irDigits, irDigitTime, irMuted, station, player, reference, wrapped>>

Value(d) == CHOOSE v \in 0..9 : ToString(v) = d
Number(digits) == FoldLeft(LAMBDA n, d : 10 * n + Value(d), 0, digits)

(* irPlayDigits: only a station that is set is played.                      *)
irPlayDigits(digits) ==
  /\ irDigits' = <<>>
  /\ IF Number(digits) \in Stations /\ Number(digits) <= 254
     THEN station' = Number(digits)
     ELSE UNCHANGED station

(* Mutant: the wait begins with the first digit.                            *)
irDigitTimedOnce(d) ==
  /\ IF irDigits = <<>> THEN irDigitTime' = now /\ wrapped' = FALSE ELSE UNCHANGED <<irDigitTime, wrapped>>
  /\ IF Len(irDigits) + 1 = DigitsMax THEN irPlayDigits(Append(irDigits, d))
     ELSE irDigits' = Append(irDigits, d) /\ UNCHANGED station

irDigit(d) ==
  /\ irDigitTime' = now /\ wrapped' = FALSE
  /\ IF Len(irDigits) + 1 = DigitsMax THEN irPlayDigits(Append(irDigits, d))
     ELSE irDigits' = Append(irDigits, d) /\ UNCHANGED station

Handled == handling' = Idle /\ UNCHANGED <<irQueue, now, last, fading, volume, reference>>

HandleDigit ==
  /\ handling.key \in Digits
  /\ irDigit(handling.key)
  /\ Handled /\ UNCHANGED <<irMuted, silent>>

(* Only the volume keys repeat.                                             *)
HandleNothing ==
  /\ handling.key = "repeat" /\ last # "volume"
  /\ Handled /\ UNCHANGED <<irDigits, irDigitTime, irMuted, station, silent, wrapped>>

Command == IF handling.key = "repeat" THEN last ELSE handling.key

(* irKey: any other key cancels the number; a volume key ends a mute, and   *)
(* so does the mute key (irUnmute).                                         *)
HandleKey ==
  /\ handling # Idle /\ handling.key \notin Digits /\ Command \in Others
  /\ handling.key = "repeat" => last = "volume"
  /\ irDigits' = <<>>
  /\ station' \in IF Command = "step" THEN Stations ELSE {station}
  /\ irMuted' = CASE Command = "volume" -> FALSE [] Command = "mute" -> ~irMuted [] OTHER -> irMuted
  /\ silent' = CASE Command = "volume" -> FALSE [] Command = "mute" -> ~irMuted [] OTHER -> silent
  /\ Handled /\ UNCHANGED <<irDigitTime, wrapped>>

(* irTask: no key for 100 ms.  The difference of the two times is taken     *)
(* modulo 2^32, and is large when the clock has wrapped.                    *)
WaitOver ==
  /\ handling = Idle /\ irQueue = <<>> /\ irDigits # <<>>
  /\ now < irDigitTime \/ now - irDigitTime >= Wait
  /\ irPlayDigits(irDigits)
  /\ UNCHANGED <<irQueue, now, handling, last, irDigitTime, irMuted, player, reference, wrapped>>

(* The volume is changed by others.                                         *)
OfVolume(sounds) ==
  /\ sounds
  /\ UNCHANGED <<irQueue, now, handling, last, irDigits, irDigitTime, irMuted, station, reference, wrapped>>

(* A user sets one, other than 0.                                           *)
SetVolume == OfVolume(silent' = FALSE /\ UNCHANGED <<fading, volume>>)

(* clientTask starts or stops to play: it keeps the volume, sets 0, waits,  *)
(* and sets what it kept.                                                   *)
FadeBegins == OfVolume(~fading /\ fading' = TRUE /\ volume' = silent /\ silent' = TRUE)
FadeEnds == OfVolume(fading /\ fading' = FALSE /\ silent' = volume /\ UNCHANGED volume)

(* ... or it is forced to play, and takes a volume of 0 for its own.        *)
Forced == OfVolume(~fading /\ silent /\ silent' = volume /\ UNCHANGED <<fading, volume>>)

irTask == TakeKey \/ HandleDigit \/ HandleNothing \/ HandleKey \/ WaitOver
clientTask == FadeBegins \/ FadeEnds \/ Forced
Next == (\E code \in Keys \cup {"repeat"} : Receive(code)) \/ Tick \/ irTask \/ SetVolume \/ clientTask

Spec == Init /\ [][Next]_vars
-----------------------------------------------------------------------------
(* Types; a number never has all its digits and waits.                      *)
TypeOK ==
  /\ Len(irQueue) <= QueueSize /\ now \in 0..Wrap - 1 /\ irDigitTime \in 0..Wrap - 1
  /\ Len(irDigits) < DigitsMax /\ station \in Stations /\ last \in Keys \cup {"none"}

(* A repeat is taken for the key that was published last before it, however *)
(* many keys have been pressed and how many repeats queued up since.  That  *)
(* is "the key held down" (ir.c:254) only where its frame was published.    *)
RepeatsTheKeyBefore == handling.key = "repeat" => last = handling.after

(* A number with digits to come is not played before the wait since the     *)
(* last digit pressed is over, if the clock has not wrapped.                *)
InTime == handling = Idle /\ irDigits # <<>> /\ irDigits' = <<>> => since >= Wait \/ wrapped

(* The remote knows that the radio is mute, so that its mute key brings the *)
(* sound back, but where clientTask put back the mute it had found, which   *)
(* a volume key may have ended meanwhile ("the volume commands set the      *)
(* volume again", ir.c:310).                                                *)
MuteKnown == silent /\ ~fading => irMuted \/ volume
==============================================================================
