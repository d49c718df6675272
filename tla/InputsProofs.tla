---------------------------- MODULE InputsProofs ----------------------------
(***************************************************************************)
(* What the ways of coming in promise, for all values of the constants:    *)
(* the task of the remote, the decoder on its bus, the receiver of the     *)
(* remote, the serial line and the telnet session, in this order.  For     *)
(* each an invariant that its steps keep, one lemma per action, and the    *)
(* properties it implies.                                                  *)
(***************************************************************************)
EXTENDS Inputs, SequenceTheorems, TLAPS

(* What Append adds, and what Tail takes.                                   *)
LEMMA Appended ==
  ASSUME NEW X, NEW s \in Seq(X), NEW e \in X
  PROVE  /\ Append(s, e) \in Seq(X) /\ Append(s, e) # <<>>
         /\ Len(s) \in Nat /\ Len(Append(s, e)) = Len(s) + 1
         /\ \A n \in 1..Len(s) : Append(s, e)[n] = s[n]
         /\ Append(s, e)[Len(s) + 1] = e
         /\ s = <<>> <=> Len(s) = 0
BY AppendProperties, EmptySeq, LenProperties

(* What Tail leaves of a sequence.                                          *)
LEMMA Taken ==
  ASSUME NEW X, NEW s \in Seq(X), s # <<>>
  PROVE  /\ Tail(s) \in Seq(X) /\ Head(s) \in X /\ Head(s) = s[1]
         /\ Len(s) \in Nat \ {0} /\ Len(Tail(s)) = Len(s) - 1
         /\ \A n \in 1..Len(Tail(s)) : n + 1 \in 1..Len(s) /\ Tail(s)[n] = s[n + 1]
         /\ Tail(s) = <<>> <=> Len(s) = 1
<1>1. Len(s) \in Nat /\ Len(s) # 0
  BY EmptySeq
<1>2. Head(s) = s[1] /\ s[1] \in X
  BY <1>1, ElementOfSeq
<1>3. Tail(s) \in Seq(X) /\ Len(Tail(s)) = Len(s) - 1
  BY HeadTailProperties
<1>4. \A n \in 1..Len(Tail(s)) : n + 1 \in 1..Len(s) /\ Tail(s)[n] = s[n + 1]
  BY <1>1, <1>3, HeadTailProperties
<1>5. Tail(s) = <<>> <=> Len(Tail(s)) = 0
  BY <1>3, EmptySeq
<1> QED
  BY <1>1, <1>2, <1>3, <1>4, <1>5

(* A function on 1..n is a sequence of length n.                            *)
LEMMA SequenceLength ==
  ASSUME NEW X, NEW n \in Nat, NEW s \in [1..n -> X]
  PROVE  s \in Seq(X) /\ Len(s) = n
<1>1. s \in Seq(X)
  <2>1. Seq(X) = UNION {[1..m -> X] : m \in Nat}
    BY SeqDef
  <2> QED
    BY <2>1, Zenon
<1>2. Len(s) \in Nat /\ 1..Len(s) = 1..n
  BY <1>1, LenProperties
<1>3. \A i \in Int : (1 <= i /\ i <= Len(s)) <=> (1 <= i /\ i <= n)
  <2>1. \A i \in Int : i \in 1..Len(s) <=> i \in 1..n
    BY <1>2, Zenon
  <2> QED
    BY <1>2, <2>1
<1>4. Len(s) <= n /\ n <= Len(s)
  <2>1. (1 <= Len(s) => Len(s) <= n) /\ (1 <= n => n <= Len(s))
    BY <1>2, <1>3
  <2> QED
    BY <1>2, <2>1
<1> QED
  BY <1>1, <1>2, <1>4
(* The remote: what a queue of keys holds.                                  *)
Items == [key : I!Keys \cup {"repeat"}, after : I!Keys \cup {"none"}]

RemoteTypes ==
  /\ ir_irQueue \in Seq(Items) /\ Len(ir_irQueue) <= QueueSize
  /\ ir_now \in 0..Wrap - 1 /\ ir_irDigitTime \in 0..Wrap - 1
  /\ ir_handling \in Items \cup {I!Idle} /\ ir_newest \in I!Keys \cup {"none"}
  /\ ir_last \in I!Keys \cup {"none"}
  /\ ir_irDigits \in Seq(Digits) /\ Len(ir_irDigits) < 3
  /\ ir_station \in Stations
  /\ ir_since \in 0..Wait /\ ir_wrapped \in BOOLEAN

(* A repeat in the queue is after the same key as what stands before it.    *)
Repeats ==
  \A n \in 1..Len(ir_irQueue) :
    LET item == ir_irQueue[n]
    IN  item.after = IF item.key # "repeat" THEN item.key
                     ELSE IF n = 1 THEN ir_last ELSE ir_irQueue[n - 1].after

(* What was published last is what the task will have taken last.           *)
Newest ==
  ir_newest = IF ir_irQueue = <<>> THEN ir_last ELSE ir_irQueue[Len(ir_irQueue)].after

DigitPending ==
  \/ ir_handling.key \in Digits
  \/ \E n \in 1..Len(ir_irQueue) : ir_irQueue[n].key \in Digits

(* A digit that has been handled was published before that.                 *)
Timed ==
  ~ir_wrapped =>
    /\ ir_now >= ir_irDigitTime
    /\ DigitPending \/ ir_since >= Wait \/ ir_since >= ir_now - ir_irDigitTime

RemoteInv ==
  /\ RemoteTypes /\ Repeats /\ Newest /\ Timed /\ I!RepeatsTheKeyBefore /\ I!MuteKnown

(* The remote's constants.                                                  *)
LEMMA RemoteConstants ==
  /\ QueueSize \in Nat \ {0} /\ Stations \subseteq Nat /\ Stations # {}
  /\ Wait \in Nat \ {0} /\ Wrap \in Nat /\ Wrap > Wait
  /\ Digits \cap {"repeat", "none", "step", "volume", "mute", "other"} = {}
  /\ "repeat" \notin I!Keys /\ "none" \notin I!Keys /\ Digits \subseteq I!Keys
BY InputsAssumption DEF InputsAssumption, I!IrRemoteAssumption, I!Keys, I!Others

(* irTask starts with an empty queue.                                       *)
LEMMA RemoteBegins ==
  I!Init => RemoteInv
<1> SUFFICES ASSUME I!Init PROVE RemoteInv
  OBVIOUS
<1>1. /\ ir_irQueue = <<>> /\ ir_now = 0 /\ ir_irDigitTime = 0 /\ ir_irDigits = <<>>
      /\ ir_handling = I!Idle /\ ir_newest = "none" /\ ir_last = "none"
      /\ ir_station \in Stations /\ ir_since = Wait /\ ir_wrapped = FALSE
      /\ ir_silent = FALSE /\ Len(ir_irQueue) = 0 /\ Len(ir_irDigits) = 0
      /\ ir_irQueue \in Seq(Items) /\ ir_irDigits \in Seq(Digits)
  BY EmptySeq DEF I!Init
<1>2. RemoteTypes
  <2>1. /\ 0 \in 0..Wrap - 1 /\ Wait \in 0..Wait /\ 0 <= QueueSize /\ 0 < 3
    BY RemoteConstants
  <2> QED
    BY <1>1, <2>1, Zenon DEF RemoteTypes
<1>3. Repeats /\ Newest
  BY <1>1 DEF Repeats, Newest
<1>4. Timed
  BY <1>1, RemoteConstants DEF Timed
<1>5. I!RepeatsTheKeyBefore /\ I!MuteKnown
  BY <1>1 DEF I!RepeatsTheKeyBefore, I!MuteKnown, I!Idle
<1> QED
  BY <1>2, <1>3, <1>4, <1>5 DEF RemoteInv

(* What the interrupt handler publishes while the task has others to handle. *)
LEMMA Queued ==
  ASSUME RemoteInv, NEW item \in Items,
         item.after = IF item.key = "repeat" THEN ir_newest ELSE item.key,
         Len(ir_irQueue) # QueueSize,
         ir_irQueue' = Append(ir_irQueue, item),
         UNCHANGED <<ir_last, ir_handling>>
  PROVE  /\ ir_irQueue' \in Seq(Items) /\ Len(ir_irQueue') <= QueueSize
         /\ Repeats'
         /\ ir_irQueue' # <<>> /\ ir_irQueue'[Len(ir_irQueue')] = item
         /\ DigitPending \/ item.key \in Digits <=> DigitPending'
<1> DEFINE q == ir_irQueue  L == Len(ir_irQueue)
<1>1. /\ q' \in Seq(Items) /\ q' # <<>> /\ L \in Nat /\ Len(q') = L + 1
      /\ \A n \in 1..L : q'[n] = q[n]
      /\ q'[L + 1] = item
      /\ q = <<>> <=> L = 0
  BY Appended DEF RemoteInv, RemoteTypes
<1>2. Len(q') <= QueueSize
  BY <1>1, RemoteConstants DEF RemoteInv, RemoteTypes
<1>3. Repeats'
  <2> SUFFICES ASSUME NEW n \in 1..L + 1
               PROVE  q'[n].after = IF q'[n].key # "repeat" THEN q'[n].key
                                    ELSE IF n = 1 THEN ir_last ELSE q'[n - 1].after
    BY <1>1 DEF Repeats
  <2>1. CASE n \in 1..L
    <3>1. n # 1 => n - 1 \in 1..L
      BY <1>1, <2>1
    <3> QED
      BY <1>1, <2>1, <3>1 DEF RemoteInv, Repeats
  <2>2. CASE n = L + 1
    <3>1. n # 1 => n - 1 \in 1..L /\ n - 1 = L
      BY <1>1, <2>2
    <3> QED
      BY <1>1, <2>2, <3>1 DEF RemoteInv, Newest
  <2> QED
    BY <1>1, <2>1, <2>2
<1>4. DigitPending \/ item.key \in Digits <=> DigitPending'
  BY <1>1 DEF DigitPending
<1> QED
  BY <1>1, <1>2, <1>3, <1>4

(* A key, or a repeat, from the interrupt handler.                          *)
LEMMA ReceiveKeeps ==
  ASSUME RemoteInv, NEW code \in I!Keys \cup {"repeat"}, I!Receive(code)
  PROVE  RemoteInv'
<1> DEFINE item == [key |-> code, after |-> ir_newest']
<1>1. /\ ir_newest' = IF code = "repeat" \/ I!Full THEN ir_newest ELSE code
      /\ ir_irQueue' = IF I!Full THEN ir_irQueue ELSE Append(ir_irQueue, item)
      /\ ir_since' = IF code \in Digits /\ ~I!Full THEN 0 ELSE ir_since
      /\ UNCHANGED <<ir_now, ir_handling, ir_last, ir_irDigits, ir_irDigitTime, ir_irMuted,
                     ir_station, ir_silent, ir_fading, ir_volume, ir_wrapped>>
  BY DEF I!Receive, I!player
<1>2. ir_newest' \in I!Keys \cup {"none"}
  BY <1>1 DEF RemoteInv, RemoteTypes
<1>3. item \in Items /\ item.key = code /\ item.after = ir_newest'
  BY <1>2 DEF Items
<1>4. CASE I!Full
  <2>1. ir_irQueue' = ir_irQueue /\ ir_since' = ir_since /\ ir_newest' = ir_newest
    BY <1>1, <1>4
  <2>2. RemoteTypes' /\ Repeats' /\ Newest' /\ Timed'
    BY <1>1, <2>1 DEF RemoteInv, RemoteTypes, Repeats, Newest, Timed, DigitPending
  <2> QED
    BY <1>1, <2>2 DEF RemoteInv, I!RepeatsTheKeyBefore, I!MuteKnown
<1>5. CASE ~I!Full
  <2>1. item.after = IF item.key = "repeat" THEN ir_newest ELSE item.key
    BY <1>1, <1>3, <1>5
  <2>2. /\ ir_irQueue' \in Seq(Items) /\ Len(ir_irQueue') <= QueueSize /\ Repeats'
        /\ ir_irQueue' # <<>> /\ ir_irQueue'[Len(ir_irQueue')] = item
        /\ DigitPending \/ code \in Digits <=> DigitPending'
    BY <1>1, <1>3, <1>5, <2>1, Queued DEF I!Full
  <2>3. ir_since' \in 0..Wait /\ (ir_since' = ir_since \/ code \in Digits)
    BY <1>1, RemoteConstants DEF RemoteInv, RemoteTypes
  <2>4. RemoteTypes'
    BY <1>1, <1>2, <2>2, <2>3 DEF RemoteInv, RemoteTypes
  <2>5. Newest'
    BY <1>3, <2>2 DEF Newest
  <2>6. Timed'
    BY <1>1, <2>2, <2>3 DEF RemoteInv, Timed
  <2> QED
    BY <1>1, <2>2, <2>4, <2>5, <2>6 DEF RemoteInv, I!RepeatsTheKeyBefore, I!MuteKnown
<1> QED
  BY <1>4, <1>5

(* The clock goes on, or wraps.                                             *)
LEMMA TickKeeps ==
  ASSUME RemoteInv, I!Tick
  PROVE  RemoteInv'
<1>1. /\ ir_now' = (ir_now + 1) % Wrap
      /\ ir_since' = IF ir_since < Wait THEN ir_since + 1 ELSE ir_since
      /\ ir_wrapped' = (ir_wrapped \/ ir_now' = 0)
      /\ UNCHANGED <<ir_irQueue, ir_handling, ir_last, ir_irDigits, ir_irDigitTime, ir_irMuted,
                     ir_station, ir_silent, ir_fading, ir_volume, ir_newest>>
  BY DEF I!Tick, I!player
<1>2. ir_now \in 0..Wrap - 1 /\ ir_since \in 0..Wait /\ ir_irDigitTime \in 0..Wrap - 1
  BY DEF RemoteInv, RemoteTypes
<1>3. ir_now' \in 0..Wrap - 1 /\ (ir_now' = 0 \/ ir_now' = ir_now + 1)
  <2>1. CASE ir_now + 1 = Wrap
    <3>1. \A w \in Nat \ {0} : w % w = 0
      OBVIOUS
    <3> QED
      BY <1>1, <2>1, <3>1, RemoteConstants
  <2>2. CASE ir_now + 1 < Wrap
    <3>1. \A n, w \in Nat : n < w => n % w = n
      OBVIOUS
    <3> QED
      BY <1>1, <1>2, <2>2, <3>1, RemoteConstants
  <2> QED
    BY <1>2, <2>1, <2>2, RemoteConstants
<1>4. ir_since' \in 0..Wait /\ (ir_since' = ir_since + 1 \/ ir_since' >= Wait)
  BY <1>1, <1>2, RemoteConstants
<1>5. RemoteTypes'
  BY <1>1, <1>3, <1>4 DEF RemoteInv, RemoteTypes
<1>6. Repeats' /\ Newest'
  BY <1>1 DEF RemoteInv, Repeats, Newest
<1>7. Timed'
  <2>1. DigitPending <=> DigitPending'
    BY <1>1 DEF DigitPending
  <2> SUFFICES ASSUME ~ir_wrapped'
               PROVE  /\ ir_now' >= ir_irDigitTime
                      /\ DigitPending \/ ir_since' >= Wait \/ ir_since' >= ir_now' - ir_irDigitTime
    BY <1>1, <2>1 DEF Timed
  <2>2. ~ir_wrapped /\ ir_now' = ir_now + 1
    BY <1>1, <1>3
  <2>3. /\ ir_now >= ir_irDigitTime
        /\ DigitPending \/ ir_since >= Wait \/ ir_since >= ir_now - ir_irDigitTime
    BY <2>2 DEF RemoteInv, Timed
  <2>4. ir_since >= Wait => ir_since' >= Wait
    BY <1>1, <1>2, RemoteConstants
  <2> QED
    BY <1>2, <1>4, <2>2, <2>3, <2>4, RemoteConstants
<1> QED
  BY <1>1, <1>5, <1>6, <1>7 DEF RemoteInv, I!RepeatsTheKeyBefore, I!MuteKnown

(* The task takes a key from the queue; what was second is now first.       *)
LEMMA TakeKeyKeeps ==
  ASSUME RemoteInv, I!TakeKey
  PROVE  RemoteInv'
<1> DEFINE q == ir_irQueue  L == Len(ir_irQueue)  item == Head(ir_irQueue)
<1>1. /\ ir_handling = I!Idle /\ q # <<>> /\ ir_handling' = item /\ q' = Tail(q)
      /\ ir_last' = IF item.key = "repeat" THEN ir_last ELSE item.key
      /\ UNCHANGED <<ir_now, ir_irDigits, ir_irDigitTime, ir_irMuted, ir_station, ir_silent,
                     ir_fading, ir_volume, ir_newest, ir_since, ir_wrapped>>
  BY DEF I!TakeKey, I!player, I!reference
<1>2. /\ q' \in Seq(Items) /\ item \in Items /\ item = q[1]
      /\ L \in Nat \ {0} /\ Len(q') = L - 1
      /\ \A n \in 1..L - 1 : n + 1 \in 1..L /\ q'[n] = q[n + 1]
      /\ q' = <<>> <=> L = 1
  BY <1>1, Taken DEF RemoteInv, RemoteTypes
<1>3. ir_last' = item.after
  BY <1>1, <1>2 DEF RemoteInv, Repeats
<1>4. RemoteTypes'
  <2>1. ir_last' \in I!Keys \cup {"none"}
    BY <1>2, <1>3 DEF Items
  <2>2. Len(q') <= QueueSize
    BY <1>2, RemoteConstants DEF RemoteInv, RemoteTypes
  <2> QED
    BY <1>1, <1>2, <2>1, <2>2 DEF RemoteInv, RemoteTypes
<1>5. Repeats'
  <2> SUFFICES ASSUME NEW n \in 1..L - 1
               PROVE  q'[n].after = IF q'[n].key # "repeat" THEN q'[n].key
                                    ELSE IF n = 1 THEN ir_last' ELSE q'[n - 1].after
    BY <1>2 DEF Repeats
  <2>1. n + 1 \in 1..L /\ n + 1 # 1 /\ q'[n] = q[n + 1] /\ (n + 1) - 1 = n
    BY <1>2
  <2>2. q'[n].after = IF q'[n].key # "repeat" THEN q'[n].key ELSE q[n].after
    BY <2>1 DEF RemoteInv, Repeats
  <2>3. CASE n = 1
    BY <1>2, <1>3, <2>2, <2>3
  <2>4. CASE n # 1
    <3>1. n - 1 \in 1..L - 1 /\ (n - 1) + 1 = n
      BY <1>2, <2>4
    <3>2. q'[n - 1] = q[n]
      BY <1>2, <3>1
    <3> QED
      BY <2>2, <2>4, <3>2
  <2> QED
    BY <2>3, <2>4
<1>6. Newest'
  <2>1. ir_newest' = q[L].after
    BY <1>1 DEF RemoteInv, Newest
  <2>2. CASE L = 1
    BY <1>2, <1>3, <2>1, <2>2 DEF Newest
  <2>3. CASE L # 1
    <3>1. L - 1 \in 1..L - 1 /\ (L - 1) + 1 = L
      BY <1>2, <2>3
    <3>2. q'[L - 1] = q[L] /\ q' # <<>>
      BY <1>2, <2>3, <3>1
    <3> QED
      BY <1>2, <2>1, <3>2 DEF Newest
  <2> QED
    BY <2>2, <2>3
<1>7. DigitPending => DigitPending'
  <2> SUFFICES ASSUME DigitPending PROVE DigitPending'
    OBVIOUS
  <2>1. ir_handling.key \notin Digits
    BY <1>1, RemoteConstants DEF I!Idle
  <2>2. PICK n \in 1..L : q[n].key \in Digits
    BY <2>1 DEF DigitPending
  <2>3. CASE n = 1
    BY <1>1, <1>2, <2>2, <2>3 DEF DigitPending
  <2>4. CASE n # 1
    <3>1. n - 1 \in 1..L - 1 /\ (n - 1) + 1 = n
      BY <1>2, <2>4
    <3> QED
      BY <1>2, <2>2, <3>1 DEF DigitPending
  <2> QED
    BY <2>3, <2>4
<1>8. Timed'
  BY <1>1, <1>7 DEF RemoteInv, Timed
<1>9. I!RepeatsTheKeyBefore' /\ I!MuteKnown'
  BY <1>1, <1>3 DEF RemoteInv, I!RepeatsTheKeyBefore, I!MuteKnown
<1> QED
  BY <1>4, <1>5, <1>6, <1>8, <1>9 DEF RemoteInv

(* irPlayDigits ends the number, and leaves the radio with a station.       *)
LEMMA Played ==
  ASSUME NEW digits, I!irPlayDigits(digits), ir_station \in Stations
  PROVE  ir_irDigits' = <<>> /\ ir_station' \in Stations
BY DEF I!irPlayDigits

(* The empty number.                                                        *)
LEMMA NoDigits ==
  <<>> \in Seq(Digits) /\ Len(<<>>) < 3
BY EmptySeq

(* The key handled is done with: what is queued is as before.              *)
LEMMA HandledKeeps ==
  ASSUME RemoteInv, I!Handled, UNCHANGED ir_wrapped,
         ir_irDigits' \in Seq(Digits) /\ Len(ir_irDigits') < 3, ir_station' \in Stations,
         ir_handling.key \notin Digits, UNCHANGED ir_irDigitTime, I!MuteKnown'
  PROVE  RemoteInv'
<1>1. /\ ir_handling' = I!Idle
      /\ UNCHANGED <<ir_irQueue, ir_now, ir_last, ir_newest, ir_since, ir_wrapped>>
  BY DEF I!Handled, I!reference
<1>2. RemoteTypes'
  BY <1>1 DEF RemoteInv, RemoteTypes
<1>3. Repeats' /\ Newest'
  BY <1>1 DEF RemoteInv, Repeats, Newest
<1>4. DigitPending => DigitPending'
  BY <1>1 DEF DigitPending
<1>5. Timed'
  BY <1>1, <1>4 DEF RemoteInv, Timed
<1> QED
  BY <1>1, <1>2, <1>3, <1>5 DEF RemoteInv, I!RepeatsTheKeyBefore, I!MuteKnown, I!Idle

(* irTask handles a digit.                                                  *)
LEMMA HandleDigitKeeps ==
  ASSUME RemoteInv, I!HandleDigit
  PROVE  RemoteInv'
<1> DEFINE d == ir_handling.key
<1>1. /\ d \in Digits /\ ir_irDigitTime' = ir_now /\ ir_wrapped' = FALSE
      /\ IF Len(ir_irDigits) + 1 = 3 THEN I!irPlayDigits(Append(ir_irDigits, d))
         ELSE ir_irDigits' = Append(ir_irDigits, d) /\ UNCHANGED ir_station
      /\ ir_handling' = I!Idle
      /\ UNCHANGED <<ir_irQueue, ir_now, ir_last, ir_newest, ir_since, ir_irMuted, ir_silent,
                     ir_fading, ir_volume>>
  BY DEF I!HandleDigit, I!irDigit, I!Handled, I!DigitsMax, I!reference
<1>2. ir_irDigits' \in Seq(Digits) /\ Len(ir_irDigits') < 3 /\ ir_station' \in Stations
  <2>1. CASE Len(ir_irDigits) + 1 = 3
    BY <1>1, <2>1, Played, NoDigits DEF RemoteInv, RemoteTypes
  <2>2. CASE Len(ir_irDigits) + 1 # 3
    BY <1>1, <2>2, Appended DEF RemoteInv, RemoteTypes
  <2> QED
    BY <2>1, <2>2
<1>3. RemoteTypes'
  BY <1>1, <1>2 DEF RemoteInv, RemoteTypes
<1>4. Repeats' /\ Newest'
  BY <1>1 DEF RemoteInv, Repeats, Newest
<1>5. Timed'
  <2>1. ir_now - ir_now = 0 /\ ir_now >= ir_now /\ ir_since >= 0
    BY RemoteConstants DEF RemoteInv, RemoteTypes
  <2> QED
    BY <1>1, <2>1 DEF Timed
<1> QED
  BY <1>1, <1>3, <1>4, <1>5 DEF RemoteInv, I!RepeatsTheKeyBefore, I!MuteKnown, I!Idle

(* irTask handles a repeat of nothing.                                      *)
LEMMA HandleNothingKeeps ==
  ASSUME RemoteInv, I!HandleNothing
  PROVE  RemoteInv'
<1>1. /\ I!Handled /\ ir_handling.key \notin Digits
      /\ UNCHANGED <<ir_irDigits, ir_irDigitTime, ir_irMuted, ir_station, ir_silent, ir_fading,
                     ir_volume, ir_wrapped>>
  BY RemoteConstants DEF I!HandleNothing, I!Handled
<1>2. /\ ir_irDigits' \in Seq(Digits) /\ Len(ir_irDigits') < 3 /\ ir_station' \in Stations
      /\ I!MuteKnown'
  BY <1>1 DEF RemoteInv, RemoteTypes, I!MuteKnown
<1> QED
  BY <1>1, <1>2, HandledKeeps

(* irTask handles a key that is no digit.                                   *)
LEMMA HandleKeyKeeps ==
  ASSUME RemoteInv, I!HandleKey
  PROVE  RemoteInv'
<1>1. /\ I!Handled /\ ir_handling.key \notin Digits
      /\ ir_irDigits' = <<>> /\ UNCHANGED <<ir_irDigitTime, ir_wrapped, ir_fading, ir_volume>>
      /\ ir_station' \in IF I!Command = "step" THEN Stations ELSE {ir_station}
  BY DEF I!HandleKey, I!Handled
<1>2. I!MuteKnown'
  <2>1. /\ ir_irMuted' = CASE I!Command = "volume" -> FALSE [] I!Command = "mute" -> ~ir_irMuted [] OTHER -> ir_irMuted
        /\ ir_silent' = CASE I!Command = "volume" -> FALSE [] I!Command = "mute" -> ~ir_irMuted [] OTHER -> ir_silent
    BY DEF I!HandleKey
  <2>2. CASE I!Command = "volume" \/ I!Command = "mute"
    <3>1. ir_silent' => ir_irMuted'
      BY <2>1, <2>2, Zenon
    <3> QED
      BY <3>1 DEF I!MuteKnown
  <2>3. CASE I!Command # "volume" /\ I!Command # "mute"
    <3>1. ir_silent' = ir_silent /\ ir_irMuted' = ir_irMuted
      BY <2>1, <2>3, Zenon
    <3> QED
      BY <1>1, <3>1 DEF RemoteInv, I!MuteKnown
  <2> QED
    BY <2>2, <2>3
<1>3. ir_irDigits' \in Seq(Digits) /\ Len(ir_irDigits') < 3 /\ ir_station' \in Stations
  BY <1>1, NoDigits DEF RemoteInv, RemoteTypes
<1> QED
  BY <1>1, <1>2, <1>3, HandledKeeps

(* The wait for another digit is over.                                      *)
LEMMA WaitOverKeeps ==
  ASSUME RemoteInv, I!WaitOver
  PROVE  RemoteInv'
<1>1. /\ ir_irDigits' = <<>> /\ ir_station' \in Stations
      /\ UNCHANGED <<ir_irQueue, ir_now, ir_handling, ir_last, ir_irDigitTime, ir_irMuted,
                     ir_silent, ir_fading, ir_volume, ir_newest, ir_since, ir_wrapped>>
  BY Played DEF I!WaitOver, RemoteInv, RemoteTypes, I!player, I!reference
<1>2. RemoteTypes'
  BY <1>1, NoDigits DEF RemoteInv, RemoteTypes
<1>3. Repeats' /\ Newest' /\ Timed'
  BY <1>1 DEF RemoteInv, Repeats, Newest, Timed, DigitPending
<1> QED
  BY <1>1, <1>2, <1>3 DEF RemoteInv, I!RepeatsTheKeyBefore, I!MuteKnown

(* Others change the volume: a user, or clientTask, which puts back what it *)
(* has kept.                                                                *)
LEMMA OfVolumeKeeps ==
  ASSUME RemoteInv, I!SetVolume \/ I!clientTask
  PROVE  RemoteInv'
<1>1. /\ UNCHANGED <<ir_irQueue, ir_now, ir_handling, ir_last, ir_irDigits, ir_irDigitTime,
                     ir_irMuted, ir_station, ir_newest, ir_since, ir_wrapped>>
      /\ ~ir_silent' \/ ir_fading' \/ (ir_silent' = ir_volume' /\ ir_silent')
  BY DEF I!SetVolume, I!clientTask, I!FadeBegins, I!FadeEnds, I!Forced, I!OfVolume, I!reference
<1>2. RemoteTypes'
  BY <1>1 DEF RemoteInv, RemoteTypes
<1>3. Repeats' /\ Newest' /\ Timed'
  BY <1>1 DEF RemoteInv, Repeats, Newest, Timed, DigitPending
<1>4. I!MuteKnown'
  BY <1>1 DEF I!MuteKnown
<1> QED
  BY <1>1, <1>2, <1>3, <1>4 DEF RemoteInv, I!RepeatsTheKeyBefore

(* Nothing of the remote changes.                                           *)
LEMMA RemoteStays ==
  ASSUME RemoteInv, UNCHANGED remoteVars
  PROVE  RemoteInv'
BY DEF remoteVars, RemoteInv, RemoteTypes, Repeats, Newest, Timed, DigitPending,
       I!RepeatsTheKeyBefore, I!MuteKnown

(* No step of the remote breaks its invariant.                              *)
LEMMA RemoteKeeps ==
  ASSUME RemoteInv, I!Next
  PROVE  RemoteInv'
<1>1. ASSUME NEW code \in I!Keys \cup {"repeat"}, I!Receive(code) PROVE RemoteInv'
  BY <1>1, ReceiveKeeps
<1>2. CASE I!Tick
  BY <1>2, TickKeeps
<1>3. CASE I!TakeKey
  BY <1>3, TakeKeyKeeps
<1>4. CASE I!HandleDigit
  BY <1>4, HandleDigitKeeps
<1>5. CASE I!HandleNothing
  BY <1>5, HandleNothingKeeps
<1>6. CASE I!HandleKey
  BY <1>6, HandleKeyKeeps
<1>7. CASE I!WaitOver
  BY <1>7, WaitOverKeeps
<1>8. CASE I!SetVolume \/ I!clientTask
  BY <1>8, OfVolumeKeeps
<1> QED
  BY <1>1, <1>2, <1>3, <1>4, <1>5, <1>6, <1>7, <1>8 DEF I!Next, I!irTask

(* The invariant has the types the runs check.                              *)
LEMMA RemoteTyped ==
  RemoteInv => I!TypeOK
<1>1. ir_irDigits \in Seq(Digits) => Len(ir_irDigits) \in Nat
  OBVIOUS
<1> QED
  BY <1>1 DEF RemoteInv, RemoteTypes, I!TypeOK, I!DigitsMax

(* A number that ends without a key has waited for as long as it should.    *)
LEMMA PlayedOnlyInTime ==
  ASSUME RemoteInv, I!Next
  PROVE  I!InTime
<1> SUFFICES ASSUME ir_handling = I!Idle, ir_irDigits # <<>>, ir_irDigits' = <<>>, ~ir_wrapped
             PROVE  ir_since >= Wait
  BY DEF I!InTime
<1>1. ir_handling.key \notin Digits
  BY RemoteConstants DEF I!Idle
<1>2. CASE I!WaitOver
  <2>1. /\ ir_irQueue = <<>> /\ Len(ir_irQueue) = 0
        /\ ir_now < ir_irDigitTime \/ ir_now - ir_irDigitTime >= Wait
    BY <1>2 DEF I!WaitOver
  <2>2. ~DigitPending
    BY <1>1, <2>1 DEF DigitPending
  <2>3. /\ ir_now >= ir_irDigitTime
        /\ ir_since >= Wait \/ ir_since >= ir_now - ir_irDigitTime
    BY <2>2 DEF RemoteInv, Timed
  <2> QED
    BY <2>1, <2>3, RemoteConstants DEF RemoteInv, RemoteTypes
<1>3. CASE I!HandleDigit
  BY <1>1, <1>3 DEF I!HandleDigit
<1>4. CASE I!HandleKey
  BY <1>4 DEF I!HandleKey
<1>5. CASE I!HandleNothing
  BY <1>5 DEF I!HandleNothing
<1>6. CASE \E code \in I!Keys \cup {"repeat"} : I!Receive(code)
  BY <1>6 DEF I!Receive
<1>7. CASE I!Tick \/ I!TakeKey \/ I!SetVolume \/ I!clientTask
  BY <1>7 DEF I!Tick, I!TakeKey, I!SetVolume, I!clientTask, I!FadeBegins, I!FadeEnds, I!Forced, I!OfVolume
<1> QED
  BY <1>2, <1>3, <1>4, <1>5, <1>6, <1>7 DEF I!Next, I!irTask

(* irTask: the invariant of the remote.                                     *)
THEOREM RemoteInvariant == Spec => [](active = "remote" => RemoteInv)
<1>1. Init => (active = "remote" => RemoteInv)
  BY RemoteBegins DEF Init
<1>2. (active = "remote" => RemoteInv) /\ [Next]_vars => (active = "remote" => RemoteInv)'
  <2> SUFFICES ASSUME active = "remote" => RemoteInv, [Next]_vars, active' = "remote"
               PROVE  RemoteInv'
    OBVIOUS
  <2>1. active = "remote" /\ (I!Next \/ UNCHANGED remoteVars)
    BY DEF Next, vars
  <2> QED
    BY <2>1, RemoteKeeps, RemoteStays
<1> QED
  BY <1>1, <1>2, PTL DEF Spec

(* irTask: a repeat acts as the key published last before it, and a mute    *)
(* the remote has made is known to it, but where clientTask put it back.    *)
THEOREM RemoteCorrect == Spec => []KeysInTurn
<1>1. (active = "remote" => RemoteInv) => KeysInTurn
  BY RemoteTyped DEF RemoteInv, KeysInTurn
<1> QED
  BY <1>1, RemoteInvariant, PTL

(* irTask: a number is not played before its wait is over.                  *)
THEOREM RemoteInTime == Spec => PlayedInTime
<1>1. (active = "remote" => RemoteInv) /\ [Next]_vars => [active = "remote" => I!InTime]_vars
  <2> SUFFICES ASSUME active = "remote" => RemoteInv, Next, active = "remote" PROVE I!InTime
    OBVIOUS
  <2> QED
    BY PlayedOnlyInTime DEF Next
<1> QED
  BY <1>1, RemoteInvariant, PTL DEF Spec, PlayedInTime

(* The decoder: what the tasks have to do with it, and in which order.      *)
Registers == {"BASS", "MODE", "VOL"}
Contents == Values \cup {0, 1}
BassType == [treble : Contents, bass : Contents]
ModeType == [spatial : Contents, cancel : Contents]
VolType == [vol : Contents]

UserParts ==
  [do : {"get"}, reg : {"BASS", "MODE"}, field : {"none"}, value : {0}]
    \cup [do : {"set"}, reg : {"BASS"}, field : {"treble", "bass"}, value : Values]
    \cup [do : {"set"}, reg : {"MODE"}, field : {"spatial"}, value : Values]
    \cup [do : {"set"}, reg : {"VOL"}, field : {"vol"}, value : Values]
BootParts == UserParts \cup [do : {"low"}, reg : {"none"}, field : {"none"}, value : {0, 1}]
MusicParts == [do : {"chunk"}, reg : {"none"}, field : {"none"}, value : {0}]
ClientParts ==
  [do : {"get"}, reg : {"MODE", "VOL"}, field : {"none"}, value : {0}]
    \cup [do : {"set"}, reg : {"MODE"}, field : {"cancel"}, value : {1}]
    \cup [do : {"set"}, reg : {"VOL"}, field : {"mute"}, value : {0}]
    \cup [do : {"restore"}, reg : {"VOL"}, field : {"vol"}, value : {0}]
    \cup [do : {"chunk", "reset"}, reg : {"none"}, field : {"none"}, value : {0}]
    \cup [do : {"playing"}, reg : {"none"}, field : {"none"}, value : {0, 1}]
    \cup [do : {"cancelled", "again"}, reg : {"none"}, field : {"none"}, value : Int]

PartsOf(t) ==
  IF t = "clientTask" THEN ClientParts
  ELSE IF t # "vsTask" THEN UserParts
  ELSE IF vs_started THEN MusicParts ELSE BootParts

(* p comes before n: a field is set with what was just read, the volume is  *)
(* read first and restored last, and both selects go up after they went low.*)
May(p, n) ==
  /\ n.do = "set" /\ n.reg # "VOL" => p.do = "get" /\ p.reg = n.reg
  /\ n.field = "mute" => p.do = "get" /\ p.reg = "VOL"
  /\ n.do = "get" => n.reg # "VOL"
  /\ n.do = "low" => n.value = 0 /\ p.do = "low" /\ p.value = 1
  /\ p.do = "low" /\ p.value = 1 => n.do = "low"
  /\ p.do # "restore"
Chain(parts) == \A n \in 1..Len(parts) - 1 : May(parts[n], parts[n + 1])

(* What comes last.                                                         *)
Ends(t, parts) ==
  parts # <<>> =>
    /\ parts[Len(parts)].do # "low"
    /\ t = "clientTask" => parts[Len(parts)].do = "restore"

Jobs ==
  /\ vs_job = [t \in D!Tasks |-> vs_job[t]]
  /\ \A t \in D!Tasks : vs_job[t] \in Seq(PartsOf(t)) /\ Chain(vs_job[t]) /\ Ends(t, vs_job[t])
  /\ ~vs_started => \A t \in D!Tasks \ {"vsTask"} : vs_job[t] = <<>>

(* Between the two writes of ControlReset.                                  *)
Resetting ==
  /\ vs_job["vsTask"] # <<>> /\ Head(vs_job["vsTask"]).do = "low"
  /\ Head(vs_job["vsTask"]).value = 0
Selecting(t) == vs_job[t] # <<>> /\ Head(vs_job[t]).do = "chunk"

(* Who is in a transfer holds the bus, and only the select it needs is low. *)
BusHeld ==
  /\ vs_phase \in [D!Tasks -> {"out", "ready", "selected"}]
  /\ vs_sSPI \in D!Tasks \cup {"free"} /\ vs_cs \in BOOLEAN /\ vs_xdcs \in BOOLEAN
  /\ \A t \in D!Tasks :
       /\ vs_phase[t] = "selected" <=> vs_sSPI = t
       /\ vs_phase[t] = "selected" => D!Doing(t, D!Transfers)
       /\ vs_phase[t] = "ready" => Selecting(t)
       /\ vs_sSPI = t => (vs_xdcs <=> Selecting(t)) /\ (vs_cs <=> ~Selecting(t))
  /\ vs_sSPI = "free" => (vs_cs <=> Resetting) /\ (vs_xdcs <=> Resetting)

(* Whoever has looked at DREQ will send one chunk.                          *)
Coming(t) == IF Selecting(t) /\ vs_phase[t] # "out" THEN 1 ELSE 0
FifoBound ==
  vs_fifo \in Nat /\ vs_fifo + Coming("vsTask") + Coming("clientTask") <= Room + 1

RegisterTypes ==
  /\ vs_chip \in [BASS : BassType, MODE : ModeType, VOL : VolType]
  /\ vs_want \in [BASS : BassType, MODE : ModeType, VOL : VolType]
  /\ vs_volume \in VolType
  /\ vs_read = [t \in D!Tasks |-> vs_read[t]]
  /\ vs_stale \subseteq D!Tasks \X Registers
  /\ vs_playing \in BOOLEAN /\ vs_music \in BOOLEAN /\ vs_started \in BOOLEAN

Setting(t, reg) ==
  vs_job[t] # <<>> /\ Head(vs_job[t]).do = "set" /\ Head(vs_job[t]).reg = reg

(* What a task is about to write back is as the chip is, or out of date.    *)
ReadGood(t) ==
  /\ Setting(t, "BASS") =>
       /\ vs_read[t] \in BassType
       /\ <<t, "BASS">> \in vs_stale \/ vs_read[t] = vs_chip.BASS
  /\ Setting(t, "MODE") =>
       /\ vs_read[t] \in ModeType
       /\ <<t, "MODE">> \in vs_stale \/ vs_read[t].spatial = vs_chip.MODE.spatial
ReadBack == \A t \in D!Tasks : ReadGood(t)

(* The volume, while clientTask reads it, mutes and restores it.            *)
Volumes ==
  LET client == vs_job["clientTask"]
      first == client # <<>> /\ Head(client).do = "get" /\ Head(client).reg = "VOL"
      muting == client # <<>> /\ Head(client).field = "mute"
  IN  /\ client = <<>> \/ first \/ muting => vs_chip.VOL = vs_want.VOL
      /\ client # <<>> /\ ~first =>
           <<"clientTask", "VOL">> \in vs_stale \/ vs_volume = vs_want.VOL
      /\ \A t \in D!Tasks \ {"clientTask"} : <<t, "VOL">> \notin vs_stale

Kept == vs_chip.BASS = vs_want.BASS /\ vs_chip.MODE.spatial = vs_want.MODE.spatial

DecoderInv ==
  /\ Jobs /\ BusHeld /\ FifoBound /\ RegisterTypes /\ ReadBack /\ Volumes /\ Kept
(* The decoder's constants.                                                 *)
LEMMA DecoderConstants ==
  /\ {Room, Rounds, Filling} \subseteq Nat \ {0} /\ Saved \in Values
  /\ {"vsTask", "clientTask", "free"} \cap Users = {}
  /\ Fields \subseteq {"treble", "bass", "spatial"}
  /\ {"vsTask", "clientTask"} \subseteq D!Tasks /\ Users \subseteq D!Tasks /\ "free" \notin D!Tasks
  /\ \A t \in D!Tasks \ {"vsTask", "clientTask"} : t \in Users
BY InputsAssumption DEF InputsAssumption, D!DecoderAssumption, D!Tasks

(* RegOf, of every field.                                                   *)
LEMMA FieldsOfRegisters ==
  /\ DOMAIN D!Fresh = Registers
  /\ D!RegOf("treble") = "BASS" /\ D!RegOf("bass") = "BASS"
  /\ D!RegOf("spatial") = "MODE" /\ D!RegOf("cancel") = "MODE" /\ D!RegOf("vol") = "VOL"
<1>1. DOMAIN D!Fresh = Registers
  BY DEF D!Fresh, Registers
<1>2. /\ DOMAIN D!Fresh["BASS"] = {"treble", "bass"}
      /\ DOMAIN D!Fresh["MODE"] = {"spatial", "cancel"} /\ DOMAIN D!Fresh["VOL"] = {"vol"}
  BY DEF D!Fresh
<1> QED
  BY <1>1, <1>2 DEF D!RegOf, Registers

(* What the parts of a job look like.                                       *)
LEMMA PartShapes ==
  ASSUME NEW t \in D!Tasks, NEW p \in PartsOf(t)
  PROVE  /\ p.do \in {"get", "set", "restore", "chunk", "low", "reset", "playing", "cancelled", "again"}
         /\ p.do = "get" => p.reg \in Registers /\ p.field = "none"
         /\ p.do = "set" => /\ p.reg = "BASS" => p.field \in {"treble", "bass"}
                            /\ p.reg = "MODE" => p.field \in {"spatial", "cancel"}
                            /\ p.reg = "VOL" => p.field \in {"vol", "mute"}
                            /\ p.reg \in Registers /\ p.value \in Contents
         /\ p.do = "restore" => p.reg = "VOL" /\ p.field = "vol" /\ t = "clientTask"
         /\ p.do \notin {"get", "set", "restore"} => p.reg = "none" /\ p.field = "none"
         /\ p.field = "mute" => t = "clientTask" /\ p.do = "set" /\ p.reg = "VOL"
         /\ p.do = "get" /\ p.reg = "VOL" => t = "clientTask"
         /\ p.do = "low" => t = "vsTask" /\ ~vs_started /\ p.value \in {0, 1}
         /\ p.do = "chunk" => t \in {"vsTask", "clientTask"}
         /\ p.do \in {"cancelled", "again"} => t = "clientTask" /\ p.value \in Int
         /\ p.do \in {"reset", "playing"} => t = "clientTask"
<1>1. ASSUME t = "clientTask"
      PROVE  \/ p.do = "get" /\ p.reg \in {"MODE", "VOL"} /\ p.field = "none"
             \/ p.do = "set" /\ p.reg = "MODE" /\ p.field = "cancel" /\ p.value = 1
             \/ p.do = "set" /\ p.reg = "VOL" /\ p.field = "mute" /\ p.value = 0
             \/ p.do = "restore" /\ p.reg = "VOL" /\ p.field = "vol"
             \/ p.do \in {"chunk", "reset", "playing"} /\ p.reg = "none" /\ p.field = "none"
             \/ p.do \in {"cancelled", "again"} /\ p.reg = "none" /\ p.field = "none" /\ p.value \in Int
  BY <1>1 DEF PartsOf, ClientParts
<1>2. ASSUME t # "clientTask", vs_started, t = "vsTask"
      PROVE  p.do = "chunk" /\ p.reg = "none" /\ p.field = "none"
  BY <1>2 DEF PartsOf, MusicParts
<1>3. ASSUME p \in UserParts
      PROVE  \/ p.do = "get" /\ p.reg \in {"BASS", "MODE"} /\ p.field = "none"
             \/ p.do = "set" /\ p.reg = "BASS" /\ p.field \in {"treble", "bass"} /\ p.value \in Values
             \/ p.do = "set" /\ p.reg = "MODE" /\ p.field = "spatial" /\ p.value \in Values
             \/ p.do = "set" /\ p.reg = "VOL" /\ p.field = "vol" /\ p.value \in Values
  BY <1>3 DEF UserParts
<1>4. ASSUME t # "clientTask", ~(vs_started /\ t = "vsTask")
      PROVE  \/ p \in UserParts
             \/ ~vs_started /\ t = "vsTask" /\ p.do = "low" /\ p.reg = "none" /\ p.field = "none" /\ p.value \in {0, 1}
  BY <1>4 DEF PartsOf, BootParts
<1>5. CASE t = "clientTask"
  BY <1>1, <1>5 DEF Registers, Contents
<1>6. CASE vs_started /\ t = "vsTask"
  BY <1>2, <1>6
<1>7. CASE t # "clientTask" /\ ~(vs_started /\ t = "vsTask")
  BY <1>3, <1>4, <1>7 DEF Registers, Contents
<1> QED
  BY <1>5, <1>6, <1>7

(* A job without its first part.                                            *)
LEMMA Shortened ==
  ASSUME NEW X, NEW parts \in Seq(X), parts # <<>>, Chain(parts)
  PROVE  /\ Tail(parts) \in Seq(X) /\ Chain(Tail(parts))
         /\ Head(parts) \in X
         /\ Tail(parts) # <<>> => 
              /\ May(Head(parts), Head(Tail(parts))) /\ Head(Tail(parts)) \in X
              /\ Tail(parts)[Len(Tail(parts))] = parts[Len(parts)]
         /\ Tail(parts) = <<>> => parts[Len(parts)] = Head(parts)
<1> DEFINE rest == Tail(parts)
<1>1. /\ rest \in Seq(X) /\ Head(parts) \in X /\ Head(parts) = parts[1]
      /\ Len(parts) \in Nat \ {0} /\ Len(rest) = Len(parts) - 1
      /\ \A n \in 1..Len(rest) : n + 1 \in 1..Len(parts) /\ rest[n] = parts[n + 1]
      /\ rest = <<>> <=> Len(parts) = 1
  BY Taken
<1>2. Chain(rest)
  <2> SUFFICES ASSUME NEW n \in 1..Len(rest) - 1 PROVE May(rest[n], rest[n + 1])
    BY DEF Chain
  <2>1. n \in 1..Len(rest) /\ n + 1 \in 1..Len(rest) /\ n + 1 \in 1..Len(parts) - 1
    BY <1>1
  <2> QED
    BY <1>1, <2>1 DEF Chain
<1>3. ASSUME rest # <<>>
      PROVE  /\ May(Head(parts), Head(rest)) /\ Head(rest) \in X
             /\ rest[Len(rest)] = parts[Len(parts)]
  <2>1. 1 \in 1..Len(rest) /\ 1 \in 1..Len(parts) - 1 /\ Len(rest) \in 1..Len(rest)
        /\ Len(rest) + 1 = Len(parts) /\ 1 + 1 = 2
    BY <1>1, <1>3
  <2>2. Head(rest) = rest[1] /\ Head(rest) \in X
    BY <1>1, <1>3, Taken
  <2> QED
    BY <1>1, <2>1, <2>2 DEF Chain
<1> QED
  BY <1>1, <1>2, <1>3

(* Two chains that fit make one.                                            *)
LEMMA Joined ==
  ASSUME NEW X, NEW a \in Seq(X), NEW b \in Seq(X), a # <<>>, b # <<>>,
         Chain(a), Chain(b), May(a[Len(a)], b[1])
  PROVE  /\ a \o b \in Seq(X) /\ a \o b # <<>> /\ Chain(a \o b)
         /\ (a \o b)[1] = a[1] /\ (a \o b)[Len(a \o b)] = b[Len(b)]
<1> DEFINE c == a \o b
<1>1. /\ Len(a) \in Nat \ {0} /\ Len(b) \in Nat \ {0}
  BY Taken
<1>2. /\ c \in Seq(X) /\ Len(c) = Len(a) + Len(b)
      /\ \A n \in 1..Len(c) : c[n] = IF n <= Len(a) THEN a[n] ELSE b[n - Len(a)]
  BY ConcatProperties
<1>3. Chain(c)
  <2> SUFFICES ASSUME NEW n \in 1..Len(c) - 1 PROVE May(c[n], c[n + 1])
    BY DEF Chain
  <2>1. n \in 1..Len(c) /\ n + 1 \in 1..Len(c)
    BY <1>1, <1>2
  <2>2. CASE n < Len(a)
    <3>1. n \in 1..Len(a) - 1 /\ n <= Len(a) /\ n + 1 <= Len(a)
      BY <1>1, <2>1, <2>2
    <3> QED
      BY <1>2, <2>1, <3>1 DEF Chain
  <2>3. CASE n = Len(a)
    <3>1. ~(n + 1 <= Len(a)) /\ (n + 1) - Len(a) = 1 /\ n <= Len(a)
      BY <1>1, <2>3
    <3> QED
      BY <1>2, <2>1, <2>3, <3>1
  <2>4. CASE n > Len(a)
    <3>1. /\ ~(n <= Len(a)) /\ ~(n + 1 <= Len(a))
          /\ (n + 1) - Len(a) = (n - Len(a)) + 1 /\ n - Len(a) \in 1..Len(b) - 1
      BY <1>1, <1>2, <2>1, <2>4
    <3> QED
      BY <1>2, <2>1, <3>1 DEF Chain
  <2> QED
    BY <1>1, <2>2, <2>3, <2>4
<1>4. c # <<>> /\ c[1] = a[1] /\ c[Len(c)] = b[Len(b)]
  <2>1. /\ 1 \in 1..Len(c) /\ Len(c) \in 1..Len(c) /\ 1 <= Len(a)
        /\ ~(Len(c) <= Len(a)) /\ Len(c) - Len(a) = Len(b) /\ Len(c) # 0
    BY <1>1, <1>2
  <2> QED
    BY <1>2, <2>1, EmptySeq
<1> QED
  BY <1>2, <1>3, <1>4

(* Chains of one and two parts.                                             *)
LEMMA OnePart ==
  ASSUME NEW X, NEW p \in X
  PROVE  /\ <<p>> \in Seq(X) /\ <<p>> # <<>> /\ Chain(<<p>>)
         /\ <<p>>[1] = p /\ <<p>>[Len(<<p>>)] = p /\ Head(<<p>>) = p
BY DEF Chain

(* A job of two parts.                                                      *)
LEMMA TwoParts ==
  ASSUME NEW X, NEW p \in X, NEW n \in X, May(p, n)
  PROVE  /\ <<p, n>> \in Seq(X) /\ <<p, n>> # <<>> /\ Chain(<<p, n>>)
         /\ <<p, n>>[1] = p /\ <<p, n>>[Len(<<p, n>>)] = n /\ Head(<<p, n>>) = p
BY DEF Chain

(* The works that tasks take up.                                            *)
LEMMA FieldWork ==
  ASSUME NEW field \in {"treble", "bass", "spatial", "cancel"}, NEW v
  PROVE  LET reg == IF field \in {"treble", "bass"} THEN "BASS" ELSE "MODE"
             get == [do |-> "get", reg |-> reg, field |-> "none", value |-> 0]
             set == [do |-> "set", reg |-> reg, field |-> field, value |-> v]
         IN  D!SetField(field, v) = <<get, set>> /\ May(get, set)
BY FieldsOfRegisters DEF D!SetField, D!Get, D!Set, D!Part, May

(* What VS1053_SetVolume does.                                              *)
LEMMA VolumeWork ==
  ASSUME NEW v
  PROVE  D!SetVolume(v) = <<[do |-> "set", reg |-> "VOL", field |-> "vol", value |-> v]>>
BY FieldsOfRegisters DEF D!SetVolume, D!Set, D!Part

(* What a user's task does.                                                 *)
LEMMA UserWorks ==
  ASSUME NEW work,
         \/ \E v \in Values : work = D!SetVolume(v)
         \/ \E v \in Values, field \in Fields : work = D!SetField(field, v)
  PROVE  /\ work \in Seq(UserParts) /\ work # <<>> /\ Chain(work)
         /\ Head(work).do = "set" => Head(work).reg = "VOL"
         /\ Head(work).do \in {"get", "set"}
<1>1. CASE \E v \in Values : work = D!SetVolume(v)
  <2>1. PICK v \in Values : work = D!SetVolume(v)
    BY <1>1
  <2> DEFINE set == [do |-> "set", reg |-> "VOL", field |-> "vol", value |-> v]
  <2>2. work = <<set>> /\ set \in UserParts
    BY <2>1, VolumeWork DEF UserParts
  <2>3. set.do = "set" /\ set.reg = "VOL"
    OBVIOUS
  <2> HIDE DEF set
  <2> QED
    BY <2>2, <2>3, OnePart
<1>2. CASE \E v \in Values, field \in Fields : work = D!SetField(field, v)
  <2>1. PICK v \in Values, field \in Fields : work = D!SetField(field, v)
    BY <1>2
  <2> DEFINE reg == IF field \in {"treble", "bass"} THEN "BASS" ELSE "MODE"
             get == [do |-> "get", reg |-> reg, field |-> "none", value |-> 0]
             set == [do |-> "set", reg |-> reg, field |-> field, value |-> v]
  <2>2. work = <<get, set>> /\ May(get, set) /\ field \in {"treble", "bass", "spatial"}
    BY <2>1, FieldWork, DecoderConstants
  <2>3. get \in UserParts /\ set \in UserParts
    BY <2>2 DEF UserParts
  <2>4. get.do = "get"
    OBVIOUS
  <2> HIDE DEF get, set
  <2> QED
    BY <2>2, <2>3, <2>4, TwoParts
<1> QED
  BY <1>1, <1>2

(* What vsTask does.                                                        *)
LEMMA MusicWork ==
  /\ <<D!Chunk>> \in Seq(MusicParts) /\ <<D!Chunk>> # <<>> /\ Chain(<<D!Chunk>>)
  /\ Head(<<D!Chunk>>).do = "chunk"
<1>1. D!Chunk \in MusicParts /\ D!Chunk.do = "chunk"
  BY DEF D!Chunk, D!Other, D!Part, MusicParts
<1> QED
  BY <1>1, OnePart

(* VS1053_Start.                                                            *)
LEMMA StartWork ==
  ASSUME NEW v \in Values
  PROVE  /\ D!Start(v) \in Seq(BootParts) /\ D!Start(v) # <<>> /\ Chain(D!Start(v))
         /\ Head(D!Start(v)).do = "low" /\ Head(D!Start(v)).value = 1
         /\ Ends("vsTask", D!Start(v))
<1> DEFINE Low(n) == [do |-> "low", reg |-> "none", field |-> "none", value |-> n]
           get(reg) == [do |-> "get", reg |-> reg, field |-> "none", value |-> 0]
           set(reg, field) == [do |-> "set", reg |-> reg, field |-> field, value |-> v]
           s0 == <<Low(1), Low(0)>>
           s1 == s0 \o <<set("VOL", "vol")>>
           s2 == s1 \o <<get("BASS"), set("BASS", "treble")>>
           s3 == s2 \o <<get("BASS"), set("BASS", "bass")>>
           s4 == s3 \o <<get("MODE"), set("MODE", "spatial")>>
           Fits(s, last) == /\ s \in Seq(BootParts) /\ s # <<>> /\ Chain(s)
                            /\ s[1] = Low(1) /\ s[Len(s)] = last
<1>1. D!Start(v) = s4
  BY VolumeWork, FieldWork DEF D!Start, D!Other, D!Part
<1>2. /\ {Low(1), Low(0), set("VOL", "vol"), get("BASS"), get("MODE"), set("BASS", "treble"),
          set("BASS", "bass"), set("MODE", "spatial")} \subseteq BootParts
  BY DEF BootParts, UserParts
<1>3. /\ May(Low(1), Low(0)) /\ May(Low(0), set("VOL", "vol"))
      /\ May(set("VOL", "vol"), get("BASS")) /\ May(get("BASS"), set("BASS", "treble"))
      /\ May(set("BASS", "treble"), get("BASS")) /\ May(get("BASS"), set("BASS", "bass"))
      /\ May(set("BASS", "bass"), get("MODE")) /\ May(get("MODE"), set("MODE", "spatial"))
  BY DEF May
<1>4. Low(1).do = "low" /\ Low(1).value = 1 /\ set("MODE", "spatial").do = "set"
  OBVIOUS
<1> HIDE DEF Low, get, set
<1>5. Fits(s0, Low(0))
  BY <1>2, <1>3, TwoParts
<1>6. Fits(s1, set("VOL", "vol"))
  <2> DEFINE b == <<set("VOL", "vol")>>
  <2>1. /\ b \in Seq(BootParts) /\ b # <<>> /\ Chain(b) /\ b[1] = set("VOL", "vol")
        /\ b[Len(b)] = set("VOL", "vol")
    BY <1>2, OnePart
  <2> HIDE DEF s0, b
  <2>2. s1 = s0 \o b
    BY DEF b
  <2> QED
    BY <1>3, <1>5, <2>1, <2>2, Joined
<1>7. Fits(s2, set("BASS", "treble"))
  <2> DEFINE b == <<get("BASS"), set("BASS", "treble")>>
  <2>1. /\ b \in Seq(BootParts) /\ b # <<>> /\ Chain(b) /\ b[1] = get("BASS")
        /\ b[Len(b)] = set("BASS", "treble")
    BY <1>2, <1>3, TwoParts
  <2> HIDE DEF s1, b
  <2>2. s2 = s1 \o b
    BY DEF b
  <2> QED
    BY <1>3, <1>6, <2>1, <2>2, Joined
<1>8. Fits(s3, set("BASS", "bass"))
  <2> DEFINE b == <<get("BASS"), set("BASS", "bass")>>
  <2>1. /\ b \in Seq(BootParts) /\ b # <<>> /\ Chain(b) /\ b[1] = get("BASS")
        /\ b[Len(b)] = set("BASS", "bass")
    BY <1>2, <1>3, TwoParts
  <2> HIDE DEF s2, b
  <2>2. s3 = s2 \o b
    BY DEF b
  <2> QED
    BY <1>3, <1>7, <2>1, <2>2, Joined
<1>9. Fits(s4, set("MODE", "spatial"))
  <2> DEFINE b == <<get("MODE"), set("MODE", "spatial")>>
  <2>1. /\ b \in Seq(BootParts) /\ b # <<>> /\ Chain(b) /\ b[1] = get("MODE")
        /\ b[Len(b)] = set("MODE", "spatial")
    BY <1>2, <1>3, TwoParts
  <2> HIDE DEF s3, b
  <2>2. s4 = s3 \o b
    BY DEF b
  <2> QED
    BY <1>3, <1>8, <2>1, <2>2, Joined
<1> HIDE DEF s4
<1>10. Head(s4) = s4[1]
  BY <1>9, Taken
<1> QED
  BY <1>1, <1>4, <1>9, <1>10 DEF Ends

(* clientTask mutes and restores the volume around what it does.            *)
LEMMA MutedWork ==
  ASSUME NEW parts \in Seq(ClientParts), parts # <<>>, Chain(parts),
         parts[1].do \in {"reset", "playing"}, parts[Len(parts)].do = "playing"
  PROVE  /\ D!Muted(parts) \in Seq(ClientParts) /\ D!Muted(parts) # <<>> /\ Chain(D!Muted(parts))
         /\ Head(D!Muted(parts)).do = "get" /\ Head(D!Muted(parts)).reg = "VOL"
         /\ D!Muted(parts)[Len(D!Muted(parts))].do = "restore"
<1> DEFINE get == [do |-> "get", reg |-> "VOL", field |-> "none", value |-> 0]
           mute == [do |-> "set", reg |-> "VOL", field |-> "mute", value |-> 0]
           restore == [do |-> "restore", reg |-> "VOL", field |-> "vol", value |-> 0]
           a == <<get, mute>>
           b == a \o parts
           c == <<restore>>
           s == b \o c
<1>1. D!Muted(parts) = s
  BY DEF D!Muted, D!Get, D!Part
<1>2. /\ {get, mute, restore} \subseteq ClientParts
      /\ get.do = "get" /\ get.reg = "VOL" /\ restore.do = "restore"
  BY DEF ClientParts
<1>3. parts[1] \in ClientParts /\ parts[Len(parts)] \in ClientParts
  <2>1. Len(parts) \in Nat \ {0}
    BY Taken
  <2> QED
    BY <2>1, ElementOfSeq
<1>4. May(get, mute) /\ May(mute, parts[1]) /\ May(parts[Len(parts)], restore)
  <2>1. parts[1].field # "mute"
    BY <1>3 DEF ClientParts
  <2> QED
    BY <2>1 DEF May
<1> HIDE DEF get, mute, restore
<1>5. /\ a \in Seq(ClientParts) /\ a # <<>> /\ Chain(a) /\ a[1] = get /\ a[Len(a)] = mute
      /\ c \in Seq(ClientParts) /\ c # <<>> /\ Chain(c) /\ c[1] = restore /\ c[Len(c)] = restore
  BY <1>2, <1>4, OnePart, TwoParts
<1> HIDE DEF a, c
<1>6. b \in Seq(ClientParts) /\ b # <<>> /\ Chain(b) /\ b[1] = get /\ b[Len(b)] = parts[Len(parts)]
  BY <1>4, <1>5, Joined
<1> HIDE DEF b
<1>7. s \in Seq(ClientParts) /\ s # <<>> /\ Chain(s) /\ s[1] = get /\ s[Len(s)] = restore
  BY <1>4, <1>5, <1>6, Joined
<1> HIDE DEF s
<1>8. Head(s) = s[1]
  BY <1>7, Taken
<1> QED
  BY <1>1, <1>2, <1>7, <1>8

(* What clientTask does to start playing.                                   *)
LEMMA StartPlayingWork ==
  /\ D!StartPlaying \in Seq(ClientParts) /\ D!StartPlaying # <<>> /\ Chain(D!StartPlaying)
  /\ Head(D!StartPlaying).do = "get" /\ Head(D!StartPlaying).reg = "VOL"
  /\ D!StartPlaying[Len(D!StartPlaying)].do = "restore"
<1> DEFINE p == [do |-> "playing", reg |-> "none", field |-> "none", value |-> 1]
<1>1. p \in ClientParts /\ p.do = "playing"
  BY DEF ClientParts
<1>2. D!StartPlaying = D!Muted(<<p>>)
  BY DEF D!StartPlaying, D!Other, D!Part
<1> HIDE DEF p
<1> DEFINE parts == <<p>>
<1>3. /\ parts \in Seq(ClientParts) /\ parts # <<>> /\ Chain(parts)
      /\ parts[1].do = "playing" /\ parts[Len(parts)].do = "playing"
  BY <1>1, OnePart
<1> HIDE DEF parts
<1>4. D!StartPlaying = D!Muted(parts)
  BY <1>2 DEF parts
<1> QED
  BY <1>3, <1>4, MutedWork

(* flush_cancel, with any number of chunks.                                 *)
LEMMA FlushWork ==
  /\ D!flush_cancel \in Seq(ClientParts) /\ D!flush_cancel # <<>> /\ Chain(D!flush_cancel)
  /\ D!flush_cancel[1] = [do |-> "get", reg |-> "MODE", field |-> "none", value |-> 0]
  /\ D!flush_cancel[Len(D!flush_cancel)] = D!Chunk
<1> DEFINE get == [do |-> "get", reg |-> "MODE", field |-> "none", value |-> 0]
           set == [do |-> "set", reg |-> "MODE", field |-> "cancel", value |-> 1]
           cancelled == [do |-> "cancelled", reg |-> "none", field |-> "none", value |-> Rounds]
           a == <<get, set>>
           c == <<cancelled>>
           b == a \o c
           chunks == [n \in 1..Filling |-> D!Chunk]
<1>1. D!flush_cancel = b \o chunks
  BY FieldWork DEF D!flush_cancel, D!Other, D!Part
<1>2. {get, set, cancelled, D!Chunk} \subseteq ClientParts
  BY DecoderConstants DEF ClientParts, D!Chunk, D!Other, D!Part
<1>3. May(get, set) /\ May(set, cancelled) /\ May(cancelled, D!Chunk) /\ May(D!Chunk, D!Chunk)
  BY DEF May, D!Chunk, D!Other, D!Part
<1>4. /\ chunks \in Seq(ClientParts) /\ chunks # <<>> /\ Chain(chunks)
      /\ chunks[1] = D!Chunk /\ chunks[Len(chunks)] = D!Chunk
  <2>1. Filling \in Nat \ {0}
    BY DecoderConstants
  <2>2. chunks \in [1..Filling -> ClientParts]
    BY <1>2
  <2>3. chunks \in Seq(ClientParts) /\ Len(chunks) = Filling
    BY <2>1, <2>2, IsASeq, LenProperties
  <2>4. \A n \in 1..Filling : chunks[n] = D!Chunk
    OBVIOUS
  <2> HIDE DEF chunks
  <2>5. Chain(chunks)
    <3> SUFFICES ASSUME NEW n \in 1..Filling - 1 PROVE May(chunks[n], chunks[n + 1])
      BY <2>3 DEF Chain
    <3>1. n \in 1..Filling /\ n + 1 \in 1..Filling
      BY <2>1
    <3> QED
      BY <1>3, <2>4, <3>1
  <2>6. chunks # <<>> /\ 1 \in 1..Filling /\ Filling \in 1..Filling
    BY <2>1, <2>3, EmptySeq
  <2> QED
    BY <2>3, <2>4, <2>5, <2>6
<1> HIDE DEF get, set, cancelled, chunks
<1>5. /\ a \in Seq(ClientParts) /\ a # <<>> /\ Chain(a) /\ a[1] = get /\ a[Len(a)] = set
      /\ c \in Seq(ClientParts) /\ c # <<>> /\ Chain(c) /\ c[1] = cancelled /\ c[Len(c)] = cancelled
  BY <1>2, <1>3, OnePart, TwoParts
<1> HIDE DEF a, c
<1>6. b \in Seq(ClientParts) /\ b # <<>> /\ Chain(b) /\ b[1] = get /\ b[Len(b)] = cancelled
  BY <1>3, <1>5, Joined
<1> HIDE DEF b
<1> QED
  BY <1>1, <1>3, <1>4, <1>6, Joined DEF get

(* What clientTask does to stop.                                            *)
LEMMA StopPlayingWork ==
  /\ D!StopPlaying \in Seq(ClientParts) /\ D!StopPlaying # <<>> /\ Chain(D!StopPlaying)
  /\ Head(D!StopPlaying).do = "get" /\ Head(D!StopPlaying).reg = "VOL"
  /\ D!StopPlaying[Len(D!StopPlaying)].do = "restore"
<1> DEFINE reset == [do |-> "reset", reg |-> "none", field |-> "none", value |-> 0]
           stop == [do |-> "playing", reg |-> "none", field |-> "none", value |-> 0]
           get == [do |-> "get", reg |-> "MODE", field |-> "none", value |-> 0]
           a == <<reset>>
           b == a \o D!flush_cancel
           c == <<stop>>
           parts == b \o c
<1>1. D!StopPlaying = D!Muted(parts)
  BY DEF D!StopPlaying, D!Other, D!Part
<1>2. {reset, stop} \subseteq ClientParts /\ reset.do = "reset" /\ stop.do = "playing"
  BY DEF ClientParts
<1>3. May(reset, get) /\ May(D!Chunk, stop)
  BY DEF May, D!Chunk, D!Other, D!Part
<1>4. D!flush_cancel[1] = get
  BY FlushWork
<1> HIDE DEF reset, stop, get
<1>5. /\ a \in Seq(ClientParts) /\ a # <<>> /\ Chain(a) /\ a[1] = reset /\ a[Len(a)] = reset
      /\ c \in Seq(ClientParts) /\ c # <<>> /\ Chain(c) /\ c[1] = stop /\ c[Len(c)] = stop
  BY <1>2, OnePart
<1> HIDE DEF a, c
<1>6. b \in Seq(ClientParts) /\ b # <<>> /\ Chain(b) /\ b[1] = reset /\ b[Len(b)] = D!Chunk
  BY <1>3, <1>4, <1>5, FlushWork, Joined
<1> HIDE DEF b
<1>7. /\ parts \in Seq(ClientParts) /\ parts # <<>> /\ Chain(parts)
      /\ parts[1] = reset /\ parts[Len(parts)] = stop
  BY <1>3, <1>5, <1>6, Joined
<1> HIDE DEF parts
<1> QED
  BY <1>1, <1>2, <1>7, MutedWork

(* The first part of a job, and what is left of it.                         *)
LEMMA FirstPart ==
  ASSUME Jobs, NEW t \in D!Tasks, vs_job[t] # <<>>
  PROVE  LET part == Head(vs_job[t])  rest == Tail(vs_job[t])
         IN  /\ part \in PartsOf(t) /\ rest \in Seq(PartsOf(t)) /\ Chain(rest)
             /\ rest # <<>> => May(part, Head(rest)) /\ Head(rest) \in PartsOf(t)
             /\ Ends(t, rest)
             /\ rest = <<>> => part.do # "low" /\ (t = "clientTask" => part.do = "restore")
             /\ t # "vsTask" => vs_started
BY Shortened DEF Jobs, Ends

(* A task's job becomes another one.                                        *)
LEMMA JobMoves ==
  ASSUME Jobs, NEW t \in D!Tasks, NEW parts \in Seq(PartsOf(t)), Chain(parts),
         vs_job' = [vs_job EXCEPT ![t] = parts], UNCHANGED vs_started,
         t # "vsTask" => vs_started, Ends(t, parts)
  PROVE  /\ Jobs' /\ vs_job'[t] = parts
         /\ \A u \in D!Tasks : u # t => vs_job'[u] = vs_job[u]
         /\ \A u \in D!Tasks : PartsOf(u)' = PartsOf(u)
<1>1. /\ vs_job' = [u \in D!Tasks |-> vs_job'[u]] /\ vs_job'[t] = parts
      /\ \A u \in D!Tasks : u # t => vs_job'[u] = vs_job[u]
  BY DEF Jobs
<1>2. \A u \in D!Tasks : PartsOf(u)' = PartsOf(u)
  BY DEF PartsOf
<1>3. \A u \in D!Tasks : /\ vs_job'[u] \in Seq(PartsOf(u)') /\ Chain(vs_job'[u])
                         /\ Ends(u, vs_job'[u])
  BY <1>1, <1>2 DEF Jobs
<1>5. ~vs_started' => \A u \in D!Tasks \ {"vsTask"} : vs_job'[u] = <<>>
  BY <1>1 DEF Jobs
<1> QED
  BY <1>1, <1>2, <1>3, <1>5 DEF Jobs

(* A task whose part is not a transfer is not on the bus.                   *)
LEMMA OffBus ==
  ASSUME BusHeld, NEW t \in D!Tasks, ~D!Doing(t, D!Transfers)
  PROVE  vs_phase[t] = "out" /\ vs_sSPI # t
BY DEF BusHeld, D!Doing, D!Transfers, Selecting

(* While the selects are low for a reset, nobody else has work.             *)
LEMMA ResetAlone ==
  ASSUME Jobs, NEW t \in D!Tasks, vs_job[t] # <<>>, Resetting
  PROVE  t = "vsTask" /\ ~vs_started
<1>1. Head(vs_job["vsTask"]) \in PartsOf("vsTask") /\ vs_job["vsTask"] # <<>>
  BY FirstPart, DecoderConstants DEF Resetting
<1>2. ~vs_started
  BY <1>1, PartShapes, DecoderConstants DEF Resetting
<1> QED
  BY <1>2 DEF Jobs

(* A job that changes off the bus leaves the bus and its holder alone.      *)
LEMMA BusStays ==
  ASSUME BusHeld, NEW t \in D!Tasks, ~D!Doing(t, D!Transfers),
         \A u \in D!Tasks : u # t => vs_job'[u] = vs_job[u],
         UNCHANGED <<vs_sSPI, vs_cs, vs_xdcs, vs_phase>>, Resetting' <=> Resetting
  PROVE  BusHeld' /\ \A u \in D!Tasks : Coming(u)' = Coming(u)
<1>1. vs_phase[t] = "out" /\ vs_sSPI # t
  BY OffBus
<1>2. \A u \in D!Tasks : u # t => (D!Doing(u, D!Transfers)' <=> D!Doing(u, D!Transfers))
                               /\ (Selecting(u)' <=> Selecting(u))
  BY DEF D!Doing, D!Transfers, Selecting
<1>3. ASSUME NEW u \in D!Tasks
      PROVE  /\ vs_phase'[u] = "selected" <=> vs_sSPI' = u
             /\ vs_phase'[u] = "selected" => D!Doing(u, D!Transfers)'
             /\ vs_phase'[u] = "ready" => Selecting(u)'
             /\ vs_sSPI' = u => (vs_xdcs' <=> Selecting(u)') /\ (vs_cs' <=> ~Selecting(u)')
  BY <1>1, <1>2 DEF BusHeld
<1>4. BusHeld'
  BY <1>3 DEF BusHeld
<1> QED
  BY <1>1, <1>2, <1>4 DEF Coming

(* A transfer is over: the bus is free, both selects are up.                *)
LEMMA Released ==
  ASSUME Jobs, BusHeld, NEW t \in D!Tasks, NEW kinds, D!Finish(t, kinds),
         kinds \in {{"chunk"}, {"get"}, {"set", "restore"}}, UNCHANGED vs_started
  PROVE  LET part == Head(vs_job[t])  rest == Tail(vs_job[t])
         IN  /\ part \in PartsOf(t) /\ part.do \in kinds /\ vs_job[t] # <<>>
             /\ vs_phase[t] = "selected" /\ vs_phase' = [vs_phase EXCEPT ![t] = "out"]
             /\ Jobs' /\ BusHeld' /\ vs_job'[t] = rest
             /\ \A u \in D!Tasks : u # t => vs_job'[u] = vs_job[u]
             /\ rest # <<>> => May(part, Head(rest)) /\ Head(rest) \in PartsOf(t)
             /\ t = "clientTask" /\ rest = <<>> => part.do = "restore"
<1> DEFINE part == Head(vs_job[t])  rest == Tail(vs_job[t])
<1>1. /\ vs_job[t] # <<>> /\ part.do \in kinds /\ vs_phase[t] = "selected"
      /\ vs_phase' = [vs_phase EXCEPT ![t] = "out"] /\ vs_sSPI' = "free"
      /\ vs_job' = [vs_job EXCEPT ![t] = rest]
  BY DEF D!Finish, D!Doing, D!Rest, Jobs
<1>2. /\ part \in PartsOf(t) /\ rest \in Seq(PartsOf(t)) /\ Chain(rest)
      /\ rest # <<>> => May(part, Head(rest)) /\ Head(rest) \in PartsOf(t)
      /\ Ends(t, rest) /\ (t = "clientTask" /\ rest = <<>> => part.do = "restore")
      /\ t # "vsTask" => vs_started
  BY <1>1, FirstPart
<1>3. /\ Jobs' /\ vs_job'[t] = rest
      /\ \A u \in D!Tasks : u # t => vs_job'[u] = vs_job[u]
  BY <1>1, <1>2, JobMoves
<1>4. vs_sSPI = t /\ ~vs_cs' /\ ~vs_xdcs' /\ vs_cs' \in BOOLEAN /\ vs_xdcs' \in BOOLEAN
  <2>1. vs_sSPI = t /\ (vs_xdcs <=> part.do = "chunk") /\ (vs_cs <=> part.do # "chunk")
    BY <1>1 DEF BusHeld, Selecting
  <2>2. IF "chunk" \in kinds THEN vs_xdcs' = FALSE /\ UNCHANGED vs_cs
        ELSE vs_cs' = FALSE /\ UNCHANGED vs_xdcs
    BY DEF D!Finish
  <2>3. vs_cs \in BOOLEAN /\ vs_xdcs \in BOOLEAN
    BY DEF BusHeld
  <2>4. CASE "chunk" \in kinds
    <3>1. part.do = "chunk"
      BY <1>1, <2>4
    <3>2. vs_xdcs' = FALSE /\ vs_cs' = vs_cs
      BY <2>2, <2>4
    <3> QED
      BY <2>1, <2>3, <3>1, <3>2
  <2>5. CASE "chunk" \notin kinds
    <3>1. part.do # "chunk"
      BY <1>1, <2>5
    <3>2. vs_cs' = FALSE /\ vs_xdcs' = vs_xdcs
      BY <2>2, <2>5
    <3> QED
      BY <2>1, <2>3, <3>1, <3>2
  <2> QED
    BY <2>4, <2>5
<1>5. ~Resetting'
  <2>1. CASE t = "vsTask"
    <3>1. rest # <<>> => Head(rest).do # "low"
      BY <1>1, <1>2 DEF May
    <3> QED
      BY <1>3, <2>1, <3>1 DEF Resetting
  <2>2. CASE t # "vsTask"
    <3>1. ~Resetting
      BY <1>1, <2>2, ResetAlone
    <3>2. vs_job'["vsTask"] = vs_job["vsTask"]
      BY <1>3, <2>2, DecoderConstants
    <3> QED
      BY <3>1, <3>2 DEF Resetting
  <2> QED
    BY <2>1, <2>2
<1>6. BusHeld'
  <2>1. vs_phase' \in [D!Tasks -> {"out", "ready", "selected"}] /\ vs_phase'[t] = "out"
    BY <1>1 DEF BusHeld
  <2>2. ASSUME NEW u \in D!Tasks
        PROVE  /\ vs_phase'[u] # "selected" /\ u # "free"
               /\ vs_phase'[u] = "ready" => Selecting(u)'
    <3>1. CASE u = t
      BY <2>1, <3>1, DecoderConstants
    <3>2. CASE u # t
      <4>1. vs_phase'[u] = vs_phase[u] /\ vs_job'[u] = vs_job[u]
        BY <1>1, <1>3, <3>2 DEF BusHeld
      <4> QED
        BY <1>4, <3>2, <4>1, DecoderConstants DEF BusHeld, Selecting
    <3> QED
      BY <3>1, <3>2
  <2> QED
    BY <1>1, <1>4, <1>5, <2>1, <2>2 DEF BusHeld
<1> QED
  BY <1>1, <1>2, <1>3, <1>6

(* What the others have read stays as it was.                               *)
LEMMA OthersRead ==
  ASSUME ReadBack, NEW t \in D!Tasks, ~Setting(t, "BASS")', ~Setting(t, "MODE")',
         \A u \in D!Tasks : u # t => /\ vs_job'[u] = vs_job[u] /\ vs_read'[u] = vs_read[u]
                                     /\ \A reg : <<u, reg>> \in vs_stale => <<u, reg>> \in vs_stale',
         vs_chip'.BASS = vs_chip.BASS, vs_chip'.MODE.spatial = vs_chip.MODE.spatial
  PROVE  ReadBack'
<1>1. ASSUME NEW u \in D!Tasks
      PROVE  ReadGood(u)'
  <2>1. CASE u = t
    BY <2>1 DEF ReadGood
  <2>2. CASE u # t
    <3>1. (Setting(u, "BASS")' => Setting(u, "BASS")) /\ (Setting(u, "MODE")' => Setting(u, "MODE"))
      BY <2>2 DEF Setting
    <3>2. ReadGood(u) /\ vs_read'[u] = vs_read[u]
      BY <2>2 DEF ReadBack
    <3>3. /\ <<u, "BASS">> \in vs_stale => <<u, "BASS">> \in vs_stale'
          /\ <<u, "MODE">> \in vs_stale => <<u, "MODE">> \in vs_stale'
      BY <2>2
    <3> QED
      BY <3>1, <3>2, <3>3 DEF ReadGood, BassType, ModeType, Contents
  <2> QED
    BY <2>1, <2>2
<1> QED
  BY <1>1 DEF ReadBack

(* What a task has read is not touched.                                     *)
LEMMA ReadStays ==
  ASSUME ReadBack, UNCHANGED <<vs_job, vs_read, vs_stale>>,
         vs_chip'.BASS = vs_chip.BASS, vs_chip'.MODE.spatial = vs_chip.MODE.spatial
  PROVE  ReadBack'
<1>1. ASSUME NEW u \in D!Tasks
      PROVE  ReadGood(u)'
  <2>1. ReadGood(u)
    BY DEF ReadBack
  <2> QED
    BY <2>1 DEF ReadGood, Setting, BassType, ModeType, Contents
<1> QED
  BY <1>1 DEF ReadBack

(* The job of clientTask goes on, and the volume is not touched.            *)
LEMMA VolumeStays ==
  ASSUME Volumes, UNCHANGED vs_volume, vs_chip'.VOL = vs_chip.VOL, vs_want'.VOL = vs_want.VOL,
         <<"clientTask", "VOL">> \in vs_stale => <<"clientTask", "VOL">> \in vs_stale',
         \A u \in D!Tasks : u # "clientTask" /\ <<u, "VOL">> \in vs_stale' => <<u, "VOL">> \in vs_stale,
         LET old == vs_job["clientTask"]  new == vs_job'["clientTask"]
         IN  \/ new = old
             \/ /\ old # <<>> /\ ~(Head(old).do = "get" /\ Head(old).reg = "VOL")
                /\ new # <<>> /\ ~(Head(new).do = "get" /\ Head(new).reg = "VOL")
                /\ Head(new).field # "mute"
  PROVE  Volumes'
BY DEF Volumes

(* Work without a reset or a restore ends as it should.                     *)
LEMMA WorkEnds ==
  ASSUME NEW t, t # "clientTask", NEW X, \A p \in X : p.do # "low", NEW work \in Seq(X)
  PROVE  Ends(t, work)
<1> SUFFICES ASSUME work # <<>> PROVE work[Len(work)] \in X
  BY DEF Ends
<1>1. Len(work) \in Nat \ {0}
  BY Taken
<1> QED
  BY <1>1, ElementOfSeq

(* A task takes up its work.                                                *)
LEMMA BeginKeeps ==
  ASSUME DecoderInv, NEW t \in D!Tasks, NEW work \in Seq(PartsOf(t)), work # <<>>, Chain(work),
         D!Begin(t, work),
         \/ Head(work).do \in {"get", "chunk"}
         \/ Head(work).do = "set" /\ Head(work).reg = "VOL",
         t = "clientTask" => Head(work).do = "get" /\ Head(work).reg = "VOL",
         Ends(t, work)
  PROVE  DecoderInv'
<1>1. /\ Jobs /\ BusHeld /\ FifoBound /\ RegisterTypes /\ ReadBack /\ Volumes /\ Kept
      /\ vs_started /\ vs_job[t] = <<>> /\ vs_job' = [vs_job EXCEPT ![t] = work]
      /\ UNCHANGED <<vs_sSPI, vs_cs, vs_xdcs, vs_phase, vs_read, vs_volume, vs_chip, vs_want, vs_stale,
                     vs_fifo, vs_playing, vs_music, vs_started>>
  BY DEF DecoderInv, D!Begin, D!bus, D!registers, D!sound
<1>2. /\ Jobs' /\ vs_job'[t] = work
      /\ \A u \in D!Tasks : u # t => vs_job'[u] = vs_job[u]
  BY <1>1, JobMoves
<1>3. ~D!Doing(t, D!Transfers)
  BY <1>1 DEF D!Doing
<1>4. Resetting' <=> Resetting
  BY <1>1, <1>2, DecoderConstants DEF Resetting
<1>5. BusHeld' /\ \A u \in D!Tasks : Coming(u)' = Coming(u)
  BY <1>1, <1>2, <1>3, <1>4, BusStays
<1>6. FifoBound'
  BY <1>1, <1>5, DecoderConstants DEF FifoBound
<1>7. RegisterTypes' /\ Kept'
  BY <1>1 DEF RegisterTypes, Kept
<1>8. ReadBack'
  <2>1. ~Setting(t, "BASS")' /\ ~Setting(t, "MODE")'
    BY <1>2 DEF Setting
  <2> QED
    BY <1>1, <1>2, <2>1, OthersRead
<1>9. Volumes'
  <2>1. CASE t = "clientTask"
    BY <1>1, <1>2, <2>1 DEF Volumes
  <2>2. CASE t # "clientTask"
    BY <1>1, <1>2, <2>2, VolumeStays, DecoderConstants
  <2> QED
    BY <2>1, <2>2
<1> QED
  BY <1>2, <1>5, <1>6, <1>7, <1>8, <1>9 DEF DecoderInv

(* vsTask takes up a chunk.                                                 *)
LEMMA VsTaskKeeps ==
  ASSUME DecoderInv, D!vsTask
  PROVE  DecoderInv'
<1> DEFINE work == <<D!Chunk>>
<1>1. D!Begin("vsTask", work) /\ vs_started
  BY DEF D!vsTask, D!Begin
<1>2. PartsOf("vsTask") = MusicParts
  BY <1>1 DEF PartsOf
<1>3. work \in Seq(MusicParts) /\ work # <<>> /\ Chain(work) /\ Head(work).do = "chunk"
  BY MusicWork
<1> HIDE DEF work
<1>4. Ends("vsTask", work)
  <2>1. \A p \in MusicParts : p.do # "low"
    BY DEF MusicParts
  <2> QED
    BY <1>3, <2>1, WorkEnds
<1> QED
  BY <1>1, <1>2, <1>3, <1>4, BeginKeeps, DecoderConstants

(* clientTask starts or stops playing.                                      *)
LEMMA ClientTaskKeeps ==
  ASSUME DecoderInv, D!clientTask
  PROVE  DecoderInv'
<1> DEFINE work == IF vs_playing THEN D!StopPlaying ELSE D!StartPlaying
<1>1. D!Begin("clientTask", work)
  BY DEF D!clientTask
<1>2. PartsOf("clientTask") = ClientParts
  BY DEF PartsOf
<1>3. /\ work \in Seq(ClientParts) /\ work # <<>> /\ Chain(work)
      /\ Head(work).do = "get" /\ Head(work).reg = "VOL" /\ work[Len(work)].do = "restore"
  BY StartPlayingWork, StopPlayingWork
<1> HIDE DEF work
<1>4. Ends("clientTask", work)
  BY <1>3 DEF Ends
<1> QED
  BY <1>1, <1>2, <1>3, <1>4, BeginKeeps, DecoderConstants

(* A user's task sets something.                                            *)
LEMMA UserKeeps ==
  ASSUME DecoderInv, NEW u \in Users, D!User(u)
  PROVE  DecoderInv'
<1>1. u \in D!Tasks /\ PartsOf(u) = UserParts /\ u # "clientTask"
  BY DecoderConstants DEF PartsOf
<1>2. PICK work : /\ D!Begin(u, work)
                  /\ \/ \E v \in Values : work = D!SetVolume(v)
                     \/ \E v \in Values, field \in Fields : work = D!SetField(field, v)
  BY DEF D!User
<1>3. /\ work \in Seq(UserParts) /\ work # <<>> /\ Chain(work)
      /\ Head(work).do = "set" => Head(work).reg = "VOL"
      /\ Head(work).do \in {"get", "set"}
  BY <1>2, UserWorks
<1>4. Ends(u, work)
  <2>1. \A p \in UserParts : p.do # "low"
    BY DEF UserParts
  <2> QED
    BY <1>1, <1>3, <2>1, WorkEnds
<1> QED
  BY <1>1, <1>2, <1>3, <1>4, BeginKeeps

(* The decoder before VS1053_Start.                                         *)
LEMMA DecoderBegins ==
  ASSUME D!Init
  PROVE  DecoderInv
<1>1. /\ vs_sSPI = "free" /\ vs_cs = FALSE /\ vs_xdcs = FALSE /\ vs_started = FALSE
      /\ vs_phase = [t \in D!Tasks |-> "out"] /\ vs_read = [t \in D!Tasks |-> D!Fresh.VOL]
      /\ vs_volume = D!Fresh.VOL /\ vs_chip = D!Fresh /\ vs_want = D!Fresh /\ vs_stale = {}
      /\ vs_fifo = 0 /\ vs_playing = FALSE /\ vs_music = FALSE
  BY DEF D!Init
<1>2. /\ vs_job = [t \in D!Tasks |-> vs_job[t]] /\ vs_job["vsTask"] = D!Start(Saved)
      /\ \A t \in D!Tasks : t # "vsTask" => vs_job[t] = <<>>
  <2>1. vs_job = [t \in D!Tasks |-> IF t = "vsTask" THEN D!Start(Saved) ELSE <<>>]
    BY DEF D!Init
  <2> QED
    BY <2>1, DecoderConstants
<1>3. /\ vs_job["vsTask"] \in Seq(BootParts) /\ vs_job["vsTask"] # <<>> /\ Chain(vs_job["vsTask"])
      /\ Head(vs_job["vsTask"]).do = "low" /\ Head(vs_job["vsTask"]).value = 1
      /\ Ends("vsTask", vs_job["vsTask"])
  BY <1>2, StartWork, DecoderConstants
<1>4. Jobs
  <2>1. PartsOf("vsTask") = BootParts
    BY <1>1 DEF PartsOf
  <2>2. ASSUME NEW t \in D!Tasks
        PROVE  vs_job[t] \in Seq(PartsOf(t)) /\ Chain(vs_job[t]) /\ Ends(t, vs_job[t])
    <3>1. CASE t = "vsTask"
      BY <1>3, <2>1, <3>1
    <3>2. CASE t # "vsTask"
      <4>1. vs_job[t] = <<>>
        BY <1>2, <3>2
      <4>2. <<>> \in Seq(PartsOf(t)) /\ Chain(<<>>)
        BY DEF Chain
      <4> QED
        BY <4>1, <4>2 DEF Ends
    <3> QED
      BY <3>1, <3>2
  <2> QED
    BY <1>2, <2>2 DEF Jobs
<1>5. BusHeld
  <2>1. ~Resetting
    BY <1>3 DEF Resetting
  <2> QED
    BY <1>1, <2>1, DecoderConstants DEF BusHeld
<1>6. FifoBound
  BY <1>1, DecoderConstants DEF FifoBound, Coming
<1>7. RegisterTypes /\ Kept
  BY <1>1 DEF RegisterTypes, Kept, D!Fresh, BassType, ModeType, VolType, Contents
<1>8. ReadBack
  <2> SUFFICES ASSUME NEW t \in D!Tasks PROVE ReadGood(t)
    BY DEF ReadBack
  <2>1. vs_job[t] = <<>> \/ Head(vs_job[t]).do = "low"
    BY <1>2, <1>3
  <2> QED
    BY <2>1 DEF ReadGood, Setting
<1>9. Volumes
  <2>1. vs_job["clientTask"] = <<>>
    BY <1>2, DecoderConstants
  <2> QED
    BY <1>1, <2>1 DEF Volumes
<1> QED
  BY <1>4, <1>5, <1>6, <1>7, <1>8, <1>9 DEF DecoderInv

(* VS1053_Start is over.                                                    *)
LEMMA EndStartKeeps ==
  ASSUME DecoderInv, D!EndStart
  PROVE  DecoderInv'
<1>1. /\ Jobs /\ BusHeld /\ FifoBound /\ RegisterTypes /\ ReadBack /\ Volumes /\ Kept
      /\ ~vs_started /\ vs_job["vsTask"] = <<>> /\ vs_started' = TRUE
      /\ UNCHANGED <<vs_sSPI, vs_cs, vs_xdcs, vs_phase, vs_read, vs_volume, vs_chip, vs_want, vs_stale,
                     vs_job, vs_fifo, vs_playing, vs_music>>
  BY DEF DecoderInv, D!EndStart, D!bus, D!registers
<1>2. Jobs'
  <2>1. \A t \in D!Tasks : vs_job'[t] \in Seq(PartsOf(t)') /\ Chain(vs_job'[t]) /\ Ends(t, vs_job'[t])
    <3> SUFFICES ASSUME NEW t \in D!Tasks PROVE vs_job'[t] \in Seq(PartsOf(t)')
      BY <1>1 DEF Jobs
    <3>1. vs_job[t] = <<>>
      BY <1>1 DEF Jobs
    <3> QED
      BY <1>1, <3>1
  <2> QED
    BY <1>1, <2>1 DEF Jobs
<1>3. BusHeld' /\ FifoBound' /\ RegisterTypes' /\ Volumes' /\ Kept'
  <2>1. /\ Resetting' <=> Resetting
        /\ \A t \in D!Tasks : /\ Selecting(t)' <=> Selecting(t)
                              /\ Coming(t)' = Coming(t)
                              /\ D!Doing(t, D!Transfers)' <=> D!Doing(t, D!Transfers)
    BY <1>1 DEF Resetting, Selecting, Coming, D!Doing, D!Transfers
  <2>2. ASSUME NEW t \in D!Tasks
        PROVE  /\ vs_phase'[t] = "selected" <=> vs_sSPI' = t
               /\ vs_phase'[t] = "selected" => D!Doing(t, D!Transfers)'
               /\ vs_phase'[t] = "ready" => Selecting(t)'
               /\ vs_sSPI' = t => (vs_xdcs' <=> Selecting(t)') /\ (vs_cs' <=> ~Selecting(t)')
    BY <1>1, <2>1 DEF BusHeld
  <2>3. BusHeld'
    BY <1>1, <2>1, <2>2 DEF BusHeld
  <2>5. Coming("vsTask")' = Coming("vsTask") /\ Coming("clientTask")' = Coming("clientTask")
    BY <2>1, DecoderConstants
  <2>6. FifoBound'
    BY <1>1, <2>5 DEF FifoBound
  <2>4. RegisterTypes' /\ Volumes' /\ Kept'
    BY <1>1 DEF RegisterTypes, Volumes, Kept
  <2> QED
    BY <2>3, <2>4, <2>6
<1>4. ReadBack'
  BY <1>1, ReadStays
<1> QED
  BY <1>2, <1>3, <1>4 DEF DecoderInv

(* ControlReset: only vsTask does it, and the bus is free.                  *)
LEMMA ControlResetKeeps ==
  ASSUME DecoderInv, NEW t \in D!Tasks, D!ControlReset(t)
  PROVE  DecoderInv'
<1> DEFINE part == Head(vs_job[t])  rest == Tail(vs_job[t])
<1>1. /\ Jobs /\ BusHeld /\ FifoBound /\ RegisterTypes /\ ReadBack /\ Volumes /\ Kept
      /\ vs_job[t] # <<>> /\ part.do = "low"
      /\ vs_cs' = (part.value = 1) /\ vs_xdcs' = vs_cs' /\ vs_chip' = D!Fresh /\ vs_want' = D!Fresh
      /\ vs_fifo' = 0 /\ vs_job' = [vs_job EXCEPT ![t] = rest]
      /\ UNCHANGED <<vs_sSPI, vs_phase, vs_read, vs_volume, vs_stale, vs_playing, vs_music, vs_started>>
  BY DEF DecoderInv, D!ControlReset, D!Doing, D!Rest, Jobs
<1>2. /\ part \in PartsOf(t) /\ rest \in Seq(PartsOf(t)) /\ Chain(rest) /\ Ends(t, rest)
      /\ rest # <<>> => May(part, Head(rest)) /\ Head(rest) \in PartsOf(t)
      /\ rest = <<>> => part.do # "low"
  BY <1>1, FirstPart
<1>3. t = "vsTask" /\ ~vs_started /\ part.value \in {0, 1}
  BY <1>1, <1>2, PartShapes
<1>4. /\ Jobs' /\ vs_job'[t] = rest
      /\ \A u \in D!Tasks : u # t => vs_job'[u] = <<>> /\ vs_job[u] = <<>>
  <2>1. \A u \in D!Tasks : u # t => vs_job[u] = <<>>
    BY <1>1, <1>3 DEF Jobs
  <2> QED
    BY <1>1, <1>2, <1>3, <2>1, JobMoves
<1>5. Resetting' <=> part.value = 1
  <2>1. rest # <<>> /\ May(part, Head(rest))
    BY <1>1, <1>2
  <2> QED
    BY <1>1, <1>3, <1>4, <2>1 DEF Resetting, May
<1>6. \A u \in D!Tasks : vs_phase[u] = "out" /\ vs_sSPI # u
  <2> SUFFICES ASSUME NEW u \in D!Tasks PROVE ~D!Doing(u, D!Transfers)
    BY <1>1, OffBus
  <2> QED
    BY <1>1, <1>4 DEF D!Doing, D!Transfers
<1>7. BusHeld' /\ FifoBound'
  <2>1. BusHeld'
    BY <1>1, <1>3, <1>5, <1>6 DEF BusHeld
  <2>2. FifoBound'
    BY <1>1, <1>6, DecoderConstants DEF FifoBound, Coming
  <2> QED
    BY <2>1, <2>2
<1>8. RegisterTypes' /\ Kept'
  <2>1. D!Fresh \in [BASS : BassType, MODE : ModeType, VOL : VolType]
    BY DEF D!Fresh, BassType, ModeType, VolType, Contents
  <2> QED
    BY <1>1, <2>1 DEF RegisterTypes, Kept
<1>9. ReadBack'
  <2> SUFFICES ASSUME NEW u \in D!Tasks PROVE ReadGood(u)'
    BY DEF ReadBack
  <2>1. ~Setting(u, "BASS")' /\ ~Setting(u, "MODE")'
    <3>1. rest # <<>> => Head(rest).do # "set" \/ Head(rest).reg = "VOL"
      BY <1>1, <1>2 DEF May
    <3> QED
      BY <1>4, <3>1 DEF Setting
  <2> QED
    BY <2>1 DEF ReadGood
<1>10. Volumes'
  <2>1. vs_job'["clientTask"] = <<>>
    BY <1>3, <1>4, DecoderConstants
  <2> QED
    BY <1>1, <2>1 DEF Volumes
<1> QED
  BY <1>4, <1>7, <1>8, <1>9, <1>10 DEF DecoderInv

(* clientTask goes on with its job without the bus.                         *)
LEMMA ClientGoesOn ==
  ASSUME DecoderInv, vs_job["clientTask"] # <<>>, ~D!Doing("clientTask", D!Transfers),
         NEW parts \in Seq(ClientParts), parts # <<>>, Chain(parts), Ends("clientTask", parts),
         Head(parts).do = "set" => Head(parts).reg = "VOL", Head(parts).field # "mute",
         Head(parts).do = "get" => Head(parts).reg # "VOL",
         vs_job' = [vs_job EXCEPT !["clientTask"] = parts],
         UNCHANGED <<vs_sSPI, vs_cs, vs_xdcs, vs_phase, vs_volume, vs_chip, vs_want, vs_stale, vs_fifo,
                     vs_started>>,
         vs_playing' \in BOOLEAN, vs_music' \in BOOLEAN,
         vs_read' = [t \in D!Tasks |-> vs_read'[t]],
         \A t \in D!Tasks : t # "clientTask" => vs_read'[t] = vs_read[t]
  PROVE  DecoderInv'
<1>1. Jobs /\ BusHeld /\ FifoBound /\ RegisterTypes /\ ReadBack /\ Volumes /\ Kept
  BY DEF DecoderInv
<1>2. "clientTask" \in D!Tasks /\ "clientTask" # "vsTask" /\ "vsTask" \in D!Tasks
  BY DecoderConstants
<1>3. /\ Jobs' /\ vs_job'["clientTask"] = parts
      /\ \A u \in D!Tasks : u # "clientTask" => vs_job'[u] = vs_job[u]
  <2>1. vs_started /\ PartsOf("clientTask") = ClientParts
    BY <1>1, <1>2, FirstPart DEF PartsOf
  <2> QED
    BY <1>1, <1>2, <2>1, JobMoves
<1>4. Resetting' <=> Resetting
  BY <1>2, <1>3 DEF Resetting
<1>5. BusHeld' /\ \A u \in D!Tasks : Coming(u)' = Coming(u)
  BY <1>1, <1>2, <1>3, <1>4, BusStays
<1>6. FifoBound'
  <2>1. Coming("vsTask")' = Coming("vsTask") /\ Coming("clientTask")' = Coming("clientTask")
    BY <1>2, <1>5
  <2> QED
    BY <1>1, <2>1 DEF FifoBound
<1>7. RegisterTypes' /\ Kept'
  BY <1>1 DEF RegisterTypes, Kept
<1>8. ReadBack'
  <2>1. ~Setting("clientTask", "BASS")' /\ ~Setting("clientTask", "MODE")'
    BY <1>3 DEF Setting
  <2> QED
    BY <1>1, <1>2, <1>3, <2>1, OthersRead
<1>9. Volumes'
  BY <1>1, <1>2, <1>3, VolumeStays DEF D!Doing, D!Transfers
<1> QED
  BY <1>3, <1>5, <1>6, <1>7, <1>8, <1>9 DEF DecoderInv

(* What is left of clientTask's job after a part that only reads or sends.  *)
LEMMA ClientRest ==
  ASSUME Jobs, vs_job["clientTask"] # <<>>,
         Head(vs_job["clientTask"]).do \notin {"get", "restore"}
  PROVE  LET rest == Tail(vs_job["clientTask"])
         IN  /\ rest \in Seq(ClientParts) /\ rest # <<>> /\ Chain(rest) /\ Ends("clientTask", rest)
             /\ Head(vs_job["clientTask"]) \in ClientParts /\ Head(rest) \in ClientParts
             /\ May(Head(vs_job["clientTask"]), Head(rest))
             /\ Head(rest).do = "set" => Head(rest).reg = "VOL"
             /\ Head(rest).field # "mute"
             /\ Head(rest).do = "get" => Head(rest).reg # "VOL"
<1>1. "clientTask" \in D!Tasks /\ PartsOf("clientTask") = ClientParts
  BY DecoderConstants DEF PartsOf
<1> QED
  BY <1>1, FirstPart DEF May

(* A part that does not use the bus.                                        *)
LEMMA LocalKeeps ==
  ASSUME DecoderInv, NEW t \in D!Tasks, D!Local(t)
  PROVE  DecoderInv'
<1> DEFINE part == Head(vs_job[t])  rest == Tail(vs_job[t])
<1>1. /\ Jobs /\ RegisterTypes
      /\ vs_job[t] # <<>> /\ part.do \in {"reset", "playing"} /\ vs_job' = [vs_job EXCEPT ![t] = rest]
      /\ UNCHANGED <<vs_sSPI, vs_cs, vs_xdcs, vs_phase, vs_read, vs_volume, vs_chip, vs_want, vs_stale,
                     vs_fifo, vs_started>>
  BY DEF DecoderInv, D!Local, D!Doing, D!Rest, D!bus, D!registers, Jobs
<1>2. vs_playing' \in BOOLEAN /\ vs_music' \in BOOLEAN
  <2>1. vs_playing \in BOOLEAN
    BY <1>1 DEF RegisterTypes
  <2>2. CASE D!Doing(t, {"reset"})
    <3>1. vs_music' = FALSE /\ vs_playing' = vs_playing
      BY <2>2 DEF D!Local
    <3> QED
      BY <2>1, <3>1
  <2>3. CASE ~D!Doing(t, {"reset"})
    <3>1. vs_playing' = (part.value = 1) /\ vs_music' = vs_playing'
      BY <2>3 DEF D!Local
    <3> QED
      BY <3>1
  <2> QED
    BY <2>2, <2>3
<1>3. t = "clientTask"
  <2>1. part \in PartsOf(t)
    BY <1>1, FirstPart
  <2> QED
    BY <1>1, <2>1, PartShapes
<1>4. ~D!Doing("clientTask", D!Transfers)
  BY <1>1, <1>3 DEF D!Doing, D!Transfers
<1>5. vs_read' = [u \in D!Tasks |-> vs_read'[u]]
  BY <1>1 DEF RegisterTypes
<1> QED
  BY <1>1, <1>2, <1>3, <1>4, <1>5, ClientRest, ClientGoesOn

(* flush_cancel is about to read whether the decoder has cancelled.         *)
LEMMA CancelledKeeps ==
  ASSUME DecoderInv, NEW t \in D!Tasks, D!Cancelled(t)
  PROVE  DecoderInv'
<1> DEFINE part == Head(vs_job[t])  rest == Tail(vs_job[t])
           get == [do |-> "get", reg |-> "MODE", field |-> "none", value |-> 0]
           again == [part EXCEPT !.do = "again"]
           first == <<get, again>>
           parts == first \o rest
<1>1. /\ Jobs /\ RegisterTypes
      /\ vs_job[t] # <<>> /\ part.do = "cancelled" /\ vs_job' = [vs_job EXCEPT ![t] = parts]
      /\ UNCHANGED <<vs_sSPI, vs_cs, vs_xdcs, vs_phase, vs_read, vs_volume, vs_chip, vs_want, vs_stale,
                     vs_fifo, vs_playing, vs_music, vs_started>>
  BY DEF DecoderInv, D!Cancelled, D!Doing, D!Get, D!Part, D!bus, D!registers, D!sound, Jobs
<1>2. t = "clientTask"
  <2>1. part \in PartsOf(t)
    BY <1>1, FirstPart
  <2> QED
    BY <1>1, <2>1, PartShapes
<1>3. ~D!Doing("clientTask", D!Transfers)
  BY <1>1, <1>2 DEF D!Doing, D!Transfers
<1>4. /\ rest \in Seq(ClientParts) /\ rest # <<>> /\ Chain(rest) /\ Ends("clientTask", rest)
      /\ part \in ClientParts /\ Head(rest) \in ClientParts /\ May(part, Head(rest))
  BY <1>1, <1>2, ClientRest
<1>5. /\ get \in ClientParts /\ again \in ClientParts /\ again.do = "again" /\ get.do = "get"
      /\ get.reg = "MODE" /\ get.field = "none"
  BY <1>1, <1>4 DEF ClientParts
<1>6. May(get, again) /\ May(again, Head(rest))
  <2>1. again.reg = part.reg /\ again.field = part.field /\ again.value = part.value
    BY <1>4 DEF ClientParts
  <2>2. part.field = "none"
    BY <1>1, <1>4 DEF ClientParts
  <2> QED
    BY <1>1, <1>4, <1>5, <2>1, <2>2 DEF May
<1> HIDE DEF get, again
<1>7. /\ first \in Seq(ClientParts) /\ first # <<>> /\ Chain(first) /\ first[1] = get
      /\ first[Len(first)] = again
  BY <1>5, <1>6, TwoParts
<1> HIDE DEF first
<1>8. /\ parts \in Seq(ClientParts) /\ parts # <<>> /\ Chain(parts) /\ parts[1] = get
      /\ parts[Len(parts)] = rest[Len(rest)] /\ rest[1] = Head(rest)
  <2>1. rest[1] = Head(rest)
    BY <1>4, Taken
  <2> HIDE DEF rest
  <2> QED
    BY <1>4, <1>6, <1>7, <2>1, Joined
<1>9. Ends("clientTask", parts)
  BY <1>4, <1>8 DEF Ends
<1>10. vs_read' = [u \in D!Tasks |-> vs_read'[u]] /\ vs_playing' \in BOOLEAN /\ vs_music' \in BOOLEAN
  BY <1>1 DEF RegisterTypes
<1> HIDE DEF parts
<1>11. Head(parts) = get
  BY <1>8, Taken
<1> QED
  BY <1>1, <1>2, <1>3, <1>5, <1>8, <1>9, <1>10, <1>11, ClientGoesOn

(* flush_cancel has read it: done, or once more.                            *)
LEMMA AgainKeeps ==
  ASSUME DecoderInv, NEW t \in D!Tasks, D!Again(t)
  PROVE  DecoderInv'
<1> DEFINE part == Head(vs_job[t])  rest == Tail(vs_job[t])
           later == D!Other("cancelled", part.value - 1)
           front == CASE vs_read[t].cancel = 0 -> <<>>
                      [] vs_read[t].cancel = 1 /\ part.value = 0 -> <<D!Chunk>>
                      [] OTHER -> <<D!Chunk, later>>
           parts == front \o rest
<1>1. /\ Jobs /\ RegisterTypes
      /\ vs_job[t] # <<>> /\ part.do = "again" /\ vs_read' = [vs_read EXCEPT ![t] = D!Fresh.VOL]
      /\ UNCHANGED <<vs_sSPI, vs_cs, vs_xdcs, vs_phase, vs_volume, vs_chip, vs_want, vs_stale,
                     vs_fifo, vs_playing, vs_music, vs_started>>
  BY DEF DecoderInv, D!Again, D!Doing, D!bus, D!sound
<1>2. vs_job' = [vs_job EXCEPT ![t] = parts]
  BY DEF D!Again
<1>3. front \in {<<>>, <<D!Chunk>>, <<D!Chunk, later>>}
  BY Zenon
<1>4. t = "clientTask"
  <2>1. part \in PartsOf(t)
    BY <1>1, FirstPart
  <2> QED
    BY <1>1, <2>1, PartShapes
<1>5. ~D!Doing("clientTask", D!Transfers)
  BY <1>1, <1>4 DEF D!Doing, D!Transfers
<1>6. /\ rest \in Seq(ClientParts) /\ rest # <<>> /\ Chain(rest) /\ Ends("clientTask", rest)
      /\ part \in ClientParts /\ Head(rest) \in ClientParts /\ May(part, Head(rest))
      /\ Head(rest).do = "set" => Head(rest).reg = "VOL"
      /\ Head(rest).field # "mute"
      /\ Head(rest).do = "get" => Head(rest).reg # "VOL"
  BY <1>1, <1>4, ClientRest
<1>7. /\ D!Chunk \in ClientParts /\ D!Chunk.do = "chunk" /\ D!Chunk.field = "none"
      /\ later \in ClientParts /\ May(D!Chunk, later)
      /\ May(D!Chunk, Head(rest)) /\ May(later, Head(rest))
  <2>1. D!Chunk \in ClientParts /\ D!Chunk.do = "chunk" /\ D!Chunk.field = "none"
    BY DEF D!Chunk, D!Other, D!Part, ClientParts
  <2>2. part.value \in Int
    BY <1>1, <1>6 DEF ClientParts
  <2>3. later \in ClientParts /\ later.do = "cancelled" /\ later.field = "none"
    BY <2>2 DEF D!Other, D!Part, ClientParts
  <2>4. /\ Head(rest).do # "set" \/ Head(rest).reg = "VOL"
        /\ Head(rest).field # "mute" /\ (Head(rest).do # "get" \/ Head(rest).reg # "VOL")
        /\ Head(rest).do # "low"
    BY <1>1, <1>6 DEF ClientParts
  <2> HIDE DEF later
  <2> QED
    BY <2>1, <2>3, <2>4 DEF May
<1> HIDE DEF later
<1>8. /\ parts \in Seq(ClientParts) /\ parts # <<>> /\ Chain(parts) /\ Ends("clientTask", parts)
      /\ Head(parts) = D!Chunk \/ Head(parts) = Head(rest)
  <2>1. CASE front = <<>>
    <3> HIDE DEF front, rest
    <3>1. parts = rest
      BY <1>6, <2>1, ConcatEmptySeq
    <3> QED
      BY <1>6, <3>1
  <2>2. CASE front \in {<<D!Chunk>>, <<D!Chunk, later>>}
    <3>1. rest[1] = Head(rest)
      BY <1>6, Taken
    <3>2. /\ front \in Seq(ClientParts) /\ front # <<>> /\ Chain(front) /\ front[1] = D!Chunk
          /\ May(front[Len(front)], Head(rest))
      <4> HIDE DEF front, rest
      <4>1. CASE front = <<D!Chunk>>
        BY <1>7, <4>1, OnePart
      <4>2. CASE front = <<D!Chunk, later>>
        BY <1>7, <4>2, TwoParts
      <4> QED
        BY <2>2, <4>1, <4>2
    <3> HIDE DEF front, rest
    <3>3. /\ parts \in Seq(ClientParts) /\ parts # <<>> /\ Chain(parts) /\ parts[1] = D!Chunk
          /\ parts[Len(parts)] = rest[Len(rest)]
      BY <1>6, <3>1, <3>2, Joined
    <3> HIDE DEF parts
    <3>4. Head(parts) = D!Chunk
      BY <3>3, Taken
    <3> QED
      BY <1>6, <3>3, <3>4 DEF Ends
  <2> QED
    BY <1>3, <2>1, <2>2
<1>9. /\ vs_read' = [u \in D!Tasks |-> vs_read'[u]] /\ vs_playing' \in BOOLEAN /\ vs_music' \in BOOLEAN
      /\ \A u \in D!Tasks : u # t => vs_read'[u] = vs_read[u]
  BY <1>1 DEF RegisterTypes
<1> HIDE DEF parts
<1>10. /\ Head(parts).do = "set" => Head(parts).reg = "VOL"
       /\ Head(parts).field # "mute"
       /\ Head(parts).do = "get" => Head(parts).reg # "VOL"
  BY <1>6, <1>7, <1>8
<1> QED
  BY <1>1, <1>2, <1>4, <1>5, <1>8, <1>9, <1>10, ClientGoesOn

(* A chunk is asked for while there is room: at most one more is coming.    *)
LEMMA CheckDREQKeeps ==
  ASSUME DecoderInv, NEW t \in D!Tasks, D!checkDREQ(t)
  PROVE  DecoderInv'
<1>1. /\ Jobs /\ BusHeld /\ FifoBound /\ RegisterTypes /\ ReadBack /\ Volumes /\ Kept
      /\ vs_job[t] # <<>> /\ Head(vs_job[t]).do = "chunk" /\ vs_phase[t] = "out" /\ vs_fifo < Room
      /\ vs_phase' = [vs_phase EXCEPT ![t] = "ready"]
      /\ UNCHANGED <<vs_sSPI, vs_cs, vs_xdcs, vs_read, vs_volume, vs_chip, vs_want, vs_stale,
                     vs_job, vs_fifo, vs_playing, vs_music, vs_started>>
  BY DEF DecoderInv, D!checkDREQ, D!Doing, D!registers, D!sound
<1>2. Jobs'
  BY <1>1 DEF Jobs, PartsOf
<1>3. BusHeld'
  <2>1. Selecting(t)
    BY <1>1 DEF Selecting
  <2>2. ASSUME NEW u \in D!Tasks
        PROVE  /\ vs_phase'[u] = "selected" <=> vs_sSPI' = u
               /\ vs_phase'[u] = "selected" => D!Doing(u, D!Transfers)'
               /\ vs_phase'[u] = "ready" => Selecting(u)'
               /\ vs_sSPI' = u => (vs_xdcs' <=> Selecting(u)') /\ (vs_cs' <=> ~Selecting(u)')
    <3>1. /\ Selecting(u)' <=> Selecting(u)
          /\ D!Doing(u, D!Transfers)' <=> D!Doing(u, D!Transfers)
      BY <1>1 DEF Selecting, D!Doing, D!Transfers
    <3> QED
      BY <1>1, <2>1, <3>1 DEF BusHeld
  <2>3. Resetting' <=> Resetting
    BY <1>1 DEF Resetting
  <2>4. vs_phase' \in [D!Tasks -> {"out", "ready", "selected"}]
    BY <1>1 DEF BusHeld
  <2> QED
    BY <1>1, <2>2, <2>3, <2>4 DEF BusHeld
<1>4. FifoBound'
  BY <1>1, DecoderConstants DEF FifoBound, Coming
<1>5. RegisterTypes' /\ Volumes' /\ Kept'
  BY <1>1 DEF RegisterTypes, Volumes, Kept
<1>6. ReadBack'
  BY <1>1, ReadStays
<1> QED
  BY <1>2, <1>3, <1>4, <1>5, <1>6 DEF DecoderInv

(* A task takes the bus.                                                    *)
LEMMA TakeKeeps ==
  ASSUME DecoderInv, NEW t \in D!Tasks, D!Take(t)
  PROVE  DecoderInv'
<1>1. /\ Jobs /\ BusHeld /\ FifoBound /\ RegisterTypes /\ ReadBack /\ Volumes /\ Kept
      /\ D!Doing(t, D!Transfers) /\ vs_phase[t] = (IF Selecting(t) THEN "ready" ELSE "out")
      /\ vs_phase' = [vs_phase EXCEPT ![t] = "selected"] /\ vs_sSPI = "free" /\ vs_sSPI' = t
      /\ UNCHANGED <<vs_read, vs_volume, vs_chip, vs_want, vs_stale,
                     vs_job, vs_fifo, vs_playing, vs_music, vs_started>>
  BY DEF DecoderInv, D!Take, D!ChipSelect, D!Doing, Selecting, D!registers, D!sound
<1>2. Jobs'
  BY <1>1 DEF Jobs, PartsOf
<1>3. ~Resetting
  <2>1. ASSUME Resetting PROVE FALSE
    <3>1. vs_job[t] # <<>>
      BY <1>1 DEF D!Doing
    <3>2. t = "vsTask" /\ Head(vs_job["vsTask"]).do = "low"
      BY <1>1, <2>1, <3>1, ResetAlone DEF Resetting
    <3> QED
      BY <1>1, <3>2 DEF D!Doing, D!Transfers
  <2> QED
    BY <2>1
<1>4. (vs_xdcs' <=> Selecting(t)) /\ (vs_cs' <=> ~Selecting(t)) /\ vs_cs' \in BOOLEAN /\ vs_xdcs' \in BOOLEAN
  <2>1. vs_xdcs' = D!Doing(t, {"chunk"}) /\ vs_cs' = (vs_cs \/ ~D!Doing(t, {"chunk"}))
    BY DEF D!Take, D!ChipSelect
  <2>3. vs_cs = FALSE
    BY <1>1, <1>3 DEF BusHeld
  <2> QED
    BY <2>1, <2>3 DEF D!Doing, Selecting
<1>5. BusHeld'
  <2>1. ASSUME NEW u \in D!Tasks
        PROVE  /\ vs_phase'[u] = "selected" <=> vs_sSPI' = u
               /\ vs_phase'[u] = "selected" => D!Doing(u, D!Transfers)'
               /\ vs_phase'[u] = "ready" => Selecting(u)'
               /\ vs_sSPI' = u => (vs_xdcs' <=> Selecting(u)') /\ (vs_cs' <=> ~Selecting(u)')
    <3>1. /\ Selecting(u)' <=> Selecting(u)
          /\ D!Doing(u, D!Transfers)' <=> D!Doing(u, D!Transfers)
      BY <1>1 DEF Selecting, D!Doing, D!Transfers
    <3>2. vs_phase[u] # "selected"
      BY <1>1, DecoderConstants DEF BusHeld
    <3>3. vs_phase'[u] = IF u = t THEN "selected" ELSE vs_phase[u]
      BY <1>1 DEF BusHeld
    <3>4. CASE u = t
      BY <1>1, <1>4, <3>1, <3>3, <3>4
    <3>5. CASE u # t
      BY <1>1, <3>1, <3>2, <3>3, <3>5 DEF BusHeld
    <3> QED
      BY <3>4, <3>5
  <2>2. vs_phase' \in [D!Tasks -> {"out", "ready", "selected"}]
    BY <1>1 DEF BusHeld
  <2> QED
    BY <1>1, <1>4, <2>1, <2>2, DecoderConstants DEF BusHeld
<1>6. FifoBound'
  <2>1. \A u \in D!Tasks : Coming(u)' = Coming(u)
    <3> SUFFICES ASSUME NEW u \in D!Tasks PROVE Coming(u)' = Coming(u)
      OBVIOUS
    <3>1. /\ Selecting(u)' <=> Selecting(u)
          /\ vs_phase'[u] = IF u = t THEN "selected" ELSE vs_phase[u]
      BY <1>1 DEF Selecting, BusHeld
    <3> QED
      BY <1>1, <3>1 DEF Coming
  <2>2. Coming("vsTask")' = Coming("vsTask") /\ Coming("clientTask")' = Coming("clientTask")
    BY <2>1, DecoderConstants
  <2> QED
    BY <1>1, <2>2 DEF FifoBound
<1>7. RegisterTypes' /\ Volumes' /\ Kept'
  BY <1>1 DEF RegisterTypes, Volumes, Kept
<1>8. ReadBack'
  BY <1>1, ReadStays
<1> QED
  BY <1>2, <1>5, <1>6, <1>7, <1>8 DEF DecoderInv

(* What the decoder has after a transfer.                                   *)
LEMMA FifoAfter ==
  ASSUME BusHeld, FifoBound, NEW t \in D!Tasks, vs_job[t] # <<>>, Head(vs_job[t]) \in PartsOf(t),
         vs_phase[t] = "selected", vs_phase' = [vs_phase EXCEPT ![t] = "out"],
         \A u \in D!Tasks : u # t => vs_job'[u] = vs_job[u],
         vs_fifo' = IF Selecting(t) THEN vs_fifo + 1 ELSE vs_fifo
  PROVE  FifoBound'
<1>1. vs_phase'[t] = "out" /\ \A u \in D!Tasks : u # t => vs_phase'[u] = vs_phase[u]
  BY DEF BusHeld
<1>2. Coming(t)' = 0 /\ Coming(t) = IF Selecting(t) THEN 1 ELSE 0
  BY <1>1 DEF Coming
<1>3. ASSUME NEW u \in D!Tasks, u # t
      PROVE  Coming(u)' = Coming(u)
  BY <1>1, <1>3 DEF Coming, Selecting
<1>4. \A u \in D!Tasks : Coming(u) \in {0, 1}
  BY DEF Coming
<1>5. Selecting(t) => t \in {"vsTask", "clientTask"}
  BY PartShapes DEF Selecting
<1>6. CASE t = "vsTask"
  <2>1. Coming("clientTask")' = Coming("clientTask")
    BY <1>3, <1>6, DecoderConstants
  <2> QED
    BY <1>2, <1>4, <1>6, <2>1, DecoderConstants DEF FifoBound
<1>7. CASE t = "clientTask"
  <2>1. Coming("vsTask")' = Coming("vsTask")
    BY <1>3, <1>7, DecoderConstants
  <2> QED
    BY <1>2, <1>4, <1>7, <2>1, DecoderConstants DEF FifoBound
<1>8. CASE t \notin {"vsTask", "clientTask"}
  <2>1. Coming("vsTask")' = Coming("vsTask") /\ Coming("clientTask")' = Coming("clientTask")
    BY <1>3, <1>8, DecoderConstants
  <2> QED
    BY <1>5, <1>8, <2>1 DEF FifoBound
<1> QED
  BY <1>6, <1>7, <1>8

(* A chunk is sent.                                                         *)
LEMMA SendMusicBytesKeeps ==
  ASSUME DecoderInv, NEW t \in D!Tasks, D!SendMusicBytes(t)
  PROVE  DecoderInv'
<1> DEFINE part == Head(vs_job[t])  rest == Tail(vs_job[t])
<1>1. /\ Jobs /\ BusHeld /\ FifoBound /\ RegisterTypes /\ ReadBack /\ Volumes /\ Kept
      /\ D!Finish(t, {"chunk"}) /\ vs_fifo' = vs_fifo + 1
      /\ UNCHANGED <<vs_read, vs_volume, vs_chip, vs_want, vs_stale, vs_playing, vs_music, vs_started>>
  BY DEF DecoderInv, D!SendMusicBytes, D!registers
<1>2. /\ part \in PartsOf(t) /\ part.do = "chunk" /\ vs_job[t] # <<>>
      /\ vs_phase[t] = "selected" /\ vs_phase' = [vs_phase EXCEPT ![t] = "out"]
      /\ Jobs' /\ BusHeld' /\ vs_job'[t] = rest
      /\ \A u \in D!Tasks : u # t => vs_job'[u] = vs_job[u]
      /\ rest # <<>> => May(part, Head(rest)) /\ Head(rest) \in PartsOf(t)
      /\ t = "clientTask" /\ rest = <<>> => part.do = "restore"
  BY <1>1, Released
<1>3. FifoBound'
  BY <1>1, <1>2, FifoAfter DEF Selecting
<1>4. RegisterTypes' /\ Kept'
  BY <1>1 DEF RegisterTypes, Kept
<1>5. ReadBack'
  <2>1. ~Setting(t, "BASS")' /\ ~Setting(t, "MODE")'
    BY <1>2 DEF Setting, May
  <2> QED
    BY <1>1, <1>2, <2>1, OthersRead
<1>6. Volumes'
  <2>1. CASE t = "clientTask"
    BY <1>1, <1>2, <2>1, VolumeStays DEF May
  <2>2. CASE t # "clientTask"
    BY <1>1, <1>2, <2>2, VolumeStays, DecoderConstants
  <2> QED
    BY <2>1, <2>2
<1> QED
  BY <1>2, <1>3, <1>4, <1>5, <1>6 DEF DecoderInv

(* A register is read: VOL by clientTask, the others to be written back.    *)
LEMMA ReadRegisterKeeps ==
  ASSUME DecoderInv, NEW t \in D!Tasks, D!ReadRegister(t)
  PROVE  DecoderInv'
<1> DEFINE part == Head(vs_job[t])  rest == Tail(vs_job[t])
<1>1. /\ Jobs /\ BusHeld /\ FifoBound /\ RegisterTypes /\ ReadBack /\ Volumes /\ Kept
      /\ D!Finish(t, {"get"}) /\ vs_stale' = vs_stale \ {<<t, part.reg>>}
      /\ UNCHANGED <<vs_chip, vs_want, vs_fifo, vs_playing, vs_music, vs_started>>
  BY DEF DecoderInv, D!ReadRegister, D!sound
<1>2. /\ part.reg = "VOL" => vs_volume' = vs_chip.VOL /\ vs_read' = vs_read
      /\ part.reg # "VOL" => /\ vs_read' = [vs_read EXCEPT ![t] = vs_chip[part.reg]]
                             /\ vs_volume' = vs_volume
  BY DEF D!ReadRegister
<1>3. /\ part \in PartsOf(t) /\ part.do = "get" /\ vs_job[t] # <<>>
      /\ vs_phase[t] = "selected" /\ vs_phase' = [vs_phase EXCEPT ![t] = "out"]
      /\ Jobs' /\ BusHeld' /\ vs_job'[t] = rest
      /\ \A u \in D!Tasks : u # t => vs_job'[u] = vs_job[u]
      /\ rest # <<>> => May(part, Head(rest)) /\ Head(rest) \in PartsOf(t)
      /\ t = "clientTask" /\ rest = <<>> => part.do = "restore"
  BY <1>1, Released
<1>4. FifoBound'
  BY <1>1, <1>3, FifoAfter DEF Selecting
<1>5. part.reg \in Registers /\ (part.reg = "VOL" => t = "clientTask")
  BY <1>3, PartShapes
<1>6. RegisterTypes' /\ Kept'
  <2>1. vs_volume' \in VolType /\ vs_read' = [u \in D!Tasks |-> vs_read'[u]]
    BY <1>1, <1>2 DEF RegisterTypes
  <2> QED
    BY <1>1, <2>1 DEF RegisterTypes, Kept
<1>7. ReadBack'
  <2>1. \A u \in D!Tasks : u # t => /\ vs_read'[u] = vs_read[u]
                                   /\ \A reg : <<u, reg>> \in vs_stale => <<u, reg>> \in vs_stale'
    BY <1>1, <1>2 DEF RegisterTypes
  <2>2. ReadGood(t)'
    <3>1. Setting(t, "BASS")' => part.reg = "BASS"
      BY <1>3 DEF Setting, May
    <3>2. Setting(t, "MODE")' => part.reg = "MODE"
      BY <1>3 DEF Setting, May
    <3>3. part.reg \in {"BASS", "MODE"} => vs_read'[t] = vs_chip[part.reg]
      BY <1>1, <1>2 DEF RegisterTypes
    <3>4. vs_chip.BASS \in BassType /\ vs_chip.MODE \in ModeType
      BY <1>1 DEF RegisterTypes
    <3> QED
      BY <1>1, <3>1, <3>2, <3>3, <3>4 DEF ReadGood, BassType, ModeType, Contents
  <2>3. ASSUME NEW u \in D!Tasks
        PROVE  ReadGood(u)'
    <3>1. CASE u = t
      BY <2>2, <3>1
    <3>2. CASE u # t
      <4>1. ReadGood(u) /\ vs_job'[u] = vs_job[u] /\ vs_read'[u] = vs_read[u]
        BY <1>1, <1>3, <2>1, <3>2 DEF ReadBack
      <4>2. /\ <<u, "BASS">> \in vs_stale => <<u, "BASS">> \in vs_stale'
            /\ <<u, "MODE">> \in vs_stale => <<u, "MODE">> \in vs_stale'
        BY <2>1, <3>2
      <4> QED
        BY <1>1, <4>1, <4>2 DEF ReadGood, Setting, BassType, ModeType, Contents
    <3> QED
      BY <3>1, <3>2
  <2> QED
    BY <2>3 DEF ReadBack
<1>8. Volumes'
  <2>1. CASE part.reg = "VOL"
    <3>1. /\ t = "clientTask" /\ vs_chip.VOL = vs_want.VOL
          /\ vs_job'["clientTask"] = rest /\ rest # <<>>
          /\ ~(Head(rest).do = "get" /\ Head(rest).reg = "VOL")
      BY <1>1, <1>3, <1>5, <2>1 DEF Volumes, May
    <3> QED
      BY <1>1, <1>2, <2>1, <3>1 DEF Volumes
  <2>2. CASE part.reg # "VOL"
    <3>1. <<"clientTask", "VOL">> \in vs_stale => <<"clientTask", "VOL">> \in vs_stale'
      BY <1>1, <2>2
    <3>2. CASE t = "clientTask"
      BY <1>1, <1>2, <1>3, <2>2, <3>1, <3>2, VolumeStays DEF May
    <3>3. CASE t # "clientTask"
      BY <1>1, <1>2, <1>3, <2>2, <3>1, <3>3, VolumeStays, DecoderConstants
    <3> QED
      BY <3>2, <3>3
  <2> QED
    BY <2>1, <2>2
<1> QED
  BY <1>3, <1>4, <1>6, <1>7, <1>8 DEF DecoderInv

(* What a write does, case by case.                                         *)
LEMMA WriteCases ==
  ASSUME NEW t \in D!Tasks, D!WriteRegister(t)
  PROVE  LET part == Head(vs_job[t])
             out == <<t, part.reg>> \in vs_stale
             new == D!Written(t, part)
         IN  /\ vs_chip' = [vs_chip EXCEPT ![part.reg] = new]
             /\ part.do = "restore" => new = vs_volume
             /\ part.do = "set" /\ part.reg = "VOL" => new = [vol |-> part.value]
             /\ part.do = "set" /\ part.reg # "VOL" =>
                  new = [vs_read[t] EXCEPT ![part.field] = part.value]
             /\ out /\ part.field # "mute" => vs_want' = [vs_want EXCEPT ![part.reg] = new]
             /\ ~out /\ part.do = "set" /\ part.field # "mute" =>
                  vs_want' = [vs_want EXCEPT ![part.reg][part.field] = part.value]
             /\ part.field = "mute" \/ (~out /\ part.do = "restore") => vs_want' = vs_want
             /\ part.field = "mute" => vs_stale' = vs_stale
             /\ part.field # "mute" =>
                  vs_stale' = (vs_stale \ {<<t, part.reg>>})
                                \cup ((D!Between(part.reg) \ {t}) \X {part.reg})
             /\ part.reg = "VOL" => vs_read' = vs_read
             /\ part.reg # "VOL" => vs_read' = [vs_read EXCEPT ![t] = D!Fresh.VOL]
<1> DEFINE part == Head(vs_job[t])
           out == <<t, part.reg>> \in vs_stale
           new == D!Written(t, part)
<1>1. /\ vs_chip' = [vs_chip EXCEPT ![part.reg] = new]
      /\ part.field = "mute" => vs_stale' = vs_stale
      /\ part.field # "mute" =>
           vs_stale' = (vs_stale \ {<<t, part.reg>>})
                         \cup ((D!Between(part.reg) \ {t}) \X {part.reg})
      /\ part.reg = "VOL" => vs_read' = vs_read
      /\ part.reg # "VOL" => vs_read' = [vs_read EXCEPT ![t] = D!Fresh.VOL]
  BY DEF D!WriteRegister
<1>2. /\ part.do = "restore" => new = vs_volume
      /\ part.do # "restore" /\ part.reg = "VOL" => new = [vol |-> part.value]
      /\ part.do # "restore" /\ part.reg # "VOL" =>
           new = [vs_read[t] EXCEPT ![part.field] = part.value]
  BY DEF D!Written
<1>3. vs_want' = CASE out /\ part.field # "mute" -> [vs_want EXCEPT ![part.reg] = new]
                   [] ~out /\ part.do = "set" /\ part.field # "mute" ->
                        [vs_want EXCEPT ![part.reg][part.field] = part.value]
                   [] OTHER -> vs_want
  BY DEF D!WriteRegister
<1> HIDE DEF out, new
<1>4. /\ out /\ part.field # "mute" => vs_want' = [vs_want EXCEPT ![part.reg] = new]
      /\ ~out /\ part.do = "set" /\ part.field # "mute" =>
           vs_want' = [vs_want EXCEPT ![part.reg][part.field] = part.value]
      /\ part.field = "mute" \/ (~out /\ part.do # "set") => vs_want' = vs_want
  BY <1>3, Zenon
<1>5. /\ part.do = "restore" => part.do # "set"
      /\ part.do = "set" => part.do # "restore"
  OBVIOUS
<1>6. /\ out /\ part.field # "mute" => vs_want' = [vs_want EXCEPT ![part.reg] = new]
      /\ ~out /\ part.do = "set" /\ part.field # "mute" =>
           vs_want' = [vs_want EXCEPT ![part.reg][part.field] = part.value]
      /\ part.field = "mute" \/ (~out /\ part.do = "restore") => vs_want' = vs_want
  BY <1>4, <1>5
<1>7. /\ part.do = "restore" => new = vs_volume
      /\ part.do = "set" /\ part.reg = "VOL" => new = [vol |-> part.value]
      /\ part.do = "set" /\ part.reg # "VOL" =>
           new = [vs_read[t] EXCEPT ![part.field] = part.value]
  BY <1>2, <1>5
<1> QED
  BY <1>1, <1>6, <1>7 DEF out, new

(* A write of BASS or MODE: who has read it and not yet written is late.    *)
LEMMA FieldWritten ==
  ASSUME DecoderInv, NEW t \in D!Tasks, D!WriteRegister(t), vs_job[t] # <<>>,
         NEW part, part = Head(vs_job[t]), part.do = "set", part.reg \in {"BASS", "MODE"},
         part.reg = "BASS" => part.field \in {"treble", "bass"},
         part.reg = "MODE" => part.field \in {"spatial", "cancel"},
         part.value \in Contents,
         \A u \in D!Tasks : u # t => vs_job'[u] = vs_job[u],
         ~Setting(t, "BASS")', ~Setting(t, "MODE")'
  PROVE  /\ vs_chip' \in [BASS : BassType, MODE : ModeType, VOL : VolType]
         /\ vs_want' \in [BASS : BassType, MODE : ModeType, VOL : VolType]
         /\ vs_chip'.VOL = vs_chip.VOL /\ vs_want'.VOL = vs_want.VOL
         /\ Kept' /\ ReadBack'
<1> DEFINE new == [vs_read[t] EXCEPT ![part.field] = part.value]
           out == <<t, part.reg>> \in vs_stale
<1>1. /\ RegisterTypes /\ ReadBack /\ Kept
      /\ vs_chip' = [vs_chip EXCEPT ![part.reg] = new]
      /\ out => vs_want' = [vs_want EXCEPT ![part.reg] = new]
      /\ ~out => vs_want' = [vs_want EXCEPT ![part.reg][part.field] = part.value]
      /\ vs_stale' = (vs_stale \ {<<t, part.reg>>})
                       \cup ((D!Between(part.reg) \ {t}) \X {part.reg})
      /\ vs_read' = [vs_read EXCEPT ![t] = D!Fresh.VOL]
  BY WriteCases DEF DecoderInv
<1>2. /\ vs_chip \in [BASS : BassType, MODE : ModeType, VOL : VolType]
      /\ vs_want \in [BASS : BassType, MODE : ModeType, VOL : VolType]
      /\ vs_chip.BASS = vs_want.BASS /\ vs_chip.MODE.spatial = vs_want.MODE.spatial
  BY <1>1 DEF RegisterTypes, Kept
<1>3. ReadGood(t)
  BY <1>1 DEF ReadBack
<1>4. ReadBack'
  <2>1. ASSUME NEW u \in D!Tasks
        PROVE  ReadGood(u)'
    <3>1. CASE u = t
      BY <3>1 DEF ReadGood
    <3>2. CASE u # t
      <4>1. ReadGood(u) /\ vs_job'[u] = vs_job[u] /\ vs_read'[u] = vs_read[u]
        BY <1>1, <3>2 DEF ReadBack, RegisterTypes
      <4>2. Setting(u, part.reg) => <<u, part.reg>> \in vs_stale'
        <5>1. Setting(u, part.reg) => u \in D!Between(part.reg) \ {t}
          BY <3>2 DEF Setting, D!Between
        <5> QED
          BY <1>1, <5>1
      <4>3. CASE part.reg = "BASS"
        <5>1. /\ <<u, "MODE">> \in vs_stale => <<u, "MODE">> \in vs_stale'
              /\ vs_chip'.MODE = vs_chip.MODE
          BY <1>1, <1>2, <3>2, <4>3
        <5> QED
          BY <4>1, <4>2, <4>3, <5>1 DEF ReadGood, Setting, BassType, ModeType, Contents
      <4>4. CASE part.reg = "MODE"
        <5>1. /\ <<u, "BASS">> \in vs_stale => <<u, "BASS">> \in vs_stale'
              /\ vs_chip'.BASS = vs_chip.BASS
          BY <1>1, <1>2, <3>2, <4>4
        <5> QED
          BY <4>1, <4>2, <4>4, <5>1 DEF ReadGood, Setting, BassType, ModeType, Contents
      <4> QED
        BY <4>3, <4>4
    <3> QED
      BY <3>1, <3>2
  <2> QED
    BY <2>1 DEF ReadBack
<1>5. CASE part.reg = "BASS"
  <2>1. vs_read[t] \in BassType /\ (out \/ vs_read[t] = vs_chip.BASS)
    BY <1>3, <1>5 DEF ReadGood, Setting
  <2>2. new \in BassType /\ part.field \in {"treble", "bass"}
    BY <1>5, <2>1 DEF BassType
  <2> HIDE DEF new
  <2>3. /\ vs_chip' \in [BASS : BassType, MODE : ModeType, VOL : VolType]
        /\ vs_chip'.BASS = new /\ vs_chip'.MODE = vs_chip.MODE /\ vs_chip'.VOL = vs_chip.VOL
    BY <1>1, <1>2, <1>5, <2>2
  <2>4. CASE out
    BY <1>1, <1>2, <1>5, <2>2, <2>3, <2>4, <1>4 DEF Kept
  <2>5. CASE ~out
    <3>1. /\ vs_read[t] = vs_want.BASS
          /\ vs_want' = [vs_want EXCEPT !["BASS"] = [vs_want.BASS EXCEPT ![part.field] = part.value]]
      BY <1>1, <1>2, <1>5, <2>1, <2>5
    <3>2. vs_want' = [vs_want EXCEPT !["BASS"] = new]
      BY <3>1 DEF new
    <3> QED
      BY <1>1, <1>2, <1>5, <2>2, <2>3, <3>2, <1>4 DEF Kept
  <2> QED
    BY <2>4, <2>5
<1>6. CASE part.reg = "MODE"
  <2>1. vs_read[t] \in ModeType /\ (out \/ vs_read[t].spatial = vs_chip.MODE.spatial)
    BY <1>3, <1>6 DEF ReadGood, Setting
  <2>2. /\ new \in ModeType /\ part.field \in {"spatial", "cancel"}
        /\ new.spatial = IF part.field = "spatial" THEN part.value ELSE vs_read[t].spatial
    BY <1>6, <2>1 DEF ModeType
  <2> HIDE DEF new
  <2>3. /\ vs_chip' \in [BASS : BassType, MODE : ModeType, VOL : VolType]
        /\ vs_chip'.MODE = new /\ vs_chip'.BASS = vs_chip.BASS /\ vs_chip'.VOL = vs_chip.VOL
    BY <1>1, <1>2, <1>6, <2>2
  <2>4. CASE out
    BY <1>1, <1>2, <1>6, <2>2, <2>3, <2>4, <1>4 DEF Kept
  <2>5. CASE ~out
    <3> DEFINE asked == [vs_want.MODE EXCEPT ![part.field] = part.value]
    <3>1. vs_read[t].spatial = vs_want.MODE.spatial /\ vs_want' = [vs_want EXCEPT !["MODE"] = asked]
      BY <1>1, <1>2, <1>6, <2>1, <2>5
    <3>2. /\ asked \in ModeType
          /\ asked.spatial = IF part.field = "spatial" THEN part.value ELSE vs_want.MODE.spatial
      BY <1>2, <2>2 DEF ModeType
    <3> HIDE DEF asked
    <3> QED
      BY <1>2, <2>2, <2>3, <3>1, <3>2, <1>4 DEF Kept
  <2> QED
    BY <2>4, <2>5
<1> QED
  BY <1>2, <1>5, <1>6

(* Between the mute and the restore is clientTask only.                     *)
LEMMA BetweenVolume ==
  /\ D!Between("VOL") \subseteq {"clientTask"}
  /\ \A reg \in Registers : D!Between(reg) \subseteq D!Tasks
  /\ Jobs /\ vs_job["clientTask"] # <<>> => "clientTask" \in D!Between("VOL")
<1>1. D!Between("VOL") \subseteq {"clientTask"}
  BY DEF D!Between
<1>2. \A reg \in Registers : D!Between(reg) \subseteq D!Tasks
  BY DecoderConstants DEF D!Between
<1>3. ASSUME Jobs, vs_job["clientTask"] # <<>>
      PROVE  "clientTask" \in D!Between("VOL")
  <2> DEFINE parts == vs_job["clientTask"]
  <2>1. parts \in Seq(PartsOf("clientTask")) /\ Ends("clientTask", parts)
    BY <1>3, DecoderConstants DEF Jobs
  <2>2. Len(parts) \in Nat \ {0} /\ parts[Len(parts)].do = "restore"
    BY <1>3, <2>1, Taken DEF Ends
  <2>3. Len(parts) \in DOMAIN parts
    BY <2>1, <2>2
  <2> QED
    BY <2>2, <2>3 DEF D!Between
<1> QED
  BY <1>1, <1>2, <1>3

(* A register is written.                                                   *)
LEMMA WriteRegisterKeeps ==
  ASSUME DecoderInv, NEW t \in D!Tasks, D!WriteRegister(t)
  PROVE  DecoderInv'
<1> DEFINE part == Head(vs_job[t])  rest == Tail(vs_job[t])
           out == <<t, part.reg>> \in vs_stale
           new == D!Written(t, part)
           RegType == [BASS : BassType, MODE : ModeType, VOL : VolType]
<1>1. /\ Jobs /\ BusHeld /\ FifoBound /\ RegisterTypes /\ ReadBack /\ Volumes /\ Kept
      /\ D!Finish(t, {"set", "restore"})
      /\ UNCHANGED <<vs_volume, vs_fifo, vs_playing, vs_music, vs_started>>
  BY DEF DecoderInv, D!WriteRegister, D!sound
<1>2. /\ part \in PartsOf(t) /\ part.do \in {"set", "restore"} /\ vs_job[t] # <<>>
      /\ vs_phase[t] = "selected" /\ vs_phase' = [vs_phase EXCEPT ![t] = "out"]
      /\ Jobs' /\ BusHeld' /\ vs_job'[t] = rest
      /\ \A u \in D!Tasks : u # t => vs_job'[u] = vs_job[u]
      /\ rest # <<>> => May(part, Head(rest)) /\ Head(rest) \in PartsOf(t)
      /\ t = "clientTask" /\ rest = <<>> => part.do = "restore"
  BY <1>1, Released
<1>3. /\ part.reg \in Registers
      /\ part.do = "set" => /\ part.reg = "BASS" => part.field \in {"treble", "bass"}
                            /\ part.reg = "MODE" => part.field \in {"spatial", "cancel"}
                            /\ part.reg = "VOL" => part.field \in {"vol", "mute"}
                            /\ part.value \in Contents
      /\ part.do = "restore" => part.reg = "VOL" /\ part.field = "vol" /\ t = "clientTask"
      /\ part.field = "mute" => t = "clientTask" /\ part.do = "set" /\ part.reg = "VOL"
      /\ part.do = "set" /\ part.field = "vol" => t # "clientTask"
  <2>1. part.do = "set" /\ part.field = "vol" => t # "clientTask"
    BY <1>2 DEF PartsOf, ClientParts
  <2> QED
    BY <1>2, <2>1, PartShapes DEF Registers
<1>4. FifoBound'
  BY <1>1, <1>2, FifoAfter DEF Selecting
<1>5. ~Setting(t, "BASS")' /\ ~Setting(t, "MODE")'
  BY <1>2 DEF Setting, May
<1>6. /\ vs_read' = [u \in D!Tasks |-> vs_read'[u]]
      /\ \A u \in D!Tasks : u # t => vs_read'[u] = vs_read[u]
      /\ vs_stale' \subseteq D!Tasks \X Registers
      /\ \A u \in D!Tasks : u # "clientTask" => <<u, "VOL">> \notin vs_stale'
  <2>1. vs_read' = vs_read \/ vs_read' = [vs_read EXCEPT ![t] = D!Fresh.VOL]
    BY WriteCases
  <2>2. \/ vs_stale' = vs_stale
        \/ vs_stale' = (vs_stale \ {<<t, part.reg>>}) \cup ((D!Between(part.reg) \ {t}) \X {part.reg})
    BY WriteCases
  <2>3. vs_stale \subseteq D!Tasks \X Registers /\ vs_read = [u \in D!Tasks |-> vs_read[u]]
    BY <1>1 DEF RegisterTypes
  <2>4. \A u \in D!Tasks : u # "clientTask" => <<u, "VOL">> \notin vs_stale
    BY <1>1 DEF Volumes
  <2>5. vs_stale' \subseteq D!Tasks \X Registers
    BY <1>3, <2>2, <2>3, BetweenVolume
  <2>6. ASSUME NEW u \in D!Tasks, u # "clientTask", <<u, "VOL">> \in vs_stale'
        PROVE  FALSE
    <3>1. <<u, "VOL">> \in (D!Between(part.reg) \ {t}) \X {part.reg}
      BY <2>2, <2>4, <2>6
    <3>2. part.reg = "VOL" /\ u \in D!Between("VOL")
      BY <3>1
    <3> QED
      BY <2>6, <3>2, BetweenVolume
  <2> QED
    BY <2>1, <2>3, <2>5, <2>6
<1>7. CASE part.reg \in {"BASS", "MODE"}
  <2>1. part.do = "set" /\ part.field # "mute"
    BY <1>2, <1>3, <1>7
  <2>2. /\ vs_chip' \in RegType /\ vs_want' \in RegType
        /\ vs_chip'.VOL = vs_chip.VOL /\ vs_want'.VOL = vs_want.VOL
        /\ Kept' /\ ReadBack'
    BY <1>2, <1>3, <1>5, <1>7, <2>1, FieldWritten
  <2>3. RegisterTypes'
    BY <1>1, <1>6, <2>2 DEF RegisterTypes, BassType, ModeType, VolType, Contents
  <2>4. <<"clientTask", "VOL">> \in vs_stale => <<"clientTask", "VOL">> \in vs_stale'
    <3>1. vs_stale' = (vs_stale \ {<<t, part.reg>>}) \cup ((D!Between(part.reg) \ {t}) \X {part.reg})
      BY <2>1, WriteCases
    <3> QED
      BY <1>7, <3>1
  <2>5. Volumes'
    <3>1. CASE t = "clientTask"
      BY <1>1, <1>2, <1>6, <1>7, <2>1, <2>2, <2>4, <3>1, VolumeStays DEF May
    <3>2. CASE t # "clientTask"
      BY <1>1, <1>2, <1>6, <2>2, <2>4, <3>2, VolumeStays, DecoderConstants
    <3> QED
      BY <3>1, <3>2
  <2> QED
    BY <1>2, <1>4, <2>2, <2>3, <2>5 DEF DecoderInv
<1>8. CASE part.reg = "VOL"
  <2>1. /\ vs_chip \in RegType /\ vs_want \in RegType /\ vs_volume \in VolType
    BY <1>1 DEF RegisterTypes
  <2>2. /\ new \in VolType /\ vs_chip' = [vs_chip EXCEPT !.VOL = new]
        /\ part.do = "restore" => new = vs_volume
        /\ part.do = "set" => new = [vol |-> part.value]
    <3>1. /\ vs_chip' = [vs_chip EXCEPT !.VOL = new]
          /\ part.do = "restore" => new = vs_volume
          /\ part.do = "set" => new = [vol |-> part.value]
      BY <1>8, WriteCases
    <3> QED
      BY <1>2, <1>3, <2>1, <3>1 DEF VolType
  <2>3. /\ part.field = "mute" \/ (~out /\ part.do = "restore") => vs_want' = vs_want
        /\ out /\ part.field # "mute" => vs_want' = [vs_want EXCEPT !.VOL = new]
        /\ ~out /\ part.do = "set" /\ part.field # "mute" => vs_want' = [vs_want EXCEPT !.VOL = new]
    <3>1. /\ part.field = "mute" \/ (~out /\ part.do = "restore") => vs_want' = vs_want
          /\ out /\ part.field # "mute" => vs_want' = [vs_want EXCEPT !.VOL = new]
      BY <1>8, WriteCases
    <3>2. ASSUME ~out, part.do = "set", part.field # "mute"
          PROVE  vs_want' = [vs_want EXCEPT !.VOL = new]
      <4>1. part.field = "vol"
        BY <1>3, <1>8, <3>2
      <4>2. vs_want' = [vs_want EXCEPT !.VOL = [vs_want.VOL EXCEPT !.vol = part.value]]
        BY <1>8, <3>2, <4>1, WriteCases
      <4>3. [vs_want.VOL EXCEPT !.vol = part.value] = [vol |-> part.value]
        BY <2>1 DEF VolType
      <4> QED
        BY <2>2, <3>2, <4>2, <4>3
    <3> QED
      BY <3>1, <3>2
  <2> HIDE DEF new
  <2>4. /\ vs_chip' \in RegType /\ vs_chip'.VOL = new
        /\ vs_chip'.BASS = vs_chip.BASS /\ vs_chip'.MODE = vs_chip.MODE
        /\ vs_want' \in RegType /\ vs_want'.BASS = vs_want.BASS /\ vs_want'.MODE = vs_want.MODE
        /\ vs_want' = vs_want \/ vs_want'.VOL = new
    BY <1>2, <2>1, <2>2, <2>3
  <2>5. RegisterTypes' /\ Kept'
    <3>1. RegisterTypes'
      BY <1>1, <1>6, <2>4 DEF RegisterTypes, BassType, ModeType, VolType, Contents
    <3>2. Kept'
      BY <1>1, <2>4 DEF Kept
    <3> QED
      BY <3>1, <3>2
  <2>6. ReadBack'
    <3>1. \A u \in D!Tasks : u # t =>
            /\ vs_job'[u] = vs_job[u] /\ vs_read'[u] = vs_read[u]
      BY <1>2, <1>6
    <3>2. ASSUME NEW u \in D!Tasks
          PROVE  ReadGood(u)'
      <4>1. CASE u = t
        BY <1>5, <4>1 DEF ReadGood
      <4>2. CASE u # t
        <5>1. ReadGood(u)
          BY <1>1 DEF ReadBack
        <5>2. \A reg \in {"BASS", "MODE"} : <<u, reg>> \in vs_stale => <<u, reg>> \in vs_stale'
          <6>1. \/ vs_stale' = vs_stale
                \/ vs_stale' = (vs_stale \ {<<t, part.reg>>})
                                 \cup ((D!Between(part.reg) \ {t}) \X {part.reg})
            BY WriteCases
          <6> QED
            BY <4>2, <6>1
        <5> QED
          BY <2>4, <3>1, <4>2, <5>1, <5>2 DEF ReadGood, Setting, BassType, ModeType, Contents
      <4> QED
        BY <4>1, <4>2
    <3> QED
      BY <3>2 DEF ReadBack
  <2>7. Volumes'
    <3> DEFINE client == vs_job["clientTask"]
    <3>1. CASE part.do = "restore"
      <4>1. t = "clientTask" /\ rest = <<>> /\ part.field = "vol"
        BY <1>2, <1>3, <3>1 DEF May
      <4>2. out \/ vs_volume = vs_want.VOL
        BY <1>1, <1>2, <1>8, <3>1, <4>1 DEF Volumes
      <4>3. vs_chip'.VOL = vs_want'.VOL
        BY <2>1, <2>2, <2>3, <2>4, <3>1, <4>1, <4>2
      <4> QED
        BY <1>2, <1>6, <4>1, <4>3 DEF Volumes
    <3>2. CASE part.field = "mute"
      <4>1. /\ t = "clientTask" /\ rest # <<>> /\ part.do = "set"
            /\ ~(Head(rest).do = "get" /\ Head(rest).reg = "VOL") /\ Head(rest).field # "mute"
        BY <1>2, <1>3, <3>2 DEF May
      <4>2. vs_stale' = vs_stale /\ vs_want' = vs_want
        BY <3>2, WriteCases
      <4>3. out \/ vs_volume = vs_want.VOL
        BY <1>1, <1>2, <1>8, <4>1 DEF Volumes
      <4> QED
        BY <1>1, <1>2, <1>6, <1>8, <4>1, <4>2, <4>3 DEF Volumes
    <3>3. CASE part.do = "set" /\ part.field # "mute"
      <4>1. t # "clientTask"
        BY <1>3, <1>8, <3>3
      <4>2. vs_job'["clientTask"] = client
        BY <1>2, <4>1, DecoderConstants
      <4>3. vs_chip'.VOL = vs_want'.VOL
        BY <2>1, <2>3, <2>4, <3>3
      <4>4. client # <<>> => <<"clientTask", "VOL">> \in vs_stale'
        <5>1. vs_stale' = (vs_stale \ {<<t, part.reg>>}) \cup ((D!Between(part.reg) \ {t}) \X {part.reg})
          BY <3>3, WriteCases
        <5> QED
          BY <1>1, <1>8, <4>1, <5>1, BetweenVolume
      <4> QED
        BY <1>6, <4>2, <4>3, <4>4 DEF Volumes
    <3> QED
      BY <1>2, <3>1, <3>2, <3>3
  <2> QED
    BY <1>2, <1>4, <2>5, <2>6, <2>7 DEF DecoderInv
<1> QED
  BY <1>3, <1>7, <1>8 DEF Registers

(* The decoder plays what it has.                                           *)
LEMMA DecoderPlaysKeeps ==
  ASSUME DecoderInv, D!DecoderPlays
  PROVE  DecoderInv'
<1>1. /\ Jobs /\ BusHeld /\ FifoBound /\ RegisterTypes /\ ReadBack /\ Volumes /\ Kept
      /\ vs_fifo > 0 /\ vs_fifo' = vs_fifo - 1
      /\ UNCHANGED <<vs_sSPI, vs_cs, vs_xdcs, vs_phase, vs_read, vs_volume, vs_chip, vs_want, vs_stale,
                     vs_job, vs_playing, vs_music, vs_started>>
  BY DEF DecoderInv, D!DecoderPlays, D!bus, D!registers
<1>2. Jobs'
  BY <1>1 DEF Jobs, PartsOf
<1>3. BusHeld'
  BY <1>1 DEF BusHeld, Resetting, Selecting, D!Doing, D!Transfers
<1>4. FifoBound'
  BY <1>1, DecoderConstants DEF FifoBound, Coming, Selecting
<1>5. RegisterTypes' /\ Volumes' /\ Kept'
  BY <1>1 DEF RegisterTypes, Volumes, Kept
<1>6. ReadBack'
  BY <1>1, ReadStays
<1> QED
  BY <1>2, <1>3, <1>4, <1>5, <1>6 DEF DecoderInv

(* The decoder cancels.                                                     *)
LEMMA DecoderCancelsKeeps ==
  ASSUME DecoderInv, D!DecoderCancels
  PROVE  DecoderInv'
<1>1. /\ Jobs /\ BusHeld /\ FifoBound /\ RegisterTypes /\ ReadBack /\ Volumes /\ Kept
      /\ vs_chip' = [vs_chip EXCEPT !.MODE.cancel = 0]
      /\ UNCHANGED <<vs_sSPI, vs_cs, vs_xdcs, vs_phase, vs_read, vs_volume, vs_want, vs_stale,
                     vs_job, vs_fifo, vs_playing, vs_music, vs_started>>
  BY DEF DecoderInv, D!DecoderCancels, D!bus, D!sound
<1>2. Jobs'
  BY <1>1 DEF Jobs, PartsOf
<1>3. BusHeld'
  BY <1>1 DEF BusHeld, Resetting, Selecting, D!Doing, D!Transfers
<1>4. FifoBound'
  BY <1>1 DEF FifoBound, Coming, Selecting
<1>5. /\ vs_chip' \in [BASS : BassType, MODE : ModeType, VOL : VolType]
      /\ vs_chip'.BASS = vs_chip.BASS /\ vs_chip'.MODE.spatial = vs_chip.MODE.spatial
      /\ vs_chip'.VOL = vs_chip.VOL
  <2>1. vs_chip \in [BASS : BassType, MODE : ModeType, VOL : VolType]
    BY <1>1 DEF RegisterTypes
  <2> QED
    BY <1>1, <2>1 DEF ModeType, Contents
<1>6. RegisterTypes' /\ Volumes' /\ Kept'
  BY <1>1, <1>5 DEF RegisterTypes, Volumes, Kept, BassType, ModeType, VolType, Contents
<1>7. ReadBack'
  BY <1>1, <1>5, ReadStays
<1> QED
  BY <1>2, <1>3, <1>4, <1>6, <1>7 DEF DecoderInv

(* No step of the decoder breaks its invariant.                             *)
LEMMA DecoderKeeps ==
  ASSUME DecoderInv, D!Next
  PROVE  DecoderInv'
<1>1. CASE D!vsTask
  BY <1>1, VsTaskKeeps
<1>2. CASE D!clientTask
  BY <1>2, ClientTaskKeeps
<1>3. CASE D!EndStart
  BY <1>3, EndStartKeeps
<1>4. CASE D!DecoderPlays
  BY <1>4, DecoderPlaysKeeps
<1>5. CASE D!DecoderCancels
  BY <1>5, DecoderCancelsKeeps
<1>6. CASE \E u \in Users : D!User(u)
  BY <1>6, UserKeeps
<1>7. CASE \E t \in D!Tasks : D!Step(t) \/ D!Take(t)
  <2>1. PICK t \in D!Tasks : D!Step(t) \/ D!Take(t)
    BY <1>7
  <2> QED
    BY <2>1, ControlResetKeeps, LocalKeeps, CancelledKeeps, AgainKeeps, CheckDREQKeeps, TakeKeeps,
       SendMusicBytesKeeps, ReadRegisterKeeps, WriteRegisterKeeps DEF D!Step
<1> QED
  BY <1>1, <1>2, <1>3, <1>4, <1>5, <1>6, <1>7 DEF D!Next

(* Nothing of the decoder changes.                                          *)
LEMMA DecoderStutters ==
  ASSUME DecoderInv, UNCHANGED decoderVars
  PROVE  DecoderInv'
<1>1. /\ Jobs /\ BusHeld /\ FifoBound /\ RegisterTypes /\ ReadBack /\ Volumes /\ Kept
      /\ UNCHANGED <<vs_sSPI, vs_cs, vs_xdcs, vs_phase, vs_read, vs_volume, vs_chip, vs_want, vs_stale,
                     vs_job, vs_fifo, vs_playing, vs_music, vs_started>>
  BY DEF DecoderInv, decoderVars
<1>2. Jobs' /\ BusHeld'
  BY <1>1 DEF Jobs, PartsOf, BusHeld, Resetting, Selecting, D!Doing, D!Transfers
<1>3. FifoBound' /\ RegisterTypes' /\ Volumes' /\ Kept'
  BY <1>1 DEF FifoBound, Coming, Selecting, RegisterTypes, Volumes, Kept
<1>4. ReadBack'
  BY <1>1, ReadStays
<1> QED
  BY <1>2, <1>3, <1>4 DEF DecoderInv

(* The tasks that share the decoder, at every step.                         *)
THEOREM DecoderInvariant == Spec => [](active = "decoder" => DecoderInv)
<1>1. Init => (active = "decoder" => DecoderInv)
  BY DecoderBegins DEF Init
<1>2. (active = "decoder" => DecoderInv) /\ [Next]_vars => (active = "decoder" => DecoderInv)'
  <2> SUFFICES ASSUME active = "decoder" => DecoderInv, [Next]_vars, active' = "decoder"
               PROVE  DecoderInv'
    OBVIOUS
  <2>1. active = "decoder" /\ (D!Next \/ UNCHANGED decoderVars)
    BY DEF Next, vars
  <2> QED
    BY <2>1, DecoderKeeps, DecoderStutters
<1> QED
  BY <1>1, <1>2, PTL DEF Spec

(* vs1053.c: the chip is reset by both selects only while VS1053_Start does *)
(* it, and what is sent to it stays within what it has room for, however    *)
(* the tasks take the bus in turns.                                         *)
THEOREM BusCorrect == Spec => []BusIsShared
<1>1. (active = "decoder" => DecoderInv) => BusIsShared
  <2> SUFFICES ASSUME active = "decoder", DecoderInv PROVE D!NoStrayReset /\ D!FifoHolds
    BY DEF BusIsShared
  <2>1. Jobs /\ BusHeld /\ FifoBound
    BY DEF DecoderInv
  <2>2. D!FifoHolds
    <3>1. Coming("vsTask") \in {0, 1} /\ Coming("clientTask") \in {0, 1}
      BY DEF Coming
    <3> QED
      BY <2>1, <3>1, DecoderConstants DEF FifoBound, D!FifoHolds
  <2>3. ASSUME vs_cs, vs_xdcs
        PROVE  ~vs_started
    <3>1. vs_sSPI = "free"
      BY <2>1, <2>3 DEF BusHeld
    <3>2. Resetting
      BY <2>1, <2>3, <3>1 DEF BusHeld
    <3> QED
      BY <2>1, <3>2, ResetAlone, DecoderConstants DEF Resetting
  <2> QED
    BY <2>2, <2>3 DEF D!NoStrayReset
<1> QED
  BY <1>1, DecoderInvariant, PTL

(* VS1053_SetTreble and the others: a field of the chip is what was last    *)
(* asked for; only who wrote back what was out of date has asked for that.  *)
THEOREM FieldsCorrect == Spec => []FieldsAsSet
<1>1. (active = "decoder" => DecoderInv) => FieldsAsSet
  <2> SUFFICES ASSUME active = "decoder", DecoderInv PROVE D!TypeOK /\ D!FieldsAsSet
    BY DEF FieldsAsSet
  <2>1. Jobs /\ BusHeld /\ FifoBound /\ RegisterTypes /\ Volumes /\ Kept
    BY DEF DecoderInv
  <2>2. D!TypeOK
    <3>1. \A t \in D!Tasks : vs_phase[t] \in {"out", "ready"} \/ vs_sSPI = t
      BY <2>1 DEF BusHeld
    <3>2. {vs_cs, vs_xdcs, vs_playing, vs_music, vs_started} \subseteq BOOLEAN
      BY <2>1 DEF BusHeld, RegisterTypes
    <3>3. vs_stale \subseteq D!Tasks \X DOMAIN D!Fresh
      BY <2>1, FieldsOfRegisters DEF RegisterTypes
    <3> QED
      BY <2>1, <3>1, <3>2, <3>3 DEF BusHeld, FifoBound, D!TypeOK
  <2>3. ASSUME D!Between("VOL") = {}
        PROVE  vs_chip.VOL = vs_want.VOL
    <3>1. vs_job["clientTask"] = <<>>
      BY <2>1, <2>3, BetweenVolume
    <3> QED
      BY <2>1, <3>1 DEF Volumes
  <2> QED
    BY <2>1, <2>2, <2>3 DEF Kept, D!FieldsAsSet
<1> QED
  BY <1>1, DecoderInvariant, PTL

(* The receiver: the n-th edge of a frame of k, and where the receiver is   *)
(* when it waits for that edge.                                             *)
Size(k) == IF k = R!Repeat THEN 4 ELSE 12
Sent(k, n, e) ==
  \/ n = 1 /\ e = R!Edge("low", "other")
  \/ n = 2 /\ e = R!Edge("high", "lead")
  \/ n = 3 /\ k = R!Repeat /\ e.level = "low" /\ e.dt \in R!RepeatSpace
  \/ n = 4 /\ k = R!Repeat /\ e = R!Edge("high", "short")
  \/ n = 3 /\ k # R!Repeat /\ e = R!Edge("low", "leadSpace")
  \/ k # R!Repeat /\ \E b \in 1..4 : n = 2 * b + 2 /\ e = R!Edge("high", "short")
  \/ k # R!Repeat /\ \E b \in 1..4 : /\ n = 2 * b + 3 /\ e.level = "low"
                                     /\ IF k[b] = 0 THEN e.dt = "short" ELSE e.dt \in R!Space1
  \/ n = 12 /\ k # R!Repeat /\ e = R!Edge("high", "short")

InStep(k, n) ==
  \/ n = 2 /\ irState = "leadMark"
  \/ n = 3 /\ irState = "leadSpace"
  \/ n = 4 /\ k = R!Repeat /\ irState = "repeatMark"
  \/ k # R!Repeat /\ \E b \in 1..4 : n = 2 * b + 2 /\ irState = "bitMark" /\ Len(irValue) = b - 1
  \/ k # R!Repeat /\ \E b \in 1..4 : n = 2 * b + 3 /\ irState = "bitSpace" /\ Len(irValue) = b - 1
  \/ n = 12 /\ k # R!Repeat /\ irState = "stopMark"

(* After a lost or bent edge the receiver does not find into step again.    *)
OutOfStep(k, n) ==
  \/ n = 2 /\ irState # "stopMark" /\ published = <<>>
  \/ n >= 3 /\ irState \in {"idle", "leadMark"}
  \/ n \in {5, 7, 9, 11} /\ irState = "bitMark"
  \/ n \in {4, 6, 8, 10, 12} /\ irState \in {"leadSpace", "bitSpace"}
  \/ n = 4 /\ k # R!Repeat /\ irState = "repeatMark" /\ published = <<>>
  \/ n = 4 /\ k = R!Repeat /\ irState = "bitMark"

(* The bits so far are those of k, but for one.                             *)
Wrong(k) == {i \in 1..4 : i <= Len(irValue) /\ irValue[i] # k[i]}
OneWrong(k) == \A i, j \in Wrong(k) : i = j

ReceiverTypes ==
  /\ irState \in {"idle", "leadMark", "leadSpace", "bitMark", "bitSpace", "stopMark", "repeatMark"}
  /\ irValue \in Seq({0, 1}) /\ Len(irValue) <= 4
  /\ irState = "stopMark" => Len(irValue) = 4
  /\ irState \in {"bitMark", "bitSpace"} => Len(irValue) < 4
  /\ key \in R!Keys \cup {R!Repeat} /\ intact \in BOOLEAN /\ noise \in Nat

FrameUnderWay ==
  LET first == Size(key) - Len(sending)
  IN  /\ sending \in Seq([level : {"low", "high"}, dt : R!Lengths]) /\ first \in Nat
      /\ \A i \in 1..Len(sending) : Sent(key, first + i, sending[i])

Tracked ==
  LET n == Size(key) - Len(sending) + 1
  IN  sending # <<>> =>
        /\ noise = 0
        /\ n = 1 => intact
        /\ intact => published = <<>> /\ (n = 1 \/ (InStep(key, n) /\ (n > 3 /\ key # R!Repeat => Wrong(key) = {})))
        /\ ~intact => \/ published = <<>> /\ InStep(key, n) /\ (n > 3 /\ key # R!Repeat => OneWrong(key))
                      \/ published \in {<<>>, <<R!Repeat>>} /\ OutOfStep(key, n)

ReceiverInv == ReceiverTypes /\ FrameUnderWay /\ Tracked /\ R!KeyAsSent

(* What an edge does, by the state it is seen in.                           *)
LEMMA SpaceSeen ==
  ASSUME NEW dt, R!SpaceEnds(dt)
  PROVE  LET bit == irState = "bitSpace" /\ dt \in R!Space1 \cup {"short"}
             lead == irState = "leadSpace" /\ dt = "leadSpace"
             again == irState = "leadSpace" /\ dt \in R!RepeatSpace
         IN  /\ published' = published
             /\ lead => irState' = "bitMark" /\ irValue' = <<>>
             /\ again => irState' = "repeatMark" /\ irValue' = irValue
             /\ bit => /\ irValue' = Append(irValue, IF dt = "short" THEN 0 ELSE 1)
                       /\ irState' = IF Len(irValue') = 4 THEN "stopMark" ELSE "bitMark"
             /\ ~lead /\ ~again /\ ~bit => irState' = "leadMark" /\ irValue' = irValue
<1> DEFINE bit == irState = "bitSpace" /\ dt \in R!Space1 \cup {"short"}
           lead == irState = "leadSpace" /\ dt = "leadSpace"
           again == irState = "leadSpace" /\ dt \in R!RepeatSpace
<1>1. published' = published
  BY DEF R!SpaceEnds
<1>2. (CASE lead -> irState' = "bitMark" /\ irValue' = <<>>
        [] again -> irState' = "repeatMark" /\ irValue' = irValue
        [] bit -> /\ irValue' = Append(irValue, IF dt = "short" THEN 0 ELSE 1)
                  /\ irState' = IF Len(irValue') = 4 THEN "stopMark" ELSE "bitMark"
        [] OTHER -> irState' = "leadMark" /\ irValue' = irValue)
  BY Zenon DEF R!SpaceEnds, R!Bits
<1>3. ~(lead /\ again) /\ ~(lead /\ bit) /\ ~(again /\ bit)
  BY DEF R!RepeatSpace
<1> HIDE DEF lead, again, bit
<1>4. /\ lead => irState' = "bitMark" /\ irValue' = <<>>
      /\ again => irState' = "repeatMark" /\ irValue' = irValue
      /\ bit => /\ irValue' = Append(irValue, IF dt = "short" THEN 0 ELSE 1)
                /\ irState' = IF Len(irValue') = 4 THEN "stopMark" ELSE "bitMark"
      /\ ~lead /\ ~again /\ ~bit => irState' = "leadMark" /\ irValue' = irValue
  BY <1>2, <1>3, Zenon
<1> QED
  BY <1>1, <1>4 DEF lead, again, bit

(* What a rising edge does, by the state it is seen in.                     *)
LEMMA MarkSeen ==
  ASSUME NEW dt, R!MarkEnds(dt)
  PROVE  /\ irValue' = irValue
         /\ irState = "leadMark" /\ dt = "lead" => irState' = "leadSpace"
         /\ irState = "bitMark" /\ dt = "short" => irState' = "bitSpace"
         /\ ~(irState = "leadMark" /\ dt = "lead") /\ ~(irState = "bitMark" /\ dt = "short") =>
              irState' = "idle"
         /\ irState \notin {"stopMark", "repeatMark"} => published' = published
         /\ irState = "repeatMark" => published' = Append(published, R!Repeat)
         /\ irState = "stopMark" => 
              published' = IF irValue # R!Repeat /\ irValue[3] = irValue[4] THEN published
                           ELSE Append(published, irValue)
<1>1. irValue' = irValue
  BY DEF R!MarkEnds
<1>2. irState' = CASE irState = "leadMark" /\ dt = "lead" -> "leadSpace"
                   [] irState = "bitMark" /\ dt = "short" -> "bitSpace"
                   [] OTHER -> "idle"
  BY DEF R!MarkEnds
<1>3. (CASE irState = "stopMark" -> R!irPublish(irValue)
        [] irState = "repeatMark" -> R!irPublish(R!Repeat)
        [] OTHER -> UNCHANGED published)
  BY DEF R!MarkEnds
<1>4. /\ ~(irState = "leadMark" /\ irState = "bitMark")
      /\ ~(irState = "stopMark" /\ irState = "repeatMark")
  OBVIOUS
<1>5. /\ irState = "leadMark" /\ dt = "lead" => irState' = "leadSpace"
      /\ irState = "bitMark" /\ dt = "short" => irState' = "bitSpace"
      /\ ~(irState = "leadMark" /\ dt = "lead") /\ ~(irState = "bitMark" /\ dt = "short") =>
           irState' = "idle"
  BY <1>2, <1>4, Zenon
<1>6. /\ irState \notin {"stopMark", "repeatMark"} => published' = published
      /\ irState = "repeatMark" => R!irPublish(R!Repeat)
      /\ irState = "stopMark" => R!irPublish(irValue)
  <2>1. /\ irState # "stopMark" /\ irState # "repeatMark" => published' = published
        /\ irState = "repeatMark" => R!irPublish(R!Repeat)
        /\ irState = "stopMark" => R!irPublish(irValue)
    BY <1>3, <1>4, Zenon
  <2> QED
    BY <2>1
<1>7. R!irPublish(R!Repeat) => published' = Append(published, R!Repeat)
  BY DEF R!irPublish
<1>8. R!irPublish(irValue) =>
        published' = IF irValue # R!Repeat /\ irValue[3] = irValue[4] THEN published
                     ELSE Append(published, irValue)
  BY DEF R!irPublish
<1> QED
  BY <1>1, <1>5, <1>6, <1>7, <1>8

EdgeSet == [level : {"low", "high"}, dt : R!Lengths]

(* The bits of a key.                                                       *)
LEMMA KeyBits ==
  ASSUME NEW k \in R!Keys \cup {R!Repeat}
  PROVE  /\ \A b \in 1..4 : k[b] \in {0, 1}
         /\ k = R!Repeat \/ k \in R!Keys
         /\ k \in R!Keys => k # R!Repeat /\ k[3] # k[4]
BY DEF R!Keys, R!Repeat, R!Bits

(* A frame is made of the edges it is due.                                  *)
LEMMA FramesSent ==
  ASSUME NEW k \in R!Keys \cup {R!Repeat}, NEW f \in R!Frames(k)
  PROVE  /\ f \in Seq(EdgeSet) /\ Len(f) = Size(k)
         /\ \A i \in 1..Size(k) : Sent(k, i, f[i])
<1> DEFINE mark == R!Edge("high", "short")
<1>1. CASE k = R!Repeat
  <2>1. PICK s \in R!RepeatSpace :
          f = <<R!Edge("low", "other"), R!Edge("high", "lead"), R!Edge("low", s), mark>>
    BY <1>1 DEF R!Frames
  <2>2. R!Edge("low", "other") \in EdgeSet /\ R!Edge("high", "lead") \in EdgeSet
        /\ R!Edge("low", s) \in EdgeSet /\ mark \in EdgeSet
    BY DEF EdgeSet, R!Edge, R!Lengths, R!RepeatSpace
  <2>3. R!Edge("low", s).level = "low" /\ R!Edge("low", s).dt = s
    BY DEF R!Edge
  <2> HIDE DEF mark
  <2>4. /\ f \in Seq(EdgeSet) /\ Len(f) = 4 /\ f[1] = R!Edge("low", "other")
        /\ f[2] = R!Edge("high", "lead") /\ f[3] = R!Edge("low", s) /\ f[4] = mark
    BY <2>1, <2>2
  <2>5. Size(k) = 4
    BY <1>1 DEF Size
  <2>6. ASSUME NEW i \in 1..4
        PROVE  Sent(k, i, f[i])
    <3>1. i = 1 \/ i = 2 \/ i = 3 \/ i = 4
      OBVIOUS
    <3> QED
      BY <1>1, <2>3, <2>4, <3>1 DEF Sent, mark
  <2> QED
    BY <2>4, <2>5, <2>6
<1>2. CASE k # R!Repeat
  <2>1. PICK spaces \in [1..4 -> {"short", "long", "both"}] :
          /\ \A i \in 1..4 : (spaces[i] = "short") = (k[i] = 0)
          /\ f = (<<R!Edge("low", "other"), R!Edge("high", "lead"), R!Edge("low", "leadSpace")>>
                   \o [i \in 1..8 |-> IF i % 2 = 1 THEN mark ELSE R!Edge("low", spaces[i \div 2])])
                   \o <<mark>>
    <3>1. 2 * R!Bits = 8 /\ R!Bits = 4
      BY DEF R!Bits
    <3> QED
      BY <1>2, <3>1 DEF R!Frames
  <2> DEFINE a == <<R!Edge("low", "other"), R!Edge("high", "lead"), R!Edge("low", "leadSpace")>>
             b == [i \in 1..8 |-> IF i % 2 = 1 THEN mark ELSE R!Edge("low", spaces[i \div 2])]
             c == <<mark>>
  <2>2. /\ R!Edge("low", "other") \in EdgeSet /\ R!Edge("high", "lead") \in EdgeSet
        /\ R!Edge("low", "leadSpace") \in EdgeSet /\ mark \in EdgeSet
        /\ \A s \in {"short", "long", "both"} : R!Edge("low", s) \in EdgeSet
    BY DEF EdgeSet, R!Edge, R!Lengths
  <2>3. /\ a \in Seq(EdgeSet) /\ Len(a) = 3 /\ a[1] = R!Edge("low", "other")
        /\ a[2] = R!Edge("high", "lead") /\ a[3] = R!Edge("low", "leadSpace")
    BY <2>2
  <2>4. b \in [1..8 -> EdgeSet]
    <3> SUFFICES ASSUME NEW i \in 1..8
                 PROVE  (IF i % 2 = 1 THEN mark ELSE R!Edge("low", spaces[i \div 2])) \in EdgeSet
      OBVIOUS
    <3>1. i % 2 # 1 => i \div 2 \in 1..4
      OBVIOUS
    <3> HIDE DEF mark
    <3> QED
      BY <2>1, <2>2, <3>1
  <2>5. b \in Seq(EdgeSet) /\ Len(b) = 8
    <3> HIDE DEF b
    <3>1. PICK n \in Nat : n = 8
      OBVIOUS
    <3>2. b \in [1..n -> EdgeSet]
      BY <2>4, <3>1
    <3>3. b \in Seq(EdgeSet) /\ Len(b) = n
      BY <3>2, SequenceLength
    <3> QED
      BY <3>1, <3>3
  <2>6. c \in Seq(EdgeSet) /\ Len(c) = 1 /\ c[1] = mark
    BY <2>2
  <2>7. \A n \in 1..4 : /\ b[2 * n - 1] = mark
                        /\ b[2 * n] = R!Edge("low", spaces[n])
    <3> SUFFICES ASSUME NEW n \in 1..4
                 PROVE  b[2 * n - 1] = mark /\ b[2 * n] = R!Edge("low", spaces[n])
      OBVIOUS
    <3>1. /\ 2 * n - 1 \in 1..8 /\ (2 * n - 1) % 2 = 1
          /\ 2 * n \in 1..8 /\ (2 * n) % 2 # 1 /\ (2 * n) \div 2 = n
      OBVIOUS
    <3> HIDE DEF mark
    <3> QED
      BY <3>1
  <2> HIDE DEF a, b, c
  <2>8. /\ a \o b \in Seq(EdgeSet) /\ Len(a \o b) = 11
        /\ \A i \in 1..11 : (a \o b)[i] = IF i <= 3 THEN a[i] ELSE b[i - 3]
    <3>1. /\ a \o b \in Seq(EdgeSet) /\ Len(a \o b) = Len(a) + Len(b)
          /\ \A i \in 1..Len(a) + Len(b) : (a \o b)[i] = IF i <= Len(a) THEN a[i] ELSE b[i - Len(a)]
      BY <2>3, <2>5, ConcatProperties
    <3>2. Len(a) + Len(b) = 11
      BY <2>3, <2>5
    <3> QED
      BY <2>3, <3>1, <3>2
  <2> DEFINE d == a \o b
  <2> HIDE DEF d
  <2>9. /\ d \in Seq(EdgeSet) /\ Len(d) = 11
        /\ \A i \in 1..11 : d[i] = IF i <= 3 THEN a[i] ELSE b[i - 3]
    BY <2>8 DEF d
  <2>10. /\ f = d \o c /\ f \in Seq(EdgeSet) /\ Len(f) = 12
         /\ \A i \in 1..12 : f[i] = IF i <= 11 THEN d[i] ELSE c[i - 11]
    <3>1. f = d \o c
      BY <2>1 DEF a, b, c, d
    <3>2. /\ d \o c \in Seq(EdgeSet) /\ Len(d \o c) = Len(d) + Len(c)
          /\ \A i \in 1..Len(d) + Len(c) : (d \o c)[i] = IF i <= Len(d) THEN d[i] ELSE c[i - Len(d)]
      BY <2>6, <2>9, ConcatProperties
    <3>3. Len(d) + Len(c) = 12
      BY <2>6, <2>9
    <3> QED
      BY <2>9, <3>1, <3>2, <3>3
  <2>11. /\ f[1] = R!Edge("low", "other") /\ f[2] = R!Edge("high", "lead")
         /\ f[3] = R!Edge("low", "leadSpace") /\ f[12] = mark
    <3> HIDE DEF mark
    <3>1. /\ 1 \in 1..11 /\ 2 \in 1..11 /\ 3 \in 1..11 /\ 1 \in 1..12 /\ 2 \in 1..12 /\ 3 \in 1..12
          /\ 12 \in 1..12 /\ 12 - 11 = 1
      OBVIOUS
    <3>2. f[1] = d[1] /\ f[2] = d[2] /\ f[3] = d[3] /\ f[12] = c[1]
      <4>1. \A i \in 1..12 : f[i] = IF i <= 11 THEN d[i] ELSE c[i - 11]
        BY <2>10
      <4>2. f[12] = IF 12 <= 11 THEN d[12] ELSE c[12 - 11]
        BY <3>1, <4>1, Zenon
      <4>3. /\ f[1] = IF 1 <= 11 THEN d[1] ELSE c[1 - 11]
            /\ f[2] = IF 2 <= 11 THEN d[2] ELSE c[2 - 11]
            /\ f[3] = IF 3 <= 11 THEN d[3] ELSE c[3 - 11]
        BY <3>1, <4>1, Zenon
      <4> QED
        BY <4>2, <4>3
    <3>3. d[1] = a[1] /\ d[2] = a[2] /\ d[3] = a[3]
      BY <2>9, <3>1
    <3> QED
      BY <2>3, <2>6, <3>2, <3>3
  <2>12. \A n \in 1..4 : f[2 * n + 2] = mark /\ f[2 * n + 3] = R!Edge("low", spaces[n])
    <3> SUFFICES ASSUME NEW n \in 1..4
                 PROVE  f[2 * n + 2] = mark /\ f[2 * n + 3] = R!Edge("low", spaces[n])
      OBVIOUS
    <3>1. /\ 2 * n + 2 \in 1..12 /\ 2 * n + 2 <= 11 /\ 2 * n + 3 \in 1..12 /\ 2 * n + 3 <= 11
          /\ 2 * n + 2 \in 1..11 /\ ~(2 * n + 2 <= 3) /\ (2 * n + 2) - 3 = 2 * n - 1
          /\ 2 * n + 3 \in 1..11 /\ ~(2 * n + 3 <= 3) /\ (2 * n + 3) - 3 = 2 * n
      OBVIOUS
    <3>2. f[2 * n + 2] = d[2 * n + 2] /\ f[2 * n + 3] = d[2 * n + 3]
      BY <2>10, <3>1
    <3>3. d[2 * n + 2] = b[2 * n - 1] /\ d[2 * n + 3] = b[2 * n]
      BY <2>9, <3>1
    <3> QED
      BY <2>7, <3>2, <3>3
  <2>13. ASSUME NEW i \in 1..12
         PROVE  Sent(k, i, f[i])
    <3>1. CASE i \in {1, 2, 3, 12}
      BY <1>2, <2>11, <3>1 DEF Sent, mark
    <3>2. ASSUME NEW n \in 1..4, i = 2 * n + 2
          PROVE  Sent(k, i, f[i])
      BY <1>2, <2>12, <3>2 DEF Sent, mark
    <3>3. ASSUME NEW n \in 1..4, i = 2 * n + 3
          PROVE  Sent(k, i, f[i])
      <4>1. f[i] = R!Edge("low", spaces[n])
        BY <2>12, <3>3
      <4>2. R!Edge("low", spaces[n]).level = "low" /\ R!Edge("low", spaces[n]).dt = spaces[n]
        BY DEF R!Edge
      <4>3. IF k[n] = 0 THEN spaces[n] = "short" ELSE spaces[n] \in R!Space1
        BY <2>1 DEF R!Space1
      <4> QED
        BY <1>2, <3>3, <4>1, <4>2, <4>3 DEF Sent
    <3>4. i \in {1, 2, 3, 12} \/ \E n \in 1..4 : i = 2 * n + 2 \/ i = 2 * n + 3
      <4>1. i \in {1, 2, 3, 4, 5, 6, 7, 8, 9, 10, 11, 12}
        OBVIOUS
      <4>2. /\ 4 = 2 * 1 + 2 /\ 5 = 2 * 1 + 3 /\ 6 = 2 * 2 + 2 /\ 7 = 2 * 2 + 3
            /\ 8 = 2 * 3 + 2 /\ 9 = 2 * 3 + 3 /\ 10 = 2 * 4 + 2 /\ 11 = 2 * 4 + 3
        OBVIOUS
      <4> QED
        BY <4>1, <4>2
    <3> QED
      BY <3>1, <3>2, <3>3, <3>4
  <2>14. Size(k) = 12
    BY <1>2 DEF Size
  <2> QED
    BY <2>10, <2>13, <2>14
<1> QED
  BY <1>1, <1>2

(* The next edge of a frame, and what is left of it.                        *)
LEMMA FrameGoesOn ==
  ASSUME FrameUnderWay, key \in R!Keys \cup {R!Repeat}, sending # <<>>, sending' = Tail(sending),
         key' = key
  PROVE  LET n == Size(key) - Len(sending) + 1
         IN  /\ n \in 1..Size(key) /\ Size(key) \in {4, 12}
             /\ Head(sending) \in EdgeSet /\ Sent(key, n, Head(sending))
             /\ FrameUnderWay' /\ Size(key') - Len(sending') + 1 = n + 1
             /\ sending' = <<>> <=> n = Size(key)
<1> DEFINE n == Size(key) - Len(sending) + 1
<1>1. /\ sending \in Seq(EdgeSet) /\ Size(key) - Len(sending) \in Nat
      /\ \A i \in 1..Len(sending) : Sent(key, Size(key) - Len(sending) + i, sending[i])
  BY DEF FrameUnderWay, EdgeSet
<1>2. /\ sending' \in Seq(EdgeSet) /\ Head(sending) \in EdgeSet /\ Head(sending) = sending[1]
      /\ Len(sending) \in Nat \ {0} /\ Len(sending') = Len(sending) - 1
      /\ \A i \in 1..Len(sending') : i + 1 \in 1..Len(sending) /\ sending'[i] = sending[i + 1]
      /\ sending' = <<>> <=> Len(sending) = 1
  BY <1>1, Taken
<1>3. Size(key) \in {4, 12} /\ Size(key') = Size(key)
  BY DEF Size
<1>4. n \in 1..Size(key) /\ (Len(sending) = 1 <=> n = Size(key))
  BY <1>1, <1>2, <1>3
<1>5. Sent(key, n, Head(sending))
  BY <1>1, <1>2
<1>6. FrameUnderWay'
  <2>1. ASSUME NEW i \in 1..Len(sending')
        PROVE  Sent(key, Size(key) - Len(sending') + i, sending'[i])
    <3>1. Size(key) - Len(sending') + i = Size(key) - Len(sending) + (i + 1)
      BY <1>2, <1>3
    <3> QED
      BY <1>1, <1>2, <3>1
  <2>2. Size(key') - Len(sending') \in Nat
    BY <1>1, <1>2, <1>3
  <2> QED
    BY <1>2, <1>3, <2>1, <2>2 DEF FrameUnderWay, EdgeSet
<1>7. Size(key') - Len(sending') + 1 = n + 1
  BY <1>1, <1>2, <1>3
<1> QED
  BY <1>2, <1>3, <1>4, <1>5, <1>6, <1>7

(* Any edge leaves the receiver in a state of its own.                      *)
LEMMA SeenTyped ==
  ASSUME ReceiverTypes, NEW e \in EdgeSet, R!ir_isr(e), key' = key, intact' \in BOOLEAN, noise' \in Nat
  PROVE  ReceiverTypes'
<1>1. CASE e.level = "low"
  <2>1. R!SpaceEnds(e.dt)
    BY <1>1 DEF R!ir_isr
  <2> DEFINE v == IF e.dt = "short" THEN 0 ELSE 1
  <2>2. \/ irState' = "bitMark" /\ irValue' = <<>>
        \/ irState' \in {"repeatMark", "leadMark"} /\ irValue' = irValue
        \/ /\ irState = "bitSpace" /\ irValue' = Append(irValue, v)
           /\ irState' = IF Len(irValue') = 4 THEN "stopMark" ELSE "bitMark"
    BY <2>1, SpaceSeen
  <2>3. irValue \in Seq({0, 1}) /\ v \in {0, 1}
    BY DEF ReceiverTypes
  <2> HIDE DEF v
  <2>4. Append(irValue, v) \in Seq({0, 1}) /\ Len(Append(irValue, v)) = Len(irValue) + 1
        /\ Len(irValue) \in Nat
    BY <2>3, Appended
  <2>5. <<>> \in Seq({0, 1}) /\ Len(<<>>) = 0
    BY EmptySeq
  <2>6. /\ irState' \in {"bitMark", "repeatMark", "leadMark", "stopMark"}
        /\ irValue' \in Seq({0, 1}) /\ Len(irValue') <= 4
        /\ irState' = "stopMark" => Len(irValue') = 4
        /\ irState' = "bitMark" => Len(irValue') < 4
    <3>1. CASE irState' = "bitMark" /\ irValue' = <<>>
      BY <2>5, <3>1
    <3>2. CASE irState' \in {"repeatMark", "leadMark"} /\ irValue' = irValue
      BY <3>2 DEF ReceiverTypes
    <3>3. CASE /\ irState = "bitSpace" /\ irValue' = Append(irValue, v)
               /\ irState' = IF Len(irValue') = 4 THEN "stopMark" ELSE "bitMark"
      <4>1. Len(irValue) < 4
        BY <3>3 DEF ReceiverTypes
      <4>2. irValue' \in Seq({0, 1}) /\ Len(irValue') = Len(irValue) + 1
        BY <2>4, <3>3
      <4> QED
        BY <2>4, <3>3, <4>1, <4>2
    <3> QED
      BY <2>2, <3>1, <3>2, <3>3
  <2> QED
    BY <2>6 DEF ReceiverTypes
<1>2. CASE e.level = "high"
  <2>1. R!MarkEnds(e.dt)
    BY <1>2 DEF R!ir_isr
  <2>2. /\ irValue' = irValue /\ irState' \in {"leadSpace", "bitSpace", "idle"}
        /\ irState' = "bitSpace" => irState = "bitMark"
    BY <2>1, MarkSeen
  <2> QED
    BY <2>2 DEF ReceiverTypes
<1> QED
  BY <1>1, <1>2 DEF EdgeSet

(* The levels of the edges of a frame.                                      *)
LEMMA Levels ==
  ASSUME NEW k, NEW n, NEW e, Sent(k, n, e)
  PROVE  /\ e.level = IF n \in {1, 3, 5, 7, 9, 11} THEN "low" ELSE "high"
         /\ n \in 1..12
         /\ n # 1 => e.dt # "other"
         /\ n = 1 => e.dt = "other"
         /\ n \notin {1, 2} => e.dt # "lead"
<1>1. ASSUME NEW b \in 1..4, n = 2 * b + 2
      PROVE  n \notin {1, 3, 5, 7, 9, 11} /\ n \in 1..12 /\ n # 2
  BY <1>1
<1>2. ASSUME NEW b \in 1..4, n = 2 * b + 3
      PROVE  n \in {1, 3, 5, 7, 9, 11} /\ n \in 1..12 /\ n # 1
  BY <1>2
<1> QED
  BY <1>1, <1>2 DEF Sent, R!Edge, R!RepeatSpace, R!Space1

(* An edge as it is due keeps the receiver in step.                         *)
LEMMA InStepSeen ==
  ASSUME ReceiverTypes, NEW k \in R!Keys \cup {R!Repeat}, NEW n, NEW e,
         n = 1 \/ InStep(k, n), n # Size(k), Sent(k, n, e), R!ir_isr(e)
  PROVE  /\ published' = published /\ InStep(k, n + 1)'
         /\ n = 3 /\ k # R!Repeat => Wrong(k)' = {}
         /\ n > 3 => Wrong(k)' = Wrong(k)
<1>1. e.level = "low" => R!SpaceEnds(e.dt)
  BY DEF R!ir_isr
<1>2. e.level = "high" => R!MarkEnds(e.dt)
  BY DEF R!ir_isr
<1>3. Size(k) = IF k = R!Repeat THEN 4 ELSE 12
  BY DEF Size
<1>4. CASE n = 1 /\ e = R!Edge("low", "other")
  <2>1. e.level = "low" /\ e.dt = "other"
    BY <1>4 DEF R!Edge
  <2>2. published' = published /\ irState' = "leadMark"
    BY <1>1, <2>1, SpaceSeen DEF R!RepeatSpace, R!Space1
  <2> QED
    BY <1>4, <2>2 DEF InStep
<1>5. CASE n = 2 /\ e = R!Edge("high", "lead")
  <2>1. e.level = "high" /\ e.dt = "lead"
    BY <1>5 DEF R!Edge
  <2>2. irState = "leadMark"
    BY <1>5 DEF InStep
  <2>3. published' = published /\ irState' = "leadSpace"
    BY <1>2, <2>1, <2>2, MarkSeen
  <2> QED
    BY <1>5, <2>3 DEF InStep
<1>6. CASE n = 3 /\ k = R!Repeat /\ e.level = "low" /\ e.dt \in R!RepeatSpace
  <2>1. irState = "leadSpace"
    BY <1>6 DEF InStep
  <2>2. published' = published /\ irState' = "repeatMark" /\ irValue' = irValue
    BY <1>1, <1>6, <2>1, SpaceSeen
  <2> QED
    BY <1>6, <2>2 DEF InStep
<1>7. CASE n = 3 /\ k # R!Repeat /\ e = R!Edge("low", "leadSpace")
  <2>1. e.level = "low" /\ e.dt = "leadSpace"
    BY <1>7 DEF R!Edge
  <2>2. irState = "leadSpace"
    BY <1>7 DEF InStep
  <2>3. published' = published /\ irState' = "bitMark" /\ irValue' = <<>>
    BY <1>1, <2>1, <2>2, SpaceSeen
  <2>4. Len(irValue') = 0
    BY <2>3
  <2>5. Wrong(k)' = {}
    BY <2>4 DEF Wrong
  <2>6. 1 \in 1..4 /\ n + 1 = 2 * 1 + 2 /\ Len(irValue') = 1 - 1
    BY <1>7, <2>4
  <2>7. InStep(k, n + 1)'
    BY <1>7, <2>3, <2>6 DEF InStep
  <2> QED
    BY <1>7, <2>3, <2>5, <2>7
<1>8. ASSUME k # R!Repeat, NEW b \in 1..4, n = 2 * b + 2, e = R!Edge("high", "short")
      PROVE  /\ published' = published /\ InStep(k, n + 1)'
             /\ n > 3 /\ Wrong(k)' = Wrong(k)
  <2>1. e.level = "high" /\ e.dt = "short"
    BY <1>8 DEF R!Edge
  <2>2. irState = "bitMark" /\ Len(irValue) = b - 1
    BY <1>3, <1>8 DEF InStep
  <2>3. published' = published /\ irState' = "bitSpace" /\ irValue' = irValue
    BY <1>2, <2>1, <2>2, MarkSeen
  <2>4. n + 1 = 2 * b + 3
    BY <1>8
  <2>5. InStep(k, n + 1)'
    BY <1>8, <2>2, <2>3, <2>4 DEF InStep
  <2>6. Wrong(k)' = Wrong(k)
    BY <2>3 DEF Wrong
  <2> QED
    BY <1>8, <2>3, <2>5, <2>6
<1>9. ASSUME k # R!Repeat, NEW b \in 1..4, n = 2 * b + 3, e.level = "low",
             IF k[b] = 0 THEN e.dt = "short" ELSE e.dt \in R!Space1
      PROVE  /\ published' = published /\ InStep(k, n + 1)'
             /\ n > 3 /\ Wrong(k)' = Wrong(k)
  <2>1. irState = "bitSpace" /\ Len(irValue) = b - 1
    BY <1>3, <1>9 DEF InStep
  <2>2. k[b] \in {0, 1} /\ e.dt \in R!Space1 \cup {"short"}
    BY <1>9, KeyBits
  <2>3. (IF e.dt = "short" THEN 0 ELSE 1) = k[b]
    BY <1>9, <2>2 DEF R!Space1
  <2>4. /\ published' = published /\ irValue' = Append(irValue, k[b])
        /\ irState' = IF Len(irValue') = 4 THEN "stopMark" ELSE "bitMark"
    BY <1>1, <1>9, <2>1, <2>2, <2>3, SpaceSeen
  <2>5. irValue \in Seq({0, 1})
    BY DEF ReceiverTypes
  <2>6. /\ Len(irValue') = b /\ irValue'[b] = k[b]
        /\ \A i \in 1..b - 1 : irValue'[i] = irValue[i]
    BY <2>1, <2>2, <2>4, <2>5, Appended
  <2>7. InStep(k, n + 1)'
    <3>1. CASE b = 4
      <4>1. n + 1 = 12 /\ irState' = "stopMark"
        BY <1>9, <2>4, <2>6, <3>1
      <4> QED
        BY <1>9, <4>1 DEF InStep
    <3>2. CASE b # 4
      <4>1. b + 1 \in 1..4 /\ n + 1 = 2 * (b + 1) + 2 /\ irState' = "bitMark" /\ Len(irValue') = (b + 1) - 1
        BY <1>9, <2>4, <2>6, <3>2
      <4> QED
        BY <1>9, <4>1 DEF InStep
    <3> QED
      BY <3>1, <3>2
  <2>8. Wrong(k)' = Wrong(k)
    <3>1. ASSUME NEW i \in 1..4
          PROVE  i \in Wrong(k)' <=> i \in Wrong(k)
      BY <2>1, <2>6 DEF Wrong
    <3> QED
      BY <3>1 DEF Wrong
  <2> QED
    BY <1>9, <2>4, <2>7, <2>8
<1>10. \/ n = 1 /\ e = R!Edge("low", "other")
       \/ n = 2 /\ e = R!Edge("high", "lead")
       \/ n = 3 /\ k = R!Repeat /\ e.level = "low" /\ e.dt \in R!RepeatSpace
       \/ n = 3 /\ k # R!Repeat /\ e = R!Edge("low", "leadSpace")
       \/ k # R!Repeat /\ \E b \in 1..4 : n = 2 * b + 2 /\ e = R!Edge("high", "short")
       \/ k # R!Repeat /\ \E b \in 1..4 : /\ n = 2 * b + 3 /\ e.level = "low"
                                          /\ IF k[b] = 0 THEN e.dt = "short" ELSE e.dt \in R!Space1
  BY <1>3 DEF Sent
<1> QED
  BY <1>4, <1>5, <1>6, <1>7, <1>8, <1>9, <1>10

(* Out of step, the rest of a frame is at most taken for a repeat, but that *)
(* a lost first edge may not matter.                                        *)
LEMMA OutOfStepSeen ==
  ASSUME NEW k \in R!Keys \cup {R!Repeat}, NEW n, NEW e, Sent(k, n, e), OutOfStep(k, n), R!ir_isr(e),
         published \in {<<>>, <<R!Repeat>>}
  PROVE  /\ published' \in {<<>>, <<R!Repeat>>}
         /\ OutOfStep(k, n + 1)' \/ (n = 2 /\ InStep(k, n + 1)' /\ published' = <<>>) \/ n = Size(k)
<1>1. e.level = "low" => R!SpaceEnds(e.dt)
  BY DEF R!ir_isr
<1>2. e.level = "high" => R!MarkEnds(e.dt)
  BY Levels DEF R!ir_isr
<1>3. /\ e.level = IF n \in {1, 3, 5, 7, 9, 11} THEN "low" ELSE "high"
      /\ n \in 1..12 /\ (n \notin {1, 2} => e.dt # "lead")
  BY Levels
<1>4. CASE n = 2 /\ irState # "stopMark" /\ published = <<>>
  <2>1. e.level = "high" /\ R!MarkEnds(e.dt)
    BY <1>2, <1>3, <1>4
  <2>2. e.dt = "lead"
    BY <1>4 DEF Sent, R!Edge
  <2>3. CASE irState = "leadMark"
    <3>1. irState' = "leadSpace" /\ published' = published
      BY <2>1, <2>2, <2>3, MarkSeen
    <3> QED
      BY <1>4, <3>1 DEF InStep
  <2>4. CASE irState # "leadMark"
    <3>1. irState' = "idle"
      BY <2>1, <2>2, <2>4, MarkSeen
    <3>2. published' = published \/ published' = Append(published, R!Repeat)
      BY <1>4, <2>1, MarkSeen
    <3>3. Append(<<>>, R!Repeat) = <<R!Repeat>>
      OBVIOUS
    <3>4. published' \in {<<>>, <<R!Repeat>>}
      BY <1>4, <3>2, <3>3, Zenon
    <3> QED
      BY <1>4, <3>1, <3>4 DEF OutOfStep
  <2> QED
    BY <2>3, <2>4
<1>5. CASE n >= 3 /\ irState \in {"idle", "leadMark"}
  <2>1. published' = published /\ irState' \in {"idle", "leadMark"}
    <3>1. CASE e.level = "low"
      BY <1>1, <1>5, <3>1, SpaceSeen
    <3>2. CASE e.level = "high"
      BY <1>2, <1>3, <1>5, <3>2, MarkSeen
    <3> QED
      BY <1>3, <3>1, <3>2
  <2>2. OutOfStep(k, n + 1)'
    BY <1>3, <1>5, <2>1 DEF OutOfStep
  <2> QED
    BY <2>1, <2>2
<1>6. CASE n \in {5, 7, 9, 11} /\ irState = "bitMark"
  <2>1. R!SpaceEnds(e.dt)
    BY <1>1, <1>3, <1>6
  <2>2. published' = published /\ irState' = "leadMark"
    BY <1>6, <2>1, SpaceSeen
  <2>3. OutOfStep(k, n + 1)'
    BY <1>6, <2>2 DEF OutOfStep
  <2> QED
    BY <2>2, <2>3
<1>7. CASE n \in {4, 6, 8, 10, 12} /\ irState \in {"leadSpace", "bitSpace"}
  <2>1. R!MarkEnds(e.dt)
    BY <1>2, <1>3, <1>7
  <2>2. published' = published /\ irState' = "idle"
    BY <1>7, <2>1, MarkSeen
  <2>3. OutOfStep(k, n + 1)'
    BY <1>7, <2>2 DEF OutOfStep
  <2> QED
    BY <2>2, <2>3
<1>8. CASE n = 4 /\ k # R!Repeat /\ irState = "repeatMark" /\ published = <<>>
  <2>1. R!MarkEnds(e.dt)
    BY <1>2, <1>3, <1>8
  <2>2. published' = Append(published, R!Repeat) /\ irState' = "idle"
    BY <1>8, <2>1, MarkSeen
  <2>3. Append(<<>>, R!Repeat) = <<R!Repeat>>
    OBVIOUS
  <2>4. published' \in {<<>>, <<R!Repeat>>}
    BY <1>8, <2>2, <2>3, Zenon
  <2>5. OutOfStep(k, n + 1)'
    BY <1>8, <2>2 DEF OutOfStep
  <2> QED
    BY <2>4, <2>5
<1>9. CASE n = 4 /\ k = R!Repeat /\ irState = "bitMark"
  <2>1. R!MarkEnds(e.dt)
    BY <1>2, <1>3, <1>9
  <2>2. published' = published
    BY <1>9, <2>1, MarkSeen
  <2> QED
    BY <1>9, <2>2 DEF Size
<1> QED
  BY <1>4, <1>5, <1>6, <1>7, <1>8, <1>9 DEF OutOfStep

(* One bent edge makes one bit wrong, or throws the receiver out of step.   *)
LEMMA BendSeen ==
  ASSUME ReceiverTypes, NEW k \in R!Keys \cup {R!Repeat}, NEW n, NEW h, NEW e,
         Sent(k, n, h), InStep(k, n), n # Size(k), n > 3 /\ k # R!Repeat => Wrong(k) = {},
         e.level = h.level, e.dt # h.dt, R!ir_isr(e), published = <<>>
  PROVE  /\ published' = <<>>
         /\ \/ InStep(k, n + 1)' /\ (n >= 3 /\ k # R!Repeat => OneWrong(k)')
            \/ OutOfStep(k, n + 1)'
<1>1. e.level = "low" => R!SpaceEnds(e.dt)
  BY DEF R!ir_isr
<1>2. e.level = "high" => R!MarkEnds(e.dt)
  BY DEF R!ir_isr
<1>3. Size(k) = IF k = R!Repeat THEN 4 ELSE 12
  BY DEF Size
<1>4. CASE n = 2 /\ h = R!Edge("high", "lead")
  <2>1. e.level = "high" /\ e.dt # "lead"
    BY <1>4 DEF R!Edge
  <2>2. irState = "leadMark"
    BY <1>4 DEF InStep
  <2>3. published' = published /\ irState' = "idle"
    BY <1>2, <2>1, <2>2, MarkSeen
  <2>4. OutOfStep(k, n + 1)'
    BY <1>4, <2>3 DEF OutOfStep
  <2> QED
    BY <2>3, <2>4
<1>5. CASE n = 3 /\ h.level = "low" /\ (k # R!Repeat => h.dt = "leadSpace")
  <2>1. irState = "leadSpace"
    BY <1>5 DEF InStep
  <2>2. R!SpaceEnds(e.dt)
    BY <1>1, <1>5
  <2>3. /\ published' = published
        /\ e.dt = "leadSpace" => irState' = "bitMark"
        /\ e.dt \in R!RepeatSpace => irState' = "repeatMark"
        /\ e.dt # "leadSpace" /\ e.dt \notin R!RepeatSpace => irState' = "leadMark"
    BY <2>1, <2>2, SpaceSeen
  <2>4. n + 1 = 4
    BY <1>5
  <2>5. CASE k = R!Repeat
    <3>1. CASE irState' = "bitMark" \/ irState' = "leadMark"
      BY <2>3, <2>4, <2>5, <3>1 DEF OutOfStep
    <3>2. CASE irState' = "repeatMark"
      BY <2>3, <2>4, <2>5, <3>2 DEF InStep
    <3> QED
      BY <2>3, <3>1, <3>2
  <2>6. CASE k # R!Repeat
    <3>1. irState' \in {"repeatMark", "leadMark"}
      BY <1>5, <2>3, <2>6
    <3>2. OutOfStep(k, n + 1)'
      BY <2>3, <2>4, <2>6, <3>1 DEF OutOfStep
    <3> QED
      BY <2>3, <3>2
  <2> QED
    BY <2>5, <2>6
<1>6. ASSUME k # R!Repeat, NEW b \in 1..4, n = 2 * b + 2, h = R!Edge("high", "short")
      PROVE  published' = <<>> /\ OutOfStep(k, n + 1)'
  <2>1. e.level = "high" /\ e.dt # "short"
    BY <1>6 DEF R!Edge
  <2>2. irState = "bitMark"
    BY <1>3, <1>6 DEF InStep
  <2>3. published' = published /\ irState' = "idle"
    BY <1>2, <2>1, <2>2, MarkSeen
  <2>4. OutOfStep(k, n + 1)'
    BY <1>6, <2>3 DEF OutOfStep
  <2> QED
    BY <2>3, <2>4
<1>7. ASSUME k # R!Repeat, NEW b \in 1..4, n = 2 * b + 3, h.level = "low"
      PROVE  published' = <<>> /\ ((InStep(k, n + 1)' /\ OneWrong(k)') \/ OutOfStep(k, n + 1)')
  <2>1. irState = "bitSpace" /\ Len(irValue) = b - 1 /\ R!SpaceEnds(e.dt)
    BY <1>1, <1>3, <1>7 DEF InStep
  <2> DEFINE v == IF e.dt = "short" THEN 0 ELSE 1
  <2>2. CASE e.dt \in R!Space1 \cup {"short"}
    <3>1. /\ published' = published /\ irValue' = Append(irValue, v)
          /\ irState' = IF Len(irValue') = 4 THEN "stopMark" ELSE "bitMark"
      BY <2>1, <2>2, SpaceSeen
    <3>2. irValue \in Seq({0, 1}) /\ v \in {0, 1}
      BY DEF ReceiverTypes
    <3> HIDE DEF v
    <3>3. Len(irValue') = b /\ \A i \in 1..b - 1 : irValue'[i] = irValue[i]
      BY <2>1, <3>1, <3>2, Appended
    <3>4. InStep(k, n + 1)'
      <4>1. CASE b = 4
        <5>1. n + 1 = 12 /\ irState' = "stopMark"
          BY <1>7, <3>1, <3>3, <4>1
        <5> QED
          BY <1>7, <5>1 DEF InStep
      <4>2. CASE b # 4
        <5>1. b + 1 \in 1..4 /\ n + 1 = 2 * (b + 1) + 2 /\ irState' = "bitMark" /\ Len(irValue') = (b + 1) - 1
          BY <1>7, <3>1, <3>3, <4>2
        <5> QED
          BY <1>7, <5>1 DEF InStep
      <4> QED
        BY <4>1, <4>2
    <3>5. Wrong(k) = {}
      BY <1>7
    <3>6. \A i \in 1..b - 1 : irValue[i] = k[i]
      BY <2>1, <3>5 DEF Wrong
    <3>7. OneWrong(k)'
      <4>1. \A i \in Wrong(k)' : i = b
        BY <3>3, <3>6 DEF Wrong
      <4> QED
        BY <4>1 DEF OneWrong
    <3> QED
      BY <3>1, <3>4, <3>7
  <2>3. CASE e.dt \notin R!Space1 \cup {"short"}
    <3>1. published' = published /\ irState' = "leadMark"
      BY <2>1, <2>3, SpaceSeen
    <3>2. OutOfStep(k, n + 1)'
      BY <1>7, <3>1 DEF OutOfStep
    <3> QED
      BY <3>1, <3>2
  <2> QED
    BY <2>2, <2>3
<1>8. \/ n = 2 /\ h = R!Edge("high", "lead")
      \/ n = 3 /\ h.level = "low" /\ (k # R!Repeat => h.dt = "leadSpace")
      \/ k # R!Repeat /\ \E b \in 1..4 : n = 2 * b + 2 /\ h = R!Edge("high", "short")
      \/ k # R!Repeat /\ \E b \in 1..4 : n = 2 * b + 3 /\ h.level = "low"
  <2>1. n # 1
    BY DEF InStep
  <2>2. R!Edge("low", "leadSpace").level = "low" /\ R!Edge("low", "leadSpace").dt = "leadSpace"
    BY DEF R!Edge
  <2> QED
    BY <1>3, <2>1, <2>2 DEF Sent
<1> QED
  BY <1>4, <1>5, <1>6, <1>7, <1>8

(* None of the keys in p is another key than k of the same remote.          *)
NoOther(p, k) ==
  \A i \in DOMAIN p : p[i] \in {k, R!Repeat} \/ SubSeq(p[i], 1, 2) # SubSeq(k, 1, 2)

(* Nothing, a repeat or the key itself is no other key.                     *)
LEMMA OneOfThese ==
  ASSUME NEW k, NEW p, p = <<>> \/ p = <<R!Repeat>> \/ p = <<k>>
  PROVE  NoOther(p, k)
<1>1. p = <<>> => NoOther(p, k)
  BY DEF NoOther
<1>2. ASSUME NEW v, v \in {k, R!Repeat}, p = <<v>>
      PROVE  NoOther(p, k)
  BY <1>2 DEF NoOther
<1> QED
  BY <1>1, <1>2

(* Four bits with at most one of them wrong are the key, or fail the check  *)
(* of the command, or are the repeat, or name another remote.               *)
LEMMA OneBitOff ==
  ASSUME NEW k \in R!Keys, NEW v \in Seq({0, 1}), Len(v) = 4,
         \A i, j \in 1..4 : v[i] # k[i] /\ v[j] # k[j] => i = j
  PROVE  /\ (\A i \in 1..4 : v[i] = k[i]) => v = k
         /\ v[3] = v[4] \/ v = k \/ SubSeq(v, 1, 2) # SubSeq(k, 1, 2)
<1>1. k \in [1..4 -> {0, 1}] /\ k[3] # k[4]
  <2>1. 0..1 = {0, 1} /\ R!Bits = 4
    BY DEF R!Bits
  <2> QED
    BY <2>1 DEF R!Keys
<1>2. k \in Seq({0, 1}) /\ Len(k) = 4
  <2>1. PICK n \in Nat : n = 4
    OBVIOUS
  <2>2. k \in [1..n -> {0, 1}]
    BY <1>1, <2>1
  <2> QED
    BY <2>1, <2>2, SequenceLength
<1>3. (\A i \in 1..4 : v[i] = k[i]) => v = k
  BY <1>2, SeqEqual
<1>4. ASSUME SubSeq(v, 1, 2) = SubSeq(k, 1, 2)
      PROVE  v[1] = k[1] /\ v[2] = k[2]
  <2>1. \A s \in Seq({0, 1}) : Len(s) = 4 => SubSeq(s, 1, 2)[1] = s[1] /\ SubSeq(s, 1, 2)[2] = s[2]
    BY SubSeqProperties
  <2> QED
    BY <1>2, <1>4, <2>1
<1>5. \A i \in 1..4 : v[i] \in {0, 1} /\ k[i] \in {0, 1}
  BY <1>1, ElementOfSeq
<1>6. ASSUME v[1] = k[1], v[2] = k[2], v[3] # v[4]
      PROVE  v = k
  <2>1. v[3] # k[3] /\ v[4] # k[4] => FALSE
    <3>1. 3 \in 1..4 /\ 4 \in 1..4 /\ 3 # 4
      OBVIOUS
    <3> QED
      BY <3>1
  <2>2. /\ v[3] \in {0, 1} /\ v[4] \in {0, 1} /\ k[3] \in {0, 1} /\ k[4] \in {0, 1}
    BY <1>5
  <2>3. v[3] = k[3] /\ v[4] = k[4]
    BY <1>1, <1>6, <2>1, <2>2
  <2>4. \A i \in 1..4 : i = 1 \/ i = 2 \/ i = 3 \/ i = 4
    OBVIOUS
  <2>5. \A i \in 1..4 : v[i] = k[i]
    BY <1>6, <2>3, <2>4
  <2> QED
    BY <1>3, <2>5
<1> QED
  BY <1>3, <1>4, <1>6

(* The last edge of a frame that is in step.                                *)
LEMMA FrameEnds ==
  ASSUME ReceiverTypes, NEW k \in R!Keys \cup {R!Repeat}, NEW e, InStep(k, Size(k)),
         k # R!Repeat => OneWrong(k), published = <<>>, e.level = "high", R!ir_isr(e)
  PROVE  /\ k = R!Repeat \/ Wrong(k) = {} => published' = <<k>>
         /\ NoOther(published', k)
<1>1. R!MarkEnds(e.dt)
  BY DEF R!ir_isr
<1>2. CASE k = R!Repeat
  <2>1. irState = "repeatMark"
    BY <1>2 DEF InStep, Size
  <2>2. published' = Append(published, R!Repeat)
    BY <1>1, <2>1, MarkSeen
  <2>3. Append(<<>>, R!Repeat) = <<R!Repeat>>
    OBVIOUS
  <2>4. published' = <<k>>
    BY <1>2, <2>2, <2>3, Zenon
  <2> QED
    BY <2>4, OneOfThese
<1>3. CASE k # R!Repeat
  <2>1. irState = "stopMark"
    <3>1. Size(k) = 12
      BY <1>3 DEF Size
    <3> QED
      BY <1>3, <3>1 DEF InStep
  <2>2. published' = IF irValue # R!Repeat /\ irValue[3] = irValue[4] THEN published
                     ELSE Append(published, irValue)
    BY <1>1, <2>1, MarkSeen
  <2>3. Append(<<>>, irValue) = <<irValue>>
    OBVIOUS
  <2>4. \/ published' = <<>> /\ irValue # R!Repeat /\ irValue[3] = irValue[4]
        \/ published' = <<irValue>> /\ ~(irValue # R!Repeat /\ irValue[3] = irValue[4])
    BY <2>2, <2>3, Zenon
  <2>5. /\ k \in R!Keys /\ irValue \in Seq({0, 1}) /\ Len(irValue) = 4
        /\ \A i, j \in 1..4 : irValue[i] # k[i] /\ irValue[j] # k[j] => i = j
    <3>1. k \in R!Keys /\ irValue \in Seq({0, 1}) /\ Len(irValue) = 4
      BY <1>3, <2>1 DEF ReceiverTypes
    <3>2. \A i, j \in 1..4 : irValue[i] # k[i] /\ irValue[j] # k[j] => i = j
      BY <1>3, <3>1 DEF OneWrong, Wrong
    <3> QED
      BY <3>1, <3>2
  <2>6. /\ (\A i \in 1..4 : irValue[i] = k[i]) => irValue = k
        /\ irValue[3] = irValue[4] \/ irValue = k \/ SubSeq(irValue, 1, 2) # SubSeq(k, 1, 2)
    BY <2>5, OneBitOff
  <2>7. Wrong(k) = {} => published' = <<k>>
    <3>1. Wrong(k) = {} => \A i \in 1..4 : irValue[i] = k[i]
      BY <2>5 DEF Wrong
    <3>2. k[3] # k[4]
      BY <2>5, KeyBits
    <3> QED
      BY <2>4, <2>6, <3>1, <3>2, Zenon
  <2>8. NoOther(published', k)
    <3>1. published' = <<>> => NoOther(published', k)
      BY OneOfThese
    <3>2. ASSUME published' = <<irValue>>, ~(irValue # R!Repeat /\ irValue[3] = irValue[4])
          PROVE  NoOther(published', k)
      <4>1. irValue \in {k, R!Repeat} \/ SubSeq(irValue, 1, 2) # SubSeq(k, 1, 2)
        BY <2>6, <3>2, Zenon
      <4> QED
        BY <3>2, <4>1 DEF NoOther
    <3> QED
      BY <2>4, <3>1, <3>2
  <2> QED
    BY <1>3, <2>7, <2>8
<1> QED
  BY <1>2, <1>3

(* The invariant, from what an edge of a frame has done.                    *)
LEMMA EdgeDone ==
  ASSUME ReceiverTypes', FrameUnderWay', NEW k, NEW n \in Nat, key' = k, noise' = 0,
         Size(key') - Len(sending') + 1 = n + 1, n # 0,
         sending' = <<>> <=> n = Size(k),
         n # Size(k) =>
           \/ /\ published' = <<>> /\ InStep(k, n + 1)'
              /\ n >= 3 /\ k # R!Repeat => (intact' /\ Wrong(k)' = {}) \/ (~intact' /\ OneWrong(k)')
           \/ ~intact' /\ published' \in {<<>>, <<R!Repeat>>} /\ OutOfStep(k, n + 1)',
         n = Size(k) => (intact' => published' = <<k>>) /\ NoOther(published', k)
  PROVE  ReceiverInv'
<1>1. InStep(k, n + 1)' => InStep(key, Size(key) - Len(sending) + 1)'
  BY DEF InStep
<1>2. OutOfStep(k, n + 1)' => OutOfStep(key, Size(key) - Len(sending) + 1)'
  BY DEF OutOfStep
<1>3. Wrong(k)' = Wrong(key)'
  BY DEF Wrong
<1>4. OneWrong(k)' <=> OneWrong(key)'
  BY DEF OneWrong, Wrong
<1>5. Tracked'
  BY <1>1, <1>2, <1>3, <1>4 DEF Tracked
<1>6. R!KeyAsSent'
  BY DEF R!KeyAsSent, NoOther
<1> QED
  BY <1>5, <1>6 DEF ReceiverInv

(* An edge of the frame comes as it is due.                                 *)
LEMMA ReceiverNextEdge ==
  ASSUME ReceiverInv, R!NextEdge
  PROVE  ReceiverInv'
<1>1. PICK k : k = key
  OBVIOUS
<1>2. PICK n : n = Size(key) - Len(sending) + 1
  OBVIOUS
<1>3. PICK e : e = Head(sending)
  OBVIOUS
<1>4. ReceiverTypes /\ FrameUnderWay /\ Tracked /\ k \in R!Keys \cup {R!Repeat}
  BY <1>1 DEF ReceiverInv, ReceiverTypes
<1>5. sending # <<>> /\ R!ir_isr(e) /\ sending' = Tail(sending) /\ key' = k /\ intact' = intact /\ noise' = noise
  BY <1>1, <1>3 DEF R!NextEdge
<1>6. /\ n \in 1..Size(k) /\ Size(k) \in {4, 12} /\ e \in EdgeSet /\ Sent(k, n, e)
      /\ FrameUnderWay' /\ Size(key') - Len(sending') + 1 = n + 1
      /\ sending' = <<>> <=> n = Size(k)
  <2>1. /\ n \in 1..Size(key) /\ Size(key) \in {4, 12} /\ Head(sending) \in EdgeSet
        /\ Sent(key, n, Head(sending))
        /\ FrameUnderWay' /\ Size(key') - Len(sending') + 1 = n + 1
        /\ sending' = <<>> <=> n = Size(key)
    BY <1>1, <1>2, <1>4, <1>5, FrameGoesOn
  <2> QED
    BY <1>1, <1>3, <2>1
<1>7. intact \in BOOLEAN /\ noise \in Nat
  BY <1>4 DEF ReceiverTypes
<1>8. ReceiverTypes'
  BY <1>1, <1>4, <1>5, <1>6, <1>7, SeenTyped
<1>9. /\ noise = 0 /\ (n = 1 => intact)
      /\ intact => published = <<>> /\ (n = 1 \/ (InStep(k, n) /\ (n > 3 /\ k # R!Repeat => Wrong(k) = {})))
      /\ ~intact => \/ published = <<>> /\ InStep(k, n) /\ (n > 3 /\ k # R!Repeat => OneWrong(k))
                    \/ published \in {<<>>, <<R!Repeat>>} /\ OutOfStep(k, n)
  BY <1>1, <1>2, <1>4, <1>5 DEF Tracked
<1>10. n \in Nat /\ n # 0
  BY <1>6
<1>11. CASE n = Size(k)
  <2>1. e.level = "high" /\ n # 1 /\ n > 3
    BY <1>6, <1>11, Levels
  <2>2. CASE published = <<>> /\ InStep(k, n) /\ (k # R!Repeat => OneWrong(k) /\ (intact => Wrong(k) = {}))
    <3>1. /\ k = R!Repeat \/ Wrong(k) = {} => published' = <<k>>
          /\ NoOther(published', k)
      BY <1>4, <1>5, <1>11, <2>1, <2>2, FrameEnds
    <3> QED
      BY <1>5, <1>6, <1>8, <1>9, <1>10, <1>11, <2>2, <3>1, EdgeDone
  <2>3. CASE ~intact /\ published \in {<<>>, <<R!Repeat>>} /\ OutOfStep(k, n)
    <3>1. published' \in {<<>>, <<R!Repeat>>}
      BY <1>4, <1>5, <1>6, <2>3, OutOfStepSeen
    <3>2. NoOther(published', k)
      BY <3>1, OneOfThese
    <3> QED
      BY <1>5, <1>6, <1>8, <1>9, <1>10, <1>11, <2>3, <3>2, EdgeDone
  <2>4. Wrong(k) = {} => OneWrong(k)
    BY DEF OneWrong
  <2> QED
    BY <1>9, <2>1, <2>2, <2>3, <2>4
<1>12. CASE n # Size(k)
  <2>1. CASE /\ published = <<>> /\ (n = 1 \/ InStep(k, n))
             /\ n > 3 /\ k # R!Repeat => (intact /\ Wrong(k) = {}) \/ (~intact /\ OneWrong(k))
    <3>1. /\ published' = published /\ InStep(k, n + 1)'
          /\ n = 3 /\ k # R!Repeat => Wrong(k)' = {}
          /\ n > 3 => Wrong(k)' = Wrong(k)
      BY <1>4, <1>5, <1>6, <1>12, <2>1, InStepSeen
    <3>2. Wrong(k)' = {} => OneWrong(k)'
      BY DEF OneWrong
    <3>3. Wrong(k)' = Wrong(k) /\ OneWrong(k) => OneWrong(k)'
      BY DEF OneWrong
    <3>4. n >= 3 /\ k # R!Repeat => (intact' /\ Wrong(k)' = {}) \/ (~intact' /\ OneWrong(k)')
      BY <1>5, <1>6, <1>7, <2>1, <3>1, <3>2, <3>3
    <3> QED
      BY <1>5, <1>6, <1>8, <1>9, <1>10, <1>12, <2>1, <3>1, <3>4, EdgeDone
  <2>2. CASE ~intact /\ published \in {<<>>, <<R!Repeat>>} /\ OutOfStep(k, n)
    <3>1. /\ published' \in {<<>>, <<R!Repeat>>}
          /\ OutOfStep(k, n + 1)' \/ (n = 2 /\ InStep(k, n + 1)' /\ published' = <<>>)
      BY <1>4, <1>5, <1>6, <1>12, <2>2, OutOfStepSeen
    <3> QED
      BY <1>5, <1>6, <1>8, <1>9, <1>10, <1>12, <2>2, <3>1, EdgeDone
  <2> QED
    BY <1>9, <2>1, <2>2
<1> QED
  BY <1>11, <1>12

(* An edge comes at the wrong time.                                         *)
LEMMA ReceiverBendEdge ==
  ASSUME ReceiverInv, NEW dt \in R!Lengths, R!BendEdge(dt)
  PROVE  ReceiverInv'
<1>1. PICK k : k = key
  OBVIOUS
<1>2. PICK n : n = Size(key) - Len(sending) + 1
  OBVIOUS
<1>3. PICK h : h = Head(sending)
  OBVIOUS
<1>4. ReceiverTypes /\ FrameUnderWay /\ Tracked /\ k \in R!Keys \cup {R!Repeat}
  BY <1>1 DEF ReceiverInv, ReceiverTypes
<1>5. /\ sending # <<>> /\ R!ir_isr([h EXCEPT !.dt = dt]) /\ sending' = Tail(sending) /\ key' = k
      /\ intact /\ ~intact' /\ intact' \in BOOLEAN /\ noise' = noise /\ dt # h.dt /\ h.dt # "other"
  BY <1>1, <1>3 DEF R!BendEdge
<1>6. /\ n \in 1..Size(k) /\ Size(k) \in {4, 12} /\ h \in EdgeSet /\ Sent(k, n, h)
      /\ FrameUnderWay' /\ Size(key') - Len(sending') + 1 = n + 1
      /\ sending' = <<>> <=> n = Size(k)
  <2>1. /\ n \in 1..Size(key) /\ Size(key) \in {4, 12} /\ Head(sending) \in EdgeSet
        /\ Sent(key, n, Head(sending))
        /\ FrameUnderWay' /\ Size(key') - Len(sending') + 1 = n + 1
        /\ sending' = <<>> <=> n = Size(key)
    BY <1>1, <1>2, <1>4, <1>5, FrameGoesOn
  <2> QED
    BY <1>1, <1>3, <2>1
<1>7. PICK e : e = [h EXCEPT !.dt = dt]
  OBVIOUS
<1>8. e \in EdgeSet /\ e.level = h.level /\ e.dt = dt
  BY <1>6, <1>7 DEF EdgeSet
<1>9. noise \in Nat /\ R!ir_isr(e)
  BY <1>4, <1>5, <1>7 DEF ReceiverTypes
<1>10. ReceiverTypes'
  BY <1>1, <1>4, <1>5, <1>8, <1>9, SeenTyped
<1>11. /\ noise = 0 /\ published = <<>> /\ n # 1
       /\ InStep(k, n) /\ (n > 3 /\ k # R!Repeat => Wrong(k) = {})
  <2>1. n # 1
    BY <1>5, <1>6, Levels
  <2> QED
    BY <1>1, <1>2, <1>4, <1>5, <2>1 DEF Tracked
<1>12. n \in Nat /\ n # 0
  BY <1>6
<1>13. CASE n = Size(k)
  <2>1. e.level = "high" /\ n > 3
    BY <1>6, <1>8, <1>13, Levels
  <2>2. k # R!Repeat => OneWrong(k)
    BY <1>11, <2>1 DEF OneWrong
  <2>3. NoOther(published', k)
    BY <1>4, <1>9, <1>11, <1>13, <2>1, <2>2, FrameEnds
  <2> QED
    BY <1>5, <1>6, <1>10, <1>11, <1>12, <1>13, <2>3, EdgeDone
<1>14. CASE n # Size(k)
  <2>1. /\ published' = <<>>
        /\ \/ InStep(k, n + 1)' /\ (n >= 3 /\ k # R!Repeat => OneWrong(k)')
           \/ OutOfStep(k, n + 1)'
    BY <1>4, <1>5, <1>6, <1>8, <1>9, <1>11, <1>14, BendSeen
  <2> QED
    BY <1>5, <1>6, <1>10, <1>11, <1>12, <1>14, <2>1, EdgeDone
<1> QED
  BY <1>13, <1>14

(* An edge is not seen.                                                     *)
LEMMA ReceiverLoseEdge ==
  ASSUME ReceiverInv, R!LoseEdge
  PROVE  ReceiverInv'
<1>1. PICK k : k = key
  OBVIOUS
<1>2. PICK n : n = Size(key) - Len(sending) + 1
  OBVIOUS
<1>3. ReceiverTypes /\ FrameUnderWay /\ Tracked /\ k \in R!Keys \cup {R!Repeat}
  BY <1>1 DEF ReceiverInv, ReceiverTypes
<1>4. /\ sending # <<>> /\ intact /\ (irState = "stopMark" => Len(sending) = 1)
      /\ sending' = Tail(sending) /\ key' = k /\ ~intact' /\ intact' \in BOOLEAN
      /\ irState' = irState /\ irValue' = irValue /\ noise' = noise /\ published' = published
  BY <1>1 DEF R!LoseEdge
<1>5. /\ n \in 1..Size(k) /\ Size(k) \in {4, 12}
      /\ FrameUnderWay' /\ Size(key') - Len(sending') + 1 = n + 1
      /\ sending' = <<>> <=> n = Size(k)
  <2>1. /\ n \in 1..Size(key) /\ Size(key) \in {4, 12}
        /\ FrameUnderWay' /\ Size(key') - Len(sending') + 1 = n + 1
        /\ sending' = <<>> <=> n = Size(key)
    BY <1>1, <1>2, <1>3, <1>4, FrameGoesOn
  <2> QED
    BY <1>1, <2>1
<1>6. ReceiverTypes'
  BY <1>1, <1>3, <1>4 DEF ReceiverTypes
<1>7. /\ noise = 0 /\ published = <<>>
      /\ n = 1 \/ InStep(k, n)
  BY <1>1, <1>2, <1>3, <1>4 DEF Tracked
<1>8. n \in Nat /\ n # 0
  BY <1>5
<1>9. n # Size(k) => OutOfStep(k, n + 1)'
  <2>1. CASE n = 1
    <3>1. Len(sending) # 1
      <4>1. Len(sending) \in Nat
        BY <1>3, LenProperties DEF FrameUnderWay
      <4>2. Size(k) - Len(sending) + 1 = 1
        BY <1>1, <1>2, <2>1
      <4>3. Size(k) \in Nat /\ Size(k) # 1
        BY <1>5
      <4>4. Size(k) = Len(sending)
        BY <4>1, <4>2, <4>3
      <4> QED
        BY <4>3, <4>4
    <3> QED
      BY <1>4, <1>7, <2>1, <3>1 DEF OutOfStep
  <2>2. CASE InStep(k, n) /\ n # Size(k)
    <3>1. Size(k) = IF k = R!Repeat THEN 4 ELSE 12
      BY DEF Size
    <3>2. CASE n = 2 /\ irState = "leadMark"
      BY <1>4, <3>2 DEF OutOfStep
    <3>3. CASE n = 3 /\ irState = "leadSpace"
      BY <1>4, <3>3 DEF OutOfStep
    <3>4. ASSUME NEW b \in 1..4, n = 2 * b + 2, irState = "bitMark"
          PROVE  OutOfStep(k, n + 1)'
      <4>1. n + 1 \in {5, 7, 9, 11}
        BY <3>4
      <4> QED
        BY <1>4, <3>4, <4>1 DEF OutOfStep
    <3>5. ASSUME NEW b \in 1..4, n = 2 * b + 3, irState = "bitSpace"
          PROVE  OutOfStep(k, n + 1)'
      <4>1. n + 1 \in {6, 8, 10, 12}
        BY <3>5
      <4> QED
        BY <1>4, <3>5, <4>1 DEF OutOfStep
    <3> QED
      BY <2>2, <3>1, <3>2, <3>3, <3>4, <3>5 DEF InStep
  <2> QED
    BY <1>7, <2>1, <2>2
<1>10. NoOther(published', k)
  BY <1>4, <1>7, OneOfThese
<1> QED
  BY <1>4, <1>5, <1>6, <1>7, <1>8, <1>9, <1>10, EdgeDone

(* A frame begins.                                                          *)
LEMMA ReceiverPress ==
  ASSUME ReceiverInv, R!Press
  PROVE  ReceiverInv'
<1>1. PICK k \in R!Keys \cup {R!Repeat} : key' = k /\ sending' \in R!Frames(k)
  BY DEF R!Press
<1>2. /\ intact' = TRUE /\ noise' = 0 /\ published' = <<>>
      /\ irState' = irState /\ irValue' = irValue
  BY DEF R!Press
<1>3. ReceiverTypes'
  BY <1>1, <1>2 DEF ReceiverInv, ReceiverTypes
<1>4. PICK f \in R!Frames(k) : f = sending'
  BY <1>1
<1>5. /\ f \in Seq(EdgeSet) /\ Len(f) = Size(k)
      /\ \A i \in 1..Size(k) : Sent(k, i, f[i])
  BY FramesSent
<1>6. Size(k) \in {4, 12} /\ Size(key') = Size(k)
  BY <1>1 DEF Size
<1>7. Size(key') - Len(sending') = 0
  BY <1>4, <1>5, <1>6
<1>8. FrameUnderWay'
  <2>1. ASSUME NEW i \in 1..Len(sending')
        PROVE  Sent(key', Size(key') - Len(sending') + i, sending'[i])
    <3>1. Size(key') - Len(sending') + i = i /\ i \in 1..Size(k)
      BY <1>4, <1>5, <1>6, <1>7
    <3> QED
      BY <1>1, <1>4, <1>5, <3>1
  <2> QED
    BY <1>4, <1>5, <1>7, <2>1 DEF FrameUnderWay, EdgeSet
<1>9. Tracked'
  BY <1>2, <1>7 DEF Tracked
<1>10. sending' # <<>>
  BY <1>4, <1>5, <1>6, EmptySeq
<1>11. R!KeyAsSent'
  BY <1>10 DEF R!KeyAsSent
<1> QED
  BY <1>3, <1>8, <1>9, <1>11 DEF ReceiverInv

(* An edge that belongs to no frame.                                        *)
LEMMA ReceiverNoise ==
  ASSUME ReceiverInv, NEW e \in EdgeSet, R!Noise(e)
  PROVE  ReceiverInv'
<1>1. /\ sending = <<>> /\ R!ir_isr(e) /\ ~intact' /\ intact' \in BOOLEAN /\ noise' = noise + 1
      /\ sending' = sending /\ key' = key /\ noise \in Nat
  BY DEF R!Noise, ReceiverInv, ReceiverTypes
<1>2. ReceiverTypes'
  BY <1>1, SeenTyped DEF ReceiverInv
<1>3. FrameUnderWay'
  BY <1>1 DEF ReceiverInv, FrameUnderWay, Size, Sent
<1>4. Tracked'
  BY <1>1 DEF Tracked
<1>5. R!KeyAsSent'
  BY <1>1 DEF R!KeyAsSent
<1> QED
  BY <1>2, <1>3, <1>4, <1>5 DEF ReceiverInv

(* Nothing of the receiver changes.                                         *)
LEMMA ReceiverIdle ==
  ASSUME ReceiverInv, UNCHANGED R!vars
  PROVE  ReceiverInv'
<1>1. /\ irState' = irState /\ irValue' = irValue /\ sending' = sending /\ key' = key
      /\ intact' = intact /\ noise' = noise /\ published' = published
  BY DEF R!vars
<1> QED
  BY <1>1 DEF ReceiverInv, ReceiverTypes, FrameUnderWay, Tracked, R!KeyAsSent, Size, Sent, InStep, OutOfStep,
              Wrong, OneWrong

(* The receiver before the first edge.                                      *)
LEMMA ReceiverStarts ==
  ASSUME R!Init
  PROVE  ReceiverInv
<1>1. /\ irState = "idle" /\ irValue = <<>> /\ sending = <<>> /\ key = R!Repeat
      /\ intact = FALSE /\ noise = 0 /\ published = <<>>
  BY DEF R!Init
<1>2. ReceiverTypes
  <2>1. irValue \in Seq({0, 1}) /\ Len(irValue) = 0
    BY <1>1, EmptySeq
  <2>2. key \in R!Keys \cup {R!Repeat} /\ intact \in BOOLEAN /\ noise \in Nat
    BY <1>1
  <2>3. irState = "idle"
    BY <1>1
  <2> QED
    BY <2>1, <2>2, <2>3 DEF ReceiverTypes
<1>3. FrameUnderWay
  BY <1>1 DEF FrameUnderWay, Size
<1> QED
  BY <1>1, <1>2, <1>3 DEF ReceiverInv, Tracked, R!KeyAsSent

(* No step of the receiver breaks its invariant.                            *)
LEMMA ReceiverKeeps ==
  ASSUME ReceiverInv, R!Next
  PROVE  ReceiverInv'
<1>1. ASSUME NEW dt \in R!Lengths, NEW l \in {"low", "high"}, R!Noise(R!Edge(l, dt))
      PROVE  ReceiverInv'
  <2>1. R!Edge(l, dt) \in EdgeSet
    BY DEF R!Edge, EdgeSet
  <2> QED
    BY <1>1, <2>1, ReceiverNoise
<1> QED
  BY <1>1, ReceiverPress, ReceiverNextEdge, ReceiverLoseEdge, ReceiverBendEdge DEF R!Next

(* ir_isr: the invariant of the receiver.                                   *)
THEOREM ReceiverInvariant == Spec => [](active = "receiver" => ReceiverInv)
<1>1. Init => (active = "receiver" => ReceiverInv)
  BY ReceiverStarts DEF Init
<1>2. (active = "receiver" => ReceiverInv) /\ [Next]_vars => (active = "receiver" => ReceiverInv)'
  <2> SUFFICES ASSUME active = "receiver" => ReceiverInv, [Next]_vars, active' = "receiver"
               PROVE  ReceiverInv'
    OBVIOUS
  <2>1. active = "receiver" /\ (R!Next \/ UNCHANGED receiverVars)
    BY DEF Next, vars
  <2>2. UNCHANGED receiverVars => UNCHANGED R!vars
    BY DEF receiverVars, R!vars
  <2> QED
    BY <2>1, <2>2, ReceiverKeeps, ReceiverIdle
<1> QED
  BY <1>1, <1>2, PTL DEF Spec

(* ir_isr: a frame that comes whole is published once, as its key; one with *)
(* a lost or bent edge never as another key of the remote.                  *)
THEOREM ReceiverCorrect == Spec => []KeyAsSent
<1>1. ReceiverTypes => R!TypeOK
  BY DEF ReceiverTypes, R!TypeOK, R!Bits
<1>2. (active = "receiver" => ReceiverInv) => KeyAsSent
  BY <1>1 DEF ReceiverInv, KeyAsSent
<1> QED
  BY <1>2, ReceiverInvariant, PTL

(* The serial line: the lines that have been entered and not been run, the  *)
(* last of them the one being typed.                                        *)
Whole(j) == IF j <= Len(uart_expected) THEN uart_expected[j] ELSE uart_line

(* The lines lie in the queue one behind the other; "at" says where each    *)
(* begins, or would, had the task not begun to take it out.                 *)
Lies(at, j, i) ==
  LET p == at[j] + i - 1
  IN  p >= 1 => p <= Len(uart_rx_queue) /\ uart_rx_queue[p] = Whole(j)[i]
LineEnds(at, j) ==
  LET p == at[j] + Len(uart_expected[j])
  IN  /\ at[j + 1] = p + 1
      /\ p >= 1 => p <= Len(uart_rx_queue) /\ uart_rx_queue[p] = "eol"
Laid(at) ==
  /\ at \in [1..Len(uart_expected) + 1 -> Int]
  /\ \A j \in 1..Len(uart_expected) + 1 : \A i \in 1..Len(Whole(j)) : Lies(at, j, i)
  /\ \A j \in 1..Len(uart_expected) : LineEnds(at, j)
  /\ at[Len(uart_expected) + 1] + Len(uart_line) = Len(uart_rx_queue) + 1

(* What the task has taken of the first line is in tmp, if it fits.         *)
Copied(n) ==
  n < TmpSize - 1 =>
    /\ uart_t = n
    /\ \A i \in 0..TmpSize - 1 : uart_tmp[i] = IF i < n THEN Whole(1)[i + 1] ELSE "nul"
TakenOut(at) ==
  LET n == IF uart_running THEN Len(Whole(1)) ELSE 1 - at[1]
  IN  /\ uart_running => uart_expected # <<>> /\ at[1] = -n
      /\ n \in 0..Len(Whole(1))
      /\ Copied(n)

SerialTypes ==
  /\ uart_rx_queue \in Seq(Characters \cup {"eol"}) /\ Len(uart_rx_queue) <= UART_RX_QUEUE_SIZE
  /\ uart_line \in Seq(Characters) /\ uart_expected \in Seq(Seq(Characters))
  /\ uart_tmp \in [0..TmpSize - 1 -> Characters \cup {"nul"}] /\ uart_tmp[TmpSize - 1] = "nul"
  /\ uart_t \in 0..TmpSize - 2 /\ uart_running \in BOOLEAN /\ uart_lost \in BOOLEAN

SerialInv ==
  /\ SerialTypes
  /\ uart_lost => uart_line = <<>> /\ uart_expected = <<>>
  /\ ~uart_lost => \E at \in [1..Len(uart_expected) + 1 -> Int] : Laid(at) /\ TakenOut(at)

(* The serial line's constants.                                             *)
LEMMA SerialAssumed ==
  /\ UART_RX_QUEUE_SIZE \in Nat \ {0} /\ TmpSize \in Nat \ {0, 1}
  /\ "nul" \notin Characters /\ "eol" \notin Characters
BY InputsAssumption DEF S!SerialLineAssumption

(* The lines are sequences of characters.                                   *)
LEMMA WholeTyped ==
  ASSUME SerialTypes
  PROVE  /\ Len(uart_expected) \in Nat /\ Len(uart_rx_queue) \in Nat /\ Len(uart_line) \in Nat
         /\ \A j \in 1..Len(uart_expected) + 1 : Whole(j) \in Seq(Characters) /\ Len(Whole(j)) \in Nat
         /\ \A j \in 1..Len(uart_expected) :
              /\ uart_expected[j] \in Seq(Characters) /\ Whole(j) = uart_expected[j]
              /\ Len(uart_expected[j]) \in Nat
         /\ Whole(Len(uart_expected) + 1) = uart_line
         /\ uart_expected # <<>> => 1 \in 1..Len(uart_expected)
         /\ uart_expected = <<>> => Len(uart_expected) = 0
<1>1. /\ uart_rx_queue \in Seq(Characters \cup {"eol"}) /\ uart_line \in Seq(Characters)
      /\ uart_expected \in Seq(Seq(Characters))
  BY DEF SerialTypes
<1>2. Len(uart_expected) \in Nat /\ Len(uart_rx_queue) \in Nat /\ Len(uart_line) \in Nat
  BY <1>1, LenProperties
<1>3. \A j \in 1..Len(uart_expected) : uart_expected[j] \in Seq(Characters)
  BY <1>1, ElementOfSeq
<1>4. \A s \in Seq(Characters) : Len(s) \in Nat
  BY LenProperties
<1>5. uart_expected = <<>> <=> Len(uart_expected) = 0
  BY <1>1, EmptySeq
<1> QED
  BY <1>1, <1>2, <1>3, <1>4, <1>5 DEF Whole

(* The first character of the queue is the next of the first line, or its   *)
(* end.                                                                     *)
LEMMA FirstOut ==
  ASSUME SerialTypes, NEW at, Laid(at), TakenOut(at), ~uart_running, uart_rx_queue # <<>>
  PROVE  LET n == 1 - at[1]
         IN  /\ n \in Nat /\ at[1] \in Int
             /\ Head(uart_rx_queue) # "eol" => /\ n < Len(Whole(1)) /\ Head(uart_rx_queue) \in Characters
                                               /\ Head(uart_rx_queue) = Whole(1)[n + 1]
             /\ Head(uart_rx_queue) = "eol" => uart_expected # <<>> /\ n = Len(Whole(1))
<1> DEFINE n == 1 - at[1]
<1>1. /\ Head(uart_rx_queue) = uart_rx_queue[1] /\ Len(uart_rx_queue) \in Nat \ {0}
      /\ Head(uart_rx_queue) \in Characters \cup {"eol"}
  BY Taken DEF SerialTypes
<1>2. 1 \in 1..Len(uart_expected) + 1 /\ Whole(1) \in Seq(Characters) /\ Len(Whole(1)) \in Nat
  BY WholeTyped
<1>3. at[1] \in Int
  BY <1>2 DEF Laid
<1>4. n \in 0..Len(Whole(1))
  BY DEF TakenOut
<1>5. ASSUME n < Len(Whole(1))
      PROVE  uart_rx_queue[1] = Whole(1)[n + 1] /\ uart_rx_queue[1] # "eol"
  <2>1. n + 1 \in 1..Len(Whole(1)) /\ at[1] + (n + 1) - 1 = 1
    <3>1. PICK a \in Int : a = at[1]
      BY <1>3
    <3>2. PICK m \in Nat : m = Len(Whole(1))
      BY <1>2
    <3>3. (1 - a) \in 0..m /\ 1 - a < m
      BY <1>4, <1>5, <3>1, <3>2
    <3>4. (1 - a) + 1 \in 1..m /\ a + ((1 - a) + 1) - 1 = 1
      BY <3>3
    <3> QED
      BY <3>1, <3>2, <3>4
  <2>2. Lies(at, 1, n + 1)
    BY <1>2, <2>1 DEF Laid
  <2>3. uart_rx_queue[1] = Whole(1)[n + 1]
    BY <2>1, <2>2 DEF Lies
  <2>4. Whole(1)[n + 1] \in Characters
    BY <1>2, <2>1, ElementOfSeq
  <2> QED
    BY <2>3, <2>4, SerialAssumed
<1>6. ASSUME n = Len(Whole(1))
      PROVE  uart_rx_queue[1] = "eol" /\ uart_expected # <<>>
  <2>1. CASE uart_expected = <<>>
    <3>1. Len(uart_expected) = 0 /\ Whole(1) = uart_line
      BY <2>1, WholeTyped
    <3>2. at[1] + Len(uart_line) = Len(uart_rx_queue) + 1
      BY <3>1 DEF Laid
    <3> QED
      BY <1>1, <1>2, <1>3, <1>6, <3>1, <3>2
  <2>2. CASE uart_expected # <<>>
    <3>1. 1 \in 1..Len(uart_expected) /\ Whole(1) = uart_expected[1]
      BY <2>2, WholeTyped
    <3>2. LineEnds(at, 1)
      BY <3>1 DEF Laid
    <3>3. at[1] + Len(uart_expected[1]) = 1
      BY <1>2, <1>3, <1>6, <3>1
    <3> QED
      BY <2>2, <3>2, <3>3 DEF LineEnds
  <2> QED
    BY <2>1, <2>2
<1> QED
  BY <1>1, <1>2, <1>3, <1>4, <1>5, <1>6

(* When the first character is taken out, the lines move up by one.         *)
LEMMA MovedUp ==
  ASSUME SerialTypes, NEW at, Laid(at), uart_rx_queue # <<>>, uart_rx_queue' = Tail(uart_rx_queue),
         uart_line' = uart_line, uart_expected' = uart_expected,
         NEW up, up = [j \in 1..Len(uart_expected) + 1 |-> at[j] - 1]
  PROVE  Laid(up)'
<1>0. PICK N : N = Len(uart_expected) /\ N = Len(uart_expected')
  OBVIOUS
<1>1. /\ Len(uart_rx_queue') = Len(uart_rx_queue) - 1 /\ Len(uart_rx_queue) \in Nat \ {0}
      /\ \A p \in 1..Len(uart_rx_queue') : uart_rx_queue'[p] = uart_rx_queue[p + 1]
  BY Taken DEF SerialTypes
<1>2. /\ N \in Nat /\ \A j \in 1..N + 1 : Len(Whole(j)) \in Nat
      /\ \A j \in 1..N : Len(uart_expected[j]) \in Nat
  BY <1>0, WholeTyped
<1>3. at \in [1..N + 1 -> Int]
  BY <1>0 DEF Laid
<1>4. up \in [1..N + 1 -> Int] /\ \A j \in 1..N + 1 : up[j] = at[j] - 1 /\ at[j] \in Int
  <2>1. up = [j \in 1..N + 1 |-> at[j] - 1]
    BY <1>0
  <2>2. \A j \in 1..N + 1 : at[j] \in Int /\ at[j] - 1 \in Int
    BY <1>3
  <2> QED
    BY <2>1, <2>2
<1>5. \A j : Whole(j)' = Whole(j)
  BY DEF Whole
<1>6. ASSUME NEW j \in 1..N + 1, NEW i \in 1..Len(Whole(j))
      PROVE  Lies(up, j, i)'
  <2>1. Lies(at, j, i)
    BY <1>0, <1>6 DEF Laid
  <2>2. PICK a \in Int : a = at[j] /\ up[j] = a - 1
    BY <1>4
  <2>3. PICK b \in Int : b = i
    BY <1>2
  <2>4. a + b - 1 >= 1 => a + b - 1 <= Len(uart_rx_queue) /\ uart_rx_queue[a + b - 1] = Whole(j)[i]
    BY <2>1, <2>2, <2>3 DEF Lies
  <2>5. ASSUME (a - 1) + b - 1 >= 1
        PROVE  /\ (a - 1) + b - 1 <= Len(uart_rx_queue')
               /\ uart_rx_queue'[(a - 1) + b - 1] = Whole(j)[i]
    <3>1. a + b - 1 >= 1 /\ (a - 1) + b - 1 + 1 = a + b - 1
      BY <2>5
    <3>2. (a - 1) + b - 1 \in 1..Len(uart_rx_queue')
      BY <1>1, <2>4, <2>5, <3>1
    <3> QED
      BY <1>1, <2>4, <3>1, <3>2
  <2>6. Whole(j)'[i] = Whole(j)[i]
    BY <1>5
  <2> QED
    BY <2>2, <2>3, <2>5, <2>6 DEF Lies
<1>7. ASSUME NEW j \in 1..N
      PROVE  LineEnds(up, j)'
  <2>1. LineEnds(at, j)
    BY <1>0 DEF Laid
  <2>2. j \in 1..N + 1 /\ j + 1 \in 1..N + 1
    BY <1>2
  <2>3. PICK a \in Int : a = at[j] /\ up[j] = a - 1
    BY <1>4, <2>2
  <2>4. PICK c \in Int : c = at[j + 1] /\ up[j + 1] = c - 1
    BY <1>4, <2>2
  <2>5. PICK m \in Nat : m = Len(uart_expected[j]) /\ m = Len(uart_expected'[j])
    BY <1>2
  <2>6. /\ c = a + m + 1
        /\ a + m >= 1 => a + m <= Len(uart_rx_queue) /\ uart_rx_queue[a + m] = "eol"
    BY <2>1, <2>3, <2>4, <2>5 DEF LineEnds
  <2>7. ASSUME (a - 1) + m >= 1
        PROVE  (a - 1) + m <= Len(uart_rx_queue') /\ uart_rx_queue'[(a - 1) + m] = "eol"
    <3>1. a + m >= 1 /\ (a - 1) + m + 1 = a + m
      BY <2>7
    <3>2. (a - 1) + m \in 1..Len(uart_rx_queue')
      BY <1>1, <2>6, <2>7, <3>1
    <3> QED
      BY <1>1, <2>6, <3>1, <3>2
  <2>8. c - 1 = (a - 1) + m + 1
    BY <2>6
  <2> QED
    BY <2>3, <2>4, <2>5, <2>7, <2>8 DEF LineEnds
<1>8. up[N + 1] + Len(uart_line') = Len(uart_rx_queue') + 1
  <2>1. at[N + 1] + Len(uart_line) = Len(uart_rx_queue) + 1
    BY <1>0 DEF Laid
  <2> QED
    <3>1. PICK a \in Int : a = at[N + 1] /\ up[N + 1] = a - 1
      <4>1. N + 1 \in 1..N + 1
        BY <1>2
      <4> QED
        BY <1>4, <4>1
    <3>2. PICK m \in Nat : m = Len(uart_line) /\ m = Len(uart_line')
      BY WholeTyped
    <3> QED
      BY <1>1, <2>1, <3>1, <3>2
<1> QED
  BY <1>0, <1>4, <1>5, <1>6, <1>7, <1>8 DEF Laid

(* uartInterfaceTask takes a character out.                                 *)
LEMMA SerialTakeCharacter ==
  ASSUME SerialInv, S!TakeCharacter
  PROVE  SerialInv'
<1>1. PICK c : c = Head(uart_rx_queue)
  OBVIOUS
<1>2. /\ ~uart_running /\ uart_rx_queue # <<>> /\ c # "eol" /\ uart_rx_queue' = Tail(uart_rx_queue)
      /\ uart_tmp' = [uart_tmp EXCEPT ![uart_t] = c]
      /\ uart_t' = IF uart_t + 1 = TmpSize - 1 THEN 0 ELSE uart_t + 1
      /\ uart_running' = uart_running /\ uart_line' = uart_line /\ uart_expected' = uart_expected
      /\ uart_lost' = uart_lost
  BY <1>1 DEF S!TakeCharacter
<1>3. SerialTypes
  BY DEF SerialInv
<1>4. /\ uart_rx_queue' \in Seq(Characters \cup {"eol"}) /\ c \in Characters
      /\ Len(uart_rx_queue') <= UART_RX_QUEUE_SIZE
  <2>1. /\ Tail(uart_rx_queue) \in Seq(Characters \cup {"eol"}) /\ c \in Characters \cup {"eol"}
        /\ Len(uart_rx_queue) \in Nat /\ Len(Tail(uart_rx_queue)) = Len(uart_rx_queue) - 1
    BY <1>1, <1>2, <1>3, Taken DEF SerialTypes
  <2> QED
    BY <1>2, <1>3, <2>1, SerialAssumed DEF SerialTypes
<1>5. /\ uart_t \in 0..TmpSize - 2 /\ TmpSize \in Nat /\ TmpSize >= 2
      /\ uart_tmp \in [0..TmpSize - 1 -> Characters \cup {"nul"}] /\ uart_tmp[TmpSize - 1] = "nul"
  BY <1>3, SerialAssumed DEF SerialTypes
<1>6. /\ uart_tmp' \in [0..TmpSize - 1 -> Characters \cup {"nul"}] /\ uart_tmp'[TmpSize - 1] = "nul"
      /\ uart_t' \in 0..TmpSize - 2
  BY <1>2, <1>4, <1>5
<1>7. SerialTypes'
  BY <1>2, <1>3, <1>4, <1>6 DEF SerialTypes
<1>8. ASSUME ~uart_lost
      PROVE  \E at \in [1..Len(uart_expected') + 1 -> Int] : Laid(at)' /\ TakenOut(at)'
  <2>1. PICK at : at \in [1..Len(uart_expected) + 1 -> Int] /\ Laid(at) /\ TakenOut(at)
    BY <1>8 DEF SerialInv
  <2>2. PICK up : up = [j \in 1..Len(uart_expected) + 1 |-> at[j] - 1]
    OBVIOUS
  <2>3. Laid(up)'
    BY <1>2, <1>3, <2>1, <2>2, MovedUp
  <2>4. up \in [1..Len(uart_expected') + 1 -> Int]
    BY <2>3 DEF Laid
  <2>5. PICK n : n = 1 - at[1]
    OBVIOUS
  <2>6. PICK w : w = Whole(1) /\ w = Whole(1)'
    BY <1>2 DEF Whole
  <2>7. n \in Nat /\ n < Len(w) /\ c = w[n + 1] /\ at[1] \in Int
    BY <1>1, <1>2, <1>3, <2>1, <2>5, <2>6, FirstOut
  <2>8. Len(w) \in Nat /\ 1 \in 1..Len(uart_expected) + 1
    BY <1>3, <2>6, WholeTyped
  <2>9. 1 - up[1] = n + 1
    BY <2>2, <2>5, <2>7, <2>8
  <2>10. Copied(n + 1)'
    <3>1. Copied(n)
      BY <1>2, <2>1, <2>5 DEF TakenOut
    <3>2. SUFFICES ASSUME n + 1 < TmpSize - 1
                   PROVE  /\ uart_t' = n + 1
                          /\ \A i \in 0..TmpSize - 1 : uart_tmp'[i] = IF i < n + 1 THEN w[i + 1] ELSE "nul"
      BY <2>6 DEF Copied
    <3>3. uart_t = n /\ \A i \in 0..TmpSize - 1 : uart_tmp[i] = IF i < n THEN w[i + 1] ELSE "nul"
      BY <1>5, <2>6, <2>7, <3>1, <3>2 DEF Copied
    <3>4. uart_t' = n + 1
      BY <1>2, <1>5, <2>7, <3>2, <3>3
    <3>5. ASSUME NEW i \in 0..TmpSize - 1
          PROVE  uart_tmp'[i] = IF i < n + 1 THEN w[i + 1] ELSE "nul"
      <4>1. uart_tmp'[i] = IF i = n THEN c ELSE uart_tmp[i]
        BY <1>2, <1>5, <3>3
      <4>2. uart_tmp[i] = IF i < n THEN w[i + 1] ELSE "nul"
        BY <3>3
      <4> QED
        BY <1>5, <2>7, <4>1, <4>2
    <3> QED
      BY <3>4, <3>5
  <2>11. TakenOut(up)'
    <3>1. ~uart_running'
      BY <1>2
    <3>2. n + 1 \in 0..Len(w)
      BY <2>7, <2>8
    <3> QED
      BY <2>6, <2>9, <2>10, <3>1, <3>2 DEF TakenOut
  <2> QED
    BY <2>3, <2>4, <2>11
<1>9. uart_lost' => uart_line' = <<>> /\ uart_expected' = <<>>
  BY <1>2 DEF SerialInv
<1> QED
  BY <1>2, <1>7, <1>8, <1>9 DEF SerialInv

(* uartInterfaceTask takes the end of a line out.                           *)
LEMMA SerialTakeEol ==
  ASSUME SerialInv, S!TakeEol
  PROVE  SerialInv'
<1>1. /\ ~uart_running /\ uart_rx_queue # <<>> /\ Head(uart_rx_queue) = "eol"
      /\ uart_rx_queue' = Tail(uart_rx_queue) /\ uart_running' = TRUE
      /\ uart_tmp' = uart_tmp /\ uart_t' = uart_t /\ uart_line' = uart_line
      /\ uart_expected' = uart_expected /\ uart_lost' = uart_lost
  BY DEF S!TakeEol
<1>2. SerialTypes
  BY DEF SerialInv
<1>3. /\ uart_rx_queue' \in Seq(Characters \cup {"eol"})
      /\ Len(uart_rx_queue') <= UART_RX_QUEUE_SIZE
  <2>1. /\ Tail(uart_rx_queue) \in Seq(Characters \cup {"eol"})
        /\ Len(uart_rx_queue) \in Nat /\ Len(Tail(uart_rx_queue)) = Len(uart_rx_queue) - 1
    BY <1>1, <1>2, Taken DEF SerialTypes
  <2> QED
    BY <1>1, <1>2, <2>1, SerialAssumed DEF SerialTypes
<1>4. SerialTypes'
  BY <1>1, <1>2, <1>3 DEF SerialTypes
<1>5. ASSUME ~uart_lost
      PROVE  \E at \in [1..Len(uart_expected') + 1 -> Int] : Laid(at)' /\ TakenOut(at)'
  <2>1. PICK at : at \in [1..Len(uart_expected) + 1 -> Int] /\ Laid(at) /\ TakenOut(at)
    BY <1>5 DEF SerialInv
  <2>2. PICK up : up = [j \in 1..Len(uart_expected) + 1 |-> at[j] - 1]
    OBVIOUS
  <2>3. Laid(up)'
    BY <1>1, <1>2, <2>1, <2>2, MovedUp
  <2>4. up \in [1..Len(uart_expected') + 1 -> Int]
    BY <2>3 DEF Laid
  <2>5. PICK n : n = 1 - at[1]
    OBVIOUS
  <2>6. PICK w : w = Whole(1) /\ w = Whole(1)'
    BY <1>1 DEF Whole
  <2>7. n \in Nat /\ uart_expected # <<>> /\ n = Len(w) /\ at[1] \in Int
    BY <1>1, <1>2, <2>1, <2>5, <2>6, FirstOut
  <2>8. 1 \in 1..Len(uart_expected) + 1
    BY <1>2, WholeTyped
  <2>9. up[1] = -n
    BY <2>2, <2>5, <2>7, <2>8
  <2>10. Copied(n)'
    <3>1. Copied(n)
      BY <1>1, <2>1, <2>5 DEF TakenOut
    <3> QED
      BY <1>1, <2>6, <3>1 DEF Copied
  <2>11. TakenOut(up)'
    <3>1. n \in 0..Len(w)
      BY <2>7
    <3> QED
      BY <1>1, <2>6, <2>7, <2>9, <2>10, <3>1 DEF TakenOut
  <2> QED
    BY <2>3, <2>4, <2>11
<1>6. uart_lost' => uart_line' = <<>> /\ uart_expected' = <<>>
  BY <1>1 DEF SerialInv
<1> QED
  BY <1>1, <1>4, <1>5, <1>6 DEF SerialInv

(* An empty tmp, before anything of a line is taken out.                    *)
LEMMA NothingCopied ==
  ASSUME uart_tmp' = S!Blank, uart_t' = 0
  PROVE  /\ Copied(0)'
         /\ uart_tmp' \in [0..TmpSize - 1 -> Characters \cup {"nul"}] /\ uart_tmp'[TmpSize - 1] = "nul"
         /\ uart_t' \in 0..TmpSize - 2
<1>1. TmpSize \in Nat /\ TmpSize >= 2
  BY SerialAssumed
<1>2. \A i \in 0..TmpSize - 1 : uart_tmp'[i] = "nul"
  BY DEF S!Blank
<1>3. TmpSize - 1 \in 0..TmpSize - 1 /\ 0 \in 0..TmpSize - 2
  BY <1>1
<1>4. uart_tmp' \in [0..TmpSize - 1 -> Characters \cup {"nul"}]
  BY DEF S!Blank
<1>5. Copied(0)'
  BY <1>2 DEF Copied
<1> QED
  BY <1>2, <1>3, <1>4, <1>5

(* The command has run and the buffer is cleared.                           *)
LEMMA SerialRun ==
  ASSUME SerialInv, S!Run
  PROVE  SerialInv'
<1>1. /\ uart_running /\ uart_running' = FALSE /\ uart_tmp' = S!Blank /\ uart_t' = 0
      /\ uart_expected' = IF uart_expected = <<>> THEN uart_expected ELSE Tail(uart_expected)
      /\ uart_rx_queue' = uart_rx_queue /\ uart_line' = uart_line /\ uart_lost' = uart_lost
  BY DEF S!Run
<1>2. SerialTypes
  BY DEF SerialInv
<1>3. uart_expected' \in Seq(Seq(Characters))
  BY <1>1, <1>2, Taken DEF SerialTypes
<1>4. SerialTypes'
  BY <1>1, <1>2, <1>3, NothingCopied DEF SerialTypes
<1>5. ASSUME ~uart_lost
      PROVE  \E at \in [1..Len(uart_expected') + 1 -> Int] : Laid(at)' /\ TakenOut(at)'
  <2>1. PICK at : at \in [1..Len(uart_expected) + 1 -> Int] /\ Laid(at) /\ TakenOut(at)
    BY <1>5 DEF SerialInv
  <2>2. uart_expected # <<>> /\ at[1] = -Len(Whole(1))
    BY <1>1, <2>1 DEF TakenOut
  <2>3. PICK N \in Nat \ {0} : N = Len(uart_expected)
    BY <1>2, <2>2, WholeTyped
  <2>4. /\ uart_expected' = Tail(uart_expected) /\ Len(uart_expected') = N - 1
        /\ \A j \in 1..N - 1 : uart_expected'[j] = uart_expected[j + 1]
    BY <1>1, <1>2, <2>2, <2>3, Taken DEF SerialTypes
  <2>5. PICK up : up = [j \in 1..N |-> at[j + 1]]
    OBVIOUS
  <2>6. /\ up \in [1..N -> Int]
        /\ \A j \in 1..N : up[j] = at[j + 1] /\ j + 1 \in 1..N + 1
    <3>1. \A j \in 1..N : j + 1 \in 1..N + 1
      OBVIOUS
    <3>2. \A j \in 1..N : at[j + 1] \in Int
      BY <2>1, <2>3, <3>1
    <3> QED
      BY <2>5, <3>1, <3>2
  <2>7. \A j \in 1..N : Whole(j)' = Whole(j + 1)
    <3> SUFFICES ASSUME NEW j \in 1..N
                 PROVE  Whole(j)' = Whole(j + 1)
      OBVIOUS
    <3>1. CASE j = N
      <4>1. Whole(j + 1) = uart_line
        BY <2>3, <3>1 DEF Whole
      <4>2. Whole(j)' = uart_line'
        BY <2>3, <2>4, <3>1 DEF Whole
      <4> QED
        BY <1>1, <4>1, <4>2
    <3>2. CASE j # N
      <4>1. j \in 1..N - 1 /\ j <= N - 1 /\ j + 1 <= N
        BY <3>2
      <4>2. Whole(j + 1) = uart_expected[j + 1]
        BY <2>3, <4>1 DEF Whole
      <4>3. Whole(j)' = uart_expected'[j]
        BY <2>4, <4>1 DEF Whole
      <4> QED
        BY <2>4, <4>1, <4>2, <4>3
    <3> QED
      BY <3>1, <3>2
  <2>8. ASSUME NEW j \in 1..N, NEW i \in 1..Len(Whole(j)')
        PROVE  Lies(up, j, i)'
    <3>1. i \in 1..Len(Whole(j + 1))
      BY <2>7
    <3>2. Lies(at, j + 1, i)
      BY <2>1, <2>3, <2>6, <3>1 DEF Laid
    <3>3. Whole(j)'[i] = Whole(j + 1)[i] /\ up[j] = at[j + 1]
      BY <2>6, <2>7
    <3> QED
      BY <1>1, <3>2, <3>3 DEF Lies
  <2>9. ASSUME NEW j \in 1..N - 1
        PROVE  LineEnds(up, j)'
    <3>1. j + 1 \in 1..N /\ j \in 1..N
      BY <2>3
    <3>2. LineEnds(at, j + 1)
      BY <2>1, <2>3, <3>1 DEF Laid
    <3>3. up[j] = at[j + 1] /\ up[j + 1] = at[j + 1 + 1] /\ uart_expected'[j] = uart_expected[j + 1]
      BY <2>4, <2>6, <3>1
    <3> QED
      BY <1>1, <3>2, <3>3 DEF LineEnds
  <2>10. up[N] + Len(uart_line') = Len(uart_rx_queue') + 1
    <3>1. at[N + 1] + Len(uart_line) = Len(uart_rx_queue) + 1
      BY <2>1, <2>3 DEF Laid
    <3>2. up[N] = at[N + 1]
      BY <2>6
    <3> QED
      BY <1>1, <3>1, <3>2
  <2>11. Len(uart_expected') + 1 = N
    BY <2>4
  <2>12. Laid(up)'
    <3>1. N - 1 = Len(uart_expected')
      BY <2>4
    <3> QED
      BY <2>6, <2>8, <2>9, <2>10, <2>11, <3>1 DEF Laid
  <2>13. up[1] = 1
    <3>1. 1 \in 1..N /\ 1 + 1 = 2 /\ Whole(1) = uart_expected[1] /\ Len(Whole(1)) \in Nat
      BY <1>2, <2>2, <2>3, WholeTyped
    <3>2. LineEnds(at, 1)
      BY <2>1, <2>3, <3>1 DEF Laid
    <3>3. at[1 + 1] = at[1] + Len(uart_expected[1]) + 1
      BY <3>2 DEF LineEnds
    <3>4. up[1] = at[1 + 1]
      BY <2>6, <3>1
    <3>5. PICK m \in Nat : m = Len(Whole(1))
      BY <3>1
    <3>6. at[1] = -m /\ at[1 + 1] = at[1] + m + 1
      BY <2>2, <3>1, <3>3, <3>5
    <3>7. at[1 + 1] = 1
      BY <3>6
    <3> QED
      BY <3>4, <3>7
  <2>14. TakenOut(up)'
    <3>1. Copied(0)'
      BY <1>1, NothingCopied
    <3>2. Len(Whole(1)') \in Nat
      <4>1. 1 \in 1..N /\ 1 + 1 \in 1..N + 1
        BY <2>3
      <4> QED
        BY <1>2, <2>3, <2>7, <4>1, WholeTyped
    <3>3. 0 \in 0..Len(Whole(1)') /\ 1 - up[1] = 0
      BY <2>13, <3>2
    <3> QED
      BY <1>1, <3>1, <3>3 DEF TakenOut
  <2> QED
    BY <2>6, <2>11, <2>12, <2>14
<1>6. uart_lost' => uart_line' = <<>> /\ uart_expected' = <<>>
  BY <1>1 DEF SerialInv
<1> QED
  BY <1>1, <1>4, <1>5, <1>6 DEF SerialInv

(* uart_isr: a character that is not lost lies behind the others.           *)
LEMMA Typed ==
  ASSUME SerialTypes, NEW at, Laid(at), TakenOut(at), NEW ch \in Characters \cup {"eol"},
         uart_rx_queue' = Append(uart_rx_queue, ch),
         uart_line' = IF ch = "eol" THEN <<>> ELSE Append(uart_line, ch),
         uart_expected' = IF ch = "eol" THEN Append(uart_expected, uart_line) ELSE uart_expected,
         uart_tmp' = uart_tmp, uart_t' = uart_t, uart_running' = uart_running
  PROVE  \E up \in [1..Len(uart_expected') + 1 -> Int] : Laid(up)' /\ TakenOut(up)'
<1>1. PICK N \in Nat : N = Len(uart_expected)
  BY WholeTyped
<1>2. PICK Q \in Nat : Q = Len(uart_rx_queue)
  BY WholeTyped
<1>3. PICK m \in Nat : m = Len(uart_line)
  BY WholeTyped
<1>4. /\ Len(uart_rx_queue') = Q + 1 /\ uart_rx_queue'[Q + 1] = ch
      /\ \A p \in 1..Q : uart_rx_queue'[p] = uart_rx_queue[p]
  BY <1>2, Appended DEF SerialTypes
<1>5. PICK N2 : N2 = IF ch = "eol" THEN N + 1 ELSE N
  OBVIOUS
<1>6. /\ Len(uart_expected') = N2 /\ N2 \in Nat /\ N <= N2
      /\ \A j \in 1..N : uart_expected'[j] = uart_expected[j]
      /\ ch = "eol" => uart_expected'[N + 1] = uart_line
  <2>1. uart_line \in Seq(Characters) /\ uart_expected \in Seq(Seq(Characters))
    BY DEF SerialTypes
  <2>2. CASE ch = "eol"
    BY <1>1, <1>5, <2>1, <2>2, Appended
  <2>3. CASE ch # "eol"
    BY <1>1, <1>5, <2>3
  <2> QED
    BY <2>2, <2>3
<1>7. PICK up : up = [j \in 1..N2 + 1 |-> IF j <= N + 1 THEN at[j] ELSE Q + 2]
  OBVIOUS
<1>8. /\ at \in [1..N + 1 -> Int] /\ up \in [1..N2 + 1 -> Int]
      /\ \A j \in 1..N + 1 : up[j] = at[j] /\ at[j] \in Int /\ j \in 1..N2 + 1
      /\ ch = "eol" => up[N + 2] = Q + 2
  <2>1. at \in [1..N + 1 -> Int]
    BY <1>1 DEF Laid
  <2>2. \A j \in 1..N2 + 1 : (IF j <= N + 1 THEN at[j] ELSE Q + 2) \in Int
    BY <1>6, <2>1
  <2>3. \A j \in 1..N + 1 : j \in 1..N2 + 1 /\ j <= N + 1
    BY <1>6
  <2>4. ch = "eol" => N + 2 \in 1..N2 + 1 /\ ~(N + 2 <= N + 1)
    BY <1>5
  <2> QED
    BY <1>7, <2>1, <2>2, <2>3, <2>4
<1>9. \A j \in 1..N : Whole(j)' = Whole(j)
  <2> SUFFICES ASSUME NEW j \in 1..N
               PROVE  Whole(j)' = Whole(j)
    OBVIOUS
  <2>1. j <= N /\ j <= N2
    BY <1>6
  <2> QED
    BY <1>1, <1>6, <2>1 DEF Whole
<1>10. Whole(N + 1) = uart_line
  BY <1>1, WholeTyped
<1>11. ch = "eol" => Whole(N + 1)' = uart_line /\ Whole(N + 2)' = <<>>
  BY <1>5, <1>6 DEF Whole
<1>12. ch # "eol" => Whole(N + 1)' = Append(uart_line, ch)
  BY <1>5, <1>6 DEF Whole
<1>13. ch # "eol" => /\ Len(Whole(N + 1)') = m + 1 /\ Whole(N + 1)'[m + 1] = ch
                     /\ \A i \in 1..m : Whole(N + 1)'[i] = uart_line[i]
  <2> SUFFICES ASSUME ch # "eol"
               PROVE  /\ Len(Whole(N + 1)') = m + 1 /\ Whole(N + 1)'[m + 1] = ch
                      /\ \A i \in 1..m : Whole(N + 1)'[i] = uart_line[i]
    OBVIOUS
  <2>1. ch \in Characters /\ uart_line \in Seq(Characters) /\ Whole(N + 1)' = Append(uart_line, ch)
    BY <1>12 DEF SerialTypes
  <2>2. PICK w : w = Append(uart_line, ch)
    OBVIOUS
  <2>3. Len(w) = m + 1 /\ w[m + 1] = ch /\ \A i \in 1..m : w[i] = uart_line[i]
    BY <1>3, <2>1, <2>2, Appended
  <2> QED
    BY <2>1, <2>2, <2>3
<1>14. at[N + 1] + m = Q + 1
  BY <1>1, <1>2, <1>3 DEF Laid
<1>15. ASSUME NEW j \in 1..N + 1, NEW i \in 1..Len(Whole(j)), Whole(j)'[i] = Whole(j)[i]
       PROVE  Lies(up, j, i)'
  <2>1. Lies(at, j, i)
    BY <1>1 DEF Laid
  <2>2. PICK a \in Int : a = at[j] /\ a = up[j]
    BY <1>8
  <2>3. Len(Whole(j)) \in Nat
    BY <1>1, WholeTyped
  <2>4. PICK b \in Int : b = i
    BY <2>3
  <2>5. a + b - 1 >= 1 => a + b - 1 <= Q /\ uart_rx_queue[a + b - 1] = Whole(j)[i]
    BY <1>2, <2>1, <2>2, <2>4 DEF Lies
  <2>6. a + b - 1 >= 1 => a + b - 1 <= Len(uart_rx_queue') /\ uart_rx_queue'[a + b - 1] = Whole(j)'[i]
    BY <1>4, <1>15, <2>5
  <2> QED
    BY <2>2, <2>4, <2>6 DEF Lies
<1>16. ASSUME NEW j \in 1..N2 + 1, NEW i \in 1..Len(Whole(j)')
       PROVE  Lies(up, j, i)'
  <2>1. CASE j \in 1..N
    <3>1. j \in 1..N + 1
      BY <2>1
    <3> QED
      BY <1>9, <1>15, <2>1, <3>1
  <2>2. CASE j = N + 1 /\ ch = "eol"
    <3>1. N + 1 \in 1..N + 1
      OBVIOUS
    <3> QED
      BY <1>10, <1>11, <1>15, <2>2, <3>1
  <2>3. CASE j = N + 1 /\ ch # "eol" /\ i <= m
    <3>1. i \in 1..m /\ N + 1 \in 1..N + 1
      BY <1>13, <2>3
    <3> QED
      BY <1>3, <1>10, <1>13, <1>15, <2>3, <3>1
  <2>4. CASE j = N + 1 /\ ch # "eol" /\ ~(i <= m)
    <3>1. i = m + 1
      BY <1>13, <2>4
    <3>2. up[j] + i - 1 = Q + 1
      <4>1. N + 1 \in 1..N + 1
        OBVIOUS
      <4> QED
        BY <1>8, <1>14, <2>4, <3>1, <4>1
    <3> QED
      BY <1>4, <1>13, <2>4, <3>1, <3>2 DEF Lies
  <2>5. CASE j = N + 2 /\ ch = "eol"
    <3>1. Len(Whole(j)') = 0
      BY <1>11, <2>5
    <3> QED
      BY <3>1
  <2>6. j \in 1..N \/ j = N + 1 \/ (j = N + 2 /\ ch = "eol")
    BY <1>5
  <2> QED
    BY <2>1, <2>2, <2>3, <2>4, <2>5, <2>6
<1>17. ASSUME NEW j \in 1..N2
       PROVE  LineEnds(up, j)'
  <2>1. CASE j \in 1..N
    <3>1. LineEnds(at, j)
      BY <1>1, <2>1 DEF Laid
    <3>2. PICK a \in Int : a = at[j] /\ a = up[j]
      BY <1>8, <2>1
    <3>3. j + 1 \in 1..N + 1
      BY <2>1
    <3>4. up[j + 1] = at[j + 1]
      BY <1>8, <3>3
    <3>5. PICK n \in Nat : n = Len(uart_expected[j]) /\ n = Len(uart_expected'[j])
      BY <1>1, <1>6, <2>1, WholeTyped
    <3>6. /\ at[j + 1] = a + n + 1
          /\ a + n >= 1 => a + n <= Q /\ uart_rx_queue[a + n] = "eol"
      BY <1>2, <3>1, <3>2, <3>5 DEF LineEnds
    <3>7. a + n >= 1 => a + n <= Len(uart_rx_queue') /\ uart_rx_queue'[a + n] = "eol"
      BY <1>4, <3>6
    <3> QED
      BY <3>2, <3>4, <3>5, <3>6, <3>7 DEF LineEnds
  <2>2. CASE j = N + 1 /\ ch = "eol"
    <3>1. N + 1 \in 1..N + 1 /\ (N + 1) + 1 = N + 2
      OBVIOUS
    <3>2. up[j] + Len(uart_expected'[j]) = Q + 1
      BY <1>3, <1>6, <1>8, <1>14, <2>2, <3>1
    <3>3. up[j + 1] = Q + 2
      BY <1>8, <2>2, <3>1
    <3>4. PICK a \in Int : a = up[j]
      BY <1>8, <2>2, <3>1
    <3>5. PICK n \in Nat : n = Len(uart_expected'[j])
      BY <1>3, <1>6, <2>2
    <3>6. a + n = Q + 1 /\ up[j + 1] = a + n + 1
      <4>1. a + n = Q + 1
        BY <3>2, <3>4, <3>5, Zenon
      <4> QED
        BY <3>3, <4>1
    <3>7. a + n <= Len(uart_rx_queue') /\ uart_rx_queue'[a + n] = "eol"
      BY <1>4, <2>2, <3>6
    <3> QED
      BY <3>4, <3>5, <3>6, <3>7 DEF LineEnds
  <2>3. j \in 1..N \/ (j = N + 1 /\ ch = "eol")
    BY <1>5
  <2> QED
    BY <2>1, <2>2, <2>3
<1>18. up[N2 + 1] + Len(uart_line') = Len(uart_rx_queue') + 1
  <2>1. CASE ch = "eol"
    <3>1. N2 + 1 = N + 2 /\ Len(uart_line') = 0
      BY <1>5, <2>1
    <3> QED
      BY <1>4, <1>8, <2>1, <3>1
  <2>2. CASE ch # "eol"
    <3>1. N2 = N /\ N + 1 \in 1..N + 1
      BY <1>5, <2>2
    <3>2. Len(uart_line') = m + 1
      BY <1>12, <1>13, <2>2
    <3>3. up[N2 + 1] = at[N + 1] /\ at[N + 1] \in Int
      BY <1>8, <3>1
    <3>4. PICK a \in Int : a = at[N + 1]
      BY <3>3
    <3> QED
      BY <1>4, <1>14, <3>2, <3>3, <3>4
  <2> QED
    BY <2>1, <2>2
<1>19. Laid(up)'
  BY <1>6, <1>8, <1>16, <1>17, <1>18 DEF Laid
<1>20. TakenOut(up)'
  <2>1. 1 \in 1..N + 1 /\ up[1] = at[1]
    BY <1>8
  <2>2. PICK n : n = IF uart_running THEN Len(Whole(1)) ELSE 1 - at[1]
    OBVIOUS
  <2>3. /\ uart_running => uart_expected # <<>> /\ at[1] = -n
        /\ n \in 0..Len(Whole(1)) /\ Copied(n) /\ Len(Whole(1)) \in Nat
    BY <2>2, WholeTyped DEF TakenOut
  <2>4. /\ Len(Whole(1)') \in Nat /\ Len(Whole(1)) <= Len(Whole(1)')
        /\ \A i \in 1..Len(Whole(1)) : Whole(1)'[i] = Whole(1)[i]
        /\ uart_running => Whole(1)' = Whole(1)
    <3>1. CASE N = 0 /\ ch # "eol"
      <4>1. ~uart_running
        BY <1>1, <2>3, <3>1, WholeTyped
      <4> QED
        BY <1>3, <1>10, <1>13, <3>1, <4>1
    <3>2. CASE N = 0 /\ ch = "eol"
      BY <1>10, <1>11, <2>3, <3>2
    <3>3. CASE N # 0
      <4>1. 1 \in 1..N
        BY <3>3
      <4> QED
        BY <1>9, <2>3, <4>1
    <3> QED
      BY <3>1, <3>2, <3>3
  <2>5. Copied(n)'
    <3>1. TmpSize \in Nat
      BY SerialAssumed
    <3>2. SUFFICES ASSUME n < TmpSize - 1, NEW i \in 0..TmpSize - 1
                   PROVE  uart_tmp[i] = IF i < n THEN Whole(1)'[i + 1] ELSE "nul"
      BY <2>3 DEF Copied
    <3>3. uart_tmp[i] = IF i < n THEN Whole(1)[i + 1] ELSE "nul"
      BY <2>3, <3>2 DEF Copied
    <3>4. i < n => i + 1 \in 1..Len(Whole(1))
      BY <2>3, <3>1
    <3> QED
      BY <2>4, <3>3, <3>4
  <2>6. n \in 0..Len(Whole(1)')
    BY <2>3, <2>4
  <2>7. n = IF uart_running' THEN Len(Whole(1)') ELSE 1 - up[1]
    BY <2>1, <2>2, <2>4
  <2>8. uart_running' => uart_expected' # <<>> /\ up[1] = -n
    <3>1. Append(uart_expected, uart_line) # <<>>
      BY Appended DEF SerialTypes
    <3> QED
      BY <2>1, <2>3, <3>1
  <2> QED
    BY <2>5, <2>6, <2>7, <2>8 DEF TakenOut
<1> QED
  BY <1>6, <1>8, <1>19, <1>20

(* A character arrives.                                                     *)
LEMMA SerialUartIsr ==
  ASSUME SerialInv, NEW ch \in Characters \cup {"eol"}, S!uart_isr(ch)
  PROVE  SerialInv'
<1>1. /\ ch # "eol" => ~uart_lost
      /\ uart_rx_queue' = IF Len(uart_rx_queue) < UART_RX_QUEUE_SIZE
                          THEN Append(uart_rx_queue, ch) ELSE uart_rx_queue
      /\ uart_lost' <=> (uart_lost \/ Len(uart_rx_queue) = UART_RX_QUEUE_SIZE)
      /\ uart_line' = IF ch = "eol" \/ uart_lost' THEN <<>> ELSE Append(uart_line, ch)
      /\ uart_expected' = IF uart_lost' THEN <<>>
                          ELSE IF ch = "eol" THEN Append(uart_expected, uart_line) ELSE uart_expected
      /\ uart_tmp' = uart_tmp /\ uart_t' = uart_t /\ uart_running' = uart_running
  <2>1. uart_lost' = (uart_lost \/ Len(uart_rx_queue) = UART_RX_QUEUE_SIZE)
    BY DEF S!uart_isr
  <2>2. uart_lost' <=> (uart_lost \/ Len(uart_rx_queue) = UART_RX_QUEUE_SIZE)
    BY <2>1, Zenon
  <2> QED
    BY <2>2 DEF S!uart_isr
<1>2. SerialTypes
  BY DEF SerialInv
<1>3. uart_lost' \in BOOLEAN
  <2>1. uart_lost' = (uart_lost \/ Len(uart_rx_queue) = UART_RX_QUEUE_SIZE)
    BY DEF S!uart_isr
  <2> QED
    BY <2>1, Zenon
<1>4. uart_rx_queue' \in Seq(Characters \cup {"eol"}) /\ Len(uart_rx_queue') <= UART_RX_QUEUE_SIZE
  <2>1. /\ Append(uart_rx_queue, ch) \in Seq(Characters \cup {"eol"})
        /\ Len(uart_rx_queue) \in Nat /\ Len(Append(uart_rx_queue, ch)) = Len(uart_rx_queue) + 1
    BY <1>2, Appended DEF SerialTypes
  <2> QED
    BY <1>1, <1>2, <2>1, SerialAssumed DEF SerialTypes
<1>5. uart_line' \in Seq(Characters)
  <2>1. ch # "eol" => Append(uart_line, ch) \in Seq(Characters)
    BY <1>2, Appended DEF SerialTypes
  <2> QED
    BY <1>1, <2>1, EmptySeq
<1>6. uart_expected' \in Seq(Seq(Characters))
  <2>1. Append(uart_expected, uart_line) \in Seq(Seq(Characters)) /\ uart_expected \in Seq(Seq(Characters))
    BY <1>2, Appended DEF SerialTypes
  <2> QED
    BY <1>1, <2>1, EmptySeq
<1>7. SerialTypes'
  BY <1>1, <1>2, <1>3, <1>4, <1>5, <1>6 DEF SerialTypes
<1>8. ASSUME ~uart_lost'
      PROVE  \E up \in [1..Len(uart_expected') + 1 -> Int] : Laid(up)' /\ TakenOut(up)'
  <2>1. PICK at : Laid(at) /\ TakenOut(at)
    BY <1>1, <1>8 DEF SerialInv
  <2>2. Len(uart_rx_queue) < UART_RX_QUEUE_SIZE
    <3>1. Len(uart_rx_queue) \in Nat /\ Len(uart_rx_queue) <= UART_RX_QUEUE_SIZE
      BY <1>2, WholeTyped DEF SerialTypes
    <3> QED
      BY <1>1, <1>8, <3>1, SerialAssumed
  <2>3. /\ uart_rx_queue' = Append(uart_rx_queue, ch)
        /\ uart_line' = IF ch = "eol" THEN <<>> ELSE Append(uart_line, ch)
        /\ uart_expected' = IF ch = "eol" THEN Append(uart_expected, uart_line) ELSE uart_expected
    BY <1>1, <1>8, <2>2
  <2> QED
    BY <1>1, <1>2, <2>1, <2>3, Typed
<1>9. uart_lost' => uart_line' = <<>> /\ uart_expected' = <<>>
  BY <1>1
<1> QED
  BY <1>7, <1>8, <1>9 DEF SerialInv

(* An empty queue, and no line waiting.                                     *)
NothingIn ==
  /\ SerialTypes /\ uart_rx_queue = <<>> /\ uart_line = <<>> /\ uart_expected = <<>>
  /\ ~uart_running /\ uart_tmp = S!Blank /\ uart_t = 0

(* The invariant holds when nothing is under way.                           *)
LEMMA NothingTyped == NothingIn => SerialInv
<1> SUFFICES ASSUME NothingIn
             PROVE  SerialInv
  OBVIOUS
<1>1. PICK at : at = [j \in 1..1 |-> 1]
  OBVIOUS
<1>2. Len(uart_expected) = 0 /\ Len(uart_line) = 0 /\ Len(uart_rx_queue) = 0
  BY DEF NothingIn
<1>3. at \in [1..1 -> Int] /\ at[1] = 1 /\ 0 + 1 = 1
  BY <1>1
<1>4. \A j \in 1..1 : Len(Whole(j)) = 0
  BY <1>2 DEF Whole
<1>5. Laid(at)
  <2>1. \A j \in 1..1 : \A i \in 1..Len(Whole(j)) : Lies(at, j, i)
    BY <1>4
  <2>2. \A j \in 1..0 : LineEnds(at, j)
    OBVIOUS
  <2> QED
    BY <1>2, <1>3, <2>1, <2>2 DEF Laid
<1>6. TakenOut(at)
  <2>1. Copied(0)
    BY DEF Copied, NothingIn, S!Blank
  <2>2. 1 - at[1] = 0 /\ 0 \in 0..Len(Whole(1))
    BY <1>3, <1>4
  <2> QED
    BY <2>1, <2>2 DEF TakenOut, NothingIn
<1> QED
  BY <1>2, <1>3, <1>5, <1>6 DEF SerialInv, NothingIn

(* The user begins afresh after a loss.                                     *)
LEMMA SerialAfresh ==
  ASSUME SerialInv, S!Afresh
  PROVE  SerialInv'
<1>1. /\ uart_lost /\ ~uart_running /\ uart_rx_queue = <<>> /\ uart_t = 0 /\ uart_tmp = S!Blank
      /\ uart_lost' = FALSE /\ uart_rx_queue' = uart_rx_queue /\ uart_tmp' = uart_tmp /\ uart_t' = uart_t
      /\ uart_running' = uart_running /\ uart_line' = uart_line /\ uart_expected' = uart_expected
  BY DEF S!Afresh
<1>2. uart_line = <<>> /\ uart_expected = <<>>
  BY <1>1 DEF SerialInv
<1>3. SerialTypes'
  BY <1>1 DEF SerialInv, SerialTypes
<1>4. NothingIn'
  BY <1>1, <1>2, <1>3 DEF NothingIn, S!Blank
<1>5. (NothingIn => SerialInv)'
  BY NothingTyped, PTL
<1> QED
  BY <1>4, <1>5

(* The serial line before the first character.                              *)
LEMMA SerialStarts ==
  ASSUME S!Init
  PROVE  SerialInv
<1>1. /\ uart_rx_queue = <<>> /\ uart_tmp = S!Blank /\ uart_t = 0 /\ uart_running = FALSE
      /\ uart_line = <<>> /\ uart_expected = <<>> /\ uart_lost = FALSE
  BY DEF S!Init
<1>2. TmpSize \in Nat /\ TmpSize >= 2 /\ UART_RX_QUEUE_SIZE \in Nat
  BY SerialAssumed
<1>3. /\ uart_tmp \in [0..TmpSize - 1 -> Characters \cup {"nul"}] /\ uart_tmp[TmpSize - 1] = "nul"
      /\ uart_t \in 0..TmpSize - 2
  BY <1>1, <1>2 DEF S!Blank
<1>4. /\ uart_rx_queue \in Seq(Characters \cup {"eol"}) /\ Len(uart_rx_queue) = 0
      /\ uart_line \in Seq(Characters) /\ uart_expected \in Seq(Seq(Characters))
  BY <1>1, EmptySeq
<1>5. SerialTypes
  <2>1. uart_running \in BOOLEAN /\ uart_lost \in BOOLEAN
    BY <1>1
  <2>2. Len(uart_rx_queue) <= UART_RX_QUEUE_SIZE
    BY <1>2, <1>4
  <2> QED
    BY <1>3, <1>4, <2>1, <2>2 DEF SerialTypes
<1> QED
  BY <1>1, <1>5, NothingTyped DEF NothingIn

(* Nothing of the serial line changes.                                      *)
LEMMA SerialIdle ==
  ASSUME SerialInv, UNCHANGED S!vars
  PROVE  SerialInv'
<1>1. /\ uart_rx_queue' = uart_rx_queue /\ uart_tmp' = uart_tmp /\ uart_t' = uart_t
      /\ uart_running' = uart_running /\ uart_line' = uart_line /\ uart_expected' = uart_expected
      /\ uart_lost' = uart_lost
  BY DEF S!vars
<1>2. SerialTypes'
  BY <1>1 DEF SerialInv, SerialTypes
<1>3. \A j : Whole(j)' = Whole(j)
  BY <1>1 DEF Whole
<1>4. ASSUME NEW at, Laid(at)
      PROVE  Laid(at)'
  <2>1. \A j, i : Lies(at, j, i)' <=> Lies(at, j, i)
    BY <1>1, <1>3 DEF Lies
  <2>2. \A j : LineEnds(at, j)' <=> LineEnds(at, j)
    BY <1>1 DEF LineEnds
  <2> QED
    BY <1>1, <1>3, <1>4, <2>1, <2>2 DEF Laid
<1>5. ASSUME NEW at, TakenOut(at)
      PROVE  TakenOut(at)'
  <2>1. \A n : Copied(n)' <=> Copied(n)
    BY <1>1, <1>3 DEF Copied
  <2> QED
    BY <1>1, <1>3, <1>5, <2>1 DEF TakenOut
<1> QED
  BY <1>1, <1>2, <1>4, <1>5 DEF SerialInv

(* No step of the serial line breaks its invariant.                         *)
LEMMA SerialKeeps ==
  ASSUME SerialInv, S!Next
  PROVE  SerialInv'
BY SerialUartIsr, SerialTakeCharacter, SerialTakeEol, SerialRun, SerialAfresh DEF S!Next

(* The string in tmp.                                                       *)
LEMMA CommandTyped ==
  ASSUME SerialInv
  PROVE  S!LineAsTyped
<1> SUFFICES ASSUME uart_running, ~uart_lost
             PROVE  /\ uart_expected # <<>>
                    /\ Len(Head(uart_expected)) < TmpSize - 1 => S!Command = Head(uart_expected)
  BY DEF S!LineAsTyped
<1>1. PICK at : Laid(at) /\ TakenOut(at)
  BY DEF SerialInv
<1>2. uart_expected # <<>> /\ Copied(Len(Whole(1)))
  BY <1>1 DEF TakenOut
<1>3. PICK w : w = Whole(1)
  OBVIOUS
<1>4. /\ w = Head(uart_expected) /\ w \in Seq(Characters) /\ Len(w) \in Nat
  <2>1. SerialTypes
    BY DEF SerialInv
  <2>2. Head(uart_expected) = uart_expected[1]
    BY <1>2, <2>1, Taken DEF SerialTypes
  <2> QED
    BY <1>2, <1>3, <2>1, <2>2, WholeTyped
<1>5. SUFFICES ASSUME Len(w) < TmpSize - 1
               PROVE  S!Command = w
  BY <1>2, <1>4
<1>6. PICK n \in Nat : n = Len(w)
  BY <1>4
<1>7. /\ \A i \in 0..TmpSize - 1 : uart_tmp[i] = IF i < n THEN w[i + 1] ELSE "nul"
      /\ TmpSize \in Nat /\ n < TmpSize - 1
  BY <1>2, <1>3, <1>5, <1>6, SerialAssumed DEF Copied
<1>8. \A i \in 1..n : w[i] # "nul"
  BY <1>4, <1>6, ElementOfSeq, SerialAssumed
<1> DEFINE Ended(k) == uart_tmp[k] = "nul" /\ \A i \in 0..k - 1 : uart_tmp[i] # "nul"
<1>9. n \in 0..TmpSize - 1 /\ Ended(n)
  <2>1. ASSUME NEW i \in 0..n - 1
        PROVE  uart_tmp[i] # "nul"
    <3>1. i \in 0..TmpSize - 1 /\ i < n /\ i + 1 \in 1..n
      BY <1>7
    <3>2. uart_tmp[i] = w[i + 1]
      BY <1>7, <3>1
    <3> QED
      BY <1>8, <3>1, <3>2
  <2> QED
    BY <1>7, <2>1
<1>10. ASSUME NEW k \in 0..TmpSize - 1, Ended(k)
       PROVE  k = n
  <2>1. CASE k < n
    <3>1. k \in 0..n - 1
      BY <2>1
    <3> QED
      BY <1>9, <1>10, <3>1
  <2>2. CASE n < k
    <3>1. n \in 0..k - 1
      BY <1>7, <2>2
    <3> QED
      BY <1>9, <1>10, <3>1
  <2> QED
    BY <1>7, <2>1, <2>2
<1>11. (CHOOSE k \in 0..TmpSize - 1 : Ended(k)) = n
  <2> HIDE DEF Ended
  <2> QED
    BY <1>9, <1>10
<1>12. S!Command = [i \in 1..n |-> uart_tmp[i - 1]]
  BY <1>11, Zenon DEF S!Command
<1>13. \A i \in 1..n : uart_tmp[i - 1] = w[i]
  <2> SUFFICES ASSUME NEW i \in 1..n
               PROVE  uart_tmp[i - 1] = w[i]
    OBVIOUS
  <2>1. i - 1 \in 0..TmpSize - 1 /\ i - 1 < n /\ (i - 1) + 1 = i
    BY <1>7
  <2> QED
    BY <1>7, <2>1
<1>14. w = [i \in 1..n |-> w[i]]
  BY <1>4, <1>6, LenProperties
<1> QED
  BY <1>12, <1>13, <1>14

(* uartInterfaceTask: the invariant of the serial line.                     *)
THEOREM SerialInvariant == Spec => [](active = "serial" => SerialInv)
<1>1. Init => (active = "serial" => SerialInv)
  BY SerialStarts DEF Init
<1>2. (active = "serial" => SerialInv) /\ [Next]_vars => (active = "serial" => SerialInv)'
  <2> SUFFICES ASSUME active = "serial" => SerialInv, [Next]_vars, active' = "serial"
               PROVE  SerialInv'
    OBVIOUS
  <2>1. active = "serial" /\ (S!Next \/ UNCHANGED serialVars)
    BY DEF Next, vars
  <2>2. UNCHANGED serialVars => UNCHANGED S!vars
    BY DEF serialVars, S!vars
  <2> QED
    BY <2>1, <2>2, SerialKeeps, SerialIdle
<1> QED
  BY <1>1, <1>2, PTL DEF Spec

(* uartInterfaceTask: unless a character was lost to a full queue, the      *)
(* command that is run is the line typed.                                   *)
THEOREM SerialCorrect == Spec => []LineAsTyped
<1>1. SerialInv => S!TypeOK
  BY SerialAssumed DEF SerialInv, SerialTypes, S!TypeOK
<1>2. (active = "serial" => SerialInv) => LineAsTyped
  BY <1>1, CommandTyped DEF LineAsTyped
<1> QED
  BY <1>2, SerialInvariant, PTL
-----------------------------------------------------------------------------
(* The telnet session: the line as the editor that the client believes to   *)
(* have would have it after each byte that has not been looked at, how many *)
(* commands it would have had run by then, and what it takes a byte for: a  *)
(* key, or a later byte of an escape sequence or of an option.              *)
Lines == Seq(T!Bytes)
Editors == [line : Lines, history : Lines, n : Nat, mode : 0..4]

Same(x, y) == y.line = x.line /\ y.history = x.history /\ y.n = x.n
Runs(x, command, y, e) ==
  /\ y.line = <<>> /\ y.mode = 0
  /\ IF command = <<>> THEN y.n = x.n /\ y.history = x.history
     ELSE y.n = x.n + 1 /\ y.history = command /\ e[y.n] = command
Looks(x, b, y, e) ==
  \/ x.mode = 0 /\ b \in {"cr", "lf"} /\ Runs(x, x.line, y, e)
  \/ /\ x.mode = 0 /\ b = "bs" /\ y.mode = 0
     /\ y.line = IF x.line = <<>> THEN x.line ELSE T!Front(x.line)
     /\ y.history = x.history /\ y.n = x.n
  \/ /\ x.mode = 0 /\ b \in Chars /\ y.mode = 0
     /\ y.line = IF Len(x.line) < BrecSize - 1 THEN Append(x.line, b) ELSE x.line
     /\ y.history = x.history /\ y.n = x.n
  \/ x.mode = 0 /\ b = "esc" /\ y.mode = 1 /\ Same(x, y)
  \/ x.mode = 1 /\ b = "[" /\ y.mode = 2 /\ Same(x, y)
  \/ x.mode = 2 /\ b = "A" /\ Runs(x, x.history, y, e)
  \/ x.mode = 0 /\ b = "iac" /\ y.mode = 3 /\ Same(x, y)
  \/ x.mode = 3 /\ b = "opt" /\ y.mode = 4 /\ Same(x, y)
  \/ x.mode = 4 /\ b = "opt" /\ y.mode = 0 /\ Same(x, y)

(* The editor f[k] after the first k of the bytes s; e are the commands.    *)
Follows(f, s, e) ==
  /\ f \in [0..Len(s) -> Editors]
  /\ \A k \in 1..Len(s) : Looks(f[k - 1], s[k], f[k], e)
  /\ \A k \in 0..Len(s) : f[k].n <= Len(e)
  /\ \A j \in 0..Len(s), k \in 0..Len(s) : j <= k => f[j].n <= f[k].n

(* An editor by its parts.                                                  *)
LEMMA EditorIs ==
  ASSUME NEW x \in Lines, NEW h \in Lines, NEW n \in Nat, NEW mode \in 0..4,
         NEW y, y = [line |-> x, history |-> h, n |-> n, mode |-> mode]
  PROVE  y \in Editors /\ y.line = x /\ y.history = h /\ y.n = n /\ y.mode = mode
BY DEF Editors

(* The parts of an editor.                                                  *)
LEMMA EditorTypes ==
  ASSUME NEW x \in Editors
  PROVE  x.line \in Lines /\ x.history \in Lines /\ x.n \in Nat /\ x.mode \in 0..4
BY DEF Editors

(* Commands that are entered later change nothing for a byte.               *)
LEMMA LooksStill ==
  ASSUME NEW x \in Editors, NEW y \in Editors, NEW b, NEW e \in Seq(Lines), NEW d \in Seq(Lines),
         Looks(x, b, y, e), y.n <= Len(e), \A k \in 1..Len(e) : d[k] = e[k]
  PROVE  Looks(x, b, y, d)
<1>1. x.n \in Nat /\ y.n \in Nat /\ Len(e) \in Nat
  BY EditorTypes, LenProperties
<1>2. ASSUME NEW command, Runs(x, command, y, e)
      PROVE  Runs(x, command, y, d)
  <2>1. CASE command = <<>>
    BY <1>2, <2>1 DEF Runs
  <2>2. CASE command # <<>>
    <3>1. y.n = x.n + 1 /\ e[y.n] = command
      BY <1>2, <2>2 DEF Runs
    <3>2. y.n \in 1..Len(e)
      BY <1>1, <3>1
    <3>3. d[y.n] = command
      BY <3>1, <3>2
    <3> QED
      BY <1>2, <2>2, <3>3 DEF Runs
  <2> QED
    BY <2>1, <2>2
<1> QED
  BY <1>2, Zenon DEF Looks

(* One byte more at the end.                                                *)
LEMMA Ahead ==
  ASSUME NEW s \in Lines, NEW e \in Seq(Lines), NEW f, Follows(f, s, e),
         NEW d \in Seq(Lines), Len(e) <= Len(d), \A k \in 1..Len(e) : d[k] = e[k],
         NEW b \in T!Bytes, NEW y \in Editors, f[Len(s)].n <= y.n, y.n <= Len(d), Looks(f[Len(s)], b, y, d)
  PROVE  \E g : Follows(g, Append(s, b), d) /\ g[0] = f[0] /\ g[Len(Append(s, b))] = y
<1>1. PICK l \in Nat : l = Len(s)
  BY LenProperties DEF Lines
<1>2. /\ Append(s, b) \in Lines /\ Len(Append(s, b)) = l + 1
      /\ Append(s, b)[l + 1] = b /\ \A k \in 1..l : Append(s, b)[k] = s[k]
  BY <1>1, Appended DEF Lines
<1>3. /\ f \in [0..l -> Editors]
      /\ \A k \in 1..l : Looks(f[k - 1], s[k], f[k], e)
      /\ \A k \in 0..l : f[k].n <= Len(e)
      /\ \A j \in 0..l, k \in 0..l : j <= k => f[j].n <= f[k].n
  BY <1>1 DEF Follows
<1> DEFINE g == [k \in 0..(l + 1) |-> IF k <= l THEN f[k] ELSE y]
<1>4. \A k \in 0..l : g[k] = f[k] /\ k \in 0..(l + 1)
  OBVIOUS
<1>5. g[l + 1] = y
  OBVIOUS
<1>6. g \in [0..(l + 1) -> Editors]
  BY <1>3
<1> HIDE DEF g
<1>7. Len(e) \in Nat /\ Len(d) \in Nat /\ y.n \in Nat /\ \A k \in 0..l : f[k].n \in Nat
  BY <1>3, EditorTypes, LenProperties
<1>8. ASSUME NEW k \in 1..(l + 1)
      PROVE  Looks(g[k - 1], Append(s, b)[k], g[k], d)
  <2>1. CASE k \in 1..l
    <3>1. k - 1 \in 0..l /\ k \in 0..l
      BY <2>1
    <3>2. g[k - 1] = f[k - 1] /\ g[k] = f[k] /\ f[k - 1] \in Editors /\ f[k] \in Editors
      BY <1>3, <1>4, <3>1
    <3>3. Looks(f[k - 1], s[k], f[k], d)
      BY <1>3, <2>1, <3>1, <3>2, LooksStill
    <3> QED
      BY <1>2, <2>1, <3>2, <3>3
  <2>2. CASE k = l + 1
    <3>1. (l + 1) - 1 = l /\ l \in 0..l
      OBVIOUS
    <3>2. g[(l + 1) - 1] = f[l] /\ g[l + 1] = y /\ Append(s, b)[l + 1] = b
      BY <1>2, <1>4, <1>5, <3>1
    <3> QED
      BY <1>1, <2>2, <3>2
  <2>3. k \in 1..l \/ k = l + 1
    OBVIOUS
  <2> QED
    BY <2>1, <2>2, <2>3, Zenon
<1>9. \A k \in 0..(l + 1) : g[k].n <= Len(d)
  <2>1. ASSUME NEW k \in 0..(l + 1) PROVE g[k].n <= Len(d)
    <3>1. CASE k \in 0..l
      BY <1>3, <1>4, <1>7, <3>1
    <3>2. CASE k = l + 1
      BY <1>5, <3>2
    <3> QED
      BY <3>1, <3>2
  <2> QED
    BY <2>1
<1>10. \A j \in 0..(l + 1), k \in 0..(l + 1) : j <= k => g[j].n <= g[k].n
  <2>1. ASSUME NEW j \in 0..(l + 1), NEW k \in 0..(l + 1), j <= k PROVE g[j].n <= g[k].n
    <3>1. CASE k \in 0..l
      <4>1. j \in 0..l
        BY <2>1, <3>1
      <4> QED
        BY <1>3, <1>4, <2>1, <3>1, <4>1
    <3>2. CASE k = l + 1 /\ j \in 0..l
      <4>1. l \in 0..l
        OBVIOUS
      <4>2. f[j].n <= f[l].n /\ f[l].n <= y.n
        BY <1>1, <1>3, <3>2, <4>1
      <4>3. f[j].n <= y.n
        BY <1>7, <3>2, <4>1, <4>2
      <4> QED
        BY <1>4, <1>5, <3>2, <4>3
    <3>3. CASE j = l + 1
      <4>1. k = l + 1
        BY <2>1, <3>3
      <4> QED
        BY <1>5, <1>7, <3>3, <4>1
    <3> QED
      BY <3>1, <3>2, <3>3
  <2> QED
    BY <2>1
<1>11. Follows(g, Append(s, b), d)
  BY <1>2, <1>6, <1>8, <1>9, <1>10 DEF Follows
<1> QED
  BY <1>2, <1>4, <1>5, <1>11

(* The first byte is looked at.                                             *)
LEMMA Behind ==
  ASSUME NEW s \in Lines, s # <<>>, NEW e, NEW f, Follows(f, s, e)
  PROVE  /\ f[0] \in Editors /\ Head(s) \in T!Bytes /\ Tail(s) \in Lines
         /\ \E g : /\ Follows(g, Tail(s), e) /\ Looks(f[0], Head(s), g[0], e)
                   /\ g[0] \in Editors /\ f[0].n <= g[0].n
                   /\ g[Len(Tail(s))] = f[Len(s)]
<1>1. PICK l \in Nat : Len(s) = l + 1
  <2>1. Len(s) \in Nat \ {0}
    BY Taken DEF Lines
  <2>2. Len(s) - 1 \in Nat /\ Len(s) = (Len(s) - 1) + 1
    BY <2>1
  <2> QED
    BY <2>2, Zenon
<1>2. /\ Tail(s) \in Lines /\ Len(Tail(s)) = l /\ Head(s) = s[1] /\ Head(s) \in T!Bytes
      /\ \A k \in 1..l : Tail(s)[k] = s[k + 1]
  BY <1>1, Taken DEF Lines
<1>3. /\ f \in [0..(l + 1) -> Editors]
      /\ \A k \in 1..(l + 1) : Looks(f[k - 1], s[k], f[k], e)
      /\ \A k \in 0..(l + 1) : f[k].n <= Len(e)
      /\ \A j \in 0..(l + 1), k \in 0..(l + 1) : j <= k => f[j].n <= f[k].n
  BY <1>1 DEF Follows
<1> DEFINE g == [k \in 0..l |-> f[k + 1]]
<1>4. \A k \in 0..l : g[k] = f[k + 1] /\ k + 1 \in 0..(l + 1)
  OBVIOUS
<1>5. g \in [0..l -> Editors]
  BY <1>3
<1> HIDE DEF g
<1>6. ASSUME NEW k \in 1..l PROVE Looks(g[k - 1], Tail(s)[k], g[k], e)
  <2>1. k - 1 \in 0..l /\ k \in 0..l /\ (k - 1) + 1 = k /\ (k + 1) - 1 = k /\ k + 1 \in 1..(l + 1)
    OBVIOUS
  <2>2. Looks(f[(k + 1) - 1], s[k + 1], f[k + 1], e)
    BY <1>3, <2>1
  <2>3. g[k - 1] = f[k] /\ g[k] = f[k + 1]
    BY <1>4, <2>1
  <2> QED
    BY <1>2, <2>1, <2>2, <2>3
<1>7. \A k \in 0..l : g[k].n <= Len(e)
  BY <1>3, <1>4
<1>8. \A j \in 0..l, k \in 0..l : j <= k => g[j].n <= g[k].n
  <2>1. ASSUME NEW j \in 0..l, NEW k \in 0..l, j <= k PROVE g[j].n <= g[k].n
    <3>1. j + 1 \in 0..(l + 1) /\ k + 1 \in 0..(l + 1) /\ j + 1 <= k + 1
      BY <2>1
    <3> QED
      BY <1>3, <1>4, <3>1
  <2> QED
    BY <2>1
<1>9. Follows(g, Tail(s), e)
  BY <1>2, <1>5, <1>6, <1>7, <1>8 DEF Follows
<1>10. 0 \in 0..(l + 1) /\ 1 \in 1..(l + 1) /\ 1 \in 0..(l + 1) /\ 0 \in 0..l /\ l \in 0..l /\ 1 - 1 = 0 /\ 0 + 1 = 1
  OBVIOUS
<1>11. Looks(f[0], s[1], f[1], e) /\ f[0].n <= f[1].n /\ f[0] \in Editors /\ f[1] \in Editors
  BY <1>3, <1>10
<1>12. g[0] = f[1] /\ g[l] = f[l + 1]
  BY <1>4, <1>10
<1> QED
  BY <1>1, <1>2, <1>9, <1>11, <1>12

(* The first command has been run.                                          *)
LEMMA Shifted ==
  ASSUME NEW s \in Lines, NEW e \in Seq(Lines), e # <<>>, NEW f, Follows(f, s, e), f[0].n = 1
  PROVE  \E g : /\ Follows(g, s, Tail(e))
                /\ \A k \in 0..Len(s) : /\ g[k].line = f[k].line /\ g[k].history = f[k].history
                                        /\ g[k].n = f[k].n - 1 /\ g[k].mode = f[k].mode
<1>1. PICK l \in Nat : Len(s) = l
  BY LenProperties DEF Lines
<1>2. /\ f \in [0..l -> Editors]
      /\ \A k \in 1..l : Looks(f[k - 1], s[k], f[k], e)
      /\ \A k \in 0..l : f[k].n <= Len(e)
      /\ \A j \in 0..l, k \in 0..l : j <= k => f[j].n <= f[k].n
  BY <1>1 DEF Follows
<1>3. \A k \in 0..l : f[k].n \in Nat \ {0} /\ f[k].line \in Lines /\ f[k].history \in Lines /\ f[k].mode \in 0..4
  <2>1. ASSUME NEW k \in 0..l PROVE f[k].n \in Nat \ {0}
    <3>1. 0 \in 0..l /\ 0 <= k
      OBVIOUS
    <3>2. 1 <= f[k].n
      BY <1>2, <3>1
    <3>3. f[k].n \in Nat
      BY <1>2, EditorTypes
    <3> QED
      BY <3>2, <3>3
  <2> QED
    BY <1>2, <2>1, EditorTypes
<1>4. /\ Tail(e) \in Seq(Lines) /\ Len(Tail(e)) = Len(e) - 1 /\ Len(e) \in Nat
      /\ \A k \in 1..(Len(e) - 1) : Tail(e)[k] = e[k + 1]
  BY Taken, LenProperties
<1> DEFINE g == [k \in 0..l |-> [line |-> f[k].line, history |-> f[k].history, n |-> f[k].n - 1, mode |-> f[k].mode]]
<1>5. ASSUME NEW k \in 0..l
      PROVE  /\ g[k] \in Editors /\ g[k].line = f[k].line /\ g[k].history = f[k].history
             /\ g[k].n = f[k].n - 1 /\ g[k].mode = f[k].mode
  <2>1. f[k].n - 1 \in Nat
    BY <1>3
  <2>2. g[k] = [line |-> f[k].line, history |-> f[k].history, n |-> f[k].n - 1, mode |-> f[k].mode]
    OBVIOUS
  <2> HIDE DEF g
  <2> QED
    BY <1>3, <2>1, <2>2, EditorIs
<1>6. g \in [0..l -> Editors]
  BY <1>5
<1> HIDE DEF g
<1>7. ASSUME NEW k \in 1..l PROVE Looks(g[k - 1], s[k], g[k], Tail(e))
  <2>1. k - 1 \in 0..l /\ k \in 0..l
    OBVIOUS
  <2> DEFINE x == f[k - 1]
             y == f[k]
             u == g[k - 1]
             v == g[k]
  <2>2. /\ u.line = x.line /\ u.history = x.history /\ u.n = x.n - 1 /\ u.mode = x.mode
        /\ v.line = y.line /\ v.history = y.history /\ v.n = y.n - 1 /\ v.mode = y.mode
    BY <1>5, <2>1
  <2>3. Looks(x, s[k], y, e)
    BY <1>2
  <2>4. x.n \in Nat \ {0} /\ y.n \in Nat \ {0} /\ y.n <= Len(e)
    BY <1>2, <1>3, <2>1
  <2> HIDE DEF x, y, u, v
  <2>5. Same(x, y) => Same(u, v)
    BY <2>2 DEF Same
  <2>6. y.n = x.n => v.n = u.n
    BY <2>2
  <2>7. ASSUME NEW command, Runs(x, command, y, e) PROVE Runs(u, command, v, Tail(e))
    <3>1. CASE command = <<>>
      BY <2>2, <2>6, <2>7, <3>1 DEF Runs
    <3>2. CASE command # <<>>
      <4>1. y.n = x.n + 1 /\ e[y.n] = command
        BY <2>7, <3>2 DEF Runs
      <4>2. v.n = u.n + 1 /\ v.n \in 1..(Len(e) - 1) /\ v.n + 1 = y.n
        BY <1>4, <2>2, <2>4, <4>1
      <4>3. Tail(e)[v.n] = command
        BY <1>4, <4>1, <4>2
      <4> QED
        BY <2>2, <2>7, <3>2, <4>2, <4>3 DEF Runs
    <3> QED
      BY <3>1, <3>2
  <2>8. Looks(u, s[k], v, Tail(e))
    BY <2>2, <2>3, <2>5, <2>6, <2>7, Zenon DEF Looks
  <2> QED
    BY <2>8 DEF u, v
<1>8. \A k \in 0..l : g[k].n <= Len(Tail(e))
  BY <1>2, <1>3, <1>4, <1>5
<1>9. \A j \in 0..l, k \in 0..l : j <= k => g[j].n <= g[k].n
  <2>1. ASSUME NEW j \in 0..l, NEW k \in 0..l, j <= k PROVE g[j].n <= g[k].n
    <3>1. PICK a \in Nat, c \in Nat : a = f[j].n /\ c = f[k].n /\ a <= c
      BY <1>2, <1>3, <2>1
    <3>2. g[j].n = a - 1 /\ g[k].n = c - 1
      BY <1>5, <3>1
    <3>3. \A p \in Nat, q \in Nat : p <= q => p - 1 <= q - 1
      OBVIOUS
    <3>4. a - 1 <= c - 1
      BY <3>1, <3>3, Zenon
    <3> QED
      BY <3>2, <3>4, Zenon
  <2> QED
    BY <2>1
<1>10. Follows(g, s, Tail(e))
  BY <1>1, <1>6, <1>7, <1>8, <1>9 DEF Follows
<1> QED
  BY <1>1, <1>5, <1>10


(* The bytes not looked at, the editor at work and the one of the client.   *)
Stream == buf \o unread[typist]
ModeNow == IF ~inIac THEN 0 ELSE IF iiac = 0 THEN 3 ELSE 4
Now(x) ==
  IF pc = "command"
  THEN x.line = <<>> /\ x.history = brec /\ x.n = 1 /\ x.mode = 0 /\ brec # <<>> /\ expected[1] = brec /\ ~inIac
  ELSE x.line = brec /\ x.n = 0 /\ (kept => x.history = obrec) /\ x.mode = ModeNow
AsTyped(x) == x.line = line /\ x.history = history /\ x.n = Len(expected) /\ x.mode = 0
Followed == \E f : Follows(f, Stream, expected) /\ Now(f[0]) /\ AsTyped(f[Len(Stream)])

TelnetTypes ==
  /\ T!TypeOK
  /\ brec \in Lines /\ obrec \in Lines /\ line \in Lines /\ history \in Lines /\ expected \in Seq(Lines)
Mine == \A c \in Clients : c # typist => unread[c] = <<>>
TelnetInv == TelnetTypes /\ (~torn => Mine /\ Followed)

(* What has been typed is a sequence of bytes.                              *)
LEMMA StreamIs ==
  ASSUME TelnetTypes
  PROVE  Stream \in Lines /\ buf \in Lines /\ unread[typist] \in Lines /\ typist \in Clients
BY ConcatProperties DEF TelnetTypes, T!TypeOK, Lines, Stream

(* The first byte of two sequences.                                         *)
LEMMA TailOf ==
  ASSUME NEW v \in Lines, NEW w \in Lines, v # <<>>
  PROVE  v \o w # <<>> /\ Head(v \o w) = Head(v) /\ Tail(v \o w) = Tail(v) \o w
<1>1. PICK l \in Nat, m \in Nat : Len(v) = l + 1 /\ Len(w) = m
  <2>1. Len(v) \in Nat \ {0} /\ Len(w) \in Nat
    BY Taken, LenProperties DEF Lines
  <2>2. Len(v) - 1 \in Nat /\ Len(v) = (Len(v) - 1) + 1
    BY <2>1
  <2> QED
    BY <2>1, <2>2, Zenon
<1>2. /\ v \o w \in Lines /\ Len(v \o w) = l + 1 + m
      /\ \A k \in 1..(l + 1 + m) : (v \o w)[k] = IF k <= l + 1 THEN v[k] ELSE w[k - (l + 1)]
  <2>1. /\ v \o w \in Lines /\ Len(v \o w) = Len(v) + Len(w)
        /\ \A k \in 1..(Len(v) + Len(w)) : (v \o w)[k] = IF k <= Len(v) THEN v[k] ELSE w[k - Len(v)]
    BY ConcatProperties, Zenon DEF Lines
  <2> QED
    BY <1>1, <2>1
<1>3. v \o w # <<>>
  BY <1>1, <1>2, EmptySeq
<1>4. /\ Tail(v) \in Lines /\ Len(Tail(v)) = l /\ Head(v) = v[1] /\ \A k \in 1..l : Tail(v)[k] = v[k + 1]
  BY <1>1, Taken DEF Lines
<1>5. /\ Tail(v \o w) \in Lines /\ Len(Tail(v \o w)) = l + m /\ Head(v \o w) = (v \o w)[1]
      /\ \A k \in 1..(l + m) : Tail(v \o w)[k] = (v \o w)[k + 1]
  BY <1>2, <1>3, Taken DEF Lines
<1>6. Head(v \o w) = Head(v)
  BY <1>2, <1>4, <1>5
<1>7. /\ Tail(v) \o w \in Lines /\ Len(Tail(v) \o w) = l + m
      /\ \A k \in 1..(l + m) : (Tail(v) \o w)[k] = IF k <= l THEN Tail(v)[k] ELSE w[k - l]
  <2> DEFINE u == Tail(v)
  <2>1. u \in Lines /\ Len(u) = l
    BY <1>4
  <2> HIDE DEF u
  <2>2. /\ u \o w \in Lines /\ Len(u \o w) = Len(u) + Len(w)
        /\ \A k \in 1..(Len(u) + Len(w)) : (u \o w)[k] = IF k <= Len(u) THEN u[k] ELSE w[k - Len(u)]
    BY <2>1, ConcatProperties, Zenon DEF Lines
  <2>3. /\ u \o w \in Lines /\ Len(u \o w) = l + m
        /\ \A k \in 1..(l + m) : (u \o w)[k] = IF k <= l THEN u[k] ELSE w[k - l]
    BY <1>1, <2>1, <2>2
  <2> QED
    BY <2>3 DEF u
<1>8. ASSUME NEW k \in 1..(l + m) PROVE Tail(v \o w)[k] = (Tail(v) \o w)[k]
  <2>1. k + 1 \in 1..(l + 1 + m) /\ (k + 1) - (l + 1) = k - l /\ (k + 1 <= l + 1 <=> k <= l) /\ (k <= l => k \in 1..l)
    OBVIOUS
  <2> QED
    BY <1>2, <1>4, <1>5, <1>7, <2>1
<1>9. Tail(v \o w) = Tail(v) \o w
  BY <1>5, <1>7, <1>8, SeqEqual DEF Lines
<1> QED
  BY <1>3, <1>6, <1>9

(* The first of the bytes at hand.                                          *)
LEMMA StreamTail ==
  ASSUME TelnetTypes, buf # <<>>
  PROVE  Stream # <<>> /\ Head(Stream) = Head(buf) /\ Tail(Stream) = Tail(buf) \o unread[typist]
<1>1. PICK v \in Lines, w \in Lines : v = buf /\ w = unread[typist] /\ v # <<>>
  BY StreamIs
<1>2. v \o w # <<>> /\ Head(v \o w) = Head(v) /\ Tail(v \o w) = Tail(v) \o w
  BY <1>1, TailOf
<1> QED
  BY <1>1, <1>2 DEF Stream

(* A byte is looked at: the editor at work goes on as the client believes.  *)
LEMMA LooksAt ==
  ASSUME TelnetInv, ~torn, buf # <<>>, buf' = Tail(buf), UNCHANGED <<unread, typist, line, history, expected>>
  PROVE  \E x, y, g :
           /\ x \in Editors /\ y \in Editors
           /\ Now(x) /\ Looks(x, Head(buf), y, expected) /\ x.n <= y.n /\ y = g[0]
           /\ Follows(g, Stream', expected') /\ AsTyped(g[Len(Stream)])'
<1>1. TelnetTypes /\ Followed
  BY DEF TelnetInv
<1>2. PICK f : Follows(f, Stream, expected) /\ Now(f[0]) /\ AsTyped(f[Len(Stream)])
  BY <1>1 DEF Followed
<1>3. Stream \in Lines /\ Stream # <<>> /\ Head(Stream) = Head(buf) /\ Stream' = Tail(Stream)
  <2>1. Stream' = Tail(buf) \o unread[typist]
    BY DEF Stream
  <2> QED
    BY <1>1, <2>1, StreamIs, StreamTail
<1>4. f[0] \in Editors
  BY <1>2, <1>3, Behind
<1>5. PICK g : /\ Follows(g, Tail(Stream), expected) /\ Looks(f[0], Head(Stream), g[0], expected)
               /\ g[0] \in Editors /\ f[0].n <= g[0].n /\ g[Len(Tail(Stream))] = f[Len(Stream)]
  BY <1>2, <1>3, Behind
<1>6. AsTyped(g[Len(Stream)])'
  <2>1. g[Len(Stream')] = f[Len(Stream)]
    BY <1>3, <1>5
  <2>2. AsTyped(f[Len(Stream)])
    BY <1>2
  <2> QED
    BY <2>1, <2>2 DEF AsTyped
<1>7. Follows(g, Stream', expected')
  BY <1>3, <1>5
<1> QED
  BY <1>2, <1>3, <1>4, <1>5, <1>6, <1>7, Zenon

(* Without its last byte, a line is still one.                              *)
LEMMA FrontIs ==
  ASSUME NEW s \in Lines, s # <<>>
  PROVE  T!Front(s) \in Lines /\ Len(T!Front(s)) = Len(s) - 1
<1>1. Len(s) \in Nat \ {0} /\ \A k \in 1..Len(s) : s[k] \in T!Bytes
  BY Taken, ElementOfSeq DEF Lines
<1>2. PICK l \in Nat : l = Len(s) - 1
  BY <1>1
<1>3. \A k \in 1..l : s[k] \in T!Bytes
  BY <1>1, <1>2
<1>4. /\ SubSeq(s, 1, l) \in Seq(T!Bytes)
      /\ Len(SubSeq(s, 1, l)) = IF 1 <= l THEN l - 1 + 1 ELSE 0
  BY <1>3, SubSeqProperties
<1>5. T!Front(s) = SubSeq(s, 1, l)
  BY <1>2 DEF T!Front
<1> QED
  BY <1>2, <1>4, <1>5 DEF Lines

(* What has been entered with a command more, or with an empty one.         *)
Plus(e, command) == IF command = <<>> THEN e ELSE Append(e, command)
Past(h, command) == IF command = <<>> THEN h ELSE command

(* A command more in the list.                                              *)
LEMMA PlusIs ==
  ASSUME NEW e \in Seq(Lines), NEW command \in Lines, NEW h \in Lines
  PROVE  /\ Plus(e, command) \in Seq(Lines) /\ Past(h, command) \in Lines
         /\ Len(e) <= Len(Plus(e, command)) /\ \A k \in 1..Len(e) : Plus(e, command)[k] = e[k]
<1>1. Len(e) \in Nat
  BY LenProperties
<1>2. CASE command = <<>>
  BY <1>1, <1>2 DEF Plus, Past
<1>3. CASE command # <<>>
  BY <1>1, <1>3, Appended DEF Plus, Past
<1> QED
  BY <1>2, <1>3

(* An editor that runs the command entered last.                            *)
LEMMA RunsLast ==
  ASSUME NEW e \in Seq(Lines), NEW command \in Lines, NEW x \in Editors, x.n = Len(e),
         NEW y, y = [line |-> <<>>, history |-> Past(x.history, command), n |-> Len(Plus(e, command)), mode |-> 0]
  PROVE  /\ y \in Editors /\ Runs(x, command, y, Plus(e, command)) /\ x.n <= y.n /\ y.n <= Len(Plus(e, command))
         /\ y.line = <<>> /\ y.history = Past(x.history, command) /\ y.n = Len(Plus(e, command)) /\ y.mode = 0
<1>1. /\ Plus(e, command) \in Seq(Lines) /\ Past(x.history, command) \in Lines
      /\ Len(e) <= Len(Plus(e, command)) /\ Len(e) \in Nat /\ Len(Plus(e, command)) \in Nat /\ <<>> \in Lines
  BY PlusIs, EditorTypes, LenProperties, EmptySeq DEF Lines
<1>2. /\ y \in Editors /\ y.line = <<>> /\ y.history = Past(x.history, command)
      /\ y.n = Len(Plus(e, command)) /\ y.mode = 0
  <2>1. 0 \in 0..4
    OBVIOUS
  <2> QED
    BY <1>1, <2>1, EditorIs
<1>3. Runs(x, command, y, Plus(e, command))
  <2>1. CASE command = <<>>
    BY <1>2, <2>1 DEF Runs, Plus, Past
  <2>2. CASE command # <<>>
    <3>1. Plus(e, command) = Append(e, command) /\ y.history = command
      BY <1>2, <2>2 DEF Plus, Past
    <3>2. Len(Append(e, command)) = Len(e) + 1 /\ Append(e, command)[Len(e) + 1] = command
      BY Appended
    <3>3. y.n = x.n + 1 /\ Plus(e, command)[y.n] = command
      BY <1>2, <3>1, <3>2
    <3> QED
      BY <1>2, <2>2, <3>1, <3>3 DEF Runs
  <2> QED
    BY <2>1, <2>2
<1> QED
  BY <1>1, <1>2, <1>3

(* A line with a byte more.                                                 *)
Longer(p, q, b) ==
  \E l \in Nat : Len(p) = l /\ Len(q) = l + 1 /\ q[l + 1] = b /\ \A k \in 1..l : q[k] = p[k]

(* One line after another, and a byte more.                                 *)
LEMMA OneMore ==
  ASSUME NEW s \in Lines, NEW p \in Lines, NEW q \in Lines, NEW b \in T!Bytes, Longer(p, q, b)
  PROVE  Append(s \o p, b) = s \o q
<1>1. Append(p, b) = q
  <2>1. PICK l \in Nat : Len(p) = l /\ Len(q) = l + 1 /\ q[l + 1] = b /\ \A k \in 1..l : q[k] = p[k]
    BY DEF Longer
  <2>2. /\ Append(p, b) \in Lines /\ Len(Append(p, b)) = l + 1
        /\ Append(p, b)[l + 1] = b /\ \A k \in 1..l : Append(p, b)[k] = p[k]
    BY <2>1, Appended DEF Lines
  <2>3. ASSUME NEW k \in 1..(l + 1) PROVE Append(p, b)[k] = q[k]
    <3>1. k \in 1..l \/ k = l + 1
      OBVIOUS
    <3> QED
      BY <2>1, <2>2, <3>1
  <2> QED
    BY <2>1, <2>2, <2>3, SeqEqual DEF Lines
<1>2. PICK t \in Lines : t = <<b>>
  <2>1. <<b>> \in Lines
    BY DEF Lines
  <2> QED
    BY <2>1, Zenon
<1>3. s \o p \in Lines /\ s \o q \in Lines
  BY ConcatProperties DEF Lines
<1>4. Append(p, b) = p \o t /\ Append(s \o p, b) = (s \o p) \o t
  BY <1>2, <1>3, AppendIsConcat DEF Lines
<1>5. (s \o p) \o t = s \o (p \o t)
  BY <1>2, ConcatAssociative DEF Lines
<1> QED
  BY <1>1, <1>3, <1>4, <1>5

(* Bytes at the end, one by one.                                            *)
LEMMA OneByOne ==
  ASSUME NEW s \in Lines, NEW a \in T!Bytes, NEW b \in T!Bytes, NEW c \in T!Bytes
  PROVE  /\ Append(s, a) \in Lines /\ Append(s, a) = s \o <<a>>
         /\ Append(s \o <<a>>, b) \in Lines /\ Append(s \o <<a>>, b) = s \o <<a, b>>
         /\ Append(s \o <<a, b>>, c) \in Lines /\ Append(s \o <<a, b>>, c) = s \o <<a, b, c>>
<1>1. Append(s, a) \in Lines /\ Append(s, a) = s \o <<a>>
  BY AppendIsConcat, Appended DEF Lines
<1>2. <<a>> \in Lines /\ <<a, b>> \in Lines /\ <<a, b, c>> \in Lines
  BY DEF Lines
<1>3. Append(s \o <<a>>, b) = s \o <<a, b>> /\ s \o <<a, b>> \in Lines
  <2>6. s \o <<a>> \in Lines
    BY <1>1, Zenon
  <2>5. Append(s \o <<a>>, b) \in Lines
    BY <2>6, Appended DEF Lines
  <2>1. PICK p \in Lines, q \in Lines : p = <<a>> /\ q = <<a, b>>
    BY <1>2, Zenon
  <2>2. Len(p) = 1 /\ Len(q) = 2 /\ p[1] = a /\ q[1] = a /\ q[2] = b
    BY <2>1
  <2>3. Longer(p, q, b)
    <3>1. 1 \in Nat /\ Len(p) = 1 /\ Len(q) = 1 + 1 /\ q[1 + 1] = b /\ \A k \in 1..1 : q[k] = p[k]
      BY <2>2
    <3> QED
      BY <3>1, Zenon DEF Longer
  <2>4. Append(s \o p, b) = s \o q
    BY <2>3, OneMore, ZenonT(30)
  <2> QED
    BY <2>1, <2>4, <2>5, Zenon
<1>4. Append(s \o <<a, b>>, c) = s \o <<a, b, c>> /\ s \o <<a, b, c>> \in Lines
  <2>6. s \o <<a, b>> \in Lines
    BY <1>3
  <2>5. Append(s \o <<a, b>>, c) \in Lines
    BY <2>6, Appended DEF Lines
  <2>1. PICK p \in Lines, q \in Lines : p = <<a, b>> /\ q = <<a, b, c>>
    BY <1>2, Zenon
  <2>2. /\ Len(p) = 2 /\ Len(q) = 3
        /\ p[1] = a /\ p[2] = b /\ q[1] = a /\ q[2] = b /\ q[3] = c
    BY <2>1
  <2>3. Longer(p, q, c)
    <3>1. 2 \in Nat /\ Len(p) = 2 /\ Len(q) = 2 + 1 /\ q[2 + 1] = c /\ \A k \in 1..2 : q[k] = p[k]
      BY <2>2
    <3> QED
      BY <3>1, Zenon DEF Longer
  <2>4. Append(s \o p, c) = s \o q
    BY <2>3, OneMore, ZenonT(30)
  <2> QED
    BY <2>1, <2>4, <2>5, Zenon
<1> QED
  BY <1>1, <1>3, <1>4

(* A byte at the end that no command comes with.                            *)
LEMMA AheadStill ==
  ASSUME NEW s \in Lines, NEW e \in Seq(Lines), NEW f, Follows(f, s, e),
         NEW b \in T!Bytes, NEW y \in Editors, f[Len(s)].n = y.n, Looks(f[Len(s)], b, y, e)
  PROVE  \E g : Follows(g, Append(s, b), e) /\ g[0] = f[0] /\ g[Len(Append(s, b))] = y
<1>1. PICK l \in Nat : l = Len(s)
  BY LenProperties DEF Lines
<1>2. l \in 0..l /\ f[l] \in Editors /\ f[l].n <= Len(e)
  BY <1>1 DEF Follows
<1>3. f[l].n \in Nat /\ Len(e) \in Nat
  BY <1>2, EditorTypes, LenProperties
<1>4. Len(e) <= Len(e) /\ f[Len(s)].n <= y.n /\ y.n <= Len(e)
  BY <1>1, <1>2, <1>3
<1> QED
  BY <1>4, Ahead

(* The editor at the end is one.                                            *)
LEMMA EndIs ==
  ASSUME NEW s \in Lines, NEW e \in Seq(Lines), NEW f, Follows(f, s, e)
  PROVE  f[Len(s)] \in Editors
<1>1. PICK l \in Nat : l = Len(s)
  BY LenProperties DEF Lines
<1>2. l \in 0..l
  OBVIOUS
<1> QED
  BY <1>1, <1>2 DEF Follows

(* A key typed is in the stream as its bytes, at its end.                   *)
Ending(f, s, x, h, e) ==
  Follows(f, s, e) /\ LET y == f[Len(s)] IN y.line = x /\ y.history = h /\ y.n = Len(e) /\ y.mode = 0

(* Return.                                                                  *)
LEMMA EnterEnds ==
  ASSUME NEW s \in Lines, NEW x \in Lines, NEW h \in Lines, NEW e \in Seq(Lines), NEW f, Ending(f, s, x, h, e)
  PROVE  \E g : g[0] = f[0] /\ Ending(g, s \o <<"cr", "lf">>, <<>>, Past(h, x), Plus(e, x))
<1> DEFINE z == f[Len(s)]
           y == [line |-> <<>>, history |-> Past(z.history, x), n |-> Len(Plus(e, x)), mode |-> 0]
<1>1. Follows(f, s, e) /\ z.line = x /\ z.history = h /\ z.n = Len(e) /\ z.mode = 0 /\ z \in Editors
  BY EndIs DEF Ending
<1>2. /\ y \in Editors /\ Runs(z, x, y, Plus(e, x)) /\ z.n <= y.n /\ y.n <= Len(Plus(e, x))
      /\ y.line = <<>> /\ y.history = Past(z.history, x) /\ y.n = Len(Plus(e, x)) /\ y.mode = 0
  <2> HIDE DEF z
  <2> QED
    BY <1>1, RunsLast
<1>3. "cr" \in T!Bytes /\ "lf" \in T!Bytes
  BY DEF T!Bytes
<1> HIDE DEF y
<1>4. Looks(z, "cr", y, Plus(e, x))
  BY <1>1, <1>2 DEF Looks
<1>5. Plus(e, x) \in Seq(Lines) /\ Len(e) <= Len(Plus(e, x)) /\ \A k \in 1..Len(e) : Plus(e, x)[k] = e[k]
  BY PlusIs
<1>6. \E g : Follows(g, Append(s, "cr"), Plus(e, x)) /\ g[0] = f[0] /\ g[Len(Append(s, "cr"))] = y
  BY <1>1, <1>2, <1>3, <1>4, <1>5, Ahead
<1>7. PICK g : Follows(g, Append(s, "cr"), Plus(e, x)) /\ g[0] = f[0] /\ g[Len(Append(s, "cr"))] = y
  BY <1>6
<1>8. Looks(y, "lf", y, Plus(e, x))
  <2>1. Runs(y, y.line, y, Plus(e, x))
    BY <1>2 DEF Runs
  <2> QED
    BY <1>2, <2>1 DEF Looks
<1>9. PICK r \in Lines : r = Append(s, "cr") /\ Append(r, "lf") = s \o <<"cr", "lf">>
  <2>1. /\ Append(s, "cr") \in Lines /\ Append(s, "cr") = s \o <<"cr">>
        /\ Append(s \o <<"cr">>, "lf") = s \o <<"cr", "lf">>
    BY <1>3, OneByOne, Zenon
  <2> QED
    BY <2>1, Zenon
<1>10. PICK j : Follows(j, Append(r, "lf"), Plus(e, x)) /\ j[0] = g[0] /\ j[Len(Append(r, "lf"))] = y
  <2>1. Follows(g, r, Plus(e, x)) /\ g[Len(r)] = y
    BY <1>7, <1>9
  <2> QED
    BY <1>2, <1>3, <1>5, <1>8, <2>1, AheadStill
<1>11. j[0] = f[0] /\ Ending(j, s \o <<"cr", "lf">>, <<>>, Past(h, x), Plus(e, x))
  BY <1>1, <1>2, <1>7, <1>9, <1>10 DEF Ending
<1> QED
  BY <1>11

(* The arrow up.                                                            *)
LEMMA UpEnds ==
  ASSUME NEW s \in Lines, NEW x \in Lines, NEW h \in Lines, NEW e \in Seq(Lines), NEW f, Ending(f, s, x, h, e)
  PROVE  \E g : g[0] = f[0] /\ Ending(g, s \o <<"esc", "[", "A">>, <<>>, Past(h, h), Plus(e, h))
<1> DEFINE z == f[Len(s)]
           u == [line |-> x, history |-> h, n |-> Len(e), mode |-> 1]
           v == [line |-> x, history |-> h, n |-> Len(e), mode |-> 2]
           y == [line |-> <<>>, history |-> Past(v.history, h), n |-> Len(Plus(e, h)), mode |-> 0]
<1>1. Follows(f, s, e) /\ z.line = x /\ z.history = h /\ z.n = Len(e) /\ z.mode = 0 /\ z \in Editors
  BY EndIs DEF Ending
<1> HIDE DEF z
<1>2. /\ u \in Editors /\ u.line = x /\ u.history = h /\ u.n = Len(e) /\ u.mode = 1
      /\ v \in Editors /\ v.line = x /\ v.history = h /\ v.n = Len(e) /\ v.mode = 2
  <2>1. Len(e) \in Nat /\ 1 \in 0..4 /\ 2 \in 0..4
    BY LenProperties
  <2> QED
    BY <2>1, EditorIs
<1> HIDE DEF u, v
<1>3. /\ y \in Editors /\ Runs(v, h, y, Plus(e, h)) /\ v.n <= y.n /\ y.n <= Len(Plus(e, h))
      /\ y.line = <<>> /\ y.history = Past(v.history, h) /\ y.n = Len(Plus(e, h)) /\ y.mode = 0
  BY <1>2, RunsLast
<1> HIDE DEF y
<1>4. "esc" \in T!Bytes /\ "[" \in T!Bytes /\ "A" \in T!Bytes
  BY DEF T!Bytes
<1>5. Looks(z, "esc", u, e) /\ Looks(u, "[", v, e) /\ Looks(v, "A", y, Plus(e, h))
  BY <1>1, <1>2, <1>3 DEF Looks, Same
<1>6. PICK r \in Lines, q \in Lines : /\ r = Append(s, "esc") /\ q = Append(r, "[")
                                      /\ Append(q, "A") = s \o <<"esc", "[", "A">>
  <2>1. /\ Append(s, "esc") \in Lines /\ Append(s, "esc") = s \o <<"esc">>
        /\ Append(s \o <<"esc">>, "[") \in Lines /\ Append(s \o <<"esc">>, "[") = s \o <<"esc", "[">>
        /\ Append(s \o <<"esc", "[">>, "A") = s \o <<"esc", "[", "A">>
    BY <1>4, OneByOne, Zenon
  <2> QED
    BY <2>1, Zenon
<1>7. PICK g : Follows(g, r, e) /\ g[0] = f[0] /\ g[Len(r)] = u
  BY <1>1, <1>2, <1>4, <1>5, <1>6, AheadStill DEF z
<1>8. PICK j : Follows(j, q, e) /\ j[0] = g[0] /\ j[Len(q)] = v
  <2>1. \E j : Follows(j, Append(r, "["), e) /\ j[0] = g[0] /\ j[Len(Append(r, "["))] = v
    <3>1. g[Len(r)].n = v.n /\ Looks(g[Len(r)], "[", v, e)
      BY <1>2, <1>5, <1>7
    <3>2. r \in Lines /\ v \in Editors /\ "[" \in T!Bytes /\ Follows(g, r, e)
      BY <1>2, <1>4, <1>6, <1>7
    <3>3. \E j : Follows(j, Append(r, "["), e) /\ j[0] = g[0] /\ j[Len(Append(r, "["))] = v
      BY <3>1, <3>2, AheadStill
    <3> QED
      BY <3>3
  <2>2. q = Append(r, "[")
    BY <1>6
  <2> QED
    BY <2>1, <2>2, Zenon
<1>9. Plus(e, h) \in Seq(Lines) /\ Len(e) <= Len(Plus(e, h)) /\ \A k \in 1..Len(e) : Plus(e, h)[k] = e[k]
  BY PlusIs
<1>10. PICK i : Follows(i, Append(q, "A"), Plus(e, h)) /\ i[0] = j[0] /\ i[Len(Append(q, "A"))] = y
  BY <1>2, <1>3, <1>4, <1>5, <1>8, <1>9, Ahead
<1>11. i[0] = f[0] /\ Ending(i, s \o <<"esc", "[", "A">>, <<>>, Past(h, h), Plus(e, h))
  BY <1>2, <1>3, <1>6, <1>7, <1>8, <1>10 DEF Ending
<1> QED
  BY <1>11

(* An option of the negotiation.                                            *)
LEMMA OptionEnds ==
  ASSUME NEW s \in Lines, NEW x \in Lines, NEW h \in Lines, NEW e \in Seq(Lines), NEW f, Ending(f, s, x, h, e)
  PROVE  \E g : g[0] = f[0] /\ Ending(g, s \o <<"iac", "opt", "opt">>, x, h, e)
<1> DEFINE z == f[Len(s)]
           u == [line |-> x, history |-> h, n |-> Len(e), mode |-> 3]
           v == [line |-> x, history |-> h, n |-> Len(e), mode |-> 4]
<1>1. Follows(f, s, e) /\ z.line = x /\ z.history = h /\ z.n = Len(e) /\ z.mode = 0 /\ z \in Editors
  BY EndIs DEF Ending
<1> HIDE DEF z
<1>2. /\ u \in Editors /\ u.line = x /\ u.history = h /\ u.n = Len(e) /\ u.mode = 3
      /\ v \in Editors /\ v.line = x /\ v.history = h /\ v.n = Len(e) /\ v.mode = 4
  <2>1. Len(e) \in Nat /\ 3 \in 0..4 /\ 4 \in 0..4
    BY LenProperties
  <2> QED
    BY <2>1, EditorIs
<1> HIDE DEF u, v
<1>3. "iac" \in T!Bytes /\ "opt" \in T!Bytes
  BY DEF T!Bytes
<1>4. Looks(z, "iac", u, e) /\ Looks(u, "opt", v, e) /\ Looks(v, "opt", z, e)
  BY <1>1, <1>2 DEF Looks, Same
<1>5. PICK r \in Lines, q \in Lines : /\ r = Append(s, "iac") /\ q = Append(r, "opt")
                                      /\ Append(q, "opt") = s \o <<"iac", "opt", "opt">>
  <2>1. /\ Append(s, "iac") \in Lines /\ Append(s, "iac") = s \o <<"iac">>
        /\ Append(s \o <<"iac">>, "opt") \in Lines /\ Append(s \o <<"iac">>, "opt") = s \o <<"iac", "opt">>
        /\ Append(s \o <<"iac", "opt">>, "opt") = s \o <<"iac", "opt", "opt">>
    BY <1>3, OneByOne, Zenon
  <2> QED
    BY <2>1, Zenon
<1>6. PICK g : Follows(g, r, e) /\ g[0] = f[0] /\ g[Len(r)] = u
  BY <1>1, <1>2, <1>3, <1>4, <1>5, AheadStill DEF z
<1>7. PICK j : Follows(j, q, e) /\ j[0] = g[0] /\ j[Len(q)] = v
  <2>1. \E j : Follows(j, Append(r, "opt"), e) /\ j[0] = g[0] /\ j[Len(Append(r, "opt"))] = v
    <3>1. g[Len(r)].n = v.n /\ Looks(g[Len(r)], "opt", v, e)
      BY <1>2, <1>4, <1>6
    <3>2. r \in Lines /\ v \in Editors /\ "opt" \in T!Bytes /\ Follows(g, r, e)
      BY <1>2, <1>3, <1>5, <1>6
    <3>3. \E j : Follows(j, Append(r, "opt"), e) /\ j[0] = g[0] /\ j[Len(Append(r, "opt"))] = v
      BY <3>1, <3>2, AheadStill
    <3> QED
      BY <3>3
  <2>2. q = Append(r, "opt")
    BY <1>5
  <2> QED
    BY <2>1, <2>2, Zenon
<1>8. PICK i : Follows(i, Append(q, "opt"), e) /\ i[0] = j[0] /\ i[Len(Append(q, "opt"))] = z
  BY <1>1, <1>2, <1>3, <1>4, <1>7, AheadStill
<1>9. i[0] = f[0] /\ Ending(i, s \o <<"iac", "opt", "opt">>, x, h, e)
  BY <1>1, <1>5, <1>6, <1>7, <1>8 DEF Ending
<1> QED
  BY <1>9

(* A key of one byte, that changes the line only.                           *)
LEMMA ByteEnds ==
  ASSUME NEW s \in Lines, NEW x \in Lines, NEW h \in Lines, NEW e \in Seq(Lines), NEW f, Ending(f, s, x, h, e),
         NEW b \in T!Bytes, NEW w \in Lines,
         \/ b = "bs" /\ w = IF x = <<>> THEN x ELSE T!Front(x)
         \/ b \in Chars /\ w = IF Len(x) < BrecSize - 1 THEN Append(x, b) ELSE x
  PROVE  \E g : g[0] = f[0] /\ Ending(g, s \o <<b>>, w, h, e)
<1> DEFINE z == f[Len(s)]
           y == [line |-> w, history |-> h, n |-> Len(e), mode |-> 0]
<1>1. Follows(f, s, e) /\ z.line = x /\ z.history = h /\ z.n = Len(e) /\ z.mode = 0 /\ z \in Editors
  BY EndIs DEF Ending
<1> HIDE DEF z
<1>2. y \in Editors /\ y.line = w /\ y.history = h /\ y.n = Len(e) /\ y.mode = 0
  <2>1. Len(e) \in Nat /\ 0 \in 0..4
    BY LenProperties
  <2> QED
    BY <2>1, EditorIs
<1> HIDE DEF y
<1>3. Looks(z, b, y, e)
  BY <1>1, <1>2, Zenon DEF Looks
<1>4. Append(s, b) = s \o <<b>>
  BY OneByOne
<1>5. PICK g : Follows(g, Append(s, b), e) /\ g[0] = f[0] /\ g[Len(Append(s, b))] = y
  BY <1>1, <1>2, <1>3, AheadStill DEF z
<1>6. g[0] = f[0] /\ Ending(g, s \o <<b>>, w, h, e)
  BY <1>2, <1>4, <1>5 DEF Ending
<1> QED
  BY <1>6

(* What a byte is to an editor that waits for a key.                        *)
LEMMA AtKey ==
  ASSUME T!TelnetAssumption, NEW x, NEW y, NEW b, NEW e, Looks(x, b, y, e), x.mode = 0
  PROVE  /\ b \in {"cr", "lf"} => Runs(x, x.line, y, e)
         /\ b = "bs" => /\ y.line = (IF x.line = <<>> THEN x.line ELSE T!Front(x.line)) /\ y.mode = 0
                        /\ y.history = x.history /\ y.n = x.n
         /\ b \in Chars => /\ y.line = (IF Len(x.line) < BrecSize - 1 THEN Append(x.line, b) ELSE x.line)
                           /\ y.mode = 0 /\ y.history = x.history /\ y.n = x.n
         /\ b = "esc" => y.mode = 1 /\ Same(x, y)
         /\ b = "iac" => y.mode = 3 /\ Same(x, y)
         /\ b \in Chars \cup {"cr", "lf", "bs", "esc", "iac"}
<1>1. Chars \cap {"cr", "lf", "bs", "esc", "[", "A", "iac", "opt"} = {}
  BY DEF T!TelnetAssumption
<1> QED
  BY <1>1 DEF Looks

(* What a byte is to one that has begun a sequence or an option.            *)
LEMMA AtByte ==
  ASSUME NEW x, NEW y, NEW b, NEW e, Looks(x, b, y, e)
  PROVE  /\ x.mode = 1 => b = "[" /\ y.mode = 2 /\ Same(x, y)
         /\ x.mode = 2 => b = "A" /\ Runs(x, x.history, y, e)
         /\ x.mode = 3 => b = "opt" /\ y.mode = 4 /\ Same(x, y)
         /\ x.mode = 4 => b = "opt" /\ y.mode = 0 /\ Same(x, y)
BY DEF Looks

(* The editor at work outside a command.                                    *)
LEMMA NowIs ==
  ASSUME NEW x, Now(x), pc # "command"
  PROVE  x.line = brec /\ x.n = 0 /\ (kept => x.history = obrec) /\ x.mode = ModeNow
BY DEF Now

(* The editors go on.                                                       *)
LEMMA Onward ==
  ASSUME NEW g, Follows(g, Stream', expected'), Now(g[0])', AsTyped(g[Len(Stream)])'
  PROVE  Followed'
BY Zenon DEF Followed

(* A step that only waits.                                                  *)
LEMMA Waits ==
  ASSUME Followed, Stream' = Stream, UNCHANGED <<line, history, expected>>, \A x : Now(x) => Now(x)'
  PROVE  Followed'
<1>1. PICK f : Follows(f, Stream, expected) /\ Now(f[0]) /\ AsTyped(f[Len(Stream)])
  BY DEF Followed
<1>2. Follows(f, Stream', expected') /\ Now(f[0])'
  BY <1>1
<1>3. AsTyped(f[Len(Stream)])'
  <2>1. \A x : AsTyped(x) => AsTyped(x)'
    BY DEF AsTyped
  <2>2. AsTyped(f[Len(Stream)]) /\ f[Len(Stream')] = f[Len(Stream)]
    BY <1>1
  <2> QED
    BY <2>1, <2>2 DEF AsTyped
<1> QED
  BY <1>2, <1>3, Onward

(* telnetRead at the end of what was read.                                  *)
LEMMA EndOfBlockFollows ==
  ASSUME Followed, T!EndOfBlock
  PROVE  Followed'
<1>1. Stream' = Stream /\ UNCHANGED <<line, history, expected>>
  BY DEF T!EndOfBlock, T!reference, Stream
<1>2. ASSUME NEW x, Now(x) PROVE Now(x)'
  BY <1>2 DEF T!EndOfBlock, T!reference, Now, ModeNow
<1> QED
  BY <1>1, <1>2, Waits

(* A line that ends.                                                        *)
LEMMA EndOfLineFollows ==
  ASSUME T!TelnetAssumption, TelnetInv, ~torn, T!EndOfLine
  PROVE  Followed'
<1>1. /\ buf # <<>> /\ buf' = Tail(buf) /\ Head(buf) \in {"cr", "lf"} /\ pc = "loop" /\ ~inIac
      /\ UNCHANGED <<unread, brec, obrec, inIac, iiac, line, history, expected, typist, kept>>
      /\ pc' = IF brec = <<>> THEN "loop" ELSE "command"
  BY DEF T!EndOfLine, T!NextByte, T!Looked, T!reference
<1>2. PICK x, y, g :
           /\ x \in Editors /\ y \in Editors
           /\ Now(x) /\ Looks(x, Head(buf), y, expected) /\ x.n <= y.n /\ y = g[0]
           /\ Follows(g, Stream', expected') /\ AsTyped(g[Len(Stream)])'
  BY <1>1, LooksAt
<1>3. x.line = brec /\ x.n = 0 /\ (kept => x.history = obrec) /\ x.mode = 0
  BY <1>1, <1>2, NowIs DEF ModeNow
<1>4. Runs(x, brec, y, expected)
  BY <1>1, <1>2, <1>3, AtKey
<1>5. Now(y)'
  <2>1. CASE brec = <<>>
    BY <1>1, <1>3, <1>4, <2>1 DEF Runs, Now, ModeNow
  <2>2. CASE brec # <<>>
    <3>1. y.line = <<>> /\ y.mode = 0 /\ y.n = x.n + 1 /\ y.history = brec /\ expected[y.n] = brec
      BY <1>4, <2>2 DEF Runs
    <3>2. y.n = 1
      BY <1>3, <3>1
    <3> QED
      BY <1>1, <2>2, <3>1, <3>2 DEF Now
  <2> QED
    BY <2>1, <2>2
<1>6. Now(g[0])'
  BY <1>2, <1>5 DEF Now
<1> QED
  BY <1>2, <1>6, Onward

(* A backspace.                                                             *)
LEMMA BackspaceFollows ==
  ASSUME T!TelnetAssumption, TelnetInv, ~torn, T!Backspace
  PROVE  Followed'
<1>1. /\ buf # <<>> /\ buf' = Tail(buf) /\ Head(buf) = "bs" /\ pc = "loop" /\ ~inIac
      /\ UNCHANGED <<unread, pc, obrec, inIac, iiac, line, history, expected, typist, kept>>
      /\ brec' = IF brec = <<>> THEN brec ELSE T!Front(brec)
  BY DEF T!Backspace, T!NextByte, T!Looked, T!reference
<1>2. PICK x, y, g :
           /\ x \in Editors /\ y \in Editors
           /\ Now(x) /\ Looks(x, Head(buf), y, expected) /\ x.n <= y.n /\ y = g[0]
           /\ Follows(g, Stream', expected') /\ AsTyped(g[Len(Stream)])'
  BY <1>1, LooksAt
<1>3. x.line = brec /\ x.n = 0 /\ (kept => x.history = obrec) /\ x.mode = 0
  BY <1>1, <1>2, NowIs DEF ModeNow
<1>4. /\ y.line = (IF x.line = <<>> THEN x.line ELSE T!Front(x.line)) /\ y.mode = 0
      /\ y.history = x.history /\ y.n = x.n
  BY <1>1, <1>2, <1>3, AtKey
<1>5. Now(y)'
  BY <1>1, <1>3, <1>4 DEF Now, ModeNow
<1>6. Now(g[0])'
  BY <1>2, <1>5 DEF Now
<1> QED
  BY <1>2, <1>6, Onward

(* A character of the line.                                                 *)
LEMMA CharacterFollows ==
  ASSUME T!TelnetAssumption, TelnetInv, ~torn, T!Character
  PROVE  Followed'
<1>1. PICK b \in Chars \cup {"[", "A", "opt"} :
        /\ T!NextByte(b)
        /\ brec' = IF Len(brec) < BrecSize - 1 THEN Append(brec, b) ELSE brec
  BY DEF T!Character
<1>2. /\ buf # <<>> /\ buf' = Tail(buf) /\ Head(buf) = b /\ pc = "loop" /\ ~inIac
      /\ UNCHANGED <<unread, pc, obrec, inIac, iiac, line, history, expected, typist, kept>>
  BY <1>1 DEF T!Character, T!NextByte, T!Looked, T!reference
<1>3. PICK x, y, g :
           /\ x \in Editors /\ y \in Editors
           /\ Now(x) /\ Looks(x, Head(buf), y, expected) /\ x.n <= y.n /\ y = g[0]
           /\ Follows(g, Stream', expected') /\ AsTyped(g[Len(Stream)])'
  BY <1>2, LooksAt
<1>4. x.line = brec /\ x.n = 0 /\ (kept => x.history = obrec) /\ x.mode = 0
  BY <1>2, <1>3, NowIs DEF ModeNow
<1>5. Looks(x, b, y, expected)
  BY <1>2, <1>3
<1>6. b \in Chars
  <2>1. b \in Chars \cup {"cr", "lf", "bs", "esc", "iac"}
    BY <1>4, <1>5, AtKey
  <2> QED
    BY <1>1, <2>1
<1>7. /\ y.line = (IF Len(x.line) < BrecSize - 1 THEN Append(x.line, b) ELSE x.line)
      /\ y.mode = 0 /\ y.history = x.history /\ y.n = x.n
  BY <1>4, <1>5, <1>6, AtKey
<1>8. y.line = brec'
  BY <1>1, <1>4, <1>7
<1>9. Now(y)'
  BY <1>2, <1>4, <1>7, <1>8 DEF Now, ModeNow
<1>10. Now(g[0])'
  BY <1>3, <1>9 DEF Now
<1> QED
  BY <1>3, <1>10, Onward

(* An option begins.                                                        *)
LEMMA IacBeginsFollows ==
  ASSUME T!TelnetAssumption, TelnetInv, ~torn, T!IacBegins
  PROVE  Followed'
<1>1. /\ buf # <<>> /\ buf' = Tail(buf) /\ Head(buf) = "iac" /\ pc = "loop" /\ ~inIac
      /\ UNCHANGED <<unread, pc, brec, obrec, line, history, expected, typist, kept>>
      /\ inIac' = TRUE /\ iiac' = 0
  BY DEF T!IacBegins, T!NextByte, T!Looked, T!reference
<1>2. PICK x, y, g :
           /\ x \in Editors /\ y \in Editors
           /\ Now(x) /\ Looks(x, Head(buf), y, expected) /\ x.n <= y.n /\ y = g[0]
           /\ Follows(g, Stream', expected') /\ AsTyped(g[Len(Stream)])'
  BY <1>1, LooksAt
<1>3. x.line = brec /\ x.n = 0 /\ (kept => x.history = obrec) /\ x.mode = 0
  BY <1>1, <1>2, NowIs DEF ModeNow
<1>4. y.mode = 3 /\ Same(x, y)
  BY <1>1, <1>2, <1>3, AtKey
<1>5. Now(y)'
  BY <1>1, <1>3, <1>4 DEF Now, ModeNow, Same
<1>6. Now(g[0])'
  BY <1>2, <1>5 DEF Now
<1> QED
  BY <1>2, <1>6, Onward

(* A byte of an option.                                                     *)
LEMMA IacFollows ==
  ASSUME TelnetInv, ~torn, T!Iac
  PROVE  Followed'
<1>1. /\ buf # <<>> /\ buf' = Tail(buf) /\ pc = "loop" /\ inIac /\ iiac \in 0..1
      /\ UNCHANGED <<unread, pc, brec, obrec, line, history, expected, typist, kept>>
      /\ inIac' = (iiac + 1 < 2)
      /\ iiac' = IF iiac + 1 = 2 THEN 0 ELSE iiac + 1
  BY DEF T!Iac, T!Looked, T!reference, TelnetInv, TelnetTypes, T!TypeOK
<1>2. PICK x, y, g :
           /\ x \in Editors /\ y \in Editors
           /\ Now(x) /\ Looks(x, Head(buf), y, expected) /\ x.n <= y.n /\ y = g[0]
           /\ Follows(g, Stream', expected') /\ AsTyped(g[Len(Stream)])'
  BY <1>1, LooksAt
<1>3. x.line = brec /\ x.n = 0 /\ (kept => x.history = obrec) /\ x.mode = ModeNow
  BY <1>1, <1>2, NowIs
<1>7. /\ iiac = 0 => inIac' /\ iiac' = 1
      /\ iiac = 1 => ~inIac' /\ iiac' = 0
  <2>1. (iiac = 0 => iiac + 1 < 2 /\ iiac + 1 = 1 /\ iiac + 1 # 2) /\ (iiac = 1 => ~(iiac + 1 < 2) /\ iiac + 1 = 2)
    BY <1>1
  <2>2. iiac = 0 => iiac' = 1
    BY <1>1
  <2>3. iiac = 1 => iiac' = 0
    BY <1>1
  <2>4. inIac' <=> (iiac + 1 < 2)
    BY <1>1, Zenon
  <2> QED
    BY <2>1, <2>2, <2>3, <2>4, Zenon
<1>4. Same(x, y) /\ y.mode = ModeNow'
  <2>1. CASE iiac = 0
    <3>1. x.mode = 3
      BY <1>1, <1>3, <2>1 DEF ModeNow
    <3>2. y.mode = 4 /\ Same(x, y)
      BY <1>2, <3>1, AtByte
    <3> QED
      BY <1>7, <2>1, <3>2 DEF ModeNow
  <2>2. CASE iiac = 1
    <3>1. x.mode = 4
      BY <1>1, <1>3, <2>2 DEF ModeNow
    <3>2. y.mode = 0 /\ Same(x, y)
      BY <1>2, <3>1, AtByte
    <3>3. ~inIac'
      BY <1>7, <2>2
    <3> QED
      BY <3>2, <3>3 DEF ModeNow
  <2> QED
    BY <1>1, <2>1, <2>2
<1>5. Now(y)'
  BY <1>1, <1>3, <1>4 DEF Now, Same
<1>6. Now(g[0])'
  BY <1>2, <1>5 DEF Now
<1> QED
  BY <1>2, <1>6, Onward

(* telnetCommand: the command is run.                                       *)
LEMMA telnetCommandFollows ==
  ASSUME TelnetInv, ~torn, T!telnetCommand
  PROVE  Followed'
<1>1. /\ pc = "command" /\ pc' = "loop" /\ brec' = <<>>
      /\ UNCHANGED <<unread, buf, inIac, iiac, line, history, typist>>
      /\ (obrec' = brec /\ kept' = TRUE) \/ kept' = FALSE
      /\ expected' = IF expected = <<>> THEN expected ELSE Tail(expected)
  BY DEF T!telnetCommand
<1>2. TelnetTypes /\ Followed
  BY DEF TelnetInv
<1>3. PICK f : Follows(f, Stream, expected) /\ Now(f[0]) /\ AsTyped(f[Len(Stream)])
  BY <1>2 DEF Followed
<1>4. /\ f[0].line = <<>> /\ f[0].history = brec /\ f[0].n = 1 /\ f[0].mode = 0
      /\ brec # <<>> /\ expected[1] = brec /\ ~inIac
  BY <1>1, <1>3 DEF Now
<1>5. PICK l \in Nat : l = Len(Stream)
  BY <1>2, StreamIs, LenProperties DEF Lines
<1>6. 0 \in 0..l /\ l \in 0..l /\ f[0].n <= Len(expected)
  BY <1>3, <1>5 DEF Follows
<1>7. expected \in Seq(Lines) /\ expected # <<>> /\ Len(expected) \in Nat
  <2>1. expected \in Seq(Lines) /\ Len(expected) \in Nat /\ Len(<<>>) = 0
    BY <1>2, LenProperties, EmptySeq DEF TelnetTypes
  <2>2. 1 <= Len(expected)
    BY <1>4, <1>6
  <2> QED
    BY <2>1, <2>2
<1>8. PICK g : /\ Follows(g, Stream, Tail(expected))
               /\ \A k \in 0..Len(Stream) : /\ g[k].line = f[k].line /\ g[k].history = f[k].history
                                            /\ g[k].n = f[k].n - 1 /\ g[k].mode = f[k].mode
  BY <1>2, <1>3, <1>4, <1>7, StreamIs, Shifted
<1>9. expected' = Tail(expected) /\ Len(Tail(expected)) = Len(expected) - 1
  BY <1>1, <1>7, Taken
<1>10. Stream' = Stream
  BY <1>1 DEF Stream
<1>11. Follows(g, Stream', expected')
  BY <1>8, <1>9, <1>10
<1>12. g[0].line = <<>> /\ g[0].history = brec /\ g[0].n = 0 /\ g[0].mode = 0
  BY <1>4, <1>5, <1>6, <1>8
<1>13. Now(g[0])'
  BY <1>1, <1>4, <1>12 DEF Now, ModeNow
<1>14. AsTyped(g[Len(Stream)])'
  <2>1. g[l].line = line /\ g[l].history = history /\ g[l].n = Len(expected) - 1 /\ g[l].mode = 0
    <3>1. AsTyped(f[l])
      BY <1>3, <1>5
    <3> QED
      BY <1>5, <1>6, <1>8, <3>1 DEF AsTyped
  <2>2. Len(Stream') = l
    BY <1>5, <1>10
  <2> QED
    BY <1>1, <1>9, <2>1, <2>2 DEF AsTyped
<1> QED
  BY <1>11, <1>13, <1>14, Onward

(* What follows the first byte.                                             *)
Rest(s, r) == s # <<>> /\ r = Tail(s)

(* The first byte is looked at, and what follows it is still to come.       *)
LEMMA RestBehind ==
  ASSUME NEW s \in Lines, NEW r, Rest(s, r), NEW e, NEW f, Follows(f, s, e)
  PROVE  \E g : Follows(g, r, e) /\ Looks(f[0], Head(s), g[0], e) /\ g[Len(r)] = f[Len(s)]
<1>1. s # <<>> /\ r = Tail(s)
  BY DEF Rest
<1>2. \E g : /\ Follows(g, Tail(s), e) /\ Looks(f[0], Head(s), g[0], e)
             /\ g[Len(Tail(s))] = f[Len(s)]
  BY <1>1, Behind
<1> QED
  BY <1>1, <1>2, Zenon

(* An escape sequence in the stream: three bytes, looked at at once.        *)
LEMMA ThreeBehind ==
  ASSUME T!TelnetAssumption, NEW s \in Lines, NEW r \in Lines, NEW q \in Lines, NEW p \in Lines,
         Rest(s, r), Rest(r, q), Rest(q, p),
         NEW e, NEW f, Follows(f, s, e), f[0].mode = 0, Head(s) = "esc"
  PROVE  /\ Head(r) = "[" /\ Head(q) = "A"
         /\ \E g : Follows(g, p, e) /\ Runs(f[0], f[0].history, g[0], e) /\ g[Len(p)] = f[Len(s)]
<1>1. PICK g : Follows(g, r, e) /\ Looks(f[0], Head(s), g[0], e) /\ g[Len(r)] = f[Len(s)]
  BY RestBehind
<1>2. g[0].mode = 1 /\ Same(f[0], g[0])
  BY <1>1, AtKey
<1>3. PICK h : Follows(h, q, e) /\ Looks(g[0], Head(r), h[0], e) /\ h[Len(q)] = g[Len(r)]
  BY <1>1, RestBehind
<1>4. Head(r) = "[" /\ h[0].mode = 2 /\ Same(g[0], h[0])
  BY <1>2, <1>3, AtByte
<1>5. PICK i : Follows(i, p, e) /\ Looks(h[0], Head(q), i[0], e) /\ i[Len(p)] = h[Len(q)]
  BY <1>3, RestBehind
<1>6. Head(q) = "A" /\ Runs(h[0], h[0].history, i[0], e)
  BY <1>4, <1>5, AtByte
<1>7. Runs(f[0], f[0].history, i[0], e)
  BY <1>2, <1>4, <1>6 DEF Runs, Same
<1> QED
  BY <1>1, <1>3, <1>4, <1>5, <1>6, <1>7

(* Three bytes, one by one.                                                 *)
LEMMA Three ==
  ASSUME NEW s \in Lines, Len(s) = 3
  PROVE  /\ s # <<>> /\ Tail(s) \in Lines /\ Tail(s) # <<>> /\ Head(Tail(s)) = s[2]
         /\ Tail(Tail(s)) \in Lines /\ Tail(Tail(s)) # <<>> /\ Head(Tail(Tail(s))) = s[3]
         /\ Tail(Tail(Tail(s))) = <<>>
<1>1. s # <<>>
  BY EmptySeq
<1>2. PICK r \in Lines : r = Tail(s) /\ Len(r) = 2 /\ r[1] = s[2] /\ r[2] = s[3]
  <2>1. Tail(s) \in Lines /\ Len(Tail(s)) = 2 /\ \A n \in 1..Len(Tail(s)) : Tail(s)[n] = s[n + 1]
    BY <1>1, Taken DEF Lines
  <2>2. Tail(s)[1] = s[2] /\ Tail(s)[2] = s[3]
    BY <2>1
  <2> QED
    BY <2>1, <2>2, Zenon
<1>3. r # <<>> /\ Head(r) = s[2]
  BY <1>2, EmptySeq, Taken DEF Lines
<1>4. PICK q \in Lines : q = Tail(r) /\ Len(q) = 1 /\ q[1] = s[3]
  <2>1. Tail(r) \in Lines /\ Len(Tail(r)) = 1 /\ \A n \in 1..Len(Tail(r)) : Tail(r)[n] = r[n + 1]
    BY <1>2, <1>3, Taken DEF Lines
  <2>2. Tail(r)[1] = s[3]
    BY <1>2, <2>1
  <2> QED
    BY <2>1, <2>2, Zenon
<1>5. q # <<>> /\ Head(q) = s[3]
  <2>1. q # <<>>
    <3>1. Len(<<>>) = 0
      BY EmptySeq
    <3>2. Len(q) # Len(<<>>)
      BY <1>4, <3>1
    <3> QED
      BY <3>2, Zenon
  <2> QED
    BY <1>4, <2>1, Taken DEF Lines
<1>6. Tail(q) = <<>>
  BY <1>4, <1>5, Taken DEF Lines
<1> QED
  BY <1>1, <1>2, <1>3, <1>4, <1>5, <1>6

(* An escape sequence that comes out right.                                 *)
LEMMA EscapeFollows ==
  ASSUME T!TelnetAssumption, TelnetInv, ~torn, ~torn', T!Escape
  PROVE  Followed'
<1>1. /\ pc = "loop" /\ buf # <<>> /\ Head(buf) = "esc" /\ ~inIac
      /\ UNCHANGED <<unread, obrec, inIac, iiac, typist, kept>>
  BY DEF T!Escape, T!NextByte
<1>2. TelnetTypes /\ Followed
  BY DEF TelnetInv
<1>3. PICK v \in Lines, w \in Lines : v = buf /\ w = unread[typist] /\ Len(v) \in Nat
  BY <1>2, StreamIs, LenProperties DEF Lines
<1>4. /\ Len(v) > 2 /\ ~(Len(v) > 3) /\ kept
      /\ UNCHANGED <<line, history, expected>>
  BY <1>3 DEF T!Escape, T!TornIf
<1>5. Len(v) = 3
  <2>1. \A n \in Nat : n > 2 /\ ~(n > 3) => n = 3
    OBVIOUS
  <2> QED
    BY <1>3, <1>4, <2>1, Zenon
<1>6. /\ buf' = <<>>
      /\ IF v[2] = "[" /\ v[3] = "A"
         THEN brec' = obrec /\ pc' = IF obrec = <<>> THEN "loop" ELSE "command"
         ELSE UNCHANGED <<brec, pc>>
  BY <1>3, <1>4 DEF T!Escape
<1>7. /\ v # <<>> /\ Tail(v) \in Lines /\ Tail(v) # <<>> /\ Head(Tail(v)) = v[2]
      /\ Tail(Tail(v)) \in Lines /\ Tail(Tail(v)) # <<>> /\ Head(Tail(Tail(v))) = v[3]
      /\ Tail(Tail(Tail(v))) = <<>>
  BY <1>5, Three
<1>8. PICK s \in Lines : s = Stream /\ s = v \o w
  BY <1>2, <1>3, StreamIs DEF Stream
<1>9. /\ s # <<>> /\ Head(s) = "esc"
      /\ Tail(s) # <<>> /\ Head(Tail(s)) = v[2]
      /\ Tail(Tail(s)) # <<>> /\ Head(Tail(Tail(s))) = v[3]
      /\ Tail(Tail(Tail(s))) = w
  <2>1. s # <<>> /\ Head(s) = Head(v) /\ Tail(s) = Tail(v) \o w
    BY <1>7, <1>8, TailOf
  <2>2. PICK r \in Lines : r = Tail(v)
    BY <1>7
  <2>3. r \o w # <<>> /\ Head(r \o w) = Head(r) /\ Tail(r \o w) = Tail(r) \o w
    BY <1>7, <2>2, TailOf
  <2>4. PICK q \in Lines : q = Tail(r)
    BY <1>7, <2>2
  <2>5. q \o w # <<>> /\ Head(q \o w) = Head(q) /\ Tail(q \o w) = Tail(q) \o w
    BY <1>7, <2>2, <2>4, TailOf
  <2>6. Tail(q) \o w = w
    <3>1. Tail(q) = <<>>
      BY <1>7, <2>2, <2>4
    <3> QED
      BY <3>1, ConcatEmptySeq DEF Lines
  <2>7. Tail(s) = r \o w /\ Tail(Tail(s)) = q \o w /\ Tail(Tail(Tail(s))) = w
    BY <2>1, <2>2, <2>3, <2>4, <2>5, <2>6, Zenon
  <2> QED
    BY <1>1, <1>3, <1>7, <2>1, <2>2, <2>3, <2>4, <2>5, <2>7
<1>10. PICK f : Follows(f, s, expected) /\ Now(f[0]) /\ AsTyped(f[Len(s)])
  BY <1>2, <1>8 DEF Followed
<1>11. f[0].line = brec /\ f[0].n = 0 /\ f[0].history = obrec /\ f[0].mode = 0
  BY <1>1, <1>4, <1>10 DEF Now, ModeNow
<1>12. /\ v[2] = "[" /\ v[3] = "A"
       /\ \E g : /\ Follows(g, w, expected) /\ Runs(f[0], obrec, g[0], expected)
                 /\ g[Len(w)] = f[Len(s)]
  <2>1. PICK r \in Lines, q \in Lines : r = Tail(s) /\ q = Tail(r)
    BY <1>8, <1>9, Taken DEF Lines
  <2>2. r # <<>> /\ q # <<>> /\ w = Tail(q) /\ Head(r) = v[2] /\ Head(q) = v[3]
    BY <1>9, <2>1
  <2>3. Follows(f, s, expected) /\ f[0].mode = 0 /\ s # <<>> /\ Head(s) = "esc"
    BY <1>9, <1>10, <1>11
  <2>4. /\ Head(r) = "[" /\ Head(q) = "A"
        /\ \E g : Follows(g, w, expected) /\ Runs(f[0], f[0].history, g[0], expected) /\ g[Len(w)] = f[Len(s)]
    <3>1. Rest(s, r) /\ Rest(r, q) /\ Rest(q, w)
      BY <2>1, <2>2, <2>3 DEF Rest
    <3>2. Follows(f, s, expected) /\ f[0].mode = 0 /\ Head(s) = "esc"
      BY <2>3
    <3> QED
      BY <3>1, <3>2, ThreeBehind
  <2> QED
    BY <1>11, <2>2, <2>4, Zenon
<1>13. PICK g : /\ Follows(g, w, expected) /\ Runs(f[0], obrec, g[0], expected)
                /\ g[Len(w)] = f[Len(s)]
  BY <1>12
<1>14. Stream' = w
  <2>1. <<>> \o w = w
    BY ConcatEmptySeq DEF Lines
  <2> QED
    BY <1>1, <1>3, <1>6, <2>1 DEF Stream
<1>15. Follows(g, Stream', expected')
  BY <1>4, <1>13, <1>14
<1>16. AsTyped(g[Len(Stream)])'
  <2>1. g[Len(Stream')] = f[Len(s)]
    BY <1>13, <1>14
  <2> QED
    BY <1>4, <1>10, <2>1 DEF AsTyped
<1>17. Now(g[0])'
  <2>1. brec' = obrec /\ pc' = IF obrec = <<>> THEN "loop" ELSE "command"
    BY <1>6, <1>12
  <2>2. CASE obrec = <<>>
    BY <1>1, <1>11, <1>13, <2>1, <2>2 DEF Runs, Now, ModeNow
  <2>3. CASE obrec # <<>>
    <3>1. g[0].line = <<>> /\ g[0].mode = 0 /\ g[0].n = 0 + 1 /\ g[0].history = obrec /\ expected[g[0].n] = obrec
      BY <1>11, <1>13, <2>3 DEF Runs
    <3>2. g[0].n = 1
      BY <3>1
    <3> QED
      BY <1>1, <1>4, <2>1, <2>3, <3>1, <3>2 DEF Now
  <2> QED
    BY <2>2, <2>3
<1> QED
  BY <1>15, <1>16, <1>17, Onward

(* The bytes of a key.                                                      *)
LEMMA BytesOfKey ==
  ASSUME T!TelnetAssumption, NEW c \in T!Keys
  PROVE  /\ T!BytesOf(c) \in Lines
         /\ c = "enter" => T!BytesOf(c) = <<"cr", "lf">>
         /\ c = "up" => T!BytesOf(c) = <<"esc", "[", "A">>
         /\ c = "option" => T!BytesOf(c) = <<"iac", "opt", "opt">>
         /\ c \in Chars \cup {"bs"} => T!BytesOf(c) = <<c>> /\ c \in T!Bytes
         /\ c \in Chars => c \notin {"enter", "up", "option", "bs"}
<1>1. Chars \cap {"bs", "enter", "up", "option"} = {}
  BY DEF T!TelnetAssumption
<1>2. {"cr", "lf", "bs", "esc", "[", "A", "iac", "opt"} \subseteq T!Bytes /\ Chars \subseteq T!Bytes
  BY DEF T!Bytes
<1>3. c \in Chars => c \notin {"enter", "up", "option", "bs"}
  BY <1>1
<1>4. /\ c = "enter" => T!BytesOf(c) = <<"cr", "lf">>
      /\ c = "up" => T!BytesOf(c) = <<"esc", "[", "A">>
      /\ c = "option" => T!BytesOf(c) = <<"iac", "opt", "opt">>
  BY DEF T!BytesOf
<1>5. c \in Chars \cup {"bs"} => T!BytesOf(c) = <<c>> /\ c \in T!Bytes
  BY <1>2, <1>3 DEF T!BytesOf
<1>6. T!BytesOf(c) \in Seq(T!Bytes)
  <2>1. /\ <<"cr", "lf">> \in Seq(T!Bytes) /\ <<"esc", "[", "A">> \in Seq(T!Bytes)
        /\ <<"iac", "opt", "opt">> \in Seq(T!Bytes)
    BY <1>2
  <2>2. c \in Chars \cup {"bs"} => <<c>> \in Seq(T!Bytes)
    BY <1>5
  <2>3. c \in Chars \cup {"bs"} \/ c \in {"enter", "up", "option"}
    BY DEF T!Keys
  <2> QED
    BY <1>4, <1>5, <2>1, <2>2, <2>3
<1> QED
  BY <1>3, <1>4, <1>5, <1>6 DEF Lines

(* What a key does to the line, the history and the commands: one command   *)
(* more at the most.                                                        *)
LEMMA EditsIs ==
  ASSUME T!TelnetAssumption, TelnetTypes, NEW c \in T!Keys, T!Edits(c)
  PROVE  /\ line' \in Lines /\ history' \in Lines /\ Len(line') < BrecSize
         /\ \E d \in Lines : expected' = Plus(expected, d)
         /\ c = "enter" => line' = <<>> /\ history' = Past(history, line) /\ expected' = Plus(expected, line)
         /\ c = "up" => line' = <<>> /\ history' = Past(history, history) /\ expected' = Plus(expected, history)
         /\ c = "option" => UNCHANGED <<line, history, expected>>
         /\ c = "bs" => /\ line' = (IF line = <<>> THEN line ELSE T!Front(line))
                        /\ UNCHANGED <<history, expected>>
         /\ c \in Chars => /\ line' = (IF Len(line) < BrecSize - 1 THEN Append(line, c) ELSE line)
                           /\ UNCHANGED <<history, expected>>
<1>1. /\ line \in Lines /\ history \in Lines /\ Len(line) < BrecSize /\ BrecSize \in Nat /\ 0 < BrecSize
      /\ <<>> \in Lines /\ Len(<<>>) = 0 /\ Len(line) \in Nat
  BY EmptySeq, LenProperties DEF TelnetTypes, T!TypeOK, T!TelnetAssumption, Lines
<1>2. expected = Plus(expected, <<>>)
  BY DEF Plus
<1>3. CASE c = "enter"
  <2>1. line' = <<>> /\ history' = Past(history, line) /\ expected' = Plus(expected, line)
    BY <1>3, BytesOfKey DEF T!Edits, T!Entered, Plus, Past
  <2> QED
    BY <1>1, <1>3, <2>1, BytesOfKey, PlusIs DEF TelnetTypes
<1>4. CASE c = "up"
  <2>1. line' = <<>> /\ history' = Past(history, history) /\ expected' = Plus(expected, history)
    BY <1>4, BytesOfKey DEF T!Edits, T!Entered, Plus, Past
  <2> QED
    BY <1>1, <1>4, <2>1, BytesOfKey, PlusIs DEF TelnetTypes
<1>5. CASE c = "option"
  <2>1. UNCHANGED <<line, history, expected>>
    BY <1>5, BytesOfKey DEF T!Edits
  <2> QED
    BY <1>1, <1>2, <1>5, <2>1, BytesOfKey
<1>6. CASE c = "bs"
  <2>1. line' = (IF line = <<>> THEN line ELSE T!Front(line)) /\ UNCHANGED <<history, expected>>
    BY <1>6, BytesOfKey DEF T!Edits
  <2>2. line # <<>> => T!Front(line) \in Lines /\ Len(T!Front(line)) = Len(line) - 1
    BY <1>1, FrontIs
  <2>3. line' \in Lines /\ Len(line') < BrecSize
    BY <1>1, <2>1, <2>2
  <2> QED
    BY <1>1, <1>2, <1>6, <2>1, <2>3, BytesOfKey
<1>7. CASE c \in Chars
  <2>1. line' = (IF Len(line) < BrecSize - 1 THEN Append(line, c) ELSE line) /\ UNCHANGED <<history, expected>>
    BY <1>7, BytesOfKey DEF T!Edits
  <2>2. c \in T!Bytes
    BY <1>7, BytesOfKey
  <2>3. Append(line, c) \in Lines /\ Len(Append(line, c)) = Len(line) + 1
    BY <1>1, <2>2, Appended DEF Lines
  <2>4. line' \in Lines /\ Len(line') < BrecSize
    BY <1>1, <2>1, <2>3
  <2> QED
    BY <1>1, <1>2, <1>7, <2>1, <2>4, BytesOfKey
<1>8. c \in Chars \/ c \in {"enter", "bs", "up", "option"}
  BY DEF T!Keys
<1> QED
  BY <1>3, <1>4, <1>5, <1>6, <1>7, <1>8

(* A key typed: its bytes are the last of the stream.                       *)
LEMMA TypeStream ==
  ASSUME T!TelnetAssumption, TelnetInv, ~torn, ~torn', NEW c \in Clients, NEW d \in T!Keys, T!Type(c, d)
  PROVE  Mine' /\ Stream' = Stream \o T!BytesOf(d)
<1>1. /\ unread' = [unread EXCEPT ![c] = unread[c] \o T!BytesOf(d)] /\ typist' = c /\ buf' = buf
      /\ typist # c => T!Quiet(c) /\ pc = "select"
  BY DEF T!Type
<1>2. /\ unread \in [Clients -> Lines] /\ buf \in Lines /\ typist \in Clients /\ Mine
      /\ pc = "select" => buf = <<>>
  BY DEF TelnetInv, TelnetTypes, T!TypeOK, Lines
<1>3. PICK b \in Lines : b = T!BytesOf(d)
  BY BytesOfKey
<1>4. unread'[c] = unread[c] \o b /\ \A x \in Clients : x # c => unread'[x] = unread[x]
  BY <1>1, <1>2, <1>3
<1>5. Mine'
  <2>1. \A x \in Clients : x # c => unread[x] = <<>>
    BY <1>1, <1>2 DEF Mine, T!Quiet
  <2> QED
    BY <1>1, <1>4, <2>1 DEF Mine
<1>6. PICK v \in Lines, w \in Lines : v = buf /\ w = unread[c]
  BY <1>2
<1>7. Stream' = v \o (w \o b)
  BY <1>1, <1>4, <1>6 DEF Stream
<1>8. v \o (w \o b) = (v \o w) \o b
  BY ConcatAssociative DEF Lines
<1>9. Stream = v \o w
  <2>1. CASE typist = c
    BY <1>6, <2>1 DEF Stream
  <2>2. CASE typist # c
    <3>1. w = <<>> /\ unread[typist] = <<>>
      BY <1>1, <1>2, <1>6, <2>2 DEF Mine, T!Quiet
    <3> QED
      BY <1>6, <3>1 DEF Stream
  <2> QED
    BY <2>1, <2>2
<1> QED
  BY <1>3, <1>5, <1>7, <1>8, <1>9

(* A key typed.                                                             *)
LEMMA TypeFollows ==
  ASSUME T!TelnetAssumption, TelnetInv, ~torn, ~torn', NEW c \in Clients, NEW d \in T!Keys, T!Type(c, d)
  PROVE  (Mine /\ Followed)'
<1>1. T!Edits(d) /\ UNCHANGED <<buf, pc, brec, obrec, inIac, iiac, kept>>
  BY DEF T!Type
<1>2. TelnetTypes /\ Followed
  BY DEF TelnetInv
<1>3. Mine' /\ Stream' = Stream \o T!BytesOf(d)
  BY TypeStream
<1>4. PICK f : Follows(f, Stream, expected) /\ Now(f[0]) /\ AsTyped(f[Len(Stream)])
  BY <1>2 DEF Followed
<1>5. PICK s \in Lines, x \in Lines, h \in Lines, e \in Seq(Lines) :
        s = Stream /\ x = line /\ h = history /\ e = expected
  BY <1>2, StreamIs DEF TelnetTypes
<1>6. Ending(f, s, x, h, e)
  BY <1>4, <1>5 DEF Ending, AsTyped
<1>7. \E g : g[0] = f[0] /\ Ending(g, s \o T!BytesOf(d), line', history', expected')
  <2>1. CASE d = "enter"
    <3>1. \E g : g[0] = f[0] /\ Ending(g, s \o <<"cr", "lf">>, <<>>, Past(h, x), Plus(e, x))
      BY <1>6, EnterEnds
    <3>2. line' = <<>> /\ history' = Past(h, x) /\ expected' = Plus(e, x) /\ T!BytesOf(d) = <<"cr", "lf">>
      BY <1>1, <1>2, <1>5, <2>1, EditsIs, BytesOfKey
    <3> QED
      BY <3>1, <3>2, Zenon
  <2>2. CASE d = "up"
    <3>1. \E g : g[0] = f[0] /\ Ending(g, s \o <<"esc", "[", "A">>, <<>>, Past(h, h), Plus(e, h))
      BY <1>6, UpEnds
    <3>2. /\ line' = <<>> /\ history' = Past(h, h) /\ expected' = Plus(e, h)
          /\ T!BytesOf(d) = <<"esc", "[", "A">>
      BY <1>1, <1>2, <1>5, <2>2, EditsIs, BytesOfKey
    <3> QED
      BY <3>1, <3>2, Zenon
  <2>3. CASE d = "option"
    <3>1. \E g : g[0] = f[0] /\ Ending(g, s \o <<"iac", "opt", "opt">>, x, h, e)
      BY <1>6, OptionEnds
    <3>2. line' = x /\ history' = h /\ expected' = e /\ T!BytesOf(d) = <<"iac", "opt", "opt">>
      BY <1>1, <1>2, <1>5, <2>3, EditsIs, BytesOfKey
    <3> QED
      BY <3>1, <3>2, Zenon
  <2>4. CASE d \in Chars \cup {"bs"}
    <3>1. T!BytesOf(d) = <<d>> /\ d \in T!Bytes
      BY <2>4, BytesOfKey
    <3>2. /\ d = "bs" => line' = (IF x = <<>> THEN x ELSE T!Front(x))
          /\ d \in Chars => line' = (IF Len(x) < BrecSize - 1 THEN Append(x, d) ELSE x)
          /\ history' = h /\ expected' = e /\ line' \in Lines
      BY <1>1, <1>2, <1>5, <2>4, EditsIs
    <3>3. PICK w \in Lines : w = line'
      BY <3>2
    <3>4. \/ d = "bs" /\ w = IF x = <<>> THEN x ELSE T!Front(x)
          \/ d \in Chars /\ w = IF Len(x) < BrecSize - 1 THEN Append(x, d) ELSE x
      BY <2>4, <3>2, <3>3
    <3>5. \E g : g[0] = f[0] /\ Ending(g, s \o <<d>>, w, h, e)
      BY <1>6, <3>1, <3>4, ByteEnds
    <3> QED
      BY <3>1, <3>2, <3>3, <3>5, Zenon
  <2> QED
    BY <2>1, <2>2, <2>3, <2>4 DEF T!Keys
<1>8. PICK g : g[0] = f[0] /\ Ending(g, s \o T!BytesOf(d), line', history', expected')
  BY <1>7
<1>9. Stream' = s \o T!BytesOf(d)
  BY <1>3, <1>5
<1>10. Follows(g, Stream', expected') /\ AsTyped(g[Len(Stream)])'
  BY <1>8, <1>9 DEF Ending, AsTyped
<1>11. Now(f[0])'
  <2>1. CASE pc = "command"
    <3>1. f[0].n = 1 /\ expected[1] = brec
      BY <1>4, <2>1 DEF Now
    <3>2. f[0].n <= Len(e)
      <4>1. PICK l \in Nat : l = Len(s)
        BY LenProperties DEF Lines
      <4>2. 0 \in 0..l
        OBVIOUS
      <4> QED
        BY <1>6, <4>1, <4>2 DEF Ending, Follows
    <3>3. 1 \in 1..Len(e)
      BY <3>1, <3>2, LenProperties
    <3>4. PICK a \in Lines : expected' = Plus(e, a)
      BY <1>1, <1>2, <1>5, EditsIs
    <3>5. Plus(e, a)[1] = e[1]
      BY <3>3, PlusIs
    <3>6. expected'[1] = expected[1]
      BY <1>5, <3>4, <3>5
    <3> QED
      BY <1>1, <1>4, <2>1, <3>1, <3>6 DEF Now
  <2>2. CASE pc # "command"
    BY <1>1, <1>4, <2>2 DEF Now, ModeNow
  <2> QED
    BY <2>1, <2>2
<1>12. Now(g[0])'
  BY <1>8, <1>11 DEF Now
<1> QED
  BY <1>3, <1>10, <1>12, Onward

(* telnetRead: some bytes go from the socket to the buffer.                 *)
LEMMA ReadFollows ==
  ASSUME TelnetInv, ~torn, NEW c \in Clients, NEW n \in Nat, T!Read(c, n)
  PROVE  (Mine /\ Followed)'
<1>1. /\ pc = "select" /\ pc' = "loop" /\ n \in 1..Len(unread[c])
      /\ buf' = SubSeq(unread[c], 1, n)
      /\ unread' = [unread EXCEPT ![c] = SubSeq(unread[c], n + 1, Len(unread[c]))]
      /\ UNCHANGED <<brec, obrec, inIac, iiac, line, history, expected, typist, kept>>
  BY DEF T!Read, T!reference
<1>2. /\ TelnetTypes /\ Followed /\ Mine /\ unread \in [Clients -> Lines] /\ typist \in Clients /\ buf = <<>>
  BY <1>1 DEF TelnetInv, TelnetTypes, T!TypeOK, Lines
<1>3. PICK u \in Lines : u = unread[c]
  BY <1>2
<1>4. u # <<>>
  <2>1. Len(<<>>) = 0
    BY EmptySeq
  <2>2. ~(n \in 1..0)
    OBVIOUS
  <2> QED
    BY <1>1, <1>3, <2>1, <2>2
<1>5. c = typist
  BY <1>2, <1>3, <1>4 DEF Mine
<1>6. SubSeq(u, 1, n) \o SubSeq(u, n + 1, Len(u)) = u
  <2>1. PICK l \in Nat : l = Len(u)
    BY LenProperties DEF Lines
  <2>2. 1 \in 1..(l + 1) /\ n \in (1 - 1)..l /\ l \in n..l
    BY <1>1, <1>3, <2>1
  <2>3. SubSeq(u, 1, n) \o SubSeq(u, n + 1, l) = SubSeq(u, 1, l)
    BY <2>1, <2>2, ConcatAdjacentSubSeq DEF Lines
  <2>4. SubSeq(u, 1, Len(u)) = u
    BY SubSeqFull DEF Lines
  <2> QED
    BY <2>1, <2>3, <2>4
<1>7. Stream = u /\ Stream' = u
  <2>1. <<>> \o u = u
    BY ConcatEmptySeq DEF Lines
  <2>2. unread'[c] = SubSeq(u, n + 1, Len(u))
    BY <1>1, <1>2, <1>3
  <2> QED
    BY <1>1, <1>2, <1>3, <1>5, <1>6, <2>1, <2>2 DEF Stream
<1>8. Mine'
  <2>1. \A x \in Clients : x # c => unread'[x] = unread[x]
    BY <1>1, <1>2
  <2> QED
    BY <1>1, <1>2, <1>5, <2>1 DEF Mine
<1>9. ASSUME NEW x, Now(x) PROVE Now(x)'
  BY <1>1, <1>9 DEF Now, ModeNow
<1>10. Followed'
  BY <1>1, <1>2, <1>7, <1>9, Waits
<1> QED
  BY <1>8, <1>10

(* A client that had nothing under way goes.                                *)
LEMMA LeaveFollows ==
  ASSUME TelnetInv, ~torn, ~torn', NEW c \in Clients, T!Leave(c)
  PROVE  (Mine /\ Followed)'
<1>1. /\ pc = "select" /\ unread' = [unread EXCEPT ![c] = <<>>] /\ unread[c] = <<>>
      /\ UNCHANGED <<buf, pc, brec, obrec, inIac, iiac, line, history, expected, typist, kept>>
  BY DEF T!Leave, T!TornIf
<1>2. Mine /\ Followed /\ unread \in [Clients -> Lines]
  BY DEF TelnetInv, TelnetTypes, T!TypeOK, Lines
<1>3. unread' = unread
  BY <1>1, <1>2
<1>4. Stream' = Stream /\ Mine'
  BY <1>1, <1>2, <1>3 DEF Stream, Mine
<1>5. ASSUME NEW x, Now(x) PROVE Now(x)'
  BY <1>1, <1>5 DEF Now, ModeNow
<1>6. Followed'
  BY <1>1, <1>2, <1>4, <1>5, Waits
<1> QED
  BY <1>4, <1>6

(* Nothing to look at.                                                      *)
LEMMA NothingToLookAt ==
  ASSUME NEW h \in Lines
  PROVE  \E f : Ending(f, <<>>, <<>>, h, <<>>) /\ f[0].line = <<>> /\ f[0].history = h /\ f[0].n = 0 /\ f[0].mode = 0
<1> DEFINE y == [line |-> <<>>, history |-> h, n |-> 0, mode |-> 0]
           f == [k \in 0..0 |-> y]
<1>1. Len(<<>>) = 0 /\ <<>> \in Lines /\ 0 \in Nat /\ 0 \in 0..4
  BY EmptySeq DEF Lines
<1>2. y \in Editors /\ y.line = <<>> /\ y.history = h /\ y.n = 0 /\ y.mode = 0
  BY <1>1, EditorIs
<1> HIDE DEF y
<1>3. f \in [0..0 -> Editors] /\ \A k \in 0..0 : f[k] = y /\ k = 0
  BY <1>2
<1> HIDE DEF f
<1>4. f[0] = y
  BY <1>3
<1>5. Follows(f, <<>>, <<>>)
  <2>1. ~\E k : k \in 1..0
    OBVIOUS
  <2>2. \A k \in 0..0 : f[k].n = 0
    BY <1>2, <1>3
  <2>3. \A k \in 0..0 : f[k].n <= Len(<<>>)
    BY <1>1, <2>2
  <2>4. \A j \in 0..0, k \in 0..0 : j <= k => f[j].n <= f[k].n
    BY <2>2
  <2> QED
    BY <1>1, <1>3, <2>1, <2>3, <2>4 DEF Follows
<1>6. Ending(f, <<>>, <<>>, h, <<>>)
  BY <1>1, <1>2, <1>4, <1>5 DEF Ending
<1> QED
  BY <1>2, <1>4, <1>6

(* Begun afresh.                                                            *)
LEMMA AfreshFollows ==
  ASSUME TelnetTypes, T!Afresh
  PROVE  (Mine /\ Followed)'
<1>1. /\ pc = "select" /\ brec = <<>> /\ ~inIac /\ \A c \in Clients : unread[c] = <<>>
      /\ line' = <<>> /\ history' = obrec /\ expected' = <<>>
      /\ UNCHANGED <<unread, buf, pc, brec, obrec, inIac, iiac, typist>>
  BY DEF T!Afresh
<1>2. obrec \in Lines /\ typist \in Clients /\ buf = <<>>
  BY <1>1 DEF TelnetTypes, T!TypeOK
<1>3. PICK f : /\ Ending(f, <<>>, <<>>, obrec, <<>>)
               /\ f[0].line = <<>> /\ f[0].history = obrec /\ f[0].n = 0 /\ f[0].mode = 0
  BY <1>2, NothingToLookAt
<1>4. Stream' = <<>>
  BY <1>1, <1>2, ConcatEmptySeq, EmptySeq DEF Stream
<1>5. Follows(f, Stream', expected') /\ AsTyped(f[Len(Stream)])'
  BY <1>1, <1>3, <1>4 DEF Ending, AsTyped
<1>6. Now(f[0])'
  BY <1>1, <1>3 DEF Now, ModeNow
<1>7. Mine'
  BY <1>1 DEF Mine
<1> QED
  BY <1>5, <1>6, <1>7, Onward

(* What a step leaves as it was, and what it has to say of the rest.        *)
LEMMA TypesAre ==
  ASSUME T!TelnetAssumption, unread \in [Clients -> Lines], buf \in Lines, pc \in {"select", "loop", "command"},
         pc = "select" => buf = <<>>, brec \in Lines, Len(brec) < BrecSize, obrec \in Lines, Len(obrec) < BrecSize,
         inIac \in BOOLEAN, iiac \in 0..1, ~inIac => iiac = 0,
         line \in Lines, Len(line) < BrecSize, history \in Lines, expected \in Seq(Lines),
         typist \in Clients, kept \in BOOLEAN, torn \in BOOLEAN
  PROVE  TelnetTypes
BY DEF TelnetTypes, T!TypeOK, Lines

(* The types of the lines a step can leave.                                 *)
LEMMA EmptyLine ==
  ASSUME T!TelnetAssumption
  PROVE  <<>> \in Lines /\ Len(<<>>) < BrecSize /\ <<>> \in Seq(Lines)
BY EmptySeq DEF T!TelnetAssumption, Lines

(* The types, one by one.                                                   *)
LEMMA TypesHave ==
  ASSUME TelnetTypes
  PROVE  /\ unread \in [Clients -> Lines] /\ buf \in Lines /\ pc \in {"select", "loop", "command"}
         /\ (pc = "select" => buf = <<>>) /\ brec \in Lines /\ Len(brec) < BrecSize
         /\ obrec \in Lines /\ Len(obrec) < BrecSize
         /\ inIac \in BOOLEAN /\ iiac \in 0..1 /\ (~inIac => iiac = 0)
         /\ line \in Lines /\ Len(line) < BrecSize /\ history \in Lines /\ expected \in Seq(Lines)
         /\ typist \in Clients /\ kept \in BOOLEAN /\ torn \in BOOLEAN
BY DEF TelnetTypes, T!TypeOK, Lines

(* The types are kept by the loop of telnetRead.                            *)
LEMMA LoopTypes ==
  ASSUME T!TelnetAssumption, TelnetTypes, T!Loop
  PROVE  TelnetTypes'
<1>1. buf # <<>> => Tail(buf) \in Lines
  BY TypesHave, Taken DEF Lines
<1>2. CASE T!EndOfBlock
  BY <1>2, TypesHave DEF T!EndOfBlock, T!reference, TelnetTypes, T!TypeOK
<1>3. CASE T!EndOfLine
  <2>1. buf' \in Lines /\ pc' \in {"loop", "command"}
    BY <1>1, <1>3 DEF T!EndOfLine, T!NextByte, T!Looked
  <2> QED
    BY <1>3, <2>1, TypesHave DEF T!EndOfLine, T!reference, TelnetTypes, T!TypeOK, Lines
<1>4. CASE T!Backspace
  <2>1. buf' \in Lines /\ pc = "loop"
    BY <1>1, <1>4 DEF T!Backspace, T!NextByte, T!Looked
  <2>2. brec' \in Lines /\ Len(brec') < BrecSize
    <3>1. BrecSize \in Nat /\ Len(brec) \in Nat /\ brec' = IF brec = <<>> THEN brec ELSE T!Front(brec)
      BY <1>4, TypesHave, LenProperties DEF T!Backspace, T!TelnetAssumption, Lines
    <3> QED
      BY <3>1, TypesHave, FrontIs
  <2> QED
    BY <1>4, <2>1, <2>2, TypesHave DEF T!Backspace, T!reference, TelnetTypes, T!TypeOK, Lines
<1>5. CASE T!Character
  <2>1. PICK b \in T!Bytes : brec' = IF Len(brec) < BrecSize - 1 THEN Append(brec, b) ELSE brec
    BY <1>5 DEF T!Character, T!Bytes
  <2>2. brec' \in Lines /\ Len(brec') < BrecSize
    <3>1. BrecSize \in Nat /\ Len(brec) \in Nat /\ brec \in Lines /\ Len(brec) < BrecSize
      BY TypesHave, LenProperties DEF T!TelnetAssumption, Lines
    <3>2. Append(brec, b) \in Lines /\ Len(Append(brec, b)) = Len(brec) + 1
      BY <3>1, Appended DEF Lines
    <3> QED
      BY <2>1, <3>1, <3>2
  <2>3. buf' \in Lines /\ pc = "loop"
    BY <1>1, <1>5 DEF T!Character, T!NextByte, T!Looked
  <2> QED
    BY <1>5, <2>2, <2>3, TypesHave DEF T!Character, T!reference, TelnetTypes, T!TypeOK, Lines
<1>6. CASE T!Escape
  <2>1. /\ pc = "loop" /\ buf # <<>>
        /\ buf' = (IF Len(buf) > 2 THEN <<>> ELSE Tail(buf))
        /\ (brec' = obrec /\ pc' = IF obrec = <<>> THEN "loop" ELSE "command") \/ UNCHANGED <<brec, pc>>
        /\ UNCHANGED <<unread, obrec, inIac, iiac, typist, kept>>
    BY <1>6 DEF T!Escape, T!NextByte
  <2>2. /\ torn' \in BOOLEAN
        /\ (line' = <<>> /\ history' = <<>> /\ expected' = <<>>) \/ UNCHANGED <<line, history, expected>>
    BY <1>6 DEF T!Escape, T!TornIf, T!Forget
  <2>3. buf' \in Lines /\ pc' \in {"loop", "command"} /\ brec' \in Lines /\ Len(brec') < BrecSize
    BY <1>1, <2>1, TypesHave, EmptyLine
  <2>4. line' \in Lines /\ Len(line') < BrecSize /\ history' \in Lines /\ expected' \in Seq(Lines)
    BY <2>2, TypesHave, EmptyLine
  <2> QED
    BY <2>1, <2>2, <2>3, <2>4, TypesHave DEF TelnetTypes, T!TypeOK, Lines
<1>7. CASE T!IacBegins
  <2>1. buf' \in Lines /\ pc = "loop"
    BY <1>1, <1>7 DEF T!IacBegins, T!NextByte, T!Looked
  <2> QED
    BY <1>7, <2>1, TypesHave DEF T!IacBegins, T!reference, TelnetTypes, T!TypeOK, Lines
<1>8. CASE T!Iac
  <2>1. buf' \in Lines /\ pc = "loop"
    BY <1>1, <1>8 DEF T!Iac, T!Looked
  <2>2. inIac' \in BOOLEAN /\ iiac' \in 0..1 /\ (~inIac' => iiac' = 0)
    <3>1. iiac = 0 \/ iiac = 1
      BY TypesHave
    <3>2. inIac' \in BOOLEAN /\ (inIac' <=> iiac + 1 < 2)
      <4>1. inIac' = (iiac + 1 < 2)
        BY <1>8 DEF T!Iac
      <4>2. (iiac + 1 < 2) \in BOOLEAN
        OBVIOUS
      <4>3. inIac' <=> (iiac + 1 < 2)
        BY <4>1, Zenon
      <4>4. inIac' \in BOOLEAN
        BY <4>1, <4>2, Zenon
      <4> QED
        BY <4>3, <4>4, Zenon
    <3>3. iiac' = IF iiac + 1 = 2 THEN 0 ELSE iiac + 1
      BY <1>8 DEF T!Iac
    <3>4. /\ iiac = 0 => iiac' = 1
          /\ iiac = 1 => iiac' = 0
      BY <3>3
    <3>5. iiac = 0 => iiac + 1 < 2
      OBVIOUS
    <3>6. 0 \in 0..1 /\ 1 \in 0..1
      OBVIOUS
    <3> QED
      BY <3>1, <3>2, <3>4, <3>5, <3>6, Zenon
  <2> QED
    BY <1>8, <2>1, <2>2, TypesHave DEF T!Iac, T!reference, TelnetTypes, T!TypeOK, Lines
<1>9. CASE T!telnetCommand
  <2>1. obrec' \in {obrec, brec} /\ kept' \in BOOLEAN /\ brec' = <<>> /\ pc' = "loop"
    BY <1>9 DEF T!telnetCommand
  <2>2. expected' \in Seq(Lines)
    <3>1. expected' = IF expected = <<>> THEN expected ELSE Tail(expected)
      BY <1>9 DEF T!telnetCommand
    <3> QED
      BY <3>1, TypesHave, Taken
  <2>3. brec' \in Lines /\ Len(brec') < BrecSize /\ obrec' \in Lines /\ Len(obrec') < BrecSize
    BY <2>1, TypesHave, EmptyLine
  <2> QED
    BY <1>9, <2>1, <2>2, <2>3, TypesHave DEF T!telnetCommand, TelnetTypes, T!TypeOK, Lines
<1> QED
  BY <1>2, <1>3, <1>4, <1>5, <1>6, <1>7, <1>8, <1>9 DEF T!Loop

(* The types are kept by the clients and the reading of a block.            *)
LEMMA TypeTypes ==
  ASSUME T!TelnetAssumption, TelnetTypes, NEW c \in Clients, NEW d \in T!Keys, T!Type(c, d)
  PROVE  TelnetTypes'
<1>1. /\ unread' = [unread EXCEPT ![c] = unread[c] \o T!BytesOf(d)] /\ typist' = c
      /\ UNCHANGED <<buf, pc, brec, obrec, inIac, iiac, kept>>
      /\ IF torn' THEN T!Forget ELSE T!Edits(d)
  BY DEF T!Type
<1>2. torn' \in BOOLEAN
  BY DEF T!Type
<1>3. unread[c] \o T!BytesOf(d) \in Lines
  <2>1. PICK u \in Lines, b \in Lines : u = unread[c] /\ b = T!BytesOf(d)
    BY TypesHave, BytesOfKey
  <2>2. u \o b \in Lines
    BY ConcatProperties DEF Lines
  <2> QED
    BY <2>1, <2>2
<1>4. unread' \in [Clients -> Lines]
  BY <1>1, <1>3, TypesHave
<1>5. line' \in Lines /\ Len(line') < BrecSize /\ history' \in Lines /\ expected' \in Seq(Lines)
  <2>1. CASE torn'
    BY <1>1, <2>1, EmptyLine DEF T!Forget
  <2>2. CASE ~torn'
    <3>1. T!Edits(d)
      BY <1>1, <2>2
    <3>2. PICK a \in Lines : expected' = Plus(expected, a)
      BY <3>1, EditsIs
    <3>3. expected' \in Seq(Lines)
      BY <3>2, TypesHave, PlusIs
    <3> QED
      BY <3>1, <3>3, EditsIs
  <2> QED
    BY <2>1, <2>2
<1> QED
  BY <1>1, <1>2, <1>4, <1>5, TypesHave DEF TelnetTypes, T!TypeOK, Lines

(* The types are kept when a block is read.                                 *)
LEMMA ReadTypes ==
  ASSUME TelnetTypes, NEW c \in Clients, NEW n \in Nat, T!Read(c, n)
  PROVE  TelnetTypes'
<1>1. /\ pc' = "loop" /\ n \in 1..Len(unread[c])
      /\ buf' = SubSeq(unread[c], 1, n)
      /\ unread' = [unread EXCEPT ![c] = SubSeq(unread[c], n + 1, Len(unread[c]))]
      /\ UNCHANGED <<brec, obrec, inIac, iiac, line, history, expected, typist, kept, torn>>
  BY DEF T!Read, T!reference
<1>2. PICK u \in Lines, l \in Nat : u = unread[c] /\ l = Len(u)
  BY TypesHave, LenProperties DEF Lines
<1>3. \A k \in 1..l : u[k] \in T!Bytes
  BY <1>2, ElementOfSeq DEF Lines
<1>4. SubSeq(u, 1, n) \in Lines
  <2>1. \A k \in 1..n : u[k] \in T!Bytes
    BY <1>1, <1>2, <1>3
  <2> QED
    BY <2>1, SubSeqProperties DEF Lines
<1>5. SubSeq(u, n + 1, l) \in Lines
  <2>1. \A k \in (n + 1)..l : u[k] \in T!Bytes
    BY <1>3
  <2> QED
    BY <2>1, SubSeqProperties DEF Lines
<1>6. buf' \in Lines /\ unread' \in [Clients -> Lines]
  BY <1>1, <1>2, <1>4, <1>5, TypesHave
<1> QED
  BY <1>1, <1>6, TypesHave DEF TelnetTypes, T!TypeOK, Lines

(* The types are kept when a client goes.                                   *)
LEMMA LeaveTypes ==
  ASSUME T!TelnetAssumption, TelnetTypes, NEW c \in Clients, T!Leave(c)
  PROVE  TelnetTypes'
<1>1. /\ unread' = [unread EXCEPT ![c] = <<>>] /\ torn' \in BOOLEAN
      /\ UNCHANGED <<buf, pc, brec, obrec, inIac, iiac, typist, kept>>
      /\ (line' = <<>> /\ history' = <<>> /\ expected' = <<>>) \/ UNCHANGED <<line, history, expected>>
  BY DEF T!Leave, T!TornIf, T!Forget
<1>2. line' \in Lines /\ Len(line') < BrecSize /\ history' \in Lines /\ expected' \in Seq(Lines)
  BY <1>1, TypesHave, EmptyLine
<1>3. unread' \in [Clients -> Lines]
  BY <1>1, TypesHave, EmptyLine
<1> QED
  BY <1>1, <1>2, <1>3, TypesHave DEF TelnetTypes, T!TypeOK, Lines

(* The types are kept when the clients begin afresh.                        *)
LEMMA AfreshTypes ==
  ASSUME T!TelnetAssumption, TelnetTypes, T!Afresh
  PROVE  TelnetTypes'
<1>1. /\ line' = <<>> /\ history' = obrec /\ expected' = <<>> /\ torn' = FALSE /\ kept' = TRUE
      /\ UNCHANGED <<unread, buf, pc, brec, obrec, inIac, iiac, typist>>
  BY DEF T!Afresh
<1>2. line' \in Lines /\ Len(line') < BrecSize /\ history' \in Lines /\ expected' \in Seq(Lines)
  BY <1>1, TypesHave, EmptyLine
<1> QED
  BY <1>1, <1>2, TypesHave DEF TelnetTypes, T!TypeOK, Lines

(* At the beginning.                                                        *)
LEMMA TelnetBegins ==
  ASSUME T!TelnetAssumption, T!Init
  PROVE  TelnetInv
<1>1. /\ unread = [c \in Clients |-> <<>>] /\ buf = <<>> /\ pc = "select"
      /\ brec = <<>> /\ obrec = <<>> /\ inIac = FALSE /\ iiac = 0
      /\ line = <<>> /\ history = <<>> /\ expected = <<>> /\ typist \in Clients
      /\ kept = TRUE /\ torn = FALSE
  BY DEF T!Init
<1>2. <<>> \in Lines /\ Len(<<>>) < BrecSize /\ <<>> \in Seq(Lines) /\ 0 \in 0..1
  BY EmptyLine
<1>3. unread \in [Clients -> Lines]
  BY <1>1, <1>2
<1>4. TelnetTypes
  BY <1>1, <1>2, <1>3, TypesAre
<1>5. PICK f : /\ Ending(f, <<>>, <<>>, <<>>, <<>>)
               /\ f[0].line = <<>> /\ f[0].history = <<>> /\ f[0].n = 0 /\ f[0].mode = 0
  BY <1>2, NothingToLookAt
<1>6. Stream = <<>>
  BY <1>1, ConcatEmptySeq, EmptySeq DEF Stream
<1>7. Follows(f, Stream, expected) /\ Now(f[0]) /\ AsTyped(f[Len(Stream)])
  BY <1>1, <1>5, <1>6 DEF Ending, AsTyped, Now, ModeNow
<1>8. Mine
  BY <1>1 DEF Mine
<1> QED
  BY <1>4, <1>7, <1>8, Zenon DEF TelnetInv, Followed

(* A step of the loop of telnetRead.                                        *)
LEMMA LoopSteps ==
  ASSUME T!TelnetAssumption, TelnetInv, T!Loop
  PROVE  TelnetInv'
<1>1. TelnetTypes'
  BY LoopTypes DEF TelnetInv
<1>2. ASSUME ~torn' PROVE (Mine /\ Followed)'
  <2>1. ~torn /\ UNCHANGED <<unread, typist>>
    <3>1. UNCHANGED <<unread, typist>>
      BY DEF T!Loop, T!EndOfBlock, T!EndOfLine, T!Backspace, T!Character, T!Escape, T!IacBegins, T!Iac,
             T!telnetCommand, T!reference
    <3>2. T!Escape => (torn => torn')
      BY DEF T!Escape, T!TornIf
    <3>3. ~T!Escape => torn' = torn
      BY DEF T!Loop, T!EndOfBlock, T!EndOfLine, T!Backspace, T!Character, T!IacBegins, T!Iac, T!telnetCommand
    <3> QED
      BY <1>2, <3>1, <3>2, <3>3
  <2>2. Mine'
    BY <2>1 DEF TelnetInv, Mine
  <2>3. Followed
    BY <2>1 DEF TelnetInv
  <2>4. Followed'
    <3>1. CASE T!EndOfBlock
      BY <2>3, <3>1, EndOfBlockFollows
    <3>2. CASE T!EndOfLine
      BY <2>1, <3>2, EndOfLineFollows
    <3>3. CASE T!Backspace
      BY <2>1, <3>3, BackspaceFollows
    <3>4. CASE T!Character
      BY <2>1, <3>4, CharacterFollows
    <3>5. CASE T!Escape
      BY <1>2, <2>1, <3>5, EscapeFollows
    <3>6. CASE T!IacBegins
      BY <2>1, <3>6, IacBeginsFollows
    <3>7. CASE T!Iac
      BY <2>1, <3>7, IacFollows
    <3>8. CASE T!telnetCommand
      BY <2>1, <3>8, telnetCommandFollows
    <3> QED
      BY <3>1, <3>2, <3>3, <3>4, <3>5, <3>6, <3>7, <3>8 DEF T!Loop
  <2> QED
    BY <2>2, <2>4
<1> QED
  BY <1>1, <1>2 DEF TelnetInv

(* A step of the telnet session.                                            *)
LEMMA TelnetSteps ==
  ASSUME T!TelnetAssumption, TelnetInv, T!Next
  PROVE  TelnetInv'
<1>1. CASE T!Loop
  BY <1>1, LoopSteps
<1>2. CASE T!Afresh
  <2>1. TelnetTypes' /\ (Mine /\ Followed)'
    BY <1>2, AfreshTypes, AfreshFollows DEF TelnetInv
  <2> QED
    BY <2>1 DEF TelnetInv
<1>3. ASSUME NEW c \in Clients, T!Leave(c) PROVE TelnetInv'
  <2>1. TelnetTypes'
    BY <1>3, LeaveTypes DEF TelnetInv
  <2>2. ~torn' => ~torn
    BY <1>3 DEF T!Leave, T!TornIf
  <2>3. ~torn' => (Mine /\ Followed)'
    BY <1>3, <2>2, LeaveFollows
  <2> QED
    BY <2>1, <2>3 DEF TelnetInv
<1>4. ASSUME NEW c \in Clients, NEW d \in T!Keys, T!Type(c, d) PROVE TelnetInv'
  <2>1. TelnetTypes'
    BY <1>4, TypeTypes DEF TelnetInv
  <2>2. ~torn' => ~torn
    BY <1>4, Zenon DEF T!Type
  <2>3. ~torn' => (Mine /\ Followed)'
    BY <1>4, <2>2, TypeFollows
  <2> QED
    BY <2>1, <2>3 DEF TelnetInv
<1>5. ASSUME NEW c \in Clients, NEW n \in 1..MaxUnread, T!Read(c, n) PROVE TelnetInv'
  <2>1. n \in Nat
    BY DEF T!TelnetAssumption
  <2>2. TelnetTypes'
    BY <1>5, <2>1, ReadTypes DEF TelnetInv
  <2>3. torn' = torn
    BY <1>5 DEF T!Read
  <2>4. ~torn => (Mine /\ Followed)'
    BY <1>5, <2>1, ReadFollows
  <2> QED
    BY <2>2, <2>3, <2>4 DEF TelnetInv
<1> QED
  BY <1>1, <1>2, <1>3, <1>4, <1>5 DEF T!Next

(* What the invariant says of a command that is run, and of the line when   *)
(* all has been looked at.                                                  *)
LEMMA TelnetPromise ==
  ASSUME TelnetInv
  PROVE  T!TypeOK /\ T!CommandAsTyped /\ T!NothingForgotten
<1>1. TelnetTypes
  BY DEF TelnetInv
<1>2. PICK s \in Lines, l \in Nat : s = Stream /\ l = Len(s)
  BY <1>1, StreamIs, LenProperties DEF Lines
<1>3. 0 \in 0..l
  BY <1>2
<1>4. ASSUME pc = "command", ~torn PROVE expected # <<>> /\ brec = Head(expected)
  <2>1. PICK f : Follows(f, Stream, expected) /\ Now(f[0])
    BY <1>4 DEF TelnetInv, Followed
  <2>2. f[0].n = 1 /\ expected[1] = brec /\ f[0].n <= Len(expected)
    BY <1>2, <1>3, <1>4, <2>1 DEF Now, Follows
  <2>3. expected \in Seq(Lines) /\ Len(<<>>) = 0
    BY <1>1, EmptySeq DEF TelnetTypes
  <2>4. expected # <<>>
    BY <2>2, <2>3
  <2> QED
    BY <2>2, <2>3, <2>4, Taken
<1>5. ASSUME pc = "select", ~torn, ~inIac, \A c \in Clients : unread[c] = <<>>
      PROVE  expected = <<>> /\ brec = line
  <2>1. PICK f : Follows(f, Stream, expected) /\ Now(f[0]) /\ AsTyped(f[Len(Stream)])
    BY <1>5 DEF TelnetInv, Followed
  <2>2. Stream = <<>> /\ Len(<<>>) = 0
    BY <1>1, <1>5, ConcatEmptySeq, EmptySeq DEF Stream, TelnetTypes, T!TypeOK
  <2>3. f[0].line = brec /\ f[0].n = 0 /\ f[0].line = line /\ f[0].n = Len(expected)
    BY <1>5, <2>1, <2>2 DEF Now, AsTyped
  <2>4. expected \in Seq(Lines)
    BY <1>1 DEF TelnetTypes
  <2> QED
    BY <2>3, <2>4, EmptySeq
<1> QED
  BY <1>1, <1>4, <1>5 DEF TelnetTypes, T!CommandAsTyped, T!NothingForgotten

(* telnetRead: a command that is run is the one that was entered next,      *)
(* whatever the blocks it came in and the negotiation between them, and     *)
(* none is forgotten.                                                       *)
THEOREM TelnetCorrect == Spec => []CommandAsTyped
<1> DEFINE Inv == active = "telnet" => TelnetInv
<1>1. Init => Inv
  BY TelnetBegins, InputsAssumption, Zenon DEF Init
<1>2. Inv /\ [Next]_vars => Inv'
  <2> SUFFICES ASSUME Inv, [Next]_vars, active' = "telnet" PROVE TelnetInv'
    OBVIOUS
  <2>1. CASE UNCHANGED vars
    <3>1. active = "telnet" /\ UNCHANGED telnetVars
      BY <2>1 DEF vars
    <3>2. TelnetInv
      BY <3>1
    <3> QED
      BY <3>1, <3>2 DEF telnetVars, TelnetInv, TelnetTypes, T!TypeOK, Mine, Followed, Now, ModeNow, AsTyped, Stream
  <2>2. CASE active = "telnet" /\ T!Next
    BY <2>2, InputsAssumption, TelnetSteps
  <2>3. CASE active # "telnet" /\ UNCHANGED active
    BY <2>3
  <2>4. Next => (active = "telnet" /\ T!Next) \/ (active # "telnet" /\ UNCHANGED active)
    BY DEF Next
  <2> QED
    BY <2>1, <2>2, <2>3, <2>4
<1>3. Inv => CommandAsTyped
  BY TelnetPromise DEF CommandAsTyped
<1> QED
  BY <1>1, <1>2, <1>3, PTL DEF Spec
=============================================================================
