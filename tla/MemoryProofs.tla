---------------------------- MODULE MemoryProofs -----------------------------
(***************************************************************************)
(* The memory chip and the SPI unit, for all values of the constants: what *)
(* a transaction says on the wire and what the chip makes of it, a byte, a *)
(* burst, a piece and a whole transfer at a time, and then the boot, which *)
(* finds the size of the chip and whether bursts can be trusted.  RamInv   *)
(* says what the chip holds at every step of it.                           *)
(***************************************************************************)
EXTENDS BoardProofs

RamBytes == 0..Base - 1
PhaseNames == {"command", "addr", "mosi", "miso"}
Chips(n) == [size : {n}, mem : [0..n - 1 -> RamBytes], selected : BOOLEAN, told : Seq(RamBytes)]
Units(n) ==
  [order : BOOLEAN, phases : SUBSET PhaseNames, mosi : Nat, miso : Nat, cmd : RamBytes, addr : Seq(RamBytes),
   w : [0..BurstMax \div 4 - 1 -> [1..4 -> RamBytes]], wire : Seq(RamBytes), chip : Chips(n)]

(* The unit has sent what goes out, and is otherwise as it was.             *)
Says(s, out, t) ==
  /\ t.order = s.order /\ t.wire = s.wire \o out
  /\ t.chip = [s.chip EXCEPT !.told = IF s.chip.selected THEN @ \o out ELSE @]

(* Which transactions are the same as before.                               *)
Alike(s, t) ==
  t.phases = s.phases /\ t.mosi = s.mosi /\ t.miso = s.miso /\ t.cmd = s.cmd /\ t.addr = s.addr

(* What the assumption says of the sizes of a word and of a burst.          *)
LEMMA Constants ==
  ASSUME R!SpiramAssumption
  PROVE  /\ Base \in Nat /\ Base >= 4 /\ BurstMax \in Nat /\ BurstMax >= 8 /\ BurstMax % 4 = 0
         /\ 0 \in RamBytes /\ 1 \in RamBytes /\ 2 \in RamBytes /\ 3 \in RamBytes
BY DEF R!SpiramAssumption, RamBytes

(* A place in the data has a word and a place in it.                        *)
LEMMA Quarter ==
  ASSUME R!SpiramAssumption, NEW k \in Nat
  PROVE  /\ k \div 4 \in Nat /\ k % 4 \in 0..3 /\ k = 4 * (k \div 4) + (k % 4)
         /\ k < BurstMax => k \div 4 \in 0..BurstMax \div 4 - 1
<1>1. k \div 4 \in Nat /\ k % 4 \in 0..3 /\ k = 4 * (k \div 4) + (k % 4)
  OBVIOUS
<1>2. /\ BurstMax \div 4 \in Nat /\ BurstMax = 4 * (BurstMax \div 4)
  BY Constants
<1> QED
  BY <1>1, <1>2, Constants

LEMMA Behind ==
  ASSUME NEW E, NEW x \in Seq(E), NEW a \in Seq(E), NEW b \in Seq(E)
  PROVE  (x \o a) \o b = x \o (a \o b)
BY ConcatAssociative

(* What is said bit by bit is said as a whole.                              *)
LEMMA SaysOn ==
  ASSUME NEW n, NEW s \in Units(n), NEW t \in Units(n), NEW u \in Units(n),
         NEW a \in Seq(RamBytes), NEW b \in Seq(RamBytes), Says(s, a, t), Says(t, b, u)
  PROVE  Says(s, a \o b, u)
<1>1. s.wire \in Seq(RamBytes) /\ s.chip.told \in Seq(RamBytes) /\ s.chip \in Chips(n) /\ t.chip \in Chips(n)
  BY DEF Units, Chips
<1>2. (s.wire \o a) \o b = s.wire \o (a \o b) /\ (s.chip.told \o a) \o b = s.chip.told \o (a \o b)
  <2>1. ASSUME NEW x \in Seq(RamBytes) PROVE (x \o a) \o b = x \o (a \o b)
    BY Behind
  <2> HIDE DEF RamBytes
  <2> QED
    BY <1>1, <2>1
<1>3. u.order = s.order /\ u.wire = s.wire \o (a \o b)
  BY <1>2 DEF Says
<1>4. u.chip = [s.chip EXCEPT !.told = IF s.chip.selected THEN @ \o (a \o b) ELSE @]
  BY <1>1, <1>2 DEF Says, Chips
<1> QED
  BY <1>3, <1>4 DEF Says

LEMMA SaysNothing ==
  ASSUME NEW n, NEW s \in Units(n)
  PROVE  Says(s, <<>>, s)
<1>1. s.wire \in Seq(RamBytes) /\ s.chip.told \in Seq(RamBytes) /\ s.chip \in Chips(n)
  BY DEF Units, Chips
<1>2. s.wire \o <<>> = s.wire /\ s.chip.told \o <<>> = s.chip.told
  BY <1>1, ConcatEmptySeq
<1> QED
  BY <1>1, <1>2 DEF Says, Chips

(* The bytes of a phase are sent, and nothing else of the unit changes.     *)
LEMMA SentSays ==
  ASSUME NEW n, NEW s \in Units(n), NEW out \in Seq(RamBytes)
  PROVE  /\ R!Sent(s, out) \in Units(n) /\ Says(s, out, R!Sent(s, out))
         /\ Alike(s, R!Sent(s, out)) /\ R!Sent(s, out).w = s.w
<1>1. s.wire \o out \in Seq(RamBytes) /\ s.chip.told \o out \in Seq(RamBytes)
  BY ConcatProperties DEF Units, Chips
<1> DEFINE c == [s.chip EXCEPT !.told = IF s.chip.selected THEN @ \o out ELSE @]
<1>2. c \in Chips(n)
  BY <1>1 DEF Units, Chips
<1>3. R!Sent(s, out) = [s EXCEPT !.wire = s.wire \o out, !.chip = c]
  BY DEF R!Sent, Units, Chips
<1> HIDE DEF c
<1>4. R!Sent(s, out) \in Units(n)
  BY <1>1, <1>2, <1>3 DEF Units
<1>5. R!Sent(s, out).chip = c /\ R!Sent(s, out).wire = s.wire \o out /\ R!Sent(s, out).order = s.order
  BY <1>3 DEF Units
<1>6. Says(s, out, R!Sent(s, out))
  BY <1>5 DEF Says, c
<1>7. Alike(s, R!Sent(s, out)) /\ R!Sent(s, out).w = s.w
  BY <1>3 DEF Alike, Units
<1> QED
  BY <1>4, <1>6, <1>7

(* The bytes of the data phase.                                             *)
Outgoing(s) == [k \in 1..s.mosi |-> s.w[(k - 1) \div 4][R!Place(s, k - 1)]]

(* The data phase sends what is in the words.                               *)
LEMMA OutgoingBytes ==
  ASSUME R!SpiramAssumption, NEW n, NEW s \in Units(n), s.mosi <= BurstMax
  PROVE  Outgoing(s) \in Seq(RamBytes)
<1>1. s.mosi \in Nat /\ s.w \in [0..BurstMax \div 4 - 1 -> [1..4 -> RamBytes]]
  BY DEF Units
<1>2. ASSUME NEW k \in 1..s.mosi PROVE s.w[(k - 1) \div 4][R!Place(s, k - 1)] \in RamBytes
  <2>1. k - 1 \in Nat /\ k - 1 < BurstMax
    BY <1>1, Constants
  <2>2. (k - 1) \div 4 \in 0..BurstMax \div 4 - 1 /\ (k - 1) % 4 \in 0..3
    BY <2>1, Quarter
  <2>3. R!Place(s, k - 1) \in 1..4
    BY <2>2 DEF R!Place
  <2> QED
    BY <1>1, <2>2, <2>3
<1> QED
  BY <1>1, <1>2 DEF Outgoing

(* A transaction that sends: what goes out, after a command and an address  *)
(* or without.                                                              *)
LEMMA Sends ==
  ASSUME R!SpiramAssumption, NEW n, NEW s \in Units(n), s.mosi <= BurstMax, "mosi" \in s.phases,
         "miso" \notin s.phases, "command" \in s.phases <=> "addr" \in s.phases
  PROVE  /\ R!Transaction(s) \in Units(n) /\ Alike(s, R!Transaction(s)) /\ R!Transaction(s).w = s.w
         /\ Says(s, (IF "command" \in s.phases THEN <<s.cmd>> \o s.addr ELSE <<>>) \o Outgoing(s), R!Transaction(s))
<1>1. s.cmd \in RamBytes /\ s.addr \in Seq(RamBytes) /\ <<s.cmd>> \in Seq(RamBytes) /\ Outgoing(s) \in Seq(RamBytes)
  BY OutgoingBytes DEF Units
<1> DEFINE c == R!Phase(s, "command")
           a == R!Phase(c, "addr")
           o == R!Phase(a, "mosi")
           h == IF "command" \in s.phases THEN <<s.cmd>> \o s.addr ELSE <<>>
<1>2. /\ c \in Units(n) /\ Alike(s, c) /\ c.w = s.w
      /\ Says(s, IF "command" \in s.phases THEN <<s.cmd>> ELSE <<>>, c)
  <2>1. CASE "command" \in s.phases
    <3>1. c = R!Sent(s, <<s.cmd>>)
      BY <2>1 DEF R!Phase
    <3> HIDE DEF c
    <3>2. c \in Units(n) /\ Alike(s, c) /\ c.w = s.w /\ Says(s, <<s.cmd>>, c)
      BY <1>1, <3>1, SentSays
    <3> QED
      BY <2>1, <3>2
  <2>2. CASE "command" \notin s.phases
    <3>1. c = s
      BY <2>2 DEF R!Phase
    <3> QED
      BY <2>2, <3>1, SaysNothing DEF Alike
  <2> QED
    BY <2>1, <2>2
<1> HIDE DEF c
<1>3. /\ a \in Units(n) /\ Alike(s, a) /\ a.w = s.w /\ h \in Seq(RamBytes) /\ Says(s, h, a)
  <2>1. CASE "command" \in s.phases
    <3>1. a = R!Sent(c, s.addr)
      BY <1>2, <2>1 DEF R!Phase, Alike
    <3>2. a \in Units(n) /\ Says(c, s.addr, a) /\ Alike(c, a) /\ a.w = c.w
      BY <1>1, <1>2, <3>1, SentSays
    <3>3. Says(s, <<s.cmd>> \o s.addr, a)
      BY <1>1, <1>2, <2>1, <3>2, SaysOn
    <3>4. <<s.cmd>> \o s.addr \in Seq(RamBytes)
      BY <1>1, ConcatProperties
    <3> QED
      BY <1>2, <2>1, <3>2, <3>3, <3>4 DEF Alike
  <2>2. CASE "command" \notin s.phases
    <3>1. a = c
      BY <1>2, <2>2 DEF R!Phase, Alike
    <3>2. <<>> \in Seq(RamBytes)
      OBVIOUS
    <3> QED
      BY <1>2, <2>2, <3>1, <3>2
  <2> QED
    BY <2>1, <2>2
<1> HIDE DEF a, h
<1>4. o \in Units(n) /\ Alike(s, o) /\ o.w = s.w /\ Says(s, h \o Outgoing(s), o)
  <2>1. a.order = s.order
    BY <1>3 DEF Says
  <2>2. o = R!Sent(a, Outgoing(s))
    BY <1>3, <2>1 DEF R!Phase, Alike, Outgoing, R!Place, R!Turned
  <2>3. o \in Units(n) /\ Says(a, Outgoing(s), o) /\ Alike(a, o) /\ o.w = a.w
    BY <1>1, <1>3, <2>2, SentSays
  <2> QED
    BY <1>1, <1>3, <2>3, SaysOn DEF Alike
<1> HIDE DEF o
<1>5. R!Transaction(s) = o
  <2>1. R!Transaction(s) = R!Phase(o, "miso")
    BY DEF R!Transaction, o, a, c
  <2>2. "miso" \notin o.phases
    BY <1>4 DEF Alike
  <2> QED
    BY <2>1, <2>2 DEF R!Phase
<1> QED
  BY <1>4, <1>5 DEF h

(* A transaction that receives, after a command and an address or without:  *)
(* what is told, and what comes.                                            *)
Nothing(n) == [k \in 1..n |-> 0]

(* A read sends zeros.                                                      *)
LEMMA NothingBytes ==
  ASSUME R!SpiramAssumption, NEW n \in Nat
  PROVE  Nothing(n) \in Seq(RamBytes) /\ Len(Nothing(n)) = n
BY Constants DEF Nothing

(* A chip answers with a byte, whatever it was told.                        *)
LEMMA AnswerByte ==
  ASSUME R!SpiramAssumption, NEW n \in Nat, NEW chip \in Chips(n), NEW k \in Nat
  PROVE  R!Answer(chip, k) \in RamBytes
<1>1. CASE R!Answer(chip, k) = 0
  BY <1>1, Constants
<1>2. CASE R!Answer(chip, k) # 0
  <2>1. /\ n > 0 /\ Len(chip.told) >= 4 /\ chip.told \in Seq(RamBytes)
        /\ chip.mem \in [0..n - 1 -> RamBytes] /\ chip.size = n
    BY <1>2 DEF R!Answer, Chips
  <2>2. R!Answer(chip, k) = chip.mem[R!Cell(chip, Len(chip.told) - 4 + k)]
    BY <1>2 DEF R!Answer
  <2>3. chip.told[2] \in RamBytes /\ chip.told[3] \in RamBytes /\ chip.told[4] \in RamBytes
    BY <2>1
  <2>4. PICK a \in Int : a = Base * Base * chip.told[2] + Base * chip.told[3] + chip.told[4] + (Len(chip.told) - 4 + k)
    <3>1. PICK x \in Int, y \in Int, z \in Int : x = chip.told[2] /\ y = chip.told[3] /\ z = chip.told[4]
      BY <2>3, Constants DEF RamBytes
    <3>2. PICK u \in Int, v \in Int, l \in Int : u = Base * Base * x /\ v = Base * y /\ l = Len(chip.told)
      BY <2>1, <3>1, Constants
    <3> QED
      BY <3>1, <3>2
  <2>5. R!Cell(chip, Len(chip.told) - 4 + k) = a % n
    BY <2>1, <2>4 DEF R!Cell
  <2>6. a % n \in 0..n - 1
    BY <2>1
  <2> QED
    BY <2>1, <2>2, <2>5, <2>6
<1> QED
  BY <1>1, <1>2

(* Where byte k of what came is found.                                      *)
Incoming(s, t, n) ==
  \A k \in 0..n - 1 : t.w[k \div 4][R!Place(s, k)] = R!Answer(s.chip, k)

(* A read fills the words with the answers, in the order of the unit.       *)
LEMMA ReceivedSays ==
  ASSUME R!SpiramAssumption, NEW n \in Nat, NEW s \in Units(n), NEW m \in 0..BurstMax
  PROVE  LET t == R!Received(s, m)
         IN  /\ t \in Units(n) /\ Alike(s, t) /\ Says(s, Nothing(m), t)
             /\ \A j \in 0..BurstMax \div 4 - 1, b \in 1..4 :
                  4 * j < m => LET k == 4 * j + (IF R!Turned(s) THEN 4 - b ELSE b - 1)
                               IN  t.w[j][b] = IF k < m THEN R!Answer(s.chip, k) ELSE 0
<1> DEFINE u == R!Sent(s, Nothing(m))
           At(j, b) == 4 * j + (IF R!Turned(s) THEN 4 - b ELSE b - 1)
           Cut(j) == [b \in 1..4 |-> IF At(j, b) < m THEN R!Answer(s.chip, At(j, b)) ELSE 0]
           w == [j \in 0..BurstMax \div 4 - 1 |-> IF 4 * j < m THEN Cut(j) ELSE s.w[j]]
           t == R!Received(s, m)
<1>1. m \in Nat /\ s.chip \in Chips(n) /\ s.w \in [0..BurstMax \div 4 - 1 -> [1..4 -> RamBytes]]
  BY Constants DEF Units
<1>2. u \in Units(n) /\ Says(s, Nothing(m), u) /\ Alike(s, u) /\ u.w = s.w
  BY <1>1, NothingBytes, SentSays
<1> HIDE DEF u
<1>3. ASSUME NEW j \in 0..BurstMax \div 4 - 1 PROVE Cut(j) \in [1..4 -> RamBytes]
  <2>1. j \in Nat
    BY Constants
  <2>2. ASSUME NEW b \in 1..4 PROVE At(j, b) \in Nat
    BY <2>1
  <2> HIDE DEF At
  <2>3. ASSUME NEW b \in 1..4 PROVE (IF At(j, b) < m THEN R!Answer(s.chip, At(j, b)) ELSE 0) \in RamBytes
    BY <1>1, <2>2, AnswerByte, Constants
  <2> QED
    BY <2>3
<1>4. w \in [0..BurstMax \div 4 - 1 -> [1..4 -> RamBytes]]
  <2> HIDE DEF Cut
  <2> QED
    BY <1>1, <1>3
<1>5. t = [u EXCEPT !.w = w]
  <2>1. DOMAIN u.w = 0..BurstMax \div 4 - 1
    BY <1>1, <1>2
  <2>2. t = [u EXCEPT !.w = [j \in DOMAIN u.w |-> IF 4 * j < m THEN Cut(j) ELSE u.w[j]]]
    BY DEF u, R!Received, Nothing
  <2> HIDE DEF Cut, t
  <2> QED
    BY <1>2, <2>1, <2>2
<1> HIDE DEF w, t
<1>6. t \in Units(n) /\ t.w = w /\ Alike(s, t) /\ Says(s, Nothing(m), t)
  BY <1>2, <1>4, <1>5 DEF Units, Alike, Says
<1>7. ASSUME NEW j \in 0..BurstMax \div 4 - 1, NEW b \in 1..4, 4 * j < m
      PROVE  t.w[j][b] = IF At(j, b) < m THEN R!Answer(s.chip, At(j, b)) ELSE 0
  <2>1. t.w[j] = Cut(j)
    BY <1>6, <1>7 DEF w
  <2> QED
    BY <2>1
<1> QED
  BY <1>6, <1>7 DEF t

-----------------------------------------------------------------------------
(* What a sequence says between two of its places.                          *)
LEMMA Excerpt ==
  ASSUME NEW X, NEW s \in Seq(X), NEW n \in 0..Len(s), NEW m \in 0..n
  PROVE  /\ SubSeq(s, m + 1, n) \in Seq(X)
         /\ Len(SubSeq(s, m + 1, n)) = n - m
         /\ \A i \in 1..n - m : SubSeq(s, m + 1, n)[i] = s[m + i]
<1>1. Len(s) \in Nat /\ m \in Int /\ n \in Int /\ m + 1 \in Int
  BY LenProperties
<1>2. \A i \in m + 1..n : s[i] \in X
  BY <1>1
<1>3. /\ SubSeq(s, m + 1, n) \in Seq(X)
      /\ Len(SubSeq(s, m + 1, n)) = IF m + 1 <= n THEN n - (m + 1) + 1 ELSE 0
      /\ \A i \in 1..n - (m + 1) + 1 : SubSeq(s, m + 1, n)[i] = s[m + 1 + i - 1]
  BY <1>1, <1>2, SubSeqProperties
<1>4. n - (m + 1) + 1 = n - m /\ (IF m + 1 <= n THEN n - (m + 1) + 1 ELSE 0) = n - m
  BY <1>1
<1>5. ASSUME NEW i \in 1..n - m PROVE SubSeq(s, m + 1, n)[i] = s[m + i]
  <2>1. m + 1 + i - 1 = m + i
    BY <1>1
  <2> QED
    BY <1>3, <1>4, <2>1
<1> QED
  BY <1>3, <1>4, <1>5

LEMMA ExcerptOn ==
  ASSUME NEW X, NEW s \in Seq(X), NEW n \in 0..Len(s), NEW m \in 0..n
  PROVE  SubSeq(s, 1, m) \o SubSeq(s, m + 1, n) = SubSeq(s, 1, n)
<1> DEFINE a == SubSeq(s, 1, m)
           b == SubSeq(s, m + 1, n)
           c == SubSeq(s, 1, n)
<1>1. Len(s) \in Nat /\ m \in 0..Len(s) /\ 0 \in 0..m /\ 0 \in 0..n /\ 0 + 1 = 1 /\ m - 0 = m /\ n - 0 = n
  BY LenProperties
<1>2. a \in Seq(X) /\ Len(a) = m /\ \A i \in 1..m : a[i] = s[0 + i]
  BY <1>1, Excerpt
<1>3. b \in Seq(X) /\ Len(b) = n - m /\ \A i \in 1..n - m : b[i] = s[m + i]
  BY <1>1, Excerpt
<1>4. c \in Seq(X) /\ Len(c) = n /\ \A i \in 1..n : c[i] = s[0 + i]
  BY <1>1, Excerpt
<1> HIDE DEF a, b, c
<1>5. /\ a \o b \in Seq(X) /\ Len(a \o b) = Len(a) + Len(b)
      /\ \A i \in 1..Len(a) + Len(b) : (a \o b)[i] = IF i <= Len(a) THEN a[i] ELSE b[i - Len(a)]
  BY <1>2, <1>3, ConcatProperties
<1>6. ASSUME NEW i \in 1..n PROVE (a \o b)[i] = c[i]
  <2>1. i \in 1..Len(a) + Len(b)
    BY <1>1, <1>2, <1>3
  <2>2. CASE i <= m
    <3>1. i \in 1..m /\ i <= Len(a)
      BY <1>1, <1>2, <2>2
    <3>2. (a \o b)[i] = a[i]
      BY <1>5, <2>1, <3>1
    <3> QED
      BY <1>2, <1>4, <3>1, <3>2
  <2>3. CASE ~(i <= m)
    <3>1. i - m \in 1..n - m /\ m + (i - m) = 0 + i
      BY <1>1, <2>3
    <3>2. b[i - m] = s[0 + i]
      BY <1>3, <3>1
    <3>3. (a \o b)[i] = b[i - m]
      BY <1>2, <1>5, <2>1, <2>3
    <3> QED
      BY <1>4, <3>2, <3>3
  <2> QED
    BY <2>2, <2>3
<1>7. Len(a \o b) = Len(c)
  BY <1>1, <1>2, <1>3, <1>4, <1>5
<1>8. a \o b = c
  <2>1. Len(c) = n /\ n \in Nat
    BY <1>1, <1>4
  <2> QED
    BY <1>4, <1>5, <1>6, <1>7, <2>1, SeqEqual
<1> QED
  BY <1>8 DEF a, b, c

(* A loop that sends one part after another sends them all.                 *)
LEMMA SaysAll ==
  ASSUME NEW n, NEW data \in Seq(RamBytes), NEW k \in Nat, NEW w \in [0..k -> Units(n)],
         NEW end \in [0..k -> 0..Len(data)], end[0] = 0, end[k] = Len(data),
         \A i \in 1..k : /\ end[i - 1] <= end[i]
                         /\ Says(w[i - 1], SubSeq(data, end[i - 1] + 1, end[i]), w[i])
  PROVE  Says(w[0], data, w[k])
<1>1. Len(data) \in Nat /\ 0 \in 0..k /\ k \in 0..k
  BY LenProperties
<1> DEFINE good == {i \in 0..k : Says(w[0], SubSeq(data, 1, end[i]), w[i])}
<1>2. 0 \in good
  <2>1. SubSeq(data, 1, 0) = <<>>
    BY SubSeqEmpty
  <2>2. w[0] \in Units(n)
    BY <1>1
  <2>3. Says(w[0], <<>>, w[0])
    BY <2>2, SaysNothing
  <2> QED
    BY <1>1, <2>1, <2>3
<1>3. ASSUME NEW i \in 0..k - 1, i \in good PROVE i + 1 \in good
  <2>1. i + 1 \in 1..k /\ i + 1 - 1 = i /\ i \in 0..k /\ i + 1 \in 0..k
    BY <1>1
  <2>2. PICK m \in 0..Len(data), l \in 0..Len(data) : m = end[i] /\ l = end[i + 1]
    BY <2>1
  <2>3. m <= l /\ Says(w[i], SubSeq(data, m + 1, l), w[i + 1]) /\ Says(w[0], SubSeq(data, 1, m), w[i])
    BY <1>3, <2>1, <2>2
  <2>4. m \in 0..l /\ 0 \in 0..m /\ 0 + 1 = 1
    BY <1>1, <2>2, <2>3
  <2>5. SubSeq(data, 1, m) \in Seq(RamBytes) /\ SubSeq(data, m + 1, l) \in Seq(RamBytes)
    BY <2>4, Excerpt
  <2>6. w[0] \in Units(n) /\ w[i] \in Units(n) /\ w[i + 1] \in Units(n)
    BY <1>1, <2>1
  <2>7. Says(w[0], SubSeq(data, 1, m) \o SubSeq(data, m + 1, l), w[i + 1])
    BY <2>3, <2>5, <2>6, SaysOn
  <2>8. Says(w[0], SubSeq(data, 1, l), w[i + 1])
    BY <2>4, <2>7, ExcerptOn
  <2> QED
    BY <2>1, <2>2, <2>8
<1> HIDE DEF good
<1>4. k \in good
  BY <1>1, <1>2, <1>3, UpTo
<1>5. SubSeq(data, 1, Len(data)) = data
  BY SubSeqFull
<1> QED
  BY <1>4, <1>5 DEF good

LEMMA One ==
  ASSUME NEW E, NEW s \in Seq(E), NEW i \in 1..Len(s)
  PROVE  SubSeq(s, i, i) = <<s[i]>>
<1>1. i \in Int /\ i + 1 \in Int /\ i < i + 1 /\ i \in i..Len(s)
  BY LenProperties
<1>2. SubSeq(s, i + 1, i) = <<>>
  BY <1>1, SubSeqEmpty
<1>3. SubSeq(s, i, i) = <<s[i]>> \o SubSeq(s, i + 1, i)
  BY <1>1, SubSeqRecursiveFirst
<1>4. <<s[i]>> \in Seq(E)
  OBVIOUS
<1>5. <<s[i]>> \o <<>> = <<s[i]>>
  BY <1>4, ConcatEmptySeq
<1> QED
  BY <1>2, <1>3, <1>5

LEMMA SaysEach ==
  ASSUME NEW n, NEW data \in Seq(RamBytes), NEW w \in [0..Len(data) -> Units(n)],
         \A i \in 1..Len(data) : Says(w[i - 1], <<data[i]>>, w[i])
  PROVE  Says(w[0], data, w[Len(data)])
<1> DEFINE k == Len(data)
           end == [i \in 0..k |-> i]
<1>1. k \in Nat
  BY LenProperties
<1>2. end \in [0..k -> 0..k] /\ end[0] = 0 /\ end[k] = k
  BY <1>1
<1>3. ASSUME NEW i \in 1..k
      PROVE  end[i - 1] <= end[i] /\ Says(w[i - 1], SubSeq(data, end[i - 1] + 1, end[i]), w[i])
  <2>1. i - 1 \in 0..k /\ i \in 0..k /\ end[i - 1] = i - 1 /\ end[i] = i /\ i - 1 + 1 = i /\ i - 1 <= i
    BY <1>1
  <2>2. SubSeq(data, i, i) = <<data[i]>>
    BY One
  <2> HIDE DEF end
  <2> QED
    BY <2>1, <2>2
<1> HIDE DEF end
<1> QED
  BY <1>1, <1>2, <1>3, SaysAll

(* A unit that differs from another in what is to be sent.                  *)
LEMMA SaysFrom ==
  ASSUME NEW s, NEW r, NEW t, NEW out, r.order = s.order, r.wire = s.wire, r.chip = s.chip, Says(r, out, t)
  PROVE  Says(s, out, t)
BY DEF Says

(* A single byte goes out first, with the byte order bits set.              *)
LEMMA AloneSays ==
  ASSUME R!SpiramAssumption, NEW n, NEW s \in Units(n), s.order = TRUE, s.phases = {"mosi"}, s.mosi = 1,
         NEW d \in RamBytes
  PROVE  LET t == R!Transaction([s EXCEPT !.w[0] = R!Alone(s, d)])
         IN  t \in Units(n) /\ Says(s, <<d>>, t) /\ Alike(s, t)
<1> DEFINE r == [s EXCEPT !.w[0] = R!Alone(s, d)]
<1>1. R!Alone(s, d) \in [1..4 -> RamBytes] /\ R!Alone(s, d)[4] = d
  BY Constants DEF R!Alone
<1>2. 0 \in 0..BurstMax \div 4 - 1 /\ 0 \div 4 = 0 /\ 0 % 4 = 0
  BY Constants
<1>3. /\ r \in Units(n) /\ r.w[0] = R!Alone(s, d) /\ Alike(s, r) /\ r.order = s.order /\ r.wire = s.wire
      /\ r.chip = s.chip
  BY <1>1, <1>2 DEF Units, Alike
<1> HIDE DEF r
<1>4. Outgoing(r) = <<d>>
  <2>1. Outgoing(r) = [k \in 1..1 |-> r.w[(k - 1) \div 4][R!Place(r, k - 1)]]
    BY <1>3 DEF Outgoing, Alike
  <2>2. r.w[(1 - 1) \div 4][R!Place(r, 1 - 1)] = d
    <3>1. R!Place(r, 0) = 4
      BY <1>2, <1>3 DEF R!Place, R!Turned
    <3> QED
      BY <1>1, <1>2, <1>3, <3>1
  <2> QED
    BY <2>1, <2>2
<1>5. /\ R!Transaction(r) \in Units(n) /\ Alike(r, R!Transaction(r))
      /\ Says(r, <<>> \o Outgoing(r), R!Transaction(r))
  <2>1. r.phases = {"mosi"} /\ r.mosi = 1 /\ r.mosi <= BurstMax
    BY <1>3, Constants DEF Alike
  <2> QED
    BY <1>3, <2>1, Sends
<1>6. <<>> \o Outgoing(r) = <<d>>
  BY <1>4, ConcatEmptySeq
<1> QED
  BY <1>3, <1>5, <1>6, SaysFrom DEF r, Alike

(* spi_put_char sends its byte.                                             *)
LEMMA PutSays ==
  ASSUME R!SpiramAssumption, NEW n, NEW s \in Units(n), s.order = TRUE, NEW d \in RamBytes
  PROVE  R!spi_put_char(s, d) \in Units(n) /\ Says(s, <<d>>, R!spi_put_char(s, d))
<1> DEFINE r == [s EXCEPT !.phases = {"mosi"}, !.mosi = 1]
<1>1. /\ r \in Units(n) /\ r.order = s.order /\ r.wire = s.wire /\ r.chip = s.chip
      /\ r.phases = {"mosi"} /\ r.mosi = 1
  BY DEF Units, PhaseNames
<1>2. R!spi_put_char(s, d) = R!Transaction([r EXCEPT !.w[0] = R!Alone(r, d)])
  <2>1. R!Alone(r, d) = R!Alone(s, d)
    BY <1>1 DEF R!Alone
  <2>2. [s EXCEPT !.phases = {"mosi"}, !.mosi = 1, !.w[0] = R!Alone(s, d)] = [r EXCEPT !.w[0] = R!Alone(s, d)]
    BY DEF Units
  <2> QED
    BY <2>1, <2>2 DEF R!spi_put_char
<1> HIDE DEF r
<1>3. LET t == R!Transaction([r EXCEPT !.w[0] = R!Alone(r, d)]) IN t \in Units(n) /\ Says(r, <<d>>, t)
  BY <1>1, AloneSays
<1> QED
  BY <1>1, <1>2, <1>3, SaysFrom

(* A loop stays where every round does.                                     *)
LEMMA Stays ==
  ASSUME NEW n \in Nat, NEW X, NEW w, w = [i \in 0..n |-> w[i]], w[0] \in X,
         \A i \in 1..n : w[i - 1] \in X => w[i] \in X
  PROVE  w \in [0..n -> X]
<1> DEFINE good == {i \in 0..n : w[i] \in X}
<1>1. 0 \in good
  OBVIOUS
<1>2. ASSUME NEW i \in 0..n - 1, i \in good PROVE i + 1 \in good
  <2>1. i + 1 \in 1..n /\ i + 1 \in 0..n /\ i + 1 - 1 = i
    OBVIOUS
  <2>2. w[i + 1 - 1] \in X
    BY <1>2, <2>1
  <2> QED
    BY <2>1, <2>2
<1> HIDE DEF good
<1>3. \A i \in 0..n : i \in good
  BY <1>1, <1>2, UpTo
<1> QED
  BY <1>3 DEF good

(* spi_bytewise_out sends its bytes in order, by induction on the rounds.   *)
LEMMA BytewiseSays ==
  ASSUME R!SpiramAssumption, NEW n, NEW s \in Units(n), s.order = TRUE, NEW data \in Seq(RamBytes)
  PROVE  R!spi_bytewise_out(s, data) \in Units(n) /\ Says(s, data, R!spi_bytewise_out(s, data))
<1> DEFINE k == Len(data)
           X == {u \in Units(n) : u.order = TRUE}
           F == [i \in 1..k |-> [u \in X |-> R!spi_put_char(u, data[i])]]
<1>1. k \in Nat /\ s \in X
  BY LenProperties
<1>2. ASSUME NEW u \in X, NEW i \in 1..k
      PROVE  R!spi_put_char(u, data[i]) \in X /\ Says(u, <<data[i]>>, R!spi_put_char(u, data[i]))
  <2>1. u \in Units(n) /\ u.order = TRUE /\ data[i] \in RamBytes
    BY <1>1
  <2>2. R!spi_put_char(u, data[i]) \in Units(n) /\ Says(u, <<data[i]>>, R!spi_put_char(u, data[i]))
    BY <2>1, PutSays
  <2> QED
    BY <2>1, <2>2 DEF Says
<1> HIDE DEF k, X
<1>3. F \in [1..k -> [X -> X]]
  BY <1>2
<1>4. PICK m \in [0..k -> X] : IsRun(m, F, s, k)
  BY <1>1, <1>3, Made
<1> DEFINE IsMade(f) == f = [i \in 0..k |-> IF i = 0 THEN s ELSE R!spi_put_char(f[i - 1], data[i])]
           w == CHOOSE f : IsMade(f)
<1>5. IsMade(m)
  <2>1. ASSUME NEW i \in 0..k PROVE m[i] = IF i = 0 THEN s ELSE R!spi_put_char(m[i - 1], data[i])
    <3> SUFFICES ASSUME i # 0 PROVE m[i] = R!spi_put_char(m[i - 1], data[i])
      BY <1>4 DEF IsRun
    <3>1. i \in 1..k /\ i - 1 \in 0..k
      BY <1>1
    <3>2. m[i - 1] \in X
      BY <3>1
    <3> QED
      BY <1>4, <3>1, <3>2 DEF F, IsRun
  <2>2. m = [i \in 0..k |-> m[i]]
    OBVIOUS
  <2> QED
    BY <2>1, <2>2, Zenon
<1>6. IsMade(w)
  BY <1>5, Zenon
<1>7. R!spi_bytewise_out(s, data) = w[k]
  BY Zenon DEF R!spi_bytewise_out, R!Rounds, k
<1> HIDE DEF w, F
<1>8. w[0] = s /\ \A i \in 1..k : w[i] = R!spi_put_char(w[i - 1], data[i])
  <2>1. ASSUME NEW i \in 0..k PROVE w[i] = IF i = 0 THEN s ELSE R!spi_put_char(w[i - 1], data[i])
    BY <1>6
  <2>2. 0 \in 0..k /\ \A i \in 1..k : i \in 0..k /\ i # 0
    BY <1>1
  <2> QED
    BY <2>1, <2>2
<1>9. w \in [0..k -> X]
  <2>1. w = [i \in 0..k |-> w[i]]
    BY <1>6
  <2>2. ASSUME NEW i \in 1..k, w[i - 1] \in X PROVE w[i] \in X
    BY <1>2, <1>8, <2>2
  <2> QED
    BY <1>1, <1>8, <2>1, <2>2, Stays
<1>10. Says(w[0], data, w[k])
  <2>1. w \in [0..k -> Units(n)]
    BY <1>9 DEF X
  <2>2. ASSUME NEW i \in 1..k PROVE Says(w[i - 1], <<data[i]>>, w[i])
    <3>1. i - 1 \in 0..k
      BY <1>1
    <3>2. w[i - 1] \in X
      BY <1>9, <3>1
    <3> QED
      BY <1>2, <1>8, <3>2
  <2> QED
    BY <2>1, <2>2, SaysEach DEF k
<1> QED
  BY <1>1, <1>7, <1>8, <1>9, <1>10 DEF X

(* So does spi_write_bytes, which sets the registers up once.               *)
LEMMA WriteBytesSays ==
  ASSUME R!SpiramAssumption, NEW n, NEW s \in Units(n), s.order = TRUE, NEW data \in Seq(RamBytes)
  PROVE  R!spi_write_bytes(s, data) \in Units(n) /\ Says(s, data, R!spi_write_bytes(s, data))
<1>0. CASE data = <<>>
  BY <1>0, SaysNothing DEF R!spi_write_bytes
<1> SUFFICES ASSUME data # <<>>
             PROVE  R!spi_write_bytes(s, data) \in Units(n) /\ Says(s, data, R!spi_write_bytes(s, data))
  BY <1>0
<1> DEFINE k == Len(data)
           X == {u \in Units(n) : u.order = TRUE /\ u.phases = {"mosi"} /\ u.mosi = 1}
           ready == [s EXCEPT !.phases = (@ \ {"miso", "command", "addr", "dummy"}) \cup {"mosi"}, !.mosi = 1]
           Out(u, i) == R!Transaction([u EXCEPT !.w[0] = R!Alone(u, data[i])])
           F == [i \in 1..k |-> [u \in X |-> Out(u, i)]]
<1>1. k \in Nat /\ ready \in X /\ ready.order = s.order /\ ready.wire = s.wire /\ ready.chip = s.chip
  <2>1. (s.phases \ {"miso", "command", "addr", "dummy"}) \cup {"mosi"} = {"mosi"}
    BY DEF Units, PhaseNames
  <2> QED
    BY <2>1, LenProperties DEF Units, PhaseNames
<1>2. ASSUME NEW u \in X, NEW i \in 1..k PROVE Out(u, i) \in X /\ Says(u, <<data[i]>>, Out(u, i))
  <2>1. u \in Units(n) /\ u.order = TRUE /\ u.phases = {"mosi"} /\ u.mosi = 1 /\ data[i] \in RamBytes
    BY <1>1
  <2>2. Out(u, i) \in Units(n) /\ Says(u, <<data[i]>>, Out(u, i)) /\ Alike(u, Out(u, i))
    BY <2>1, AloneSays
  <2> HIDE DEF Out
  <2> QED
    BY <2>1, <2>2 DEF Says, Alike
<1> HIDE DEF Out, ready
<1> HIDE DEF k, X
<1>3. F \in [1..k -> [X -> X]]
  BY <1>2
<1>4. PICK m \in [0..k -> X] : IsRun(m, F, ready, k)
  BY <1>1, <1>3, Made
<1> DEFINE IsMade(f) == f = [i \in 0..k |-> IF i = 0 THEN ready ELSE Out(f[i - 1], i)]
           w == CHOOSE f : IsMade(f)
<1>5. IsMade(m)
  <2>1. ASSUME NEW i \in 0..k PROVE m[i] = IF i = 0 THEN ready ELSE Out(m[i - 1], i)
    <3> SUFFICES ASSUME i # 0 PROVE m[i] = Out(m[i - 1], i)
      BY <1>4 DEF IsRun
    <3>1. i \in 1..k /\ i - 1 \in 0..k
      BY <1>1
    <3>2. m[i - 1] \in X
      BY <3>1
    <3> QED
      BY <1>4, <3>1, <3>2 DEF F, IsRun
  <2>2. m = [i \in 0..k |-> m[i]]
    OBVIOUS
  <2> QED
    BY <2>1, <2>2, Zenon
<1>6. IsMade(w)
  BY <1>5, Zenon
<1>7. R!spi_write_bytes(s, data) = w[k]
  BY Zenon DEF R!spi_write_bytes, R!Rounds, k, Out, ready
<1> HIDE DEF w, F
<1>8. w[0] = ready /\ \A i \in 1..k : w[i] = Out(w[i - 1], i)
  <2>1. ASSUME NEW i \in 0..k PROVE w[i] = IF i = 0 THEN ready ELSE Out(w[i - 1], i)
    BY <1>6
  <2>2. 0 \in 0..k /\ \A i \in 1..k : i \in 0..k /\ i # 0
    BY <1>1
  <2> QED
    BY <2>1, <2>2
<1>9. w \in [0..k -> X]
  <2>1. w = [i \in 0..k |-> w[i]]
    BY <1>6
  <2>2. ASSUME NEW i \in 1..k, w[i - 1] \in X PROVE w[i] \in X
    BY <1>2, <1>8, <2>2
  <2> QED
    BY <1>1, <1>8, <2>1, <2>2, Stays
<1>10. Says(w[0], data, w[k])
  <2>1. w \in [0..k -> Units(n)]
    BY <1>9 DEF X
  <2>2. ASSUME NEW i \in 1..k PROVE Says(w[i - 1], <<data[i]>>, w[i])
    <3>1. i - 1 \in 0..k
      BY <1>1
    <3>2. w[i - 1] \in X
      BY <1>9, <3>1
    <3> QED
      BY <1>2, <1>8, <3>2
  <2> QED
    BY <2>1, <2>2, SaysEach DEF k
<1> QED
  BY <1>1, <1>7, <1>8, <1>9, <1>10, SaysFrom DEF X

-----------------------------------------------------------------------------
(* What a burst puts on the wire: a unit that packs words the other way     *)
(* round sends each from its last byte.                                     *)
OnWire(data) ==
  [k \in 1..Len(data) |->
     LET q == IF ram_hardware = "swapped" THEN 4 * ((k - 1) \div 4) + (4 - ((k - 1) % 4)) ELSE k
     IN  IF q <= Len(data) THEN data[q] ELSE 0]

(* A burst sends as many bytes, and the same ones on a little endian unit.  *)
LEMMA OnWireBytes ==
  ASSUME R!SpiramAssumption, NEW data \in Seq(RamBytes)
  PROVE  /\ OnWire(data) \in Seq(RamBytes) /\ Len(OnWire(data)) = Len(data)
         /\ ram_hardware # "swapped" => OnWire(data) = data
<1> DEFINE q(k) == IF ram_hardware = "swapped" THEN 4 * ((k - 1) \div 4) + (4 - ((k - 1) % 4)) ELSE k
<1>1. Len(data) \in Nat /\ data \in [1..Len(data) -> RamBytes]
  BY LenProperties
<1>2. OnWire(data) = [k \in 1..Len(data) |-> IF q(k) <= Len(data) THEN data[q(k)] ELSE 0]
  BY DEF OnWire
<1>3. ASSUME NEW k \in 1..Len(data) PROVE (IF q(k) <= Len(data) THEN data[q(k)] ELSE 0) \in RamBytes
  <2>1. k - 1 \in Nat
    BY <1>1
  <2>2. (k - 1) \div 4 \in Nat /\ (k - 1) % 4 \in 0..3
    BY <2>1, Quarter
  <2>3. q(k) \in Nat /\ q(k) >= 1
    BY <1>1, <2>2
  <2> HIDE DEF q
  <2> QED
    BY <1>1, <2>3, Constants
<1>4. ASSUME ram_hardware # "swapped" PROVE OnWire(data) = data
  <2>1. ASSUME NEW k \in 1..Len(data) PROVE (IF q(k) <= Len(data) THEN data[q(k)] ELSE 0) = data[k]
    BY <1>1, <1>4
  <2> HIDE DEF q
  <2>2. data = [k \in 1..Len(data) |-> data[k]]
    BY <1>1
  <2> QED
    BY <1>2, <2>1, <2>2
<1> HIDE DEF q
<1>5. OnWire(data) \in [1..Len(data) -> RamBytes]
  BY <1>2, <1>3
<1>6. OnWire(data) \in Seq(RamBytes) /\ Len(OnWire(data)) = Len(data)
  BY <1>1, <1>5
<1> QED
  BY <1>4, <1>6

(* Packing leaves the unit as it is but for the words.                      *)
LEMMA LoadIs ==
  ASSUME R!SpiramAssumption, NEW n, NEW s \in Units(n), NEW data \in Seq(RamBytes)
  PROVE  LET u == R!spi_load_words(s, data)
         IN  /\ u \in Units(n) /\ Alike(s, u) /\ u.order = s.order /\ u.wire = s.wire /\ u.chip = s.chip
             /\ \A j \in 0..BurstMax \div 4 - 1, b \in 1..4 :
                  4 * j < Len(data) => u.w[j][b] = IF 4 * j + b <= Len(data) THEN data[4 * j + b] ELSE 0
<1> DEFINE Cut(j) == [b \in 1..4 |-> IF 4 * j + b <= Len(data) THEN data[4 * j + b] ELSE 0]
           w == [j \in 0..BurstMax \div 4 - 1 |-> IF 4 * j < Len(data) THEN Cut(j) ELSE s.w[j]]
           u == R!spi_load_words(s, data)
<1>1. Len(data) \in Nat /\ s.w \in [0..BurstMax \div 4 - 1 -> [1..4 -> RamBytes]]
  BY LenProperties DEF Units
<1>2. ASSUME NEW j \in 0..BurstMax \div 4 - 1 PROVE Cut(j) \in [1..4 -> RamBytes]
  <2>1. ASSUME NEW b \in 1..4 PROVE (IF 4 * j + b <= Len(data) THEN data[4 * j + b] ELSE 0) \in RamBytes
    <3>1. 4 * j + b \in Nat /\ 4 * j + b >= 1
      BY Constants
    <3> QED
      BY <1>1, <3>1, Constants
  <2> QED
    BY <2>1
<1>3. w \in [0..BurstMax \div 4 - 1 -> [1..4 -> RamBytes]]
  <2> HIDE DEF Cut
  <2> QED
    BY <1>1, <1>2
<1>4. u = [s EXCEPT !.w = w]
  <2>1. DOMAIN s.w = 0..BurstMax \div 4 - 1
    BY <1>1
  <2>2. u = [s EXCEPT !.w = [j \in DOMAIN s.w |-> IF 4 * j < Len(data) THEN Cut(j) ELSE s.w[j]]]
    BY Zenon DEF R!spi_load_words
  <2> HIDE DEF Cut, u
  <2> QED
    BY <2>1, <2>2
<1> HIDE DEF w, u
<1>5. u \in Units(n) /\ u.w = w /\ Alike(s, u) /\ u.order = s.order /\ u.wire = s.wire /\ u.chip = s.chip
  BY <1>3, <1>4 DEF Units, Alike
<1>6. ASSUME NEW j \in 0..BurstMax \div 4 - 1, NEW b \in 1..4, 4 * j < Len(data)
      PROVE  u.w[j][b] = IF 4 * j + b <= Len(data) THEN data[4 * j + b] ELSE 0
  <2>1. u.w[j] = Cut(j)
    BY <1>5, <1>6 DEF w
  <2> QED
    BY <2>1
<1> QED
  BY <1>5, <1>6 DEF u

(* A loaded unit sends what it was loaded with.                             *)
LEMMA LoadedSays ==
  ASSUME R!SpiramAssumption, NEW n, NEW s \in Units(n), NEW data \in Seq(RamBytes), Len(data) \in 1..BurstMax,
         s.mosi = Len(data), s.order = TRUE,
         NEW off, NEW on, NEW p \in SUBSET PhaseNames, p = (s.phases \ off) \cup on,
         "mosi" \in p, "miso" \notin p, "command" \in p <=> "addr" \in p
  PROVE  LET t == R!Burst(R!spi_load_words(s, data), off, on)
         IN  /\ t \in Units(n)
             /\ Says(s, (IF "command" \in p THEN <<s.cmd>> \o s.addr ELSE <<>>) \o OnWire(data), t)
<1> DEFINE h == IF "command" \in p THEN <<s.cmd>> \o s.addr ELSE <<>>
           u == R!spi_load_words(s, data)
           r == [u EXCEPT !.order = FALSE, !.phases = (@ \ off) \cup on]
           o == R!Transaction(r)
           t == R!Burst(u, off, on)
<1>1. /\ u \in Units(n) /\ Alike(s, u) /\ u.order = s.order /\ u.wire = s.wire /\ u.chip = s.chip
      /\ \A j \in 0..BurstMax \div 4 - 1, b \in 1..4 :
           4 * j < Len(data) => u.w[j][b] = IF 4 * j + b <= Len(data) THEN data[4 * j + b] ELSE 0
  BY LoadIs
<1>2. t = [o EXCEPT !.order = u.order]
  BY Zenon DEF R!Burst
<1> HIDE DEF u, t
<1>3. /\ r \in Units(n) /\ r.order = FALSE /\ r.phases = p /\ r.mosi = s.mosi /\ r.cmd = s.cmd /\ r.addr = s.addr
      /\ r.w = u.w /\ r.wire = s.wire /\ r.chip = s.chip
  BY <1>1 DEF Units, Alike
<1> HIDE DEF r
<1>4. Outgoing(r) = OnWire(data)
  <2>1. Len(data) \in Nat
    BY LenProperties
  <2>2. ASSUME NEW k \in 1..Len(data)
        PROVE  r.w[(k - 1) \div 4][R!Place(r, k - 1)]
                 = LET q == IF ram_hardware = "swapped" THEN 4 * ((k - 1) \div 4) + (4 - ((k - 1) % 4)) ELSE k
                   IN  IF q <= Len(data) THEN data[q] ELSE 0
    <3>1. k - 1 \in Nat /\ k - 1 < BurstMax
      BY <2>1, Constants
    <3>2. PICK j \in Nat, b \in 0..3 : /\ j = (k - 1) \div 4 /\ b = (k - 1) % 4 /\ k - 1 = 4 * j + b
                                       /\ j \in 0..BurstMax \div 4 - 1
      BY <3>1, Quarter
    <3>3. 4 * j < Len(data)
      BY <2>1, <3>2
    <3>4. R!Place(r, k - 1) = IF ram_hardware = "swapped" THEN 4 - b ELSE 1 + b
      BY <1>3, <3>2 DEF R!Place, R!Turned
    <3>5. CASE ram_hardware = "swapped"
      <4>1. PICK c \in 1..4 : c = 4 - b
        OBVIOUS
      <4>2. r.w[j][c] = IF 4 * j + c <= Len(data) THEN data[4 * j + c] ELSE 0
        BY <1>1, <1>3, <3>2, <3>3
      <4> QED
        BY <3>2, <3>4, <3>5, <4>1, <4>2
    <3>6. CASE ram_hardware # "swapped"
      <4>1. PICK c \in 1..4 : c = 1 + b
        OBVIOUS
      <4>2. r.w[j][c] = IF 4 * j + c <= Len(data) THEN data[4 * j + c] ELSE 0
        BY <1>1, <1>3, <3>2, <3>3
      <4>3. k - 1 = 4 * j + b
        BY <3>2, Zenon
      <4>4. 4 * j + c = k
        BY <4>1, <4>3
      <4> QED
        BY <3>2, <3>4, <3>6, <4>1, <4>2, <4>4
    <3> QED
      BY <3>5, <3>6
  <2>3. Outgoing(r) = [k \in 1..Len(data) |-> r.w[(k - 1) \div 4][R!Place(r, k - 1)]]
    BY <1>3 DEF Outgoing
  <2> QED
    BY <2>2, <2>3, Zenon DEF OnWire
<1>5. o \in Units(n) /\ Says(r, h \o Outgoing(r), o)
  <2>1. r.mosi <= BurstMax
    BY <1>3
  <2> QED
    BY <1>3, <2>1, Sends
<1> HIDE DEF o
<1>6. t \in Units(n) /\ t.wire = o.wire /\ t.chip = o.chip /\ t.order = s.order
  BY <1>1, <1>2, <1>5 DEF Units
<1>7. Says(s, h \o OnWire(data), t)
  BY <1>3, <1>4, <1>5, <1>6 DEF Says
<1> QED
  BY <1>6, <1>7 DEF t, u

(* A burst sends its bytes and puts the byte order bits back.               *)
LEMMA BurstSays ==
  ASSUME R!SpiramAssumption, NEW n, NEW s \in Units(n), s.order = TRUE,
         NEW data \in Seq(RamBytes), Len(data) \in 1..BurstMax
  PROVE  R!spi_burst_out(s, data) \in Units(n) /\ Says(s, OnWire(data), R!spi_burst_out(s, data))
<1> DEFINE r == [s EXCEPT !.mosi = Len(data)]
           off == {"command", "addr", "dummy", "miso"}
           t == R!spi_burst_out(s, data)
<1>1. /\ r \in Units(n) /\ r.mosi = Len(data) /\ r.order = TRUE /\ r.wire = s.wire /\ r.chip = s.chip
      /\ r.phases = s.phases
  BY LenProperties DEF Units
<1>2. (r.phases \ off) \cup {"mosi"} = {"mosi"}
  BY <1>1 DEF Units, PhaseNames
<1>3. t = R!Burst(R!spi_load_words(r, data), off, {"mosi"})
  BY DEF R!spi_burst_out
<1> HIDE DEF r, off, t
<1>4. t \in Units(n) /\ Says(r, <<>> \o OnWire(data), t)
  <2>1. {"mosi"} \in SUBSET PhaseNames /\ "command" \notin {"mosi"} /\ "addr" \notin {"mosi"} /\ "miso" \notin {"mosi"}
    BY DEF PhaseNames
  <2> QED
    BY <1>1, <1>2, <1>3, <2>1, LoadedSays
<1>5. <<>> \o OnWire(data) = OnWire(data)
  BY OnWireBytes, ConcatEmptySeq
<1> QED
  BY <1>1, <1>4, <1>5, SaysFrom DEF t

-----------------------------------------------------------------------------
(* The pieces of a transfer follow each other, and none is empty or longer  *)
(* than a burst.                                                            *)
LEMMA Divided ==
  ASSUME NEW a \in Nat, NEW b \in Nat, b > 0
  PROVE  \E q \in Nat, r \in 0..b - 1 : q = a \div b /\ a = q * b + r
BY DivThere

(* Pieces follow one another to the end of the data, none empty and none    *)
(* longer than a burst.                                                     *)
LEMMA InPieces ==
  ASSUME R!SpiramAssumption, NEW n \in Nat
  PROVE  /\ R!Pieces(n) \in Nat
         /\ \A i \in 0..R!Pieces(n) : R!Done(i, n) \in 0..n
         /\ R!Done(0, n) = 0 /\ R!Done(R!Pieces(n), n) = n
         /\ \A i \in 1..R!Pieces(n) : R!Done(i - 1, n) < R!Done(i, n) /\ R!Done(i, n) - R!Done(i - 1, n) \in 1..BurstMax
         /\ n <= BurstMax => \A i \in 1..R!Pieces(n) : R!Done(i - 1, n) = 0 /\ R!Done(i, n) = n
<1>1. PICK b \in Nat : b = BurstMax /\ b >= 8
  BY Constants
<1>2. n + b - 1 \in Nat
  BY <1>1
<1>3. PICK p \in Nat, r \in 0..b - 1 : p = (n + b - 1) \div b /\ n + b - 1 = p * b + r
  BY <1>1, <1>2, Divided
<1>4. R!Pieces(n) = p
  BY <1>1, <1>3 DEF R!Pieces
<1>5. PICK e \in Nat : e = p * b
  BY <1>1
<1>6. n <= e /\ e - b < n
  BY <1>1, <1>3, <1>5
<1>7. ASSUME NEW i \in 0..p PROVE R!Done(i, n) \in 0..n
  <2>1. PICK f \in Nat : f = i * b
    BY <1>1
  <2> QED
    BY <1>1, <2>1 DEF R!Done
<1>8. R!Done(0, n) = 0 /\ R!Done(p, n) = n
  BY <1>1, <1>5, <1>6 DEF R!Done
<1>9. ASSUME NEW i \in 1..p
      PROVE  /\ R!Done(i - 1, n) < R!Done(i, n) /\ R!Done(i, n) - R!Done(i - 1, n) \in 1..BurstMax
             /\ n <= BurstMax => R!Done(i - 1, n) = 0 /\ R!Done(i, n) = n
  <2>1. PICK f \in Nat, g \in Nat : f = i * b /\ g = (i - 1) * b
    BY <1>1
  <2>2. f = g + b
    BY <1>1, <2>1
  <2>3. i * b <= p * b
    BY <1>1, ProductsOrdered
  <2>4. g < n
    BY <1>1, <1>5, <1>6, <2>1, <2>2, <2>3
  <2>5. R!Done(i - 1, n) = g
    BY <1>1, <2>1, <2>4 DEF R!Done
  <2>6. R!Done(i, n) = IF f < n THEN f ELSE n
    BY <1>1, <2>1 DEF R!Done
  <2>7. n <= b => g = 0
    <3>1. CASE i = 1
      BY <1>1, <2>1, <3>1
    <3>2. CASE i # 1
      <4>1. 1 * b <= (i - 1) * b
        BY <1>1, <3>2, ProductsOrdered
      <4> QED
        BY <1>1, <2>1, <2>4, <4>1
    <3> QED
      BY <3>1, <3>2
  <2> QED
    BY <1>1, <2>1, <2>2, <2>4, <2>5, <2>6, <2>7
<1> QED
  BY <1>4, <1>7, <1>8, <1>9

(* A piece of the data.                                                     *)
LEMMA PieceIs ==
  ASSUME R!SpiramAssumption, NEW data \in Seq(RamBytes), NEW i \in 1..R!Pieces(Len(data))
  PROVE  /\ R!Piece(data, i) \in Seq(RamBytes)
         /\ Len(R!Piece(data, i)) = R!Done(i, Len(data)) - R!Done(i - 1, Len(data))
         /\ Len(R!Piece(data, i)) \in 1..BurstMax
         /\ \A k \in 1..Len(R!Piece(data, i)) : R!Piece(data, i)[k] = data[R!Done(i - 1, Len(data)) + k]
         /\ Len(data) <= BurstMax => R!Piece(data, i) = data
<1>1. Len(data) \in Nat
  BY LenProperties
<1>2. R!Pieces(Len(data)) \in Nat
  BY <1>1, InPieces
<1>3. i - 1 \in 0..R!Pieces(Len(data)) /\ i \in 0..R!Pieces(Len(data))
  BY <1>2
<1>4. PICK m \in 0..Len(data), l \in 0..Len(data) : m = R!Done(i - 1, Len(data)) /\ l = R!Done(i, Len(data))
  BY <1>1, <1>3, InPieces
<1>5. m < l /\ l - m \in 1..BurstMax /\ (Len(data) <= BurstMax => m = 0 /\ l = Len(data))
  BY <1>1, <1>4, InPieces
<1>6. m \in 0..l
  BY <1>1, <1>4, <1>5
<1>7. R!Piece(data, i) = SubSeq(data, m + 1, l)
  BY <1>4 DEF R!Piece
<1>8. /\ R!Piece(data, i) \in Seq(RamBytes) /\ Len(R!Piece(data, i)) = l - m
      /\ \A k \in 1..l - m : R!Piece(data, i)[k] = data[m + k]
  BY <1>6, <1>7, Excerpt
<1>9. ASSUME Len(data) <= BurstMax PROVE R!Piece(data, i) = data
  <2>1. m = 0 /\ l = Len(data) /\ m + 1 = 1
    BY <1>5, <1>9
  <2> QED
    BY <1>7, <2>1, SubSeqFull
<1> QED
  BY <1>4, <1>5, <1>8, <1>9

(* spi_write_buf sends its data piece by piece.                             *)
LEMMA WriteBufSays ==
  ASSUME R!SpiramAssumption, NEW n, NEW s \in Units(n), s.order = TRUE, NEW data \in Seq(RamBytes),
         ram_spi_burst_enabled => ram_hardware # "swapped"
  PROVE  R!spi_write_buf(s, data) \in Units(n) /\ Says(s, data, R!spi_write_buf(s, data))
<1>0. CASE ~ram_spi_burst_enabled
  BY <1>0, BytewiseSays DEF R!spi_write_buf
<1> SUFFICES ASSUME ram_spi_burst_enabled
             PROVE  R!spi_write_buf(s, data) \in Units(n) /\ Says(s, data, R!spi_write_buf(s, data))
  BY <1>0
<1> DEFINE k == R!Pieces(Len(data))
           X == {u \in Units(n) : u.order = TRUE}
           F == [i \in 1..k |-> [u \in X |-> R!spi_burst_out(u, R!Piece(data, i))]]
<1>1. k \in Nat /\ s \in X /\ Len(data) \in Nat
  BY InPieces, LenProperties
<1>2. ASSUME NEW u \in X, NEW i \in 1..k
      PROVE  /\ R!spi_burst_out(u, R!Piece(data, i)) \in X
             /\ Says(u, R!Piece(data, i), R!spi_burst_out(u, R!Piece(data, i)))
  <2>1. u \in Units(n) /\ u.order = TRUE /\ R!Piece(data, i) \in Seq(RamBytes) /\ Len(R!Piece(data, i)) \in 1..BurstMax
    BY PieceIs
  <2>2. OnWire(R!Piece(data, i)) = R!Piece(data, i)
    BY <2>1, OnWireBytes
  <2>3. /\ R!spi_burst_out(u, R!Piece(data, i)) \in Units(n)
        /\ Says(u, R!Piece(data, i), R!spi_burst_out(u, R!Piece(data, i)))
    BY <2>1, <2>2, BurstSays
  <2> QED
    BY <2>1, <2>3 DEF Says
<1> HIDE DEF k, X
<1>3. F \in [1..k -> [X -> X]]
  BY <1>2
<1>4. PICK m \in [0..k -> X] : IsRun(m, F, s, k)
  BY <1>1, <1>3, Made
<1> DEFINE IsMade(f) == f = [i \in 0..k |-> IF i = 0 THEN s ELSE R!spi_burst_out(f[i - 1], R!Piece(data, i))]
           w == CHOOSE f : IsMade(f)
<1>5. IsMade(m)
  <2>1. ASSUME NEW i \in 0..k PROVE m[i] = IF i = 0 THEN s ELSE R!spi_burst_out(m[i - 1], R!Piece(data, i))
    <3> SUFFICES ASSUME i # 0 PROVE m[i] = R!spi_burst_out(m[i - 1], R!Piece(data, i))
      BY <1>4 DEF IsRun
    <3>1. i \in 1..k /\ i - 1 \in 0..k
      BY <1>1
    <3>2. m[i - 1] \in X
      BY <3>1
    <3> QED
      BY <1>4, <3>1, <3>2 DEF F, IsRun
  <2>2. m = [i \in 0..k |-> m[i]]
    OBVIOUS
  <2> QED
    BY <2>1, <2>2, Zenon
<1>6. IsMade(w)
  BY <1>5, Zenon
<1>7. R!spi_write_buf(s, data) = w[k]
  BY Zenon DEF R!spi_write_buf, R!Rounds, k
<1> HIDE DEF w, F
<1>8. w[0] = s /\ \A i \in 1..k : w[i] = R!spi_burst_out(w[i - 1], R!Piece(data, i))
  <2>1. ASSUME NEW i \in 0..k PROVE w[i] = IF i = 0 THEN s ELSE R!spi_burst_out(w[i - 1], R!Piece(data, i))
    BY <1>6
  <2>2. 0 \in 0..k /\ \A i \in 1..k : i \in 0..k /\ i # 0
    BY <1>1
  <2> QED
    BY <2>1, <2>2
<1>9. w \in [0..k -> X]
  <2>1. w = [i \in 0..k |-> w[i]]
    BY <1>6
  <2>2. ASSUME NEW i \in 1..k, w[i - 1] \in X PROVE w[i] \in X
    BY <1>2, <1>8, <2>2
  <2> QED
    BY <1>1, <1>8, <2>1, <2>2, Stays
<1> DEFINE end == [i \in 0..k |-> R!Done(i, Len(data))]
<1>10. w \in [0..k -> Units(n)]
  BY <1>9 DEF X
<1>11. end \in [0..k -> 0..Len(data)] /\ end[0] = 0 /\ end[k] = Len(data)
  BY <1>1, InPieces DEF k
<1>12. ASSUME NEW i \in 1..k
       PROVE  end[i - 1] <= end[i] /\ Says(w[i - 1], SubSeq(data, end[i - 1] + 1, end[i]), w[i])
  <2>1. i - 1 \in 0..k /\ i \in 0..k
    BY <1>1
  <2>2. end[i - 1] = R!Done(i - 1, Len(data)) /\ end[i] = R!Done(i, Len(data)) /\ end[i - 1] \in Nat /\ end[i] \in Nat
    BY <1>1, <1>11, <2>1
  <2>3. end[i - 1] < end[i]
    BY <1>1, <2>2, InPieces DEF k
  <2>4. SubSeq(data, end[i - 1] + 1, end[i]) = R!Piece(data, i)
    BY <2>2 DEF R!Piece
  <2>5. w[i - 1] \in X
    BY <1>9, <2>1
  <2>6. Says(w[i - 1], R!Piece(data, i), w[i])
    BY <1>2, <1>8, <2>5
  <2> HIDE DEF end
  <2>7. end[i - 1] <= end[i]
    BY <2>2, <2>3
  <2> QED
    BY <2>4, <2>6, <2>7, Zenon
<1> HIDE DEF end
<1>13. Says(w[0], data, w[k])
  BY <1>1, <1>10, <1>11, <1>12, SaysAll
<1> QED
  BY <1>1, <1>7, <1>8, <1>10, <1>13

-----------------------------------------------------------------------------
(* An address has three bytes.                                              *)
LEMMA AddressIs ==
  ASSUME R!SpiramAssumption, NEW a \in Nat
  PROVE  /\ R!BytesOf(a) \in Seq(RamBytes) /\ Len(R!BytesOf(a)) = 3
         /\ a < Base * Base * Base =>
              Base * Base * R!BytesOf(a)[1] + Base * R!BytesOf(a)[2] + R!BytesOf(a)[3] = a
<1>1. PICK b \in Nat : b = Base /\ b >= 4
  BY Constants
<1>2. PICK q \in Nat, r \in 0..b - 1 : q = a \div b /\ a = q * b + r
  BY <1>1, Divided
<1>3. PICK p \in Nat, t \in 0..b - 1 : p = q \div b /\ q = p * b + t
  BY <1>1, Divided
<1>4. a % b = r /\ q % b = t
  BY <1>1, <1>2, <1>3, DivIs
<1>5. a \div (b * b) = p
  <2>1. PICK c \in Nat, e \in Nat : c = b * b /\ e = t * b + r
    BY <1>1
  <2>2. e < c
    <3>1. (t + 1) * b <= b * b
      BY <1>1, ProductsOrdered
    <3>2. (t + 1) * b = t * b + b
      BY <1>1
    <3>3. PICK x \in Nat : x = t * b
      BY <1>1
    <3> QED
      BY <2>1, <3>1, <3>2, <3>3
  <2>3. a = p * c + e
    <3>1. (p * b + t) * b = p * (b * b) + t * b
      BY <1>1
    <3>2. (p * b + t) * b = p * c + t * b
      BY <2>1, <3>1
    <3>3. a = (p * b + t) * b + r
      BY <1>2, <1>3
    <3>4. PICK x \in Nat, y \in Nat : x = p * c /\ y = t * b
      BY <1>1
    <3> QED
      BY <2>1, <3>2, <3>3, <3>4
  <2>4. (p * c + e) \div c = p
    BY <2>1, <2>2, DivIs
  <2> QED
    BY <2>1, <2>3, <2>4
<1>6. R!BytesOf(a) = <<p % b, t, r>>
  BY <1>1, <1>2, <1>4, <1>5 DEF R!BytesOf
<1>7. p % b \in 0..b - 1
  BY <1>1
<1>8. R!BytesOf(a) \in Seq(RamBytes) /\ Len(R!BytesOf(a)) = 3
  BY <1>1, <1>6, <1>7 DEF RamBytes
<1>9. ASSUME a < b * b * b
      PROVE  b * b * R!BytesOf(a)[1] + b * R!BytesOf(a)[2] + R!BytesOf(a)[3] = a
  <2>1. p < b
    <3> SUFFICES ASSUME b <= p PROVE FALSE
      BY <1>1
    <3>0. b <= p
      OBVIOUS
    <3>1. PICK c \in Nat : c = b * b
      BY <1>1
    <3>2. b * c <= p * c
      BY <1>1, <3>0, ProductsOrdered
    <3>3. a = p * c + t * b + r
      <4>1. (p * b + t) * b = p * (b * b) + t * b
        BY <1>1
      <4> QED
        BY <1>2, <1>3, <3>1, <4>1
    <3>4. PICK x \in Nat, y \in Nat, z \in Nat : x = p * c /\ y = t * b /\ z = b * c
      BY <1>1
    <3>5. b * b * b = b * c
      BY <1>1, <3>1
    <3> QED
      BY <1>9, <3>2, <3>3, <3>4, <3>5
  <2>2. p % b = p
    BY <1>1, <2>1
  <2>3. R!BytesOf(a)[1] = p /\ R!BytesOf(a)[2] = t /\ R!BytesOf(a)[3] = r
    BY <1>6, <2>2
  <2>4. (p * b + t) * b + r = b * b * p + b * t + r
    BY <1>1
  <2> QED
    BY <1>2, <1>3, <2>3, <2>4
<1> QED
  BY <1>1, <1>8, <1>9

(* What the chip is asked before the data.                                  *)
Asked(cmd, a) == <<cmd>> \o R!BytesOf(a)

(* A command and the three bytes of an address, which they determine.       *)
LEMMA AskedIs ==
  ASSUME R!SpiramAssumption, NEW cmd \in RamBytes, NEW a \in Nat
  PROVE  /\ Asked(cmd, a) \in Seq(RamBytes) /\ Len(Asked(cmd, a)) = 4 /\ Asked(cmd, a)[1] = cmd
         /\ a < Base * Base * Base =>
              Base * Base * Asked(cmd, a)[2] + Base * Asked(cmd, a)[3] + Asked(cmd, a)[4] = a
<1> DEFINE h == <<cmd>>
           b == R!BytesOf(a)
<1>1. h \in Seq(RamBytes) /\ Len(h) = 1 /\ h[1] = cmd /\ b \in Seq(RamBytes) /\ Len(b) = 3
  BY AddressIs
<1>2. Asked(cmd, a) = h \o b
  BY DEF Asked
<1> HIDE DEF h, b
<1>3. /\ h \o b \in Seq(RamBytes) /\ Len(h \o b) = Len(h) + Len(b)
      /\ \A i \in 1..Len(h) : (h \o b)[i] = h[i]
      /\ \A i \in 1..Len(b) : (h \o b)[Len(h) + i] = b[i]
  <2>1. h \in Seq(RamBytes) /\ b \in Seq(RamBytes)
    BY <1>1
  <2> QED
    BY <2>1, Joined
<1>4. Asked(cmd, a)[1] = cmd /\ Asked(cmd, a)[2] = b[1] /\ Asked(cmd, a)[3] = b[2] /\ Asked(cmd, a)[4] = b[3]
  <2>1. 1 \in 1..Len(h) /\ 1 \in 1..Len(b) /\ 2 \in 1..Len(b) /\ 3 \in 1..Len(b)
    BY <1>1
  <2>2. Len(h) + 1 = 2 /\ Len(h) + 2 = 3 /\ Len(h) + 3 = 4
    BY <1>1
  <2>3. (h \o b)[1] = h[1] /\ (h \o b)[Len(h) + 1] = b[1] /\ (h \o b)[Len(h) + 2] = b[2] /\ (h \o b)[Len(h) + 3] = b[3]
    BY <1>3, <2>1
  <2> QED
    BY <1>1, <1>2, <2>2, <2>3
<1>5. a < Base * Base * Base => Base * Base * b[1] + Base * b[2] + b[3] = a
  BY AddressIs DEF b
<1>6. Len(Asked(cmd, a)) = 4
  BY <1>1, <1>2, <1>3
<1> QED
  BY <1>2, <1>3, <1>4, <1>5, <1>6

(* What is meant goes out, in a burst or byte by byte.                      *)
Wire(data, burst) == IF burst THEN OnWire(data) ELSE data

LEMMA WireBytes ==
  ASSUME R!SpiramAssumption, NEW data \in Seq(RamBytes), NEW burst \in BOOLEAN
  PROVE  Wire(data, burst) \in Seq(RamBytes) /\ Len(Wire(data, burst)) = Len(data)
BY OnWireBytes DEF Wire

(* spi_cmd_write sends a command, an address and data, in a burst or not.   *)
LEMMA CmdWriteSays ==
  ASSUME R!SpiramAssumption, NEW n, NEW s \in Units(n), s.order = TRUE, NEW cmd \in RamBytes, NEW a \in Nat,
         NEW data \in Seq(RamBytes), Len(data) \in 1..BurstMax, NEW burst \in BOOLEAN
  PROVE  LET t == R!spi_cmd_write(s, cmd, a, data, burst)
         IN  t \in Units(n) /\ Says(s, Asked(cmd, a) \o Wire(data, burst), t)
<1> DEFINE t == R!spi_cmd_write(s, cmd, a, data, burst)
<1>1. Asked(cmd, a) \in Seq(RamBytes) /\ R!BytesOf(a) \in Seq(RamBytes)
  BY AskedIs, AddressIs
<1>2. CASE ~burst
  <2> DEFINE u == R!spi_bytewise_cmd(s, cmd, R!BytesOf(a))
  <2>1. u \in Units(n) /\ Says(s, Asked(cmd, a), u)
    BY <1>1, BytewiseSays DEF R!spi_bytewise_cmd, Asked
  <2>2. t = R!spi_bytewise_out(u, data)
    BY <1>2 DEF R!spi_cmd_write
  <2> HIDE DEF u, t
  <2>3. u.order = TRUE
    BY <2>1 DEF Says
  <2>4. t \in Units(n) /\ Says(u, data, t)
    BY <2>1, <2>2, <2>3, BytewiseSays
  <2>5. Says(s, Asked(cmd, a) \o data, t)
    BY <1>1, <2>1, <2>4, SaysOn
  <2> QED
    BY <1>2, <2>4, <2>5 DEF Wire, t
<1>3. CASE burst
  <2> DEFINE r == [s EXCEPT !.mosi = Len(data), !.cmd = cmd, !.addr = R!BytesOf(a)]
             off == {"dummy", "miso"}
             on == {"command", "addr", "mosi"}
             p == (s.phases \ off) \cup on
  <2>1. t = R!Burst(R!spi_load_words(r, data), off, on)
    BY <1>3 DEF R!spi_cmd_write
  <2>2. /\ r \in Units(n) /\ r.mosi = Len(data) /\ r.order = TRUE /\ r.wire = s.wire /\ r.chip = s.chip
        /\ r.phases = s.phases /\ r.cmd = cmd /\ r.addr = R!BytesOf(a)
    BY <1>1, LenProperties DEF Units
  <2>3. p \in SUBSET PhaseNames /\ "mosi" \in p /\ "miso" \notin p /\ "command" \in p /\ "addr" \in p
    BY DEF Units, PhaseNames
  <2> HIDE DEF r, t
  <2>4. p = (r.phases \ off) \cup on
    BY <2>2
  <2> HIDE DEF p, off, on
  <2>5. t \in Units(n) /\ Says(r, (IF "command" \in p THEN <<r.cmd>> \o r.addr ELSE <<>>) \o OnWire(data), t)
    BY <2>1, <2>2, <2>3, <2>4, LoadedSays
  <2>6. Says(r, Asked(cmd, a) \o OnWire(data), t)
    BY <2>2, <2>3, <2>5 DEF Asked
  <2>7. Says(s, Asked(cmd, a) \o OnWire(data), t)
    BY <2>2, <2>6, SaysFrom
  <2> QED
    BY <1>3, <2>5, <2>7 DEF Wire, t
<1> QED
  BY <1>2, <1>3

(* A chip that is selected has been told nothing.                           *)
LEMMA SelectIs ==
  ASSUME R!SpiramAssumption, NEW n, NEW s \in Units(n)
  PROVE  LET t == R!ChipSelect(s)
         IN  /\ t \in Units(n) /\ t.order = s.order /\ t.wire = s.wire /\ t.chip.size = n /\ t.chip.mem = s.chip.mem
             /\ t.chip.selected = TRUE /\ t.chip.told = <<>>
<1> DEFINE c == [s.chip EXCEPT !.selected = TRUE, !.told = <<>>]
<1>0. s.chip \in Chips(n) /\ <<>> \in Seq(RamBytes)
  BY DEF Units
<1>1. c \in Chips(n) /\ c.size = n /\ c.mem = s.chip.mem /\ c.selected = TRUE /\ c.told = <<>>
  BY <1>0 DEF Chips
<1>2. R!ChipSelect(s) = [s EXCEPT !.chip = c]
  BY DEF R!ChipSelect, Units, Chips
<1> HIDE DEF c
<1> QED
  BY <1>1, <1>2 DEF Units

(* What a memory holds with new data in it, and what is in it.              *)
Over(mem, c, out) ==
  [x \in DOMAIN mem |-> IF x - c \in 0..Len(out) - 1 THEN out[x - c + 1] ELSE mem[x]]
Found(mem, c, m) == [k \in 1..m |-> mem[c + k - 1]]

(* A chip of n bytes has been told a command, an address and out; byte k of  *)
(* it is in the place c + k of the chip, up to the end.                     *)
HasTold(chip, n, cmd, a, out) == chip.size = n /\ chip.told = Asked(cmd, a) \o out
StartsAt(chip, n, c) == \A k \in 0..n - c - 1 : R!Cell(chip, k) = c + k

(* From its address on, a chip is written and read place after place.       *)
LEMMA CellNumber ==
  ASSUME R!SpiramAssumption, NEW n \in Nat, n > 0, NEW chip, NEW cmd \in RamBytes, NEW a \in Nat,
         a < Base * Base * Base, NEW out \in Seq(RamBytes), HasTold(chip, n, cmd, a, out), NEW c, c = a % n
  PROVE  StartsAt(chip, n, c)
<1> USE DEF HasTold
<1> SUFFICES ASSUME NEW k \in 0..n - c - 1 PROVE R!Cell(chip, k) = c + k
  BY DEF StartsAt
<1>0. c \in 0..n - 1 /\ k \in Nat /\ c + k < n
  OBVIOUS
<1>1. Asked(cmd, a) \in Seq(RamBytes) /\ Len(Asked(cmd, a)) = 4
  BY AskedIs
<1>2. chip.told[2] = Asked(cmd, a)[2] /\ chip.told[3] = Asked(cmd, a)[3] /\ chip.told[4] = Asked(cmd, a)[4]
  <2>1. \A i \in 1..Len(Asked(cmd, a)) : (Asked(cmd, a) \o out)[i] = Asked(cmd, a)[i]
    BY <1>1, Joined, Zenon
  <2>2. 2 \in 1..Len(Asked(cmd, a)) /\ 3 \in 1..Len(Asked(cmd, a)) /\ 4 \in 1..Len(Asked(cmd, a))
    BY <1>1
  <2> DEFINE h == Asked(cmd, a)
             told == chip.told
  <2>3. told = h \o out /\ \A i \in 1..Len(h) : (h \o out)[i] = h[i]
    BY <2>1, Zenon
  <2>4. 2 \in 1..Len(h) /\ 3 \in 1..Len(h) /\ 4 \in 1..Len(h)
    BY <2>2, Zenon
  <2> HIDE DEF h, told
  <2>5. told[2] = h[2] /\ told[3] = h[3] /\ told[4] = h[4]
    BY <2>3, <2>4
  <2> QED
    BY <2>5, Zenon DEF h, told
<1>3. R!Cell(chip, k) = (a + k) % n
  BY <1>0, <1>2, AskedIs DEF R!Cell
<1>4. PICK q \in Nat : a = q * n + c
  <2>1. a \div n \in Nat /\ a % n \in 0..n - 1 /\ a = (a \div n) * n + (a % n)
    BY DivThere
  <2> QED
    BY <2>1, Zenon
<1>5. a + k = q * n + (c + k)
  <2>1. PICK x \in Nat : x = q * n
    OBVIOUS
  <2> QED
    BY <1>0, <1>4, <2>1
<1>6. c + k \in 0..n - 1
  BY <1>0
<1>7. (q * n + (c + k)) % n = c + k
  BY <1>0, <1>6, DivIs
<1> QED
  BY <1>3, <1>4, <1>5, <1>7

(* Max of a set with a largest number is that number.                       *)
LEMMA Largest ==
  ASSUME NEW k \in Int
  PROVE  R!Max({k}) = k
BY DEF R!Max

(* What is written is over what was there.                                  *)
LEMMA KeptIs ==
  ASSUME R!SpiramAssumption, NEW n \in Nat, n > 0, NEW chip \in Chips(n), NEW a \in Nat,
         a < Base * Base * Base, NEW out \in Seq(RamBytes), chip.told = Asked(2, a) \o out, (a % n) + Len(out) <= n
  PROVE  R!Kept(chip) = Over(chip.mem, a % n, out)
<1>01. HasTold(chip, n, 2, a, out) /\ 2 \in RamBytes
  BY Constants DEF Chips, HasTold
<1>02. StartsAt(chip, n, a % n)
  BY <1>01, CellNumber, Zenon
<1> DEFINE h == Asked(2, a)
           here(x) == {k \in 0..Len(chip.told) - 5 : R!Cell(chip, k) = x}
<1>1. h \in Seq(RamBytes) /\ Len(h) = 4 /\ h[1] = 2 /\ 2 \in RamBytes
  BY AskedIs, Constants
<1>2. chip.size = n /\ Len(out) \in Nat /\ chip.told = h \o out /\ DOMAIN chip.mem = 0..n - 1
  BY LenProperties DEF Chips
<1>3. /\ Len(chip.told) = 4 + Len(out) /\ chip.told[1] = 2
      /\ \A i \in 1..Len(out) : chip.told[4 + i] = out[i]
  <2>1. /\ Len(h \o out) = Len(h) + Len(out)
        /\ \A i \in 1..Len(h) : (h \o out)[i] = h[i]
        /\ \A i \in 1..Len(out) : (h \o out)[Len(h) + i] = out[i]
    <3> HIDE DEF h
    <3>1. h \in Seq(RamBytes) /\ out \in Seq(RamBytes)
      BY <1>1
    <3> QED
      BY <3>1, Joined
  <2>2. 1 \in 1..Len(h)
    BY <1>1
  <2> HIDE DEF h
  <2> QED
    BY <1>1, <1>2, <2>1, <2>2
<1>4. PICK c \in 0..n - 1 : c = a % n
  OBVIOUS
<1>5. PICK l \in Nat : l = Len(out)
  BY <1>2
<1>51. Len(chip.told) - 5 = l - 1
  BY <1>3, <1>5
<1>52. ASSUME NEW k \in 0..l - 1 PROVE R!Cell(chip, k) = c + k
  <2>1. \A i \in 0..n - c - 1 : R!Cell(chip, i) = c + i
    BY <1>4, <1>02 DEF StartsAt
  <2> QED
    BY <1>4, <1>5, <2>1
<1>53. ASSUME NEW x \in 0..n - 1 PROVE here(x) = {k \in 0..l - 1 : c + k = x}
  BY <1>51, <1>52
<1>6. ASSUME NEW x \in 0..n - 1
      PROVE  (IF here(x) = {} THEN chip.mem[x] ELSE chip.told[5 + R!Max(here(x))])
               = IF x - c \in 0..Len(out) - 1 THEN out[x - c + 1] ELSE chip.mem[x]
  <2>1. CASE x - c \in 0..Len(out) - 1
    <3>1. PICK k \in 0..l - 1 : k = x - c /\ 4 + (k + 1) = 5 + k /\ k + 1 \in 1..Len(out)
      BY <1>5, <2>1
    <3> HIDE DEF here
    <3>2. here(x) = {k}
      BY <1>4, <1>53, <3>1
    <3>3. R!Max(here(x)) = k
      BY <3>1, <3>2, Largest
    <3>4. chip.told[5 + k] = out[k + 1]
      BY <1>3, <3>1
    <3> QED
      BY <2>1, <3>1, <3>2, <3>3, <3>4
  <2>2. CASE x - c \notin 0..Len(out) - 1
    <3> HIDE DEF here
    <3>1. here(x) = {}
      BY <1>4, <1>5, <1>53, <2>2
    <3> QED
      BY <2>2, <3>1
  <2> QED
    BY <2>1, <2>2
<1>7. R!Kept(chip) = [x \in 0..n - 1 |-> IF here(x) = {} THEN chip.mem[x] ELSE chip.told[5 + R!Max(here(x))]]
  <2>1. ~(chip.size = 0 \/ Len(chip.told) < 4 \/ chip.told[1] # 2)
    BY <1>2, <1>3
  <2> HIDE DEF here
  <2> QED
    BY <1>2, <2>1, Zenon DEF R!Kept, here
<1> HIDE DEF here
<1>8. Over(chip.mem, c, out) = [x \in 0..n - 1 |-> IF x - c \in 0..Len(out) - 1 THEN out[x - c + 1] ELSE chip.mem[x]]
  BY <1>2 DEF Over
<1> QED
  BY <1>4, <1>6, <1>7, <1>8

(* A memory that is written over is still a memory.                         *)
LEMMA OverIs ==
  ASSUME NEW n \in Nat, NEW mem \in [0..n - 1 -> RamBytes], NEW c \in Nat, NEW out \in Seq(RamBytes)
  PROVE  Over(mem, c, out) \in [0..n - 1 -> RamBytes]
<1>1. ASSUME NEW x \in 0..n - 1, x - c \in 0..Len(out) - 1 PROVE out[x - c + 1] \in RamBytes
  <2>1. Len(out) \in Nat
    BY LenProperties
  <2>2. PICK i \in 1..Len(out) : i = x - c + 1
    BY <1>1, <2>1
  <2> QED
    BY <2>2
<1> QED
  BY <1>1 DEF Over

(* A chip that is deselected keeps what it was told to.                     *)
LEMMA DeselectIs ==
  ASSUME R!SpiramAssumption, NEW n \in Nat, NEW s \in Units(n), R!Kept(s.chip) \in [0..n - 1 -> RamBytes]
  PROVE  LET t == R!ChipDeselect(s)
         IN  t \in Units(n) /\ t.order = s.order /\ t.chip.selected = FALSE /\ t.chip.mem = R!Kept(s.chip)
<1> DEFINE c == [s.chip EXCEPT !.selected = FALSE, !.mem = R!Kept(s.chip)]
<1>1. s.chip \in Chips(n)
  BY DEF Units
<1>2. c \in Chips(n) /\ c.selected = FALSE /\ c.mem = R!Kept(s.chip)
  BY <1>1 DEF Chips
<1>3. R!ChipDeselect(s) = [s EXCEPT !.chip = c]
  BY <1>1 DEF R!ChipDeselect, Units, Chips
<1> HIDE DEF c
<1> QED
  BY <1>2, <1>3 DEF Units

(* One piece of data, written.                                              *)
WritePiece(s, a, data, burst) == R!ChipDeselect(R!spi_cmd_write(R!ChipSelect(s), 2, a, data, burst))

(* A piece is written to the places its address says.                       *)
LEMMA PieceWritten ==
  ASSUME R!SpiramAssumption, NEW n \in Nat, NEW s \in Units(n), s.order = TRUE, NEW a \in Nat,
         a < Base * Base * Base, NEW data \in Seq(RamBytes), Len(data) \in 1..BurstMax, NEW burst \in BOOLEAN,
         n > 0 => (a % n) + Len(data) <= n
  PROVE  LET t == WritePiece(s, a, data, burst)
         IN  /\ t \in Units(n) /\ t.order = TRUE /\ t.chip.selected = FALSE
             /\ n > 0 => t.chip.mem = Over(s.chip.mem, a % n, Wire(data, burst))
<1> DEFINE r == R!ChipSelect(s)
           u == R!spi_cmd_write(r, 2, a, data, burst)
           t == WritePiece(s, a, data, burst)
           out == Wire(data, burst)
<1>1. /\ r \in Units(n) /\ r.order = TRUE /\ r.chip.size = n /\ r.chip.mem = s.chip.mem
      /\ r.chip.selected = TRUE /\ r.chip.told = <<>>
  BY SelectIs
<1>2. 2 \in RamBytes /\ Asked(2, a) \in Seq(RamBytes) /\ out \in Seq(RamBytes) /\ Len(out) = Len(data)
  BY Constants, AskedIs, WireBytes
<1>3. t = R!ChipDeselect(u)
  BY DEF WritePiece
<1> HIDE DEF r, t
<1>4. u \in Units(n) /\ Says(r, Asked(2, a) \o out, u)
  BY <1>1, <1>2, CmdWriteSays
<1> HIDE DEF u, out
<1>5. u.chip \in Chips(n) /\ s.chip \in Chips(n) /\ r.chip \in Chips(n)
  BY <1>1, <1>4 DEF Units
<1>6. Asked(2, a) \o out \in Seq(RamBytes)
  BY <1>2, ConcatProperties
<1>7. <<>> \o (Asked(2, a) \o out) = Asked(2, a) \o out
  BY <1>6, ConcatEmptySeq
<1>8. u.order = TRUE /\ u.chip.told = Asked(2, a) \o out /\ u.chip.mem = s.chip.mem /\ u.chip.size = n
  BY <1>1, <1>4, <1>5, <1>7 DEF Says, Chips
<1>9. R!Kept(u.chip) \in [0..n - 1 -> RamBytes] /\ (n > 0 => R!Kept(u.chip) = Over(s.chip.mem, a % n, out))
  <2>1. s.chip.mem \in [0..n - 1 -> RamBytes]
    BY <1>5 DEF Chips
  <2>2. CASE n = 0
    BY <1>8, <2>1, <2>2 DEF R!Kept
  <2>3. CASE n > 0
    <3>1. (a % n) + Len(out) <= n
      BY <1>2, <2>3
    <3> DEFINE chip == u.chip
               c == a % n
               mem == s.chip.mem
    <3>2. chip \in Chips(n) /\ chip.told = Asked(2, a) \o out /\ chip.mem = mem /\ out \in Seq(RamBytes)
      BY <1>2, <1>5, <1>8
    <3>3. c \in Nat /\ mem \in [0..n - 1 -> RamBytes]
      BY <2>1, <2>3
    <3> HIDE DEF chip, mem
    <3>4. R!Kept(chip) = Over(chip.mem, a % n, out)
      BY <2>3, <3>1, <3>2, KeptIs
    <3>5. R!Kept(chip) = Over(mem, c, out)
      BY <3>2, <3>4
    <3> HIDE DEF c
    <3>6. Over(mem, c, out) \in [0..n - 1 -> RamBytes]
      BY <3>2, <3>3, OverIs
    <3> QED
      BY <3>5, <3>6, Zenon DEF chip, mem, c
  <2> QED
    BY <2>2, <2>3
<1>10. t \in Units(n) /\ t.order = u.order /\ t.chip.selected = FALSE /\ t.chip.mem = R!Kept(u.chip)
  BY <1>3, <1>4, <1>9, DeselectIs
<1> QED
  BY <1>8, <1>9, <1>10 DEF t, out

(* What the chip answers that was asked to read at a, and has answered with *)
(* as many bytes as out has.                                                *)
Reply(mem, n, c, m) == IF n = 0 THEN Nothing(m) ELSE Found(mem, c, m)
ReplyAt(mem, n, c, i) == IF n = 0 THEN 0 ELSE mem[c + i]

(* A chip is selected and has been told something; m bytes from a on start  *)
(* at the place c of the chip and do not reach over its end.                *)
Hears(chip, n, mem, told) ==
  chip \in Chips(n) /\ chip.size = n /\ chip.mem = mem /\ chip.told = told /\ chip.selected = TRUE
Fits(c, a, n, m) == c = a % n /\ (n > 0 => c + m <= n)
Answers(chip, k, mem, n, c, i) == R!Answer(chip, k) = ReplyAt(mem, n, c, i)

(* A chip that is read answers with what it holds, one place further with   *)
(* every byte it was sent.                                                  *)
LEMMA AnswerIs ==
  ASSUME R!SpiramAssumption, NEW n \in Nat, NEW chip, NEW mem, NEW a \in Nat,
         a < Base * Base * Base, NEW out \in Seq(RamBytes), Hears(chip, n, mem, Asked(3, a) \o out), NEW k \in Nat,
         NEW c, NEW m \in Nat, Fits(c, a, n, m), Len(out) + k < m
  PROVE  Answers(chip, k, mem, n, c, Len(out) + k)
<1> USE DEF Answers
<1>0. /\ chip \in Chips(n) /\ chip.selected = TRUE /\ HasTold(chip, n, 3, a, out) /\ chip.mem = mem
      /\ c = a % n /\ (n > 0 => c + Len(out) + k < n)
  <2>1. Len(out) \in Nat
    BY LenProperties
  <2>2. n > 0 => c \in Nat /\ c + m <= n
    BY DEF Fits
  <2>3. n > 0 => c + Len(out) + k < n
    BY <2>1, <2>2
  <2> QED
    BY <2>3 DEF Hears, HasTold, Fits
<1>1. chip.size = n /\ 3 \in RamBytes
  BY <1>0, Constants DEF Chips
<1>2. CASE n = 0
  BY <1>1, <1>2 DEF R!Answer, ReplyAt
<1>3. CASE n > 0
  <2>1. StartsAt(chip, n, c)
    BY <1>0, <1>1, <1>3, CellNumber, Zenon
  <2> DEFINE h == Asked(3, a)
  <2>2. h \in Seq(RamBytes) /\ Len(h) = 4 /\ h[1] = 3
    BY <1>1, AskedIs
  <2>3. chip.told = h \o out
    BY <1>0 DEF HasTold
  <2> HIDE DEF h
  <2>4. /\ Len(h \o out) = Len(h) + Len(out)
        /\ \A i \in 1..Len(h) : (h \o out)[i] = h[i]
    <3>1. h \in Seq(RamBytes) /\ out \in Seq(RamBytes)
      BY <2>2
    <3> QED
      BY <3>1, Joined
  <2>5. 1 \in 1..Len(h)
    BY <2>2
  <2>6. PICK l \in Nat : l = Len(out)
    BY LenProperties
  <2>7. Len(chip.told) = 4 + l /\ chip.told[1] = 3
    BY <2>2, <2>3, <2>4, <2>5, <2>6
  <2>8. R!Answer(chip, k) = chip.mem[R!Cell(chip, 4 + l - 4 + k)]
    BY <1>0, <1>1, <1>3, <2>6, <2>7 DEF R!Answer
  <2>9. c \in 0..n - 1
    BY <1>0, <1>3
  <2>10. PICK i \in 0..n - c - 1 : i = 4 + l - 4 + k /\ i = l + k
    BY <1>0, <1>3, <2>6, <2>9
  <2>11. R!Cell(chip, i) = c + i
    BY <2>1 DEF StartsAt
  <2> QED
    BY <1>0, <1>3, <2>6, <2>8, <2>10, <2>11 DEF ReplyAt
<1> QED
  BY <1>2, <1>3

(* The command and the address of a transaction, if it has them.            *)
Opening(s) == IF "command" \in s.phases THEN <<s.cmd>> \o s.addr ELSE <<>>

(* The phases before the data.                                              *)
LEMMA OpeningSays ==
  ASSUME R!SpiramAssumption, NEW n, NEW s \in Units(n), "command" \in s.phases <=> "addr" \in s.phases
  PROVE  LET a == R!Phase(R!Phase(s, "command"), "addr")
         IN  a \in Units(n) /\ Alike(s, a) /\ a.w = s.w /\ Opening(s) \in Seq(RamBytes) /\ Says(s, Opening(s), a)
<1>1. s.cmd \in RamBytes /\ s.addr \in Seq(RamBytes) /\ <<s.cmd>> \in Seq(RamBytes)
  BY DEF Units
<1> DEFINE c == R!Phase(s, "command")
           a == R!Phase(c, "addr")
           h == Opening(s)
<1>2. /\ c \in Units(n) /\ Alike(s, c) /\ c.w = s.w
      /\ Says(s, IF "command" \in s.phases THEN <<s.cmd>> ELSE <<>>, c)
  <2>1. CASE "command" \in s.phases
    <3>1. c = R!Sent(s, <<s.cmd>>)
      BY <2>1 DEF R!Phase
    <3> HIDE DEF c
    <3>2. c \in Units(n) /\ Alike(s, c) /\ c.w = s.w /\ Says(s, <<s.cmd>>, c)
      BY <1>1, <3>1, SentSays
    <3> QED
      BY <2>1, <3>2
  <2>2. CASE "command" \notin s.phases
    <3>1. c = s
      BY <2>2 DEF R!Phase
    <3> QED
      BY <2>2, <3>1, SaysNothing DEF Alike
  <2> QED
    BY <2>1, <2>2
<1> HIDE DEF c
<1>3. /\ a \in Units(n) /\ Alike(s, a) /\ a.w = s.w /\ h \in Seq(RamBytes) /\ Says(s, h, a)
  <2>1. CASE "command" \in s.phases
    <3>1. a = R!Sent(c, s.addr)
      BY <1>2, <2>1 DEF R!Phase, Alike
    <3> HIDE DEF a
    <3>2. a \in Units(n) /\ Says(c, s.addr, a) /\ Alike(c, a) /\ a.w = c.w
      BY <1>1, <1>2, <3>1, SentSays
    <3>3. Says(s, <<s.cmd>> \o s.addr, a)
      BY <1>1, <1>2, <2>1, <3>2, SaysOn
    <3>4. <<s.cmd>> \o s.addr \in Seq(RamBytes)
      BY <1>1, ConcatProperties
    <3> QED
      BY <1>2, <2>1, <3>2, <3>3, <3>4 DEF Alike, Opening
  <2>2. CASE "command" \notin s.phases
    <3>1. a = c
      BY <1>2, <2>2 DEF R!Phase, Alike
    <3>2. <<>> \in Seq(RamBytes)
      OBVIOUS
    <3> QED
      BY <1>2, <2>2, <3>1, <3>2 DEF Opening
  <2> QED
    BY <2>1, <2>2
<1> QED
  BY <1>3 DEF c

(* A transaction that receives: what came is what the chip answers that is  *)
(* in u, after the command and the address.                                 *)
Came(t, u, m) ==
  \A j \in 0..BurstMax \div 4 - 1, b \in 1..4 :
    4 * j < m => LET k == 4 * j + (IF R!Turned(u) THEN 4 - b ELSE b - 1)
                 IN  t.w[j][b] = IF k < m THEN R!Answer(u.chip, k) ELSE 0

(* A transaction that reads.                                                *)
LEMMA Receives ==
  ASSUME R!SpiramAssumption, NEW n \in Nat, NEW s \in Units(n), s.miso <= BurstMax, "miso" \in s.phases,
         "mosi" \notin s.phases, "command" \in s.phases <=> "addr" \in s.phases
  PROVE  LET t == R!Transaction(s)
         IN  /\ t \in Units(n) /\ Alike(s, t)
             /\ \E u \in Units(n) : /\ Says(s, Opening(s), u) /\ Says(u, Nothing(s.miso), t) /\ Came(t, u, s.miso)
<1> DEFINE a == R!Phase(R!Phase(s, "command"), "addr")
           o == R!Phase(a, "mosi")
           t == R!Transaction(s)
<1>1. a \in Units(n) /\ Alike(s, a) /\ Says(s, Opening(s), a)
  BY OpeningSays
<1>2. t = R!Phase(o, "miso")
  BY DEF R!Transaction
<1> HIDE DEF a, t
<1>3. o = a
  BY <1>1 DEF R!Phase, Alike
<1>4. s.miso \in 0..BurstMax
  BY Constants DEF Units
<1>5. t = R!Received(a, s.miso)
  BY <1>1, <1>2, <1>3 DEF R!Phase, Alike
<1>6. t \in Units(n) /\ Alike(a, t) /\ Says(a, Nothing(s.miso), t) /\ Came(t, a, s.miso)
  BY <1>1, <1>4, <1>5, ReceivedSays DEF Came
<1> QED
  BY <1>1, <1>6 DEF Alike, t

(* One byte that is read is what the chip answers.                          *)
LEMMA GetIs ==
  ASSUME R!SpiramAssumption, NEW n \in Nat, NEW s \in Units(n), s.order = TRUE
  PROVE  LET t == R!spi_get_char(s)
         IN  t \in Units(n) /\ Says(s, Nothing(1), t) /\ R!GotChar(t) = R!Answer(s.chip, 0)
<1> DEFINE r == [s EXCEPT !.phases = {"miso"}, !.miso = 1]
           t == R!Transaction(r)
<1>1. /\ r \in Units(n) /\ r.order = TRUE /\ r.wire = s.wire /\ r.chip = s.chip
      /\ r.phases = {"miso"} /\ r.miso = 1
  BY DEF Units, PhaseNames
<1>2. R!spi_get_char(s) = t
  BY Zenon DEF R!spi_get_char
<1> HIDE DEF r
<1>3. r.miso <= BurstMax /\ "miso" \in r.phases /\ "mosi" \notin r.phases /\ "command" \notin r.phases
      /\ "addr" \notin r.phases
  BY <1>1, Constants
<1>4. PICK u \in Units(n) : Says(r, <<>>, u) /\ Says(u, Nothing(1), t) /\ Came(t, u, 1) /\ t \in Units(n)
  BY <1>1, <1>3, Receives DEF Opening
<1> HIDE DEF t
<1>5. u.order = TRUE /\ u.chip = s.chip /\ u.wire = s.wire /\ t.order = TRUE
  <2>1. r.wire \o <<>> = r.wire /\ r.chip.told \o <<>> = r.chip.told
    BY <1>1, ConcatEmptySeq DEF Units, Chips
  <2>2. [r.chip EXCEPT !.told = IF r.chip.selected THEN @ \o <<>> ELSE @] = r.chip
    BY <1>1, <2>1 DEF Units, Chips
  <2> QED
    BY <1>1, <1>4, <2>1, <2>2 DEF Says
<1>6. t.w[0][4] = R!Answer(u.chip, 0)
  <2>1. 0 \in 0..BurstMax \div 4 - 1 /\ 4 \in 1..4 /\ 4 * 0 < 1 /\ 4 * 0 + (4 - 4) = 0 /\ R!Turned(u)
    BY <1>5, Constants DEF R!Turned
  <2> QED
    BY <1>4, <2>1 DEF Came
<1>7. Says(s, Nothing(1), t)
  BY <1>4, <1>5, SaysFrom
<1> QED
  BY <1>2, <1>4, <1>5, <1>6, <1>7 DEF R!GotChar

(* So are the bytes that are read one by one.                               *)
LEMMA NothingOn ==
  ASSUME R!SpiramAssumption, NEW i \in Nat, i > 0
  PROVE  Nothing(i - 1) \o Nothing(1) = Nothing(i)
<1> DEFINE a == Nothing(i - 1)
           b == Nothing(1)
           c == Nothing(i)
<1>1. i - 1 \in Nat /\ 1 \in Nat
  OBVIOUS
<1>2. /\ a \in Seq(RamBytes) /\ Len(a) = i - 1 /\ b \in Seq(RamBytes) /\ Len(b) = 1 /\ c \in Seq(RamBytes) /\ Len(c) = i
      /\ \A k \in 1..i - 1 : a[k] = 0
      /\ b[1] = 0 /\ \A k \in 1..i : c[k] = 0
  BY <1>1, NothingBytes DEF Nothing
<1> HIDE DEF a, b, c
<1>3. /\ a \o b \in Seq(RamBytes) /\ Len(a \o b) = Len(a) + Len(b)
      /\ \A k \in 1..Len(a) : (a \o b)[k] = a[k]
      /\ \A k \in 1..Len(b) : (a \o b)[Len(a) + k] = b[k]
  <2>1. a \in Seq(RamBytes) /\ b \in Seq(RamBytes)
    BY <1>2
  <2> QED
    BY <2>1, Joined
<1>4. ASSUME NEW k \in 1..i PROVE (a \o b)[k] = c[k]
  <2>1. CASE k = i
    <3>1. 1 \in 1..Len(b) /\ Len(a) + 1 = i
      BY <1>2
    <3>2. (a \o b)[Len(a) + 1] = b[1]
      BY <1>3, <3>1
    <3> QED
      BY <1>2, <2>1, <3>1, <3>2
  <2>2. CASE k # i
    <3>1. k \in 1..Len(a)
      BY <1>2, <2>2
    <3> QED
      BY <1>2, <1>3, <3>1
  <2> QED
    BY <2>1, <2>2
<1>5. Len(a \o b) = i
  BY <1>2, <1>3
<1> QED
  BY <1>2, <1>3, <1>4, <1>5, SeqEqual DEF a, b, c

(* Read byte by byte, the chip answers with what it holds, in order.        *)
LEMMA GetCharsIs ==
  ASSUME R!SpiramAssumption, NEW n \in Nat, NEW s \in Units(n), s.order = TRUE, NEW l \in Nat
  PROVE  LET r == R!GetChars(s, l)
         IN  /\ r[1] \in Units(n) /\ Says(s, Nothing(l), r[1])
             /\ \E w \in [0..l -> Units(n)] :
                  /\ \A i \in 0..l : Says(s, Nothing(i), w[i])
                  /\ r[2] = [i \in 1..l |-> R!Answer(w[i - 1].chip, 0)]
<1> DEFINE k == l
           X == {u \in Units(n) : u.order = TRUE}
           F == [i \in 1..k |-> [u \in X |-> R!spi_get_char(u)]]
<1>1. k \in Nat /\ s \in X
  OBVIOUS
<1>2. ASSUME NEW u \in X, NEW i \in 1..k
      PROVE  /\ R!spi_get_char(u) \in X /\ Says(u, Nothing(1), R!spi_get_char(u))
             /\ R!GotChar(R!spi_get_char(u)) = R!Answer(u.chip, 0)
  <2>1. u \in Units(n) /\ u.order = TRUE
    OBVIOUS
  <2>2. /\ R!spi_get_char(u) \in Units(n) /\ Says(u, Nothing(1), R!spi_get_char(u))
        /\ R!GotChar(R!spi_get_char(u)) = R!Answer(u.chip, 0)
    BY <2>1, GetIs
  <2> QED
    BY <2>1, <2>2 DEF Says
<1> HIDE DEF k, X
<1>3. F \in [1..k -> [X -> X]]
  BY <1>2
<1>4. PICK m \in [0..k -> X] : IsRun(m, F, s, k)
  BY <1>1, <1>3, Made
<1> DEFINE IsMade(f) == f = [i \in 0..k |-> IF i = 0 THEN s ELSE R!spi_get_char(f[i - 1])]
           w == CHOOSE f : IsMade(f)
<1>5. IsMade(m)
  <2>1. ASSUME NEW i \in 0..k PROVE m[i] = IF i = 0 THEN s ELSE R!spi_get_char(m[i - 1])
    <3> SUFFICES ASSUME i # 0 PROVE m[i] = R!spi_get_char(m[i - 1])
      BY <1>4 DEF IsRun
    <3>1. i \in 1..k /\ i - 1 \in 0..k
      BY <1>1
    <3>2. m[i - 1] \in X
      BY <3>1
    <3> QED
      BY <1>4, <3>1, <3>2 DEF F, IsRun
  <2>2. m = [i \in 0..k |-> m[i]]
    OBVIOUS
  <2> QED
    BY <2>1, <2>2, Zenon
<1>6. IsMade(w)
  BY <1>5, Zenon
<1>7. R!GetChars(s, l) = <<w[k], [i \in 1..k |-> R!GotChar(w[i])]>>
  BY Zenon DEF R!GetChars, k
<1> HIDE DEF w, F
<1>8. w[0] = s /\ \A i \in 1..k : w[i] = R!spi_get_char(w[i - 1])
  <2>1. ASSUME NEW i \in 0..k PROVE w[i] = IF i = 0 THEN s ELSE R!spi_get_char(w[i - 1])
    BY <1>6
  <2>2. 0 \in 0..k /\ \A i \in 1..k : i \in 0..k /\ i # 0
    BY <1>1
  <2> QED
    BY <2>1, <2>2
<1>9. w \in [0..k -> X]
  <2>1. w = [i \in 0..k |-> w[i]]
    BY <1>6
  <2>2. ASSUME NEW i \in 1..k, w[i - 1] \in X PROVE w[i] \in X
    BY <1>2, <1>8, <2>2
  <2> QED
    BY <1>1, <1>8, <2>1, <2>2, Stays
<1>10. ASSUME NEW i \in 1..k
       PROVE  w[i - 1] \in X /\ Says(w[i - 1], Nothing(1), w[i]) /\ R!GotChar(w[i]) = R!Answer(w[i - 1].chip, 0)
  <2>1. i - 1 \in 0..k
    BY <1>1
  <2>2. w[i - 1] \in X
    BY <1>9, <2>1
  <2> QED
    BY <1>2, <1>8, <2>2
<1>11. \A i \in 0..k : Says(s, Nothing(i), w[i])
  <2> DEFINE good == {i \in 0..k : Says(s, Nothing(i), w[i])}
  <2>1. 0 \in good
    <3>1. s \in Units(n) /\ 0 \in 0..k
      BY <1>1 DEF X
    <3>2. Nothing(0) = <<>>
      BY DEF Nothing
    <3> QED
      BY <1>8, <3>1, <3>2, SaysNothing
  <2>2. ASSUME NEW i \in 0..k - 1, i \in good PROVE i + 1 \in good
    <3>1. i \in Nat /\ i + 1 \in Nat /\ i + 1 > 0 /\ i + 1 - 1 = i /\ i + 1 \in 1..k /\ i \in 0..k /\ i + 1 \in 0..k
      BY <1>1
    <3>2. w[i] \in Units(n) /\ w[i + 1] \in Units(n) /\ Says(w[i], Nothing(1), w[i + 1])
      <4>1. w[i] \in X /\ w[i + 1] \in X
        BY <1>9, <3>1
      <4>2. PICK j \in 1..k : j = i + 1 /\ j - 1 = i
        BY <3>1
      <4>3. Says(w[j - 1], Nothing(1), w[j])
        BY <1>10
      <4> QED
        BY <4>1, <4>2, <4>3 DEF X
    <3>21. Says(s, Nothing(i), w[i])
      BY <2>2
    <3>3. Nothing(i) \in Seq(RamBytes) /\ Nothing(1) \in Seq(RamBytes)
      BY <3>1, NothingBytes
    <3>4. Says(s, Nothing(i) \o Nothing(1), w[i + 1])
      BY <3>2, <3>21, <3>3, SaysOn
    <3>5. Nothing(i) \o Nothing(1) = Nothing(i + 1)
      BY <3>1, NothingOn
    <3> QED
      BY <3>1, <3>4, <3>5
  <2> HIDE DEF good
  <2>3. \A i \in 0..k : i \in good
    BY <1>1, <2>1, <2>2, UpTo
  <2> QED
    BY <2>3 DEF good
<1>12. R!GetChars(s, l)[2] = [i \in 1..k |-> R!Answer(w[i - 1].chip, 0)]
  <2>1. [i \in 1..k |-> R!GotChar(w[i])] = [i \in 1..k |-> R!Answer(w[i - 1].chip, 0)]
    BY <1>10
  <2> QED
    BY <1>7, <2>1
<1>13. w \in [0..k -> Units(n)] /\ w[k] \in Units(n) /\ k \in 0..k
  BY <1>1, <1>9 DEF X
<1>14. R!GetChars(s, l)[1] = w[k]
  BY <1>7
<1> HIDE DEF w
<1> QED
  BY <1>11, <1>12, <1>13, <1>14 DEF k

IsReply(d, mem, n, c, m) ==
  d \in Seq(RamBytes) /\ Len(d) = m /\ \A k \in 1..m : d[k] = ReplyAt(mem, n, c, k - 1)

(* What is replied, byte by byte.                                           *)
LEMMA ReplyIs ==
  ASSUME R!SpiramAssumption, NEW n \in Nat, NEW mem \in [0..n - 1 -> RamBytes], NEW m \in Nat, NEW a \in Nat, NEW c,
         Fits(c, a, n, m)
  PROVE  IsReply(Reply(mem, n, c, m), mem, n, c, m)
<1> USE DEF IsReply
<1>1. CASE n = 0
  BY <1>1, NothingBytes DEF Reply, Nothing, ReplyAt
<1>2. CASE n # 0
  <2>1. c \in Nat /\ c + m <= n
    BY <1>2 DEF Fits
  <2>2. ASSUME NEW k \in 1..m PROVE mem[c + k - 1] \in RamBytes /\ c + (k - 1) = c + k - 1
    <3>1. PICK x \in 0..n - 1 : x = c + k - 1 /\ x = c + (k - 1)
      BY <2>1
    <3> QED
      BY <3>1
  <2>3. Reply(mem, n, c, m) = [k \in 1..m |-> mem[c + k - 1]]
    BY <1>2 DEF Reply, Found
  <2> QED
    BY <1>2, <2>2, <2>3 DEF ReplyAt
<1> QED
  BY <1>1, <1>2

(* A chip that is selected is told what goes out.                           *)
LEMMA ToldIs ==
  ASSUME R!SpiramAssumption, NEW n \in Nat, NEW s \in Units(n), NEW u \in Units(n), NEW out \in Seq(RamBytes),
         Says(s, out, u),
         NEW mem, NEW told, Hears(s.chip, n, mem, told)
  PROVE  Hears(u.chip, n, mem, told \o out)
BY DEF Says, Units, Chips, Hears

(* The bytes of a word go out from the last.                                *)
HighFirst(s) == s.order = TRUE

(* spi_cmd_read byte by byte.                                               *)
LEMMA BytesRead ==
  ASSUME R!SpiramAssumption, NEW n \in Nat, NEW s \in Units(n), HighFirst(s), NEW a \in Nat,
         a < Base * Base * Base, NEW mem \in [0..n - 1 -> RamBytes], Hears(s.chip, n, mem, Asked(3, a)),
         NEW m \in Nat, NEW c, Fits(c, a, n, m)
  PROVE  LET r == R!GetChars(s, m)
         IN  r[1] \in Units(n) /\ Says(s, Nothing(m), r[1]) /\ r[2] = Reply(mem, n, c, m)
<1> DEFINE r == R!GetChars(s, m)
           d == Reply(mem, n, c, m)
<1>1. d \in Seq(RamBytes) /\ Len(d) = m /\ \A k \in 1..m : d[k] = ReplyAt(mem, n, c, k - 1)
  <2>1. IsReply(d, mem, n, c, m)
    BY ReplyIs, Zenon
  <2> HIDE DEF d
  <2> QED
    BY <2>1 DEF IsReply
<1> HIDE DEF d
<1>0. s.order = TRUE
  BY DEF HighFirst
<1>2. PICK w \in [0..m -> Units(n)] :
         /\ \A i \in 0..m : Says(s, Nothing(i), w[i])
         /\ r[2] = [i \in 1..m |-> R!Answer(w[i - 1].chip, 0)]
  BY <1>0, GetCharsIs
<1>3. r[1] \in Units(n) /\ Says(s, Nothing(m), r[1])
  BY <1>0, GetCharsIs
<1> HIDE DEF r
<1>4. ASSUME NEW i \in 1..m PROVE R!Answer(w[i - 1].chip, 0) = d[i]
  <2>1. i - 1 \in 0..m /\ i - 1 \in Nat /\ 0 \in Nat
    OBVIOUS
  <2> DEFINE v == w[i - 1]
             out == Nothing(i - 1)
  <2>2. v \in Units(n) /\ Says(s, out, v) /\ out \in Seq(RamBytes) /\ Len(out) = i - 1
    BY <1>2, <2>1, NothingBytes
  <2>3. Len(out) + 0 < m
    BY <2>1, <2>2
  <2>31. Len(out) + 0 = i - 1
    BY <2>1, <2>2
  <2>32. v \in Units(n) /\ out \in Seq(RamBytes) /\ Says(s, out, v) /\ 0 \in Nat
    BY <2>1, <2>2
  <2> HIDE DEF v, out
  <2>4. Hears(v.chip, n, mem, Asked(3, a) \o out)
    BY <2>32, ToldIs, Zenon
  <2>5. Answers(v.chip, 0, mem, n, c, Len(out) + 0)
    BY <2>3, <2>32, <2>4, AnswerIs, Zenon
  <2>6. R!Answer(v.chip, 0) = d[i]
    BY <1>1, <2>31, <2>5 DEF Answers
  <2> QED
    BY <2>6 DEF v
<1>5. r[2] = d
  <2>1. r[2] = [i \in 1..m |-> d[i]]
    BY <1>2, <1>4
  <2> QED
    BY <1>1, <2>1
<1> QED
  BY <1>3, <1>5 DEF d, r

(* A burst that reads.                                                      *)
InBurst(s, a, m) ==
  R!Burst([s EXCEPT !.miso = m, !.cmd = 3, !.addr = R!BytesOf(a)], {"dummy", "mosi"}, {"command", "addr", "miso"})
HasRead(s, t, n, a, m, read, reply) ==
  t \in Units(n) /\ Says(s, Asked(3, a) \o Nothing(m), t) /\ read = reply

(* spi_cmd_read in a burst.                                                 *)
LEMMA BurstRead ==
  ASSUME R!SpiramAssumption, NEW n \in Nat, NEW s \in Units(n), HighFirst(s), NEW a \in Nat,
         a < Base * Base * Base, NEW mem \in [0..n - 1 -> RamBytes], Hears(s.chip, n, mem, <<>>),
         NEW m \in 1..BurstMax, NEW c, Fits(c, a, n, m)
  PROVE  HasRead(s, InBurst(s, a, m), n, a, m, R!spi_unload_words(InBurst(s, a, m), m), OnWire(Reply(mem, n, c, m)))
<1> DEFINE d == Reply(mem, n, c, m)
           q == [s EXCEPT !.miso = m, !.cmd = 3, !.addr = R!BytesOf(a)]
           off == {"dummy", "mosi"}
           on == {"command", "addr", "miso"}
           f == [q EXCEPT !.order = FALSE, !.phases = (@ \ off) \cup on]
           o == R!Transaction(f)
           t == R!Burst(q, off, on)
<1>1. m \in Nat
  BY Constants
<1>2. d \in Seq(RamBytes) /\ Len(d) = m /\ \A k \in 1..m : d[k] = ReplyAt(mem, n, c, k - 1)
  <2>1. IsReply(d, mem, n, c, m)
    BY <1>1, ReplyIs, Zenon
  <2> HIDE DEF d
  <2> QED
    BY <2>1 DEF IsReply
<1> HIDE DEF d
<1>3. 3 \in RamBytes /\ <<>> \in Seq(RamBytes) /\ Len(<<>>) = 0
  BY Constants
<1>4. Asked(3, a) \in Seq(RamBytes) /\ R!BytesOf(a) \in Seq(RamBytes)
  BY <1>3, AskedIs, AddressIs
<1>5. <<>> \o Asked(3, a) = Asked(3, a) /\ Asked(3, a) \o <<>> = Asked(3, a)
  BY <1>4, ConcatEmptySeq
<1>6. t = [o EXCEPT !.order = q.order]
  BY Zenon DEF R!Burst
<1>7. q.order = TRUE
  BY DEF Units, HighFirst
<1>8. /\ f \in Units(n) /\ f.order = FALSE /\ f.miso = m /\ f.cmd = 3 /\ f.addr = R!BytesOf(a)
      /\ f.wire = s.wire /\ f.chip = s.chip
      /\ "miso" \in f.phases /\ "mosi" \notin f.phases /\ "command" \in f.phases /\ "addr" \in f.phases
  BY <1>1, <1>3, <1>4 DEF Units, PhaseNames
<1> HIDE DEF f, t, q
<1>9. Opening(f) = Asked(3, a)
  BY <1>8 DEF Opening, Asked
<1>10. f.miso <= BurstMax
  BY <1>8, Constants
<1>11. PICK u \in Units(n) : Says(f, Asked(3, a), u) /\ Says(u, Nothing(m), o) /\ Came(o, u, m) /\ o \in Units(n)
  BY <1>8, <1>9, <1>10, Receives
<1> HIDE DEF o
<1>12. Hears(u.chip, n, mem, Asked(3, a) \o <<>>) /\ u.order = FALSE
  <2>1. Hears(f.chip, n, mem, <<>>)
    BY <1>8
  <2>0. f \in Units(n) /\ u \in Units(n) /\ Says(f, Asked(3, a), u) /\ Asked(3, a) \in Seq(RamBytes)
    BY <1>4, <1>8, <1>11
  <2>2. Hears(u.chip, n, mem, <<>> \o Asked(3, a))
    BY <2>0, <2>1, ToldIs, Zenon
  <2> QED
    BY <1>5, <1>8, <1>11, <2>2 DEF Says
<1>13. t \in Units(n) /\ t.wire = o.wire /\ t.chip = o.chip /\ t.order = TRUE /\ t.w = o.w
  BY <1>6, <1>7, <1>11 DEF Units
<1>14. Says(s, Asked(3, a) \o Nothing(m), t)
  <2>1. Nothing(m) \in Seq(RamBytes)
    BY <1>1, NothingBytes
  <2>2. Says(f, Asked(3, a) \o Nothing(m), o)
    BY <1>4, <1>8, <1>11, <2>1, SaysOn
  <2> QED
    BY <1>8, <1>13, <2>2 DEF Says, HighFirst
<1>15. ASSUME NEW k \in 0..m - 1 PROVE R!Answer(u.chip, k) = d[k + 1]
  <2>1. k \in Nat /\ Len(<<>>) + k < m /\ m \in Nat /\ <<>> \in Seq(RamBytes)
    BY <1>1, <1>3
  <2>2. Hears(u.chip, n, mem, Asked(3, a) \o <<>>)
    BY <1>12
  <2>3. Answers(u.chip, k, mem, n, c, Len(<<>>) + k)
    BY <2>1, <2>2, AnswerIs, Zenon
  <2>4. Len(<<>>) + k = (k + 1) - 1 /\ k + 1 \in 1..m
    BY <1>1
  <2> QED
    BY <1>2, <2>3, <2>4 DEF Answers
<1>16. ASSUME NEW k \in 1..m
       PROVE  t.w[(k - 1) \div 4][1 + ((k - 1) % 4)]
                = LET x == IF ram_hardware = "swapped" THEN 4 * ((k - 1) \div 4) + (4 - ((k - 1) % 4)) ELSE k
                  IN  IF x <= Len(d) THEN d[x] ELSE 0
  <2>1. k - 1 \in Nat /\ k - 1 < BurstMax
    BY <1>1, Constants
  <2>2. PICK j \in Nat, b \in 0..3 : /\ j = (k - 1) \div 4 /\ b = (k - 1) % 4 /\ k - 1 = 4 * j + b
                                     /\ j \in 0..BurstMax \div 4 - 1
    BY <2>1, Quarter
  <2>3. 4 * j < m
    BY <1>1, <2>2
  <2>4. PICK e \in 1..4 : e = 1 + b
    OBVIOUS
  <2>5. o.w[j][e] = LET y == 4 * j + (IF R!Turned(u) THEN 4 - e ELSE e - 1) IN IF y < m THEN R!Answer(u.chip, y) ELSE 0
    BY <1>11, <2>2, <2>3 DEF Came
  <2>6. R!Turned(u) <=> ram_hardware = "swapped"
    BY <1>12 DEF R!Turned
  <2>7. PICK y \in Nat : y = 4 * j + (IF ram_hardware = "swapped" THEN 4 - e ELSE e - 1)
    BY <2>4
  <2>8. t.w[j][e] = IF y < m THEN R!Answer(u.chip, y) ELSE 0
    BY <1>13, <2>5, <2>6, <2>7
  <2>9. y < m => R!Answer(u.chip, y) = d[y + 1]
    BY <1>1, <1>15
  <2>10. y + 1 = IF ram_hardware = "swapped" THEN 4 * j + (4 - b) ELSE k
    BY <2>2, <2>4, <2>7
  <2>11. y < m <=> y + 1 <= Len(d)
    BY <1>1, <1>2
  <2>12. t.w[j][e] = IF y + 1 <= Len(d) THEN d[y + 1] ELSE 0
    BY <2>8, <2>9, <2>11
  <2> QED
    BY <2>2, <2>4, <2>10, <2>12
<1>17. R!spi_unload_words(t, m) = OnWire(d)
  BY <1>2, <1>16, Zenon DEF R!spi_unload_words, OnWire
<1>18. InBurst(s, a, m) = t
  BY Zenon DEF InBurst, t, q
<1> QED
  BY <1>13, <1>14, <1>17, <1>18 DEF d, HasRead

(* spi_cmd_read either way.                                                 *)
LEMMA CmdReadIs ==
  ASSUME R!SpiramAssumption, NEW n \in Nat, NEW s \in Units(n), HighFirst(s), NEW a \in Nat,
         a < Base * Base * Base, NEW mem \in [0..n - 1 -> RamBytes], Hears(s.chip, n, mem, <<>>),
         NEW m \in 1..BurstMax, NEW burst \in BOOLEAN, NEW c, Fits(c, a, n, m)
  PROVE  LET r == R!spi_cmd_read(s, 3, a, m, burst)
         IN  HasRead(s, r[1], n, a, m, r[2], Wire(Reply(mem, n, c, m), burst))
<1> DEFINE r == R!spi_cmd_read(s, 3, a, m, burst)
<1>1. m \in Nat /\ 3 \in RamBytes
  BY Constants
<1>2. Asked(3, a) \in Seq(RamBytes) /\ R!BytesOf(a) \in Seq(RamBytes) /\ Nothing(m) \in Seq(RamBytes)
  BY <1>1, AskedIs, AddressIs, NothingBytes
<1>3. CASE ~burst
  <2> DEFINE u == R!spi_bytewise_cmd(s, 3, R!BytesOf(a))
  <2>1. u \in Units(n) /\ Says(s, Asked(3, a), u)
    BY <1>1, <1>2, BytewiseSays DEF R!spi_bytewise_cmd, Asked, HighFirst
  <2>2. r = R!GetChars(u, m)
    BY <1>3 DEF R!spi_cmd_read
  <2> HIDE DEF u, r
  <2>3. Hears(u.chip, n, mem, <<>> \o Asked(3, a))
    BY <1>2, <2>1, ToldIs, Zenon
  <2>4. <<>> \o Asked(3, a) = Asked(3, a)
    BY <1>2, ConcatEmptySeq
  <2>5. Hears(u.chip, n, mem, Asked(3, a)) /\ HighFirst(u)
    BY <2>1, <2>3, <2>4 DEF HighFirst, Says
  <2>6. r[1] \in Units(n) /\ Says(u, Nothing(m), r[1]) /\ r[2] = Reply(mem, n, c, m)
    BY <1>1, <2>1, <2>2, <2>5, BytesRead
  <2>7. Says(s, Asked(3, a) \o Nothing(m), r[1])
    BY <1>2, <2>1, <2>6, SaysOn
  <2> QED
    BY <1>3, <2>6, <2>7 DEF Wire, r, HasRead
<1>4. CASE burst
  <2> DEFINE t == InBurst(s, a, m)
  <2>1. r = <<t, R!spi_unload_words(t, m)>>
    BY <1>4, Zenon DEF R!spi_cmd_read, InBurst
  <2>2. /\ t \in Units(n) /\ Says(s, Asked(3, a) \o Nothing(m), t)
        /\ R!spi_unload_words(t, m) = OnWire(Reply(mem, n, c, m))
    <3>1. HasRead(s, t, n, a, m, R!spi_unload_words(t, m), OnWire(Reply(mem, n, c, m)))
      BY BurstRead, Zenon
    <3> HIDE DEF t
    <3> QED
      BY <3>1 DEF HasRead
  <2> HIDE DEF t, r
  <2>3. r[1] = t /\ r[2] = OnWire(Reply(mem, n, c, m))
    BY <2>1, <2>2
  <2> QED
    BY <1>4, <2>2, <2>3 DEF Wire, r, HasRead
<1> QED
  BY <1>3, <1>4

(* The bus is at rest, and the chip of n bytes holds mem.                   *)
AtEase(s, n, mem) == s \in Units(n) /\ s.order = TRUE /\ s.chip.selected = FALSE /\ s.chip.mem = mem
Stored(mem, n, c, out) == IF n = 0 THEN mem ELSE Over(mem, c, out)

(* A piece of spiramWrite, from one rest of the bus to the next.            *)
LEMMA EaseStored ==
  ASSUME R!SpiramAssumption, NEW n \in Nat, NEW mem \in [0..n - 1 -> RamBytes], NEW s, AtEase(s, n, mem), NEW a \in Nat,
         a < Base * Base * Base, NEW data \in Seq(RamBytes), Len(data) \in 1..BurstMax, NEW burst \in BOOLEAN,
         NEW c, Fits(c, a, n, Len(data))
  PROVE  AtEase(WritePiece(s, a, data, burst), n, Stored(mem, n, c, Wire(data, burst)))
<1> DEFINE t == WritePiece(s, a, data, burst)
           out == Wire(data, burst)
<1>1. s \in Units(n) /\ s.order = TRUE /\ s.chip.mem = mem
  BY DEF AtEase
<1>2. c = a % n /\ (n > 0 => c + Len(data) <= n)
  BY DEF Fits
<1>3. n > 0 => (a % n) + Len(data) <= n
  BY <1>2
<1>4. /\ t \in Units(n) /\ t.order = TRUE /\ t.chip.selected = FALSE
      /\ n > 0 => t.chip.mem = Over(s.chip.mem, a % n, out)
  BY <1>1, <1>3, PieceWritten
<1> HIDE DEF t, out
<1>5. t.chip.mem = Stored(mem, n, c, out)
  <2>1. CASE n = 0
    <3>1. t.chip.mem \in [0..n - 1 -> RamBytes]
      BY <1>4 DEF Units, Chips
    <3>2. 0..n - 1 = {}
      BY <2>1
    <3>3. t.chip.mem = mem
      BY <3>1, <3>2
    <3> QED
      BY <2>1, <3>3 DEF Stored
  <2>2. CASE n # 0
    BY <1>1, <1>2, <1>4, <2>2 DEF Stored
  <2> QED
    BY <2>1, <2>2
<1> QED
  BY <1>4, <1>5 DEF AtEase, t, out

(* Reading leaves the chip as it is.                                        *)
ReadPiece(s, a, m, burst) ==
  LET r == R!spi_cmd_read(R!ChipSelect(s), 3, a, m, burst) IN <<R!ChipDeselect(r[1]), r[2]>>
PieceIsRead(r, n, mem, out) == AtEase(r[1], n, mem) /\ r[2] = out

LEMMA EaseRead ==
  ASSUME R!SpiramAssumption, NEW n \in Nat, NEW mem \in [0..n - 1 -> RamBytes], NEW s, AtEase(s, n, mem), NEW a \in Nat,
         a < Base * Base * Base, NEW m \in 1..BurstMax, NEW burst \in BOOLEAN, NEW c, Fits(c, a, n, m)
  PROVE  PieceIsRead(ReadPiece(s, a, m, burst), n, mem, Wire(Reply(mem, n, c, m), burst))
<1> DEFINE q == R!ChipSelect(s)
           r == R!spi_cmd_read(q, 3, a, m, burst)
           u == r[1]
           t == R!ChipDeselect(u)
<1>1. s \in Units(n) /\ s.order = TRUE /\ s.chip.mem = mem
  BY DEF AtEase
<1>2. /\ q \in Units(n) /\ q.order = s.order /\ q.chip.size = n /\ q.chip.mem = s.chip.mem
      /\ q.chip.selected = TRUE /\ q.chip.told = <<>>
  BY <1>1, SelectIs
<1> HIDE DEF q
<1>3. q \in Units(n) /\ HighFirst(q) /\ Hears(q.chip, n, mem, <<>>)
  BY <1>1, <1>2 DEF HighFirst, Hears, Units
<1>4. HasRead(q, r[1], n, a, m, r[2], Wire(Reply(mem, n, c, m), burst))
  BY <1>3, CmdReadIs, Zenon
<1>5. ReadPiece(s, a, m, burst) = <<t, r[2]>>
  BY Zenon DEF ReadPiece, q
<1> HIDE DEF r
<1>6. u \in Units(n) /\ Says(q, Asked(3, a) \o Nothing(m), u) /\ r[2] = Wire(Reply(mem, n, c, m), burst)
  BY <1>4 DEF HasRead
<1> HIDE DEF u
<1>7. 3 \in RamBytes /\ m \in Nat
  BY Constants
<1>8. Asked(3, a) \in Seq(RamBytes) /\ Nothing(m) \in Seq(RamBytes) /\ Asked(3, a)[1] = 3 /\ Len(Asked(3, a)) = 4
  BY <1>7, AskedIs, NothingBytes
<1> DEFINE h == Asked(3, a)
           out == Nothing(m)
           told == h \o out
<1> HIDE DEF h, out
<1>9. told \in Seq(RamBytes) /\ told[1] = 3 /\ <<>> \o told = told
  <2>1. h \in Seq(RamBytes) /\ out \in Seq(RamBytes)
    BY <1>8 DEF h, out
  <2>2. told \in Seq(RamBytes) /\ \A i \in 1..Len(h) : told[i] = h[i]
    BY <2>1, Joined
  <2>3. 1 \in 1..Len(h) /\ h[1] = 3
    BY <1>8 DEF h
  <2> HIDE DEF told
  <2> QED
    BY <2>2, <2>3, ConcatEmptySeq
<1>10. Hears(u.chip, n, mem, <<>> \o told)
  <2>1. u \in Units(n) /\ Says(q, told, u)
    BY <1>6 DEF h, out
  <2> HIDE DEF told
  <2> QED
    BY <1>3, <1>9, <2>1, ToldIs, Zenon
<1> HIDE DEF told
<1>11. u.chip.told[1] = 3 /\ u.chip.mem = mem
  BY <1>9, <1>10 DEF Hears
<1>12. R!Kept(u.chip) = mem
  BY <1>11 DEF R!Kept
<1>13. t \in Units(n) /\ t.order = u.order /\ t.chip.selected = FALSE /\ t.chip.mem = R!Kept(u.chip)
  BY <1>6, <1>12, DeselectIs
<1>14. u.order = TRUE
  BY <1>1, <1>2, <1>6 DEF Says
<1>15. AtEase(t, n, mem)
  BY <1>12, <1>13, <1>14 DEF AtEase
<1> HIDE DEF t
<1> QED
  BY <1>5, <1>6, <1>15 DEF PieceIsRead

(* The bytes of a transfer in pieces are those of its pieces, if it is not  *)
(* one of several bursts of a unit that packs words the other way round.    *)
LEMMA WireInPieces ==
  ASSUME R!SpiramAssumption, NEW data \in Seq(RamBytes), NEW burst \in BOOLEAN,
         burst /\ ram_hardware = "swapped" => Len(data) <= BurstMax, NEW i \in 1..R!Pieces(Len(data))
  PROVE  Wire(R!Piece(data, i), burst) = SubSeq(Wire(data, burst), R!Done(i - 1, Len(data)) + 1, R!Done(i, Len(data)))
<1>1. Len(data) \in Nat
  BY LenProperties
<1>2. CASE burst /\ ram_hardware = "swapped"
  <2>1. R!Done(i - 1, Len(data)) = 0 /\ R!Done(i, Len(data)) = Len(data)
    BY <1>1, <1>2, InPieces
  <2>2. R!Piece(data, i) = data
    BY <1>2, PieceIs
  <2>3. Wire(data, burst) \in Seq(RamBytes) /\ Len(Wire(data, burst)) = Len(data)
    BY WireBytes
  <2>4. SubSeq(Wire(data, burst), 1, Len(Wire(data, burst))) = Wire(data, burst)
    BY <2>3, SubSeqFull
  <2> QED
    BY <2>1, <2>2, <2>3, <2>4
<1>3. CASE ~(burst /\ ram_hardware = "swapped")
  <2>1. R!Piece(data, i) \in Seq(RamBytes)
    BY PieceIs
  <2>2. Wire(data, burst) = data /\ Wire(R!Piece(data, i), burst) = R!Piece(data, i)
    BY <1>3, <2>1, OnWireBytes DEF Wire
  <2> QED
    BY <2>2 DEF R!Piece
<1> QED
  BY <1>2, <1>3

LEMMA OverOn ==
  ASSUME NEW n \in Nat, NEW mem \in [0..n - 1 -> RamBytes], NEW c \in Nat, NEW out \in Seq(RamBytes),
         NEW e \in 0..Len(out), NEW d \in 0..e
  PROVE  Over(Over(mem, c, SubSeq(out, 1, d)), c + d, SubSeq(out, d + 1, e)) = Over(mem, c, SubSeq(out, 1, e))
<1> DEFINE a == SubSeq(out, 1, d)
           b == SubSeq(out, d + 1, e)
           f == SubSeq(out, 1, e)
<1>1. Len(out) \in Nat /\ d \in 0..Len(out) /\ 0 \in 0..d /\ 0 \in 0..e /\ 0 + 1 = 1 /\ d - 0 = d /\ e - 0 = e
      /\ d \in Nat /\ e \in Nat /\ d <= e
  BY LenProperties
<1>2. a \in Seq(RamBytes) /\ Len(a) = d /\ \A i \in 1..d : a[i] = out[0 + i]
  BY <1>1, Excerpt
<1>3. b \in Seq(RamBytes) /\ Len(b) = e - d /\ \A i \in 1..e - d : b[i] = out[d + i]
  BY <1>1, Excerpt
<1>4. f \in Seq(RamBytes) /\ Len(f) = e /\ \A i \in 1..e : f[i] = out[0 + i]
  BY <1>1, Excerpt
<1> HIDE DEF a, b, f
<1>5. Over(mem, c, a) = [x \in 0..n - 1 |-> IF x - c \in 0..d - 1 THEN a[x - c + 1] ELSE mem[x]]
  BY <1>2 DEF Over
<1>6. Over(Over(mem, c, a), c + d, b)
        = [x \in 0..n - 1 |-> IF x - (c + d) \in 0..(e - d) - 1 THEN b[x - (c + d) + 1] ELSE Over(mem, c, a)[x]]
  BY <1>3, <1>5 DEF Over
<1>7. Over(mem, c, f) = [x \in 0..n - 1 |-> IF x - c \in 0..e - 1 THEN f[x - c + 1] ELSE mem[x]]
  BY <1>4 DEF Over
<1>8. ASSUME NEW x \in 0..n - 1
      PROVE  (IF x - (c + d) \in 0..(e - d) - 1 THEN b[x - (c + d) + 1] ELSE Over(mem, c, a)[x])
               = IF x - c \in 0..e - 1 THEN f[x - c + 1] ELSE mem[x]
  <2>1. CASE x - (c + d) \in 0..(e - d) - 1
    <3>1. PICK i \in 1..e - d : i = x - (c + d) + 1 /\ d + i = x - c + 1 /\ d + i = 0 + (x - c + 1)
      BY <1>1, <2>1
    <3>2. x - c \in 0..e - 1 /\ x - c + 1 \in 1..e
      BY <1>1, <2>1
    <3>3. b[i] = out[d + i] /\ f[x - c + 1] = out[0 + (x - c + 1)]
      BY <1>3, <1>4, <3>2
    <3> QED
      BY <2>1, <3>1, <3>2, <3>3
  <2>2. CASE x - (c + d) \notin 0..(e - d) - 1
    <3>1. Over(mem, c, a)[x] = IF x - c \in 0..d - 1 THEN a[x - c + 1] ELSE mem[x]
      BY <1>5
    <3>2. x - c \in 0..d - 1 <=> x - c \in 0..e - 1
      BY <1>1, <2>2
    <3>3. CASE x - c \in 0..d - 1
      <4>1. PICK i \in 1..d : i = x - c + 1 /\ i \in 1..e
        BY <1>1, <3>3
      <4>2. a[i] = out[0 + i] /\ f[i] = out[0 + i]
        BY <1>2, <1>4, <4>1
      <4> QED
        BY <2>2, <3>1, <3>2, <3>3, <4>1, <4>2
    <3> QED
      BY <2>2, <3>1, <3>2, <3>3
  <2> QED
    BY <2>1, <2>2
<1>9. Over(Over(mem, c, a), c + d, b) = Over(mem, c, f)
  BY <1>6, <1>7, <1>8
<1> QED
  BY <1>9 DEF a, b, f

(* Every piece of l bytes from a on has an address, and the chip is not     *)
(* reached over its end, from place c on.                                   *)
Addressed(a, l) == \A i \in 1..R!Pieces(l) : a + R!Done(i - 1, l) < Base * Base * Base

(* What a piece finds that starts d bytes behind the first.                 *)
LEMMA FitsOn ==
  ASSUME NEW n \in Nat, NEW a \in Nat, NEW c, NEW l \in Nat, Fits(c, a, n, l), NEW d \in 0..l, NEW e \in d..l, d < l
  PROVE  Fits(IF n = 0 THEN (a + d) % n ELSE c + d, a + d, n, e - d)
<1>1. d \in Nat /\ e \in Nat /\ d <= e /\ e <= l
  OBVIOUS
<1>2. CASE n = 0
  BY <1>2 DEF Fits
<1>3. CASE n # 0
  <2>1. PICK p \in 0..n - 1 : p = a % n
    BY <1>3
  <2>2. c = p /\ p + l <= n
    BY <1>3, <2>1 DEF Fits
  <2>3. PICK q \in Nat : a = q * n + p
    <3>1. a \div n \in Nat /\ a % n \in 0..n - 1 /\ a = (a \div n) * n + (a % n)
      BY <1>3, DivThere
    <3> QED
      BY <2>1, <3>1
  <2>4. PICK y \in Nat : y = q * n
    OBVIOUS
  <2>5. a + d = q * n + (p + d)
    BY <1>1, <2>3, <2>4
  <2>6. p + d \in 0..n - 1 /\ p + d + (e - d) <= n
    BY <1>1, <2>2
  <2>7. (q * n + (p + d)) % n = p + d
    BY <1>3, <2>6, DivIs
  <2>8. (a + d) % n = c + d
    BY <2>2, <2>5, <2>7
  <2> QED
    BY <1>3, <2>2, <2>6, <2>8 DEF Fits
<1> QED
  BY <1>2, <1>3

(* Written piece by piece as it would be in one.                            *)
WriteRound(u, i, a, data, burst) == WritePiece(u, a + R!Done(i - 1, Len(data)), R!Piece(data, i), burst)

(* spiramWrite, by induction on its pieces.                                 *)
LEMMA AllWritten ==
  ASSUME R!SpiramAssumption, NEW n \in Nat, NEW mem \in [0..n - 1 -> RamBytes], NEW s, AtEase(s, n, mem), NEW a \in Nat,
         NEW data \in Seq(RamBytes), Addressed(a, Len(data)), NEW burst \in BOOLEAN,
         burst /\ ram_hardware = "swapped" => Len(data) <= BurstMax, NEW c, Fits(c, a, n, Len(data))
  PROVE  AtEase(R!spiramWrite(s, a, data, burst), n, Stored(mem, n, c, Wire(data, burst)))
<1> DEFINE k == R!Pieces(Len(data))
           X == {u \in Units(n) : u.order = TRUE /\ u.chip.selected = FALSE}
           F == [i \in 1..k |-> [u \in X |-> WriteRound(u, i, a, data, burst)]]
           Spot(i) == IF n = 0 THEN (a + R!Done(i - 1, Len(data))) % n ELSE c + R!Done(i - 1, Len(data))
<1>1. k \in Nat /\ s \in X /\ Len(data) \in Nat
  <2>1. Len(data) \in Nat
    BY LenProperties
  <2>2. s \in X
    BY DEF AtEase
  <2> QED
    BY <2>1, <2>2, InPieces
<1>2. ASSUME NEW u \in X, NEW i \in 1..k
      PROVE  /\ WriteRound(u, i, a, data, burst) \in X
             /\ AtEase(WriteRound(u, i, a, data, burst), n,
                       Stored(u.chip.mem, n, Spot(i), Wire(R!Piece(data, i), burst)))
  <2> DEFINE l == Len(data)
             d == R!Done(i - 1, l)
             e == R!Done(i, l)
             piece == R!Piece(data, i)
             m == u.chip.mem
  <2>1. i - 1 \in 0..k /\ i \in 0..k
    BY <1>1
  <2>2. /\ d \in 0..l /\ e \in d..l /\ d < l /\ piece \in Seq(RamBytes) /\ Len(piece) \in 1..BurstMax
        /\ Len(piece) = e - d
    <3>1. piece \in Seq(RamBytes) /\ Len(piece) \in 1..BurstMax /\ Len(piece) = e - d
      BY PieceIs
    <3>2. d \in 0..l /\ e \in 0..l /\ d < e
      BY <1>1, <2>1, InPieces
    <3> QED
      BY <1>1, <3>1, <3>2
  <2>3. a + d \in Nat /\ a + d < Base * Base * Base
    BY <2>2 DEF Addressed
  <2>4. AtEase(u, n, m) /\ m \in [0..n - 1 -> RamBytes]
    BY DEF AtEase, Units, Chips
  <2> DEFINE p == IF n = 0 THEN (a + d) % n ELSE c + d
  <2>5. Fits(p, a + d, n, e - d)
    <3> HIDE DEF d, e, l
    <3>1. l \in Nat /\ Fits(c, a, n, l)
      BY <1>1 DEF l
    <3> QED
      BY <2>2, <3>1, FitsOn
  <2> HIDE DEF m, p, d, e, piece
  <2>6. Fits(p, a + d, n, Len(piece))
    BY <2>2, <2>5
  <2>7. AtEase(WritePiece(u, a + d, piece, burst), n, Stored(m, n, p, Wire(piece, burst)))
    <3>1. a + d \in Nat /\ a + d < Base * Base * Base /\ piece \in Seq(RamBytes) /\ Len(piece) \in 1..BurstMax
      BY <2>2, <2>3
    <3> QED
      BY <2>4, <2>6, <3>1, EaseStored, Zenon
  <2>8. WriteRound(u, i, a, data, burst) = WritePiece(u, a + d, piece, burst)
    BY DEF WriteRound, d, piece
  <2>9. AtEase(WriteRound(u, i, a, data, burst), n, Stored(m, n, p, Wire(piece, burst)))
    BY <2>7, <2>8
  <2>10. WriteRound(u, i, a, data, burst) \in X
    BY <2>9 DEF AtEase
  <2> QED
    BY <2>9, <2>10, Zenon DEF m, p, d, piece
<1> HIDE DEF Spot
<1> HIDE DEF k, X
<1>3. F \in [1..k -> [X -> X]]
  BY <1>2
<1>4. PICK m \in [0..k -> X] : IsRun(m, F, s, k)
  BY <1>1, <1>3, Made
<1> DEFINE IsMade(f) == f = [i \in 0..k |-> IF i = 0 THEN s ELSE WriteRound(f[i - 1], i, a, data, burst)]
           w == CHOOSE f : IsMade(f)
<1>5. IsMade(m)
  <2>1. ASSUME NEW i \in 0..k PROVE m[i] = IF i = 0 THEN s ELSE WriteRound(m[i - 1], i, a, data, burst)
    <3> SUFFICES ASSUME i # 0 PROVE m[i] = WriteRound(m[i - 1], i, a, data, burst)
      BY <1>4 DEF IsRun
    <3>1. i \in 1..k /\ i - 1 \in 0..k
      BY <1>1
    <3>2. m[i - 1] \in X
      BY <3>1
    <3> QED
      BY <1>4, <3>1, <3>2 DEF F, IsRun
  <2>2. m = [i \in 0..k |-> m[i]]
    OBVIOUS
  <2> QED
    BY <2>1, <2>2, Zenon
<1>6. IsMade(w)
  BY <1>5, Zenon
<1>7. R!spiramWrite(s, a, data, burst) = w[k]
  BY Zenon DEF R!spiramWrite, R!Rounds, WriteRound, WritePiece, k
<1> HIDE DEF w, F
<1>8. w[0] = s /\ \A i \in 1..k : w[i] = WriteRound(w[i - 1], i, a, data, burst)
  <2>1. ASSUME NEW i \in 0..k PROVE w[i] = IF i = 0 THEN s ELSE WriteRound(w[i - 1], i, a, data, burst)
    BY <1>6
  <2>2. 0 \in 0..k /\ \A i \in 1..k : i \in 0..k /\ i # 0
    BY <1>1
  <2> QED
    BY <2>1, <2>2
<1>9. w \in [0..k -> X]
  <2>1. w = [i \in 0..k |-> w[i]]
    BY <1>6
  <2>2. ASSUME NEW i \in 1..k, w[i - 1] \in X PROVE w[i] \in X
    BY <1>2, <1>8, <2>2
  <2> QED
    BY <1>1, <1>8, <2>1, <2>2, Stays
<1> DEFINE l == Len(data)
           out == Wire(data, burst)
           Is(i) == Stored(mem, n, c, SubSeq(out, 1, R!Done(i, l)))
           good == {i \in 0..k : AtEase(w[i], n, Is(i))}
<1>10. out \in Seq(RamBytes) /\ Len(out) = l /\ l \in Nat
  BY <1>1, WireBytes
<1>11. \A i \in 0..k : R!Done(i, l) \in 0..l
  BY <1>1, InPieces DEF k
<1>12. R!Done(0, l) = 0 /\ R!Done(k, l) = l
  BY <1>1, InPieces DEF k
<1>13. \A i \in 1..k : R!Done(i - 1, l) < R!Done(i, l)
  BY <1>1, InPieces DEF k
<1> HIDE DEF out
<1>14. 0 \in good
  <2>1. SubSeq(out, 1, 0) = <<>>
    BY SubSeqEmpty
  <2>2. Stored(mem, n, c, <<>>) = mem
    BY DEF Stored, Over
  <2>3. Is(0) = mem
    BY <1>12, <2>1, <2>2
  <2> HIDE DEF Is
  <2>4. AtEase(w[0], n, Is(0)) /\ 0 \in 0..k
    BY <1>1, <1>8, <2>3
  <2> QED
    BY <2>4
<1>15. ASSUME NEW i \in 0..k - 1, i \in good PROVE i + 1 \in good
  <2>1. PICK j \in 1..k : j = i + 1 /\ j - 1 = i /\ i \in 0..k /\ j \in 0..k
    BY <1>1
  <2>2. w[i] \in X /\ AtEase(w[i], n, Is(i))
    BY <1>9, <1>15, <2>1
  <2> DEFINE x == R!Done(i, l)
             y == R!Done(j, l)
  <2>3. x \in 0..y /\ y \in 0..l /\ x \in Nat
    <3>1. x \in 0..l /\ y \in 0..l /\ x < y
      BY <1>11, <1>13, <2>1
    <3> QED
      BY <1>10, <3>1
  <2>4. w[i].chip.mem = Is(i)
    BY <2>2 DEF AtEase
  <2>5. Wire(R!Piece(data, j), burst) = SubSeq(out, x + 1, y)
    BY <2>1, WireInPieces DEF k, out
  <2>6. Spot(j) = IF n = 0 THEN (a + x) % n ELSE c + x
    BY <2>1 DEF Spot
  <2>7. w[j] = WriteRound(w[j - 1], j, a, data, burst)
    BY <1>8
  <2>8. AtEase(w[j], n, Stored(w[i].chip.mem, n, Spot(j), SubSeq(out, x + 1, y)))
    BY <1>2, <2>1, <2>2, <2>5, <2>7
  <2>9. Stored(Is(i), n, Spot(j), SubSeq(out, x + 1, y)) = Is(j)
    <3>1. CASE n = 0
      BY <3>1 DEF Stored
    <3>2. CASE n # 0
      <4>1. c \in Nat
        BY <3>2 DEF Fits
      <4> HIDE DEF x, y, l
      <4>2. Over(Over(mem, c, SubSeq(out, 1, x)), c + x, SubSeq(out, x + 1, y)) = Over(mem, c, SubSeq(out, 1, y))
        BY <1>10, <2>3, <4>1, OverOn
      <4> QED
        BY <2>6, <3>2, <4>2 DEF Stored, x, y
    <3> QED
      BY <3>1, <3>2
  <2> HIDE DEF Is
  <2>10. AtEase(w[j], n, Is(j))
    BY <2>4, <2>8, <2>9
  <2> QED
    BY <2>1, <2>10
<1> HIDE DEF good
<1>16. k \in good
  <2>1. \A i \in 0..k : i \in good
    BY <1>1, <1>14, <1>15, UpTo
  <2> QED
    BY <1>1, <2>1
<1>17. SubSeq(out, 1, l) = out
  BY <1>10, SubSeqFull
<1>18. AtEase(w[k], n, Stored(mem, n, c, out))
  BY <1>12, <1>16, <1>17 DEF good
<1> QED
  BY <1>7, <1>18 DEF out

(* A part of what is read.                                                  *)
Shifted(p, n, c, d) == n > 0 => p = c + d
IsPart(reply, all, d, e) == reply = SubSeq(all, d + 1, e)

LEMMA ReplyPart ==
  ASSUME R!SpiramAssumption, NEW n \in Nat, NEW mem \in [0..n - 1 -> RamBytes], NEW a \in Nat, NEW c, NEW l \in Nat,
         Fits(c, a, n, l), NEW d \in 0..l, NEW e \in d..l, NEW p, Shifted(p, n, c, d)
  PROVE  IsPart(Reply(mem, n, p, e - d), Reply(mem, n, c, l), d, e)
<1> USE DEF Shifted, IsPart
<1> DEFINE all == Reply(mem, n, c, l)
           part == Reply(mem, n, p, e - d)
           b == SubSeq(all, d + 1, e)
<1>1. d \in Nat /\ e \in Nat /\ d <= e /\ e <= l /\ e - d \in Nat
  OBVIOUS
<1>2. all \in Seq(RamBytes) /\ Len(all) = l /\ \A k \in 1..l : all[k] = ReplyAt(mem, n, c, k - 1)
  <2>1. IsReply(all, mem, n, c, l)
    BY ReplyIs, Zenon
  <2> HIDE DEF all
  <2> QED
    BY <2>1 DEF IsReply
<1> HIDE DEF all
<1>3. e \in 0..Len(all) /\ d \in 0..e
  BY <1>1, <1>2
<1>4. b \in Seq(RamBytes) /\ Len(b) = e - d /\ \A k \in 1..e - d : b[k] = all[d + k]
  BY <1>2, <1>3, Excerpt
<1>5. part = [k \in 1..e - d |-> ReplyAt(mem, n, p, k - 1)]
  <2>1. CASE n = 0
    BY <2>1 DEF Reply, Nothing, ReplyAt
  <2>2. CASE n # 0
    <3>1. c \in Nat /\ p \in Nat
      BY <1>1, <2>2 DEF Fits
    <3>2. \A k \in 1..e - d : p + k - 1 = p + (k - 1)
      BY <1>1, <3>1
    <3>3. part = [k \in 1..e - d |-> mem[p + k - 1]]
      BY <2>2 DEF Reply, Found
    <3> HIDE DEF part
    <3> QED
      BY <2>2, <3>2, <3>3 DEF ReplyAt
  <2> QED
    BY <2>1, <2>2
<1> HIDE DEF part, b
<1>6. ASSUME NEW k \in 1..e - d PROVE ReplyAt(mem, n, p, k - 1) = b[k]
  <2>1. PICK j \in 1..l : j = d + k
    BY <1>1
  <2>2. b[k] = ReplyAt(mem, n, c, d + k - 1)
    <3>1. b[k] = all[j] /\ all[j] = ReplyAt(mem, n, c, j - 1)
      BY <1>2, <1>4, <2>1
    <3> QED
      BY <2>1, <3>1
  <2>3. n # 0 => p + (k - 1) = c + (d + k - 1)
    <3>1. n # 0 => c \in Nat /\ p = c + d
      BY DEF Fits
    <3> QED
      BY <1>1, <3>1
  <2> QED
    BY <2>2, <2>3 DEF ReplyAt
<1>7. part = [k \in 1..e - d |-> b[k]]
  BY <1>5, <1>6
<1>8. part = b
  BY <1>4, <1>7
<1> QED
  BY <1>8 DEF part, b, all

(* Read piece by piece as it would be in one.                               *)
ReadRound(r, i, a, m, burst) ==
  LET read == R!spi_cmd_read(R!ChipSelect(r[1]), 3, a + R!Done(i - 1, m), R!Done(i, m) - R!Done(i - 1, m), burst)
  IN  <<R!ChipDeselect(read[1]), r[2] \o read[2]>>

(* spiramRead, by induction on its pieces.                                  *)
LEMMA AllRead ==
  ASSUME R!SpiramAssumption, NEW n \in Nat, NEW mem \in [0..n - 1 -> RamBytes], NEW s, AtEase(s, n, mem), NEW a \in Nat,
         NEW l \in Nat, Addressed(a, l), NEW burst \in BOOLEAN,
         burst /\ ram_hardware = "swapped" => l <= BurstMax, NEW c, Fits(c, a, n, l)
  PROVE  PieceIsRead(R!spiramRead(s, a, l, burst), n, mem, Wire(Reply(mem, n, c, l), burst))
<1> DEFINE k == R!Pieces(l)
           all == Reply(mem, n, c, l)
           out == Wire(all, burst)
           At == {u \in Units(n) : AtEase(u, n, mem)}
           X == At \X Seq(RamBytes)
           start == <<s, <<>>>>
           F == [i \in 1..k |-> [u \in X |-> ReadRound(u, i, a, l, burst)]]
           Part(i) == SubSeq(out, R!Done(i - 1, l) + 1, R!Done(i, l))
<1>0. all \in Seq(RamBytes) /\ Len(all) = l
  <2>1. IsReply(all, mem, n, c, l)
    BY ReplyIs, Zenon
  <2> HIDE DEF all
  <2> QED
    BY <2>1 DEF IsReply
<1>1. k \in Nat /\ start \in X
  <2>1. s \in At
    BY DEF AtEase
  <2>2. <<>> \in Seq(RamBytes) /\ k \in Nat
    BY InPieces
  <2> HIDE DEF At, k
  <2> QED
    BY <2>1, <2>2
<1>11. \A i \in 0..k : R!Done(i, l) \in 0..l
  BY InPieces
<1>12. R!Done(0, l) = 0 /\ R!Done(k, l) = l
  BY InPieces
<1>13. \A i \in 1..k : R!Done(i - 1, l) < R!Done(i, l) /\ R!Done(i, l) - R!Done(i - 1, l) \in 1..BurstMax
  BY InPieces
<1> HIDE DEF all
<1>14. out \in Seq(RamBytes) /\ Len(out) = l
  BY <1>0, WireBytes
<1> HIDE DEF out, start
<1>2. ASSUME NEW u \in X, NEW i \in 1..k
      PROVE  ReadRound(u, i, a, l, burst) \in X /\ ReadRound(u, i, a, l, burst)[2] = u[2] \o Part(i)
  <2> DEFINE d == R!Done(i - 1, l)
             e == R!Done(i, l)
             v == u[1]
             p == IF n = 0 THEN (a + d) % n ELSE c + d
             r == ReadPiece(v, a + d, e - d, burst)
             t == ReadRound(u, i, a, l, burst)
  <2>1. v \in At /\ u[2] \in Seq(RamBytes) /\ AtEase(v, n, mem)
    BY DEF X
  <2>2. d \in 0..l /\ e \in d..l /\ d < l /\ e - d \in 1..BurstMax
    <3>1. i - 1 \in 0..k /\ i \in 0..k
      BY <1>1
    <3>2. d \in 0..l /\ e \in 0..l /\ d < e /\ e - d \in 1..BurstMax
      BY <1>11, <1>13, <3>1
    <3> QED
      BY <3>2
  <2>3. a + d \in Nat /\ a + d < Base * Base * Base
    BY <2>2 DEF Addressed
  <2>4. t = <<r[1], u[2] \o r[2]>>
    BY DEF ReadRound, ReadPiece
  <2>5. R!Piece(all, i) = SubSeq(all, d + 1, e)
    BY <1>0 DEF R!Piece
  <2>6. Wire(R!Piece(all, i), burst) = Part(i)
    <3>1. (burst /\ ram_hardware = "swapped" => Len(all) <= BurstMax) /\ i \in 1..R!Pieces(Len(all))
      BY <1>0
    <3>2. Wire(R!Piece(all, i), burst) = SubSeq(Wire(all, burst), R!Done(i - 1, Len(all)) + 1, R!Done(i, Len(all)))
      BY <1>0, <3>1, WireInPieces
    <3> QED
      BY <1>0, <3>2 DEF out
  <2> HIDE DEF d, e, v, t, Part
  <2>7. Fits(p, a + d, n, e - d)
    BY <2>2, FitsOn
  <2>8. Reply(mem, n, p, e - d) = SubSeq(all, d + 1, e)
    <3>1. Shifted(p, n, c, d) /\ d \in 0..l /\ e \in d..l
      BY <2>2 DEF Shifted
    <3> HIDE DEF p
    <3>2. IsPart(Reply(mem, n, p, e - d), Reply(mem, n, c, l), d, e)
      BY <3>1, ReplyPart, Zenon
    <3> QED
      BY <3>2 DEF all, IsPart
  <2>9. PieceIsRead(r, n, mem, Wire(Reply(mem, n, p, e - d), burst))
    <3> HIDE DEF p
    <3> QED
      BY <2>1, <2>2, <2>3, <2>7, EaseRead, Zenon
  <2> HIDE DEF p, r
  <2>10. AtEase(r[1], n, mem) /\ r[2] = Part(i)
    BY <2>5, <2>6, <2>8, <2>9 DEF PieceIsRead
  <2>11. Part(i) \in Seq(RamBytes)
    <3>1. e \in 0..Len(out) /\ d \in 0..e
      BY <1>14, <2>2
    <3> QED
      BY <1>14, <3>1, Excerpt DEF Part, d, e
  <2>12. u[2] \o Part(i) \in Seq(RamBytes)
    BY <2>1, <2>11, ConcatProperties
  <2>13. r[1] \in At
    BY <2>10 DEF AtEase
  <2> HIDE DEF At
  <2>14. t \in X /\ t[2] = u[2] \o Part(i)
    BY <2>4, <2>10, <2>12, <2>13
  <2> QED
    BY <2>14 DEF t
<1> HIDE DEF k, X, Part
<1>3. F \in [1..k -> [X -> X]]
  BY <1>2
<1>4. PICK m \in [0..k -> X] : IsRun(m, F, start, k)
  BY <1>1, <1>3, Made
<1> DEFINE IsMade(f) == f = [i \in 0..k |-> IF i = 0 THEN start ELSE ReadRound(f[i - 1], i, a, l, burst)]
           w == CHOOSE f : IsMade(f)
<1>5. IsMade(m)
  <2>1. ASSUME NEW i \in 0..k PROVE m[i] = IF i = 0 THEN start ELSE ReadRound(m[i - 1], i, a, l, burst)
    <3> SUFFICES ASSUME i # 0 PROVE m[i] = ReadRound(m[i - 1], i, a, l, burst)
      BY <1>4 DEF IsRun
    <3>1. i \in 1..k /\ i - 1 \in 0..k
      BY <1>1
    <3>2. m[i - 1] \in X
      BY <3>1
    <3> QED
      BY <1>4, <3>1, <3>2 DEF F, IsRun
  <2>2. m = [i \in 0..k |-> m[i]]
    OBVIOUS
  <2> QED
    BY <2>1, <2>2, Zenon
<1>6. IsMade(w)
  BY <1>5, Zenon
<1>7. R!spiramRead(s, a, l, burst) = w[k]
  BY Zenon DEF R!spiramRead, R!Rounds, ReadRound, k, start
<1> HIDE DEF w, F
<1>8. w[0] = start /\ \A i \in 1..k : w[i] = ReadRound(w[i - 1], i, a, l, burst)
  <2>1. ASSUME NEW i \in 0..k PROVE w[i] = IF i = 0 THEN start ELSE ReadRound(w[i - 1], i, a, l, burst)
    BY <1>6
  <2>2. 0 \in 0..k /\ \A i \in 1..k : i \in 0..k /\ i # 0
    BY <1>1
  <2> QED
    BY <2>1, <2>2
<1>9. w \in [0..k -> X]
  <2>1. w = [i \in 0..k |-> w[i]]
    BY <1>6
  <2>2. ASSUME NEW i \in 1..k, w[i - 1] \in X PROVE w[i] \in X
    BY <1>2, <1>8, <2>2
  <2> QED
    BY <1>1, <1>8, <2>1, <2>2, Stays
<1> DEFINE good == {i \in 0..k : w[i][2] = SubSeq(out, 1, R!Done(i, l))}
<1>15. 0 \in good
  <2>1. SubSeq(out, 1, 0) = <<>>
    BY SubSeqEmpty
  <2>2. w[0][2] = <<>> /\ 0 \in 0..k
    BY <1>1, <1>8 DEF start
  <2> QED
    BY <1>12, <2>1, <2>2
<1>16. ASSUME NEW i \in 0..k - 1, i \in good PROVE i + 1 \in good
  <2>1. PICK j \in 1..k : j = i + 1 /\ j - 1 = i /\ i \in 0..k /\ j \in 0..k
    BY <1>1
  <2> DEFINE x == R!Done(i, l)
             y == R!Done(j, l)
  <2>2. x \in 0..y /\ y \in 0..Len(out) /\ 0 \in 0..x
    <3>1. x \in 0..l /\ y \in 0..l /\ x < y
      BY <1>11, <1>13, <2>1
    <3> QED
      BY <1>14, <3>1
  <2>3. w[j - 1] \in X
    BY <1>9, <2>1
  <2>4. w[j] = ReadRound(w[j - 1], j, a, l, burst)
    BY <1>8
  <2>5. w[j][2] = w[j - 1][2] \o Part(j)
    BY <1>2, <2>3, <2>4
  <2>6. w[j - 1][2] = SubSeq(out, 1, x) /\ Part(j) = SubSeq(out, x + 1, y)
    BY <1>16, <2>1 DEF Part
  <2>7. SubSeq(out, 1, x) \o SubSeq(out, x + 1, y) = SubSeq(out, 1, y)
    <3> HIDE DEF x, y
    <3> QED
      BY <1>14, <2>2, ExcerptOn
  <2>8. w[j][2] = SubSeq(out, 1, y)
    BY <2>5, <2>6, <2>7
  <2> QED
    BY <2>1, <2>8
<1> HIDE DEF good
<1>17. k \in good
  <2>1. \A i \in 0..k : i \in good
    BY <1>1, <1>15, <1>16, UpTo
  <2> QED
    BY <1>1, <2>1
<1>18. SubSeq(out, 1, l) = out
  BY <1>14, SubSeqFull
<1>19. w[k][2] = out
  BY <1>12, <1>17, <1>18 DEF good
<1>20. AtEase(w[k][1], n, mem)
  <2>1. w[k] \in X
    BY <1>1, <1>9
  <2> QED
    BY <2>1 DEF X
<1> QED
  BY <1>7, <1>19, <1>20 DEF PieceIsRead, out, all

(* What the chip holds, and in what step of the boot.                       *)
Holds(c, data) == Found(ram_spi.chip.mem, c, Len(data)) = data
Straight == ram_spi_burst_enabled => ram_hardware # "swapped"
(* The size that is tried is a multiple of the first address tried, and     *)
(* divides that of the chip.                                                *)
Doubled(n) == \E p \in Nat \ {0}, d \in Nat \ {0} : ram_size = ProbeFrom * p /\ n = ram_size * d

BootAt(n) ==
  /\ ram_pc \in {"boot", "tried"} => ~ram_spiram /\ ram_spi_burst_enabled
  /\ ram_pc = "tried" => (n > 0 => Holds(0, OnWire(R!Text)))
  /\ ram_pc \in {"burst out", "bytes in"} => ram_spi_burst_enabled
  /\ ram_pc \notin {"boot", "tried", "run"} => ram_spiram /\ n > 0
  /\ ram_pc \in {"boot", "tried", "burst out", "bytes in", "bytes out", "burst in", "probe", "probed"} => ram_size = 0
  /\ ram_pc = "bytes in" => Holds(ProbeFrom % n, OnWire(R!Pattern))
  /\ ram_pc \in {"bytes out", "burst in", "probe", "probed", "at", "zero", "there"} => Straight
  /\ ram_pc = "run" /\ n > 0 => Straight
  /\ ram_pc \in {"probed", "at", "there"} => Holds(0, R!Pa)
  /\ ram_pc \in {"at", "zero", "there"} => Doubled(n)
  /\ ram_pc \in {"zero", "there"} => ram_size < Base * Base * Base
  /\ ram_pc = "zero" => Holds(0, IF ram_size = n THEN R!Pb ELSE R!Pa)
  /\ ram_pc = "there" => ram_size # n
  /\ ram_pc \in {"zero", "there"} /\ ram_size # n => Holds(ram_size, R!Pb)
  /\ ram_pc = "run" => /\ (ram_spiram => n > 0) /\ (n > 0 => ram_spiram) /\ ram_size = n
                       /\ ram_memory = ram_spi.chip.mem /\ ram_got = ram_wanted

RamTypes(n) ==
  /\ ram_hardware \in {"little", "swapped"} /\ ram_spiram \in BOOLEAN /\ ram_spi_burst_enabled \in BOOLEAN
  /\ ram_pc \in {"boot", "tried", "burst out", "bytes in", "bytes out", "burst in", "probe", "probed", "at", "zero",
             "there", "run"}
  /\ n \in Sizes /\ AtEase(ram_spi, n, ram_spi.chip.mem) /\ ram_spi.wire = <<>>

RamInv == \E n \in Sizes : RamTypes(n) /\ BootAt(n)

(* The memories there may be, and where a probe of a few bytes is in them.  *)
LEMMA SizesAre ==
  ASSUME R!SpiramAssumption, NEW n \in Sizes
  PROVE  /\ n \in Nat /\ n <= Base * Base * Base /\ ProbeFrom \in Nat /\ ProbeFrom >= 8
         /\ ProbeFrom < Base * Base * Base /\ (n = 0 => SdiMode # 2)
         /\ n > 0 => \E q \in Nat : /\ q > 0 /\ n = ProbeFrom * q
                                    /\ \A p \in 1..q, d \in 2..q : q = p * d => \E h \in 1..d : d = 2 * h
<1>1. Base * Base * Base \in Nat
  BY Constants
<1>2. n \in Nat /\ n <= Base * Base * Base
  <2>1. CASE n = 0
    BY <1>1, <2>1
  <2>2. CASE n # 0
    BY <2>2 DEF R!SpiramAssumption
  <2> QED
    BY <2>1, <2>2
<1>3. /\ ProbeFrom \in Nat /\ ProbeFrom >= 8 /\ ProbeFrom < Base * Base * Base /\ (n = 0 => SdiMode # 2)
  BY DEF R!SpiramAssumption
<1>4. ASSUME n > 0
      PROVE  \E q \in Nat : /\ q > 0 /\ n = ProbeFrom * q
                            /\ \A p \in 1..q, d \in 2..q : q = p * d => \E h \in 1..d : d = 2 * h
  <2>1. n \in Sizes \ {0}
    BY <1>4
  <2>2. PICK q \in 1..n : /\ n = ProbeFrom * q
                          /\ \A p \in 1..q, d \in 2..q : q = p * d => \E h \in 1..d : d = 2 * h
    BY <2>1, Zenon DEF R!SpiramAssumption
  <2>3. q \in Nat /\ q > 0
    BY <1>2
  <2> QED
    BY <2>2, <2>3
<1> QED
  BY <1>2, <1>3, <1>4

(* What is written in the boot.                                             *)
Few(data) == data \in Seq(RamBytes) /\ Len(data) \in 1..5
(* The patterns of the boot are a few bytes each.                           *)
LEMMA BootData ==
  ASSUME R!SpiramAssumption
  PROVE  /\ Few(R!Text) /\ Few(R!Pattern) /\ Few(R!Pa) /\ Few(R!Pb) /\ Few(R!Inverted(R!Pattern))
         /\ Len(R!Text) = 4 /\ Len(R!Pattern) = 5 /\ Len(R!Pa) = 4 /\ Len(R!Pb) = 4 /\ Len(R!Inverted(R!Pattern)) = 5
<1>1. Base \in Nat /\ Base >= 4
  BY Constants
<1> QED
  BY <1>1 DEF Few, R!Text, R!Pattern, R!Pa, R!Pb, R!Inverted, RamBytes

(* The inverted pattern is another one.                                     *)
LEMMA PbIsOther == ASSUME R!SpiramAssumption PROVE R!Pb # R!Pa
<1>1. Base \in Nat /\ Base >= 4
  BY Constants
<1>2. R!Pb[1] = Base - 1 - 1 /\ R!Pa[1] = 1
  BY DEF R!Pa, R!Pb, R!Inverted
<1> QED
  BY <1>1, <1>2

(* Text that goes out and comes back turned is itself; silence is not.      *)
LEMMA TextTurned ==
  ASSUME R!SpiramAssumption
  PROVE  OnWire(OnWire(R!Text)) = R!Text /\ OnWire(Nothing(4)) # R!Text
<1>1. R!Text \in Seq(RamBytes) /\ Len(R!Text) = 4
  BY BootData DEF Few
<1> DEFINE d == OnWire(R!Text)
           z == Nothing(4)
           Q(k) == IF ram_hardware = "swapped" THEN 4 * ((k - 1) \div 4) + (4 - ((k - 1) % 4)) ELSE k
<1>2. d \in Seq(RamBytes) /\ Len(d) = 4 /\ OnWire(d) \in Seq(RamBytes) /\ Len(OnWire(d)) = 4
  BY <1>1, OnWireBytes
<1>3. \A k \in 1..4 : Q(k) \in 1..4 /\ Q(Q(k)) = k
  OBVIOUS
<1>4. \A k \in 1..4 : d[k] = R!Text[Q(k)]
  <2> HIDE DEF Q
  <2>1. d = [k \in 1..4 |-> IF Q(k) <= Len(R!Text) THEN R!Text[Q(k)] ELSE 0]
    BY <1>1 DEF OnWire, Q
  <2> QED
    BY <1>1, <1>3, <2>1
<1>5. \A k \in 1..4 : OnWire(d)[k] = d[Q(k)]
  <2> HIDE DEF Q, d
  <2>1. OnWire(d) = [k \in 1..4 |-> IF Q(k) <= Len(d) THEN d[Q(k)] ELSE 0]
    BY <1>2 DEF OnWire, Q
  <2> QED
    BY <1>2, <1>3, <2>1
<1> HIDE DEF d, Q
<1>6. \A k \in 1..4 : OnWire(d)[k] = R!Text[k]
  BY <1>3, <1>4, <1>5
<1>7. OnWire(d) = R!Text
  BY <1>1, <1>2, <1>6, SeqEqual
<1>8. z \in Seq(RamBytes) /\ Len(z) = 4
  BY NothingBytes
<1>9. OnWire(z)[1] = 0
  <2>1. OnWire(z) = [k \in 1..4 |-> IF Q(k) <= Len(z) THEN z[Q(k)] ELSE 0]
    BY <1>8, Zenon DEF OnWire, Q
  <2>2. Q(1) \in 1..4 /\ 1 \in 1..4
    BY <1>3
  <2>3. z[Q(1)] = 0
    BY <2>2 DEF Nothing
  <2> HIDE DEF z
  <2> QED
    BY <2>1, <2>2, <2>3
<1>10. R!Text[1] = 3
  BY DEF R!Text
<1> QED
  BY <1>7, <1>9, <1>10 DEF d

(* The pattern has a partial word, and is another one when it is turned.    *)
LEMMA PatternTurned ==
  ASSUME ram_hardware = "swapped"
  PROVE  OnWire(R!Pattern) # R!Pattern
<1>1. Len(R!Pattern) = 5 /\ R!Pattern[2] = 0 /\ R!Pattern[3] = 2
  BY DEF R!Pattern
<1>2. OnWire(R!Pattern)[2] = R!Pattern[3]
  BY <1>1 DEF OnWire
<1> QED
  BY <1>1, <1>2

(* What was written is there, and what is before it is as it was.           *)
LEMMA OverHolds ==
  ASSUME NEW n \in Nat, NEW mem \in [0..n - 1 -> RamBytes], NEW c \in Nat, NEW out \in Seq(RamBytes), c + Len(out) <= n
  PROVE  Found(Over(mem, c, out), c, Len(out)) = out
<1>1. PICK l \in Nat : l = Len(out)
  BY LenProperties
<1>2. Over(mem, c, out) = [x \in 0..n - 1 |-> IF x - c \in 0..l - 1 THEN out[x - c + 1] ELSE mem[x]]
  BY <1>1 DEF Over
<1>3. ASSUME NEW k \in 1..l PROVE Over(mem, c, out)[c + k - 1] = out[k]
  <2>1. PICK x \in 0..n - 1 : x = c + k - 1 /\ x - c \in 0..l - 1 /\ x - c + 1 = k
    BY <1>1
  <2> QED
    BY <1>2, <2>1
<1>4. Found(Over(mem, c, out), c, Len(out)) = [k \in 1..l |-> out[k]]
  BY <1>1, <1>3 DEF Found
<1> QED
  BY <1>1, <1>4

LEMMA OverApart ==
  ASSUME NEW n \in Nat, NEW mem \in [0..n - 1 -> RamBytes], NEW c \in Nat, NEW out \in Seq(RamBytes), NEW l \in Nat,
         l <= c, l <= n
  PROVE  Found(Over(mem, c, out), 0, l) = Found(mem, 0, l)
<1>1. Over(mem, c, out) = [x \in 0..n - 1 |-> IF x - c \in 0..Len(out) - 1 THEN out[x - c + 1] ELSE mem[x]]
  BY DEF Over
<1>2. ASSUME NEW k \in 1..l PROVE Over(mem, c, out)[0 + k - 1] = mem[0 + k - 1]
  <2>1. PICK x \in 0..n - 1 : x = 0 + k - 1 /\ x - c \notin 0..Len(out) - 1
    OBVIOUS
  <2> QED
    BY <1>1, <2>1
<1> QED
  BY <1>2 DEF Found

(* A few bytes go in one piece, to any address.                             *)
LEMMA FewAddressed ==
  ASSUME R!SpiramAssumption, NEW l \in 0..5, NEW a \in Nat, a < Base * Base * Base
  PROVE  Addressed(a, l) /\ l <= BurstMax
<1>1. l \in Nat /\ l <= BurstMax
  BY Constants
<1>2. \A i \in 1..R!Pieces(l) : R!Done(i - 1, l) = 0
  BY <1>1, InPieces
<1> QED
  BY <1>1, <1>2 DEF Addressed

LEMMA ClearedEase ==
  ASSUME NEW n, NEW mem, NEW s, AtEase(s, n, mem)
  PROVE  AtEase([s EXCEPT !.wire = <<>>], n, mem) /\ [s EXCEPT !.wire = <<>>].wire = <<>>
<1> DEFINE t == [s EXCEPT !.wire = <<>>]
<1>1. s \in Units(n) /\ s.order = TRUE /\ s.chip.selected = FALSE /\ s.chip.mem = mem
  BY DEF AtEase
<1>2. <<>> \in Seq(RamBytes)
  BY EmptySeq
<1>3. t \in Units(n)
  BY <1>1, <1>2 DEF Units
<1>4. t.order = s.order /\ t.chip = s.chip /\ t.wire = <<>>
  BY <1>1 DEF Units
<1> HIDE DEF t
<1>5. AtEase(t, n, mem)
  BY <1>1, <1>3, <1>4 DEF AtEase
<1> QED
  BY <1>4, <1>5 DEF t

(* What a step has done to the chip, which is at rest before and after.     *)
Wrote(n, c, out) == AtEase(ram_spi', n, Stored(ram_spi.chip.mem, n, c, out)) /\ ram_spi'.wire = <<>>
WasRead(n, out) == AtEase(ram_spi', n, ram_spi.chip.mem) /\ ram_spi'.wire = <<>> /\ ram_got' = out

LEMMA AtRest ==
  ASSUME R!SpiramAssumption, NEW n \in Sizes, RamTypes(n)
  PROVE  /\ n \in Nat /\ ram_spi.chip.mem \in [0..n - 1 -> RamBytes] /\ AtEase(ram_spi, n, ram_spi.chip.mem)
         /\ ram_spi_burst_enabled \in BOOLEAN /\ ram_spi.chip.size = n
<1>1. n \in Nat /\ AtEase(ram_spi, n, ram_spi.chip.mem) /\ ram_spi_burst_enabled \in BOOLEAN
  BY SizesAre DEF RamTypes
<1>2. ram_spi \in Units(n)
  BY <1>1 DEF AtEase
<1>3. ram_spi.chip.mem \in [0..n - 1 -> RamBytes] /\ ram_spi.chip.size = n
  BY <1>2 DEF Units, Chips
<1> QED
  BY <1>1, <1>3

(* A write of the boot.                                                     *)
LEMMA WritesIs ==
  ASSUME R!SpiramAssumption, NEW n \in Sizes, RamTypes(n), NEW from, NEW to, NEW a \in Nat, a < Base * Base * Base,
         NEW data, Few(data), NEW c, Fits(c, a, n, Len(data)), R!Writes(from, to, a, data)
  PROVE  Wrote(n, c, Wire(data, ram_spi_burst_enabled))
<1> DEFINE u == R!spiramWrite(ram_spi, a, data, ram_spi_burst_enabled)
           mem == ram_spi.chip.mem
           m == Stored(mem, n, c, Wire(data, ram_spi_burst_enabled))
<1>1. n \in Nat /\ mem \in [0..n - 1 -> RamBytes] /\ AtEase(ram_spi, n, mem) /\ ram_spi_burst_enabled \in BOOLEAN
  BY AtRest
<1>2. data \in Seq(RamBytes) /\ Len(data) \in 0..5
  BY DEF Few
<1>3. Addressed(a, Len(data)) /\ Len(data) <= BurstMax
  BY <1>2, FewAddressed
<1>4. ram_spi_burst_enabled /\ ram_hardware = "swapped" => Len(data) <= BurstMax
  BY <1>3
<1>5. AtEase(u, n, m)
  <2> HIDE DEF mem
  <2> QED
    BY <1>1, <1>2, <1>3, <1>4, AllWritten, Zenon
<1>6. ram_spi' = [u EXCEPT !.wire = <<>>]
  BY DEF R!Writes
<1> HIDE DEF u, m
<1>7. AtEase([u EXCEPT !.wire = <<>>], n, m) /\ [u EXCEPT !.wire = <<>>].wire = <<>>
  BY <1>5, ClearedEase
<1> QED
  BY <1>6, <1>7 DEF Wrote, m

(* A read of the boot.                                                      *)
LEMMA ReadsIs ==
  ASSUME R!SpiramAssumption, NEW n \in Sizes, RamTypes(n), NEW from, NEW a \in Nat, a < Base * Base * Base,
         NEW l \in 1..5, NEW c, Fits(c, a, n, l), R!Reads(from, a, l)
  PROVE  WasRead(n, Wire(Reply(ram_spi.chip.mem, n, c, l), ram_spi_burst_enabled))
<1> DEFINE r == R!spiramRead(ram_spi, a, l, ram_spi_burst_enabled)
           mem == ram_spi.chip.mem
           out == Wire(Reply(mem, n, c, l), ram_spi_burst_enabled)
<1>1. n \in Nat /\ mem \in [0..n - 1 -> RamBytes] /\ AtEase(ram_spi, n, mem) /\ ram_spi_burst_enabled \in BOOLEAN
  BY AtRest
<1>2. l \in Nat /\ l \in 0..5
  OBVIOUS
<1>3. Addressed(a, l) /\ l <= BurstMax
  BY <1>2, FewAddressed
<1>4. ram_spi_burst_enabled /\ ram_hardware = "swapped" => l <= BurstMax
  BY <1>3
<1>5. PieceIsRead(r, n, mem, out)
  <2> HIDE DEF mem
  <2> QED
    BY <1>1, <1>2, <1>3, <1>4, AllRead, Zenon
<1>6. ram_spi' = [r[1] EXCEPT !.wire = <<>>] /\ ram_got' = r[2]
  BY DEF R!Reads
<1> HIDE DEF r, out
<1>7. AtEase(r[1], n, mem) /\ r[2] = out
  BY <1>5 DEF PieceIsRead
<1> DEFINE u == r[1]
<1> HIDE DEF u
<1>8. AtEase([u EXCEPT !.wire = <<>>], n, mem) /\ [u EXCEPT !.wire = <<>>].wire = <<>>
  <2>1. AtEase(u, n, mem)
    BY <1>7 DEF u
  <2> HIDE DEF mem
  <2> QED
    BY <2>1, ClearedEase
<1> QED
  BY <1>6, <1>7, <1>8 DEF WasRead, out, u

(* What a chip holds after it was written.                                  *)
LEMMA WroteHolds ==
  ASSUME R!SpiramAssumption, NEW n \in Sizes, RamTypes(n), n > 0, NEW out \in Seq(RamBytes), NEW c \in Nat,
         c + Len(out) <= n, Wrote(n, c, out)
  PROVE  /\ Found(ram_spi'.chip.mem, c, Len(out)) = out
         /\ \A l \in 0..c : Found(ram_spi'.chip.mem, 0, l) = Found(ram_spi.chip.mem, 0, l)
<1> DEFINE mem == ram_spi.chip.mem
           m == Over(mem, c, out)
<1>1. n \in Nat /\ mem \in [0..n - 1 -> RamBytes]
  BY AtRest
<1>2. ram_spi'.chip.mem = m
  BY DEF Wrote, AtEase, Stored
<1> HIDE DEF mem
<1>3. Found(m, c, Len(out)) = out
  BY <1>1, OverHolds
<1>4. ASSUME NEW l \in 0..c PROVE Found(m, 0, l) = Found(mem, 0, l)
  <2>1. Len(out) \in Nat
    BY LenProperties
  <2>2. l \in Nat /\ l <= c /\ l <= n
    BY <1>1, <2>1
  <2> QED
    BY <1>1, <2>2, OverApart
<1> HIDE DEF m
<1> QED
  BY <1>2, <1>3, <1>4 DEF mem

LEMMA FewIs ==
  ASSUME R!SpiramAssumption, NEW data, Few(data)
  PROVE  data \in Seq(RamBytes) /\ Len(data) \in 1..BurstMax
<1>1. data \in Seq(RamBytes) /\ Len(data) \in 1..5
  BY DEF Few
<1>2. PICK l \in 1..5 : l = Len(data)
  BY <1>1
<1>3. BurstMax \in Nat /\ BurstMax >= 8
  BY Constants
<1>4. l \in 1..BurstMax
  BY <1>3
<1> QED
  BY <1>1, <1>2, <1>4

(* What a burst or byte by byte transfer of the self-test does.             *)
LEMMA PatternWritten ==
  ASSUME R!SpiramAssumption, NEW n \in Sizes, RamTypes(n), NEW data, Few(data), NEW burst \in BOOLEAN,
         NEW c, Fits(c, ProbeFrom, n, Len(data)),
         ram_spi' = [WritePiece(ram_spi, ProbeFrom, data, burst) EXCEPT !.wire = <<>>]
  PROVE  Wrote(n, c, Wire(data, burst))
<1> DEFINE u == WritePiece(ram_spi, ProbeFrom, data, burst)
           mem == ram_spi.chip.mem
           m == Stored(mem, n, c, Wire(data, burst))
<1>1. n \in Nat /\ mem \in [0..n - 1 -> RamBytes] /\ AtEase(ram_spi, n, mem)
  BY AtRest
<1>2. ProbeFrom \in Nat /\ ProbeFrom < Base * Base * Base
  BY SizesAre
<1>3. data \in Seq(RamBytes) /\ Len(data) \in 1..BurstMax
  BY FewIs
<1>4. AtEase(u, n, m)
  <2> HIDE DEF mem
  <2> QED
    BY <1>1, <1>2, <1>3, EaseStored, Zenon
<1>5. ram_spi' = [u EXCEPT !.wire = <<>>]
  OBVIOUS
<1> HIDE DEF u, m
<1>6. AtEase([u EXCEPT !.wire = <<>>], n, m) /\ [u EXCEPT !.wire = <<>>].wire = <<>>
  BY <1>4, ClearedEase
<1> QED
  BY <1>5, <1>6 DEF Wrote, m

LEMMA PatternRead ==
  ASSUME R!SpiramAssumption, NEW n \in Sizes, RamTypes(n), NEW burst \in BOOLEAN, NEW c, Fits(c, ProbeFrom, n, 5),
         NEW r, r = ReadPiece(ram_spi, ProbeFrom, 5, burst),
         ram_spi' = [r[1] EXCEPT !.wire = <<>>], ram_got' = r[2]
  PROVE  WasRead(n, Wire(Reply(ram_spi.chip.mem, n, c, 5), burst))
<1> DEFINE mem == ram_spi.chip.mem
           out == Wire(Reply(mem, n, c, 5), burst)
           q == ReadPiece(ram_spi, ProbeFrom, 5, burst)
<1>1. n \in Nat /\ mem \in [0..n - 1 -> RamBytes] /\ AtEase(ram_spi, n, mem)
  BY AtRest
<1>2. ProbeFrom \in Nat /\ ProbeFrom < Base * Base * Base
  BY SizesAre
<1>3. 5 \in 1..BurstMax
  BY Constants
<1>4. PieceIsRead(q, n, mem, out)
  <2> HIDE DEF mem
  <2> QED
    BY <1>1, <1>2, <1>3, EaseRead, Zenon
<1>5. r = q
  OBVIOUS
<1> HIDE DEF q, out
<1>6. AtEase(r[1], n, mem) /\ r[2] = out
  BY <1>4, <1>5 DEF PieceIsRead
<1> DEFINE u == r[1]
<1> HIDE DEF u
<1>7. AtEase([u EXCEPT !.wire = <<>>], n, mem) /\ [u EXCEPT !.wire = <<>>].wire = <<>>
  <2>1. AtEase(u, n, mem)
    BY <1>6 DEF u
  <2> HIDE DEF mem
  <2> QED
    BY <2>1, ClearedEase
<1> QED
  BY <1>6, <1>7 DEF WasRead, out, u

(* The four steps of the self-test are such transfers.                      *)
LEMMA TestWrites ==
  ASSUME R!SpiramAssumption, NEW n \in Sizes, RamTypes(n), R!BurstOut, NEW c, Fits(c, ProbeFrom, n, 5)
  PROVE  Wrote(n, c, OnWire(R!Pattern))
<1>1. Few(R!Pattern) /\ Len(R!Pattern) = 5
  BY BootData
<1>2. ram_spi' = [WritePiece(ram_spi, ProbeFrom, R!Pattern, TRUE) EXCEPT !.wire = <<>>]
  BY DEF R!BurstOut, WritePiece
<1>3. Fits(c, ProbeFrom, n, Len(R!Pattern))
  BY <1>1
<1>4. TRUE \in BOOLEAN
  OBVIOUS
<1>5. Wrote(n, c, Wire(R!Pattern, TRUE))
  BY <1>1, <1>2, <1>3, <1>4, PatternWritten, Zenon
<1> QED
  BY <1>5 DEF Wire

LEMMA TestReadsBack ==
  ASSUME R!SpiramAssumption, NEW n \in Sizes, RamTypes(n), R!BytesIn, NEW c, Fits(c, ProbeFrom, n, 5)
  PROVE  WasRead(n, Reply(ram_spi.chip.mem, n, c, 5))
<1> DEFINE q == R!GetChars(R!spi_bytewise_cmd(R!ChipSelect(ram_spi), 3, R!BytesOf(ProbeFrom)), Len(R!Pattern))
           r == ReadPiece(ram_spi, ProbeFrom, 5, FALSE)
<1>1. Len(R!Pattern) = 5
  BY BootData
<1>2. ram_spi' = [R!ChipDeselect(q[1]) EXCEPT !.wire = <<>>] /\ ram_got' = q[2]
  BY DEF R!BytesIn
<1>3. 5 \in 1..BurstMax
  BY Constants
<1>4. r[1] = R!ChipDeselect(q[1]) /\ r[2] = q[2]
  <2>1. R!spi_cmd_read(R!ChipSelect(ram_spi), 3, ProbeFrom, 5, FALSE) = q
    BY <1>1, <1>3 DEF R!spi_cmd_read
  <2> HIDE DEF q
  <2> QED
    BY <2>1 DEF ReadPiece
<1> HIDE DEF q
<1>5. ram_spi' = [r[1] EXCEPT !.wire = <<>>] /\ ram_got' = r[2]
  <2> HIDE DEF r
  <2> QED
    BY <1>2, <1>4
<1>6. WasRead(n, Wire(Reply(ram_spi.chip.mem, n, c, 5), FALSE))
  <2>1. r = ReadPiece(ram_spi, ProbeFrom, 5, FALSE) /\ FALSE \in BOOLEAN
    OBVIOUS
  <2> HIDE DEF r
  <2> QED
    BY <1>5, <2>1, PatternRead, Zenon
<1> QED
  BY <1>6 DEF Wire

LEMMA TestWritesBytes ==
  ASSUME R!SpiramAssumption, NEW n \in Sizes, RamTypes(n), R!BytesOut, NEW c, Fits(c, ProbeFrom, n, 5)
  PROVE  Wrote(n, c, R!Inverted(R!Pattern))
<1> DEFINE data == R!Inverted(R!Pattern)
           u == R!spi_bytewise_cmd(R!ChipSelect(ram_spi), 2, R!BytesOf(ProbeFrom))
<1>1. Few(data) /\ Len(data) = 5
  BY BootData
<1>2. 5 \in 1..BurstMax
  BY Constants
<1>3. ram_spi' = [R!ChipDeselect(R!spi_bytewise_out(u, data)) EXCEPT !.wire = <<>>]
  BY DEF R!BytesOut
<1> HIDE DEF data
<1>4. R!spi_cmd_write(R!ChipSelect(ram_spi), 2, ProbeFrom, data, FALSE) = R!spi_bytewise_out(u, data)
  BY <1>1, <1>2 DEF R!spi_cmd_write
<1>5. ram_spi' = [WritePiece(ram_spi, ProbeFrom, data, FALSE) EXCEPT !.wire = <<>>]
  BY <1>3, <1>4 DEF WritePiece
<1>6. Fits(c, ProbeFrom, n, Len(data)) /\ FALSE \in BOOLEAN
  BY <1>1
<1>7. Wrote(n, c, Wire(data, FALSE))
  BY <1>1, <1>5, <1>6, PatternWritten, Zenon
<1> QED
  BY <1>7 DEF Wire, data

LEMMA TestReads ==
  ASSUME R!SpiramAssumption, NEW n \in Sizes, RamTypes(n), R!BurstIn, NEW c, Fits(c, ProbeFrom, n, 5)
  PROVE  WasRead(n, OnWire(Reply(ram_spi.chip.mem, n, c, 5)))
<1> DEFINE q == R!spi_cmd_read(R!ChipSelect(ram_spi), 3, ProbeFrom, Len(R!Pattern), TRUE)
           r == ReadPiece(ram_spi, ProbeFrom, 5, TRUE)
<1>1. Len(R!Pattern) = 5
  BY BootData
<1>2. ram_spi' = [R!ChipDeselect(q[1]) EXCEPT !.wire = <<>>] /\ ram_got' = q[2]
  BY DEF R!BurstIn
<1>3. r[1] = R!ChipDeselect(q[1]) /\ r[2] = q[2]
  BY <1>1 DEF ReadPiece
<1> HIDE DEF q
<1>4. ram_spi' = [r[1] EXCEPT !.wire = <<>>] /\ ram_got' = r[2]
  <2> HIDE DEF r
  <2> QED
    BY <1>2, <1>3
<1>5. WasRead(n, Wire(Reply(ram_spi.chip.mem, n, c, 5), TRUE))
  <2>1. r = ReadPiece(ram_spi, ProbeFrom, 5, TRUE) /\ TRUE \in BOOLEAN
    OBVIOUS
  <2> HIDE DEF r
  <2> QED
    BY <1>4, <2>1, PatternRead, Zenon
<1> QED
  BY <1>5 DEF Wire

(* Where the probe is in the chip.                                          *)
LEMMA Enough ==
  ASSUME R!SpiramAssumption, NEW n \in Sizes, n > 0
  PROVE  n >= 8 /\ n >= ProbeFrom /\ (n = ProbeFrom \/ n >= ProbeFrom + 8)
<1>1. ProbeFrom \in Nat /\ ProbeFrom >= 8
  BY SizesAre
<1>2. PICK q \in Nat : q > 0 /\ n = ProbeFrom * q
  BY SizesAre
<1>3. CASE q = 1
  BY <1>1, <1>2, <1>3
<1>4. CASE q # 1
  <2>1. PICK x \in Nat : x = ProbeFrom * q
    BY <1>1
  <2>2. q >= 2
    BY <1>2, <1>4
  <2>3. ProbeFrom * 2 <= ProbeFrom * q
    BY <1>1, <2>2
  <2> QED
    BY <1>1, <1>2, <2>1, <2>3
<1> QED
  BY <1>3, <1>4

(* A few bytes fit at the start of a chip.                                  *)
LEMMA FitsAtStart ==
  ASSUME R!SpiramAssumption, NEW n \in Sizes, NEW l \in 0..5
  PROVE  Fits(0 % n, 0, n, l) /\ (n > 0 => 0 % n = 0 /\ 0 + l <= n)
<1>1. CASE n = 0
  BY <1>1 DEF Fits
<1>2. CASE n # 0
  <2>1. n \in Nat /\ n > 0
    BY <1>2, SizesAre
  <2>2. n >= 8 /\ 0 % n = 0
    BY <2>1, Enough
  <2> QED
    BY <2>1, <2>2 DEF Fits
<1> QED
  BY <1>1, <1>2

(* The pattern of the self-test fits where it is written.                   *)
LEMMA FitsAtProbe ==
  ASSUME R!SpiramAssumption, NEW n \in Sizes, n > 0
  PROVE  Fits(ProbeFrom % n, ProbeFrom, n, 5) /\ ProbeFrom % n \in Nat /\ (ProbeFrom % n) + 5 <= n
<1>1. n \in Nat /\ ProbeFrom \in Nat
  BY SizesAre
<1>2. n >= 8 /\ (n = ProbeFrom \/ n >= ProbeFrom + 8)
  BY Enough
<1>3. CASE n = ProbeFrom
  <2>1. ProbeFrom % n = 0
    BY <1>1, <1>2, <1>3
  <2> QED
    BY <1>1, <1>2, <2>1 DEF Fits
<1>4. CASE n >= ProbeFrom + 8
  <2>1. ProbeFrom % n = ProbeFrom
    BY <1>1, <1>2, <1>4
  <2> QED
    BY <1>1, <1>4, <2>1 DEF Fits
<1> QED
  BY <1>2, <1>3, <1>4

(* Where in the chip the size is that is tried.                             *)
Tried(n) == IF ram_size = n THEN 0 ELSE ram_size
(* What is written at the size that is tried fits, or wraps to the start.   *)
LEMMA FitsTried ==
  ASSUME R!SpiramAssumption, NEW n \in Sizes, n > 0, Doubled(n)
  PROVE  /\ ram_size \in Nat /\ ram_size >= 8 /\ ram_size <= n /\ (ram_size # n => ram_size + 8 <= n)
         /\ Fits(Tried(n), ram_size, n, 4) /\ Tried(n) \in Nat /\ Tried(n) + 4 <= n
<1>1. n \in Nat /\ ProbeFrom \in Nat /\ ProbeFrom >= 8
  BY SizesAre
<1>2. PICK p \in Nat \ {0}, d \in Nat \ {0} : ram_size = ProbeFrom * p /\ n = ram_size * d
  BY DEF Doubled
<1>3. ram_size \in Nat /\ ram_size >= 8
  <2>1. ProbeFrom * p \in Nat /\ ProbeFrom * 1 <= ProbeFrom * p
    BY <1>1
  <2>2. PICK x \in Nat : x = ProbeFrom * p
    BY <2>1
  <2> QED
    BY <1>1, <1>2, <2>1, <2>2
<1>4. ram_size = n \/ ram_size + 8 <= n
  <2>1. CASE d = 1
    BY <1>2, <1>3, <2>1
  <2>2. CASE d # 1
    <3>1. PICK z \in Nat : z = ram_size
      BY <1>3
    <3>2. d >= 2 /\ z * 2 <= z * d
      BY <2>2
    <3>3. PICK y \in Nat : y = z * d
      OBVIOUS
    <3> QED
      BY <1>2, <1>3, <3>1, <3>2, <3>3
  <2> QED
    BY <2>1, <2>2
<1>5. ram_size % n = Tried(n) /\ Tried(n) \in Nat /\ Tried(n) + 4 <= n
  <2>1. PICK z \in Nat : z = ram_size
    BY <1>3
  <2>2. CASE z = n
    <3>1. z % n = 0 /\ Tried(n) = 0
      BY <1>1, <2>1, <2>2 DEF Tried
    <3> QED
      BY <1>3, <2>1, <2>2, <3>1
  <2>3. CASE z # n
    <3>1. z % n = z /\ Tried(n) = z
      BY <1>1, <1>4, <2>1, <2>3 DEF Tried
    <3> QED
      BY <1>1, <1>4, <2>1, <2>3, <3>1
  <2> QED
    BY <2>2, <2>3
<1> QED
  BY <1>1, <1>3, <1>4, <1>5 DEF Fits

(* A step that leaves the bus at rest.                                      *)
LEMMA TypesStay ==
  ASSUME R!SpiramAssumption, NEW n \in Sizes, RamTypes(n), NEW m, AtEase(ram_spi', n, m), ram_spi'.wire = <<>>,
         ram_hardware' = ram_hardware, ram_spiram' \in BOOLEAN, ram_spi_burst_enabled' \in BOOLEAN,
         ram_pc' \in {"boot", "tried", "burst out", "bytes in", "bytes out", "burst in", "probe", "probed", "at",
                      "zero", "there", "run"}
  PROVE  RamTypes(n)'
<1>1. ram_spi' \in Units(n) /\ ram_spi'.order = TRUE /\ ram_spi'.chip.selected = FALSE
  BY DEF AtEase
<1> QED
  BY <1>1 DEF RamTypes, AtEase

LEMMA FirstAddress ==
  ASSUME R!SpiramAssumption, NEW n \in Sizes
  PROVE  0 \in Nat /\ 0 < Base * Base * Base /\ n \in Nat
<1>1. PICK z \in Nat : z = Base * Base * Base
  BY Constants
<1>2. ProbeFrom \in Nat /\ ProbeFrom < z /\ n \in Nat
  BY <1>1, SizesAre
<1> QED
  BY <1>1, <1>2

LEMMA OnWireStays ==
  ASSUME NEW data, ram_hardware' = ram_hardware
  PROVE  \A d \in {data} : OnWire(d)' = OnWire(d)
BY DEF OnWire

(* The invariant holds at power-on.                                         *)
LEMMA InitRam ==
  ASSUME R!SpiramAssumption, R!Init
  PROVE  RamInv
<1>1. PICK n \in Sizes :
         ram_spi = [order |-> TRUE, phases |-> {"command"}, mosi |-> 0, miso |-> 0, cmd |-> 0, addr |-> <<0, 0, 0>>,
                w |-> [j \in 0..BurstMax \div 4 - 1 |-> [b \in 1..4 |-> 0]], wire |-> <<>>,
                chip |-> [size |-> n, mem |-> [a \in 0..n - 1 |-> 0], selected |-> FALSE, told |-> <<>>]]
  BY DEF R!Init
<1>2. 0 \in RamBytes
  BY Constants
<1>3. <<0, 0, 0>> \in Seq(RamBytes) /\ <<>> \in Seq(RamBytes)
  BY <1>2
<1>4. ram_spi.chip \in Chips(n) /\ ram_spi.chip.selected = FALSE
  BY <1>1, <1>2, <1>3 DEF Chips
<1>5. ram_spi \in Units(n) /\ ram_spi.order = TRUE /\ ram_spi.wire = <<>>
  BY <1>1, <1>2, <1>3, <1>4 DEF Units, PhaseNames
<1>6. RamTypes(n)
  BY <1>4, <1>5 DEF RamTypes, AtEase, R!Init
<1>7. BootAt(n)
  BY DEF BootAt, R!Init
<1> QED
  BY <1>6, <1>7 DEF RamInv

(* One lemma for each step of the boot.                                     *)
LEMMA TryStays ==
  ASSUME R!SpiramAssumption, NEW n \in Sizes, RamTypes(n), BootAt(n), R!Try
  PROVE  RamTypes(n)' /\ BootAt(n)'
<1>1. Few(R!Text) /\ Len(R!Text) = 4 /\ R!Text \in Seq(RamBytes)
  BY BootData DEF Few
<1>2. 0 \in Nat /\ 0 < Base * Base * Base
  BY FirstAddress
<1>3. Fits(0 % n, 0, n, Len(R!Text)) /\ (n > 0 => 0 % n = 0 /\ 0 + 4 <= n)
  BY <1>1, FitsAtStart
<1>4. /\ ram_pc = "boot" /\ ram_pc' = "tried"
      /\ UNCHANGED <<ram_hardware, ram_spiram, ram_spi_burst_enabled, ram_size, ram_got, ram_memory, ram_wanted>>
  BY DEF R!Try, R!Writes
<1>5. R!Writes("boot", "tried", 0, R!Text)
  BY DEF R!Try
<1> DEFINE c == 0 % n
<1> HIDE DEF c
<1>6. Wrote(n, c, Wire(R!Text, ram_spi_burst_enabled))
  <2>1. Fits(c, 0, n, Len(R!Text))
    BY <1>3 DEF c
  <2> QED
    BY <1>1, <1>2, <1>5, <2>1, WritesIs, Zenon
<1>7. Wire(R!Text, ram_spi_burst_enabled) = OnWire(R!Text)
  BY <1>4 DEF BootAt, Wire
<1>8. OnWire(R!Text) \in Seq(RamBytes) /\ Len(OnWire(R!Text)) = 4 /\ OnWire(R!Text)' = OnWire(R!Text)
  BY <1>1, <1>4, OnWireBytes, OnWireStays
<1>9. n > 0 => Holds(0, OnWire(R!Text))'
  <2> SUFFICES ASSUME n > 0 PROVE Holds(0, OnWire(R!Text))'
    OBVIOUS
  <2> DEFINE out == OnWire(R!Text)
  <2>1. out \in Seq(RamBytes) /\ 0 + Len(out) <= n /\ Wrote(n, 0, out) /\ 0 \in Nat
    BY <1>3, <1>6, <1>7, <1>8 DEF c
  <2>2. Found(ram_spi'.chip.mem, 0, Len(out)) = out
    <3> HIDE DEF out
    <3> QED
      BY <2>1, WroteHolds
  <2> QED
    BY <1>8, <2>2 DEF Holds
<1>10. RamTypes(n)'
  BY <1>4, <1>6, TypesStay DEF Wrote, RamTypes
<1>11. BootAt(n)'
  BY <1>4, <1>9 DEF BootAt
<1> QED
  BY <1>10, <1>11

LEMMA DetectStays ==
  ASSUME R!SpiramAssumption, NEW n \in Sizes, RamTypes(n), BootAt(n), R!Detect
  PROVE  RamTypes(n)' /\ BootAt(n)'
<1>1. Few(R!Text) /\ Len(R!Text) = 4 /\ R!Text \in Seq(RamBytes)
  BY BootData DEF Few
<1>2. 0 \in Nat /\ 0 < Base * Base * Base /\ n \in Nat
  BY FirstAddress
<1>3. Fits(0 % n, 0, n, 4) /\ (n > 0 => 0 % n = 0 /\ 0 + 4 <= n)
  BY FitsAtStart
<1>4. /\ ram_pc = "tried" /\ UNCHANGED <<ram_hardware, ram_spi_burst_enabled, ram_size>>
      /\ ram_spiram' = (ram_got' = R!Text)
  BY DEF R!Detect, R!Reads
<1>5. R!Reads("tried", 0, 4) /\ 4 \in 1..5
  <2>1. R!Reads("tried", 0, Len(R!Text))
    BY DEF R!Detect
  <2>2. R!Reads("tried", 0, 4)
    BY <1>1, <2>1
  <2> QED
    BY <2>2
<1> DEFINE c == 0 % n
           mem == ram_spi.chip.mem
<1> HIDE DEF c, mem
<1>6. WasRead(n, Wire(Reply(mem, n, c, 4), ram_spi_burst_enabled))
  <2>1. Fits(c, 0, n, 4)
    BY <1>3 DEF c
  <2> QED
    BY <1>2, <1>5, <2>1, ReadsIs, Zenon DEF mem
<1>7. ram_got' = OnWire(Reply(mem, n, c, 4)) /\ AtEase(ram_spi', n, mem) /\ ram_spi'.wire = <<>>
  BY <1>4, <1>6 DEF WasRead, BootAt, Wire, mem
<1>8. OnWire(OnWire(R!Text)) = R!Text /\ OnWire(Nothing(4)) # R!Text
  BY TextTurned
<1>9. CASE n = 0
  <2>1. Reply(mem, n, c, 4) = Nothing(4)
    BY <1>9 DEF Reply
  <2>2. ram_got' # R!Text
    BY <1>7, <1>8, <2>1
  <2>3. ram_spiram' = FALSE
    BY <1>4, <2>2
  <2>4. ram_pc' = "run" /\ ram_memory' = ram_spi'.chip.mem /\ ram_wanted' = ram_got'
    BY <2>3 DEF R!Detect, R!Ready
  <2>5. RamTypes(n)'
    BY <1>4, <1>7, <2>3, <2>4, TypesStay DEF RamTypes
  <2>6. ram_size' = n /\ ~ram_spiram' /\ ~(n > 0)
    BY <1>4, <1>9, <2>3 DEF BootAt
  <2>7. BootAt(n)'
    BY <1>9, <2>4, <2>6 DEF BootAt
  <2> QED
    BY <2>5, <2>7
<1>10. CASE n > 0
  <2>1. Len(OnWire(R!Text)) = 4
    BY <1>1, OnWireBytes
  <2>2. Found(mem, 0, 4) = OnWire(R!Text)
    BY <1>4, <1>10, <2>1 DEF BootAt, Holds, mem
  <2>3. Reply(mem, n, c, 4) = OnWire(R!Text)
    BY <1>3, <1>10, <2>2 DEF Reply, c
  <2>4. ram_got' = R!Text
    BY <1>7, <1>8, <2>3
  <2>5. ram_spiram' = TRUE
    BY <1>4, <2>4
  <2>6. ram_pc' = "burst out"
    BY <2>5 DEF R!Detect, R!Goes
  <2>7. RamTypes(n)'
    BY <1>4, <1>7, <2>5, <2>6, TypesStay DEF RamTypes
  <2>8. ram_size' = 0 /\ ram_spi_burst_enabled'
    BY <1>4 DEF BootAt
  <2>9. BootAt(n)'
    BY <1>10, <2>5, <2>6, <2>8 DEF BootAt
  <2> QED
    BY <2>7, <2>9
<1> QED
  BY <1>2, <1>9, <1>10

LEMMA BurstOutStays ==
  ASSUME R!SpiramAssumption, NEW n \in Sizes, RamTypes(n), BootAt(n), R!BurstOut
  PROVE  RamTypes(n)' /\ BootAt(n)'
<1> DEFINE c == ProbeFrom % n
           out == OnWire(R!Pattern)
<1>1. /\ ram_pc = "burst out" /\ ram_pc' = "bytes in"
      /\ UNCHANGED <<ram_hardware, ram_spiram, ram_spi_burst_enabled, ram_size>>
  BY DEF R!BurstOut
<1>2. n > 0
  BY <1>1 DEF BootAt
<1>3. Fits(c, ProbeFrom, n, 5) /\ c \in Nat /\ c + 5 <= n
  BY <1>2, FitsAtProbe
<1> HIDE DEF c
<1>4. Wrote(n, c, out)
  BY <1>3, TestWrites
<1>5. out \in Seq(RamBytes) /\ Len(out) = 5 /\ out' = out
  BY <1>1, BootData, OnWireBytes, OnWireStays DEF Few
<1>6. Found(ram_spi'.chip.mem, c, Len(out)) = out
  <2>1. c + Len(out) <= n
    BY <1>3, <1>5
  <2> HIDE DEF out
  <2> QED
    BY <1>2, <1>3, <1>4, <1>5, <2>1, WroteHolds
<1>7. Holds(ProbeFrom % n, OnWire(R!Pattern))'
  BY <1>5, <1>6 DEF Holds, c
<1>8. RamTypes(n)'
  BY <1>1, <1>4, TypesStay DEF Wrote, RamTypes
<1>9. BootAt(n)'
  BY <1>1, <1>2, <1>7 DEF BootAt
<1> QED
  BY <1>8, <1>9

LEMMA BytesInStays ==
  ASSUME R!SpiramAssumption, NEW n \in Sizes, RamTypes(n), BootAt(n), R!BytesIn
  PROVE  RamTypes(n)' /\ BootAt(n)'
<1> DEFINE c == ProbeFrom % n
           mem == ram_spi.chip.mem
<1>1. /\ ram_pc = "bytes in" /\ ram_pc' = "bytes out" /\ UNCHANGED <<ram_hardware, ram_spiram, ram_size>>
      /\ ram_spi_burst_enabled' = (ram_got' = R!Pattern)
  BY DEF R!BytesIn, R!Agrees
<1>2. n > 0
  BY <1>1 DEF BootAt
<1>3. Fits(c, ProbeFrom, n, 5)
  BY <1>2, FitsAtProbe
<1> HIDE DEF c
<1>4. WasRead(n, Reply(mem, n, c, 5))
  BY <1>3, TestReadsBack
<1>5. Reply(mem, n, c, 5) = OnWire(R!Pattern)
  <2>1. Len(OnWire(R!Pattern)) = 5
    BY BootData, OnWireBytes DEF Few
  <2>2. Found(mem, c, 5) = OnWire(R!Pattern)
    BY <1>1, <2>1 DEF BootAt, Holds, c
  <2> QED
    BY <1>2, <2>2 DEF Reply
<1>6. ram_spi_burst_enabled' => ram_hardware' # "swapped"
  BY <1>1, <1>4, <1>5, PatternTurned DEF WasRead
<1>7. Straight'
  BY <1>6 DEF Straight
<1>8. RamTypes(n)'
  BY <1>1, <1>4, TypesStay DEF WasRead, RamTypes
<1>9. BootAt(n)'
  BY <1>1, <1>2, <1>7 DEF BootAt
<1> QED
  BY <1>8, <1>9

LEMMA BytesOutStays ==
  ASSUME R!SpiramAssumption, NEW n \in Sizes, RamTypes(n), BootAt(n), R!BytesOut
  PROVE  RamTypes(n)' /\ BootAt(n)'
<1>1. /\ ram_pc = "bytes out" /\ ram_pc' = "burst in"
      /\ UNCHANGED <<ram_hardware, ram_spiram, ram_spi_burst_enabled, ram_size>>
  BY DEF R!BytesOut
<1>2. n > 0 /\ ram_spiram /\ Straight
  BY <1>1 DEF BootAt
<1>3. Straight'
  BY <1>1, <1>2 DEF Straight
<1>4. Fits(ProbeFrom % n, ProbeFrom, n, 5)
  BY <1>2, FitsAtProbe
<1>5. Wrote(n, ProbeFrom % n, R!Inverted(R!Pattern))
  BY <1>4, TestWritesBytes
<1>6. RamTypes(n)'
  BY <1>1, <1>5, TypesStay DEF Wrote, RamTypes
<1>7. BootAt(n)'
  BY <1>1, <1>2, <1>3 DEF BootAt
<1> QED
  BY <1>6, <1>7

LEMMA BurstInStays ==
  ASSUME R!SpiramAssumption, NEW n \in Sizes, RamTypes(n), BootAt(n), R!BurstIn
  PROVE  RamTypes(n)' /\ BootAt(n)'
<1>1. ram_pc = "burst in" /\ ram_pc' = "probe" /\ UNCHANGED <<ram_hardware, ram_spiram, ram_size>>
  BY DEF R!BurstIn
<1>2. ram_spi_burst_enabled' = (ram_spi_burst_enabled /\ ram_got' = R!Inverted(R!Pattern))
  BY DEF R!BurstIn, R!Agrees
<1>3. n > 0 /\ ram_spiram /\ Straight
  BY <1>1 DEF BootAt
<1>4. Straight'
  BY <1>1, <1>2, <1>3 DEF Straight
<1>5. Fits(ProbeFrom % n, ProbeFrom, n, 5)
  BY <1>3, FitsAtProbe
<1>6. WasRead(n, OnWire(Reply(ram_spi.chip.mem, n, ProbeFrom % n, 5)))
  BY <1>5, TestReads
<1>7. RamTypes(n)'
  BY <1>1, <1>2, <1>6, TypesStay DEF WasRead, RamTypes
<1>8. BootAt(n)'
  BY <1>1, <1>3, <1>4 DEF BootAt
<1> QED
  BY <1>7, <1>8

(* Once bursts are right or given up, nothing is turned.                    *)
LEMMA WireStraight ==
  ASSUME R!SpiramAssumption, NEW data \in Seq(RamBytes), Straight
  PROVE  Wire(data, ram_spi_burst_enabled) = data
<1>1. CASE ram_spi_burst_enabled
  BY <1>1, OnWireBytes DEF Straight, Wire
<1>2. CASE ~ram_spi_burst_enabled
  BY <1>2 DEF Wire
<1> QED
  BY <1>1, <1>2

(* What was held is read.                                                   *)
LEMMA HeldIsRead ==
  ASSUME R!SpiramAssumption, NEW n \in Sizes, n > 0, NEW c, NEW data \in Seq(RamBytes), Straight, Holds(c, data),
         NEW l, l = Len(data), WasRead(n, Wire(Reply(ram_spi.chip.mem, n, c, l), ram_spi_burst_enabled))
  PROVE  ram_got' = data /\ AtEase(ram_spi', n, ram_spi.chip.mem) /\ ram_spi'.wire = <<>>
<1>1. Reply(ram_spi.chip.mem, n, c, l) = data
  BY DEF Reply, Holds
<1>2. Wire(data, ram_spi_burst_enabled) = data
  BY WireStraight
<1> QED
  BY <1>1, <1>2 DEF WasRead

(* The chip still holds what it held.                                       *)
LEMMA StillHolds ==
  ASSUME NEW n, AtEase(ram_spi', n, ram_spi.chip.mem)
  PROVE  \A c, data : Found(ram_spi'.chip.mem, c, Len(data)) = Found(ram_spi.chip.mem, c, Len(data))
BY DEF AtEase

LEMMA ProbeOutStays ==
  ASSUME R!SpiramAssumption, NEW n \in Sizes, RamTypes(n), BootAt(n), R!ProbeOut
  PROVE  RamTypes(n)' /\ BootAt(n)'
<1>1. /\ ram_pc = "probe" /\ ram_pc' = "probed"
      /\ UNCHANGED <<ram_hardware, ram_spiram, ram_spi_burst_enabled, ram_size>>
      /\ R!Writes("probe", "probed", 0, R!Pa)
  BY DEF R!ProbeOut, R!Writes
<1>2. n > 0 /\ ram_spiram /\ Straight /\ ram_size = 0
  BY <1>1 DEF BootAt
<1>3. Straight'
  BY <1>1, <1>2 DEF Straight
<1>4. 0 \in Nat /\ 0 < Base * Base * Base
  BY FirstAddress
<1>5. Few(R!Pa) /\ R!Pa \in Seq(RamBytes) /\ Len(R!Pa) = 4
  BY BootData DEF Few
<1>6. Fits(0 % n, 0, n, Len(R!Pa)) /\ 0 % n = 0 /\ 0 + Len(R!Pa) <= n
  <2>1. Fits(0 % n, 0, n, 4) /\ 0 % n = 0 /\ 0 + 4 <= n
    BY <1>2, FitsAtStart
  <2> QED
    BY <1>5, <2>1
<1>7. Wrote(n, 0, R!Pa)
  <2> DEFINE c == 0 % n
  <2> HIDE DEF c
  <2>1. Fits(c, 0, n, Len(R!Pa))
    BY <1>6 DEF c
  <2>2. Wrote(n, c, Wire(R!Pa, ram_spi_burst_enabled))
    BY <1>1, <1>4, <1>5, <2>1, WritesIs, Zenon
  <2>3. Wire(R!Pa, ram_spi_burst_enabled) = R!Pa
    BY <1>2, <1>5, WireStraight
  <2> QED
    BY <1>6, <2>2, <2>3 DEF c
<1>8. Found(ram_spi'.chip.mem, 0, Len(R!Pa)) = R!Pa
  BY <1>2, <1>4, <1>5, <1>6, <1>7, WroteHolds
<1>9. Holds(0, R!Pa)'
  BY <1>8 DEF Holds
<1>10. RamTypes(n)'
  BY <1>1, <1>7, TypesStay DEF Wrote, RamTypes
<1>11. BootAt(n)'
  BY <1>1, <1>2, <1>3, <1>9 DEF BootAt
<1> QED
  BY <1>10, <1>11

LEMMA ProbeInStays ==
  ASSUME R!SpiramAssumption, NEW n \in Sizes, RamTypes(n), BootAt(n), R!ProbeIn
  PROVE  RamTypes(n)' /\ BootAt(n)'
<1>1. /\ ram_pc = "probed" /\ UNCHANGED <<ram_hardware, ram_spiram, ram_spi_burst_enabled>>
  BY DEF R!ProbeIn, R!Reads
<1>2. n > 0 /\ ram_spiram /\ Straight /\ Holds(0, R!Pa)
  BY <1>1 DEF BootAt
<1>3. Straight'
  BY <1>1, <1>2 DEF Straight
<1>4. 0 \in Nat /\ 0 < Base * Base * Base
  BY FirstAddress
<1>5. R!Pa \in Seq(RamBytes) /\ Len(R!Pa) = 4
  BY BootData DEF Few
<1>6. Fits(0 % n, 0, n, 4) /\ 0 % n = 0
  BY <1>2, FitsAtStart
<1>7. R!Reads("probed", 0, 4) /\ 4 \in 1..5
  <2>1. R!Reads("probed", 0, Len(R!Pa))
    BY DEF R!ProbeIn
  <2>2. R!Reads("probed", 0, 4)
    BY <1>5, <2>1
  <2> QED
    BY <2>2
<1> DEFINE c == 0 % n
<1> HIDE DEF c
<1>8. WasRead(n, Wire(Reply(ram_spi.chip.mem, n, c, 4), ram_spi_burst_enabled))
  <2>1. Fits(c, 0, n, 4)
    BY <1>6 DEF c
  <2> QED
    BY <1>4, <1>7, <2>1, ReadsIs, Zenon
<1>9. ram_got' = R!Pa /\ AtEase(ram_spi', n, ram_spi.chip.mem) /\ ram_spi'.wire = <<>>
  BY <1>2, <1>5, <1>6, <1>8, HeldIsRead DEF c
<1>10. ram_pc' = "at" /\ ram_size' = ProbeFrom
  BY <1>9 DEF R!ProbeIn, R!Goes
<1>11. Holds(0, R!Pa)'
  BY <1>2, <1>9, StillHolds DEF Holds
<1>12. Doubled(n)'
  <2>1. ProbeFrom \in Nat
    BY SizesAre
  <2>2. PICK q \in Nat : q > 0 /\ n = ProbeFrom * q
    BY <1>2, SizesAre
  <2>3. ram_size' = ProbeFrom * 1 /\ n = ram_size' * q /\ 1 \in Nat \ {0} /\ q \in Nat \ {0}
    BY <1>10, <2>1, <2>2
  <2> QED
    BY <2>3 DEF Doubled
<1>13. RamTypes(n)'
  BY <1>1, <1>9, <1>10, TypesStay DEF RamTypes
<1>14. BootAt(n)'
  BY <1>1, <1>2, <1>3, <1>10, <1>11, <1>12 DEF BootAt
<1> QED
  BY <1>13, <1>14

LEMMA ProbeAtStays ==
  ASSUME R!SpiramAssumption, NEW n \in Sizes, RamTypes(n), BootAt(n), R!ProbeAt
  PROVE  RamTypes(n)' /\ BootAt(n)'
<1>1. /\ ram_pc = "at" /\ ram_pc' = "zero" /\ UNCHANGED <<ram_hardware, ram_spiram, ram_spi_burst_enabled, ram_size>>
      /\ ram_size < Base * Base * Base /\ R!Writes("at", "zero", ram_size, R!Pb)
  BY DEF R!ProbeAt, R!Writes
<1>2. n > 0 /\ ram_spiram /\ Straight /\ Holds(0, R!Pa) /\ Doubled(n)
  BY <1>1 DEF BootAt
<1>3. Straight' /\ Doubled(n)'
  BY <1>1, <1>2 DEF Straight, Doubled
<1>4. /\ ram_size \in Nat /\ ram_size >= 8 /\ Fits(Tried(n), ram_size, n, 4) /\ Tried(n) \in Nat
      /\ Tried(n) + 4 <= n
  BY <1>2, FitsTried
<1>5. Few(R!Pb) /\ R!Pb \in Seq(RamBytes) /\ Len(R!Pb) = 4 /\ Len(R!Pa) = 4
  BY BootData DEF Few
<1> DEFINE c == Tried(n)
<1> HIDE DEF c
<1>6. Wrote(n, c, R!Pb)
  <2>1. Fits(c, ram_size, n, Len(R!Pb))
    BY <1>4, <1>5 DEF c
  <2>2. Wrote(n, c, Wire(R!Pb, ram_spi_burst_enabled))
    BY <1>1, <1>4, <1>5, <2>1, WritesIs, Zenon
  <2>3. Wire(R!Pb, ram_spi_burst_enabled) = R!Pb
    BY <1>2, <1>5, WireStraight
  <2> QED
    BY <2>2, <2>3
<1>7. /\ Found(ram_spi'.chip.mem, c, Len(R!Pb)) = R!Pb
      /\ \A l \in 0..c : Found(ram_spi'.chip.mem, 0, l) = Found(ram_spi.chip.mem, 0, l)
  <2>1. c \in Nat /\ c + Len(R!Pb) <= n
    BY <1>4, <1>5 DEF c
  <2> QED
    BY <1>2, <1>5, <1>6, <2>1, WroteHolds
<1>8. ram_size = n => Holds(0, R!Pb)'
  BY <1>7 DEF Holds, c, Tried
<1>9. ram_size # n => Holds(ram_size, R!Pb)' /\ Holds(0, R!Pa)'
  <2> SUFFICES ASSUME ram_size # n PROVE Holds(ram_size, R!Pb)' /\ Holds(0, R!Pa)'
    OBVIOUS
  <2>1. c = ram_size
    BY DEF c, Tried
  <2>2. 4 \in 0..c
    BY <1>4, <2>1
  <2>3. Found(ram_spi'.chip.mem, 0, 4) = Found(ram_spi.chip.mem, 0, 4)
    BY <1>7, <2>2
  <2>4. Found(ram_spi'.chip.mem, 0, 4) = R!Pa
    BY <1>2, <1>5, <2>3 DEF Holds
  <2> QED
    BY <1>1, <1>5, <1>7, <2>1, <2>4 DEF Holds
<1>10. Holds(0, IF ram_size = n THEN R!Pb ELSE R!Pa)'
  <2>1. CASE ram_size = n
    <3>1. ram_size' = n
      BY <1>1, <2>1
    <3> QED
      BY <1>8, <2>1, <3>1 DEF Holds
  <2>2. CASE ram_size # n
    <3>1. ram_size' # n
      BY <1>1, <2>2
    <3> QED
      BY <1>9, <2>2, <3>1 DEF Holds
  <2> QED
    BY <2>1, <2>2
<1>11. RamTypes(n)'
  BY <1>1, <1>6, TypesStay DEF Wrote, RamTypes
<1>12. BootAt(n)'
  BY <1>1, <1>2, <1>3, <1>9, <1>10 DEF BootAt
<1> QED
  BY <1>11, <1>12

LEMMA ProbeZeroStays ==
  ASSUME R!SpiramAssumption, NEW n \in Sizes, RamTypes(n), BootAt(n), R!ProbeZero
  PROVE  RamTypes(n)' /\ BootAt(n)'
<1>1. ram_pc = "zero" /\ UNCHANGED <<ram_hardware, ram_spiram, ram_spi_burst_enabled, ram_size>>
  BY DEF R!ProbeZero, R!Reads
<1> DEFINE data == IF ram_size = n THEN R!Pb ELSE R!Pa
<1>2. /\ n > 0 /\ ram_spiram /\ Straight /\ Doubled(n) /\ ram_size < Base * Base * Base
      /\ Holds(0, data) /\ (ram_size # n => Holds(ram_size, R!Pb))
  BY <1>1 DEF BootAt
<1>3. Straight' /\ Doubled(n)'
  BY <1>1, <1>2 DEF Straight, Doubled
<1>4. 0 \in Nat /\ 0 < Base * Base * Base
  BY FirstAddress
<1>5. data \in Seq(RamBytes) /\ Len(data) = 4 /\ Len(R!Pb) = 4 /\ R!Pb # R!Pa
  BY BootData, PbIsOther DEF Few
<1>6. Fits(0 % n, 0, n, 4) /\ 0 % n = 0
  BY <1>2, FitsAtStart
<1>7. R!Reads("zero", 0, 4) /\ 4 \in 1..5
  <2>1. R!Reads("zero", 0, Len(R!Pb))
    BY DEF R!ProbeZero
  <2>2. R!Reads("zero", 0, 4)
    BY <1>5, <2>1
  <2> QED
    BY <2>2
<1> DEFINE c == 0 % n
<1> HIDE DEF c
<1>8. WasRead(n, Wire(Reply(ram_spi.chip.mem, n, c, 4), ram_spi_burst_enabled))
  <2>1. Fits(c, 0, n, 4)
    BY <1>6 DEF c
  <2> QED
    BY <1>4, <1>7, <2>1, ReadsIs, Zenon
<1>9. ram_got' = data /\ AtEase(ram_spi', n, ram_spi.chip.mem) /\ ram_spi'.wire = <<>>
  <2> HIDE DEF data
  <2> QED
    BY <1>2, <1>5, <1>6, <1>8, HeldIsRead DEF c
<1>10. ram_spi'.chip.mem = ram_spi.chip.mem
  BY <1>9 DEF AtEase
<1>11. CASE ram_size = n
  <2>1. ram_pc' = "run" /\ ram_memory' = ram_spi'.chip.mem /\ ram_wanted' = ram_got'
    BY <1>9, <1>11 DEF R!ProbeZero, R!Ready
  <2>2. RamTypes(n)'
    BY <1>1, <1>9, <2>1, TypesStay DEF RamTypes
  <2>3. BootAt(n)'
    BY <1>1, <1>2, <1>3, <1>11, <2>1 DEF BootAt
  <2> QED
    BY <2>2, <2>3
<1>12. CASE ram_size # n
  <2>1. ram_pc' = "there"
    BY <1>5, <1>9, <1>12 DEF R!ProbeZero, R!Goes
  <2>2. RamTypes(n)'
    BY <1>1, <1>9, <2>1, TypesStay DEF RamTypes
  <2>3. Holds(ram_size, R!Pb)' /\ Holds(0, R!Pa)'
    BY <1>1, <1>2, <1>10, <1>12 DEF Holds
  <2>4. BootAt(n)'
    BY <1>1, <1>2, <1>3, <1>12, <2>1, <2>3 DEF BootAt
  <2> QED
    BY <2>2, <2>4
<1> QED
  BY <1>11, <1>12

(* What is cancelled from a product.                                        *)
LEMMA SameFactor ==
  ASSUME NEW f \in Nat, f > 0, NEW x \in Nat, NEW y \in Nat, f * x = f * y
  PROVE  x = y
<1>1. CASE x < y
  <2>1. f * (x + 1) <= f * y
    BY <1>1
  <2>2. f * (x + 1) = f * x + f
    OBVIOUS
  <2> QED
    BY <2>1, <2>2
<1>2. CASE y < x
  <2>1. f * (y + 1) <= f * x
    BY <1>2
  <2>2. f * (y + 1) = f * y + f
    OBVIOUS
  <2> QED
    BY <2>1, <2>2
<1> QED
  BY <1>1, <1>2

LEMMA FactorsIn ==
  ASSUME NEW p \in Nat \ {0}, NEW d \in Nat \ {0}, d # 1, NEW q \in Nat, q = p * d
  PROVE  p \in 1..q /\ d \in 2..q
<1>1. p * 1 <= p * d
  OBVIOUS
<1>2. 1 * d <= p * d
  OBVIOUS
<1> QED
  BY <1>1, <1>2

LEMMA ProbeThereStays ==
  ASSUME R!SpiramAssumption, NEW n \in Sizes, RamTypes(n), BootAt(n), R!ProbeThere
  PROVE  RamTypes(n)' /\ BootAt(n)'
<1>1. ram_pc = "there" /\ UNCHANGED <<ram_hardware, ram_spiram, ram_spi_burst_enabled>>
  BY DEF R!ProbeThere, R!Reads
<1>2. /\ n > 0 /\ ram_spiram /\ Straight /\ Doubled(n) /\ ram_size < Base * Base * Base /\ ram_size # n
      /\ Holds(0, R!Pa) /\ Holds(ram_size, R!Pb)
  BY <1>1 DEF BootAt
<1>3. Straight'
  BY <1>1, <1>2 DEF Straight
<1>4. ram_size \in Nat /\ Fits(Tried(n), ram_size, n, 4) /\ Tried(n) = ram_size
  BY <1>2, FitsTried DEF Tried
<1>5. R!Pb \in Seq(RamBytes) /\ Len(R!Pb) = 4
  BY BootData DEF Few
<1>6. R!Reads("there", ram_size, 4) /\ 4 \in 1..5
  <2>1. R!Reads("there", ram_size, Len(R!Pb))
    BY DEF R!ProbeThere
  <2>2. R!Reads("there", ram_size, 4)
    BY <1>5, <2>1
  <2> QED
    BY <2>2
<1> DEFINE c == Tried(n)
<1> HIDE DEF c
<1>7. WasRead(n, Wire(Reply(ram_spi.chip.mem, n, c, 4), ram_spi_burst_enabled))
  <2>1. Fits(c, ram_size, n, 4)
    BY <1>4 DEF c
  <2> QED
    BY <1>2, <1>4, <1>6, <2>1, ReadsIs, Zenon
<1>8. ram_got' = R!Pb /\ AtEase(ram_spi', n, ram_spi.chip.mem) /\ ram_spi'.wire = <<>>
  BY <1>2, <1>4, <1>5, <1>7, HeldIsRead DEF c
<1>9. ram_size' = 2 * ram_size /\ ram_pc' = "at"
  BY <1>8 DEF R!ProbeThere, R!Goes
<1>10. Holds(0, R!Pa)'
  BY <1>2, <1>8, StillHolds DEF Holds
<1>11. Doubled(n)'
  <2>1. PICK p \in Nat \ {0}, d \in Nat \ {0} : ram_size = ProbeFrom * p /\ n = ram_size * d
    BY <1>2 DEF Doubled
  <2>2. ProbeFrom \in Nat /\ ProbeFrom >= 8
    BY SizesAre
  <2>3. PICK q \in Nat : /\ q > 0 /\ n = ProbeFrom * q
                         /\ \A i \in 1..q, j \in 2..q : q = i * j => \E h \in 1..j : j = 2 * h
    BY <1>2, SizesAre
  <2>4. p * d \in Nat /\ ProbeFrom * (p * d) = n
    BY <2>1, <2>2
  <2>5. q = p * d
    BY <2>2, <2>3, <2>4, SameFactor
  <2>6. d # 1
    BY <1>2, <1>4, <2>1
  <2>7. p \in 1..q /\ d \in 2..q
    BY <2>1, <2>3, <2>5, <2>6, FactorsIn
  <2>8. PICK h \in 1..d : d = 2 * h
    BY <2>3, <2>5, <2>7
  <2>9. 2 * p \in Nat \ {0} /\ h \in Nat \ {0} /\ 2 * ram_size = ProbeFrom * (2 * p) /\ n = (2 * ram_size) * h
    BY <1>4, <2>1, <2>2, <2>8
  <2> QED
    BY <1>9, <2>9 DEF Doubled
<1>12. RamTypes(n)'
  BY <1>1, <1>8, <1>9, TypesStay DEF RamTypes
<1>13. BootAt(n)'
  BY <1>1, <1>2, <1>3, <1>9, <1>10, <1>11 DEF BootAt
<1> QED
  BY <1>12, <1>13

LEMMA ProbeEndsStays ==
  ASSUME R!SpiramAssumption, NEW n \in Sizes, RamTypes(n), BootAt(n), R!ProbeEnds
  PROVE  RamTypes(n)' /\ BootAt(n)'
<1>1. /\ ram_pc = "at" /\ ram_pc' = "run"
      /\ UNCHANGED <<ram_spi, ram_hardware, ram_spiram, ram_spi_burst_enabled, ram_size, ram_got>>
      /\ ram_size >= Base * Base * Base /\ ram_memory' = ram_spi'.chip.mem /\ ram_wanted' = ram_got'
  BY DEF R!ProbeEnds, R!Ready
<1>2. n > 0 /\ ram_spiram /\ Straight /\ Doubled(n)
  BY <1>1 DEF BootAt
<1>3. Straight'
  BY <1>1, <1>2 DEF Straight
<1>4. ram_size = n
  <2>1. ram_size \in Nat /\ ram_size <= n
    BY <1>2, FitsTried
  <2>2. n \in Nat /\ n <= Base * Base * Base
    BY SizesAre
  <2>3. PICK z \in Nat : z = Base * Base * Base
    BY Constants
  <2> QED
    BY <1>1, <2>1, <2>2, <2>3
<1>5. AtEase(ram_spi', n, ram_spi.chip.mem) /\ ram_spi'.wire = <<>>
  BY <1>1 DEF RamTypes
<1>6. RamTypes(n)'
  BY <1>1, <1>5, TypesStay DEF RamTypes
<1>7. BootAt(n)'
  BY <1>1, <1>2, <1>3, <1>4 DEF BootAt
<1> QED
  BY <1>6, <1>7

(* What is sent to the decoder is what it hears.                            *)
LEMMA SdiIs ==
  ASSUME R!SpiramAssumption, NEW n \in Nat, NEW mem, NEW s, AtEase(s, n, mem), s.wire = <<>>,
         NEW data \in Seq(RamBytes),
         SdiMode = 2 => (ram_spi_burst_enabled => ram_hardware # "swapped")
  PROVE  AtEase(R!spi_sdi_write(s, data), n, mem) /\ R!spi_sdi_write(s, data).wire = data
<1> DEFINE t == R!spi_sdi_write(s, data)
<1>1. s \in Units(n) /\ s.order = TRUE /\ s.chip.selected = FALSE /\ s.chip.mem = mem /\ s.wire = <<>>
  BY DEF AtEase
<1>2. t \in Units(n) /\ Says(s, data, t)
  <2>1. SdiMode \in 0..2
    BY DEF R!SpiramAssumption
  <2>2. CASE SdiMode = 2
    <3>1. t = R!spi_write_buf(s, data)
      BY <2>2 DEF R!spi_sdi_write
    <3>2. ram_spi_burst_enabled => ram_hardware # "swapped"
      BY <2>2
    <3>3. R!spi_write_buf(s, data) \in Units(n) /\ Says(s, data, R!spi_write_buf(s, data))
      BY <1>1, <3>2, WriteBufSays
    <3> QED
      BY <3>1, <3>3
  <2>3. CASE SdiMode = 1
    <3>1. t = R!spi_write_bytes(s, data)
      BY <2>3 DEF R!spi_sdi_write
    <3>2. R!spi_write_bytes(s, data) \in Units(n) /\ Says(s, data, R!spi_write_bytes(s, data))
      BY <1>1, WriteBytesSays
    <3> QED
      BY <3>1, <3>2
  <2>4. CASE SdiMode = 0
    <3>1. t = R!spi_bytewise_out(s, data)
      BY <2>4 DEF R!spi_sdi_write
    <3>2. R!spi_bytewise_out(s, data) \in Units(n) /\ Says(s, data, R!spi_bytewise_out(s, data))
      BY <1>1, BytewiseSays
    <3> QED
      BY <3>1, <3>2
  <2> QED
    BY <2>1, <2>2, <2>3, <2>4
<1> HIDE DEF t
<1>3. s.chip \in Chips(n)
  BY <1>1 DEF Units
<1>4. t.chip = s.chip
  <2>1. t.chip = [s.chip EXCEPT !.told = s.chip.told]
    BY <1>1, <1>2 DEF Says
  <2> QED
    BY <1>3, <2>1 DEF Chips
<1>5. t.order = TRUE /\ t.wire = <<>> \o data
  BY <1>1, <1>2 DEF Says
<1>6. <<>> \o data = data
  BY ConcatEmptySeq
<1>7. AtEase(t, n, mem)
  BY <1>1, <1>2, <1>4, <1>5 DEF AtEase
<1> QED
  BY <1>5, <1>6, <1>7 DEF t

(* What is within the chip has addresses.                                   *)
LEMMA WithinAddressed ==
  ASSUME R!SpiramAssumption, NEW n \in Sizes, NEW a \in Nat, NEW l \in Nat, a + l <= n
  PROVE  Addressed(a, l)
<1> SUFFICES ASSUME NEW i \in 1..R!Pieces(l) PROVE a + R!Done(i - 1, l) < Base * Base * Base
  BY DEF Addressed
<1>1. PICK z \in Nat : z = Base * Base * Base
  BY Constants
<1>2. n \in Nat /\ n <= z
  BY <1>1, SizesAre
<1>3. R!Pieces(l) \in Nat /\ i - 1 \in 0..R!Pieces(l) /\ i \in 0..R!Pieces(l)
  BY InPieces
<1>4. PICK d \in 0..l : d = R!Done(i - 1, l) /\ d < l
  BY <1>3, InPieces
<1>5. a + d < z
  BY <1>2, <1>4
<1> QED
  BY <1>1, <1>4, <1>5

(* Where a transfer starts that the chip is long enough for.                *)
LEMMA FitsWithin ==
  ASSUME R!SpiramAssumption, NEW n \in Sizes, n > 0, NEW a \in Nat, NEW l \in Nat, a + l <= n
  PROVE  Fits(a % n, a, n, l) /\ a % n \in Nat /\ (l > 0 => a % n = a)
<1>1. n \in Nat
  BY SizesAre
<1>2. PICK p \in 0..n - 1 : p = a % n
  BY <1>1
<1>3. l > 0 => a % n = a
  BY <1>1
<1>4. p + l <= n
  BY <1>1, <1>2, <1>3
<1> QED
  BY <1>1, <1>2, <1>3, <1>4 DEF Fits

(* And one for each operation of the running program.                       *)
LEMMA SendChunkStays ==
  ASSUME R!SpiramAssumption, NEW n \in Sizes, RamTypes(n), BootAt(n), NEW data \in Data, R!SendChunk(data)
  PROVE  RamTypes(n)' /\ BootAt(n)'
<1> DEFINE s == R!spi_sdi_write(ram_spi, data)
           mem == ram_spi.chip.mem
<1>1. /\ ram_pc = "run" /\ ram_pc' = "run"
      /\ UNCHANGED <<ram_hardware, ram_spiram, ram_spi_burst_enabled, ram_size, ram_memory>>
      /\ ram_got' = s.wire /\ ram_spi' = [s EXCEPT !.wire = <<>>] /\ ram_wanted' = data
  BY DEF R!SendChunk
<1>2. /\ ram_spiram => n > 0
      /\ n > 0 => ram_spiram /\ Straight
      /\ ram_size = n /\ ram_memory = mem
  BY <1>1 DEF BootAt
<1>3. n \in Nat /\ AtEase(ram_spi, n, mem) /\ ram_spi.wire = <<>>
  BY AtRest DEF RamTypes
<1>4. data \in Seq(RamBytes)
  BY DEF R!SpiramAssumption, RamBytes
<1>5. SdiMode = 2 => (ram_spi_burst_enabled => ram_hardware # "swapped")
  <2>1. n = 0 => SdiMode # 2
    BY SizesAre
  <2> QED
    BY <1>2, <1>3, <2>1 DEF Straight
<1>6. AtEase(s, n, mem) /\ s.wire = data
  BY <1>3, <1>4, <1>5, SdiIs
<1> HIDE DEF s
<1>7. AtEase([s EXCEPT !.wire = <<>>], n, mem) /\ [s EXCEPT !.wire = <<>>].wire = <<>>
  BY <1>6, ClearedEase
<1>8. AtEase(ram_spi', n, mem) /\ ram_spi'.wire = <<>>
  BY <1>1, <1>7
<1>9. ram_spi'.chip.mem = mem /\ ram_got' = ram_wanted'
  BY <1>1, <1>6, <1>8 DEF AtEase
<1>10. n > 0 => Straight'
  BY <1>1, <1>2 DEF Straight
<1>11. RamTypes(n)'
  <2> HIDE DEF mem
  <2> QED
    BY <1>1, <1>8, TypesStay DEF RamTypes
<1>12. BootAt(n)'
  BY <1>1, <1>2, <1>9, <1>10 DEF BootAt
<1> QED
  BY <1>11, <1>12

LEMMA WriteStays ==
  ASSUME R!SpiramAssumption, NEW n \in Sizes, RamTypes(n), BootAt(n), NEW data \in Data, NEW a \in Addresses,
         R!Write(a, data)
  PROVE  RamTypes(n)' /\ BootAt(n)'
<1> DEFINE u == R!spiramWrite(ram_spi, a, data, ram_spi_burst_enabled)
           mem == ram_spi.chip.mem
           c == a % n
           m == Stored(mem, n, c, data)
<1>1. /\ ram_pc = "run" /\ ram_pc' = "run"
      /\ UNCHANGED <<ram_hardware, ram_spiram, ram_spi_burst_enabled, ram_size>>
      /\ ram_spiram /\ a + Len(data) <= ram_spi.chip.size /\ ram_spi' = [u EXCEPT !.wire = <<>>]
      /\ ram_memory' = [x \in DOMAIN ram_memory |->
                          IF x - a \in 0..Len(data) - 1 THEN data[x - a + 1] ELSE ram_memory[x]]
      /\ ram_got' = ram_wanted'
  BY DEF R!Write
<1>2. n > 0 /\ Straight /\ ram_size = n /\ ram_memory = mem
  BY <1>1 DEF BootAt
<1>3. Straight'
  BY <1>1, <1>2 DEF Straight
<1>4. /\ n \in Nat /\ mem \in [0..n - 1 -> RamBytes] /\ AtEase(ram_spi, n, mem) /\ ram_spi_burst_enabled \in BOOLEAN
      /\ ram_spi.chip.size = n
  BY AtRest
<1>5. data \in Seq(RamBytes) /\ a \in Nat
  BY DEF R!SpiramAssumption, RamBytes
<1>6. Len(data) \in Nat /\ a + Len(data) <= n
  BY <1>1, <1>4, <1>5, LenProperties
<1>7. Fits(c, a, n, Len(data)) /\ c \in Nat /\ (Len(data) > 0 => c = a)
  BY <1>2, <1>5, <1>6, FitsWithin
<1>8. Addressed(a, Len(data))
  BY <1>5, <1>6, WithinAddressed
<1>9. ram_spi_burst_enabled /\ ram_hardware = "swapped" => Len(data) <= BurstMax
  BY <1>2 DEF Straight
<1> HIDE DEF c
<1>10. AtEase(u, n, m)
  <2>1. AtEase(u, n, Stored(mem, n, c, Wire(data, ram_spi_burst_enabled)))
    <3> HIDE DEF mem
    <3> QED
      BY <1>4, <1>5, <1>7, <1>8, <1>9, AllWritten, Zenon
  <2>2. Wire(data, ram_spi_burst_enabled) = data
    BY <1>2, <1>5, WireStraight
  <2> QED
    BY <2>1, <2>2
<1> HIDE DEF u
<1>11. ram_memory' = m
  <2>1. PICK l \in Nat : l = Len(data)
    BY <1>6
  <2>2. m = [x \in 0..n - 1 |-> IF x - c \in 0..l - 1 THEN data[x - c + 1] ELSE mem[x]]
    BY <1>2, <1>4, <2>1 DEF Stored, Over
  <2>3. ram_memory' = [x \in 0..n - 1 |-> IF x - a \in 0..l - 1 THEN data[x - a + 1] ELSE mem[x]]
    BY <1>1, <1>2, <1>4, <2>1
  <2>4. CASE l = 0
    <3>1. \A x \in 0..n - 1 : x - c \notin 0..l - 1 /\ x - a \notin 0..l - 1
      BY <2>4, <1>4, <1>5, <1>7
    <3> HIDE DEF m, mem
    <3> QED
      BY <2>2, <2>3, <3>1
  <2>5. CASE l > 0
    BY <1>7, <2>1, <2>2, <2>3, <2>5
  <2> QED
    BY <2>4, <2>5
<1> HIDE DEF m
<1>12. AtEase([u EXCEPT !.wire = <<>>], n, m) /\ [u EXCEPT !.wire = <<>>].wire = <<>>
  BY <1>10, ClearedEase
<1>13. AtEase(ram_spi', n, m) /\ ram_spi'.wire = <<>>
  BY <1>1, <1>12
<1>14. ram_memory' = ram_spi'.chip.mem
  BY <1>11, <1>13 DEF AtEase
<1>15. RamTypes(n)'
  BY <1>1, <1>13, TypesStay DEF RamTypes
<1>16. BootAt(n)'
  BY <1>1, <1>2, <1>3, <1>14 DEF BootAt
<1> QED
  BY <1>15, <1>16

LEMMA ReadStays ==
  ASSUME R!SpiramAssumption, NEW n \in Sizes, RamTypes(n), BootAt(n), NEW l \in Nat, NEW a \in Addresses,
         R!Read(a, l)
  PROVE  RamTypes(n)' /\ BootAt(n)'
<1> DEFINE r == R!spiramRead(ram_spi, a, l, ram_spi_burst_enabled)
           mem == ram_spi.chip.mem
           c == a % n
           out == Wire(Reply(mem, n, c, l), ram_spi_burst_enabled)
<1>1. /\ ram_pc = "run" /\ ram_pc' = "run"
      /\ UNCHANGED <<ram_hardware, ram_spiram, ram_spi_burst_enabled, ram_size, ram_memory>>
      /\ ram_spiram /\ a + l <= ram_spi.chip.size /\ ram_spi' = [r[1] EXCEPT !.wire = <<>>] /\ ram_got' = r[2]
      /\ ram_wanted' = [k \in 1..l |-> ram_memory[a + k - 1]]
  BY DEF R!Read
<1>2. n > 0 /\ Straight /\ ram_size = n /\ ram_memory = mem
  BY <1>1 DEF BootAt
<1>3. Straight'
  BY <1>1, <1>2 DEF Straight
<1>4. /\ n \in Nat /\ mem \in [0..n - 1 -> RamBytes] /\ AtEase(ram_spi, n, mem) /\ ram_spi_burst_enabled \in BOOLEAN
      /\ ram_spi.chip.size = n
  BY AtRest
<1>5. a \in Nat /\ a + l <= n
  BY <1>1, <1>4 DEF R!SpiramAssumption
<1>6. Fits(c, a, n, l) /\ c \in Nat /\ (l > 0 => c = a)
  BY <1>2, <1>5, FitsWithin
<1>7. Addressed(a, l)
  BY <1>5, WithinAddressed
<1>8. ram_spi_burst_enabled /\ ram_hardware = "swapped" => l <= BurstMax
  BY <1>2 DEF Straight
<1> HIDE DEF c
<1>9. PieceIsRead(r, n, mem, out)
  <2> HIDE DEF mem
  <2> QED
    BY <1>4, <1>5, <1>6, <1>7, <1>8, AllRead, Zenon
<1> HIDE DEF r
<1>10. AtEase(r[1], n, mem) /\ r[2] = out
  BY <1>9 DEF PieceIsRead
<1>11. out = ram_wanted'
  <2> DEFINE d == Reply(mem, n, c, l)
  <2>1. IsReply(d, mem, n, c, l)
    <3> HIDE DEF mem
    <3> QED
      BY <1>4, <1>5, <1>6, ReplyIs, Zenon
  <2>2. d \in Seq(RamBytes)
    BY <2>1 DEF IsReply
  <2>3. out = d
    BY <1>2, <2>2, WireStraight
  <2>4. d = [k \in 1..l |-> mem[c + k - 1]]
    BY <1>2 DEF Reply, Found
  <2>5. CASE l = 0
    <3>1. 1..l = {}
      BY <2>5
    <3> HIDE DEF d, out, mem
    <3> QED
      BY <1>1, <2>3, <2>4, <3>1
  <2>6. CASE l > 0
    BY <1>1, <1>2, <1>6, <2>3, <2>4, <2>6
  <2> QED
    BY <2>5, <2>6
<1> HIDE DEF out
<1> DEFINE u == r[1]
<1> HIDE DEF u
<1>12. AtEase([u EXCEPT !.wire = <<>>], n, mem) /\ [u EXCEPT !.wire = <<>>].wire = <<>>
  <2>1. AtEase(u, n, mem)
    BY <1>10 DEF u
  <2> HIDE DEF mem
  <2> QED
    BY <2>1, ClearedEase
<1>13. AtEase(ram_spi', n, mem) /\ ram_spi'.wire = <<>>
  BY <1>1, <1>12 DEF u
<1>14. ram_memory' = ram_spi'.chip.mem /\ ram_got' = ram_wanted'
  BY <1>1, <1>2, <1>10, <1>11, <1>13 DEF AtEase
<1>15. RamTypes(n)'
  <2> HIDE DEF mem
  <2> QED
    BY <1>1, <1>13, TypesStay DEF RamTypes
<1>16. BootAt(n)'
  BY <1>1, <1>2, <1>3, <1>14 DEF BootAt
<1> QED
  BY <1>15, <1>16

(* The invariant is one of the variables of the part.                       *)
LEMMA StillRam ==
  ASSUME RamInv, UNCHANGED R!vars
  PROVE  RamInv'
<1>1. PICK n \in Sizes : RamTypes(n) /\ BootAt(n)
  BY DEF RamInv
<1>2. /\ ram_spi' = ram_spi /\ ram_hardware' = ram_hardware /\ ram_spiram' = ram_spiram
      /\ ram_spi_burst_enabled' = ram_spi_burst_enabled
      /\ ram_size' = ram_size /\ ram_got' = ram_got /\ ram_memory' = ram_memory
      /\ ram_wanted' = ram_wanted /\ ram_pc' = ram_pc
  BY DEF R!vars
<1>3. RamTypes(n)'
  BY <1>1, <1>2 DEF RamTypes, AtEase
<1>4. BootAt(n)'
  BY <1>1, <1>2 DEF BootAt, Holds, Straight, Doubled, OnWire
<1> QED
  BY <1>3, <1>4 DEF RamInv

(* Every step keeps it.                                                     *)
LEMMA RamKept ==
  ASSUME R!SpiramAssumption, RamInv, R!Next
  PROVE  RamInv'
<1>1. PICK n \in Sizes : RamTypes(n) /\ BootAt(n)
  BY DEF RamInv
<1> SUFFICES RamTypes(n)' /\ BootAt(n)'
  BY DEF RamInv
<1>2. CASE R!Try
  BY <1>1, <1>2, TryStays
<1>3. CASE R!Detect
  BY <1>1, <1>3, DetectStays
<1>4. CASE R!BurstOut
  BY <1>1, <1>4, BurstOutStays
<1>5. CASE R!BytesIn
  BY <1>1, <1>5, BytesInStays
<1>6. CASE R!BytesOut
  BY <1>1, <1>6, BytesOutStays
<1>7. CASE R!BurstIn
  BY <1>1, <1>7, BurstInStays
<1>8. CASE R!ProbeOut
  BY <1>1, <1>8, ProbeOutStays
<1>9. CASE R!ProbeIn
  BY <1>1, <1>9, ProbeInStays
<1>10. CASE R!ProbeAt
  BY <1>1, <1>10, ProbeAtStays
<1>11. CASE R!ProbeZero
  BY <1>1, <1>11, ProbeZeroStays
<1>12. CASE R!ProbeThere
  BY <1>1, <1>12, ProbeThereStays
<1>13. CASE R!ProbeEnds
  BY <1>1, <1>13, ProbeEndsStays
<1>14. ASSUME NEW data \in Data, R!SendChunk(data)
       PROVE  RamTypes(n)' /\ BootAt(n)'
  BY <1>1, <1>14, SendChunkStays
<1>15. ASSUME NEW data \in Data, NEW a \in Addresses, R!Write(a, data)
       PROVE  RamTypes(n)' /\ BootAt(n)'
  BY <1>1, <1>15, WriteStays
<1>16. ASSUME NEW data \in Data, NEW a \in Addresses, R!Read(a, Len(data))
       PROVE  RamTypes(n)' /\ BootAt(n)'
  <2>1. data \in Seq(RamBytes)
    BY DEF R!SpiramAssumption, RamBytes
  <2>2. Len(data) \in Nat
    BY <2>1, LenProperties
  <2> QED
    BY <1>1, <1>16, <2>2, ReadStays
<1>17. CASE \E data \in Data : R!SendChunk(data) \/ \E a \in Addresses : R!Write(a, data) \/ R!Read(a, Len(data))
  BY <1>14, <1>15, <1>16, <1>17
<1> QED
  BY <1>2, <1>3, <1>4, <1>5, <1>6, <1>7, <1>8, <1>9, <1>10, <1>11, <1>12, <1>13, <1>17 DEF R!Next

(* What it implies.                                                         *)
LEMMA RamShows ==
  ASSUME R!SpiramAssumption, RamInv
  PROVE  R!TypeOK /\ R!MemoryFound /\ R!BytesAsMeant
<1>1. PICK n \in Sizes : RamTypes(n) /\ BootAt(n)
  BY DEF RamInv
<1>2. n \in Nat /\ ram_spi.chip.size = n /\ AtEase(ram_spi, n, ram_spi.chip.mem)
  BY <1>1, AtRest
<1>3. ram_spi.order = TRUE /\ ram_spi.chip.selected = FALSE /\ DOMAIN ram_spi.w = 0..BurstMax \div 4 - 1
  BY <1>2 DEF AtEase, Units
<1>4. R!TypeOK
  BY <1>1, <1>3 DEF R!TypeOK, RamTypes
<1>5. ram_pc = "run" => /\ (ram_spiram => n > 0) /\ (n > 0 => ram_spiram) /\ ram_size = n
                        /\ ram_memory = ram_spi.chip.mem /\ ram_got = ram_wanted
  BY <1>1 DEF BootAt
<1>6. R!MemoryFound
  <2>1. CASE n > 0
    BY <1>1, <1>2, <1>5, <2>1 DEF R!MemoryFound, RamTypes
  <2>2. CASE n = 0
    BY <1>1, <1>2, <1>5, <2>2 DEF R!MemoryFound, RamTypes
  <2> QED
    BY <1>2, <2>1, <2>2
<1>7. R!BytesAsMeant
  BY <1>5 DEF R!BytesAsMeant
<1> QED
  BY <1>4, <1>6, <1>7
-----------------------------------------------------------------------------
(* MemoryWorks: the memory chip is found if it is there, and with its size; *)
(* it holds what was written to it, what is read is what was written, and   *)
(* what the decoder hears is what it is sent, in bursts or byte by byte,    *)
(* also on a unit that packs words the other way round (spilib.c,           *)
(* buffer.c).                                                               *)
THEOREM MemoryCorrect == Spec => []MemoryWorks
<1> DEFINE Inv == active = "ram" => RamInv
<1>1. R!SpiramAssumption
  BY BoardAssumption
<1>2. Init => Inv
  <2> SUFFICES ASSUME Init, active = "ram" PROVE RamInv
    OBVIOUS
  <2>1. R!Init
    BY DEF Init
  <2> QED
    BY <1>1, <2>1, InitRam
<1>3. Inv /\ [Next]_vars => Inv'
  <2> SUFFICES ASSUME Inv, [Next]_vars, active' = "ram" PROVE RamInv'
    OBVIOUS
  <2>1. CASE UNCHANGED vars
    <3>1. active = "ram" /\ UNCHANGED R!vars
      BY <2>1 DEF vars, ramVars, R!vars
    <3> QED
      BY <3>1, StillRam
  <2>2. CASE active = "ram" /\ R!Next
    BY <1>1, <2>2, RamKept
  <2>3. CASE active # "ram" /\ UNCHANGED active
    BY <2>3
  <2>4. Next => (active = "ram" /\ R!Next) \/ (active # "ram" /\ UNCHANGED active)
    BY DEF Next
  <2> QED
    BY <2>1, <2>2, <2>3, <2>4
<1>4. Inv => MemoryWorks
  BY <1>1, RamShows DEF MemoryWorks
<1> QED
  BY <1>2, <1>3, <1>4, PTL DEF Spec
=============================================================================
