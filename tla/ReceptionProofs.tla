-------------------------- MODULE ReceptionProofs ---------------------------
(***************************************************************************)
(* What reaches the buffer and the header, for all streams, titles, chunks *)
(* and blocks: the metadata part of the reception first, then that the     *)
(* chunks cannot be seen by it.  Of both an invariant says where in the    *)
(* stream, and in what the server sends, the code is.                      *)
(***************************************************************************)
EXTENDS Reception, SequenceTheorems, TLAPS

(* Two sequences one behind the other.                                     *)
LEMMA Joined ==
  ASSUME NEW X, NEW s \in Seq(X), NEW t \in Seq(X)
  PROVE  /\ s \o t \in Seq(X)
         /\ Len(s \o t) = Len(s) + Len(t)
         /\ \A i \in 1..Len(s) : (s \o t)[i] = s[i]
         /\ \A i \in 1..Len(t) : (s \o t)[Len(s) + i] = t[i]
<1>1. Len(s) \in Nat /\ Len(t) \in Nat
  BY LenProperties
<1>2. /\ s \o t \in Seq(X) /\ Len(s \o t) = Len(s) + Len(t)
      /\ \A i \in 1..Len(s) + Len(t) :
           (s \o t)[i] = IF i <= Len(s) THEN s[i] ELSE t[i - Len(s)]
  BY ConcatProperties
<1>3. ASSUME NEW i \in 1..Len(t) PROVE (s \o t)[Len(s) + i] = t[i]
  <2>1. Len(s) + i \in 1..Len(s) + Len(t) /\ ~(Len(s) + i <= Len(s)) /\ Len(s) + i - Len(s) = i
    BY <1>1
  <2> QED
    BY <1>2, <2>1
<1>4. ASSUME NEW i \in 1..Len(s) PROVE (s \o t)[i] = s[i]
  <2>1. i \in 1..Len(s) + Len(t) /\ i <= Len(s)
    BY <1>1
  <2> QED
    BY <1>2, <2>1
<1> QED
  BY <1>2, <1>3, <1>4

(* A part of a sequence.                                                   *)
LEMMA Part ==
  ASSUME NEW X, NEW s \in Seq(X), NEW m \in Nat, NEW n \in Nat, m <= n, n <= Len(s)
  PROVE  /\ SubSeq(s, m + 1, n) \in Seq(X)
         /\ Len(SubSeq(s, m + 1, n)) = n - m
         /\ \A i \in 1..n - m : SubSeq(s, m + 1, n)[i] = s[m + i]
<1>1. Len(s) \in Nat
  BY LenProperties
<1>2. CASE n = m
  <2>1. SubSeq(s, m + 1, n) = << >>
    BY <1>2, SubSeqEmpty
  <2> QED
    BY <1>2, <2>1, EmptySeq
<1>3. CASE m < n
  <2>1. \A i \in m + 1..n : i \in 1..Len(s)
    BY <1>1
  <2>2. \A i \in m + 1..n : s[i] \in X
    BY <2>1, ElementOfSeq
  <2>3. /\ SubSeq(s, m + 1, n) \in Seq(X)
        /\ Len(SubSeq(s, m + 1, n)) = IF m + 1 <= n THEN n - (m + 1) + 1 ELSE 0
        /\ \A i \in 1..n - (m + 1) + 1 : SubSeq(s, m + 1, n)[i] = s[m + 1 + i - 1]
    BY <2>2, SubSeqProperties
  <2>4. n - (m + 1) + 1 = n - m /\ m + 1 <= n
    BY <1>3
  <2>5. \A i \in 1..n - m : m + 1 + i - 1 = m + i
    OBVIOUS
  <2> QED
    BY <2>3, <2>4, <2>5
<1> QED
  BY <1>2, <1>3

(* Its first bytes, and the rest of it.                                    *)
LEMMA Split ==
  ASSUME NEW X, NEW s \in Seq(X), NEW n \in Nat, n <= Len(s)
  PROVE  /\ SubSeq(s, 1, n) \in Seq(X) /\ Len(SubSeq(s, 1, n)) = n
         /\ \A i \in 1..n : SubSeq(s, 1, n)[i] = s[i]
         /\ SubSeq(s, n + 1, Len(s)) \in Seq(X) /\ Len(SubSeq(s, n + 1, Len(s))) = Len(s) - n
         /\ \A i \in 1..Len(s) - n : SubSeq(s, n + 1, Len(s))[i] = s[n + i]
<1>1. Len(s) \in Nat
  BY LenProperties
<1>2. /\ SubSeq(s, 0 + 1, n) \in Seq(X) /\ Len(SubSeq(s, 0 + 1, n)) = n - 0
      /\ \A i \in 1..n - 0 : SubSeq(s, 0 + 1, n)[i] = s[0 + i]
  BY <1>1, Part
<1>3. 0 + 1 = 1 /\ n - 0 = n /\ \A i \in 1..n : 0 + i = i
  OBVIOUS
<1>4. /\ SubSeq(s, 1, n) \in Seq(X) /\ Len(SubSeq(s, 1, n)) = n
      /\ \A i \in 1..n : SubSeq(s, 1, n)[i] = s[0 + i]
  BY <1>2, <1>3
<1> QED
  BY <1>1, <1>3, <1>4, Part

(* A byte is overwritten.                                                  *)
LEMMA Overwritten ==
  ASSUME NEW s \in Seq(Byte)
  PROVE  /\ Zeroed(s) \in Seq(Byte) /\ Len(Zeroed(s)) = Len(s)
         /\ \A k \in 1..Len(s) :
              /\ Zeroed(s)[k].kind = s[k].kind /\ Zeroed(s)[k].at = s[k].at
              /\ k # 1 => Zeroed(s)[k] = s[k]
<1>1. CASE s = <<>>
  BY <1>1, EmptySeq DEF Zeroed
<1>2. CASE s # <<>>
  <2>1. Len(s) \in Nat /\ 1 \in 1..Len(s)
    BY <1>2, EmptySeq
  <2>2. s[1] \in Byte
    BY <2>1, ElementOfSeq
  <2>3. PICK b : b = [s[1] EXCEPT !.value = 0]
    OBVIOUS
  <2>4. b \in Byte /\ b.kind = s[1].kind /\ b.at = s[1].at
    BY <2>2, <2>3 DEF Byte
  <2>5. Zeroed(s) = [s EXCEPT ![1] = b]
    BY <1>2, <2>3 DEF Zeroed
  <2>6. /\ [s EXCEPT ![1] = b] \in Seq(Byte) /\ Len([s EXCEPT ![1] = b]) = Len(s)
        /\ \A j \in 1..Len(s) : [s EXCEPT ![1] = b][j] = IF j = 1 THEN b ELSE s[j]
    BY <2>1, <2>4, ExceptSeq
  <2> QED
    BY <2>4, <2>5, <2>6
<1> QED
  BY <1>1, <1>2
-----------------------------------------------------------------------------

(* How much of the stream the metadata part has dealt with.                *)
Handled == next - Len(pdata)

DemuxTypes ==
  /\ metaint \in MetaInts /\ stream \in Streams[metaint]
  /\ next \in 0..Len(stream) /\ Len(pdata) <= next
  /\ pc \in {"recv", "rest", "meta"}
  /\ pdata \in Seq(Byte) /\ (rest < 0 => metadata \in Seq(Byte))
  /\ title \in Seq(Byte) /\ audio \in Seq(Byte)
  /\ metad \in Int /\ rest \in Int
  /\ metaint = 0 => metad = -1 /\ rest = 0

(* The block is what has arrived, but for an audio byte overwritten.       *)
SameByte(b, c) == b = c \/ (b.kind = "audio" /\ c.kind = "audio" /\ b.at = c.at)
IsBlock(s, p, h) == \A k \in 1..Len(p) : SameByte(p[k], s[h + k])

Places ==
  /\ pc = "recv" => pdata = <<>>
  /\ pc = "rest" => rest < 0
  /\ pc = "meta" /\ rest < 0 => pdata = <<>>

(* Where a stretch of audio is under way ...                               *)
InAudio(s, m, h, d) == \E q \in Begins(s) : q <= h /\ h <= q + m /\ d = m - (h - q)

(* ... and where a title is, of which r bytes are missing.                 *)
TitleParts(s, m, h, r, text, q, units) ==
  /\ PeriodBehind(s, m, q, units)
  /\ h = q + m + 1 + units * Unit - r /\ h >= q + m + 1
  /\ Len(text) = h - (q + m + 1)
  /\ \A j \in 1..Len(text) : text[j] = s[q + m + 1 + j]
InTitle(s, m, h, r, text) ==
  \E q \in Begins(s) : \E units \in 0..MaxUnits : TitleParts(s, m, h, r, text, q, units)

Where ==
  metaint # 0 =>
    /\ rest >= 0 => InAudio(stream, metaint, Handled, metad)
    /\ rest < 0 => metad = metaint /\ InTitle(stream, metaint, Handled, -rest, metadata)

(* The audio bytes of the first h bytes of a stream, in their order.       *)
AudioOf(s, h) == {k \in 1..h : s[k].kind = "audio"}
PlacesOf(a) == {a[i].at : i \in 1..Len(a)}
Ordered(a) == \A i, j \in 1..Len(a) : i < j => a[i].at < a[j].at
IsWritten(s, a, h) == Ordered(a) /\ PlacesOf(a) = AudioOf(s, h)

DemuxInv ==
  /\ DemuxTypes /\ Places /\ Where
  /\ IsBlock(stream, pdata, Handled)
  /\ IsWritten(stream, audio, Handled)
  /\ TitleWhole

(* The streams, and the sizes.                                             *)
LEMMA DemuxConstants ==
  /\ MetaInts \subseteq Nat /\ Unit \in Nat /\ Unit > 0 /\ RECEIVE \in Nat /\ RECEIVE > 0
  /\ MaxUnits \in Nat
  /\ \A m \in MetaInts : \A s \in Streams[m] : IsStream(s, m)
BY IcyDemuxAssumption

(* A title of so many units.                                               *)
LEMMA TitleLength ==
  ASSUME NEW units \in 0..MaxUnits
  PROVE  units * Unit \in Nat /\ units * Unit <= MaxUnits * Unit /\ (units # 0 => units * Unit > 0)
BY DemuxConstants

(* Where a period ends the next one begins.                                *)
LEMMA PeriodEnds ==
  ASSUME NEW s \in Seq(Byte), NEW m \in Nat, NEW q \in Begins(s), NEW units \in 0..MaxUnits,
         PeriodBehind(s, m, q, units)
  PROVE  q \in 0..Len(s) /\ q + m + 1 + units * Unit \in Begins(s)
<1>1. Len(s) \in Nat /\ units * Unit \in Nat
  BY LenProperties, TitleLength
<1>2. q \in 0..Len(s)
  BY <1>1 DEF Begins
<1>3. PICK e : e = q + m + 1 + units * Unit
  OBVIOUS
<1>4. e \in 1..Len(s) /\ q + m + 1 \in 1..e
  BY <1>1, <1>2, <1>3 DEF PeriodBehind
<1>5. s[q + m + 1].kind = "length" /\ e = q + m + 1 + s[q + m + 1].value * Unit
  BY <1>3 DEF PeriodBehind
<1>6. e \in Begins(s)
  BY <1>4, <1>5 DEF Begins
<1> QED
  BY <1>2, <1>3, <1>6

(* A block goes on behind its first n bytes.                               *)
LEMMA BlockGoesOn ==
  ASSUME NEW s \in Seq(Byte), NEW p \in Seq(Byte), NEW h \in Nat, NEW n \in Nat, n <= Len(p),
         IsBlock(s, p, h)
  PROVE  IsBlock(s, SubSeq(p, n + 1, Len(p)), h + n)
<1>1. Len(p) \in Nat
  BY LenProperties
<1>2. /\ Len(SubSeq(p, n + 1, Len(p))) = Len(p) - n
      /\ \A i \in 1..Len(p) - n : SubSeq(p, n + 1, Len(p))[i] = p[n + i]
  BY Split
<1>3. \A i \in 1..Len(p) - n : n + i \in 1..Len(p) /\ h + n + i = h + (n + i)
  BY <1>1
<1> QED
  BY <1>2, <1>3 DEF IsBlock

(* ... also if its first byte is audio and overwritten.                    *)
LEMMA BlockOverwritten ==
  ASSUME NEW s \in Seq(Byte), NEW p \in Seq(Byte), NEW h \in Nat,
         IsBlock(s, p, h), p # <<>> => s[h + 1].kind = "audio"
  PROVE  IsBlock(s, Zeroed(p), h)
<1>1. /\ Zeroed(p) \in Seq(Byte) /\ Len(Zeroed(p)) = Len(p)
      /\ \A k \in 1..Len(p) :
           /\ Zeroed(p)[k].kind = p[k].kind /\ Zeroed(p)[k].at = p[k].at
           /\ k # 1 => Zeroed(p)[k] = p[k]
  BY Overwritten
<1>2. SUFFICES ASSUME NEW k \in 1..Len(p) PROVE SameByte(Zeroed(p)[k], s[h + k])
  BY <1>1 DEF IsBlock
<1>3. SameByte(p[k], s[h + k])
  BY DEF IsBlock
<1>4. CASE k # 1
  BY <1>1, <1>3, <1>4
<1>5. CASE k = 1
  <2>1. p # <<>>
    BY <1>5, EmptySeq
  <2>2. s[h + k].kind = "audio"
    BY <1>5, <2>1
  <2>3. p[k].kind = "audio" /\ p[k].at = s[h + k].at
    BY <1>3, <2>2 DEF SameByte
  <2> QED
    BY <1>1, <2>2, <2>3 DEF SameByte
<1> QED
  BY <1>4, <1>5

(* Audio that is written, and bytes that are not audio.                    *)
LEMMA MoreWritten ==
  ASSUME NEW s \in Seq(Byte), NEW a \in Seq(Byte), NEW part \in Seq(Byte),
         NEW h \in Nat, NEW g \in Nat, h + Len(part) <= g, g <= Len(s), IsWritten(s, a, h),
         \A j \in 1..Len(part) : part[j].at = h + j /\ s[h + j].kind = "audio",
         \A k \in h + Len(part) + 1..g : s[k].kind # "audio"
  PROVE  IsWritten(s, a \o part, g)
<1>1. /\ a \o part \in Seq(Byte) /\ Len(a \o part) = Len(a) + Len(part)
      /\ \A i \in 1..Len(a) : (a \o part)[i] = a[i]
      /\ \A i \in 1..Len(part) : (a \o part)[Len(a) + i] = part[i]
  BY Joined
<1>2. Len(a) \in Nat /\ Len(part) \in Nat /\ Len(s) \in Nat
  BY LenProperties
<1>3. PICK w : w = a \o part
  OBVIOUS
<1>4. \A i \in 1..Len(a) : w[i].at \in 1..h /\ s[w[i].at].kind = "audio"
  <2> SUFFICES ASSUME NEW i \in 1..Len(a) PROVE w[i].at \in 1..h /\ s[w[i].at].kind = "audio"
    OBVIOUS
  <2>1. a[i].at \in PlacesOf(a)
    BY DEF PlacesOf
  <2>2. a[i].at \in AudioOf(s, h)
    BY <2>1 DEF IsWritten
  <2> QED
    BY <1>1, <1>3, <2>2 DEF AudioOf
<1>5. \A i \in 1..Len(part) : w[Len(a) + i].at = h + i
  BY <1>1, <1>3
<1>6. Ordered(w)
  <2> SUFFICES ASSUME NEW i \in 1..Len(w), NEW j \in 1..Len(w), i < j PROVE w[i].at < w[j].at
    BY DEF Ordered
  <2>1. CASE j <= Len(a)
    <3>1. i \in 1..Len(a) /\ j \in 1..Len(a)
      BY <1>2, <2>1
    <3> QED
      BY <1>1, <1>3, <3>1 DEF IsWritten, Ordered
  <2>2. CASE j > Len(a) /\ i <= Len(a)
    <3>1. PICK l \in 1..Len(part) : j = Len(a) + l
      <4>1. j - Len(a) \in 1..Len(part) /\ j = Len(a) + (j - Len(a))
        BY <1>1, <1>2, <1>3, <2>2
      <4> QED
        BY <4>1
    <3>2. i \in 1..Len(a)
      BY <1>2, <2>2
    <3>3. w[j].at = h + l
      BY <1>5, <3>1
    <3>4. w[i].at \in 1..h
      BY <1>4, <3>2
    <3> QED
      BY <1>2, <3>1, <3>3, <3>4
  <2>3. CASE i > Len(a)
    <3>1. PICK k \in 1..Len(part), l \in 1..Len(part) : i = Len(a) + k /\ j = Len(a) + l
      <4>1. /\ i - Len(a) \in 1..Len(part) /\ i = Len(a) + (i - Len(a))
            /\ j - Len(a) \in 1..Len(part) /\ j = Len(a) + (j - Len(a))
        BY <1>1, <1>2, <1>3, <2>3
      <4> QED
        BY <4>1
    <3>2. w[i].at = h + k /\ w[j].at = h + l
      BY <1>5, <3>1
    <3> QED
      BY <1>2, <3>1, <3>2
  <2> QED
    BY <1>1, <1>2, <1>3, <2>1, <2>2, <2>3
<1>7. ASSUME NEW k \in PlacesOf(w) PROVE k \in AudioOf(s, g)
  <2>1. PICK i \in 1..Len(w) : k = w[i].at
    BY DEF PlacesOf
  <2>2. CASE i <= Len(a)
    <3>1. i \in 1..Len(a)
      BY <1>2, <2>2
    <3>2. k \in 1..h /\ s[k].kind = "audio"
      BY <1>4, <2>1, <3>1
    <3> QED
      BY <1>2, <3>2 DEF AudioOf
  <2>3. CASE i > Len(a)
    <3>1. PICK l \in 1..Len(part) : i = Len(a) + l
      <4>1. i - Len(a) \in 1..Len(part) /\ i = Len(a) + (i - Len(a))
        BY <1>1, <1>2, <1>3, <2>3
      <4> QED
        BY <4>1
    <3>2. k = h + l /\ s[h + l].kind = "audio"
      BY <1>5, <2>1, <3>1
    <3> QED
      BY <1>2, <3>1, <3>2 DEF AudioOf
  <2> QED
    BY <1>1, <1>2, <1>3, <2>2, <2>3
<1>8. ASSUME NEW k \in AudioOf(s, g) PROVE k \in PlacesOf(w)
  <2>1. k \in 1..g /\ s[k].kind = "audio"
    BY DEF AudioOf
  <2>2. CASE k <= h
    <3>1. k \in AudioOf(s, h)
      BY <2>1, <2>2 DEF AudioOf
    <3>2. k \in PlacesOf(a)
      BY <3>1 DEF IsWritten
    <3>3. PICK i \in 1..Len(a) : k = a[i].at
      BY <3>2 DEF PlacesOf
    <3>4. i \in 1..Len(w) /\ w[i].at = k
      BY <1>1, <1>2, <1>3, <3>3
    <3> QED
      BY <3>4 DEF PlacesOf
  <2>3. CASE k > h
    <3>1. k <= h + Len(part)
      <4>1. CASE k > h + Len(part)
        <5>1. k \in h + Len(part) + 1..g
          BY <1>2, <2>1, <4>1
        <5> QED
          BY <2>1, <5>1
      <4> QED
        BY <1>2, <2>1, <4>1
    <3>2. k - h \in 1..Len(part) /\ h + (k - h) = k
      BY <1>2, <2>1, <2>3, <3>1
    <3>3. w[Len(a) + (k - h)].at = k /\ Len(a) + (k - h) \in 1..Len(w)
      BY <1>1, <1>2, <1>3, <1>5, <3>2
    <3> QED
      BY <3>3 DEF PlacesOf
  <2> QED
    BY <2>1, <2>2, <2>3
<1>9. PlacesOf(w) = AudioOf(s, g)
  BY <1>7, <1>8
<1> QED
  BY <1>3, <1>6, <1>9 DEF IsWritten
(* Nothing is written for bytes that are not audio.                        *)
LEMMA NothingWritten ==
  ASSUME NEW s \in Seq(Byte), NEW a \in Seq(Byte), NEW h \in Nat, NEW g \in Nat, h <= g, g <= Len(s),
         IsWritten(s, a, h), \A k \in h + 1..g : s[k].kind # "audio"
  PROVE  IsWritten(s, a, g)
<1>1. Len(s) \in Nat
  BY LenProperties
<1>2. \A k \in h + 1..g : k \notin 1..h
  OBVIOUS
<1>3. \A k \in 1..g : k \in 1..h \/ k \in h + 1..g
  OBVIOUS
<1>4. \A k \in 1..h : k \in 1..g
  OBVIOUS
<1>5. AudioOf(s, g) = AudioOf(s, h)
  BY <1>3, <1>4 DEF AudioOf
<1> QED
  BY <1>5 DEF IsWritten

(* Inside of a stretch of audio that is not at the end of the stream, a    *)
(* period goes on.                                                         *)
LEMMA InPeriod ==
  ASSUME NEW m \in Nat, m # 0, NEW s, IsStream(s, m), NEW h \in Nat, h < Len(s), NEW d,
         InAudio(s, m, h, d)
  PROVE  /\ d \in 0..m
         /\ \E q \in Begins(s) : \E units \in 0..MaxUnits :
              /\ PeriodBehind(s, m, q, units)
              /\ q \in Nat /\ q <= h /\ h + d = q + m
<1>1. PICK q \in Begins(s) : q <= h /\ h <= q + m /\ d = m - (h - q)
  BY DEF InAudio
<1>2. s \in Seq(Byte) /\ Len(s) \in Nat
  BY LenProperties DEF IsStream
<1>3. q \in 0..Len(s)
  BY <1>2 DEF Begins
<1>4. q # Len(s)
  BY <1>1, <1>2, <1>3
<1>5. PICK units \in 0..MaxUnits : PeriodBehind(s, m, q, units)
  BY <1>4 DEF IsStream
<1>6. d \in 0..m /\ q \in Nat /\ h + d = q + m
  BY <1>1, <1>3
<1> QED
  BY <1>1, <1>5, <1>6

(* There is audio behind h.                                                *)
AudioBehind(s, h, n) ==
  \A j \in 1..n : h + j \in 1..Len(s) /\ s[h + j].kind = "audio" /\ s[h + j].at = h + j

(* What is behind a place inside of a stretch of audio.                    *)
LEMMA AudioAhead ==
  ASSUME NEW m \in Nat, NEW s \in Seq(Byte), IsStream(s, m), NEW h \in Nat, NEW n \in Nat, h + n <= Len(s),
         NEW d \in Int, m # 0 => InAudio(s, m, h, d) /\ n <= d
  PROVE  AudioBehind(s, h, n)
<1>1. s \in Seq(Byte) /\ Len(s) \in Nat
  BY LenProperties DEF IsStream
<1>2. SUFFICES ASSUME NEW j \in 1..n
              PROVE  h + j \in 1..Len(s) /\ s[h + j].kind = "audio" /\ s[h + j].at = h + j
  BY DEF AudioBehind
<1>3. h + j \in 1..Len(s)
  BY <1>1
<1>4. s[h + j].kind = "audio"
  <2>1. CASE m = 0
    BY <1>3, <2>1 DEF IsStream
  <2>2. CASE m # 0
    <3>1. h < Len(s)
      BY <1>1
    <3>2. PICK q \in Begins(s), units \in 0..MaxUnits :
            PeriodBehind(s, m, q, units) /\ q \in Nat /\ q <= h /\ h + d = q + m
      BY <2>2, <3>1, InPeriod
    <3>3. h - q + j \in 1..m /\ q + (h - q + j) = h + j
      BY <2>2, <3>2
    <3> QED
      BY <3>2, <3>3 DEF PeriodBehind
  <2> QED
    BY <2>1, <2>2
<1> QED
  BY <1>3, <1>4 DEF IsStream

(* The audio at the beginning of a block is written.                       *)
LEMMA AudioGoesOn ==
  ASSUME NEW m \in Nat, NEW s, IsStream(s, m), NEW h \in Nat, NEW n \in Nat, NEW g \in Nat,
         h + n <= g, g <= Len(s), NEW d \in Int, m # 0 => InAudio(s, m, h, d) /\ n <= d,
         NEW p \in Seq(Byte), n <= Len(p), IsBlock(s, p, h), NEW a \in Seq(Byte), IsWritten(s, a, h),
         \A k \in h + n + 1..g : s[k].kind # "audio"
  PROVE  a \o SubSeq(p, 1, n) \in Seq(Byte) /\ IsWritten(s, a \o SubSeq(p, 1, n), g)
<1>1. s \in Seq(Byte) /\ Len(s) \in Nat /\ Len(p) \in Nat
  BY LenProperties DEF IsStream
<1>2. PICK part : part = SubSeq(p, 1, n)
  OBVIOUS
<1>3. part \in Seq(Byte) /\ Len(part) = n /\ \A j \in 1..n : part[j] = p[j]
  BY <1>2, Split
<1>4. \A j \in 1..n : h + j \in 1..Len(s) /\ s[h + j].kind = "audio" /\ s[h + j].at = h + j
  <2>1. h + n <= Len(s)
    BY <1>1
  <2>2. AudioBehind(s, h, n)
    BY <1>1, <2>1, AudioAhead
  <2> QED
    BY <2>2 DEF AudioBehind
<1>5. \A j \in 1..n : part[j].at = h + j /\ s[h + j].kind = "audio"
  <2> SUFFICES ASSUME NEW j \in 1..n PROVE part[j].at = h + j
    BY <1>4
  <2>1. j \in 1..Len(p)
    BY <1>1
  <2>2. SameByte(p[j], s[h + j])
    BY <2>1 DEF IsBlock
  <2> QED
    BY <1>3, <1>4, <2>2 DEF SameByte
<1>6. IsWritten(s, a \o part, g)
  BY <1>1, <1>3, <1>5, MoreWritten
<1>7. a \o part \in Seq(Byte)
  BY <1>3, Joined
<1> QED
  BY <1>2, <1>6, <1>7

(* A byte that is not audio is in the block as it is in the stream.        *)
LEMMA NotOverwritten ==
  ASSUME NEW s, NEW p, NEW h, IsBlock(s, p, h), NEW k \in 1..Len(p), s[h + k].kind # "audio"
  PROVE  p[k] = s[h + k]
BY DEF IsBlock, SameByte

(* What else is true of the metadata part.                                 *)
LEMMA DemuxFacts ==
  ASSUME DemuxInv
  PROVE  /\ metaint \in Nat /\ IsStream(stream, metaint)
         /\ stream \in Seq(Byte) /\ Len(stream) \in Nat /\ Len(pdata) \in Nat
         /\ next \in Nat /\ next <= Len(stream)
         /\ Handled \in Nat /\ next = Handled + Len(pdata)
<1>1. metaint \in Nat /\ IsStream(stream, metaint)
  BY DemuxConstants DEF DemuxInv, DemuxTypes
<1>2. stream \in Seq(Byte) /\ Len(stream) \in Nat /\ Len(pdata) \in Nat
  BY <1>1, LenProperties DEF DemuxInv, DemuxTypes, IsStream
<1> QED
  BY <1>1, <1>2 DEF DemuxInv, DemuxTypes, Handled
-----------------------------------------------------------------------------
(* The metadata part before the first block of a response: at the start,   *)
LEMMA FirstResponse ==
  ASSUME Init
  PROVE  DemuxInv
<1>1. IsStream(stream, metaint) /\ metaint \in Nat
  BY DemuxConstants DEF Init
<1>2. stream \in Seq(Byte) /\ Len(stream) \in Nat /\ <<>> \in Seq(Byte) /\ Len(<<>>) = 0
  BY <1>1, LenProperties, EmptySeq DEF IsStream
<1>3. DemuxTypes /\ Places
  BY <1>1, <1>2 DEF Init, DemuxTypes, Places, MetadOf
<1>4. Handled = 0
  <2>1. next = 0 /\ Len(pdata) = 0
    BY <1>2 DEF Init
  <2> QED
    BY <2>1 DEF Handled
<1>5. Where
  BY <1>1, <1>4 DEF Init, Where, InAudio, Begins, MetadOf
<1>6. IsBlock(stream, pdata, Handled)
  BY <1>2 DEF Init, IsBlock
<1>7. IsWritten(stream, audio, Handled)
  BY <1>2, <1>4 DEF Init, IsWritten, Ordered, PlacesOf, AudioOf
<1> QED
  BY <1>3, <1>5, <1>6, <1>7 DEF DemuxInv, TitleWhole, Init

(* ... and when a connection is made again.                                *)
LEMMA NextResponse ==
  ASSUME Reconnect
  PROVE  DemuxInv'
<1>1. IsStream(stream', metaint') /\ metaint' \in Nat
  BY DemuxConstants DEF Reconnect
<1>2. stream' \in Seq(Byte) /\ Len(stream') \in Nat /\ <<>> \in Seq(Byte) /\ Len(<<>>) = 0
  BY <1>1, LenProperties, EmptySeq DEF IsStream
<1>3. pdata' = <<>> /\ next' = 0 /\ audio' = <<>> /\ title' = <<>> /\ rest' = 0 /\ pc' = "recv"
  BY DEF Reconnect
<1>4. DemuxTypes' /\ Places'
  BY <1>1, <1>2, <1>3 DEF Reconnect, DemuxTypes, Places, MetadOf
<1>5. Handled' = 0
  <2>1. next' = 0 /\ Len(pdata') = 0
    BY <1>2, <1>3
  <2> QED
    BY <2>1 DEF Handled
<1>6. Where'
  <2>1. metaint' # 0 => metad' = metaint'
    BY <1>1 DEF Reconnect, MetadOf
  <2>2. 0 \in Begins(stream')
    BY <1>2 DEF Begins
  <2>3. metaint' # 0 => InAudio(stream', metaint', 0, metaint')
    BY <1>1, <2>2 DEF InAudio
  <2>4. metaint' # 0 => InAudio(stream', metaint', Handled', metad')
    BY <1>5, <2>1, <2>3
  <2>5. ~(rest' < 0)
    BY <1>3
  <2> QED
    BY <2>4, <2>5 DEF Where
<1>7. IsBlock(stream, pdata, Handled)'
  BY <1>2, <1>3 DEF IsBlock
<1>8. IsWritten(stream, audio, Handled)'
  BY <1>2, <1>3, <1>5 DEF IsWritten, Ordered, PlacesOf, AudioOf
<1> QED
  BY <1>3, <1>4, <1>6, <1>7, <1>8 DEF DemuxInv, TitleWhole

(* A block comes.                                                          *)
LEMMA BlockReceived ==
  ASSUME DemuxInv, NEW len \in Nat \ {0}, Receive(len)
  PROVE  DemuxInv'
<1>1. /\ metaint \in Nat /\ stream \in Seq(Byte) /\ Len(stream) \in Nat
      /\ next \in Nat /\ Handled = next /\ next + len <= Len(stream)
  BY DemuxFacts, EmptySeq DEF Receive, DemuxInv, Places
<1>2. /\ pdata' \in Seq(Byte) /\ Len(pdata') = len
      /\ \A k \in 1..len : pdata'[k] = stream[next + k]
  <2>1. next + len - next = len /\ next <= next + len /\ next + len \in Nat
    BY <1>1
  <2> QED
    BY <1>1, <2>1, Part DEF Receive
<1>3. next' = next + len /\ Handled' = Handled
  BY <1>1, <1>2 DEF Receive, Handled
<1>4. UNCHANGED <<stream, metaint, metad, rest, metadata, title, audio>>
  BY DEF Receive
<1>5. DemuxTypes' /\ Places'
  BY <1>1, <1>2, <1>3, <1>4 DEF Receive, DemuxInv, DemuxTypes, Places
<1>6. Where'
  BY <1>3, <1>4 DEF DemuxInv, Where
<1>7. IsBlock(stream, pdata, Handled)'
  BY <1>1, <1>2, <1>3, <1>4 DEF IsBlock, SameByte
<1>8. IsWritten(stream, audio, Handled)'
  BY <1>3, <1>4 DEF DemuxInv
<1>9. TitleWhole'
  BY <1>1, <1>3, <1>4 DEF DemuxInv, TitleWhole, Announced, TitleAt
<1> QED
  BY <1>5, <1>6, <1>7, <1>8, <1>9 DEF DemuxInv

(* The rest of a block is audio.                                           *)
LEMMA AudioHandled ==
  ASSUME DemuxInv, AudioOnly
  PROVE  DemuxInv'
<1>1. /\ metaint \in Nat /\ IsStream(stream, metaint)
      /\ stream \in Seq(Byte) /\ Len(stream) \in Nat /\ Len(pdata) \in Nat
      /\ next \in Nat /\ next <= Len(stream)
      /\ Handled \in Nat /\ next = Handled + Len(pdata)
  BY DemuxFacts
<1>2. DemuxTypes /\ Places /\ Where
  BY DEF DemuxInv
<1>3. pdata' = <<>> /\ Len(pdata') = 0 /\ pdata' \in Seq(Byte) /\ Handled' = next
  BY <1>1, EmptySeq DEF AudioOnly, Handled
<1>4. UNCHANGED <<stream, next, metaint, metadata, title>>
  BY DEF AudioOnly
<1>5. metaint # 0 /\ rest < 0 => Handled = next /\ pdata = <<>>
  BY <1>1, <1>2, EmptySeq DEF Places, AudioOnly
<1>6. pdata = SubSeq(pdata, 1, Len(pdata))
  <2>1. /\ SubSeq(pdata, 1, Len(pdata)) \in Seq(Byte)
        /\ Len(SubSeq(pdata, 1, Len(pdata))) = Len(pdata)
        /\ \A i \in 1..Len(pdata) : SubSeq(pdata, 1, Len(pdata))[i] = pdata[i]
    BY <1>1, <1>2, Split DEF DemuxTypes
  <2> QED
    BY <1>2, <2>1, SeqEqual DEF DemuxTypes
<1>7. metaint # 0 /\ rest >= 0 => InAudio(stream, metaint, Handled, metad) /\ Len(pdata) <= metad
  BY <1>1, <1>2 DEF Where, AudioOnly, LengthByteInside, DemuxTypes
<1>8. audio' \in Seq(Byte) /\ IsWritten(stream, audio', next)
  <2>1. CASE metaint # 0 /\ rest < 0
    <3>1. audio' = audio
      BY <1>2, <1>5, <2>1, ConcatEmptySeq DEF AudioOnly, DemuxTypes
    <3> QED
      BY <1>2, <1>5, <2>1, <3>1 DEF DemuxTypes, DemuxInv
  <2>2. CASE ~(metaint # 0 /\ rest < 0)
    <3>1. metaint # 0 => InAudio(stream, metaint, Handled, metad) /\ Len(pdata) <= metad
      BY <1>2, <1>7, <2>2 DEF DemuxTypes
    <3>2. \A k \in Handled + Len(pdata) + 1..next : stream[k].kind # "audio"
      BY <1>1
    <3>3. /\ audio \o SubSeq(pdata, 1, Len(pdata)) \in Seq(Byte)
          /\ IsWritten(stream, audio \o SubSeq(pdata, 1, Len(pdata)), next)
      <4>1. /\ metad \in Int /\ pdata \in Seq(Byte) /\ audio \in Seq(Byte)
            /\ IsBlock(stream, pdata, Handled) /\ IsWritten(stream, audio, Handled)
        BY DEF DemuxInv, DemuxTypes
      <4> QED
        BY <1>1, <3>1, <3>2, <4>1, AudioGoesOn
    <3> QED
      BY <1>6, <3>3 DEF AudioOnly
  <2> QED
    BY <2>1, <2>2
<1>9. DemuxTypes' /\ Places'
  BY <1>1, <1>2, <1>3, <1>4, <1>8 DEF AudioOnly, DemuxTypes, Places
<1>10. Where'
  <2>1. CASE metaint = 0
    BY <1>4, <2>1 DEF Where
  <2>2. CASE metaint # 0 /\ rest < 0
    <3>1. Handled' = Handled /\ rest' = rest /\ metad' = metad
      BY <1>2, <1>3, <1>5, <2>2, EmptySeq DEF AudioOnly, DemuxTypes
    <3> QED
      BY <1>2, <1>4, <3>1 DEF Where
  <2>3. CASE metaint # 0 /\ rest >= 0
    <3>1. PICK q \in Begins(stream) :
            q <= Handled /\ Handled <= q + metaint /\ metad = metaint - (Handled - q)
      BY <1>7, <2>3 DEF InAudio
    <3>2. q \in Nat
      BY <1>1 DEF Begins
    <3>3. q <= next /\ next <= q + metaint /\ metad - Len(pdata) = metaint - (next - q)
      BY <1>1, <1>2, <1>7, <2>3, <3>1, <3>2 DEF DemuxTypes
    <3>4. InAudio(stream, metaint, next, metad - Len(pdata))
      BY <3>1, <3>3 DEF InAudio
    <3>5. metad' = metad - Len(pdata) /\ rest' = 0
      BY <1>2, <2>3 DEF AudioOnly, DemuxTypes
    <3> QED
      BY <1>3, <1>4, <3>4, <3>5 DEF Where
  <2> QED
    BY <1>2, <2>1, <2>2, <2>3 DEF DemuxTypes
<1>11. IsBlock(stream, pdata, Handled)'
  BY <1>3 DEF IsBlock
<1>12. IsWritten(stream, audio, Handled)'
  BY <1>3, <1>4, <1>8
<1>13. TitleWhole'
  BY <1>4 DEF DemuxInv, TitleWhole, Announced, TitleAt
<1> QED
  BY <1>9, <1>10, <1>11, <1>12, <1>13 DEF DemuxInv

(* Behind the audio of a period there is none up to the next.              *)
LEMMA BehindAudio ==
  ASSUME NEW s, NEW m \in Nat, NEW q \in Nat, NEW units \in 0..MaxUnits, PeriodBehind(s, m, q, units)
  PROVE  \A k \in q + m + 1..q + m + 1 + units * Unit : s[k].kind # "audio"
<1> SUFFICES ASSUME NEW k \in q + m + 1..q + m + 1 + units * Unit PROVE s[k].kind # "audio"
  OBVIOUS
<1>1. units * Unit \in Nat
  BY TitleLength
<1>2. CASE k = q + m + 1
  BY <1>2 DEF PeriodBehind
<1>3. CASE k # q + m + 1
  <2>1. k - (q + m + 1) \in 1..units * Unit /\ q + m + 1 + (k - (q + m + 1)) = k
    BY <1>1, <1>3
  <2> QED
    BY <2>1 DEF PeriodBehind
<1> QED
  BY <1>2, <1>3

(* Where the next one begins there is audio, unless the stream ends there, *)
(* and it may be overwritten.                                              *)
LEMMA PeriodOver ==
  ASSUME NEW m \in Nat, m # 0, NEW s, IsStream(s, m), NEW e \in Begins(s),
         NEW p \in Seq(Byte), e + Len(p) <= Len(s), IsBlock(s, p, e)
  PROVE  e \in Nat /\ IsBlock(s, Zeroed(p), e) /\ InAudio(s, m, e, m)
<1>1. s \in Seq(Byte) /\ Len(s) \in Nat /\ Len(p) \in Nat
  BY LenProperties DEF IsStream
<1>2. e \in Nat /\ e <= Len(s)
  BY <1>1 DEF Begins
<1>3. e <= e /\ e <= e + m /\ m = m - (e - e)
  BY <1>2
<1>4. InAudio(s, m, e, m)
  BY <1>3 DEF InAudio
<1>5. ASSUME p # <<>> PROVE s[e + 1].kind = "audio"
  <2>1. Len(p) # 0
    BY <1>5, EmptySeq
  <2>2. e # Len(s)
    BY <1>1, <1>2, <2>1
  <2>3. PICK units \in 0..MaxUnits : PeriodBehind(s, m, e, units)
    BY <2>2 DEF IsStream
  <2>4. 1 \in 1..m
    OBVIOUS
  <2> QED
    BY <2>3, <2>4 DEF PeriodBehind
<1> QED
  BY <1>1, <1>2, <1>4, <1>5, BlockOverwritten

(* Where a title ends.                                                     *)
LEMMA TitleEnd ==
  ASSUME NEW m \in Nat, NEW s, NEW h \in Nat, NEW r \in Nat, NEW text, NEW q \in Nat,
         NEW units \in 0..MaxUnits, TitleParts(s, m, h, r, text, q, units)
  PROVE  /\ h + r = q + m + 1 + units * Unit /\ q + m + 1 <= h
         /\ r # 0 => units # 0
<1>1. units \in Nat /\ Unit \in Nat /\ units * Unit \in Nat
  BY TitleLength, DemuxConstants
<1>2. PICK u \in Nat : u = units * Unit
  BY <1>1
<1>3. h = q + m + 1 + u - r /\ h >= q + m + 1
  BY <1>2 DEF TitleParts
<1>4. units = 0 => u = 0
  BY <1>1, <1>2
<1> QED
  BY <1>2, <1>3, <1>4

(* A title is where its length byte says.                                  *)
LEMMA TitleStands ==
  ASSUME NEW m \in Nat, NEW s, NEW h \in Nat, NEW r \in Nat, NEW text, NEW q \in Nat,
         NEW units \in 0..MaxUnits, PeriodBehind(s, m, q, units), NEW e \in Nat,
         e = q + m + 1 + units * Unit, h + r = e, q + m + 1 <= h, Len(text) = h - (q + m + 1),
         \A j \in 1..Len(text) : text[j] = s[q + m + 1 + j]
  PROVE  TitleParts(s, m, h, r, text, q, units)
<1>1. units \in Nat /\ Unit \in Nat /\ units * Unit \in Nat
  BY TitleLength, DemuxConstants
<1>2. PICK u \in Nat : u = units * Unit
  BY <1>1
<1>3. h = q + m + 1 + u - r /\ h >= q + m + 1
  BY <1>2
<1>4. h = q + m + 1 + units * Unit - r
  BY <1>2, <1>3
<1> QED
  BY <1>3, <1>4 DEF TitleParts

(* A title is whole when nothing of it is missing.                         *)
LEMMA WholeTitle ==
  ASSUME NEW m \in Nat, NEW s, IsStream(s, m), NEW q \in Nat, NEW units \in 0..MaxUnits, units # 0,
         NEW text \in Seq(Byte), TitleParts(s, m, q + m + 1 + units * Unit, 0, text, q, units)
  PROVE  /\ q + m + 1 \in Nat \ {0}
         /\ s[q + m + 1].kind = "length" /\ s[q + m + 1].value > 0
         /\ text = SubSeq(s, q + m + 1 + 1, q + m + 1 + s[q + m + 1].value * Unit)
<1>1. /\ s \in Seq(Byte) /\ Len(s) \in Nat
      /\ units \in Nat /\ Unit \in Nat /\ units * Unit \in Nat
  BY LenProperties, TitleLength, DemuxConstants DEF IsStream
<1>2. PICK k : k = q + m + 1
  OBVIOUS
<1>3. /\ k \in Nat \ {0} /\ k + units * Unit <= Len(s)
      /\ s[k].kind = "length" /\ s[k].value = units /\ units > 0
  BY <1>1, <1>2 DEF TitleParts, PeriodBehind
<1>4. Len(text) = units * Unit /\ \A j \in 1..Len(text) : text[j] = s[k + j]
  BY <1>1, <1>2 DEF TitleParts
<1>5. PICK sub : sub = SubSeq(s, k + 1, k + units * Unit)
  OBVIOUS
<1>6. sub \in Seq(Byte) /\ Len(sub) = units * Unit /\ \A j \in 1..units * Unit : sub[j] = s[k + j]
  <2>1. PICK e : e = k + units * Unit
    OBVIOUS
  <2>2. k \in Nat /\ e \in Nat /\ k <= e /\ e <= Len(s) /\ e - k = units * Unit
    BY <1>1, <1>3, <2>1
  <2>3. /\ SubSeq(s, k + 1, e) \in Seq(Byte) /\ Len(SubSeq(s, k + 1, e)) = e - k
        /\ \A i \in 1..e - k : SubSeq(s, k + 1, e)[i] = s[k + i]
    BY <1>1, <2>2, Part
  <2> QED
    BY <1>5, <2>1, <2>2, <2>3
<1>7. text = sub
  BY <1>4, <1>6, SeqEqual
<1> QED
  BY <1>2, <1>3, <1>5, <1>7

(* The part of a title that is in a block.                                 *)
LEMMA TitleTaken ==
  ASSUME NEW m \in Nat, NEW s, IsStream(s, m), NEW h \in Nat, NEW r \in Nat, NEW text \in Seq(Byte),
         NEW q \in Nat, NEW units \in 0..MaxUnits, TitleParts(s, m, h, r, text, q, units),
         NEW p \in Seq(Byte), IsBlock(s, p, h), NEW n \in Nat, n <= r, n <= Len(p)
  PROVE  /\ text \o SubSeq(p, 1, n) \in Seq(Byte)
         /\ TitleParts(s, m, h + n, r - n, text \o SubSeq(p, 1, n), q, units)
<1>1. /\ s \in Seq(Byte) /\ Len(s) \in Nat /\ Len(p) \in Nat /\ Len(text) \in Nat
      /\ units \in Nat /\ Unit \in Nat /\ units * Unit \in Nat
  BY LenProperties, TitleLength, DemuxConstants DEF IsStream
<1>2. PICK part : part = SubSeq(p, 1, n)
  OBVIOUS
<1>3. part \in Seq(Byte) /\ Len(part) = n /\ \A j \in 1..n : part[j] = p[j]
  BY <1>2, Split
<1>4. PICK w : w = text \o part
  OBVIOUS
<1>5. /\ w \in Seq(Byte) /\ Len(w) = Len(text) + n
      /\ \A i \in 1..Len(text) : w[i] = text[i]
      /\ \A i \in 1..n : w[Len(text) + i] = part[i]
  <2>1. part \in Seq(Byte)
    BY <1>3
  <2>2. /\ text \o part \in Seq(Byte) /\ Len(text \o part) = Len(text) + Len(part)
        /\ \A i \in 1..Len(text) : (text \o part)[i] = text[i]
        /\ \A i \in 1..Len(part) : (text \o part)[Len(text) + i] = part[i]
    BY <2>1, Joined
  <2> QED
    BY <1>3, <1>4, <2>2
<1>6. /\ PeriodBehind(s, m, q, units)
      /\ h = q + m + 1 + units * Unit - r /\ h >= q + m + 1
      /\ Len(text) = h - (q + m + 1)
      /\ \A j \in 1..Len(text) : text[j] = s[q + m + 1 + j]
  BY DEF TitleParts
<1>7. ASSUME NEW j \in 1..n PROVE w[Len(text) + j] = s[q + m + 1 + (Len(text) + j)]
  <2>1. h + j \in q + m + 1..q + m + 1 + units * Unit /\ q + m + 1 + (Len(text) + j) = h + j
    <3>1. PICK u : u = units * Unit
      OBVIOUS
    <3>2. h + j \in q + m + 1..q + m + 1 + u /\ q + m + 1 + (Len(text) + j) = h + j
      BY <1>1, <1>6, <3>1
    <3> QED
      BY <3>1, <3>2
  <2>2. s[h + j].kind # "audio"
    BY <1>6, <2>1, BehindAudio
  <2>3. j \in 1..Len(p)
    BY <1>1
  <2>4. p[j] = s[h + j]
    BY <2>2, <2>3, NotOverwritten
  <2> QED
    BY <1>3, <1>5, <2>1, <2>4
<1>8. ASSUME NEW i \in 1..Len(w) PROVE w[i] = s[q + m + 1 + i]
  <2>1. CASE i <= Len(text)
    <3>1. i \in 1..Len(text)
      BY <1>1, <2>1
    <3> QED
      BY <1>5, <1>6, <3>1
  <2>2. CASE i > Len(text)
    <3>1. i - Len(text) \in 1..n /\ Len(text) + (i - Len(text)) = i
      BY <1>1, <1>5, <2>2
    <3> QED
      BY <1>7, <3>1
  <2> QED
    BY <1>1, <1>5, <2>1, <2>2
<1>9. /\ h + n = q + m + 1 + units * Unit - (r - n) /\ h + n >= q + m + 1
      /\ Len(w) = h + n - (q + m + 1)
  <2>1. PICK u : u = units * Unit
    OBVIOUS
  <2>2. h + n = q + m + 1 + u - (r - n) /\ h + n >= q + m + 1 /\ Len(w) = h + n - (q + m + 1)
    BY <1>1, <1>5, <1>6, <2>1
  <2> QED
    BY <2>1, <2>2
<1>10. TitleParts(s, m, h + n, r - n, w, q, units)
  BY <1>6, <1>8, <1>9 DEF TitleParts
<1> QED
  BY <1>2, <1>4, <1>5, <1>10

(* A block begins with the end of a title, ...                             *)
LEMMA TitleFinished ==
  ASSUME DemuxInv, TitleEnds
  PROVE  DemuxInv'
<1>1. /\ metaint \in Nat /\ IsStream(stream, metaint)
      /\ stream \in Seq(Byte) /\ Len(stream) \in Nat /\ Len(pdata) \in Nat
      /\ next \in Nat /\ next <= Len(stream)
      /\ Handled \in Nat /\ next = Handled + Len(pdata)
  BY DemuxFacts
<1>2. /\ DemuxTypes /\ Places /\ Where
      /\ IsBlock(stream, pdata, Handled) /\ IsWritten(stream, audio, Handled)
  BY DEF DemuxInv
<1>3. /\ pdata \in Seq(Byte) /\ metadata \in Seq(Byte) /\ title \in Seq(Byte) /\ audio \in Seq(Byte)
      /\ rest \in Int /\ rest < 0 /\ metaint # 0
  BY <1>2 DEF DemuxTypes, Places, TitleEnds
<1>4. PICK r \in Nat : r = -rest /\ r > 0 /\ r < Len(pdata)
  <2>1. -rest \in Nat /\ -rest > 0 /\ -rest < Len(pdata)
    BY <1>1, <1>3 DEF TitleEnds
  <2> QED
    BY <2>1
<1>5. PICK q \in Begins(stream), units \in 0..MaxUnits :
        TitleParts(stream, metaint, Handled, r, metadata, q, units)
  BY <1>2, <1>3, <1>4 DEF Where, InTitle
<1>6. /\ q \in Nat /\ q + metaint + 1 + units * Unit \in Begins(stream)
      /\ PeriodBehind(stream, metaint, q, units)
  BY <1>1, <1>5, PeriodEnds DEF TitleParts
<1>7. PICK e : e = q + metaint + 1 + units * Unit
  OBVIOUS
<1>8. units \in Nat /\ Unit \in Nat /\ units * Unit \in Nat
  BY TitleLength, DemuxConstants
<1>9. /\ Handled + r = e /\ Handled >= q + metaint + 1 /\ units # 0
      /\ e \in Nat /\ e <= next /\ q + metaint + 1 <= next
  <2>1. Handled + r = q + metaint + 1 + units * Unit /\ q + metaint + 1 <= Handled /\ units # 0
    BY <1>1, <1>4, <1>5, <1>6, TitleEnd
  <2>2. Handled + r = e
    BY <1>7, <2>1
  <2> QED
    BY <1>1, <1>4, <1>6, <2>1, <2>2
<1>10. PICK text : text = metadata \o SubSeq(pdata, 1, r)
  OBVIOUS
<1>11. text \in Seq(Byte) /\ TitleParts(stream, metaint, e, 0, text, q, units)
  <2>1. r <= r /\ r <= Len(pdata) /\ r - r = 0
    BY <1>1, <1>4
  <2>2. /\ metadata \o SubSeq(pdata, 1, r) \in Seq(Byte)
        /\ TitleParts(stream, metaint, Handled + r, r - r, metadata \o SubSeq(pdata, 1, r), q, units)
    BY <1>1, <1>2, <1>3, <1>5, <1>6, <2>1, TitleTaken, ZenonT(60)
  <2> QED
    BY <1>9, <1>10, <2>1, <2>2
<1>12. PICK behind : behind = SubSeq(pdata, r + 1, Len(pdata))
  OBVIOUS
<1>13. /\ behind \in Seq(Byte) /\ Len(behind) = Len(pdata) - r /\ IsBlock(stream, behind, e)
  <2>1. r <= Len(pdata)
    BY <1>1, <1>4
  <2>2. behind \in Seq(Byte) /\ Len(behind) = Len(pdata) - r
    BY <1>3, <1>12, <2>1, Split
  <2>3. IsBlock(stream, SubSeq(pdata, r + 1, Len(pdata)), Handled + r)
    BY <1>1, <1>2, <1>3, <2>1, BlockGoesOn
  <2> QED
    BY <1>9, <1>12, <2>2, <2>3
<1>14. /\ Zeroed(behind) \in Seq(Byte) /\ Len(Zeroed(behind)) = Len(behind)
       /\ IsBlock(stream, Zeroed(behind), e) /\ InAudio(stream, metaint, e, metaint)
  <2>1. e + Len(behind) <= Len(stream) /\ e \in Begins(stream)
    BY <1>1, <1>4, <1>6, <1>7, <1>9, <1>13
  <2>2. IsBlock(stream, Zeroed(behind), e) /\ InAudio(stream, metaint, e, metaint)
    BY <1>1, <1>3, <1>13, <2>1, PeriodOver
  <2> QED
    BY <1>13, <2>2, Overwritten
<1>15. /\ metadata' = text /\ title' = text /\ metad' = metaint /\ rest' = 0 /\ pc' = "meta"
       /\ pdata' = Zeroed(behind) /\ UNCHANGED <<stream, next, metaint, audio>>
  <2>1. 1 - rest = r + 1
    BY <1>3, <1>4
  <2> QED
    BY <1>4, <1>10, <1>12, <2>1 DEF TitleEnds, From
<1>16. Handled' = e
  <2>1. Len(pdata') = Len(pdata) - r /\ next' = next
    BY <1>13, <1>14, <1>15
  <2> QED
    BY <1>1, <1>4, <1>9, <2>1 DEF Handled
<1>17. DemuxTypes'
  <2>1. Len(pdata') <= next'
    BY <1>1, <1>4, <1>13, <1>14, <1>15
  <2> QED
    BY <1>1, <1>2, <1>3, <1>11, <1>14, <1>15, <2>1 DEF DemuxTypes
<1>18. Places' /\ Where'
  BY <1>14, <1>15, <1>16 DEF Places, Where
<1>19. IsBlock(stream, pdata, Handled)'
  BY <1>14, <1>15, <1>16
<1>20. IsWritten(stream, audio, Handled)'
  <2>1. \A k \in q + metaint + 1..q + metaint + 1 + units * Unit : stream[k].kind # "audio"
    BY <1>1, <1>6, BehindAudio
  <2>2. \A k \in Handled + 1..e : stream[k].kind # "audio"
    BY <1>1, <1>6, <1>7, <1>9, <2>1
  <2>3. Handled <= e /\ e <= Len(stream)
    BY <1>1, <1>4, <1>9
  <2>4. IsWritten(stream, audio, e)
    BY <1>1, <1>2, <1>3, <1>9, <2>2, <2>3, NothingWritten
  <2> QED
    BY <1>15, <1>16, <2>4
<1>21. TitleWhole'
  <2>1. PICK k : k = q + metaint + 1
    OBVIOUS
  <2>2. /\ k \in Nat \ {0} /\ stream[k].kind = "length" /\ stream[k].value > 0
        /\ text = SubSeq(stream, k + 1, k + stream[k].value * Unit)
    <3>1. /\ metaint \in Nat /\ IsStream(stream, metaint) /\ q \in Nat
          /\ units \in 0..MaxUnits /\ units # 0 /\ text \in Seq(Byte)
      BY <1>1, <1>6, <1>9, <1>11
    <3>2. TitleParts(stream, metaint, q + metaint + 1 + units * Unit, 0, text, q, units)
      BY ONLY <1>7, <1>11
    <3> QED
      BY ONLY <2>1, <3>1, <3>2, WholeTitle
  <2>3. k \in 1..next'
    BY <1>1, <1>9, <1>15, <2>1, <2>2
  <2>4. title' = SubSeq(stream', k + 1, k + stream'[k].value * Unit) /\ Announced(k)'
    BY <1>15, <2>2 DEF Announced
  <2> QED
    BY <2>3, <2>4 DEF TitleWhole, TitleAt
<1> QED
  BY <1>17, <1>18, <1>19, <1>20, <1>21 DEF DemuxInv

(* ... or has nothing but a part of it.                                    *)
LEMMA TitleContinued ==
  ASSUME DemuxInv, TitleGoesOn
  PROVE  DemuxInv'
<1>1. /\ metaint \in Nat /\ IsStream(stream, metaint)
      /\ stream \in Seq(Byte) /\ Len(stream) \in Nat /\ Len(pdata) \in Nat
      /\ next \in Nat /\ next <= Len(stream)
      /\ Handled \in Nat /\ next = Handled + Len(pdata)
  BY DemuxFacts
<1>2. /\ DemuxTypes /\ Places /\ Where
      /\ IsBlock(stream, pdata, Handled) /\ IsWritten(stream, audio, Handled)
  BY DEF DemuxInv
<1>3. /\ pdata \in Seq(Byte) /\ metadata \in Seq(Byte) /\ title \in Seq(Byte) /\ audio \in Seq(Byte)
      /\ rest \in Int /\ rest < 0 /\ metaint # 0
  BY <1>2 DEF DemuxTypes, Places, TitleGoesOn
<1>4. PICK r \in Nat : r = -rest /\ r > 0 /\ Len(pdata) <= r
  <2>1. -rest \in Nat /\ -rest > 0 /\ Len(pdata) <= -rest
    BY <1>1, <1>3 DEF TitleGoesOn
  <2> QED
    BY <2>1
<1>5. metad = metaint /\ InTitle(stream, metaint, Handled, r, metadata)
  BY <1>2, <1>3, <1>4 DEF Where
<1>6. PICK q \in Begins(stream), units \in 0..MaxUnits :
        TitleParts(stream, metaint, Handled, r, metadata, q, units)
  BY <1>5 DEF InTitle
<1>7. /\ q \in Nat /\ q + metaint + 1 + units * Unit \in Begins(stream)
      /\ PeriodBehind(stream, metaint, q, units)
  BY <1>1, <1>6, PeriodEnds DEF TitleParts
<1>8. units \in Nat /\ Unit \in Nat /\ units * Unit \in Nat
  BY TitleLength, DemuxConstants
<1>9. pdata = SubSeq(pdata, 1, Len(pdata))
  <2>1. /\ SubSeq(pdata, 1, Len(pdata)) \in Seq(Byte)
        /\ Len(SubSeq(pdata, 1, Len(pdata))) = Len(pdata)
        /\ \A i \in 1..Len(pdata) : SubSeq(pdata, 1, Len(pdata))[i] = pdata[i]
    BY <1>1, <1>3, Split
  <2> QED
    BY <1>3, <2>1, SeqEqual
<1>10. /\ metadata' \in Seq(Byte)
       /\ TitleParts(stream, metaint, next, r - Len(pdata), metadata', q, units)
  <2>0. Len(pdata) <= Len(pdata)
    BY <1>1
  <2>1. /\ metadata \o SubSeq(pdata, 1, Len(pdata)) \in Seq(Byte)
        /\ TitleParts(stream, metaint, Handled + Len(pdata), r - Len(pdata),
                      metadata \o SubSeq(pdata, 1, Len(pdata)), q, units)
    BY <1>1, <1>2, <1>3, <1>4, <1>6, <1>7, <2>0, TitleTaken, ZenonT(60)
  <2> QED
    BY <1>1, <1>9, <2>1 DEF TitleGoesOn
<1>11. pdata' = <<>> /\ Len(pdata') = 0 /\ pdata' \in Seq(Byte) /\ Handled' = next
  BY <1>1, EmptySeq DEF TitleGoesOn, Handled
<1>12. /\ rest' = rest + Len(pdata) /\ pc' = "meta"
       /\ UNCHANGED <<stream, next, metaint, metad, title, audio>>
  BY DEF TitleGoesOn
<1>13. DemuxTypes' /\ Places'
  BY <1>1, <1>2, <1>3, <1>10, <1>11, <1>12 DEF DemuxTypes, Places
<1>14. Where'
  <2>1. CASE rest' < 0
    <3>1. -rest' = r - Len(pdata)
      BY <1>1, <1>3, <1>4, <1>12
    <3>2. InTitle(stream, metaint, next, r - Len(pdata), metadata')
      BY <1>10 DEF InTitle
    <3> QED
      BY <1>5, <1>11, <1>12, <2>1, <3>1, <3>2 DEF Where
  <2>2. CASE rest' >= 0
    <3>1. rest' = 0 /\ r - Len(pdata) = 0
      BY <1>1, <1>3, <1>4, <1>12, <2>2
    <3>2. next = q + metaint + 1 + units * Unit
      <4>1. next + 0 = q + metaint + 1 + units * Unit
        BY <1>1, <1>7, <1>10, <3>1, TitleEnd
      <4> QED
        BY <1>1, <4>1
    <3>3. IsBlock(stream, <<>>, next) /\ <<>> \in Seq(Byte) /\ next + Len(<<>>) <= Len(stream)
      BY <1>1, EmptySeq DEF IsBlock
    <3>4. InAudio(stream, metaint, next, metaint)
      BY <1>1, <1>3, <1>7, <3>2, <3>3, PeriodOver
    <3> QED
      BY <1>5, <1>11, <1>12, <3>1, <3>4 DEF Where
  <2> QED
    BY <1>1, <1>3, <1>12, <2>1, <2>2
<1>15. IsBlock(stream, pdata, Handled)'
  BY <1>11 DEF IsBlock
<1>16. IsWritten(stream, audio, Handled)'
  <2>1. \A k \in q + metaint + 1..q + metaint + 1 + units * Unit : stream[k].kind # "audio"
    BY <1>1, <1>7, BehindAudio
  <2>2. /\ Handled >= q + metaint + 1 /\ next <= q + metaint + 1 + units * Unit
    <3>1. q + metaint + 1 <= Handled /\ Handled + r = q + metaint + 1 + units * Unit
      BY <1>1, <1>6, <1>7, TitleEnd
    <3> QED
      BY <1>1, <1>4, <1>7, <1>8, <3>1
  <2>3. \A k \in Handled + 1..next : stream[k].kind # "audio"
    BY <1>1, <1>7, <1>8, <2>1, <2>2
  <2>4. IsWritten(stream, audio, next)
    BY <1>1, <1>2, <1>3, <2>3, NothingWritten, SMTT(30)
  <2> QED
    BY <1>11, <1>12, <2>4
<1>17. TitleWhole'
  BY <1>12 DEF DemuxInv, TitleWhole, Announced, TitleAt
<1> QED
  BY <1>13, <1>14, <1>15, <1>16, <1>17 DEF DemuxInv

(* A round of the loop: audio, a length byte, and what is there of a title. *)
LEMMA RoundDone ==
  ASSUME DemuxInv, Round
  PROVE  DemuxInv'
<1>1. /\ metaint \in Nat /\ IsStream(stream, metaint)
      /\ stream \in Seq(Byte) /\ Len(stream) \in Nat /\ Len(pdata) \in Nat
      /\ next \in Nat /\ next <= Len(stream)
      /\ Handled \in Nat /\ next = Handled + Len(pdata)
  BY DemuxFacts
<1>2. /\ DemuxTypes /\ Places /\ Where
      /\ IsBlock(stream, pdata, Handled) /\ IsWritten(stream, audio, Handled)
  BY DEF DemuxInv
<1>3. /\ pdata \in Seq(Byte) /\ title \in Seq(Byte) /\ audio \in Seq(Byte)
      /\ metad \in Int /\ rest \in Int /\ metaint # 0 /\ pc = "meta" /\ metad < Len(pdata)
  BY <1>1, <1>2 DEF DemuxTypes, Round, LengthByteInside
<1>4. InAudio(stream, metaint, Handled, metad) /\ Handled < Len(stream)
  <2>1. CASE rest < 0
    <3>1. metad = metaint /\ Len(pdata) = 0
      BY <1>2, <1>3, <2>1, EmptySeq DEF Places, Where
    <3> QED
      BY <1>1, <1>3, <3>1
  <2>2. CASE rest >= 0
    <3>1. InAudio(stream, metaint, Handled, metad)
      BY <1>2, <1>3, <2>2 DEF Where
    <3>2. metad >= 0
      <4>1. PICK q \in Begins(stream) : Handled <= q + metaint /\ metad = metaint - (Handled - q)
        BY <3>1 DEF InAudio
      <4>2. q \in Nat
        BY <1>1 DEF Begins
      <4> QED
        BY <1>1, <4>1, <4>2
    <3> QED
      BY <1>1, <1>3, <3>1, <3>2
  <2> QED
    BY <1>3, <2>1, <2>2
<1>5. /\ metad \in 0..metaint
      /\ \E q \in Begins(stream) : \E units \in 0..MaxUnits :
           /\ PeriodBehind(stream, metaint, q, units)
           /\ q \in Nat /\ q <= Handled /\ Handled + metad = q + metaint
  BY <1>1, <1>3, <1>4, InPeriod
<1>6. PICK q \in Begins(stream), units \in 0..MaxUnits :
        /\ PeriodBehind(stream, metaint, q, units)
        /\ q \in Nat /\ q <= Handled /\ Handled + metad = q + metaint
  BY <1>5
<1>7. PICK k : k = Handled + metad + 1
  OBVIOUS
<1>8. /\ metad \in Nat /\ metad + 1 \in Nat /\ k \in 1..next /\ k = q + metaint + 1
      /\ Handled + (metad + 1) = k
      /\ stream[k].kind = "length" /\ stream[k].value = units
  <2>1. stream[q + metaint + 1].kind = "length" /\ stream[q + metaint + 1].value = units
    BY <1>6 DEF PeriodBehind
  <2>2. metad \in Nat /\ k \in 1..next /\ k = q + metaint + 1 /\ Handled + (metad + 1) = k
    BY <1>1, <1>3, <1>5, <1>6, <1>7
  <2> QED
    BY <2>1, <2>2
<1>9. pdata[metad + 1] = stream[k]
  <2>1. metad + 1 \in 1..Len(pdata) /\ stream[Handled + (metad + 1)].kind # "audio"
    BY <1>1, <1>3, <1>8
  <2>2. pdata[metad + 1] = stream[Handled + (metad + 1)]
    BY <1>2, <2>1, NotOverwritten
  <2> QED
    BY <1>8, <2>2
<1>10. PICK l \in Nat : l = units * Unit /\ (l = 0 <=> units = 0) /\ units \in Nat /\ Unit \in Nat
  <2>1. units \in Nat /\ Unit \in Nat /\ units * Unit \in Nat /\ (units # 0 => units * Unit > 0)
    BY TitleLength, DemuxConstants
  <2> QED
    BY <2>1
<1>11. pdata[metad + 1].value * Unit = l
  BY <1>8, <1>9, <1>10
<1>12. k + l \in Begins(stream) /\ k + l <= Len(stream)
  <2>1. q + metaint + 1 + units * Unit \in Begins(stream)
    BY <1>1, <1>6, PeriodEnds
  <2>2. q + metaint + 1 + units * Unit <= Len(stream)
    BY <1>6 DEF PeriodBehind
  <2> QED
    BY <1>8, <1>10, <2>1, <2>2
<1>13. PICK more \in Int : more = Len(pdata) - metad - l - 1
  <2>1. Len(pdata) - metad - l - 1 \in Int
    BY <1>1, <1>8, <1>10
  <2> QED
    BY <2>1
<1>14. next = k + l + more
  BY <1>1, <1>8, <1>13
<1>15. PICK behind : behind = SubSeq(pdata, metad + 2, Len(pdata))
  OBVIOUS
<1>16. /\ behind \in Seq(Byte) /\ Len(behind) = l + more /\ IsBlock(stream, behind, k)
  <2>1. metad + 1 <= Len(pdata) /\ metad + 2 = metad + 1 + 1
    BY <1>1, <1>3, <1>8
  <2>2. /\ SubSeq(pdata, metad + 1 + 1, Len(pdata)) \in Seq(Byte)
        /\ Len(SubSeq(pdata, metad + 1 + 1, Len(pdata))) = Len(pdata) - (metad + 1)
    BY <1>3, <1>8, <2>1, Split
  <2>3. Len(pdata) - (metad + 1) = l + more
    BY <1>1, <1>8, <1>13
  <2>4. IsBlock(stream, SubSeq(pdata, metad + 1 + 1, Len(pdata)), Handled + (metad + 1))
    BY <1>1, <1>2, <1>3, <1>8, <2>1, BlockGoesOn
  <2> QED
    BY <1>8, <1>15, <2>1, <2>2, <2>3, <2>4
<1>17. /\ rest' = more /\ metad' = metaint
       /\ audio' = audio \o SubSeq(pdata, 1, metad)
       /\ \/ l # 0 /\ more < 0 /\ metadata' = behind /\ pdata' = <<>> /\ title' = title
          \/ /\ l # 0 /\ more >= 0 /\ title' = SubSeq(behind, 1, l)
             /\ pdata' = Zeroed(SubSeq(behind, l + 1, Len(behind))) /\ metadata' = metadata
          \/ l = 0 /\ pdata' = behind /\ metadata' = metadata /\ title' = title
       /\ pc' = IF more < 0 THEN "recv" ELSE "meta"
       /\ UNCHANGED <<stream, next, metaint>>
  BY <1>11, <1>13, <1>15 DEF Round, From
<1>22. \A j \in k..k + l : stream[j].kind # "audio"
  <2>1. \A j \in q + metaint + 1..q + metaint + 1 + units * Unit : stream[j].kind # "audio"
    BY <1>1, <1>6, BehindAudio
  <2>2. k = q + metaint + 1 /\ k + l = q + metaint + 1 + units * Unit
    BY <1>8, <1>10
  <2> QED
    BY <2>1, <2>2
<1>18. ASSUME NEW g \in Nat, k <= g, g <= k + l
       PROVE  audio' \in Seq(Byte) /\ IsWritten(stream, audio', g)
  <2>2. \A j \in Handled + metad + 1..g : stream[j].kind # "audio"
    BY <1>7, <1>8, <1>18, <1>22
  <2>3. Handled + metad <= g /\ g <= Len(stream) /\ metad <= Len(pdata) /\ metad <= metad
    BY <1>1, <1>3, <1>7, <1>8, <1>10, <1>12, <1>18
  <2> QED
    BY <1>1, <1>2, <1>3, <1>4, <1>8, <1>17, <2>2, <2>3, AudioGoesOn, ZenonT(60)
<1>19. CASE l # 0 /\ more < 0
  <2>1. /\ metadata' = behind /\ pdata' = <<>> /\ title' = title /\ rest' < 0 /\ pc' = "recv"
        /\ Len(pdata') = 0 /\ pdata' \in Seq(Byte)
    <3>1. metadata' = behind /\ pdata' = <<>> /\ title' = title
      BY <1>17, <1>19
    <3>2. rest' < 0 /\ pc' = "recv"
      BY <1>17, <1>19
    <3> QED
      BY <3>1, <3>2, EmptySeq
  <2>2. Handled' = next
    BY <1>1, <1>17, <2>1 DEF Handled
  <2>3. audio' \in Seq(Byte) /\ IsWritten(stream, audio', next)
    <3>1. next \in Nat /\ k <= next /\ next <= k + l
      BY <1>1, <1>8, <1>10, <1>13, <1>14, <1>19
    <3> QED
      BY <3>1, <1>18
  <2>4. DemuxTypes' /\ Places'
    BY <1>1, <1>2, <1>3, <1>16, <1>17, <2>1, <2>3 DEF DemuxTypes, Places
  <2>5. InTitle(stream, metaint, next, -more, behind)
    <3>1. /\ Len(behind) = next - (q + metaint + 1) /\ q + metaint + 1 <= next
          /\ next + -more = k + l /\ -more \in Nat
      <4>1. Len(behind) \in Nat
        BY <1>16, LenProperties
      <4>2. k \in Nat /\ Len(behind) = l + more
        BY <1>1, <1>8, <1>16
      <4>3. /\ Len(behind) = next - k /\ k <= next
            /\ next + (-more) = k + l /\ -more \in Nat
        BY <1>14, <1>19, <4>1, <4>2
      <4> QED
        BY <1>8, <4>3
    <3>2. ASSUME NEW j \in 1..Len(behind) PROVE behind[j] = stream[q + metaint + 1 + j]
      <4>1. k + j \in k..k + l /\ k + j = q + metaint + 1 + j
        BY <1>8, <1>10, <1>16, <1>19
      <4>2. stream[k + j].kind # "audio"
        BY <1>22, <4>1
      <4> QED
        BY <1>16, <4>1, <4>2, NotOverwritten
    <3>3. TitleParts(stream, metaint, next, -more, behind, q, units)
      <4>1. k + l = q + metaint + 1 + units * Unit
        BY <1>8, <1>10
      <4> QED
        <5>1. /\ metaint \in Nat /\ q \in Nat /\ units \in 0..MaxUnits
              /\ PeriodBehind(stream, metaint, q, units) /\ next \in Nat
          BY <1>1, <1>6
        <5>2. k + l \in Nat
          BY <1>1, <1>8
        <5> QED
          BY ONLY <3>1, <3>2, <4>1, <5>1, <5>2, TitleStands
    <3> QED
      BY <3>3 DEF InTitle
  <2>6. Where'
    BY <1>17, <2>1, <2>2, <2>5 DEF Where
  <2>7. IsBlock(stream, pdata, Handled)'
    BY <2>1 DEF IsBlock
  <2>8. TitleWhole'
    BY <1>17, <2>1 DEF DemuxInv, TitleWhole, Announced, TitleAt
  <2> QED
    BY <1>17, <2>2, <2>3, <2>4, <2>6, <2>7, <2>8 DEF DemuxInv
<1>20. CASE l # 0 /\ more >= 0
  <2>1. PICK text, p : text = SubSeq(behind, 1, l) /\ p = SubSeq(behind, l + 1, Len(behind))
    OBVIOUS
  <2>2. title' = text /\ pdata' = Zeroed(p) /\ metadata' = metadata /\ pc' = "meta"
    BY <1>17, <1>20, <2>1
  <2>3. /\ text \in Seq(Byte) /\ Len(text) = l /\ \A j \in 1..l : text[j] = behind[j]
        /\ p \in Seq(Byte) /\ Len(p) = more
        /\ l <= Len(behind)
    <3>1. l <= Len(behind) /\ Len(behind) - l = more
      BY <1>16, <1>20
    <3> QED
      BY <1>16, <2>1, <3>1, Split
  <2>4. IsBlock(stream, p, k + l)
    <3>1. k \in Nat
      BY <1>1, <1>8
    <3> QED
      BY <1>1, <1>16, <2>1, <2>3, <3>1, BlockGoesOn
  <2>5. /\ IsBlock(stream, Zeroed(p), k + l) /\ InAudio(stream, metaint, k + l, metaint)
        /\ Zeroed(p) \in Seq(Byte) /\ Len(Zeroed(p)) = more
    <3>1. k + l + Len(p) <= Len(stream)
      BY <1>1, <1>14, <2>3
    <3> QED
      BY <1>1, <1>3, <1>12, <2>3, <2>4, <3>1, PeriodOver, Overwritten
  <2>6. Handled' = k + l
    <3>1. next' = k + l + more /\ Len(pdata') = more
      BY <1>14, <1>17, <2>2, <2>5
    <3> QED
      BY <1>8, <3>1 DEF Handled
  <2>7. audio' \in Seq(Byte) /\ IsWritten(stream, audio', k + l)
    BY <1>8, <1>18
  <2>8. DemuxTypes'
    <3>1. Len(pdata') <= next'
      BY <1>8, <1>14, <1>17, <1>20, <2>2, <2>5
    <3> QED
      BY <1>1, <1>2, <1>3, <1>17, <2>2, <2>3, <2>5, <2>7, <3>1 DEF DemuxTypes
  <2>9. Places' /\ Where'
    BY <1>17, <1>20, <2>2, <2>5, <2>6 DEF Places, Where
  <2>10. TitleWhole'
    <3>1. TitleParts(stream, metaint, q + metaint + 1 + units * Unit, 0, text, q, units)
      <4>1. ASSUME NEW j \in 1..Len(text) PROVE text[j] = stream[q + metaint + 1 + j]
        <5>1. /\ k + j \in k..k + l
              /\ k + j = q + metaint + 1 + j /\ j \in 1..l /\ j \in 1..Len(behind)
          BY <1>8, <1>10, <1>16, <2>3
        <5>2. stream[k + j].kind # "audio"
          BY <1>22, <5>1
        <5>3. behind[j] = stream[k + j]
          BY <1>16, <5>1, <5>2, NotOverwritten
        <5> QED
          BY <2>3, <5>1, <5>3
      <4>2. k + l = q + metaint + 1 + units * Unit
        BY <1>8, <1>10
      <4>3. /\ k + l + 0 = k + l /\ q + metaint + 1 <= k + l /\ k + l \in Nat
            /\ Len(text) = k + l - (q + metaint + 1)
        BY <1>8, <2>3
      <4>4. TitleParts(stream, metaint, k + l, 0, text, q, units)
        <5>1. /\ metaint \in Nat /\ q \in Nat /\ units \in 0..MaxUnits
              /\ 0 \in Nat /\ PeriodBehind(stream, metaint, q, units)
          BY <1>1, <1>6
        <5>2. PICK e \in Nat : e = k + l
          BY <4>3
        <5>3. e + 0 = e /\ q + metaint + 1 <= e /\ Len(text) = e - (q + metaint + 1)
          BY <1>1, <1>8, <4>3, <5>1, <5>2
        <5>4. e = q + metaint + 1 + units * Unit
          BY ONLY <4>2, <5>2, Zenon
        <5>5. TitleParts(stream, metaint, e, 0, text, q, units)
          BY ONLY <4>1, <5>1, <5>2, <5>3, <5>4, TitleStands
        <5> QED
          BY <5>2, <5>5
      <4> QED
        BY <4>2, <4>4
    <3>2. /\ stream[k].kind = "length" /\ stream[k].value > 0
          /\ text = SubSeq(stream, k + 1, k + stream[k].value * Unit)
      <4>1. units # 0
        BY <1>10, <1>20
      <4>2. /\ stream[q + metaint + 1].kind = "length" /\ stream[q + metaint + 1].value > 0
            /\ text = SubSeq(stream, q + metaint + 1 + 1,
                             q + metaint + 1 + stream[q + metaint + 1].value * Unit)
        <5>1. /\ metaint \in Nat /\ IsStream(stream, metaint) /\ q \in Nat /\ units \in 0..MaxUnits
              /\ text \in Seq(Byte)
          BY <1>1, <1>6, <2>3
        <5> QED
          BY ONLY <3>1, <4>1, <5>1, WholeTitle
      <4>3. k = q + metaint + 1
        BY <1>8
      <4> QED
        BY <4>2, <4>3, Zenon
    <3>3. k \in 1..next' /\ Announced(k)' /\ title' = TitleAt(k)'
      BY <1>8, <1>17, <2>2, <3>2 DEF Announced, TitleAt
    <3> QED
      BY <3>3 DEF TitleWhole, TitleAt
  <2> QED
    BY <1>17, <2>2, <2>5, <2>6, <2>7, <2>8, <2>9, <2>10 DEF DemuxInv
<1>21. CASE l = 0
  <2>1. more >= 0 /\ pdata' = behind /\ metadata' = metadata /\ title' = title /\ pc' = "meta"
    BY <1>1, <1>3, <1>8, <1>13, <1>17, <1>21
  <2>2. Handled' = k + l /\ Len(pdata') = more
    <3>1. next' = k + l + more /\ Len(pdata') = more
      BY <1>14, <1>16, <1>17, <1>21, <2>1
    <3> QED
      BY <1>8, <3>1 DEF Handled
  <2>3. audio' \in Seq(Byte) /\ IsWritten(stream, audio', k + l)
    BY <1>8, <1>18
  <2>4. DemuxTypes'
    <3>1. Len(pdata') <= next'
      BY <1>8, <1>14, <1>17, <2>2
    <3> QED
      BY <1>1, <1>2, <1>3, <1>16, <1>17, <2>1, <2>3, <3>1 DEF DemuxTypes
  <2>5. IsBlock(stream, pdata, Handled)' /\ InAudio(stream, metaint, k + l, metaint)
    <3>1. k + l + Len(behind) <= Len(stream) /\ IsBlock(stream, behind, k + l)
      BY <1>1, <1>8, <1>14, <1>16, <1>21
    <3> QED
      BY <1>1, <1>3, <1>12, <1>16, <1>17, <2>1, <2>2, <3>1, PeriodOver
  <2>6. Places' /\ Where'
    BY <1>17, <2>1, <2>2, <2>5 DEF Places, Where
  <2>7. TitleWhole'
    BY <1>17, <2>1 DEF DemuxInv, TitleWhole, Announced, TitleAt
  <2> QED
    BY <1>17, <2>2, <2>3, <2>4, <2>5, <2>6, <2>7 DEF DemuxInv
<1> QED
  BY <1>19, <1>20, <1>21

-----------------------------------------------------------------------------
WireByte == D!WireByte
Following == step \in {"recv", "size", "out", "negative"}

(* The first place on the wire that is not decoded, and on the stream the  *)
(* first that is not.                                                      *)
Unread == arrived - Len(left)
Passed == next + Len(decoded)

DecoderTypes ==
  /\ wire \in Seq(WireByte) /\ arrived \in 0..Len(wire)
  /\ step \in {"wait", "recv", "size", "out", "negative", "gone"}
  /\ chunked \in Nat /\ cchunk \in Nat
  /\ decoded \in Seq(WireByte) /\ left \in Seq(WireByte)
  /\ chunkWaitRetries \in 0..Errors
  /\ step = "size" => chunkWaitRetries < Errors /\ chunked # 0
  /\ step \in {"recv", "out", "negative"} => left = <<>>
  /\ step \in {"recv", "negative"} => decoded = <<>>
  /\ pc # "recv" => step = "recv"

(* A chunk that is sent, and inside of which one that is, if there are     *)
(* chunks.                                                                 *)
ChunkSent(w, b, n) ==
  /\ \E c \in Codings[stream] : wire = c.bytes /\ <<w, b>> \in c.chunks
  /\ D!IsChunk(wire, stream, w, b, n)
Missing(w, n, u) == w + n + 5 - u
PassedIn(b, n, missing) == IF missing <= 2 THEN b + n ELSE b + n + 2 - missing
GoesOn(w, b, n, u, p, missing) ==
  /\ p = PassedIn(b, n, missing) /\ missing = Missing(w, n, u)
  /\ w + 3 <= u /\ u <= w + n + 5
InChunk(w, b, n) ==
  /\ ChunkSent(w, b, n) /\ chunked = n + 2
  /\ GoesOn(w, b, n, Unread, Passed, cchunk)
Decoding == Following /\ chunked # 0 => \E w, b, n \in Nat : InChunk(w, b, n)
Plain == Following /\ chunked = 0 => wire = stream /\ cchunk = 0 /\ arrived = Passed

(* Bytes behind place u.                                                   *)
IsCopy(s, part, u) == \A k \in 1..Len(part) : part[k] = s[u + k]
IsDecoded(s, d, h) == h + Len(d) <= Len(s) /\ \A k \in 1..Len(d) : d[k] = s[h + k]
Copies ==
  Following => IsDecoded(stream, decoded, next) /\ IsCopy(wire, left, Unread)

(* The block is inside of bufrec.                                          *)
Bounded ==
  /\ room \in Nat /\ room <= D!Bufrec
  /\ Len(decoded) + Len(left) <= room

(* The first size is waited for: nothing has been decoded.                 *)
Waiting ==
  step = "wait" => next = 0 /\ \E c \in Codings[stream] : c.chunks # {} /\ wire = c.bytes

DecoderInv == DecoderTypes /\ Decoding /\ Plain /\ Copies /\ Bounded /\ Waiting

(* The sizes, and how the streams may be sent.                             *)
LEMMA DecoderConstants ==
  /\ RECEIVE \in Nat /\ RECEIVE > 0 /\ Errors \in Nat /\ Errors > 0 /\ Look \in Nat /\ Look >= 4
  /\ Headers \subseteq 0..RECEIVE
  /\ \A m \in MetaInts : \A s \in Streams[m] : \A c \in Codings[s] : IsCoding(c, s)
<1>1. \A m \in MetaInts : \A s \in Streams[m] : s \in DOMAIN Codings
  BY ReceptionAssumption
<1> QED
  BY <1>1, ReceptionAssumption DEF D!ChunkedDecoderAssumption

(* A byte of the stream is one of the wire.                                *)
LEMMA OnTheWire ==
  ASSUME NEW s \in Seq(Byte)
  PROVE  s \in Seq(WireByte)
<1>1. ASSUME NEW x \in Byte PROVE x \in WireByte
  <2>1. x.kind \in {"audio", "length", "title"} /\ x.at \in Nat /\ x.value \in Nat
    BY DEF Byte
  <2>3. x = [kind |-> x.kind, at |-> x.at, value |-> x.value]
    BY DEF Byte
  <2> QED
    BY <2>1, <2>3 DEF WireByte, D!WireByte
<1>2. Len(s) \in Nat /\ s \in [1..Len(s) -> Byte]
  BY LenProperties
<1>3. \A i \in 1..Len(s) : s[i] \in WireByte
  BY <1>1, <1>2
<1>4. s \in [1..Len(s) -> WireByte]
  BY <1>2, <1>3
<1> QED
  BY <1>2, <1>4, SeqDef

(* What is decoded goes on.                                                *)
LEMMA MoreDecoded ==
  ASSUME NEW X, NEW s, NEW d \in Seq(X), NEW part \in Seq(X), NEW h \in Nat, NEW g \in Nat,
         IsDecoded(s, d, h), g = h + Len(d), IsDecoded(s, part, g)
  PROVE  /\ d \o part \in Seq(X) /\ Len(d \o part) = Len(d) + Len(part)
         /\ IsDecoded(s, d \o part, h)
<1>1. /\ d \o part \in Seq(X) /\ Len(d \o part) = Len(d) + Len(part)
      /\ \A i \in 1..Len(d) : (d \o part)[i] = d[i]
      /\ \A i \in 1..Len(part) : (d \o part)[Len(d) + i] = part[i]
  BY Joined
<1>2. Len(d) \in Nat /\ Len(part) \in Nat
  BY LenProperties
<1>3. PICK e : e = d \o part
  OBVIOUS
<1>4. ASSUME NEW k \in 1..Len(e) PROVE e[k] = s[h + k]
  <2>1. CASE k <= Len(d)
    <3>1. k \in 1..Len(d)
      BY <1>2, <2>1
    <3> QED
      BY <1>1, <1>3, <3>1 DEF IsDecoded
  <2>2. CASE k > Len(d)
    <3>1. k - Len(d) \in 1..Len(part) /\ Len(d) + (k - Len(d)) = k /\ g + (k - Len(d)) = h + k
      BY <1>1, <1>2, <1>3, <2>2
    <3> QED
      BY <1>1, <1>3, <3>1 DEF IsDecoded
  <2> QED
    BY <1>1, <1>2, <1>3, <2>1, <2>2
<1>5. h + Len(e) <= Len(s)
  <2>1. h + (Len(d) + Len(part)) = g + Len(part) /\ g + Len(part) <= Len(s)
    BY <1>2 DEF IsDecoded
  <2> QED
    BY <1>1, <1>3, <2>1
<1> QED
  BY <1>1, <1>3, <1>4, <1>5 DEF IsDecoded

(* The len bytes behind u are some of those in a chunk.                    *)
Within(w, b, n, u, len, p) ==
  /\ {w, b, n, u, len, p} \subseteq Nat /\ w + 3 <= u
  /\ (len = 0 /\ p = b + n) \/ (u + len <= w + n + 3 /\ p + w + 3 = b + u)

(* Bytes of a chunk are bytes of the stream.                               *)
LEMMA ChunkDecoded ==
  ASSUME NEW bytes, NEW body, Len(body) \in Nat, NEW w, NEW b, NEW n,
         D!IsChunk(bytes, body, w, b, n), NEW X, NEW block \in Seq(X), NEW u,
         IsCopy(bytes, block, u), NEW len, len <= Len(block), NEW p, Within(w, b, n, u, len, p)
  PROVE  /\ SubSeq(block, 1, len) \in Seq(X) /\ Len(SubSeq(block, 1, len)) = len
         /\ IsDecoded(body, SubSeq(block, 1, len), p)
<1>1. /\ Len(block) \in Nat
      /\ w \in Nat /\ b \in Nat /\ n \in Nat /\ u \in Nat /\ len \in Nat /\ p \in Nat /\ w + 3 <= u
      /\ (len = 0 /\ p = b + n) \/ (u + len <= w + n + 3 /\ p + w + 3 = b + u)
  BY LenProperties DEF Within
<1>2. PICK d : d = SubSeq(block, 1, len)
  OBVIOUS
<1>3. d \in Seq(X) /\ Len(d) = len /\ \A i \in 1..len : d[i] = block[i]
  BY <1>1, <1>2, Split
<1>4. b + n <= Len(body) /\ \A j \in 1..n : bytes[w + 3 + j] = body[b + j]
  BY DEF D!IsChunk
<1>5. p + len <= Len(body)
  BY <1>1, <1>4
<1>6. ASSUME NEW k \in 1..len PROVE d[k] = body[p + k]
  <2>1. k \in 1..Len(block) /\ u + len <= w + n + 3 /\ p + w + 3 = b + u
    BY <1>1
  <2>2. PICK j \in 1..n : u + k = w + 3 + j /\ p + k = b + j
    <3>1. u + k - (w + 3) \in 1..n /\ u + k = w + 3 + (u + k - (w + 3)) /\ p + k = b + (u + k - (w + 3))
      BY <1>1, <2>1
    <3> QED
      BY <3>1
  <2> QED
    BY <1>3, <1>4, <2>1, <2>2 DEF IsCopy
<1>7. IsDecoded(body, d, p)
  BY <1>1, <1>3, <1>5, <1>6 DEF IsDecoded
<1> QED
  BY <1>2, <1>3, <1>7

(* What becomes of a block of chunks: either its chunk ends in it, or all  *)
(* of it is taken, without its last cr lf.                                 *)
TakenWhole(block, missing) ==
  /\ Len(block) <= missing /\ cchunk' = missing - Len(block)
  /\ left' = <<>> /\ step' \in {"out", "negative"}
  /\ \E len \in Nat :
       /\ len <= Len(block) /\ decoded' = SubSeq(block, 1, len)
       /\ step' = "negative" => len = 0
       /\ \/ missing <= 2 /\ len = 0
          \/ missing > 2 /\ cchunk' >= 2 /\ len = Len(block)
          \/ missing > 2 /\ cchunk' < 2 /\ len = Len(block) + cchunk' - 2

(* ... in each of the cases that the code distinguishes.                   *)
LEMMA TakeCases ==
  ASSUME NEW block \in Seq(WireByte), block # <<>>, NEW chunk \in Nat, chunk # 0,
         NEW missing \in Nat, D!Take(block, chunk, missing)
  PROVE  /\ chunked' = chunk /\ chunkWaitRetries' = 0
         /\ \/ TakenWhole(block, missing)
            \/ /\ missing <= Len(block) /\ decoded' = <<>> /\ cchunk' = missing
               /\ left' = block /\ step' = "size"
<1>1. Len(block) \in Nat /\ Len(block) # 0
  BY EmptySeq, LenProperties
<1>2. SubSeq(block, 1, 0) = <<>>
  BY SubSeqEmpty
<1>3. block = SubSeq(block, 1, Len(block))
  <2>1. /\ SubSeq(block, 1, Len(block)) \in Seq(WireByte)
        /\ Len(SubSeq(block, 1, Len(block))) = Len(block)
        /\ \A i \in 1..Len(block) : SubSeq(block, 1, Len(block))[i] = block[i]
    BY <1>1, Split
  <2> QED
    BY <2>1, SeqEqual
<1>4. chunked' = chunk /\ chunkWaitRetries' = 0
  BY DEF D!Take
<1>5. CASE D!Inside(block, chunk, missing)
  <2>1. /\ missing # 0 /\ Len(block) < missing - 1 /\ decoded' = block
        /\ cchunk' = missing - Len(block) /\ left' = <<>> /\ step' = "out"
    BY <1>5 DEF D!Inside
  <2>2. missing > 2 /\ cchunk' >= 2 /\ Len(block) <= missing /\ Len(block) <= Len(block)
    BY <1>1, <2>1
  <2>3. TakenWhole(block, missing)
    BY <1>1, <1>3, <2>1, <2>2 DEF TakenWhole
  <2> QED
    BY <1>4, <2>3
<1>6. CASE D!Complete(block, chunk, missing)
  <2>4. Len(block) = missing /\ cchunk' = 0 /\ left' = <<>>
    BY <1>6 DEF D!Complete
  <2>5. missing - Len(block) = 0
    BY <1>1, <2>4
  <2>1. Len(block) = missing /\ cchunk' = 0 /\ left' = <<>> /\ cchunk' = missing - Len(block)
    BY <2>4, <2>5
  <2>2. CASE missing = 1
    <3>1. decoded' = SubSeq(block, 1, 0) /\ step' = "negative"
      BY <1>2, <1>6, <2>2 DEF D!Complete
    <3>2. 0 \in Nat /\ 0 <= Len(block) /\ missing <= 2 /\ Len(block) <= missing
      BY <1>1, <2>1, <2>2
    <3>3. TakenWhole(block, missing)
      BY <2>1, <3>1, <3>2 DEF TakenWhole
    <3> QED
      BY <1>4, <3>3
  <2>3. CASE missing # 1
    <3>1. PICK len : len = Len(block) - 2
      OBVIOUS
    <3>2. decoded' = SubSeq(block, 1, len) /\ step' = "out"
      BY <1>6, <2>3, <3>1 DEF D!Complete, D!Drop
    <3>3. /\ len \in Nat /\ len <= Len(block) /\ Len(block) <= missing
          /\ (missing <= 2 => len = 0) /\ len = Len(block) + cchunk' - 2 /\ cchunk' < 2
      BY <1>1, <2>1, <2>3, <3>1
    <3>4. missing <= 2 \/ missing > 2
      OBVIOUS
    <3>5. TakenWhole(block, missing)
      BY <2>1, <3>2, <3>3, <3>4 DEF TakenWhole
    <3> QED
      BY <1>4, <3>5
  <2> QED
    BY <2>2, <2>3
<1>7. CASE D!MissingLf(block, chunk, missing)
  <2>1. Len(block) = missing - 1 /\ cchunk' = 1 /\ left' = <<>> /\ step' = "out"
    BY <1>1, <1>7 DEF D!MissingLf
  <2>2. PICK len : len = Len(block) - 1
    OBVIOUS
  <2>3. decoded' = SubSeq(block, 1, len)
    BY <1>7, <2>2 DEF D!MissingLf, D!Drop
  <2>4. /\ len \in Nat /\ len <= Len(block) /\ Len(block) <= missing /\ cchunk' = missing - Len(block)
        /\ (missing <= 2 => len = 0) /\ len = Len(block) + cchunk' - 2 /\ cchunk' < 2
    BY <1>1, <2>1, <2>2
  <2>5. missing <= 2 \/ missing > 2
    OBVIOUS
  <2>6. TakenWhole(block, missing)
    BY <2>1, <2>3, <2>4, <2>5 DEF TakenWhole
  <2> QED
    BY <1>4, <2>6
<1>8. CASE D!SizeInside(block, chunk, missing)
  BY <1>1, <1>4, <1>8 DEF D!SizeInside
<1> QED
  BY <1>5, <1>6, <1>7, <1>8 DEF D!Take

(* Of l bytes, len are decoded; then so much of the chunk is still missing. *)
Counted(w, b, n, u, missing, l, len, p, still) ==
  /\ {w, b, n, u, missing, l, len, p, still} \subseteq Nat
  /\ GoesOn(w, b, n, u, p, missing) /\ l <= missing /\ still = missing - l
  /\ \/ missing <= 2 /\ len = 0
     \/ missing > 2 /\ still >= 2 /\ len = l
     \/ missing > 2 /\ still < 2 /\ len = l + still - 2

(* Then len of the bytes are from inside of the chunk.                     *)
LEMMA TakenSums ==
  ASSUME NEW w, NEW b, NEW n, NEW u, NEW missing, NEW l, NEW len, NEW p, NEW still,
         Counted(w, b, n, u, missing, l, len, p, still)
  PROVE  Within(w, b, n, u, len, p) /\ GoesOn(w, b, n, u + l, p + len, still)
<1>0. /\ w \in Nat /\ b \in Nat /\ n \in Nat /\ u \in Nat /\ missing \in Nat /\ l \in Nat
      /\ len \in Nat /\ p \in Nat /\ still \in Nat
  BY DEF Counted, GoesOn, Missing
<1>1. still = Missing(w, n, u + l) /\ w + 3 <= u + l /\ u + l <= w + n + 5
  BY <1>0 DEF Counted, GoesOn, Missing
<1>2. CASE missing <= 2 /\ len = 0
  <2>1. p = b + n /\ still <= 2 /\ p + len = b + n /\ w + 3 <= u
    BY <1>0, <1>2 DEF Counted, GoesOn, Missing, PassedIn
  <2>2. Within(w, b, n, u, len, p)
    BY <1>0, <1>2, <2>1 DEF Within
  <2> QED
    BY <1>0, <1>1, <2>1, <2>2 DEF PassedIn, GoesOn
<1>3. CASE missing > 2 /\ still >= 2 /\ len = l
  BY <1>0, <1>1, <1>3 DEF Counted, Missing, PassedIn, Within, GoesOn
<1>4. CASE missing > 2 /\ still < 2 /\ len = l + still - 2
  BY <1>0, <1>1, <1>4 DEF Counted, Missing, PassedIn, Within, GoesOn
<1> QED
  BY <1>2, <1>3, <1>4 DEF Counted, GoesOn, Missing

(* A block that goes on with a chunk is taken.                             *)
LEMMA TakeInChunk ==
  ASSUME pc' = "recv", Len(stream') \in Nat, next' \in Nat,
         wire' \in Seq(WireByte), arrived' \in 0..Len(wire'),
         NEW w \in Nat, NEW b \in Nat, NEW n \in Nat, ChunkSent(w, b, n)',
         NEW block \in Seq(WireByte), block # <<>>, Len(block) <= room', room' \in Nat, room' <= D!Bufrec,
         NEW u \in Nat, u + Len(block) = arrived', IsCopy(wire', block, u),
         NEW missing \in Nat, GoesOn(w, b, n, u, next', missing),
         D!Take(block, n + 2, missing)
  PROVE  DecoderInv'
<1>1. /\ Len(block) \in Nat /\ Len(block) # 0 /\ Len(wire') \in Nat /\ n \in Nat /\ n + 2 \in Nat
      /\ <<>> \in Seq(WireByte) /\ Len(<<>>) = 0
      /\ RECEIVE \in Nat /\ Errors \in Nat /\ Errors > 0 /\ Look \in Nat /\ Look >= 4
  BY EmptySeq, LenProperties, DecoderConstants
<1>2. chunked' = n + 2 /\ chunked' \in Nat /\ chunked' # 0 /\ chunkWaitRetries' = 0 /\ 0 \in 0..Errors
  BY <1>1, TakeCases
<1>3. b + n <= Len(stream')
  BY DEF ChunkSent, D!IsChunk
<1>4. CASE TakenWhole(block, missing)
  <2>1. PICK len \in Nat :
          /\ len <= Len(block) /\ decoded' = SubSeq(block, 1, len)
          /\ step' = "negative" => len = 0
          /\ \/ missing <= 2 /\ len = 0
             \/ missing > 2 /\ cchunk' >= 2 /\ len = Len(block)
             \/ missing > 2 /\ cchunk' < 2 /\ len = Len(block) + cchunk' - 2
    BY <1>4 DEF TakenWhole
  <2>2. /\ Len(block) <= missing /\ cchunk' = missing - Len(block) /\ cchunk' \in Nat
        /\ left' = <<>> /\ step' \in {"out", "negative"}
    <3>1. /\ Len(block) <= missing /\ cchunk' = missing - Len(block)
          /\ left' = <<>> /\ step' \in {"out", "negative"}
      BY <1>4, Zenon DEF TakenWhole
    <3>2. missing - Len(block) \in Nat
      <4>1. Len(block) \in Nat /\ Len(block) <= missing
        BY <1>1, <3>1
      <4>2. missing \in Nat
        OBVIOUS
      <4> QED
        BY ONLY <4>1, <4>2
    <3> QED
      BY <3>1, <3>2
  <2>3. /\ Within(w, b, n, u, len, next')
        /\ GoesOn(w, b, n, u + Len(block), next' + len, cchunk')
    <3>1. Len(block) \in Nat
      BY <1>1
    <3>2. Counted(w, b, n, u, missing, Len(block), len, next', cchunk')
      BY <2>1, <2>2, <3>1 DEF Counted
    <3> QED
      BY <3>2, TakenSums
  <2>4. /\ decoded' \in Seq(WireByte) /\ Len(decoded') = len
        /\ IsDecoded(stream', decoded', next')
    <3>1. /\ SubSeq(block, 1, len) \in Seq(WireByte) /\ Len(SubSeq(block, 1, len)) = len
          /\ IsDecoded(stream', SubSeq(block, 1, len), next')
      <4>1. D!IsChunk(wire', stream', w, b, n)
        BY DEF ChunkSent
      <4>2. len <= Len(block) /\ Within(w, b, n, u, len, next')
        BY <2>1, <2>3
      <4> QED
        BY <4>1, <4>2, ChunkDecoded
    <3> QED
      BY <2>1, <3>1
  <2>5. Unread' = u + Len(block) /\ Passed' = next' + len
    <3>1. Len(left') = 0 /\ Len(decoded') = len
      BY <1>1, <2>2, <2>4
    <3> QED
      BY <1>1, <3>1 DEF Unread, Passed
  <2>6. InChunk(w, b, n)'
    BY <1>2, <2>3, <2>5 DEF InChunk
  <2>7. Decoding' /\ Plain'
    BY <1>2, <2>6 DEF Decoding, Plain
  <2>8. step' = "negative" => decoded' = <<>>
    BY <2>1, <2>4, EmptySeq
  <2>9. DecoderTypes'
    BY <1>1, <1>2, <2>2, <2>4, <2>8 DEF DecoderTypes
  <2>10. Copies'
    <3>1. IsCopy(wire', left', Unread')
      BY <1>1, <2>2 DEF IsCopy
    <3> QED
      BY <2>4, <3>1 DEF Copies
  <2>11. Bounded'
    <3>1. Len(decoded') + Len(left') <= room'
      <4>1. Len(decoded') = len /\ Len(left') = 0 /\ len <= Len(block)
        BY <1>1, <2>1, <2>2, <2>4
      <4> QED
        BY <1>1, <4>1
    <3> QED
      BY <3>1 DEF Bounded
  <2> QED
    BY <2>2, <2>7, <2>9, <2>10, <2>11 DEF DecoderInv, Waiting
<1>5. CASE /\ missing <= Len(block) /\ decoded' = <<>> /\ cchunk' = missing
           /\ left' = block /\ step' = "size"
  <2>1. Unread' = u /\ Passed' = next'
    <3>1. Len(left') = Len(block) /\ Len(decoded') = 0 /\ arrived' - Len(block) = u
      BY <1>1, <1>5
    <3>2. Unread' = arrived' - Len(left') /\ Passed' = next' + Len(decoded')
      BY DEF Unread, Passed
    <3>3. PICK p \in Nat : p = next'
      OBVIOUS
    <3>5. p + 0 = p
      OBVIOUS
    <3>4. Passed' = next'
      BY ONLY <3>1, <3>2, <3>3, <3>5, Zenon
    <3> QED
      BY ONLY <3>1, <3>2, <3>4, Zenon
  <2>2. InChunk(w, b, n)'
    BY <1>2, <1>5, <2>1 DEF InChunk
  <2>3. Decoding' /\ Plain'
    BY <1>2, <2>2 DEF Decoding, Plain
  <2>4. DecoderTypes'
    BY <1>1, <1>2, <1>5 DEF DecoderTypes
  <2>5. Copies'
    <3>1. next' <= Len(stream')
      BY <1>1, <1>3 DEF GoesOn, PassedIn
    <3>2. IsDecoded(stream', decoded', next')
      BY <1>1, <1>5, <3>1 DEF IsDecoded
    <3> QED
      BY <1>5, <2>1, <3>2 DEF Copies
  <2>6. Bounded'
    BY <1>1, <1>5 DEF Bounded
  <2> QED
    BY <1>5, <2>3, <2>4, <2>5, <2>6 DEF DecoderInv, Waiting
<1> QED
  BY <1>1, <1>4, <1>5, TakeCases

(* A block of a stream that came without chunks is taken.                  *)
LEMMA TakePlain ==
  ASSUME pc' = "recv", Len(stream') \in Nat, next' \in Nat,
         wire' = stream', wire' \in Seq(WireByte), arrived' \in 0..Len(wire'),
         NEW block \in Seq(WireByte), Len(block) <= room', room' \in Nat, room' <= D!Bufrec,
         next' + Len(block) = arrived',
         IsCopy(wire', block, next'), D!Take(block, 0, 0)
  PROVE  DecoderInv'
<1>1. /\ Len(block) \in Nat /\ Len(wire') \in Nat /\ <<>> \in Seq(WireByte) /\ Len(<<>>) = 0
      /\ RECEIVE \in Nat /\ Errors \in Nat /\ Errors > 0 /\ Look \in Nat /\ Look >= 4
  BY EmptySeq, LenProperties, DecoderConstants
<1>2. /\ chunked' = 0 /\ cchunk' = 0 /\ chunkWaitRetries' = 0 /\ decoded' = block
      /\ left' = <<>> /\ step' = "out" /\ 0 \in 0..Errors
  BY <1>1 DEF D!Take, D!Inside, D!Complete, D!MissingLf, D!SizeInside
<1>3. Plain' /\ Decoding'
  BY <1>1, <1>2 DEF Plain, Decoding, Passed
<1>4. DecoderTypes'
  BY <1>1, <1>2 DEF DecoderTypes
<1>5. Copies'
  BY <1>1, <1>2 DEF Copies, IsDecoded, IsCopy
<1>6. Bounded'
  BY <1>1, <1>2 DEF Bounded
<1> QED
  BY <1>2, <1>3, <1>4, <1>5, <1>6 DEF DecoderInv, Waiting

(* What is left of the first n bytes behind k of them.                     *)
LEMMA Skipped ==
  ASSUME NEW X, NEW s \in Seq(X), NEW n \in Nat, n <= Len(s), NEW k \in Nat, k <= n
  PROVE  /\ D!Skip(D!First(s, n), k) \in Seq(X) /\ Len(D!Skip(D!First(s, n), k)) = n - k
         /\ IsCopy(s, D!Skip(D!First(s, n), k), k)
<1>1. PICK f : f = D!First(s, n)
  OBVIOUS
<1>2. f \in Seq(X) /\ Len(f) = n /\ \A i \in 1..n : f[i] = s[i]
  BY <1>1, Split DEF D!First
<1>3. /\ SubSeq(f, k + 1, Len(f)) \in Seq(X) /\ Len(SubSeq(f, k + 1, Len(f))) = Len(f) - k
      /\ \A i \in 1..Len(f) - k : SubSeq(f, k + 1, Len(f))[i] = f[k + i]
  BY <1>2, Split
<1>4. \A i \in 1..n - k : k + i \in 1..n
  OBVIOUS
<1> QED
  BY <1>1, <1>2, <1>3, <1>4 DEF D!Skip, IsCopy

(* What else is true of the decoder.                                       *)
LEMMA DecoderFacts ==
  ASSUME DemuxInv, DecoderInv
  PROVE  /\ next \in Nat /\ next <= Len(stream) /\ Len(stream) \in Nat
         /\ wire \in Seq(WireByte) /\ Len(wire) \in Nat /\ arrived \in Nat /\ arrived <= Len(wire)
         /\ decoded \in Seq(WireByte) /\ left \in Seq(WireByte)
         /\ Len(decoded) \in Nat /\ Len(left) \in Nat
         /\ chunked \in Nat /\ cchunk \in Nat /\ stream \in Seq(Byte)
<1>1. /\ wire \in Seq(WireByte) /\ arrived \in 0..Len(wire)
      /\ decoded \in Seq(WireByte) /\ left \in Seq(WireByte) /\ chunked \in Nat /\ cchunk \in Nat
  BY DEF DecoderInv, DecoderTypes
<1>2. Len(wire) \in Nat /\ Len(decoded) \in Nat /\ Len(left) \in Nat
  BY <1>1, LenProperties
<1>3. arrived \in Nat /\ arrived <= Len(wire)
  BY <1>1, <1>2
<1> QED
  BY <1>1, <1>2, <1>3, DemuxFacts

(* The first n bytes of a response, with the first size if there is one.   *)
LEMMA BodyBegun ==
  ASSUME stream' \in Streams[metaint'], metaint' \in MetaInts, next' = 0, pc' = "recv",
         NEW c \in Codings[stream'], NEW body, body = c.bytes,
         NEW n \in Nat, n <= Len(body), wire' = body, arrived' = n,
         NEW chunks \in BOOLEAN, chunks <=> c.chunks # {}, chunks => n >= Look - 1,
         n <= room', room' \in Nat, room' <= D!Bufrec, D!Begin(body, chunks, n)
  PROVE  DecoderInv'
<1>1. /\ stream' \in Streams[metaint'] /\ metaint' \in MetaInts /\ next' = 0 /\ pc' = "recv"
  OBVIOUS
<1>2. /\ IsStream(stream', metaint') /\ stream' \in Seq(Byte) /\ Len(stream') \in Nat
      /\ stream' \in Seq(WireByte)
  BY <1>1, DemuxConstants, LenProperties, OnTheWire DEF IsStream
<1>3. body = c.bytes /\ n <= Len(body) /\ D!Begin(body, chunks, n)
  OBVIOUS
<1>4. IsCoding(c, stream')
  BY <1>1, DecoderConstants
<1>5. /\ RECEIVE \in Nat /\ Errors \in Nat /\ Errors > 0 /\ Look \in Nat /\ Look >= 4
      /\ <<>> \in Seq(WireByte) /\ Len(<<>>) = 0
  BY DecoderConstants, EmptySeq
<1>6. n \in Nat /\ n <= room'
  OBVIOUS
<1>7. wire' = body /\ arrived' = n
  OBVIOUS
<1>8. CASE c.chunks = {}
  <2>1. body = stream'
    BY <1>3, <1>4, <1>8 DEF IsCoding
  <2>2. PICK block : block = D!Skip(D!First(body, n), 0)
    OBVIOUS
  <2>3. /\ block \in Seq(WireByte) /\ Len(block) = n /\ IsCopy(wire', block, next')
    <3>1. 0 \in Nat /\ 0 <= n /\ n - 0 = n
      BY <1>6
    <3>2. /\ D!Skip(D!First(body, n), 0) \in Seq(WireByte)
          /\ Len(D!Skip(D!First(body, n), 0)) = n - 0
          /\ IsCopy(body, D!Skip(D!First(body, n), 0), 0)
      BY <1>2, <1>3, <1>6, <2>1, <3>1, Skipped
    <3> QED
      BY <1>1, <1>7, <2>2, <3>1, <3>2
  <2>4. IF block # <<>> THEN D!Take(block, 0, 0)
        ELSE /\ chunked' = 0 /\ cchunk' = 0 /\ chunkWaitRetries' = 0
             /\ decoded' = <<>> /\ left' = <<>> /\ step' = "recv"
    BY <1>3, <1>8, <2>2 DEF D!Begin, D!Still
  <2>5. arrived' \in 0..Len(wire') /\ next' \in Nat /\ next' + Len(block) = arrived' /\ Len(block) <= room'
    BY <1>1, <1>2, <1>3, <1>6, <1>7, <2>1, <2>3
  <2>6. CASE block # <<>>
    <3>1. D!Take(block, 0, 0)
      BY <2>4, <2>6
    <3> QED
      BY <1>1, <1>2, <1>7, <2>1, <2>3, <2>5, <3>1, TakePlain
  <2>7. CASE block = <<>>
    <3>1. /\ chunked' = 0 /\ cchunk' = 0 /\ chunkWaitRetries' = 0
          /\ decoded' = <<>> /\ left' = <<>> /\ step' = "recv" /\ arrived' = 0
      BY <1>5, <1>7, <2>3, <2>4, <2>7
    <3>2. DecoderTypes'
      BY <1>2, <1>5, <1>7, <2>1, <2>5, <3>1 DEF DecoderTypes
    <3>3. Decoding' /\ Plain'
      BY <1>1, <1>5, <1>7, <2>1, <3>1 DEF Decoding, Plain, Passed
    <3>4. Copies'
      BY <1>1, <1>2, <1>5, <3>1 DEF Copies, IsDecoded, IsCopy
    <3>5. Bounded'
      BY <1>5, <3>1 DEF Bounded
    <3> QED
      BY <3>1, <3>2, <3>3, <3>4, <3>5 DEF DecoderInv, Waiting
  <2> QED
    BY <2>6, <2>7
<1>9. CASE c.chunks # {}
  <2>1. /\ body \in Seq(WireByte) /\ <<0, 0>> \in c.chunks
        /\ \A e \in c.chunks : \E i \in 0..Len(stream') : D!IsChunk(body, stream', e[1], e[2], i)
    BY <1>3, <1>4, <1>9 DEF IsCoding, D!IsChunked, WireByte
  <2>2. PICK i \in 0..Len(stream') : D!IsChunk(body, stream', 0, 0, i)
    <3>1. \E i \in 0..Len(stream') : D!IsChunk(body, stream', <<0, 0>>[1], <<0, 0>>[2], i)
      BY <2>1
    <3>2. <<0, 0>>[1] = 0 /\ <<0, 0>>[2] = 0
      OBVIOUS
    <3> QED
      BY <3>1, <3>2
  <2>3. i \in Nat
    BY <1>2
  <2>4. ChunkSent(0, 0, i)'
    BY <1>7, <2>1, <2>2 DEF ChunkSent
  <2>5. body[1].value = i
    BY <2>2 DEF D!IsChunk, D!Mark
  <2>6. PICK block : block = D!Skip(D!First(body, n), 3)
    OBVIOUS
  <2>7. /\ n >= 3
        /\ IF block # <<>> THEN D!Take(block, i + 2, i + 2)
           ELSE /\ chunked' = i + 2 /\ cchunk' = i + 2 /\ chunkWaitRetries' = 0
                /\ decoded' = <<>> /\ left' = <<>> /\ step' = "recv"
    <3>1. n >= Look - 1
      BY <1>9
    <3>2. n >= 3
      BY <1>5, <1>6, <3>1
    <3> QED
      BY <1>3, <1>9, <2>5, <2>6, <3>2 DEF D!Begin, D!Still
  <2>8. /\ block \in Seq(WireByte) /\ Len(block) = n - 3 /\ IsCopy(wire', block, 3)
    BY <1>3, <1>6, <1>7, <2>1, <2>6, <2>7, Skipped
  <2>9. /\ arrived' \in 0..Len(wire') /\ wire' \in Seq(WireByte) /\ 3 + Len(block) = arrived'
        /\ Len(block) <= room' /\ next' \in Nat
    <3>1. Len(body) \in Nat
      BY <2>1, LenProperties
    <3> QED
      BY <1>1, <1>3, <1>5, <1>6, <1>7, <2>1, <2>7, <2>8, <3>1
  <2>10. GoesOn(0, 0, i, 3, 0, i + 2) /\ i + 2 \in Nat
    BY <2>3 DEF GoesOn, PassedIn, Missing
  <2>11. CASE block # <<>>
    <3>1. D!Take(block, i + 2, i + 2) /\ GoesOn(0, 0, i, 3, next', i + 2) /\ 0 \in Nat /\ 3 \in Nat
      BY <1>1, <2>7, <2>10, <2>11
    <3> QED
      BY <1>1, <1>2, <2>3, <2>4, <2>8, <2>9, <2>10, <2>11, <3>1, TakeInChunk
  <2>12. CASE block = <<>>
    <3>1. /\ chunked' = i + 2 /\ cchunk' = i + 2 /\ chunkWaitRetries' = 0
          /\ decoded' = <<>> /\ left' = <<>> /\ step' = "recv" /\ arrived' = 3
      BY <1>5, <2>7, <2>9, <2>12
    <3>2. DecoderTypes'
      BY <1>5, <2>3, <2>9, <3>1 DEF DecoderTypes
    <3>3. Unread' = 3 /\ Passed' = 0
      BY <1>1, <1>5, <3>1 DEF Unread, Passed
    <3>4. InChunk(0, 0, i)'
      BY <2>4, <2>10, <3>1, <3>3 DEF InChunk
    <3>5. Decoding' /\ Plain'
      BY <2>3, <3>1, <3>4 DEF Decoding, Plain
    <3>6. Copies'
      BY <1>1, <1>2, <1>5, <3>1 DEF Copies, IsDecoded, IsCopy
    <3>7. Bounded'
      BY <1>5, <3>1 DEF Bounded
    <3> QED
      BY <3>1, <3>2, <3>5, <3>6, <3>7 DEF DecoderInv, Waiting
  <2> QED
    BY <2>11, <2>12
<1> QED
  BY <1>8, <1>9

(* Nothing is decoded yet.                                                 *)
LEMMA StillWaiting ==
  ASSUME pc' = "recv", next' = 0, Len(stream') \in Nat, NEW c \in Codings[stream'], c.chunks # {},
         wire' = c.bytes, wire' \in Seq(WireByte), arrived' \in 0..Len(wire'),
         room' \in Nat, room' <= D!Bufrec, D!Still("wait", 0)
  PROVE  DecoderInv'
<1>1. /\ step' = "wait" /\ chunked' = 0 /\ cchunk' = 0 /\ chunkWaitRetries' = 0
      /\ decoded' = <<>> /\ left' = <<>>
  BY DEF D!Still
<1>2. <<>> \in Seq(WireByte) /\ Len(<<>>) = 0 /\ 0 \in 0..Errors
  BY DecoderConstants, EmptySeq
<1>3. DecoderTypes'
  BY <1>1, <1>2 DEF DecoderTypes
<1>4. Decoding' /\ Plain' /\ Copies'
  BY <1>1 DEF Decoding, Plain, Copies, Following
<1>5. Bounded'
  BY <1>1, <1>2 DEF Bounded
<1>6. Waiting'
  BY DEF Waiting
<1> QED
  BY <1>3, <1>4, <1>5, <1>6 DEF DecoderInv

(* The decoder at the end of a header.                                     *)
LEMMA HeaderTaken ==
  ASSUME Header
  PROVE  DecoderInv'
<1>1. /\ stream' \in Streams[metaint'] /\ metaint' \in MetaInts /\ next' = 0 /\ pc' = "recv"
  BY DEF Header, Reconnect
<1>2. stream' \in Seq(Byte) /\ Len(stream') \in Nat /\ stream' \in Seq(WireByte)
  BY <1>1, DemuxConstants, LenProperties, OnTheWire DEF IsStream
<1>3. PICK c \in Codings[stream'], n \in 0..RECEIVE, h \in Headers :
        n <= Len(c.bytes) /\ D!TakeFirst(c.bytes, c.chunks # {}, n, h)
  BY DEF Header
<1>4. PICK chunks \in BOOLEAN : chunks = (c.chunks # {})
  OBVIOUS
<1>5. /\ h + n <= RECEIVE /\ wire' = c.bytes /\ arrived' = n /\ room' = D!Bufrec - h
      /\ IF chunks /\ n < Look - 1 THEN D!Still("wait", 0) ELSE D!Begin(c.bytes, chunks, n)
  BY <1>3, <1>4 DEF D!TakeFirst
<1>6. n \in Nat /\ h \in Nat /\ RECEIVE \in Nat /\ Look \in Nat
  BY DecoderConstants
<1>7. room' \in Nat /\ room' <= D!Bufrec /\ n <= room'
  BY <1>5, <1>6 DEF D!Bufrec
<1>8. CASE chunks /\ n < Look - 1
  <2>1. IsCoding(c, stream') /\ c.chunks # {}
    BY <1>1, <1>4, <1>8, DecoderConstants
  <2>2. wire' \in Seq(WireByte)
    BY <1>5, <2>1 DEF IsCoding, D!IsChunked, WireByte
  <2>3. arrived' \in 0..Len(wire')
    BY <1>3, <1>5, <1>6, <2>2, LenProperties
  <2> QED
    BY <1>1, <1>2, <1>5, <1>7, <1>8, <2>1, <2>2, <2>3, StillWaiting
<1>9. CASE ~(chunks /\ n < Look - 1)
  <2>1. chunks => n >= Look - 1
    BY <1>6, <1>9
  <2>2. D!Begin(c.bytes, chunks, n)
    BY <1>5, <1>9
  <2> QED
    BY <1>1, <1>3, <1>4, <1>5, <1>6, <1>7, <2>1, <2>2, BodyBegun
<1> QED
  BY <1>8, <1>9

(* More is received for the first size.                                    *)
LEMMA WaitTaken ==
  ASSUME DemuxInv, DecoderInv, pc = "recv", NEW l \in 1..RECEIVE, D!WaitMore(l), UNCHANGED vars
  PROVE  DecoderInv'
<1>1. /\ stream' = stream /\ metaint' = metaint /\ next' = next /\ pc' = "recv"
      /\ stream \in Streams[metaint] /\ metaint \in MetaInts /\ Len(stream) \in Nat
  BY DemuxFacts DEF vars, DemuxInv, DemuxTypes
<1>2. /\ step = "wait" /\ arrived + l <= Len(wire) /\ arrived + l <= room - Look - 3
      /\ arrived' = arrived + l /\ wire' = wire /\ room' = room
      /\ IF arrived + l < Look - 1 THEN D!Still("wait", 0) ELSE D!Begin(wire, TRUE, arrived + l)
  BY DEF D!WaitMore
<1>3. PICK c \in Codings[stream] : c.chunks # {} /\ wire = c.bytes /\ next = 0
  BY <1>2 DEF DecoderInv, Waiting
<1>4. /\ wire \in Seq(WireByte) /\ Len(wire) \in Nat /\ arrived \in Nat
      /\ RECEIVE \in Nat /\ Look \in Nat /\ room \in Nat /\ room <= D!Bufrec
  BY DecoderFacts, DecoderConstants DEF DecoderInv, Bounded
<1>5. /\ arrived + l \in Nat /\ arrived' = arrived + l
      /\ arrived + l <= Len(wire) /\ arrived + l <= room
  BY <1>2, <1>4
<1>6. CASE arrived + l < Look - 1
  <2>1. arrived' \in 0..Len(wire') /\ D!Still("wait", 0)
    BY <1>2, <1>4, <1>5, <1>6
  <2> QED
    BY <1>1, <1>2, <1>3, <1>4, <2>1, StillWaiting
<1>7. CASE ~(arrived + l < Look - 1)
  <2>1. D!Begin(wire, TRUE, arrived + l) /\ arrived + l >= Look - 1
    <3>1. IF arrived + l < Look - 1 THEN D!Still("wait", 0) ELSE D!Begin(wire, TRUE, arrived + l)
      BY <1>2
    <3>2. arrived + l >= Look - 1
      BY <1>4, <1>5, <1>7
    <3> QED
      BY ONLY <1>7, <3>1, <3>2
  <2>2. stream' \in Streams[metaint'] /\ metaint' \in MetaInts /\ next' = 0 /\ c \in Codings[stream']
    BY <1>1, <1>3
  <2> QED
    BY <1>1, <1>2, <1>3, <1>4, <1>5, <2>1, <2>2, BodyBegun
<1> QED
  BY <1>6, <1>7

(* A block is received.                                                    *)
LEMMA BlockTaken ==
  ASSUME DemuxInv, DecoderInv, pc = "recv", NEW l \in 1..RECEIVE, D!ReceiveBlock(l), UNCHANGED vars
  PROVE  DecoderInv'
<1>1. /\ next \in Nat /\ next <= Len(stream) /\ Len(stream) \in Nat
      /\ wire \in Seq(WireByte) /\ Len(wire) \in Nat /\ arrived \in Nat /\ arrived <= Len(wire)
      /\ chunked \in Nat /\ cchunk \in Nat
  BY DecoderFacts
<1>2. /\ step = "recv" /\ arrived + l <= Len(wire) /\ arrived' = arrived + l /\ wire' = wire
      /\ D!Take(SubSeq(wire, arrived + 1, arrived + l), chunked, cchunk) /\ room' = D!Bufrec
  BY DEF D!ReceiveBlock
<1>3. stream' = stream /\ next' = next /\ pc' = "recv"
  BY DEF vars
<1>4. decoded = <<>> /\ left = <<>> /\ Len(<<>>) = 0
  BY <1>2, EmptySeq DEF DecoderInv, DecoderTypes
<1>5. Unread = arrived /\ Passed = next
  BY <1>1, <1>4 DEF Unread, Passed
<1>6. RECEIVE \in Nat /\ l \in Nat /\ l # 0 /\ l <= RECEIVE
  BY DecoderConstants
<1>7. PICK block : block = SubSeq(wire, arrived + 1, arrived + l)
  OBVIOUS
<1>8. block \in Seq(WireByte) /\ Len(block) = l /\ IsCopy(wire', block, arrived)
  <2>0. PICK e : e = arrived + l
    OBVIOUS
  <2>1. e = arrived + l /\ e \in Nat /\ arrived <= e /\ e <= Len(wire) /\ e - arrived = l
    BY <1>1, <1>2, <1>6, <2>0
  <2>2. /\ SubSeq(wire, arrived + 1, e) \in Seq(WireByte) /\ Len(SubSeq(wire, arrived + 1, e)) = e - arrived
        /\ \A i \in 1..e - arrived : SubSeq(wire, arrived + 1, e)[i] = wire[arrived + i]
    <3>1. wire \in Seq(WireByte) /\ arrived \in Nat
      BY <1>1
    <3>2. e \in Nat /\ arrived <= e /\ e <= Len(wire)
      BY <2>1
    <3> QED
      BY ONLY <3>1, <3>2, Part
  <2> QED
    BY <1>2, <1>7, <2>1, <2>2 DEF IsCopy
<1>9. /\ arrived' \in 0..Len(wire') /\ wire' \in Seq(WireByte) /\ arrived + Len(block) = arrived'
      /\ Len(block) <= room' /\ room' \in Nat /\ room' <= D!Bufrec
      /\ next' \in Nat /\ Len(stream') \in Nat
  BY <1>1, <1>2, <1>3, <1>6, <1>8, DecoderConstants DEF D!Bufrec
<1>10. Decoding /\ Plain /\ Following
  BY <1>2 DEF DecoderInv, Following
<1>11. CASE chunked = 0
  <2>1. wire = stream /\ cchunk = 0 /\ arrived = next
    BY <1>5, <1>10, <1>11 DEF Plain
  <2>2. D!Take(block, 0, 0) /\ IsCopy(wire', block, next') /\ next' + Len(block) = arrived' /\ wire' = stream'
    BY <1>2, <1>3, <1>7, <1>8, <1>9, <1>11, <2>1
  <2> QED
    BY <1>3, <1>8, <1>9, <2>2, TakePlain
<1>12. CASE chunked # 0
  <2>1. PICK w \in Nat, b \in Nat, n \in Nat : InChunk(w, b, n)
    BY <1>10, <1>12 DEF Decoding
  <2>2. chunked = n + 2 /\ GoesOn(w, b, n, arrived, next, cchunk) /\ ChunkSent(w, b, n)
    BY <1>5, <2>1 DEF InChunk
  <2>3. ChunkSent(w, b, n)'
    BY <1>2, <1>3, <2>2 DEF ChunkSent
  <2>4. GoesOn(w, b, n, arrived, next', cchunk) /\ D!Take(block, n + 2, cchunk)
    BY <1>2, <1>3, <1>7, <2>2
  <2>5. block # <<>>
    BY <1>4, <1>6, <1>8
  <2> QED
    BY <1>1, <1>3, <1>8, <1>9, <2>3, <2>4, <2>5, TakeInChunk
<1> QED
  BY <1>11, <1>12

(* Behind a chunk there is another, or it was the last and nothing behind  *)
(* it.                                                                     *)
LEMMA ChunkBehind ==
  ASSUME DemuxInv, DecoderInv, NEW w \in Nat, NEW b \in Nat, NEW n \in Nat, ChunkSent(w, b, n)
  PROVE  /\ w + n + 5 <= Len(wire) /\ b + n <= Len(stream)
         /\ w + n + 5 < Len(wire) => \E i \in Nat : ChunkSent(w + n + 5, b + n, i)
<1>1. /\ Len(stream) \in Nat /\ Len(wire) \in Nat /\ Look \in Nat
  BY DecoderFacts, DecoderConstants
<1>2. PICK c \in Codings[stream] : wire = c.bytes /\ <<w, b>> \in c.chunks
  BY DEF ChunkSent
<1>3. D!IsChunk(wire, stream, w, b, n)
  BY DEF ChunkSent
<1>4. IsCoding(c, stream) /\ c.chunks # {}
  BY <1>2, DecoderConstants DEF DemuxInv, DemuxTypes
<1>5. \A e \in c.chunks : \E i \in 0..Len(stream) :
        /\ D!IsChunk(wire, stream, e[1], e[2], i)
        /\ i = 0 => e = <<Len(wire) - 5, Len(stream)>>
        /\ i # 0 => <<e[1] + i + 5, e[2] + i>> \in c.chunks
  BY <1>2, <1>4 DEF IsCoding, D!IsChunked
<1>6. <<w, b>>[1] = w /\ <<w, b>>[2] = b
  OBVIOUS
<1>7. PICK i \in 0..Len(stream) :
        /\ D!IsChunk(wire, stream, w, b, i)
        /\ i = 0 => <<w, b>> = <<Len(wire) - 5, Len(stream)>>
        /\ i # 0 => <<w + i + 5, b + i>> \in c.chunks
  BY <1>2, <1>5, <1>6
<1>8. i = n
  <2>1. wire[w + 1].value = i /\ wire[w + 1].value = n
    BY <1>3, <1>7 DEF D!IsChunk, D!Mark
  <2> QED
    BY <2>1
<1>9. w + n + 5 <= Len(wire) /\ b + n <= Len(stream)
  BY <1>3 DEF D!IsChunk
<1>10. ASSUME w + n + 5 < Len(wire) PROVE \E j \in Nat : ChunkSent(w + n + 5, b + n, j)
  <2>1. n # 0
    <3>1. CASE n = 0
      <4>1. w = Len(wire) - 5
        BY <1>7, <1>8, <3>1
      <4> QED
        BY <1>1, <1>10, <3>1, <4>1
    <3> QED
      BY <3>1
  <2>2. PICK e, f : e = w + n + 5 /\ f = b + n
    OBVIOUS
  <2>3. <<e, f>> \in c.chunks
    BY <1>7, <1>8, <2>1, <2>2
  <2>4. <<e, f>>[1] = e /\ <<e, f>>[2] = f
    OBVIOUS
  <2>5. PICK j \in 0..Len(stream) : D!IsChunk(wire, stream, e, f, j)
    BY <1>5, <2>3, <2>4
  <2>6. ChunkSent(e, f, j) /\ j \in Nat
    BY <1>1, <1>2, <2>3, <2>5 DEF ChunkSent
  <2> QED
    BY <2>2, <2>6
<1> QED
  BY <1>7, <1>8, <1>9, <1>10

(* What is still to come of a chunk and of the size behind it is received. *)
LEMMA MoreTaken ==
  ASSUME DemuxInv, DecoderInv, pc = "recv", NEW l \in 1..Look, D!ReceiveMore(l), UNCHANGED vars
  PROVE  DecoderInv'
<1>1. /\ next \in Nat /\ next <= Len(stream) /\ Len(stream) \in Nat
      /\ wire \in Seq(WireByte) /\ Len(wire) \in Nat /\ arrived \in Nat /\ arrived <= Len(wire)
      /\ decoded \in Seq(WireByte) /\ left \in Seq(WireByte)
      /\ Len(decoded) \in Nat /\ Len(left) \in Nat /\ chunked \in Nat /\ cchunk \in Nat
  BY DecoderFacts
<1>2. /\ step = "size" /\ Len(left) < cchunk + Look /\ arrived + l <= Len(wire)
      /\ arrived' = arrived + l /\ left' = left \o SubSeq(wire, arrived + 1, arrived + l)
      /\ Len(decoded) + Len(left) + l <= room
      /\ UNCHANGED <<wire, step, chunked, cchunk, decoded, chunkWaitRetries, room>>
  BY DEF D!ReceiveMore, D!WantsMore, D!FitsBehind
<1>3. stream' = stream /\ next' = next /\ pc' = "recv"
  BY DEF vars
<1>4. /\ RECEIVE \in Nat /\ Look \in Nat /\ l \in Nat /\ l <= Look
  BY DecoderConstants
<1>5. PICK part : part = SubSeq(wire, arrived + 1, arrived + l)
  OBVIOUS
<1>6. PICK e : e = arrived + l
  OBVIOUS
<1>7. part \in Seq(WireByte) /\ Len(part) = l /\ IsDecoded(wire, part, arrived)
  <2>1. arrived \in Nat /\ e \in Nat /\ arrived <= e /\ e <= Len(wire) /\ e - arrived = l
    BY <1>1, <1>2, <1>4, <1>6
  <2>2. wire \in Seq(WireByte)
    BY <1>1
  <2>3. /\ SubSeq(wire, arrived + 1, e) \in Seq(WireByte) /\ Len(SubSeq(wire, arrived + 1, e)) = e - arrived
        /\ \A i \in 1..e - arrived : SubSeq(wire, arrived + 1, e)[i] = wire[arrived + i]
    BY ONLY <2>1, <2>2, Part
  <2> QED
    BY <1>2, <1>5, <1>6, <2>1, <2>3 DEF IsDecoded
<1>8. Following /\ Decoding /\ DecoderTypes /\ Copies /\ Bounded /\ chunked # 0 /\ chunkWaitRetries < Errors
  BY <1>2 DEF DecoderInv, DecoderTypes, Following
<1>9. Unread \in Nat /\ Unread + Len(left) = arrived
  <2>1. PICK w \in Nat, b \in Nat, n \in Nat : InChunk(w, b, n)
    BY <1>8 DEF Decoding
  <2>2. Unread >= w + 3
    BY <2>1 DEF InChunk, GoesOn
  <2> QED
    BY <1>1, <2>2 DEF Unread
<1>10. /\ left' \in Seq(WireByte) /\ Len(left') = Len(left) + l
       /\ IsDecoded(wire, left', Unread)
  <2>1. IsDecoded(wire, left, Unread)
    BY <1>1, <1>8, <1>9 DEF Copies, IsDecoded, IsCopy
  <2>2. left' = left \o part
    BY <1>2, <1>5
  <2>3. /\ left \o part \in Seq(WireByte) /\ Len(left \o part) = Len(left) + Len(part)
        /\ IsDecoded(wire, left \o part, Unread)
    BY <1>1, <1>7, <1>9, <2>1, MoreDecoded
  <2> QED
    BY <1>7, <2>2, <2>3
<1>11. Unread' = Unread /\ Passed' = Passed
  <2>1. arrived' - Len(left') = arrived - Len(left) /\ decoded' = decoded
    BY <1>1, <1>2, <1>4, <1>10
  <2> QED
    BY <1>3, <2>1 DEF Unread, Passed
<1>12. DecoderTypes'
  BY <1>1, <1>2, <1>3, <1>4, <1>8, <1>10 DEF DecoderTypes
<1>13. Decoding' /\ Plain'
  <2>1. PICK w \in Nat, b \in Nat, n \in Nat : InChunk(w, b, n)
    BY <1>8 DEF Decoding
  <2>2. InChunk(w, b, n)'
    BY <1>2, <1>3, <1>11, <2>1 DEF InChunk, ChunkSent
  <2> QED
    BY <1>2, <1>8, <2>2 DEF Decoding, Plain
<1>14. Copies'
  BY <1>2, <1>3, <1>8, <1>10, <1>11 DEF Copies, IsDecoded, IsCopy
<1>15. Bounded'
  BY <1>1, <1>2, <1>4, <1>8, <1>10 DEF Bounded
<1> QED
  BY <1>2, <1>12, <1>13, <1>14, <1>15 DEF DecoderInv, Waiting

(* A receive fails, and is tried again.                                    *)
LEMMA NothingTaken ==
  ASSUME DemuxInv, DecoderInv, pc = "recv", D!ReceiveMoreFails, step' # "last", UNCHANGED vars
  PROVE  DecoderInv'
<1>1. /\ step = "size" /\ chunkWaitRetries' = chunkWaitRetries + 1 /\ chunkWaitRetries' # Errors
      /\ UNCHANGED <<wire, arrived, step, chunked, cchunk, decoded, left, room>>
  BY DEF D!ReceiveMoreFails, D!WantsMore
<1>2. stream' = stream /\ next' = next /\ pc' = "recv" /\ Unread' = Unread /\ Passed' = Passed
  BY <1>1 DEF vars, Unread, Passed
<1>3. Following /\ Decoding /\ DecoderTypes /\ Copies /\ Bounded /\ chunked # 0 /\ chunkWaitRetries < Errors
  BY <1>1 DEF DecoderInv, DecoderTypes, Following
<1>4. DecoderTypes'
  <2>1. Errors \in Nat /\ chunkWaitRetries \in 0..Errors
    BY <1>3, DecoderConstants DEF DecoderTypes
  <2>2. chunkWaitRetries' \in 0..Errors /\ chunkWaitRetries' < Errors
    BY <1>1, <1>3, <2>1
  <2> QED
    BY <1>1, <1>2, <1>3, <2>2 DEF DecoderTypes
<1>5. Decoding' /\ Plain'
  <2>1. PICK w \in Nat, b \in Nat, n \in Nat : InChunk(w, b, n)
    BY <1>3 DEF Decoding
  <2>2. InChunk(w, b, n)'
    BY <1>1, <1>2, <2>1 DEF InChunk, ChunkSent
  <2> QED
    BY <1>1, <1>3, <2>2 DEF Decoding, Plain
<1>6. Copies'
  BY <1>1, <1>2, <1>3 DEF Copies, IsDecoded, IsCopy
<1>7. Bounded'
  BY <1>1, <1>3 DEF Bounded
<1> QED
  BY <1>1, <1>4, <1>5, <1>6, <1>7 DEF DecoderInv, Waiting

(* What is kept of a chunk when the size behind it is read, at place u of  *)
(* the wire.                                                               *)
KeptOf(block, missing) == IF missing > 1 THEN D!First(block, missing - 2) ELSE <<>>
EndsIn(bytes, body, w, b, n, block, u, p, missing) ==
  /\ {w, b, n, u, p, missing} \subseteq Nat /\ Len(body) \in Nat
  /\ D!IsChunk(bytes, body, w, b, n) /\ block \in Seq(WireByte) /\ IsCopy(bytes, block, u)
  /\ GoesOn(w, b, n, u, p, missing) /\ missing <= Len(block)

(* It is all of the chunk but its cr lf.                                   *)
LEMMA ChunkKept ==
  ASSUME NEW bytes, NEW body, NEW w, NEW b, NEW n, NEW block, NEW u, NEW p, NEW missing,
         EndsIn(bytes, body, w, b, n, block, u, p, missing),
         NEW kept, kept = KeptOf(block, missing)
  PROVE  /\ kept \in Seq(WireByte) /\ Len(kept) = (IF missing > 1 THEN missing - 2 ELSE 0)
         /\ IsDecoded(body, kept, p) /\ p + Len(kept) = b + n
<1>4. /\ w \in Nat /\ b \in Nat /\ n \in Nat /\ u \in Nat /\ p \in Nat /\ missing \in Nat
      /\ Len(body) \in Nat /\ D!IsChunk(bytes, body, w, b, n) /\ block \in Seq(WireByte)
      /\ IsCopy(bytes, block, u) /\ GoesOn(w, b, n, u, p, missing) /\ missing <= Len(block)
  BY DEF EndsIn
<1>1. Len(block) \in Nat /\ p = PassedIn(b, n, missing) /\ missing = w + n + 5 - u /\ w + 3 <= u
  BY <1>4, LenProperties DEF GoesOn, Missing
<1>2. CASE missing > 1
  <2>1. PICK len \in Nat : len = missing - 2
    <3>1. missing - 2 \in Nat
      BY <1>2, <1>4
    <3> QED
      BY <3>1
  <2>2. p + len = b + n /\ len <= Len(block) /\ Within(w, b, n, u, len, p)
    <3>1. CASE missing <= 2
      <4>1. p = b + n /\ len = 0
        BY <1>1, <1>2, <1>4, <2>1, <3>1 DEF PassedIn
      <4> QED
        BY <1>1, <1>4, <2>1, <3>1, <4>1 DEF Within
    <3>2. CASE missing > 2
      <4>1. p = b + n + 2 - missing
        BY <1>1, <1>4, <3>2 DEF PassedIn
      <4>2. missing <= Len(block) /\ missing \in Nat /\ len \in Nat /\ Len(block) \in Nat
        BY <1>1, <1>4
      <4>3. len <= Len(block)
        BY ONLY <2>1, <4>2
      <4>4. p + len = b + n
        BY <1>4, <2>1, <4>1
      <4>6. missing = w + n + 5 - u
        BY <1>1
      <4>5. u + len <= w + n + 3 /\ p + w + 3 = b + u
        BY ONLY <1>4, <2>1, <4>1, <4>6
      <4> QED
        BY <1>1, <1>4, <4>3, <4>4, <4>5 DEF Within
    <3> QED
      BY <1>4, <3>1, <3>2
  <2>3. kept = SubSeq(block, 1, len)
    BY <1>2, <2>1 DEF KeptOf, D!First
  <2>4. kept \in Seq(WireByte) /\ Len(kept) = len /\ IsDecoded(body, kept, p)
    <3>1. /\ Len(body) \in Nat /\ D!IsChunk(bytes, body, w, b, n) /\ block \in Seq(WireByte)
          /\ IsCopy(bytes, block, u) /\ len <= Len(block) /\ Within(w, b, n, u, len, p)
      BY <1>4, <2>2
    <3>2. /\ SubSeq(block, 1, len) \in Seq(WireByte) /\ Len(SubSeq(block, 1, len)) = len
          /\ IsDecoded(body, SubSeq(block, 1, len), p)
      BY ONLY <3>1, ChunkDecoded
    <3> QED
      BY ONLY <2>3, <3>2, Zenon
  <2> QED
    BY <1>2, <1>4, <2>1, <2>2, <2>4
<1>3. CASE ~(missing > 1)
  <2>1. kept = <<>> /\ <<>> \in Seq(WireByte) /\ Len(<<>>) = 0
    BY <1>3, EmptySeq DEF KeptOf
  <2>2. p = b + n
    BY <1>1, <1>3, <1>4 DEF PassedIn
  <2>3. b + n <= Len(body)
    BY <1>4 DEF D!IsChunk
  <2> QED
    BY <1>3, <1>4, <2>1, <2>2, <2>3 DEF IsDecoded
<1> QED
  BY <1>2, <1>3

(* A block has the end of a chunk, and the size of the next one behind it. *)
BeginsIn(bytes, body, e, f, i, block, u, missing) ==
  /\ {e, f, i, u, missing} \subseteq Nat /\ D!IsChunk(bytes, body, e, f, i)
  /\ block \in Seq(WireByte) /\ IsCopy(bytes, block, u)
  /\ e = u + missing /\ missing + 4 <= Len(block)

(* That size is read, and what is left is from behind it.                  *)
LEMMA SizeBehind ==
  ASSUME NEW bytes, NEW body, NEW e, NEW f, NEW i, NEW block, NEW u, NEW missing,
         BeginsIn(bytes, body, e, f, i, block, u, missing)
  PROVE  /\ block[missing + 1].value = i
         /\ D!Skip(block, missing + 3) \in Seq(WireByte)
         /\ Len(D!Skip(block, missing + 3)) = Len(block) - missing - 3
         /\ IsCopy(bytes, D!Skip(block, missing + 3), e + 3)
<1>0. /\ e \in Nat /\ f \in Nat /\ i \in Nat /\ u \in Nat /\ missing \in Nat
      /\ D!IsChunk(bytes, body, e, f, i) /\ block \in Seq(WireByte) /\ IsCopy(bytes, block, u)
      /\ e = u + missing /\ missing + 4 <= Len(block)
  BY DEF BeginsIn
<1>1. Len(block) \in Nat /\ missing + 1 \in 1..Len(block) /\ u + (missing + 1) = e + 1
  BY <1>0, LenProperties
<1>2. block[missing + 1] = bytes[e + 1]
  BY <1>0, <1>1 DEF IsCopy
<1>3. bytes[e + 1].value = i
  BY <1>0 DEF D!IsChunk, D!Mark
<1>4. PICK k \in Nat : k = missing + 3
  BY <1>0
<1>5. k <= Len(block) /\ Len(block) - k = Len(block) - missing - 3 /\ u + k = e + 3
  BY <1>0, <1>1, <1>4
<1>6. /\ SubSeq(block, k + 1, Len(block)) \in Seq(WireByte)
      /\ Len(SubSeq(block, k + 1, Len(block))) = Len(block) - k
      /\ \A j \in 1..Len(block) - k : SubSeq(block, k + 1, Len(block))[j] = block[k + j]
  BY <1>0, <1>5, Split
<1>7. ASSUME NEW j \in 1..Len(block) - k PROVE block[k + j] = bytes[e + 3 + j]
  <2>1. k + j \in 1..Len(block) /\ u + (k + j) = e + 3 + j
    BY <1>0, <1>1, <1>5
  <2> QED
    BY <1>0, <2>1 DEF IsCopy
<1> QED
  BY <1>2, <1>3, <1>4, <1>5, <1>6, <1>7 DEF D!Skip, IsCopy

(* The size behind a chunk is read.                                        *)
LEMMA SizeRead ==
  ASSUME DemuxInv, DecoderInv, pc = "recv", D!ReadSize, UNCHANGED vars
  PROVE  DecoderInv'
<1>1. /\ next \in Nat /\ next <= Len(stream) /\ Len(stream) \in Nat
      /\ wire \in Seq(WireByte) /\ Len(wire) \in Nat /\ arrived \in Nat /\ arrived <= Len(wire)
      /\ decoded \in Seq(WireByte) /\ left \in Seq(WireByte)
      /\ Len(decoded) \in Nat /\ Len(left) \in Nat /\ chunked \in Nat /\ cchunk \in Nat
  BY DecoderFacts
<1>2. /\ RECEIVE \in Nat /\ RECEIVE > 0 /\ Errors \in Nat /\ Errors > 0 /\ Look \in Nat /\ Look >= 4
      /\ <<>> \in Seq(WireByte) /\ Len(<<>>) = 0
  BY DecoderConstants, EmptySeq
<1>3. /\ step = "size" /\ cchunk + Look <= Len(left) /\ chunkWaitRetries' = 0
      /\ wire' = wire /\ arrived' = arrived /\ room' = room
  BY <1>1, <1>2 DEF D!ReadSize, D!WantsMore
<1>4. stream' = stream /\ next' = next /\ pc' = "recv"
  BY DEF vars
<1>5. Following /\ Decoding /\ Copies /\ Bounded /\ chunked # 0
  BY <1>3 DEF DecoderInv, DecoderTypes, Following
<1>6. PICK w \in Nat, b \in Nat, n \in Nat : InChunk(w, b, n)
  BY <1>5 DEF Decoding
<1>7. ChunkSent(w, b, n) /\ GoesOn(w, b, n, Unread, Passed, cchunk) /\ D!IsChunk(wire, stream, w, b, n)
  BY <1>6 DEF InChunk, ChunkSent
<1>8. PICK u \in Nat : u = Unread /\ u + Len(left) = arrived
  <2>1. Unread >= w + 3
    BY <1>7 DEF GoesOn
  <2>2. Unread \in Nat /\ Unread + Len(left) = arrived
    BY <1>1, <2>1 DEF Unread
  <2> QED
    BY <2>2
<1>9. PICK p \in Nat : p = Passed /\ p = next + Len(decoded)
  <2>1. Passed = next + Len(decoded) /\ Passed \in Nat
    BY <1>1 DEF Passed
  <2> QED
    BY <2>1
<1>10. GoesOn(w, b, n, u, p, cchunk) /\ IsCopy(wire, left, u) /\ IsDecoded(stream, decoded, next)
  BY <1>5, <1>7, <1>8, <1>9 DEF Copies
<1>11. PICK e \in Nat, f \in Nat : e = w + n + 5 /\ f = b + n
  OBVIOUS
<1>12. e = u + cchunk /\ e < Len(wire)
  <2>1. cchunk = w + n + 5 - u
    BY <1>10 DEF GoesOn, Missing
  <2> QED
    BY <1>1, <1>2, <1>3, <1>8, <1>11, <2>1
<1>13. PICK i \in Nat : ChunkSent(e, f, i)
  <2>1. w + n + 5 < Len(wire)
    BY <1>11, <1>12
  <2>2. \E i \in Nat : ChunkSent(w + n + 5, b + n, i)
    BY <1>7, <2>1, ChunkBehind
  <2> QED
    BY <1>11, <2>2
<1>14. D!IsChunk(wire, stream, e, f, i)
  BY <1>13 DEF ChunkSent
<1>15. PICK kept : kept = KeptOf(left, cchunk)
  OBVIOUS
<1>16. PICK block : block = D!Skip(left, cchunk + 3)
  OBVIOUS
<1>17. PICK g \in Nat : g = IF cchunk > 1 THEN cchunk - 2 ELSE 0
  <2>1. (IF cchunk > 1 THEN cchunk - 2 ELSE 0) \in Nat
    BY <1>1
  <2> QED
    BY <2>1
<1>18. kept \in Seq(WireByte) /\ Len(kept) = g /\ IsDecoded(stream, kept, p) /\ p + g = f
  <2>1. cchunk <= Len(left)
    BY <1>1, <1>2, <1>3
  <2>2. /\ kept \in Seq(WireByte) /\ Len(kept) = (IF cchunk > 1 THEN cchunk - 2 ELSE 0)
        /\ IsDecoded(stream, kept, p) /\ p + Len(kept) = b + n
    <3>1. EndsIn(wire, stream, w, b, n, left, u, p, cchunk)
      BY <1>1, <1>7, <1>10, <2>1 DEF EndsIn
    <3> QED
      BY <1>15, <3>1, ChunkKept
  <2> QED
    BY <1>11, <1>17, <2>2
<1>19. /\ left[cchunk + 1].value = i /\ block \in Seq(WireByte)
       /\ Len(block) = Len(left) - cchunk - 3 /\ IsCopy(wire, block, e + 3)
  <2>1. cchunk + 4 <= Len(left)
    BY <1>1, <1>2, <1>3
  <2> QED
    <3>1. BeginsIn(wire, stream, e, f, i, left, u, cchunk)
      BY <1>1, <1>10, <1>12, <1>14, <2>1 DEF BeginsIn
    <3>2. /\ left[cchunk + 1].value = i
          /\ D!Skip(left, cchunk + 3) \in Seq(WireByte)
          /\ Len(D!Skip(left, cchunk + 3)) = Len(left) - cchunk - 3
          /\ IsCopy(wire, D!Skip(left, cchunk + 3), e + 3)
      BY <3>1, SizeBehind
    <3> QED
      BY ONLY <1>16, <3>2, Zenon
<1>20. /\ chunked' = i + 2
       /\ \/ /\ i + 2 > Len(block) /\ cchunk' = i + 2 - Len(block)
             /\ decoded' = decoded \o kept \o (IF cchunk' = 1 THEN D!Drop(block, 1) ELSE block)
             /\ left' = <<>> /\ step' = "out"
          \/ /\ i + 2 <= Len(block) /\ cchunk' = i + 2
             /\ decoded' = decoded \o kept /\ left' = block /\ step' = "size"
  <2>1. PICK size : size = left[cchunk + 1].value + 2
    OBVIOUS
  <2>2. size = i + 2
    BY <1>19, <2>1
  <2>3. /\ chunked' = size
        /\ \/ /\ size > Len(block) /\ cchunk' = size - Len(block)
              /\ decoded' = decoded \o kept \o (IF cchunk' = 1 THEN D!Drop(block, 1) ELSE block)
              /\ left' = <<>> /\ step' = "out"
           \/ /\ size <= Len(block) /\ cchunk' = size
              /\ decoded' = decoded \o kept /\ left' = block /\ step' = "size"
    BY <1>15, <1>16, <2>1, Zenon DEF D!ReadSize, KeptOf
  <2>4. Len(block) \in Nat /\ i \in Nat
    BY <1>19, LenProperties
  <2>5. PICK m : m = Len(block)
    OBVIOUS
  <2>6. PICK one, two : /\ one = (decoded \o kept \o (IF cchunk' = 1 THEN D!Drop(block, 1) ELSE block))
                        /\ two = decoded \o kept
    OBVIOUS
  <2>7. /\ chunked' = size
        /\ \/ size > m /\ cchunk' = size - m /\ decoded' = one /\ left' = <<>> /\ step' = "out"
           \/ size <= m /\ cchunk' = size /\ decoded' = two /\ left' = block /\ step' = "size"
    BY ONLY <2>3, <2>5, <2>6, Zenon
  <2>8. /\ chunked' = i + 2
        /\ \/ i + 2 > m /\ cchunk' = i + 2 - m /\ decoded' = one /\ left' = <<>> /\ step' = "out"
           \/ i + 2 <= m /\ cchunk' = i + 2 /\ decoded' = two /\ left' = block /\ step' = "size"
    BY ONLY <2>2, <2>4, <2>5, <2>7
  <2> QED
    BY ONLY <2>5, <2>6, <2>8, Zenon
<1>21. PICK d : d = decoded \o kept
  OBVIOUS
<1>22. d \in Seq(WireByte) /\ Len(d) = Len(decoded) + g /\ IsDecoded(stream, d, next) /\ next + Len(d) = f
  <2>1. /\ decoded \o kept \in Seq(WireByte) /\ Len(decoded \o kept) = Len(decoded) + Len(kept)
        /\ IsDecoded(stream, decoded \o kept, next)
    BY <1>1, <1>9, <1>10, <1>18, MoreDecoded
  <2> QED
    BY <1>1, <1>9, <1>18, <1>21, <2>1
<1>23. PICK r \in Nat : r = Len(block) /\ r = Len(left) - cchunk - 3 /\ r # 0
  <2>1. Len(block) \in Nat /\ Len(block) = Len(left) - cchunk - 3
    BY <1>19, LenProperties
  <2>2. Len(block) # 0
    <3>1. Len(left) \in Nat /\ cchunk \in Nat /\ Look \in Nat /\ Look >= 4 /\ cchunk + Look <= Len(left)
      BY <1>1, <1>2, <1>3
    <3> QED
      BY ONLY <2>1, <3>1
  <2> QED
    BY <2>1, <2>2
<1>24. e + 3 + r = arrived /\ e + 3 \in Nat
  BY <1>1, <1>8, <1>12, <1>23
<1>25. ChunkSent(e, f, i)'
  BY <1>3, <1>4, <1>13 DEF ChunkSent
<1>26. /\ room \in Nat /\ room <= D!Bufrec /\ Len(decoded) + Len(left) <= room
       /\ g <= cchunk
  BY <1>1, <1>5, <1>17 DEF Bounded
<1>27. CASE /\ i + 2 > Len(block) /\ cchunk' = i + 2 - Len(block)
            /\ decoded' = decoded \o kept \o (IF cchunk' = 1 THEN D!Drop(block, 1) ELSE block)
            /\ left' = <<>> /\ step' = "out"
  <2>1. PICK still \in Nat : still = cchunk' /\ still = i + 2 - r /\ r < i + 2
    <3>2. r = Len(block) /\ r \in Nat /\ i \in Nat
      BY <1>23
    <3>3. i + 2 > r
      BY ONLY <1>27, <3>2
    <3>4. i + 2 - r \in Nat /\ r < i + 2
      BY ONLY <3>2, <3>3
    <3>1. i + 2 - r \in Nat /\ cchunk' = i + 2 - r /\ r < i + 2
      BY ONLY <1>27, <3>2, <3>4, Zenon
    <3> QED
      BY <3>1
  <2>2. PICK len \in Nat : len = (IF still = 1 THEN r - 1 ELSE r) /\ len <= r
    <3>2. r \in Nat /\ r # 0
      BY <1>23
    <3>1. (IF still = 1 THEN r - 1 ELSE r) \in Nat /\ (IF still = 1 THEN r - 1 ELSE r) <= r
      BY ONLY <3>2
    <3> QED
      BY <3>1
  <2>3. (IF cchunk' = 1 THEN D!Drop(block, 1) ELSE block) = SubSeq(block, 1, len)
    <3>1. CASE still = 1
      BY <1>23, <2>1, <2>2, <3>1 DEF D!Drop
    <3>2. CASE still # 1
      <4>1. /\ SubSeq(block, 1, r) \in Seq(WireByte) /\ Len(SubSeq(block, 1, r)) = r
            /\ \A j \in 1..r : SubSeq(block, 1, r)[j] = block[j]
        BY <1>19, <1>23, Split
      <4>2. SubSeq(block, 1, r) = block
        BY <1>19, <1>23, <4>1, SeqEqual
      <4> QED
        BY <2>1, <2>2, <3>2, <4>2
    <3> QED
      BY <3>1, <3>2
  <2>4. Within(e, f, i, e + 3, len, f) /\ GoesOn(e, f, i, e + 3 + r, f + len, still)
    <3>1. GoesOn(e, f, i, e + 3, f, i + 2)
      BY DEF GoesOn, PassedIn, Missing
    <3>2. \/ i + 2 <= 2 /\ len = 0
          \/ i + 2 > 2 /\ still >= 2 /\ len = r
          \/ i + 2 > 2 /\ still < 2 /\ len = r + still - 2
      <4>1. r \in Nat /\ r # 0 /\ i \in Nat /\ still \in Nat /\ len \in Nat /\ still = i + 2 - r /\ r < i + 2
        BY <1>23, <2>1
      <4> QED
        BY ONLY <2>2, <4>1
    <3>3. Counted(e, f, i, e + 3, i + 2, r, len, f, still)
      BY <2>1, <3>1, <3>2 DEF Counted
    <3> QED
      BY <3>3, TakenSums
  <2>5. PICK part : part = SubSeq(block, 1, len)
    OBVIOUS
  <2>6. part \in Seq(WireByte) /\ Len(part) = len /\ IsDecoded(stream, part, f)
    <3>1. /\ Len(stream) \in Nat /\ D!IsChunk(wire, stream, e, f, i) /\ block \in Seq(WireByte)
          /\ IsCopy(wire, block, e + 3) /\ len <= Len(block) /\ Within(e, f, i, e + 3, len, f)
      BY <1>1, <1>14, <1>19, <1>23, <2>2, <2>4
    <3>2. /\ SubSeq(block, 1, len) \in Seq(WireByte) /\ Len(SubSeq(block, 1, len)) = len
          /\ IsDecoded(stream, SubSeq(block, 1, len), f)
      BY ONLY <3>1, ChunkDecoded
    <3> QED
      BY ONLY <2>5, <3>2, Zenon
  <2>7. decoded' = d \o part
    BY <1>21, <1>27, <2>3, <2>5
  <2>8. decoded' \in Seq(WireByte) /\ Len(decoded') = Len(d) + len /\ IsDecoded(stream, decoded', next)
    <3>1. /\ d \o part \in Seq(WireByte) /\ Len(d \o part) = Len(d) + Len(part)
          /\ IsDecoded(stream, d \o part, next)
      BY <1>1, <1>22, <2>6, MoreDecoded
    <3> QED
      BY <2>6, <2>7, <3>1
  <2>9. Unread' = e + 3 + r /\ Passed' = f + len
    <3>1. Len(left') = 0 /\ arrived - 0 = arrived
      BY <1>1, <1>2, <1>27
    <3>2. Unread' = e + 3 + r
      BY <1>3, <1>24, <3>1 DEF Unread
    <3>3. next + Len(decoded') = f + len
      <4>1. next \in Nat /\ len \in Nat /\ Len(d) \in Nat /\ Len(decoded') = Len(d) + len /\ next + Len(d) = f
        BY <1>1, <1>22, <2>8, LenProperties
      <4> QED
        BY ONLY <4>1
    <3> QED
      BY <1>4, <3>2, <3>3 DEF Passed
  <2>10. InChunk(e, f, i)'
    BY <1>20, <1>25, <2>1, <2>4, <2>9 DEF InChunk
  <2>11. Decoding' /\ Plain'
    BY <1>20, <2>10 DEF Decoding, Plain
  <2>12. DecoderTypes'
    BY <1>1, <1>2, <1>3, <1>4, <1>20, <1>27, <2>1, <2>8 DEF DecoderTypes
  <2>13. Copies'
    BY <1>2, <1>4, <1>27, <2>8 DEF Copies, IsCopy
  <2>14. Bounded'
    <3>1. Len(decoded') + Len(left') <= room
      <4>1. g <= cchunk
        BY <1>26
      <4>2. Len(decoded') = Len(decoded) + g + len /\ Len(left') = 0
        BY <1>2, <1>22, <1>27, <2>8
      <4>3. /\ Len(decoded) \in Nat /\ Len(left) \in Nat /\ cchunk \in Nat /\ room \in Nat
            /\ r = Len(left) - cchunk - 3 /\ len <= r /\ len \in Nat /\ r \in Nat /\ g \in Nat
            /\ Len(decoded) + Len(left) <= room
        BY <1>1, <1>2, <1>23, <1>26, <2>2
      <4>4. Len(decoded) + g + len <= room
        BY ONLY <4>1, <4>3
      <4>5. Len(decoded') + Len(left') = Len(decoded) + g + len
        <5>1. PICK l \in Nat : l = Len(decoded) + g + len
          BY ONLY <4>3
        <5>2. l + 0 = l
          OBVIOUS
        <5> QED
          BY ONLY <4>2, <5>1, <5>2, Zenon
      <4> QED
        BY ONLY <4>4, <4>5, Zenon
    <3> QED
      BY <1>3, <1>26, <3>1 DEF Bounded
  <2> QED
    BY <1>27, <2>11, <2>12, <2>13, <2>14 DEF DecoderInv, Waiting
<1>28. CASE /\ i + 2 <= Len(block) /\ cchunk' = i + 2
            /\ decoded' = decoded \o kept /\ left' = block /\ step' = "size"
  <2>1. decoded' = d /\ Len(left') = r /\ Len(decoded') = Len(decoded) + g
    BY <1>21, <1>22, <1>23, <1>28
  <2>2. Unread' = e + 3 /\ Passed' = f
    <3>1. arrived - Len(left') = e + 3
      BY <1>1, <1>24, <2>1
    <3>2. next + Len(decoded') = f
      BY <1>22, <2>1
    <3> QED
      BY <1>3, <1>4, <3>1, <3>2 DEF Unread, Passed
  <2>3. GoesOn(e, f, i, e + 3, f, i + 2)
    BY DEF GoesOn, PassedIn, Missing
  <2>4. InChunk(e, f, i)'
    BY <1>20, <1>25, <1>28, <2>2, <2>3 DEF InChunk
  <2>5. Decoding' /\ Plain'
    BY <1>20, <2>4 DEF Decoding, Plain
  <2>6. DecoderTypes'
    BY <1>1, <1>2, <1>3, <1>4, <1>19, <1>20, <1>22, <1>28, <2>1 DEF DecoderTypes
  <2>7. Copies'
    BY <1>3, <1>4, <1>19, <1>22, <1>28, <2>1, <2>2 DEF Copies
  <2>8. Bounded'
    <3>1. Len(decoded') + Len(left') <= room
      BY <1>1, <1>23, <1>26, <2>1
    <3> QED
      BY <1>3, <1>26, <3>1 DEF Bounded
  <2> QED
    BY <1>28, <2>5, <2>6, <2>7, <2>8 DEF DecoderInv, Waiting
<1> QED
  BY <1>20, <1>27, <1>28

(* The block goes to the metadata part: it is what comes next in the       *)
(* stream, and no longer than the buffer.                                  *)
LEMMA NextInStream ==
  ASSUME DemuxInv, DecoderInv, HandOver
  PROVE  /\ next \in Nat /\ Len(decoded) \in Nat /\ next + Len(decoded) <= Len(stream)
         /\ decoded = SubSeq(stream, next + 1, next + Len(decoded))
         /\ Len(decoded) <= D!Bufrec /\ Following
<1>1. /\ next \in Nat /\ next <= Len(stream) /\ Len(stream) \in Nat /\ stream \in Seq(Byte)
      /\ decoded \in Seq(WireByte) /\ left \in Seq(WireByte)
      /\ Len(decoded) \in Nat /\ Len(left) \in Nat
  BY DecoderFacts
<1>2. Following
  BY DEF HandOver, Following, DecoderInv, DecoderTypes
<1>3. /\ next + Len(decoded) <= Len(stream)
      /\ \A k \in 1..Len(decoded) : decoded[k] = stream[next + k]
  BY <1>2 DEF DecoderInv, Copies, IsDecoded
<1>4. PICK e \in Nat : e = next + Len(decoded) /\ e - next = Len(decoded) /\ next <= e
  BY <1>1
<1>5. /\ SubSeq(stream, next + 1, e) \in Seq(Byte) /\ Len(SubSeq(stream, next + 1, e)) = e - next
      /\ \A i \in 1..e - next : SubSeq(stream, next + 1, e)[i] = stream[next + i]
  <2>1. stream \in Seq(Byte) /\ next \in Nat /\ e \in Nat /\ next <= e /\ e <= Len(stream)
    BY <1>1, <1>3, <1>4
  <2> QED
    BY ONLY <2>1, Part
<1>6. SubSeq(stream, next + 1, e) \in Seq(WireByte)
  BY <1>5, OnTheWire
<1>7. decoded = SubSeq(stream, next + 1, e)
  <2>1. /\ decoded \in Seq(WireByte) /\ SubSeq(stream, next + 1, e) \in Seq(WireByte)
        /\ Len(decoded) = Len(SubSeq(stream, next + 1, e))
        /\ \A i \in 1..Len(decoded) : decoded[i] = SubSeq(stream, next + 1, e)[i]
    BY <1>1, <1>3, <1>4, <1>5, <1>6
  <2> QED
    BY <2>1, SeqEqual
<1>8. Len(decoded) <= D!Bufrec
  <2>1. /\ Len(decoded) + Len(left) <= room /\ room \in Nat /\ room <= D!Bufrec
        /\ D!Bufrec \in Nat
    BY DecoderConstants DEF DecoderInv, Bounded, D!Bufrec
  <2> QED
    BY <1>1, <2>1
<1> QED
  BY <1>1, <1>2, <1>3, <1>4, <1>7, <1>8

(* ... which is a block received, for the metadata part.                   *)
LEMMA HandedOver ==
  ASSUME DemuxInv, DecoderInv, HandOver
  PROVE  \/ UNCHANGED vars
         \/ Len(decoded) \in Nat \ {0} /\ Len(decoded) <= D!Bufrec /\ Receive(Len(decoded))
<1>1. CASE decoded = <<>>
  BY <1>1 DEF HandOver, demuxVars
<1>2. CASE decoded # <<>>
  <2>1. /\ pc = "recv" /\ pdata' = decoded /\ next' = next + Len(decoded)
        /\ pc' = (IF rest < 0 THEN "rest" ELSE "meta")
        /\ UNCHANGED <<stream, metaint, metad, rest, metadata, title, audio>>
    BY <1>2 DEF HandOver, ToMetadata
  <2>2. Len(decoded) # 0
    BY <1>2, DecoderFacts, EmptySeq
  <2>3. /\ Len(decoded) \in Nat /\ next + Len(decoded) <= Len(stream)
        /\ decoded = SubSeq(stream, next + 1, next + Len(decoded))
        /\ Len(decoded) <= D!Bufrec
    BY NextInStream
  <2>4. Receive(Len(decoded))
    BY <2>1, <2>3 DEF Receive
  <2> QED
    BY <2>2, <2>3, <2>4
<1> QED
  BY <1>1, <1>2

(* ... and leaves the decoder where it is.                                 *)
LEMMA BlockGone ==
  ASSUME DemuxInv, DecoderInv, HandOver
  PROVE  DecoderInv'
<1>1. /\ next \in Nat /\ next <= Len(stream) /\ Len(stream) \in Nat
      /\ wire \in Seq(WireByte) /\ Len(wire) \in Nat /\ arrived \in Nat /\ arrived <= Len(wire)
      /\ Len(decoded) \in Nat /\ Len(left) \in Nat
  BY DecoderFacts
<1>2. /\ step \in {"out", "negative"} /\ step' = "recv" /\ decoded' = <<>>
      /\ UNCHANGED <<wire, arrived, chunked, cchunk, left, chunkWaitRetries, room>>
  BY DEF HandOver, DecoderInv, DecoderTypes
<1>3. Following /\ next + Len(decoded) <= Len(stream)
  BY NextInStream
<1>4. left = <<>> /\ DecoderTypes /\ Decoding /\ Plain /\ Bounded
  BY <1>2 DEF DecoderInv, DecoderTypes
<1>5. <<>> \in Seq(WireByte) /\ Len(<<>>) = 0 /\ RECEIVE \in Nat /\ Look \in Nat
  BY DecoderConstants, EmptySeq
<1>6. stream' = stream /\ next' \in Nat /\ next' = next + Len(decoded)
  <2>1. CASE decoded = <<>>
    <3>1. stream' = stream /\ next' = next
      BY <2>1 DEF HandOver, demuxVars, vars
    <3>2. next + 0 = next
      BY <1>1
    <3> QED
      BY <1>1, <1>5, <2>1, <3>1, <3>2
  <2>2. CASE decoded # <<>>
    <3>1. stream' = stream /\ next' = next + Len(decoded)
      BY <2>2 DEF HandOver, ToMetadata
    <3> QED
      BY <1>1, <3>1
  <2> QED
    BY <2>1, <2>2
<1>7. Passed' = Passed /\ Unread' = Unread
  <2>1. PICK p \in Nat : p = next' /\ p + 0 = p
    BY <1>6
  <2>2. Passed' = next' + Len(decoded')
    BY DEF Passed
  <2>3. Passed = p
    BY <1>6, <2>1 DEF Passed
  <2>4. Passed' = Passed
    BY ONLY <1>2, <1>5, <2>1, <2>2, <2>3, Zenon
  <2> QED
    BY <1>2, <2>4 DEF Unread
<1>8. DecoderTypes'
  BY <1>2, <1>4, <1>5 DEF DecoderTypes
<1>9. Decoding' /\ Plain'
  <2>1. ASSUME chunked # 0 PROVE \E w, b, n \in Nat : InChunk(w, b, n)'
    <3>1. PICK w \in Nat, b \in Nat, n \in Nat : InChunk(w, b, n)
      BY <1>3, <1>4, <2>1 DEF Decoding
    <3>2. InChunk(w, b, n)'
      BY <1>2, <1>6, <1>7, <3>1 DEF InChunk, ChunkSent
    <3> QED
      BY <3>2
  <2>2. ASSUME chunked = 0 PROVE wire = stream /\ cchunk = 0 /\ arrived = Passed
    BY <1>3, <1>4, <2>2 DEF Plain
  <2> QED
    BY <1>2, <1>6, <1>7, <2>1, <2>2 DEF Decoding, Plain
<1>10. Copies'
  <2>1. next' + 0 <= Len(stream')
    <3>1. PICK p \in Nat : p = next' /\ p + 0 = p
      BY <1>6
    <3> QED
      BY <1>1, <1>3, <1>6, <3>1
  <2> QED
    BY <1>2, <1>4, <1>5, <2>1 DEF Copies, IsDecoded, IsCopy
<1>11. Bounded'
  BY <1>2, <1>4, <1>5 DEF Bounded
<1> QED
  BY <1>2, <1>8, <1>9, <1>10, <1>11 DEF DecoderInv, Waiting

(* The metadata part at work does not touch the decoder.                   *)
LEMMA DecoderWaits ==
  ASSUME DecoderInv, UNCHANGED decoderVars, stream' = stream, next' = next, pc # "recv" \/ pc' = pc
  PROVE  DecoderInv'
<1>1. UNCHANGED <<wire, arrived, step, chunked, cchunk, decoded, left, chunkWaitRetries, room>>
  BY DEF decoderVars
<1>2. pc' # "recv" => step = "recv"
  BY DEF DecoderInv, DecoderTypes
<1>3. Unread' = Unread /\ Passed' = Passed
  BY <1>1 DEF Unread, Passed
<1>4. DecoderTypes' /\ Copies' /\ Bounded' /\ Plain' /\ Waiting'
  BY <1>1, <1>2, <1>3
     DEF DecoderInv, DecoderTypes, Copies, Following, Bounded, Waiting, Plain
<1>5. Decoding'
  <2>1. ASSUME NEW w, NEW b, NEW n, InChunk(w, b, n) PROVE InChunk(w, b, n)'
    BY <1>1, <1>3, <2>1 DEF InChunk, ChunkSent
  <2> QED
    BY <1>1, <2>1 DEF DecoderInv, Decoding, Following
<1> QED
  BY <1>4, <1>5 DEF DecoderInv

(* Nor is the metadata part touched while a block is decoded.              *)
LEMMA DemuxWaits ==
  ASSUME DemuxInv, UNCHANGED vars
  PROVE  DemuxInv'
<1>1. UNCHANGED <<stream, next, pc, pdata, metaint, metad, rest, metadata, title, audio>>
  BY DEF vars
<1>2. Handled' = Handled
  BY <1>1 DEF Handled
<1>3. DemuxTypes' /\ Places' /\ Where' /\ TitleWhole'
  BY <1>1, <1>2 DEF DemuxInv, DemuxTypes, Places, Where, TitleWhole, Announced, TitleAt
<1> QED
  BY <1>1, <1>2, <1>3 DEF DemuxInv

-----------------------------------------------------------------------------
(* Where the code is, in the stream and on the wire, unless it went astray. *)
ReceptionInv == Sound => DemuxInv /\ DecoderInv

(* It is so at the start, ...                                              *)
LEMMA ReceptionStarts == ReceptionInit => ReceptionInv
<1> SUFFICES ASSUME ReceptionInit PROVE ReceptionInv
  OBVIOUS
<1>1. Init
  BY DEF ReceptionInit
<1>2. DemuxInv /\ pc = "recv"
  BY <1>1, FirstResponse DEF Init
<1>3. /\ wire = <<>> /\ arrived = 0 /\ step = "gone" /\ chunked = 0 /\ cchunk = 0
      /\ decoded = <<>> /\ left = <<>> /\ chunkWaitRetries = 0 /\ room = 0
  BY DEF ReceptionInit
<1>4. /\ <<>> \in Seq(WireByte) /\ Len(<<>>) = 0 /\ 0 \in 0..0 /\ 0 \in 0..Errors
      /\ RECEIVE \in Nat /\ Look \in Nat
  BY DecoderConstants, EmptySeq
<1>5. DecoderTypes
  BY <1>2, <1>3, <1>4 DEF DecoderTypes
<1>6. Decoding /\ Plain /\ Copies /\ Waiting
  BY <1>3 DEF Decoding, Plain, Copies, Following, Waiting
<1>7. Bounded
  BY <1>3, <1>4 DEF Bounded, D!Bufrec
<1> QED
  BY <1>2, <1>5, <1>6, <1>7 DEF ReceptionInv, DecoderInv

(* What is astray stays so until the next header.                          *)
LEMMA SoundBefore ==
  ASSUME [ReceptionNext]_allVars, ~Header, Sound'
  PROVE  Sound
BY DEF ReceptionNext, HandOver, NegativeLength, Adrift, Decoder, Fails, Demux, Astray, Sound, allVars

(* ... and after every step, ...                                           *)
LEMMA ReceptionGoesOn == ReceptionInv /\ [ReceptionNext]_allVars => ReceptionInv'
<1> SUFFICES ASSUME ReceptionInv, [ReceptionNext]_allVars, Sound' PROVE DemuxInv' /\ DecoderInv'
  BY DEF ReceptionInv
<1>1. CASE Header
  BY <1>1, NextResponse, HeaderTaken DEF Header
<1>a. ASSUME ~Header PROVE DemuxInv /\ DecoderInv
  BY <1>a, SoundBefore DEF ReceptionInv
<1>2. CASE ~Header /\ HandOver
  <2>1. DemuxInv'
    <3>1. CASE UNCHANGED vars
      BY <1>2, <1>a, <3>1, DemuxWaits
    <3>2. CASE Len(decoded) \in Nat \ {0} /\ Receive(Len(decoded))
      BY <1>2, <1>a, <3>2, BlockReceived
    <3> QED
      BY <1>2, <1>a, <3>1, <3>2, HandedOver
  <2> QED
    BY <1>2, <1>a, <2>1, BlockGone
<1>3. CASE ~Header /\ Decoder
  <2>1. UNCHANGED vars /\ pc = "recv" /\ DemuxInv /\ DecoderInv
    BY <1>3, <1>a DEF Decoder, demuxVars
  <2>2. DemuxInv'
    BY <2>1, DemuxWaits
  <2>3. CASE Fails
    <3>1. D!ReceiveMoreFails /\ step' # "last"
      BY <2>3 DEF Fails, Astray, Sound
    <3> QED
      BY <2>1, <2>2, <3>1, NothingTaken
  <2>4. CASE D!ReadSize
    BY <2>1, <2>2, <2>4, SizeRead
  <2>5. CASE \E l \in 1..Look : D!ReceiveMore(l)
    BY <2>1, <2>2, <2>5, MoreTaken
  <2>6. CASE \E l \in 1..RECEIVE : D!ReceiveBlock(l)
    BY <2>1, <2>2, <2>6, BlockTaken
  <2>7. CASE \E l \in 1..RECEIVE : D!WaitMore(l)
    BY <2>1, <2>2, <2>7, WaitTaken
  <2> QED
    BY <1>3, <2>3, <2>4, <2>5, <2>6, <2>7 DEF Decoder, D!Decode
<1>4. CASE ~Header /\ Demux
  <2>1. DemuxInv'
    BY <1>4, <1>a, TitleFinished, TitleContinued, RoundDone, AudioHandled DEF Demux
  <2>2. stream' = stream /\ next' = next /\ pc # "recv" /\ UNCHANGED decoderVars
    BY <1>4 DEF Demux, TitleEnds, TitleGoesOn, Round, AudioOnly, decoderVars
  <2> QED
    BY <1>4, <1>a, <2>1, <2>2, DecoderWaits
<1>5. CASE ~Header /\ UNCHANGED allVars
  <2>1. UNCHANGED vars /\ UNCHANGED decoderVars
    BY <1>5 DEF allVars
  <2>2. stream' = stream /\ next' = next /\ pc' = pc
    BY <2>1 DEF vars
  <2> QED
    BY <1>5, <1>a, <2>1, <2>2, DemuxWaits, DecoderWaits
<1>6. CASE NegativeLength
  BY <1>6 DEF NegativeLength, Astray, Sound
<1>7. CASE ~Header /\ Adrift
  BY <1>7, <1>a DEF Adrift, DecoderInv, DecoderTypes
<1> QED
  BY <1>1, <1>2, <1>3, <1>4, <1>5, <1>6, <1>7 DEF ReceptionNext

(* ... so always: as long as nothing leads it astray, and from every header *)
(* on again, each byte of the stream is decoded once and handled once.     *)
THEOREM ReceptionCorrect == ReceptionSpec => []ReceptionInv
<1>1. ReceptionInit => ReceptionInv
  BY ReceptionStarts
<1>2. ReceptionInv /\ [ReceptionNext]_allVars => ReceptionInv'
  BY ReceptionGoesOn
<1> QED
  BY <1>1, <1>2, PTL DEF ReceptionSpec

(* Between two blocks the audio that has arrived, and nothing else, has    *)
(* been written to the buffer, in its order: whatever the streams, the     *)
(* blocks, the chunks, and the responses before, those that went wrong     *)
(* included (the metadata part of clientReceiveCallback).                  *)
THEOREM AudioCorrect == ReceptionSpec => []AudioReceived
<1>1. ReceptionInv => AudioReceived
  <2> SUFFICES ASSUME DemuxInv, pc = "recv"
               PROVE  /\ \A i, j \in 1..Len(audio) : i < j => audio[i].at < audio[j].at
                      /\ {audio[i].at : i \in 1..Len(audio)} = {k \in 1..next : stream[k].kind = "audio"}
    BY DEF ReceptionInv, AudioReceived, AudioInOrder
  <2>1. pdata = <<>>
    BY DEF DemuxInv, Places
  <2>2. Handled = next
    BY <2>1, DemuxFacts, EmptySeq
  <2>3. IsWritten(stream, audio, next)
    BY <2>2 DEF DemuxInv
  <2> QED
    BY <2>3, Zenon DEF IsWritten, Ordered, PlacesOf, AudioOf
<1> QED
  BY <1>1, ReceptionCorrect, PTL

(* A title that is saved is one the server sent, whole, with what the      *)
(* blocks it came in were cut of it put together again (the rest and       *)
(* metadata variables of clientReceiveCallback), until something leads the *)
(* reception astray.                                                       *)
THEOREM TitleCorrect == ReceptionSpec => []TitleReceived
<1>1. ReceptionInv => TitleReceived
  BY DEF ReceptionInv, DemuxInv, TitleReceived
<1> QED
  BY <1>1, ReceptionCorrect, PTL

(* A stream in chunks is a stream without them to the metadata part: every *)
(* step of the reception is one of Direct, in which the bytes of the       *)
(* stream come block by block, or is not seen there, or comes after        *)
(* something led it astray.                                                *)
LEMMA DirectStep ==
  ReceptionInv /\ [ReceptionNext]_allVars => [Direct!Next \/ ~Sound']_(Direct!vars)
<1> SUFFICES ASSUME ReceptionInv, [ReceptionNext]_allVars, Sound' PROVE [Direct!Next]_(Direct!vars)
  OBVIOUS
<1>1. CASE Header
  <2>1. Direct!Reconnect
    BY <1>1 DEF Header, Reconnect, Direct!Reconnect, MetadOf, Direct!MetadOf
  <2> QED
    BY <2>1 DEF Direct!Next
<1>a. ASSUME ~Header PROVE DemuxInv /\ DecoderInv
  BY <1>a, SoundBefore DEF ReceptionInv
<1>2. CASE ~Header /\ HandOver
  <2>1. CASE UNCHANGED vars
    BY <2>1 DEF vars, Direct!vars
  <2>2. CASE Len(decoded) \in Nat \ {0} /\ Len(decoded) <= D!Bufrec /\ Receive(Len(decoded))
    <3>1. Direct!Receive(Len(decoded))
      BY <2>2 DEF Receive, Direct!Receive
    <3>2. Len(decoded) \in 1..D!Bufrec
      BY <2>2, DecoderConstants DEF D!Bufrec
    <3> QED
      BY <3>1, <3>2 DEF Direct!Next
  <2> QED
    BY <1>2, <1>a, <2>1, <2>2, HandedOver
<1>3. CASE Decoder
  BY <1>3 DEF Decoder, demuxVars, vars, Direct!vars
<1>4. CASE Demux
  <2>1. CASE TitleEnds
    <3>1. Direct!TitleEnds
      BY <2>1 DEF TitleEnds, Direct!TitleEnds, Zeroed, Direct!Zeroed, From, Direct!From
    <3> QED
      BY <3>1 DEF Direct!Next
  <2>2. CASE TitleGoesOn
    <3>1. Direct!TitleGoesOn
      BY <2>2 DEF TitleGoesOn, Direct!TitleGoesOn
    <3> QED
      BY <3>1 DEF Direct!Next
  <2>3. CASE Round
    <3>1. Direct!Round
      BY <2>3, Zenon
         DEF Round, Direct!Round, Zeroed, Direct!Zeroed, From, Direct!From,
             LengthByteInside, Direct!LengthByteInside
    <3> QED
      BY <3>1 DEF Direct!Next
  <2>4. CASE AudioOnly
    <3>1. Direct!AudioOnly
      BY <2>4 DEF AudioOnly, Direct!AudioOnly, LengthByteInside, Direct!LengthByteInside
    <3> QED
      BY <3>1 DEF Direct!Next
  <2> QED
    BY <1>4, <2>1, <2>2, <2>3, <2>4 DEF Demux
<1>5. CASE UNCHANGED allVars
  BY <1>5 DEF allVars, vars, Direct!vars
<1>6. CASE NegativeLength
  BY <1>6 DEF NegativeLength, Astray, Sound
<1>7. CASE ~Header /\ Adrift
  BY <1>7, <1>a DEF Adrift, DecoderInv, DecoderTypes
<1> QED
  BY <1>1, <1>2, <1>3, <1>4, <1>5, <1>6, <1>7 DEF ReceptionNext

(* The reception implements the stream without chunks: the metadata part   *)
(* gets the bytes of the stream, all of them and in order, wherever the    *)
(* chunks and the blocks are cut (the chunk computing of                   *)
(* clientReceiveCallback), as long as nothing leads it astray.             *)
THEOREM DirectCorrect == ReceptionSpec => DirectSpec
<1>1. ReceptionInit => Direct!Init
  BY DEF ReceptionInit, Init, Direct!Init, MetadOf, Direct!MetadOf
<1>2. ReceptionInv /\ [ReceptionNext]_allVars => [Direct!Next \/ ~Sound']_(Direct!vars)
  BY DirectStep
<1> QED
  BY <1>1, <1>2, ReceptionCorrect, PTL DEF ReceptionSpec, DirectSpec
=============================================================================
