--------------------------- MODULE PlaybackProofs ----------------------------
(***************************************************************************)
(* First what holds of the stream buffer alone, for every size, request    *)
(* and stream length, when it is reset only between transfers (Contract):  *)
(* the cursors count the stored bytes, a reader gets the stream in order,  *)
(* the two transfers share no cell, and the buffer implements the byte     *)
(* queue.  One inductive invariant carries all of it: Inv adds to the type *)
(* what each cell between the cursors, and each cell a transfer has        *)
(* already copied, holds.                                                  *)
(*                                                                         *)
(* Then the two tasks around it.  The stop sequence of clientTask resets   *)
(* the buffer under a read.  From that reset to the next the buffer is     *)
(* only well formed (Broken); as long as a stream is received it has the   *)
(* whole invariant, which is why the second reset has to wait for the      *)
(* read.                                                                   *)
(***************************************************************************)
EXTENDS Playback, TLAPS


(* How the cursors and the flag relate to the bytes stored. *)
Count ==
  /\ taken <= sent
  /\ bempty <=> sent = taken
  /\ bempty => wptr = rptr
  /\ wptr > rptr => sent - taken = wptr - rptr
  /\ wptr < rptr => sent - taken = N - rptr + wptr
  /\ wptr = rptr /\ ~bempty => sent - taken = N

(* The stored bytes are the next bytes of the stream. *)
Stored == \A i \in 0..(sent - taken - 1) : buffer[Advance(rptr, i)] = taken + i

(* What the writer has copied so far stands behind the stored bytes. *)
Writing ==
  wlen > 0 => /\ wpos = wptr
              /\ wlen <= N - (sent - taken)
              /\ \A i \in 0..(wdone - 1) : buffer[Advance(wptr, i)] = sent + i

(* What the reader has copied so far is the front of the stored bytes. *)
Reading ==
  rlen > 0 => /\ rpos = rptr
              /\ rlen <= sent - taken

Inv == TypeOK /\ Count /\ Stored /\ Writing /\ Reading /\ ReadsTheStream

Contract == DrainedReset = TRUE
------------------------------------------------------------------------------
(* The split transfer addresses the cells that follow position, wrapping   *)
(* once.                                                                   *)
LEMMA AddressIsAdvance ==
  ASSUME NEW position \in 0..(N - 1), NEW size \in 0..N, NEW i \in 0..(size - 1)
  PROVE  /\ Address(position, size, i) = Advance(position, i)
         /\ Address(position, size, i) \in 0..(N - 1)
  BY ConstantsAssumption DEF Address, Advance, Smaller

(* In a consistent state the free room is what the bytes stored leave. *)
LEMMA FreeIsRoom ==
  ASSUME TypeOK, Count
  PROVE  /\ getBufferFree = N - (sent - taken)
         /\ getBufferFilled = sent - taken
         /\ sent - taken \in 0..N
<1>. USE ConstantsAssumption
<1>1. sent - taken \in 0..N
  BY DEF TypeOK, Count
<1>2. getBufferFree = N - (sent - taken)
  <2>1. CASE wptr > rptr
    BY <2>1 DEF TypeOK, Count, getBufferFree
  <2>2. CASE wptr < rptr
    BY <2>2 DEF TypeOK, Count, getBufferFree
  <2>3. CASE wptr = rptr
    BY <2>3 DEF TypeOK, Count, getBufferFree
  <2>. QED
    BY <2>1, <2>2, <2>3 DEF TypeOK
<1>. QED
  BY <1>1, <1>2 DEF getBufferFilled, TypeOK

(* The initial state is consistent. *)
LEMMA InitInv == Init => Inv
  BY ConstantsAssumption
  DEF Init, Inv, TypeOK, Count, Stored, Writing, Reading, ReadsTheStream, NoByte, Advance

------------------------------------------------------------------------------
(* Every action of the writer keeps the invariant. *)
LEMMA bufferWriteInv ==
  ASSUME Inv, NEW size \in 1..MaxChunk, bufferWrite(size)
  PROVE  Inv'
<1>. USE ConstantsAssumption DEF Inv, bufferWrite, cursors, reader
<1>1. /\ getBufferFree = N - (sent - taken)
      /\ sent - taken \in 0..N
  BY FreeIsRoom
<1>2. wlen' \in 1..N /\ wlen' <= N - (sent - taken) /\ wdone' = 0 /\ wpos' = wptr
  BY <1>1 DEF Smaller, TypeOK
<1>3. TypeOK'
  BY <1>2 DEF TypeOK
<1>4. Count' /\ Stored' /\ Reading' /\ ReadsTheStream'
  BY DEF Count, Stored, Reading, ReadsTheStream, Advance
<1>5. Writing'
  BY <1>2, <1>3 DEF Writing, TypeOK
<1>. QED
  BY <1>3, <1>4, <1>5

LEMMA WriteByteInv ==
  ASSUME Inv, WriteByte
  PROVE  Inv'
<1>. USE ConstantsAssumption DEF Inv, WriteByte, cursors, reader
<1>1. /\ wlen > 0 /\ wdone \in 0..(wlen - 1) /\ wlen <= N - (sent - taken)
      /\ wpos = wptr /\ wptr \in 0..(N - 1) /\ rptr \in 0..(N - 1)
      /\ sent - taken \in 0..N
  BY FreeIsRoom DEF TypeOK, Writing
<1>2. /\ Address(wpos, wlen, wdone) = Advance(wptr, wdone)
      /\ Advance(wptr, wdone) \in 0..(N - 1)
  BY <1>1, AddressIsAdvance DEF TypeOK
<1>3. TypeOK'
  BY <1>1, <1>2 DEF TypeOK
<1>4. Count' /\ Reading' /\ ReadsTheStream'
  BY DEF Count, Reading, ReadsTheStream
<1>5. ASSUME NEW i \in 0..(sent - taken - 1)
      PROVE  Advance(wptr, wdone) # Advance(rptr, i)
  BY <1>1, <1>5 DEF Advance, Count, TypeOK
<1>6. Stored'
  <2>. SUFFICES ASSUME NEW i \in 0..(sent - taken - 1)
                PROVE  buffer'[Advance(rptr, i)] = taken + i
    BY DEF Stored
  <2>1. Advance(rptr, i) \in 0..(N - 1)
    BY <1>1 DEF Advance, TypeOK
  <2>2. buffer'[Advance(rptr, i)] = buffer[Advance(rptr, i)]
    BY <1>2, <1>5, <2>1 DEF TypeOK
  <2>. QED
    BY <2>2 DEF Stored
<1>7. ASSUME NEW i \in 0..(wdone - 1)
      PROVE  Advance(wptr, i) # Advance(wptr, wdone)
  BY <1>1, <1>7 DEF Advance, TypeOK
<1>8. Writing'
  <2>. SUFFICES ASSUME NEW i \in 0..wdone
                PROVE  buffer'[Advance(wptr, i)] = sent + i
    BY <1>1 DEF Writing, TypeOK
  <2>1. Advance(wptr, i) \in 0..(N - 1)
    BY <1>1 DEF Advance, TypeOK
  <2>2. CASE i = wdone
    BY <1>2, <2>2 DEF TypeOK
  <2>3. CASE i # wdone
    BY <1>1, <1>2, <1>7, <2>1, <2>3 DEF Writing, TypeOK
  <2>. QED
    BY <2>2, <2>3
<1>. QED
  BY <1>3, <1>4, <1>6, <1>8

LEMMA PublishWriteInv ==
  ASSUME Inv, PublishWrite
  PROVE  Inv'
<1>. USE ConstantsAssumption DEF Inv
<1>1. /\ wlen \in 1..N /\ wlen <= N - (sent - taken)
      /\ wptr \in 0..(N - 1) /\ rptr \in 0..(N - 1)
      /\ sent - taken \in 0..N
      /\ wdone = wlen
  BY FreeIsRoom DEF TypeOK, Writing, PublishWrite
<1>2. /\ wptr' = Advance(wptr, wlen) /\ wptr' \in 0..(N - 1)
      /\ bempty' = FALSE
      /\ sent' = sent + wlen
      /\ wlen' = 0 /\ wdone' = 0
  BY <1>1 DEF PublishWrite, Writing, Advance
<1>3. /\ rptr' = rptr /\ buffer' = buffer /\ wpos' = wpos /\ taken' = taken
      /\ rpos' = rpos /\ rlen' = rlen /\ rdata' = rdata /\ out' = out
  BY DEF PublishWrite, reader
<1>4. TypeOK'
  <2>1. wptr' \in Nat /\ wptr' < N /\ sent' \in Nat
    BY <1>1, <1>2 DEF TypeOK
  <2>2. bempty' \in BOOLEAN
    BY <1>2
  <2>3. wlen' \in 0..N /\ wdone' \in 0..wlen'
    BY <1>2
  <2>. QED
    BY <2>1, <2>2, <2>3, <1>3 DEF TypeOK
<1>5. Count'
  BY <1>1, <1>2, <1>3 DEF Count, TypeOK, Advance
<1>6. Reading' /\ ReadsTheStream' /\ Writing'
  BY <1>1, <1>2, <1>3 DEF Reading, ReadsTheStream, Writing, TypeOK
<1>7. Stored'
  <2>1. SUFFICES ASSUME NEW i \in 0..((sent + wlen) - taken - 1)
                 PROVE  buffer[Advance(rptr, i)] = taken + i
    BY <1>2, <1>3 DEF Stored
  <2>2. CASE i < sent - taken
    BY <2>2 DEF Stored, TypeOK
  <2>3. CASE i >= sent - taken
    <3>. DEFINE j == i - (sent - taken)
    <3>1. j \in 0..(wdone - 1)
      BY <1>1, <2>3 DEF TypeOK
    <3>2. Advance(wptr, j) = Advance(rptr, i)
      <4>1. i \in (sent - taken)..(N - 1)
        BY <1>1, <2>3 DEF TypeOK
      <4>2. CASE wptr > rptr
        BY <1>1, <4>1, <4>2 DEF Advance, Count, TypeOK
      <4>3. CASE wptr < rptr
        BY <1>1, <4>1, <4>3 DEF Advance, Count, TypeOK
      <4>4. CASE wptr = rptr
        BY <1>1, <4>1, <4>4 DEF Advance, Count, TypeOK
      <4>. QED
        BY <1>1, <4>2, <4>3, <4>4
    <3>3. buffer[Advance(wptr, j)] = sent + j
      BY <1>1, <3>1 DEF Writing
    <3>. QED
      BY <3>2, <3>3 DEF TypeOK
  <2>. QED
    BY <2>2, <2>3 DEF TypeOK
<1>. QED
  BY <1>4, <1>5, <1>6, <1>7

(* With its contract kept, a reset keeps the invariant. *)
LEMMA bufferResetInv ==
  ASSUME Contract, Inv, bufferReset
  PROVE  Inv'
  BY ConstantsAssumption
  DEF Contract, Inv, bufferReset, writer, reader, TypeOK, Count, Stored, Writing, Reading,
      ReadsTheStream, Advance
------------------------------------------------------------------------------
(* Every action of the reader keeps the invariant. *)
LEMMA bufferReadInv ==
  ASSUME Inv, NEW size \in 1..MaxChunk, bufferRead(size)
  PROVE  Inv'
<1>. USE ConstantsAssumption DEF Inv, bufferRead, cursors, writer
<1>1. /\ getBufferFilled = sent - taken
      /\ sent - taken \in 0..N
  BY FreeIsRoom
<1>2. rlen' \in 1..N /\ rlen' <= sent - taken /\ rdata' = <<>> /\ rpos' = rptr
  BY <1>1 DEF Smaller, TypeOK
<1>3. TypeOK'
  BY <1>2 DEF TypeOK
<1>4. Count' /\ Stored' /\ Writing' /\ Reading' /\ ReadsTheStream'
  BY <1>2 DEF Count, Stored, Writing, Reading, ReadsTheStream, Advance
<1>. QED
  BY <1>3, <1>4

LEMMA ReadByteInv ==
  ASSUME Inv, ReadByte
  PROVE  Inv'
<1>. USE ConstantsAssumption DEF Inv, ReadByte, cursors, writer
<1>. DEFINE k == Len(rdata)
<1>1. /\ k \in 0..(rlen - 1) /\ rlen <= sent - taken
      /\ rpos = rptr /\ rptr \in 0..(N - 1)
      /\ rlen \in 0..N
  BY DEF TypeOK, Reading
<1>2. /\ Address(rpos, rlen, k) = Advance(rptr, k)
      /\ Advance(rptr, k) \in 0..(N - 1)
  BY <1>1, AddressIsAdvance
<1>3. buffer[Address(rpos, rlen, k)] = taken + k
  BY <1>1, <1>2 DEF Stored, TypeOK
<1>4. rdata' = Append(rdata, taken + k)
  BY <1>3
<1>5. TypeOK'
  BY <1>1, <1>4 DEF TypeOK
<1>6. Count' /\ Stored' /\ Writing' /\ Reading'
  BY DEF Count, Stored, Writing, Reading, Advance
<1>7. ReadsTheStream'
  BY <1>4 DEF ReadsTheStream, TypeOK
<1>. QED
  BY <1>5, <1>6, <1>7

LEMMA PublishReadInv ==
  ASSUME Inv, PublishRead
  PROVE  Inv'
<1>. USE ConstantsAssumption DEF Inv
<1>1. /\ rlen \in 1..N /\ rlen <= sent - taken
      /\ rptr \in 0..(N - 1) /\ wptr \in 0..(N - 1)
      /\ sent - taken \in 0..N
  BY FreeIsRoom DEF TypeOK, Reading, PublishRead
<1>2. /\ rptr' = Advance(rptr, rlen) /\ rptr' \in 0..(N - 1)
      /\ taken' = taken + rlen
      /\ rlen' = 0 /\ rdata' = <<>> /\ out' = rdata
  BY <1>1 DEF PublishRead, Reading, Advance
<1>3. /\ wptr' = wptr /\ buffer' = buffer /\ rpos' = rpos /\ sent' = sent
      /\ wpos' = wpos /\ wlen' = wlen /\ wdone' = wdone
  BY DEF PublishRead, writer
<1>4. bempty' \in BOOLEAN /\ (bempty' <=> rptr' = wptr)
  BY DEF PublishRead
<1>5. TypeOK'
  BY <1>1, <1>2, <1>3, <1>4 DEF TypeOK
<1>6. (rptr' = wptr) <=> (rlen = sent - taken)
  BY <1>1, <1>2 DEF Count, TypeOK, Advance
<1>7. Count'
  BY <1>1, <1>2, <1>3, <1>4, <1>6 DEF Count, TypeOK, Advance
<1>8. Reading' /\ ReadsTheStream' /\ Writing'
  BY <1>1, <1>2, <1>3 DEF Reading, ReadsTheStream, Writing, TypeOK
<1>9. Stored'
  <2>1. SUFFICES ASSUME NEW i \in 0..(sent - (taken + rlen) - 1)
                 PROVE  buffer[Advance(Advance(rptr, rlen), i)] = taken + rlen + i
    BY <1>2, <1>3 DEF Stored
  <2>2. Advance(Advance(rptr, rlen), i) = Advance(rptr, rlen + i)
    BY <1>1 DEF Advance, TypeOK
  <2>3. rlen + i \in 0..(sent - taken - 1)
    BY <1>1 DEF TypeOK
  <2>4. buffer[Advance(rptr, rlen + i)] = taken + (rlen + i)
    BY <2>3 DEF Stored
  <2>. QED
    BY <1>1, <2>2, <2>4 DEF TypeOK
<1>. QED
  BY <1>5, <1>7, <1>8, <1>9
------------------------------------------------------------------------------
(* The invariant is inductive as long as bufferReset's contract is kept. *)
LEMMA StepInv ==
  ASSUME Contract, Inv, [Next]_vars
  PROVE  Inv'
<1>1. CASE Produce
  BY <1>1, bufferWriteInv, WriteByteInv, PublishWriteInv, bufferResetInv DEF Produce
<1>2. CASE Consume
  BY <1>2, bufferReadInv, ReadByteInv, PublishReadInv DEF Consume
<1>3. CASE UNCHANGED vars
  BY <1>3 DEF vars, cursors, writer, reader, Inv, TypeOK, Count, Stored, Writing, Reading,
              ReadsTheStream, Advance
<1>. QED
  BY <1>1, <1>2, <1>3 DEF Next

(* The invariant holds in every behaviour of the buffer. *)
THEOREM Invariance ==
  ASSUME Contract
  PROVE  Spec => []Inv
<1>1. Init => Inv
  BY InitInv
<1>2. Inv /\ [Next]_vars => Inv'
  BY StepInv
<1>. QED
  BY <1>1, <1>2, PTL DEF Spec

(* Types hold, for every size of the buffer, the failed allocation         *)
(* (N = 0) included.                                                       *)
THEOREM TypeCorrect ==
  ASSUME Contract
  PROVE  Spec => []TypeOK
<1>1. Inv => TypeOK
  BY DEF Inv
<1>. QED
  BY <1>1, Invariance, PTL

(* The cursors and the flag always count the bytes stored, full and empty  *)
(* told apart (getBufferFree, buffer.c:204-225).                           *)
THEOREM CountCorrect ==
  ASSUME Contract
  PROVE  Spec => []CursorsCount
<1>1. Inv => CursorsCount
  BY FreeIsRoom DEF Inv, CursorsCount, Count
<1>. QED
  BY <1>1, Invariance, PTL

(* A transfer reads the bytes of the stream in order, none twice, none     *)
(* missing, whatever the writer does meanwhile (bufferRead,                *)
(* buffer.c:274-307).                                                      *)
THEOREM ReadsCorrect ==
  ASSUME Contract
  PROVE  Spec => []ReadsTheStream
<1>1. Inv => ReadsTheStream
  BY DEF Inv
<1>. QED
  BY <1>1, Invariance, PTL

(* The two unlocked copies never touch the same cell of the memory         *)
(* (bufferWrite and bufferRead, buffer.c:249-262 and 286-297).             *)
THEOREM CellsDisjoint ==
  ASSUME Contract
  PROVE  Spec => []NoSharedCell
<1>1. Inv => NoSharedCell
  <2>. SUFFICES ASSUME Inv, NEW i \in 0..(wlen - 1), NEW j \in 0..(rlen - 1)
                PROVE  Address(wpos, wlen, i) # Address(rpos, rlen, j)
    BY DEF NoSharedCell
  <2>1. /\ wlen \in 1..N /\ wlen <= N - (sent - taken) /\ wpos = wptr
        /\ rlen \in 1..N /\ rlen <= sent - taken /\ rpos = rptr
        /\ wptr \in 0..(N - 1) /\ rptr \in 0..(N - 1)
    BY ConstantsAssumption DEF Inv, TypeOK, Writing, Reading
  <2>2. /\ Address(wpos, wlen, i) = Advance(wptr, i)
        /\ Address(rpos, rlen, j) = Advance(rptr, j)
    BY <2>1, AddressIsAdvance
  <2>3. Advance(wptr, i) # Advance(rptr, j)
    BY <2>1, ConstantsAssumption DEF Inv, TypeOK, Count, Advance
  <2>. QED
    BY <2>2, <2>3
<1>. QED
  BY <1>1, Invariance, PTL
------------------------------------------------------------------------------
(* Runs of the stream concatenate, and cut, as intervals do. *)
LEMMA RunConcat ==
  ASSUME NEW a \in Nat, NEW b \in Nat, a <= b, NEW k \in Nat
  PROVE  Queue!Run(a, b - a) \o Queue!Run(b, k) = Queue!Run(a, (b + k) - a)
  BY DEF Queue!Run

LEMMA RunCut ==
  ASSUME NEW a \in Nat, NEW b \in Nat, a <= b, NEW k \in 0..(b - a)
  PROVE  /\ SubSeq(Queue!Run(a, b - a), 1, k) = Queue!Run(a, k)
         /\ SubSeq(Queue!Run(a, b - a), k + 1, b - a) = Queue!Run(a + k, b - (a + k))
         /\ Len(Queue!Run(a, b - a)) = b - a
  BY DEF Queue!Run

(* The queue the buffer stands for is the run of the stream between what   *)
(* the reader released and what the writer published.                      *)
LEMMA ContentsRun ==
  Inv => /\ contents = Queue!Run(taken, sent - taken)
         /\ sent - taken \in 0..N
<1>. SUFFICES ASSUME Inv
              PROVE  /\ contents = Queue!Run(taken, sent - taken)
                     /\ sent - taken \in 0..N
  OBVIOUS
<1>1. getBufferFilled = sent - taken /\ sent - taken \in 0..N
  BY FreeIsRoom DEF Inv
<1>2. ASSUME NEW i \in 1..(sent - taken)
      PROVE  buffer[Advance(rptr, i - 1)] = taken + i - 1
  BY <1>1 DEF Inv, Stored, TypeOK
<1>. QED
  BY <1>1, <1>2 DEF contents, Queue!Run

(* Each step of the buffer is a step of the queue or leaves it as it is.   *)
LEMMA StepRefines ==
  ASSUME Contract, Inv, [Next]_vars
  PROVE  [Queue!Next]_<<contents, out, sent>>
<1>. DEFINE Same == UNCHANGED <<contents, out, sent>>
<1>1. /\ contents = Queue!Run(taken, sent - taken)
      /\ sent - taken \in 0..N
      /\ taken <= sent /\ sent \in Nat /\ taken \in Nat
  BY ContentsRun DEF Inv, TypeOK, Count
<1>2. /\ contents' = Queue!Run(taken', sent' - taken')
      /\ sent' - taken' \in 0..N
  <2>1. Inv'
    BY StepInv
  <2>2. (Inv => /\ contents = Queue!Run(taken, sent - taken)
                /\ sent - taken \in 0..N)'
    BY ContentsRun, PTL
  <2>. QED
    BY <2>1, <2>2
<1>3. ASSUME UNCHANGED <<sent, taken, out>>
      PROVE  Same
  BY <1>1, <1>2, <1>3
<1>4. CASE PublishWrite
  <2>1. /\ wlen \in Nat \ {0} /\ wlen <= N - (sent - taken)
        /\ sent' = sent + wlen /\ taken' = taken /\ out' = out
    BY <1>4, ConstantsAssumption DEF PublishWrite, reader, Inv, TypeOK, Writing
  <2>2. Len(contents) = sent - taken
    BY <1>1, RunCut, 0 \in 0..(sent - taken)
  <2>3. contents \o Queue!Run(sent, wlen) = Queue!Run(taken, (sent + wlen) - taken)
    BY <1>1, <2>1, RunConcat
  <2>4. contents' = contents \o Queue!Run(sent, wlen)
    BY <1>2, <2>1, <2>3
  <2>5. Queue!Put(wlen)
    BY <1>1, <2>1, <2>2, <2>4, ConstantsAssumption DEF Queue!Put
  <2>6. wlen \in 1..N
    BY <1>1, <2>1, ConstantsAssumption
  <2>. QED
    BY <2>5, <2>6 DEF Queue!Next
<1>5. CASE PublishRead
  <2>1. /\ rlen \in 1..N /\ rlen \in 0..(sent - taken)
        /\ taken' = taken + rlen /\ sent' = sent
    BY <1>1, <1>5, ConstantsAssumption DEF PublishRead, writer, Inv, TypeOK, Reading
  <2>2. out' = Queue!Run(taken, rlen)
    <3>1. out' = rdata /\ Len(rdata) = rlen /\ rdata \in Seq(Int)
      BY <1>5 DEF PublishRead, Inv, TypeOK
    <3>2. \A i \in 1..rlen : rdata[i] = taken + i - 1
      BY <3>1 DEF Inv, ReadsTheStream
    <3>3. rdata = [i \in 1..rlen |-> taken + i - 1]
      BY <3>1, <3>2
    <3>. QED
      BY <3>1, <3>3 DEF Queue!Run
  <2>3. /\ SubSeq(contents, 1, rlen) = Queue!Run(taken, rlen)
        /\ SubSeq(contents, rlen + 1, sent - taken) = Queue!Run(taken + rlen, sent - (taken + rlen))
        /\ Len(contents) = sent - taken
    BY <1>1, <2>1, RunCut
  <2>4. contents' = SubSeq(contents, rlen + 1, Len(contents))
    BY <1>2, <2>1, <2>3
  <2>5. rlen <= Len(contents)
    BY <1>1, <2>1, <2>3
  <2>6. Queue!Take(rlen)
    BY <2>1, <2>2, <2>3, <2>4, <2>5 DEF Queue!Take
  <2>. QED
    BY <2>1, <2>6 DEF Queue!Next
<1>6. CASE bufferReset
  <2>1. taken' = sent /\ sent' = sent /\ out' = out
    BY <1>6 DEF bufferReset, reader
  <2>2. sent' - taken' = 0
    BY <1>1, <2>1
  <2>3. contents' = <<>>
    BY <1>2, <2>2 DEF Queue!Run
  <2>. QED
    BY <2>1, <2>3 DEF Queue!Next, Queue!Clear
<1>7. CASE WriteByte \/ \E size \in 1..MaxChunk : bufferWrite(size)
  BY <1>3, <1>7 DEF WriteByte, bufferWrite, reader
<1>8. CASE ReadByte \/ \E size \in 1..MaxChunk : bufferRead(size)
  BY <1>3, <1>8 DEF ReadByte, bufferRead
<1>9. CASE UNCHANGED vars
  BY <1>3, <1>9 DEF vars, reader
<1>. QED
  BY <1>4, <1>5, <1>6, <1>7, <1>8, <1>9 DEF Next, Produce, Consume

(* user/buffer.c implements the byte queue: no byte of the stream is lost, *)
(* repeated or handed over out of order, and a reset empties the queue,    *)
(* for every buffer size and every interleaving of the two tasks.          *)
THEOREM Refinement ==
  ASSUME Contract
  PROVE  Spec => QueueSpec
<1>1. Init => Queue!Init
  <2>. SUFFICES ASSUME Init PROVE Queue!Init
    OBVIOUS
  <2>1. getBufferFilled = 0
    BY ConstantsAssumption DEF Init, getBufferFilled, getBufferFree
  <2>2. contents = <<>>
    BY <2>1 DEF contents
  <2>. QED
    BY <2>2 DEF Init, Queue!Init
<1>2. Inv /\ [Next]_vars => [Queue!Next]_<<contents, out, sent>>
  BY StepRefines
<1>. QED
  BY <1>1, <1>2, Invariance, PTL DEF Spec, QueueSpec, Queue!Spec

------------------------------------------------------------------------------

(* Where the buffer is sound: all but from the first reset to the second.  *)
Receiving == {"connect", "receive", "room", "write", "start", "drain", "late", "stop"}

(* A read goes on wherever it was. *)
Broken == TypeOK /\ (rlen > 0 => rpos < N)

Sound == Broken /\ (cpc \in Receiving => Inv)

(* While nothing plays the decoder task is not in a read: it was in none   *)
(* when playing was cleared, or the second reset has waited for it.        *)
Silent ==
  /\ dpc # "read" => rlen = 0
  /\ ~playing /\ cpc # "settle" => dpc # "read"
  /\ cpc = "close" => ~playing

(* While nothing plays the buffer is not filled beyond where it starts.    *)
Roomy ==
  ~playing /\ cpc \in {"connect", "receive", "room"} => getBufferFree >= StartBelow

PlaybackInv == PlaybackTypeOK /\ Sound /\ Silent /\ Roomy

LEMMA Sizes ==
  ASSUME PlaybackAssumption
  PROVE  N \in Nat \ {0} /\ MaxChunk \in 0..N /\ StartBelow \in 1..N /\ MaxBytes \in Nat
BY ConstantsAssumption DEF PlaybackAssumption
------------------------------------------------------------------------------
(* Of a well-formed buffer, sound or not, the room is within its size.     *)
LEMMA FreeInRange ==
  ASSUME PlaybackAssumption
  PROVE  TypeOK => getBufferFree \in 0..N /\ getBufferFilled \in 0..N
<1>1. N \in Nat \ {0} BY Sizes
<1> QED BY <1>1 DEF TypeOK, getBufferFree, getBufferFilled

LEMMA InvIsBroken ==
  ASSUME PlaybackAssumption
  PROVE  Inv => Broken
BY Sizes DEF Inv, Broken, TypeOK, Reading

(* The three steps of a read, and a step of a transfer on a buffer that    *)
(* need not be sound.                                                      *)
LEMMA ReadKeepsBroken ==
  ASSUME PlaybackAssumption, Broken, bufferRead(MaxChunk) \/ ReadByte \/ PublishRead
  PROVE  Broken'
<1> USE Sizes DEF Broken
<1>1. CASE bufferRead(MaxChunk)
  <2>1. rlen' \in 0..N /\ rdata' = <<>> /\ rpos' = rptr
    BY <1>1, FreeInRange DEF bufferRead, Smaller
  <2> QED BY <1>1, <2>1 DEF bufferRead, cursors, writer, TypeOK
<1>2. CASE ReadByte
  <2>1. Len(rdata) \in 0..rlen - 1 /\ rlen \in 1..N /\ rpos \in 0..N - 1
    BY <1>2 DEF ReadByte, TypeOK
  <2>2. Address(rpos, rlen, Len(rdata)) \in 0..N - 1
    BY <2>1, AddressIsAdvance
  <2>3. buffer[Address(rpos, rlen, Len(rdata))] \in Int
    BY <2>2 DEF TypeOK
  <2>4. rdata' \in Seq(Int) /\ Len(rdata') <= rlen
    BY <1>2, <2>1, <2>3 DEF ReadByte, TypeOK
  <2> QED BY <1>2, <2>4 DEF ReadByte, cursors, writer, TypeOK
<1>3. CASE PublishRead
  <2>1. rptr' \in 0..N - 1
    BY <1>3 DEF PublishRead, Advance, TypeOK
  <2>2. bempty' \in BOOLEAN /\ taken' \in Nat /\ rlen' = 0 /\ rdata' = <<>> /\ out' \in Seq(Int)
    BY <1>3 DEF PublishRead, TypeOK
  <2> QED BY <1>3, <2>1, <2>2 DEF PublishRead, writer, TypeOK
<1> QED BY <1>1, <1>2, <1>3

(* A reset between two reads makes a well-formed buffer sound; one under a *)
(* read leaves it well formed.                                             *)
LEMMA ResetMakesSound ==
  ASSUME PlaybackAssumption, Broken, bufferReset, rlen = 0
  PROVE  Inv' /\ getBufferFree' = N
<1> USE Sizes DEF Broken, bufferReset, writer, reader
<1>1. TypeOK' BY DEF TypeOK
<1>2. Count' /\ Stored' BY DEF Count, Stored, TypeOK
<1>3. Writing' /\ Reading' /\ ReadsTheStream'
  BY DEF Writing, Reading, ReadsTheStream, TypeOK
<1>4. getBufferFree' = N BY DEF getBufferFree
<1> QED BY <1>1, <1>2, <1>3, <1>4 DEF Inv

LEMMA ResetKeepsBroken ==
  ASSUME PlaybackAssumption, Broken, bufferReset
  PROVE  Broken'
BY Sizes DEF Broken, bufferReset, writer, reader, TypeOK
------------------------------------------------------------------------------
LEMMA PlaybackInitInv ==
  ASSUME PlaybackAssumption
  PROVE  PlaybackInit => PlaybackInv
<1> SUFFICES ASSUME PlaybackInit PROVE PlaybackInv
  OBVIOUS
<1>1. Inv BY InitInv DEF PlaybackInit
<1>2. getBufferFree = N BY DEF PlaybackInit, Init, getBufferFree
<1>3. PlaybackTypeOK
  <2>1. 0 \in 0..MaxChunk /\ ~(cpc = "room") BY Sizes DEF PlaybackInit
  <2> QED BY <2>1, Zenon DEF PlaybackInit, Init, PlaybackTypeOK
<1>4. Silent BY DEF PlaybackInit, Init, Silent
<1> QED BY <1>1, <1>2, <1>3, <1>4, InvIsBroken, Sizes DEF PlaybackInv, Sound, Roomy

(* What leaves the buffer alone, but for clientTask's own place.           *)
LEMMA BufferAlone ==
  ASSUME PlaybackAssumption, UNCHANGED vars
  PROVE  /\ Broken => Broken'
         /\ Inv => Inv'
         /\ getBufferFree' = getBufferFree
<1> USE DEF vars, cursors, writer, reader
<1>1. getBufferFree' = getBufferFree BY DEF getBufferFree
<1>2. TypeOK => TypeOK' BY DEF TypeOK
<1>3. Count => Count' BY DEF Count
<1>4. Stored => Stored' BY DEF Stored
<1>5. Writing => Writing' BY DEF Writing
<1>6. Reading => Reading' BY DEF Reading
<1>7. ReadsTheStream => ReadsTheStream' BY DEF ReadsTheStream
<1> QED BY <1>1, <1>2, <1>3, <1>4, <1>5, <1>6, <1>7 DEF Inv, Broken

(* The steps of clientTask, and of users, that touch the buffer not at all. *)
LEMMA ClientAlone ==
  ASSUME PlaybackAssumption, PlaybackInv,
         \/ Connect \/ StartCheck \/ Leave \/ LeaveUnplayed \/ SoftReconnect \/ Drained
         \/ StopPlaying \/ Ask
         \/ \E size \in 1..MaxChunk : Receive(size)
  PROVE  PlaybackInv'
<1> USE DEF PlaybackInv
<1>1. UNCHANGED vars
  BY DEF Connect, StartCheck, Leave, LeaveUnplayed, SoftReconnect, Drained, StopPlaying, Ask,
         Receive, buf
<1>2. /\ UNCHANGED <<wlen, rlen>>
      /\ (Broken => Broken') /\ (Inv => Inv') /\ getBufferFree' = getBufferFree
  BY <1>1, BufferAlone DEF vars, writer, reader
<1>3. CASE Connect
  BY <1>2, <1>3 DEF Connect, PlaybackTypeOK, Sound, Silent, Roomy, Receiving
<1>4. CASE StartCheck
  <2>1. getBufferFree \in 0..N BY FreeInRange DEF Sound, Broken
  <2>2. Roomy'
    <3> SUFFICES ASSUME ~playing' PROVE getBufferFree' >= StartBelow
      BY DEF Roomy
    <3>1. ~(getBufferFree < StartBelow) BY <1>4, Zenon DEF StartCheck
    <3> QED BY <1>2, <2>1, <3>1, Sizes
  <2>3. Silent' BY <1>2, <1>4 DEF StartCheck, Silent, PlaybackTypeOK
  <2> QED BY <1>2, <1>4, <2>2, <2>3 DEF StartCheck, PlaybackTypeOK, Sound, Receiving
<1>5. CASE Leave
  <2>1. cpc' \in {"stop", "drain", "close"} /\ (cpc' = "close" => ~playing)
    BY <1>5 DEF Leave
  <2> QED BY <1>2, <1>5, <2>1 DEF Leave, PlaybackTypeOK, Sound, Silent, Roomy, Receiving
<1>6. CASE SoftReconnect
  BY <1>2, <1>6 DEF SoftReconnect, PlaybackTypeOK, Sound, Silent, Roomy, Receiving
<1>7. CASE Drained
  BY <1>2, <1>7 DEF Drained, PlaybackTypeOK, Sound, Silent, Roomy, Receiving
<1>8. CASE StopPlaying
  BY <1>2, <1>8 DEF StopPlaying, PlaybackTypeOK, Sound, Silent, Roomy, Receiving
<1>9. CASE \E size \in 1..MaxChunk : Receive(size)
  BY <1>2, <1>9, Sizes DEF Receive, PlaybackTypeOK, Sound, Silent, Roomy, Receiving
<1>10. CASE LeaveUnplayed
  <2>1. playing' = TRUE /\ cpc = "receive" /\ cpc' = "late" /\ UNCHANGED <<once, need, dpc>>
    BY <1>10 DEF LeaveUnplayed
  <2>2. playing' \in BOOLEAN /\ playing' BY <2>1, Zenon
  <2> QED BY <1>2, <2>1, <2>2 DEF PlaybackTypeOK, Sound, Silent, Roomy, Receiving
<1>11. CASE Ask
  BY <1>2, <1>11 DEF Ask, PlaybackTypeOK, Sound, Silent, Roomy, Receiving
<1> QED BY <1>3, <1>4, <1>5, <1>6, <1>7, <1>8, <1>9, <1>10, <1>11

(* The write of a block.                                                   *)
LEMMA ClientWrites ==
  ASSUME PlaybackAssumption, PlaybackInv, RoomFound \/ Writes
  PROVE  PlaybackInv'
<1> USE DEF PlaybackInv
<1>1. Inv BY DEF Sound, Receiving, RoomFound, Writes
<1>2. UNCHANGED <<playing, once, dpc, rlen>> /\ need' \in 0..MaxChunk
  BY Sizes DEF RoomFound, Writes, bufferWrite, WriteByte, PublishWrite, reader, PlaybackTypeOK
<1>3. CASE RoomFound
  <2>1. need \in 1..MaxChunk /\ bufferWrite(need) /\ need' = 0 /\ cpc' = "write"
    BY <1>3, Sizes DEF RoomFound, PlaybackTypeOK
  <2>2. Inv' BY <1>1, <2>1, bufferWriteInv
  <2>3. wlen' \in 0..MaxChunk
    BY <1>1, <2>1, FreeInRange, Sizes DEF bufferWrite, Smaller, Inv, TypeOK
  <2>4. Broken'
    <3>1. (Inv => Broken)' BY InvIsBroken, PTL
    <3> QED BY <2>2, <3>1
  <2> QED BY <1>2, <1>3, <2>1, <2>2, <2>3, <2>4, Sizes
          DEF PlaybackTypeOK, Sound, Silent, Roomy, Receiving, RoomFound
<1>4. CASE Writes
  <2>1. Inv' BY <1>1, <1>4, WriteByteInv, PublishWriteInv DEF Writes
  <2>2. wlen' \in 0..MaxChunk /\ cpc' \in {"write", "start"}
    BY <1>4, Sizes DEF Writes, WriteByte, PublishWrite, PlaybackTypeOK
  <2>3. Broken'
    <3>1. (Inv => Broken)' BY InvIsBroken, PTL
    <3> QED BY <2>1, <3>1
  <2> QED BY <1>2, <1>4, <2>1, <2>2, <2>3, Sizes
          DEF PlaybackTypeOK, Sound, Silent, Roomy, Receiving, Writes
<1> QED BY <1>3, <1>4

(* The two resets: the first under a read, the second between two.         *)
LEMMA ClientResets ==
  ASSUME PlaybackAssumption, PlaybackInv, StopReset \/ Close
  PROVE  PlaybackInv'
<1> USE DEF PlaybackInv
<1>1. bufferReset /\ UNCHANGED <<playing, once, need, dpc, wlen, rlen>>
  BY DEF StopReset, Close, bufferReset, writer, reader
<1>2. Broken' BY <1>1, ResetKeepsBroken DEF Sound
<1>3. CASE StopReset
  BY <1>1, <1>2, <1>3 DEF StopReset, PlaybackTypeOK, Sound, Silent, Roomy, Receiving
<1>4. CASE Close
  <2>1. dpc # "read" BY <1>4 DEF Close, Silent
  <2>2. rlen = 0 BY <2>1 DEF Silent
  <2>3. Inv' /\ getBufferFree' = N BY <1>1, <2>2, ResetMakesSound DEF Sound
  <2> QED BY <1>1, <1>2, <1>4, <2>1, <2>3, Sizes
          DEF Close, PlaybackTypeOK, Sound, Silent, Roomy, Receiving
<1> QED BY <1>3, <1>4

(* The decoder task reads, from a sound buffer or from one that is not.    *)
LEMMA DecoderReads ==
  ASSUME PlaybackAssumption, PlaybackInv, Reads
  PROVE  PlaybackInv'
<1> USE DEF PlaybackInv
<1>1. UNCHANGED <<playing, once, cpc, need>> /\ dpc = "read"
  BY DEF Reads
<1>2. dpc' \in {"check", "read", "send"} BY <1>1 DEF Reads
<1>3. playing \/ cpc = "settle" BY <1>1 DEF Silent, PlaybackTypeOK
<1>4. Roomy' BY <1>1, <1>3 DEF Roomy
<1>5. CASE rlen = 0 /\ dpc' = "check" /\ UNCHANGED buf
  <2>1. UNCHANGED <<wlen, rlen>> BY <1>5 DEF buf, vars, writer, reader
  <2> QED BY <1>1, <1>3, <1>4, <1>5, <2>1, BufferAlone
          DEF buf, PlaybackTypeOK, Sound, Silent
<1>6. CASE \/ (bufferRead(MaxChunk) \/ ReadByte) /\ dpc' = dpc
           \/ PublishRead /\ dpc' = "send"
  <2>1. Broken' BY <1>6, ReadKeepsBroken DEF Sound
  <2>2. Inv => Inv'
    <3>1. CASE bufferRead(MaxChunk)
      <4>1. MaxChunk \in 1..MaxChunk
        BY <3>1, FreeInRange, Sizes DEF bufferRead, Smaller, Sound, Broken
      <4> QED BY <3>1, <4>1, bufferReadInv
    <3> QED BY <1>6, <3>1, ReadByteInv, PublishReadInv
  <2>3. wlen' = wlen /\ rlen' \in 0..MaxChunk
    <3>1. CASE bufferRead(MaxChunk)
      BY <3>1, FreeInRange, Sizes DEF bufferRead, Smaller, Sound, Broken, writer
    <3>2. CASE ReadByte \/ PublishRead
      BY <3>2, Sizes DEF ReadByte, PublishRead, writer, PlaybackTypeOK
    <3> QED BY <1>6, <3>1, <3>2
  <2>4. dpc' # "read" => rlen' = 0 BY <1>1, <1>6 DEF PublishRead
  <2> QED BY <1>1, <1>2, <1>3, <1>4, <2>1, <2>2, <2>3, <2>4
          DEF PlaybackTypeOK, Sound, Silent
<1> QED BY <1>5, <1>6 DEF Reads

LEMMA DecoderElse ==
  ASSUME PlaybackAssumption, PlaybackInv, Poll \/ Send
  PROVE  PlaybackInv'
<1> USE DEF PlaybackInv
<1>1. UNCHANGED vars BY DEF Poll, Send, buf
<1>2. UNCHANGED <<wlen, rlen>> BY <1>1 DEF vars, writer, reader
<1> QED BY <1>1, <1>2, BufferAlone DEF Poll, Send, PlaybackTypeOK, Sound, Silent, Roomy

LEMMA PlaybackStep ==
  ASSUME PlaybackAssumption
  PROVE  PlaybackInv /\ [PlaybackNext]_pvars => PlaybackInv'
<1> SUFFICES ASSUME PlaybackInv, [PlaybackNext]_pvars PROVE PlaybackInv'
  OBVIOUS
<1>1. CASE Client
  BY <1>1, ClientAlone, ClientWrites, ClientResets DEF Client
<1>2. CASE Decoder
  BY <1>2, DecoderReads, DecoderElse DEF Decoder
<1>3. CASE UNCHANGED pvars
  <2>1. UNCHANGED <<vars, wlen, rlen, playing, once, cpc, need, dpc>>
    BY <1>3 DEF pvars, vars, writer, reader
  <2> QED BY <2>1, BufferAlone DEF PlaybackInv, PlaybackTypeOK, Sound, Silent, Roomy
<1>4. CASE Ask
  BY <1>4, ClientAlone
<1> QED BY <1>1, <1>2, <1>3, <1>4 DEF PlaybackNext

LEMMA PlaybackInvariance ==
  ASSUME PlaybackAssumption
  PROVE  PlaybackSpec => []PlaybackInv
<1>1. PlaybackSpec => PlaybackInit /\ [][PlaybackNext]_pvars
  BY PTL DEF PlaybackSpec
<1> QED BY <1>1, PlaybackInitInv, PlaybackStep, PTL
------------------------------------------------------------------------------
(* Every stream is received into a sound buffer and read in order, though  *)
(* the stop of the one before reset the buffer under a read (clientTask,   *)
(* webclient.c:1350-1370), whatever the sizes.                             *)
THEOREM StreamsSound ==
  ASSUME PlaybackAssumption
  PROVE  PlaybackSpec => []SoundWhileReceiving
<1>1. PlaybackInv => SoundWhileReceiving
  <2> SUFFICES ASSUME PlaybackInv, cpc \in {"connect", "receive", "room", "write", "start"}
               PROVE  CursorsCount /\ ReadsTheStream
    BY DEF SoundWhileReceiving
  <2>1. Inv BY DEF PlaybackInv, Sound, Receiving
  <2>2. CursorsCount BY <2>1, FreeIsRoom DEF Inv, Count, CursorsCount
  <2> QED BY <2>1, <2>2 DEF Inv
<1> QED BY <1>1, PlaybackInvariance, PTL

(* A block waits for room only while somebody makes some: before a stream  *)
(* plays, what is received always fits (webclient.c:1070).                 *)
THEOREM WaitsForPlayer ==
  ASSUME PlaybackAssumption
  PROVE  PlaybackSpec => []WaitsOnlyWhilePlaying
<1>1. PlaybackInv => WaitsOnlyWhilePlaying
  <2> SUFFICES ASSUME PlaybackInv, cpc = "room", ~playing
               PROVE  ~(getBufferFree < need)
    BY DEF WaitsOnlyWhilePlaying, PlaybackInv, PlaybackTypeOK
  <2>1. getBufferFree >= StartBelow BY DEF PlaybackInv, Roomy
  <2>2. getBufferFree \in 0..N BY FreeInRange DEF PlaybackInv, Sound, Broken
  <2>3. need \in 0..MaxChunk BY DEF PlaybackInv, PlaybackTypeOK
  <2>4. N \in Nat /\ MaxChunk \in 0..N BY Sizes
  <2>5. StartBelow \in 1..N /\ MaxChunk <= StartBelow BY DEF PlaybackAssumption
  <2> QED BY <2>1, <2>2, <2>3, <2>4, <2>5
<1> QED BY <1>1, PlaybackInvariance, PTL
==============================================================================
