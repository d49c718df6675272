----------------------------- MODULE RingBuffer ------------------------------
(***************************************************************************)
(* The stream buffer, user/buffer.c: one stream task (clientTask) writes,  *)
(* one decoder task (vsTask) reads.  A transfer takes its size from a      *)
(* snapshot of both cursors, copies its bytes outside any critical         *)
(* section, one byte a step here, and publishes its own cursor at the end, *)
(* so the two transfers interleave freely.  Bytes are named by their       *)
(* number in the stream; sent and taken are history variables that count   *)
(* the bytes published by either side and appear in no guard but the bound *)
(* MaxBytes.                                                               *)
(***************************************************************************)
EXTENDS Integers, Sequences

CONSTANTS
  N,             (* BUFFER_SIZE; 0 when the allocation in bufferInit failed   *)
  MaxChunk,      (* the largest size passed to bufferWrite and bufferRead     *)
  MaxBytes,      (* bound on the bytes the stream delivers                    *)
  DrainedReset   (* whether bufferReset's callers keep the contract stated in *)
                 (* it: no transfer of the decoder task is in progress        *)

ASSUME ConstantsAssumption ==
  /\ N \in Nat
  /\ MaxChunk \in Nat
  /\ MaxBytes \in Nat
  /\ DrainedReset \in BOOLEAN

VARIABLES
  wptr, rptr, bempty,  (* the published cursors and the empty flag               *)
  buffer,              (* the memory: a byte per cell, NoByte where never written *)
  wpos, wlen, wdone,   (* bufferWrite: position, size, bytes copied; wlen = 0 idle *)
  rpos, rlen, rdata,   (* bufferRead: position, size, bytes copied; rlen = 0 idle  *)
  out,                 (* the data the last bufferRead returned                    *)
  sent, taken          (* bytes published by the writer, released by the reader    *)

cursors == <<wptr, rptr, bempty>>
writer  == <<wpos, wlen, wdone>>
reader  == <<rpos, rlen, rdata, out>>
vars    == <<cursors, buffer, writer, reader, sent, taken>>

NoByte == -1
Smaller(a, b) == IF a < b THEN a ELSE b
------------------------------------------------------------------------------
(* Plausible bugs, each put in the place of the definition it names. *)
getBufferFreeIgnoringEmpty ==
  IF wptr > rptr THEN N - wptr + rptr
  ELSE IF wptr < rptr THEN rptr - wptr ELSE N

AddressWithoutSplit(position, size, i) == IF position + i < N THEN position + i ELSE N - 1

bufferWriteUnclamped(size) ==
  /\ wlen = 0
  /\ sent + size <= MaxBytes
  /\ Smaller(size, N) > 0
  /\ wpos' = wptr /\ wlen' = Smaller(size, N) /\ wdone' = 0
  /\ UNCHANGED <<cursors, buffer, reader, sent, taken>>
------------------------------------------------------------------------------
(* The room left, from one consistent snapshot of the cursors and the flag. *)
getBufferFree ==
  IF wptr > rptr THEN N - wptr + rptr
  ELSE IF wptr < rptr THEN rptr - wptr
  ELSE IF bempty THEN N ELSE 0

getBufferFilled == N - getBufferFree

(* The cell of byte i of a transfer of size bytes at position: a first     *)
(* contiguous piece up to the end of the memory, the rest from cell 0.     *)
Address(position, size, i) ==
  LET first == Smaller(N - position, size)
  IN  IF i < first THEN position + i ELSE i - first

(* The cursor after size bytes at position. *)
Advance(position, size) ==
  IF position + size >= N THEN position + size - N ELSE position + size

Init ==
  /\ wptr = 0 /\ rptr = 0 /\ bempty = TRUE
  /\ buffer = [p \in 0..(N - 1) |-> NoByte]
  /\ wpos = 0 /\ wlen = 0 /\ wdone = 0
  /\ rpos = 0 /\ rlen = 0 /\ rdata = <<>> /\ out = <<>>
  /\ sent = 0 /\ taken = 0

(* The stream task calls bufferWrite: snapshot, early return, clamp. *)
bufferWrite(size) ==
  /\ wlen = 0
  /\ sent + size <= MaxBytes
  /\ Smaller(size, getBufferFree) > 0
  /\ wpos' = wptr /\ wlen' = Smaller(size, getBufferFree) /\ wdone' = 0
  /\ UNCHANGED <<cursors, buffer, reader, sent, taken>>

WriteByte ==
  /\ wdone < wlen
  /\ buffer' = [buffer EXCEPT ![Address(wpos, wlen, wdone)] = sent + wdone]
  /\ wdone' = wdone + 1
  /\ UNCHANGED <<cursors, wpos, wlen, reader, sent, taken>>

PublishWrite ==
  /\ wlen > 0
  /\ wdone = wlen
  /\ wptr' = Advance(wpos, wlen)
  /\ bempty' = FALSE
  /\ sent' = sent + wlen
  /\ wlen' = 0 /\ wdone' = 0
  /\ UNCHANGED <<rptr, buffer, wpos, reader, taken>>

(* (A plausible bug: a byte is always left, to tell full from empty.) *)
bufferReadKeepingOne(size) ==
  /\ rlen = 0
  /\ Smaller(size, getBufferFilled - 1) > 0
  /\ rpos' = rptr /\ rlen' = Smaller(size, getBufferFilled - 1) /\ rdata' = <<>>
  /\ UNCHANGED <<cursors, buffer, writer, out, sent, taken>>

(* The decoder task calls bufferRead: snapshot, early return, clamp. *)
bufferRead(size) ==
  /\ rlen = 0
  /\ Smaller(size, getBufferFilled) > 0
  /\ rpos' = rptr /\ rlen' = Smaller(size, getBufferFilled) /\ rdata' = <<>>
  /\ UNCHANGED <<cursors, buffer, writer, out, sent, taken>>

ReadByte ==
  /\ Len(rdata) < rlen
  /\ rdata' = Append(rdata, buffer[Address(rpos, rlen, Len(rdata))])
  /\ UNCHANGED <<cursors, buffer, writer, rpos, rlen, out, sent, taken>>

PublishRead ==
  /\ rlen > 0
  /\ Len(rdata) = rlen
  /\ rptr' = Advance(rpos, rlen)
  /\ bempty' = (rptr' = wptr)
  /\ out' = rdata
  /\ taken' = taken + rlen
  /\ rlen' = 0 /\ rdata' = <<>>
  /\ UNCHANGED <<wptr, buffer, writer, rpos, sent>>

(* Called by the stream task between its own transfers. *)
bufferReset ==
  /\ wlen = 0
  /\ DrainedReset => rlen = 0
  /\ wptr' = 0 /\ rptr' = 0 /\ bempty' = TRUE
  /\ taken' = sent
  /\ UNCHANGED <<buffer, writer, reader, sent>>

Produce == WriteByte \/ PublishWrite \/ bufferReset \/ \E size \in 1..MaxChunk : bufferWrite(size)
Consume == ReadByte \/ PublishRead \/ \E size \in 1..MaxChunk : bufferRead(size)
Next == Produce \/ Consume

(* While a stream plays, vsTask calls bufferRead again and again           *)
(* (webclient.c:1125-1132) and its transfers end; nothing obliges the      *)
(* stream to deliver.                                                      *)
Spec     == Init /\ [][Next]_vars
FairSpec == Spec /\ WF_vars(Consume)
------------------------------------------------------------------------------
TypeOK ==
  /\ wptr \in Nat /\ (wptr < N \/ wptr = 0)
  /\ rptr \in Nat /\ (rptr < N \/ rptr = 0)
  /\ bempty \in BOOLEAN
  /\ buffer \in [0..(N - 1) -> Int]
  /\ wpos \in Nat /\ wlen \in 0..N /\ wdone \in 0..wlen
  /\ rpos \in Nat /\ rlen \in 0..N /\ rdata \in Seq(Int) /\ Len(rdata) <= rlen
  /\ out \in Seq(Int)
  /\ sent \in Nat /\ taken \in Nat

(* The two cursors and the flag always tell how many bytes are stored, a   *)
(* full buffer from an empty one included, whatever transfers are under    *)
(* way (getBufferFree, "A consistent snapshot distinguishes a full ring    *)
(* from an empty one").                                                    *)
CursorsCount ==
  /\ getBufferFilled = sent - taken
  /\ bempty <=> sent = taken

(* A transfer under way reads the bytes of the stream that come next, each *)
(* one complete: the writer overwrites no byte the reader still needs and  *)
(* the reader never runs into cells that are not published.                *)
ReadsTheStream == \A i \in 1..Len(rdata) : rdata[i] = taken + i - 1

(* The two transfers never work on the same cell of the memory, so the     *)
(* copies need no lock.                                                    *)
NoSharedCell ==
  \A i \in 0..(wlen - 1), j \in 0..(rlen - 1) :
    Address(wpos, wlen, i) # Address(rpos, rlen, j)

(* The buffer is the byte queue it stands for: every publication is a Put  *)
(* or a Take of whole chunks, every other step of a transfer changes       *)
(* nothing a user can see.                                                 *)
contents == [i \in 1..getBufferFilled |-> buffer[Advance(rptr, i - 1)]]
Queue == INSTANCE ByteQueue WITH Capacity <- N, queue <- contents, next <- sent
QueueSpec == Queue!Spec

(* Every published byte is handed to the decoder or dropped by a reset. *)
EveryByteLeaves == \A n \in 1..MaxBytes : (sent >= n) ~> (taken >= n)
==============================================================================
