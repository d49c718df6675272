------------------------------ MODULE ByteQueue ------------------------------
(***************************************************************************)
(* What the stream buffer of user/buffer.c promises its two users: a FIFO  *)
(* of at most Capacity bytes between the stream task (Put) and the decoder *)
(* task (Take), which the stream task can empty (Clear).  The bytes of the *)
(* stream are named by their number, 0, 1, 2, ..., so that a byte lost,    *)
(* repeated or out of order shows.                                         *)
(***************************************************************************)
EXTENDS Naturals, Sequences

CONSTANT Capacity   (* the number of bytes the queue can hold *)

VARIABLES queue,    (* the bytes in the queue, oldest first             *)
          out,      (* the chunk most recently handed to the decoder    *)
          next      (* the number of the next byte of the stream        *)

(* The k bytes of the stream from number a on. *)
Run(a, k) == [i \in 1..k |-> a + i - 1]

Init == /\ queue = <<>>
        /\ out = <<>>
        /\ next = 0

Put(k) == /\ Len(queue) + k <= Capacity
          /\ queue' = queue \o Run(next, k)
          /\ next' = next + k
          /\ UNCHANGED out

Take(k) == /\ k <= Len(queue)
           /\ out' = SubSeq(queue, 1, k)
           /\ queue' = SubSeq(queue, k + 1, Len(queue))
           /\ UNCHANGED next

Clear == /\ queue' = <<>>
         /\ UNCHANGED <<out, next>>

Next == \/ \E k \in 1..Capacity : Put(k) \/ Take(k)
        \/ Clear

Spec == Init /\ [][Next]_<<queue, out, next>>
==============================================================================
