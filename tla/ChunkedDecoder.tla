--------------------------- MODULE ChunkedDecoder ----------------------------
(***************************************************************************)
(* The chunked transfer coding in clientReceiveCallback (webclient.c): a   *)
(* chunk is a line with its size, the bytes, and cr lf, and the blocks are *)
(* cut anywhere.  The bytes are moved together in the block; where a chunk *)
(* ends inside of it, more is received until the next size can be read.    *)
(*                                                                         *)
(* A digit stands for the whole size, so a size line has three bytes; the  *)
(* code waits for Look of them (9, a line of at most seven digits).        *)
(***************************************************************************)
EXTENDS Integers, Sequences

CONSTANTS
  RECEIVE,      (* the largest block                                        *)
  Look,         (* bytes wanted behind a chunk                              *)
  Errors,       (* failed receives after which the wait is given up: 6      *)
  Headers       (* how long the header of a response may be                 *)

ChunkedDecoderAssumption ==
  /\ {RECEIVE, Errors} \subseteq Nat \ {0}
  /\ Look \in Nat /\ Look >= 4
  /\ Headers \subseteq 0..RECEIVE

VARIABLES
  wire,         (* what the server sends after the header                   *)
  arrived,      (* how much of it has been received                         *)
  step,         (* where the decoder is, see Steps                          *)
  chunked,      (* size of the chunk, cr lf included; 0: no chunks          *)
  cchunk,       (* what is left of it                                       *)
  decoded,      (* the block before inpdata                                 *)
  left,         (* the block from inpdata on: lc bytes                      *)
  chunkWaitRetries,
  room          (* bytes of bufrec from the block on                        *)

chunkVars ==
  <<wire, arrived, step, chunked, cchunk, decoded, left, chunkWaitRetries, room>>

(* "wait" for the first size, receive a block, "size" of the next chunk     *)
(* wanted, the block goes "out", the "last" one of a connection that is     *)
(* given up and then is "gone".  "negative": its length is -1.  "adrift": a *)
(* byte is lost, and what is taken for a size is none.  "overrun": bufrec   *)
(* has been, and what the code does then is not known.                      *)
Steps == {"wait", "recv", "size", "out", "last", "gone", "negative", "adrift", "overrun"}

(* bufrec: RECEIVE + 20 bytes, where Look is 9.                             *)
Bufrec == RECEIVE + 2 * Look + 2
------------------------------------------------------------------------------
Mark(kind, value) == [kind |-> kind, at |-> 0, value |-> value]
Cr == Mark("cr", 0)
Lf == Mark("lf", 1)

WireByte ==
  [kind : {"audio", "length", "title", "size", "cr", "lf", "old"}, at : Nat, value : Nat]

(* At place w of a wire, n bytes behind place b of a body are sent as a      *)
(* chunk.                                                                   *)
IsChunk(bytes, body, w, b, n) ==
  /\ b + n <= Len(body) /\ w + n + 5 <= Len(bytes)
  /\ bytes[w + 1] = Mark("size", n) /\ bytes[w + 2] = Cr /\ bytes[w + 3] = Lf
  /\ \A j \in 1..n : bytes[w + 3 + j] = body[b + j]
  /\ bytes[w + n + 4] = Cr /\ bytes[w + n + 5] = Lf

(* Chunks of any size at these places, <<w, b>>, and an empty one at the end. *)
IsChunked(bytes, body, chunks) ==
  /\ bytes \in Seq(WireByte)
  /\ chunks \subseteq (0..Len(bytes)) \X (0..Len(body))
  /\ <<0, 0>> \in chunks
  /\ \A c \in chunks : \E n \in 0..Len(body) :
       /\ IsChunk(bytes, body, c[1], c[2], n)
       /\ n = 0 => c = <<Len(bytes) - 5, Len(body)>>
       /\ n # 0 => <<c[1] + n + 5, c[2] + n>> \in chunks

Skip(s, n) == SubSeq(s, n + 1, Len(s))
First(s, n) == SubSeq(s, 1, n)
Drop(s, n) == SubSeq(s, 1, Len(s) - n)
------------------------------------------------------------------------------
(* Mutant: a chunk whose cr has come without its lf counts as complete.     *)
CrIsAll(block, chunk, missing) ==
  /\ chunk # 0 /\ Len(block) = missing - 1
  /\ decoded' = Drop(block, 1) /\ cchunk' = 0
  /\ left' = <<>> /\ step' = "out"

(* A block, or a part of it, that ends inside of a chunk.                   *)
Inside(block, chunk, missing) ==
  /\ chunk = 0 \/ (missing # 0 /\ Len(block) < missing - 1)
  /\ decoded' = block
  /\ cchunk' = IF chunk = 0 THEN missing ELSE missing - Len(block)
  /\ left' = <<>> /\ step' = "out"

(* ... that ends with the chunk.  If only its line feed was missing, the    *)
(* length becomes -1.                                                       *)
Complete(block, chunk, missing) ==
  /\ chunk # 0 /\ Len(block) = missing
  /\ decoded' = IF missing = 1 THEN <<>> ELSE Drop(block, 2)
  /\ step' = IF missing = 1 THEN "negative" ELSE "out"
  /\ cchunk' = 0 /\ left' = <<>>

(* ... that ends between cr and lf.                                         *)
MissingLf(block, chunk, missing) ==
  /\ chunk # 0 /\ Len(block) = missing - 1
  /\ decoded' = Drop(block, 1) /\ cchunk' = 1
  /\ left' = <<>> /\ step' = "out"

(* ... with a size in it.                                                   *)
SizeInside(block, chunk, missing) ==
  /\ chunk # 0 /\ (missing = 0 \/ Len(block) > missing)
  /\ decoded' = <<>> /\ cchunk' = missing
  /\ left' = block /\ step' = "size"

Take(block, chunk, missing) ==
  /\ chunked' = chunk
  /\ chunkWaitRetries' = 0
  /\ \/ Inside(block, chunk, missing)
     \/ Complete(block, chunk, missing)
     \/ MissingLf(block, chunk, missing)
     \/ SizeInside(block, chunk, missing)

(* Nothing is decoded.                                                      *)
Still(now, chunk) ==
  /\ step' = now /\ chunked' = chunk /\ cchunk' = chunk
  /\ decoded' = <<>> /\ left' = <<>> /\ chunkWaitRetries' = 0

(* The first n bytes of a body, with a size if there are chunks.            *)
Begin(body, chunks, n) ==
  LET chunk == IF chunks THEN body[1].value + 2 ELSE 0
      block == Skip(First(body, n), IF chunks THEN 3 ELSE 0)
  IN  IF block # <<>> THEN Take(block, chunk, chunk) ELSE Still("recv", chunk)

(* A header of h bytes, with n bytes behind it in the block.                *)
TakeFirst(body, chunks, n, h) ==
  /\ h + n <= RECEIVE
  /\ wire' = body /\ arrived' = n /\ room' = Bufrec - h
  /\ IF chunks /\ n < Look - 1 THEN Still("wait", 0) ELSE Begin(body, chunks, n)

(* Too few for a size: more is received, up to Look - 1 beyond RECEIVE.     *)
WaitMore(n) ==
  /\ step = "wait"
  /\ arrived + n <= Len(wire) /\ arrived + n <= room - Look - 3
  /\ arrived' = arrived + n
  /\ IF arrived + n < Look - 1 THEN Still("wait", 0) ELSE Begin(wire, TRUE, arrived + n)
  /\ UNCHANGED <<wire, room>>

(* An error there is a length of -1 that is added: the next byte overwrites *)
(* the last.  (A receive that returns 0 is repeated for ever.)              *)
WaitFails ==
  /\ step = "wait" /\ Still("adrift", 0)
  /\ UNCHANGED <<wire, arrived, room>>

ReceiveBlock(n) ==
  /\ step = "recv" /\ arrived + n <= Len(wire)
  /\ arrived' = arrived + n
  /\ Take(SubSeq(wire, arrived + 1, arrived + n), chunked, cchunk)
  /\ room' = Bufrec
  /\ UNCHANGED wire

WantsMore == step = "size" /\ Len(left) < cchunk + Look

FitsBehind(n) == Len(decoded) + Len(left) + n <= room

ReceiveMore(n) ==
  /\ WantsMore /\ arrived + n <= Len(wire) /\ FitsBehind(n)
  /\ arrived' = arrived + n
  /\ left' = left \o SubSeq(wire, arrived + 1, arrived + n)
  /\ UNCHANGED <<wire, step, chunked, cchunk, decoded, chunkWaitRetries, room>>

(* Every size may have Look bytes received for it; if the chunks are small, *)
(* the block becomes longer than bufrec.                                    *)
Overruns(n) ==
  /\ WantsMore /\ arrived + n <= Len(wire) /\ ~FitsBehind(n)
  /\ Still("overrun", 0)
  /\ UNCHANGED <<wire, arrived, room>>

(* The wait goes on after an error, and after Errors of them it is given    *)
(* up: the connection is made again, and the block, size lines and all,     *)
(* goes on as it is.  A receive that returns 0 changes nothing.             *)
ReceiveMoreFails ==
  /\ WantsMore
  /\ chunkWaitRetries' = chunkWaitRetries + 1
  /\ IF chunkWaitRetries' = Errors
     THEN step' = "last" /\ decoded' = decoded \o left /\ left' = <<>>
     ELSE UNCHANGED <<step, decoded, left>>
  /\ UNCHANGED <<wire, arrived, chunked, cchunk, room>>

(* The size is read, cr lf and the size are cut out, and if the next chunk  *)
(* does not end in the block that is all; a last cr is cut off.             *)
ReadSize ==
  /\ step = "size" /\ ~WantsMore
  /\ LET size == left[cchunk + 1].value + 2
         kept == IF cchunk > 1 THEN First(left, cchunk - 2) ELSE <<>>
         rest == Skip(left, cchunk + 3)
     IN  /\ chunked' = size
         /\ \/ /\ size > Len(rest)
               /\ cchunk' = size - Len(rest)
               /\ decoded' = decoded \o kept \o (IF cchunk' = 1 THEN Drop(rest, 1) ELSE rest)
               /\ left' = <<>> /\ step' = "out"
            \/ /\ size <= Len(rest)
               /\ cchunk' = size
               /\ decoded' = decoded \o kept
               /\ left' = rest /\ step' = "size"
  /\ chunkWaitRetries' = 0
  /\ UNCHANGED <<wire, arrived, room>>

Decode ==
  \/ ReadSize
  \/ \E n \in 1..Look : ReceiveMore(n)
  \/ \E n \in 1..RECEIVE : ReceiveBlock(n) \/ WaitMore(n)
==============================================================================
