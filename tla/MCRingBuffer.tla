---------------------------- MODULE MCRingBuffer -----------------------------
(* The stream buffer at three cells, with requests of up to four bytes: a  *)
(* request can exceed the room, the filling and the whole memory.          *)
EXTENDS RingBuffer

MCN == 3
MCMaxChunk == 4
MCMaxBytes == 6
==============================================================================
