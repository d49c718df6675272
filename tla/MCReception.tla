----------------------------- MODULE MCReception -----------------------------
(* Streams with and without metadata and chunks, in blocks shorter and      *)
(* longer than a stretch of audio, a chunk, and a title of two units; the   *)
(* short streams also in chunks of one byte.                                *)
EXTENDS Reception, StreamServer
MCStreams == [m \in MetaInts |-> {s \in StreamsOf(m, 2, MaxUnits, Unit) : Len(s) <= 10}]
MCCodings ==
  [s \in UNION {MCStreams[m] : m \in MetaInts} |->
     {[bytes |-> s, chunks |-> {}], Encode(s, 3)} \cup (IF Len(s) <= 8 THEN {Encode(s, 1)} ELSE {})]
MCRubbish == {[j \in 1..3 |-> Piece("old", 0, 1)]}
(* A title that is saved, or was given up with its connection, is not read  *)
(* again, but behind a length of -1.                                        *)
MCView ==
  <<stream, next, pc, pdata, metaint, metad, rest, IF rest < 0 THEN metadata ELSE <<>>,
    title, audio, decoderVars, astray>>
==============================================================================
