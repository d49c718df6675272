----------------------------- MODULE MCIcyDemux ------------------------------
(* Streams with and without metadata, in blocks shorter and longer than a   *)
(* stretch of audio, and than a title of two units.                         *)
EXTENDS IcyDemux, StreamServer
MCStreams == [m \in MetaInts |-> StreamsOf(m, 3, MaxUnits, Unit)]
==============================================================================
