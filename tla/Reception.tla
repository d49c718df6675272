------------------------------ MODULE Reception ------------------------------
(***************************************************************************)
(* clientReceiveCallback in C_DATA: what ChunkedDecoder makes of a block   *)
(* is what IcyDemux gets.  To the latter it must look like a stream that   *)
(* came without chunks (Direct), as long as nothing has led it astray.     *)
(***************************************************************************)
EXTENDS IcyDemux

CONSTANTS
  Look, Errors, Headers,
  Codings,      (* how each stream may be sent: [bytes, chunks], where       *)
                (* chunks says where one begins; {}: there are none          *)
  Rubbish       (* what may be in a block where no bytes of the stream are   *)

VARIABLES wire, arrived, step, chunked, cchunk, decoded, left, chunkWaitRetries, room

D == INSTANCE ChunkedDecoder

IsCoding(c, s) ==
  /\ c.chunks = {} => c.bytes = s
  /\ c.chunks # {} => D!IsChunked(c.bytes, s, c.chunks)

ASSUME ReceptionAssumption ==
  /\ D!ChunkedDecoderAssumption
  /\ DOMAIN Codings = UNION {Streams[m] : m \in MetaInts}
  /\ \A s \in DOMAIN Codings : \A c \in Codings[s] : IsCoding(c, s)
  /\ Rubbish \subseteq Seq(D!WireByte) \ {<<>>}

(* Ghost: what went wrong first since the last header.  "byte": one was     *)
(* lost in the wait for the first size, "given up": the wait for another,   *)
(* "lf": a block was the line feed of a chunk and nothing else, "overrun".  *)
VARIABLE astray

demuxVars == vars
decoderVars == <<wire, arrived, step, chunked, cchunk, decoded, left, chunkWaitRetries, room>>
allVars == <<vars, decoderVars, astray>>
------------------------------------------------------------------------------
ReceptionInit ==
  /\ Init
  /\ wire = <<>> /\ arrived = 0 /\ step = "gone" /\ chunked = 0 /\ cchunk = 0
  /\ decoded = <<>> /\ left = <<>> /\ chunkWaitRetries = 0 /\ room = 0
  /\ astray = "no"

(* The header of a response, and what is behind it in the block.            *)
Header ==
  /\ step \in {"wait", "recv", "gone", "negative", "adrift"}
  /\ Reconnect
  /\ \E c \in Codings[stream'] : \E n \in 0..RECEIVE : \E h \in Headers :
       n <= Len(c.bytes) /\ D!TakeFirst(c.bytes, c.chunks # {}, n, h)
  /\ astray' = "no"

(* A block goes to the metadata part.                                       *)
ToMetadata(block) ==
  /\ pdata' = block
  /\ next' = next + Len(block)
  /\ pc' = IF rest < 0 THEN "rest" ELSE "meta"
  /\ UNCHANGED <<stream, metaint, metad, rest, metadata, title, audio>>

(* Nothing of a block may be left.  Without metadata a length of -1 does    *)
(* nothing either.                                                          *)
HandOver ==
  /\ pc = "recv"
  /\ step \in {"out", "last"} \/ (step = "negative" /\ metaint = 0)
  /\ step' = IF step = "last" THEN "gone" ELSE "recv"
  /\ IF decoded = <<>> THEN UNCHANGED demuxVars ELSE ToMetadata(decoded)
  /\ decoded' = <<>>
  /\ UNCHANGED <<wire, arrived, chunked, cchunk, left, chunkWaitRetries, room, astray>>

Astray(cause) == astray' = IF astray = "no" THEN cause ELSE astray

(* A block of length -1 in a title: the line feed and what is behind it in  *)
(* memory are appended.                                                     *)
StaleTitle(stale) ==
  /\ rest < 0
  /\ metadata' = metadata \o stale
  /\ rest' = rest - 1
  /\ UNCHANGED <<metad, audio>>

(* ... and in audio: unsigned, -1 is more than any metad.  metad bytes are  *)
(* written, and the next of them is taken for a length byte.                *)
StaleAudio(stale) ==
  /\ rest >= 0 /\ Len(stale) > metad
  /\ LET l == stale[metad + 1].value * Unit
     IN  /\ rest' = -(metad + l + 2)
         /\ metadata' = IF l # 0 THEN From(stale, metad + 2) ELSE metadata
  /\ audio' = audio \o SubSeq(stale, 1, metad)
  /\ metad' = metaint

Stale ==
  /\ metaint # 0
  /\ \E behind \in Rubbish : StaleTitle(<<D!Lf>> \o behind) \/ StaleAudio(<<D!Lf>> \o behind)
  /\ UNCHANGED <<stream, next, pc, pdata, metaint, title>>

(* If the text is longer than what was allocated for the title, the heap is *)
(* overwritten.                                                             *)
NegativeLength ==
  /\ pc = "recv" /\ step = "negative"
  /\ Stale
  /\ step' \in {"recv", "overrun"}
  /\ Astray("lf")
  /\ UNCHANGED <<wire, arrived, chunked, cchunk, decoded, left, chunkWaitRetries, room>>

(* A decoder that is adrift makes anything of the bytes that come: a block  *)
(* of what is not the stream, none, one of length -1, or an end.            *)
Adrift ==
  /\ pc = "recv" /\ step = "adrift"
  /\ arrived + RECEIVE <= Len(wire) /\ arrived' = arrived + RECEIVE
  /\ step' \in {"adrift", "gone", "overrun"}
  /\ UNCHANGED demuxVars \/ Stale \/ \E block \in Rubbish : ToMetadata(block)
  /\ UNCHANGED <<wire, chunked, cchunk, decoded, left, chunkWaitRetries, room, astray>>

Fails ==
  \/ D!WaitFails /\ Astray("byte")
  \/ D!ReceiveMoreFails /\ (IF step' = "last" THEN Astray("given up") ELSE UNCHANGED astray)
  \/ (\E n \in 1..Look : D!Overruns(n)) /\ Astray("overrun")

Decoder ==
  /\ pc = "recv"
  /\ Fails \/ (D!Decode /\ UNCHANGED astray)
  /\ UNCHANGED demuxVars

Demux ==
  /\ TitleEnds \/ TitleGoesOn \/ Round \/ AudioOnly
  /\ UNCHANGED <<decoderVars, astray>>

ReceptionNext ==
  Header \/ HandOver \/ NegativeLength \/ Adrift \/ Decoder \/ Demux

ReceptionSpec == ReceptionInit /\ [][ReceptionNext]_allVars
------------------------------------------------------------------------------
Sound == astray = "no"

(* Until something goes wrong, and again from the next header on: the audio *)
(* is in the buffer as IcyDemux has it, however the stream was cut and      *)
(* whatever the responses before left behind (metad, rest and the chunk     *)
(* variables of clientReceiveCallback are static).                          *)
AudioReceived == Sound => AudioInOrder

(* ... the title is whole ...                                               *)
TitleReceived == Sound => TitleWhole

(* ... and the metadata part gets the bytes of the stream, all of them and  *)
(* in order, and no size line and no cr lf (the chunk computing of          *)
(* clientReceiveCallback).                                                  *)
Direct == INSTANCE IcyDemux WITH RECEIVE <- D!Bufrec
DirectSpec == Direct!Init /\ [][Direct!Next \/ ~Sound']_(Direct!vars)

(* Types.                                                                   *)
ReceptionTypeOK ==
  /\ Sound => Direct!TypeOK
  /\ arrived \in 0..Len(wire)
  /\ step \in D!Steps
  /\ chunked \in Nat /\ cchunk \in Nat
  /\ chunkWaitRetries \in 0..Errors
  /\ astray \in {"no", "byte", "given up", "lf", "overrun"}
==============================================================================
