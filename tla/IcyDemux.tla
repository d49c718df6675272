------------------------------ MODULE IcyDemux -------------------------------
(***************************************************************************)
(* The metadata part of clientReceiveCallback (user/webclient.c): a stream *)
(* that carries, after every metaint bytes of audio, a length byte and so  *)
(* many units of title, arrives in blocks cut anywhere.  The audio is to   *)
(* reach the buffer and the titles the header, whatever the cuts.          *)
(*                                                                         *)
(* A byte is a record of its kind, its place (audio: in the stream) and    *)
(* its value, which the code sometimes overwrites with 0.                  *)
(***************************************************************************)
EXTENDS Integers, Sequences

CONSTANTS
  MetaInts,    (* values of the icy-metaint header, 0 without metadata      *)
  Unit,        (* bytes per unit of the length byte: 16                     *)
  MaxUnits,    (* the longest title, in units                               *)
  Streams,     (* for each metaint, what servers may send                   *)
  RECEIVE      (* the largest block                                         *)

Byte == [kind : {"audio", "length", "title"}, at : Nat, value : Nat]

(* Behind q there are m bytes of audio, a length byte and the title.       *)
PeriodBehind(s, m, q, units) ==
  /\ q + m + 1 + units * Unit <= Len(s)
  /\ \A j \in 1..m : s[q + j].kind = "audio"
  /\ s[q + m + 1].kind = "length" /\ s[q + m + 1].value = units
  /\ \A j \in 1..units * Unit : s[q + m + 1 + j].kind = "title"

(* Where a period ends, and behind it the next one begins.                 *)
Begins(s) ==
  {0} \cup {q \in 1..Len(s) : \E k \in 1..q : s[k].kind = "length" /\ q = k + s[k].value * Unit}

IsStream(s, m) ==
  /\ s \in Seq(Byte)
  /\ \A k \in 1..Len(s) : s[k].kind = "audio" => s[k].at = k
  /\ m = 0 => \A k \in 1..Len(s) : s[k].kind = "audio"
  /\ m # 0 => \A q \in Begins(s) : q = Len(s) \/ \E units \in 0..MaxUnits : PeriodBehind(s, m, q, units)

ASSUME IcyDemuxAssumption ==
  /\ MetaInts \subseteq Nat
  /\ {Unit, RECEIVE} \subseteq Nat \ {0}
  /\ MaxUnits \in Nat
  /\ DOMAIN Streams = MetaInts
  /\ \A m \in MetaInts : \A s \in Streams[m] : IsStream(s, m)

VARIABLES
  stream,      (* what the server sends after the header                    *)
  next,        (* how much of it has arrived                                *)
  pc,          (* where clientReceiveCallback is                            *)
  pdata,       (* the bytes of the block that are still to be handled       *)
  metaint,     (* header.members.single.metaint                             *)
  metad,       (* bytes of audio to the next length byte                    *)
  rest,        (* if negative, the bytes of a split title still missing     *)
  metadata,    (* the split title so far                                    *)
  title,       (* the title saved last                                      *)
  audio        (* what has been written to the buffer                       *)

vars == <<stream, next, pc, pdata, metaint, metad, rest, metadata, title, audio>>
------------------------------------------------------------------------------
(* *p = 0 at the first byte of s, if there is one. *)
Zeroed(s) == IF s = <<>> THEN s ELSE [s EXCEPT ![1].value = 0]

From(s, i) == SubSeq(s, i, Len(s))
------------------------------------------------------------------------------
(* Plausible bugs, each put in the place of the definition it names. *)

ReconnectKeepingRest ==
  /\ pc = "recv"
  /\ metaint' \in MetaInts
  /\ metad' = IF metaint' > 0 THEN metaint' ELSE -1
  /\ stream' \in Streams[metaint']
  /\ next' = 0
  /\ pdata' = <<>> /\ title' = <<>> /\ audio' = <<>>
  /\ UNCHANGED <<pc, rest, metadata>>

TitleEndsUnappended ==
  /\ pc = "rest"
  /\ Len(pdata) > -rest
  /\ title' = metadata
  /\ metad' = metaint
  /\ pdata' = Zeroed(From(pdata, 1 - rest))
  /\ rest' = 0
  /\ pc' = "meta"
  /\ UNCHANGED <<stream, next, metaint, metadata, audio>>

------------------------------------------------------------------------------
(* A response whose header has been handled: clearHeaders and              *)
(* clientParseHeader.                                                      *)
MetadOf(m) == IF m > 0 THEN m ELSE -1

Init ==
  /\ metaint \in MetaInts
  /\ metad = MetadOf(metaint)
  /\ stream \in Streams[metaint]
  /\ next = 0 /\ rest = 0
  /\ pc = "recv" /\ pdata = <<>>
  /\ metadata = <<>> /\ title = <<>> /\ audio = <<>>

(* Another response, of the same station or of another. *)
Reconnect ==
  /\ pc = "recv"
  /\ metaint' \in MetaInts
  /\ metad' = MetadOf(metaint')
  /\ stream' \in Streams[metaint']
  /\ next' = 0 /\ rest' = 0
  /\ pdata' = <<>> /\ title' = <<>> /\ audio' = <<>>
  /\ UNCHANGED <<pc, metadata>>

Receive(len) ==
  /\ pc = "recv"
  /\ next + len <= Len(stream)
  /\ next' = next + len
  /\ pdata' = SubSeq(stream, next + 1, next + len)
  /\ pc' = IF rest < 0 THEN "rest" ELSE "meta"
  /\ UNCHANGED <<stream, metaint, metad, rest, metadata, title, audio>>

(* The end of a split title, with more behind it: the title is terminated  *)
(* in place, on the byte behind, and saved.                                *)
TitleEnds ==
  /\ pc = "rest"
  /\ Len(pdata) > -rest
  /\ metadata' = metadata \o SubSeq(pdata, 1, -rest)
  /\ title' = metadata'
  /\ metad' = metaint
  /\ pdata' = Zeroed(From(pdata, 1 - rest))
  /\ rest' = 0
  /\ pc' = "meta"
  /\ UNCHANGED <<stream, next, metaint, audio>>

(* The block has nothing but the split title. *)
TitleGoesOn ==
  /\ pc = "rest"
  /\ Len(pdata) <= -rest
  /\ metadata' = metadata \o pdata
  /\ rest' = rest + Len(pdata)
  /\ pdata' = <<>>
  /\ pc' = "meta"
  /\ UNCHANGED <<stream, next, metaint, metad, title, audio>>

LengthByteInside == metaint # 0 /\ Len(pdata) > metad

(* One round of the loop: audio, a length byte, and a title or a part of   *)
(* one.  A whole title is terminated in place, by clientSaveMetadata.      *)
Round ==
  /\ pc = "meta"
  /\ LengthByteInside
  /\ LET l == pdata[metad + 1].value * Unit
         more == Len(pdata) - metad - l - 1
         behind == From(pdata, metad + 2)
     IN  /\ rest' = more
         /\ audio' = audio \o SubSeq(pdata, 1, metad)
         /\ \/ /\ l # 0 /\ more < 0
               /\ metadata' = behind
               /\ pdata' = <<>>
               /\ UNCHANGED title
            \/ /\ l # 0 /\ more >= 0
               /\ title' = SubSeq(behind, 1, l)
               /\ pdata' = Zeroed(From(behind, l + 1))
               /\ UNCHANGED metadata
            \/ /\ l = 0
               /\ pdata' = behind
               /\ UNCHANGED <<metadata, title>>
         /\ pc' = IF more < 0 THEN "recv" ELSE "meta"
  /\ metad' = metaint
  /\ UNCHANGED <<stream, next, metaint>>

(* The rest of the block is audio. *)
AudioOnly ==
  /\ pc = "meta"
  /\ ~LengthByteInside
  /\ audio' = audio \o pdata
  /\ metad' = IF metaint = 0 THEN metad ELSE metad - Len(pdata)
  /\ rest' = IF rest < 0 THEN rest ELSE 0
  /\ pdata' = <<>>
  /\ pc' = "recv"
  /\ UNCHANGED <<stream, next, metaint, metadata, title>>

Next ==
  \/ Reconnect \/ TitleEnds \/ TitleGoesOn \/ Round \/ AudioOnly
  \/ \E len \in 1..RECEIVE : Receive(len)

Spec == Init /\ [][Next]_vars
------------------------------------------------------------------------------
TypeOK ==
  /\ next \in 0..Len(stream)
  /\ pc \in {"recv", "rest", "meta"}
  /\ metaint \in MetaInts
  /\ metad \in (IF metaint = 0 THEN {-1} ELSE 0..metaint)
  /\ rest \in -(MaxUnits * Unit)..RECEIVE
  /\ Len(pdata) <= RECEIVE
  /\ Len(metadata) <= MaxUnits * Unit /\ Len(title) <= MaxUnits * Unit

(* Between two blocks, the audio bytes that have arrived, and no others,   *)
(* have been written to the buffer, each once and in their order, wherever *)
(* the blocks were cut.                                                    *)
AudioInOrder ==
  pc = "recv" =>
    /\ \A i, j \in 1..Len(audio) : i < j => audio[i].at < audio[j].at
    /\ {audio[i].at : i \in 1..Len(audio)} = {k \in 1..next : stream[k].kind = "audio"}

(* The title that a length byte at k says is behind it.                    *)
Announced(k) == stream[k].kind = "length" /\ stream[k].value > 0
TitleAt(k) == SubSeq(stream, k + 1, k + stream[k].value * Unit)

(* A title is saved whole, and is one that was sent.                       *)
TitleWhole == title = <<>> \/ \E k \in 1..next : Announced(k) /\ title = TitleAt(k)

(* ... and until the next one the server has begun is complete, it is the  *)
(* one sent last: "Without this, the last part of the title is silently    *)
(* dropped" (webclient.c:992).                                             *)
TitleSaved ==
  pc = "recv" /\ rest >= 0 =>
    \A k \in 1..next :
      Announced(k) /\ (\A j \in k + 1..next : ~Announced(j)) => title = TitleAt(k)
==============================================================================
