------------------------------ MODULE Playback -------------------------------
(***************************************************************************)
(* The stream task and the decoder task around the stream buffer           *)
(* (RingBuffer): receive, wait for room, write, decide to start, and the   *)
(* stop sequence of user/webclient.c, which resets the buffer twice, the   *)
(* first time while the decoder task may be in the middle of a read.       *)
(***************************************************************************)
EXTENDS RingBuffer

CONSTANT StartBelow   (* free room under which a stream starts to play:      *)
                      (* BUFFER_SIZE/2, or 6/10 of SPIRAM_SIZE               *)

(* A received block fits into the room left when playback starts: RECEIVE  *)
(* is 1440, BUFFER_SIZE/2 is 10000.  The callers of bufferReset do as the  *)
(* code does.                                                              *)
PlaybackAssumption ==
  /\ StartBelow \in 1..N
  /\ MaxChunk <= StartBelow
  /\ DrainedReset = FALSE

VARIABLES
  playing,   (* the flag the decoder task polls                         *)
  once,      (* instant play: start with the first bytes                *)
  cpc,       (* where clientTask is                                     *)
  need,      (* the bytes clientTask has received and must store        *)
  dpc        (* where vsTask is                                         *)

buf == vars
pvars == <<vars, playing, once, cpc, need, dpc>>
------------------------------------------------------------------------------
(* Plausible bugs, each put in the place of the definition it names. *)
CloseWithoutReset ==
  /\ cpc = "close" \/ (cpc = "settle" /\ dpc \in {"check", "send"})
  /\ cpc' = "connect"
  /\ UNCHANGED <<buf, playing, once, need, dpc>>

DrainedByRoom ==
  /\ cpc \in {"drain", "late"}
  /\ getBufferFree > 0
  /\ cpc' = IF cpc = "drain" THEN "stop" ELSE "silence"
  /\ UNCHANGED <<buf, playing, once, need, dpc>>

StartWhenFull ==
  /\ cpc = "start"
  /\ playing' = (playing \/ getBufferFree = 0)
  /\ cpc' = "receive"
  /\ UNCHANGED <<buf, once, need, dpc>>
------------------------------------------------------------------------------
PlaybackInit ==
  /\ Init
  /\ playing = FALSE /\ once = FALSE
  /\ cpc = "connect" /\ need = 0
  /\ dpc = "check"

(* A user asks for a station or for an instant play; what is received now  *)
(* goes on for a while.                                                    *)
Ask ==
  /\ once' \in BOOLEAN
  /\ UNCHANGED <<buf, playing, cpc, need, dpc>>

(* A connection is made. *)
Connect ==
  /\ cpc = "connect"
  /\ cpc' = "receive"
  /\ UNCHANGED <<buf, playing, once, need, dpc>>

(* recvfrom delivers a block; clientReceiveCallback wants to store it. *)
Receive(size) ==
  /\ cpc = "receive"
  /\ sent + size <= MaxBytes
  /\ need' = size
  /\ cpc' = "room"
  /\ UNCHANGED <<buf, playing, once, dpc>>

(* The loop while (getBufferFree() < len) vTaskDelay(20) ends, and the     *)
(* bytes are written.                                                      *)
RoomFound ==
  /\ cpc = "room"
  /\ getBufferFree >= need
  /\ bufferWrite(need)
  /\ need' = 0
  /\ cpc' = "write"
  /\ UNCHANGED <<playing, once, dpc>>

Writes ==
  /\ cpc = "write"
  /\ \/ WriteByte /\ UNCHANGED cpc
     \/ PublishWrite /\ cpc' = "start"
  /\ UNCHANGED <<playing, once, need, dpc>>

(* At the end of every data block: is there enough to start with? *)
StartCheck ==
  /\ cpc = "start"
  /\ playing' = (playing \/ getBufferFree < StartBelow \/ once)
  /\ cpc' = "receive"
  /\ UNCHANGED <<buf, once, need, dpc>>

(* The connection ends or a stop request is seen; an instant play that     *)
(* ended by itself is first played to its end.                             *)
Leave ==
  /\ cpc = "receive"
  /\ cpc' \in IF playing THEN {"stop"} \cup (IF once THEN {"drain"} ELSE {})
            ELSE {"close"}
  /\ UNCHANGED <<buf, playing, once, need, dpc>>

(* It ended before it was played: it is played now.  That it is an instant *)
(* play may have been said after its last bytes came.                      *)
LeaveUnplayed ==
  /\ cpc = "receive"
  /\ ~playing /\ once /\ getBufferFree < N
  /\ playing' = TRUE
  /\ cpc' = "late"
  /\ UNCHANGED <<buf, once, need, dpc>>

(* A soft reconnect: the buffer and the playback go on. *)
SoftReconnect ==
  /\ cpc = "receive"
  /\ playing /\ ~once
  /\ cpc' = "connect"
  /\ UNCHANGED <<buf, playing, once, need, dpc>>

(* The loop while (!getBufferEmpty()) vTaskDelay(100) ends; what was       *)
(* played late has no stop sequence but its end.                           *)
Drained ==
  /\ cpc \in {"drain", "late"}
  /\ bempty
  /\ cpc' = IF cpc = "drain" THEN "stop" ELSE "silence"
  /\ UNCHANGED <<buf, playing, once, need, dpc>>

(* bufferReset with the decoder task wherever it is. *)
StopReset ==
  /\ cpc = "stop"
  /\ bufferReset
  /\ cpc' = "silence"
  /\ UNCHANGED <<playing, once, need, dpc>>

StopPlaying ==
  /\ cpc = "silence"
  /\ playing' = FALSE
  /\ cpc' = "settle"
  /\ UNCHANGED <<buf, once, need, dpc>>

(* The socket is closed and the buffer reset again.  After a stop,         *)
(* vTaskDelay(40) has come first: 400 ms in which a read that was under    *)
(* way, or decided on, has ended.  After a late play of which all is read, *)
(* clientDisconnect has waited 100 ms.                                     *)
Close ==
  /\ cpc = "close" \/ (cpc = "settle" /\ dpc \in {"check", "send"})
  /\ bufferReset
  /\ cpc' = "connect"
  /\ UNCHANGED <<playing, once, need, dpc>>

(* vsTask: poll playing, and only then read; what was read goes to the     *)
(* chip before the flag is polled again.                                   *)
Poll ==
  /\ dpc = "check"
  /\ playing
  /\ dpc' = "read"
  /\ UNCHANGED <<buf, playing, once, cpc, need>>

Reads ==
  /\ dpc = "read"
  /\ \/ /\ rlen = 0 /\ getBufferFilled <= 0
        /\ dpc' = "check"
        /\ UNCHANGED buf
     \/ bufferRead(MaxChunk) /\ dpc' = dpc
     \/ ReadByte /\ dpc' = dpc
     \/ PublishRead /\ dpc' = "send"
  /\ UNCHANGED <<playing, once, cpc, need>>

Send ==
  /\ dpc = "send"
  /\ dpc' = "check"
  /\ UNCHANGED <<buf, playing, once, cpc, need>>

Decoder == Poll \/ Reads \/ Send
Client == \/ Connect \/ RoomFound \/ Writes \/ StartCheck \/ Leave \/ LeaveUnplayed
          \/ SoftReconnect \/ Drained
          \/ StopReset \/ StopPlaying \/ Close
          \/ \E size \in 1..MaxChunk : Receive(size)

PlaybackNext == Client \/ Decoder \/ Ask

(* vsTask never blocks for good, and clientTask leaves its waiting loops   *)
(* once what they wait for is there to stay.                               *)
PlaybackSpec ==
  /\ PlaybackInit /\ [][PlaybackNext]_pvars
  /\ WF_pvars(Decoder) /\ WF_pvars(RoomFound) /\ WF_pvars(Drained)
------------------------------------------------------------------------------
PlaybackTypeOK ==
  /\ playing \in BOOLEAN /\ once \in BOOLEAN
  /\ cpc \in {"connect", "receive", "room", "write", "start", "drain", "late",
              "stop", "silence", "settle", "close"}
  /\ need \in 0..MaxChunk /\ (cpc = "room" => need > 0)
  /\ dpc \in {"check", "read", "send"}
  /\ wlen \in 0..MaxChunk /\ rlen \in 0..MaxChunk

(* Whenever a stream is received the buffer is sound again: the cursors    *)
(* count its bytes and the decoder gets them in order, although the stop   *)
(* of the stream before may have reset the buffer under a read whose       *)
(* publication then brought dropped bytes back.                            *)
SoundWhileReceiving ==
  cpc \in {"connect", "receive", "room", "write", "start"} =>
    CursorsCount /\ ReadsTheStream

(* clientTask waits for room only while the decoder task empties the       *)
(* buffer; before that a block always fits.                                *)
WaitsOnlyWhilePlaying == cpc = "room" /\ getBufferFree < need => playing

(* So it never waits for good. *)
RoomComes == (cpc = "room") ~> (cpc # "room")

(* An instant play that ended, or was not begun before its data had come,  *)
(* is heard to its last byte, and ends.                                    *)
InstantPlayEnds ==
  (cpc \in {"drain", "late"}) ~> (cpc \in {"stop", "silence"} /\ taken = sent)
==============================================================================
