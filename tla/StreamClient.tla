---------------------------- MODULE StreamClient -----------------------------
(***************************************************************************)
(* The control of the radio: clientTask of user/webclient.c, which dials,  *)
(* receives, reconnects softly, restarts and stops, and the tasks and      *)
(* timers that ask it to play and to stop through three binary semaphores. *)
(*                                                                         *)
(* What is received is abstracted to what clientReceiveCallback decides;   *)
(* the stream buffer to whether it is empty (RingBuffer and Playback have  *)
(* the rest).                                                              *)
(***************************************************************************)
EXTENDS Integers

CONSTANTS
  Users,       (* tasks that serve a user: HTTP handlers, UART, telnet      *)
  UserOps,     (* what they ask for, of AllOps                              *)
  DialsFail,   (* may connect() fail?                                       *)
  NamesFail    (* may gethostbyname() fail?                                 *)

AllOps == {"stop", "post_stop", "station", "instant", "cli_instant", "save", "wake"}

STREAM_SOFT_RECONNECT_TIMEOUTS == 2
STREAM_SOFT_RECONNECT_MAX == 3
STREAM_STALL_RETRIES == 2

ASSUME StreamClientAssumption ==
  /\ UserOps \subseteq AllOps
  /\ DialsFail \in BOOLEAN /\ NamesFail \in BOOLEAN

VARIABLES
  sConnect, sConnected, sDisconnect,   (* the binary semaphores             *)
  cstatus,         (* how the next received block is to be understood       *)
  once,            (* instant play                                          *)
  playing,
  bufEmpty,        (* getBufferEmpty()                                      *)
  server,          (* is there a resolved address?                          *)
  cpc,             (* where clientTask is                                   *)
  bytes_read,      (* its sign: -1, 0, 1                                    *)
  cnterror, stallTimeouts, softTries, softReconnect, shortTimeout,
  upc,             (* where each user's task is                             *)
  op,              (* what it plays                                         *)
  held             (* it holds sConnected inside clientIsConnected          *)

sems   == <<sConnect, sConnected, sDisconnect>>
stream == <<cstatus, once, playing, bufEmpty, server>>
counts == <<cnterror, stallTimeouts, shortTimeout>>
soft   == <<softTries, softReconnect>>
users  == <<upc, op, held>>
svars  == <<sems, stream, counts, soft, cpc, bytes_read, users>>

Polling == {"off", "on", "check", "wait"}

TypeOK ==
  /\ sConnect \in BOOLEAN /\ sConnected \in BOOLEAN /\ sDisconnect \in BOOLEAN
  /\ cstatus \in {"C_HEADER", "C_HEADER1", "C_PLAYLIST", "C_PLAYLIST1", "C_DATA"}
  /\ once \in BOOLEAN /\ playing \in BOOLEAN
  /\ bufEmpty \in BOOLEAN /\ server \in BOOLEAN
  /\ cpc \in {"top", "await", "discard", "dial", "mark", "recv", "poll",
              "left", "forced", "drain", "stop", "close"}
  /\ bytes_read \in {-1, 0, 1}
  /\ cnterror \in 0..STREAM_STALL_RETRIES
  /\ stallTimeouts \in 0..STREAM_SOFT_RECONNECT_TIMEOUTS
  /\ softTries \in 0..STREAM_SOFT_RECONNECT_MAX
  /\ softReconnect \in BOOLEAN /\ shortTimeout \in BOOLEAN
  /\ upc \in [Users -> Polling \cup {"idle", "store", "stored", "connect", "resolve"}]
  /\ op \in [Users -> AllOps]
  /\ held \in [Users -> BOOLEAN]

Init ==
  /\ sConnect = FALSE /\ sConnected = FALSE /\ sDisconnect = FALSE
  /\ cstatus = "C_HEADER" /\ once = FALSE
  /\ playing = FALSE /\ bufEmpty = TRUE /\ server = FALSE
  /\ cpc = "top" /\ bytes_read = 0
  /\ cnterror = 0 /\ stallTimeouts = 0 /\ shortTimeout = FALSE
  /\ softTries = 0 /\ softReconnect = FALSE
  /\ upc = [u \in Users |-> "idle"]
  /\ op = [u \in Users |-> "stop"]
  /\ held = [u \in Users |-> FALSE]
------------------------------------------------------------------------------
(* The requests.  A give to a binary semaphore that is full is lost. *)

clientDisconnect == sDisconnect' = TRUE

(* clientConnect, clientConnectOnce: the state is set, the name resolved   *)
(* into the shared pointer, and the connection asked for, or stopped.      *)
Resolve ==
  \E found \in IF NamesFail THEN BOOLEAN ELSE {TRUE} :
    /\ server' = found
    /\ sConnect' = (sConnect \/ found)
    /\ sDisconnect' = (sDisconnect \/ ~found)

(* clientSilentConnect uses the address resolved last. *)
clientSilentConnect ==
  /\ cstatus' = "C_HEADER" /\ once' = FALSE
  /\ sConnect' = (sConnect \/ server)
------------------------------------------------------------------------------
(* Plausible bugs, each put in the place of the definition it names. *)

Stalled == playing /\ ~once /\ shortTimeout

LeaveSoftlyWithReset ==
  /\ cpc = "left"
  /\ softReconnect
  /\ softReconnect' = FALSE
  /\ bufEmpty' = TRUE
  /\ cstatus' = "C_HEADER"
  /\ sConnect' = TRUE
  /\ cpc' = "top"
  /\ UNCHANGED <<sConnected, sDisconnect, once, playing, server,
                 counts, softTries, bytes_read, users>>

LeaveSoftlyAgain ==
  /\ cpc = "left"
  /\ softReconnect
  /\ cstatus' = "C_HEADER"
  /\ sConnect' = TRUE
  /\ cpc' = "top"
  /\ UNCHANGED <<sConnected, sDisconnect, once, playing, bufEmpty, server,
                 counts, soft, bytes_read, users>>

StopPlayingKeeps ==
  /\ cpc = "stop"
  /\ bufEmpty' = (bufEmpty \/ playing)
  /\ cpc' = "close"
  /\ UNCHANGED <<sems, cstatus, once, playing, server, counts, soft, bytes_read, users>>

PeekGiveNothing(u) ==
  /\ held[u]
  /\ held' = [held EXCEPT ![u] = FALSE]
  /\ upc' = [upc EXCEPT ![u] = IF upc[u] = "off" THEN "connect" ELSE "idle"]
  /\ UNCHANGED <<sems, stream, counts, soft, cpc, bytes_read, op>>
------------------------------------------------------------------------------
(* clientTask *)

(* The locals of the receive loop are dead here, until the next connection *)
(* sets them: they are cleared.                                            *)
GiveConnected ==
  /\ cpc = "top"
  /\ sConnected' = TRUE
  /\ cpc' = "await"
  /\ bytes_read' = 0
  /\ cnterror' = 0 /\ stallTimeouts' = 0 /\ shortTimeout' = FALSE
  /\ UNCHANGED <<sConnect, sDisconnect, stream, soft, users>>

TakeConnect ==
  /\ cpc = "await"
  /\ sConnect
  /\ sConnect' = FALSE
  /\ cpc' = "discard"
  /\ UNCHANGED <<sConnected, sDisconnect, stream, counts, soft, bytes_read, users>>

(* A request to stop that is still there is thrown away. *)
DiscardStop ==
  /\ cpc = "discard"
  /\ sDisconnect' = FALSE
  /\ cpc' = "dial"
  /\ UNCHANGED <<sConnect, sConnected, stream, counts, soft, bytes_read, users>>

(* The socket, the address and connect(); a playlist is asked for when the *)
(* path looks like one.                                                    *)
DialSucceeds ==
  /\ cpc = "dial" /\ server
  /\ bytes_read' = 0
  /\ cstatus' \in {cstatus, "C_PLAYLIST"}
  /\ cpc' = "mark"
  /\ UNCHANGED <<sems, once, playing, bufEmpty, server, counts, soft, users>>

(* "Invalid address": back to the top; nothing else is undone. *)
DialFails ==
  /\ cpc = "dial" /\ server
  /\ DialsFail
  /\ bytes_read' = 0
  /\ clientDisconnect
  /\ cpc' = "top"
  /\ UNCHANGED <<sConnect, sConnected, stream, counts, soft, users>>

(* server->h_addr_list with a null server: the load faults, and the chip   *)
(* restarts with nothing asked for.                                        *)
DialFaults ==
  /\ cpc = "dial" /\ ~server
  /\ sConnect' = FALSE /\ sConnected' = FALSE /\ sDisconnect' = FALSE
  /\ cstatus' = "C_HEADER" /\ once' = FALSE
  /\ playing' = FALSE /\ bufEmpty' = TRUE /\ server' = FALSE
  /\ cpc' = "top" /\ bytes_read' = 0
  /\ cnterror' = 0 /\ stallTimeouts' = 0 /\ shortTimeout' = FALSE
  /\ softTries' = 0 /\ softReconnect' = FALSE
  /\ upc' = [u \in Users |-> "idle"]
  /\ op' = [u \in Users |-> "stop"]
  /\ held' = [u \in Users |-> FALSE]

(* The client says that it is connected, and starts to receive. *)
TakeConnected ==
  /\ cpc = "mark"
  /\ sConnected' = FALSE
  /\ cnterror' = 0 /\ stallTimeouts' = 0 /\ shortTimeout' = FALSE
  /\ cpc' = "recv"
  /\ UNCHANGED <<sConnect, sDisconnect, stream, soft, bytes_read, users>>
------------------------------------------------------------------------------
(* recvfrom has delivered a block.  What each kind of block leads to in    *)
(* clientReceiveCallback comes below; here is what is around it.            *)
Received ==
  /\ cpc = "recv"
  /\ bytes_read' = 1
  /\ cnterror' = 0 /\ stallTimeouts' = 0
  /\ softTries' = IF cstatus' = "C_DATA" THEN 0 ELSE softTries
  /\ shortTimeout' = (shortTimeout \/ playing')
  /\ cpc' = "poll"
  /\ UNCHANGED <<sConnected, softReconnect, users>>

NoAudio == UNCHANGED <<playing, bufEmpty>>

(* What there is of audio goes to the buffer, and playing may start: at    *)
(* once for an instant play, with enough in the buffer for a station.      *)
SomeAudio ==
  /\ bufEmpty' \in {bufEmpty, FALSE}
  /\ \/ playing' = TRUE /\ (playing \/ once \/ ~bufEmpty')
     \/ ~once /\ UNCHANGED playing

ReceiveNotFound ==
  /\ cstatus # "C_DATA"
  /\ clientDisconnect
  /\ cstatus' = "C_HEADER"
  /\ NoAudio
  /\ UNCHANGED <<sConnect, once, server>>
  /\ Received

(* A playlist, in one block or in two; it is followed after the close. *)
ReceivePlaylist ==
  /\ \/ cstatus = "C_PLAYLIST" /\ cstatus' = "C_PLAYLIST1" /\ UNCHANGED sDisconnect
     \/ cstatus \in {"C_PLAYLIST", "C_PLAYLIST1"} /\ cstatus' = "C_PLAYLIST"
        /\ clientDisconnect
  /\ NoAudio
  /\ UNCHANGED <<sConnect, once, server>>
  /\ Received

(* A redirection counts as a playlist. *)
ReceiveMoved ==
  /\ cstatus = "C_HEADER"
  /\ clientDisconnect
  /\ cstatus' = "C_PLAYLIST"
  /\ NoAudio
  /\ UNCHANGED <<sConnect, once, server>>
  /\ Received

(* The header ends; after an "Internal Server Error" too its body counts   *)
(* as audio.  The rest of the block may hold audio.                        *)
ReceiveHeader ==
  /\ cstatus \in {"C_HEADER", "C_HEADER1"}
  /\ sDisconnect' \in {sDisconnect, TRUE}
  /\ cstatus' = "C_DATA"
  /\ NoAudio \/ SomeAudio
  /\ UNCHANGED <<sConnect, once, server>>
  /\ Received

(* The header does not end within six more reads. *)
ReceiveNoHeader ==
  /\ cstatus \in {"C_HEADER", "C_HEADER1"}
  /\ clientDisconnect
  /\ cstatus' = "C_HEADER1"
  /\ NoAudio
  /\ UNCHANGED <<sConnect, once, server>>
  /\ Received

ReceiveData ==
  /\ cstatus = "C_DATA"
  /\ SomeAudio
  /\ UNCHANGED <<sConnect, sDisconnect, cstatus, once, server>>
  /\ Received

(* The chunk structure is broken, in the first data behind the header or   *)
(* later: disconnect and connect again; what was there of the block is     *)
(* still written.                                                          *)
ReceiveBrokenChunk ==
  /\ cstatus \in {"C_HEADER", "C_HEADER1", "C_DATA"}
  /\ cstatus' = "C_HEADER" /\ once' = FALSE
  /\ sDisconnect' = TRUE
  /\ \/ sConnect' = TRUE /\ server' = TRUE
     \/ NamesFail /\ server' = FALSE /\ UNCHANGED sConnect
  /\ bufEmpty' \in {bufEmpty, FALSE}
  /\ playing' \in {playing, ~bufEmpty'}
  /\ playing => playing'
  /\ Received
------------------------------------------------------------------------------
(* recvfrom has delivered nothing: a timeout, the end of the stream or an  *)
(* error.                                                                  *)

SoftBreak ==
  /\ Stalled
  /\ stallTimeouts + 1 >= STREAM_SOFT_RECONNECT_TIMEOUTS
  /\ softTries < STREAM_SOFT_RECONNECT_MAX

Quiet ==
  /\ cpc = "recv"
  /\ bytes_read' \in {-1, 0}
  /\ cnterror' = IF bufEmpty /\ cnterror < STREAM_STALL_RETRIES
                 THEN cnterror + 1 ELSE cnterror
  /\ stallTimeouts' = IF Stalled /\ stallTimeouts < STREAM_SOFT_RECONNECT_TIMEOUTS
                      THEN stallTimeouts + 1 ELSE stallTimeouts
  /\ UNCHANGED <<sems, stream, shortTimeout, users>>

(* The connection is to be replaced; sDisconnect is not looked at. *)
QuietSoftReconnect ==
  /\ Quiet
  /\ SoftBreak
  /\ softTries' = softTries + 1
  /\ softReconnect' = TRUE
  /\ cpc' = "left"

(* The loop goes on, unless errno is 128. *)
QuietWaits ==
  /\ Quiet
  /\ ~SoftBreak
  /\ cnterror' < STREAM_STALL_RETRIES
  /\ cpc' \in {"poll", "left"}
  /\ UNCHANGED soft

QuietBreaks ==
  /\ Quiet
  /\ ~SoftBreak
  /\ cnterror' = STREAM_STALL_RETRIES
  /\ cpc' = "left"
  /\ UNCHANGED soft

(* The end of the receive loop: a request to stop, and the loop condition. *)
PollDisconnect ==
  /\ cpc = "poll"
  /\ sDisconnect
  /\ sDisconnect' = FALSE
  /\ cpc' = "left"
  /\ UNCHANGED <<sConnect, sConnected, stream, counts, soft, bytes_read, users>>

PollGoesOn ==
  /\ cpc = "poll"
  /\ ~sDisconnect
  /\ cpc' = IF bytes_read > 0 \/ (playing /\ bytes_read = 0) THEN "recv" ELSE "left"
  /\ UNCHANGED <<sems, stream, counts, soft, bytes_read, users>>
------------------------------------------------------------------------------
(* After the loop. *)

LeaveSoftly ==
  /\ cpc = "left"
  /\ softReconnect
  /\ softReconnect' = FALSE
  /\ cstatus' = "C_HEADER"
  /\ sConnect' = TRUE
  /\ cpc' = "top"
  /\ UNCHANGED <<sConnected, sDisconnect, once, playing, bufEmpty, server,
                 counts, softTries, bytes_read, users>>

Left(ended) == cpc = "left" /\ ~softReconnect /\ ((bytes_read <= 0) = ended)

(* A request to stop ended the loop. *)
LeaveStopped ==
  /\ Left(FALSE)
  /\ cpc' = "stop"
  /\ UNCHANGED <<sems, stream, counts, soft, bytes_read, users>>

(* "try restart": a station that played is connected again. *)
LeaveRestart ==
  /\ Left(TRUE)
  /\ playing /\ ~once
  /\ cstatus' = "C_HEADER"
  /\ sDisconnect' = TRUE
  /\ \/ sConnect' = TRUE /\ server' = TRUE
     \/ NamesFail /\ server' = FALSE /\ UNCHANGED sConnect
  /\ cpc' = "stop"
  /\ UNCHANGED <<sConnected, once, playing, bufEmpty, counts, soft, bytes_read, users>>

(* An instant play that never started: what there is of it is played. *)
LeaveUnplayed ==
  /\ Left(TRUE)
  /\ ~playing /\ once
  /\ playing' = ~bufEmpty
  /\ cpc' = IF bufEmpty THEN "stop" ELSE "forced"
  /\ UNCHANGED <<sems, cstatus, once, bufEmpty, server, counts, soft, bytes_read, users>>

LeaveNotFound ==
  /\ Left(TRUE)
  /\ ~playing /\ ~once
  /\ clientDisconnect
  /\ cpc' = "stop"
  /\ UNCHANGED <<sConnect, sConnected, stream, counts, soft, bytes_read, users>>

LeaveOnce ==
  /\ Left(TRUE)
  /\ playing /\ once
  /\ cpc' = "drain"
  /\ UNCHANGED <<sems, stream, counts, soft, bytes_read, users>>

Drained ==
  /\ cpc \in {"forced", "drain"}
  /\ bufEmpty
  /\ playing' = (playing /\ cpc # "forced")
  /\ clientDisconnect
  /\ cpc' = "stop"
  /\ UNCHANGED <<sConnect, sConnected, cstatus, once, bufEmpty, server,
                 counts, soft, bytes_read, users>>

StopPlaying ==
  /\ cpc = "stop"
  /\ bufEmpty' = (bufEmpty \/ playing)
  /\ playing' = FALSE
  /\ cpc' = "close"
  /\ UNCHANGED <<sems, cstatus, once, server, counts, soft, bytes_read, users>>

(* The socket is closed and the buffer reset; a playlist is followed. *)
Close ==
  /\ cpc = "close"
  /\ bufEmpty' = TRUE
  /\ \/ cstatus = "C_PLAYLIST" /\ cstatus' = "C_HEADER" /\ once' = FALSE /\ Resolve
     \/ cstatus # "C_PLAYLIST" /\ UNCHANGED <<cstatus, once, server, sConnect, sDisconnect>>
  /\ cpc' = "top"
  /\ UNCHANGED <<sConnected, playing, counts, soft, bytes_read, users>>

Receives == \/ ReceiveNotFound \/ ReceivePlaylist \/ ReceiveMoved \/ ReceiveHeader
            \/ ReceiveNoHeader \/ ReceiveData \/ ReceiveBrokenChunk

clientTask ==
  \/ GiveConnected \/ TakeConnect \/ DiscardStop
  \/ DialSucceeds \/ DialFails \/ DialFaults \/ TakeConnected
  \/ Receives \/ QuietSoftReconnect \/ QuietWaits \/ QuietBreaks
  \/ PollDisconnect \/ PollGoesOn
  \/ LeaveSoftly \/ LeaveStopped \/ LeaveRestart \/ LeaveUnplayed
  \/ LeaveNotFound \/ LeaveOnce \/ Drained \/ StopPlaying \/ Close

(* vsTask plays the buffer empty. *)
vsTask ==
  /\ playing /\ ~bufEmpty
  /\ bufEmpty' = TRUE
  /\ UNCHANGED <<sems, cstatus, once, playing, server, counts, soft, cpc,
                 bytes_read, users>>
------------------------------------------------------------------------------
(* The users' tasks. *)

client == <<counts, soft, cpc, bytes_read>>

Goes(u, next) ==
  /\ upc' = [upc EXCEPT ![u] = next]
  /\ op' = IF next = "idle" THEN [op EXCEPT ![u] = "stop"] ELSE op

(* cli.stop, the stop buttons, the sleep timer: ask, and do not wait. *)
AskStop(u) ==
  /\ "stop" \in UserOps
  /\ upc[u] = "idle"
  /\ clientDisconnect
  /\ UNCHANGED <<sConnect, sConnected, stream, client, users>>

(* POST /stop first looks whether the client is connected. *)
AskPostStop(u) ==
  /\ "post_stop" \in UserOps
  /\ upc[u] = "idle"
  /\ upc' = [upc EXCEPT ![u] = "check"]
  /\ UNCHANGED <<sems, stream, client, op, held>>

(* playStationInt, POST /instant_play and cli.instant first disconnect;    *)
(* the last does not wait for the disconnection.                           *)
AskPlay(u, what) ==
  /\ what \in UserOps \cap {"station", "instant", "cli_instant"}
  /\ upc[u] = "idle"
  /\ clientDisconnect
  /\ op' = [op EXCEPT ![u] = what]
  /\ upc' = [upc EXCEPT ![u] = IF what = "cli_instant" THEN "connect" ELSE "off"]
  /\ UNCHANGED <<sConnect, sConnected, stream, client, held>>

(* POST /setStation while playing.  When memory is short, it stops the     *)
(* radio, writes the stations to flash, and starts the radio again if that *)
(* is what it finds stopped.                                               *)
AskSave(u) ==
  /\ "save" \in UserOps
  /\ upc[u] = "idle"
  /\ playing
  /\ op' = [op EXCEPT ![u] = "save"]
  /\ upc' = [upc EXCEPT ![u] = "store"]
  /\ UNCHANGED <<sems, stream, client, held>>

Store(u) ==
  /\ upc[u] = "store"
  /\ clientDisconnect
  /\ upc' = [upc EXCEPT ![u] = "stored"]
  /\ UNCHANGED <<sConnect, sConnected, stream, client, op, held>>

Stored(u) ==
  /\ upc[u] = "stored"
  /\ Goes(u, IF playing THEN "idle" ELSE "connect")
  /\ UNCHANGED <<sems, stream, client, held>>

(* wakeCallback, in a timer. *)
Wake ==
  /\ "wake" \in UserOps
  /\ sDisconnect' = TRUE
  /\ clientSilentConnect
  /\ UNCHANGED <<sConnected, playing, bufEmpty, server, client, users>>

(* clientIsConnected takes sConnected and gives it back ... *)
PeekTake(u) ==
  /\ upc[u] \in Polling
  /\ ~held[u]
  /\ sConnected
  /\ sConnected' = FALSE
  /\ held' = [held EXCEPT ![u] = TRUE]
  /\ UNCHANGED <<sConnect, sDisconnect, stream, client, upc, op>>

(* ... and then says "not connected". *)
PeekGive(u) ==
  /\ held[u]
  /\ sConnected' = TRUE
  /\ held' = [held EXCEPT ![u] = FALSE]
  /\ \/ upc[u] = "off" /\ Goes(u, "connect")
     \/ upc[u] = "on" /\ \E next \in {"on", "idle"} : Goes(u, next)
     \/ upc[u] \in {"check", "wait"} /\ Goes(u, "idle")
  /\ UNCHANGED <<sConnect, sDisconnect, stream, client>>

(* sConnected is not there: "connected".  The loops give up after 100      *)
(* polls.                                                                  *)
PeekMiss(u) ==
  /\ upc[u] \in Polling
  /\ ~held[u]
  /\ ~sConnected
  /\ \/ upc[u] = "off" /\ \E next \in {"off", "connect"} : Goes(u, next)
     \/ upc[u] = "on" /\ Goes(u, "idle")
     \/ upc[u] = "check" /\ Goes(u, "wait")
     \/ upc[u] = "wait" /\ \E next \in {"wait", "idle"} : Goes(u, next)
  /\ sDisconnect' = (sDisconnect \/ upc[u] = "check")
  /\ UNCHANGED <<sConnect, sConnected, stream, client, held>>

(* clientConnect or clientConnectOnce, in the user's task. *)
SetConnect(u) ==
  /\ upc[u] = "connect"
  /\ cstatus' = "C_HEADER"
  /\ once' = (op[u] \notin {"station", "save"})
  /\ upc' = [upc EXCEPT ![u] = "resolve"]
  /\ UNCHANGED <<sems, playing, bufEmpty, server, client, op, held>>

ResolveAndConnect(u) ==
  /\ upc[u] = "resolve"
  /\ Resolve
  /\ Goes(u, IF op[u] \in {"cli_instant", "save"} THEN "idle" ELSE "on")
  /\ UNCHANGED <<sConnected, cstatus, once, playing, bufEmpty, client, held>>

Proceed(u) == \/ PeekTake(u) \/ PeekGive(u) \/ PeekMiss(u)
              \/ SetConnect(u) \/ ResolveAndConnect(u) \/ Store(u) \/ Stored(u)
Ask(u) == \/ AskStop(u) \/ AskPostStop(u) \/ AskSave(u)
          \/ \E what \in UserOps : AskPlay(u, what)

Next ==
  \/ clientTask \/ vsTask \/ Wake
  \/ \E u \in Users : Ask(u) \/ Proceed(u)

Spec == Init /\ [][Next]_svars

(* Every call clientTask blocks in has a timeout, except its wait for      *)
(* sConnect; vsTask runs while playing; a request once made is carried     *)
(* through.  Nobody has to ask for anything.                               *)
FairSpec ==
  /\ Spec
  /\ WF_svars(clientTask) /\ WF_svars(vsTask)
  /\ \A u \in Users : WF_svars(Proceed(u))
------------------------------------------------------------------------------
(* When clientTask waits for work, whoever asks is told "not connected",   *)
(* unless another is asking right now: a lost sConnected would leave       *)
(* playStationInt waiting at every change of station.                      *)
IdleIsAnnounced ==
  cpc = "await" /\ (\A u \in Users : ~held[u]) => sConnected

(* A soft reconnect happens "without touching the buffer or the playback"  *)
(* (webclient.c:45): from the stall to the next receive the buffer is      *)
(* emptied by vsTask alone, and playing stays.                             *)
SoftlyReplaced ==
  [][softReconnect \/ (cpc \in {"top", "await", "discard", "dial"} /\ playing) =>
       \/ DialFaults
       \/ playing' = playing /\ (bufEmpty' = bufEmpty \/ vsTask)]_svars

(* A request to stop that clientTask sees right after a block of data      *)
(* silences the radio (webclient.c:1288).                                  *)
StopTaken == (cpc = "poll" /\ sDisconnect /\ bytes_read > 0) ~> ~playing

(* If from some time on nothing is received any more and nobody asks to    *)
(* play, the soft reconnects and the restart come to an end: the buffer is *)
(* played out, and the client rests.  (A playlist whose server accepts the *)
(* connection and never answers is dialled for ever.)                      *)
Asks == Wake \/ \E u \in Users : AskSave(u) \/ \E what \in UserOps : AskPlay(u, what)
SilenceEnds ==
  <>[][~Receives /\ ~Asks /\ ~(DialSucceeds /\ cstatus' = "C_PLAYLIST")]_svars
    => <>[](cpc = "await" /\ ~sConnect /\ bufEmpty)
==============================================================================
