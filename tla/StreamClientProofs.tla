-------------------------- MODULE StreamClientProofs --------------------------
(***************************************************************************)
(* Proofs about StreamClient, for any set of users and any of their        *)
(* requests.                                                               *)
(***************************************************************************)
EXTENDS StreamClient, TLAPS

(* A soft reconnect is decided on at the end of the receive loop, and done *)
(* right behind it, while the radio plays.                                 *)
SoftIsLeft == softReconnect => cpc = "left" /\ playing

IInv == TypeOK /\ IdleIsAnnounced /\ SoftIsLeft
------------------------------------------------------------------------------
(* The type invariant, in four parts.                                      *)
StreamOK ==
  /\ cstatus \in {"C_HEADER", "C_HEADER1", "C_PLAYLIST", "C_PLAYLIST1", "C_DATA"}
  /\ once \in BOOLEAN /\ playing \in BOOLEAN
  /\ bufEmpty \in BOOLEAN /\ server \in BOOLEAN
SemsOK == sConnect \in BOOLEAN /\ sConnected \in BOOLEAN /\ sDisconnect \in BOOLEAN
UsersOK ==
  /\ upc \in [Users -> Polling \cup {"idle", "store", "stored", "connect", "resolve"}]
  /\ op \in [Users -> AllOps]
  /\ held \in [Users -> BOOLEAN]
LoopOK ==
  /\ cpc \in {"top", "await", "discard", "dial", "mark", "recv", "poll",
              "left", "forced", "drain", "stop", "close"}
  /\ bytes_read \in {-1, 0, 1}
  /\ cnterror \in 0..STREAM_STALL_RETRIES
  /\ stallTimeouts \in 0..STREAM_SOFT_RECONNECT_TIMEOUTS
  /\ softTries \in 0..STREAM_SOFT_RECONNECT_MAX
  /\ softReconnect \in BOOLEAN /\ shortTimeout \in BOOLEAN

LEMMA TypeParts == TypeOK <=> SemsOK /\ StreamOK /\ UsersOK /\ LoopOK
BY Zenon DEF TypeOK, SemsOK, StreamOK, UsersOK, LoopOK

LEMMA PartsType == SemsOK' /\ StreamOK' /\ UsersOK' /\ LoopOK' => TypeOK'
BY Zenon DEF TypeOK, SemsOK, StreamOK, UsersOK, LoopOK

(* Zero is in the range of every counter. *)
LEMMA ZeroFits ==
  /\ 0 \in 0..STREAM_STALL_RETRIES
  /\ 0 \in 0..STREAM_SOFT_RECONNECT_TIMEOUTS
  /\ 0 \in 0..STREAM_SOFT_RECONNECT_MAX
BY DEF STREAM_SOFT_RECONNECT_TIMEOUTS, STREAM_SOFT_RECONNECT_MAX, STREAM_STALL_RETRIES

(* The program starts well: nothing is asked for and nothing plays.        *)
LEMMA InitHolds == Init => IInv
<1> SUFFICES ASSUME Init PROVE IInv
  OBVIOUS
<1> USE DEF Init
<1>1. SemsOK /\ StreamOK BY DEF SemsOK, StreamOK
<1>2. UsersOK BY DEF UsersOK, AllOps, Polling
<1>3. LoopOK
  <2>1. softReconnect \in BOOLEAN /\ shortTimeout \in BOOLEAN OBVIOUS
  <2> QED BY <2>1, ZeroFits DEF LoopOK
<1>4. IdleIsAnnounced /\ SoftIsLeft BY DEF IdleIsAnnounced, SoftIsLeft
<1> QED BY <1>1, <1>2, <1>3, <1>4, TypeParts DEF IInv

(* A restart of the chip leads to the initial state.                       *)
LEMMA FaultInits == DialFaults => Init'
BY DEF DialFaults, Init

(* Every step of clientTask up to the receive loop keeps the variables in  *)
(* their types.                                                            *)
LEMMA DialTypes ==
  ASSUME TypeOK,
         \/ GiveConnected \/ TakeConnect \/ DiscardStop
         \/ DialSucceeds \/ DialFails \/ TakeConnected
  PROVE  TypeOK'
<1> USE DEF TypeOK, sems, stream, counts, soft, users, clientDisconnect
<1>1. CASE GiveConnected
  <2>1. shortTimeout' \in BOOLEAN /\ softReconnect' \in BOOLEAN BY <1>1 DEF GiveConnected
  <2> QED BY <1>1, <2>1, ZeroFits, Zenon DEF GiveConnected
<1>2. CASE TakeConnect BY <1>2 DEF TakeConnect
<1>3. CASE DiscardStop BY <1>3 DEF DiscardStop
<1>4. CASE DialSucceeds BY <1>4 DEF DialSucceeds
<1>5. CASE DialFails BY <1>5 DEF DialFails
<1>6. CASE TakeConnected
  <2>1. shortTimeout' \in BOOLEAN /\ softReconnect' \in BOOLEAN BY <1>6 DEF TakeConnected
  <2> QED BY <1>6, <2>1, ZeroFits, Zenon DEF TakeConnected
<1> QED BY <1>1, <1>2, <1>3, <1>4, <1>5, <1>6

(* What is around the callback keeps the types if the callback does ...    *)
LEMMA ReceivedTypes ==
  ASSUME TypeOK, Received, StreamOK', sConnect' \in BOOLEAN, sDisconnect' \in BOOLEAN
  PROVE  TypeOK'
<1>1. SemsOK' BY DEF Received, TypeOK, SemsOK
<1>2. UsersOK' BY DEF Received, TypeOK, UsersOK, users
<1>3. LoopOK'
  BY DEF Received, TypeOK, StreamOK, LoopOK, STREAM_SOFT_RECONNECT_TIMEOUTS,
         STREAM_SOFT_RECONNECT_MAX, STREAM_STALL_RETRIES
<1> QED BY <1>1, <1>2, <1>3, PartsType

(* ... and it does, whatever block it gets.                                *)
LEMMA ReceiveTypes == ASSUME TypeOK, Receives PROVE TypeOK'
<1> DEFINE Ok == StreamOK' /\ sConnect' \in BOOLEAN /\ sDisconnect' \in BOOLEAN
<1>0. Received BY DEF Receives, ReceiveNotFound, ReceivePlaylist, ReceiveMoved,
         ReceiveHeader, ReceiveNoHeader, ReceiveData, ReceiveBrokenChunk
<1> SUFFICES Ok
  BY <1>0, ReceivedTypes
<1> USE DEF TypeOK, StreamOK, clientDisconnect, NoAudio, SomeAudio
<1>1. CASE ReceiveNotFound BY <1>1 DEF ReceiveNotFound
<1>2. CASE ReceivePlaylist BY <1>2 DEF ReceivePlaylist
<1>3. CASE ReceiveMoved BY <1>3 DEF ReceiveMoved
<1>4. CASE ReceiveHeader BY <1>4 DEF ReceiveHeader
<1>5. CASE ReceiveNoHeader BY <1>5 DEF ReceiveNoHeader
<1>6. CASE ReceiveData BY <1>6 DEF ReceiveData
<1>7. CASE ReceiveBrokenChunk BY <1>7 DEF ReceiveBrokenChunk
<1> QED BY <1>1, <1>2, <1>3, <1>4, <1>5, <1>6, <1>7 DEF Receives

(* ... and every receive that brings nothing, and the end of the loop.     *)
LEMMA QuietTypes ==
  ASSUME TypeOK, QuietSoftReconnect \/ QuietWaits \/ QuietBreaks \/ PollDisconnect \/ PollGoesOn
  PROVE  TypeOK'
<1> USE DEF TypeOK, sems, stream, counts, soft, users, AllOps, Polling,
            Quiet, SoftBreak, Stalled,
            STREAM_SOFT_RECONNECT_TIMEOUTS, STREAM_SOFT_RECONNECT_MAX, STREAM_STALL_RETRIES
<1>1. CASE QuietSoftReconnect BY <1>1 DEF QuietSoftReconnect
<1>2. CASE QuietWaits BY <1>2 DEF QuietWaits
<1>3. CASE QuietBreaks BY <1>3 DEF QuietBreaks
<1>4. CASE PollDisconnect BY <1>4 DEF PollDisconnect
<1>5. CASE PollGoesOn BY <1>5 DEF PollGoesOn
<1> QED BY <1>1, <1>2, <1>3, <1>4, <1>5

(* What follows the loop, and the decoder task.                            *)
LEMMA LeaveTypes ==
  ASSUME TypeOK,
         \/ LeaveSoftly \/ LeaveStopped \/ LeaveRestart \/ LeaveUnplayed
         \/ LeaveNotFound \/ LeaveOnce \/ Drained \/ StopPlaying \/ Close \/ vsTask
  PROVE  TypeOK'
<1> USE DEF TypeOK, sems, stream, counts, soft, users, clientDisconnect, Left, AllOps, Polling
<1>1. CASE LeaveSoftly BY <1>1 DEF LeaveSoftly
<1>2. CASE LeaveStopped BY <1>2 DEF LeaveStopped
<1>3. CASE LeaveRestart BY <1>3 DEF LeaveRestart
<1>4. CASE LeaveUnplayed BY <1>4 DEF LeaveUnplayed
<1>5. CASE LeaveNotFound BY <1>5 DEF LeaveNotFound
<1>6. CASE LeaveOnce BY <1>6 DEF LeaveOnce
<1>7. CASE Drained BY <1>7 DEF Drained
<1>8. CASE StopPlaying BY <1>8 DEF StopPlaying
<1>9. CASE Close BY <1>9 DEF Close, Resolve
<1>10. CASE vsTask BY <1>10 DEF vsTask
<1> QED BY <1>1, <1>2, <1>3, <1>4, <1>5, <1>6, <1>7, <1>8, <1>9, <1>10

(* A user's task moves on: its place and its errand keep their types.      *)
LEMMA GoesTypes ==
  ASSUME NEW u \in Users, NEW next, next \in Polling \cup {"idle", "connect", "resolve"},
         TypeOK, Goes(u, next)
  PROVE  /\ upc' \in [Users -> Polling \cup {"idle", "store", "stored", "connect", "resolve"}]
         /\ op' \in [Users -> AllOps]
BY DEF Goes, TypeOK, AllOps

(* The requests, and the steps that carry them through.                    *)
LEMMA UserTypes ==
  ASSUME TypeOK, NEW u \in Users, Ask(u) \/ Proceed(u)
  PROVE  TypeOK'
<1> USE DEF sems, stream, client, counts, soft, users, clientDisconnect
<1>1. CASE AskStop(u) BY <1>1 DEF AskStop, TypeOK
<1>2. CASE AskPostStop(u) BY <1>2 DEF AskPostStop, TypeOK, Polling
<1>3. CASE AskSave(u) BY <1>3 DEF AskSave, TypeOK, AllOps
<1>4. ASSUME NEW what \in UserOps, AskPlay(u, what) PROVE TypeOK'
  BY <1>4 DEF AskPlay, TypeOK, AllOps, Polling
<1>5. CASE PeekTake(u)
  <2>1. SemsOK' BY <1>5 DEF PeekTake, TypeOK, SemsOK
  <2>2. StreamOK' /\ LoopOK' BY <1>5, Zenon DEF PeekTake, TypeOK, StreamOK, LoopOK
  <2>3. UsersOK' BY <1>5 DEF PeekTake, TypeOK, UsersOK
  <2> QED BY <2>1, <2>2, <2>3, PartsType
<1>6. CASE PeekGive(u)
  BY <1>6, GoesTypes DEF PeekGive, TypeOK, Polling
<1>7. CASE PeekMiss(u)
  BY <1>7, GoesTypes DEF PeekMiss, TypeOK, Polling
<1>8. CASE SetConnect(u) BY <1>8 DEF SetConnect, TypeOK
<1>9. CASE ResolveAndConnect(u)
  <2>1. SemsOK' /\ server' \in BOOLEAN
    BY <1>9 DEF ResolveAndConnect, Resolve, TypeOK, SemsOK
  <2>2. StreamOK' /\ LoopOK'
    BY <1>9, <2>1, Zenon DEF ResolveAndConnect, TypeOK, StreamOK, LoopOK
  <2>3. UsersOK'
    BY <1>9, GoesTypes DEF ResolveAndConnect, TypeOK, UsersOK, Polling
  <2> QED BY <2>1, <2>2, <2>3, PartsType
<1>10. CASE Store(u) BY <1>10 DEF Store, TypeOK
<1>11. CASE Stored(u)
  BY <1>11, GoesTypes DEF Stored, TypeOK, Polling
<1> QED
  BY <1>1, <1>2, <1>3, <1>4, <1>5, <1>6, <1>7, <1>8, <1>9, <1>10, <1>11
  DEF Ask, Proceed
(* Every step but the restart of the chip keeps the types. *)
LEMMA NextTypes == ASSUME TypeOK, [Next]_svars, ~DialFaults PROVE TypeOK'
<1>1. CASE UNCHANGED svars
  <2> USE <1>1 DEF svars, sems, stream, counts, soft, users, TypeOK
  <2>1. SemsOK' /\ StreamOK' BY DEF SemsOK, StreamOK
  <2>2. UsersOK' BY DEF UsersOK
  <2>3. LoopOK' BY DEF LoopOK
  <2> QED BY <2>1, <2>2, <2>3, PartsType
<1>2. CASE clientTask
  BY <1>2, DialTypes, ReceiveTypes, QuietTypes, LeaveTypes DEF clientTask
<1>3. CASE vsTask BY <1>3, LeaveTypes
<1>4. CASE Wake
  <2>1. SemsOK' /\ StreamOK'
    BY <1>4 DEF Wake, clientSilentConnect, TypeOK, SemsOK, StreamOK
  <2>2. UsersOK' /\ LoopOK'
    BY <1>4, Zenon DEF Wake, client, counts, soft, users, TypeOK, UsersOK, LoopOK
  <2> QED BY <2>1, <2>2, PartsType
<1>5. ASSUME NEW u \in Users, Ask(u) \/ Proceed(u) PROVE TypeOK'
  BY <1>5, UserTypes
<1> QED BY <1>1, <1>2, <1>3, <1>4, <1>5 DEF Next
------------------------------------------------------------------------------
(* sConnected is taken by whoever looks, and given back by the same: while *)
(* the client waits for work it is either there or held.                   *)
LEMMA NextAnnounces ==
  ASSUME TypeOK, IdleIsAnnounced, [Next]_svars, ~DialFaults PROVE IdleIsAnnounced'
<1> USE DEF IdleIsAnnounced
<1>1. CASE UNCHANGED svars BY <1>1 DEF svars, sems, users
<1>2. CASE clientTask
  <2>1. CASE GiveConnected BY <2>1 DEF GiveConnected
  <2>2. ASSUME ~GiveConnected PROVE cpc' # "await"
    BY <1>2, <2>2 DEF clientTask, TakeConnect, DiscardStop, DialSucceeds, DialFails,
       TakeConnected, Receives, ReceiveNotFound, ReceivePlaylist, ReceiveMoved,
       ReceiveHeader, ReceiveNoHeader, ReceiveData, ReceiveBrokenChunk, Received,
       QuietSoftReconnect, QuietWaits, QuietBreaks, PollDisconnect, PollGoesOn,
       LeaveSoftly, LeaveStopped, LeaveRestart, LeaveUnplayed, LeaveNotFound,
       LeaveOnce, Drained, StopPlaying, Close
  <2> QED BY <2>1, <2>2
<1>3. CASE vsTask BY <1>3 DEF vsTask, sems, users
<1>4. CASE Wake BY <1>4 DEF Wake, client, users
<1>5. ASSUME NEW u \in Users, Ask(u) PROVE IdleIsAnnounced'
  BY <1>5 DEF Ask, AskStop, AskPostStop, AskSave, AskPlay, client, sems, users
<1>6. ASSUME NEW u \in Users, Proceed(u) PROVE IdleIsAnnounced'
  <2>1. CASE PeekTake(u)
    <3>1. held'[u] BY <2>1 DEF PeekTake, TypeOK
    <3> QED BY <3>1
  <2>2. CASE PeekGive(u) BY <2>2 DEF PeekGive
  <2>3. CASE PeekMiss(u) BY <2>3 DEF PeekMiss, client
  <2>4. CASE SetConnect(u) \/ ResolveAndConnect(u) \/ Store(u) \/ Stored(u)
    BY <2>4 DEF SetConnect, ResolveAndConnect, Store, Stored, client, sems
  <2> QED BY <1>6, <2>1, <2>2, <2>3, <2>4 DEF Proceed
<1> QED BY <1>1, <1>2, <1>3, <1>4, <1>5, <1>6 DEF Next

(* What a user's task and the wake timer do leaves the client where it is, *)
(* the buffer and the playback alone.                                      *)
LEMMA UsersLeaveAlone ==
  ASSUME Wake \/ \E u \in Users : Ask(u) \/ Proceed(u)
  PROVE  UNCHANGED <<cpc, softReconnect, playing, bufEmpty>>
<1>1. CASE Wake BY <1>1 DEF Wake, client, soft
<1>2. ASSUME NEW u \in Users, Ask(u) PROVE UNCHANGED <<cpc, softReconnect, playing, bufEmpty>>
  BY <1>2 DEF Ask, AskStop, AskPostStop, AskSave, AskPlay, stream, client, soft
<1>3. ASSUME NEW u \in Users, Proceed(u) PROVE UNCHANGED <<cpc, softReconnect, playing, bufEmpty>>
  BY <1>3 DEF Proceed, PeekTake, PeekGive, PeekMiss, SetConnect, ResolveAndConnect,
     Store, Stored, stream, client, soft
<1> QED BY <1>1, <1>2, <1>3

(* A soft reconnect is done as soon as it is decided on.                   *)
LEMMA NextIsSoft == ASSUME SoftIsLeft, [Next]_svars PROVE SoftIsLeft'
<1> USE DEF SoftIsLeft
<1>1. CASE UNCHANGED svars BY <1>1 DEF svars, soft, stream
<1>2. CASE clientTask
  <2>1. CASE cpc = "left"
    BY <1>2, <2>1 DEF clientTask, GiveConnected, TakeConnect, DiscardStop, DialSucceeds,
       DialFails, DialFaults, TakeConnected, Receives, ReceiveNotFound, ReceivePlaylist,
       ReceiveMoved, ReceiveHeader, ReceiveNoHeader, ReceiveData, ReceiveBrokenChunk,
       Received, QuietSoftReconnect, QuietWaits, QuietBreaks, Quiet, PollDisconnect,
       PollGoesOn, LeaveSoftly, Left, LeaveStopped, LeaveRestart, LeaveUnplayed,
       LeaveNotFound, LeaveOnce, Drained, StopPlaying, Close, soft
  <2>2. CASE QuietSoftReconnect
    BY <2>2 DEF QuietSoftReconnect, Quiet, SoftBreak, Stalled, stream
  <2>3. CASE cpc # "left" /\ ~QuietSoftReconnect
    <3>1. ~softReconnect BY <2>3
    <3>2. ~softReconnect'
      BY <1>2, <2>3, <3>1 DEF clientTask, GiveConnected, TakeConnect, DiscardStop,
         DialSucceeds, DialFails, DialFaults, TakeConnected, Receives, ReceiveNotFound,
         ReceivePlaylist, ReceiveMoved, ReceiveHeader, ReceiveNoHeader, ReceiveData,
         ReceiveBrokenChunk, Received, QuietWaits, QuietBreaks, PollDisconnect,
         PollGoesOn, LeaveSoftly, Left, LeaveStopped, LeaveRestart, LeaveUnplayed,
         LeaveNotFound, LeaveOnce, Drained, StopPlaying, Close, soft
    <3> QED BY <3>2
  <2> QED BY <2>1, <2>2, <2>3
<1>3. CASE vsTask BY <1>3 DEF vsTask, soft
<1>4. CASE Wake \/ \E u \in Users : Ask(u) \/ Proceed(u)
  BY <1>4, UsersLeaveAlone
<1> QED BY <1>1, <1>2, <1>3, <1>4 DEF Next

(* Every step from a state that satisfies the invariant leads to one.      *)
LEMMA NextHolds == IInv /\ [Next]_svars => IInv'
<1> SUFFICES ASSUME IInv, [Next]_svars PROVE IInv'
  OBVIOUS
<1>1. CASE DialFaults
  <2>1. Init' BY <1>1, FaultInits
  <2>2. (Init => IInv)' BY InitHolds, PTL
  <2> QED BY <2>1, <2>2
<1>2. CASE ~DialFaults
  BY <1>2, NextTypes, NextAnnounces, NextIsSoft DEF IInv
<1> QED BY <1>1, <1>2

(* The inductive invariant holds in every reachable state.                 *)
THEOREM Invariance == Spec => []IInv
BY InitHolds, NextHolds, PTL DEF Spec

(* Type correctness of the stream client, for any users.                   *)
THEOREM TypeCorrect == Spec => []TypeOK
<1>1. IInv => TypeOK BY DEF IInv
<1> QED BY <1>1, Invariance, PTL

(* Whatever the users ask for, and whenever they look: a client that waits *)
(* for work is seen as not connected.                                      *)
THEOREM IdleAnnounced == Spec => []IdleIsAnnounced
<1>1. IInv => IdleIsAnnounced BY DEF IInv
<1> QED BY <1>1, Invariance, PTL
------------------------------------------------------------------------------
(* From the decision to reconnect softly to the next receive, only the     *)
(* decoder task changes the buffer, and nobody the playback.               *)
THEOREM SoftReconnectKeeps == Spec => SoftlyReplaced
<1> DEFINE Replacing == softReconnect \/ (cpc \in {"top", "await", "discard", "dial"} /\ playing)
           Keeps == \/ DialFaults
                    \/ playing' = playing /\ (bufEmpty' = bufEmpty \/ vsTask)
<1>1. IInv /\ [Next]_svars => [Replacing => Keeps]_svars
  <2> SUFFICES ASSUME SoftIsLeft, Next, Replacing, ~DialFaults
               PROVE  playing' = playing /\ (bufEmpty' = bufEmpty \/ vsTask)
    BY DEF IInv
  <2>1. cpc \in {"top", "await", "discard", "dial"} \/ (cpc = "left" /\ softReconnect)
    BY DEF SoftIsLeft
  <2>2. CASE clientTask
    BY <2>1, <2>2 DEF clientTask, GiveConnected, TakeConnect, DiscardStop, DialSucceeds,
       DialFails, TakeConnected, Receives, ReceiveNotFound, ReceivePlaylist,
       ReceiveMoved, ReceiveHeader, ReceiveNoHeader, ReceiveData, ReceiveBrokenChunk,
       Received, QuietSoftReconnect, QuietWaits, QuietBreaks, Quiet, PollDisconnect,
       PollGoesOn, LeaveSoftly, Left, LeaveStopped, LeaveRestart, LeaveUnplayed,
       LeaveNotFound, LeaveOnce, Drained, StopPlaying, Close, stream
  <2>3. CASE vsTask BY <2>3 DEF vsTask
  <2>4. CASE Wake \/ \E u \in Users : Ask(u) \/ Proceed(u)
    BY <2>4, UsersLeaveAlone
  <2> QED BY <2>2, <2>3, <2>4 DEF Next
<1> QED BY <1>1, Invariance, PTL DEF Spec, SoftlyReplaced
==============================================================================
