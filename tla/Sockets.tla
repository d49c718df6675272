------------------------------- MODULE Sockets -------------------------------
(***************************************************************************)
(* Who owns which socket: servers.c (serversTask accepts, watches and      *)
(* reads), serverclientTask of webserver.c (one task per HTTP connection), *)
(* the slots of websocket.c and telnet.c, and the tasks that broadcast to  *)
(* web sockets.                                                            *)
(*                                                                         *)
(* A descriptor is a small number that lwIP hands out again, the lowest    *)
(* free one first.  What is behind it is a connection, numbered in the     *)
(* order of being made; None is "no connection", Stream the socket of      *)
(* another task (the stream, the clock), which uses the same numbers.      *)
(* What peers send is a choice.  No task holds a lock: an action is what   *)
(* a task does between two points at which another can run.                *)
(***************************************************************************)
EXTENDS Integers, FiniteSets, FiniteSetsExt

CONSTANTS Fds,          \* descriptors, LWIP's small numbers
          NBCLIENT,     \* slots for web sockets
          NBCLIENTT,    \* slots for telnet
          Handlers,     \* the tasks semclient admits
          Radio,        \* tasks other than serversTask that broadcast
          MaxConns,     \* bound: connections in all
          MaxTells      \* bound: broadcasts in all

ASSUME SocketsAssumption ==
  /\ Fds \subseteq Nat \ {0} /\ IsFiniteSet(Fds)
  /\ {NBCLIENT, NBCLIENTT, MaxConns, MaxTells} \subseteq Nat
  /\ IsFiniteSet(Handlers) /\ "servers" \notin Radio

VARIABLES conn,      \* descriptor -> connection behind it
          nconn,     \* connections so far
          slot,      \* webserverclients[].socket; None if -1
          tslot,     \* telnetclients[]
          spc, sfd,  \* serversTask: where, and the descriptor it deals with
          hpc, hfd,  \* serverclientTasks: where, and client_sock
          havail,    \* websocketnewclient: available
          semclient, \* counting semaphore
          bpc, bidx, \* broadcasts: where, and i
          btarget,   \* the descriptor passed to websocketwrite
          omit,      \* websocketlimitedbroadcast: the sender
          ntell,     \* broadcasts so far
          member,    \* history: web sockets there from the start of a broadcast on
          reached,   \* history: connections a broadcast has written to
          streamfd,  \* the socket of another task, by its number
          leaked,    \* history: connections nobody will close
          stray      \* history: has a task closed the socket of another?

servers == <<spc, sfd>>
handlers == <<hpc, hfd, havail>>
tells == <<bpc, bidx, btarget, omit, ntell, reached>>
vars == <<conn, nconn, slot, tslot, servers, handlers, semclient, tells,
          streamfd, member, leaked, stray>>

None == 0
Stream == MaxConns + 1
Slots == 1..NBCLIENT
TSlots == 1..NBCLIENTT
Tellers == Radio \cup {"servers"}

FreeFds == {f \in Fds : conn[f] = None}

Occupied(table) == {table[i] : i \in DOMAIN table} \ {None}

(* The first slot that is free, None if there is none.                     *)
Available(table) ==
  LET free == {i \in DOMAIN table : table[i] = None}
  IN IF free = {} THEN None ELSE Min(free)

iswebsocket(f) == f \in Occupied(slot)

(* The slots after websocketremoveclient, telnetremoveclient.              *)
Without(table, f) == [i \in DOMAIN table |-> IF table[i] = f THEN None ELSE table[i]]

(* A web socket leaves: no broadcast owes it anything any more.            *)
Forget(f) == member' = [t \in Tellers |-> member[t] \ {conn[f]}]

Init ==
  /\ conn = [f \in Fds |-> None] /\ nconn = 0
  /\ slot = [i \in Slots |-> None] /\ tslot = [i \in TSlots |-> None]
  /\ spc = "loop" /\ sfd = None
  /\ hpc = [h \in Handlers |-> "free"] /\ hfd = [h \in Handlers |-> None]
  /\ havail = [h \in Handlers |-> None]
  /\ semclient = Cardinality(Handlers)
  /\ bpc = [t \in Tellers |-> "idle"] /\ bidx = [t \in Tellers |-> 1]
  /\ btarget = [t \in Tellers |-> None] /\ omit = [t \in Tellers |-> None]
  /\ ntell = 0
  /\ member = [t \in Tellers |-> {}] /\ reached = [t \in Tellers |-> {}]
  /\ streamfd = None /\ leaked = {} /\ stray = FALSE

-----------------------------------------------------------------------------
(* serversTask *)

(* select returns: a new connection on one of the ports, or something to read
   from a slot.  A round that serves several is as many rounds, each with one:
   what is still ready makes the next select return at once.               *)
Ready(table) == IF spc = "loop" THEN Occupied(table) ELSE {}

(* accept: the new connection gets the lowest descriptor that is free; if
   there is none accept fails, and is called again.                        *)
Accepted(next) ==
  /\ spc = "loop" /\ FreeFds # {} /\ nconn < MaxConns
  /\ sfd' = Min(FreeFds) /\ nconn' = nconn + 1
  /\ conn' = [conn EXCEPT ![Min(FreeFds)] = nconn + 1]
  /\ spc' = next
  /\ UNCHANGED <<slot, tslot, handlers, semclient, streamfd, tells, member, leaked, stray>>

AcceptWeb == Accepted("take")
AcceptTelnet == Accepted("telnet")

(* xSemaphoreTake(semclient, portMAX_DELAY) and xTaskCreate, which is tried
   until there is memory.                                                  *)
CreateHandler ==
  /\ spc = "take" /\ semclient > 0
  /\ semclient' = semclient - 1
  /\ \E h \in Handlers :
        /\ hpc[h] = "free"
        /\ hpc' = [hpc EXCEPT ![h] = "read"]
        /\ hfd' = [hfd EXCEPT ![h] = sfd]
  /\ spc' = "loop" /\ sfd' = None
  /\ UNCHANGED <<conn, nconn, slot, tslot, havail, streamfd, tells, member, leaked, stray>>

(* telnetAccept: a slot, the welcome.                                      *)
telnetAccept ==
  /\ spc = "telnet" /\ Available(tslot) # None
  /\ tslot' = [tslot EXCEPT ![Available(tslot)] = sfd]
  /\ spc' = "loop" /\ sfd' = None
  /\ UNCHANGED <<conn, nconn, slot, handlers, semclient, streamfd, tells, member, leaked, stray>>

(* telnetAccept: no slot, or no memory for the welcome (the slot it had is
   free again).  The socket is closed here ...                             *)
telnetRefuse ==
  /\ spc = "telnet"
  /\ conn' = [conn EXCEPT ![sfd] = None]
  /\ spc' = "reclose"
  /\ UNCHANGED <<nconn, slot, tslot, sfd, handlers, semclient, streamfd, tells, member, leaked, stray>>

(* ... and by serversTask once more, whoever has the descriptor by now.    *)
CloseRefused ==
  /\ spc = "reclose"
  /\ conn' = [conn EXCEPT ![sfd] = None]
  /\ stray' = (stray \/ conn[sfd] # None)
  /\ spc' = "loop" /\ sfd' = None
  /\ UNCHANGED <<nconn, slot, tslot, handlers, semclient, streamfd, tells, member, leaked>>

(* telnetRead, which returns 0 at the end of the connection, on an error and
   without memory.  (Data are for Consoles.)                                 *)
TelnetEnds ==
  /\ \E f \in Ready(tslot) :
        /\ tslot' = Without(tslot, f)
        /\ conn' = [conn EXCEPT ![f] = None]
  /\ UNCHANGED <<nconn, slot, servers, handlers, semclient, streamfd, tells, member, leaked, stray>>

(* websocketRead and websocketparsedata: a close frame, an opcode that is not
   known, the end or an error.  websocketremoveclient empties the slot (a
   ping, a pong and an overlong frame change nothing) ...                  *)
websocketremoveclient ==
  /\ \E f \in Ready(slot) :
        /\ slot' = Without(slot, f) /\ Forget(f)
        /\ sfd' = f
  /\ spc' = "close"
  /\ UNCHANGED <<conn, nconn, tslot, handlers, semclient, streamfd, tells, leaked, stray>>

(* ... and closes the socket.  The second call, for a result <= 0, finds no
   slot: nothing was accepted meanwhile.                                   *)
CloseRemoved ==
  /\ spc = "close"
  /\ conn' = [conn EXCEPT ![sfd] = None]
  /\ spc' = "loop" /\ sfd' = None
  /\ UNCHANGED <<nconn, slot, tslot, handlers, semclient, streamfd, tells, member, leaked, stray>>

(* The beginning of a frame, and the end of the connection: the loops of
   websocketparsedata add a result of 0 for ever.                          *)
HalfFrame ==
  /\ Ready(slot) # {}
  /\ spc' = "spin"
  /\ UNCHANGED <<conn, nconn, slot, tslot, sfd, handlers, semclient, streamfd, tells, member,
                 leaked, stray>>

-----------------------------------------------------------------------------
(* serverclientTask h *)

At(h, from, to) ==
  /\ hpc[h] = from
  /\ hpc' = [hpc EXCEPT ![h] = to]

(* A page, a command and a POST leave sockets as they are, and the next
   request is waited for, until read returns 0, fails, or times out.       *)
ReadEnds(h) ==
  /\ At(h, "read", "close")
  /\ UNCHANGED <<conn, nconn, slot, tslot, servers, hfd, havail, semclient, streamfd, tells, member,
                 leaked, stray>>

(* Half a request and the end of the connection: the loops that wait for
   the rest take a result of 0 for "not yet".                              *)
HalfRequest(h) ==
  /\ At(h, "read", "stuck")
  /\ UNCHANGED <<conn, nconn, slot, tslot, servers, hfd, havail, semclient, streamfd, tells, member,
                 leaked, stray>>

(* "Connection: Upgrade": websocketAccept, websocketnewclient looks for a
   free slot.                                                              *)
websocketAccept(h) ==
  /\ Available(slot) # None
  /\ At(h, "read", "store")
  /\ havail' = [havail EXCEPT ![h] = Available(slot)]
  /\ UNCHANGED <<conn, nconn, slot, tslot, servers, hfd, semclient, streamfd, tells, member, leaked,
                 stray>>

(* Mutant: the semaphore is given only after a close. *)
ExitWithoutGive(h) ==
  /\ hpc' = [hpc EXCEPT ![h] = "free"]
  /\ hfd' = [hfd EXCEPT ![h] = None]
  /\ havail' = [havail EXCEPT ![h] = None]
  /\ semclient' = IF hpc[h] \in {"close", "drop"} THEN semclient + 1 ELSE semclient

(* xSemaphoreGive, vTaskDelete.                                            *)
Exit(h) ==
  /\ hpc' = [hpc EXCEPT ![h] = "free"]
  /\ hfd' = [hfd EXCEPT ![h] = None]
  /\ havail' = [havail EXCEPT ![h] = None]
  /\ semclient' = semclient + 1

(* No slot is free: nothing is sent, the result is that of a web socket and
   the task ends without closing.                                          *)
TableFull(h) ==
  /\ hpc[h] = "read" /\ Available(slot) = None
  /\ leaked' = leaked \cup {conn[hfd[h]]}
  /\ Exit(h)
  /\ UNCHANGED <<conn, nconn, slot, tslot, servers, streamfd, tells, member, stray>>

(* websocketnewclient stores the socket, whatever the slot holds by now.   *)
websocketnewclient(h) ==
  /\ At(h, "store", "decode")
  /\ slot' = [slot EXCEPT ![havail[h]] = hfd[h]]
  /\ leaked' = leaked \cup {conn[f] : f \in {slot[havail[h]]} \ {None}}
  /\ IF slot[havail[h]] = None THEN UNCHANGED member ELSE Forget(slot[havail[h]])
  /\ UNCHANGED <<conn, nconn, tslot, servers, hfd, havail, semclient, streamfd, tells, stray>>

(* Mutant: the result of websocketAccept is not looked at. *)
UpgradedAndClosed(h) ==
  /\ hpc[h] = "decode"
  /\ conn' = [conn EXCEPT ![hfd[h]] = None]
  /\ Exit(h)
  /\ UNCHANGED <<nconn, slot, tslot, servers, streamfd, tells, member, leaked, stray>>

(* decodeHttpMessage finds the key: the answer, and the task ends.         *)
Upgraded(h) ==
  /\ hpc[h] = "decode"
  /\ Exit(h)
  /\ UNCHANGED <<conn, nconn, slot, tslot, servers, streamfd, tells, member, leaked, stray>>

(* Mutant: only the slot is given up. *)
NoKeyUnclosed(h) ==
  /\ hpc[h] = "decode"
  /\ slot' = Without(slot, hfd[h])
  /\ IF iswebsocket(hfd[h]) THEN Forget(hfd[h]) ELSE UNCHANGED member
  /\ Exit(h)
  /\ UNCHANGED <<conn, nconn, tslot, servers, streamfd, tells, leaked, stray>>

(* No key: websocketremoveclient, which does nothing if serversTask or
   another handler emptied the slot before.                                *)
NoKey(h) ==
  /\ hpc[h] = "decode"
  /\ slot' = Without(slot, hfd[h])
  /\ IF iswebsocket(hfd[h]) THEN Forget(hfd[h]) ELSE UNCHANGED member
  /\ IF iswebsocket(hfd[h])
     THEN /\ hpc' = [hpc EXCEPT ![h] = "drop"]
          /\ UNCHANGED <<hfd, havail, semclient>>
     ELSE Exit(h)
  /\ UNCHANGED <<conn, nconn, tslot, servers, streamfd, tells, leaked, stray>>

(* The end: close, for an exit of the loop or after the slot was emptied.  *)
CloseHandled(h) ==
  /\ hpc[h] \in {"close", "drop"}
  /\ conn' = [conn EXCEPT ![hfd[h]] = None]
  /\ Exit(h)
  /\ UNCHANGED <<nconn, slot, tslot, servers, streamfd, tells, member, leaked, stray>>

-----------------------------------------------------------------------------
(* Broadcasts *)

StartOf(t, sender) ==
  /\ bpc[t] = "idle" /\ ntell < MaxTells
  /\ bpc' = [bpc EXCEPT ![t] = "check"]
  /\ omit' = [omit EXCEPT ![t] = sender]
  /\ ntell' = ntell + 1
  /\ member' = [member EXCEPT ![t] = {conn[f] : f \in Occupied(slot) \ {sender}}]
  /\ UNCHANGED <<bidx, btarget, reached>>

(* A title, a volume, a station: websocketbroadcast from another task.     *)
websocketbroadcast(t) ==
  /\ t \in Radio /\ StartOf(t, None)
  /\ UNCHANGED <<conn, nconn, slot, tslot, servers, handlers, semclient, streamfd, leaked, stray>>

(* A text frame with a volume: websockethandle tells the other clients.    *)
websocketlimitedbroadcast ==
  /\ \E f \in Ready(slot) : StartOf("servers", f)
  /\ spc' = "tell"
  /\ UNCHANGED <<conn, nconn, slot, tslot, sfd, handlers, semclient, streamfd, leaked, stray>>

(* Mutant: the slots are taken to be filled from the first one on. *)
LookUntilFree(t) ==
  /\ bpc[t] = "check" /\ bidx[t] \in Slots
  /\ IF slot[bidx[t]] \in {None, omit[t]}
     THEN bidx' = [bidx EXCEPT ![t] = NBCLIENT + 1] /\ UNCHANGED <<bpc, btarget>>
     ELSE /\ btarget' = [btarget EXCEPT ![t] = slot[bidx[t]]]
          /\ bpc' = [bpc EXCEPT ![t] = "write"]
          /\ UNCHANGED bidx
  /\ UNCHANGED <<conn, nconn, slot, tslot, servers, handlers, semclient, streamfd, omit, ntell,
                 reached, member, leaked, stray>>

(* A slot that is free, or the sender's, is passed over.  The code reads the
   slot again for the argument of websocketwrite: -1 if it was emptied, and
   the write fails; the new client if it was given away.                   *)
Look(t) ==
  /\ bpc[t] = "check" /\ bidx[t] \in Slots
  /\ IF slot[bidx[t]] \in {None, omit[t]}
     THEN bidx' = [bidx EXCEPT ![t] = @ + 1] /\ UNCHANGED <<bpc, btarget>>
     ELSE /\ btarget' = [btarget EXCEPT ![t] = slot[bidx[t]]]
          /\ bpc' = [bpc EXCEPT ![t] = "write"]
          /\ UNCHANGED bidx
  /\ UNCHANGED <<conn, nconn, slot, tslot, servers, handlers, semclient, streamfd, omit, ntell,
                 reached, member, leaked, stray>>

(* sendFrame: header and payload go to whatever is behind the descriptor.  *)
sendFrame(t) ==
  /\ bpc[t] = "write"
  /\ reached' = [reached EXCEPT ![t] = @ \cup {conn[btarget[t]]}]
  /\ bidx' = [bidx EXCEPT ![t] = @ + 1]
  /\ btarget' = [btarget EXCEPT ![t] = None]
  /\ bpc' = [bpc EXCEPT ![t] = "check"]
  /\ UNCHANGED <<conn, nconn, slot, tslot, servers, handlers, semclient, streamfd, omit, ntell,
                 member, leaked, stray>>

(* The loop is through.                                                    *)
Told(t) ==
  /\ bpc[t] = "check" /\ bidx[t] \notin Slots
  /\ bpc' = [bpc EXCEPT ![t] = "idle"]
  /\ bidx' = [bidx EXCEPT ![t] = 1] /\ omit' = [omit EXCEPT ![t] = None]
  /\ reached' = [reached EXCEPT ![t] = {}] /\ member' = [member EXCEPT ![t] = {}]
  /\ spc' = IF t = "servers" THEN "loop" ELSE spc
  /\ UNCHANGED <<conn, nconn, slot, tslot, sfd, handlers, semclient, streamfd, btarget, ntell,
                 leaked, stray>>

-----------------------------------------------------------------------------
(* Another task opens a socket, and closes it later by its number.         *)

StreamOpens ==
  /\ streamfd = None /\ FreeFds # {}
  /\ streamfd' = Min(FreeFds)
  /\ conn' = [conn EXCEPT ![Min(FreeFds)] = Stream]
  /\ UNCHANGED <<nconn, slot, tslot, servers, handlers, semclient, tells, member, leaked, stray>>

StreamCloses ==
  /\ streamfd # None
  /\ streamfd' = None
  /\ conn' = [conn EXCEPT ![streamfd] = None]
  /\ stray' = (stray \/ conn[streamfd] \notin {None, Stream})
  /\ UNCHANGED <<nconn, slot, tslot, servers, handlers, semclient, tells, member, leaked>>

Serves ==
  \/ AcceptWeb \/ AcceptTelnet \/ CreateHandler
  \/ telnetAccept \/ telnetRefuse \/ CloseRefused \/ TelnetEnds
  \/ websocketremoveclient \/ CloseRemoved \/ HalfFrame \/ websocketlimitedbroadcast

(* What a handler does without a further request of its peer.              *)
Ends(h) ==
  ReadEnds(h) \/ websocketnewclient(h) \/ Upgraded(h) \/ NoKey(h) \/ CloseHandled(h)

Handles(h) == HalfRequest(h) \/ websocketAccept(h) \/ TableFull(h) \/ Ends(h)

Tells(t) == websocketbroadcast(t) \/ Look(t) \/ sendFrame(t) \/ Told(t)

(* Behaviours are followed up to the first close of a stranger's socket.   *)
Next ==
  /\ ~stray
  /\ \/ Serves
     \/ \E h \in Handlers : Handles(h)
     \/ \E t \in Tellers : Tells(t)
     \/ StreamOpens \/ StreamCloses

Spec == Init /\ [][Next]_vars

(* The tasks run; a peer that asks for nothing more is timed out.          *)
Fairness ==
  /\ WF_vars(~stray /\ CreateHandler)
  /\ \A h \in Handlers : WF_vars(~stray /\ Ends(h))

FairSpec == Spec /\ Fairness

-----------------------------------------------------------------------------
(* Types.                                                                  *)
TypeOK ==
  /\ conn \in [Fds -> 0..Stream] /\ nconn \in 0..MaxConns
  /\ slot \in [Slots -> Fds \cup {None}] /\ tslot \in [TSlots -> Fds \cup {None}]
  /\ spc \in {"loop", "take", "telnet", "reclose", "close", "tell", "spin"}
  /\ sfd \in Fds \cup {None} /\ streamfd \in Fds \cup {None}
  /\ hpc \in [Handlers -> {"free", "read", "store", "decode", "drop", "close", "stuck"}]
  /\ hfd \in [Handlers -> Fds \cup {None}] /\ havail \in [Handlers -> Slots \cup {None}]
  /\ semclient = Cardinality({h \in Handlers : hpc[h] = "free"})
  /\ bpc \in [Tellers -> {"idle", "check", "write"}]
  /\ bidx \in [Tellers -> 1..NBCLIENT + 1]
  /\ btarget \in [Tellers -> Fds \cup {None}]

(* A slot holds an open connection, that of its client, and no descriptor is
   in two slots: sockets are taken out of the tables before they are closed
   (websocketremoveclient, telnetremoveclient), and a handler that has
   registered its socket leaves the close to others.                       *)
SlotsHoldOpen ==
  stray \/
    /\ \A f \in Occupied(slot) \cup Occupied(tslot) : conn[f] \in 1..nconn
    /\ Occupied(slot) \cap Occupied(tslot) = {}
    /\ \A i, j \in Slots : slot[i] = slot[j] => i = j \/ slot[i] = None
    /\ \A i, j \in TSlots : tslot[i] = tslot[j] => i = j \/ tslot[i] = None

InHand(f) ==
  \/ f = sfd \/ f \in Occupied(slot) \cup Occupied(tslot)
  \/ \E h \in Handlers : hfd[h] = f

(* Every open socket is in the hands of a task or in a slot, so that somebody
   closes it, but for those a full table or two registrations at once lost. *)
SocketsOwned ==
  stray \/ \A f \in Fds : conn[f] \in (1..nconn) \ leaked => InHand(f)

(* A broadcast has written to all web sockets that were there from its
   beginning to its end, whatever came and went meanwhile.                 *)
AllReached ==
  [][\A t \in Tellers :
       bpc[t] # "idle" /\ bpc'[t] = "idle" => member[t] \subseteq reached[t]]_vars

(* serversTask waits for a handler to end for ever only if each of them
   waits for the rest of a request that will not come.                     *)
AcceptGoesOn ==
  spc = "take" ~> (spc # "take" \/ stray \/ \A h \in Handlers : hpc[h] = "stuck")
=============================================================================
