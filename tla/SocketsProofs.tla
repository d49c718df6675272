---------------------------- MODULE SocketsProofs ----------------------------
(***************************************************************************)
(* Who owns which socket, for any number of descriptors, slots, handlers   *)
(* and connections.  The tables alone are not inductive: that no two slots *)
(* hold one descriptor rests on what the tasks hold while a socket goes    *)
(* from one to the other.  Owning says that a descriptor has one owner at  *)
(* most, Kept that it has one at least, Telling what a broadcast under way *)
(* has still before it.                                                    *)
(***************************************************************************)
EXTENDS Sockets, FiniteSetTheorems, WellFoundedInduction, TLAPS

(* serversTask has a socket to hand over or to close; a handler too.        *)
Serving == spc \in {"take", "telnet", "close"}
Holds(h) == hpc[h] \in {"read", "store", "stuck", "close", "drop"}

InSlot(f) == \E i \in Slots : slot[i] = f
InTslot(f) == \E i \in TSlots : tslot[i] = f
Open(f) == f \in Fds /\ conn[f] \in 1..nconn

(* No descriptor has two owners, and what is owned is open.                 *)
Owning ==
  /\ \A i \in Slots : slot[i] # None =>
       /\ Open(slot[i]) /\ ~InTslot(slot[i])
       /\ \A j \in Slots : slot[j] = slot[i] => j = i
  /\ \A i \in TSlots : tslot[i] # None =>
       Open(tslot[i]) /\ \A j \in TSlots : tslot[j] = tslot[i] => j = i
  /\ \A h \in Handlers : Holds(h) =>
       /\ Open(hfd[h]) /\ ~InSlot(hfd[h]) /\ ~InTslot(hfd[h])
       /\ \A g \in Handlers : Holds(g) /\ hfd[g] = hfd[h] => g = h
       /\ Serving => hfd[h] # sfd
  /\ Serving => Open(sfd) /\ ~InSlot(sfd) /\ ~InTslot(sfd)

Owned(f) ==
  \/ InSlot(f) \/ InTslot(f) \/ (Serving /\ f = sfd)
  \/ \E h \in Handlers : Holds(h) /\ hfd[h] = f

(* What is open and not lost has an owner.                                  *)
Kept == \A f \in Fds : conn[f] \in (1..nconn) \ leaked => Owned(f)

(* Connections are numbered in the order of being made.                     *)
Numbered == \A f \in Fds : conn[f] \in 0..nconn \/ conn[f] = Stream

(* Where tasks are decides what they hold.                                  *)
Places ==
  /\ \A h \in Handlers : /\ hpc[h] # "free" => hfd[h] \in Fds
                         /\ hpc[h] = "store" => havail[h] \in Slots
  /\ spc \in {"take", "telnet", "close", "reclose"} => sfd \in Fds
  /\ bpc["servers"] # "idle" => spc = "tell"
  /\ \A t \in Tellers : /\ bpc[t] = "idle" => bidx[t] = 1
                        /\ bpc[t] = "write" => bidx[t] \in Slots /\ btarget[t] \in Fds

Types ==
  /\ conn \in [Fds -> 0..Stream] /\ nconn \in 0..MaxConns
  /\ slot \in [Slots -> Fds \cup {None}] /\ tslot \in [TSlots -> Fds \cup {None}]
  /\ spc \in {"loop", "take", "telnet", "reclose", "close", "tell", "spin"}
  /\ sfd \in Fds \cup {None} /\ streamfd \in Fds \cup {None}
  /\ hpc \in [Handlers -> {"free", "read", "store", "decode", "drop", "close", "stuck"}]
  /\ hfd \in [Handlers -> Fds \cup {None}] /\ havail \in [Handlers -> Slots \cup {None}]
  /\ bpc \in [Tellers -> {"idle", "check", "write"}]
  /\ bidx \in [Tellers -> 1..NBCLIENT + 1]
  /\ btarget \in [Tellers -> Fds \cup {None}]

(* The histories, whose fields are written one by one.                      *)
Histories ==
  /\ omit \in [Tellers -> Fds \cup {None}]
  /\ member \in [Tellers -> SUBSET Int] /\ reached \in [Tellers -> SUBSET Int]

(* A web socket that was there from the beginning is written to, or is in a *)
(* slot the loop has still to look at.                                      *)
Ahead(t, i) == i > bidx[t] \/ (i = bidx[t] /\ (bpc[t] = "write" => btarget[t] = slot[i]))
Telling ==
  \A t \in Tellers : bpc[t] # "idle" =>
    \A c \in member[t] : c \in reached[t] \/
      \E i \in Slots : slot[i] \notin {None, omit[t]} /\ conn[slot[i]] = c /\ Ahead(t, i)

Counted == semclient = Cardinality({h \in Handlers : hpc[h] = "free"})

Inv == Types /\ Numbered /\ Places /\ Histories /\ Counted /\ (~stray => Owning /\ Kept /\ Telling)

LEMMA Constant ==
  /\ Fds \subseteq Nat \ {0} /\ NBCLIENT \in Nat /\ NBCLIENTT \in Nat /\ MaxConns \in Nat
  /\ "servers" \notin Radio /\ IsFiniteSet(Handlers)
BY SocketsAssumption

LEMMA MinOf ==
  ASSUME NEW S \in SUBSET Nat, S # {}
  PROVE  Min(S) \in S
<1>1. PICK x \in S : \A y \in S : ~(<<y, x>> \in OpToRel(<, Nat))
  BY NatLessThanWellFounded, WFMin, Zenon
<1>2. ASSUME NEW y \in S, y < x PROVE <<y, x>> \in OpToRel(<, Nat)
  <2>1. <<y, x>> \in Nat \X Nat OBVIOUS
  <2>2. <<y, x>>[1] < <<y, x>>[2] BY <1>2
  <2> QED BY <2>1, <2>2, Zenon DEF OpToRel
<1>3. \A y \in S : x =< y
  <2> TAKE y \in S
  <2>1. ~(y < x) BY <1>1, <1>2, Zenon
  <2> QED BY <2>1
<1> QED BY <1>3, Zenon DEF Min

(* The slot and the descriptor that are given away are free.                *)
LEMMA AvailableIsFree ==
  ASSUME NEW n \in Nat, NEW table, DOMAIN table = 1..n, Available(table) # None
  PROVE  Available(table) \in 1..n /\ table[Available(table)] = None
<1> DEFINE free == {i \in DOMAIN table : table[i] = None}
<1>1. free # {} BY DEF Available
<1>2. free \in SUBSET Nat OBVIOUS
<1>3. Min(free) \in free BY <1>1, <1>2, MinOf
<1>4. Available(table) = Min(free) BY <1>1, Zenon DEF Available
<1> QED BY <1>3, <1>4

LEMMA LowestIsFree ==
  ASSUME FreeFds # {}
  PROVE  Min(FreeFds) \in Fds /\ conn[Min(FreeFds)] = None
<1>1. FreeFds \in SUBSET Nat BY Constant DEF FreeFds
<1> QED BY <1>1, MinOf DEF FreeFds

(* What is in a slot, and behind it.                                        *)
LEMMA InSlotsAreFds ==
  ASSUME Types
  PROVE  /\ Occupied(slot) \subseteq Fds
         /\ \A f \in Fds : conn[f] \in Int
         /\ \A F \in SUBSET Fds : {conn[f] : f \in F} \in SUBSET Int
<1>1. Occupied(slot) \subseteq Fds
  BY DEF Types, Occupied, Slots
<1>2. ASSUME NEW f \in Fds PROVE conn[f] \in Int
  BY Constant DEF Types, Stream
<1> QED BY <1>1, <1>2

(* Without a key: the slot was still the task's, or the task just ends.     *)
Drops(h) == /\ slot' = Without(slot, hfd[h]) /\ Forget(hfd[h])
            /\ hpc' = [hpc EXCEPT ![h] = "drop"] /\ UNCHANGED <<hfd, havail, semclient>>
LEMMA NoKeyCases ==
  ASSUME NEW h, NoKey(h), slot \in [Slots -> Fds \cup {None}]
  PROVE  /\ hpc[h] = "decode"
         /\ UNCHANGED <<conn, nconn, tslot, servers, streamfd, tells, leaked, stray>>
         /\ \/ iswebsocket(hfd[h]) /\ Drops(h)
            \/ ~iswebsocket(hfd[h]) /\ Exit(h) /\ UNCHANGED <<slot, member>>
<1>1. CASE iswebsocket(hfd[h])
  BY <1>1, Zenon DEF NoKey, Drops
<1>2. CASE ~iswebsocket(hfd[h])
  <2>1. Exit(h) /\ UNCHANGED member /\ slot' = Without(slot, hfd[h]) BY <1>2, Zenon DEF NoKey
  <2>2. Without(slot, hfd[h]) = slot
    BY <1>2 DEF Without, iswebsocket, Occupied
  <2> QED BY <1>2, <2>1, <2>2, Zenon DEF NoKey
<1> QED BY <1>1, <1>2

(* Types, and where tasks are.                                              *)
LEMMA TypesKept ==
  ASSUME Types, Places, Histories, Next
  PROVE  Types' /\ Places' /\ Histories'
<1> USE Constant, SocketsAssumption DEF Types, Places, Histories, None, Stream, Slots, TSlots, Tellers
<1>1. CASE AcceptWeb
  BY <1>1, LowestIsFree DEF AcceptWeb, Accepted, servers, handlers, tells
<1>2. CASE AcceptTelnet
  BY <1>2, LowestIsFree DEF AcceptTelnet, Accepted, servers, handlers, tells
<1>3. CASE CreateHandler
  BY <1>3 DEF CreateHandler, servers, handlers, tells
<1>4. CASE telnetAccept
  BY <1>4 DEF telnetAccept, Available, servers, handlers, tells
<1>5. CASE telnetRefuse
  BY <1>5 DEF telnetRefuse, servers, handlers, tells
<1>6. CASE CloseRefused
  BY <1>6 DEF CloseRefused, servers, handlers, tells
<1>7. CASE TelnetEnds
  BY <1>7 DEF TelnetEnds, Ready, Occupied, Without, servers, handlers, tells
<1>8. CASE websocketremoveclient
  BY <1>8 DEF websocketremoveclient, Ready, Occupied, Without, Forget, servers, handlers, tells
<1>9. CASE CloseRemoved
  BY <1>9 DEF CloseRemoved, servers, handlers, tells
<1>10. CASE HalfFrame
  BY <1>10 DEF HalfFrame, Ready, Occupied, servers, handlers, tells
<1>11. CASE websocketlimitedbroadcast
  <2> USE DEF websocketlimitedbroadcast, StartOf, servers, handlers, tells
  <2>1. PICK s \in Ready(slot) : StartOf("servers", s) BY <1>11
  <2>2. s \in Fds BY InSlotsAreFds DEF Ready
  <2>3. {conn[f] : f \in Occupied(slot) \ {s}} \in SUBSET Int BY InSlotsAreFds
  <2>4. Types' /\ Places' BY <1>11, <2>1
  <2>5. Histories' BY <1>11, <2>1, <2>2, <2>3
  <2> QED BY <2>4, <2>5
<1>12. ASSUME NEW h \in Handlers, HalfRequest(h) PROVE Types' /\ Places' /\ Histories'
  BY <1>12 DEF HalfRequest, At, servers, handlers, tells
<1>13. ASSUME NEW h \in Handlers, websocketAccept(h) PROVE Types' /\ Places' /\ Histories'
  BY <1>13, AvailableIsFree DEF websocketAccept, At, servers, handlers, tells
<1>14. ASSUME NEW h \in Handlers, TableFull(h) PROVE Types' /\ Places' /\ Histories'
  BY <1>14 DEF TableFull, Exit, servers, handlers, tells
<1>15. ASSUME NEW h \in Handlers, ReadEnds(h) PROVE Types' /\ Places' /\ Histories'
  BY <1>15 DEF ReadEnds, At, servers, handlers, tells
<1>16. ASSUME NEW h \in Handlers, websocketnewclient(h) PROVE Types' /\ Places' /\ Histories'
  BY <1>16 DEF websocketnewclient, At, Forget, servers, handlers, tells
<1>17. ASSUME NEW h \in Handlers, Upgraded(h) PROVE Types' /\ Places' /\ Histories'
  BY <1>17 DEF Upgraded, Exit, servers, handlers, tells
<1>18. ASSUME NEW h \in Handlers, NoKey(h) PROVE Types' /\ Places' /\ Histories'
  <2>1. CASE Drops(h)
    <3>1. Types' BY <1>18, <2>1, NoKeyCases DEF Drops, Without, servers, tells
    <3>2. Places' BY <1>18, <2>1, NoKeyCases DEF Drops, servers, tells
    <3>3. Histories' BY <1>18, <2>1, NoKeyCases DEF Drops, Forget, tells
    <3> QED BY <3>1, <3>2, <3>3
  <2>2. CASE Exit(h) /\ UNCHANGED <<slot, member>>
    <3>1. Types' BY <1>18, <2>2, NoKeyCases DEF Exit, servers, tells
    <3>2. Places' BY <1>18, <2>2, NoKeyCases DEF Exit, servers, tells
    <3>3. Histories' BY <1>18, <2>2, NoKeyCases DEF tells
    <3> QED BY <3>1, <3>2, <3>3
  <2> QED BY <1>18, <2>1, <2>2, NoKeyCases
<1>19. ASSUME NEW h \in Handlers, CloseHandled(h) PROVE Types' /\ Places' /\ Histories'
  BY <1>19 DEF CloseHandled, Exit, servers, handlers, tells
<1>20. ASSUME NEW t \in Tellers, websocketbroadcast(t) PROVE Types' /\ Places' /\ Histories'
  <2> USE DEF websocketbroadcast, StartOf, servers, handlers, tells
  <2>1. Types' BY <1>20
  <2>2. Places' BY <1>20
  <2>3. {conn[f] : f \in Occupied(slot) \ {None}} \in SUBSET Int BY InSlotsAreFds
  <2>4. Histories' BY <1>20, <2>3
  <2> QED BY <2>1, <2>2, <2>4
<1>21. ASSUME NEW t \in Tellers, Look(t) PROVE Types' /\ Places' /\ Histories'
  <2> USE DEF Look, servers, handlers, tells
  <2>0. bidx[t] + 1 \in 1..NBCLIENT + 1 BY <1>21
  <2>1. CASE slot[bidx[t]] \in {None, omit[t]}
    <3>1. bidx' \in [Tellers -> 1..NBCLIENT + 1] BY <1>21, <2>0, <2>1
    <3> QED BY <1>21, <2>1, <3>1
  <2>2. CASE slot[bidx[t]] \notin {None, omit[t]}
    <3>1. slot[bidx[t]] \in Fds BY <1>21, <2>2
    <3>2. btarget' \in [Tellers -> Fds \cup {None}] /\ bpc' \in [Tellers -> {"idle", "check", "write"}]
      <4>1. btarget' = [btarget EXCEPT ![t] = slot[bidx[t]]] /\ bpc' = [bpc EXCEPT ![t] = "write"] BY <1>21, <2>2
      <4> QED BY <3>1, <4>1
    <3>3. Types' BY <1>21, <2>2, <3>2
    <3>4. Places'
      <4>1. bpc'[t] = "write" /\ btarget'[t] \in Fds /\ bidx'[t] \in Slots BY <1>21, <2>2, <3>1
      <4>2. ASSUME NEW u \in Tellers, u # t PROVE bpc'[u] = bpc[u] /\ btarget'[u] = btarget[u] /\ bidx'[u] = bidx[u]
        BY <1>21, <2>2, <4>2
      <4>3. UNCHANGED <<hpc, hfd, havail, spc, sfd>> BY <1>21
      <4> QED BY <1>21, <4>1, <4>2, <4>3
    <3>5. Histories' BY <1>21, <2>2
    <3> QED BY <3>3, <3>4, <3>5
  <2> QED BY <2>1, <2>2
<1>22. ASSUME NEW t \in Tellers, sendFrame(t) PROVE Types' /\ Places' /\ Histories'
  <2> USE DEF sendFrame, servers, handlers, tells
  <2>1. Types'
    <3>1. bidx[t] + 1 \in 1..NBCLIENT + 1 BY <1>22
    <3>2. bidx' \in [Tellers -> 1..NBCLIENT + 1] BY <1>22, <3>1
    <3> QED BY <1>22, <3>2
  <2>2. Places' BY <1>22
  <2>3. conn[btarget[t]] \in Int
    <3>1. btarget[t] \in Fds BY <1>22
    <3> QED BY <3>1, InSlotsAreFds
  <2>4. Histories' BY <1>22, <2>3
  <2> QED BY <2>1, <2>2, <2>4
<1>23. ASSUME NEW t \in Tellers, Told(t) PROVE Types' /\ Places' /\ Histories'
  BY <1>23 DEF Told, servers, handlers, tells
<1>24. CASE StreamOpens
  BY <1>24, LowestIsFree DEF StreamOpens, servers, handlers, tells
<1>25. CASE StreamCloses
  BY <1>25 DEF StreamCloses, servers, handlers, tells
<1> QED BY <1>1, <1>2, <1>3, <1>4, <1>5, <1>6, <1>7, <1>8, <1>9, <1>10, <1>11, <1>12, <1>13, <1>14, <1>15, <1>16, <1>17, <1>18, <1>19, <1>20, <1>21, <1>22, <1>23, <1>24, <1>25 DEF Next, Serves, Handles, Ends, Tells

(* A task leaves or enters the set of those that are free.                  *)
LEMMA OneFreeMore ==
  ASSUME NEW h \in Handlers, Types, Counted, hpc[h] # "free",
         hpc' = [hpc EXCEPT ![h] = "free"], semclient' = semclient + 1
  PROVE  Counted'
<1> DEFINE F == {g \in Handlers : hpc[g] = "free"}
<1>1. IsFiniteSet(F) BY Constant, FS_Subset
<1>2. {g \in Handlers : hpc'[g] = "free"} = F \cup {h} BY DEF Types
<1>3. Cardinality(F \cup {h}) = Cardinality(F) + 1 BY <1>1, FS_AddElement
<1> QED BY <1>2, <1>3 DEF Counted

LEMMA OneFreeLess ==
  ASSUME NEW h \in Handlers, Types, Counted, hpc[h] = "free",
         hpc' = [hpc EXCEPT ![h] = "read"], semclient' = semclient - 1
  PROVE  Counted'
<1> DEFINE F == {g \in Handlers : hpc[g] = "free"}
<1>1. IsFiniteSet(F) BY Constant, FS_Subset
<1>2. {g \in Handlers : hpc'[g] = "free"} = F \ {h} BY DEF Types
<1>3. Cardinality(F \ {h}) = Cardinality(F) - 1 BY <1>1, FS_RemoveElement
<1> QED BY <1>2, <1>3 DEF Counted

LEMMA NoneFreeMore ==
  ASSUME NEW h \in Handlers, Types, Counted, hpc[h] # "free",
         NEW to, to # "free", hpc' = [hpc EXCEPT ![h] = to], semclient' = semclient
  PROVE  Counted'
<1>1. {g \in Handlers : hpc'[g] = "free"} = {g \in Handlers : hpc[g] = "free"} BY DEF Types
<1> QED BY <1>1 DEF Counted

LEMMA CountedKept ==
  ASSUME Types, Counted, Next
  PROVE  Counted'
<1>1. CASE CreateHandler
  <2>1. PICK h \in Handlers : hpc[h] = "free" /\ hpc' = [hpc EXCEPT ![h] = "read"] BY <1>1 DEF CreateHandler
  <2>2. semclient' = semclient - 1 BY <1>1 DEF CreateHandler
  <2> QED BY <2>1, <2>2, OneFreeLess
<1>2. ASSUME NEW h \in Handlers, Exit(h), hpc[h] # "free" PROVE Counted'
  BY <1>2, OneFreeMore DEF Exit
<1>3. ASSUME NEW h \in Handlers, TableFull(h) \/ Upgraded(h) \/ CloseHandled(h) PROVE Counted'
  BY <1>2, <1>3 DEF TableFull, Upgraded, CloseHandled
<1>4. ASSUME NEW h \in Handlers, NoKey(h) PROVE Counted'
  <2>1. CASE Drops(h) BY <1>4, <2>1, NoKeyCases, NoneFreeMore DEF Drops, Types
  <2>2. CASE Exit(h) BY <1>2, <1>4, <2>2, NoKeyCases DEF Types
  <2> QED BY <1>4, <2>1, <2>2, NoKeyCases DEF Types
<1>5. ASSUME NEW h \in Handlers, NEW from, NEW to, At(h, from, to), from # "free", to # "free",
             semclient' = semclient
      PROVE  Counted'
  BY <1>5, NoneFreeMore DEF At
<1>6. ASSUME NEW h \in Handlers, HalfRequest(h) \/ websocketAccept(h) \/ ReadEnds(h) \/ websocketnewclient(h)
      PROVE  Counted'
  BY <1>5, <1>6 DEF HalfRequest, websocketAccept, ReadEnds, websocketnewclient
<1>7. CASE UNCHANGED <<hpc, semclient>> BY <1>7 DEF Counted
<1>8. CASE Serves
  BY <1>1, <1>7, <1>8 DEF Serves, AcceptWeb, AcceptTelnet, Accepted, telnetAccept, telnetRefuse, CloseRefused,
    TelnetEnds, websocketremoveclient, CloseRemoved, HalfFrame, websocketlimitedbroadcast, handlers
<1>9. ASSUME NEW t \in Tellers, Tells(t) PROVE Counted'
  BY <1>7, <1>9 DEF Tells, websocketbroadcast, Look, sendFrame, Told, handlers
<1>10. CASE StreamOpens \/ StreamCloses
  BY <1>7, <1>10 DEF StreamOpens, StreamCloses, handlers
<1> QED BY <1>3, <1>4, <1>6, <1>8, <1>9, <1>10 DEF Next, Handles, Ends

(* A close by number that is no stray leaves the connections of others.     *)
LEMMA NotStray ==
  ASSUME Types, ~stray'
  PROVE  /\ CloseRefused => conn[sfd] = None
         /\ StreamCloses => conn[streamfd] \in {None, Stream}
<1>1. CloseRefused => conn[sfd] = None BY Zenon DEF CloseRefused
<1>2. StreamCloses => conn[streamfd] \in {None, Stream} BY Zenon DEF StreamCloses
<1> QED BY <1>1, <1>2

(* What is free, or of another task, has no owner here.                     *)
LEMMA FreeIsUnowned ==
  ASSUME Types, Owning, NEW f \in Fds, conn[f] \in {None, Stream}
  PROVE  /\ ~InSlot(f) /\ ~InTslot(f)
         /\ \A h \in Handlers : Holds(h) => hfd[h] # f
         /\ Serving => sfd # f
<1>1. ~Open(f) BY Constant DEF Types, Open, None, Stream
<1>2. None \notin Fds BY Constant DEF None
<1> QED BY <1>1, <1>2 DEF Owning, InSlot, InTslot

LEMMA AcceptedOwned ==
  ASSUME Types, Owning, NEW next, Accepted(next)
  PROVE  Owning'
<1>1. PICK f \in Fds : f = Min(FreeFds) /\ conn[f] = None BY LowestIsFree DEF Accepted
<1>2. /\ ~InSlot(f) /\ ~InTslot(f) /\ \A h \in Handlers : Holds(h) => hfd[h] # f
  BY <1>1, FreeIsUnowned
<1>3. /\ sfd' = f /\ nconn' = nconn + 1 /\ conn' = [conn EXCEPT ![f] = nconn + 1]
      /\ UNCHANGED <<slot, tslot, hpc, hfd>>
  BY <1>1 DEF Accepted, handlers
<1>4. Open(f)' BY <1>1, <1>3, Constant DEF Open, Types
<1>5. \A g \in Fds : Open(g) => Open(g)' BY <1>1, <1>3, Constant DEF Open, Types, None
<1>6. /\ \A i \in Slots : slot[i] # None => Open(slot[i])'
      /\ \A i \in TSlots : tslot[i] # None => Open(tslot[i])'
      /\ \A h \in Handlers : Holds(h) => Open(hfd[h])'
  BY <1>3, <1>5 DEF Owning, Open
<1>7. ~Serving BY DEF Accepted, Serving
<1> QED BY <1>2, <1>3, <1>4, <1>6, <1>7 DEF Owning, Open, InSlot, InTslot, Holds

(* A table after one of its sockets was taken out.                          *)
LEMMA TakenOut ==
  ASSUME Types, Owning, NEW f \in Fds
  PROVE  /\ \A i \in Slots : Without(slot, f)[i] = IF slot[i] = f THEN None ELSE slot[i]
         /\ \A i \in TSlots : Without(tslot, f)[i] = IF tslot[i] = f THEN None ELSE tslot[i]
         /\ f \in Ready(slot) => spc = "loop" /\ InSlot(f)
         /\ f \in Ready(tslot) => spc = "loop" /\ InTslot(f)
BY Constant DEF Without, Types, Ready, Occupied, InSlot, InTslot, Slots, TSlots

(* No descriptor gets a second owner.                                       *)
LEMMA OwningKept ==
  ASSUME Types, Places, Owning, ~stray', Next
  PROVE  Owning'
<1> USE Constant, SocketsAssumption DEF Types, Places, Owning, None, Stream, Slots, TSlots, Open, InSlot, InTslot, Serving, Holds
<1>1. CASE AcceptWeb
  BY <1>1, AcceptedOwned DEF AcceptWeb
<1>2. CASE AcceptTelnet
  BY <1>2, AcceptedOwned DEF AcceptTelnet
<1>3. CASE CreateHandler
  BY <1>3 DEF CreateHandler, servers, handlers, tells
<1>4. CASE telnetAccept
  <2>1. PICK i \in TSlots : tslot[i] = None /\ tslot' = [tslot EXCEPT ![i] = sfd]
    <3>1. Available(tslot) \in 1..NBCLIENTT /\ tslot[Available(tslot)] = None
      BY <1>4, AvailableIsFree DEF telnetAccept
    <3> QED BY <1>4, <3>1 DEF telnetAccept
  <2>2. /\ spc = "telnet" /\ spc' = "loop"
        /\ UNCHANGED <<conn, nconn, slot, hpc, hfd>>
    BY <1>4 DEF telnetAccept, handlers
  <2> QED BY <2>1, <2>2
<1>5. CASE telnetRefuse
  BY <1>5 DEF telnetRefuse, servers, handlers, tells
<1>6. CASE CloseRefused
  BY <1>6, NotStray DEF CloseRefused, servers, handlers, tells
<1>7. CASE TelnetEnds
  <2>1. PICK f \in Fds : /\ f \in Ready(tslot) /\ tslot' = Without(tslot, f)
                         /\ conn' = [conn EXCEPT ![f] = None]
    <3>1. Ready(tslot) \subseteq Fds BY DEF Ready, Occupied
    <3> QED BY <1>7, <3>1 DEF TelnetEnds
  <2>2. spc = "loop" /\ UNCHANGED <<nconn, slot, spc, sfd, hpc, hfd>>
    BY <1>7 DEF TelnetEnds, servers, handlers, Ready
  <2>3. InTslot(f) BY <2>1, TakenOut
  <2>4. \A i \in TSlots : tslot'[i] = IF tslot[i] = f THEN None ELSE tslot[i]
    BY <2>1, TakenOut
  <2> QED BY <2>1, <2>2, <2>3, <2>4
<1>8. CASE websocketremoveclient
  <2>1. PICK f \in Fds : f \in Ready(slot) /\ slot' = Without(slot, f) /\ sfd' = f
    <3>1. Ready(slot) \subseteq Fds BY DEF Ready, Occupied
    <3> QED BY <1>8, <3>1 DEF websocketremoveclient
  <2>2. spc = "loop" /\ spc' = "close" /\ UNCHANGED <<conn, nconn, tslot, hpc, hfd>>
    BY <1>8 DEF websocketremoveclient, handlers, Ready
  <2>3. InSlot(f) BY <2>1, TakenOut
  <2>4. \A i \in Slots : slot'[i] = IF slot[i] = f THEN None ELSE slot[i]
    BY <2>1, TakenOut
  <2> QED BY <2>1, <2>2, <2>3, <2>4
<1>9. CASE CloseRemoved
  BY <1>9 DEF CloseRemoved, servers, handlers, tells
<1>10. CASE HalfFrame
  BY <1>10 DEF HalfFrame, Ready, Occupied, servers, handlers, tells
<1>11. CASE websocketlimitedbroadcast
  BY <1>11 DEF websocketlimitedbroadcast, Ready, Occupied, StartOf, servers, handlers, tells
<1>12. ASSUME NEW h \in Handlers, HalfRequest(h) PROVE Owning'
  BY <1>12 DEF HalfRequest, At, servers, handlers, tells
<1>13. ASSUME NEW h \in Handlers, websocketAccept(h) PROVE Owning'
  BY <1>13, AvailableIsFree DEF websocketAccept, At, servers, handlers, tells
<1>14. ASSUME NEW h \in Handlers, TableFull(h) PROVE Owning'
  BY <1>14 DEF TableFull, Exit, servers, handlers, tells
<1>15. ASSUME NEW h \in Handlers, ReadEnds(h) PROVE Owning'
  BY <1>15 DEF ReadEnds, At, servers, handlers, tells
<1>16. ASSUME NEW h \in Handlers, websocketnewclient(h) PROVE Owning'
  BY <1>16 DEF websocketnewclient, At, Forget, servers, handlers, tells
<1>17. ASSUME NEW h \in Handlers, Upgraded(h) PROVE Owning'
  BY <1>17 DEF Upgraded, Exit, servers, handlers, tells
<1>18. ASSUME NEW h \in Handlers, NoKey(h) PROVE Owning'
  <2>1. CASE iswebsocket(hfd[h]) /\ Drops(h)
    <3>1. hpc[h] = "decode" /\ UNCHANGED <<conn, nconn, tslot, spc, sfd>>
      BY <1>18, NoKeyCases DEF servers
    <3>2. hfd[h] \in Fds /\ InSlot(hfd[h])
      BY <2>1 DEF iswebsocket, Occupied
    <3>3. \A i \in Slots : slot'[i] = IF slot[i] = hfd[h] THEN None ELSE slot[i]
      <4>1. slot' = Without(slot, hfd[h]) BY <2>1 DEF Drops
      <4>2. \A i \in Slots : Without(slot, hfd[h])[i] = IF slot[i] = hfd[h] THEN None ELSE slot[i]
        BY <3>2, TakenOut, Zenon
      <4> QED BY <4>1, <4>2
    <3>4. hpc' = [hpc EXCEPT ![h] = "drop"] /\ hfd' = hfd BY <2>1 DEF Drops
    <3> QED BY <3>1, <3>2, <3>3, <3>4
  <2>2. CASE Exit(h) /\ UNCHANGED <<slot, member>>
    <3>1. hpc[h] = "decode" /\ UNCHANGED <<conn, nconn, tslot, spc, sfd>>
      BY <1>18, NoKeyCases DEF servers
    <3> QED BY <2>2, <3>1 DEF Exit
  <2> QED BY <1>18, <2>1, <2>2, NoKeyCases
<1>19. ASSUME NEW h \in Handlers, CloseHandled(h) PROVE Owning'
  BY <1>19 DEF CloseHandled, Exit, servers, handlers, tells
<1>20. ASSUME NEW t \in Tellers, websocketbroadcast(t) PROVE Owning'
  BY <1>20 DEF websocketbroadcast, StartOf, Occupied, servers, handlers, tells
<1>21. ASSUME NEW t \in Tellers, Look(t) PROVE Owning'
  BY <1>21 DEF Look, servers, handlers, tells
<1>22. ASSUME NEW t \in Tellers, sendFrame(t) PROVE Owning'
  BY <1>22 DEF sendFrame, servers, handlers, tells
<1>23. ASSUME NEW t \in Tellers, Told(t) PROVE Owning'
  BY <1>23 DEF Told, servers, handlers, tells
<1>24. CASE StreamOpens
  BY <1>24, LowestIsFree DEF StreamOpens, servers, handlers, tells
<1>25. CASE StreamCloses
  <2>1. /\ streamfd \in Fds /\ conn[streamfd] \in {None, Stream} /\ conn' = [conn EXCEPT ![streamfd] = None]
        /\ UNCHANGED <<nconn, slot, tslot, spc, sfd, hpc, hfd>>
    BY <1>25, NotStray DEF StreamCloses, servers, handlers
  <2>2. /\ ~InSlot(streamfd) /\ ~InTslot(streamfd) /\ Serving => sfd # streamfd
        /\ \A h \in Handlers : Holds(h) => hfd[h] # streamfd
    BY <2>1, FreeIsUnowned
  <2> QED BY <2>1, <2>2
<1> QED BY <1>1, <1>2, <1>3, <1>4, <1>5, <1>6, <1>7, <1>8, <1>9, <1>10, <1>11, <1>12, <1>13, <1>14, <1>15, <1>16, <1>17, <1>18, <1>19, <1>20, <1>21, <1>22, <1>23, <1>24, <1>25 DEF Next, Serves, Handles, Ends, Tells

LEMMA NumberedKept ==
  ASSUME Types, Places, Numbered, Next
  PROVE  Numbered'
<1>1. CASE UNCHANGED <<conn, nconn>> BY <1>1 DEF Numbered
<1>2. ASSUME NEW f \in Fds, conn' = [conn EXCEPT ![f] = None], nconn' = nconn PROVE Numbered'
  BY <1>2 DEF Numbered, Types, None
<1>3. ASSUME NEW next, Accepted(next) PROVE Numbered'
  <2>1. PICK f \in Fds : f = Min(FreeFds) BY <1>3, LowestIsFree DEF Accepted
  <2>2. conn' = [conn EXCEPT ![f] = nconn + 1] /\ nconn' = nconn + 1 BY <1>3, <2>1 DEF Accepted
  <2> QED BY <2>2, Constant DEF Numbered, Types
<1>4. CASE StreamOpens
  <2>1. PICK f \in Fds : f = Min(FreeFds) BY <1>4, LowestIsFree DEF StreamOpens
  <2>2. conn' = [conn EXCEPT ![f] = Stream] /\ nconn' = nconn BY <1>4, <2>1 DEF StreamOpens
  <2> QED BY <2>2 DEF Numbered, Types
<1>5. CASE StreamCloses
  BY <1>2, <1>5 DEF StreamCloses, Types
<1>6. CASE Serves
  <2>1. AcceptWeb \/ AcceptTelnet => Numbered' BY <1>3 DEF AcceptWeb, AcceptTelnet
  <2>2. TelnetEnds => Numbered'
    <3>1. Ready(tslot) \subseteq Fds BY DEF Ready, Occupied, Types
    <3> QED BY <1>2, <3>1 DEF TelnetEnds
  <2>3. telnetRefuse \/ CloseRefused \/ CloseRemoved => Numbered'
    BY <1>2 DEF telnetRefuse, CloseRefused, CloseRemoved, Places
  <2>4. CreateHandler \/ telnetAccept \/ websocketremoveclient \/ HalfFrame \/ websocketlimitedbroadcast => Numbered'
    BY <1>1 DEF CreateHandler, telnetAccept, websocketremoveclient, HalfFrame, websocketlimitedbroadcast
  <2> QED BY <1>6, <2>1, <2>2, <2>3, <2>4 DEF Serves
<1>7. ASSUME NEW h \in Handlers, Handles(h) PROVE Numbered'
  <2>1. CloseHandled(h) => Numbered' BY <1>2 DEF CloseHandled, Places
  <2>2. NoKey(h) => Numbered' BY <1>1, NoKeyCases DEF Types
  <2> QED BY <1>1, <1>7, <2>1, <2>2
          DEF Handles, Ends, HalfRequest, websocketAccept, TableFull, ReadEnds, websocketnewclient, Upgraded
<1>8. ASSUME NEW t \in Tellers, Tells(t) PROVE Numbered'
  BY <1>1, <1>8 DEF Tells, websocketbroadcast, Look, sendFrame, Told
<1> QED BY <1>4, <1>5, <1>6, <1>7, <1>8 DEF Next

(* What is open and not lost is kept by somebody.                           *)
LEMMA KeptKept ==
  ASSUME Types, Numbered, Places, Owning, Kept, Next, ~stray'
  PROVE  Kept'
<1> USE DEF Types, None, Slots, TSlots
<1>0. \A f \in Fds : conn[f] \in (1..nconn) \ leaked => Owned(f) BY DEF Kept
<1>1. ASSUME NEW next, Accepted(next), next \in {"take", "telnet"} PROVE Kept'
  <2>1. PICK g \in Fds : g = Min(FreeFds) /\ conn[g] = None BY <1>1, LowestIsFree DEF Accepted
  <2>2. /\ spc = "loop" /\ spc' = next /\ sfd' = g
        /\ nconn' = nconn + 1 /\ conn' = [conn EXCEPT ![g] = nconn + 1]
        /\ UNCHANGED <<slot, tslot, hpc, hfd, leaked>>
    BY <1>1, <2>1 DEF Accepted, handlers
  <2>3. SUFFICES ASSUME NEW f \in Fds, conn'[f] \in (1..nconn') \ leaked'
                 PROVE  Owned(f)'
    BY DEF Kept
  <2>4. CASE f = g BY <1>1, <2>2, <2>4 DEF Owned, Serving
  <2>5. CASE f # g
    <3>1. conn[f] \in (1..nconn) \ leaked
      <4>1. conn'[f] = conn[f] /\ leaked' = leaked /\ nconn' = nconn + 1 BY <2>2, <2>5
      <4>2. conn[f] \in 0..nconn \/ conn[f] = Stream BY DEF Numbered
      <4>3. nconn < MaxConns BY <1>1 DEF Accepted
      <4> QED BY <2>3, <4>1, <4>2, <4>3, Constant DEF Stream
    <3> QED BY <1>0, <2>2, <2>5, <3>1 DEF Owned, InSlot, InTslot, Serving, Holds
  <2> QED BY <2>4, <2>5
<1>3. CASE CreateHandler
  <2>1. /\ spc = "take" /\ spc' = "loop" /\ UNCHANGED <<conn, nconn, slot, tslot, leaked>>
        /\ \E h \in Handlers : /\ hpc[h] = "free"
                               /\ hpc' = [hpc EXCEPT ![h] = "read"] /\ hfd' = [hfd EXCEPT ![h] = sfd]
    BY <1>3 DEF CreateHandler
  <2>2. SUFFICES ASSUME NEW f \in Fds, conn'[f] \in (1..nconn') \ leaked'
                 PROVE  Owned(f)'
    BY DEF Kept
  <2>3. TRUE /\ Owned(f) BY <1>0, <2>1, <2>2
  <2> QED BY <2>1, <2>2, <2>3 DEF Owned, InSlot, InTslot, Serving, Holds
<1>4. CASE telnetAccept
  <2>0. Available(tslot) \in 1..NBCLIENTT /\ tslot[Available(tslot)] = None
    BY <1>4, AvailableIsFree, Constant DEF telnetAccept
  <2>1. PICK i \in TSlots : /\ tslot[i] = None /\ tslot' = [tslot EXCEPT ![i] = sfd]
                           /\ spc = "telnet" /\ spc' = "loop" /\ UNCHANGED <<conn, nconn, slot, hpc, hfd, leaked>>
    BY <1>4, <2>0 DEF telnetAccept, handlers
  <2>2. SUFFICES ASSUME NEW f \in Fds, conn'[f] \in (1..nconn') \ leaked'
                 PROVE  Owned(f)'
    BY DEF Kept
  <2>3. Owned(f) /\ None \notin Fds BY <1>0, <2>1, <2>2, Constant
  <2>4. InTslot(f) => InTslot(f)' BY <2>1, <2>3 DEF InTslot
  <2>5. f = sfd => InTslot(f)' BY <2>1 DEF InTslot
  <2> QED BY <2>1, <2>3, <2>4, <2>5 DEF Owned, InSlot, Serving, Holds
<1>5. CASE telnetRefuse \/ CloseRemoved \/ CloseRefused
  <2>1. /\ spc' \in {"reclose", "loop"} /\ spc \in {"telnet", "close", "reclose"} /\ sfd \in Fds
        /\ conn' = [conn EXCEPT ![sfd] = None] /\ UNCHANGED <<nconn, slot, tslot, hpc, hfd, leaked>>
    BY <1>5 DEF telnetRefuse, CloseRemoved, CloseRefused, handlers, Places
  <2>2. SUFFICES ASSUME NEW f \in Fds, conn'[f] \in (1..nconn') \ leaked'
                 PROVE  Owned(f)'
    BY DEF Kept
  <2>3. f # sfd /\ Owned(f) BY <1>0, <2>1, <2>2
  <2> QED BY <2>1, <2>2, <2>3 DEF Owned, InSlot, InTslot, Serving, Holds
<1>7. CASE TelnetEnds
  <2>1. PICK g \in Ready(tslot) : /\ tslot' = Without(tslot, g) /\ conn' = [conn EXCEPT ![g] = None]
                                 /\ UNCHANGED <<nconn, slot, spc, sfd, hpc, hfd, leaked>>
    BY <1>7 DEF TelnetEnds, servers, handlers
  <2>2. SUFFICES ASSUME NEW f \in Fds, conn'[f] \in (1..nconn') \ leaked'
                 PROVE  Owned(f)'
    BY DEF Kept
  <2>3. f # g /\ Owned(f) BY <1>0, <2>1, <2>2
  <2>4. tslot' = [i \in TSlots |-> IF tslot[i] = g THEN None ELSE tslot[i]] BY <2>1 DEF Without
  <2> QED BY <2>1, <2>2, <2>3, <2>4 DEF Owned, InSlot, InTslot, Serving, Holds
<1>8. CASE websocketremoveclient
  <2>1. PICK g \in Ready(slot) : /\ slot' = Without(slot, g) /\ sfd' = g /\ spc' = "close"
                                 /\ UNCHANGED <<conn, nconn, tslot, hpc, hfd, leaked>>
    BY <1>8 DEF websocketremoveclient, handlers
  <2>2. SUFFICES ASSUME NEW f \in Fds, conn'[f] \in (1..nconn') \ leaked'
                 PROVE  Owned(f)'
    BY DEF Kept
  <2>3. spc = "loop" /\ Owned(f) BY <1>0, <2>1, <2>2 DEF Ready
  <2>4. slot' = [i \in Slots |-> IF slot[i] = g THEN None ELSE slot[i]] BY <2>1 DEF Without
  <2> QED BY <2>1, <2>2, <2>3, <2>4 DEF Owned, InSlot, InTslot, Serving, Holds
<1>9. CASE HalfFrame \/ websocketlimitedbroadcast
  <2>1. spc = "loop" /\ spc' \in {"spin", "tell"} /\ UNCHANGED <<conn, nconn, slot, tslot, hpc, hfd, leaked>>
    BY <1>9 DEF HalfFrame, websocketlimitedbroadcast, Ready, handlers
  <2> QED BY <2>1 DEF Kept, Owned, InSlot, InTslot, Serving, Holds
<1>10. ASSUME NEW h \in Handlers, HalfRequest(h) \/ websocketAccept(h) \/ ReadEnds(h) PROVE Kept'
  <2>1. /\ \E to \in {"stuck", "store", "close"} : hpc[h] = "read" /\ hpc' = [hpc EXCEPT ![h] = to]
        /\ UNCHANGED <<conn, nconn, slot, tslot, spc, sfd, hfd, leaked>>
    BY <1>10 DEF HalfRequest, websocketAccept, ReadEnds, At, servers
  <2>2. SUFFICES ASSUME NEW f \in Fds, conn'[f] \in (1..nconn') \ leaked'
                 PROVE  Owned(f)'
    BY DEF Kept
  <2>3. Owned(f) BY <1>0, <2>1, <2>2
  <2> QED BY <2>1, <2>2, <2>3 DEF Owned, InSlot, InTslot, Serving, Holds
<1>11. ASSUME NEW h \in Handlers, TableFull(h) PROVE Kept'
  <2>1. /\ leaked' = leaked \cup {conn[hfd[h]]} /\ hpc' = [hpc EXCEPT ![h] = "free"] /\ hfd' = [hfd EXCEPT ![h] = None]
        /\ UNCHANGED <<conn, nconn, slot, tslot, spc, sfd>>
    BY <1>11 DEF TableFull, Exit, servers
  <2>2. SUFFICES ASSUME NEW f \in Fds, conn'[f] \in (1..nconn') \ leaked'
                 PROVE  Owned(f)'
    BY DEF Kept
  <2>3. f # hfd[h] /\ Owned(f) BY <1>0, <2>1, <2>2
  <2> QED BY <2>1, <2>2, <2>3 DEF Owned, InSlot, InTslot, Serving, Holds
<1>12. ASSUME NEW h \in Handlers, websocketnewclient(h) PROVE Kept'
  <2>1. PICK i \in Slots : /\ slot' = [slot EXCEPT ![i] = hfd[h]] /\ hpc[h] = "store" /\ hpc' = [hpc EXCEPT ![h] = "decode"]
                          /\ leaked' = leaked \cup {conn[f] : f \in {slot[i]} \ {None}}
                          /\ UNCHANGED <<conn, nconn, tslot, spc, sfd, hfd>>
    BY <1>12 DEF websocketnewclient, At, servers, Places
  <2>2. SUFFICES ASSUME NEW f \in Fds, conn'[f] \in (1..nconn') \ leaked'
                 PROVE  Owned(f)'
    BY DEF Kept
  <2>3. None \notin Fds BY Constant
  <2>4. f # slot[i] /\ Owned(f) BY <1>0, <2>1, <2>2, <2>3
  <2> QED BY <2>1, <2>2, <2>4 DEF Owned, InSlot, InTslot, Serving, Holds
<1>13. ASSUME NEW h \in Handlers, hpc[h] = "decode", Exit(h), UNCHANGED <<conn, nconn, slot, tslot, spc, sfd, leaked>>
       PROVE  Kept'
  <2>1. hpc' = [hpc EXCEPT ![h] = "free"] /\ hfd' = [hfd EXCEPT ![h] = None] BY <1>13 DEF Exit
  <2>2. SUFFICES ASSUME NEW f \in Fds, conn'[f] \in (1..nconn') \ leaked'
                 PROVE  Owned(f)'
    BY DEF Kept
  <2>3. Owned(f) BY <1>0, <1>13, <2>2
  <2> QED BY <1>13, <2>1, <2>3 DEF Owned, InSlot, InTslot, Serving, Holds
<1>14. ASSUME NEW h \in Handlers, Upgraded(h) PROVE Kept'
  BY <1>13, <1>14 DEF Upgraded, servers
<1>15. ASSUME NEW h \in Handlers, NoKey(h) PROVE Kept'
  <2>1. hpc[h] = "decode" /\ UNCHANGED <<conn, nconn, tslot, spc, sfd, leaked>>
    BY <1>15, NoKeyCases DEF servers
  <2>2. CASE Drops(h)
    <3>1. /\ hpc' = [hpc EXCEPT ![h] = "drop"] /\ hfd' = hfd
          /\ slot' = [i \in Slots |-> IF slot[i] = hfd[h] THEN None ELSE slot[i]]
      BY <2>2 DEF Drops, Without
    <3>2. SUFFICES ASSUME NEW f \in Fds, conn'[f] \in (1..nconn') \ leaked'
                   PROVE  Owned(f)'
      BY DEF Kept
    <3>3. Owned(f) BY <1>0, <2>1, <3>2
    <3> QED BY <2>1, <3>1, <3>3 DEF Owned, InSlot, InTslot, Serving, Holds
  <2>3. CASE Exit(h) /\ UNCHANGED <<slot, member>> BY <1>13, <2>1, <2>3
  <2> QED BY <1>15, <2>2, <2>3, NoKeyCases
<1>16. ASSUME NEW h \in Handlers, CloseHandled(h) PROVE Kept'
  <2>1. /\ hfd[h] \in Fds /\ conn' = [conn EXCEPT ![hfd[h]] = None]
        /\ hpc' = [hpc EXCEPT ![h] = "free"] /\ hfd' = [hfd EXCEPT ![h] = None]
        /\ UNCHANGED <<nconn, slot, tslot, spc, sfd, leaked>>
    BY <1>16 DEF CloseHandled, Exit, servers, Places
  <2>2. SUFFICES ASSUME NEW f \in Fds, conn'[f] \in (1..nconn') \ leaked'
                 PROVE  Owned(f)'
    BY DEF Kept
  <2>3. f # hfd[h] /\ Owned(f) BY <1>0, <2>1, <2>2
  <2> QED BY <2>1, <2>2, <2>3 DEF Owned, InSlot, InTslot, Serving, Holds
<1>17. ASSUME NEW t \in Tellers, Tells(t) PROVE Kept'
  <2>1. UNCHANGED <<conn, nconn, slot, tslot, sfd, hpc, hfd, leaked>> /\ (Serving => spc' = spc)
    BY <1>17 DEF Tells, websocketbroadcast, Look, sendFrame, Told, servers, handlers, Places, Serving
  <2> QED BY <2>1 DEF Kept, Owned, InSlot, InTslot, Serving, Holds
<1>18. CASE StreamOpens
  <2>1. PICK g \in Fds : g = Min(FreeFds) /\ conn[g] = None BY <1>18, LowestIsFree DEF StreamOpens
  <2>2. conn' = [conn EXCEPT ![g] = Stream] /\ UNCHANGED <<nconn, slot, tslot, spc, sfd, hpc, hfd, leaked>>
    BY <1>18, <2>1 DEF StreamOpens, servers, handlers
  <2>3. Stream \notin 1..nconn BY Constant DEF Stream
  <2> QED BY <2>1, <2>2, <2>3 DEF Kept, Owned, InSlot, InTslot, Serving, Holds
<1>19. CASE StreamCloses
  <2>1. streamfd \in Fds /\ conn' = [conn EXCEPT ![streamfd] = None] /\ UNCHANGED <<nconn, slot, tslot, spc, sfd, hpc, hfd, leaked>>
    BY <1>19 DEF StreamCloses, servers, handlers
  <2>2. SUFFICES ASSUME NEW f \in Fds, conn'[f] \in (1..nconn') \ leaked'
                 PROVE  Owned(f)'
    BY DEF Kept
  <2>3. Owned(f) BY <1>0, <2>1, <2>2
  <2> QED BY <2>1, <2>3 DEF Owned, InSlot, InTslot, Serving, Holds
<1> QED BY <1>1, <1>3, <1>4, <1>5, <1>7, <1>8, <1>9, <1>10, <1>11, <1>12, <1>14, <1>15, <1>16, <1>17, <1>18, <1>19
        DEF Next, Serves, Handles, Ends, AcceptWeb, AcceptTelnet

(* Nothing a broadcast has before it is lost, if a slot that changes is that *)
(* of a connection no broadcast owes anything to.                           *)
LEMMA TellingStays ==
  ASSUME Telling, UNCHANGED tells,
         \A t \in Tellers : member'[t] \subseteq member[t],
         \A i \in Slots : slot[i] # None =>
            \/ slot'[i] = slot[i] /\ conn'[slot[i]] = conn[slot[i]]
            \/ \A t \in Tellers : conn[slot[i]] \notin member'[t]
  PROVE  Telling'
<1>1. UNCHANGED <<bpc, bidx, btarget, omit, reached>> BY DEF tells
<1>2. SUFFICES ASSUME NEW t \in Tellers, bpc[t] # "idle", NEW c \in member'[t], c \notin reached[t]
               PROVE  \E i \in Slots : slot'[i] \notin {None, omit[t]} /\ conn'[slot'[i]] = c /\ Ahead(t, i)'
  BY <1>1 DEF Telling
<1>3. PICK i \in Slots : slot[i] \notin {None, omit[t]} /\ conn[slot[i]] = c /\ Ahead(t, i)
  BY <1>2 DEF Telling
<1>4. slot'[i] = slot[i] /\ conn'[slot[i]] = conn[slot[i]] BY <1>2, <1>3
<1>5. Ahead(t, i)' BY <1>1, <1>3, <1>4 DEF Ahead
<1> QED BY <1>3, <1>4, <1>5

LEMMA TellingStarts ==
  ASSUME Types, Places, Histories, Telling, NEW t \in Tellers, NEW sender, StartOf(t, sender), UNCHANGED <<slot, conn>>
  PROVE  Telling'
<1>1. /\ bpc' = [bpc EXCEPT ![t] = "check"] /\ omit' = [omit EXCEPT ![t] = sender]
      /\ member' = [member EXCEPT ![t] = {conn[f] : f \in Occupied(slot) \ {sender}}]
      /\ UNCHANGED <<bidx, btarget, reached>> /\ bidx[t] = 1
  BY DEF StartOf, Places
<1>2. ASSUME NEW c \in member'[t]
      PROVE  \E i \in Slots : slot'[i] \notin {None, omit'[t]} /\ conn'[slot'[i]] = c /\ Ahead(t, i)'
  <2>1. PICK f \in Occupied(slot) \ {sender} : conn[f] = c BY <1>1, <1>2 DEF Histories
  <2>2. PICK i \in Slots : slot[i] = f /\ f # None BY <2>1 DEF Occupied, Types
  <2>3. Ahead(t, i)' BY <1>1, Constant DEF Ahead, Slots, Types
  <2> QED BY <1>1, <2>1, <2>2, <2>3 DEF Histories
<1>3. ASSUME NEW u \in Tellers, u # t, bpc'[u] # "idle", NEW c \in member'[u], c \notin reached'[u]
      PROVE  \E i \in Slots : slot'[i] \notin {None, omit'[u]} /\ conn'[slot'[i]] = c /\ Ahead(u, i)'
  <2>1. UNCHANGED <<bpc[u], omit[u], member[u]>> BY <1>1, <1>3 DEF Types, Histories
  <2>2. PICK i \in Slots : slot[i] \notin {None, omit[u]} /\ conn[slot[i]] = c /\ Ahead(u, i)
    BY <1>1, <1>3, <2>1 DEF Telling
  <2>3. Ahead(u, i)' BY <1>1, <2>1, <2>2 DEF Ahead
  <2> QED BY <2>1, <2>2, <2>3
<1> QED BY <1>2, <1>3 DEF Telling

(* A broadcast takes its next step.                                         *)
LEMMA TellingGoesOn ==
  ASSUME Types, Places, Histories, Telling, NEW t \in Tellers, Look(t) \/ sendFrame(t) \/ Told(t)
  PROVE  Telling'
<1>1. UNCHANGED <<slot, conn>> BY DEF Look, sendFrame, Told
<1>2. ASSUME NEW u \in Tellers, u # t, bpc'[u] # "idle", NEW c \in member'[u], c \notin reached'[u]
      PROVE  \E i \in Slots : slot'[i] \notin {None, omit'[u]} /\ conn'[slot'[i]] = c /\ Ahead(u, i)'
  <2>1. UNCHANGED <<bpc[u], omit[u], member[u], bidx[u], btarget[u], reached[u]>>
    BY <1>2 DEF Types, Histories, Look, sendFrame, Told
  <2>2. PICK i \in Slots : slot[i] \notin {None, omit[u]} /\ conn[slot[i]] = c /\ Ahead(u, i)
    BY <1>2, <2>1 DEF Telling
  <2>3. Ahead(u, i)' BY <1>1, <2>1, <2>2 DEF Ahead
  <2> QED BY <1>1, <2>1, <2>2, <2>3
<1>3. ASSUME bpc'[t] # "idle", NEW c \in member'[t], c \notin reached'[t]
      PROVE  \E i \in Slots : slot'[i] \notin {None, omit'[t]} /\ conn'[slot'[i]] = c /\ Ahead(t, i)'
  <2>1. ~Told(t) BY <1>3 DEF Told, Types
  <2>2. omit' = omit /\ member' = member BY <2>1 DEF Look, sendFrame
  <2>3. c \notin reached[t] /\ bpc[t] # "idle" BY <1>3, <2>1 DEF Look, sendFrame, Histories
  <2>4. PICK i \in Slots : slot[i] \notin {None, omit[t]} /\ conn[slot[i]] = c /\ Ahead(t, i)
    BY <1>3, <2>2, <2>3 DEF Telling
  <2>5. i \in Int /\ bidx[t] \in Int /\ bidx[t] \in Slots BY <2>1, Constant DEF Types, Slots, Places, Look, sendFrame
  <2>6. CASE Look(t)
    <3>1. CASE slot[bidx[t]] \in {None, omit[t]}
      <4>1. bidx' = [bidx EXCEPT ![t] = bidx[t] + 1] /\ bpc' = bpc /\ btarget' = btarget /\ bpc[t] = "check"
        BY <2>6, <3>1 DEF Look
      <4>2. i # bidx[t] BY <2>4, <3>1
      <4>3. Ahead(t, i)' BY <2>4, <2>5, <4>1, <4>2 DEF Ahead, Types
      <4> QED BY <1>1, <2>2, <2>4, <4>3
    <3>2. CASE slot[bidx[t]] \notin {None, omit[t]}
      <4>1. bidx' = bidx /\ btarget' = [btarget EXCEPT ![t] = slot[bidx[t]]] BY <2>6, <3>2 DEF Look
      <4>2. Ahead(t, i)' BY <1>1, <2>4, <4>1 DEF Ahead, Types
      <4> QED BY <1>1, <2>2, <2>4, <4>2
    <3> QED BY <3>1, <3>2
  <2>7. CASE sendFrame(t)
    <3>1. /\ bpc[t] = "write" /\ bidx' = [bidx EXCEPT ![t] = bidx[t] + 1] /\ bpc'[t] = "check"
          /\ reached'[t] = reached[t] \cup {conn[btarget[t]]}
      BY <2>7 DEF sendFrame, Types, Histories
    <3>2. i # bidx[t] BY <1>3, <2>4, <2>5, <3>1 DEF Ahead
    <3>3. Ahead(t, i)' BY <2>4, <2>5, <3>1, <3>2 DEF Ahead, Types
    <3> QED BY <1>1, <2>2, <2>4, <3>3
  <2> QED BY <2>1, <2>6, <2>7
<1> QED BY <1>2, <1>3 DEF Telling

LEMMA TellingKept ==
  ASSUME Types, Places, Histories, Owning, Telling, Next, ~stray'
  PROVE  Telling'
<1>0. None \notin Fds BY Constant DEF None
<1>1. CASE UNCHANGED <<slot, conn, tells, member>>
  BY <1>1, TellingStays
<1>2. ASSUME NEW f \in Fds, ~InSlot(f), NEW c, conn' = [conn EXCEPT ![f] = c], UNCHANGED <<slot, tells, member>>
      PROVE  Telling'
  <2>1. \A i \in Slots : slot[i] # None => conn'[slot[i]] = conn[slot[i]]
    BY <1>2 DEF InSlot, Types
  <2> QED BY <1>2, <2>1, TellingStays
<1>3. ASSUME NEW f \in Fds, InSlot(f), slot' = Without(slot, f), Forget(f), UNCHANGED <<conn, tells>>
      PROVE  Telling'
  <2>1. \A t \in Tellers : member'[t] = member[t] \ {conn[f]} BY <1>3 DEF Forget
  <2>2. \A i \in Slots : slot'[i] = IF slot[i] = f THEN None ELSE slot[i] BY <1>3, TakenOut
  <2> QED BY <1>3, <2>1, <2>2, TellingStays
<1>4. ASSUME NEW next, Accepted(next) PROVE Telling'
  <2>1. PICK f \in Fds : f = Min(FreeFds) /\ conn[f] = None BY <1>4, LowestIsFree DEF Accepted
  <2>2. ~InSlot(f) BY <2>1, FreeIsUnowned
  <2>3. conn' = [conn EXCEPT ![f] = nconn + 1] /\ UNCHANGED <<slot, tells, member>> BY <1>4, <2>1 DEF Accepted
  <2> QED BY <1>2, <2>2, <2>3
<1>5. CASE StreamOpens
  <2>1. PICK f \in Fds : f = Min(FreeFds) /\ conn[f] = None BY <1>5, LowestIsFree DEF StreamOpens
  <2>2. ~InSlot(f) BY <2>1, FreeIsUnowned
  <2>3. conn' = [conn EXCEPT ![f] = Stream] /\ UNCHANGED <<slot, tells, member>> BY <1>5, <2>1 DEF StreamOpens
  <2> QED BY <1>2, <2>2, <2>3
<1>6. CASE StreamCloses
  <2>1. streamfd \in Fds /\ conn[streamfd] \in {None, Stream} BY <1>6, NotStray DEF StreamCloses, Types
  <2>2. ~InSlot(streamfd) BY <2>1, FreeIsUnowned
  <2>3. conn' = [conn EXCEPT ![streamfd] = None] /\ UNCHANGED <<slot, tells, member>> BY <1>6 DEF StreamCloses
  <2> QED BY <1>2, <2>1, <2>2, <2>3
<1>7. CASE telnetRefuse \/ CloseRemoved \/ CloseRefused
  <2>1. sfd \in Fds BY <1>7 DEF telnetRefuse, CloseRemoved, CloseRefused, Places
  <2>2. ~InSlot(sfd)
    <3>1. CASE CloseRefused BY <2>1, <3>1, NotStray, FreeIsUnowned
    <3>2. CASE telnetRefuse \/ CloseRemoved BY <3>2 DEF telnetRefuse, CloseRemoved, Owning, Serving
    <3> QED BY <1>7, <3>1, <3>2
  <2>3. conn' = [conn EXCEPT ![sfd] = None] /\ UNCHANGED <<slot, tells, member>>
    BY <1>7 DEF telnetRefuse, CloseRemoved, CloseRefused
  <2> QED BY <1>2, <2>1, <2>2, <2>3
<1>8. CASE TelnetEnds
  <2>0. Ready(tslot) \subseteq Fds BY DEF Ready, Occupied, Types
  <2>1. PICK f \in Ready(tslot) : conn' = [conn EXCEPT ![f] = None] BY <1>8 DEF TelnetEnds
  <2>2. f \in Fds /\ InTslot(f) BY <2>0, <2>1, TakenOut
  <2>3. ~InSlot(f) BY <1>0, <2>2 DEF InSlot, InTslot, Owning
  <2>4. UNCHANGED <<slot, tells, member>> BY <1>8 DEF TelnetEnds
  <2> QED BY <1>2, <2>1, <2>2, <2>3, <2>4
<1>9. CASE websocketremoveclient
  <2>0. Ready(slot) \subseteq Fds BY DEF Ready, Occupied, Types
  <2>1. PICK f \in Ready(slot) : slot' = Without(slot, f) /\ Forget(f) BY <1>9 DEF websocketremoveclient
  <2>2. f \in Fds /\ InSlot(f) BY <2>0, <2>1, TakenOut
  <2>3. UNCHANGED <<conn, tells>> BY <1>9 DEF websocketremoveclient
  <2> QED BY <1>3, <2>1, <2>2, <2>3
<1>10. CASE CreateHandler \/ telnetAccept \/ HalfFrame
  BY <1>1, <1>10 DEF CreateHandler, telnetAccept, HalfFrame
<1>11. CASE websocketlimitedbroadcast
  <2>1. PICK f : StartOf("servers", f) BY <1>11 DEF websocketlimitedbroadcast
  <2>2. UNCHANGED <<slot, conn>> BY <1>11 DEF websocketlimitedbroadcast
  <2> QED BY <2>1, <2>2, TellingStarts DEF Tellers
<1>12. ASSUME NEW h \in Handlers, websocketnewclient(h) PROVE Telling'
  <2>1. PICK i \in Slots : /\ slot' = [slot EXCEPT ![i] = hfd[h]] /\ UNCHANGED <<conn, tells>>
                          /\ IF slot[i] = None THEN UNCHANGED member ELSE Forget(slot[i])
    BY <1>12 DEF websocketnewclient, At, Places
  <2>2. \A t \in Tellers : member'[t] \subseteq member[t] /\ (slot[i] # None => conn[slot[i]] \notin member'[t])
    BY <2>1 DEF Forget
  <2>3. \A j \in Slots : slot[j] # None => j = i \/ slot'[j] = slot[j]
    BY <2>1 DEF Types
  <2> QED BY <2>1, <2>2, <2>3, TellingStays
<1>13. ASSUME NEW h \in Handlers, NoKey(h) PROVE Telling'
  <2>1. UNCHANGED <<conn, tells>> BY <1>13, NoKeyCases DEF Types
  <2>2. CASE iswebsocket(hfd[h]) /\ Drops(h)
    <3>1. hfd[h] \in Fds /\ InSlot(hfd[h])
      BY <2>2 DEF iswebsocket, Occupied, InSlot, Types
    <3> QED BY <1>3, <2>1, <2>2, <3>1 DEF Drops
  <2>3. CASE UNCHANGED <<slot, member>> BY <1>1, <2>1, <2>3
  <2> QED BY <1>13, <2>2, <2>3, NoKeyCases DEF Types
<1>14. ASSUME NEW h \in Handlers, CloseHandled(h) PROVE Telling'
  <2>1. hfd[h] \in Fds /\ ~InSlot(hfd[h]) BY <1>14 DEF CloseHandled, Owning, Holds, Places
  <2>2. conn' = [conn EXCEPT ![hfd[h]] = None] /\ UNCHANGED <<slot, tells, member>> BY <1>14 DEF CloseHandled
  <2> QED BY <1>2, <2>1, <2>2
<1>15. ASSUME NEW h \in Handlers, HalfRequest(h) \/ websocketAccept(h) \/ TableFull(h) \/ ReadEnds(h) \/ Upgraded(h)
       PROVE  Telling'
  BY <1>1, <1>15 DEF HalfRequest, websocketAccept, TableFull, ReadEnds, Upgraded
<1>16. ASSUME NEW t \in Tellers, websocketbroadcast(t) PROVE Telling'
  BY <1>16, TellingStarts DEF websocketbroadcast
<1>17. ASSUME NEW t \in Tellers, Look(t) \/ sendFrame(t) \/ Told(t) PROVE Telling'
  BY <1>17, TellingGoesOn
<1>18. CASE Serves
  BY <1>4, <1>7, <1>8, <1>9, <1>10, <1>11, <1>18 DEF Serves, AcceptWeb, AcceptTelnet
<1> QED BY <1>5, <1>6, <1>12, <1>13, <1>14, <1>15, <1>16, <1>17, <1>18 DEF Next, Handles, Ends, Tells
-----------------------------------------------------------------------------
LEMMA InvHolds == Spec => []Inv
<1>1. Init => Inv
  <2> USE DEF Init, Tellers, Slots, TSlots, None, Stream
  <2>1. Init => Types BY Constant DEF Types
  <2>2. Init => Numbered /\ Places /\ Histories BY Constant DEF Numbered, Places, Histories
  <2>3. Init => Counted
    <3>1. Init => {h \in Handlers : hpc[h] = "free"} = Handlers OBVIOUS
    <3> QED BY <3>1 DEF Counted
  <2>4. Init => Owning /\ Kept /\ Telling
    BY Constant DEF Owning, Kept, Telling, InSlot, InTslot, Open, Holds, Serving, Owned
  <2> QED BY <2>1, <2>2, <2>3, <2>4 DEF Inv
<1>2. Inv /\ [Next]_vars => Inv'
  <2> SUFFICES ASSUME Inv, [Next]_vars PROVE Inv' OBVIOUS
  <2>1. CASE Next
    <3>1. Types' /\ Numbered' /\ Places' /\ Histories' /\ Counted'
      BY <2>1, TypesKept, NumberedKept, CountedKept DEF Inv
    <3>2. ASSUME ~stray' PROVE Owning' /\ Kept' /\ Telling'
      <4>1. ~stray BY <2>1 DEF Next
      <4> QED BY <2>1, <3>2, <4>1, OwningKept, KeptKept, TellingKept DEF Inv
    <3> QED BY <3>1, <3>2 DEF Inv
  <2>2. CASE UNCHANGED vars
    <3> USE <2>2 DEF vars, servers, handlers, tells
    <3>1. Types' /\ Numbered' /\ Places' /\ Histories' /\ Counted'
      BY DEF Inv, Types, Numbered, Places, Histories, Counted
    <3>2. (~stray => Owning /\ Kept /\ Telling)'
      BY DEF Inv, Owning, Kept, Telling, InSlot, InTslot, Open, Holds, Serving, Owned, Ahead
    <3> QED BY <3>1, <3>2 DEF Inv
  <2> QED BY <2>1, <2>2
<1> QED BY <1>1, <1>2, PTL DEF Spec

(* Every variable keeps its type, and the semaphore counts the handlers that *)
(* are free.                                                                *)
THEOREM TypeCorrect == Spec => []TypeOK
<1>1. Inv => TypeOK BY DEF Inv, Types, Counted, TypeOK
<1> QED BY <1>1, InvHolds, PTL

(* A slot holds the open connection of its client, and no descriptor is in  *)
(* two slots, however the tasks interleave, until a task closes a socket of *)
(* another.                                                                 *)
THEOREM SlotsCorrect == Spec => []SlotsHoldOpen
<1>1. Inv => SlotsHoldOpen
  <2> SUFFICES ASSUME Inv, ~stray PROVE SlotsHoldOpen BY Zenon DEF SlotsHoldOpen
  <2>1. Owning /\ Types BY DEF Inv
  <2>2. \A f \in Occupied(slot) \cup Occupied(tslot) : conn[f] \in 1..nconn
    BY <2>1 DEF Owning, Types, Open, Occupied
  <2>3. Occupied(slot) \cap Occupied(tslot) = {}
    BY <2>1 DEF Owning, Types, InTslot, Occupied
  <2>4. \A i, j \in Slots : slot[i] = slot[j] => i = j \/ slot[i] = None
    BY <2>1 DEF Owning
  <2>5. \A i, j \in TSlots : tslot[i] = tslot[j] => i = j \/ tslot[i] = None
    BY <2>1 DEF Owning
  <2> QED BY <2>2, <2>3, <2>4, <2>5, Zenon DEF SlotsHoldOpen
<1> QED BY <1>1, InvHolds, PTL

(* Every open socket that no full table lost is in a slot or in the hands   *)
(* of a task.                                                               *)
THEOREM OwnedCorrect == Spec => []SocketsOwned
<1>1. Inv => SocketsOwned
  <2> SUFFICES ASSUME Inv, ~stray PROVE SocketsOwned BY Zenon DEF SocketsOwned
  <2>1. Kept /\ Types BY DEF Inv
  <2>2. None \notin Fds BY Constant DEF None
  <2>3. \A f \in Fds : Owned(f) => InHand(f)
    BY <2>1, <2>2 DEF Owned, InHand, InSlot, InTslot, Occupied, Types
  <2>4. \A f \in Fds : conn[f] \in (1..nconn) \ leaked => InHand(f) BY <2>1, <2>3 DEF Kept
  <2> QED BY <2>4, Zenon DEF SocketsOwned
<1> QED BY <1>1, InvHolds, PTL

(* A broadcast ends when it has written to all web sockets that were there  *)
(* from its beginning, for any number of slots and tasks.                   *)
THEOREM AllTold == Spec => AllReached
<1>1. Inv /\ [Next]_vars => [\A t \in Tellers :
        bpc[t] # "idle" /\ bpc'[t] = "idle" => member[t] \subseteq reached[t]]_vars
  <2> SUFFICES ASSUME Inv, Next, NEW t \in Tellers, bpc[t] # "idle", bpc'[t] = "idle"
               PROVE  member[t] \subseteq reached[t]
    OBVIOUS
  <2>1. ~stray BY DEF Next
  <2>2. Telling /\ Types /\ Places BY <2>1 DEF Inv
  <2>3. Told(t)
    BY <2>2 DEF Next, Serves, Handles, Ends, Tells, AcceptWeb, AcceptTelnet, Accepted, CreateHandler, telnetAccept,
      telnetRefuse, CloseRefused, TelnetEnds, websocketremoveclient, CloseRemoved, HalfFrame,
      websocketlimitedbroadcast, HalfRequest, websocketAccept, TableFull, ReadEnds, websocketnewclient,
      Upgraded, NoKey, CloseHandled, websocketbroadcast, Look, sendFrame, Told, StreamOpens, StreamCloses,
      StartOf, tells, Types
  <2>4. bpc[t] = "check" /\ bidx[t] = NBCLIENT + 1
    BY <2>2, <2>3, Constant DEF Told, Types, Slots
  <2>5. \A i \in Slots : ~Ahead(t, i) BY <2>4, Constant DEF Ahead, Slots
  <2> QED BY <2>2, <2>5 DEF Telling
<1> QED BY <1>1, InvHolds, PTL DEF Spec, AllReached
==============================================================================
