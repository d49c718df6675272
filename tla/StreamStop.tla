----------------------------- MODULE StreamStop ------------------------------
(***************************************************************************)
(* StreamClient with a history variable: was the last request of all to    *)
(* stop, and did it come while the radio was connected and playing?        *)
(* Requests to play are those of playStationInt and of cli.instant,        *)
(* a request to stop is that of cli.stop, of the buttons and of the sleep  *)
(* timer.                                                                  *)
(***************************************************************************)
EXTENDS StreamClient

VARIABLE stopped

hvars == <<svars, stopped>>

HistoryInit == Init /\ stopped = FALSE

HistoryNext ==
  \/ (clientTask \/ vsTask \/ \E u \in Users : Proceed(u)) /\ UNCHANGED stopped
  \/ (\E u \in Users : AskStop(u)) /\ stopped' = (playing /\ cpc \in {"recv", "poll"})
  \/ Asks /\ stopped' = FALSE

HistorySpec ==
  /\ HistoryInit /\ [][HistoryNext]_hvars
  /\ WF_svars(clientTask) /\ WF_svars(vsTask)
  /\ \A u \in Users : WF_svars(Proceed(u))

(* "Stops playback of the current station" (docs/interfaces.md:26): if the *)
(* last request of all was to stop, and it came while a stream was being   *)
(* received and played, the radio gets silent and stays so.                *)
NobodyAsks == \A u \in Users : ~AskStop(u)
StopStops == <>[]stopped /\ <>[][NobodyAsks]_hvars => <>[]~playing
==============================================================================
