------------------------------ MODULE NtpClock -------------------------------
(***************************************************************************)
(* The clock (ntp.c): the time of the last answer of the NTP server, moved *)
(* on with a counter of milliseconds that wraps.  Times of day are kept    *)
(* relative to the answer; a tick is the unit of the counter.              *)
(***************************************************************************)
EXTENDS Integers

CONSTANTS
  UptimeWrap,        \* ntpUptimeMs counts modulo UptimeWrap
  Second,      \* ticks in a second
  Resync,      \* NTP_RESYNC_SEC, in ticks
  Retry,       \* NTP_RETRY_SEC, in ticks
  MaxFetch     \* bound: ticks a round trip takes

NtpClockAssumption ==
  /\ {UptimeWrap, Second, Resync, Retry, MaxFetch} \subseteq Nat \ {0}
  /\ UptimeWrap > Resync + Retry + MaxFetch

VARIABLES
  ntpUptimeMs, syncedMs, lastAttemptMs, waitMs, everAttempted,
  synced,      \* syncedTime # 0
  pc,          \* "idle", "asked", "answered", "shown"
  hasIp,
  shown,       \* seconds of the result since syncedTime
  fetching,    \* ticks since the request
  stamp,       \* history: the answer under way, [ago |-> ticks since, part |-> of the second]
  truth,       \* history: the answer in syncedTime
  late         \* history: how old that was when it came

vars == <<ntpUptimeMs, syncedMs, lastAttemptMs, waitMs, everAttempted, synced, pc, hasIp, shown,
          fetching, stamp, truth, late>>

NoStamp == [ago |-> 0, part |-> 0]
Least(a, b) == IF a < b THEN a ELSE b

Init ==
  /\ ntpUptimeMs \in 0..UptimeWrap - 1    \* up for any time
  /\ syncedMs = 0 /\ lastAttemptMs = 0 /\ waitMs = 0 /\ everAttempted = FALSE
  /\ synced = FALSE /\ pc = "idle" /\ hasIp = FALSE /\ shown = 0 /\ fetching = 0
  /\ stamp = NoStamp /\ truth = NoStamp /\ late = 0
-----------------------------------------------------------------------------
(* ntp_tick10ms.                                                            *)
ntp_tick10ms ==
  /\ pc \in {"asked", "answered"} => fetching < MaxFetch
  /\ ntpUptimeMs' = (ntpUptimeMs + 1) % UptimeWrap
  /\ fetching' = IF pc \in {"asked", "answered"} THEN fetching + 1 ELSE 0
  /\ stamp' = IF pc = "answered" THEN [stamp EXCEPT !.ago = @ + 1] ELSE NoStamp
  /\ truth' = IF synced THEN [truth EXCEPT !.ago = Least(@ + 1, UptimeWrap)] ELSE truth
  /\ pc' = IF pc = "shown" THEN "idle" ELSE pc
  /\ shown' = 0
  /\ UNCHANGED <<syncedMs, lastAttemptMs, waitMs, everAttempted, synced, hasIp, late>>

Due == ~everAttempted \/ (ntpUptimeMs - lastAttemptMs) % UptimeWrap >= waitMs

Elapsed(now) == ((now - syncedMs) % UptimeWrap) \div Second

(* ntp_get_local_time, when it is time to ask and there is an address.      *)
Ask ==
  /\ pc = "idle" /\ Due /\ hasIp
  /\ everAttempted' = TRUE /\ lastAttemptMs' = ntpUptimeMs
  /\ pc' = "asked" /\ fetching' = 0
  /\ UNCHANGED <<ntpUptimeMs, syncedMs, waitMs, synced, hasIp, shown, stamp, truth, late>>

(* The server puts its time, in seconds, into the answer.                   *)
Answer ==
  /\ pc = "asked"
  /\ pc' = "answered"
  /\ stamp' \in [ago : {0}, part : 0..Second - 1]
  /\ UNCHANGED <<ntpUptimeMs, syncedMs, lastAttemptMs, waitMs, everAttempted, synced, hasIp, shown,
                 fetching, truth, late>>

Show(isSynced, since) ==
  /\ pc' = IF isSynced THEN "shown" ELSE "idle"
  /\ shown' = IF isSynced THEN since ELSE 0

(* Mutant: the time before the round trip is kept.                          *)
FetchedEarly ==
  /\ pc = "answered"
  /\ synced' = TRUE /\ syncedMs' = lastAttemptMs /\ waitMs' = Resync
  /\ truth' = stamp /\ late' = stamp.ago /\ stamp' = NoStamp /\ fetching' = 0
  /\ pc' = "shown" /\ shown' = ((ntpUptimeMs - lastAttemptMs) % UptimeWrap) \div Second
  /\ UNCHANGED <<ntpUptimeMs, lastAttemptMs, everAttempted, hasIp>>

(* ntp_fetch returns the time of an answer, which has been on its way.      *)
Fetched ==
  /\ pc = "answered"
  /\ synced' = TRUE /\ syncedMs' = ntpUptimeMs /\ waitMs' = Resync
  /\ truth' = stamp /\ late' = stamp.ago /\ stamp' = NoStamp /\ fetching' = 0
  /\ pc' = "shown" /\ shown' = 0
  /\ UNCHANGED <<ntpUptimeMs, lastAttemptMs, everAttempted, hasIp>>

(* No answer, or one that is short or from somebody else.                   *)
FetchFails ==
  /\ pc \in {"asked", "answered"}
  /\ waitMs' = Retry /\ stamp' = NoStamp /\ fetching' = 0
  /\ Show(synced, Elapsed(ntpUptimeMs))
  /\ UNCHANGED <<ntpUptimeMs, syncedMs, lastAttemptMs, everAttempted, synced, hasIp, truth, late>>

(* ntp_get_local_time, when it is not time to ask.                          *)
Local ==
  /\ pc = "idle" /\ ~(Due /\ hasIp) /\ synced
  /\ Show(synced, Elapsed(ntpUptimeMs))
  /\ UNCHANGED <<ntpUptimeMs, syncedMs, lastAttemptMs, waitMs, everAttempted, synced, hasIp, fetching,
                 stamp, truth, late>>

Address ==
  /\ hasIp' = ~hasIp
  /\ UNCHANGED <<ntpUptimeMs, syncedMs, lastAttemptMs, waitMs, everAttempted, synced, pc, shown,
                 fetching, stamp, truth, late>>

Next == ntp_tick10ms \/ Ask \/ Answer \/ Fetched \/ FetchFails \/ Local \/ Address

Spec == Init /\ [][Next]_vars
-----------------------------------------------------------------------------
(* Types.                                                                   *)
TypeOK ==
  /\ {ntpUptimeMs, syncedMs, lastAttemptMs} \subseteq 0..UptimeWrap - 1
  /\ waitMs \in {0, Resync, Retry} /\ (waitMs = 0 => ~synced)
  /\ pc \in {"idle", "asked", "answered", "shown"} /\ fetching \in 0..MaxFetch

(* The time that is shown is never ahead of the server's, and behind it by  *)
(* no more than the answer took to come, until the counter has gone round   *)
(* since the last answer.                                                   *)
ClockClose ==
  pc = "shown" /\ truth.ago < UptimeWrap =>
    LET seconds == (truth.ago + truth.part) \div Second
    IN  shown \in seconds - (late + truth.part + Second - 1) \div Second .. seconds
==============================================================================
