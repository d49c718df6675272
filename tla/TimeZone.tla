------------------------------ MODULE TimeZone -------------------------------
(***************************************************************************)
(* applyTZ (ntp.c): from UTC to local time, with the hour of summer time   *)
(* between the last Sundays of March and October, judged by the broken     *)
(* down local time.  UTC walks from the 20th of a month into the next.     *)
(***************************************************************************)
EXTENDS Integers

CONSTANT Offsets       \* the values of tzoffset, in hours

TimeZoneAssumption == Offsets \subseteq -12..14

VARIABLES
  time,        \* struct tm, in UTC, without minutes
  leap,        \* is it a leap year?
  tzo

vars == <<time, leap, tzo>>

DaysIn(mon) == IF mon = 1 THEN IF leap THEN 29 ELSE 28 ELSE IF mon \in {3, 5, 8, 10} THEN 30 ELSE 31

Tm(mon, mday, wday, hour) == [tm_mon |-> mon, tm_mday |-> mday, tm_wday |-> wday, tm_hour |-> hour]

Init ==
  /\ \E mon \in 0..11, wday \in 0..6 : time = Tm(mon, 23, wday, 0)
  /\ leap \in BOOLEAN /\ tzo \in Offsets
-----------------------------------------------------------------------------
(* mktime, of a time whose hour is up to a day off: a day is carried.       *)
NextDay(t) ==
  IF t.tm_mday < DaysIn(t.tm_mon) THEN Tm(t.tm_mon, t.tm_mday + 1, (t.tm_wday + 1) % 7, t.tm_hour - 24)
  ELSE Tm((t.tm_mon + 1) % 12, 1, (t.tm_wday + 1) % 7, t.tm_hour - 24)
DayBefore(t) ==
  IF t.tm_mday > 1 THEN Tm(t.tm_mon, t.tm_mday - 1, (t.tm_wday + 6) % 7, t.tm_hour + 24)
  ELSE LET mon == (t.tm_mon + 11) % 12 IN Tm(mon, DaysIn(mon), (t.tm_wday + 6) % 7, t.tm_hour + 24)
mktime(t) == IF t.tm_hour > 23 THEN NextDay(t) ELSE IF t.tm_hour < 0 THEN DayBefore(t) ELSE t

Later(t, hours) == mktime([t EXCEPT !.tm_hour = @ + hours])

(* Mutant: the Sunday to come is looked for instead of the one gone by.     *)
DstByNextSunday(t) ==
  LET sunday == t.tm_mday + ((7 - t.tm_wday) % 7)
  IN  \/ t.tm_mon \in 3..8
      \/ t.tm_mon = 2 /\ sunday >= 25 /\ (t.tm_wday = 0 => t.tm_hour >= 2)
      \/ t.tm_mon = 9 /\ (sunday >= 25 => t.tm_wday = 0 /\ t.tm_hour < 1)

Dst(t) ==
  LET previousSunday == t.tm_mday - t.tm_wday
  IN  \/ t.tm_mon \in 3..8
      \/ t.tm_mon = 2 /\ previousSunday >= 25 /\ (t.tm_wday = 0 => t.tm_hour >= 2)
      \/ t.tm_mon = 9 /\ (previousSunday >= 25 => t.tm_wday = 0 /\ t.tm_hour < 1)

applyTZ(t) ==
  LET standard == Later(t, tzo)
  IN  IF Dst(standard) THEN Later(standard, 1) ELSE standard

(* External: an hour goes by.                                               *)
Hour ==
  /\ time.tm_mday # 2
  /\ time' = Later(time, 1)
  /\ UNCHANGED <<leap, tzo>>

Next == Hour
Spec == Init /\ [][Next]_vars
-----------------------------------------------------------------------------
(* Types: what mktime returns is a date.                                    *)
TypeOK ==
  \A t \in {time, applyTZ(time)} :
    /\ t.tm_mon \in 0..11 /\ t.tm_mday \in 1..DaysIn(t.tm_mon)
    /\ t.tm_wday \in 0..6 /\ t.tm_hour \in 0..23

(* The last Sunday of the month t is in, of 31 days.                        *)
LastSunday(t) == CHOOSE d \in 25..31 : (t.tm_wday + d - t.tm_mday) % 7 = 0

(* From the last Sunday of March, 2 o'clock, to that of October, 1 o'clock. *)
Summer(t) ==
  \/ t.tm_mon = 2 /\ t.tm_mday * 24 + t.tm_hour >= LastSunday(t) * 24 + 2
  \/ t.tm_mon = 9 /\ t.tm_mday * 24 + t.tm_hour < LastSunday(t) * 24 + 1
  \/ t.tm_mon \in 3..8

(* Summer time is one interval of the year, whose ends are judged, in every *)
(* zone, by the standard time there; by GMT, which the comments speak of    *)
(* (ntp.c:68, ntp.c:81), in zone 0 only.                                    *)
DstIsOneInterval ==
  LET t == Later(time, tzo) IN applyTZ(time) = IF Summer(t) THEN Later(time, tzo + 1) ELSE t
==============================================================================
