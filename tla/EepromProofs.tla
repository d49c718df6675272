---------------------------- MODULE EepromProofs ----------------------------
(***************************************************************************)
(* What a save keeps, for any number of tasks, sectors, stations, requests *)
(* and faults.  That the other cells are preserved is not inductive: it    *)
(* rests on what the copies of a sector that the tasks carry (sectorBuffer,*)
(* and a task's settings record) have to do with the flash while the       *)
(* sector is not lost, and so on which task may have which copy at which   *)
(* stage of the boot.                                                      *)
(***************************************************************************)
EXTENDS Eeprom, SequenceTheorems, TLAPS

(* The sectors that a fault or overlapping saves have cost.                 *)
lost == broken \cup stale

(* All that is ever saved.                                                  *)
Want == {{}, {Volume}, {Ssid}}
IsJob(j) ==
  \/ j = NoJob \/ j = eeEraseStations \/ j = eeEraseAll
  \/ \E v \in Values, i \in Values, w \in Want : j = saveDeviceSettings(v, i, w)
  \/ \E r \in Ranges, v \in New : j = saveMultiStation(r[1], r[2], v)

TypedTasks ==
  /\ pc \in [Tasks -> {"idle", "edit", "read", "erase", "write", "clear", "blank"}]
  /\ device \in [Tasks -> {NoSettings} \cup [vol : Values, ssid : Values]]
  /\ job = [t \in Tasks |-> job[t]] /\ \A t \in Tasks : IsJob(job[t])
  /\ left \in [Tasks -> Seq(0..Sectors - 1)]
  /\ image = [t \in Tasks |-> image[t]]
  /\ tries \in [Tasks -> 0..Tries]

Typed ==
  /\ TypedTasks
  /\ flash \in [Cells -> Values]
  /\ clientIvol \in Values
  /\ stage \in {"off", "load", "wipe", "reload", "use", "wifi", "ap", "start", "ready"}
  /\ events \in 0..MaxEvents
  /\ may \in [Cells -> SUBSET Values]
  /\ broken \subseteq 0..Sectors - 1 /\ stale \subseteq 0..Sectors - 1

Resting(t) == pc[t] \in {"idle", "edit"}

(* Where a task is decides what it has: a job, sectors, an image.           *)
Working ==
  \A t \in Tasks :
    /\ Resting(t) <=> job[t] = NoJob
    /\ Resting(t) <=> left[t] = << >>
    /\ job[t].kind = "settings" => left[t] = <<0>>
    /\ pc[t] \in {"read", "erase", "write"} => job[t].sets # << >>
    /\ pc[t] \in {"clear", "blank"} => job[t].clears # << >> /\
         \A i \in 1..Len(left[t]) : CellsOf(left[t][i]) \subseteq job[t].want
    /\ IF pc[t] \in {"erase", "write"} THEN image[t] \in [CellsOf(Head(left[t])) -> Values]
                                       ELSE image[t] = NoImage

Booting == stage \in {"wipe", "reload", "use", "wifi", "ap", "start"}
Boots(t) == t = Main /\ Booting

(* Where a task and the boot are decides who has a copy of the settings.    *)
Copying ==
  /\ stage \in {"off", "load"} => \A t \in Tasks : pc[t] = "idle"
  /\ stage \in {"wipe", "use"} => pc[Main] = "idle"
  /\ stage = "reload" => job[Main].kind # "settings"
  /\ Booting /\ stage # "reload" => Resting(Main) \/ job[Main].kind = "settings"
  /\ Booting => pc[Main] # "edit"
  /\ \A t \in Tasks :
       /\ (device[t] # NoSettings) <=> (Boots(t) \/ pc[t] = "edit" \/ job[t].kind = "settings")

(* A save of the settings changes one half and carries the copy's other.    *)
Carrying ==
  \A t \in Tasks : job[t].kind = "settings" =>
    /\ Volume \in job[t].want => job[t].new[Volume] # device[t].vol /\ ~Boots(t)
    /\ Volume \notin job[t].want => job[t].new[Volume] = device[t].vol
    /\ Ssid \in job[t].want => job[t].new[Ssid] # Erased
    /\ Ssid \in job[t].want /\ ~Boots(t) => job[t].new[Ssid] # Cleared
    /\ Ssid \notin job[t].want \/ Boots(t) => job[t].new[Ssid] = device[t].ssid

Rewrites(t, s) == pc[t] \in {"write", "blank"} /\ Head(left[t]) = s

Places == Copying /\ Carrying

(* Two tasks are never between erase and write of a sector that survives.   *)
Alone ==
  \A t, u \in Tasks, s \in 0..Sectors - 1 :
    Rewrites(t, s) /\ Rewrites(u, s) /\ s \notin lost => t = u

(* A copy of the settings is as the flash is, but for the network of a first*)
(* use that could not be saved.                                             *)
SameAsFlash(t) ==
  /\ device[t].vol = flash[Volume]
  /\ \/ device[t].ssid = flash[Ssid]
     \/ Boots(t) /\ flash[Ssid] \in {Cleared, Erased} /\ device[t].ssid \in may[Ssid]

FreshDevice ==
  \A t \in Tasks :
    device[t] # NoSettings /\ ~(t = Main /\ stage = "reload") /\ ~Rewrites(t, 0) /\ 0 \notin lost
      => SameAsFlash(t)

(* What is about to be erased is in the image, but for what is to change.   *)
FreshImage ==
  \A t \in Tasks : pc[t] = "erase" /\ Head(left[t]) \notin lost =>
    \A c \in CellsOf(Head(left[t])) :
      image[t][c] = IF c \in DOMAIN job[t].new THEN job[t].new[c] ELSE flash[c]

(* What is erased is in the image, and may be there.                        *)
Writing ==
  \A t \in Tasks : pc[t] = "write" /\ Head(left[t]) \notin lost =>
    \A c \in CellsOf(Head(left[t])) :
      /\ flash[c] = Erased
      /\ c \in DOMAIN job[t].new => image[t][c] = job[t].new[c]
      /\ image[t][c] \in may[c]

(* What a save under way is about to write may be there.                    *)
Wanted == \A t \in Tasks : \A c \in job[t].want : job[t].new[c] \in may[c]

(* The boot erases all because it has found the settings erased.            *)
Wiping ==
  stage = "wipe" /\ 0 \notin lost => flash[Ssid] = Erased /\ Erased \in may[Ssid]

(* What the flash and the copies of it have to do with each other.          *)
Data ==
  /\ Alone /\ FreshDevice /\ FreshImage /\ Writing /\ Wanted /\ Wiping /\ OthersPreserved
------------------------------------------------------------------------------
(* A sector is done or given up: t goes on with another one, or is done.    *)
LeavesWith(t, p, l, k) ==
  /\ pc' = [pc EXCEPT ![t] = p] /\ left' = [left EXCEPT ![t] = l]
  /\ tries' = [tries EXCEPT ![t] = k]
  /\ job' = [job EXCEPT ![t] = IF p = "idle" THEN NoJob ELSE job[t]]
  /\ device' = [device EXCEPT ![t] =
                  IF p = "idle" /\ ~Boots(t) THEN NoSettings ELSE device[t]]
  /\ p = "idle" <=> l = << >>
  /\ p = "read" => job[t].sets # << >>
  /\ p = "clear" => job[t].clears # << >> /\
                    \A i \in 1..Len(l) : CellsOf(l[i]) \subseteq job[t].want
  /\ job[t].kind = "settings" => p = "idle"

Leaves(t) ==
  \E p \in {"idle", "read", "clear"}, l \in Seq(0..Sectors - 1), k \in 0..Tries :
    LeavesWith(t, p, l, k)

(* t begins to save j.                                                      *)
BeginsWith(t, j, p, l) ==
  /\ Resting(t) /\ IsJob(j) /\ j # NoJob /\ l # << >>
  /\ pc' = [pc EXCEPT ![t] = p] /\ left' = [left EXCEPT ![t] = l]
  /\ job' = [job EXCEPT ![t] = j]
  /\ p = "read" => j.sets # << >>
  /\ p = "clear" => j.clears # << >> /\
                    \A i \in 1..Len(l) : CellsOf(l[i]) \subseteq j.want
  /\ j.kind = "settings" => p = "read" /\ l = <<0>>
  /\ may' = [c \in Cells |-> may[c] \cup IF c \in j.want THEN {j.new[c]} ELSE {}]
  /\ UNCHANGED <<flash, image, tries, broken, stale>>

Begins(t, j) ==
  \E p \in {"read", "clear"}, l \in Seq(0..Sectors - 1) : BeginsWith(t, j, p, l)

(* The copy d of task t, and what t saves of it.                            *)
Carries(t, d, v, i, w) ==
  /\ device' = [device EXCEPT ![t] = d]
  /\ stage' \notin {"off", "load"} /\ (stage' # stage => Booting /\ Booting')
  /\ IF t = Main THEN stage' \notin {"wipe", "use", "reload"} ELSE stage' = stage
  /\ Volume \in w => v # d.vol /\ t # Main
  /\ Volume \notin w => v = d.vol
  /\ Ssid \in w => i # Erased
  /\ Ssid \in w /\ i = Cleared => Boots(t) /\ Boots(t)'
  /\ Ssid \notin w \/ Boots(t)' => i = d.ssid
------------------------------------------------------------------------------
(* The constants, as the proofs use them.                                   *)
LEMMA Constants ==
  /\ Sectors \in Nat \ {0} /\ SectorSize \in Nat \ {0, 1}
  /\ Tries \in Nat /\ MaxEvents \in Nat
  /\ Values \subseteq 0..255 /\ New \subseteq Values
  /\ Cleared \in Values /\ Erased \in Values
  /\ Cleared \notin New /\ Erased \notin New /\ Cleared # Erased
  /\ \A r \in Ranges : r[1] \in Stations /\ r[2] \in Stations /\ r[1] <= r[2]
  /\ \A a, b \in Values : Both(a, b) \in Values
  /\ \A a \in Values : Both(Erased, a) = a
  /\ Main \in Tasks /\ Saver \in Tasks /\ Main # Saver
  /\ Main \notin Handlers /\ Saver \notin Handlers
<1>1. {Tries, MaxEvents} \subseteq Nat
  BY EepromAssumption
<1>2. Tries \in Nat /\ MaxEvents \in Nat
  BY <1>1
<1> QED
  BY <1>2, EepromAssumption DEF Values, Cleared, Erased, Tasks

(* The settings are in sector 0, and a cell is in one of the sectors.       *)
LEMMA SectorOf ==
  /\ \A c \in Cells : Sector(c) \in 0..Sectors - 1 /\ c \in Int
  /\ \A c, d \in Cells : c <= d => Sector(c) <= Sector(d)
  /\ Volume \in Cells /\ Ssid \in Cells
  /\ Sector(Volume) = 0 /\ Sector(Ssid) = 0
<1> DEFINE N == Sectors * SectorSize
<1>1. Sectors \in Nat \ {0} /\ SectorSize \in Nat \ {0, 1}
  BY Constants
<1>2. N \in Nat /\ 2 <= N
  BY <1>1, SMT
<1>3. ASSUME NEW c \in 0..N - 1
      PROVE  c \div SectorSize \in 0..Sectors - 1
  BY <1>1, <1>2, SMT
<1>4. ASSUME NEW c \in 0..N - 1, NEW d \in 0..N - 1, c <= d
      PROVE  c \div SectorSize <= d \div SectorSize
  BY <1>1, <1>2, <1>4, SMT
<1>5. 0 \div SectorSize = 0 /\ 1 \div SectorSize = 0
  BY <1>1, SMT
<1> QED
  BY <1>2, <1>3, <1>4, <1>5 DEF Cells, Sector, Volume, Ssid

(* The empty sequence.                                                      *)
LEMMA Empty == Len(<< >>) = 0 /\ DOMAIN << >> = {}
  OBVIOUS

(* What the jobs have in common, and what each kind has of its own.         *)
LEMMA JobShape ==
  ASSUME NEW j, IsJob(j)
  PROVE  /\ j.sets \in Seq(0..Sectors - 1) /\ j.clears \in Seq(0..Sectors - 1)
         /\ DOMAIN j.new \subseteq Cells /\ j.want \subseteq DOMAIN j.new
         /\ \A c \in DOMAIN j.new : j.new[c] \in Values
         /\ j # NoJob => j.kind # "none" /\ (j.sets # << >> \/ j.clears # << >>)
         /\ j.kind = "settings" =>
              /\ j.sets = <<0>> /\ j.clears = << >>
              /\ DOMAIN j.new = {Volume, Ssid}
         /\ j.kind = "stations" => j.clears = << >> /\ j.sets # << >>
         /\ j.kind # "settings" =>
              /\ DOMAIN j.new = j.want
              /\ \A c \in j.want : j.new[c] # Erased
              /\ Volume \in j.want \/ Ssid \in j.want => j.sets = << >>
         /\ \A i \in 1..Len(j.clears) : CellsOf(j.clears[i]) \subseteq j.want
         /\ j.clears # << >> => \A c \in j.want : j.new[c] = Cleared
<1> USE Constants, SectorOf
<1>0. DOMAIN << >> = {}
  BY Empty
<1>1. CASE j = NoJob
  BY <1>0, <1>1 DEF NoJob, Job
<1>2. CASE j = eeEraseStations
  <2>1. DOMAIN [c \in Stations |-> Cleared] = Stations /\ Stations \subseteq Cells
    BY DEF Stations
  <2>2. [i \in 1..Sectors - 1 |-> i] \in Seq(0..Sectors - 1)
    OBVIOUS
  <2>3. Len([i \in 1..Sectors - 1 |-> i]) = Sectors - 1
    OBVIOUS
  <2>4. ASSUME NEW i \in 1..Sectors - 1 PROVE CellsOf(i) \subseteq Stations
    BY DEF CellsOf, Stations
  <2> QED
    BY <1>2, <2>1, <2>2, <2>3, <2>4 DEF eeEraseStations, Job, NoJob, Stations
<1>3. CASE j = eeEraseAll
  <2>2. [i \in 1..Sectors |-> i - 1] \in Seq(0..Sectors - 1)
    OBVIOUS
  <2>3. Len([i \in 1..Sectors |-> i - 1]) = Sectors
    OBVIOUS
  <2>4. ASSUME NEW i \in 0..Sectors - 1 PROVE CellsOf(i) \subseteq Cells
    BY DEF CellsOf
  <2>5. /\ j.kind = "clear" /\ j.new = [c \in Cells |-> Cleared] /\ j.want = Cells
        /\ j.sets = << >> /\ j.clears = [i \in 1..Sectors |-> i - 1]
    BY <1>3 DEF eeEraseAll, Job
  <2>6. DOMAIN j.new = Cells /\ \A c \in Cells : j.new[c] = Cleared
    BY <2>5
  <2>7. j.clears \in Seq(0..Sectors - 1) /\ j.sets \in Seq(0..Sectors - 1)
    BY <2>5, <2>2
  <2>8. \A i \in 1..Len(j.clears) : CellsOf(j.clears[i]) \subseteq Cells
    BY <2>5, <2>3, <2>4
  <2>9. Len(j.clears) # 0
    BY <2>5, <2>3
  <2>10. j.clears # << >>
    BY <2>9, Empty
  <2> QED
    BY <2>5, <2>6, <2>7, <2>8, <2>10
<1>4. CASE \E v \in Values, i \in Values, w \in Want : j = saveDeviceSettings(v, i, w)
  <2>1. PICK v \in Values, i \in Values, w \in Want : j = saveDeviceSettings(v, i, w)
    BY <1>4
  <2>2. <<0>> \in Seq(0..Sectors - 1) /\ << >> \in Seq(0..Sectors - 1) /\ Len(<< >>) = 0
    OBVIOUS
  <2>3. w \subseteq {Volume, Ssid}
    BY DEF Want
  <2> QED
    BY <2>1, <2>2, <2>3 DEF saveDeviceSettings, Job, NoJob
<1>5. CASE \E r \in Ranges, v \in New : j = saveMultiStation(r[1], r[2], v)
  <2>1. PICK r \in Ranges, v \in New : j = saveMultiStation(r[1], r[2], v)
    BY <1>5
  <2> DEFINE first == r[1]  last == r[2]
             n == Sector(last) - Sector(first) + 1
             sets == [i \in 1..n |-> Sector(first) + i - 1]
  <2>2. first \in Cells /\ last \in Cells /\ first <= last /\ 1 < first
    BY DEF Stations, Cells, Volume, Ssid
  <2>3. /\ Sector(first) \in 0..Sectors - 1 /\ Sector(last) \in 0..Sectors - 1
        /\ Sector(first) <= Sector(last)
    BY <2>2
  <2>4. n \in Nat /\ 1 <= n
    BY <2>3
  <2>5. sets \in Seq(0..Sectors - 1) /\ Len(sets) = n
    <3>1. \A i \in 1..n : Sector(first) + i - 1 \in 0..Sectors - 1
      BY <2>3, <2>4
    <3> HIDE DEF n, first, last
    <3> QED
      BY <2>4, <3>1
  <2>55. sets # << >>
    BY <2>4, <2>5, Empty
  <2>6. first..last \subseteq Cells /\ Volume \notin first..last /\ Ssid \notin first..last
    BY <2>2 DEF Cells, Volume, Ssid
  <2>7. j = Job("stations", [c \in first..last |-> v], first..last, sets, << >>)
    BY <2>1 DEF saveMultiStation
  <2> HIDE DEF sets, n, first, last
  <2>8. /\ j.kind = "stations" /\ j.new = [c \in first..last |-> v]
        /\ j.want = first..last /\ j.sets = sets /\ j.clears = << >>
    BY <2>7 DEF Job
  <2>9. DOMAIN j.new = first..last /\ \A c \in first..last : j.new[c] = v
    BY <2>8
  <2>10. v \in Values /\ v # Erased
    OBVIOUS
  <2>11. << >> \in Seq(0..Sectors - 1) /\ Len(<< >>) = 0
    OBVIOUS
  <2> QED
    BY <2>5, <2>55, <2>6, <2>8, <2>9, <2>10, <2>11
<1> QED
  BY <1>1, <1>2, <1>3, <1>4, <1>5 DEF IsJob

(* The first and the other elements of a sequence.                          *)
LEMMA NotEmpty ==
  ASSUME NEW S, NEW s \in Seq(S), s # << >>
  PROVE  /\ Len(s) \in Nat \ {0} /\ Head(s) = s[1] /\ Head(s) \in S
         /\ Len(s) > 1 =>
              /\ Tail(s) \in Seq(S) /\ Len(Tail(s)) = Len(s) - 1 /\ Tail(s) # << >>
              /\ \A i \in 1..Len(Tail(s)) : i + 1 \in 1..Len(s) /\ Tail(s)[i] = s[i + 1]
              /\ s # <<0>>
<1>1. Len(s) \in Nat /\ Len(s) # 0
  BY EmptySeq
<1>2. Head(s) = s[1] /\ s[1] \in S
  BY <1>1, ElementOfSeq
<1>3. Tail(s) \in Seq(S) /\ Len(Tail(s)) = Len(s) - 1
  BY HeadTailProperties
<1>4. \A i \in 1..Len(Tail(s)) : i + 1 \in 1..Len(s) /\ Tail(s)[i] = s[i + 1]
  BY <1>1, <1>3, HeadTailProperties
<1>5. Len(s) > 1 => Tail(s) # << >>
  <2>1. Len(s) > 1 => Len(Tail(s)) # 0
    BY <1>1, <1>3
  <2> QED
    BY <2>1, Empty, Zenon
<1>6. Len(s) > 1 => s # <<0>>
  <2>1. \A n \in Nat : n > 1 => n # 1
    OBVIOUS
  <2>2. Len(<<0>>) = 1
    OBVIOUS
  <2> QED
    BY <1>1, <2>1, <2>2, Zenon
<1> QED
  BY <1>1, <1>2, <1>3, <1>4, <1>5, <1>6

(* A task that is at work has a sector before it.                           *)
LEMMA Ahead ==
  ASSUME Typed, Working, NEW t \in Tasks, ~Resting(t)
  PROVE  /\ left[t] \in Seq(0..Sectors - 1) /\ left[t] # << >>
         /\ Head(left[t]) \in 0..Sectors - 1
         /\ IsJob(job[t]) /\ job[t] # NoJob
<1>1. left[t] \in Seq(0..Sectors - 1) /\ left[t] # << >> /\ IsJob(job[t]) /\ job[t] # NoJob
  BY DEF Typed, TypedTasks, Working
<1>2. Head(left[t]) \in 0..Sectors - 1
  BY <1>1, NotEmpty
<1> QED
  BY <1>1, <1>2

(* Advance, Finish and Fail end a sector in one of the ways of Leaves.      *)
LEMMA Leave ==
  ASSUME Typed, Working, Copying, NEW t \in Tasks,
         \/ pc[t] \in {"read", "write"} /\ Advance(t, "read")
         \/ pc[t] = "blank" /\ Advance(t, "clear")
         \/ pc[t] \in {"read", "erase", "write"} /\ Fail(t)
  PROVE  Leaves(t)
<1> DEFINE j == job[t]  More == Len(left[t]) > 1
<1>1. ~Resting(t)
  BY DEF Resting
<1>2. /\ left[t] \in Seq(0..Sectors - 1) /\ left[t] # << >>
      /\ IsJob(j) /\ j # NoJob /\ tries[t] \in 0..Tries
      /\ Len(left[t]) \in Nat
  BY <1>1, Ahead, NotEmpty DEF Typed, TypedTasks
<1>3. /\ j.sets \in Seq(0..Sectors - 1) /\ j.clears \in Seq(0..Sectors - 1)
      /\ \A i \in 1..Len(j.clears) : CellsOf(j.clears[i]) \subseteq j.want
      /\ j.kind = "settings" => left[t] = <<0>> /\ j.clears = << >>
      /\ j.kind = "stations" => j.sets # << >>
  BY <1>2, JobShape DEF Working
<1>4. /\ << >> \in Seq(0..Sectors - 1)
      /\ More => Tail(left[t]) \in Seq(0..Sectors - 1) /\ Tail(left[t]) # << >>
                             /\ \A i \in 1..Len(Tail(left[t])) :
                                  i + 1 \in 1..Len(left[t]) /\ Tail(left[t])[i] = left[t][i + 1]
      /\ More => left[t] # <<0>>
  BY <1>2, EmptySeq, NotEmpty
<1>15. ASSUME NEW p, Advance(t, p)
       PROVE  IF More THEN /\ pc' = [pc EXCEPT ![t] = p]
                           /\ left' = [left EXCEPT ![t] = Tail(left[t])]
                           /\ UNCHANGED <<device, job, tries>>
                      ELSE Finish(t)
  BY <1>15, Zenon DEF Advance
<1> HIDE DEF More
<1>5. t = Main /\ stage # "ready" <=> Boots(t)
  BY <1>1 DEF Copying, Booting, Boots, Resting, Typed, TypedTasks
<1>6. /\ device = [device EXCEPT ![t] = device[t]] /\ job = [job EXCEPT ![t] = job[t]]
      /\ tries = [tries EXCEPT ![t] = tries[t]]
      /\ 0 \in 0..Tries
  BY Constants DEF Typed, TypedTasks
<1>7. ASSUME Finish(t) PROVE Leaves(t)
  <2>1. CASE pc[t] \notin {"clear", "blank"} /\ j.clears # << >>
    <3>1. /\ pc' = [pc EXCEPT ![t] = "clear"] /\ left' = [left EXCEPT ![t] = j.clears]
          /\ tries' = [tries EXCEPT ![t] = 0]
          /\ job' = job /\ device' = device
      BY <1>7, <2>1 DEF Finish
    <3>a. LeavesWith(t, "clear", j.clears, 0)
      BY <1>3, <1>6, <2>1, <3>1 DEF LeavesWith
    <3>b. "clear" \in {"idle", "read", "clear"} /\ j.clears \in Seq(0..Sectors - 1) /\ 0 \in 0..Tries
      BY <1>3, <1>6, <2>1, <3>1
    <3> QED
      BY <3>a, <3>b DEF Leaves
  <2>2. CASE ~(pc[t] \notin {"clear", "blank"} /\ j.clears # << >>)
    <3>1. /\ pc' = [pc EXCEPT ![t] = "idle"] /\ left' = [left EXCEPT ![t] = << >>]
          /\ tries' = [tries EXCEPT ![t] = 0]
          /\ job' = [job EXCEPT ![t] = NoJob]
          /\ device' = IF Boots(t) THEN device ELSE [device EXCEPT ![t] = NoSettings]
      BY <1>5, <1>7, <2>2 DEF Finish
    <3>a. LeavesWith(t, "idle", << >>, 0)
      BY <1>6, <3>1 DEF LeavesWith
    <3>b. "idle" \in {"idle", "read", "clear"} /\ << >> \in Seq(0..Sectors - 1) /\ 0 \in 0..Tries
      BY <1>6, <3>1
    <3> QED
      BY <3>a, <3>b DEF Leaves
  <2> QED
    BY <2>1, <2>2
<1>8. ASSUME NEW p \in {"read", "clear"}, Advance(t, p), More,
             \/ pc[t] \in {"read", "write"} /\ p = "read"
             \/ pc[t] = "blank" /\ p = "clear"
      PROVE  Leaves(t)
  <2>1. /\ pc' = [pc EXCEPT ![t] = p] /\ left' = [left EXCEPT ![t] = Tail(left[t])]
        /\ UNCHANGED <<device, job, tries>>
    BY <1>8, <1>15
  <2>2. p = "read" => j.sets # << >>
    BY <1>8 DEF Working
  <2>3. p = "clear" => j.clears # << >> /\ \A i \in 1..Len(Tail(left[t])) : CellsOf(Tail(left[t])[i]) \subseteq j.want
    BY <1>4, <1>8 DEF Working
  <2>4. j.kind # "settings" /\ p # "idle"
    <3>1. left[t] # <<0>>
      BY <1>4, <1>8
    <3>2. p # "idle"
      BY Zenon
    <3> QED
      BY <1>3, <3>1, <3>2, Zenon
  <2>a. LeavesWith(t, p, Tail(left[t]), tries[t])
    BY <1>4, <1>6, <1>8, <2>1, <2>2, <2>3, <2>4 DEF LeavesWith
  <2>b. p \in {"idle", "read", "clear"} /\ Tail(left[t]) \in Seq(0..Sectors - 1) /\ tries[t] \in 0..Tries
    BY <1>2, <1>4, <1>6, <1>8, <2>1, <2>2, <2>3, <2>4
  <2> QED
    BY <2>a, <2>b DEF Leaves
<1>9. ASSUME j.kind = "stations", tries[t] + 1 < Tries, Fail(t)
      PROVE  Leaves(t)
  <2>1. /\ tries' = [tries EXCEPT ![t] = tries[t] + 1] /\ left' = [left EXCEPT ![t] = j.sets]
        /\ pc' = [pc EXCEPT ![t] = "read"] /\ UNCHANGED <<device, job>>
    BY <1>9 DEF Fail
  <2>a. LeavesWith(t, "read", j.sets, tries[t] + 1)
    BY <1>3, <1>6, <1>9, <2>1 DEF LeavesWith
  <2>b. "read" \in {"idle", "read", "clear"} /\ j.sets \in Seq(0..Sectors - 1) /\ tries[t] + 1 \in 0..Tries
    BY Constants, <1>2, <1>3, <1>6, <1>9, <2>1
  <2> QED
    BY <2>a, <2>b DEF Leaves
<1>10. ASSUME Fail(t), ~(j.kind = "stations" /\ tries[t] + 1 < Tries) PROVE Leaves(t)
  BY <1>7, <1>10 DEF Fail
<1>11. ASSUME NEW p \in {"read", "clear"}, Advance(t, p), ~More PROVE Leaves(t)
  BY <1>7, <1>11, <1>15
<1>12. CASE pc[t] \in {"read", "write"} /\ Advance(t, "read")
  <2>1. "read" \in {"read", "clear"} /\ Advance(t, "read")
    BY <1>12
  <2>2. CASE More
    BY <1>8, <1>12, <2>1, <2>2
  <2>3. CASE ~More
    BY <1>11, <2>1, <2>3
  <2> QED
    BY <2>2, <2>3
<1>13. CASE pc[t] = "blank" /\ Advance(t, "clear")
  BY <1>8, <1>11, <1>13
<1>14. CASE Fail(t)
  BY <1>9, <1>10, <1>14
<1> QED
  BY <1>12, <1>13, <1>14

(* Start begins a save.                                                     *)
LEMMA Begin ==
  ASSUME Typed, Working, NEW t \in Tasks, NEW j, IsJob(j), j # NoJob, Start(t, j)
  PROVE  Begins(t, j)
<1>1. /\ j.sets \in Seq(0..Sectors - 1) /\ j.clears \in Seq(0..Sectors - 1)
      /\ \A i \in 1..Len(j.clears) : CellsOf(j.clears[i]) \subseteq j.want
      /\ j.kind = "settings" => j.sets = <<0>> /\ j.sets # << >>
      /\ j.sets # << >> \/ j.clears # << >>
  BY JobShape, Empty
<1>2. CASE j.sets # << >>
  <2>1. "read" \in {"read", "clear"}
    OBVIOUS
  <2>a. BeginsWith(t, j, "read", j.sets)
    BY <1>1, <1>2 DEF Start, Resting, BeginsWith
  <2>b. "read" \in {"read", "clear"} /\ j.sets \in Seq(0..Sectors - 1)
    BY <1>1, <1>2 DEF Start, Resting
  <2> QED
    BY <2>a, <2>b DEF Begins
<1>3. CASE j.sets = << >>
  <2>a. BeginsWith(t, j, "clear", j.clears)
    BY <1>1, <1>3 DEF Start, Resting, BeginsWith
  <2>b. "clear" \in {"read", "clear"} /\ j.clears \in Seq(0..Sectors - 1)
    BY <1>1, <1>3 DEF Start, Resting
  <2> QED
    BY <2>a, <2>b DEF Begins
<1> QED
  BY <1>2, <1>3

(* A save of the settings.                                                  *)
LEMMA SettingsJob ==
  ASSUME NEW v \in Values, NEW i \in Values, NEW w \in Want,
         NEW j, j = saveDeviceSettings(v, i, w)
  PROVE  /\ IsJob(j) /\ j # NoJob /\ j.kind = "settings" /\ j.want = w
         /\ j.new[Volume] = v /\ j.new[Ssid] = i
BY DEF IsJob, saveDeviceSettings, Job, NoJob, Volume, Ssid

(* So does saveDeviceSettings after an edit.                                *)
LEMMA SaveSettingsBegins ==
  ASSUME Typed, Working, Copying, NEW t \in Tasks, SaveSettings(t)
  PROVE  \E ssid \in New : Begins(t, saveDeviceSettings(device[t].vol, ssid, {Ssid}))
<1>1. pc[t] = "edit" /\ device[t] \in [vol : Values, ssid : Values]
  BY DEF SaveSettings, Copying, Typed, TypedTasks
<1>2. PICK ssid \in New :
        LET j == saveDeviceSettings(device[t].vol, ssid, {Ssid})
        IN  /\ job' = [job EXCEPT ![t] = j] /\ left' = [left EXCEPT ![t] = j.sets]
            /\ may' = [may EXCEPT ![Ssid] = @ \cup {ssid}]
  BY DEF SaveSettings
<1> DEFINE j == saveDeviceSettings(device[t].vol, ssid, {Ssid})
<1>3. /\ IsJob(j) /\ j # NoJob /\ j.kind = "settings" /\ j.want = {Ssid} /\ j.new[Ssid] = ssid
  <2>1. device[t].vol \in Values /\ ssid \in Values /\ {Ssid} \in Want
    BY <1>1, Constants DEF Want
  <2> QED
    BY <2>1, SettingsJob
<1>4. j.sets = <<0>> /\ j.sets \in Seq(0..Sectors - 1) /\ <<0>> # << >>
  BY <1>3, JobShape, Empty
<1>5. may' = [c \in Cells |-> may[c] \cup IF c \in j.want THEN {j.new[c]} ELSE {}]
  <2>1. may \in [Cells -> SUBSET Values]
    BY DEF Typed, TypedTasks
  <2> HIDE DEF j
  <2> QED
    BY <1>2, <1>3, <2>1
<1> WITNESS ssid \in New
<1> HIDE DEF j
<1>6. job' = [job EXCEPT ![t] = j] /\ left' = [left EXCEPT ![t] = <<0>>]
  BY <1>2, <1>4 DEF j
<1>7. /\ pc' = [pc EXCEPT ![t] = "read"] /\ UNCHANGED <<flash, image, tries, broken, stale>>
      /\ Resting(t)
  BY DEF SaveSettings, Resting
<1>8. Begins(t, j)
  <2>a. BeginsWith(t, j, "read", <<0>>)
    BY <1>3, <1>4, <1>5, <1>6, <1>7 DEF BeginsWith
  <2>b. "read" \in {"read", "clear"} /\ <<0>> \in Seq(0..Sectors - 1)
    BY <1>3, <1>4, <1>5, <1>6, <1>7
  <2> QED
    BY <2>a, <2>b DEF Begins
<1> QED
  BY <1>8 DEF j

(* No job.                                                                  *)
LEMMA JobTypes ==
  IsJob(NoJob) /\ NoJob.kind = "none" /\ NoJob.sets = << >> /\ << >> \in Seq(0..Sectors - 1)
BY EmptySeq DEF IsJob, NoJob, Job

(* Types and places of tasks, when a task leaves a sector ...               *)
LEMMA LeavesTyped ==
  ASSUME Typed, Working, NEW t \in Tasks, ~Resting(t), Leaves(t),
         image' = [image EXCEPT ![t] = NoImage]
  PROVE  TypedTasks' /\ Working'
<1>1. PICK p \in {"idle", "read", "clear"}, l \in Seq(0..Sectors - 1), k \in 0..Tries :
        LeavesWith(t, p, l, k)
  BY DEF Leaves
<1>2. /\ pc' = [pc EXCEPT ![t] = p] /\ left' = [left EXCEPT ![t] = l]
      /\ tries' = [tries EXCEPT ![t] = k]
      /\ job' = [job EXCEPT ![t] = IF p = "idle" THEN NoJob ELSE job[t]]
      /\ device' = [device EXCEPT ![t] =
                      IF p = "idle" /\ ~Boots(t) THEN NoSettings ELSE device[t]]
  BY <1>1 DEF LeavesWith
<1>3. TypedTasks'
  BY <1>2, JobTypes DEF Typed, TypedTasks
<1>4. /\ pc'[t] = p /\ left'[t] = l /\ image'[t] = NoImage
      /\ job'[t] = IF p = "idle" THEN NoJob ELSE job[t]
  BY <1>2 DEF Typed, TypedTasks
<1>5. ASSUME NEW u \in Tasks, u # t
      PROVE  pc'[u] = pc[u] /\ left'[u] = left[u] /\ image'[u] = image[u] /\ job'[u] = job[u]
  BY <1>2, <1>5 DEF Typed, TypedTasks
<1>6. job[t] # NoJob
  BY DEF Working
<1>7. /\ p = "idle" <=> l = << >>
      /\ p = "read" => job[t].sets # << >>
      /\ p = "clear" => job[t].clears # << >> /\ \A i \in 1..Len(l) : CellsOf(l[i]) \subseteq job[t].want
      /\ job[t].kind = "settings" => p = "idle"
  BY <1>1 DEF LeavesWith
<1>8. ASSUME NEW u \in Tasks
      PROVE  /\ pc'[u] \in {"idle", "edit"} <=> job'[u] = NoJob
             /\ pc'[u] \in {"idle", "edit"} <=> left'[u] = << >>
             /\ job'[u].kind = "settings" => left'[u] = <<0>>
             /\ pc'[u] \in {"read", "erase", "write"} => job'[u].sets # << >>
             /\ pc'[u] \in {"clear", "blank"} => job'[u].clears # << >> /\
                  \A i \in 1..Len(left'[u]) : CellsOf(left'[u][i]) \subseteq job'[u].want
             /\ IF pc'[u] \in {"erase", "write"}
                THEN image'[u] \in [CellsOf(Head(left'[u])) -> Values]
                ELSE image'[u] = NoImage
  <2>1. CASE u = t
    BY <1>4, <1>6, <1>7, <2>1, JobTypes
  <2>2. CASE u # t
    BY <1>5, <2>2 DEF Working, Resting
  <2> QED
    BY <2>1, <2>2
<1>9. Working'
  BY <1>8 DEF Working, Resting
<1> QED
  BY <1>3, <1>9

(* ... and when it begins to save.                                          *)
LEMMA BeginsTyped ==
  ASSUME Typed, Working, NEW t \in Tasks, NEW j, Begins(t, j)
  PROVE  /\ IsJob(j) /\ j # NoJob /\ Resting(t) /\ job' = [job EXCEPT ![t] = j]
         /\ pc' = [pc EXCEPT ![t] = pc'[t]] /\ left' = [left EXCEPT ![t] = left'[t]]
         /\ pc'[t] \in {"read", "clear"} /\ pc' \in [Tasks -> {"idle", "edit", "read", "erase", "write", "clear", "blank"}]
         /\ device' \in [Tasks -> {NoSettings} \cup [vol : Values, ssid : Values]] => TypedTasks'
         /\ may' \in [Cells -> SUBSET Values] /\ Working'
         /\ may' = [c \in Cells |-> may[c] \cup IF c \in j.want THEN {j.new[c]} ELSE {}]
         /\ UNCHANGED <<flash, image, tries, broken, stale>>
<1>1. PICK p \in {"read", "clear"}, l \in Seq(0..Sectors - 1) : BeginsWith(t, j, p, l)
  BY DEF Begins
<1>2. /\ pc' = [pc EXCEPT ![t] = p] /\ left' = [left EXCEPT ![t] = l]
      /\ job' = [job EXCEPT ![t] = j]
      /\ Resting(t) /\ IsJob(j) /\ j # NoJob /\ l # << >>
      /\ may' = [c \in Cells |-> may[c] \cup IF c \in j.want THEN {j.new[c]} ELSE {}]
      /\ UNCHANGED <<flash, image, tries, broken, stale>>
  BY <1>1 DEF BeginsWith
<1>3. /\ p = "read" => j.sets # << >>
      /\ p = "clear" => j.clears # << >> /\ \A i \in 1..Len(l) : CellsOf(l[i]) \subseteq j.want
      /\ j.kind = "settings" => p = "read" /\ l = <<0>>
  BY <1>1 DEF BeginsWith
<1>4. pc' \in [Tasks -> {"idle", "edit", "read", "erase", "write", "clear", "blank"}]
  BY <1>2 DEF Typed, TypedTasks
<1>5. device' \in [Tasks -> {NoSettings} \cup [vol : Values, ssid : Values]] => TypedTasks'
  BY <1>2, <1>4 DEF Typed, TypedTasks
<1>6. may' \in [Cells -> SUBSET Values]
  <2>1. \A c \in j.want : j.new[c] \in Values
    BY <1>2, JobShape
  <2> QED
    BY <1>2, <2>1 DEF Typed
<1>7. /\ pc'[t] = p /\ left'[t] = l /\ image'[t] = image[t] /\ job'[t] = j
  BY <1>2 DEF Typed, TypedTasks
<1>8. ASSUME NEW u \in Tasks, u # t
      PROVE  pc'[u] = pc[u] /\ left'[u] = left[u] /\ image'[u] = image[u] /\ job'[u] = job[u]
  BY <1>2, <1>8 DEF Typed, TypedTasks
<1>9. image[t] = NoImage
  BY <1>2 DEF Working, Resting
<1>10. ASSUME NEW u \in Tasks
      PROVE  /\ pc'[u] \in {"idle", "edit"} <=> job'[u] = NoJob
             /\ pc'[u] \in {"idle", "edit"} <=> left'[u] = << >>
             /\ job'[u].kind = "settings" => left'[u] = <<0>>
             /\ pc'[u] \in {"read", "erase", "write"} => job'[u].sets # << >>
             /\ pc'[u] \in {"clear", "blank"} => job'[u].clears # << >> /\
                  \A i \in 1..Len(left'[u]) : CellsOf(left'[u][i]) \subseteq job'[u].want
             /\ IF pc'[u] \in {"erase", "write"}
                THEN image'[u] \in [CellsOf(Head(left'[u])) -> Values]
                ELSE image'[u] = NoImage
  <2>1. CASE u = t
    BY <1>2, <1>3, <1>7, <1>9, <2>1
  <2>2. CASE u # t
    BY <1>8, <2>2 DEF Working, Resting
  <2> QED
    BY <2>1, <2>2
<1>11. Working'
  BY <1>10 DEF Working, Resting
<1>12. pc' = [pc EXCEPT ![t] = pc'[t]] /\ left' = [left EXCEPT ![t] = left'[t]]
  BY <1>2, <1>7
<1> QED
  BY <1>2, <1>4, <1>5, <1>6, <1>7, <1>11, <1>12

(* The saves that begin, action by action.                                  *)
LEMMA DeviceOfMain ==
  ASSUME Typed, Copying, Booting
  PROVE  /\ device[Main] \in [vol : Values, ssid : Values]
         /\ device[Main].vol \in Values /\ device[Main].ssid \in Values
BY Constants DEF Typed, TypedTasks, Copying, Boots

(* eeEraseAll begins as Main's job, when the boot finds no settings.        *)
LEMMA WipeAllBegins ==
  ASSUME Typed, Working, Copying, WipeAll
  PROVE  Begins(Main, eeEraseAll) /\ eeEraseAll.kind = "clear"
<1>1. IsJob(eeEraseAll) /\ eeEraseAll # NoJob /\ eeEraseAll.kind = "clear"
  BY DEF IsJob, eeEraseAll, Job, NoJob
<1> QED
  BY <1>1, Begin, Constants DEF WipeAll

(* The boot's first save writes the network, and nothing else, anew.        *)
LEMMA FirstUseBegins ==
  ASSUME Typed, Working, Copying, FirstUse
  PROVE  \E ssid \in New \cup {Cleared} :
           /\ device' = [device EXCEPT ![Main].ssid = ssid]
           /\ Begins(Main, saveDeviceSettings(device[Main].vol, ssid, {Ssid}))
<1>1. PICK ssid \in New \cup {Cleared} :
        /\ device' = [device EXCEPT ![Main].ssid = ssid]
        /\ Start(Main, saveDeviceSettings(device[Main].vol, ssid, {Ssid}))
  BY DEF FirstUse
<1>2. device[Main].vol \in Values /\ ssid \in Values /\ {Ssid} \in Want
  BY Constants, DeviceOfMain DEF FirstUse, MainIn, Booting, Want
<1> DEFINE j == saveDeviceSettings(device[Main].vol, ssid, {Ssid})
<1>3. IsJob(j) /\ j # NoJob
  BY <1>2, SettingsJob
<1> HIDE DEF j
<1>4. Begins(Main, j)
  BY <1>1, <1>3, Begin, Constants DEF j
<1> QED
  BY <1>1, <1>4 DEF j

(* The boot's later saves write the settings as Main has them.              *)
LEMMA SaveNetworkBegins ==
  ASSUME Typed, Working, Copying, SaveNetwork
  PROVE  /\ stage \in {"wifi", "ap"} /\ stage' \in {"ap", "start"}
         /\ Begins(Main, saveDeviceSettings(device[Main].vol, device[Main].ssid, {}))
<1>1. stage \in {"wifi", "ap"} /\ stage' \in {"ap", "start"}
  BY DEF SaveNetwork, MainIn
<1>2. device[Main].vol \in Values /\ device[Main].ssid \in Values /\ {} \in Want
  BY <1>1, DeviceOfMain DEF Booting, Want
<1> DEFINE j == saveDeviceSettings(device[Main].vol, device[Main].ssid, {})
<1>3. IsJob(j) /\ j # NoJob
  BY <1>2, SettingsJob
<1> HIDE DEF j
<1>4. Begins(Main, j)
  BY <1>3, Begin, Constants DEF SaveNetwork, j
<1> QED
  BY <1>1, <1>4 DEF j

(* The volume saver writes the volume beside the network it has read.       *)
LEMMA SaveVolumeBegins ==
  ASSUME Typed, Working, Copying, SaveVolume
  PROVE  Begins(Saver, saveDeviceSettings(clientIvol, flash[Ssid], {Volume}))
<1>1. clientIvol \in Values /\ flash[Ssid] \in Values /\ {Volume} \in Want
  BY SectorOf DEF Typed, Want
<1> DEFINE j == saveDeviceSettings(clientIvol, flash[Ssid], {Volume})
<1>3. IsJob(j) /\ j # NoJob
  BY <1>1, SettingsJob
<1> HIDE DEF j
<1>4. Begins(Saver, j)
  BY <1>3, Begin, Constants DEF SaveVolume, j
<1> QED
  BY <1>4 DEF j

(* A handler that saves stations or clears the flash begins that job.       *)
LEMMA OthersBegin ==
  ASSUME Typed, Working, Copying, NEW t \in Tasks, SaveStations(t) \/ ClearFlash(t)
  PROVE  \E j : Begins(t, j) /\ j.kind \in {"stations", "clear"}
<1>1. CASE SaveStations(t)
  <2>1. PICK r \in Ranges, value \in New : Start(t, saveMultiStation(r[1], r[2], value))
    BY <1>1 DEF SaveStations
  <2> DEFINE j == saveMultiStation(r[1], r[2], value)
  <2>2. IsJob(j) /\ j.kind = "stations" /\ j # NoJob
    BY DEF IsJob, saveMultiStation, Job, NoJob
  <2> HIDE DEF j
  <2>3. Begins(t, j)
    BY <2>1, <2>2, Begin DEF j
  <2> QED
    BY <2>2, <2>3
<1>2. CASE ClearFlash(t)
  <2>1. PICK j \in {eeEraseStations, eeEraseAll} : Start(t, j)
    BY <1>2 DEF ClearFlash
  <2>2. IsJob(j) /\ j # NoJob /\ j.kind = "clear"
    BY DEF IsJob, eeEraseAll, eeEraseStations, Job, NoJob
  <2> QED
    BY <2>1, <2>2, Begin
<1> QED
  BY <1>1, <1>2

(* The history of a sector that is done has a type.                         *)
LEMMA SavedTyped ==
  ASSUME Typed, NEW t \in Tasks, NEW s, Saved(t, s)
  PROVE  may' \in [Cells -> SUBSET Values]
<1>1. \A u \in Tasks : \A c \in job[u].want : job[u].new[c] \in Values
  <2> TAKE u \in Tasks
  <2>1. IsJob(job[u])
    BY DEF Typed, TypedTasks
  <2> QED
    BY <2>1, JobShape
<1> QED
  BY <1>1 DEF Saved, Typed

(* The settings in flash.                                                   *)
LEMMA SettingsTyped ==
  ASSUME Typed
  PROVE  /\ Settings \in [vol : Values, ssid : Values] /\ Settings # NoSettings
         /\ Settings.vol = flash[Volume] /\ Settings.ssid = flash[Ssid]
         /\ flash[Volume] \in Values /\ flash[Ssid] \in Values
         /\ \A d \in [vol : Values, ssid : Values] : d # NoSettings
<1>1. flash[Volume] \in Values /\ flash[Ssid] \in Values
  BY SectorOf DEF Typed
<1>2. -1 \notin Values
  BY Constants
<1> QED
  BY <1>1, <1>2 DEF Settings, NoSettings

(* What all the steps of a save that end with a sector have in common.      *)
LEMMA SkipLeaves ==
  ASSUME Typed, Working, Copying, NEW t \in Tasks, SkipSector(t)
  PROVE  Leaves(t) /\ ~Resting(t) /\ image' = [image EXCEPT ![t] = NoImage]
<1>1. pc[t] = "read" /\ Advance(t, "read") /\ image' = image
  BY DEF SkipSector
<1>2. image[t] = NoImage
  BY <1>1 DEF Working
<1> QED
  BY <1>1, <1>2, Leave DEF Resting, Typed, TypedTasks

(* A sector written is done.                                                *)
LEMMA WriteLeaves ==
  ASSUME Typed, Working, Copying, NEW t \in Tasks, WriteSector(t)
  PROVE  Leaves(t) /\ ~Resting(t) /\ image' = [image EXCEPT ![t] = NoImage]
<1>1. /\ pc[t] = "write" /\ Advance(t, "read") /\ image' = [image EXCEPT ![t] = NoImage]
  BY DEF WriteSector
<1> QED
  BY <1>1, Leave DEF Resting

(* A sector erased for good is done.                                        *)
LEMMA BlankLeaves ==
  ASSUME Typed, Working, Copying, NEW t \in Tasks, BlankSector(t)
  PROVE  Leaves(t) /\ ~Resting(t) /\ image' = [image EXCEPT ![t] = NoImage]
<1>1. pc[t] = "blank" /\ Advance(t, "clear") /\ image' = image
  BY DEF BlankSector
<1>2. image[t] = NoImage
  BY <1>1 DEF Working
<1> QED
  BY <1>1, <1>2, Leave DEF Resting, Typed, TypedTasks

(* A sector that cannot be read, erased or written is given up or retried.  *)
LEMMA FailLeaves ==
  ASSUME Typed, Working, Copying, NEW t \in Tasks, ReadFails(t) \/ FlashFails(t)
  PROVE  Leaves(t) /\ ~Resting(t) /\ image' = [image EXCEPT ![t] = NoImage]
<1>1. /\ pc[t] \in {"read", "erase", "write"} /\ Fail(t)
  BY DEF ReadFails, FlashFails
<1>2. image' = [image EXCEPT ![t] = NoImage]
  BY <1>1 DEF Fail
<1> QED
  BY <1>1, <1>2, Leave DEF Resting

(* Every step keeps the types, and what a task has where it is.             *)
LEMMA TypedStep ==
  ASSUME Typed, Working, Copying, Next
  PROVE  Typed' /\ Working'
<1> USE Constants
<1>1. ASSUME NEW t \in Tasks, SaveSettings(t) PROVE Typed' /\ Working'
  <2>1. PICK ssid \in New : Begins(t, saveDeviceSettings(device[t].vol, ssid, {Ssid}))
    BY <1>1, SaveSettingsBegins
  <2>2. UNCHANGED <<device, system, events>>
    BY <1>1 DEF SaveSettings
  <2> QED
    BY <2>1, <2>2, BeginsTyped DEF Typed, TypedTasks, system
<1>2. ASSUME NEW t \in Tasks, ReadSector(t) PROVE Typed' /\ Working'
  <2>1. /\ pc[t] = "read" /\ pc' = [pc EXCEPT ![t] = "erase"]
        /\ image' = [image EXCEPT ![t] = Merged(t, Head(left[t]))]
        /\ UNCHANGED <<flash, system, device, job, left, tries, events, history>>
    BY <1>2 DEF ReadSector
  <2>2. Typed'
    BY <2>1 DEF Typed, TypedTasks, system, history
  <2>3. Merged(t, Head(left[t])) \in [CellsOf(Head(left[t])) -> Values]
    <3>1. \A c \in DOMAIN job[t].new : job[t].new[c] \in Values
      BY JobShape DEF Typed, TypedTasks
    <3> QED
      BY <3>1 DEF Merged, CellsOf, Typed
  <2>4. Working'
    BY <2>1, <2>3 DEF Working, Resting, Typed, TypedTasks
  <2> QED
    BY <2>2, <2>4
<1>3. ASSUME NEW t \in Tasks, SkipSector(t) PROVE Typed' /\ Working'
  BY <1>3, SkipLeaves, LeavesTyped, SavedTyped DEF SkipSector, Typed, system
<1>4. ASSUME NEW t \in Tasks, EraseSector(t) PROVE Typed' /\ Working'
  <2>1. /\ pc[t] = "erase" /\ pc' = [pc EXCEPT ![t] = "write"]
        /\ flash' = [c \in Cells |-> IF Sector(c) = Head(left[t]) THEN Erased ELSE flash[c]]
        /\ Changed(t, Head(left[t]))
        /\ UNCHANGED <<system, device, job, left, image, tries, events, may, broken>>
    BY <1>4 DEF EraseSector
  <2>2. Head(left[t]) \in 0..Sectors - 1
    BY <2>1, Ahead DEF Resting
  <2>3. Typed'
    BY <2>1, <2>2 DEF Typed, TypedTasks, system, Changed
  <2>4. Working'
    BY <2>1 DEF Working, Resting, Typed, TypedTasks
  <2> QED
    BY <2>3, <2>4
<1>5. ASSUME NEW t \in Tasks, WriteSector(t) PROVE Typed' /\ Working'
  <2>1. /\ pc[t] = "write"
        /\ flash' = [c \in Cells |-> IF Sector(c) = Head(left[t])
                                     THEN Both(flash[c], image[t][c]) ELSE flash[c]]
        /\ Changed(t, Head(left[t])) /\ Saved(t, Head(left[t]))
        /\ UNCHANGED <<system, events, broken>>
    BY <1>5 DEF WriteSector
  <2>2. /\ Head(left[t]) \in 0..Sectors - 1
        /\ image[t] \in [CellsOf(Head(left[t])) -> Values]
    BY <2>1, Ahead DEF Resting, Working
  <2>3. flash' \in [Cells -> Values]
    BY <2>1, <2>2 DEF Typed, CellsOf
  <2>4. stale' \subseteq 0..Sectors - 1
    BY <2>1, <2>2 DEF Typed, Changed
  <2>5. TypedTasks' /\ Working' /\ may' \in [Cells -> SUBSET Values]
    BY <1>5, <2>1, WriteLeaves, LeavesTyped, SavedTyped
  <2> QED
    BY <2>1, <2>3, <2>4, <2>5 DEF Typed, system
<1>6. ASSUME NEW t \in Tasks, ClearSector(t) PROVE Typed' /\ Working'
  <2>1. /\ pc[t] = "clear" /\ pc' = [pc EXCEPT ![t] = "blank"]
        /\ flash' = [c \in Cells |-> IF Sector(c) = Head(left[t]) THEN Erased ELSE flash[c]]
        /\ Changed(t, Head(left[t]))
        /\ UNCHANGED <<system, device, job, left, image, tries, events, may, broken>>
    BY <1>6 DEF ClearSector
  <2>2. Head(left[t]) \in 0..Sectors - 1
    BY <2>1, Ahead DEF Resting
  <2>3. Typed'
    BY <2>1, <2>2 DEF Typed, TypedTasks, system, Changed
  <2>4. Working'
    BY <2>1 DEF Working, Resting, Typed, TypedTasks
  <2> QED
    BY <2>3, <2>4
<1>7. ASSUME NEW t \in Tasks, BlankSector(t) PROVE Typed' /\ Working'
  <2>1. /\ pc[t] = "blank"
        /\ flash' = [c \in Cells |-> IF Sector(c) = Head(left[t]) THEN Cleared ELSE flash[c]]
        /\ Changed(t, Head(left[t])) /\ Saved(t, Head(left[t]))
        /\ UNCHANGED <<system, events, broken>>
    BY <1>7 DEF BlankSector
  <2>2. Head(left[t]) \in 0..Sectors - 1
    BY <2>1, Ahead DEF Resting
  <2>3. flash' \in [Cells -> Values] /\ stale' \subseteq 0..Sectors - 1
    BY <2>1, <2>2 DEF Typed, Changed
  <2>5. TypedTasks' /\ Working' /\ may' \in [Cells -> SUBSET Values]
    BY <1>7, <2>1, BlankLeaves, LeavesTyped, SavedTyped
  <2> QED
    BY <2>1, <2>3, <2>5 DEF Typed, system
<1>8. ASSUME NEW t \in Tasks, ReadFails(t) \/ FlashFails(t) PROVE Typed' /\ Working'
  <2>1. TypedTasks' /\ Working'
    BY <1>8, FailLeaves, LeavesTyped
  <2>2. events' \in 0..MaxEvents /\ UNCHANGED <<flash, system, may, stale>>
    BY <1>8 DEF ReadFails, FlashFails, Fail, Event, Typed
  <2>3. broken' \subseteq 0..Sectors - 1
    BY <1>8, Ahead DEF ReadFails, FlashFails, Typed, Resting
  <2> QED
    BY <2>1, <2>2, <2>3 DEF Typed, system
<1>9. CASE PowerFails
  <2>1. /\ stage' = "off" /\ events' \in 0..MaxEvents
        /\ broken' = broken \cup
             {Head(left[t]) : t \in {t \in Tasks : pc[t] \in {"write", "blank"}}}
        /\ pc' = [t \in Tasks |-> "idle"] /\ device' = [t \in Tasks |-> NoSettings]
        /\ job' = [t \in Tasks |-> NoJob] /\ left' = [t \in Tasks |-> << >>]
        /\ image' = [t \in Tasks |-> NoImage] /\ tries' = [t \in Tasks |-> 0]
        /\ UNCHANGED <<flash, clientIvol, may, stale>>
    BY <1>9 DEF PowerFails, Event, Typed
  <2>2. TypedTasks'
    BY <2>1, JobTypes DEF TypedTasks
  <2>3. broken' \subseteq 0..Sectors - 1
    BY <2>1, Ahead DEF Typed, Resting
  <2>4. Typed'
    BY <2>1, <2>2, <2>3 DEF Typed
  <2>5. Working'
    BY <2>1, JobTypes DEF Working, Resting
  <2> QED
    BY <2>4, <2>5
<1>10. ASSUME UNCHANGED <<pc, job, left, image>>, TypedTasks'
       PROVE  Working'
  BY <1>10 DEF Working, Resting
<1>11. CASE PowerReturns \/ WipeFails \/ LaterUse \/ SetVolume
  <2>1. UNCHANGED <<flash, tasks, history>> /\ events' \in 0..MaxEvents
    BY <1>11 DEF PowerReturns, WipeFails, LaterUse, SetVolume, Request, Event, Typed
  <2>2. clientIvol' \in Values
    BY <1>11, SettingsTyped DEF PowerReturns, WipeFails, LaterUse, SetVolume, Typed
  <2>3. stage' \in {"off", "load", "wipe", "reload", "use", "wifi", "ap", "start", "ready"}
    BY <1>11 DEF PowerReturns, WipeFails, LaterUse, SetVolume, MainIn, Typed
  <2>4. TypedTasks'
    BY <2>1 DEF tasks, Typed, TypedTasks
  <2> QED
    BY <1>10, <2>1, <2>2, <2>3, <2>4 DEF Typed, tasks, history
<1>12. CASE LoadSettings \/ StartConsole
  <2>1. UNCHANGED <<flash, pc, job, left, image, tries, events, history>>
    BY <1>12 DEF LoadSettings, StartConsole
  <2>2. clientIvol' \in Values
    BY <1>12, SettingsTyped DEF LoadSettings, StartConsole, Typed
  <2>3. stage' \in {"off", "load", "wipe", "reload", "use", "wifi", "ap", "start", "ready"}
    BY <1>12 DEF LoadSettings, StartConsole, MainIn
  <2>4. device' \in [Tasks -> {NoSettings} \cup [vol : Values, ssid : Values]]
    BY <1>12, SettingsTyped DEF LoadSettings, StartConsole, Typed, TypedTasks
  <2>5. TypedTasks'
    BY <2>1, <2>4 DEF Typed, TypedTasks
  <2> QED
    BY <1>10, <2>1, <2>2, <2>3, <2>5 DEF Typed, history
<1>13. ASSUME NEW t \in Tasks, ReadSettings(t) PROVE Typed' /\ Working'
  <2>1. /\ pc[t] = "idle" /\ pc' = [pc EXCEPT ![t] = "edit"] /\ events' \in 0..MaxEvents
        /\ device' = [device EXCEPT ![t] = Settings]
        /\ UNCHANGED <<flash, system, job, left, image, tries, history>>
    BY <1>13 DEF ReadSettings, Request, Event, Typed
  <2>2. TypedTasks'
    BY <2>1, SettingsTyped DEF Typed, TypedTasks
  <2>3. Working'
    BY <2>1 DEF Working, Resting, Typed, TypedTasks
  <2> QED
    BY <2>1, <2>2, <2>3 DEF Typed, system, history
<1>14. ASSUME NEW t \in Tasks, NEW j, Begins(t, j),
              device' \in [Tasks -> {NoSettings} \cup [vol : Values, ssid : Values]],
              stage' \in {"off", "load", "wipe", "reload", "use", "wifi", "ap", "start", "ready"},
              clientIvol' = clientIvol, events' \in 0..MaxEvents
       PROVE  Typed' /\ Working'
  <2>1. TypedTasks' /\ Working' /\ may' \in [Cells -> SUBSET Values]
        /\ UNCHANGED <<flash, broken, stale>>
    BY <1>14, BeginsTyped
  <2> QED
    BY <1>14, <2>1 DEF Typed
<1>15. CASE WipeAll
  BY <1>14, <1>15, WipeAllBegins DEF WipeAll, MainIn, Typed, TypedTasks
<1>16. CASE FirstUse
  <2>1. PICK ssid \in New \cup {Cleared} :
          /\ device' = [device EXCEPT ![Main].ssid = ssid]
          /\ Begins(Main, saveDeviceSettings(device[Main].vol, ssid, {Ssid}))
    BY <1>16, FirstUseBegins
  <2>2. device[Main] \in [vol : Values, ssid : Values]
    BY <1>16, DeviceOfMain DEF FirstUse, MainIn, Booting
  <2>3. device' \in [Tasks -> {NoSettings} \cup [vol : Values, ssid : Values]]
    BY <2>1, <2>2 DEF Typed, TypedTasks
  <2> QED
    BY <1>14, <1>16, <2>1, <2>3 DEF FirstUse, MainIn, Typed
<1>17. CASE SaveNetwork
  BY <1>14, <1>17, SaveNetworkBegins DEF SaveNetwork, Typed, TypedTasks
<1>18. CASE SaveVolume
  <2>1. device' \in [Tasks -> {NoSettings} \cup [vol : Values, ssid : Values]]
    BY <1>18, SettingsTyped DEF SaveVolume, Typed, TypedTasks
  <2> QED
    BY <1>14, <1>18, <2>1, SaveVolumeBegins DEF SaveVolume, Typed, system
<1>19. ASSUME NEW t \in Tasks, SaveStations(t) \/ ClearFlash(t) PROVE Typed' /\ Working'
  <2>1. UNCHANGED <<system, device>> /\ events' \in 0..MaxEvents
    BY <1>19 DEF SaveStations, ClearFlash, Request, Event, Typed
  <2> QED
    BY <1>14, <1>19, <2>1, OthersBegin DEF Typed, TypedTasks, system
<1> QED
  BY <1>1, <1>2, <1>3, <1>4, <1>5, <1>6, <1>7, <1>8, <1>9, <1>11, <1>12, <1>13, <1>15,
     <1>16, <1>17, <1>18, <1>19 DEF Next, Step, Boot

(* Who has a copy of the settings, when a task leaves a sector.             *)
LEMMA LeavesPlaces ==
  ASSUME Typed, Working, Places, NEW t \in Tasks, ~Resting(t), Leaves(t), stage' = stage
  PROVE  Places'
<1>1. PICK p \in {"idle", "read", "clear"}, l \in Seq(0..Sectors - 1), k \in 0..Tries :
        LeavesWith(t, p, l, k)
  BY DEF Leaves
<1>2. /\ pc' = [pc EXCEPT ![t] = p]
      /\ job' = [job EXCEPT ![t] = IF p = "idle" THEN NoJob ELSE job[t]]
      /\ device' = [device EXCEPT ![t] =
                      IF p = "idle" /\ ~Boots(t) THEN NoSettings ELSE device[t]]
      /\ job[t].kind = "settings" => p = "idle"
  BY <1>1 DEF LeavesWith
<1>3. /\ pc'[t] = p /\ job'[t] = IF p = "idle" THEN NoJob ELSE job[t]
      /\ device'[t] = IF p = "idle" /\ ~Boots(t) THEN NoSettings ELSE device[t]
  BY <1>2 DEF Typed, TypedTasks
<1>4. ASSUME NEW u \in Tasks, u # t
      PROVE  pc'[u] = pc[u] /\ job'[u] = job[u] /\ device'[u] = device[u]
  BY <1>2, <1>4 DEF Typed, TypedTasks
<1>5. job'[t].kind # "settings"
  BY <1>2, <1>3, JobTypes
<1>6. Carrying'
  <2> SUFFICES ASSUME NEW u \in Tasks, job'[u].kind = "settings"
               PROVE  /\ Volume \in job'[u].want =>
                           job'[u].new[Volume] # device'[u].vol /\ ~Boots(u)
                      /\ Volume \notin job'[u].want => job'[u].new[Volume] = device'[u].vol
                      /\ Ssid \in job'[u].want => job'[u].new[Ssid] # Erased
                      /\ Ssid \in job'[u].want /\ ~Boots(u) => job'[u].new[Ssid] # Cleared
                      /\ Ssid \notin job'[u].want \/ Boots(u) => job'[u].new[Ssid] = device'[u].ssid
    BY DEF Carrying, Boots, Booting
  <2> QED
    BY <1>4, <1>5 DEF Places, Carrying
<1>7. stage \notin {"off", "load"} /\ (t = Main => stage \notin {"wipe", "use"})
  BY DEF Places, Copying, Resting
<1>8. (device'[t] # NoSettings) <=> (Boots(t) \/ pc'[t] = "edit" \/ job'[t].kind = "settings")
  BY <1>3, <1>5 DEF Places, Copying, Resting
<1>9. Copying'
  <2>1. \A u \in Tasks : (device'[u] # NoSettings) <=>
          (Boots(u)' \/ pc'[u] = "edit" \/ job'[u].kind = "settings")
    <3>1. \A u \in Tasks : Boots(u)' <=> Boots(u)
      BY DEF Boots, Booting
    <3>2. TAKE u \in Tasks
    <3>3. CASE u = t
      BY <1>8, <3>1, <3>3
    <3>4. CASE u # t
      BY <1>3, <1>4, <3>1, <3>4 DEF Places, Copying
    <3> QED
      BY <3>3, <3>4
  <2>2. /\ stage \in {"wipe", "use"} => pc'[Main] = "idle"
        /\ stage = "reload" => job'[Main].kind # "settings"
        /\ Booting /\ stage # "reload" => Resting(Main)' \/ job'[Main].kind = "settings"
        /\ Booting => pc'[Main] # "edit"
        /\ stage \notin {"off", "load"}
    BY <1>3, <1>4, <1>5, <1>7, Constants DEF Places, Copying, Booting, Boots, Resting, Up
  <2> QED
    BY <2>1, <2>2 DEF Copying, Booting
<1> QED
  BY <1>6, <1>9 DEF Places

(* A save of stations, or the clearing of the flash, by a task that serves. *)
LEMMA BeginsPlaces ==
  ASSUME Typed, Working, Places, NEW t \in Tasks, NEW j, Begins(t, j),
         j.kind # "settings", device' = device, stage' = stage, Up, pc[t] = "idle",
         ~Boots(t)
  PROVE  Places'
<1>1. /\ job' = [job EXCEPT ![t] = j] /\ pc' = [pc EXCEPT ![t] = pc'[t]] /\ pc'[t] \in {"read", "clear"}
  BY BeginsTyped
<1>2. job[t] = NoJob /\ job[t].kind # "settings"
  BY JobTypes DEF Working, Resting
<1>3. \A u \in Tasks : u # t => pc'[u] = pc[u] /\ job'[u] = job[u]
  BY <1>1 DEF Typed, TypedTasks
<1>4. job'[t] = j
  BY <1>1 DEF Typed, TypedTasks
<1>5. Carrying'
  BY <1>3, <1>4 DEF Places, Carrying, Boots, Booting
<1>6. Copying'
  <2>1. \A u \in Tasks : (device'[u] # NoSettings) <=>
          (Boots(u)' \/ pc'[u] = "edit" \/ job'[u].kind = "settings")
    <3>1. \A u \in Tasks : Boots(u)' <=> Boots(u)
      BY DEF Boots, Booting
    <3>2. TAKE u \in Tasks
    <3>3. CASE u = t
      BY <1>1, <1>2, <1>4, <3>1, <3>3 DEF Places, Copying, Resting
    <3>4. CASE u # t
      BY <1>3, <1>4, <3>1, <3>4 DEF Places, Copying
    <3> QED
      BY <3>3, <3>4
  <2>2. /\ stage \in {"wipe", "use"} => pc'[Main] = "idle"
        /\ stage = "reload" => job'[Main].kind # "settings"
        /\ Booting /\ stage # "reload" => Resting(Main)' \/ job'[Main].kind = "settings"
        /\ Booting => pc'[Main] # "edit"
        /\ stage \notin {"off", "load"}
    BY <1>1, <1>3, <1>4, Constants DEF Places, Copying, Booting, Boots, Resting, Up
  <2> QED
    BY <2>1, <2>2 DEF Copying, Booting
<1> QED
  BY <1>5, <1>6 DEF Places

(* A save of the settings by a task whose copy is, or becomes, d.           *)
LEMMA SettingsPlaces ==
  ASSUME Typed, Working, Places, NEW t \in Tasks, NEW v \in Values, NEW i \in Values,
         NEW w \in Want, Begins(t, saveDeviceSettings(v, i, w)),
         NEW d \in [vol : Values, ssid : Values], Carries(t, d, v, i, w)
  PROVE  Places'
<1> DEFINE j == saveDeviceSettings(v, i, w)
<1>1. /\ job' = [job EXCEPT ![t] = j] /\ pc' = [pc EXCEPT ![t] = pc'[t]] /\ pc'[t] \in {"read", "clear"}
  BY BeginsTyped
<1>2. /\ j.kind = "settings" /\ j.want = w /\ j.new[Volume] = v /\ j.new[Ssid] = i
  BY SettingsJob
<1> HIDE DEF j
<1>3. \A u \in Tasks : u # t => pc'[u] = pc[u] /\ job'[u] = job[u] /\ device'[u] = device[u]
  BY <1>1 DEF Typed, TypedTasks, Carries
<1>4. job'[t] = j /\ device'[t] = d /\ d # NoSettings
  BY <1>1, SettingsTyped DEF Typed, TypedTasks, Carries
<1>5. \A u \in Tasks : u # t => (Boots(u)' <=> Boots(u))
  BY DEF Boots, Booting, Carries
<1>6. ASSUME NEW u \in Tasks, job'[u].kind = "settings"
      PROVE  /\ Volume \in job'[u].want =>
                  job'[u].new[Volume] # device'[u].vol /\ ~Boots(u)'
             /\ Volume \notin job'[u].want => job'[u].new[Volume] = device'[u].vol
             /\ Ssid \in job'[u].want => job'[u].new[Ssid] # Erased
             /\ Ssid \in job'[u].want /\ ~Boots(u)' => job'[u].new[Ssid] # Cleared
             /\ Ssid \notin job'[u].want \/ Boots(u)' => job'[u].new[Ssid] = device'[u].ssid
  <2>1. CASE u = t
    <3>1. t # Main => ~Boots(t)'
      BY DEF Boots
    <3> QED
      BY <1>2, <1>4, <2>1, <3>1 DEF Carries
  <2>2. CASE u # t
    BY <1>3, <1>5, <1>6, <2>2 DEF Places, Carrying
  <2> QED
    BY <2>1, <2>2
<1>7. Carrying'
  BY <1>6 DEF Carrying
<1>8. Copying'
  <2>1. \A u \in Tasks : (device'[u] # NoSettings) <=>
          (Boots(u)' \/ pc'[u] = "edit" \/ job'[u].kind = "settings")
    BY <1>2, <1>3, <1>4, <1>5 DEF Places, Copying
  <2>2. /\ stage' \in {"wipe", "use"} => pc'[Main] = "idle"
        /\ stage' = "reload" => job'[Main].kind # "settings"
        /\ Booting' /\ stage' # "reload" => Resting(Main)' \/ job'[Main].kind = "settings"
        /\ Booting' => pc'[Main] # "edit"
    BY <1>1, <1>2, <1>3, <1>4, Constants DEF Places, Copying, Booting, Resting, Carries
  <2> QED
    BY <2>1, <2>2 DEF Copying, Carries
<1> QED
  BY <1>7, <1>8 DEF Places

(* Every step keeps track of who has a copy.                                *)
LEMMA PlacesStep ==
  ASSUME Typed, Working, Places, Next
  PROVE  Places'
<1> USE Constants
<1>0. Copying /\ Carrying
  BY DEF Places
<1>1. ASSUME NEW t \in Tasks, SaveSettings(t) PROVE Places'
  <2>1. PICK ssid \in New : Begins(t, saveDeviceSettings(device[t].vol, ssid, {Ssid}))
    BY <1>0, <1>1, SaveSettingsBegins
  <2>2. /\ pc[t] = "edit" /\ device[t] \in [vol : Values, ssid : Values]
        /\ device' = [device EXCEPT ![t] = device[t]] /\ stage' = stage
    BY <1>0, <1>1 DEF SaveSettings, Copying, Typed, TypedTasks, system
  <2>3. stage \notin {"off", "load"} /\ ~Boots(t)
    BY <1>0, <2>2 DEF Copying, Boots
  <2>4. /\ t = Main => stage' \notin {"wipe", "use", "reload"}
        /\ ~Boots(t)'
    BY <2>2, <2>3 DEF Boots, Booting
  <2>5. /\ device[t].vol \in Values /\ ssid \in Values /\ {Ssid} \in Want
        /\ Volume \notin {Ssid} /\ ssid # Erased /\ ssid # Cleared
    BY <2>2 DEF Want, Volume, Ssid
  <2>6. Carries(t, device[t], device[t].vol, ssid, {Ssid})
    BY <2>1, <2>2, <2>3, <2>4, <2>5 DEF Carries
  <2> QED
    BY <2>6, <2>1, <2>2, <2>3, <2>4, <2>5, SettingsPlaces
<1>2. ASSUME UNCHANGED <<stage, job, device>>, NEW t \in Tasks, ~Resting(t),
             NEW p \in {"erase", "write", "blank"}, pc' = [pc EXCEPT ![t] = p]
      PROVE  Places'
  <2>1. /\ pc'[t] = p /\ \A u \in Tasks : u # t => pc'[u] = pc[u]
    BY <1>2 DEF Typed, TypedTasks
  <2>2. Carrying'
    BY <1>0, <1>2 DEF Carrying, Boots, Booting
  <2>3. Copying'
    BY <1>0, <1>2, <2>1 DEF Copying, Boots, Booting, Resting
  <2> QED
    BY <2>2, <2>3 DEF Places
<1>3. ASSUME NEW t \in Tasks, ReadSector(t) PROVE Places'
  BY <1>2, <1>3 DEF ReadSector, Resting, system
<1>4. ASSUME NEW t \in Tasks, EraseSector(t) \/ ClearSector(t) PROVE Places'
  BY <1>2, <1>4 DEF EraseSector, ClearSector, Resting, system
<1>5. ASSUME NEW t \in Tasks, SkipSector(t) PROVE Places'
  BY <1>0, <1>5, SkipLeaves, LeavesPlaces DEF SkipSector, system
<1>6. ASSUME NEW t \in Tasks, WriteSector(t) PROVE Places'
  BY <1>0, <1>6, WriteLeaves, LeavesPlaces DEF WriteSector, system
<1>7. ASSUME NEW t \in Tasks, BlankSector(t) PROVE Places'
  BY <1>0, <1>7, BlankLeaves, LeavesPlaces DEF BlankSector, system
<1>8. ASSUME NEW t \in Tasks, ReadFails(t) \/ FlashFails(t) PROVE Places'
  BY <1>0, <1>8, FailLeaves, LeavesPlaces DEF ReadFails, FlashFails, Fail, system
<1>9. CASE PowerFails
  <2>1. /\ stage' = "off"
        /\ pc' = [t \in Tasks |-> "idle"] /\ device' = [t \in Tasks |-> NoSettings]
        /\ job' = [t \in Tasks |-> NoJob]
    BY <1>9 DEF PowerFails
  <2> QED
    BY <2>1, JobTypes DEF Places, Copying, Carrying, Boots, Booting
<1>10. CASE PowerReturns \/ WipeFails \/ LaterUse \/ SetVolume
  <2>1. /\ UNCHANGED <<pc, device, job>>
        /\ \/ stage = "off" /\ stage' = "load"
           \/ stage = "wipe" /\ stage' = "reload"
           \/ stage = "use" /\ stage' = "wifi"
           \/ stage' = stage
    BY <1>10 DEF PowerReturns, WipeFails, LaterUse, SetVolume, MainIn, tasks
  <2>2. \A t \in Tasks : pc[t] = "idle" => job[t].kind # "settings"
    BY JobTypes DEF Working, Resting
  <2>3. Boots(Main) /\ stage' # stage => stage \in {"wipe", "use"}
    BY <2>1 DEF Boots, Booting
  <2>4. \A t \in Tasks : Boots(t)' <=> Boots(t)
    BY <2>1 DEF Boots, Booting
  <2>5. Carrying'
    BY <1>0, <2>1, <2>4 DEF Carrying
  <2>6. Copying'
    BY <1>0, <2>1, <2>2, <2>4 DEF Copying, Booting, Resting
  <2> QED
    BY <2>5, <2>6 DEF Places
<1>11. CASE LoadSettings
  <2>1. /\ stage \in {"load", "reload"} /\ stage' \in {"wipe", "use"} /\ pc[Main] = "idle"
        /\ device' = [device EXCEPT ![Main] = Settings] /\ UNCHANGED <<pc, job>>
    BY <1>11 DEF LoadSettings, MainIn
  <2>2. job[Main].kind # "settings" /\ Settings # NoSettings
    BY <2>1, JobTypes, SettingsTyped DEF Working, Resting
  <2>3. /\ device'[Main] = Settings
        /\ \A t \in Tasks : t # Main => device'[t] = device[t] /\ ~Boots(t) /\ ~Boots(t)'
        /\ Boots(Main)'
    BY <2>1 DEF Typed, TypedTasks, Boots, Booting
  <2>4. Carrying'
    BY <1>0, <2>1, <2>2, <2>3 DEF Carrying
  <2>5. Copying'
    BY <1>0, <2>1, <2>2, <2>3 DEF Copying, Booting, Resting
  <2> QED
    BY <2>4, <2>5 DEF Places
<1>12. CASE StartConsole
  <2>1. /\ stage = "start" /\ stage' = "ready" /\ pc[Main] = "idle"
        /\ device' = [device EXCEPT ![Main] = NoSettings] /\ UNCHANGED <<pc, job>>
    BY <1>12 DEF StartConsole, MainIn
  <2>2. job[Main].kind # "settings"
    BY <2>1, JobTypes DEF Working, Resting
  <2>3. /\ device'[Main] = NoSettings
        /\ \A t \in Tasks : t # Main => device'[t] = device[t] /\ ~Boots(t)
        /\ \A t \in Tasks : ~Boots(t)'
    BY <2>1 DEF Typed, TypedTasks, Boots, Booting
  <2>4. Carrying'
    BY <1>0, <2>1, <2>2, <2>3 DEF Carrying
  <2>5. Copying'
    BY <1>0, <2>1, <2>2, <2>3 DEF Copying, Booting, Resting
  <2> QED
    BY <2>4, <2>5 DEF Places
<1>13. ASSUME NEW t \in Tasks, ReadSettings(t) PROVE Places'
  <2>1. /\ pc[t] = "idle" /\ pc' = [pc EXCEPT ![t] = "edit"] /\ stage' = stage
        /\ stage \notin {"off", "load"} /\ (t = Main => stage = "ready")
        /\ device' = [device EXCEPT ![t] = Settings] /\ job' = job
    BY <1>13 DEF ReadSettings, Request, Up, Serves, system
  <2>2. job[t].kind # "settings" /\ Settings # NoSettings
    BY <2>1, JobTypes, SettingsTyped DEF Working, Resting
  <2>3. /\ pc'[t] = "edit" /\ device'[t] = Settings
        /\ \A u \in Tasks : u # t => device'[u] = device[u] /\ pc'[u] = pc[u]
        /\ \A u \in Tasks : Boots(u)' <=> Boots(u)
    BY <2>1 DEF Typed, TypedTasks, Boots, Booting
  <2>4. Carrying'
    BY <1>0, <2>1, <2>2, <2>3 DEF Carrying
  <2>5. Copying'
    BY <1>0, <2>1, <2>2, <2>3 DEF Copying, Booting, Resting
  <2> QED
    BY <2>4, <2>5 DEF Places
<1>14. CASE WipeAll
  <2>1. /\ stage = "wipe" /\ stage' = "reload" /\ device' = device
        /\ job' = [job EXCEPT ![Main] = eeEraseAll] /\ eeEraseAll.kind = "clear"
        /\ pc' = [pc EXCEPT ![Main] = pc'[Main]] /\ pc'[Main] \in {"read", "clear"}
    BY <1>0, <1>14, WipeAllBegins, BeginsTyped DEF WipeAll, MainIn
  <2>2. job[Main].kind # "settings"
    BY <1>0, <2>1, JobTypes DEF Working, Resting, Copying
  <2>3. /\ job'[Main] = eeEraseAll
        /\ \A u \in Tasks : u # Main => job'[u] = job[u] /\ pc'[u] = pc[u]
        /\ \A u \in Tasks : Boots(u)' <=> Boots(u)
    BY <2>1 DEF Typed, TypedTasks, Boots, Booting
  <2>4. Carrying'
    BY <1>0, <2>1, <2>2, <2>3 DEF Carrying
  <2>5. Copying'
    BY <1>0, <2>1, <2>2, <2>3 DEF Copying, Booting, Resting
  <2> QED
    BY <2>4, <2>5 DEF Places
<1>15. CASE FirstUse
  <2>1. PICK ssid \in New \cup {Cleared} :
          /\ device' = [device EXCEPT ![Main].ssid = ssid]
          /\ Begins(Main, saveDeviceSettings(device[Main].vol, ssid, {Ssid}))
    BY <1>0, <1>15, FirstUseBegins
  <2>2. stage = "use" /\ stage' = "wifi" /\ Booting /\ Booting' /\ Boots(Main) /\ Boots(Main)'
    BY <1>15 DEF FirstUse, MainIn, Booting, Boots
  <2>3. device[Main] \in [vol : Values, ssid : Values] /\ device[Main].vol \in Values
    BY <1>0, <2>2, DeviceOfMain
  <2> DEFINE d == [device[Main] EXCEPT !.ssid = ssid]
  <2>4. /\ ssid \in Values /\ d \in [vol : Values, ssid : Values]
        /\ d.vol = device[Main].vol /\ d.ssid = ssid
        /\ device' = [device EXCEPT ![Main] = d]
    BY <2>1, <2>3
  <2>5. {Ssid} \in Want /\ Volume \notin {Ssid} /\ ssid # Erased
    BY DEF Want, Volume, Ssid
  <2> HIDE DEF d
  <2>6. Carries(Main, d, device[Main].vol, ssid, {Ssid})
    BY <2>1, <2>2, <2>3, <2>4, <2>5 DEF Carries
  <2> QED
    BY <2>6, <2>1, <2>2, <2>3, <2>4, <2>5, SettingsPlaces
<1>16. CASE SaveNetwork
  <2>1. /\ stage \in {"wifi", "ap"} /\ stage' \in {"ap", "start"} /\ device' = device
        /\ Begins(Main, saveDeviceSettings(device[Main].vol, device[Main].ssid, {}))
    BY <1>0, <1>16, SaveNetworkBegins DEF SaveNetwork
  <2>2. Booting /\ Booting' /\ Boots(Main) /\ Boots(Main)'
    BY <2>1 DEF Booting, Boots
  <2>3. /\ device[Main] \in [vol : Values, ssid : Values]
        /\ device[Main].vol \in Values /\ device[Main].ssid \in Values
        /\ device' = [device EXCEPT ![Main] = device[Main]]
    BY <1>0, <2>1, <2>2, DeviceOfMain DEF Typed, TypedTasks
  <2>4. {} \in Want /\ Volume \notin {} /\ Ssid \notin {}
    BY DEF Want
  <2>6. Carries(Main, device[Main], device[Main].vol, device[Main].ssid, {})
    BY <2>1, <2>2, <2>3, <2>4 DEF Carries
  <2> QED
    BY <2>6, <2>1, <2>2, <2>3, <2>4, SettingsPlaces
<1>17. CASE SaveVolume
  <2>1. /\ Begins(Saver, saveDeviceSettings(clientIvol, flash[Ssid], {Volume}))
        /\ device' = [device EXCEPT ![Saver] = Settings] /\ stage' = stage
        /\ stage \notin {"off", "load"} /\ flash[Volume] # clientIvol
    BY <1>0, <1>17, SaveVolumeBegins DEF SaveVolume, system, Up
  <2>2. /\ {Volume} \in Want /\ Ssid \notin {Volume} /\ clientIvol \in Values
        /\ flash[Ssid] \in Values
    BY SettingsTyped DEF Want, Volume, Ssid, Typed
  <2>6. Carries(Saver, Settings, clientIvol, flash[Ssid], {Volume})
    BY <2>1, <2>2, SettingsTyped DEF Carries
  <2> QED
    BY <2>6, <2>1, <2>2, SettingsTyped, SettingsPlaces
<1>18. ASSUME NEW t \in Tasks, SaveStations(t) \/ ClearFlash(t) PROVE Places'
  <2>1. /\ device' = device /\ stage' = stage /\ Up /\ pc[t] = "idle"
        /\ ~Boots(t)
    BY <1>18 DEF SaveStations, ClearFlash, Start, Request, Serves, Boots, Booting, system
  <2> QED
    BY <1>0, <1>18, <2>1, OthersBegin, BeginsPlaces
<1> QED
  BY <1>1, <1>3, <1>4, <1>5, <1>6, <1>7, <1>8, <1>9, <1>10, <1>11, <1>12, <1>13, <1>14,
     <1>15, <1>16, <1>17, <1>18 DEF Next, Step, Boot

(* A cell of a sector that is neither lost nor being rewritten.             *)
LEMMA KeptHere ==
  ASSUME Typed, OthersPreserved, NEW c \in Cells, Sector(c) \notin lost,
         \A u \in Tasks : ~Rewrites(u, Sector(c))
  PROVE  flash[c] \in may[c]
BY DEF OthersPreserved, Kept, Rewriting, Rewrites, lost

(* A step that begins a save, changes only what may be there, and adds.     *)
LEMMA BeginsData ==
  ASSUME Typed, Working, Places, Data, NEW t \in Tasks, NEW j, Begins(t, j)
  PROVE  /\ (Alone /\ FreshImage /\ Writing /\ Wanted /\ OthersPreserved)'
         /\ flash' = flash /\ lost' = lost
         /\ \A u \in Tasks : \A s : Rewrites(u, s)' <=> Rewrites(u, s)
         /\ \A c \in Cells : may[c] \subseteq may'[c] /\ (c \in j.want => j.new[c] \in may'[c])
<1>1. /\ IsJob(j) /\ j # NoJob /\ Resting(t) /\ job' = [job EXCEPT ![t] = j]
      /\ pc' = [pc EXCEPT ![t] = pc'[t]] /\ left' = [left EXCEPT ![t] = left'[t]]
      /\ pc'[t] \in {"read", "clear"}
      /\ may' = [c \in Cells |-> may[c] \cup IF c \in j.want THEN {j.new[c]} ELSE {}]
      /\ UNCHANGED <<flash, image, tries, broken, stale>>
  BY BeginsTyped
<1>2. /\ job'[t] = j
      /\ \A u \in Tasks : u # t => pc'[u] = pc[u] /\ left'[u] = left[u] /\ job'[u] = job[u]
  BY <1>1 DEF Typed, TypedTasks
<1>3. \A c \in Cells : may[c] \subseteq may'[c] /\ (c \in j.want => j.new[c] \in may'[c])
  BY <1>1
<1>4. lost' = lost
  BY <1>1 DEF lost
<1>5. \A u \in Tasks : \A s : Rewrites(u, s)' <=> Rewrites(u, s)
  BY <1>1, <1>2 DEF Rewrites, Resting
<1>6. Alone'
  BY <1>4, <1>5 DEF Data, Alone
<1>7. FreshImage'
  BY <1>1, <1>2, <1>4 DEF Data, FreshImage
<1>8. Writing'
  BY <1>1, <1>2, <1>3, <1>4 DEF Data, Writing, CellsOf
<1>9. Wanted'
  <2> SUFFICES ASSUME NEW u \in Tasks, NEW c \in job'[u].want PROVE job'[u].new[c] \in may'[c]
    BY DEF Wanted
  <2>1. c \in Cells
    <3>1. IsJob(job'[u])
      BY <1>1, <1>2 DEF Typed, TypedTasks
    <3> QED
      BY <3>1, JobShape
  <2> QED
    BY <1>2, <1>3, <2>1 DEF Data, Wanted
<1>10. OthersPreserved'
  <2> SUFFICES ASSUME NEW c \in Cells PROVE Kept(c, broken \cup stale)'
    BY DEF OthersPreserved
  <2>1. Kept(c, broken \cup stale)
    BY DEF Data, OthersPreserved
  <2> QED
    BY <1>1, <1>3, <1>5, <2>1 DEF Kept, Rewriting, Rewrites
<1> QED
  BY <1>1, <1>3, <1>4, <1>5, <1>6, <1>7, <1>8, <1>9, <1>10

(* A sector is read: the image is what the flash is to become.              *)
LEMMA ReadData ==
  ASSUME Typed, Working, Places, Data, NEW t \in Tasks, ReadSector(t)
  PROVE  Data'
<1>1. /\ pc[t] = "read" /\ pc' = [pc EXCEPT ![t] = "erase"]
      /\ image' = [image EXCEPT ![t] = Merged(t, Head(left[t]))]
      /\ UNCHANGED <<flash, stage, device, job, left, may, broken, stale>>
  BY DEF ReadSector, system, history
<1>2. /\ pc'[t] = "erase" /\ image'[t] = Merged(t, Head(left[t]))
      /\ \A u \in Tasks : u # t => pc'[u] = pc[u] /\ image'[u] = image[u]
  BY <1>1 DEF Typed, TypedTasks
<1>3. \A u \in Tasks : \A s : Rewrites(u, s)' <=> Rewrites(u, s)
  BY <1>1, <1>2 DEF Rewrites
<1>4. lost' = lost
  BY <1>1 DEF lost
<1>5. Alone'
  BY <1>3, <1>4 DEF Data, Alone
<1>6. FreshDevice'
  BY <1>1, <1>3, <1>4 DEF Data, FreshDevice, SameAsFlash, Boots, Booting
<1>7. FreshImage'
  BY <1>1, <1>2, <1>4 DEF Data, FreshImage, Merged
<1>8. Writing'
  BY <1>1, <1>2, <1>4 DEF Data, Writing
<1>9. Wanted' /\ Wiping'
  BY <1>1, <1>4 DEF Data, Wanted, Wiping
<1>10. OthersPreserved'
  BY <1>1, <1>3 DEF Data, OthersPreserved, Kept, Rewriting, Rewrites
<1> QED
  BY <1>5, <1>6, <1>7, <1>8, <1>9, <1>10 DEF Data

(* A step of t changes sector s: whatever another task holds of it is stale. *)
LEMMA ChangedStale ==
  ASSUME Typed, Working, NEW t \in Tasks, NEW s, Changed(t, s), broken \subseteq broken'
  PROVE  /\ lost \subseteq lost'
         /\ \A u \in Tasks : u # t /\ pc[u] \in {"erase", "write", "blank"}
                                   /\ Head(left[u]) = s => s \in lost'
         /\ s = 0 => \A u \in Tasks : u # t /\ device[u] # NoSettings => 0 \in lost'
<1>1. stale \subseteq stale'
  BY DEF Changed
<1>2. ASSUME NEW u \in Tasks, u # t, Holds(u, s) PROVE s \in stale'
  BY <1>2 DEF Changed
<1> QED
  BY <1>1, <1>2 DEF lost, Holds

(* A sector is erased.                                                      *)
LEMMA EraseData ==
  ASSUME Typed, Working, Places, Data, NEW t \in Tasks, EraseSector(t) \/ ClearSector(t)
  PROVE  Data'
<1>0. PICK s : s = Head(left[t])
  OBVIOUS
<1>1. /\ pc[t] \in {"erase", "clear"}
      /\ pc' = [pc EXCEPT ![t] = IF pc[t] = "erase" THEN "write" ELSE "blank"]
      /\ flash' = [c \in Cells |-> IF Sector(c) = s THEN Erased ELSE flash[c]]
      /\ Changed(t, s)
      /\ UNCHANGED <<stage, device, job, left, image, may, broken>>
  BY <1>0 DEF EraseSector, ClearSector, system
<1>2. /\ pc'[t] = IF pc[t] = "erase" THEN "write" ELSE "blank"
      /\ \A u \in Tasks : u # t => pc'[u] = pc[u]
  BY <1>1 DEF Typed, TypedTasks
<1>3. s \in 0..Sectors - 1 /\ IsJob(job[t])
  BY <1>0, <1>1, Ahead DEF Resting
<1>4. /\ lost \subseteq lost'
      /\ \A u \in Tasks : u # t /\ pc[u] \in {"erase", "write", "blank"}
                                /\ Head(left[u]) = s => s \in lost'
      /\ s = 0 => \A u \in Tasks : u # t /\ device[u] # NoSettings => 0 \in lost'
  BY <1>1, ChangedStale
<1>5. /\ \A c \in Cells : Sector(c) # s => flash'[c] = flash[c]
      /\ \A c \in Cells : Sector(c) = s => flash'[c] = Erased
  BY <1>1 DEF Typed
<1>6. /\ \A u \in Tasks : \A x : u # t => (Rewrites(u, x)' <=> Rewrites(u, x))
      /\ \A x : Rewrites(t, x)' <=> x = s
      /\ \A x : ~Rewrites(t, x)
  BY <1>0, <1>1, <1>2 DEF Rewrites
<1>7. s \notin lost' => \A u \in Tasks : ~Rewrites(u, s)
  BY <1>4, <1>6 DEF Rewrites
<1>8. Alone'
  BY <1>4, <1>6, <1>7 DEF Data, Alone
<1>9. FreshDevice'
  <2> SUFFICES ASSUME NEW u \in Tasks, device[u] # NoSettings, ~(u = Main /\ stage = "reload"),
                      ~Rewrites(u, 0)', 0 \notin lost'
               PROVE  SameAsFlash(u)'
    BY <1>1 DEF FreshDevice
  <2>1. s # 0
    BY <1>4, <1>6
  <2>2. SameAsFlash(u)
    BY <1>4, <1>6, <2>1 DEF Data, FreshDevice
  <2> QED
    BY <1>1, <1>5, <2>1, <2>2, SectorOf DEF SameAsFlash, Boots, Booting
<1>10. FreshImage'
  <2> SUFFICES ASSUME NEW u \in Tasks, pc'[u] = "erase", Head(left[u]) \notin lost',
                      NEW c \in CellsOf(Head(left[u]))
               PROVE  image[u][c] = IF c \in DOMAIN job[u].new THEN job[u].new[c] ELSE flash'[c]
    BY <1>1 DEF FreshImage
  <2>1. u # t /\ pc[u] = "erase"
    BY <1>1, <1>2
  <2>2. Head(left[u]) # s /\ Head(left[u]) \notin lost
    BY <1>4, <2>1
  <2>3. flash'[c] = flash[c]
    BY <1>5, <2>2 DEF CellsOf
  <2> QED
    BY <2>1, <2>2, <2>3 DEF Data, FreshImage
<1>11. Writing'
  <2> SUFFICES ASSUME NEW u \in Tasks, pc'[u] = "write", Head(left[u]) \notin lost',
                      NEW c \in CellsOf(Head(left[u]))
               PROVE  /\ flash'[c] = Erased
                      /\ c \in DOMAIN job[u].new => image[u][c] = job[u].new[c]
                      /\ image[u][c] \in may[c]
    BY <1>1 DEF Writing
  <2>1. CASE u # t
    <3>1. pc[u] = "write" /\ Head(left[u]) # s /\ Head(left[u]) \notin lost
      BY <1>2, <1>4, <2>1
    <3>2. flash'[c] = flash[c]
      BY <1>5, <3>1 DEF CellsOf
    <3> QED
      BY <3>1, <3>2 DEF Data, Writing
  <2>2. CASE u = t
    <3>1. pc[t] = "erase" /\ c \in Cells /\ Sector(c) = s /\ s \notin lost' /\ s \notin lost
      BY <1>0, <1>1, <1>2, <1>4, <2>2 DEF CellsOf
    <3>2. flash'[c] = Erased
      BY <1>5, <3>1
    <3>3. image[t][c] = IF c \in DOMAIN job[t].new THEN job[t].new[c] ELSE flash[c]
      BY <1>0, <2>2, <3>1 DEF Data, FreshImage
    <3>4. \A d \in Cells : Sector(d) = s => flash[d] \in may[d]
      BY <1>7, <3>1, KeptHere DEF Data
    <3>5. CASE c \in DOMAIN job[t].new
      <4>1. CASE c \in job[t].want
        BY <2>2, <3>2, <3>3, <3>5, <4>1 DEF Data, Wanted
      <4>2. CASE c \notin job[t].want
        <5>1. job[t].kind = "settings" /\ c \in {Volume, Ssid}
          BY <1>3, <3>5, <4>2, JobShape
        <5>2. s = 0
          BY <3>1, <5>1, SectorOf
        <5>3. /\ device[t] # NoSettings /\ ~(t = Main /\ stage = "reload")
              /\ c = Volume => job[t].new[c] = device[t].vol
              /\ c = Ssid => job[t].new[c] = device[t].ssid
          BY <4>2, <5>1 DEF Places, Copying, Carrying
        <5>4. SameAsFlash(t)
          BY <1>6, <3>1, <5>2, <5>3 DEF Data, FreshDevice
        <5>5. job[t].new[c] \in may[c]
          BY <3>1, <3>4, <5>1, <5>3, <5>4 DEF SameAsFlash
        <5> QED
          BY <2>2, <3>2, <3>3, <3>5, <5>5
      <4> QED
        BY <4>1, <4>2
    <3>6. CASE c \notin DOMAIN job[t].new
      BY <2>2, <3>1, <3>2, <3>3, <3>4, <3>6
    <3> QED
      BY <3>5, <3>6
  <2> QED
    BY <2>1, <2>2
<1>12. Wanted'
  BY <1>1 DEF Data, Wanted
<1>13. Wiping'
  <2> SUFFICES ASSUME stage = "wipe", 0 \notin lost'
               PROVE  flash'[Ssid] = Erased /\ Erased \in may[Ssid]
    BY <1>1 DEF Wiping
  <2>1. flash[Ssid] = Erased /\ Erased \in may[Ssid]
    BY <1>4 DEF Data, Wiping
  <2> QED
    BY <1>5, <2>1, SectorOf
<1>14. OthersPreserved'
  <2> SUFFICES ASSUME NEW c \in Cells, Sector(c) \notin lost', \A u \in Tasks : ~Rewrites(u, Sector(c))'
               PROVE  flash'[c] \in may[c]
    BY <1>1 DEF OthersPreserved, Kept, Rewriting, Rewrites, lost
  <2>1. Sector(c) # s /\ Sector(c) \notin lost /\ \A u \in Tasks : ~Rewrites(u, Sector(c))
    BY <1>4, <1>6
  <2> QED
    BY <1>5, <2>1, KeptHere DEF Data
<1> QED
  BY <1>8, <1>9, <1>10, <1>11, <1>12, <1>13, <1>14 DEF Data

(* What leaving a sector keeps, whatever happened to it.                    *)
LEMMA LeavesKeeps ==
  ASSUME Typed, Working, Places, NEW t \in Tasks, ~Resting(t), Leaves(t),
         image' = [image EXCEPT ![t] = NoImage]
  PROVE  /\ \A u \in Tasks : u # t => /\ pc'[u] = pc[u] /\ left'[u] = left[u]
                                      /\ job'[u] = job[u] /\ device'[u] = device[u]
                                      /\ image'[u] = image[u]
         /\ pc'[t] \in {"idle", "read", "clear"}
         /\ \A x : ~Rewrites(t, x)'
         /\ \A u \in Tasks : \A x : u # t => (Rewrites(u, x)' <=> Rewrites(u, x))
         /\ \A u \in Tasks : \A c \in job'[u].want :
              c \in job[u].want /\ job'[u].new[c] = job[u].new[c]
         /\ device'[t] # NoSettings => /\ device'[t] = device[t]
                                       /\ job[t].kind = "settings" => Boots(t)
                                       /\ job[t].kind # "settings" => t = Main /\ stage = "reload"
<1>1. PICK p \in {"idle", "read", "clear"}, l \in Seq(0..Sectors - 1), k \in 0..Tries :
        LeavesWith(t, p, l, k)
  BY DEF Leaves
<1>2. /\ pc' = [pc EXCEPT ![t] = p] /\ left' = [left EXCEPT ![t] = l]
      /\ job' = [job EXCEPT ![t] = IF p = "idle" THEN NoJob ELSE job[t]]
      /\ device' = [device EXCEPT ![t] =
                      IF p = "idle" /\ ~Boots(t) THEN NoSettings ELSE device[t]]
      /\ job[t].kind = "settings" => p = "idle"
  BY <1>1 DEF LeavesWith
<1>3. \A u \in Tasks : u # t => /\ pc'[u] = pc[u] /\ left'[u] = left[u]
                                /\ job'[u] = job[u] /\ device'[u] = device[u]
                                /\ image'[u] = image[u]
  BY <1>2 DEF Typed, TypedTasks
<1>4. /\ pc'[t] = p /\ job'[t] = IF p = "idle" THEN NoJob ELSE job[t]
      /\ device'[t] = IF p = "idle" /\ ~Boots(t) THEN NoSettings ELSE device[t]
  BY <1>2 DEF Typed, TypedTasks
<1>5. /\ \A x : ~Rewrites(t, x)'
      /\ \A u \in Tasks : \A x : u # t => (Rewrites(u, x)' <=> Rewrites(u, x))
  BY <1>3, <1>4 DEF Rewrites
<1>6. \A u \in Tasks : \A c \in job'[u].want :
        c \in job[u].want /\ job'[u].new[c] = job[u].new[c]
  <2>1. NoJob.want = {}
    BY DEF NoJob, Job
  <2> QED
    BY <1>3, <1>4, <2>1
<1>7. device'[t] # NoSettings => /\ device'[t] = device[t]
                                 /\ job[t].kind = "settings" => Boots(t)
                                 /\ job[t].kind # "settings" => t = Main /\ stage = "reload"
  BY <1>2, <1>4 DEF Places, Copying, Boots, Resting
<1> QED
  BY <1>3, <1>4, <1>5, <1>6, <1>7

(* The settings that a task saves from "read" are its copy or its own, and  *)
(* a save that rewrites the settings' sector with other things wants none.  *)
LEMMA ReadWants ==
  ASSUME Typed, Working, Places, NEW t \in Tasks, pc[t] \in {"read", "erase", "write"}
  PROVE  /\ Volume \in job[t].want \/ Ssid \in job[t].want => job[t].kind = "settings"
         /\ Ssid \in job[t].want => job[t].new[Ssid] # Erased
         /\ Ssid \in job[t].want /\ ~Boots(t) => job[t].new[Ssid] # Cleared
         /\ \A c \in job[t].want : job[t].new[c] = Erased =>
              /\ c = Volume /\ job[t].kind = "settings"
              /\ device[t] # NoSettings /\ ~Boots(t)
              /\ device[t].vol # job[t].new[c]
<1>1. IsJob(job[t]) /\ job[t].sets # << >>
  BY DEF Typed, TypedTasks, Working
<1>2. /\ job[t].kind # "settings" => /\ Volume \notin job[t].want /\ Ssid \notin job[t].want
                                     /\ \A c \in job[t].want : job[t].new[c] # Erased
      /\ job[t].kind = "settings" => job[t].want \subseteq {Volume, Ssid}
  BY <1>1, JobShape
<1> QED
  BY <1>2 DEF Places, Copying, Carrying

(* The sector that t leaves has, where t wanted something, what it wanted.  *)
LEMMA SavedMay ==
  ASSUME Typed, NEW t \in Tasks, NEW s, Saved(t, s)
  PROVE  /\ \A c \in Cells : Sector(c) # s \/ c \notin job[t].want => may'[c] = may[c]
         /\ \A c \in Cells : Sector(c) = s /\ c \in job[t].want =>
              \A u \in Tasks : c \in job[u].want => job[u].new[c] \in may'[c]
BY DEF Saved

(* What other saves are about to write may still be there.                  *)
LEMMA WantedStep ==
  ASSUME Typed, Working, Places, Wanted, NEW t \in Tasks, ~Resting(t), Leaves(t),
         image' = [image EXCEPT ![t] = NoImage], NEW s, Saved(t, s) \/ may' = may
  PROVE  Wanted'
<1> SUFFICES ASSUME NEW u \in Tasks, NEW c \in job'[u].want PROVE job'[u].new[c] \in may'[c]
  BY DEF Wanted
<1>1. c \in job[u].want /\ job'[u].new[c] = job[u].new[c]
  <2>1. \A v \in Tasks : \A d \in job'[v].want :
          d \in job[v].want /\ job'[v].new[d] = job[v].new[d]
    BY LeavesKeeps, Zenon
  <2> QED
    BY <2>1, Zenon
<1>2. c \in Cells
  <2>1. IsJob(job[u])
    BY DEF Typed, TypedTasks
  <2> QED
    BY <1>1, <2>1, JobShape
<1>3. job[u].new[c] \in may[c]
  BY <1>1 DEF Wanted
<1> QED
  BY <1>1, <1>2, <1>3, SavedMay

(* A sector has what it should have already, and is not written.            *)
LEMMA SkipData ==
  ASSUME Typed, Working, Places, Data, NEW t \in Tasks, SkipSector(t)
  PROVE  Data'
<1>0. PICK s : s = Head(left[t])
  OBVIOUS
<1>1. /\ pc[t] = "read" /\ ~Differs(t, s) /\ Saved(t, s) /\ ~Resting(t) /\ Leaves(t)
      /\ image' = [image EXCEPT ![t] = NoImage]
      /\ UNCHANGED <<flash, stage, broken, stale>>
  BY <1>0, SkipLeaves DEF SkipSector, system, Places
<1>2. IsJob(job[t])
  BY <1>1, Ahead
<1>3. lost' = lost /\ \A u \in Tasks : Boots(u)' <=> Boots(u)
  BY <1>1 DEF lost, Boots, Booting
<1>4. \A u \in Tasks : \A x : Rewrites(u, x)' <=> Rewrites(u, x)
  BY <1>1, LeavesKeeps DEF Rewrites
<1>5. \A c \in Cells : Sector(c) = s /\ c \in job[t].want => flash[c] = job[t].new[c]
  <2>1. Merged(t, s) = [c \in CellsOf(s) |-> flash[c]]
    BY <1>1 DEF Differs
  <2>2. job[t].want \subseteq DOMAIN job[t].new
    BY <1>2, JobShape
  <2> QED
    BY <2>1, <2>2 DEF Merged, CellsOf
<1>6. Alone'
  BY <1>3, <1>4 DEF Data, Alone
<1>7. FreshDevice'
  <2> SUFFICES ASSUME NEW u \in Tasks, device'[u] # NoSettings, ~(u = Main /\ stage = "reload"),
                      ~Rewrites(u, 0), 0 \notin lost
               PROVE  SameAsFlash(u)'
    BY <1>1, <1>3, <1>4 DEF FreshDevice
  <2>1. device'[u] = device[u] /\ (u = t => job[t].kind = "settings" /\ Boots(t))
    BY <1>1, LeavesKeeps
  <2>2. SameAsFlash(u)
    BY <2>1 DEF Data, FreshDevice
  <2>3. CASE may'[Ssid] = may[Ssid]
    BY <1>1, <1>3, <2>1, <2>2, <2>3 DEF SameAsFlash
  <2>4. CASE may'[Ssid] # may[Ssid]
    <3>1. Ssid \in job[t].want /\ flash[Ssid] = job[t].new[Ssid]
      BY <1>1, <1>5, <2>4, SavedMay, SectorOf
    <3>2. CASE u = t
      <4>1. flash[Ssid] = device[t].ssid
        BY <2>1, <3>1, <3>2 DEF Places, Carrying
      <4> QED
        BY <1>1, <1>3, <2>1, <2>2, <3>2, <4>1 DEF SameAsFlash
    <3>3. CASE u # t
      <4>1. flash[Ssid] # Erased /\ (~Boots(t) => flash[Ssid] # Cleared)
        BY <1>1, <3>1, ReadWants
      <4>2. Boots(u) => ~Boots(t)
        BY <3>3 DEF Boots
      <4>3. device[u].ssid = flash[Ssid]
        BY <2>2, <4>1, <4>2 DEF SameAsFlash
      <4> QED
        BY <1>1, <2>1, <2>2, <4>3 DEF SameAsFlash
    <3> QED
      BY <3>2, <3>3
  <2> QED
    BY <2>3, <2>4
<1>8. FreshImage'
  <2> SUFFICES ASSUME NEW u \in Tasks, pc'[u] = "erase", Head(left'[u]) \notin lost,
                      NEW c \in CellsOf(Head(left'[u]))
               PROVE  image'[u][c] = IF c \in DOMAIN job'[u].new THEN job'[u].new[c] ELSE flash[c]
    BY <1>1, <1>3 DEF FreshImage
  <2>1. u # t /\ pc[u] = "erase" /\ left'[u] = left[u] /\ job'[u] = job[u] /\ image'[u] = image[u]
    BY <1>1, LeavesKeeps
  <2> QED
    BY <2>1 DEF Data, FreshImage
<1>9. Writing'
  <2> SUFFICES ASSUME NEW u \in Tasks, pc'[u] = "write", Head(left'[u]) \notin lost,
                      NEW c \in CellsOf(Head(left'[u]))
               PROVE  /\ flash[c] = Erased
                      /\ c \in DOMAIN job'[u].new => image'[u][c] = job'[u].new[c]
                      /\ image'[u][c] \in may'[c]
    BY <1>1, <1>3 DEF Writing
  <2>1. u # t /\ pc[u] = "write" /\ left'[u] = left[u] /\ job'[u] = job[u] /\ image'[u] = image[u]
    BY <1>1, LeavesKeeps
  <2>2. /\ flash[c] = Erased /\ image[u][c] \in may[c]
        /\ c \in DOMAIN job[u].new => image[u][c] = job[u].new[c]
    BY <2>1 DEF Data, Writing
  <2>3. c \in Cells /\ Sector(c) \notin lost
    BY <2>1 DEF CellsOf
  <2>4. ~(Sector(c) = s /\ c \in job[t].want)
    <3> SUFFICES ASSUME Sector(c) = s, c \in job[t].want PROVE FALSE
      OBVIOUS
    <3>1. job[t].new[c] = Erased
      BY <1>5, <2>2, <2>3
    <3>2. /\ c = Volume /\ device[t] # NoSettings /\ ~Boots(t)
          /\ device[t].vol # job[t].new[c]
      BY <1>1, <3>1, ReadWants
    <3>3. ~Rewrites(t, 0) /\ ~(t = Main /\ stage = "reload") /\ 0 \notin lost
      BY <1>1, <2>3, <3>2, SectorOf DEF Rewrites, Boots, Booting
    <3>4. device[t].vol = flash[Volume]
      BY <3>2, <3>3 DEF Data, FreshDevice, SameAsFlash
    <3> QED
      BY <2>2, <3>1, <3>2, <3>4
  <2> QED
    BY <1>1, <2>1, <2>2, <2>3, <2>4, SavedMay
<1>10. Wanted'
  BY <1>1, WantedStep DEF Data
<1>11. Wiping'
  <2> SUFFICES ASSUME stage = "wipe", 0 \notin lost
               PROVE  flash[Ssid] = Erased /\ Erased \in may'[Ssid]
    BY <1>1, <1>3 DEF Wiping
  <2>1. flash[Ssid] = Erased /\ Erased \in may[Ssid]
    BY DEF Data, Wiping
  <2>2. ~(Sector(Ssid) = s /\ Ssid \in job[t].want)
    BY <1>1, <1>5, <2>1, ReadWants, SectorOf
  <2> QED
    BY <1>1, <2>1, <2>2, SavedMay, SectorOf
<1>12. OthersPreserved'
  <2> SUFFICES ASSUME NEW c \in Cells, Sector(c) \notin lost, \A u \in Tasks : ~Rewrites(u, Sector(c))
               PROVE  flash[c] \in may'[c]
    BY <1>1, <1>3, <1>4 DEF OthersPreserved, Kept, Rewriting, Rewrites, lost
  <2>1. flash[c] \in may[c]
    BY KeptHere DEF Data
  <2> QED
    BY <1>1, <1>5, <2>1, SavedMay
<1> QED
  BY <1>6, <1>7, <1>8, <1>9, <1>10, <1>11, <1>12 DEF Data

(* A sector is written, or blanked: t had it for itself, or it is lost.     *)
LEMMA WriteData ==
  ASSUME Typed, Working, Places, Data, NEW t \in Tasks, WriteSector(t) \/ BlankSector(t)
  PROVE  Data'
<1>0. PICK s : s = Head(left[t])
  OBVIOUS
<1>1. /\ pc[t] \in {"write", "blank"} /\ Saved(t, s) /\ Changed(t, s)
      /\ ~Resting(t) /\ Leaves(t)
      /\ image' = [image EXCEPT ![t] = NoImage]
      /\ UNCHANGED <<stage, broken>>
      /\ flash' = [c \in Cells |-> IF Sector(c) # s THEN flash[c]
                                   ELSE IF pc[t] = "write" THEN Both(flash[c], image[t][c])
                                   ELSE Cleared]
  <2>1. CASE WriteSector(t)
    BY <1>0, <2>1, WriteLeaves DEF WriteSector, system, Places
  <2>2. CASE BlankSector(t)
    BY <1>0, <2>2, BlankLeaves DEF BlankSector, system, Places
  <2> QED
    BY <2>1, <2>2
<1>2. IsJob(job[t]) /\ Rewrites(t, s) /\ \A x : Rewrites(t, x) => x = s
  BY <1>0, <1>1, Ahead DEF Rewrites
<1>3. /\ lost \subseteq lost'
      /\ \A u \in Tasks : u # t /\ pc[u] \in {"erase", "write", "blank"}
                                /\ Head(left[u]) = s => s \in lost'
      /\ s = 0 => \A u \in Tasks : u # t /\ device[u] # NoSettings => 0 \in lost'
  BY <1>1, ChangedStale
<1>4. \A u \in Tasks : Boots(u)' <=> Boots(u)
  BY <1>1 DEF Boots, Booting
<1>5. \A c \in Cells : Sector(c) # s => flash'[c] = flash[c] /\ may'[c] = may[c]
  BY <1>1, SavedMay
<1>6. ASSUME NEW c \in Cells, Sector(c) = s, s \notin lost'
      PROVE  /\ flash'[c] \in may'[c]
             /\ pc[t] = "write" => (c \in DOMAIN job[t].new => flash'[c] = job[t].new[c])
  <2>1. s \notin lost /\ c \in CellsOf(Head(left[t]))
    BY <1>0, <1>3, <1>6 DEF CellsOf
  <2>2. CASE pc[t] = "write"
    <3>1. /\ flash[c] = Erased /\ image[t][c] \in may[c]
          /\ c \in DOMAIN job[t].new => image[t][c] = job[t].new[c]
      BY <1>0, <2>1, <2>2 DEF Data, Writing
    <3>2. image[t][c] \in Values
      BY <2>1, <2>2 DEF Working
    <3>3. flash'[c] = image[t][c]
      BY <1>1, <1>6, <2>2, <3>1, <3>2, Constants
    <3>4. CASE c \in job[t].want
      <4>1. c \in DOMAIN job[t].new
        BY <1>2, <3>4, JobShape
      <4> QED
        BY <1>1, <1>6, <3>1, <3>3, <3>4, <4>1, SavedMay
    <3>5. CASE c \notin job[t].want
      BY <1>1, <3>1, <3>3, <3>5, SavedMay
    <3> QED
      BY <3>1, <3>3, <3>4, <3>5
  <2>3. CASE pc[t] = "blank"
    <3>1. left[t] \in Seq(0..Sectors - 1) /\ left[t] # << >>
      BY <1>1, Ahead
    <3>2. Head(left[t]) = left[t][1] /\ 1 \in 1..Len(left[t])
      BY <3>1, NotEmpty
    <3>3. c \in job[t].want /\ job[t].clears # << >>
      BY <2>1, <2>3, <3>2 DEF Working
    <3>4. job[t].new[c] = Cleared
      BY <1>2, <3>3, JobShape
    <3>5. flash'[c] = Cleared
      BY <1>1, <1>6, <2>3
    <3> QED
      BY <1>1, <1>6, <2>3, <3>3, <3>4, <3>5, SavedMay
  <2> QED
    BY <1>1, <2>2, <2>3
<1>7. Alone'
  BY <1>1, <1>3, LeavesKeeps DEF Data, Alone
<1>8. FreshDevice'
  <2> SUFFICES ASSUME NEW u \in Tasks, device'[u] # NoSettings, ~(u = Main /\ stage = "reload"),
                      ~Rewrites(u, 0)', 0 \notin lost'
               PROVE  SameAsFlash(u)'
    BY <1>1 DEF FreshDevice
  <2>1. device'[u] = device[u]
    BY <1>1, LeavesKeeps
  <2>2. CASE s # 0
    <3>1. ~Rewrites(u, 0) /\ 0 \notin lost
      BY <1>1, <1>2, <1>3, <2>2, LeavesKeeps
    <3>2. SameAsFlash(u)
      BY <2>1, <3>1 DEF Data, FreshDevice
    <3> QED
      BY <1>4, <1>5, <2>1, <2>2, <3>2, SectorOf DEF SameAsFlash
  <2>3. CASE s = 0
    <3>1. u = t
      BY <1>3, <2>1, <2>3
    <3>2. job[t].kind = "settings" /\ Boots(t)
      BY <1>1, <3>1, LeavesKeeps
    <3>3. pc[t] = "write" /\ DOMAIN job[t].new = {Volume, Ssid}
      BY <1>1, <1>2, <3>2, JobShape DEF Working
    <3>4. flash'[Volume] = job[t].new[Volume] /\ flash'[Ssid] = job[t].new[Ssid]
      BY <1>6, <2>3, <3>3, SectorOf
    <3>5. job[t].new[Volume] = device[t].vol /\ job[t].new[Ssid] = device[t].ssid
      BY <3>2 DEF Places, Carrying
    <3> QED
      BY <2>1, <3>1, <3>4, <3>5 DEF SameAsFlash
  <2> QED
    BY <2>2, <2>3
<1>9. FreshImage'
  <2> SUFFICES ASSUME NEW u \in Tasks, pc'[u] = "erase", Head(left'[u]) \notin lost',
                      NEW c \in CellsOf(Head(left'[u]))
               PROVE  image'[u][c] = IF c \in DOMAIN job'[u].new THEN job'[u].new[c] ELSE flash'[c]
    BY DEF FreshImage
  <2>1. u # t /\ pc[u] = "erase" /\ left'[u] = left[u] /\ job'[u] = job[u] /\ image'[u] = image[u]
    BY <1>1, LeavesKeeps
  <2>2. Head(left[u]) # s /\ Head(left[u]) \notin lost
    BY <1>3, <2>1
  <2>3. flash'[c] = flash[c]
    BY <1>5, <2>1, <2>2 DEF CellsOf
  <2> QED
    BY <2>1, <2>2, <2>3 DEF Data, FreshImage
<1>10. Writing'
  <2> SUFFICES ASSUME NEW u \in Tasks, pc'[u] = "write", Head(left'[u]) \notin lost',
                      NEW c \in CellsOf(Head(left'[u]))
               PROVE  /\ flash'[c] = Erased
                      /\ c \in DOMAIN job'[u].new => image'[u][c] = job'[u].new[c]
                      /\ image'[u][c] \in may'[c]
    BY DEF Writing
  <2>1. u # t /\ pc[u] = "write" /\ left'[u] = left[u] /\ job'[u] = job[u] /\ image'[u] = image[u]
    BY <1>1, LeavesKeeps
  <2>2. Head(left[u]) # s /\ Head(left[u]) \notin lost
    BY <1>3, <2>1
  <2>3. flash'[c] = flash[c] /\ may'[c] = may[c]
    BY <1>5, <2>1, <2>2 DEF CellsOf
  <2> QED
    BY <2>1, <2>2, <2>3 DEF Data, Writing
<1>11. Wanted'
  BY <1>1, WantedStep DEF Data
<1>12. Wiping'
  <2> SUFFICES ASSUME stage = "wipe", 0 \notin lost'
               PROVE  flash'[Ssid] = Erased /\ Erased \in may'[Ssid]
    BY <1>1 DEF Wiping
  <2>1. flash[Ssid] = Erased /\ Erased \in may[Ssid]
    BY <1>3 DEF Data, Wiping
  <2>2. t # Main /\ device[Main] # NoSettings /\ Main \in Tasks
    BY <1>1, Constants DEF Places, Copying, Boots, Booting
  <2>3. s # 0
    BY <1>3, <2>2
  <2> QED
    BY <1>5, <2>1, <2>3, SectorOf
<1>13. OthersPreserved'
  <2> SUFFICES ASSUME NEW c \in Cells, Sector(c) \notin lost', \A u \in Tasks : ~Rewrites(u, Sector(c))'
               PROVE  flash'[c] \in may'[c]
    BY DEF OthersPreserved, Kept, Rewriting, Rewrites, lost
  <2>1. CASE Sector(c) = s
    BY <1>6, <2>1
  <2>2. CASE Sector(c) # s
    <3>1. Sector(c) \notin lost /\ \A u \in Tasks : ~Rewrites(u, Sector(c))
      BY <1>1, <1>2, <1>3, <2>2, LeavesKeeps
    <3> QED
      BY <1>5, <2>2, <3>1, KeptHere DEF Data
  <2> QED
    BY <2>1, <2>2
<1> QED
  BY <1>7, <1>8, <1>9, <1>10, <1>11, <1>12, <1>13 DEF Data

(* A step of a save fails: only a sector that is erased by now is lost.     *)
LEMMA FailData ==
  ASSUME Typed, Working, Places, Data, NEW t \in Tasks, ReadFails(t) \/ FlashFails(t)
  PROVE  Data'
<1>0. PICK s : s = Head(left[t])
  OBVIOUS
<1>1. /\ ~Resting(t) /\ Leaves(t) /\ image' = [image EXCEPT ![t] = NoImage]
      /\ UNCHANGED <<flash, stage, may, stale>>
      /\ pc[t] \in {"read", "erase", "write"}
      /\ broken' = IF pc[t] = "write" THEN broken \cup {s} ELSE broken
  BY <1>0, FailLeaves DEF ReadFails, FlashFails, Fail, system, Places
<1>2. /\ lost \subseteq lost' /\ \A x : Rewrites(t, x) => x \in lost'
      /\ \A u \in Tasks : Boots(u)' <=> Boots(u)
  BY <1>0, <1>1 DEF lost, Rewrites, Boots, Booting
<1>3. Alone'
  BY <1>1, <1>2, LeavesKeeps DEF Data, Alone
<1>4. FreshDevice'
  <2> SUFFICES ASSUME NEW u \in Tasks, device'[u] # NoSettings, ~(u = Main /\ stage = "reload"),
                      ~Rewrites(u, 0)', 0 \notin lost'
               PROVE  SameAsFlash(u)'
    BY <1>1 DEF FreshDevice
  <2>1. device'[u] = device[u] /\ ~Rewrites(u, 0) /\ 0 \notin lost
    BY <1>1, <1>2, LeavesKeeps
  <2>2. SameAsFlash(u)
    BY <2>1 DEF Data, FreshDevice
  <2> QED
    BY <1>1, <1>2, <2>1, <2>2 DEF SameAsFlash
<1>5. FreshImage'
  <2> SUFFICES ASSUME NEW u \in Tasks, pc'[u] = "erase", Head(left'[u]) \notin lost',
                      NEW c \in CellsOf(Head(left'[u]))
               PROVE  image'[u][c] = IF c \in DOMAIN job'[u].new THEN job'[u].new[c] ELSE flash[c]
    BY <1>1 DEF FreshImage
  <2>1. u # t /\ pc[u] = "erase" /\ left'[u] = left[u] /\ job'[u] = job[u] /\ image'[u] = image[u]
    BY <1>1, LeavesKeeps
  <2> QED
    BY <1>2, <2>1 DEF Data, FreshImage
<1>6. Writing'
  <2> SUFFICES ASSUME NEW u \in Tasks, pc'[u] = "write", Head(left'[u]) \notin lost',
                      NEW c \in CellsOf(Head(left'[u]))
               PROVE  /\ flash[c] = Erased
                      /\ c \in DOMAIN job'[u].new => image'[u][c] = job'[u].new[c]
                      /\ image'[u][c] \in may[c]
    BY <1>1 DEF Writing
  <2>1. u # t /\ pc[u] = "write" /\ left'[u] = left[u] /\ job'[u] = job[u] /\ image'[u] = image[u]
    BY <1>1, LeavesKeeps
  <2> QED
    BY <1>2, <2>1 DEF Data, Writing
<1>7. Wanted'
  BY <1>1, WantedStep DEF Data
<1>8. Wiping'
  BY <1>1, <1>2 DEF Data, Wiping
<1>9. OthersPreserved'
  <2> SUFFICES ASSUME NEW c \in Cells, Sector(c) \notin lost', \A u \in Tasks : ~Rewrites(u, Sector(c))'
               PROVE  flash[c] \in may[c]
    BY <1>1 DEF OthersPreserved, Kept, Rewriting, Rewrites, lost
  <2>1. Sector(c) \notin lost /\ \A u \in Tasks : ~Rewrites(u, Sector(c))
    BY <1>1, <1>2, LeavesKeeps
  <2> QED
    BY <2>1, KeptHere DEF Data
<1> QED
  BY <1>3, <1>4, <1>5, <1>6, <1>7, <1>8, <1>9 DEF Data

(* The power fails: so are the sectors that are erased then.                *)
LEMMA PowerData ==
  ASSUME Typed, Working, Places, Data, PowerFails
  PROVE  Data'
<1>1. /\ stage' = "off" /\ UNCHANGED <<flash, may, stale>>
      /\ broken' = broken \cup
           {Head(left[t]) : t \in {t \in Tasks : pc[t] \in {"write", "blank"}}}
      /\ pc' = [t \in Tasks |-> "idle"] /\ device' = [t \in Tasks |-> NoSettings]
      /\ job' = [t \in Tasks |-> NoJob]
  BY DEF PowerFails
<1>2. lost \subseteq lost' /\ \A t \in Tasks : \A s : Rewrites(t, s) => s \in lost'
  BY <1>1 DEF lost, Rewrites
<1>3. \A t \in Tasks : \A s : ~Rewrites(t, s)'
  BY <1>1 DEF Rewrites
<1>4. Alone' /\ FreshDevice' /\ FreshImage' /\ Writing' /\ Wiping'
  BY <1>1, <1>3 DEF Alone, FreshDevice, FreshImage, Writing, Wiping
<1>5. Wanted'
  <2>1. NoJob.want = {}
    BY DEF NoJob, Job
  <2> QED
    BY <1>1, <2>1 DEF Wanted
<1>6. OthersPreserved'
  <2> SUFFICES ASSUME NEW c \in Cells, Sector(c) \notin lost'
               PROVE  flash[c] \in may[c]
    BY <1>1 DEF OthersPreserved, Kept, lost
  <2>1. Sector(c) \notin lost /\ \A u \in Tasks : ~Rewrites(u, Sector(c))
    BY <1>2
  <2> QED
    BY <2>1, KeptHere DEF Data
<1> QED
  BY <1>4, <1>5, <1>6 DEF Data

(* The steps that leave the flash and the saves alone.                      *)
LEMMA QuietData ==
  ASSUME Typed, Data, UNCHANGED <<flash, job, left, image, may, broken, stale>>,
         NEW t \in Tasks, Resting(t), NEW p \in {"idle", "edit"}, pc' = [pc EXCEPT ![t] = p]
  PROVE  /\ (Alone /\ FreshImage /\ Writing /\ Wanted /\ OthersPreserved)' /\ lost' = lost
         /\ \A u \in Tasks : \A s : Rewrites(u, s)' <=> Rewrites(u, s)
<1>1. pc'[t] = p /\ \A u \in Tasks : u # t => pc'[u] = pc[u]
  BY DEF Typed, TypedTasks
<1>2. /\ lost' = lost
      /\ \A u \in Tasks : \A s : Rewrites(u, s)' <=> Rewrites(u, s)
  BY <1>1 DEF lost, Rewrites, Resting
<1>3. Alone'
  BY <1>2 DEF Data, Alone
<1>4. FreshImage' /\ Writing'
  BY <1>1, <1>2 DEF Data, FreshImage, Writing
<1>5. Wanted'
  BY DEF Data, Wanted
<1>6. OthersPreserved'
  BY <1>2 DEF Data, OthersPreserved, Kept, Rewriting, Rewrites
<1> QED
  BY <1>2, <1>3, <1>4, <1>5, <1>6

(* Every step keeps flash and copies together.                              *)
LEMMA DataStep ==
  ASSUME Typed, Working, Places, Data, Next
  PROVE  Data'
<1> USE Constants
<1>0. Copying /\ Carrying
  BY DEF Places
<1>1. ASSUME NEW t \in Tasks, NEW j, Begins(t, j), stage' = stage, device' = device
      PROVE  Data'
  <2>1. /\ (Alone /\ FreshImage /\ Writing /\ Wanted /\ OthersPreserved)'
        /\ flash' = flash /\ lost' = lost
        /\ \A u \in Tasks : \A s : Rewrites(u, s)' <=> Rewrites(u, s)
        /\ may[Ssid] \subseteq may'[Ssid]
    BY <1>1, BeginsData, SectorOf
  <2>2. FreshDevice'
    BY <1>1, <2>1 DEF Data, FreshDevice, SameAsFlash, Boots, Booting
  <2>3. Wiping'
    BY <1>1, <2>1 DEF Data, Wiping
  <2> QED
    BY <2>1, <2>2, <2>3 DEF Data
<1>2. ASSUME NEW t \in Tasks, SaveSettings(t) PROVE Data'
  <2>1. PICK ssid \in New : Begins(t, saveDeviceSettings(device[t].vol, ssid, {Ssid}))
    BY <1>0, <1>2, SaveSettingsBegins
  <2>2. stage' = stage /\ device' = device
    BY <1>2 DEF SaveSettings, system
  <2> QED
    BY <1>1, <2>1, <2>2
<1>3. ASSUME NEW t \in Tasks, SaveStations(t) \/ ClearFlash(t) PROVE Data'
  <2>1. PICK j : Begins(t, j)
    BY <1>0, <1>3, OthersBegin
  <2>2. stage' = stage /\ device' = device
    BY <1>3 DEF SaveStations, ClearFlash, system
  <2> QED
    BY <1>1, <2>1, <2>2
<1>4. CASE WipeAll
  <2>1. /\ (Alone /\ FreshImage /\ Writing /\ Wanted /\ OthersPreserved)'
        /\ flash' = flash /\ lost' = lost
        /\ \A u \in Tasks : \A s : Rewrites(u, s)' <=> Rewrites(u, s)
        /\ may[Ssid] \subseteq may'[Ssid]
    BY <1>0, <1>4, WipeAllBegins, BeginsData, SectorOf
  <2>2. stage = "wipe" /\ stage' = "reload" /\ device' = device
    BY <1>4 DEF WipeAll, MainIn
  <2>3. FreshDevice'
    BY <2>1, <2>2 DEF Data, FreshDevice, SameAsFlash, Boots, Booting
  <2>4. Wiping'
    BY <2>2 DEF Wiping
  <2> QED
    BY <2>1, <2>3, <2>4 DEF Data
<1>5. CASE FirstUse
  <2>1. PICK ssid \in New \cup {Cleared} :
          /\ device' = [device EXCEPT ![Main].ssid = ssid]
          /\ Begins(Main, saveDeviceSettings(device[Main].vol, ssid, {Ssid}))
    BY <1>0, <1>5, FirstUseBegins
  <2>2. /\ stage = "use" /\ stage' = "wifi" /\ pc[Main] = "idle"
        /\ device[Main].ssid \in {Cleared, Erased}
    BY <1>5 DEF FirstUse, MainIn
  <2> DEFINE j == saveDeviceSettings(device[Main].vol, ssid, {Ssid})
  <2>3. device[Main] \in [vol : Values, ssid : Values] /\ device[Main] # NoSettings
    BY <1>0, <2>2, DeviceOfMain, SettingsTyped DEF Booting
  <2>4. j.want = {Ssid} /\ j.new[Ssid] = ssid
    BY DEF saveDeviceSettings, Job, Volume, Ssid
  <2> HIDE DEF j
  <2>5. Begins(Main, j)
    BY <2>1 DEF j
  <2>6. /\ (Alone /\ FreshImage /\ Writing /\ Wanted /\ OthersPreserved)'
        /\ flash' = flash /\ lost' = lost
        /\ \A u \in Tasks : \A s : Rewrites(u, s)' <=> Rewrites(u, s)
        /\ may[Ssid] \subseteq may'[Ssid] /\ ssid \in may'[Ssid]
    BY <2>4, <2>5, BeginsData, SectorOf
  <2>7. /\ device'[Main].vol = device[Main].vol /\ device'[Main].ssid = ssid
        /\ \A u \in Tasks : u # Main => device'[u] = device[u]
    BY <2>1, <2>3 DEF Typed, TypedTasks
  <2>8. \A u \in Tasks : Boots(u)' <=> Boots(u)
    BY <2>2 DEF Boots, Booting
  <2>9. FreshDevice'
    <3> SUFFICES ASSUME NEW u \in Tasks, device'[u] # NoSettings, ~Rewrites(u, 0), 0 \notin lost
                 PROVE  SameAsFlash(u)'
      BY <2>6 DEF FreshDevice
    <3>1. SameAsFlash(u)
      BY <2>2, <2>3, <2>7 DEF Data, FreshDevice
    <3>2. CASE u = Main
      <4>1. flash[Ssid] \in {Cleared, Erased} /\ Boots(u)'
        BY <2>2, <3>1, <3>2 DEF SameAsFlash, Boots, Booting
      <4> QED
        BY <2>6, <2>7, <3>1, <3>2, <4>1 DEF SameAsFlash
    <3>3. CASE u # Main
      BY <2>6, <2>7, <2>8, <3>1, <3>3 DEF SameAsFlash
    <3> QED
      BY <3>2, <3>3
  <2>10. Wiping'
    BY <2>2 DEF Wiping
  <2> QED
    BY <2>6, <2>9, <2>10 DEF Data
<1>6. CASE SaveNetwork
  <2>1. /\ (Alone /\ FreshImage /\ Writing /\ Wanted /\ OthersPreserved)'
        /\ flash' = flash /\ lost' = lost
        /\ \A u \in Tasks : \A s : Rewrites(u, s)' <=> Rewrites(u, s)
        /\ may[Ssid] \subseteq may'[Ssid]
    BY <1>0, <1>6, SaveNetworkBegins, BeginsData, SectorOf
  <2>2. stage \in {"wifi", "ap"} /\ stage' \in {"ap", "start"} /\ device' = device
    BY <1>0, <1>6, SaveNetworkBegins DEF SaveNetwork
  <2>3. FreshDevice'
    BY <2>1, <2>2 DEF Data, FreshDevice, SameAsFlash, Boots, Booting
  <2>4. Wiping'
    BY <2>2 DEF Wiping
  <2> QED
    BY <2>1, <2>3, <2>4 DEF Data
<1>7. CASE SaveVolume
  <2>1. /\ (Alone /\ FreshImage /\ Writing /\ Wanted /\ OthersPreserved)'
        /\ flash' = flash /\ lost' = lost
        /\ \A u \in Tasks : \A s : Rewrites(u, s)' <=> Rewrites(u, s)
        /\ may[Ssid] \subseteq may'[Ssid]
    BY <1>0, <1>7, SaveVolumeBegins, BeginsData, SectorOf
  <2>2. /\ stage' = stage
        /\ device'[Saver] = Settings /\ \A u \in Tasks : u # Saver => device'[u] = device[u]
    BY <1>7 DEF SaveVolume, system, Typed, TypedTasks
  <2>3. FreshDevice'
    <3> SUFFICES ASSUME NEW u \in Tasks, device'[u] # NoSettings, ~Rewrites(u, 0), 0 \notin lost,
                        ~(u = Main /\ stage = "reload")
                 PROVE  SameAsFlash(u)'
      BY <2>1, <2>2 DEF FreshDevice
    <3>1. CASE u = Saver
      BY <2>1, <2>2, <3>1, SettingsTyped DEF SameAsFlash
    <3>2. CASE u # Saver
      BY <2>1, <2>2, <3>2 DEF Data, FreshDevice, SameAsFlash, Boots, Booting
    <3> QED
      BY <3>1, <3>2
  <2>4. Wiping'
    BY <2>1, <2>2 DEF Data, Wiping
  <2> QED
    BY <2>1, <2>3, <2>4 DEF Data
<1>8. ASSUME UNCHANGED <<flash, job, left, image, may, broken, stale, pc>>
      PROVE  /\ (Alone /\ FreshImage /\ Writing /\ Wanted /\ OthersPreserved)' /\ lost' = lost
             /\ \A u \in Tasks : \A s : Rewrites(u, s)' <=> Rewrites(u, s)
  <2>1. CASE \E t \in Tasks : Resting(t)
    <3>1. PICK t \in Tasks : Resting(t)
      BY <2>1
    <3>2. pc[t] \in {"idle", "edit"} /\ pc' = [pc EXCEPT ![t] = pc[t]]
      BY <1>8, <3>1 DEF Resting, Typed, TypedTasks
    <3> QED
      BY <1>8, <3>1, <3>2, QuietData
  <2>2. CASE \A t \in Tasks : ~Resting(t)
    <3>1. lost' = lost /\ \A u \in Tasks : \A s : Rewrites(u, s)' <=> Rewrites(u, s)
      BY <1>8 DEF lost, Rewrites
    <3>2. Alone' /\ FreshImage' /\ Writing' /\ Wanted' /\ OthersPreserved'
      BY <1>8, <3>1 DEF Data, Alone, FreshImage, Writing, Wanted, OthersPreserved, Kept,
                        Rewriting
    <3> QED
      BY <3>1, <3>2
  <2> QED
    BY <2>1, <2>2
<1>9. CASE PowerReturns \/ WipeFails \/ LaterUse \/ SetVolume
  <2>1. /\ UNCHANGED <<flash, job, left, image, may, broken, stale, pc, device>>
        /\ \/ stage = "off" /\ stage' = "load"
           \/ stage = "wipe" /\ stage' = "reload"
           \/ stage = "use" /\ stage' = "wifi"
           \/ stage' = stage
    BY <1>9 DEF PowerReturns, WipeFails, LaterUse, SetVolume, MainIn, tasks, history
  <2>2. /\ (Alone /\ FreshImage /\ Writing /\ Wanted /\ OthersPreserved)' /\ lost' = lost
        /\ \A u \in Tasks : \A s : Rewrites(u, s)' <=> Rewrites(u, s)
    BY <1>8, <2>1
  <2>3. FreshDevice'
    BY <2>1, <2>2 DEF Data, FreshDevice, SameAsFlash, Boots, Booting
  <2>4. Wiping'
    BY <2>1, <2>2 DEF Data, Wiping
  <2> QED
    BY <2>2, <2>3, <2>4 DEF Data
<1>10. CASE LoadSettings
  <2>1. /\ UNCHANGED <<flash, job, left, image, may, broken, stale, pc>>
        /\ stage \in {"load", "reload"} /\ stage' \in {"wipe", "use"}
        /\ stage' = "wipe" => stage = "load" /\ flash[Ssid] = Erased
        /\ device' = [device EXCEPT ![Main] = Settings]
    BY <1>10 DEF LoadSettings, MainIn, history
  <2>2. /\ (Alone /\ FreshImage /\ Writing /\ Wanted /\ OthersPreserved)' /\ lost' = lost
        /\ \A u \in Tasks : \A s : Rewrites(u, s)' <=> Rewrites(u, s)
    BY <1>8, <2>1
  <2>3. /\ device'[Main] = Settings
        /\ \A u \in Tasks : u # Main => device'[u] = device[u] /\ ~Boots(u)
    BY <2>1 DEF Typed, TypedTasks, Boots
  <2>4. FreshDevice'
    <3> SUFFICES ASSUME NEW u \in Tasks, device'[u] # NoSettings, ~Rewrites(u, 0), 0 \notin lost
                 PROVE  SameAsFlash(u)'
      BY <2>2 DEF FreshDevice
    <3>1. CASE u = Main
      BY <2>1, <2>3, <3>1, SettingsTyped DEF SameAsFlash
    <3>2. CASE u # Main
      BY <2>1, <2>3, <3>2 DEF Data, FreshDevice, SameAsFlash
    <3> QED
      BY <3>1, <3>2
  <2>5. Wiping'
    <3> SUFFICES ASSUME stage' = "wipe", 0 \notin lost PROVE flash[Ssid] = Erased /\ Erased \in may[Ssid]
      BY <2>1, <2>2 DEF Wiping
    <3>1. flash[Ssid] = Erased /\ \A u \in Tasks : ~Rewrites(u, 0)
      BY <1>0, <2>1 DEF Copying, Rewrites
    <3> QED
      BY <3>1, KeptHere, SectorOf DEF Data
  <2> QED
    BY <2>2, <2>4, <2>5 DEF Data
<1>11. CASE StartConsole
  <2>1. /\ UNCHANGED <<flash, job, left, image, may, broken, stale, pc>>
        /\ stage = "start" /\ stage' = "ready" /\ device' = [device EXCEPT ![Main] = NoSettings]
    BY <1>11 DEF StartConsole, MainIn, history
  <2>2. /\ (Alone /\ FreshImage /\ Writing /\ Wanted /\ OthersPreserved)' /\ lost' = lost
        /\ \A u \in Tasks : \A s : Rewrites(u, s)' <=> Rewrites(u, s)
    BY <1>8, <2>1
  <2>3. /\ device'[Main] = NoSettings
        /\ \A u \in Tasks : u # Main => device'[u] = device[u] /\ ~Boots(u)
    BY <2>1 DEF Typed, TypedTasks, Boots
  <2>4. FreshDevice'
    BY <2>1, <2>2, <2>3 DEF Data, FreshDevice, SameAsFlash
  <2>5. Wiping'
    BY <2>1 DEF Wiping
  <2> QED
    BY <2>2, <2>4, <2>5 DEF Data
<1>12. ASSUME NEW t \in Tasks, ReadSettings(t) PROVE Data'
  <2>1. /\ pc[t] = "idle" /\ pc' = [pc EXCEPT ![t] = "edit"] /\ stage' = stage
        /\ device' = [device EXCEPT ![t] = Settings]
        /\ UNCHANGED <<flash, job, left, image, may, broken, stale>>
    BY <1>12 DEF ReadSettings, system, history
  <2>2. /\ (Alone /\ FreshImage /\ Writing /\ Wanted /\ OthersPreserved)' /\ lost' = lost
        /\ \A u \in Tasks : \A s : Rewrites(u, s)' <=> Rewrites(u, s)
    BY <2>1, QuietData DEF Resting
  <2>3. device'[t] = Settings /\ \A u \in Tasks : u # t => device'[u] = device[u]
    BY <2>1 DEF Typed, TypedTasks
  <2>4. FreshDevice'
    <3> SUFFICES ASSUME NEW u \in Tasks, device'[u] # NoSettings, ~Rewrites(u, 0), 0 \notin lost,
                        ~(u = Main /\ stage = "reload")
                 PROVE  SameAsFlash(u)'
      BY <2>1, <2>2 DEF FreshDevice
    <3>1. CASE u = t
      BY <2>1, <2>3, <3>1, SettingsTyped DEF SameAsFlash
    <3>2. CASE u # t
      BY <2>1, <2>2, <2>3, <3>2 DEF Data, FreshDevice, SameAsFlash, Boots, Booting
    <3> QED
      BY <3>1, <3>2
  <2>5. Wiping'
    BY <2>1, <2>2 DEF Data, Wiping
  <2> QED
    BY <2>2, <2>4, <2>5 DEF Data
<1> QED
  BY <1>2, <1>3, <1>4, <1>5, <1>6, <1>7, <1>9, <1>10, <1>11, <1>12, ReadData, SkipData,
     EraseData, WriteData, FailData, PowerData DEF Next, Step, Boot

(* What is wanted of the initial states, and of steps that change nothing.  *)
LEMMA Initial ==
  ASSUME Init
  PROVE  Typed /\ Working /\ Places /\ Data
<1> USE Constants, EmptySeq
<1>1. PICK initial \in Old : flash = [c \in Cells |-> initial] /\ clientIvol = initial
  BY DEF Init
<1>2. /\ stage = "load" /\ events = 0 /\ broken = {} /\ stale = {}
      /\ pc = [t \in Tasks |-> "idle"] /\ device = [t \in Tasks |-> NoSettings]
      /\ job = [t \in Tasks |-> NoJob] /\ left = [t \in Tasks |-> << >>]
      /\ image = [t \in Tasks |-> NoImage] /\ tries = [t \in Tasks |-> 0]
      /\ may = [c \in Cells |-> {flash[c]}]
  BY DEF Init
<1>3. TypedTasks
  BY <1>2, JobTypes DEF TypedTasks
<1>4. Typed
  BY <1>1, <1>2, <1>3 DEF Typed, Values
<1>5. Working
  BY <1>2, JobTypes DEF Working, Resting
<1>6. Places
  BY <1>2, JobTypes DEF Places, Copying, Carrying, Boots, Booting
<1>7. \A t \in Tasks : \A s : ~Rewrites(t, s)
  BY <1>2 DEF Rewrites
<1>8. NoJob.want = {}
  BY DEF NoJob, Job
<1>9. Data
  BY <1>2, <1>7, <1>8 DEF Data, Alone, FreshDevice, FreshImage, Writing, Wanted, Wiping,
                          OthersPreserved, Kept
<1> QED
  BY <1>4, <1>5, <1>6, <1>9

(* ... and when nothing happens.                                            *)
LEMMA Stutters ==
  ASSUME Typed, Working, Places, Data, UNCHANGED vars
  PROVE  (Typed /\ Working /\ Places /\ Data)'
<1>1. UNCHANGED <<flash, clientIvol, stage, pc, device, job, left, image, tries, events,
                  may, broken, stale>>
  BY DEF vars, system, tasks, history
<1>2. Typed' /\ Working'
  BY <1>1 DEF Typed, TypedTasks, Working, Resting
<1>3. Places'
  BY <1>1 DEF Places, Copying, Carrying, Boots, Booting, Resting
<1>4. lost' = lost /\ \A u \in Tasks : \A s : Rewrites(u, s)' <=> Rewrites(u, s)
  BY <1>1 DEF lost, Rewrites
<1>5. Data'
  BY <1>1, <1>4 DEF Data, Alone, FreshDevice, SameAsFlash, FreshImage, Writing, Wanted,
                    Wiping, OthersPreserved, Kept, Rewriting, Boots, Booting
<1> QED
  BY <1>2, <1>3, <1>5

(* What the flash holds and what the tasks have read of it stay together    *)
(* over all interleavings of saves, failures and restarts.                  *)
THEOREM Invariant == Spec => [](Typed /\ Working /\ Places /\ Data)
<1> DEFINE Inv == Typed /\ Working /\ Places /\ Data
<1>1. Init => Inv
  BY Initial
<1>2. Inv /\ [Next]_vars => Inv'
  <2> SUFFICES ASSUME Inv, [Next]_vars PROVE Inv'
    OBVIOUS
  <2>1. CASE Next
    <3>1. Copying
      BY DEF Places
    <3> QED
      BY <2>1, <3>1, TypedStep, PlacesStep, DataStep
  <2>2. CASE UNCHANGED vars
    BY <2>2, Stutters
  <2> QED
    BY <2>1, <2>2
<1> QED
  BY <1>1, <1>2, PTL DEF Spec

(* All variables have the types of TypeOK, and a task at work, and no other,*)
(* has a job and sectors before it.                                         *)
THEOREM TypeCorrect == Spec => []TypeOK
<1>1. Typed /\ Working => TypeOK
  <2> SUFFICES ASSUME Typed, Working PROVE TypeOK
    OBVIOUS
  <2>1. ASSUME NEW t \in Tasks
        PROVE  /\ device[t] \in {NoSettings} \cup [vol : Values, ssid : Values]
               /\ left[t] \in Seq(0..Sectors - 1)
               /\ (left[t] = << >>) <=> (pc[t] \in {"idle", "edit"})
               /\ (job[t] = NoJob) <=> (pc[t] \in {"idle", "edit"})
               /\ image[t] = NoImage \/ image[t] \in [CellsOf(Head(left[t])) -> Values]
    BY DEF Typed, TypedTasks, Working, Resting
  <2>2. /\ flash \in [Cells -> Values] /\ clientIvol \in Values
        /\ stage \in {"off", "load", "wipe", "reload", "use", "wifi", "ap", "start", "ready"}
        /\ pc \in [Tasks -> {"idle", "edit", "read", "erase", "write", "clear", "blank"}]
        /\ tries \in [Tasks -> 0..Tries] /\ events \in 0..MaxEvents
        /\ may \in [Cells -> SUBSET Values]
        /\ {broken, stale} \subseteq SUBSET (0..Sectors - 1)
    BY DEF Typed, TypedTasks
  <2> QED
    BY <2>1, <2>2 DEF TypeOK
<1> QED
  BY <1>1, Invariant, PTL

(* eeSetDatax changes what it was asked to change and preserves the rest of *)
(* the sector, whatever overlaps and fails, in all sectors but those that a *)
(* fault left erased or two tasks rewrote at the same time.                 *)
THEOREM OthersCorrect == Spec => []OthersPreserved
<1>1. Data => OthersPreserved
  BY DEF Data
<1> QED
  BY <1>1, Invariant, PTL

(* initWifi erases all stations and settings only if the settings have never*)
(* been written, or their sector has been lost to such a fault or overlap.  *)
THEOREM WipedCorrect == Spec => []WipedOnlyAfterLoss
<1>1. Data => WipedOnlyAfterLoss
  BY DEF Data, Wiping, lost, WipedOnlyAfterLoss
<1> QED
  BY <1>1, Invariant, PTL
==============================================================================
