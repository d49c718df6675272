-------------------------------- MODULE Eeprom --------------------------------
(***************************************************************************)
(* Settings and stations in flash (user/eeprom.c) and the tasks that save  *)
(* them.  A sector can only be erased as a whole, so a save reads it,      *)
(* changes some cells in memory, erases it and writes it back; no lock     *)
(* keeps two tasks apart and the power can fail at any step.               *)
(*                                                                         *)
(* A cell stands for a record of 256 bytes, except that the settings       *)
(* record, which the tasks copy as a whole and change in parts, is two     *)
(* cells: the volume, and all else (Ssid; the addresses that a boot puts   *)
(* into it are not represented).                                           *)
(***************************************************************************)
EXTENDS Integers, Sequences

CONSTANTS
  Handlers,      (* tasks that serve requests: web handlers, telnet         *)
  Main,          (* uartInterfaceTask: boot, then the console               *)
  Saver,         (* testtask during boot, then the housekeeping timer       *)
  Sectors,       (* number of sectors: 16                                   *)
  SectorSize,    (* cells of a sector                                       *)
  Old, New,      (* values at first found in flash, values that users save  *)
  Both(_, _),     (* the bits that two bytes have in common                  *)
  Ranges,        (* pairs <<first, last>> of stations that are saved at once*)
  Tries,         (* tries of saveStation: 10                                *)
  MaxEvents      (* bound: requests of the users and faults, together       *)

Cleared == 0     (* a record that eeEraseAll or eeEraseStations wrote       *)
Erased == 255    (* a byte of erased flash                                  *)
Volume == 0      (* the cell of device_settings.vol                         *)
Ssid == 1        (* the cell of the rest of device_settings                 *)

Tasks == Handlers \cup {Main, Saver}
Cells == 0..Sectors * SectorSize - 1
Stations == Cells \ {Volume, Ssid}
Values == Old \cup New \cup {Cleared, Erased}
Sector(c) == c \div SectorSize
CellsOf(s) == {c \in Cells : Sector(c) = s}

ASSUME EepromAssumption ==
  /\ Sectors \in Nat \ {0} /\ SectorSize \in Nat \ {0, 1}
  /\ {Tries, MaxEvents} \subseteq Nat
  /\ Old \subseteq 0..255 /\ New \subseteq 1..254
  /\ \A r \in Ranges : r[1] \in Stations /\ r[2] \in Stations /\ r[1] <= r[2]
  /\ \A a, b \in Values : Both(a, b) \in Values
  /\ \A a \in Values : Both(Erased, a) = a
  /\ Main # Saver /\ {Main, Saver} \cap Handlers = {}

VARIABLES
  flash,         (* the content of the flash                                *)
  clientIvol,    (* the volume in use                                       *)
  stage,         (* how far Main is with the boot                           *)
  pc,            (* what a task does to the flash                           *)
  device,        (* a task's copy of the settings record                    *)
  job,           (* what it is saving                                       *)
  left,          (* the sectors it still has to rewrite, or to clear        *)
  image,         (* its sectorBuffer                                        *)
  tries,         (* i of saveStation                                        *)
  events,        (* requests and faults so far                              *)
  may,           (* history: what a cell may hold, that is the value last   *)
                 (* saved and those of the saves under way or given up      *)
  broken,        (* history: sectors that a fault left erased               *)
  stale          (* history: sectors rewritten while another task held a    *)
                 (* copy of them                                            *)

system == <<clientIvol, stage>>
tasks == <<pc, device, job, left, image, tries>>
history == <<may, broken, stale>>
vars == <<flash, system, tasks, events, history>>
------------------------------------------------------------------------------
(* "want" are the cells of "new" that the caller means to change; a save   *)
(* of the settings record carries the other along.  "sets" are the sectors *)
(* eeSetDatax rewrites, "clears" those eeSetClear fills with 0 afterwards. *)
Job(kind, new, want, sets, clears) ==
  [kind |-> kind, new |-> new, want |-> want, sets |-> sets, clears |-> clears]

NoJob == Job("none", << >>, {}, << >>, << >>)

(* eeSetData(0, settings, 256) *)
saveDeviceSettings(vol, ssid, want) ==
  Job("settings", [c \in {Volume, Ssid} |-> IF c = Volume THEN vol ELSE ssid],
      want, <<0>>, << >>)

saveMultiStation(first, last, value) ==
  Job("stations", [c \in first..last |-> value], first..last,
      [i \in 1..Sector(last) - Sector(first) + 1 |-> Sector(first) + i - 1], << >>)

eeEraseStations ==
  Job("clear", [c \in Stations |-> Cleared], Stations,
      <<0>>, [i \in 1..Sectors - 1 |-> i])

eeEraseAll ==
  Job("clear", [c \in Cells |-> Cleared], Cells,
      << >>, [i \in 1..Sectors |-> i - 1])

Settings == [vol |-> flash[Volume], ssid |-> flash[Ssid]]
NoSettings == [vol |-> -1, ssid |-> -1]
NoImage == << >>

Init ==
  /\ \E initial \in Old :
       flash = [c \in Cells |-> initial] /\ clientIvol = initial
  /\ stage = "load"
  /\ pc = [t \in Tasks |-> "idle"]
  /\ device = [t \in Tasks |-> NoSettings]
  /\ job = [t \in Tasks |-> NoJob]
  /\ left = [t \in Tasks |-> << >>]
  /\ image = [t \in Tasks |-> NoImage]
  /\ tries = [t \in Tasks |-> 0]
  /\ events = 0
  /\ may = [c \in Cells |-> {flash[c]}]
  /\ broken = {} /\ stale = {}
------------------------------------------------------------------------------
(* Saving: the steps of eeSetDatax, of its callers' retries, and of        *)
(* eeSetClear.  Every vTaskDelay, and every call into the flash driver, is *)
(* a point at which another task can run.                                  *)

Start(t, j) ==
  /\ pc[t] = "idle"
  /\ job' = [job EXCEPT ![t] = j]
  /\ left' = [left EXCEPT ![t] = IF j.sets # << >> THEN j.sets ELSE j.clears]
  /\ pc' = [pc EXCEPT ![t] = IF j.sets # << >> THEN "read" ELSE "clear"]
  /\ may' = [c \in Cells |->
               may[c] \cup IF c \in j.want THEN {j.new[c]} ELSE {}]
  /\ UNCHANGED <<flash, image, tries, broken, stale>>

(* The last sector of the sets is done, or given up. *)
Finish(t) ==
  LET more == pc[t] \notin {"clear", "blank"} /\ job[t].clears # << >>
      over == ~more /\ ~(t = Main /\ stage # "ready")
  IN  /\ pc' = [pc EXCEPT ![t] = IF more THEN "clear" ELSE "idle"]
      /\ left' = [left EXCEPT ![t] = IF more THEN job[t].clears ELSE << >>]
      /\ job' = IF more THEN job ELSE [job EXCEPT ![t] = NoJob]
      /\ device' = IF over THEN [device EXCEPT ![t] = NoSettings] ELSE device
      /\ tries' = [tries EXCEPT ![t] = 0]

(* The next sector, in the loop that pc[t] = again stands for. *)
Advance(t, again) ==
  IF Len(left[t]) > 1
  THEN /\ left' = [left EXCEPT ![t] = Tail(@)]
       /\ pc' = [pc EXCEPT ![t] = again]
       /\ UNCHANGED <<device, job, tries>>
  ELSE Finish(t)

(* History: t's data is in sector s, so a cell that it wanted to change    *)
(* may only hold that, or what another task is about to save.              *)
Saved(t, s) ==
  may' = [c \in Cells |->
            IF Sector(c) = s /\ c \in job[t].want
            THEN {job[u].new[c] : u \in {u \in Tasks : c \in job[u].want}}
            ELSE may[c]]

Holds(t, s) ==
  \/ pc[t] \in {"erase", "write", "blank"} /\ Head(left[t]) = s
  \/ device[t] # NoSettings /\ s = 0

(* History: t has changed sector s, and others go on with what they read.  *)
Changed(t, s) ==
  stale' = IF \E u \in Tasks \ {t} : Holds(u, s) THEN stale \cup {s} ELSE stale

Merged(t, s) ==
  [c \in CellsOf(s) |-> IF c \in DOMAIN job[t].new THEN job[t].new[c]
                                                    ELSE flash[c]]

Differs(t, s) == Merged(t, s) # [c \in CellsOf(s) |-> flash[c]]

ReadSector(t) ==
  /\ pc[t] = "read" /\ Differs(t, Head(left[t]))
  /\ image' = [image EXCEPT ![t] = Merged(t, Head(left[t]))]
  /\ pc' = [pc EXCEPT ![t] = "erase"]
  /\ UNCHANGED <<flash, system, device, job, left, tries, events, history>>

SkipSector(t) ==
  LET s == Head(left[t])
  IN  /\ pc[t] = "read" /\ ~Differs(t, s)
      /\ Advance(t, "read")
      /\ Saved(t, s)
      /\ UNCHANGED <<flash, system, image, events, broken, stale>>

EraseSector(t) ==
  /\ pc[t] = "erase"
  /\ flash' = [c \in Cells |-> IF Sector(c) = Head(left[t]) THEN Erased ELSE flash[c]]
  /\ pc' = [pc EXCEPT ![t] = "write"]
  /\ Changed(t, Head(left[t]))
  /\ UNCHANGED <<system, device, job, left, image, tries, events, may, broken>>

(* Programming can only clear bits. *)
WriteSector(t) ==
  LET s == Head(left[t])
  IN  /\ pc[t] = "write"
      /\ flash' = [c \in Cells |-> IF Sector(c) = s THEN Both(flash[c], image[t][c])
                                                     ELSE flash[c]]
      /\ image' = [image EXCEPT ![t] = NoImage]
      /\ Advance(t, "read")
      /\ Saved(t, s)
      /\ Changed(t, s)
      /\ UNCHANGED <<system, events, broken>>

ClearSector(t) ==
  /\ pc[t] = "clear"
  /\ flash' = [c \in Cells |-> IF Sector(c) = Head(left[t]) THEN Erased ELSE flash[c]]
  /\ pc' = [pc EXCEPT ![t] = "blank"]
  /\ Changed(t, Head(left[t]))
  /\ UNCHANGED <<system, device, job, left, image, tries, events, may, broken>>

BlankSector(t) ==
  LET s == Head(left[t])
  IN  /\ pc[t] = "blank"
      /\ flash' = [c \in Cells |-> IF Sector(c) = s THEN Cleared ELSE flash[c]]
      /\ Advance(t, "clear")
      /\ Saved(t, s)
      /\ Changed(t, s)
      /\ UNCHANGED <<system, image, events, broken>>
------------------------------------------------------------------------------
(* Faults.                                                                 *)

Event == events < MaxEvents /\ events' = events + 1

(* eeSetDatax returns false: the stations are tried again, all others are  *)
(* given up (and eeEraseStations goes on with the next sectors).           *)
Fail(t) ==
  /\ image' = [image EXCEPT ![t] = NoImage]
  /\ IF job[t].kind = "stations" /\ tries[t] + 1 < Tries
     THEN /\ tries' = [tries EXCEPT ![t] = @ + 1]
          /\ left' = [left EXCEPT ![t] = job[t].sets]
          /\ pc' = [pc EXCEPT ![t] = "read"]
          /\ UNCHANGED <<device, job>>
     ELSE Finish(t)
  /\ UNCHANGED <<system, may, stale>>

(* Mutant: the result of the read is not looked at. *)
ReadFailsUnnoticed(t) ==
  LET garbage(c) == IF c \in DOMAIN job[t].new THEN job[t].new[c] ELSE Cleared
  IN  /\ pc[t] = "read" /\ Event
      /\ image' = [image EXCEPT ![t] = [c \in CellsOf(Head(left[t])) |-> garbage(c)]]
      /\ pc' = [pc EXCEPT ![t] = "erase"]
      /\ UNCHANGED <<flash, system, device, job, left, tries, history>>

(* No memory for sectorBuffer, or spi_flash_read fails. *)
ReadFails(t) ==
  /\ pc[t] = "read" /\ Event
  /\ Fail(t)
  /\ UNCHANGED <<flash, broken>>

(* spi_flash_erase_sector or spi_flash_write fails: the sector is as it    *)
(* was before the call.                                                    *)
FlashFails(t) ==
  /\ pc[t] \in {"erase", "write"} /\ Event
  /\ broken' = IF pc[t] = "write" THEN broken \cup {Head(left[t])} ELSE broken
  /\ Fail(t)
  /\ UNCHANGED flash

PowerFails ==
  /\ stage # "off" /\ Event
  /\ stage' = "off"
  /\ broken' = broken \cup
       {Head(left[t]) : t \in {t \in Tasks : pc[t] \in {"write", "blank"}}}
  /\ pc' = [t \in Tasks |-> "idle"]
  /\ device' = [t \in Tasks |-> NoSettings]
  /\ job' = [t \in Tasks |-> NoJob]
  /\ left' = [t \in Tasks |-> << >>]
  /\ image' = [t \in Tasks |-> NoImage]
  /\ tries' = [t \in Tasks |-> 0]
  /\ UNCHANGED <<flash, clientIvol, may, stale>>
------------------------------------------------------------------------------
(* The boot: vsTask takes the volume from the flash; Main holds a copy of  *)
(* the settings for as long as it looks for a network.                     *)

PowerReturns ==
  /\ stage = "off" /\ stage' = "load"
  /\ clientIvol' = flash[Volume]
  /\ UNCHANGED <<flash, tasks, events, history>>

MainIn(from, to) == stage = from /\ pc[Main] = "idle" /\ stage' = to

(* Mutant: an empty name is taken for an erased one. *)
LoadSettingsWipingEmpty ==
  /\ stage \in {"load", "reload"}
  /\ MainIn(stage, IF stage = "load" /\ flash[Ssid] \in {Cleared, Erased}
                    THEN "wipe" ELSE "use")
  /\ device' = [device EXCEPT ![Main] = Settings]
  /\ UNCHANGED <<flash, clientIvol, pc, job, left, image, tries, events, history>>

(* initWifi: getDeviceSettings.  Erased settings erase all the rest.       *)
LoadSettings ==
  /\ stage \in {"load", "reload"}
  /\ MainIn(stage, IF stage = "load" /\ flash[Ssid] = Erased THEN "wipe" ELSE "use")
  /\ device' = [device EXCEPT ![Main] = Settings]
  /\ UNCHANGED <<flash, clientIvol, pc, job, left, image, tries, events, history>>

WipeAll ==
  /\ MainIn("wipe", "reload")
  /\ Start(Main, eeEraseAll)
  /\ UNCHANGED <<clientIvol, device, events>>

(* No memory for the empty sector, five times. *)
WipeFails ==
  /\ MainIn("wipe", "reload")
  /\ UNCHANGED <<flash, clientIvol, tasks, events, history>>

(* First use: the network is taken from the SDK's default configuration.   *)
FirstUse ==
  /\ device[Main].ssid \in {Cleared, Erased}
  /\ MainIn("use", "wifi")
  /\ \E ssid \in New \cup {Cleared} :
       /\ device' = [device EXCEPT ![Main].ssid = ssid]
       /\ Start(Main, saveDeviceSettings(device[Main].vol, ssid, {Ssid}))
  /\ UNCHANGED <<clientIvol, events>>

LaterUse ==
  /\ device[Main].ssid \notin {Cleared, Erased}
  /\ MainIn("use", "wifi")
  /\ UNCHANGED <<flash, clientIvol, tasks, events, history>>

(* Once for an access point, and once, in any case, for the addresses.     *)
SaveNetwork ==
  /\ \E to \in {"ap", "start"} : stage \in {"wifi", "ap"} \ {to} /\ MainIn(stage, to)
  /\ Start(Main, saveDeviceSettings(device[Main].vol, device[Main].ssid, {}))
  /\ UNCHANGED <<clientIvol, device, events>>

(* uartInterfaceTask, after initWifi. *)
StartConsole ==
  /\ MainIn("start", "ready")
  /\ device' = [device EXCEPT ![Main] = NoSettings]
  /\ clientIvol' = flash[Volume]
  /\ UNCHANGED <<flash, pc, job, left, image, tries, events, history>>

Boot ==
  \/ LoadSettings \/ WipeAll \/ WipeFails \/ FirstUse \/ LaterUse \/ SaveNetwork
  \/ StartConsole
------------------------------------------------------------------------------
(* The users.  No other task is so early as Main's first step; the remote  *)
(* works during the boot, the network at its end.                          *)

Up == stage \notin {"off", "load"}
Request == Up /\ Event
Online == stage \in {"start", "ready"}
Serves(t) == t \in IF stage = "ready" THEN Handlers \cup {Main} ELSE Handlers

SetVolume ==
  /\ Request
  /\ clientIvol' \in New
  /\ UNCHANGED <<flash, stage, tasks, history>>

(* All handlers that change a setting: getDeviceSettings ... *)
ReadSettings(t) ==
  /\ Request /\ Serves(t) /\ pc[t] = "idle"
  /\ device' = [device EXCEPT ![t] = Settings]
  /\ pc' = [pc EXCEPT ![t] = "edit"]
  /\ UNCHANGED <<flash, system, job, left, image, tries, history>>

(* ... and saveDeviceSettings. *)
SaveSettings(t) ==
  /\ pc[t] = "edit"
  /\ \E ssid \in New :
       LET j == saveDeviceSettings(device[t].vol, ssid, {Ssid})
       IN  /\ job' = [job EXCEPT ![t] = j]
           /\ left' = [left EXCEPT ![t] = j.sets]
           /\ may' = [may EXCEPT ![Ssid] = @ \cup {ssid}]
  /\ pc' = [pc EXCEPT ![t] = "read"]
  /\ UNCHANGED <<flash, system, device, image, tries, events, broken, stale>>

SaveStations(t) ==
  /\ Request /\ Online /\ Serves(t)
  /\ \E r \in Ranges, value \in New : Start(t, saveMultiStation(r[1], r[2], value))
  /\ UNCHANGED <<system, device>>

ClearFlash(t) ==
  /\ Request /\ Online /\ Serves(t)
  /\ \E j \in {eeEraseStations, eeEraseAll} : Start(t, j)
  /\ UNCHANGED <<system, device>>

(* Mutant: testtask ends with the boot, and the timer is not armed. *)
SaveVolumeAtBoot ==
  /\ Up /\ stage # "ready" /\ flash[Volume] # clientIvol
  /\ Start(Saver, saveDeviceSettings(clientIvol, flash[Ssid], {Volume}))
  /\ device' = [device EXCEPT ![Saver] = Settings]
  /\ UNCHANGED <<system, events>>

(* testtask, housekeepingCallback: save the volume if it has changed.      *)
SaveVolume ==
  /\ Up /\ flash[Volume] # clientIvol
  /\ Start(Saver, saveDeviceSettings(clientIvol, flash[Ssid], {Volume}))
  /\ device' = [device EXCEPT ![Saver] = Settings]
  /\ UNCHANGED <<system, events>>
------------------------------------------------------------------------------
Step(t) ==
  \/ SaveSettings(t) \/ ReadSector(t) \/ SkipSector(t)
  \/ EraseSector(t) \/ WriteSector(t) \/ ClearSector(t) \/ BlankSector(t)

Next ==
  \/ \E t \in Tasks : Step(t) \/ ReadFails(t) \/ FlashFails(t)
  \/ PowerFails \/ PowerReturns \/ Boot
  \/ SetVolume \/ SaveVolume
  \/ \E t \in Tasks : ReadSettings(t) \/ SaveStations(t) \/ ClearFlash(t)

(* A save that has begun ends; the boot goes on; the volume is looked at   *)
(* every few seconds, and there is memory for it at times.                 *)
Fairness ==
  /\ \A t \in Tasks : WF_vars(Step(t))
  /\ WF_vars(PowerReturns) /\ WF_vars(Boot) /\ WF_vars(SaveVolume)

Spec == Init /\ [][Next]_vars /\ Fairness
------------------------------------------------------------------------------
TypeOK ==
  /\ flash \in [Cells -> Values]
  /\ clientIvol \in Values
  /\ stage \in {"off", "load", "wipe", "reload", "use", "wifi", "ap", "start", "ready"}
  /\ pc \in [Tasks -> {"idle", "edit", "read", "erase", "write", "clear", "blank"}]
  /\ \A t \in Tasks :
       /\ device[t] \in {NoSettings} \cup [vol : Values, ssid : Values]
       /\ left[t] \in Seq(0..Sectors - 1)
       /\ (left[t] = << >>) = (pc[t] \in {"idle", "edit"})
       /\ (job[t] = NoJob) = (pc[t] \in {"idle", "edit"})
       /\ image[t] = NoImage \/ image[t] \in [CellsOf(Head(left[t])) -> Values]
  /\ tries \in [Tasks -> 0..Tries]
  /\ events \in 0..MaxEvents
  /\ may \in [Cells -> SUBSET Values]
  /\ {broken, stale} \subseteq SUBSET (0..Sectors - 1)

Rewriting(s) ==
  \E t \in Tasks : pc[t] \in {"write", "blank"} /\ Head(left[t]) = s

Kept(c, lost) ==
  Sector(c) \in lost \/ Rewriting(Sector(c)) \/ flash[c] \in may[c]

(* A save writes what it was asked to write and preserves all the other    *)
(* cells, over retries, failures and power failures: only a fault between  *)
(* erase and write, and another task's save of the same sector at the same *)
(* time, cost anything, and then no more than the sector.                  *)
OthersPreserved == \A c \in Cells : Kept(c, broken \cup stale)

(* eeprom.c, "preserving bytes outside the requested range": no save of    *)
(* something else undoes the save of a station.                            *)
StationsPreserved == \A c \in Stations : Kept(c, broken)

(* The boot erases all settings and stations only where the settings have  *)
(* never been written, or were lost to a fault or to overlapping saves.    *)
WipedOnlyAfterLoss ==
  stage = "wipe" => Erased \in may[Ssid] \/ 0 \in broken \cup stale

(* Whatever overlaps, fails and restarts, the volume in use is the volume  *)
(* in flash once the users leave it alone.                                 *)
VolumeSettles == <>[](flash[Volume] = clientIvol)
==============================================================================
