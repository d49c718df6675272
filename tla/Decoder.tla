------------------------------- MODULE Decoder -------------------------------
(***************************************************************************)
(* The decoder chip (vs1053.c) and the tasks that share it: vsTask starts  *)
(* it and sends the music, clientTask mutes, cancels and restores it, and  *)
(* users change the volume and the sound.  A register access or a chunk    *)
(* holds the bus; a field is changed by a read and a later write.  Treble  *)
(* and bass stand for the four fields of their register.                   *)
(***************************************************************************)
EXTENDS Integers, Sequences

CONSTANTS
  Users,       \* tasks that change the sound
  Fields,      \* that they change besides the volume
  Values,      \* of a field
  Saved,       \* the setting in flash
  Room,        \* chunks the decoder takes with DREQ up
  Rounds,      \* chunks flush_cancel sends while CANCEL is set
  Filling      \* chunks it sends afterwards

DecoderAssumption ==
  /\ {Room, Rounds, Filling} \subseteq Nat \ {0} /\ Saved \in Values
  /\ {"vsTask", "clientTask", "free"} \cap Users = {} /\ Fields \subseteq {"treble", "bass", "spatial"}

Tasks == Users \cup {"vsTask", "clientTask"}

VARIABLES
  sSPI,        \* who holds the bus, or "free"
  cs, xdcs,    \* selected, that is, low?
  job,         \* task -> what it has still to do
  phase,       \* task -> "out", "ready", "selected"
  read,        \* task -> the register it read and will write back
  volume,      \* what clientTask restores
  chip,        \* the registers: BASS, MODE, VOL, each of fields
  fifo,        \* chunks the decoder has
  playing,     \* music may be sent
  music,       \* and there is some in the buffer
  started,     \* VS1053_Start is over
  want,        \* reference: the registers as asked for
  stale        \* history: <<task, register>>, to be written from what is out of date

vars == <<sSPI, cs, xdcs, job, phase, read, volume, chip, fifo, playing, music, started, want, stale>>
bus == <<sSPI, cs, xdcs, phase>>
registers == <<read, volume, chip, want, stale>>
sound == <<fifo, playing, music, started>>

Fresh == [BASS |-> [treble |-> 0, bass |-> 0], MODE |-> [spatial |-> 0, cancel |-> 0],
          VOL |-> [vol |-> 0]]
RegOf(field) == CHOOSE reg \in DOMAIN Fresh : field \in DOMAIN Fresh[reg]

(* The parts of a job.  A "do" of Transfers goes over the bus.              *)
Transfers == {"get", "set", "restore", "chunk"}
Part(do, reg, field, v) == [do |-> do, reg |-> reg, field |-> field, value |-> v]
Other(do, v) == Part(do, "none", "none", v)
Get(reg) == Part("get", reg, "none", 0)
Set(field, v) == Part("set", RegOf(field), field, v)
Chunk == Other("chunk", 0)

(* VS1053_SetTreble, SetBass, SetSpatial: read the register, write it back.  *)
SetField(field, v) == <<Get(RegOf(field)), Set(field, v)>>

(* VS1053_SetVolume writes the whole register.                              *)
SetVolume(v) == <<Set("vol", v)>>

(* VS1053_flush_cancel.                                                     *)
flush_cancel ==
  SetField("cancel", 1) \o <<Other("cancelled", Rounds)>> \o [c \in 1..Filling |-> Chunk]

(* clientTask stops the music, or starts it: either with the volume at 0.   *)
Muted(parts) == <<Get("VOL"), Part("set", "VOL", "mute", 0)>> \o parts \o <<Part("restore", "VOL", "vol", 0)>>
StopPlaying == Muted(<<Other("reset", 0)>> \o flush_cancel \o <<Other("playing", 0)>>)
StartPlaying == Muted(<<Other("playing", 1)>>)

(* VS1053_Start: reset by both selects, and the settings that were saved.   *)
Start(v) ==
  <<Other("low", 1), Other("low", 0)>> \o SetVolume(v) \o SetField("treble", v)
    \o SetField("bass", v) \o SetField("spatial", v)

Init ==
  /\ sSPI = "free" /\ cs = FALSE /\ xdcs = FALSE
  /\ job = [t \in Tasks |-> IF t = "vsTask" THEN Start(Saved) ELSE <<>>]
  /\ phase = [t \in Tasks |-> "out"] /\ read = [t \in Tasks |-> Fresh.VOL] /\ volume = Fresh.VOL
  /\ chip = Fresh /\ want = Fresh /\ stale = {}
  /\ fifo = 0 /\ playing = FALSE /\ music = FALSE /\ started = FALSE
-----------------------------------------------------------------------------
Doing(t, kinds) == job[t] # <<>> /\ Head(job[t]).do \in kinds
Rest(t) == [job EXCEPT ![t] = Tail(@)]

(* A task takes up its next work; others than vsTask once the boot is over.  *)
Begin(t, work) ==
  /\ started /\ job[t] = <<>>
  /\ job' = [job EXCEPT ![t] = work]
  /\ UNCHANGED <<bus, registers, sound>>

vsTask == playing /\ music /\ Begin("vsTask", <<Chunk>>)
clientTask == Begin("clientTask", IF playing THEN StopPlaying ELSE StartPlaying)
User(u) ==
  \/ \E v \in Values : Begin(u, SetVolume(v))
  \/ \E v \in Values, field \in Fields : Begin(u, SetField(field, v))

EndStart ==
  /\ ~started /\ job["vsTask"] = <<>>
  /\ started' = TRUE
  /\ UNCHANGED <<bus, registers, job, fifo, playing, music>>

(* ControlReset does not take the bus; both selects low reset the chip.     *)
ControlReset(t) ==
  /\ Doing(t, {"low"})
  /\ cs' = (Head(job[t]).value = 1) /\ xdcs' = cs'
  /\ chip' = Fresh /\ want' = Fresh /\ fifo' = 0
  /\ job' = Rest(t)
  /\ UNCHANGED <<sSPI, phase, read, volume, stale, playing, music, started>>

(* bufferReset, and the writes to playing: reception fills the buffer again. *)
Local(t) ==
  /\ Doing(t, {"reset", "playing"})
  /\ IF Doing(t, {"reset"}) THEN music' = FALSE /\ UNCHANGED playing
     ELSE playing' = (Head(job[t]).value = 1) /\ music' = playing'
  /\ job' = Rest(t)
  /\ UNCHANGED <<bus, registers, fifo, started>>

(* flush_cancel reads MODE until CANCEL is 0, with a chunk in each round.   *)
Cancelled(t) ==
  /\ Doing(t, {"cancelled"})
  /\ job' = [job EXCEPT ![t] = <<Get("MODE"), [Head(@) EXCEPT !.do = "again"]>> \o Tail(@)]
  /\ UNCHANGED <<bus, registers, sound>>

Again(t) ==
  /\ Doing(t, {"again"})
  /\ job' = [job EXCEPT ![t] =
       (CASE read[t].cancel = 0 -> <<>>
          [] read[t].cancel = 1 /\ Head(@).value = 0 -> <<Chunk>>
          [] OTHER -> <<Chunk, Other("cancelled", Head(@).value - 1)>>) \o Tail(@)]
  /\ read' = [read EXCEPT ![t] = Fresh.VOL]
  /\ UNCHANGED <<bus, volume, chip, want, stale, sound>>
-----------------------------------------------------------------------------

(* A chunk waits for DREQ before it asks for the bus.                       *)
checkDREQ(t) ==
  /\ Doing(t, {"chunk"}) /\ phase[t] = "out" /\ fifo < Room
  /\ phase' = [phase EXCEPT ![t] = "ready"]
  /\ UNCHANGED <<sSPI, cs, xdcs, registers, sound, job>>

(* Music is selected with XDCS, a register with CS once XDCS is up.         *)
ChipSelect(t) ==
  /\ Doing(t, Transfers) /\ phase[t] = (IF Doing(t, {"chunk"}) THEN "ready" ELSE "out")
  /\ phase' = [phase EXCEPT ![t] = "selected"]
  /\ xdcs' = Doing(t, {"chunk"})
  /\ cs' = (cs \/ ~Doing(t, {"chunk"}))
  /\ UNCHANGED <<registers, sound, job>>

(* Mutant: there is no lock, as before spi_init_semaphore.                  *)
TakeNothing(t) == ChipSelect(t) /\ sSPI' = t

Take(t) == ChipSelect(t) /\ sSPI = "free" /\ sSPI' = t

(* The transfer is over: the select goes up and the bus is given back.      *)
Finish(t, kinds) ==
  /\ Doing(t, kinds) /\ phase[t] = "selected"
  /\ phase' = [phase EXCEPT ![t] = "out"]
  /\ sSPI' = "free" /\ job' = Rest(t)
  /\ IF "chunk" \in kinds THEN xdcs' = FALSE /\ UNCHANGED cs ELSE cs' = FALSE /\ UNCHANGED xdcs

SendMusicBytes(t) ==
  /\ Finish(t, {"chunk"})
  /\ fifo' = fifo + 1
  /\ UNCHANGED <<registers, playing, music, started>>

ReadRegister(t) ==
  /\ Finish(t, {"get"})
  /\ LET reg == Head(job[t]).reg
     IN  IF reg = "VOL" THEN volume' = chip.VOL /\ UNCHANGED read
         ELSE read' = [read EXCEPT ![t] = chip[reg]] /\ UNCHANGED volume
  /\ stale' = stale \ {<<t, Head(job[t]).reg>>}
  /\ UNCHANGED <<chip, want, sound>>

(* Tasks that have read reg and are still to write it.                      *)
Between(reg) ==
  {t \in Tasks : /\ job[t] # <<>> /\ Head(job[t]).reg = reg /\ Head(job[t]).do \in {"set", "restore"}
                 /\ reg # "VOL"}
    \cup {t \in {"clientTask"} : reg = "VOL" /\ \E k \in DOMAIN job[t] : job[t][k].do = "restore"}

(* Mutant: the other fields of the register are lost.                       *)
WrittenAlone(t, item) ==
  IF item.do = "restore" THEN volume
  ELSE [f \in DOMAIN Fresh[item.reg] |-> IF f = item.field THEN item.value ELSE 0]

(* What is written: what was read, with one field replaced.                 *)
Written(t, item) ==
  IF item.do = "restore" THEN volume
  ELSE IF item.reg = "VOL" THEN [vol |-> item.value]
  ELSE [read[t] EXCEPT ![item.field] = item.value]

(* A write of what is out of date is what counts from then on; the mute of  *)
(* clientTask is not asked for.                                             *)
WriteRegister(t) ==
  /\ Finish(t, {"set", "restore"})
  /\ LET item == Head(job[t])
         others == Between(item.reg) \ {t}
     IN  /\ chip' = [chip EXCEPT ![item.reg] = Written(t, item)]
         /\ want' = CASE <<t, item.reg>> \in stale /\ item.field # "mute" ->
                           [want EXCEPT ![item.reg] = Written(t, item)]
                      [] <<t, item.reg>> \notin stale /\ item.do = "set" /\ item.field # "mute" ->
                           [want EXCEPT ![item.reg][item.field] = item.value]
                      [] OTHER -> want
         /\ stale' = IF item.field = "mute" THEN stale ELSE (stale \ {<<t, item.reg>>}) \cup (others \X {item.reg})
         /\ read' = IF item.reg = "VOL" THEN read ELSE [read EXCEPT ![t] = Fresh.VOL]
  /\ UNCHANGED <<volume, sound>>
-----------------------------------------------------------------------------
(* The chip plays a chunk, and ends a cancellation.                         *)
DecoderPlays ==
  /\ fifo > 0 /\ fifo' = fifo - 1
  /\ UNCHANGED <<bus, registers, job, playing, music, started>>

DecoderCancels ==
  /\ chip.MODE.cancel = 1
  /\ chip' = [chip EXCEPT !.MODE.cancel = 0]
  /\ UNCHANGED <<bus, read, volume, want, stale, job, sound>>

Step(t) ==
  \/ ControlReset(t) \/ Local(t) \/ Cancelled(t) \/ Again(t) \/ checkDREQ(t)
  \/ SendMusicBytes(t) \/ ReadRegister(t) \/ WriteRegister(t)

Next ==
  \/ vsTask \/ clientTask \/ EndStart \/ DecoderPlays \/ DecoderCancels
  \/ \E u \in Users : User(u)
  \/ \E t \in Tasks : Step(t) \/ Take(t)

Spec == Init /\ [][Next]_vars
-----------------------------------------------------------------------------
(* Every variable has its type, and who is in a transfer holds the bus.     *)
TypeOK ==
  /\ sSPI \in Tasks \cup {"free"}
  /\ \A t \in Tasks : phase[t] \in {"out", "ready"} \/ sSPI = t
  /\ fifo \in Nat /\ {cs, xdcs, playing, music, started} \subseteq BOOLEAN
  /\ stale \subseteq Tasks \X DOMAIN Fresh

(* Both selects are low, which resets the chip, only while VS1053_Start     *)
(* resets it: no transfer of another task leaves the other select down.     *)
NoStrayReset == cs /\ xdcs => ~started

(* DREQ is looked at before the bus is taken, so that every sender may be   *)
(* one chunk late, but no more: what the chip is sent is bounded.           *)
FifoHolds == fifo <= Room + 1

(* A field of the chip is what was last asked for: changing one field, a    *)
(* stop, a start or a cancellation leave the others alone, unless a task    *)
(* wrote back what it had read before another's change.  The volume may be  *)
(* 0 while clientTask is between its mute and its restore.                  *)
FieldsAsSet ==
  /\ chip.BASS = want.BASS /\ chip.MODE.spatial = want.MODE.spatial
  /\ Between("VOL") = {} => chip.VOL = want.VOL
=============================================================================
