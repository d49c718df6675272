-------------------------------- MODULE Inputs ------------------------------
(***************************************************************************)
(* The ways a user's words come in besides the web: the telnet session,    *)
(* the serial line, the infrared receiver and the task behind it; and the  *)
(* decoder, which they all set.  The parts share no variable, so that a    *)
(* behaviour watches one of them.                                          *)
(***************************************************************************)
EXTENDS Integers, Sequences

CONSTANTS
  Clients, Chars, BrecSize, MaxUnread,
  UART_RX_QUEUE_SIZE, TmpSize, Characters, MaxLine,
  MaxNoise,
  QueueSize, Digits, Stations, Wait, Wrap,
  Users, Fields, Values, Saved, Room, Rounds, Filling

VARIABLES
  active,      \* the part that is watched
  unread, buf, pc, brec, obrec, inIac, iiac, line, history, expected, typist,
  kept, torn,
  uart_rx_queue, uart_tmp, uart_t, uart_running, uart_line, uart_expected,
  uart_lost,
  irState, irValue, sending, key, intact, noise, published,
  ir_irQueue, ir_now, ir_handling, ir_last, ir_irDigits, ir_irDigitTime,
  ir_irMuted, ir_station, ir_silent, ir_fading, ir_volume, ir_newest, ir_since,
  ir_wrapped,
  vs_sSPI, vs_cs, vs_xdcs, vs_job, vs_phase, vs_read, vs_volume, vs_chip,
  vs_fifo, vs_playing, vs_music, vs_started, vs_want, vs_stale

telnetVars == <<unread, buf, pc, brec, obrec, inIac, iiac, line, history,
    expected, typist, kept, torn>>
serialVars == <<uart_rx_queue, uart_tmp, uart_t, uart_running, uart_line,
    uart_expected, uart_lost>>
receiverVars == <<irState, irValue, sending, key, intact, noise, published>>
remoteVars == <<ir_irQueue, ir_now, ir_handling, ir_last, ir_irDigits,
    ir_irDigitTime, ir_irMuted, ir_station, ir_silent, ir_fading, ir_volume,
    ir_newest, ir_since, ir_wrapped>>
decoderVars == <<vs_sSPI, vs_cs, vs_xdcs, vs_job, vs_phase, vs_read,
    vs_volume, vs_chip, vs_fifo, vs_playing, vs_music, vs_started, vs_want,
    vs_stale>>
vars == <<active, telnetVars, serialVars, receiverVars, remoteVars,
    decoderVars>>

T == INSTANCE Telnet WITH
  unread <- unread, buf <- buf, pc <- pc, brec <- brec, obrec <- obrec,
  inIac <- inIac, iiac <- iiac, line <- line, history <- history,
  expected <- expected, typist <- typist, kept <- kept, torn <- torn
S == INSTANCE SerialLine WITH
  uart_rx_queue <- uart_rx_queue, tmp <- uart_tmp, t <- uart_t,
  running <- uart_running, line <- uart_line, expected <- uart_expected,
  lost <- uart_lost
R == INSTANCE IrReceiver WITH
  irState <- irState, irValue <- irValue, sending <- sending, key <- key,
  intact <- intact, noise <- noise, published <- published
I == INSTANCE IrRemote WITH
  irQueue <- ir_irQueue, now <- ir_now, handling <- ir_handling,
  last <- ir_last, irDigits <- ir_irDigits, irDigitTime <- ir_irDigitTime,
  irMuted <- ir_irMuted, station <- ir_station, silent <- ir_silent,
  fading <- ir_fading, volume <- ir_volume, newest <- ir_newest,
  since <- ir_since, wrapped <- ir_wrapped
D == INSTANCE Decoder WITH
  sSPI <- vs_sSPI, cs <- vs_cs, xdcs <- vs_xdcs, job <- vs_job,
  phase <- vs_phase, read <- vs_read, volume <- vs_volume, chip <- vs_chip,
  fifo <- vs_fifo, playing <- vs_playing, music <- vs_music,
  started <- vs_started, want <- vs_want, stale <- vs_stale

(* A part that is not watched.                                              *)
Off == "off"
telnetOff ==
  /\ unread = Off /\ buf = Off /\ pc = Off /\ brec = Off /\ obrec = Off
  /\ inIac = Off /\ iiac = Off /\ line = Off /\ history = Off
  /\ expected = Off /\ typist = Off /\ kept = Off /\ torn = Off
serialOff ==
  /\ uart_rx_queue = Off /\ uart_tmp = Off /\ uart_t = Off
  /\ uart_running = Off /\ uart_line = Off /\ uart_expected = Off
  /\ uart_lost = Off
receiverOff ==
  /\ irState = Off /\ irValue = Off /\ sending = Off /\ key = Off
  /\ intact = Off /\ noise = Off /\ published = Off
remoteOff ==
  /\ ir_irQueue = Off /\ ir_now = Off /\ ir_handling = Off /\ ir_last = Off
  /\ ir_irDigits = Off /\ ir_irDigitTime = Off /\ ir_irMuted = Off
  /\ ir_station = Off /\ ir_silent = Off /\ ir_fading = Off
  /\ ir_volume = Off /\ ir_newest = Off /\ ir_since = Off /\ ir_wrapped = Off
decoderOff ==
  /\ vs_sSPI = Off /\ vs_cs = Off /\ vs_xdcs = Off /\ vs_job = Off
  /\ vs_phase = Off /\ vs_read = Off /\ vs_volume = Off /\ vs_chip = Off
  /\ vs_fifo = Off /\ vs_playing = Off /\ vs_music = Off /\ vs_started = Off
  /\ vs_want = Off /\ vs_stale = Off

Init ==
  \/ active = "telnet" /\ T!Init /\ serialOff /\ receiverOff /\ remoteOff /\ decoderOff
  \/ active = "serial" /\ S!Init /\ telnetOff /\ receiverOff /\ remoteOff /\ decoderOff
  \/ active = "receiver" /\ R!Init /\ telnetOff /\ serialOff /\ remoteOff /\ decoderOff
  \/ active = "remote" /\ I!Init /\ telnetOff /\ serialOff /\ receiverOff /\ decoderOff
  \/ active = "decoder" /\ D!Init /\ telnetOff /\ serialOff /\ receiverOff /\ remoteOff

Next ==
  \/ active = "telnet" /\ T!Next /\ UNCHANGED <<active, serialVars,
         receiverVars, remoteVars, decoderVars>>
  \/ active = "serial" /\ S!Next /\ UNCHANGED <<active, telnetVars,
         receiverVars, remoteVars, decoderVars>>
  \/ active = "receiver" /\ R!Next /\ UNCHANGED <<active, telnetVars,
         serialVars, remoteVars, decoderVars>>
  \/ active = "remote" /\ I!Next /\ UNCHANGED <<active, telnetVars,
         serialVars, receiverVars, decoderVars>>
  \/ active = "decoder" /\ D!Next /\ UNCHANGED <<active, telnetVars,
         serialVars, receiverVars, remoteVars>>

Spec == Init /\ [][Next]_vars

ASSUME InputsAssumption ==
  /\ T!TelnetAssumption /\ S!SerialLineAssumption /\ R!IrReceiverAssumption
  /\ I!IrRemoteAssumption /\ D!DecoderAssumption
-----------------------------------------------------------------------------
(* With what each part promises, its types.                                 *)
(* telnetRead: a command that is run is the one that was entered next,      *)
(* whatever the blocks it came in and the negotiation between them, and     *)
(* none is forgotten.                                                       *)
CommandAsTyped == active = "telnet" => T!TypeOK /\ T!CommandAsTyped /\ T!NothingForgotten

(* uartInterfaceTask: unless a character was lost to a full queue, the      *)
(* command that is run is the line typed, with nothing of the one before.   *)
LineAsTyped == active = "serial" => S!TypeOK /\ S!LineAsTyped

(* ir_isr: a frame that comes whole is published once, when its last edge   *)
(* comes, and a bent one never as another key, whatever came before.        *)
KeyAsSent == active = "receiver" => R!TypeOK /\ R!KeyAsSent

(* irTask: a repeat acts as the key published last before it; and a mute    *)
(* the remote made, it knows, but where a fade of clientTask put it back.   *)
KeysInTurn == active = "remote" => I!TypeOK /\ I!RepeatsTheKeyBefore /\ I!MuteKnown

(* irTask: a number with digits to come is not played before the wait since *)
(* the last of them is over.                                                *)
PlayedInTime == [][active = "remote" => I!InTime]_vars

(* vs1053.c: both selects are low, which resets the chip, only while        *)
(* VS1053_Start resets it; and the decoder is never sent more than it has   *)
(* room for, but for a chunk that another sender had asked about.           *)
BusIsShared == active = "decoder" => D!NoStrayReset /\ D!FifoHolds

(* VS1053_SetTreble and the others: a field of the chip is what was last    *)
(* asked for, unless a task wrote back what another had changed meanwhile.  *)
FieldsAsSet == active = "decoder" => D!TypeOK /\ D!FieldsAsSet
=============================================================================
