-------------------------------- MODULE Board -------------------------------
(***************************************************************************)
(* What the board does besides playing: the firmware update, the clock and *)
(* the time zone, the network at boot, the memory chip and the display.    *)
(* The parts share no variable, so that a behaviour watches one of them.   *)
(***************************************************************************)
EXTENDS Integers, Sequences

CONSTANTS
  Word, Sector, SlotSectors, Lengths, SegLen, UPGRADE_RETRY_TIMES, MaxErrors,
  UptimeWrap, Second, Resync, Retry, MaxFetch,
  Offsets,
  Tries, ErasedSsid, MaxBoots,
  Base, BurstMax, Sizes, ProbeFrom, SdiMode, Data, Addresses,
  SSD1306_I2C_ADDR, Controls, Datas, MaxRefused, MaxResets,
  SSD1306_PAGES, SSD1306_WIDTH, Pictures, Contrasts, Rotations,
  SSD1306_RETRY_UPDATES, MaxFaults, MaxAway,
  Said, Headers, Names, Metas, TextSize, MetaSize, MaxChars, ScrollPause,
  TicksPerSec, IdlePlaying, IdleStopped, SplashWait, SplashTicks, MaxEvents,
  SSD1306_HEIGHT, FontWidth, FontHeight, Font, Strings, Scales, Corners,
  Circles

VARIABLES
  active,      \* the part that is watched
  flash, image, pc, retry_count, totallength, sumlength, flash_erased, giveup,
  upgrade, flag, upgrade_flag, armed, sent, result, clean, errors,
  ntp_ntpUptimeMs, ntp_syncedMs, ntp_lastAttemptMs, ntp_waitMs,
  ntp_everAttempted, ntp_synced, ntp_pc, ntp_hasIp, ntp_shown, ntp_fetching,
  ntp_stamp, ntp_truth, ntp_late,
  time, leap, tzo,
  wifi_device, wifi_sdk, wifi_pc, wifi_ap, wifi_i, wifi_info, wifi_mode,
  wifi_status, wifi_waited, wifi_answers, wifi_tried, wifi_boots,
  ram_spi, ram_hardware, ram_spiram, ram_spi_burst_enabled, ram_size, ram_got,
  ram_memory, ram_wanted, ram_pc,
  bus_m_nLast, bus_pc, bus_driven, bus_i, bus_wanted, bus_ret, bus_free,
  bus_panel, bus_refused, bus_resets,
  oled_Buffer, oled_Shadow, oled_ForcePages, oled_Online, oled_Backoff,
  oled_Initialized, oled_Contrast, oled_Rotation, oled_pc, oled_part,
  oled_page, oled_panel, oled_plugged, oled_whole, oled_unseen, oled_faults,
  oled_away,
  scr_header, scr_localName, scr_meta, scr_playing, scr_volume, scr_clock,
  scr_synced, scr_ip, scr_lines, scr_dispVolume, scr_dispTime,
  scr_localStationName, scr_redrawPending, scr_secTick, scr_idleTicks,
  scr_screensaverActive, scr_pc, scr_waited, scr_taken, scr_dirty,
  scr_activity, scr_shown, scr_quiet, scr_events,
  lit, drawn

otaVars == <<flash, image, pc, retry_count, totallength, sumlength,
    flash_erased, giveup, upgrade, flag, upgrade_flag, armed, sent, result,
    clean, errors>>
clockVars == <<ntp_ntpUptimeMs, ntp_syncedMs, ntp_lastAttemptMs, ntp_waitMs,
    ntp_everAttempted, ntp_synced, ntp_pc, ntp_hasIp, ntp_shown, ntp_fetching,
    ntp_stamp, ntp_truth, ntp_late>>
zoneVars == <<time, leap, tzo>>
bootVars == <<wifi_device, wifi_sdk, wifi_pc, wifi_ap, wifi_i, wifi_info,
    wifi_mode, wifi_status, wifi_waited, wifi_answers, wifi_tried,
    wifi_boots>>
ramVars == <<ram_spi, ram_hardware, ram_spiram, ram_spi_burst_enabled,
    ram_size, ram_got, ram_memory, ram_wanted, ram_pc>>
busVars == <<bus_m_nLast, bus_pc, bus_driven, bus_i, bus_wanted, bus_ret,
    bus_free, bus_panel, bus_refused, bus_resets>>
panelVars == <<oled_Buffer, oled_Shadow, oled_ForcePages, oled_Online,
    oled_Backoff, oled_Initialized, oled_Contrast, oled_Rotation, oled_pc,
    oled_part, oled_page, oled_panel, oled_plugged, oled_whole, oled_unseen,
    oled_faults, oled_away>>
screenVars == <<scr_header, scr_localName, scr_meta, scr_playing, scr_volume,
    scr_clock, scr_synced, scr_ip, scr_lines, scr_dispVolume, scr_dispTime,
    scr_localStationName, scr_redrawPending, scr_secTick, scr_idleTicks,
    scr_screensaverActive, scr_pc, scr_waited, scr_taken, scr_dirty,
    scr_activity, scr_shown, scr_quiet, scr_events>>
drawingVars == <<lit, drawn>>
vars == <<active, otaVars, clockVars, zoneVars, bootVars, ramVars, busVars,
    panelVars, screenVars, drawingVars>>

O == INSTANCE Ota WITH
  flash <- flash, image <- image, pc <- pc, retry_count <- retry_count,
  totallength <- totallength, sumlength <- sumlength,
  flash_erased <- flash_erased, giveup <- giveup, upgrade <- upgrade,
  flag <- flag, upgrade_flag <- upgrade_flag, armed <- armed, sent <- sent,
  result <- result, clean <- clean, errors <- errors
N == INSTANCE NtpClock WITH
  ntpUptimeMs <- ntp_ntpUptimeMs, syncedMs <- ntp_syncedMs,
  lastAttemptMs <- ntp_lastAttemptMs, waitMs <- ntp_waitMs,
  everAttempted <- ntp_everAttempted, synced <- ntp_synced, pc <- ntp_pc,
  hasIp <- ntp_hasIp, shown <- ntp_shown, fetching <- ntp_fetching,
  stamp <- ntp_stamp, truth <- ntp_truth, late <- ntp_late
Z == INSTANCE TimeZone WITH
  time <- time, leap <- leap, tzo <- tzo
W == INSTANCE WifiBoot WITH
  device <- wifi_device, sdk <- wifi_sdk, pc <- wifi_pc, ap <- wifi_ap,
  i <- wifi_i, info <- wifi_info, mode <- wifi_mode, status <- wifi_status,
  waited <- wifi_waited, answers <- wifi_answers, tried <- wifi_tried,
  boots <- wifi_boots
R == INSTANCE Spiram WITH
  spi <- ram_spi, hardware <- ram_hardware, spiram <- ram_spiram,
  spi_burst_enabled <- ram_spi_burst_enabled, size <- ram_size,
  got <- ram_got, memory <- ram_memory, wanted <- ram_wanted, pc <- ram_pc
B == INSTANCE I2cBus WITH
  m_nLast <- bus_m_nLast, pc <- bus_pc, driven <- bus_driven, i <- bus_i,
  wanted <- bus_wanted, ret <- bus_ret, free <- bus_free, panel <- bus_panel,
  refused <- bus_refused, resets <- bus_resets
P == INSTANCE Panel WITH
  Buffer <- oled_Buffer, Shadow <- oled_Shadow, ForcePages <- oled_ForcePages,
  Online <- oled_Online, Backoff <- oled_Backoff,
  Initialized <- oled_Initialized, Contrast <- oled_Contrast,
  Rotation <- oled_Rotation, pc <- oled_pc, part <- oled_part,
  page <- oled_page, panel <- oled_panel, plugged <- oled_plugged,
  whole <- oled_whole, unseen <- oled_unseen, faults <- oled_faults, away <- oled_away
S == INSTANCE StatusScreen WITH
  header <- scr_header, localName <- scr_localName, meta <- scr_meta,
  playing <- scr_playing, volume <- scr_volume, clock <- scr_clock,
  synced <- scr_synced, ip <- scr_ip, lines <- scr_lines,
  dispVolume <- scr_dispVolume, dispTime <- scr_dispTime,
  localStationName <- scr_localStationName,
  redrawPending <- scr_redrawPending, secTick <- scr_secTick,
  idleTicks <- scr_idleTicks, screensaverActive <- scr_screensaverActive,
  pc <- scr_pc, waited <- scr_waited, taken <- scr_taken, dirty <- scr_dirty,
  activity <- scr_activity, shown <- scr_shown, quiet <- scr_quiet,
  events <- scr_events
G == INSTANCE Drawing WITH
  lit <- lit, drawn <- drawn

(* A part that is not watched.                                              *)
Off == "off"
otaOff ==
  /\ flash = Off /\ image = Off /\ pc = Off /\ retry_count = Off
  /\ totallength = Off /\ sumlength = Off /\ flash_erased = Off
  /\ giveup = Off /\ upgrade = Off /\ flag = Off /\ upgrade_flag = Off
  /\ armed = Off /\ sent = Off /\ result = Off /\ clean = Off /\ errors = Off
clockOff ==
  /\ ntp_ntpUptimeMs = Off /\ ntp_syncedMs = Off /\ ntp_lastAttemptMs = Off
  /\ ntp_waitMs = Off /\ ntp_everAttempted = Off /\ ntp_synced = Off
  /\ ntp_pc = Off /\ ntp_hasIp = Off /\ ntp_shown = Off /\ ntp_fetching = Off
  /\ ntp_stamp = Off /\ ntp_truth = Off /\ ntp_late = Off
zoneOff ==
  /\ time = Off /\ leap = Off /\ tzo = Off
bootOff ==
  /\ wifi_device = Off /\ wifi_sdk = Off /\ wifi_pc = Off /\ wifi_ap = Off
  /\ wifi_i = Off /\ wifi_info = Off /\ wifi_mode = Off /\ wifi_status = Off
  /\ wifi_waited = Off /\ wifi_answers = Off /\ wifi_tried = Off
  /\ wifi_boots = Off
ramOff ==
  /\ ram_spi = Off /\ ram_hardware = Off /\ ram_spiram = Off
  /\ ram_spi_burst_enabled = Off /\ ram_size = Off /\ ram_got = Off
  /\ ram_memory = Off /\ ram_wanted = Off /\ ram_pc = Off
busOff ==
  /\ bus_m_nLast = Off /\ bus_pc = Off /\ bus_driven = Off /\ bus_i = Off
  /\ bus_wanted = Off /\ bus_ret = Off /\ bus_free = Off /\ bus_panel = Off
  /\ bus_refused = Off /\ bus_resets = Off
panelOff ==
  /\ oled_Buffer = Off /\ oled_Shadow = Off /\ oled_ForcePages = Off
  /\ oled_Online = Off /\ oled_Backoff = Off /\ oled_Initialized = Off
  /\ oled_Contrast = Off /\ oled_Rotation = Off /\ oled_pc = Off
  /\ oled_part = Off /\ oled_page = Off /\ oled_panel = Off
  /\ oled_plugged = Off /\ oled_whole = Off /\ oled_faults = Off
  /\ oled_unseen = Off /\ oled_away = Off
screenOff ==
  /\ scr_header = Off /\ scr_localName = Off /\ scr_meta = Off
  /\ scr_playing = Off /\ scr_volume = Off /\ scr_clock = Off
  /\ scr_synced = Off /\ scr_ip = Off /\ scr_lines = Off
  /\ scr_dispVolume = Off /\ scr_dispTime = Off /\ scr_localStationName = Off
  /\ scr_redrawPending = Off /\ scr_secTick = Off /\ scr_idleTicks = Off
  /\ scr_screensaverActive = Off /\ scr_pc = Off /\ scr_waited = Off
  /\ scr_taken = Off /\ scr_dirty = Off /\ scr_activity = Off
  /\ scr_shown = Off /\ scr_quiet = Off /\ scr_events = Off
drawingOff ==
  /\ lit = Off /\ drawn = Off

Init ==
  \/ active = "ota" /\ O!Init /\ clockOff /\ zoneOff /\ bootOff /\ ramOff /\ busOff /\ panelOff /\ screenOff /\ drawingOff
  \/ active = "clock" /\ N!Init /\ otaOff /\ zoneOff /\ bootOff /\ ramOff /\ busOff /\ panelOff /\ screenOff /\ drawingOff
  \/ active = "zone" /\ Z!Init /\ otaOff /\ clockOff /\ bootOff /\ ramOff /\ busOff /\ panelOff /\ screenOff /\ drawingOff
  \/ active = "boot" /\ W!Init /\ otaOff /\ clockOff /\ zoneOff /\ ramOff /\ busOff /\ panelOff /\ screenOff /\ drawingOff
  \/ active = "ram" /\ R!Init /\ otaOff /\ clockOff /\ zoneOff /\ bootOff /\ busOff /\ panelOff /\ screenOff /\ drawingOff
  \/ active = "bus" /\ B!Init /\ otaOff /\ clockOff /\ zoneOff /\ bootOff /\ ramOff /\ panelOff /\ screenOff /\ drawingOff
  \/ active = "panel" /\ P!Init /\ otaOff /\ clockOff /\ zoneOff /\ bootOff /\ ramOff /\ busOff /\ screenOff /\ drawingOff
  \/ active = "screen" /\ S!Init /\ otaOff /\ clockOff /\ zoneOff /\ bootOff /\ ramOff /\ busOff /\ panelOff /\ drawingOff
  \/ active = "drawing" /\ G!Init /\ otaOff /\ clockOff /\ zoneOff /\ bootOff /\ ramOff /\ busOff /\ panelOff /\ screenOff

Next ==
  \/ active = "ota" /\ O!Next /\ UNCHANGED <<active, clockVars, zoneVars,
         bootVars, ramVars, busVars, panelVars, screenVars, drawingVars>>
  \/ active = "clock" /\ N!Next /\ UNCHANGED <<active, otaVars, zoneVars,
         bootVars, ramVars, busVars, panelVars, screenVars, drawingVars>>
  \/ active = "zone" /\ Z!Next /\ UNCHANGED <<active, otaVars, clockVars,
         bootVars, ramVars, busVars, panelVars, screenVars, drawingVars>>
  \/ active = "boot" /\ W!Next /\ UNCHANGED <<active, otaVars, clockVars,
         zoneVars, ramVars, busVars, panelVars, screenVars, drawingVars>>
  \/ active = "ram" /\ R!Next /\ UNCHANGED <<active, otaVars, clockVars,
         zoneVars, bootVars, busVars, panelVars, screenVars, drawingVars>>
  \/ active = "bus" /\ B!Next /\ UNCHANGED <<active, otaVars, clockVars,
         zoneVars, bootVars, ramVars, panelVars, screenVars, drawingVars>>
  \/ active = "panel" /\ P!Next /\ UNCHANGED <<active, otaVars, clockVars,
         zoneVars, bootVars, ramVars, busVars, screenVars, drawingVars>>
  \/ active = "screen" /\ S!Next /\ UNCHANGED <<active, otaVars, clockVars,
         zoneVars, bootVars, ramVars, busVars, panelVars, drawingVars>>
  \/ active = "drawing" /\ G!Next /\ UNCHANGED <<active, otaVars, clockVars,
         zoneVars, bootVars, ramVars, busVars, panelVars, screenVars>>

Spec == Init /\ [][Next]_vars

(* The tasks run; the timer of the update does too, but nothing ends a read *)
(* that waits for the server.  The display's task goes round and round,     *)
(* which is weak fairness of it, said by the states it passes, and a panel  *)
(* that was away comes back.                                                *)
FairSpec ==
  /\ Spec
  /\ WF_vars(active = "ota" /\ O!upgrade_check /\ UNCHANGED <<active, clockVars, zoneVars, bootVars, ramVars, busVars, panelVars, screenVars, drawingVars>>)
  /\ WF_vars(active = "ota" /\ pc # "read" /\ O!Task /\ UNCHANGED <<active, clockVars, zoneVars, bootVars, ramVars, busVars, panelVars, screenVars, drawingVars>>)
  /\ []<>(active = "panel" => oled_pc = "idle")
  /\ []<>(active = "panel" => oled_pc = "page")
  /\ []<>(active = "panel" => oled_plugged \/ oled_Online)
  /\ []<>(active = "screen" => scr_pc = "names")
  /\ []<>(active = "screen" => scr_pc = "draw")

ASSUME BoardAssumption ==
  /\ O!OtaAssumption /\ N!NtpClockAssumption /\ Z!TimeZoneAssumption
  /\ W!WifiBootAssumption /\ R!SpiramAssumption /\ B!I2cBusAssumption
  /\ P!PanelAssumption /\ S!StatusScreenAssumption /\ G!DrawingAssumption
-----------------------------------------------------------------------------
(* With what each part promises, its types.                                 *)
(* ota.c: only an image that came whole is booted, and nothing outside the  *)
(* slot it goes to is erased or written, and what is in it came in order.   *)
OnlyWholeImageBoots == active = "ota" => O!TypeOK /\ O!OnlyWholeImageBoots /\ O!OthersKept /\ O!WrittenInOrder

(* upgrade_check: whoever asked for an update is told how it went.          *)
UserIsTold == <>(active = "ota" => result # "none")

(* ntp.c: the time shown is never ahead of the server's, and behind it by   *)
(* no more than the answer took, until the counter has gone round.          *)
ClockClose == active = "clock" => N!TypeOK /\ N!ClockClose

(* applyTZ: summer time is one interval, between the two last Sundays.      *)
DstIsOneInterval == active = "zone" => Z!TypeOK /\ Z!DstIsOneInterval

(* initWifi: the radio becomes an access point only when the networks that  *)
(* are saved do not take it.                                                *)
ApOnlyIfRefused == active = "boot" => W!TypeOK /\ W!ApOnlyIfRefused

(* spilib.c, buffer.c: the memory chip is found, with its size, and returns *)
(* what was written, whatever the lengths and where the bursts begin.       *)
MemoryWorks == active = "ram" => R!TypeOK /\ R!MemoryFound /\ R!BytesAsMeant

(* ssd1306_i2c.c: a transfer brings its bytes to the panel, or says that it *)
(* did not.                                                                 *)
TransferArrives == active = "bus" => B!TypeOK /\ B!TransferArrives

(* ssd1306.c: what the driver takes for shown is what the panel shows.      *)
PanelAsKnown == active = "panel" => P!TypeOK /\ P!PanelAsKnown

(* After faults and absences it has seen the panel catches up with the      *)
(* picture.                                                                 *)
ScreenShown == []<>(active = "panel" /\ oled_plugged /\ ~oled_unseen => oled_panel.ram = oled_Buffer)

(* display.c: the screen shows what the last tick found.                    *)
ScreenIsCurrent == active = "screen" => S!TypeOK /\ S!ScreenIsCurrent

(* Once nothing changes the clock takes the screen.                         *)
ScreenRests == <>[](active = "screen" => scr_screensaverActive \/ S!TooLong)

(* ssd1306.c: the primitives draw what they are meant to.                   *)
LooksAsMeant == active = "drawing" => G!LooksAsMeant
=============================================================================
