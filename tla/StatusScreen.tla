---------------------------- MODULE StatusScreen ----------------------------
(***************************************************************************)
(* The task of the status display (display.c): the splash screen, then a   *)
(* tick twice a second that looks for what has changed, scrolls the long   *)
(* lines, and draws, or leaves the screen to a big clock once nothing has  *)
(* happened for a while.  The names belong to clientTask, which frees them *)
(* when it likes.                                                          *)
(***************************************************************************)
EXTENDS Integers, FiniteSets

CONSTANTS
  Said,        \* what a text may say
  Headers,     \* what a station says of itself: records of name and genre
  Names,       \* names of saved stations
  Metas,       \* titles as they come: pairs of texts
  TextSize,    \* sizeof(display_line_t.text)
  MetaSize,    \* sizeof(buf) in displaySplitTitle
  MaxChars,    \* characters the panel is wide
  ScrollPause, \* DISPLAY_SCROLL_PAUSE_TICKS
  TicksPerSec, \* DISPLAY_TICKS_PER_SEC
  IdlePlaying, IdleStopped,  \* ticks until the screensaver
  SplashWait, SplashTicks,   \* ticks the splash waits for an address, and stays
  MaxEvents    \* bound on what happens meanwhile

(* A text is what it says and its length.                                   *)
Texts == [says : Said \cup {"nothing", "STOPPED"}, len : Nat]
Empty == [says |-> "nothing", len |-> 0]
STOPPED == [says |-> "STOPPED", len |-> 7]
NoHeader == [name |-> Empty, genre |-> Empty]

StatusScreenAssumption ==
  /\ {TextSize, MetaSize, MaxChars, ScrollPause, TicksPerSec, IdlePlaying,
      IdleStopped, SplashWait, SplashTicks} \subseteq Nat \ {0}
  /\ IdleStopped <= IdlePlaying
  /\ MaxEvents \in Nat
  /\ Names \subseteq Texts /\ Metas \subseteq Texts \X Texts
  /\ Headers \subseteq [name : Texts, genre : Texts]

Lines == {"station", "genre", "title1", "title2"}

VARIABLES
  header,       \* what the station says of itself
  localName,    \* what getStation has for currentStation
  meta,         \* its title
  playing, volume, clock, synced, ip,
  lines,        \* text, offset, pause
  dispVolume, dispTime, localStationName, redrawPending, secTick, idleTicks,
  screensaverActive,
  pc,           \* "wait" | "show" | "names" | "lines" | "title" | "second" | "draw"
  waited,       \* ticks of the splash
  taken,        \* the name and genre that the tick has pointers to
  dirty, activity,
  shown,        \* what is on the screen
  quiet,        \* ticks since a line or the volume changed
  events

sources == <<header, localName, meta, playing, volume, clock, synced, ip>>
status == <<dispVolume, dispTime, localStationName, redrawPending, secTick>>
vars == <<sources, lines, status, idleTicks, screensaverActive, pc, waited,
          taken, dirty, activity, shown, quiet, events>>

Least(a, b) == IF a <= b THEN a ELSE b
Cut(t, size) == [t EXCEPT !.len = Least(@, size)]

(* displaySplitTitle: artist, " - " and title share a buffer; each is cut   *)
(* to a line.                                                               *)
displaySplitTitle(m) ==
  LET first == Cut(m[1], MetaSize - 1)
      rest == MetaSize - 1 - first.len - 3
  IN  << Cut(first, TextSize - 1),
         IF rest > 0 /\ m[2].len > 0 THEN Cut(Cut(m[2], rest), TextSize - 1) ELSE Empty >>

(* Mutant: a new text goes on from where the old one was.                   *)
displayLineSetScrolled(ln, text) ==
  IF ln.text = text THEN ln ELSE [ln EXCEPT !.text = Cut(text, TextSize - 1)]
displayLineSet(ln, text) ==
  IF ln.text = text THEN ln
  ELSE [text |-> Cut(text, TextSize - 1), offset |-> 0, pause |-> 0]

displayLineScroll(ln) ==
  IF ln.text.len <= MaxChars THEN [ln EXCEPT !.offset = 0]
  ELSE IF ln.pause > 0
    THEN [ln EXCEPT !.pause = @ - 1, !.offset = IF ln.pause = 1 THEN 0 ELSE @]
  ELSE [ln EXCEPT !.offset = @ + 1,
                  !.pause = IF ln.offset + 1 + MaxChars >= ln.text.len
                              THEN ScrollPause ELSE @]
-----------------------------------------------------------------------------
Splash == [mode |-> "splash", ip |-> ip]
Saver == [mode |-> "saver", time |-> dispTime, ip |-> ip]
Screen(ls) ==
  [mode |-> "status",
   lines |-> [l \in Lines |-> <<ls[l].text, ls[l].offset>>],
   volume |-> dispVolume, time |-> dispTime, playing |-> playing]

(* displaySplash: it waits for an address, draws it, and stays for a while. *)
SplashWaits ==
  /\ pc = "wait"
  /\ IF ip = "none" /\ waited < SplashWait
       THEN waited' = waited + 1 /\ UNCHANGED <<pc, shown>>
       ELSE waited' = 0 /\ pc' = "show" /\ shown' = Splash
  /\ UNCHANGED <<sources, lines, status, idleTicks, screensaverActive, taken,
                 dirty, activity, quiet, events>>
SplashShows ==
  /\ pc = "show"
  /\ shown' = Splash
  /\ IF waited < SplashTicks
       THEN waited' = waited + 1 /\ UNCHANGED pc
       ELSE waited' = 0 /\ pc' = "names"
  /\ UNCHANGED <<sources, lines, status, idleTicks, screensaverActive, taken,
                 dirty, activity, quiet, events>>
-----------------------------------------------------------------------------
(* displayTick: it takes the names; getStation is asked only when the       *)
(* station is another one.                                                  *)
TakeNames ==
  /\ pc = "names" /\ pc' = "lines"
  /\ localStationName' = Cut(localName, TextSize - 1)
  /\ taken' = IF header.name.len > 0 THEN header
              ELSE [header EXCEPT !.name = localStationName']
  /\ dirty' = redrawPending /\ redrawPending' = FALSE /\ activity' = FALSE
  /\ UNCHANGED <<sources, lines, dispVolume, dispTime, secTick, idleTicks,
                 screensaverActive, waited, shown, quiet, events>>

Changed(new) ==
  LET changed == \E l \in Lines : lines[l].text # new[l].text
  IN  /\ lines' = new
      /\ dirty' = (dirty \/ changed) /\ activity' = (activity \/ changed)
      /\ quiet' = IF changed THEN 0 ELSE quiet

SetNames ==
  /\ pc = "lines" /\ pc' = "title"
  /\ Changed([lines EXCEPT !["station"] = displayLineSet(@, taken.name),
                           !["genre"] = displayLineSet(@, taken.genre)])
  /\ UNCHANGED <<sources, status, idleTicks, screensaverActive, waited, taken,
                 shown, events>>

SetTitle ==
  /\ pc = "title" /\ pc' = "second"
  /\ LET t == displaySplitTitle(IF playing THEN meta ELSE <<STOPPED, Empty>>)
     IN  Changed([lines EXCEPT !["title1"] = displayLineSet(@, t[1]),
                               !["title2"] = displayLineSet(@, t[2])])
  /\ UNCHANGED <<sources, status, idleTicks, screensaverActive, waited, taken,
                 shown, events>>

(* The volume and the time are polled once a second.                        *)
OncePerSecond ==
  /\ pc = "second" /\ pc' = "draw"
  /\ IF secTick + 1 >= TicksPerSec
       THEN /\ secTick' = 0 /\ dispVolume' = volume
            /\ dispTime' = IF synced THEN clock ELSE dispTime
            /\ dirty' = (dirty \/ dispVolume' # dispVolume \/ dispTime' # dispTime)
            /\ activity' = (activity \/ dispVolume' # dispVolume)
            /\ quiet' = IF dispVolume' # dispVolume THEN 0 ELSE quiet
       ELSE /\ secTick' = secTick + 1
            /\ UNCHANGED <<dispVolume, dispTime, dirty, activity, quiet>>
  /\ UNCHANGED <<sources, lines, localStationName, redrawPending, idleTicks,
                 screensaverActive, waited, taken, shown, events>>

Threshold == IF playing THEN IdlePlaying ELSE IdleStopped

(* Mutant: whatever is drawn counts as a change, the time of day too.       *)
IdleCountDirty ==
  IF dirty THEN 0 ELSE IF idleTicks < Threshold THEN idleTicks + 1 ELSE idleTicks
IdleCount ==
  IF activity THEN 0 ELSE IF idleTicks < Threshold THEN idleTicks + 1 ELSE idleTicks

(* The lines scroll, the idle time is counted, and what changed is drawn.   *)
Draw ==
  /\ pc = "draw" /\ pc' = "names"
  /\ lines' = [l \in Lines |-> displayLineScroll(lines[l])]
  /\ idleTicks' = IdleCount
  /\ screensaverActive' = (idleTicks' >= Threshold)
  /\ shown' =
       IF dirty \/ screensaverActive' # screensaverActive
               \/ \E l \in Lines : lines'[l].offset # lines[l].offset
         THEN IF screensaverActive' THEN Saver ELSE Screen(lines')
         ELSE shown
  /\ quiet' = Least(quiet + 1, IdlePlaying)
  /\ dirty' = FALSE /\ activity' = FALSE
  /\ UNCHANGED <<sources, status, waited, taken, events>>
-----------------------------------------------------------------------------
(* Meanwhile, from other tasks: a station says who it is, and where the     *)
(* tick still has the old pointers, it reads what became of them.           *)
Event == events < MaxEvents /\ events' = events + 1

HeaderComes(h) ==
  /\ Event /\ h # header
  /\ header' = h
  /\ taken' \in IF pc = "lines" THEN {taken, h} ELSE {taken}
  /\ UNCHANGED <<localName, meta, playing, volume, clock, synced, ip, lines,
                 status, idleTicks, screensaverActive, pc, waited, dirty,
                 activity, shown, quiet>>
StateChanges ==
  /\ Event
  /\ \/ playing' = ~playing /\ UNCHANGED <<localName, meta, volume, synced, ip>>
     \/ meta' \in Metas \ {meta} /\ UNCHANGED <<localName, playing, volume, synced, ip>>
     \/ localName' \in Names \ {localName} /\ UNCHANGED <<meta, playing, volume, synced, ip>>
     \/ volume' = 1 - volume /\ UNCHANGED <<localName, meta, playing, synced, ip>>
     \/ ~synced /\ synced' = TRUE /\ UNCHANGED <<localName, meta, playing, volume, ip>>
     \/ ip = "none" /\ ip' = "address" /\ UNCHANGED <<localName, meta, playing, volume, synced>>
  /\ UNCHANGED <<header, clock, lines, status, idleTicks, screensaverActive, pc,
                 waited, taken, dirty, activity, shown, quiet>>
ClockTicks ==
  /\ synced
  /\ clock' = 1 - clock
  /\ UNCHANGED <<header, localName, meta, playing, volume, synced, ip, lines,
                 status, idleTicks, screensaverActive, pc, waited, taken,
                 dirty, activity, shown, quiet, events>>

(* displayInit                                                              *)
Init ==
  /\ header = NoHeader /\ localName \in Names /\ meta = <<Empty, Empty>>
  /\ playing = FALSE /\ volume = 0 /\ clock = 0 /\ synced = FALSE /\ ip = "none"
  /\ lines = [l \in Lines |-> [text |-> Empty, offset |-> 0, pause |-> 0]]
  /\ dispVolume = 0 /\ dispTime = -1 /\ localStationName = Empty
  /\ redrawPending = TRUE /\ secTick = 0 /\ idleTicks = 0
  /\ screensaverActive = FALSE /\ pc = "wait" /\ waited = 0 /\ taken = NoHeader
  /\ dirty = FALSE /\ activity = FALSE /\ shown = Splash
  /\ quiet = 0 /\ events = 0

Task ==
  \/ SplashWaits \/ SplashShows
  \/ TakeNames \/ SetNames \/ SetTitle \/ OncePerSecond \/ Draw
Next ==
  \/ Task \/ StateChanges \/ ClockTicks
  \/ \E h \in Headers : HeaderComes(h)

Spec == Init /\ [][Next]_vars /\ WF_vars(Task)
-----------------------------------------------------------------------------
TypeOK ==
  /\ \A l \in Lines : /\ lines[l].text.len < TextSize
                      /\ lines[l].pause \in 0..ScrollPause
  /\ idleTicks \in 0..IdlePlaying /\ quiet \in 0..IdlePlaying
  /\ secTick \in 0..TicksPerSec - 1 /\ waited \in 0..SplashWait + SplashTicks

(* Between two ticks the screen shows what the tick before found, though    *)
(* only what changes is drawn; a long line never begins behind the place    *)
(* from which it fills the panel; and the clock takes the screen only when  *)
(* nothing has changed for its time.                                        *)
ScreenIsCurrent ==
  pc = "names" =>
    /\ shown.mode = "status" =>
         /\ shown.volume = dispVolume /\ shown.time = dispTime
         /\ \A l \in Lines : shown.lines[l] = <<lines[l].text, lines[l].offset>>
    /\ shown.mode = "saver" => shown.time = dispTime
    /\ (shown.mode = "saver") = screensaverActive
    /\ \A l \in Lines : \/ lines[l].offset = 0
                        \/ lines[l].offset + MaxChars <= lines[l].text.len
    /\ screensaverActive => quiet >= IdleStopped

(* A name or a genre that does not fit a line is not what was asked for,    *)
(* and every tick sets the line anew: the clock never takes the screen.     *)
TooLong == header.name.len >= TextSize \/ header.genre.len >= TextSize
=============================================================================
