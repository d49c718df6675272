# Ka-Radio in TLA+

Ka-Radio is the firmware of an Internet radio: an ESP8266 that receives a
SHOUTcast or HTTP stream, keeps it in a ring buffer (20 kB of RAM or 128 kB of
serial RAM) and feeds it to a VS1053 decoder, while it serves a web page, web
sockets, telnet, a serial console, an infrared remote and a display.  It runs
FreeRTOS: pre-emptive tasks that share globals, binary semaphores and a few
critical sections.  This directory holds TLA+ models of its core, model-checked
by TLC, with proofs checked by TLAPS.  `PROJECT.json` lists the runs, which lines
each definition models, the hazards the properties are aimed at, and what was
found; file names below are relative to `src/user/`.

## 1. The system

Tasks, by priority (a higher one pre-empts a lower one):

| task | prio | does |
|---|---|---|
| `upgrade_task` | 8 | downloads firmware (`ota.c`) |
| `clientTask` | 6 | dials, receives, separates audio from titles, fills the buffer (`webclient.c`) |
| `serverclientTask` | 6 | one per HTTP connection, at most 3 (`webserver.c`) |
| `vsTask` | 5 | empties the buffer into the decoder (`webclient.c`, `vs1053.c`) |
| `serversTask` | 4 | accepts and reads web, web socket and telnet sockets (`servers.c`) |
| `irTask` | 3 | keys of the remote (`ir.c`) |
| `uartInterfaceTask` | 2 | boot, serial console, keypad (`user_main.c`, `interface.c`) |
| timers, interrupts | - | clock, deferred saves, sleep and wake, update timeout; UART and IR edges |

Components, their state, operations and interactions, what makes them hard, and
what makes them correct:

* **Stream buffer** (`buffer.c`). State: two cursors and an "empty" flag, because
  equal cursors mean both empty and full. `bufferWrite` and `bufferRead` take a
  snapshot in a critical section, copy outside of it, and publish in a second
  one; `bufferReset` clears the cursors. Hard: writer and reader overlap; a reset
  falls into a read. Correct: a byte queue that loses, repeats and reorders
  nothing.
* **Stream client** (`webclient.c`). State: `cstatus`, `once`, `playing`, `server`,
  the semaphores `sConnect`, `sConnected`, `sDisconnect`, counters of timeouts and
  of reconnects. Operations: the loop of `clientTask` (dial, receive, soft
  reconnect, restart, stop), and `clientConnect`/`clientDisconnect`/
  `clientIsConnected` called from every other task. Hard: requests race with
  timeouts, restarts and each other; a binary semaphore forgets a second give;
  waits for room and for the end of the buffer depend on another task. Correct: a
  stop stops, a stall is bridged without a gap and given up in the end, no wait
  is for ever, the idle state is visible.
* **Receive callback** (`webclient.c`). State: static `metad`, `rest`, `chunked`,
  `cchunk`, `metadata`. It parses a header, removes the chunk structure, splits
  audio from ICY titles and waits for room. Hard: every boundary falls anywhere
  in a block, a receive in the midst of a wait for more fails. Correct: exactly the audio reaches the
  buffer; titles are whole; the next response inherits nothing of what went wrong.
* **Web server, player control** (`webserver.c`, `servers.c`). State: connections, a
  counting semaphore, sleep and wake timers. It turns POSTs and commands into
  requests to the client and into settings. Hard: up to three handlers at once.
  Correct: see the client; settings as asked for.
* **Web sockets** (`websocket.c`). State: five slots of sockets. Operations: accept,
  read, remove, broadcast. Hard: broadcasts from any task while slots come and go,
  and descriptors are reused. Correct: no frame to a socket that is not a web
  socket's; every socket is closed in the end.
* **Telnet** (`telnet.c`). State: slots, and *one* line buffer and negotiation state
  for all clients. Hard: blocks cut anywhere, options inside a line. Correct: a
  command executed is a line that was typed.
* **Settings and stations** (`eeprom.c`). State: flash sectors of 4 kB with settings
  and 255 stations. Operations read, change and rewrite sectors. Hard: no lock; a
  crash between erase and write; copies of the settings record held for seconds.
  Correct: a save changes what it was asked to change; a crash costs one sector.
* **Firmware update** (`ota.c`). State: the upgrade record, retries, a timeout timer.
  Hard: timeout against task, retry after a broken-off download. Correct: the
  image is taken over only if complete, memory freed once.
* **Infrared remote** (`ir.c`). State: the decoder of frames in the interrupt handler,
  a queue of eight keys, the digits of a station number. Hard: lost and bent edges, a
  full queue, repeats of a key that did not come through, a counter that wraps, a volume that
  others set as well. Correct: the key as sent, its repeats as its own, a mute that can be ended.
* **Clock** (`ntp.c`). State: a counter of milliseconds that wraps, the last answer of
  the server, when to ask next. Correct: close to the server's time; one summer a year.
* **Decoder and SPI bus** (`vs1053.c`, `spilib.c`). State: the chip's registers and FIFO, a mutex,
  the SPI unit with its byte order. Hard: registers are changed by a read and a later
  write; DREQ is looked at before the bus is taken; bursts of words in either byte
  order. Correct: settings stay, the FIFO does not run over, bytes arrive as meant.
* **Boot and network** (`user_main.c`). Two networks, an access point, settings it changes on
  the way. Correct: an access point only where the saved networks refuse.
* **Commands** (`interface.c`, `el_uart.c`): lines of the serial port, through a queue.
* **Display** (`display.c`, `ssd1306.c`, `ssd1306_i2c.c`). State: the bus levels, a picture in memory, a
  copy of what the panel shows, what the status screen has drawn. Hard: resets in the
  midst of a byte, transfers that fail, a panel that is away, names that are freed.
  Correct: the panel shows the picture, the picture what is played.
* **mDNS** (vendored).

How they meet: every user interface calls `clientConnect` and `clientDisconnect` in
its own task; `clientTask` and `vsTask` share the buffer and `playing`; every one
reads and writes settings records; web sockets get broadcasts from `clientTask`
(titles), from handlers and from the remote.

## 2. The modules

| module | models | kind |
|---|---|---|
| `ByteQueue` | what the buffer promises: a bounded FIFO of bytes that may be dropped as a whole | abstract specification |
| `RingBuffer` | `buffer.c`, the ring | component, refines `ByteQueue` |
| `Playback` | `clientTask`'s writes, start, stop and resets against `vsTask`, on the `RingBuffer` | composition |
| `StreamClient` | the control of `clientTask`, its semaphores and all that call it | component |
| `StreamStop` | `StreamClient` with a history variable: was the last request a stop? | property |
| `IcyDemux` | the metadata part of `clientReceiveCallback` | component, and the specification of `Reception` |
| `ChunkedDecoder` | its chunk part | component |
| `Reception` | both, on one block | composition, refines `IcyDemux` |
| `StreamServer` | the streams and chunks that TLC lets a server send | external |
| `Eeprom` | `eeprom.c`, the boot's saves, the volume saver, the handlers that save | component |
| `Sockets` | `servers.c`, `websocket.c`, connections of `webserver.c` and `telnet.c` | component |
| `Telnet`, `SerialLine` | the line editor of `telnet.c`; the serial port | components |
| `IrReceiver`, `IrRemote` | the interrupt handler and the task of `ir.c` | components |
| `Decoder` | `vs1053.c` and the tasks that use it | component |
| `Inputs` | the five components above from `Telnet` on, side by side | |
| `Ota` | `ota.c` | component |
| `NtpClock`, `TimeZone` | `ntp.c` | components |
| `WifiBoot` | `initWifi` | component |
| `Spiram` | `spilib.c` and the memory chip of `buffer.c` | component |
| `I2cBus`, `Panel`, `Drawing`, `StatusScreen` | `ssd1306_i2c.c`, `ssd1306.c`, `display.c` | components |
| `Board` | the nine above, side by side | |
| `...Proofs`, `MC...` | proofs; instances for TLC | |

`Inputs` and `Board` put parts side by side that share no variable in the code
either: `Init` chooses the one that a behaviour watches (`active`), the others
stand still. Their state graph is the union of the parts', not the product, and each
property speaks of its part. Where parts do interact they are composed for real:
`Playback` on `RingBuffer`, `Reception` of `ChunkedDecoder` and `IcyDemux`, `Sockets` across four
files, `Decoder` with the three tasks that use it.

**RingBuffer.** `wptr`, `rptr`, `bempty` are the variables of the code. `bufferWrite`
is the first critical section, with its early return and its clamp to the room there is;
`WriteByte` is one byte of the copy that follows outside of it (`Address` has the split at
the end of the memory); `PublishWrite` is the second section. Reading likewise. `sent` and `taken` are history:
bytes are numbered in the order they are written, so that order and loss can be
seen. A reset drops what is stored, which moves `taken`. `DrainedReset`
says whether callers keep the contract in `bufferReset`'s comment ("Caller must
stop/drain playback first").

**Playback.** The real callers do not keep that contract: the stop sequence resets
the buffer while `playing` is still 1, waits 400 ms, and resets again after the
close. `Playback` instantiates `DrainedReset = FALSE` and follows the order of the
code; the 400 ms are the guard of `Close` ("a read that was under way has ended"),
the one use of real time in the module. A soft reconnect goes from receiving to
the next connection without a reset. Users change `once` at any time (`Ask`), so that an
instant play may find data that came before it: what the connection left unplayed is then played
late (`LeaveUnplayed`) and has no stop sequence but its end. There the guard of `Close` stands for the
100 ms of `clientDisconnect`.

**StreamClient.** `cpc` is the place in `clientTask`, one action per stretch between two
points at which another task can matter: each semaphore call, each blocking
call, each write to shared state after a delay. `upc[u]` is the place of a user's
task: `playStationInt` and `/instant_play` (disconnect, poll until not connected, set
the station, resolve, poll until connected), `cli.instant` (no polls), `/stop` (only if
connected), `cli.stop`, buttons and sleep timer (just ask), `/setStation` (stops the
radio when memory is short and starts it again), and the wake timer. `held[u]` is
the moment inside `clientIsConnected` in which `sConnected` has been taken and not yet
given back. What a received block leads to is a choice over the outcomes of
`clientReceiveCallback` (one action each). Abstractions: the callback is one step; the buffer is
"empty or not"; `errno` is a choice; polls that give up after 100 tries may
give up at any try; a null `server` is a fault that restarts the chip (`DialFaults`).

**IcyDemux, ChunkedDecoder, Reception.** A byte is a record of its kind (audio, length, title), its
place, and a value, which the code sometimes overwrites with 0. `Receive(len)` of `IcyDemux`
delivers a block of any size; `TitleEnds`/`TitleGoesOn` are the two branches for a split
title, `Round` is one round of the metadata loop, `AudioOnly` the rest. `ChunkedDecoder` moves the
bytes of a chunked block together in place (`decoded`, `left`), with the wait for the first size behind a
header (`WaitMore`) and that for the next one in the midst of the block (`ReceiveMore`, `chunkWaitRetries`). `Reception`
hands its result to `IcyDemux`; seen through `Direct`, it is an `IcyDemux` that got a stream without chunks.
What a server may send is an assumption on constants: `IsStream` says where, from the end of one period, the
next one's audio, length byte and title are, and `IsChunked` at which place of the wire which bytes of
the stream are sent as a chunk, of any size. A size line is three bytes (a digit stands for the size), so `Look` is at
least 4 where the code waits for 9.

Four things lead the code astray, and `astray`, a history variable, names the first of them since the last header:
a receive that fails in the wait for the first size, whose -1 is added to the length (`WaitFails`; `Adrift` is what
comes of it: any block, a length of -1 or an end); a wait for the next size that is given up after failures, upon
which the connection is made again and the block goes on with its size lines in it (`ReceiveMoreFails`); a block that
is the line feed of a chunk and nothing else, whose length becomes -1 (`NegativeLength`: it is appended to a title
or written as audio together with what is behind it in memory, `Rubbish`); and chunks so small that what is received
for their sizes, up to nine bytes each, does not fit behind the block (`Overruns`: the end of what is followed, since
what lies behind `bufrec` is not modelled). `AudioReceived`, `TitleReceived` and `DirectSpec` hold until then and again
from the next header, so none of it may be inherited. A receive that returns 0 in
one of the waits changes nothing and is repeated, in the code for ever. The text of a title is not
interpreted and titles of more than 256 bytes, which the code discards, are left out.

**Eeprom.** A cell is a record of 256 bytes; the settings record is two cells, the volume
and the rest, since tasks copy the record as a whole and change one part of it. `pc[t]` is the place of
a task in `eeSetDatax` (`read`, `erase`, `write`: each is a point where another task
can run) or in `eeSetClear` (`clear`, `blank`). Writing is a bitwise *and*, as in NOR
flash. `stage` is the boot of `uartInterfaceTask`, which holds a copy of the settings from its
first line to the last save. `may` is history: the values a cell was last meant to
have; `broken` and `stale` name the sectors in which a fault between erase and write,
or an overlap of two tasks, excuses a loss. The addresses a boot writes, the second
settings record and failures inside `eeSetClear` are left out; testtask and the timer that follows it are one `Saver`.

**Sockets.** `conn` is what is behind a descriptor, numbered in the order of being made;
lwIP hands out the lowest free one. `spc` is the place in `serversTask`, `hpc[h]` in a handler, `bpc[t]`
in a broadcast; an action is what a task does between two points at which another can
run. `leaked` names the sockets that a full table or two registrations at once lost,
`stray` says that a task has closed the socket of another: a refused telnet client is closed by
`telnetAccept` and again by `serversTask` (`servers.c:223`), and behaviours are followed up to the first
time that hits a stranger. Several ready sockets in one `select` are several rounds; two
reads of a slot in one expression are merged; a frame is one write.

**Telnet, SerialLine.** `Telnet` takes bytes out of blocks cut anywhere, with the
negotiation state in the middle; beside it runs the editor each client believes to
have (`line`, `history`, `expected`). What several clients type at the same time mixes in the one
buffer: `torn` marks it and the property is about the rest. `IAC AYT` cannot be reached
(the state before it takes every command for an option), and recall needs the three
bytes of the key in one block. `SerialLine` drops what finds the queue full and begins again when a line
is too long (`lost`).

**IrReceiver, IrRemote.** Edges are intervals of a few classes; frames are scaled to 4 bytes of
one bit; a frame may lose an edge, have one bent, or be noise, at most once each. What comes into the
queue of `IrRemote` is what the receiver can publish: any key, the code of no key, or a repeat after
anything, each if there is room. An item carries which key was published last before it (`after`), since that is what
the task takes a repeat for (`RepeatsTheKeyBefore`): not the key that is held down, if its frame was
rejected, came to nothing or found the queue full. The timeout of the queue and the look at the clock that follows are one step. The volume is
set by users, by the remote and by `clientTask`, which on starting and stopping keeps it (`volume`), sets 0 and
puts it back a while later (`fading`), or is forced to play and takes a volume of 0 for its own: `MuteKnown` says
what the remote knows of a mute, which can be put back behind its back. That a user sets
the volume to 0 is left out.

**Decoder.** `job[t]` is the list of bus transactions a task has before it, `phase[t]` how far
the first is; `TakeBus`, selects and the release are steps. A field is changed by a
read and a later write; `stale` marks a write back of what another task changed in
between. Tasks other than the one that starts it begin after `VS1053_Start`; accesses
to WRAM and the I2S set-up are left out, as is the memory chip, which takes the same mutex.

**Ota.** Byte k of the image has value k, a checksum tells an image from everything
else. `pc` is the place in `upgrade_task`, `upgrade_check` the timer. A step of the task after the
timer freed what it uses is `Fault`, after which nothing is promised. A success at
the last try is taken for a failure, as in the code.

**NtpClock, TimeZone, WifiBoot.** The counter is modulo `UptimeWrap`; `truth` and `late` are the answer
and its age. `gmtime`'s static buffer, which display and console both change in place
(`ntp.c:292`, `display.c:302`), is left out. `TimeZone` walks through the hours around both changes, with zones
that cross midnight and month; the hour of a change is judged in the standard time of the zone, whatever its comments say. In `WifiBoot` a network that answers does so before the
tries end; a silent first network leads to the access point without a look at the
second, and the address of the access point is saved as the station's: both are what
the code does (`user_main.c:271`, `user_main.c:330`).

**Spiram.** The SPI unit is a record (byte order, phases, data words), the chip is told a command, an address and
data, answers a read at once and keeps what it was told to write when it is deselected. A transaction moves all bytes of a
phase together; a loop of the code is a function of how many rounds are done (`Rounds`). The boot's test, its self-test of
bursts and the search for the size are one action per
transfer; then there are reads, writes and chunks for the decoder, on a unit that packs
words in either order.

**I2cBus, Panel, Drawing, StatusScreen.** `I2cBus` drives one level at a time; a panel that
follows the I2C rules listens, the board may be reset at any level; the first transfer
after a reset may be swallowed (`free`). `Panel` has the driver's copy against the panel's memory, with
transfers that fail at any byte and a panel that goes away and comes back blank. If it is back before
a transfer has met it away, the driver goes on with a wrong copy (`unseen`), and the panel stays
dark until a transfer fails. `Drawing`
states each primitive as a set of points. `StatusScreen` is the task of `display.c`:
what it remembers to have drawn, the scrolling, the saver. A station that cannot be read, one that was read before and
one that is read now are one step (`TakeNames`), and a header that is freed meanwhile is its old or its new
text, not whatever is in that memory. Names of 64 characters or more never
equal their copy, so their lines are set anew each tick (`TooLong`); filled triangles may have
holes, filled circles over the left or upper edge wrap; characters outside the font are left out.

## 3. The runs

| run | what it shows |
|---|---|
| `ring_buffer` | N = 3 cells: a read gets the next bytes, nothing unpublished or overwritten (`ReadsTheStream`), `NoSharedCell`, refinement of `ByteQueue`, every byte leaves if the reader runs |
| `playback` | N = 4: with the resets as the code has them every new stream finds a sound buffer (the second reset repairs what the first one broke), the wait for room ends, an instant play is heard to its last byte, also one that is begun only when its connection has ended |
| `stream_client` | all requests of a user, the timers, failing names and connections: an idle client is seen as not connected, a stop seen after data silences the radio (`StopTaken`), a stream that goes silent is given up, a soft reconnect leaves buffer and playback to `vsTask` |
| `receive` | streams with titles, in chunks or not, cut into blocks anywhere, with reconnects and failing receives: until something leads the code astray, and from the next header on again, exactly the audio reaches the buffer, titles are whole, chunks cannot be seen (`DirectSpec`, a refinement) |
| `eeprom` | three tasks save settings, stations and the volume, during and after the boot: what neither a fault between erase and write nor an overlap of two tasks has touched is as it was saved; the boot wipes the flash only where the settings were lost; the volume in use reaches the flash in the end |
| `sockets` | serversTask, two handlers, a broadcasting task, another task's socket, three descriptors: the tables hold open sockets, everything open has an owner, a broadcast reaches who stays, accepting at the table of handlers stops only when every handler waits for half a request. Behind half of a web socket's frame `serversTask` itself turns round for ever and accepts nothing (`HalfFrame`, of which no property says more); a frame to a descriptor that another task was given meanwhile is noticed by no property |
| `inputs` | telnet, serial line, remote and decoder, 7 properties; of the remote: a key as sent, a repeat for the key published before it and a mute the remote knows of (`KeysInTurn`), a number played in time |
| `board` | update, clock, zone, boot, memory chip and display, 12 properties |
| `stop_undone` (violated) | a stop during a receive that times out is taken for a lost stream: "try restart" |
| `icy_title_lost` (violated) | a split title that ends with a block is not saved |
| `stations_undone` (violated) | a save of the settings that overlaps the save of a station in the same sector undoes it |
| `ota_retry` (violated) | a try that broke off in the midst of a word leaves its bytes to the next one |

The violated runs are the findings of `PROJECT.json`; each states what a comment
or the documentation says. `stop_undone` is the one a user notices; `icy_title_lost` costs a title
until the next one; after `ota_retry` the checksum refuses the image, so that a retry fails.

Disagreements between code and comments that the models have and no run of their own shows:

* Summer time: "are we at/past 2am gmt" (`ntp.c:68`), "are we before 1am gmt (2am localtime)" (`ntp.c:81`). `applyTZ`
  has moved the time into the zone before it looks at the hour, so that the changes come at 2 and at 1 o'clock of the
  zone's standard time: those of GMT in zone 0 only, an hour early in zone 1, twelve hours in zone 12. `DstIsOneInterval`
  says what the code does.
* Repeats of the remote: "it is the key held down" (`ir.c:254`). `irTask` knows the key it took last, and a key whose frame is
  rejected (`ir.c:114`), is not decoded or finds the queue full (`ir.c:116`) is none of those; its repeats are taken for
  the key before, and change the volume if that was a volume key. `RepeatsTheKeyBefore` says what the code does.
* Mute: "the volume commands set the volume again" (`ir.c:310`). Between `clientTask`'s reading the volume of a muted radio and
  its putting it back (`webclient.c:1352-1359`, `webclient.c:1092-1097`) a volume key ends the mute, and then the 0 comes back:
  the radio is mute, `irMuted` is not set, and the mute key has to be pressed twice. `MuteKnown` names the case.
* The line feed of a chunk: "missing lf: remove cr only, wait lf in next data" (`webclient.c:893`). If it comes as a block of
  its own, "a complete chunk in pdata, remove crlf" is done (`webclient.c:887`) and the length is -1: the line feed and
  what an earlier block left behind it are appended to a title or, as `len` is compared unsigned with `metad`
  (`webclient.c:1021`), written as audio. `Reception` has the step, and `astray` names it.

Others: a header resets the count of soft
reconnects (`webclient.c:1247`, against the comment at line 47), so a server that sends
headers and no audio is dialled for ever; `connect()` failing in a soft reconnect leaves the
client idle with `playing` at 1 (`webclient.c:1300`); the audio byte behind a title is
overwritten by its terminator (`webclient.c:336`), which `AudioReceived` sets aside; a panel that loses its supply
between two transfers and is back for the next stays dark (`ssd1306.c:196`), which `PanelAsKnown` sets aside; `vs1053.c:466` says that
it sets the treble to the maximum and does not.

**Bounds, and why they are enough.** `RingBuffer`: 3 cells and requests of up to 4 bytes give a wrap in
the middle of a transfer, a full and an empty buffer, and partial transfers; the
theorems hold for every size. `MaxBytes` ends the stream (a reset is always possible, so deadlock checking is
on). `Playback`: 4 cells, a start at more than half, 7
bytes: enough to fill, wrap, stop in any phase of a read, and start a second stream.
`StreamClient` has no bound of its own: its counters are the code's (2 timeouts, 3 soft
reconnects); one user makes all kinds of requests one after the other, and the
theorems hold for any set of users. `receive`: `metaint` 0 and 2, units of 2 instead of 16
bytes, titles of 0 to 2 units, two periods of up to 10 bytes together, chunks of 3 bytes and of one and the last one, blocks
of 1 to 8 bytes, waits that are given up at the second error: every boundary of titles and of chunks falls before, at
and behind a cut and at each other, and chunks of one byte outgrow the block. Its view leaves out the text of a title
that is saved or given up, which is not read again. An overrun is not followed, so deadlock is not checked. `icy_title_lost` uses `metaint` 0 to 3 and three periods. `Eeprom`: two sectors of three cells,
a save of two stations that reaches over the border, and two events in all, each a request or a
fault: enough for two overlapping saves, a retry, a fault or power failure in any
step of a save, and a second boot. `Sockets`: two web socket slots and one for telnet, two handlers, three
descriptors and connections, one broadcast: tables fill, two register at once, a descriptor is reused while a
broadcast runs; the theorems hold for any number of each. `Inputs`: two telnet clients, lines shorter and longer than
the buffers; 12 edges of noise, enough for a frame of its own; queues of 2 and 3; a clock of 3 ticks that wraps in a wait of 1; one
field of each register, a FIFO of one chunk. `Board`: images that fit one sector and that need three, in words of two
bytes, blocks of 1 to 3, five tries; a counter of 8 that wraps within a resync; chips of 0, 16 and 64 bytes, bursts of
two words and data that end before, at and behind a word and a burst; a panel of 2 pages of 8 columns, two pictures that
differ at the edges and within a page, two faults, one absence, one reset; names that fit a line, scroll and are cut;
three events of the player. Where events are used up or a boot is over the system stops, so these runs do not check deadlock.

**Fairness.** `RingBuffer`: the reader. `Playback`: `vsTask` (it blocks in nothing but delays
and the chip), and the two waiting loops of `clientTask`, which poll. The network is
not fair. `StreamClient`: `clientTask` as a whole, since `recvfrom`, `connect` and the delays
time out and its one wait without a timeout, for `sConnect`, is a guard; `vsTask`; each
user's task once it has begun a request (`Proceed`), never the request itself. A loop in the callback that does not
count a closed connection (line 911) is outside of this assumption, see the
hazards. `SilenceEnds` is conditional on silence, which the environment decides, and
sets aside a playlist server that accepts and never answers. `Eeprom`: a save that
has begun, the boot, the return of the power, and the volume saver, which a timer calls every
few seconds; that there are 4 kB of heap at one of these calls is assumed. `Sockets`: `serversTask` creates a handler
when there is one, and a handler goes on; a peer that asks for nothing more is timed out; a peer that has sent half a
request is not. `Ota`: the timer, and the task where it does not wait for the network. Display: its task runs and
its ticks come, said as states that recur.

## 4. The proofs

`PlaybackProofs` begins with the buffer alone, for all `N`, `MaxChunk` and `MaxBytes` in `Nat` (`N = 0` is a failed allocation) and
under `Contract == DrainedReset = TRUE`: `TypeCorrect`, `CountCorrect`, `ReadsCorrect`,
`CellsDisjoint`, `Refinement`. The properties are not inductive: what a transfer
in progress has copied, and that the snapshot of the other side can only become
more cautious, must be known. The invariant says that the
stored bytes are `taken+1..sent`, each in its cell; that the cells a write is filling are
free and hold its bytes up to its position; that what a read has copied are the next
bytes. The refinement follows step by step: publications are the steps of the queue,
everything else stutters.

Its second half is the composition, where that contract is broken, for every size: `StreamsSound` and `WaitsForPlayer`. A
reset under a read leaves the cursors with anything in them, so the invariant has two
levels: bounds that hold even in a broken buffer, and the full invariant of the ring
while the client receives. It is established anew by the second reset, which rests on
`Silent` (no read is under way once the 400 ms are over, and none begins while `playing` is 0).
`WaitsForPlayer` rests on the client waiting only between the start of playing and the stop. What is assumed here
of the constants (`PlaybackAssumption`, among it that the contract is broken) is a hypothesis of these theorems and not
an assumption of the module, so that it does not empty those of the first half; `MCPlayback` has TLC check it.

`StreamClientProofs`, for any `Users` and any requests: `TypeCorrect`, `IdleAnnounced` (the
semaphore is there or held by a poller; it is inductive, given the types), and
`SoftReconnectKeeps`, an action property that rests on `SoftIsLeft`: `softReconnect` is set
only where the loop is left, with `playing` true, and cleared by the very next step of
the client.

`SocketsProofs`, for any number of descriptors, slots, handlers, connections and
broadcasts: `TypeCorrect`, `SlotsCorrect`, `OwnedCorrect`, `AllTold`. The tables alone are not inductive: that
no two slots hold one descriptor rests on what tasks hold while a socket passes from one to the other
(`Owning`: one owner at most, and what is owned is open; `Kept`: one at least). Hence a new
descriptor, being free, is nobody's, and a close by the owner takes nothing from another. For the
broadcasts `Telling` says that each web socket there from the beginning has been written to or
is in a slot that is still ahead. All three hold until a stray close.

`EepromProofs`, for any handlers, sectors, sizes, stations and faults: `TypeCorrect`, `OthersCorrect`,
`WipedCorrect`. It assumes of `Both` (a write over what is there) only that it yields a value and that
erased flash takes the value written. Whether a cell keeps its value is decided when the sector was
read, so the invariant relates the flash to every copy of it that a task carries, while the sector is
not lost: the image of `eeSetDatax` before the erase is the flash but for what is to change
(`FreshImage`) and after it is all there is (`Writing`); a settings record read is as the flash is
(`FreshDevice`), but for a network of the first use that could not be saved; no two tasks
are between erase and write of such a sector (`Alone`); and `Copying` says at which stage of the boot
who may carry a record.

`InputsProofs`, for the five parts of `Inputs`, each while it is the active one. Assumed is
that digits are digits, that characters are none of the control bytes, that `free`, which says that nobody has the
bus, is no task, and that sizes are sizes.
`RemoteCorrect`, `RemoteInTime`: a repeat in the queue is after the same key as what stands before it
(`Repeats`), what was published last is what the task will have taken last (`Newest`), and the code's clock has
gone on by what the time since the last digit is, while no digit waits in the queue (`Timed`). `MuteKnown`
is inductive as it stands.
`BusCorrect`, `FieldsCorrect`: `Jobs` says in which order the transactions of a task
follow each other, since a job is a sequence of any length; `BusHeld` that who is in a transfer has the mutex and which
select is low; `FifoBound` counts those that have looked at DREQ and not sent; `ReadBack` and
`Volumes` say of every value that is read and not yet written back that the chip has it still, or
that it is marked as out of date.
`ReceiverCorrect`: `Tracked` follows a frame edge by edge: the decoder is in step, with no
wrong bit in a whole frame and one at most in a broken one, or out of step, and then it does not find
back into that frame. `SerialCorrect`: the lines entered lie in the queue one behind the other (`Laid`; where
each begins is existential), and the part taken out is in the buffer, unless it was too long (`TakenOut`).
`TelnetCorrect`: between the line buffer and the line the client believes to have lie the bytes that were typed and
not looked at, so the invariant has an editor after each of them (`Follows`): the first is the one at work, with
its place in an option or a command (`Now`), the last is the client's (`AsTyped`), and each byte takes one to
the next (`Looks`). A byte that is looked at takes the first editor off, a key puts one to three at the end, and a command that is
run shifts the count of all (`Shifted`). This needs no induction over the bytes: it is a statement about neighbours.

The attempts corrected two models. In the decoder the conditions under which a register is
composed overlapped. And `KeyAsSent` had held only because `MaxNoise` was 3: a lead mark and three bits of noise, and a
first edge that was bent into a bit, were published as a key. But the first edge of a frame ends a pause longer than all
lengths, so that bending it says nothing of the code: `BendEdge` now leaves it alone,
and `MaxNoise` is 12, which a whole frame of noise needs.

`ReceptionProofs`, for all streams, codings and sizes that the assumptions allow: `AudioCorrect`, `TitleCorrect`,
`DirectCorrect`, from one invariant, `ReceptionInv`, which holds until the code is led astray and is established anew
by every header, whatever state the one before left (`NextResponse`, `HeaderTaken`). Its part for titles says where in the stream the code is:
inside a stretch of audio, `metad` bytes before its length byte (`InAudio`), or inside a title, with `-rest` bytes
of it missing and the others in `metadata` (`InTitle`); the block is what has arrived, but for a terminator on an audio byte
(`IsBlock`), and what is written is the audio before it (`IsWritten`). Its part for chunks says where on the wire the
code is: in which chunk, and that `cchunk` is what is missing of it (`GoesOn`), so that what is decoded is what comes
next in the stream (`IsDecoded`).
That blocks fit what `Direct` takes is the guard of the receive and the last bound of `WaitMore`: `RECEIVE + 2 * Look` is two bytes less than `bufrec`. For these proofs `IcyDemux` was given
its streams by where things are in them, instead of by filtering and flattening sequences, and `AudioInOrder` says what
it said by the places of the audio bytes.

`BoardProofs` and `MemoryProofs`, for the nine parts of `Board`, for all sizes, waits, texts and pictures that their
assumptions allow. `UpgradeCorrect`: while the timer has not taken the task's buffers away, the
sectors erased and the bytes received are what the place in `upgrade_task` says (`Progress`), the flash is
blank where the next bytes go (`Blank`), so that a write is what was meant, and once an image is judged the task
writes no more (`Judged`). `ClockCorrect`: uptime and the stamp of the last answer differ by the time since,
up to one round of the counter (`Kept`). `BootCorrect`: a network that answers has been heard before the
tries are over (`Answered`), so silence seen is silence, and the second network is asked only after a refusal
(`Trying`). `ScreenCorrect`: what was drawn last is what there is to draw, unless the tick knows better or the line
is one that moves with the next drawing (`Drawn`). `ZoneCorrect`: the Sunday before a day is
the last of its month just when it is one of the last seven days, and `applyTZ` and the statement, in the standard time of the zone, agree in each case.
`PanelCorrect`: while the panel is there, no transfer has failed and it was not away unnoticed (`unseen`), the pages not marked are on it (`Copies`), its
cursor is where the data belong (`Cursor`), and its settings follow those of the driver transfer by transfer
(`Settled`). A page is sent as an interval of columns, whose ends are the least and the greatest of a set: that they
exist follows from the well-foundedness of the naturals (`WFMin`).

`TransferCorrect` is about the two-wire bus, for any address, control bytes and data. Its invariant says level by level what the panel has of the transfer: inside a byte the bits that have passed
(`Taking`), after the eighth whether it answers (`Answering`) or was never asked (`Deaf`), and, of a
transfer that found the panel free, all bytes before (`First`). A panel that still holds the
data line, because the board was reset in the middle of its answer, does not see the next Start (`Began`): of that
transfer nothing is promised but that the panel is out of it at the end.
The model was put into a form to reason about for this: the levels of a call are a function of how many
have been driven (`Drives`), no longer a list that is used up.

`DrawingCorrect` is about the primitives of `ssd1306.c`, for any panel that coordinates of 16 bits
and rows of 8 allow, and any font. They are computed by loops, and a loop is a recursive function of the round
(`Rounds`), so that what holds before the first round and is kept by each holds after the last (`UpTo`, by the
well-foundedness of the naturals), and so that the states it passes exist at all (`Made`). The loops have these invariants. `DrawLine` (`Walked`):
after x columns and y rows the error is half the longer side and x rows less y columns away from it, which keeps the
points within half a point of the line (`HalfKept`) and lets the walk end in the other end (`FlatEnd`, `SteepEnd`).
`DrawFilledTriangle` (`SideAt`): the point reached is on the side or half a point off, inside the hull. `DrawCircle` (`Turned`):
`f` is the midpoint's distance from the ring, so every point of the eighth is within r of r * r (`OnRing`) and every row and
column of it is met; a filled circle's rows cover what the ring encloses (`RowCovers`). `PutsScaled` (`Spelled`): after k characters the picture shows those and is white elsewhere. For these
proofs `Drawing` was given its loops one round at a time, and its assumption says what had been tacit: corners on the panel,
circles that do not reach over its left and upper edge, and a panel small enough for the types of the code.

`MemoryProofs` holds `MemoryCorrect`, the theorem of `MemoryWorks`, for any size that the probe can come to, any length
of burst (8 or more, in words) and any data and addresses. A transaction says on the wire what its phases
are (`Says`), a byte, a burst, a piece and a transfer what their parts say one behind the other: each loop by
induction on its rounds, with lemmas of `BoardProofs`. What the chip makes of it is a memory with the data put over what
was there (`KeptIs`) and an answer from where it was asked (`AnswerIs`), so that pieces one behind the other are the
transfer at once (`AllWritten`, `AllRead`).
A unit that packs words the other way round sends the bytes of a burst in another order (`OnWire`): that is why the
properties are not inductive and the boot is in the invariant. `RamInv` is the types, and at each step of the boot what the
chip holds and what is known of the bursts (`BootAt`): before the self-test a burst may be turned, and the boot's text, turned twice,
is itself, so the chip is found all the same; a pattern with a partial word does not survive it, so that behind the self-test
bursts are used only where they are straight; and each size that is tried divides the chip's
(`Doubled`), so that the write that comes round to place 0 is the one at the chip's size.
The assumption says what had been tacit: sizes are such a doubling, or 0; and where there may be no chip, and hence no
self-test, music is not sent in bursts (`SDI_MODE` 2, which is not the default), since a unit that packs words the other
way round would go unnoticed.
For this proof `Spiram` was given its transactions a phase at a time instead of as a fold over bytes.

Only model-checked: all liveness properties (fairness and ENABLED are beyond the proof system), with the bounds
above. Each invariant that a passing run checks is stated by a theorem.

## 5. Not modelled

* The text of headers, playlists, URLs and JSON (`webclient.c`, `webserver.c`, `interface.c`): string
  parsing; `StreamClient` has its outcomes as choices.
* What a page, a POST or a command says, beyond playing and the settings; files and
  formats.
* The second settings record (`settings1`), the migration of old settings.
* The decoder's patches and identification, the frequency of the bus, flash maps, the start of the tasks.
* mDNS (vendored), flash strings, web pages (data).
* Hazards without a property have a note in `PROJECT.json`: a second URL set while
  `clientTask` dials; the size of a chunk that never comes; the stray close.

What could come next: the second settings record.

## 6. Running

    tlc -config MCRingBuffer.cfg MCRingBuffer
    tlapm SocketsProofs.tla

Modules and configurations of the other runs are in `PROJECT.json`. The longest are `inputs` (1.4
million states) and `board` (one million), one to two minutes each on two cores.
