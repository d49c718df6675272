------------------------------- MODULE Spiram --------------------------------
(***************************************************************************)
(* Transfers on the SPI bus (spilib.c) and their use for the memory chip   *)
(* (buffer.c): byte by byte or in bursts through the data words of the SPI *)
(* unit, whose byte order bits the bursts clear and put back.  A word has  *)
(* four bytes, a byte is a number below Base, an address has three bytes.  *)
(***************************************************************************)
EXTENDS Integers, Sequences, FiniteSetsExt

CONSTANTS
  Base,
  BurstMax,     \* SPI_BURST_MAX
  Sizes,        \* of the chips that may be there; 0 for none
  ProbeFrom,    \* the first address the probe tries (256)
  SdiMode,      \* SDI_MODE
  Data,         \* what is written
  Addresses     \* where

(* The probe comes to the size of a chip by doubling: what divides its      *)
(* quotient by the first address tried is 1 or even.  Without a chip there  *)
(* is no self-test, on which music sent in bursts (SDI_MODE 2) depends.     *)
SpiramAssumption ==
  /\ Base \in Nat \ {0, 1, 2, 3} /\ BurstMax \in Nat \ 0..7 /\ BurstMax % 4 = 0
  /\ ProbeFrom \in Nat \ 0..7 /\ ProbeFrom < Base * Base * Base
  /\ \A n \in Sizes \ {0} :
       /\ n \in Nat /\ n <= Base * Base * Base
       /\ \E q \in 1..n : /\ n = ProbeFrom * q
                          /\ \A p \in 1..q, d \in 2..q : q = p * d => \E h \in 1..d : d = 2 * h
  /\ SdiMode \in 0..2 /\ (0 \in Sizes => SdiMode # 2)
  /\ Data \subseteq Seq(0..Base - 1) /\ Addresses \subseteq Nat

VARIABLES
  spi,       \* the unit and what it is wired to: [order, phases, mosi, miso, cmd, addr, w, wire, chip]
  hardware,  \* external: "little" endian bursts, or the bytes of a word "swapped"
  spiram, spi_burst_enabled,
  size,      \* what the probe found
  got,       \* what the last spiramRead returned
  memory,    \* reference: what the chip should hold
  wanted,    \* reference: what the last read should return
  pc         \* where the boot is; "run"

vars == <<spi, hardware, spiram, spi_burst_enabled, size, got, memory, wanted, pc>>

-----------------------------------------------------------------------------
(* External: the chip, selected, is told a command, an address and data,    *)
(* and counts the address up, modulo its size.  Nobody reads while it is    *)
(* written: it keeps the data when it is deselected, the last in a place.   *)
Cell(chip, k) ==
  (Base * Base * chip.told[2] + Base * chip.told[3] + chip.told[4] + k) % chip.size

Answer(chip, k) ==
  IF chip.size > 0 /\ chip.selected /\ Len(chip.told) >= 4 /\ chip.told[1] = 3
  THEN chip.mem[Cell(chip, Len(chip.told) - 4 + k)] ELSE 0

Kept(chip) ==
  IF chip.size = 0 \/ Len(chip.told) < 4 \/ chip.told[1] # 2 THEN chip.mem
  ELSE [a \in DOMAIN chip.mem |->
          LET here == {k \in 0..Len(chip.told) - 5 : Cell(chip, k) = a}
          IN  IF here = {} THEN chip.mem[a] ELSE chip.told[5 + Max(here)]]

ChipSelect(s) == [s EXCEPT !.chip.selected = TRUE, !.chip.told = <<>>]
ChipDeselect(s) == [s EXCEPT !.chip.selected = FALSE, !.chip.mem = Kept(s.chip)]

(* External: byte k of the data is in word k \div 4, first or last first.   *)
Turned(s) == s.order \/ hardware = "swapped"
Place(s, k) == IF Turned(s) THEN 4 - (k % 4) ELSE 1 + (k % 4)

Sent(s, out) ==
  [s EXCEPT !.wire = @ \o out, !.chip.told = IF s.chip.selected THEN @ \o out ELSE @]
Received(s, n) ==
  [Sent(s, [k \in 1..n |-> 0]) EXCEPT
     !.w = [j \in DOMAIN @ |->
              IF 4 * j < n
              THEN [b \in 1..4 |-> LET k == 4 * j + (IF Turned(s) THEN 4 - b ELSE b - 1)
                                   IN  IF k < n THEN Answer(s.chip, k) ELSE 0]
              ELSE @[j]]]

(* External: one transaction goes through the phases that are switched on.  *)
Phase(s, p) ==
  CASE p \notin s.phases -> s
    [] p \in s.phases /\ p = "command" -> Sent(s, <<s.cmd>>)
    [] p \in s.phases /\ p = "addr" -> Sent(s, s.addr)
    [] p \in s.phases /\ p = "mosi" ->
         Sent(s, [k \in 1..s.mosi |-> s.w[(k - 1) \div 4][Place(s, k - 1)]])
    [] p \in s.phases /\ p = "miso" -> Received(s, s.miso)
Transaction(s) == Phase(Phase(Phase(Phase(s, "command"), "addr"), "mosi"), "miso")

(* What n rounds of a loop make of what it starts with.                     *)
Rounds(Round(_, _), start, n) ==
  LET made[i \in 0..n] == IF i = 0 THEN start ELSE Round(made[i - 1], i)
  IN  made[n]
-----------------------------------------------------------------------------
(* A word of one byte, which goes out first.                                *)
Alone(s, data) == [b \in 1..4 |-> IF b = (IF s.order THEN 4 ELSE 1) THEN data ELSE 0]

spi_put_char(s, data) ==
  Transaction([s EXCEPT !.phases = {"mosi"}, !.mosi = 1, !.w[0] = Alone(s, data)])

spi_get_char(s) == Transaction([s EXCEPT !.phases = {"miso"}, !.miso = 1])
GotChar(s) == IF s.order THEN s.w[0][4] ELSE s.w[0][1]

spi_bytewise_out(s, data) == Rounds(LAMBDA u, i : spi_put_char(u, data[i]), s, Len(data))
spi_bytewise_cmd(s, cmd, addr) == spi_bytewise_out(s, <<cmd>> \o addr)

(* The registers are set once, and every byte is a transaction.             *)
spi_write_bytes(s, data) ==
  LET ready == [s EXCEPT !.phases = (@ \ {"miso", "command", "addr", "dummy"}) \cup {"mosi"}, !.mosi = 1]
      Byte(u, i) == Transaction([u EXCEPT !.w[0] = Alone(u, data[i])])
  IN  IF data = <<>> THEN s ELSE Rounds(Byte, ready, Len(data))

(* The bytes packed, the first in the lowest place; the rest of the last    *)
(* word is 0.                                                               *)
spi_load_words(s, data) ==
  [s EXCEPT !.w = [j \in DOMAIN @ |->
     IF 4 * j < Len(data) THEN [b \in 1..4 |-> IF 4 * j + b <= Len(data) THEN data[4 * j + b] ELSE 0]
     ELSE @[j]]]
spi_unload_words(s, n) == [k \in 1..n |-> s.w[(k - 1) \div 4][1 + ((k - 1) % 4)]]

(* A transaction with the byte order bits cleared, which are put back.      *)
Burst(s, off, on) ==
  [Transaction([s EXCEPT !.order = FALSE, !.phases = (@ \ off) \cup on]) EXCEPT !.order = s.order]

spi_burst_out(s, data) ==
  Burst(spi_load_words([s EXCEPT !.mosi = Len(data)], data),
        {"command", "addr", "dummy", "miso"}, {"mosi"})

(* A transfer of n bytes in pieces, piece i from behind byte Done(i - 1).   *)
Pieces(n) == (n + BurstMax - 1) \div BurstMax
Done(i, n) == IF i * BurstMax < n THEN i * BurstMax ELSE n
Piece(data, i) == SubSeq(data, Done(i - 1, Len(data)) + 1, Done(i, Len(data)))

spi_write_buf(s, data) ==
  IF ~spi_burst_enabled THEN spi_bytewise_out(s, data)
  ELSE Rounds(LAMBDA u, i : spi_burst_out(u, Piece(data, i)), s, Pieces(Len(data)))

spi_sdi_write(s, data) ==
  CASE SdiMode = 2 -> spi_write_buf(s, data)
    [] SdiMode = 1 -> spi_write_bytes(s, data)
    [] SdiMode = 0 -> spi_bytewise_out(s, data)

BytesOf(address) == <<(address \div (Base * Base)) % Base, (address \div Base) % Base, address % Base>>

spi_cmd_write(s, cmd, address, data, burst) ==
  CASE Len(data) \notin 1..BurstMax -> s
    [] Len(data) \in 1..BurstMax /\ ~burst -> spi_bytewise_out(spi_bytewise_cmd(s, cmd, BytesOf(address)), data)
    [] OTHER -> Burst(spi_load_words([s EXCEPT !.mosi = Len(data), !.cmd = cmd, !.addr = BytesOf(address)], data),
                      {"dummy", "miso"}, {"command", "addr", "mosi"})

(* Returns the unit and what was read.                                      *)
GetChars(s, n) ==
  LET after[i \in 0..n] == IF i = 0 THEN s ELSE spi_get_char(after[i - 1])
  IN  <<after[n], [k \in 1..n |-> GotChar(after[k])]>>
spi_cmd_read(s, cmd, address, n, burst) ==
  CASE n \notin 1..BurstMax -> <<s, <<>>>>
    [] n \in 1..BurstMax /\ ~burst -> GetChars(spi_bytewise_cmd(s, cmd, BytesOf(address)), n)
    [] OTHER -> LET u == Burst([s EXCEPT !.miso = n, !.cmd = cmd, !.addr = BytesOf(address)],
                               {"dummy", "mosi"}, {"command", "addr", "miso"})
                IN  <<u, spi_unload_words(u, n)>>
-----------------------------------------------------------------------------
spiramWrite(s, address, data, burst) ==
  Rounds(LAMBDA u, i : ChipDeselect(spi_cmd_write(ChipSelect(u), 2, address + Done(i - 1, Len(data)),
                                                  Piece(data, i), burst)),
         s, Pieces(Len(data)))

spiramRead(s, address, n, burst) ==
  Rounds(LAMBDA r, i : LET read == spi_cmd_read(ChipSelect(r[1]), 3, address + Done(i - 1, n),
                                                Done(i, n) - Done(i - 1, n), burst)
                       IN  <<ChipDeselect(read[1]), r[2] \o read[2]>>,
         <<s, <<>>>>, Pieces(n))

Inverted(data) == [k \in DOMAIN data |-> Base - 1 - data[k]]

Init ==
  /\ hardware \in {"little", "swapped"}
  /\ \E n \in Sizes :
       spi = [order |-> TRUE, phases |-> {"command"}, mosi |-> 0, miso |-> 0, cmd |-> 0, addr |-> <<0, 0, 0>>,
              w |-> [j \in 0..BurstMax \div 4 - 1 |-> [b \in 1..4 |-> 0]], wire |-> <<>>,
              chip |-> [size |-> n, mem |-> [a \in 0..n - 1 |-> 0], selected |-> FALSE, told |-> <<>>]]
  /\ spiram = FALSE /\ spi_burst_enabled = TRUE /\ size = 0
  /\ got = <<>> /\ wanted = <<>> /\ memory = <<>> /\ pc = "boot"

(* The boot: one transfer a step, from one place of the code to the next.   *)
Writes(from, to, address, data) ==
  /\ pc = from /\ pc' = to
  /\ spi' = [spiramWrite(spi, address, data, spi_burst_enabled) EXCEPT !.wire = <<>>]
  /\ UNCHANGED <<hardware, spiram, spi_burst_enabled, size, got, memory, wanted>>

Reads(from, address, n) ==
  /\ pc = from
  /\ LET r == spiramRead(spi, address, n, spi_burst_enabled)
     IN  spi' = [r[1] EXCEPT !.wire = <<>>] /\ got' = r[2]
  /\ UNCHANGED hardware

(* Into service; the reference starts with what the chip then holds.        *)
Ready == pc' = "run" /\ memory' = spi'.chip.mem /\ wanted' = got'
Goes(to) == pc' = to /\ UNCHANGED <<memory, wanted>>

(* spiramInit: is there a memory that keeps what is written?                *)
Text == <<3, 2, 1, 2>>
Try == Writes("boot", "tried", 0, Text)
Detect ==
  /\ Reads("tried", 0, Len(Text))
  /\ spiram' = (got' = Text)
  /\ IF spiram' THEN Goes("burst out") ELSE Ready
  /\ UNCHANGED <<spi_burst_enabled, size>>

(* spiramBurstSelfTest: written in a burst and read byte by byte, then the  *)
(* other way round; bursts are given up when a comparison fails.            *)
Pattern == <<1, 0, 2, 1, 3>>
Agrees(read, pat) == read = pat
BurstOut ==
  /\ pc = "burst out" /\ pc' = "bytes in"
  /\ spi' = [ChipDeselect(spi_cmd_write(ChipSelect(spi), 2, ProbeFrom, Pattern, TRUE)) EXCEPT !.wire = <<>>]
  /\ UNCHANGED <<hardware, spiram, spi_burst_enabled, size, got, memory, wanted>>
BytesIn ==
  /\ pc = "bytes in" /\ pc' = "bytes out"
  /\ LET r == GetChars(spi_bytewise_cmd(ChipSelect(spi), 3, BytesOf(ProbeFrom)), Len(Pattern))
     IN  spi' = [ChipDeselect(r[1]) EXCEPT !.wire = <<>>] /\ got' = r[2]
  /\ spi_burst_enabled' = Agrees(got', Pattern)
  /\ UNCHANGED <<hardware, spiram, size, memory, wanted>>
BytesOut ==
  /\ pc = "bytes out" /\ pc' = "burst in"
  /\ LET u == spi_bytewise_cmd(ChipSelect(spi), 2, BytesOf(ProbeFrom))
     IN  spi' = [ChipDeselect(spi_bytewise_out(u, Inverted(Pattern))) EXCEPT !.wire = <<>>]
  /\ UNCHANGED <<hardware, spiram, spi_burst_enabled, size, got, memory, wanted>>
BurstIn ==
  /\ pc = "burst in" /\ pc' = "probe"
  /\ LET r == spi_cmd_read(ChipSelect(spi), 3, ProbeFrom, Len(Pattern), TRUE)
     IN  spi' = [ChipDeselect(r[1]) EXCEPT !.wire = <<>>] /\ got' = r[2]
  /\ spi_burst_enabled' = (spi_burst_enabled /\ Agrees(got', Inverted(Pattern)))
  /\ UNCHANGED <<hardware, spiram, size, memory, wanted>>

(* spiramProbeSize: the address is doubled until it is that of byte 0.      *)
Pa == <<1, 2, 3, 1>>
(* Mutant: what is written to find the end is what was written at 0.        *)
PbSame == Pa
Pb == Inverted(Pa)
ProbeOut == Writes("probe", "probed", 0, Pa)
ProbeIn ==
  /\ Reads("probed", 0, Len(Pa))
  /\ IF got' = Pa THEN size' = ProbeFrom /\ Goes("at") ELSE size' = 0 /\ Ready
  /\ UNCHANGED <<spiram, spi_burst_enabled>>
ProbeAt == size < Base * Base * Base /\ Writes("at", "zero", size, Pb)
ProbeZero ==
  /\ Reads("zero", 0, Len(Pb))
  /\ IF got' = Pb THEN Ready ELSE Goes("there")
  /\ UNCHANGED <<spiram, spi_burst_enabled, size>>
ProbeThere ==
  /\ Reads("there", size, Len(Pb))
  /\ IF got' # Pb THEN size' = size /\ Ready ELSE size' = 2 * size /\ Goes("at")
  /\ UNCHANGED <<spiram, spi_burst_enabled>>
(* No address is left to try.                                               *)
ProbeEnds ==
  /\ pc = "at" /\ size >= Base * Base * Base
  /\ UNCHANGED <<spi, hardware, spiram, spi_burst_enabled, size, got>> /\ Ready

Write(address, data) ==
  /\ pc = "run" /\ spiram /\ address + Len(data) <= spi.chip.size
  /\ spi' = [spiramWrite(spi, address, data, spi_burst_enabled) EXCEPT !.wire = <<>>]
  /\ memory' = [a \in DOMAIN memory |-> IF a - address \in 0..Len(data) - 1 THEN data[a - address + 1] ELSE memory[a]]
  /\ got' = <<>> /\ wanted' = <<>>
  /\ UNCHANGED <<hardware, spiram, spi_burst_enabled, size, pc>>

Read(address, n) ==
  /\ pc = "run" /\ spiram /\ address + n <= spi.chip.size
  /\ LET r == spiramRead(spi, address, n, spi_burst_enabled)
     IN  spi' = [r[1] EXCEPT !.wire = <<>>] /\ got' = r[2]
  /\ wanted' = [k \in 1..n |-> memory[address + k - 1]]
  /\ UNCHANGED <<hardware, spiram, spi_burst_enabled, size, memory, pc>>

(* A chunk of music for the decoder, which hears the wire.                  *)
SendChunk(data) ==
  /\ pc = "run"
  /\ LET s == spi_sdi_write(spi, data)
     IN  got' = s.wire /\ spi' = [s EXCEPT !.wire = <<>>]
  /\ wanted' = data
  /\ UNCHANGED <<hardware, spiram, spi_burst_enabled, size, memory, pc>>

Next ==
  \/ Try \/ Detect \/ BurstOut \/ BytesIn \/ BytesOut \/ BurstIn
  \/ ProbeOut \/ ProbeIn \/ ProbeAt \/ ProbeZero \/ ProbeThere \/ ProbeEnds
  \/ \E data \in Data : SendChunk(data) \/ \E a \in Addresses : Write(a, data) \/ Read(a, Len(data))

Spec == Init /\ [][Next]_vars
-----------------------------------------------------------------------------
(* Types; no transaction leaves the byte order changed or a chip selected.  *)
TypeOK ==
  /\ DOMAIN spi.w = 0..BurstMax \div 4 - 1 /\ spi.order /\ ~spi.chip.selected
  /\ spiram \in BOOLEAN /\ spi_burst_enabled \in BOOLEAN
  /\ pc \in {"boot", "tried", "burst out", "bytes in", "bytes out", "burst in", "probe", "probed", "at", "zero",
             "there", "run"}

(* The memory is found if it is there, and with its size.                   *)
MemoryFound == pc = "run" => spiram = (spi.chip.size > 0) /\ size = spi.chip.size

(* What is written is what the chip holds, what is read is what was         *)
(* written, and what the decoder hears is what it is sent, in any mix of    *)
(* bursts and single bytes, and also on a unit that packs words otherwise.  *)
BytesAsMeant == pc = "run" => spi.chip.mem = memory /\ got = wanted
==============================================================================
