------------------------------- MODULE I2cBus -------------------------------
(***************************************************************************)
(* The two-wire bus to the display (ssd1306_i2c.c), driven one level at a  *)
(* time, and SSD1306_I2C_Write (ssd1306.c), which sends a transfer over    *)
(* it.  The panel listens the way the bus asks of a receiver: a fall of    *)
(* the data line under a high clock begins a transfer, a rise ends it, a   *)
(* bit counts when the clock rises, and the ninth clock is the panel's.    *)
(* The board may be reset in the middle, the panel keeps its power.        *)
(***************************************************************************)
EXTENDS Integers, Sequences, SequencesExt

CONSTANTS
  SSD1306_I2C_ADDR,  \* the address of the panel
  Controls,          \* control bytes of the transfers
  Datas,             \* and their data, sequences of bytes
  MaxRefused,        \* bound on the bytes the panel does not answer
  MaxResets          \* bound on the resets of the board

I2cBusAssumption ==
  /\ SSD1306_I2C_ADDR \in 1..126
  /\ Controls \subseteq 0..255
  /\ \A d \in Datas : d \in Seq(0..255)
  /\ {MaxRefused, MaxResets} \subseteq Nat

VARIABLES
  m_nLast,  \* the levels the board drives: <<data, clock>>
  pc,       \* the call under way: "init", "start", "byte", "ack", "stop"; or "off", "idle"
  driven,   \* how many of its levels have been driven
  i,        \* the byte of the transfer that is sent
  wanted,   \* bytes of the last transfer
  ret,      \* what SSD1306_I2C_Write returns
  free,     \* the panel was out of any transfer when the last one began
  panel,    \* the panel's side of the bus
  refused, resets

vars == <<m_nLast, pc, driven, i, wanted, ret, free, panel, refused, resets>>

Powers == <<1, 2, 4, 8, 16, 32, 64, 128, 256>>
Bit(b, k) == (b \div Powers[k + 1]) % 2

(* The levels a call drives; the first may be one the lines have already.   *)
master_start == << <<1, m_nLast[2]>>, <<1, 1>>, <<0, 1>> >>
master_stop == << <<0, m_nLast[2]>>, <<0, 1>>, <<1, 1>> >>
master_writeByte(b) ==
  [n \in 1..25 |-> IF n = 1 THEN <<m_nLast[1], 0>>
                   ELSE <<Bit(b, 7 - ((n - 2) \div 3)), IF n % 3 = 0 THEN 1 ELSE 0>>]
(* Mutant: the board does not let go of the data line for the answer.       *)
getAckHolding == << <<m_nLast[1], 0>>, <<m_nLast[1], 0>>, <<m_nLast[1], 1>>, <<1, 0>> >>
getAck == << <<m_nLast[1], 0>>, <<1, 0>>, <<1, 1>>, <<1, 0>> >>
(* 28 clocks, and a stop.                                                   *)
master_init ==
  [n \in 1..62 |-> <<IF n \in {2, 60, 61} THEN 0 ELSE 1,
                     IF n < 4 THEN 0 ELSE IF n < 60 THEN n % 2 ELSE 1>>]
-----------------------------------------------------------------------------
(* The panel: where it is in a transfer, the clocks and the bits of the     *)
(* byte, whether it holds the data line down, and what it got since the     *)
(* transfer began.                                                          *)
Free == [in |-> FALSE, n |-> 0, byte |-> 0, pulls |-> FALSE, got |-> << >>]

Line(sda, p) == IF p.pulls THEN 0 ELSE sda

(* The data line goes from one level to another under a clock.              *)
SdaMoves(p, from, to, scl) ==
  IF scl = 0 \/ from = to THEN p
  ELSE IF to = 0 THEN [Free EXCEPT !.in = TRUE]
  ELSE [p EXCEPT !.in = FALSE, !.n = 0, !.byte = 0]

SclRises(p, sda) ==
  IF p.in /\ p.n < 8
    THEN [p EXCEPT !.n = @ + 1, !.byte = 2 * @ + sda]
    ELSE p

(* A first byte that is not its address ends the panel's interest.          *)
Answers(p) ==
  p.got # << >> \/ p.byte = 2 * SSD1306_I2C_ADDR

SclFalls(p, answers) ==
  IF p.pulls THEN [p EXCEPT !.pulls = FALSE, !.n = 0, !.byte = 0]
  ELSE IF ~p.in \/ p.n < 8 THEN p
  ELSE IF answers THEN [p EXCEPT !.pulls = TRUE, !.got = Append(@, p.byte)]
  ELSE [p EXCEPT !.in = FALSE, !.n = 0, !.byte = 0]

(* setDC writes the data line first, then the clock.                        *)
AfterSda(sda) ==
  SdaMoves(panel, Line(m_nLast[1], panel), Line(sda, panel), m_nLast[2])
Hears(p, sda, scl, answers) ==
  IF m_nLast[2] = scl THEN p
  ELSE IF scl = 1 THEN SclRises(p, Line(sda, p)) ELSE SclFalls(p, answers)

(* The panel answers what is meant for it, or fails to.                     *)
setDC(sda, scl) ==
  LET p == AfterSda(sda)
      asked == m_nLast[2] = 1 /\ scl = 0 /\ p.in /\ p.n = 8 /\ ~p.pulls
  IN  /\ m_nLast' = <<sda, scl>>
      /\ \/ /\ panel' = Hears(p, sda, scl, Answers(p))
            /\ UNCHANGED refused
         \/ /\ asked /\ Answers(p) /\ refused < MaxRefused
            /\ refused' = refused + 1
            /\ panel' = Hears(p, sda, scl, FALSE)
-----------------------------------------------------------------------------
(* The board starts its pins: both lines are high before.                   *)
gpio_init ==
  /\ pc = "off"
  /\ pc' = "init"
  /\ driven' = 0
  /\ UNCHANGED <<m_nLast, i, wanted, ret, free, panel, refused, resets>>

I2C_Write(control, data) ==
  /\ pc = "idle"
  /\ pc' = "start" /\ driven' = 0 /\ i' = 1
  /\ wanted' = <<2 * SSD1306_I2C_ADDR, control>> \o data
  /\ ret' = TRUE /\ free' = ~panel.in
  /\ UNCHANGED <<m_nLast, panel, refused, resets>>

(* A call drives its next level.                                            *)
Drives(call, levels) ==
  /\ pc = call /\ driven < Len(levels)
  /\ setDC(levels[driven + 1][1], levels[driven + 1][2])
  /\ driven' = driven + 1
  /\ UNCHANGED <<pc, i, wanted, free, resets>>

(* getAck: the level that counts is the one under the high clock.           *)
Acknowledge ==
  /\ Drives("ack", getAck)
  /\ ret' = IF driven' = 3 THEN Line(m_nLast'[1], panel') = 0 ELSE ret

Drive ==
  \/ Acknowledge
  \/ /\ \/ Drives("init", master_init) \/ Drives("start", master_start)
        \/ Drives("byte", master_writeByte(wanted[i])) \/ Drives("stop", master_stop)
     /\ UNCHANGED ret

Returns(call, levels) ==
  /\ pc = call /\ driven = Len(levels)
  /\ driven' = 0
  /\ UNCHANGED <<m_nLast, wanted, ret, free, panel, refused, resets>>

(* What SSD1306_I2C_Write calls next.                                       *)
Call ==
  \/ Returns("start", master_start) /\ pc' = "byte" /\ UNCHANGED i
  \/ Returns("byte", master_writeByte(wanted[i])) /\ pc' = "ack" /\ UNCHANGED i
  \/ /\ Returns("ack", getAck)
     /\ IF ret /\ i < Len(wanted) THEN pc' = "byte" /\ i' = i + 1
                                  ELSE pc' = "stop" /\ UNCHANGED i

Return ==
  /\ Returns("init", master_init) \/ Returns("stop", master_stop)
  /\ pc' = "idle"
  /\ UNCHANGED i

(* The lines go high, in either order, and the panel knows nothing of it.   *)
Reset ==
  /\ pc # "off" /\ resets < MaxResets
  /\ resets' = resets + 1
  /\ pc' = "off" /\ m_nLast' = <<1, 1>>
  /\ driven' = 0 /\ i' = 1 /\ wanted' = << >> /\ ret' = FALSE /\ free' = FALSE
  /\ \/ panel' = LET p == AfterSda(1) IN Hears(p, 1, 1, FALSE)
     \/ LET p == Hears(panel, m_nLast[1], 1, FALSE)
        IN  panel' = SdaMoves(p, Line(m_nLast[1], p), Line(1, p), 1)
  /\ UNCHANGED refused

Init ==
  /\ m_nLast = <<1, 1>> /\ pc = "off" /\ driven = 0 /\ i = 1
  /\ wanted = << >> /\ ret = FALSE /\ free = FALSE /\ panel = Free
  /\ refused = 0 /\ resets = 0

Next ==
  \/ gpio_init \/ Drive \/ Call \/ Return \/ Reset
  \/ \E c \in Controls, d \in Datas : I2C_Write(c, d)

Spec == Init /\ [][Next]_vars
-----------------------------------------------------------------------------
TypeOK ==
  /\ m_nLast \in (0..1) \X (0..1)
  /\ pc \in {"off", "idle", "init", "start", "byte", "ack", "stop"}
  /\ ret \in BOOLEAN
  /\ panel.n \in 0..8 /\ panel.byte \in 0..255

(* SSD1306_I2C_Write returns true only when the panel got the bytes of the  *)
(* transfer, all of them and no other; a transfer it breaks off brought a   *)
(* part of them.  Either way the panel is out of the transfer: a reset of   *)
(* the board in the middle of a byte costs the first transfer at most.      *)
TransferArrives ==
  pc = "idle" /\ wanted # << >> =>
    /\ ~panel.in /\ ~panel.pulls
    /\ free => IF ret THEN panel.got = wanted
                      ELSE IsStrictPrefix(panel.got, wanted)
=============================================================================
