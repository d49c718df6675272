----------------------------- MODULE SerialLine ------------------------------
(***************************************************************************)
(* The commands of the serial port: the interrupt handler of el_uart.c     *)
(* puts what arrives into a queue, uartInterfaceTask (user_main.c) takes   *)
(* it out one character at a time and runs a line when it ends.            *)
(***************************************************************************)
EXTENDS Integers, Sequences, SequencesExt

CONSTANTS
  UART_RX_QUEUE_SIZE,
  TmpSize,       \* sizeof(tmp)
  Characters,    \* that a line is made of; not 0
  MaxLine        \* bound: longest line typed

SerialLineAssumption ==
  /\ UART_RX_QUEUE_SIZE \in Nat \ {0} /\ TmpSize \in Nat \ {0, 1} /\ MaxLine \in Nat
  /\ Characters \cap {"nul", "eol"} = {}

VARIABLES
  uart_rx_queue,
  tmp,           \* 0..TmpSize - 1 -> character
  t,
  running,       \* checkCommand is at work on tmp
  line,          \* reference: the line as typed
  expected,      \* reference: lines that have ended and have not been run
  lost           \* history: has a character of what is not run yet been lost?

vars == <<uart_rx_queue, tmp, t, running, line, expected, lost>>

Blank == [i \in 0..TmpSize - 1 |-> "nul"]

Init ==
  /\ uart_rx_queue = <<>> /\ tmp = Blank /\ t = 0 /\ running = FALSE
  /\ line = <<>> /\ expected = <<>> /\ lost = FALSE
-----------------------------------------------------------------------------
(* uart_isr: a character that finds the queue full is counted and dropped.  *)
(* After that the user enters empty lines until all is run.                 *)
uart_isr(ch) ==
  /\ ch # "eol" => Len(line) < MaxLine /\ ~lost
  /\ uart_rx_queue' = IF Len(uart_rx_queue) < UART_RX_QUEUE_SIZE
                      THEN Append(uart_rx_queue, ch) ELSE uart_rx_queue
  /\ lost' = (lost \/ Len(uart_rx_queue) = UART_RX_QUEUE_SIZE)
  /\ line' = IF ch = "eol" \/ lost' THEN <<>> ELSE Append(line, ch)
  /\ expected' = IF lost' THEN <<>> ELSE IF ch = "eol" THEN Append(expected, line) ELSE expected
  /\ UNCHANGED <<tmp, t, running>>

(* Mutant: the buffer is not cleared.                                       *)
RunUncleared ==
  /\ running
  /\ running' = FALSE /\ t' = 0
  /\ expected' = IF expected = <<>> THEN expected ELSE Tail(expected)
  /\ UNCHANGED <<uart_rx_queue, tmp, line, lost>>

(* A line that is too long begins again at the front of tmp.                *)
TakeCharacter ==
  /\ ~running /\ uart_rx_queue # <<>> /\ Head(uart_rx_queue) # "eol"
  /\ uart_rx_queue' = Tail(uart_rx_queue)
  /\ tmp' = [tmp EXCEPT ![t] = Head(uart_rx_queue)]
  /\ t' = IF t + 1 = TmpSize - 1 THEN 0 ELSE t + 1
  /\ UNCHANGED <<running, line, expected, lost>>

TakeEol ==
  /\ ~running /\ uart_rx_queue # <<>> /\ Head(uart_rx_queue) = "eol"
  /\ uart_rx_queue' = Tail(uart_rx_queue)
  /\ running' = TRUE
  /\ UNCHANGED <<tmp, t, line, expected, lost>>

(* checkCommand returns, and the buffer is cleared.                         *)
Run ==
  /\ running
  /\ running' = FALSE /\ tmp' = Blank /\ t' = 0
  /\ expected' = IF expected = <<>> THEN expected ELSE Tail(expected)
  /\ UNCHANGED <<uart_rx_queue, line, lost>>

(* After a loss the user sees what was run, and begins afresh.              *)
Afresh ==
  /\ lost /\ ~running /\ uart_rx_queue = <<>> /\ t = 0 /\ tmp = Blank
  /\ lost' = FALSE
  /\ UNCHANGED <<uart_rx_queue, tmp, t, running, line, expected>>

Next ==
  \/ \E ch \in Characters \cup {"eol"} : uart_isr(ch)
  \/ TakeCharacter \/ TakeEol \/ Run \/ Afresh

Spec == Init /\ [][Next]_vars
-----------------------------------------------------------------------------
(* The string in tmp.                                                       *)
Command == LET n == CHOOSE n \in 0..TmpSize - 1 :
                      /\ tmp[n] = "nul" /\ \A i \in 0..n - 1 : tmp[i] # "nul"
           IN  [i \in 1..n |-> tmp[i - 1]]

(* Types; the last byte of tmp always ends the string.                      *)
TypeOK ==
  /\ Len(uart_rx_queue) <= UART_RX_QUEUE_SIZE
  /\ DOMAIN tmp = 0..TmpSize - 1 /\ tmp[TmpSize - 1] = "nul"
  /\ t \in 0..TmpSize - 2 /\ running \in BOOLEAN /\ lost \in BOOLEAN

(* Unless a character was lost to a full queue, the command that is run is  *)
(* the line that was typed, if it fits, and nothing of the lines before.    *)
LineAsTyped ==
  running /\ ~lost =>
    /\ expected # <<>>
    /\ Len(Head(expected)) < TmpSize - 1 => Command = Head(expected)
==============================================================================
