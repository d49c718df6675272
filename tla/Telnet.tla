------------------------------- MODULE Telnet --------------------------------
(***************************************************************************)
(* The line editor of telnet.c.  What the clients type arrives in blocks   *)
(* cut anywhere; one line buffer and one state of the negotiation serve    *)
(* them all.  Beside it runs the editor each of them believes to have.     *)
(***************************************************************************)
EXTENDS Integers, Sequences, SequencesExt, Functions

CONSTANTS
  Clients,
  Chars,       \* characters of a command
  BrecSize,    \* sizeof(brec)
  MaxUnread    \* bound: bytes on their way

TelnetAssumption ==
  /\ BrecSize \in Nat \ {0, 1} /\ MaxUnread \in Nat
  /\ Chars \cap {"cr", "lf", "bs", "esc", "[", "A", "iac", "opt", "enter", "up", "option"} = {}

VARIABLES
  unread,      \* client -> bytes that have not been read
  buf,         \* what telnetRead has still to look at
  pc,          \* where it is: "select", "loop", "command"
  brec, obrec, inIac, iiac,
  line,        \* reference: the line as typed
  history,     \* reference: the command before
  expected,    \* reference: commands entered and not yet run
  typist,      \* reference: who typed last
  kept,        \* history: is obrec the command run last?
  torn         \* history: has something been typed that cannot come out right?

vars == <<unread, buf, pc, brec, obrec, inIac, iiac, line, history, expected, typist, kept, torn>>
reference == <<line, history, expected, typist>>

Keys == Chars \cup {"enter", "bs", "up", "option"}
Bytes == Chars \cup {"cr", "lf", "bs", "esc", "[", "A", "iac", "opt"}
BytesOf(key) ==
  IF key = "enter" THEN <<"cr", "lf">>
  ELSE IF key = "up" THEN <<"esc", "[", "A">>
  ELSE IF key = "option" THEN <<"iac", "opt", "opt">>
  ELSE <<key>>

Init ==
  /\ unread = [c \in Clients |-> <<>>] /\ buf = <<>> /\ pc = "select"
  /\ brec = <<>> /\ obrec = <<>> /\ inIac = FALSE /\ iiac = 0
  /\ line = <<>> /\ history = <<>> /\ expected = <<>> /\ typist \in Clients
  /\ kept = TRUE /\ torn = FALSE
-----------------------------------------------------------------------------
Entered(command) ==
  /\ expected' = IF command = <<>> THEN expected ELSE Append(expected, command)
  /\ history' = IF command = <<>> THEN history ELSE command
  /\ line' = <<>>

Forget == line' = <<>> /\ history' = <<>> /\ expected' = <<>>
TornIf(condition) ==
  /\ torn' = (torn \/ condition)
  /\ IF torn' THEN Forget ELSE UNCHANGED <<line, history, expected>>

Quiet(c) == \A d \in Clients \ {c} : unread[d] = <<>>

(* What the editor that the client believes to have makes of a key.         *)
Edits(key) ==
  \/ key = "enter" /\ Entered(line)
  \/ key = "up" /\ Entered(history)
  \/ key = "option" /\ UNCHANGED <<line, history, expected>>
  \/ /\ key = "bs"
     /\ line' = IF line = <<>> THEN line ELSE Front(line)
     /\ UNCHANGED <<history, expected>>
  \/ /\ key \in Chars
     /\ line' = IF Len(line) < BrecSize - 1 THEN Append(line, key) ELSE line
     /\ UNCHANGED <<history, expected>>

Fits(bytes) == Len(buf) + FoldFunction(+, 0, [d \in Clients |-> Len(unread[d])]) + Len(bytes) <= MaxUnread

(* A client types a key.  Two that type at once cannot be told apart: they  *)
(* enter empty lines until that is over.                                    *)
Type(c, key) ==
  /\ Fits(BytesOf(key))
  /\ torn => key = "enter"
  /\ unread' = [unread EXCEPT ![c] = @ \o BytesOf(key)]
  /\ typist' = c
  /\ torn' = (torn \/ (typist # c /\ (line # <<>> \/ ~Quiet(c) \/ pc # "select" \/ inIac)))
  /\ IF torn' THEN Forget ELSE Edits(key)
  /\ UNCHANGED <<buf, pc, brec, obrec, inIac, iiac, kept>>

(* After a mix-up, with an empty line, the clients begin afresh.            *)
Afresh ==
  /\ torn /\ pc = "select" /\ brec = <<>> /\ ~inIac
  /\ \A c \in Clients : unread[c] = <<>>
  /\ torn' = FALSE
  /\ line' = <<>> /\ history' = obrec /\ expected' = <<>> /\ kept' = TRUE
  /\ UNCHANGED <<unread, buf, pc, brec, obrec, inIac, iiac, typist>>

(* telnetRead: read, of some of the bytes.                                  *)
Read(c, n) ==
  /\ pc = "select" /\ n \in 1..Len(unread[c])
  /\ buf' = SubSeq(unread[c], 1, n)
  /\ unread' = [unread EXCEPT ![c] = SubSeq(@, n + 1, Len(@))]
  /\ pc' = "loop"
  /\ UNCHANGED <<brec, obrec, inIac, iiac, reference, kept, torn>>

(* A client that goes leaves its line to the next one.                      *)
Leave(c) ==
  /\ pc = "select"
  /\ unread' = [unread EXCEPT ![c] = <<>>]
  /\ TornIf(line # <<>> \/ unread[c] # <<>> \/ inIac)
  /\ UNCHANGED <<buf, pc, brec, obrec, inIac, iiac, typist, kept>>

NextByte(b) == pc = "loop" /\ buf # <<>> /\ Head(buf) = b
Looked == buf' = Tail(buf)

EndOfBlock ==
  /\ pc = "loop" /\ buf = <<>>
  /\ pc' = "select"
  /\ UNCHANGED <<unread, buf, brec, obrec, inIac, iiac, reference, kept, torn>>

EndOfLine ==
  /\ ~inIac /\ (NextByte("cr") \/ NextByte("lf"))
  /\ Looked
  /\ pc' = IF brec = <<>> THEN "loop" ELSE "command"
  /\ UNCHANGED <<unread, brec, obrec, inIac, iiac, reference, kept, torn>>

Backspace ==
  /\ ~inIac /\ NextByte("bs")
  /\ Looked
  /\ brec' = IF brec = <<>> THEN brec ELSE Front(brec)
  /\ UNCHANGED <<unread, pc, obrec, inIac, iiac, reference, kept, torn>>

Character ==
  /\ ~inIac /\ \E ch \in Chars \cup {"[", "A", "opt"} :
       /\ NextByte(ch)
       /\ brec' = IF Len(brec) < BrecSize - 1 THEN Append(brec, ch) ELSE brec
  /\ Looked
  /\ UNCHANGED <<unread, pc, obrec, inIac, iiac, reference, kept, torn>>

(* An escape sequence: only if it is whole, and what follows it is dropped. *)
Escape ==
  /\ ~inIac /\ NextByte("esc")
  /\ LET whole == Len(buf) > 2
     IN  /\ buf' = IF whole THEN <<>> ELSE Tail(buf)
         /\ TornIf(~whole \/ Len(buf) > 3 \/ ~kept)
         /\ IF whole /\ buf[2] = "[" /\ buf[3] = "A"
            THEN brec' = obrec /\ pc' = IF obrec = <<>> THEN "loop" ELSE "command"
            ELSE UNCHANGED <<brec, pc>>
  /\ UNCHANGED <<unread, obrec, inIac, iiac, typist, kept>>

IacBegins ==
  /\ ~inIac /\ NextByte("iac")
  /\ Looked
  /\ inIac' = TRUE /\ iiac' = 0
  /\ UNCHANGED <<unread, pc, brec, obrec, reference, kept, torn>>

(* Mutant: the count of the bytes of an option begins anew in every block.  *)
IacRestarts ==
  /\ inIac /\ pc = "loop" /\ buf # <<>>
  /\ Looked
  /\ inIac' = (iiac + 1 < 2 /\ Len(buf) > 1)
  /\ iiac' = IF iiac + 1 = 2 \/ Len(buf) = 1 THEN 0 ELSE iiac + 1
  /\ UNCHANGED <<unread, pc, brec, obrec, reference, kept, torn>>

(* Any byte of a negotiation; telnetNego only answers.                      *)
Iac ==
  /\ inIac /\ pc = "loop" /\ buf # <<>>
  /\ Looked
  /\ inIac' = (iiac + 1 < 2)
  /\ iiac' = IF iiac + 1 = 2 THEN 0 ELSE iiac + 1
  /\ UNCHANGED <<unread, pc, brec, obrec, reference, kept, torn>>

(* telnetCommand: the command is remembered, if there is memory, and run.   *)
telnetCommand ==
  /\ pc = "command"
  /\ \/ obrec' = brec /\ kept' = TRUE
     \/ kept' = FALSE /\ UNCHANGED obrec
  /\ brec' = <<>>
  /\ pc' = "loop"
  /\ expected' = IF expected = <<>> THEN expected ELSE Tail(expected)
  /\ UNCHANGED <<unread, buf, inIac, iiac, line, history, typist, torn>>

Loop ==
  \/ EndOfBlock \/ EndOfLine \/ Backspace \/ Character \/ Escape \/ IacBegins \/ Iac
  \/ telnetCommand

Next ==
  \/ Loop \/ Afresh
  \/ \E c \in Clients : Leave(c) \/ \E key \in Keys : Type(c, key)
  \/ \E c \in Clients : \E n \in 1..MaxUnread : Read(c, n)

Spec == Init /\ [][Next]_vars
-----------------------------------------------------------------------------
(* Types.                                                                   *)
TypeOK ==
  /\ unread \in [Clients -> Seq(Bytes)] /\ buf \in Seq(Bytes)
  /\ pc \in {"select", "loop", "command"} /\ (pc = "select" => buf = <<>>)
  /\ Len(brec) < BrecSize /\ Len(obrec) < BrecSize
  /\ inIac \in BOOLEAN /\ iiac \in 0..1 /\ (~inIac => iiac = 0)
  /\ Len(line) < BrecSize /\ typist \in Clients /\ kept \in BOOLEAN /\ torn \in BOOLEAN

(* A command that is run is the one that was entered next, whatever the     *)
(* blocks it came in and the negotiation between: corrected, recalled, cut  *)
(* at the size of the buffer, and with nothing of the one before.           *)
CommandAsTyped ==
  pc = "command" /\ ~torn => expected # <<>> /\ brec = Head(expected)

(* When all that was typed has been looked at, every command has been run   *)
(* and the buffer has the line as it stands.                                *)
NothingForgotten ==
  pc = "select" /\ ~torn /\ ~inIac /\ (\A c \in Clients : unread[c] = <<>>)
    => expected = <<>> /\ brec = line
==============================================================================
