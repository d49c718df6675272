------------------------------ MODULE MCSockets ------------------------------
(* Three descriptors, two slots for web sockets and one for telnet, two      *)
(* handlers, and one task besides serversTask that broadcasts.               *)
EXTENDS Sockets

MCFds == 1..3
=============================================================================
