--------------------------- MODULE MCStreamClient ----------------------------
(* A task that serves users, making every kind of request in turn, next to *)
(* the client, the decoder task and the wake timer.                        *)
EXTENDS StreamClient
==============================================================================
