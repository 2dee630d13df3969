----------------------------- MODULE MCShutdown -----------------------------
(* Shutdown on a small instance: two connections, queues of one. *)
EXTENDS Shutdown

CONSTANTS c1, c2
=============================================================================
