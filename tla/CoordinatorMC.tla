---------------------------- MODULE CoordinatorMC ----------------------------
(* Coordinator with two orders, a venue memory of one page, and a backoff  *)
(* of two ticks that doubles once, to a cap of three.                      *)
EXTENDS Coordinator
=============================================================================
