----------------------------- MODULE WoltApiMC -----------------------------
(* WoltApi with three calls: one that refreshes, one that queues meanwhile *)
(* and one whose POST was abandoned before either.  Nothing runs once all  *)
(* calls are made, so a deadlock is not an error.                          *)
EXTENDS WoltApi
=============================================================================
