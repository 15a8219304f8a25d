---------------------------- MODULE OrderStatusMC ----------------------------
(* OrderStatus with every word class and the types the code treats apart.  *)
EXTENDS OrderStatus
=============================================================================
