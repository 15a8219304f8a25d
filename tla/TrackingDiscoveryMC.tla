------------------------- MODULE TrackingDiscoveryMC -------------------------
(* TrackingDiscovery with one order, which an earlier version may have     *)
(* registered in any way: neither callback relates two orders.             *)
EXTENDS TrackingDiscovery
=============================================================================
