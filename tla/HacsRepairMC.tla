----------------------------- MODULE HacsRepairMC -----------------------------
(* HacsRepair with two invocations that may overlap, each any number of    *)
(* times, and two failures or losses of power.                             *)
EXTENDS HacsRepair
=============================================================================
