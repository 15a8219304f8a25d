---------------------------- MODULE ConfigEntryMC ----------------------------
(* ConfigEntry with two logins and small bounds.                           *)
EXTENDS ConfigEntry
=============================================================================
