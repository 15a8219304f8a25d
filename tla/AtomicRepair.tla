----------------------------- MODULE AtomicRepair -----------------------------
(***************************************************************************)
(* What the HACS repair promises about the installed file: it changes from *)
(* one whole known file to the other at once, to the repaired one only     *)
(* while the original is saved.  A file with local changes is overwritten  *)
(* by HACS alone, and so is a newer one, unless HACS installs it under a   *)
(* running script.                                                         *)
(***************************************************************************)
CONSTANT HacsMeanwhile   \* HACS may install while the script is running

VARIABLES target,   \* the installed file
          saved     \* the original is in the backup

Init == target \in {"original", "modified"} /\ saved \in BOOLEAN

Save == target' = target /\ saved' = TRUE

Replaceable == {"original", "repaired"} \cup (IF HacsMeanwhile THEN {"newer"} ELSE {})

Repair == target \in Replaceable /\ saved /\ target' = "repaired" /\ saved' = saved

Restore == target \in Replaceable /\ target' = "original" /\ saved' = saved

\* The unflushed backup is lost with the power.
Lose == target' = target /\ saved' = FALSE

HacsInstalls == target' \in {"original", "newer"} /\ saved' = saved

Next == Save \/ Repair \/ Restore \/ Lose \/ HacsInstalls

Spec == Init /\ [][Next]_<<target, saved>>
=============================================================================
