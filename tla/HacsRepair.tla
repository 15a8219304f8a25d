------------------------------ MODULE HacsRepair ------------------------------
(***************************************************************************)
(* scripts/repair_hacs_205.py: invocations of the repair script, which     *)
(* read, save and replace one file of HACS.  Each step is an access to the *)
(* file system, and an invocation may fail or be killed before each.  A    *)
(* loss of power ends them all and may take what was never flushed.        *)
(*                                                                         *)
(* A file is known by its digest: "original" and "repaired" are the two    *)
(* the script accepts, "modified" has local changes, "newer" belongs to    *)
(* another version of HACS.  Modes and owners of files are left out, so    *)
(* are previews, which only read.                                          *)
(***************************************************************************)
EXTENDS Naturals

CONSTANTS Run,          \* invocations that may overlap; each may be repeated
          MaxFaults,    \* bound: failures, kills and losses of power
          HacsMeanwhile \* HACS may install while the script is running

ASSUME ConstantsAssumption == MaxFaults \in Nat /\ HacsMeanwhile \in BOOLEAN

File   == {"original", "repaired", "modified", "newer"}
Backup == {"absent", "partial", "original", "foreign"}

Place == {"idle", "read", "decided", "unsaved", "saving", "saved", "copying", "copied"}

VARIABLES
    version,  \* of the manifest
    target,   \* repositories/base.py
    backup,   \* .hacs-205-release-url-backup/base.py
    flushed,  \* the backup would survive a loss of power
    pc,       \* where each invocation is
    mode,     \* --restore or not
    source,   \* what it read from the target
    faults,   \* failures so far
    lost      \* history: the saved original went with the power

files  == <<version, target, backup, flushed>>
counts == <<faults, lost>>
vars   == <<files, pc, mode, source, counts>>

TypeOK ==
    /\ version \in {"2.0.5", "other"}
    /\ target \in File
    /\ backup \in Backup
    /\ flushed \in BOOLEAN
    /\ pc \in [Run -> Place]
    /\ mode \in [Run -> {"repair", "restore"}]
    /\ source \in [Run -> File]
    /\ faults \in 0 .. MaxFaults
    /\ lost \in BOOLEAN

Init ==
    /\ version = "2.0.5" /\ target \in {"original", "modified"}
    /\ backup \in {"absent", "original", "foreign"} /\ flushed = TRUE
    /\ pc = [r \in Run |-> "idle"]
    /\ mode = [r \in Run |-> "repair"]
    /\ source = [r \in Run |-> "original"]
    /\ faults = 0 /\ lost = FALSE

Result(r) == IF mode[r] = "repair" THEN "repaired" ELSE "original"

Goto(r, place) == pc' = [pc EXCEPT ![r] = place]

-----------------------------------------------------------------------------
(* The script.  A refusal and "Already repaired" end it without having     *)
(* touched a file.                                                         *)

(* The manifest names the version and the target is read.                  *)
Begin(r, m) ==
    /\ pc[r] = "idle" /\ version = "2.0.5"
    /\ Goto(r, "read")
    /\ mode' = [mode EXCEPT ![r] = m]
    /\ source' = [source EXCEPT ![r] = target]
    /\ UNCHANGED <<files, counts>>

(* repaired_source accepts the original only; a restore wants the repaired *)
(* file and an intact backup.                                              *)
Decide(r) ==
    /\ pc[r] = "read"
    /\ Goto(r, IF mode[r] = "repair" /\ source[r] = "original" THEN "decided"
               ELSE IF mode[r] = "restore" /\ source[r] = "repaired" /\ backup = "original"
               THEN "saved" ELSE "idle")
    /\ UNCHANGED <<files, mode, source, counts>>

LookForBackupTrusts(r) ==   \* mutant: a backup that is there is not compared
    /\ pc[r] = "decided"
    /\ Goto(r, IF backup = "absent" THEN "unsaved" ELSE "saved")
    /\ UNCHANGED <<files, mode, source, counts>>

LookForBackupRefuses(r) ==   \* mutant: any backup that is there is refused
    /\ pc[r] = "decided"
    /\ Goto(r, IF backup = "absent" THEN "unsaved" ELSE "idle")
    /\ UNCHANGED <<files, mode, source, counts>>

(* An existing backup must be what was read.                               *)
LookForBackup(r) ==
    /\ pc[r] = "decided"
    /\ Goto(r, IF backup = "absent" THEN "unsaved"
               ELSE IF backup = source[r] THEN "saved" ELSE "idle")
    /\ UNCHANGED <<files, mode, source, counts>>

(* open("xb") creates the file, or fails if somebody else has.             *)
CreateBackup(r) ==
    /\ pc[r] = "unsaved"
    /\ IF backup = "absent"
       THEN backup' = "partial" /\ flushed' = FALSE /\ Goto(r, "saving")
       ELSE UNCHANGED <<backup, flushed>> /\ Goto(r, "idle")
    /\ UNCHANGED <<version, target, mode, source, counts>>

WriteBackupOfResult(r) ==   \* mutant: the repaired source is saved
    /\ pc[r] = "saving"
    /\ backup' = Result(r) /\ flushed' = FALSE /\ lost' = FALSE
    /\ Goto(r, "saved")
    /\ UNCHANGED <<version, target, mode, source, faults>>

WriteBackup(r) ==
    /\ pc[r] = "saving"
    /\ backup' = source[r] /\ flushed' = FALSE /\ lost' = FALSE
    /\ Goto(r, "saved")
    /\ UNCHANGED <<version, target, mode, source, faults>>

(* mkstemp, written and flushed beside the target.                         *)
StartCopy(r) ==
    /\ pc[r] = "saved"
    /\ Goto(r, "copying")
    /\ UNCHANGED <<files, mode, source, counts>>

EndCopyInPlace(r) ==   \* mutant: the target itself is opened for writing
    /\ pc[r] = "copying"
    /\ target' = "modified"
    /\ Goto(r, "copied")
    /\ UNCHANGED <<version, backup, flushed, mode, source, counts>>

EndCopy(r) ==
    /\ pc[r] = "copying"
    /\ Goto(r, "copied")
    /\ UNCHANGED <<files, mode, source, counts>>

(* os.replace puts the copy in the target's place at once.                 *)
Replace(r) ==
    /\ pc[r] = "copied"
    /\ target' = Result(r)
    /\ Goto(r, "idle")
    /\ UNCHANGED <<version, backup, flushed, mode, source, counts>>

-----------------------------------------------------------------------------
(* An error or a kill ends an invocation where it is; a backup it was      *)
(* writing stays as it is.                                                 *)
Stop(r) ==
    /\ pc[r] # "idle" /\ faults < MaxFaults
    /\ Goto(r, "idle")
    /\ faults' = faults + 1
    /\ UNCHANGED <<files, mode, source, lost>>

(* The copy is flushed before it is moved and the move counts as durable;  *)
(* the backup is never flushed by the script.                              *)
PowerLoss ==
    /\ faults < MaxFaults /\ faults' = faults + 1
    /\ backup' \in IF flushed THEN {backup} ELSE {backup, "partial", "absent"}
    /\ flushed' = TRUE
    /\ lost' = (lost \/ backup # backup')
    /\ pc' = [r \in Run |-> "idle"]
    /\ UNCHANGED <<version, target, mode, source>>

(* The system writes the backup back some time later.                      *)
Flush ==
    /\ ~flushed /\ flushed' = TRUE
    /\ UNCHANGED <<version, target, backup, pc, mode, source, counts>>

HacsInstalls ==
    /\ HacsMeanwhile \/ \A r \in Run : pc[r] = "idle"
    /\ \/ version' = "2.0.5" /\ target' = "original"
       \/ version' = "other" /\ target' = "newer"
    /\ UNCHANGED <<backup, flushed, pc, mode, source, counts>>

Step(r) ==
    \/ Decide(r) \/ LookForBackup(r) \/ CreateBackup(r) \/ WriteBackup(r)
    \/ StartCopy(r) \/ EndCopy(r) \/ Replace(r)

Next ==
    \/ \E r \in Run : Begin(r, "repair") \/ Begin(r, "restore") \/ Step(r) \/ Stop(r)
    \/ PowerLoss \/ Flush \/ HacsInstalls

Spec == Init /\ [][Next]_vars

(* An invocation that runs ends, whoever writes the backup among them, and *)
(* somebody tries the repair again and again.                              *)
Saves == \E r \in Run : WriteBackup(r)
Fairness(r) == WF_vars(Step(r)) /\ SF_vars(Begin(r, "repair"))
RunsFairness == \A r \in Run : Fairness(r)

FairSpec == Spec /\ WF_vars(Saves) /\ RunsFairness

-----------------------------------------------------------------------------
(* Properties.                                                             *)

(* "preserve a private original before atomic replacement"                 *)
(* (repair_hacs_205.py:38): while the repaired file is installed the       *)
(* original is in the backup, whichever invocations overlapped, failed or  *)
(* were killed.  Only a loss of power can take it, and only before the     *)
(* system has written it back.                                             *)
OriginalKept == target = "repaired" /\ ~lost => backup = "original"

(* The installed file changes at once and between known files only, local  *)
(* changes are never overwritten (docs/INSTALLATION.md:49), and the        *)
(* original is saved at the moment it is replaced.                         *)
Atomic == INSTANCE AtomicRepair WITH saved <- backup = "original"
AtomicSpec == Atomic!Spec

(* A repair that failed or was killed succeeds when it is tried again, in  *)
(* spite of other invocations, unless a backup was left half written:      *)
(* every later invocation refuses that (repair_hacs_205.py:60).            *)
RetriesSucceed ==
    target = "original" /\ backup \in {"absent", "original"}
        ~> target # "original" \/ [](backup = "partial")

=============================================================================
