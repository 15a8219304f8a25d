--------------------------- MODULE HacsRepair_proofs ---------------------------
(***************************************************************************)
(* Proofs about the repair script, for any number of invocations that      *)
(* overlap, fail and are killed.                                           *)
(***************************************************************************)
EXTENDS HacsRepair, TLAPS

-----------------------------------------------------------------------------
(* The inductive invariant.                                                *)

\* Invocations with an original to save or a copy to install.
Saving  == {r \in Run : pc[r] \in {"decided", "unsaved", "saving"}}
Copying == {r \in Run : pc[r] \in {"saved", "copying", "copied"}}

\* Only the original is ever saved.
SavingInv ==
    \A r \in Saving : mode[r] = "repair" /\ source[r] = "original"

\* Whoever created the backup is the only one to write it.
WriterInv ==
    \A r \in Run : pc[r] = "saving" =>
        /\ backup = "partial"
        /\ \A s \in Run : pc[s] = "saving" => s = r

\* A copy of the repaired source is only made once the original is saved.
SavedInv == \A r \in Copying : mode[r] = "repair" => backup = "original"

IInv == TypeOK /\ SavingInv /\ WriterInv /\ SavedInv /\ OriginalKept

LEMMA InitEstablishesIInv == Init => IInv
<1> SUFFICES ASSUME Init PROVE IInv
  OBVIOUS
<1>1. TypeOK
  <2>1. /\ pc \in [Run -> Place]
        /\ mode \in [Run -> {"repair", "restore"}]
        /\ source \in [Run -> File]
    BY DEF Init, Place, File
  <2>2. version \in {"2.0.5", "other"} /\ target \in File /\ backup \in Backup
    BY DEF Init, File, Backup
  <2>3. flushed \in BOOLEAN /\ lost \in BOOLEAN
    BY DEF Init
  <2>4. faults \in 0 .. MaxFaults
    BY ConstantsAssumption DEF Init
  <2>5. QED
    BY <2>1, <2>2, <2>3, <2>4 DEF TypeOK
<1>2. \A r \in Run : pc[r] = "idle"
  BY DEF Init
<1>3. SavingInv /\ WriterInv /\ SavedInv
  BY <1>2 DEF SavingInv, WriterInv, SavedInv, Saving, Copying
<1>4. OriginalKept
  BY DEF Init, OriginalKept
<1>5. QED
  BY <1>1, <1>3, <1>4 DEF IInv

LEMMA NextKeepsIInv ==
    ASSUME IInv, [Next]_vars PROVE IInv'
<1> USE ConstantsAssumption DEF IInv, TypeOK, SavingInv, WriterInv, SavedInv, OriginalKept,
        Saving, Copying, Place, File, Backup, files, counts, Goto
<1>1. ASSUME NEW r \in Run, NEW m \in {"repair", "restore"}, Begin(r, m) PROVE IInv'
  BY <1>1 DEF Begin
<1>2. ASSUME NEW r \in Run, Decide(r) PROVE IInv'
  BY <1>2 DEF Decide
<1>3. ASSUME NEW r \in Run, LookForBackup(r) PROVE IInv'
  BY <1>3 DEF LookForBackup
<1>4. ASSUME NEW r \in Run, CreateBackup(r) PROVE IInv'
  BY <1>4 DEF CreateBackup
<1>5. ASSUME NEW r \in Run, WriteBackup(r) PROVE IInv'
  BY <1>5 DEF WriteBackup
<1>6. ASSUME NEW r \in Run, StartCopy(r) PROVE IInv'
  BY <1>6 DEF StartCopy
<1>7. ASSUME NEW r \in Run, EndCopy(r) PROVE IInv'
  BY <1>7 DEF EndCopy
<1>8. ASSUME NEW r \in Run, Replace(r) PROVE IInv'
  BY <1>8 DEF Replace, Result
<1>9. ASSUME NEW r \in Run, Stop(r) PROVE IInv'
  BY <1>9 DEF Stop
<1>10. CASE PowerLoss
  <2>1. \A r \in Run : pc'[r] = "idle"
    BY <1>10 DEF PowerLoss
  <2>2. TypeOK'
    BY <1>10 DEF PowerLoss
  <2>3. SavingInv' /\ WriterInv' /\ SavedInv'
    BY <2>1
  <2>4. OriginalKept'
    <3>1. CASE backup' = backup
      BY <1>10, <3>1 DEF PowerLoss
    <3>2. CASE backup' # backup
      BY <1>10, <3>2 DEF PowerLoss
    <3>3. QED
      BY <3>1, <3>2
  <2>5. QED
    BY <2>2, <2>3, <2>4
<1>11. CASE Flush
  BY <1>11 DEF Flush
<1>12. CASE HacsInstalls
  BY <1>12 DEF HacsInstalls
<1>13. CASE UNCHANGED vars
  BY <1>13 DEF vars
<1>14. QED
  BY <1>1, <1>2, <1>3, <1>4, <1>5, <1>6, <1>7, <1>8, <1>9, <1>10, <1>11, <1>12, <1>13
  DEF Next, Step

LEMMA Invariance == Spec => []IInv
<1>1. IInv /\ [Next]_vars => IInv'
  BY NextKeepsIInv
<1>2. QED
  BY <1>1, InitEstablishesIInv, PTL DEF Spec

-----------------------------------------------------------------------------
(* Every variable keeps its type: in particular the backup never holds     *)
(* anything but the original, or what was there before (HacsRepair,        *)
(* scripts/repair_hacs_205.py:59-65).                                      *)
THEOREM TypeCorrect == Spec => []TypeOK
<1>1. IInv => TypeOK
  BY DEF IInv
<1>2. QED
  BY <1>1, Invariance, PTL

(* While the repaired file is installed the original is in the backup,     *)
(* unless a loss of power took it before it was written back, whatever     *)
(* HACS installs and whenever (scripts/repair_hacs_205.py:38).             *)
THEOREM OriginalIsKept == Spec => []OriginalKept
<1>1. IInv => OriginalKept
  BY DEF IInv
<1>2. QED
  BY <1>1, Invariance, PTL

-----------------------------------------------------------------------------
(* The refinement.                                                         *)

\* An invocation that goes on has read one of the two known files, and what
\* is installed now is no file with local changes, nor a newer one unless
\* HACS has installed it since.
KnownInv ==
    \A r \in Run :
        \/ pc[r] = "idle"
        \/ pc[r] = "read" /\ source[r] \notin {"original", "repaired"}
        \/ target \in Atomic!Replaceable

LEMMA NextKeepsKnownInv ==
    ASSUME IInv, KnownInv, [Next]_vars PROVE KnownInv'
<1> USE ConstantsAssumption
        DEF KnownInv, IInv, TypeOK, files, counts, Goto, Place, File, Atomic!Replaceable
<1>1. ASSUME NEW r \in Run, NEW m \in {"repair", "restore"}, Begin(r, m) PROVE KnownInv'
  BY <1>1 DEF Begin
<1>2. ASSUME NEW r \in Run, Decide(r) PROVE KnownInv'
  BY <1>2 DEF Decide
<1>3. ASSUME NEW r \in Run, Replace(r) PROVE KnownInv'
  BY <1>3 DEF Replace, Result
<1>4. ASSUME NEW r \in Run,
             LookForBackup(r) \/ CreateBackup(r) \/ WriteBackup(r) \/ StartCopy(r)
             \/ EndCopy(r) \/ Stop(r)
      PROVE KnownInv'
  BY <1>4 DEF LookForBackup, CreateBackup, WriteBackup, StartCopy, EndCopy, Stop
<1>5. CASE PowerLoss
  BY <1>5 DEF PowerLoss
<1>6. CASE HacsInstalls
  BY <1>6 DEF HacsInstalls
<1>7. CASE Flush \/ UNCHANGED vars
  BY <1>7 DEF Flush, vars
<1>8. QED
  BY <1>1, <1>2, <1>3, <1>4, <1>5, <1>6, <1>7 DEF Next, Step

LEMMA StepRefines ==
    ASSUME IInv, KnownInv, [Next]_vars
    PROVE  [Atomic!Next]_<<target, backup = "original">>
<1> USE DEF IInv, TypeOK, files, counts, Atomic!Next
<1>1. ASSUME NEW r \in Run, Replace(r) PROVE Atomic!Repair \/ Atomic!Restore
  <2>1. target \in Atomic!Replaceable /\ r \in Copying
    BY <1>1 DEF Replace, KnownInv, Copying
  <2>2. CASE mode[r] = "repair"
    BY <1>1, <2>1, <2>2 DEF Replace, Result, SavedInv, Atomic!Repair
  <2>3. CASE mode[r] = "restore"
    BY <1>1, <2>1, <2>3 DEF Replace, Result, Atomic!Restore
  <2>4. QED
    BY <2>2, <2>3
<1>2. ASSUME NEW r \in Run, WriteBackup(r) PROVE Atomic!Save
  <2>1. source[r] = "original"
    BY <1>2 DEF WriteBackup, SavingInv, Saving
  <2>2. QED
    BY <1>2, <2>1 DEF WriteBackup, Atomic!Save
<1>3. ASSUME NEW r \in Run, CreateBackup(r) PROVE UNCHANGED <<target, backup = "original">>
  BY <1>3 DEF CreateBackup
<1>4. ASSUME PowerLoss PROVE Atomic!Lose \/ UNCHANGED <<target, backup = "original">>
  BY <1>4 DEF PowerLoss, Atomic!Lose
<1>5. ASSUME HacsInstalls PROVE Atomic!HacsInstalls
  BY <1>5 DEF HacsInstalls, Atomic!HacsInstalls
<1>6. ASSUME NEW r \in Run, NEW m \in {"repair", "restore"},
             Begin(r, m) \/ Decide(r) \/ LookForBackup(r) \/ StartCopy(r) \/ EndCopy(r)
             \/ Stop(r)
      PROVE  UNCHANGED <<target, backup>>
  BY <1>6 DEF Begin, Decide, LookForBackup, StartCopy, EndCopy, Stop
<1>7. ASSUME Flush \/ UNCHANGED vars PROVE UNCHANGED <<target, backup>>
  BY <1>7 DEF Flush, vars
<1>8. QED
  BY <1>1, <1>2, <1>3, <1>4, <1>5, <1>6, <1>7 DEF Next, Step

(* Any number of overlapping, failing and killed invocations implement the *)
(* abstract repair, whose file changes at once and between known files and *)
(* never away from local changes (docs/INSTALLATION.md:49).  If HACS       *)
(* installs under a running script, the newer file may be overwritten (the *)
(* check of line 45 is as old as the read), and nothing worse: the rest of *)
(* the abstract repair holds all the same.                                 *)
THEOREM ImplementsAtomicRepair == Spec => AtomicSpec
<1>1. Init => KnownInv
  BY DEF Init, KnownInv
<1>2. Init => Atomic!Init
  BY DEF Init, Atomic!Init
<1>3. IInv /\ KnownInv /\ [Next]_vars => KnownInv'
  BY NextKeepsKnownInv
<1>4. IInv /\ KnownInv /\ [Next]_vars => [Atomic!Next]_<<target, backup = "original">>
  BY StepRefines
<1>5. QED
  BY <1>1, <1>2, <1>3, <1>4, Invariance, PTL DEF Spec, AtomicSpec, Atomic!Spec

-----------------------------------------------------------------------------
(* Retries succeed, once failures cease.                                   *)

CanStep(r)  == ENABLED <<Step(r)>>_vars
CanBegin(r) == ENABLED <<Begin(r, "repair")>>_vars
CanSave     == ENABLED <<Saves>>_vars

Saver == \E r \in Run : pc[r] = "saving"

(* The script's steps can be taken when their guards hold.  A prover of    *)
(* ENABLED is not at hand: this is a hypothesis of the theorem, which TLC  *)
(* evaluates in the states of the run repair.                              *)
EnabledAsGuarded ==
    /\ Saver => CanSave
    /\ \A r \in Run :
         /\ pc[r] # "idle" => CanStep(r)
         /\ pc[r] = "idle" /\ version = "2.0.5" => CanBegin(r)

\* A step that is no failure, kill or loss of power.
Healthy == faults' = faults

(* While HACS does not install under a running script, the version it has  *)
(* checked stays, and the original belongs to that version.                *)
VersionInv ==
    /\ \A r \in Run : pc[r] # "idle" => version = "2.0.5"
    /\ target = "original" => version = "2.0.5"

LEMMA NextKeepsVersionInv ==
    ASSUME ~HacsMeanwhile, IInv, VersionInv, [Next]_vars PROVE VersionInv'
<1> USE DEF VersionInv, IInv, TypeOK, files, counts, Goto
<1>1. ASSUME NEW r \in Run, NEW m \in {"repair", "restore"}, Begin(r, m) PROVE VersionInv'
  BY <1>1 DEF Begin
<1>2. ASSUME NEW r \in Run, Decide(r) \/ LookForBackup(r) PROVE VersionInv'
  BY <1>2 DEF Decide, LookForBackup
<1>3. ASSUME NEW r \in Run, Replace(r) PROVE VersionInv'
  BY <1>3 DEF Replace
<1>4. ASSUME NEW r \in Run,
             CreateBackup(r) \/ WriteBackup(r) \/ StartCopy(r) \/ EndCopy(r) \/ Stop(r)
      PROVE VersionInv'
  BY <1>4 DEF CreateBackup, WriteBackup, StartCopy, EndCopy, Stop
<1>5. CASE PowerLoss
  BY <1>5 DEF PowerLoss
<1>6. CASE HacsInstalls
  BY <1>6 DEF HacsInstalls
<1>7. CASE Flush \/ UNCHANGED vars
  BY <1>7 DEF Flush, vars
<1>8. QED
  BY <1>1, <1>2, <1>3, <1>4, <1>5, <1>6, <1>7 DEF Next, Step

\* An invocation that repairs the original.
Repairing(r) == mode[r] = "repair" /\ source[r] = "original"

(* A step that is no failure is the invocation's own or leaves it alone.   *)
LEMMA HealthyStep ==
    ASSUME IInv, [Next]_vars, Healthy, NEW r \in Run
    PROVE  \/ Begin(r, "repair") \/ Begin(r, "restore") \/ Step(r)
           \/ pc'[r] = pc[r] /\ mode'[r] = mode[r] /\ source'[r] = source[r]
<1> USE DEF IInv, TypeOK, files, counts, Goto
<1>1. ASSUME NEW s \in Run, s # r, Begin(s, "repair") \/ Begin(s, "restore") \/ Step(s)
      PROVE  pc'[r] = pc[r] /\ mode'[r] = mode[r] /\ source'[r] = source[r]
  BY <1>1 DEF Begin, Step, Decide, LookForBackup, CreateBackup, WriteBackup, StartCopy,
     EndCopy, Replace
<1>2. ASSUME NEW s \in Run, Stop(s) PROVE FALSE
  BY <1>2, ConstantsAssumption DEF Stop, Healthy
<1>3. ASSUME PowerLoss PROVE FALSE
  BY <1>3, ConstantsAssumption DEF PowerLoss, Healthy
<1>4. CASE HacsInstalls \/ Flush \/ UNCHANGED vars
  BY <1>4 DEF HacsInstalls, Flush, vars
<1>5. QED
  BY <1>1, <1>2, <1>3, <1>4 DEF Next

(* Without failures an invocation only moves on.                           *)
LEMMA PlaceMoves ==
    ASSUME IInv, NEW r \in Run, Step(r)
    PROVE  /\ pc[r] = "read" => pc'[r] \in {"decided", "saved", "idle"}
           /\ pc[r] = "decided" => pc'[r] \in {"unsaved", "saved", "idle"}
           /\ pc[r] = "unsaved" => pc'[r] \in {"saving", "idle"}
           /\ pc[r] = "saving" => pc'[r] = "saved"
           /\ pc[r] = "saved" => pc'[r] = "copying"
           /\ pc[r] = "copying" => pc'[r] = "copied"
           /\ pc[r] = "copied" => pc'[r] = "idle"
           /\ pc[r] # "idle"
BY DEF IInv, TypeOK, Goto, Step, Decide, LookForBackup, CreateBackup, WriteBackup, StartCopy,
   EndCopy, Replace

(* A repair of the original goes on to replace the target, if the original *)
(* is saved, and to create the backup, if there is none.                   *)
LEMMA RepairMoves ==
    ASSUME IInv, NEW r \in Run, Step(r), Repairing(r)
    PROVE  /\ Repairing(r)'
           /\ pc[r] = "read" => pc'[r] = "decided"
           /\ pc[r] = "decided" /\ backup = "original" => pc'[r] = "saved"
           /\ pc[r] = "decided" /\ backup = "absent" => pc'[r] = "unsaved"
           /\ pc[r] = "unsaved" /\ backup = "absent" => backup' = "partial"
           /\ pc[r] = "saved" => pc'[r] = "copying"
           /\ pc[r] = "copying" => pc'[r] = "copied"
           /\ pc[r] = "copied" => target' = "repaired"
BY DEF IInv, TypeOK, Goto, Repairing, Step, Decide, LookForBackup, CreateBackup, WriteBackup,
   StartCopy, EndCopy, Replace, Result

(* Begun on the original, with the repair.                                 *)
LEMMA BeginMoves ==
    ASSUME IInv, NEW r \in Run, Begin(r, "repair"), target = "original"
    PROVE  pc'[r] = "read" /\ Repairing(r)'
BY DEF IInv, TypeOK, Goto, Begin, Repairing

\* Begun with either, only an idle invocation.
LEMMA BeginsIdle ==
    ASSUME IInv, NEW r \in Run, Begin(r, "repair") \/ Begin(r, "restore")
    PROVE  pc[r] = "idle" /\ pc'[r] = "read"
BY DEF IInv, TypeOK, Goto, Begin

(* Without failures the backup only gets from absent to partly written to  *)
(* the original, and stays partly written when nobody writes it.           *)
LEMMA BackupMoves ==
    ASSUME IInv, [Next]_vars, Healthy
    PROVE  /\ backup = "absent" => backup' \in {"absent", "partial"}
           /\ backup = "original" => backup' = "original"
           /\ backup = "partial" /\ Saver => (backup' = "partial" /\ Saver') \/ backup' = "original"
           /\ backup = "partial" /\ ~Saver => backup' = "partial" /\ ~Saver'
<1> USE DEF IInv, TypeOK, files, counts, Goto, Saver
<1>1. ASSUME NEW s \in Run, CreateBackup(s)
      PROVE  \/ backup = "absent" /\ backup' = "partial"
             \/ backup' = backup /\ \A r \in Run : pc'[r] = "saving" <=> pc[r] = "saving"
  BY <1>1 DEF CreateBackup
<1>2. ASSUME NEW s \in Run, WriteBackup(s)
      PROVE  Saver /\ backup = "partial" /\ backup' = "original"
  BY <1>2 DEF WriteBackup, SavingInv, Saving, WriterInv
<1>3. ASSUME NEW s \in Run,
             \/ Begin(s, "repair") \/ Begin(s, "restore") \/ Decide(s) \/ LookForBackup(s)
             \/ StartCopy(s) \/ EndCopy(s) \/ Replace(s)
      PROVE  backup' = backup /\ \A r \in Run : pc'[r] = "saving" <=> pc[r] = "saving"
  BY <1>3 DEF Begin, Decide, LookForBackup, StartCopy, EndCopy, Replace
<1>4. ASSUME (\E s \in Run : Stop(s)) \/ PowerLoss PROVE FALSE
  BY <1>4, ConstantsAssumption DEF Stop, PowerLoss, Healthy
<1>5. CASE HacsInstalls \/ Flush \/ UNCHANGED vars
  BY <1>5 DEF HacsInstalls, Flush, vars
<1>6. QED
  BY <1>1, <1>2, <1>3, <1>4, <1>5 DEF Next, Step

LEMMA SavesMoves == IInv /\ Saves => backup' = "original"
BY DEF IInv, Saves, WriteBackup, SavingInv, Saving

\* Nobody turns a backup into a foreign one.
LEMMA NeverForeign == IInv /\ backup # "foreign" /\ [Next]_vars => backup' # "foreign"
<1> SUFFICES ASSUME IInv, backup # "foreign", [Next]_vars PROVE backup' # "foreign"
  OBVIOUS
<1>1. ASSUME NEW s \in Run, WriteBackup(s) PROVE backup' = "original"
  BY <1>1 DEF IInv, WriteBackup, SavingInv, Saving
<1>2. ASSUME NEW s \in Run, Step(s), ~WriteBackup(s) PROVE backup' \in {backup, "partial"}
  BY <1>2 DEF Step, Decide, LookForBackup, CreateBackup, StartCopy, EndCopy, Replace, files
<1>3. CASE \/ \E s \in Run : Begin(s, "repair") \/ Begin(s, "restore") \/ Stop(s)
           \/ HacsInstalls \/ Flush \/ UNCHANGED vars
  BY <1>3 DEF Begin, Stop, HacsInstalls, Flush, vars, files
<1>4. CASE PowerLoss
  BY <1>4 DEF PowerLoss
<1>5. QED
  BY <1>1, <1>2, <1>3, <1>4 DEF Next

(* Every invocation returns.                                               *)
LEMMA InvocationReturns ==
    ASSUME NEW r \in Run
    PROVE  Spec /\ Fairness(r) /\ []EnabledAsGuarded /\ <>[][Healthy]_vars
               => []<>(pc[r] = "idle")
<1> DEFINE Inv == IInv /\ EnabledAsGuarded
           Idle == pc[r] = "idle"
           Read == pc[r] = "read"
           Decided == pc[r] = "decided"
           Unsaved == pc[r] = "unsaved"
           Saving1 == pc[r] = "saving"
           Saved == pc[r] = "saved"
           Copy == pc[r] = "copying"
           Copied == pc[r] = "copied"
<1>1. [Healthy]_vars => Healthy
  BY DEF Healthy, vars, counts
<1>2. Inv => (~Idle => CanStep(r))
  BY DEF EnabledAsGuarded
<1>3. Inv => Idle \/ Read \/ Decided \/ Unsaved \/ Saving1 \/ Saved \/ Copy \/ Copied
  BY DEF IInv, TypeOK, Place
<1>4. Inv /\ <<Step(r)>>_vars =>
          /\ Read => Decided' \/ Saved' \/ Idle'
          /\ Decided => Unsaved' \/ Saved' \/ Idle'
          /\ Unsaved => Saving1' \/ Idle'
          /\ Saving1 => Saved'
          /\ Saved => Copy'
          /\ Copy => Copied'
          /\ Copied => Idle'
  BY PlaceMoves
<1>5. Inv /\ [Next]_vars /\ Healthy =>
          /\ Read => Read' \/ Decided' \/ Saved' \/ Idle'
          /\ Decided => Decided' \/ Unsaved' \/ Saved' \/ Idle'
          /\ Unsaved => Unsaved' \/ Saving1' \/ Idle'
          /\ Saving1 => Saving1' \/ Saved'
          /\ Saved => Saved' \/ Copy'
          /\ Copy => Copy' \/ Copied'
          /\ Copied => Copied' \/ Idle'
  BY HealthyStep, PlaceMoves, BeginsIdle
<1>6. Spec => []IInv
  BY Invariance
<1> HIDE DEF Inv, Idle, Read, Decided, Unsaved, Saving1, Saved, Copy, Copied
<1>7. Spec /\ []EnabledAsGuarded => []Inv
  BY <1>6, PTL DEF Inv
<1>8. QED
  BY <1>1, <1>2, <1>3, <1>4, <1>5, <1>7, PTL DEF Spec, Fairness, CanStep, Idle

(* A saved original does not stay in place: a repair gets through.         *)
LEMMA SavedIsRepaired ==
    ASSUME NEW r \in Run
    PROVE  Spec /\ []VersionInv /\ Fairness(r) /\ []EnabledAsGuarded /\ <>[][Healthy]_vars
               => ~<>[](target = "original" /\ backup = "original")
<1> DEFINE Inv == IInv /\ EnabledAsGuarded /\ VersionInv
           Wait == target = "original" /\ backup = "original"
           Idle == pc[r] = "idle"
           Read == Repairing(r) /\ pc[r] = "read"
           Decided == Repairing(r) /\ pc[r] = "decided"
           Saved == Repairing(r) /\ pc[r] = "saved"
           Copy == Repairing(r) /\ pc[r] = "copying"
           Copied == Repairing(r) /\ pc[r] = "copied"
<1>1. [Healthy]_vars => Healthy
  BY DEF Healthy, vars, counts
<1>2. Inv => /\ ~Idle => CanStep(r)
             /\ Idle /\ Wait => CanBegin(r)
             /\ Read \/ Decided \/ Saved \/ Copy \/ Copied => ~Idle
  BY DEF EnabledAsGuarded, VersionInv
<1>3. Inv /\ Wait /\ <<Begin(r, "repair")>>_vars => Read'
  BY BeginMoves
<1>4. Inv /\ Wait /\ <<Step(r)>>_vars =>
          /\ Read => Decided'
          /\ Decided => Saved'
          /\ Saved => Copy'
          /\ Copy => Copied'
          /\ Copied => ~Wait'
  BY RepairMoves
<1>5. Inv /\ Wait /\ [Next]_vars /\ Healthy =>
          /\ Read => Read' \/ Decided'
          /\ Decided => Decided' \/ Saved'
          /\ Saved => Saved' \/ Copy'
          /\ Copy => Copy' \/ Copied'
          /\ Copied => Copied' \/ ~Wait'
  <2> SUFFICES ASSUME Inv, Wait, [Next]_vars, Healthy
               PROVE  /\ Read => Read' \/ Decided'
                      /\ Decided => Decided' \/ Saved'
                      /\ Saved => Saved' \/ Copy'
                      /\ Copy => Copy' \/ Copied'
                      /\ Copied => Copied' \/ ~Wait'
    OBVIOUS
  <2>1. CASE Begin(r, "repair") \/ Begin(r, "restore")
    BY <2>1, BeginsIdle
  <2>2. CASE Step(r)
    BY <2>2, RepairMoves
  <2>3. CASE pc'[r] = pc[r] /\ mode'[r] = mode[r] /\ source'[r] = source[r]
    BY <2>3 DEF Repairing
  <2>4. QED
    BY <2>1, <2>2, <2>3, HealthyStep
<1>6. Spec => []IInv
  BY Invariance
<1> HIDE DEF Inv, Wait, Idle, Read, Decided, Saved, Copy, Copied
<1>7. Spec /\ []EnabledAsGuarded /\ []VersionInv => []Inv
  BY <1>6, PTL DEF Inv
<1>8. Spec /\ Fairness(r) /\ []EnabledAsGuarded /\ <>[][Healthy]_vars => []<>Idle
  BY InvocationReturns DEF Idle
<1>9. QED
  BY <1>1, <1>2, <1>3, <1>4, <1>5, <1>7, <1>8, PTL DEF Spec, Fairness, CanStep, CanBegin, Wait

(* A missing backup does not stay missing: a repair gets to create it.     *)
LEMMA MissingIsCreated ==
    ASSUME NEW r \in Run
    PROVE  Spec /\ []VersionInv /\ Fairness(r) /\ []EnabledAsGuarded /\ <>[][Healthy]_vars
               => ~<>[](target = "original" /\ backup = "absent")
<1> DEFINE Inv == IInv /\ EnabledAsGuarded /\ VersionInv
           Wait == target = "original" /\ backup = "absent"
           Idle == pc[r] = "idle"
           Read == Repairing(r) /\ pc[r] = "read"
           Decided == Repairing(r) /\ pc[r] = "decided"
           Unsaved == Repairing(r) /\ pc[r] = "unsaved"
<1>1. [Healthy]_vars => Healthy
  BY DEF Healthy, vars, counts
<1>2. Inv => /\ ~Idle => CanStep(r)
             /\ Idle /\ Wait => CanBegin(r)
             /\ Read \/ Decided \/ Unsaved => ~Idle
  BY DEF EnabledAsGuarded, VersionInv
<1>3. Inv /\ Wait /\ <<Begin(r, "repair")>>_vars => Read'
  BY BeginMoves
<1>4. Inv /\ Wait /\ <<Step(r)>>_vars =>
          /\ Read => Decided'
          /\ Decided => Unsaved'
          /\ Unsaved => ~Wait'
  BY RepairMoves
<1>5. Inv /\ Wait /\ [Next]_vars /\ Healthy =>
          /\ Read => Read' \/ Decided'
          /\ Decided => Decided' \/ Unsaved'
          /\ Unsaved => Unsaved' \/ ~Wait'
  <2> SUFFICES ASSUME Inv, Wait, [Next]_vars, Healthy
               PROVE  /\ Read => Read' \/ Decided'
                      /\ Decided => Decided' \/ Unsaved'
                      /\ Unsaved => Unsaved' \/ ~Wait'
    OBVIOUS
  <2>1. CASE Begin(r, "repair") \/ Begin(r, "restore")
    BY <2>1, BeginsIdle
  <2>2. CASE Step(r)
    BY <2>2, RepairMoves
  <2>3. CASE pc'[r] = pc[r] /\ mode'[r] = mode[r] /\ source'[r] = source[r]
    BY <2>3 DEF Repairing
  <2>4. QED
    BY <2>1, <2>2, <2>3, HealthyStep
<1>6. Spec => []IInv
  BY Invariance
<1> HIDE DEF Inv, Wait, Idle, Read, Decided, Unsaved
<1>7. Spec /\ []EnabledAsGuarded /\ []VersionInv => []Inv
  BY <1>6, PTL DEF Inv
<1>8. Spec /\ Fairness(r) /\ []EnabledAsGuarded /\ <>[][Healthy]_vars => []<>Idle
  BY InvocationReturns DEF Idle
<1>9. QED
  BY <1>1, <1>2, <1>3, <1>4, <1>5, <1>7, <1>8, PTL DEF Spec, Fairness, CanStep, CanBegin, Wait

(* Once failures cease (in the model they do, MaxFaults bounds them), a    *)
(* repair that failed or was killed succeeds when it is tried again,       *)
(* however many others overlap with it, restores among them, unless it     *)
(* left a backup half written: nothing else in its way is permanent        *)
(* (scripts/repair_hacs_205.py:56-78).                                     *)
THEOREM RetriedRepairsSucceed ==
    ASSUME ~HacsMeanwhile, Run # {}
    PROVE  FairSpec /\ []EnabledAsGuarded /\ <>[][Healthy]_vars => RetriesSucceed
<1> DEFINE Orig == target = "original"
           Absent == backup = "absent"
           Partial == backup = "partial"
           Original == backup = "original"
           Foreign == backup = "foreign"
           Hyp == FairSpec /\ []EnabledAsGuarded /\ <>[][Healthy]_vars
<1>1. PICK r \in Run : TRUE
  OBVIOUS
<1>2. RunsFairness => Fairness(r)
  BY DEF RunsFairness
<1>3. Spec => []VersionInv
  <2>1. Init => VersionInv
    BY DEF Init, VersionInv
  <2>2. IInv /\ VersionInv /\ [Next]_vars => VersionInv'
    BY NextKeepsVersionInv
  <2>3. QED
    BY <2>1, <2>2, Invariance, PTL DEF Spec
<1>4. Hyp => ~<>[](Orig /\ Original) /\ ~<>[](Orig /\ Absent)
  BY <1>2, <1>3, SavedIsRepaired, MissingIsCreated, PTL DEF FairSpec
<1>5. [Healthy]_vars => Healthy
  BY DEF Healthy, vars, counts
<1>6. IInv /\ [Next]_vars /\ Healthy =>
          /\ Absent => Absent' \/ Partial'
          /\ Original => Original'
          /\ Partial /\ Saver => (Partial' /\ Saver') \/ Original'
          /\ Partial /\ ~Saver => Partial' /\ ~Saver'
  BY BackupMoves
<1>7. IInv /\ ~Foreign /\ [Next]_vars => ~Foreign'
  BY NeverForeign
<1>8. IInv => Absent \/ Partial \/ Original \/ Foreign
  BY DEF IInv, TypeOK, Backup
<1>9. /\ IInv /\ <<Saves>>_vars => Original'
      /\ EnabledAsGuarded => (Saver => CanSave)
      /\ ~(Original /\ Partial) /\ ~(Original /\ Absent) /\ ~(Partial /\ Absent)
      /\ ~(Foreign /\ Absent) /\ ~(Foreign /\ Original)
      /\ Orig /\ (Absent \/ Original) <=>
             target = "original" /\ backup \in {"absent", "original"}
      /\ ~Orig <=> target # "original"
  BY SavesMoves DEF EnabledAsGuarded
<1> HIDE DEF Orig, Absent, Partial, Original, Foreign
<1>10. Hyp => (Orig /\ (Absent \/ Original) ~> ~Orig \/ []Partial)
  BY <1>4, <1>5, <1>6, <1>7, <1>8, <1>9, Invariance, PTL DEF FairSpec, Spec, CanSave
<1>11. QED
  BY <1>9, <1>10, PTL DEF RetriesSucceed, Orig, Partial
=============================================================================
