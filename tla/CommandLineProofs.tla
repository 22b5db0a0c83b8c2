------------------------- MODULE CommandLineProofs -------------------------
(***************************************************************************)
(* Proofs about the command line.  The output transaction, for any number  *)
(* of outputs: the old contents survive a crash at any point, a failed     *)
(* write is undone, a successful one is complete, and no destination       *)
(* changes before all the backups exist.  The commands, in any file        *)
(* system: inputs survive, and a command that fails has changed nothing.   *)
(* The options: however many are given, each accepted one counts.          *)
(***************************************************************************)
EXTENDS CommandLine, SetProofs

StagingPhases == {"create", "write", "sync", "recheck"}
PreInstall == StagingPhases \union {"backup", "copy"}
Undoing == {"undo_target", "undo_backup", "undo_stage"}

\* Where the control is, the flags that follow from it.
ControlInv ==
  /\ result = "running" <=> phase /= "returned"
  /\ phase \in StagingPhases => ~committing
  /\ phase \in {"backup", "copy", "install", "sync_dirs", "finish"} => committing
  /\ phase \in PreInstall \union {"install", "sync_dirs", "finish"} => ~undoFailed
  /\ phase \in Undoing => outcome \in {"error", "panic"}

\* How far the staged files have got.
StageInv ==
  /\ phase \in {"create", "write", "sync"} => \A o \in 1 .. (at - 1) : stage[o] = "new"
  /\ phase = "recheck" => \A o \in 1 .. at : stage[o] = "new"
  /\ phase \in {"backup", "copy"} => \A o \in Outputs : stage[o] = "new"
  /\ phase = "install" => \A o \in at .. N : stage[o] = "new"

\* What the backups hold, and for which outputs they exist.
BackupInv ==
  /\ \A o \in Outputs : backup[o] => original[o] = "old" /\ saved[o] = "old"
  /\ \A o \in Outputs : installed[o] /\ original[o] = "old" => backup[o]
  /\ phase \in {"backup", "copy"} =>
       /\ \A o \in 1 .. (at - 1) : original[o] = "old" => backup[o]
       /\ \A o \in at .. N : ~backup[o]
  /\ phase = "copy" => original[at] = "old"
  /\ phase = "install" => \A o \in Outputs : original[o] = "old" => backup[o]

\* Which outputs are installed.
InstallInv ==
  /\ phase \in PreInstall => \A o \in Outputs : ~installed[o]
  /\ phase = "install" => \A o \in Outputs : installed[o] <=> o < at
  /\ phase = "sync_dirs" => \A o \in Outputs : installed[o]
  /\ ~committing => \A o \in Outputs : ~installed[o] /\ ~backup[o]

\* What the destinations hold that no other process has changed.
TargetInv ==
  /\ phase \in PreInstall => \A o \in raced : target[o] \in MayRace
  /\ \A o \in Outputs \ raced :
       /\ phase \in {"install", "sync_dirs"} /\ installed[o] => target[o] = "new"
       /\ phase = "finish" \/ result = "ok" => target[o] = "new"
       /\ ~committing => target[o] = original[o]
       /\ backup[o] /\ ~installed[o] => target[o] = "old"
       /\ phase \notin {"finish", "returned"} /\ ~undoFailed /\ ~installed[o]
            => target[o] = original[o]

\* How far a rollback has got.
UndoInv ==
  /\ phase \in Undoing =>
       \A o \in Outputs \ (undo \union {at}) : ~installed[o] /\ ~backup[o]
  /\ phase = "undo_stage" => ~installed[at] /\ ~backup[at]
  /\ phase = "undo_backup" /\ installed[at] /\ ~undoFailed /\ at \notin raced
       => target[at] = "absent"

\* The old contents, until every destination is replaced.
OldKept ==
  \A o \in Outputs \ raced : original[o] = "old" => "old" \in {target[o], saved[o]}

IInv ==
  /\ TypeOK
  /\ ControlInv
  /\ StageInv
  /\ BackupInv
  /\ InstallInv
  /\ TargetInv
  /\ UndoInv
  /\ phase \notin {"finish", "returned"} => OldKept
  /\ OldNeverLost
  /\ RestoredOnFailure

\* Which outputs still have a file of their own, and that the other files are gone unless
\* a removal has failed.
TidyInv ==
  /\ phase \in StagingPhases => \A o \in Outputs : temporary[o] => o <= at
  /\ phase = "create" => ~temporary[at]
  /\ phase \in {"write", "sync", "recheck"} => temporary[at]
  /\ phase = "sync_dirs" => at = 1
  /\ phase = "install" => \A o \in Outputs : temporary[o] => o >= at
  /\ phase \in {"sync_dirs", "finish"} => \A o \in Outputs : ~temporary[o]
  /\ phase = "finish" => \A o \in Outputs : backup[o] => o >= at
  /\ phase \in Undoing => \A o \in Outputs \ (undo \union {at}) : ~temporary[o]
  /\ phase = "returned" /\ result /= "crashed" => \A o \in Outputs : ~temporary[o] /\ ~backup[o]
  /\ ~undoFailed => \A o \in Outputs : ~temporary[o] => stage[o] = "none"
  /\ ~undoFailed /\ ~littered /\ result /= "crashed" =>
       \A o \in Outputs : ~backup[o] /\ ~(phase = "copy" /\ o = at) => saved[o] = "none"

\* A destination to back up is one no other process has changed, with old content.
LEMMA ToBackUp ==
  ASSUME IInv, Due("backup"), Regular(at), target[at] /= "absent"
  PROVE  at \in 1 .. N /\ at \notin raced /\ original[at] = "old" /\ target[at] = "old"
<1>1. at \in Outputs /\ ~installed[at] /\ ~undoFailed
  BY DEF IInv, TypeOK, ControlInv, InstallInv, Due, PreInstall, StagingPhases
<1>2. at \notin raced
  BY <1>1, RaceAssumption DEF IInv, TargetInv, Regular, Due, PreInstall, StagingPhases
<1>3. target[at] = original[at]
  BY <1>1, <1>2 DEF IInv, TargetInv, Due
<1> QED BY <1>1, <1>2, <1>3 DEF IInv, TypeOK, Outputs

\* Nothing is staged, backed up or installed at first.
LEMMA InitIInv == Init => IInv
<1> SUFFICES ASSUME Init PROVE IInv
  OBVIOUS
<1>1. 1 \in Outputs /\ \A o \in Outputs : o \in 1 .. N
  BY OutputsAssumption DEF Outputs
<1>2. TypeOK
  BY <1>1 DEF Init, TypeOK, Everywhere
<1>3. ControlInv /\ StageInv /\ BackupInv /\ InstallInv /\ UndoInv
  BY <1>1 DEF Init, ControlInv, StageInv, BackupInv, InstallInv, UndoInv, Everywhere,
              StagingPhases, PreInstall, Undoing
<1>4. TargetInv /\ OldKept /\ OldNeverLost /\ RestoredOnFailure
  BY <1>1 DEF Init, TargetInv, OldKept, OldNeverLost, RestoredOnFailure, Everywhere,
              StagingPhases, PreInstall
<1> QED BY <1>2, <1>3, <1>4 DEF IInv

\* Each file-system call, each failure, a change by another process and a crash
\* keep the invariant.
LEMMA NextIInv == IInv /\ [Next]_vars => IInv'
<1> SUFFICES ASSUME IInv, [Next]_vars PROVE IInv'
  OBVIOUS
<1> USE OutputsAssumption, RaceAssumption
    DEF IInv, Outputs, StagingPhases, PreInstall, Undoing, Due, Regular, NextOutput, Return,
        files, handles, control, history, TypeOK, ControlInv, StageInv, BackupInv,
        InstallInv, TargetInv, UndoInv, OldKept, OldNeverLost, RestoredOnFailure
<1>1. CASE CreateStage
  BY <1>1 DEF CreateStage
<1>2. CASE WriteStage
  BY <1>2 DEF WriteStage
<1>3. CASE SyncStage
  BY <1>3 DEF SyncStage
<1>4. CASE Recheck
  <2>1. CASE at < N
    BY <1>4, <2>1 DEF Recheck
  <2>2. CASE at = N
    <3>1. /\ phase' = "backup" /\ at' = 1 /\ committing' = (at = N) /\ 1 \in 1 .. N
          /\ UNCHANGED <<files, handles, undo, outcome, undoFailed, result, history>>
          /\ phase = "recheck" /\ result = "running"
      BY <1>4, <2>2 DEF Recheck
    <3>2. \A o \in 1 .. N : stage[o] = "new" /\ ~backup[o]
      BY <2>2, <3>1
    <3>3. TypeOK' /\ committing'
      BY <2>2, <3>1
    <3>4. ControlInv' /\ StageInv' /\ BackupInv' /\ InstallInv' /\ UndoInv'
      BY <3>1, <3>2, <3>3
    <3>5. TargetInv' /\ OldKept' /\ OldNeverLost' /\ RestoredOnFailure'
      BY <3>1, <3>2, <3>3
    <3> QED BY <3>3, <3>4, <3>5
  <2> QED BY <2>1, <2>2
<1>5. CASE NoBackup
  BY <1>5 DEF NoBackup
<1>6. CASE BeginCopy
  <2>1. at \in 1 .. N /\ at \notin raced /\ original[at] = "old" /\ target[at] = "old"
    BY <1>6, ToBackUp DEF BeginCopy
  <2> QED BY <1>6, <2>1 DEF BeginCopy
<1>7. CASE SyncDirectories
  BY <1>7 DEF SyncDirectories
<1>8. CASE Finish
  BY <1>8 DEF Finish
<1>9. CASE Crash
  BY <1>9 DEF Crash
<1>10. ASSUME NEW kind \in {"error", "panic"}, StagingFails(kind) PROVE IInv'
  BY <1>10 DEF StagingFails
<1>11. ASSUME NEW o \in Outputs, NEW kind \in MayRace, Race(o, kind) PROVE IInv'
  BY <1>11 DEF Race
<1>12. CASE UNCHANGED vars
  BY <1>12 DEF vars
<1>13. CASE LinkBackup
  <2>1. at \in 1 .. N /\ at \notin raced /\ original[at] = "old" /\ target[at] = "old"
    BY <1>13, ToBackUp DEF LinkBackup
  <2>2. /\ saved' = [saved EXCEPT ![at] = "old"]
        /\ backup' = [backup EXCEPT ![at] = TRUE]
    BY <1>13, <2>1 DEF LinkBackup
  <2>3. CASE at < N
    BY <1>13, <2>1, <2>2, <2>3 DEF LinkBackup
  <2>4. CASE at = N
    BY <1>13, <2>1, <2>2, <2>4 DEF LinkBackup
  <2> QED BY <2>1, <2>3, <2>4
<1>14. CASE EndCopy
  <2>1. at \in 1 .. N /\ original[at] = "old" /\ ~backup[at]
    BY <1>14 DEF EndCopy
  <2>2. /\ saved' = [saved EXCEPT ![at] = "old"]
        /\ backup' = [backup EXCEPT ![at] = TRUE]
    BY <1>14, <2>1 DEF EndCopy
  <2>3. CASE at < N
    BY <1>14, <2>1, <2>2, <2>3 DEF EndCopy
  <2>4. CASE at = N
    BY <1>14, <2>1, <2>2, <2>4 DEF EndCopy
  <2> QED BY <2>1, <2>3, <2>4
<1>15. CASE Install
  <2>1. at \in 1 .. N /\ stage[at] = "new" /\ committing /\ ~undoFailed
    BY <1>15 DEF Install
  <2>2. /\ target' = [target EXCEPT ![at] = "new"]
        /\ installed' = [installed EXCEPT ![at] = TRUE]
        /\ stage' = [stage EXCEPT ![at] = "none"]
        /\ backup' = backup /\ saved' = saved /\ original' = original /\ raced' = raced
    BY <1>15, <2>1 DEF Install
  <2>3. \A o \in 1 .. N : installed'[o] <=> o < at + 1
    BY <1>15, <2>1, <2>2 DEF Install
  <2>4. TypeOK' /\ ControlInv' /\ StageInv' /\ BackupInv' /\ UndoInv'
    BY <1>15, <2>1, <2>2 DEF Install
  <2>5. InstallInv'
    BY <1>15, <2>1, <2>2, <2>3 DEF Install
  <2>6. \A o \in (1 .. N) \ raced : installed'[o] => target'[o] = "new"
    BY <1>15, <2>1, <2>2 DEF Install
  <2>7. \A o \in (1 .. N) \ raced : ~installed'[o] => target'[o] = original[o]
    BY <1>15, <2>1, <2>2 DEF Install
  <2>8. TargetInv'
    BY <1>15, <2>1, <2>2, <2>6, <2>7 DEF Install
  <2>9. OldKept' /\ RestoredOnFailure'
    BY <1>15, <2>1, <2>2 DEF Install
  <2> QED BY <1>15, <2>4, <2>5, <2>8, <2>9 DEF Install
<1>16. CASE CreateFails
  <2>1. 1 \in 1 .. N /\ 2 .. (at - 1) \subseteq 1 .. N
    BY <1>16 DEF CreateFails
  <2>2. CASE at = 1
    <3>1. /\ result' = "error" /\ phase' = "returned" /\ at' = at /\ undo' = undo
          /\ target' = target /\ original' = original /\ raced' = raced
          /\ ~committing /\ committing' = committing
      BY <1>16, <2>2 DEF CreateFails
    <3>2. RestoredOnFailure' /\ OldNeverLost'
      BY <3>1
    <3> QED BY <1>16, <2>1, <3>1, <3>2 DEF CreateFails
  <2>3. CASE at /= 1
    BY <1>16, <2>1, <2>3 DEF CreateFails
  <2> QED BY <2>2, <2>3
<1>17. ASSUME NEW kind \in {"error", "panic"}, CommitFails(kind) PROVE IInv'
  <2>1. N \in 1 .. N /\ 1 .. (N - 1) \subseteq 1 .. N
    OBVIOUS
  <2>2. saved' \in [1 .. N -> {"none", "partial", "old"}] /\ littered' \in BOOLEAN
    BY <1>17 DEF CommitFails
  <2>3. TypeOK'
    BY <1>17, <2>1, <2>2 DEF CommitFails
  <2> QED BY <1>17, <2>3 DEF CommitFails
\* A rollback: the old content of an installed output stays in its backup.
<1>18. CASE UndoTarget
  <2>1. undoFailed' \in BOOLEAN
    BY <1>18 DEF UndoTarget
  <2>2. target' \in [1 .. N -> {"absent", "old", "new"} \union MayRace]
    BY <1>18 DEF UndoTarget
  <2> QED BY <1>18, <2>1, <2>2 DEF UndoTarget
<1>19. CASE UndoBackup
  <2>1. undoFailed' \in BOOLEAN
    BY <1>19 DEF UndoBackup
  <2>2. target' \in [1 .. N -> {"absent", "old", "new"} \union MayRace]
    BY <1>19 DEF UndoBackup
  <2>3. saved' \in [1 .. N -> {"none", "partial", "old"}]
    BY <1>19 DEF UndoBackup
  <2> QED BY <1>19, <2>1, <2>2, <2>3 DEF UndoBackup
<1>20. CASE UndoStage
  <2>1. undoFailed' \in BOOLEAN /\ stage' \in [1 .. N -> {"none", "partial", "new"}]
    <3>1. CASE stage' = [stage EXCEPT ![at] = "none"] /\ UNCHANGED undoFailed
      BY <3>1
    <3>2. CASE stage' = stage /\ undoFailed' = TRUE
      BY <3>2
    <3>3. CASE UNCHANGED <<stage, undoFailed>>
      BY <3>3
    <3> QED BY <1>20, <3>1, <3>2, <3>3 DEF UndoStage
  <2>2. /\ at \in 1 .. N /\ undo \subseteq 1 .. N /\ undoFailed => undoFailed'
        /\ committing' = committing /\ target' = target /\ saved' = saved
        /\ installed' = installed /\ backup' = backup /\ original' = original
        /\ raced' = raced /\ outcome' = outcome
    BY <1>20 DEF UndoStage
  <2>3. CASE undo = {}
    <3>1. /\ phase' = "returned" /\ result' = Outcome(undoFailed')
          /\ at' = at /\ undo' = undo
      BY <1>20, <2>3 DEF UndoStage
    <3>2. /\ result' \in {"error", "panic", "rollback_failed"}
          /\ result' = "error" => ~committing \/ ~undoFailed'
      BY <1>20, <3>1 DEF Outcome, UndoStage
    <3>3. \A o \in 1 .. N : ~installed[o] /\ ~backup[o]
      BY <1>20, <2>3 DEF UndoStage
    <3>4. RestoredOnFailure'
      BY <1>20, <2>2, <3>1, <3>2, <3>3 DEF UndoStage
    <3>5. TypeOK' /\ ControlInv' /\ StageInv' /\ BackupInv' /\ InstallInv' /\ UndoInv'
      BY <1>20, <2>1, <2>2, <3>1, <3>2 DEF UndoStage
    <3>6. TargetInv' /\ OldNeverLost'
      BY <1>20, <2>2, <3>1, <3>2, <3>3 DEF UndoStage
    <3> QED BY <3>1, <3>4, <3>5, <3>6
  <2>4. CASE undo /= {}
    <3>1. /\ phase' = "undo_target" /\ result' = result
          /\ at' \in undo /\ undo' = undo \ {at'}
      BY <1>20, <2>4 DEF UndoStage, NextUndo
    <3>2. TypeOK' /\ ControlInv' /\ StageInv' /\ BackupInv' /\ InstallInv'
      BY <1>20, <2>1, <2>2, <3>1 DEF UndoStage
    <3>3. UndoInv'
      BY <1>20, <2>2, <3>1 DEF UndoStage
    <3>4. TargetInv' /\ OldKept' /\ OldNeverLost' /\ RestoredOnFailure'
      BY <1>20, <2>2, <3>1 DEF UndoStage
    <3> QED BY <3>2, <3>3, <3>4
  <2> QED BY <2>3, <2>4
<1> QED BY <1>1, <1>2, <1>3, <1>4, <1>5, <1>6, <1>7, <1>8, <1>9, <1>10, <1>11, <1>12, <1>13,
           <1>14, <1>15, <1>16, <1>17, <1>18, <1>19, <1>20
        DEF Next, Run, Staging, Commit, Failure, Undo

\* The strengthened invariant holds in every state.
THEOREM Invariance == Spec => []IInv
  BY InitIInv, NextIInv, PTL DEF Spec

\* Each variable has its type; a destination never holds a part of a content.
THEOREM TypeCorrect == Spec => []TypeOK
<1>1. IInv => TypeOK
  BY DEF IInv
<1> QED BY <1>1, Invariance, PTL

\* Wherever the process stops, the old content of every destination exists until all
\* destinations are replaced, for any number of outputs.
THEOREM OldSurvives == Spec => []OldNeverLost
<1>1. IInv => OldNeverLost
  BY DEF IInv
<1> QED BY <1>1, Invariance, PTL

\* A failed write leaves every destination as it was, unless it says otherwise.
THEOREM FailureRestores == Spec => []RestoredOnFailure
<1>1. IInv => RestoredOnFailure
  BY DEF IInv
<1> QED BY <1>1, Invariance, PTL

\* A write that succeeds has replaced every destination.
THEOREM SuccessIsComplete == Spec => []CommittedTogether
<1>1. IInv => CommittedTogether
  BY DEF IInv, TargetInv, CommittedTogether
<1> QED BY <1>1, Invariance, PTL

\* The first installation happens only when every output is staged and every old
\* destination has its backup.
THEOREM BackupsComeFirst == Spec => BackupsBeforeInstall
<1> DEFINE A ==
      installed = Everywhere(FALSE) /\ installed' /= installed =>
        \A o \in Outputs :
          /\ stage[o] = "new"
          /\ o \notin raced /\ original[o] = "old" => backup[o] /\ saved[o] = "old"
<1>1. ASSUME IInv, [Next]_vars, installed = Everywhere(FALSE), installed' /= installed
      PROVE  Install
  <2>1. installed \in [Outputs -> BOOLEAN] /\ \A o \in Outputs : installed[o] = FALSE
    BY <1>1 DEF IInv, TypeOK, Everywhere
  <2>2. installed = [installed EXCEPT ![at] = FALSE]
    BY <2>1
  <2> QED BY <1>1, <2>2
          DEF Next, Run, Staging, Commit, Failure, Undo, CreateStage, WriteStage, SyncStage,
              Recheck, NoBackup, LinkBackup, BeginCopy, EndCopy, SyncDirectories, Finish,
              CreateFails, StagingFails, CommitFails, UndoTarget, UndoBackup, UndoStage,
              Race, Crash, vars, handles
<1>2. ASSUME IInv, Install, installed = Everywhere(FALSE)
      PROVE  \A o \in Outputs :
               /\ stage[o] = "new"
               /\ original[o] = "old" => backup[o] /\ saved[o] = "old"
  <2>1. phase = "install" /\ at \in 1 .. N
    BY <1>2 DEF IInv, TypeOK, Install, Due, Outputs
  <2>2. at = 1
    BY <1>2, <2>1, OutputsAssumption DEF IInv, InstallInv, Everywhere, Outputs
  <2> QED BY <1>2, <2>1, <2>2 DEF IInv, StageInv, BackupInv, Outputs
<1>3. IInv /\ [Next]_vars => A
  BY <1>1, <1>2
<1>4. Spec => [][A]_vars
  BY <1>3, Invariance, PTL DEF Spec
<1> QED BY <1>4 DEF BackupsBeforeInstall
-----------------------------------------------------------------------------
\* Nothing is staged at first.
LEMMA InitTidy == Init => TidyInv
  BY OutputsAssumption DEF Init, TidyInv, Everywhere, StagingPhases, Undoing, Outputs

\* No step forgets a file: a file whose handle is given up is renamed, removed, or its
\* removal has failed.
LEMMA NextTidy == IInv /\ TidyInv /\ [Next]_vars => TidyInv'
<1> SUFFICES ASSUME IInv, TidyInv, [Next]_vars PROVE TidyInv'
  OBVIOUS
<1> USE OutputsAssumption
    DEF IInv, Outputs, StagingPhases, PreInstall, Undoing, Due, NextOutput, Return,
        files, handles, control, history, TypeOK, ControlInv, BackupInv, InstallInv,
        UndoInv, TidyInv
<1>1. CASE CreateStage
  BY <1>1 DEF CreateStage
<1>16. CASE WriteStage
  BY <1>16 DEF WriteStage
<1>18. CASE SyncStage
  BY <1>18 DEF SyncStage
<1>2. CASE Recheck
  BY <1>2 DEF Recheck
<1>3. CASE NoBackup \/ LinkBackup
  BY <1>3 DEF NoBackup, LinkBackup
<1>4. CASE BeginCopy \/ EndCopy
  BY <1>4 DEF BeginCopy, EndCopy
<1>5. CASE Install
  <2>1. CASE at < N
    BY <1>5, <2>1 DEF Install
  <2>2. CASE at = N
    <3>1. /\ phase' = "sync_dirs" /\ at' = 1 /\ UNCHANGED <<saved, backup, undoFailed, littered, result>>
          /\ temporary' = [temporary EXCEPT ![at] = FALSE]
          /\ stage' = [stage EXCEPT ![at] = "none"]
          /\ phase = "install" /\ result = "running"
      BY <1>5, <2>2 DEF Install
    <3>2. \A o \in 1 .. N : ~temporary'[o]
      BY <2>2, <3>1
    <3> QED BY <3>1, <3>2
  <2> QED BY <2>1, <2>2
<1>17. CASE SyncDirectories
  BY <1>17 DEF SyncDirectories
<1>6. CASE Finish
  BY <1>6 DEF Finish
<1>7. CASE CreateFails
  BY <1>7 DEF CreateFails
<1>8. ASSUME NEW kind \in {"error", "panic"}, StagingFails(kind) PROVE TidyInv'
  BY <1>8 DEF StagingFails
<1>9. ASSUME NEW kind \in {"error", "panic"}, CommitFails(kind) PROVE TidyInv'
  BY <1>9 DEF CommitFails
<1>10. CASE UndoTarget
  BY <1>10 DEF UndoTarget
<1>11. CASE UndoBackup
  BY <1>11 DEF UndoBackup
<1>12. CASE UndoStage
  BY <1>12 DEF UndoStage, NextUndo, Outcome
<1>13. ASSUME NEW o \in Outputs, NEW kind \in MayRace, Race(o, kind) PROVE TidyInv'
  BY <1>13 DEF Race
<1>14. CASE Crash
  BY <1>14 DEF Crash
<1>15. CASE UNCHANGED vars
  BY <1>15 DEF vars
<1> QED BY <1>1, <1>2, <1>3, <1>4, <1>5, <1>6, <1>7, <1>8, <1>9, <1>10, <1>11, <1>12, <1>13,
           <1>14, <1>15, <1>16, <1>17, <1>18
        DEF Next, Run, Staging, Commit, Failure, Undo

\* Whatever fails, and however many outputs there are: once the call has returned no
\* temporary or backup file is left, unless a removal failed.
THEOREM NothingIsLeft == Spec => []NoLitter
<1>1. TidyInv => NoLitter
  BY DEF TidyInv, NoLitter
<1> QED BY <1>1, Invariance, InitTidy, NextTidy, PTL DEF Spec

-----------------------------------------------------------------------------
\* Commands, in any file system: any number of places, any entries in them, as long as a
\* link leads to a place that is not one, and any path for each role.
Roles(c) == InputsOf(c) \union OutputsOf(c)

Layout(entries) ==
  \A p \in DOMAIN entries :
    /\ entries[p] \in {Dir(p), Absent(p)}
                      \union UNION {{File(q, "first"), Link(q)} : q \in DOMAIN entries}
    /\ entries[p][1] = "link" => entries[entries[p][2]][1] /= "link"

AnyArguments ==
  /\ arguments \in [Roles(command) -> Names(DOMAIN before) \union {NoPath}]
  /\ {r \in Roles(command) : arguments[r] = NoPath} \in Optional(command)

Files(places) == {File(p, age) : p \in places, age \in {"first", "made"}}

AnyCommandInit ==
  /\ command \in DOMAIN Plans
  /\ AnyArguments
  /\ Layout(before)
  /\ entry = before
  /\ content = [f \in Files(DOMAIN before) |-> "old"]
  /\ todo = Plans[command]
  /\ verdict = "running"

\* The steps done, and whether one of them has touched an output.
Plan == Plans[command]
Done == Len(Plan) - Len(todo)
Touches(s) == s.do \in {"replace", "truncate"}
Touched == \E i \in 1 .. Done : Touches(Plan[i])

\* What is left is the end of the plan.
TodoInv ==
  /\ command \in DOMAIN Plans
  /\ Len(todo) \in 0 .. Len(Plan)
  /\ todo \in Seq({Plan[i] : i \in DOMAIN Plan})
  /\ \A i \in 1 .. Len(todo) : todo[i] = Plan[Done + i]
  /\ verdict = "running" => todo /= <<>>

\* Files have not changed, and the checks made still hold.
Untouched ==
  /\ entry = before
  /\ content = [f \in Files(DOMAIN before) |-> "old"]

Checked ==
  \A i \in 1 .. Done :
    /\ Plan[i].do = "paths" => Distinct(Plan[i])
    /\ Plan[i].do = "load" => \A r \in Given(Plan[i].inputs) : Node(arguments[r])[1] = "file"

\* Outputs are made and none of them is an input.
Made ==
  /\ \A r \in Given(InputsOf(command)) : Node(arguments[r])[1] = "file"
  /\ \A o \in Given(OutputsOf(command)) :
       /\ Node(arguments[o])[1] = "file"
       /\ Node(arguments[o]) \in Files(DOMAIN before)
       /\ \A r \in Given(InputsOf(command)) : Node(arguments[o]) /= Node(arguments[r])
       /\ Head(todo).do = "tell" => content[Node(arguments[o])] = "new"

CommandInv ==
  /\ TodoInv
  /\ AnyArguments
  /\ Layout(before)
  /\ DOMAIN entry = DOMAIN before
  /\ DOMAIN content = Files(DOMAIN before)
  /\ verdict = "running" /\ ~Touched => Untouched /\ Checked
  /\ verdict = "running" /\ Touched => Made
  /\ InputsSurvive
  /\ AllOrNothing

\* What the plans have in common: the last step tells the outcome; a step before it makes
\* all outputs, or the two before it in place; it comes after the inputs were read and
\* compared with the outputs.
PlanShape(P, inputs, outputs) ==
  /\ P \in Seq({P[i] : i \in DOMAIN P})
  /\ Len(P) >= 1
  /\ inputs = UNION {P[i].inputs : i \in DOMAIN P}
  /\ outputs = UNION {P[i].outputs : i \in DOMAIN P}
  /\ inputs \intersect outputs = {}
  /\ \A i \in 1 .. Len(P) : P[i].do = "tell" <=> i = Len(P)
  /\ \A i \in 1 .. Len(P) : P[i].do = "fill" =>
       i > 1 /\ P[i - 1].do = "truncate" /\ P[i - 1].outputs = P[i].outputs
  /\ \A i \in 1 .. Len(P) : P[i].do = "load" => P[i].inputs \subseteq inputs
  /\ (\A i \in 1 .. Len(P) : ~Touches(P[i])) => outputs = {}
  /\ \A i \in 1 .. Len(P) : Touches(P[i]) =>
       /\ P[i].outputs = outputs /\ P[i].inputs = {}
       /\ \A j \in 1 .. i - 1 : ~Touches(P[j])
       /\ \E j \in 1 .. i - 1 :
            P[j].do = "paths" /\ P[j].outputs = outputs /\ inputs \subseteq P[j].inputs
       /\ \A r \in inputs : \E j \in 1 .. i - 1 : P[j].do = "load" /\ r \in P[j].inputs
       /\ P[i].do = "replace" => i = Len(P) - 1
       /\ P[i].do = "truncate" =>
            i = Len(P) - 2 /\ P[i + 1].do = "fill" /\ \E o \in outputs : outputs = {o}

\* The set of a sequence's elements is one it is a sequence of.
LEMMA OfItsElements ==
  ASSUME NEW S, NEW P \in Seq(S)
  PROVE  P \in Seq({P[i] : i \in DOMAIN P})
<1> DEFINE T == {P[i] : i \in DOMAIN P}
<1>1. P \in [1 .. Len(P) -> T] /\ Len(P) \in Nat
  OBVIOUS
<1> HIDE DEF T
<1>2. P \in Seq(T)
  BY <1>1
<1> QED BY <1>2 DEF T

LEMMA QueryShape == PlanShape(Query, {"index"}, {})
<1> DEFINE P == Query
<1>1. P \in Seq({P[i] : i \in DOMAIN P})
  <2>1. P \in Seq({Compute, Load("index"), Tell})
    BY DEF Query
  <2> QED BY <2>1, OfItsElements
<1>2. /\ Len(P) = 4
      /\ P[1].do = "compute" /\ P[1].inputs = {} /\ P[1].outputs = {}
      /\ P[2].do = "load" /\ P[2].inputs = {"index"} /\ P[2].outputs = {}
      /\ P[3].do = "compute" /\ P[3].inputs = {} /\ P[3].outputs = {}
      /\ P[4].do = "tell" /\ P[4].inputs = {} /\ P[4].outputs = {}
  BY DEF Query, Compute, Load, Tell, On
<1> HIDE DEF P
<1>3. \A i \in 1 .. Len(P) : ~Touches(P[i])
  BY <1>2 DEF Touches
<1>4. /\ \A i \in 1 .. Len(P) : P[i].do = "tell" <=> i = Len(P)
      /\ \A i \in 1 .. Len(P) : P[i].do = "fill" =>
           i > 1 /\ P[i - 1].do = "truncate" /\ P[i - 1].outputs = P[i].outputs
      /\ \A i \in 1 .. Len(P) : P[i].do = "load" => P[i].inputs \subseteq {"index"}
  BY <1>2
<1>6. {"index"} = UNION {P[i].inputs : i \in DOMAIN P}
      /\ {} = UNION {P[i].outputs : i \in DOMAIN P}
  <2>1. DOMAIN P = 1 .. Len(P)
    BY <1>1
  <2> QED BY <1>2, <2>1
<1>7. PlanShape(P, {"index"}, {})
  BY <1>1, <1>2, <1>3, <1>4, <1>6 DEF PlanShape
<1> QED BY <1>7 DEF P

LEMMA CiffExportShape == PlanShape(CiffExport, {"index"}, {"output"})
<1> DEFINE P == CiffExport
<1>1. P \in Seq({P[i] : i \in DOMAIN P})
  <2>1. P \in Seq({Paths(FALSE, {"index"}, {"output"}), Load("index"), Compute,
          Replace({"output"}), Tell})
    BY DEF CiffExport
  <2> QED BY <2>1, OfItsElements
<1>2. /\ Len(P) = 5
      /\ P[1].do = "paths" /\ P[1].inputs = {"index"} /\ P[1].outputs = {"output"}
      /\ P[2].do = "load" /\ P[2].inputs = {"index"} /\ P[2].outputs = {}
      /\ P[3].do = "compute" /\ P[3].inputs = {} /\ P[3].outputs = {}
      /\ P[4].do = "replace" /\ P[4].inputs = {} /\ P[4].outputs = {"output"}
      /\ P[5].do = "tell" /\ P[5].inputs = {} /\ P[5].outputs = {}
  BY DEF CiffExport, Compute, Load, Paths, Replace, Tell, On
<1> HIDE DEF P
<1>3. \A i \in 1 .. Len(P) : Touches(P[i]) => i = 4
  BY <1>2 DEF Touches
<1>4. /\ \A i \in 1 .. Len(P) : P[i].do = "tell" <=> i = Len(P)
      /\ \A i \in 1 .. Len(P) : P[i].do = "fill" =>
           i > 1 /\ P[i - 1].do = "truncate" /\ P[i - 1].outputs = P[i].outputs
      /\ \A i \in 1 .. Len(P) : P[i].do = "load" => P[i].inputs \subseteq {"index"}
  BY <1>2
<1>5. \A r \in {"index"} : \E j \in 1 .. 4 - 1 : P[j].do = "load" /\ r \in P[j].inputs
  BY <1>2
<1>6. {"index"} = UNION {P[i].inputs : i \in DOMAIN P}
      /\ {"output"} = UNION {P[i].outputs : i \in DOMAIN P}
  <2>1. DOMAIN P = 1 .. Len(P)
    BY <1>1
  <2> QED BY <1>2, <2>1
<1>7. PlanShape(P, {"index"}, {"output"})
  BY <1>1, <1>2, <1>3, <1>4, <1>5, <1>6 DEF PlanShape, Touches
<1> QED BY <1>7 DEF P

LEMMA CiffBatchShape == PlanShape(CiffBatch, {"index", "topics", "qrels"}, {"run", "report"})
<1> DEFINE P == CiffBatch
<1>1. P \in Seq({P[i] : i \in DOMAIN P})
  <2>1. P \in Seq({Compute, BatchPaths, Load("index"), Load("topics"), Load("qrels"),
          Replace({"run", "report"}), Tell})
    BY DEF CiffBatch
  <2> QED BY <2>1, OfItsElements
<1>2. /\ Len(P) = 8
      /\ P[1].do = "compute" /\ P[1].inputs = {} /\ P[1].outputs = {}
      /\ P[2].do = "paths" /\ P[2].inputs = {"index", "topics", "qrels"} /\ P[2].outputs = {"run", "report"}
      /\ P[3].do = "load" /\ P[3].inputs = {"index"} /\ P[3].outputs = {}
      /\ P[4].do = "load" /\ P[4].inputs = {"topics"} /\ P[4].outputs = {}
      /\ P[5].do = "load" /\ P[5].inputs = {"qrels"} /\ P[5].outputs = {}
      /\ P[6].do = "compute" /\ P[6].inputs = {} /\ P[6].outputs = {}
      /\ P[7].do = "replace" /\ P[7].inputs = {} /\ P[7].outputs = {"run", "report"}
      /\ P[8].do = "tell" /\ P[8].inputs = {} /\ P[8].outputs = {}
  BY DEF CiffBatch, BatchPaths, Compute, Load, Paths, Replace, Tell, On
<1> HIDE DEF P
<1>3. \A i \in 1 .. Len(P) : Touches(P[i]) => i = 7
  BY <1>2 DEF Touches
<1>4. /\ \A i \in 1 .. Len(P) : P[i].do = "tell" <=> i = Len(P)
      /\ \A i \in 1 .. Len(P) : P[i].do = "fill" =>
           i > 1 /\ P[i - 1].do = "truncate" /\ P[i - 1].outputs = P[i].outputs
      /\ \A i \in 1 .. Len(P) : P[i].do = "load" => P[i].inputs \subseteq {"index", "topics", "qrels"}
  BY <1>2
<1>5. \A r \in {"index", "topics", "qrels"} : \E j \in 1 .. 7 - 1 : P[j].do = "load" /\ r \in P[j].inputs
  BY <1>2
<1>6. {"index", "topics", "qrels"} = UNION {P[i].inputs : i \in DOMAIN P}
      /\ {"run", "report"} = UNION {P[i].outputs : i \in DOMAIN P}
  <2>1. DOMAIN P = 1 .. Len(P)
    BY <1>1
  <2> QED BY <1>2, <2>1
<1>7. PlanShape(P, {"index", "topics", "qrels"}, {"run", "report"})
  BY <1>1, <1>2, <1>3, <1>4, <1>5, <1>6 DEF PlanShape, Touches
<1> QED BY <1>7 DEF P

LEMMA BatchShape == PlanShape(Batch, {"index", "topics", "qrels"}, {"run", "report"})
<1> DEFINE P == Batch
<1>1. P \in Seq({P[i] : i \in DOMAIN P})
  <2>1. P \in Seq({BatchPaths, Load("topics"), Load("qrels"), Compute, Load("index"),
          Replace({"run", "report"}), Tell})
    BY DEF Batch
  <2> QED BY <2>1, OfItsElements
<1>2. /\ Len(P) = 8
      /\ P[1].do = "paths" /\ P[1].inputs = {"index", "topics", "qrels"} /\ P[1].outputs = {"run", "report"}
      /\ P[2].do = "load" /\ P[2].inputs = {"topics"} /\ P[2].outputs = {}
      /\ P[3].do = "load" /\ P[3].inputs = {"qrels"} /\ P[3].outputs = {}
      /\ P[4].do = "compute" /\ P[4].inputs = {} /\ P[4].outputs = {}
      /\ P[5].do = "load" /\ P[5].inputs = {"index"} /\ P[5].outputs = {}
      /\ P[6].do = "compute" /\ P[6].inputs = {} /\ P[6].outputs = {}
      /\ P[7].do = "replace" /\ P[7].inputs = {} /\ P[7].outputs = {"run", "report"}
      /\ P[8].do = "tell" /\ P[8].inputs = {} /\ P[8].outputs = {}
  BY DEF Batch, BatchPaths, Compute, Load, Paths, Replace, Tell, On
<1> HIDE DEF P
<1>3. \A i \in 1 .. Len(P) : Touches(P[i]) => i = 7
  BY <1>2 DEF Touches
<1>4. /\ \A i \in 1 .. Len(P) : P[i].do = "tell" <=> i = Len(P)
      /\ \A i \in 1 .. Len(P) : P[i].do = "fill" =>
           i > 1 /\ P[i - 1].do = "truncate" /\ P[i - 1].outputs = P[i].outputs
      /\ \A i \in 1 .. Len(P) : P[i].do = "load" => P[i].inputs \subseteq {"index", "topics", "qrels"}
  BY <1>2
<1>5. \A r \in {"index", "topics", "qrels"} : \E j \in 1 .. 7 - 1 : P[j].do = "load" /\ r \in P[j].inputs
  BY <1>2
<1>6. {"index", "topics", "qrels"} = UNION {P[i].inputs : i \in DOMAIN P}
      /\ {"run", "report"} = UNION {P[i].outputs : i \in DOMAIN P}
  <2>1. DOMAIN P = 1 .. Len(P)
    BY <1>1
  <2> QED BY <1>2, <2>1
<1>7. PlanShape(P, {"index", "topics", "qrels"}, {"run", "report"})
  BY <1>1, <1>2, <1>3, <1>4, <1>5, <1>6 DEF PlanShape, Touches
<1> QED BY <1>7 DEF P

LEMMA IndexShape == PlanShape(Index, {"input"}, {"output"})
<1> DEFINE P == Index
<1>1. P \in Seq({P[i] : i \in DOMAIN P})
  <2>1. P \in Seq({Paths(FALSE, {"input"}, {"output"}), Compute, Load("input"),
          Truncate("output"), Fill("output"), Tell})
    BY DEF Index
  <2> QED BY <2>1, OfItsElements
<1>2. /\ Len(P) = 7
      /\ P[1].do = "paths" /\ P[1].inputs = {"input"} /\ P[1].outputs = {"output"}
      /\ P[2].do = "compute" /\ P[2].inputs = {} /\ P[2].outputs = {}
      /\ P[3].do = "load" /\ P[3].inputs = {"input"} /\ P[3].outputs = {}
      /\ P[4].do = "compute" /\ P[4].inputs = {} /\ P[4].outputs = {}
      /\ P[5].do = "truncate" /\ P[5].inputs = {} /\ P[5].outputs = {"output"}
      /\ P[6].do = "fill" /\ P[6].inputs = {} /\ P[6].outputs = {"output"}
      /\ P[7].do = "tell" /\ P[7].inputs = {} /\ P[7].outputs = {}
  BY DEF Index, Compute, Fill, Load, Paths, Tell, Truncate, On
<1> HIDE DEF P
<1>3. \A i \in 1 .. Len(P) : Touches(P[i]) => i = 5
  BY <1>2 DEF Touches
<1>4. /\ \A i \in 1 .. Len(P) : P[i].do = "tell" <=> i = Len(P)
      /\ \A i \in 1 .. Len(P) : P[i].do = "fill" =>
           i > 1 /\ P[i - 1].do = "truncate" /\ P[i - 1].outputs = P[i].outputs
      /\ \A i \in 1 .. Len(P) : P[i].do = "load" => P[i].inputs \subseteq {"input"}
  BY <1>2
<1>5. \A r \in {"input"} : \E j \in 1 .. 5 - 1 : P[j].do = "load" /\ r \in P[j].inputs
  BY <1>2
<1>6. {"input"} = UNION {P[i].inputs : i \in DOMAIN P}
      /\ {"output"} = UNION {P[i].outputs : i \in DOMAIN P}
  <2>1. DOMAIN P = 1 .. Len(P)
    BY <1>1
  <2> QED BY <1>2, <2>1
<1>7. PlanShape(P, {"input"}, {"output"})
  BY <1>1, <1>2, <1>3, <1>4, <1>5, <1>6 DEF PlanShape, Touches
<1> QED BY <1>7 DEF P

LEMMA ForwardBuildShape == PlanShape(ForwardBuild, {"input"}, {"output"})
<1> DEFINE P == ForwardBuild
<1>1. P \in Seq({P[i] : i \in DOMAIN P})
  <2>1. P \in Seq({Paths(FALSE, {"input"}, {"output"}), Compute, Load("input"),
          Replace({"output"}), Tell})
    BY DEF ForwardBuild
  <2> QED BY <2>1, OfItsElements
<1>2. /\ Len(P) = 6
      /\ P[1].do = "paths" /\ P[1].inputs = {"input"} /\ P[1].outputs = {"output"}
      /\ P[2].do = "compute" /\ P[2].inputs = {} /\ P[2].outputs = {}
      /\ P[3].do = "load" /\ P[3].inputs = {"input"} /\ P[3].outputs = {}
      /\ P[4].do = "compute" /\ P[4].inputs = {} /\ P[4].outputs = {}
      /\ P[5].do = "replace" /\ P[5].inputs = {} /\ P[5].outputs = {"output"}
      /\ P[6].do = "tell" /\ P[6].inputs = {} /\ P[6].outputs = {}
  BY DEF ForwardBuild, Compute, Load, Paths, Replace, Tell, On
<1> HIDE DEF P
<1>3. \A i \in 1 .. Len(P) : Touches(P[i]) => i = 5
  BY <1>2 DEF Touches
<1>4. /\ \A i \in 1 .. Len(P) : P[i].do = "tell" <=> i = Len(P)
      /\ \A i \in 1 .. Len(P) : P[i].do = "fill" =>
           i > 1 /\ P[i - 1].do = "truncate" /\ P[i - 1].outputs = P[i].outputs
      /\ \A i \in 1 .. Len(P) : P[i].do = "load" => P[i].inputs \subseteq {"input"}
  BY <1>2
<1>5. \A r \in {"input"} : \E j \in 1 .. 5 - 1 : P[j].do = "load" /\ r \in P[j].inputs
  BY <1>2
<1>6. {"input"} = UNION {P[i].inputs : i \in DOMAIN P}
      /\ {"output"} = UNION {P[i].outputs : i \in DOMAIN P}
  <2>1. DOMAIN P = 1 .. Len(P)
    BY <1>1
  <2> QED BY <1>2, <2>1
<1>7. PlanShape(P, {"input"}, {"output"})
  BY <1>1, <1>2, <1>3, <1>4, <1>5, <1>6 DEF PlanShape, Touches
<1> QED BY <1>7 DEF P

LEMMA ForwardInvertShape == PlanShape(ForwardInvert, {"input"}, {"output"})
<1> DEFINE P == ForwardInvert
<1>1. P \in Seq({P[i] : i \in DOMAIN P})
  <2>1. P \in Seq({Paths(FALSE, {"input"}, {"output"}), Load("input"), Compute,
          Replace({"output"}), Tell})
    BY DEF ForwardInvert
  <2> QED BY <2>1, OfItsElements
<1>2. /\ Len(P) = 5
      /\ P[1].do = "paths" /\ P[1].inputs = {"input"} /\ P[1].outputs = {"output"}
      /\ P[2].do = "load" /\ P[2].inputs = {"input"} /\ P[2].outputs = {}
      /\ P[3].do = "compute" /\ P[3].inputs = {} /\ P[3].outputs = {}
      /\ P[4].do = "replace" /\ P[4].inputs = {} /\ P[4].outputs = {"output"}
      /\ P[5].do = "tell" /\ P[5].inputs = {} /\ P[5].outputs = {}
  BY DEF ForwardInvert, Compute, Load, Paths, Replace, Tell, On
<1> HIDE DEF P
<1>3. \A i \in 1 .. Len(P) : Touches(P[i]) => i = 4
  BY <1>2 DEF Touches
<1>4. /\ \A i \in 1 .. Len(P) : P[i].do = "tell" <=> i = Len(P)
      /\ \A i \in 1 .. Len(P) : P[i].do = "fill" =>
           i > 1 /\ P[i - 1].do = "truncate" /\ P[i - 1].outputs = P[i].outputs
      /\ \A i \in 1 .. Len(P) : P[i].do = "load" => P[i].inputs \subseteq {"input"}
  BY <1>2
<1>5. \A r \in {"input"} : \E j \in 1 .. 4 - 1 : P[j].do = "load" /\ r \in P[j].inputs
  BY <1>2
<1>6. {"input"} = UNION {P[i].inputs : i \in DOMAIN P}
      /\ {"output"} = UNION {P[i].outputs : i \in DOMAIN P}
  <2>1. DOMAIN P = 1 .. Len(P)
    BY <1>1
  <2> QED BY <1>2, <2>1
<1>7. PlanShape(P, {"input"}, {"output"})
  BY <1>1, <1>2, <1>3, <1>4, <1>5, <1>6 DEF PlanShape, Touches
<1> QED BY <1>7 DEF P

LEMMA ReorderShape == PlanShape(Reorder, {"input", "feature", "mapping"}, Orders)
<1> DEFINE P == Reorder
<1>1. P \in Seq({P[i] : i \in DOMAIN P})
  <2>1. P \in Seq({Compute, Paths(TRUE, {"input", "feature", "mapping"}, Orders), Load("input"),
          Load("feature"), Load("mapping"), Replace(Orders), Tell})
    BY DEF Reorder
  <2> QED BY <2>1, OfItsElements
<1>2. /\ Len(P) = 9
      /\ P[1].do = "compute" /\ P[1].inputs = {} /\ P[1].outputs = {}
      /\ P[2].do = "paths" /\ P[2].inputs = {"input", "feature", "mapping"} /\ P[2].outputs = Orders
      /\ P[3].do = "load" /\ P[3].inputs = {"input"} /\ P[3].outputs = {}
      /\ P[4].do = "compute" /\ P[4].inputs = {} /\ P[4].outputs = {}
      /\ P[5].do = "load" /\ P[5].inputs = {"feature"} /\ P[5].outputs = {}
      /\ P[6].do = "load" /\ P[6].inputs = {"mapping"} /\ P[6].outputs = {}
      /\ P[7].do = "compute" /\ P[7].inputs = {} /\ P[7].outputs = {}
      /\ P[8].do = "replace" /\ P[8].inputs = {} /\ P[8].outputs = Orders
      /\ P[9].do = "tell" /\ P[9].inputs = {} /\ P[9].outputs = {}
  BY DEF Reorder, Compute, Load, Paths, Replace, Tell, On
<1> HIDE DEF P
<1>3. \A i \in 1 .. Len(P) : Touches(P[i]) => i = 8
  BY <1>2 DEF Touches
<1>4. /\ \A i \in 1 .. Len(P) : P[i].do = "tell" <=> i = Len(P)
      /\ \A i \in 1 .. Len(P) : P[i].do = "fill" =>
           i > 1 /\ P[i - 1].do = "truncate" /\ P[i - 1].outputs = P[i].outputs
      /\ \A i \in 1 .. Len(P) : P[i].do = "load" => P[i].inputs \subseteq {"input", "feature", "mapping"}
  BY <1>2
<1>5. \A r \in {"input", "feature", "mapping"} : \E j \in 1 .. 8 - 1 : P[j].do = "load" /\ r \in P[j].inputs
  BY <1>2
<1>6. {"input", "feature", "mapping"} = UNION {P[i].inputs : i \in DOMAIN P}
      /\ Orders = UNION {P[i].outputs : i \in DOMAIN P}
  <2>1. DOMAIN P = 1 .. Len(P)
    BY <1>1
  <2> QED BY <1>2, <2>1
<1>7. PlanShape(P, {"input", "feature", "mapping"}, Orders)
  BY <1>1, <1>2, <1>3, <1>4, <1>5, <1>6 DEF PlanShape, Touches, Orders
<1> QED BY <1>7 DEF P

LEMMA BenchmarkShape == PlanShape(Benchmark, {}, {"json"})
<1> DEFINE P == Benchmark
<1>1. P \in Seq({P[i] : i \in DOMAIN P})
  <2>1. P \in Seq({Compute, Paths(TRUE, {}, {"json"}), Replace({"json"}), Tell})
    BY DEF Benchmark
  <2> QED BY <2>1, OfItsElements
<1>2. /\ Len(P) = 5
      /\ P[1].do = "compute" /\ P[1].inputs = {} /\ P[1].outputs = {}
      /\ P[2].do = "paths" /\ P[2].inputs = {} /\ P[2].outputs = {"json"}
      /\ P[3].do = "compute" /\ P[3].inputs = {} /\ P[3].outputs = {}
      /\ P[4].do = "replace" /\ P[4].inputs = {} /\ P[4].outputs = {"json"}
      /\ P[5].do = "tell" /\ P[5].inputs = {} /\ P[5].outputs = {}
  BY DEF Benchmark, Compute, Paths, Replace, Tell, On
<1> HIDE DEF P
<1>3. \A i \in 1 .. Len(P) : Touches(P[i]) => i = 4
  BY <1>2 DEF Touches
<1>4. /\ \A i \in 1 .. Len(P) : P[i].do = "tell" <=> i = Len(P)
      /\ \A i \in 1 .. Len(P) : P[i].do = "fill" =>
           i > 1 /\ P[i - 1].do = "truncate" /\ P[i - 1].outputs = P[i].outputs
      /\ \A i \in 1 .. Len(P) : P[i].do = "load" => P[i].inputs \subseteq {}
  BY <1>2
<1>5. \A r \in {} : \E j \in 1 .. 4 - 1 : P[j].do = "load" /\ r \in P[j].inputs
  BY <1>2
<1>6. {} = UNION {P[i].inputs : i \in DOMAIN P}
      /\ {"json"} = UNION {P[i].outputs : i \in DOMAIN P}
  <2>1. DOMAIN P = 1 .. Len(P)
    BY <1>1
  <2> QED BY <1>2, <2>1
<1>7. PlanShape(P, {}, {"json"})
  BY <1>1, <1>2, <1>3, <1>4, <1>5, <1>6 DEF PlanShape, Touches
<1> QED BY <1>7 DEF P

LEMMA PlansHaveShape ==
  ASSUME NEW c \in DOMAIN Plans
  PROVE  PlanShape(Plans[c], InputsOf(c), OutputsOf(c))
<1>1. \A ins, outs : PlanShape(Plans[c], ins, outs) => ins = InputsOf(c) /\ outs = OutputsOf(c)
  BY DEF PlanShape, InputsOf, OutputsOf
<1>2. \E ins, outs : PlanShape(Plans[c], ins, outs)
  BY QueryShape, CiffExportShape, CiffBatchShape, BatchShape, IndexShape, ForwardBuildShape,
     ForwardInvertShape, ReorderShape, BenchmarkShape DEF Plans
<1> QED BY <1>1, <1>2

\* The step that is due, and what follows from doing it.
LEMMA DueStep ==
  ASSUME TodoInv, verdict = "running"
  PROVE  /\ Done \in Nat /\ Done + 1 \in 1 .. Len(Plan)
         /\ Head(todo) = Plan[Done + 1]
         /\ Len(todo) = Len(Plan) - Done
         /\ PlanShape(Plan, InputsOf(command), OutputsOf(command))
<1>1. PlanShape(Plan, InputsOf(command), OutputsOf(command))
  BY PlansHaveShape DEF TodoInv, Plan
<1>2. Len(Plan) \in Nat /\ Len(todo) \in 1 .. Len(Plan) /\ Head(todo) = todo[1]
  BY <1>1 DEF TodoInv, PlanShape
<1> QED BY <1>1, <1>2 DEF TodoInv, Done

LEMMA StepDone ==
  ASSUME TodoInv, verdict = "running", verdict' = "running", Head(todo).do /= "tell",
         Proceed, UNCHANGED command
  PROVE  /\ TodoInv'
         /\ Done' = Done + 1
         /\ Plan' = Plan
         /\ Touched' <=> Touched \/ Touches(Head(todo))
<1>1. Plan' = Plan
  BY DEF Plan
<1>2. /\ Done \in Nat /\ Done + 1 \in 1 .. Len(Plan) /\ Head(todo) = Plan[Done + 1]
      /\ Len(todo) = Len(Plan) - Done /\ Len(Plan) \in Nat
  BY DueStep DEF PlanShape
<1>3. Done + 1 /= Len(Plan)
  BY <1>2, DueStep DEF PlanShape
<1>4. /\ Len(todo') = Len(todo) - 1
      /\ todo' \in Seq({Plan[i] : i \in DOMAIN Plan})
      /\ \A i \in 1 .. Len(todo') : todo'[i] = todo[i + 1]
  <2> DEFINE S == {Plan[i] : i \in DOMAIN Plan}
  <2>1. todo \in Seq(S) /\ todo /= <<>> /\ todo' = Tail(todo)
    BY DEF TodoInv, Proceed
  <2> HIDE DEF S
  <2>2. Len(todo') = Len(todo) - 1 /\ todo' \in Seq(S)
        /\ \A i \in 1 .. Len(todo') : todo'[i] = todo[i + 1]
    BY <2>1
  <2> QED BY <2>2 DEF S
<1>5. Done' = Done + 1
  BY <1>1, <1>2, <1>4 DEF Done
<1>6. \A i \in 1 .. Len(todo') : todo'[i] = Plan[Done' + i]
  <2> SUFFICES ASSUME NEW i \in 1 .. Len(todo') PROVE todo'[i] = Plan[Done' + i]
    OBVIOUS
  <2>1. i + 1 \in 1 .. Len(todo) /\ todo'[i] = todo[i + 1] /\ Done + (i + 1) = Done' + i
    BY <1>2, <1>4, <1>5
  <2> QED BY <2>1 DEF TodoInv
<1>7. TodoInv'
  <2>1. Len(todo') \in 1 .. Len(Plan)
    BY <1>2, <1>3, <1>4
  <2>2. todo' /= <<>>
    BY <2>1
  <2>3. Len(todo') \in 0 .. Len(Plan) /\ command' \in DOMAIN Plans
    BY <2>1 DEF TodoInv
  <2> QED BY <1>1, <1>4, <1>6, <2>2, <2>3 DEF TodoInv
<1>8. Touched' <=> Touched \/ Touches(Head(todo))
  <2>1. 1 .. Done' = (1 .. Done) \union {Done + 1}
    BY <1>2, <1>5
  <2>2. Touched' <=> \E i \in 1 .. Done' : Touches(Plan[i])
    BY <1>1 DEF Touched, Touches
  <2> QED BY <1>2, <2>1, <2>2 DEF Touched
<1> QED BY <1>1, <1>5, <1>7, <1>8

\* A path that has a parent leads to a place; a path that is there leads to a node.
LEMMA PathLeads ==
  ASSUME AnyArguments, NEW roles, NEW r \in Given(roles), roles \subseteq Roles(command)
  PROVE  /\ arguments[r][1] \in {"direct", "alias", "orphan"}
         /\ arguments[r][1] /= "orphan" => arguments[r][2] \in DOMAIN before
<1>1. \/ arguments[r] = <<"orphan", "">>
      \/ arguments[r][1] \in {"direct", "alias"} /\ arguments[r][2] \in DOMAIN before
  BY DEF AnyArguments, Given, Names, NoPath
<1>2. <<"orphan", "">>[1] = "orphan"
  OBVIOUS
<1>3. arguments[r] = <<"orphan", "">> => arguments[r][1] = "orphan"
  BY <1>2, Zenon
<1> QED BY <1>1, <1>3

\* The kinds of nodes, and what a link leads to.
LEMMA NodeKinds ==
  /\ \A p : Dir(p)[1] = "dir" /\ Absent(p)[1] = "absent" /\ Link(p)[1] = "link" /\ Link(p)[2] = p
  /\ \A p, age : File(p, age)[1] = "file" /\ File(p, age)[2] = p /\ File(p, age)[3] = age
<1>1. \A p : Dir(p)[1] = "dir" /\ Absent(p)[1] = "absent"
  BY DEF Dir, Absent
<1>2. \A p : Link(p)[1] = "link" /\ Link(p)[2] = p
  BY DEF Link
<1>3. \A p, age : File(p, age)[1] = "file" /\ File(p, age)[2] = p /\ File(p, age)[3] = age
  BY DEF File
<1> QED BY <1>1, <1>2, <1>3

\* A place of a layout is a file of the layout, a link to a place that is not one, or neither.
LEMMA EntriesAre ==
  ASSUME NEW entries, Layout(entries), NEW p \in DOMAIN entries
  PROVE  /\ entries[p][1] = "link" =>
              entries[p][2] \in DOMAIN entries /\ entries[entries[p][2]][1] /= "link"
         /\ entries[p][1] = "file" => \E q \in DOMAIN entries : entries[p] = File(q, "first")
<1>1. entries[p][1] = "link" => entries[entries[p][2]][1] /= "link"
  BY DEF Layout
<1>2. CASE entries[p] \in {Dir(p), Absent(p)}
  BY <1>2, NodeKinds
<1>3. CASE \E q \in DOMAIN entries : entries[p] = File(q, "first")
  BY <1>3, NodeKinds
<1>4. CASE \E q \in DOMAIN entries : entries[p] = Link(q)
  BY <1>1, <1>4, NodeKinds
<1> QED BY <1>2, <1>3, <1>4 DEF Layout

LEMMA NodesAre ==
  ASSUME NEW entries, Layout(entries), NEW name, name[1] /= "orphan", name[2] \in DOMAIN entries
  PROVE  /\ entries[name[2]][1] = "link" =>
              /\ entries[name[2]][2] \in DOMAIN entries
              /\ NodeIn(entries, name) = entries[entries[name[2]][2]]
              /\ entries[entries[name[2]][2]][1] /= "link"
         /\ entries[name[2]][1] /= "link" => NodeIn(entries, name) = entries[name[2]]
         /\ NodeIn(entries, name)[1] = "file" =>
              \E q \in DOMAIN entries : NodeIn(entries, name) = File(q, "first")
<1>1. \A p \in DOMAIN entries :
        /\ entries[p][1] = "link" => entries[p][2] \in DOMAIN entries /\ entries[entries[p][2]][1] /= "link"
        /\ entries[p][1] = "file" => \E q \in DOMAIN entries : entries[p] = File(q, "first")
  BY EntriesAre
<1> QED BY <1>1 DEF NodeIn

\* No steps are done at first, and the files are the old ones.
LEMMA OldFiles ==
  ASSUME AnyArguments, Layout(before), Untouched, command \in DOMAIN Plans
  PROVE  InputsSurvive
<1> SUFFICES ASSUME NEW r \in Given(InputsOf(command))
             PROVE  /\ Node(arguments[r]) = NodeIn(before, arguments[r])
                    /\ Node(arguments[r])[1] = "file" => content[Node(arguments[r])] = "old"
  BY DEF InputsSurvive
<1>1. Node(arguments[r]) = NodeIn(before, arguments[r])
  BY DEF Node, Untouched
<1>2. ASSUME Node(arguments[r])[1] = "file" PROVE Node(arguments[r]) \in Files(DOMAIN before)
  <2>1. arguments[r][1] /= "orphan"
    BY <1>1, <1>2, NodeKinds DEF NodeIn
  <2>2. InputsOf(command) \subseteq Roles(command)
    BY DEF Roles
  <2>3. arguments[r][2] \in DOMAIN before
    BY <2>1, <2>2, PathLeads
  <2> QED BY <1>1, <1>2, <2>1, <2>3, NodesAre DEF Files
<1> QED BY <1>1, <1>2 DEF Untouched

LEMMA InitCommandInv == AnyCommandInit => CommandInv
<1> SUFFICES ASSUME AnyCommandInit PROVE CommandInv
  OBVIOUS
<1>1. PlanShape(Plan, InputsOf(command), OutputsOf(command)) /\ todo = Plan
  BY PlansHaveShape DEF AnyCommandInit, Plan
<1>2. Done = 0 /\ Len(todo) \in Nat /\ todo /= <<>>
  BY <1>1 DEF Done, PlanShape
<1>3. TodoInv
  BY <1>1, <1>2 DEF TodoInv, PlanShape, AnyCommandInit
<1>4. Untouched /\ Checked /\ ~Touched
  BY <1>2 DEF Untouched, Checked, Touched, AnyCommandInit
<1>5. InputsSurvive
  BY <1>4, OldFiles DEF AnyCommandInit
<1>6. AllOrNothing
  BY DEF AllOrNothing, AnyCommandInit
<1> QED BY <1>3, <1>4, <1>5, <1>6 DEF CommandInv, AnyCommandInit

\* When the outputs are touched, every input has been read and is none of them.
LEMMA BeforeTouch ==
  ASSUME CommandInv, verdict = "running", Touches(Head(todo))
  PROVE  /\ Untouched /\ Layout(entry)
         /\ Head(todo).outputs = OutputsOf(command) /\ Head(todo).inputs = {}
         /\ \A r \in Given(InputsOf(command)) : Node(arguments[r])[1] = "file"
         /\ \A o \in Given(OutputsOf(command)), r \in Given(InputsOf(command)) :
              "orphan" \notin {arguments[o][1], arguments[r][1]}
              /\ ~PathsConflict(arguments[r], arguments[o])
<1> DEFINE i == Done + 1
<1>1. /\ Done \in Nat /\ i \in 1 .. Len(Plan) /\ Head(todo) = Plan[i] /\ TodoInv
      /\ PlanShape(Plan, InputsOf(command), OutputsOf(command))
  BY DueStep DEF CommandInv
<1>2. i - 1 = Done
  BY <1>1
<1> HIDE DEF i
<1>3. ~Touched
  BY <1>1, <1>2 DEF PlanShape, Touched
<1>4. Untouched /\ Checked
  BY <1>3 DEF CommandInv
<1>5. Head(todo).outputs = OutputsOf(command) /\ Head(todo).inputs = {}
  BY <1>1 DEF PlanShape
<1>8. InputsOf(command) \intersect OutputsOf(command) = {}
  BY <1>1, Zenon DEF PlanShape
<1>6. ASSUME NEW r \in Given(InputsOf(command)) PROVE Node(arguments[r])[1] = "file"
  <2>1. PICK j \in 1 .. Done : Plan[j].do = "load" /\ r \in Plan[j].inputs
    BY <1>1, <1>2 DEF PlanShape, Given
  <2>2. r \in Given(Plan[j].inputs)
    BY <2>1 DEF Given
  <2> QED BY <1>4, <2>1, <2>2 DEF Checked
<1>7. ASSUME NEW o \in Given(OutputsOf(command)), NEW r \in Given(InputsOf(command))
      PROVE  "orphan" \notin {arguments[o][1], arguments[r][1]}
             /\ ~PathsConflict(arguments[r], arguments[o])
  <2>1. PICK j \in 1 .. Done : /\ Plan[j].do = "paths" /\ Plan[j].outputs = OutputsOf(command)
                               /\ InputsOf(command) \subseteq Plan[j].inputs
    BY <1>1, <1>2 DEF PlanShape
  <2>2. Distinct(Plan[j])
    BY <1>4, <2>1 DEF Checked
  <2>3. o \in Given(Plan[j].outputs) /\ r \in Given(Plan[j].inputs)
    BY <2>1 DEF Given
  <2>4. r /= o
    BY <1>8 DEF Given
  <2> QED BY <2>2, <2>3, <2>4 DEF Distinct
<1> QED BY <1>4, <1>5, <1>6, <1>7 DEF CommandInv, Untouched

\* An input that is a file, and a place that is neither its own nor the one it links to.
LEMMA InputStays ==
  ASSUME NEW entries, NEW after, Layout(entries), DOMAIN after = DOMAIN entries,
         NEW name, name[1] /= "orphan", name[2] \in DOMAIN entries,
         after[name[2]] = entries[name[2]],
         entries[name[2]][1] = "link" => after[entries[name[2]][2]] = entries[entries[name[2]][2]]
  PROVE  NodeIn(after, name) = NodeIn(entries, name)
BY DEF NodeIn

\* Replacing the outputs keeps the inputs, and makes what was chosen of every output.
Replacement(new, places) ==
  \A o \in Given(OutputsOf(command)) :
    /\ arguments[o][2] \in places /\ arguments[o][2] \in DOMAIN before
    /\ new[arguments[o][2]] = File(arguments[o][2], "made") =>
         /\ Node(arguments[o])' = File(arguments[o][2], "made")
         /\ content'[Node(arguments[o])'] = "new"

LEMMA Replaced ==
  ASSUME CommandInv, IsDue("replace"), Distinct([Head(todo) EXCEPT !.strict = TRUE]),
         NEW new, NEW places, places = {arguments[o][2] : o \in Given(Head(todo).outputs)},
         \A p \in places : new[p] \in {entry[p], File(p, "made"), Absent(p)},
         entry' = [p \in DOMAIN entry |-> IF p \in places THEN new[p] ELSE entry[p]],
         content' = [f \in DOMAIN content |->
                       IF f \in {new[p] : p \in places} \ {entry[p] : p \in places}
                       THEN "new" ELSE content[f]],
         UNCHANGED <<command, arguments, before>>
  PROVE  /\ InputsSurvive'
         /\ DOMAIN entry' = DOMAIN before /\ DOMAIN content' = Files(DOMAIN before)
         /\ \A r \in Given(InputsOf(command)) :
              Node(arguments[r])'[1] = "file" /\ Node(arguments[r])'[3] = "first"
         /\ Replacement(new, places)
<1>1. /\ Untouched /\ Layout(entry)
      /\ Head(todo).outputs = OutputsOf(command)
      /\ \A r \in Given(InputsOf(command)) : Node(arguments[r])[1] = "file"
      /\ \A o \in Given(OutputsOf(command)), r \in Given(InputsOf(command)) :
           "orphan" \notin {arguments[o][1], arguments[r][1]}
           /\ ~PathsConflict(arguments[r], arguments[o])
  BY BeforeTouch DEF IsDue, Touches
<1>2. \A o \in Given(OutputsOf(command)) : IsOutput(arguments[o])
  BY <1>1 DEF Distinct
<1>3. /\ InputsOf(command) \subseteq Roles(command) /\ OutputsOf(command) \subseteq Roles(command)
      /\ AnyArguments /\ Layout(before) /\ entry = before
      /\ DOMAIN content = Files(DOMAIN before)
  BY <1>1 DEF Roles, CommandInv, Untouched
<1>4. ASSUME NEW o \in Given(OutputsOf(command))
      PROVE  /\ arguments[o][1] /= "orphan" /\ arguments[o][2] \in DOMAIN before
             /\ entry[arguments[o][2]][1] \in {"file", "absent"}
             /\ arguments[o][2] \in places
  <2>1. arguments[o][1] /= "orphan" /\ entry[arguments[o][2]][1] \in {"file", "absent"}
    BY <1>2 DEF IsOutput
  <2>2. arguments[o][2] \in DOMAIN before
    BY <1>3, <2>1, PathLeads
  <2> QED BY <1>1, <2>1, <2>2
<1>5. ASSUME NEW r \in Given(InputsOf(command))
      PROVE  /\ NodeIn(entry', arguments[r]) = NodeIn(before, arguments[r])
             /\ \E q \in DOMAIN before : NodeIn(before, arguments[r]) = File(q, "first")
  <2>1. Node(arguments[r])[1] = "file" /\ Node(arguments[r]) = NodeIn(before, arguments[r])
    BY <1>1, <1>3 DEF Node
  <2>2. arguments[r][1] /= "orphan"
    BY <2>1, NodeKinds DEF NodeIn
  <2>3. arguments[r][2] \in DOMAIN before
    BY <1>3, <2>2, PathLeads
  <2>4. \E q \in DOMAIN before : NodeIn(before, arguments[r]) = File(q, "first")
    BY <1>3, <2>1, <2>2, <2>3, NodesAre
  <2>5. \A o \in Given(OutputsOf(command)) : Normalized(arguments[r]) /= arguments[o][2]
    BY <1>1, <1>4 DEF PathsConflict, Normalized
  <2>6. Exists(arguments[r])
    BY <2>1 DEF Exists
  <2>7. Normalized(arguments[r]) \notin places
    BY <1>1, <2>5
  <2>8. arguments[r][2] \notin places
    BY <1>1, <1>4, <2>6, <2>7 DEF Normalized
  <2>9. /\ entry'[arguments[r][2]] = before[arguments[r][2]]
        /\ before[arguments[r][2]][1] = "link" =>
             entry'[before[arguments[r][2]][2]] = before[before[arguments[r][2]][2]]
    <3>1. entry'[arguments[r][2]] = before[arguments[r][2]]
      BY <1>3, <2>3, <2>8
    <3>2. ASSUME before[arguments[r][2]][1] = "link"
          PROVE  entry'[before[arguments[r][2]][2]] = before[before[arguments[r][2]][2]]
      <4>1. before[arguments[r][2]][2] \in DOMAIN before
        BY <1>3, <2>2, <2>3, <3>2, NodesAre
      <4>2. before[arguments[r][2]][2] \notin places
        BY <1>3, <2>6, <2>7, <3>2 DEF Normalized
      <4> QED BY <1>3, <4>1, <4>2
    <3> QED BY <3>1, <3>2
  <2>10. DOMAIN entry' = DOMAIN before
    BY <1>3
  <2>11. NodeIn(entry', arguments[r]) = NodeIn(before, arguments[r])
    BY <1>3, <2>2, <2>3, <2>9, <2>10, InputStays
  <2> QED BY <2>4, <2>11
<1>6. \A q \in DOMAIN before : content'[File(q, "first")] = "old"
  <2> SUFFICES ASSUME NEW q \in DOMAIN before PROVE content'[File(q, "first")] = "old"
    OBVIOUS
  <2>1. File(q, "first") \in Files(DOMAIN before)
    BY DEF Files
  <2>2. File(q, "first") \notin {new[p] : p \in places} \ {entry[p] : p \in places}
    BY NodeKinds
  <2>3. content[File(q, "first")] = "old"
    BY <1>1, <2>1 DEF Untouched
  <2> QED BY <1>3, <2>1, <2>2, <2>3
<1>7. InputsSurvive'
  <2>1. Given(InputsOf(command))' = Given(InputsOf(command))
    BY DEF Given, InputsOf
  <2>2. \A r \in Given(InputsOf(command)) :
          /\ NodeIn(entry', arguments[r]) = NodeIn(before, arguments[r])
          /\ content'[NodeIn(entry', arguments[r])] = "old"
    BY <1>5, <1>6
  <2> QED BY <2>1, <2>2 DEF InputsSurvive, Node
<1>8. \A r \in Given(InputsOf(command)) :
        Node(arguments[r])'[1] = "file" /\ Node(arguments[r])'[3] = "first"
  BY <1>5, NodeKinds DEF Node
<1>9. ASSUME NEW o \in Given(OutputsOf(command)),
             new[arguments[o][2]] = File(arguments[o][2], "made")
      PROVE  /\ Node(arguments[o])' = File(arguments[o][2], "made")
             /\ content'[Node(arguments[o])'] = "new"
  <2>1. entry'[arguments[o][2]] = File(arguments[o][2], "made")
    BY <1>3, <1>4, <1>9
  <2>2. Node(arguments[o])' = File(arguments[o][2], "made")
    <3>1. entry'[arguments[o][2]][1] /= "link" /\ arguments[o][1] /= "orphan"
      BY <1>4, <2>1, NodeKinds
    <3>2. NodeIn(entry', arguments[o]) = entry'[arguments[o][2]]
      BY <3>1 DEF NodeIn
    <3> QED BY <2>1, <3>2 DEF Node
  <2>3. File(arguments[o][2], "made") \in Files(DOMAIN before)
    BY <1>4 DEF Files
  <2>4. \A p \in places : p \in DOMAIN before /\ entry[p] /= File(arguments[o][2], "made")
    <3> SUFFICES ASSUME NEW p \in places PROVE p \in DOMAIN before /\ entry[p] /= File(arguments[o][2], "made")
      OBVIOUS
    <3>1. p \in DOMAIN before /\ entry[p][1] \in {"file", "absent"}
      BY <1>1, <1>4
    <3>2. CASE entry[p] \in {Dir(p), Absent(p)}
      BY <3>1, <3>2, NodeKinds
    <3>3. CASE \E q \in DOMAIN before : entry[p] = File(q, "first")
      BY <3>1, <3>3, NodeKinds
    <3>4. CASE \E q \in DOMAIN before : entry[p] = Link(q)
      BY <3>1, <3>4, NodeKinds
    <3> QED BY <1>3, <3>1, <3>2, <3>3, <3>4 DEF Layout
  <2> QED BY <1>3, <1>4, <1>9, <2>2, <2>3, <2>4
<1>10. DOMAIN entry' = DOMAIN before /\ DOMAIN content' = Files(DOMAIN before)
  BY <1>3
<1>11. Replacement(new, places)
  BY <1>4, <1>9 DEF Replacement
<1> QED BY <1>7, <1>8, <1>10, <1>11

\* Only indexing writes in place, and it has all its paths.
LEMMA InPlaceHasPaths ==
  ASSUME AnyArguments, command \in DOMAIN Plans, InPlace(command)
  PROVE  Given(OutputsOf(command)) = OutputsOf(command)
<1>0. PICK i \in DOMAIN Plan : Plan[i].do = "truncate"
  BY DEF InPlace, Plan
<1>1. PlanShape(Plan, InputsOf(command), OutputsOf(command))
  BY PlansHaveShape DEF Plan
<1>2. i = Len(Plan) - 2 /\ Plan[i].do = "truncate"
  <2>1. DOMAIN Plan = 1 .. Len(Plan)
    BY <1>1 DEF PlanShape
  <2> QED BY <1>0, <1>1, <2>1 DEF PlanShape, Touches
<1>3. command \notin {"batch", "ciff_batch", "reorder", "benchmark"}
  <2>1. Len(Batch) = 8 /\ Len(CiffBatch) = 8 /\ Len(Reorder) = 9 /\ Len(Benchmark) = 5
    BY DEF Batch, CiffBatch, Reorder, Benchmark
  <2>2. Batch[6].do = "compute" /\ CiffBatch[6].do = "compute"
    BY DEF Batch, CiffBatch, Compute, On
  <2>3. Reorder[7].do = "compute" /\ Benchmark[3].do = "compute"
    BY DEF Reorder, Benchmark, Compute, On
  <2>4. /\ Plans["batch"] = Batch /\ Plans["ciff_batch"] = CiffBatch
        /\ Plans["reorder"] = Reorder /\ Plans["benchmark"] = Benchmark
    BY DEF Plans
  <2>5. Batch[Len(Batch) - 2].do = "compute" /\ CiffBatch[Len(CiffBatch) - 2].do = "compute"
    BY <2>1, <2>2
  <2>6. Reorder[Len(Reorder) - 2].do = "compute" /\ Benchmark[Len(Benchmark) - 2].do = "compute"
    BY <2>1, <2>3
  <2>7. Plans[command][Len(Plans[command]) - 2].do = "truncate"
    BY <1>2 DEF Plan
  <2> QED BY <2>4, <2>5, <2>6, <2>7
<1>4. Optional(command) = {{}}
  BY <1>3 DEF Optional
<1>5. \A o \in Roles(command) : arguments[o] /= NoPath
  BY <1>4 DEF AnyArguments
<1> QED BY <1>5 DEF Given, Roles

\* Truncating the output in place keeps the inputs.
LEMMA Truncated ==
  ASSUME CommandInv, IsDue("truncate"),
         NEW out \in Head(todo).outputs, NEW name, name = arguments[out], name[1] /= "orphan",
         NEW place, place = IF entry[name[2]][1] = "link" THEN entry[name[2]][2] ELSE name[2],
         NEW file, file = IF Exists(name) THEN Node(name) ELSE File(place, "made"),
         file[1] = "file",
         entry' = [entry EXCEPT ![place] = file],
         content' = [content EXCEPT ![file] = "part"],
         UNCHANGED <<command, arguments, before>>
  PROVE  /\ InputsSurvive' /\ InPlace(command)
         /\ DOMAIN entry' = DOMAIN before /\ DOMAIN content' = Files(DOMAIN before)
         /\ \A r \in Given(InputsOf(command)) : Node(arguments[r])'[1] = "file"
         /\ \A o \in Given(OutputsOf(command)) :
              /\ Node(arguments[o])'[1] = "file"
              /\ Node(arguments[o])' \in Files(DOMAIN before)
              /\ \A r \in Given(InputsOf(command)) : Node(arguments[o])' /= Node(arguments[r])'
<1>1. /\ Untouched /\ Layout(entry)
      /\ Head(todo).outputs = OutputsOf(command)
      /\ \A r \in Given(InputsOf(command)) : Node(arguments[r])[1] = "file"
      /\ \A o \in Given(OutputsOf(command)), r \in Given(InputsOf(command)) :
           "orphan" \notin {arguments[o][1], arguments[r][1]}
           /\ ~PathsConflict(arguments[r], arguments[o])
  BY BeforeTouch DEF IsDue, Touches
<1>2. InPlace(command) /\ Given(OutputsOf(command)) = {out}
  <2>1. /\ Done + 1 \in 1 .. Len(Plan) /\ Plan[Done + 1].do = "truncate"
        /\ PlanShape(Plan, InputsOf(command), OutputsOf(command))
    BY DueStep DEF CommandInv, IsDue
  <2>2. \E o \in OutputsOf(command) : OutputsOf(command) = {o}
    BY <2>1 DEF PlanShape, Touches
  <2>3. DOMAIN Plan = 1 .. Len(Plan)
    BY <2>1 DEF PlanShape
  <2>4. InPlace(command)
    BY <2>1, <2>3 DEF InPlace, Plan
  <2>5. Given(OutputsOf(command)) = OutputsOf(command)
    BY <2>4, InPlaceHasPaths DEF CommandInv, TodoInv
  <2> QED BY <1>1, <2>2, <2>4, <2>5
<1>3. /\ InputsOf(command) \subseteq Roles(command) /\ OutputsOf(command) \subseteq Roles(command)
      /\ AnyArguments /\ Layout(before) /\ entry = before
      /\ DOMAIN content = Files(DOMAIN before)
  BY <1>1 DEF Roles, CommandInv, Untouched
<1>4. name[2] \in DOMAIN before
  BY <1>2, <1>3, PathLeads
<1>5. /\ place \in DOMAIN before /\ before[place][1] /= "link"
      /\ NodeIn(before, name) = before[place]
      /\ before[name[2]][1] = "link" \/ place = name[2]
      /\ before[name[2]][1] = "link" => place = before[name[2]][2]
  BY <1>3, <1>4, NodesAre
<1>6. \/ Exists(name) /\ file = before[place] /\ \E q \in DOMAIN before : file = File(q, "first")
      \/ ~Exists(name) /\ file = File(place, "made") /\ before[place][1] /= "file"
  BY <1>3, <1>4, <1>5, NodesAre DEF Exists, Node
<1>7. file \in Files(DOMAIN before)
  <2>1. \A q \in DOMAIN before : File(q, "first") \in Files(DOMAIN before)
    BY DEF Files
  <2>2. \A q \in DOMAIN before : File(q, "made") \in Files(DOMAIN before)
    BY DEF Files
  <2> QED BY <1>5, <1>6, <2>1, <2>2
<1>8. DOMAIN entry' = DOMAIN before /\ DOMAIN content' = Files(DOMAIN before)
  BY <1>3
<1>9. entry'[place] = file /\ \A p \in DOMAIN before : p /= place => entry'[p] = before[p]
  BY <1>3, <1>5
<1>10. NodeIn(entry', name) = file
  <2>1. CASE before[name[2]][1] = "link"
    <3>1. name[2] /= place
      BY <1>5, <2>1
    <3>2. entry'[name[2]][1] = "link" /\ entry'[name[2]][2] = place
      BY <1>4, <1>5, <1>9, <2>1, <3>1
    <3> QED BY <1>9, <3>2 DEF NodeIn
  <2>2. CASE place = name[2]
    BY <1>9, <2>2 DEF NodeIn
  <2> QED BY <1>5, <2>1, <2>2
<1>11. ASSUME NEW r \in Given(InputsOf(command))
       PROVE  /\ NodeIn(entry', arguments[r]) = NodeIn(before, arguments[r])
              /\ \E q \in DOMAIN before : NodeIn(before, arguments[r]) = File(q, "first")
              /\ NodeIn(before, arguments[r]) /= file
  <2>1. Node(arguments[r])[1] = "file" /\ Node(arguments[r]) = NodeIn(before, arguments[r])
    BY <1>1, <1>3 DEF Node
  <2>2. arguments[r][1] /= "orphan"
    BY <2>1, NodeKinds DEF NodeIn
  <2>3. arguments[r][2] \in DOMAIN before
    BY <1>3, <2>2, PathLeads
  <2>4. \E q \in DOMAIN before : NodeIn(before, arguments[r]) = File(q, "first")
    BY <1>3, <2>1, <2>2, <2>3, NodesAre
  <2>5. NodeIn(before, arguments[r]) /= file
    <3>1. CASE Exists(name)
      <4>1. ~SameExistingFile(arguments[r], name)
        BY <1>1, <1>2 DEF PathsConflict
      <4> QED BY <2>1, <3>1, <4>1 DEF SameExistingFile, Exists
    <3>2. CASE file = File(place, "made")
      BY <2>4, <3>2, NodeKinds
    <3> QED BY <1>6, <3>1, <3>2
  <2>6. before[place] = file \/ before[place][1] /= "file"
    BY <1>6
  <2>7. \A p \in DOMAIN before :
          p = arguments[r][2] \/ (before[arguments[r][2]][1] = "link" /\ p = before[arguments[r][2]][2])
            => entry'[p] = before[p]
    <3> SUFFICES ASSUME NEW p \in DOMAIN before,
                        p = arguments[r][2] \/ (before[arguments[r][2]][1] = "link"
                                                /\ p = before[arguments[r][2]][2])
                 PROVE  p /= place
      BY <1>9
    <3>1. before[p][1] = "link" \/ before[p] = NodeIn(before, arguments[r])
      BY <1>3, <2>2, <2>3, NodesAre
    <3> QED BY <1>5, <2>1, <2>5, <2>6, <3>1
  <2>8. before[arguments[r][2]][1] = "link" => before[arguments[r][2]][2] \in DOMAIN before
    BY <1>3, <2>2, <2>3, NodesAre
  <2>9. NodeIn(entry', arguments[r]) = NodeIn(before, arguments[r])
    <3>1. entry'[arguments[r][2]] = before[arguments[r][2]]
      BY <2>3, <2>7
    <3>2. before[arguments[r][2]][1] = "link" =>
            entry'[before[arguments[r][2]][2]] = before[before[arguments[r][2]][2]]
      BY <2>7, <2>8
    <3> QED BY <2>2, <3>1, <3>2 DEF NodeIn
  <2> QED BY <2>4, <2>5, <2>9
<1>12. \A q \in DOMAIN before : File(q, "first") /= file => content'[File(q, "first")] = "old"
  <2>1. \A q \in DOMAIN before : File(q, "first") \in Files(DOMAIN before)
    BY DEF Files
  <2>2. \A f \in Files(DOMAIN before) : f /= file => content'[f] = "old"
    BY <1>1, <1>7 DEF Untouched
  <2> QED BY <2>1, <2>2
<1>13. InputsSurvive'
  <2>1. Given(InputsOf(command))' = Given(InputsOf(command))
    BY DEF Given, InputsOf
  <2>2. \A r \in Given(InputsOf(command)) :
          /\ NodeIn(entry', arguments[r]) = NodeIn(before, arguments[r])
          /\ content'[NodeIn(entry', arguments[r])] = "old"
    BY <1>11, <1>12
  <2> QED BY <2>1, <2>2 DEF InputsSurvive, Node
<1>14. \A r \in Given(InputsOf(command)) : Node(arguments[r])'[1] = "file"
  <2> SUFFICES ASSUME NEW r \in Given(InputsOf(command)) PROVE Node(arguments[r])'[1] = "file"
    OBVIOUS
  <2>1. PICK q \in DOMAIN before : NodeIn(entry', arguments[r]) = File(q, "first")
    BY <1>11
  <2>2. Node(arguments[r])' = NodeIn(entry', arguments[r])
    BY DEF Node
  <2> QED BY <2>1, <2>2, NodeKinds
<1>15. \A o \in Given(OutputsOf(command)) :
         /\ Node(arguments[o])' = file
         /\ \A r \in Given(InputsOf(command)) : Node(arguments[o])' /= Node(arguments[r])'
  <2>1. \A r \in Given(InputsOf(command)) : NodeIn(entry', arguments[r]) /= file
    BY <1>11
  <2>2. \A o \in Given(OutputsOf(command)) : NodeIn(entry', arguments[o]) = file
    BY <1>2, <1>10
  <2>3. \A r : Node(arguments[r])' = NodeIn(entry', arguments[r])
    BY DEF Node
  <2>4. \A o \in Given(OutputsOf(command)) : Node(arguments[o])' = file
    BY <2>2, <2>3
  <2>5. \A r \in Given(InputsOf(command)) : Node(arguments[r])' /= file
    BY <2>1, <2>3
  <2> QED BY <2>4, <2>5
<1> QED BY <1>2, <1>7, <1>8, <1>13, <1>14, <1>15

\* After the outputs were touched, they are filled or the outcome is told.
LEMMA TouchedDue ==
  ASSUME TodoInv, verdict = "running"
  PROVE  /\ Touched => Head(todo).do \in {"fill", "tell"}
         /\ Head(todo).do = "tell" => Touched \/ OutputsOf(command) = {}
         /\ Head(todo).do = "fill" => /\ Touched /\ InPlace(command)
                                      /\ Head(todo).outputs = OutputsOf(command)
                                      /\ \E o \in OutputsOf(command) : OutputsOf(command) = {o}
<1>1. /\ Done \in Nat /\ Done + 1 \in 1 .. Len(Plan) /\ Head(todo) = Plan[Done + 1]
      /\ PlanShape(Plan, InputsOf(command), OutputsOf(command)) /\ Len(Plan) \in Nat
  <2>1. PlanShape(Plan, InputsOf(command), OutputsOf(command))
    BY DueStep
  <2>2. Len(Plan) \in Nat
    BY <2>1 DEF PlanShape
  <2> QED BY <2>1, <2>2, DueStep
<1>2. ASSUME Touched PROVE Head(todo).do \in {"fill", "tell"}
  <2>1. PICK j \in 1 .. Done : Touches(Plan[j])
    BY <1>2 DEF Touched
  <2>2. j \in 1 .. Len(Plan)
    BY <1>1
  <2>3. CASE Plan[j].do = "replace"
    <3>1. Done + 1 = Len(Plan)
      BY <1>1, <2>1, <2>2, <2>3 DEF PlanShape
    <3> QED BY <1>1, <3>1 DEF PlanShape
  <2>4. CASE Plan[j].do = "truncate"
    <3>1. j = Len(Plan) - 2 /\ Plan[j + 1].do = "fill"
      BY <1>1, <2>1, <2>2, <2>4 DEF PlanShape
    <3>2. Done + 1 = j + 1 \/ Done + 1 = Len(Plan)
      BY <1>1, <3>1
    <3> QED BY <1>1, <3>1, <3>2 DEF PlanShape
  <2> QED BY <2>1, <2>3, <2>4 DEF Touches
<1>3. ASSUME Head(todo).do = "tell", ~Touched PROVE OutputsOf(command) = {}
  <2>1. Done + 1 = Len(Plan)
    BY <1>1, <1>3 DEF PlanShape
  <2>2. \A i \in 1 .. Len(Plan) : i \in 1 .. Done \/ i = Done + 1
    BY <1>1, <2>1
  <2>3. ~Touches(Plan[Done + 1])
    BY <1>1, <1>3 DEF Touches
  <2>4. \A i \in 1 .. Len(Plan) : ~Touches(Plan[i])
    BY <1>3, <2>2, <2>3 DEF Touched
  <2> QED BY <1>1, <2>4 DEF PlanShape
<1>4. ASSUME Head(todo).do = "fill"
      PROVE  /\ Touched /\ InPlace(command) /\ Head(todo).outputs = OutputsOf(command)
             /\ \E o \in OutputsOf(command) : OutputsOf(command) = {o}
  <2>1. /\ Done + 1 > 1 /\ Plan[(Done + 1) - 1].do = "truncate"
        /\ Plan[(Done + 1) - 1].outputs = Plan[Done + 1].outputs
    BY <1>1, <1>4 DEF PlanShape
  <2>2. (Done + 1) - 1 = Done
    BY <1>1
  <2>3. Done \in 1 .. Done /\ Done \in 1 .. Len(Plan) /\ Plan[Done].do = "truncate"
        /\ Plan[Done].outputs = Plan[Done + 1].outputs
    BY <1>1, <2>1, <2>2
  <2>4. Touches(Plan[Done])
    BY <2>3 DEF Touches
  <2>5. Plan[Done].outputs = OutputsOf(command) /\ \E o \in OutputsOf(command) : OutputsOf(command) = {o}
    BY <1>1, <2>3, <2>4 DEF PlanShape
  <2>6. InPlace(command)
    BY <1>1, <2>3 DEF InPlace, Plan, PlanShape
  <2> QED BY <1>1, <2>3, <2>4, <2>5, <2>6 DEF Touched
<1> QED BY <1>2, <1>3, <1>4

\* What a step that changes neither files nor paths leaves as it is.
LEMMA SameFiles ==
  ASSUME UNCHANGED <<command, arguments, entry, content, before>>
  PROVE  /\ \A roles : Given(roles)' = Given(roles)
         /\ \A name : Node(name)' = Node(name)
         /\ \A s : Distinct(s)' <=> Distinct(s)
         /\ InputsSurvive' <=> InputsSurvive
         /\ Untouched' <=> Untouched
<1>1. \A roles : Given(roles)' = Given(roles)
  BY DEF Given
<1>2. \A name : Node(name)' = Node(name)
  BY DEF Node
<1>3. \A name : (Exists(name)' <=> Exists(name)) /\ Normalized(name)' = Normalized(name)
                /\ (IsOutput(name)' <=> IsOutput(name))
  BY <1>2 DEF Exists, Normalized, IsOutput
<1>4. \A left, right : PathsConflict(left, right)' <=> PathsConflict(left, right)
  BY <1>2, <1>3 DEF PathsConflict, SameExistingFile
<1>5. \A s : Distinct(s)' <=> Distinct(s)
  BY <1>1, <1>3, <1>4 DEF Distinct
<1>6. InputsSurvive' <=> InputsSurvive
  BY <1>1, <1>2 DEF InputsSurvive
<1>7. Untouched' <=> Untouched
  BY DEF Untouched
<1> QED BY <1>1, <1>2, <1>5, <1>6, <1>7

\* A step that checks, reads or computes, and one that ends the command.
LEMMA ContinueKeeps ==
  ASSUME CommandInv, verdict = "running", Continue,
         Head(todo).do \notin {"tell", "fill"}, ~Touches(Head(todo)),
         Head(todo).do = "paths" => Distinct(Head(todo)),
         Head(todo).do = "load" => \A r \in Given(Head(todo).inputs) : Node(arguments[r])[1] = "file"
  PROVE  CommandInv'
<1>1. /\ Proceed /\ verdict' = "running" /\ TodoInv
      /\ UNCHANGED <<command, arguments, entry, content, verdict, before>>
  BY DEF Continue, CommandInv
<1>2. ~Touched /\ Untouched /\ Checked
  BY <1>1, TouchedDue DEF CommandInv
<1>3. /\ TodoInv' /\ Done' = Done + 1 /\ Plan' = Plan /\ ~Touched'
      /\ Done \in Nat /\ Head(todo) = Plan[Done + 1]
  BY <1>1, <1>2, StepDone, DueStep
<1>4. Checked'
  <2> SUFFICES ASSUME NEW i \in 1 .. Done'
               PROVE  (/\ Plan[i].do = "paths" => Distinct(Plan[i])
                       /\ Plan[i].do = "load" =>
                            \A r \in Given(Plan[i].inputs) : Node(arguments[r])[1] = "file")'
    BY DEF Checked
  <2>1. /\ Plan[i].do = "paths" => Distinct(Plan[i])
        /\ Plan[i].do = "load" => \A r \in Given(Plan[i].inputs) : Node(arguments[r])[1] = "file"
    <3>1. CASE i \in 1 .. Done
      BY <1>2, <3>1 DEF Checked
    <3>2. CASE i = Done + 1
      BY <1>3, <3>2
    <3> QED BY <1>3, <3>1, <3>2
  <2>2. \A s : Distinct(s)' <=> Distinct(s)
    BY <1>1, SameFiles
  <2>3. \A roles : Given(roles)' = Given(roles)
    BY <1>1, SameFiles
  <2>4. \A r : Node(arguments[r])' = Node(arguments[r])
    BY <1>1 DEF Node
  <2> QED BY <1>3, <2>1, <2>2, <2>3, <2>4
<1>5. Untouched' /\ InputsSurvive'
  BY <1>1, <1>2, SameFiles DEF CommandInv
<1>6. AllOrNothing'
  BY <1>1 DEF AllOrNothing
<1>7. AnyArguments' /\ Layout(before)' /\ (DOMAIN entry = DOMAIN before)'
      /\ (DOMAIN content = Files(DOMAIN before))'
  BY <1>1 DEF CommandInv, AnyArguments, Layout, Roles, Files
<1> QED BY <1>1, <1>3, <1>4, <1>5, <1>6, <1>7 DEF CommandInv

LEMMA EndKeeps ==
  ASSUME CommandInv, verdict' /= "running", UNCHANGED <<todo, command, arguments, before>>,
         DOMAIN entry' = DOMAIN before, DOMAIN content' = Files(DOMAIN before),
         InputsSurvive', AllOrNothing'
  PROVE  CommandInv'
<1>1. TodoInv'
  BY DEF CommandInv, TodoInv, Plan, Done
<1>2. AnyArguments' /\ Layout(before)' /\ Files(DOMAIN before)' = Files(DOMAIN before)
  BY DEF CommandInv, AnyArguments, Layout, Roles, Files
<1> QED BY <1>1, <1>2 DEF CommandInv

\* When no output is touched, an error leaves everything as it was.
LEMMA NothingChanged ==
  ASSUME CommandInv, verdict = "running", Head(todo).do \notin {"tell", "fill"}
  PROVE  /\ entry = before
         /\ \A p \in DOMAIN entry : entry[p][1] = "file" => content[entry[p]] = "old"
<1>1. Untouched /\ Layout(before)
  BY TouchedDue DEF CommandInv
<1>2. \A p \in DOMAIN entry : entry[p][1] = "file" => entry[p] \in Files(DOMAIN before)
  BY <1>1, EntriesAre DEF Untouched, Files
<1> QED BY <1>1, <1>2 DEF Untouched

\* Before the last lines are told, every output is made.
LEMMA AllMade ==
  ASSUME CommandInv, verdict = "running", Head(todo).do = "tell"
  PROVE  \A o \in Given(OutputsOf(command)) :
           Node(arguments[o])[1] = "file" /\ content[Node(arguments[o])] = "new"
<1>1. CASE Touched
  BY <1>1 DEF CommandInv, Made
<1>2. CASE OutputsOf(command) = {}
  BY <1>2 DEF Given
<1> QED BY <1>1, <1>2, TouchedDue DEF CommandInv

LEMMA FillKeeps == CommandInv /\ FillOutput => CommandInv'
<1> SUFFICES ASSUME CommandInv, FillOutput PROVE CommandInv'
  OBVIOUS
<1>1. /\ verdict = "running" /\ Head(todo).do = "fill" /\ TodoInv
      /\ UNCHANGED <<command, arguments, entry, before>>
  BY DEF FillOutput, IsDue, CommandInv
<1>2. /\ Touched /\ InPlace(command) /\ Head(todo).outputs = OutputsOf(command) /\ Made
      /\ \E o \in OutputsOf(command) : OutputsOf(command) = {o}
  BY <1>1, TouchedDue DEF CommandInv
<1>3. CASE End("partial") /\ UNCHANGED content
  <2>1. verdict' = "partial" /\ UNCHANGED <<todo, command, arguments, entry, content, before>>
    BY <1>1, <1>3 DEF End
  <2>2. InputsSurvive'
    BY <2>1, SameFiles DEF CommandInv
  <2>3. AllOrNothing'
    BY <1>2, <2>1 DEF AllOrNothing, InPlace
  <2> QED BY <2>1, <2>2, <2>3, EndKeeps DEF CommandInv
<1>4. ASSUME NEW r \in Head(todo).outputs, Proceed, UNCHANGED verdict,
             content' = [content EXCEPT ![Node(arguments[r])] = "new"]
      PROVE  CommandInv'
  <2>1. TodoInv' /\ Touched' /\ verdict' = "running"
    BY <1>1, <1>2, <1>4, StepDone
  <2>2. OutputsOf(command) = {r}
    BY <1>2
  <2>3. /\ \A name : Node(name)' = Node(name)
        /\ \A roles : Given(roles)' = Given(roles)
        /\ OutputsOf(command)' = OutputsOf(command) /\ InputsOf(command)' = InputsOf(command)
    BY <1>1 DEF Node, Given, OutputsOf, InputsOf
  <2>4. Given(OutputsOf(command)) = {r}
    BY <1>1, <1>2, <2>2, InPlaceHasPaths DEF CommandInv, TodoInv
  <2>5. /\ Node(arguments[r])[1] = "file"
        /\ Node(arguments[r]) \in Files(DOMAIN before)
        /\ Node(arguments[r]) \in DOMAIN content
        /\ \A q \in Given(InputsOf(command)) : Node(arguments[r]) /= Node(arguments[q])
        /\ \A q \in Given(InputsOf(command)) : Node(arguments[q])[1] = "file"
    BY <1>2, <2>4 DEF Made, CommandInv
  <2>6. Made'
    <3>1. content'[Node(arguments[r])] = "new"
      BY <1>4, <2>5
    <3>2. \A q : Node(arguments[q])' = Node(arguments[q])
      BY <1>1 DEF Node
    <3>3. Files(DOMAIN before)' = Files(DOMAIN before)
      BY <1>1
    <3> QED BY <2>3, <2>4, <2>5, <3>1, <3>2, <3>3 DEF Made
  <2>7. InputsSurvive'
    <3>1. \A q \in Given(InputsOf(command)) : content'[Node(arguments[q])] = content[Node(arguments[q])]
      <4>1. \A n : n /= Node(arguments[r]) => content'[n] = content[n]
        BY <1>4
      <4> QED BY <2>5, <4>1
    <3>2. \A q : Node(arguments[q])' = Node(arguments[q])
      BY <1>1 DEF Node
    <3>3. \A q : NodeIn(before, arguments[q])' = NodeIn(before, arguments[q])
      BY <1>1
    <3> QED BY <2>3, <3>1, <3>2, <3>3 DEF InputsSurvive, CommandInv
  <2>8. AllOrNothing'
    BY <1>1, <1>4 DEF AllOrNothing
  <2>9. AnyArguments' /\ Layout(before)' /\ Files(DOMAIN before)' = Files(DOMAIN before)
        /\ DOMAIN entry' = DOMAIN before' /\ DOMAIN content' = Files(DOMAIN before)'
    BY <1>1, <1>4 DEF CommandInv, AnyArguments, Layout, Roles, Files
  <2> QED BY <2>1, <2>6, <2>7, <2>8, <2>9 DEF CommandInv
<1> QED BY <1>3, <1>4 DEF FillOutput

LEMMA TruncateKeeps == CommandInv /\ TruncateOutput => CommandInv'
<1> SUFFICES ASSUME CommandInv, TruncateOutput PROVE CommandInv'
  OBVIOUS
<1>1. /\ verdict = "running" /\ Head(todo).do = "truncate" /\ TodoInv /\ Proceed
      /\ UNCHANGED <<command, arguments, verdict, before>>
  BY DEF TruncateOutput, IsDue, CommandInv
<1>2. PICK out \in Head(todo).outputs :
        LET name == arguments[out]
            place == IF entry[name[2]][1] = "link" THEN entry[name[2]][2] ELSE name[2]
            file == IF Exists(name) THEN Node(name) ELSE File(place, "made")
        IN  /\ name[1] /= "orphan" /\ file[1] = "file"
            /\ entry' = [entry EXCEPT ![place] = file]
            /\ content' = [content EXCEPT ![file] = "part"]
  BY DEF TruncateOutput
<1>3. /\ InputsSurvive' /\ InPlace(command)
      /\ DOMAIN entry' = DOMAIN before /\ DOMAIN content' = Files(DOMAIN before)
      /\ \A r \in Given(InputsOf(command)) : Node(arguments[r])'[1] = "file"
      /\ \A o \in Given(OutputsOf(command)) :
           /\ Node(arguments[o])'[1] = "file"
           /\ Node(arguments[o])' \in Files(DOMAIN before)
           /\ \A r \in Given(InputsOf(command)) : Node(arguments[o])' /= Node(arguments[r])'
  BY <1>1, <1>2, Truncated DEF IsDue
<1>4. TodoInv' /\ Touched'
  BY <1>1, StepDone DEF Touches
<1>5. verdict' = "running" /\ Head(todo').do = "fill"
  <2>1. /\ Done \in Nat /\ Done + 1 \in 1 .. Len(Plan) /\ Head(todo) = Plan[Done + 1]
        /\ PlanShape(Plan, InputsOf(command), OutputsOf(command))
    BY <1>1, DueStep
  <2>2. Plan[(Done + 1) + 1].do = "fill"
    BY <1>1, <2>1 DEF PlanShape, Touches
  <2>3. Done' = Done + 1 /\ Plan' = Plan /\ verdict' = "running"
    BY <1>1, StepDone
  <2>4. Head(todo)' = Plan'[Done' + 1]
    <3>1. TodoInv' /\ verdict' = "running"
      BY <1>4, <2>3
    <3>2. (TodoInv /\ verdict = "running" => Head(todo) = Plan[Done + 1])'
      BY DueStep, PTL
    <3> QED BY <3>1, <3>2
  <2> QED BY <2>2, <2>3, <2>4
<1>6. Made'
  <2>1. /\ \A roles : Given(roles)' = Given(roles)
        /\ OutputsOf(command)' = OutputsOf(command) /\ InputsOf(command)' = InputsOf(command)
        /\ Files(DOMAIN before)' = Files(DOMAIN before)
    BY <1>1 DEF Given, OutputsOf, InputsOf
  <2> QED BY <1>3, <1>5, <2>1 DEF Made
<1>7. AllOrNothing'
  BY <1>5 DEF AllOrNothing
<1>8. AnyArguments' /\ Layout(before)' /\ (DOMAIN entry = DOMAIN before)'
      /\ (DOMAIN content = Files(DOMAIN before))'
  BY <1>1, <1>3 DEF CommandInv, AnyArguments, Layout, Roles, Files
<1> QED BY <1>3, <1>4, <1>5, <1>6, <1>7, <1>8 DEF CommandInv

LEMMA ReplaceKeeps == CommandInv /\ ReplaceOutputs => CommandInv'
<1> SUFFICES ASSUME CommandInv, ReplaceOutputs PROVE CommandInv'
  OBVIOUS
<1> DEFINE outputs == Given(Head(todo).outputs)
           places == {arguments[o][2] : o \in outputs}
           ready == Distinct([Head(todo) EXCEPT !.strict = TRUE])
           Put(new) ==
             /\ entry' = [p \in DOMAIN entry |-> IF p \in places THEN new[p] ELSE entry[p]]
             /\ content' = [f \in DOMAIN content |->
                              IF f \in {new[p] : p \in places} \ {entry[p] : p \in places}
                              THEN "new" ELSE content[f]]
<1>1. /\ verdict = "running" /\ Head(todo).do = "replace" /\ TodoInv
      /\ UNCHANGED <<command, arguments, before>>
      /\ \/ /\ ready /\ Put([p \in places |-> File(p, "made")])
            /\ Proceed /\ UNCHANGED verdict
         \/ End("error") /\ UNCHANGED <<entry, content>>
         \/ /\ ready
            /\ \E choice \in [places -> {"kept", "made", "gone"}] :
                 Put([p \in places |-> CASE choice[p] = "kept" -> entry[p]
                                         [] choice[p] = "made" -> File(p, "made")
                                         [] OTHER -> Absent(p)])
            /\ End("half_done")
  BY DEF ReplaceOutputs, IsDue, CommandInv
<1>2. CASE /\ ready /\ Put([p \in places |-> File(p, "made")]) /\ Proceed /\ UNCHANGED verdict
  <2> DEFINE new == [p \in places |-> File(p, "made")]
  <2>1. \A p \in places : new[p] = File(p, "made")
    OBVIOUS
  <2>2. \A p \in places : new[p] \in {entry[p], File(p, "made"), Absent(p)}
    BY <2>1
  <2>3. Put(new) /\ ready /\ IsDue("replace")
    BY <1>1, <1>2 DEF IsDue
  <2> HIDE DEF new
  <2>4. /\ InputsSurvive'
        /\ DOMAIN entry' = DOMAIN before /\ DOMAIN content' = Files(DOMAIN before)
        /\ \A r \in Given(InputsOf(command)) :
             Node(arguments[r])'[1] = "file" /\ Node(arguments[r])'[3] = "first"
        /\ Replacement(new, places)
    BY <1>1, <2>2, <2>3, Replaced
  <2>5. TodoInv' /\ Touched' /\ verdict' = "running"
    BY <1>1, <1>2, StepDone DEF Touches
  <2>6. \A o \in Given(OutputsOf(command)) :
          /\ Node(arguments[o])'[1] = "file" /\ Node(arguments[o])'[3] = "made"
          /\ Node(arguments[o])' \in Files(DOMAIN before)
          /\ content'[Node(arguments[o])'] = "new"
    <3> SUFFICES ASSUME NEW o \in Given(OutputsOf(command))
                 PROVE  /\ Node(arguments[o])'[1] = "file" /\ Node(arguments[o])'[3] = "made"
                        /\ Node(arguments[o])' \in Files(DOMAIN before)
                        /\ content'[Node(arguments[o])'] = "new"
      OBVIOUS
    <3>1. /\ arguments[o][2] \in DOMAIN before
          /\ Node(arguments[o])' = File(arguments[o][2], "made")
          /\ content'[Node(arguments[o])'] = "new"
      BY <2>1, <2>4 DEF Replacement
    <3>2. File(arguments[o][2], "made") \in Files(DOMAIN before)
      BY <3>1 DEF Files
    <3> QED BY <3>1, <3>2, NodeKinds
  <2>7. Made'
    <3>1. /\ \A roles : Given(roles)' = Given(roles)
          /\ OutputsOf(command)' = OutputsOf(command) /\ InputsOf(command)' = InputsOf(command)
          /\ Files(DOMAIN before)' = Files(DOMAIN before)
      BY <1>1 DEF Given, OutputsOf, InputsOf
    <3> QED BY <2>4, <2>6, <3>1 DEF Made
  <2>8. AllOrNothing'
    BY <2>5 DEF AllOrNothing
  <2>9. AnyArguments' /\ Layout(before)' /\ (DOMAIN entry = DOMAIN before)'
        /\ (DOMAIN content = Files(DOMAIN before))'
    BY <1>1, <2>4 DEF CommandInv, AnyArguments, Layout, Roles, Files
  <2> QED BY <2>4, <2>5, <2>7, <2>8, <2>9 DEF CommandInv
<1>3. CASE End("error") /\ UNCHANGED <<entry, content>>
  <2>1. verdict' = "error" /\ UNCHANGED <<todo, command, arguments, entry, content, before>>
    BY <1>1, <1>3 DEF End
  <2>2. InputsSurvive'
    BY <2>1, SameFiles DEF CommandInv
  <2>3. AllOrNothing'
    BY <1>1, <2>1, NothingChanged DEF AllOrNothing
  <2> QED BY <2>1, <2>2, <2>3, EndKeeps DEF CommandInv
<1>4. ASSUME ready, End("half_done"),
             NEW choice \in [places -> {"kept", "made", "gone"}],
             Put([p \in places |-> CASE choice[p] = "kept" -> entry[p]
                                     [] choice[p] = "made" -> File(p, "made")
                                     [] OTHER -> Absent(p)])
      PROVE  CommandInv'
  <2> DEFINE new == [p \in places |-> CASE choice[p] = "kept" -> entry[p]
                                        [] choice[p] = "made" -> File(p, "made")
                                        [] OTHER -> Absent(p)]
  <2>1. \A p \in places : new[p] \in {entry[p], File(p, "made"), Absent(p)}
    OBVIOUS
  <2>2. Put(new) /\ ready /\ IsDue("replace")
    BY <1>1, <1>4 DEF IsDue
  <2> HIDE DEF new
  <2>3. /\ InputsSurvive'
        /\ DOMAIN entry' = DOMAIN before /\ DOMAIN content' = Files(DOMAIN before)
    BY <1>1, <2>1, <2>2, Replaced
  <2>4. verdict' = "half_done" /\ UNCHANGED todo
    BY <1>4 DEF End
  <2>5. AllOrNothing'
    BY <2>4 DEF AllOrNothing
  <2> QED BY <1>1, <2>3, <2>4, <2>5, EndKeeps
<1> QED BY <1>1, <1>2, <1>3, <1>4

\* A command that tells its outcome, or cannot, has made its outputs.
LEMMA ToldIsMade ==
  ASSUME CommandInv, verdict = "running", Head(todo).do = "tell", verdict' \in {"ok", "untold"},
         UNCHANGED <<command, arguments, entry, content, before>>
  PROVE  AllOrNothing'
<1>1. \A o \in Given(OutputsOf(command)) :
        Node(arguments[o])[1] = "file" /\ content[Node(arguments[o])] = "new"
  BY AllMade
<1>2. /\ \A o : Node(arguments[o])' = Node(arguments[o])
      /\ \A roles : Given(roles)' = Given(roles)
      /\ OutputsOf(command)' = OutputsOf(command)
  BY DEF Node, Given, OutputsOf
<1> QED BY <1>1, <1>2 DEF AllOrNothing

LEMMA NextCommandInv == CommandInv /\ [CommandNext]_commandVars => CommandInv'
<1> SUFFICES ASSUME CommandInv, [CommandNext]_commandVars PROVE CommandInv'
  OBVIOUS
<1>1. CASE ComparePaths
  BY <1>1, ContinueKeeps DEF ComparePaths, IsDue, Touches
<1>2. CASE LoadInput
  BY <1>2, ContinueKeeps DEF LoadInput, IsDue, Touches
<1>3. CASE DoCompute
  BY <1>3, ContinueKeeps DEF DoCompute, IsDue, Touches
<1>4. CASE TruncateOutput
  BY <1>4, TruncateKeeps
<1>5. CASE FillOutput
  BY <1>5, FillKeeps
<1>6. CASE ReplaceOutputs
  BY <1>6, ReplaceKeeps
<1>7. CASE TellOutcome
  <2>1. /\ verdict = "running" /\ Head(todo).do = "tell" /\ verdict' = "ok"
        /\ UNCHANGED <<todo, command, arguments, entry, content, before>>
    BY <1>7 DEF TellOutcome, IsDue, End
  <2>2. InputsSurvive' /\ AllOrNothing'
    BY <2>1, ToldIsMade, SameFiles DEF CommandInv
  <2> QED BY <2>1, <2>2, EndKeeps DEF CommandInv
<1>8. CASE Refuse
  <2>1. /\ verdict = "running" /\ UNCHANGED <<todo, command, arguments, entry, content, before>>
        /\ Head(todo).do \notin {"fill", "replace"}
        /\ verdict' = IF Head(todo).do = "tell" THEN "untold" ELSE "error"
    BY <1>8 DEF Refuse, IsDue, End
  <2>2. CASE Head(todo).do = "tell"
    <3>1. verdict' = "untold"
      BY <2>1, <2>2
    <3>2. InputsSurvive' /\ AllOrNothing'
      BY <2>1, <2>2, <3>1, ToldIsMade, SameFiles DEF CommandInv
    <3> QED BY <2>1, <3>1, <3>2, EndKeeps DEF CommandInv
  <2>3. CASE Head(todo).do /= "tell"
    <3>1. verdict' = "error"
      BY <2>1, <2>3
    <3>2. InputsSurvive'
      BY <2>1, SameFiles DEF CommandInv
    <3>3. AllOrNothing'
      BY <2>1, <2>3, <3>1, NothingChanged DEF AllOrNothing
    <3> QED BY <2>1, <3>1, <3>2, <3>3, EndKeeps DEF CommandInv
  <2> QED BY <2>2, <2>3
<1>9. CASE UNCHANGED commandVars
  <2>1. UNCHANGED <<command, arguments, entry, content, todo, verdict, before>>
    BY <1>9 DEF commandVars
  <2>2. InputsSurvive' /\ (Untouched' <=> Untouched)
    BY <2>1, SameFiles DEF CommandInv
  <2>3. TodoInv' /\ Plan' = Plan /\ Done' = Done /\ (Touched' <=> Touched)
    BY <2>1 DEF CommandInv, TodoInv, Plan, Done, Touched
  <2>4. AnyArguments' /\ Layout(before)' /\ Files(DOMAIN before)' = Files(DOMAIN before)
    BY <2>1 DEF CommandInv, AnyArguments, Layout, Roles, Files
  <2>5. AllOrNothing'
    BY <2>1, SameFiles DEF CommandInv, AllOrNothing, OutputsOf, InPlace
  <2>6. Checked => Checked'
    BY <2>1, <2>3, SameFiles DEF Checked
  <2>7. Made => Made'
    BY <2>1, <2>4, SameFiles DEF Made, InputsOf, OutputsOf
  <2> QED BY <2>1, <2>2, <2>3, <2>4, <2>5, <2>6, <2>7 DEF CommandInv
<1> QED BY <1>1, <1>2, <1>3, <1>4, <1>5, <1>6, <1>7, <1>8, <1>9 DEF CommandNext

\* However a command ends, in any file system and with any paths, what the path of an input
\* leads to is the file it was, with what it held (cli.rs, the commands).
THEOREM InputsAreSafe == AnyCommandInit /\ [][CommandNext]_commandVars => []InputsSurvive
<1>1. CommandInv => InputsSurvive
  BY DEF CommandInv
<1> QED BY <1>1, InitCommandInv, NextCommandInv, PTL

\* A command that fails has changed nothing, unless it writes in place; one that says
\* nothing of an error before its last lines has made all its outputs.
THEOREM NothingOrAll == AnyCommandInit /\ [][CommandNext]_commandVars => []AllOrNothing
<1>1. CommandInv => AllOrNothing
  BY DEF CommandInv
<1> QED BY <1>1, InitCommandInv, NextCommandInv, PTL

\* The paths and the file systems the runs enumerate are among them.
LEMMA OptionalRoles ==
  ASSUME NEW c \in DOMAIN Plans, NEW without \in Optional(c)
  PROVE  without \subseteq Roles(c)
<1> DEFINE Shaped(ins, outs) == PlanShape(Plans[c], ins, outs)
<1>1. \A ins, outs : Shaped(ins, outs) => Roles(c) = ins \union outs
  BY DEF PlanShape, InputsOf, OutputsOf, Roles
<1>2. CASE c = "batch"
  <2>1. Shaped({"index", "topics", "qrels"}, {"run", "report"})
    BY <1>2, BatchShape DEF Plans
  <2>2. without \subseteq {"qrels", "report"}
    BY <1>2 DEF Optional
  <2> QED BY <1>1, <2>1, <2>2
<1>3. CASE c = "ciff_batch"
  <2>1. Shaped({"index", "topics", "qrels"}, {"run", "report"})
    BY <1>3, CiffBatchShape DEF Plans
  <2>2. without \subseteq {"qrels", "report"}
    BY <1>3 DEF Optional
  <2> QED BY <1>1, <2>1, <2>2
<1>4. CASE c = "reorder"
  <2>1. Shaped({"input", "feature", "mapping"}, Orders)
    BY <1>4, ReorderShape DEF Plans
  <2>2. without \subseteq {"feature", "mapping"}
    BY <1>4 DEF Optional
  <2> QED BY <1>1, <2>1, <2>2
<1>5. CASE c = "benchmark"
  <2>1. Shaped({}, {"json"})
    BY <1>5, BenchmarkShape DEF Plans
  <2>2. without \subseteq {"json"}
    BY <1>5 DEF Optional
  <2> QED BY <1>1, <2>1, <2>2
<1>6. CASE c \notin {"batch", "ciff_batch", "reorder", "benchmark"}
  BY <1>6 DEF Optional
<1> QED BY <1>2, <1>3, <1>4, <1>5, <1>6

LEMMA StartIsAny ==
  ASSUME command \in DOMAIN Plans, Start(command), before = entry
  PROVE  AnyArguments /\ Layout(before)
<1> DEFINE roles == Roles(command)
           Odd(p) == {Dir(p), Absent(p)}
                     \union UNION {{File(q, "first"), Link(q)} : q \in roles \ {p}}
           Usuals(without) == [r \in roles |-> IF r \in without THEN NoPath ELSE Usual(r)]
           Plain(exist) == [p \in roles |-> IF p \in InputsOf(command) \/ exist
                                            THEN File(p, "first") ELSE Absent(p)]
           Entries(exist, places) ==
             {Plain(exist)}
             \union UNION {{[Plain(exist) EXCEPT ![p] = e] : e \in Odd(p)} : p \in places}
<1>0. PICK without \in Optional(command), exist \in BOOLEAN :
        \/ arguments = Usuals(without) /\ entry \in Entries(exist, roles)
        \/ \E r \in roles \ without : \E n \in Names(roles) \ {Usuals(without)[r]} :
             /\ arguments = [Usuals(without) EXCEPT ![r] = n]
             /\ entry \in Entries(exist, {r, n[2]} \intersect roles)
  BY DEF Start, Roles
<1>1. /\ \/ arguments = Usuals(without)
         \/ \E r \in roles \ without, n \in Names(roles) :
              arguments = [Usuals(without) EXCEPT ![r] = n]
      /\ \/ entry = Plain(exist)
         \/ \E p \in roles : \E e \in Odd(p) : entry = [Plain(exist) EXCEPT ![p] = e]
  <2>1. \A places \in SUBSET roles : entry \in Entries(exist, places) =>
          \/ entry = Plain(exist)
          \/ \E p \in roles : \E e \in Odd(p) : entry = [Plain(exist) EXCEPT ![p] = e]
    BY Zenon
  <2> HIDE DEF Entries, Plain, Usuals
  <2> QED BY <1>0, <2>1
<1>2. DOMAIN entry = roles
  BY <1>1
<1>3. without \subseteq roles
  BY OptionalRoles
<1>4. AnyArguments
  <2>1. \A r \in roles : Usual(r) \in Names(roles)
    BY DEF Usual, Names
  <2>2. \A n \in Names(roles) : n /= NoPath
    <3>1. \A n \in {"direct", "alias"} \X roles : n[1] \in {"direct", "alias"}
      OBVIOUS
    <3>2. <<"orphan", "">>[1] = "orphan" /\ NoPath[1] = "none"
      BY DEF NoPath
    <3>3. \A n \in Names(roles) : n \in {"direct", "alias"} \X roles \/ n = <<"orphan", "">>
      BY DEF Names
    <3>4. \A n \in Names(roles) : n[1] /= NoPath[1]
      BY <3>1, <3>2, <3>3, Zenon
    <3> QED BY <3>4
  <2> HIDE DEF roles
  <2>3. /\ arguments \in [roles -> Names(roles) \union {NoPath}]
        /\ \A r \in roles : arguments[r] = NoPath <=> r \in without
    <3>1. CASE arguments = Usuals(without)
      BY <2>1, <2>2, <3>1
    <3>2. ASSUME NEW r \in roles \ without, NEW n \in Names(roles),
                 arguments = [Usuals(without) EXCEPT ![r] = n]
          PROVE  /\ arguments \in [roles -> Names(roles) \union {NoPath}]
                 /\ \A s \in roles : arguments[s] = NoPath <=> s \in without
      BY <2>1, <2>2, <3>2
    <3> QED BY <1>1, <3>1, <3>2
  <2>4. {r \in roles : arguments[r] = NoPath} = without
    BY <1>3, <2>3
  <2> QED BY <1>2, <2>3, <2>4 DEF AnyArguments, roles
<1>5. Layout(entry)
  <2> HIDE DEF roles
  <2>1. \A p \in roles : Plain(exist)[p] \in {File(p, "first"), Absent(p)}
    OBVIOUS
  <2>2. CASE entry = Plain(exist)
    BY <1>2, <2>1, <2>2, NodeKinds DEF Layout
  <2>3. ASSUME NEW p \in roles, NEW e \in Odd(p), entry = [Plain(exist) EXCEPT ![p] = e]
        PROVE  Layout(entry)
    <3>1. entry[p] = e /\ \A q \in roles \ {p} : entry[q] \in {File(q, "first"), Absent(q)}
      BY <2>1, <2>3
    <3>2. \A q \in roles \ {p} : entry[q][1] /= "link"
      BY <3>1, NodeKinds
    <3>3. e[1] = "link" => e[2] \in roles \ {p}
      BY <2>3, NodeKinds
    <3>4. \A q \in roles : entry[q][1] = "link" => entry[entry[q][2]][1] /= "link"
      BY <3>1, <3>2, <3>3
    <3>5. \A q \in roles : entry[q] \in {Dir(q), Absent(q)}
                                        \union UNION {{File(s, "first"), Link(s)} : s \in roles}
      BY <2>3, <3>1
    <3> QED BY <1>2, <3>4, <3>5 DEF Layout
  <2> QED BY <1>1, <2>2, <2>3
<1> QED BY <1>4, <1>5

LEMMA CommandInitIsAny == CommandInit => AnyCommandInit
<1> SUFFICES ASSUME CommandInit PROVE AnyCommandInit
  OBVIOUS
<1>1. AnyArguments /\ Layout(before)
  BY StartIsAny DEF CommandInit
<1> QED BY <1>1 DEF CommandInit, AnyCommandInit, Files

LEMMA ParkedIsQuiet == CommandParked => InputsSurvive /\ AllOrNothing
<1> SUFFICES ASSUME CommandParked PROVE InputsSurvive /\ AllOrNothing
  OBVIOUS
<1>1. InputsOf("query") = {"index"}
  <2>1. "query" \in DOMAIN Plans /\ Plans["query"] = Query
    BY DEF Plans
  <2> QED BY <2>1, QueryShape DEF PlanShape, InputsOf
<1>2. Given(InputsOf(command)) = {}
  BY <1>1 DEF CommandParked, Given
<1> QED BY <1>2 DEF CommandParked, InputsSurvive, AllOrNothing

\* While another component runs, the command's variables stay.
LEMMA CommandsInvariant == CommandLineSpec => [](CommandParked \/ CommandInv)
<1>1. CommandLineInit => CommandParked \/ CommandInv
  BY CommandInitIsAny, InitCommandInv DEF CommandLineInit
<1>2. (CommandParked \/ CommandInv) /\ [CommandLineNext]_commandLineVars
        => (CommandParked \/ CommandInv)'
  <2> SUFFICES ASSUME CommandParked \/ CommandInv, [CommandLineNext]_commandLineVars
               PROVE  (CommandParked \/ CommandInv)'
    OBVIOUS
  <2>1. CommandNext \/ UNCHANGED commandVars
    BY DEF CommandLineNext, commandLineVars
  <2>2. CASE CommandInv
    BY <2>1, <2>2, NextCommandInv
  <2>3. CASE CommandParked /\ UNCHANGED commandVars
    BY <2>3 DEF CommandParked, commandVars
  <2>4. CASE CommandParked /\ CommandNext
    BY <2>4 DEF CommandParked, CommandNext, ComparePaths, LoadInput, DoCompute, TruncateOutput,
                FillOutput, ReplaceOutputs, TellOutcome, Refuse, IsDue
  <2> QED BY <2>1, <2>2, <2>3, <2>4
<1> QED BY <1>1, <1>2, PTL DEF CommandLineSpec

\* The same of the specification the runs check: inputs survive every command.
THEOREM InputsSurviveRuns == CommandLineSpec => []InputsSurvive
<1>1. CommandInv => InputsSurvive
  BY DEF CommandInv
<1> QED BY <1>1, CommandsInvariant, ParkedIsQuiet, PTL

\* Likewise: a command that fails has changed nothing, one that says nothing of an error has
\* made all its outputs.
THEOREM AllOrNothingInRuns == CommandLineSpec => []AllOrNothing
<1>1. CommandInv => AllOrNothing
  BY DEF CommandInv
<1> QED BY <1>1, CommandsInvariant, ParkedIsQuiet, PTL

-----------------------------------------------------------------------------
\* Options, on a command line of any length.  What an accepted request says of its options.
LEMMA ScoringReads ==
  ASSUME NEW p, NativeScoring(p) /= Refused
  PROVE  /\ NativeScoring(p).model = Value(p, "scorer", "bm25")
         /\ NativeScoring(p).bits = Value(p, "quant-bits", "")
         /\ NativeScoring(p).max = Value(p, "quant-max", "")
         /\ NativeScoring(p).c = Value(p, "pl2-c", "1")
         /\ NativeScoring(p).mu = Value(p, "qld-mu", "1000")
BY DEF NativeScoring

LEMMA RankedReads ==
  ASSUME NEW p, NEW hits, RankedRequest(p, hits) /= Refused
  PROVE  LET r == RankedRequest(p, hits)
         IN  /\ Single(p)
             /\ r.field = Value(p, "field", "") /\ r.operator = Value(p, "operator", "or")
             /\ r.top_k = Value(p, "top-k", hits)
             /\ r.strategy = Value(p, "strategy", IF IsBm25(r.scoring) THEN "wand" ELSE "full")
             /\ r.scoring = NativeScoring(p) /\ r.scoring /= Refused
             /\ r.k1 = Value(p, "k1", "1.2") /\ r.b = Value(p, "b", "0.75")
BY DEF RankedRequest

LEMMA SearchReads ==
  ASSUME NEW p, SearchRequest(p) /= Refused
  PROVE  LET r == SearchRequest(p)
         IN  /\ r.ranked = RankedRequest(p, "10") /\ r.ranked /= Refused
             /\ r.phrase = Value(p, "phrase", "") /\ r.within = Value(p, "phrase-field", "")
             /\ r.filters = IF Has(p, "filter") THEN p["filter"] ELSE <<>>
             /\ r.explain = Has(p, "explain")
BY DEF SearchRequest

LEMMA BatchReads ==
  ASSUME NEW p, BatchRequest(p) /= Refused
  PROVE  LET r == BatchRequest(p)
         IN  /\ r.ranked = RankedRequest(p, "1000") /\ r.ranked /= Refused
             /\ r.verify = Has(p, "verify") /\ r.tag = Value(p, "tag", "indexsail")
BY DEF BatchRequest

LEMMA CiffReads ==
  ASSUME NEW p, NEW hits, CiffRequest(p, hits) /= Refused
  PROVE  LET r == CiffRequest(p, hits)
         IN  /\ Single(p) /\ Value(p, "scorer", "bm25") = "bm25"
             /\ r.ascii = Has(p, "ascii") /\ r.operator = Value(p, "operator", "or")
             /\ r.top_k = Value(p, "top-k", hits) /\ r.k1 = Value(p, "k1", "1.2")
             /\ r.b = Value(p, "b", "0.75") /\ r.tag = Value(p, "tag", "indexsail-ciff")
BY DEF CiffRequest

LEMMA IndexReads ==
  ASSUME NEW p, IndexRequest(p) /= Refused
  PROVE  LET r == IndexRequest(p)
         IN  /\ Single(p) /\ r.ascii = Has(p, "ascii") /\ r.format = Value(p, "format", "tsv")
             /\ r.codec = Value(p, "codec", "varbyte") /\ r.shards = Value(p, "shards", "0")
BY DEF IndexRequest

\* The option has the same effect on two command lines.
Same(p, q, o) ==
  IF o \in Flags THEN Has(p, o) = Has(q, o) ELSE \E default : Value(p, o, default) = Value(q, o, default)

LEMMA RankedDiffers ==
  ASSUME NEW p, NEW q, NEW hits, RankedRequest(p, hits) /= Refused,
         RankedRequest(q, hits) = RankedRequest(p, hits), NEW o \in Ranked
  PROVE  Same(p, q, o)
<1>0. \A x \in {p, q} :
        LET r == RankedRequest(p, hits)
        IN  /\ r.field = Value(x, "field", "") /\ r.operator = Value(x, "operator", "or")
            /\ r.top_k = Value(x, "top-k", hits)
            /\ r.strategy = Value(x, "strategy", IF IsBm25(r.scoring) THEN "wand" ELSE "full")
            /\ r.scoring = NativeScoring(x) /\ r.scoring /= Refused
            /\ r.k1 = Value(x, "k1", "1.2") /\ r.b = Value(x, "b", "0.75")
  <2> SUFFICES ASSUME NEW x \in {p, q}
               PROVE  LET r == RankedRequest(x, hits)
                      IN  /\ r.field = Value(x, "field", "") /\ r.operator = Value(x, "operator", "or")
                          /\ r.top_k = Value(x, "top-k", hits)
                          /\ r.strategy = Value(x, "strategy",
                                               IF IsBm25(r.scoring) THEN "wand" ELSE "full")
                          /\ r.scoring = NativeScoring(x) /\ r.scoring /= Refused
                          /\ r.k1 = Value(x, "k1", "1.2") /\ r.b = Value(x, "b", "0.75")
    OBVIOUS
  <2>1. RankedRequest(x, hits) /= Refused
    OBVIOUS
  <2> QED BY <2>1, RankedReads
<1>1. o \notin Flags
  BY DEF Ranked, Flags
<1>2. CASE o \in {"pl2-c", "qld-mu", "quant-bits", "quant-max", "scorer"}
  <2>1. NativeScoring(p) = NativeScoring(q) /\ NativeScoring(p) /= Refused
    BY <1>0
  <2>2. /\ Value(p, "scorer", "bm25") = Value(q, "scorer", "bm25")
        /\ Value(p, "quant-bits", "") = Value(q, "quant-bits", "")
        /\ Value(p, "quant-max", "") = Value(q, "quant-max", "")
        /\ Value(p, "pl2-c", "1") = Value(q, "pl2-c", "1")
        /\ Value(p, "qld-mu", "1000") = Value(q, "qld-mu", "1000")
    BY <2>1, ScoringReads
  <2> QED BY <1>1, <1>2, <2>2 DEF Same
<1>3. CASE o \in {"field", "operator", "top-k", "strategy", "k1", "b"}
  <2>1. /\ Value(p, "field", "") = Value(q, "field", "")
        /\ Value(p, "operator", "or") = Value(q, "operator", "or")
        /\ Value(p, "top-k", hits) = Value(q, "top-k", hits)
        /\ \E default : Value(p, "strategy", default) = Value(q, "strategy", default)
        /\ Value(p, "k1", "1.2") = Value(q, "k1", "1.2")
        /\ Value(p, "b", "0.75") = Value(q, "b", "0.75")
    BY <1>0
  <2> QED BY <1>1, <1>3, <2>1 DEF Same
<1> QED BY <1>2, <1>3 DEF Ranked

LEMMA SearchDiffers ==
  ASSUME NEW p, NEW q, SearchRequest(p) /= Refused, SearchRequest(q) = SearchRequest(p),
         NEW o \in Known.search \ {"filter"}
  PROVE  Same(p, q, o)
<1>1. CASE o \in Ranked
  BY <1>1, SearchReads, RankedDiffers
<1>2. CASE o \in {"explain", "phrase", "phrase-field"}
  <2>1. /\ Has(p, "explain") = Has(q, "explain")
        /\ Value(p, "phrase", "") = Value(q, "phrase", "")
        /\ Value(p, "phrase-field", "") = Value(q, "phrase-field", "")
    BY SearchReads
  <2> QED BY <1>2, <2>1 DEF Same, Flags
<1> QED BY <1>1, <1>2 DEF Known

LEMMA BatchDiffers ==
  ASSUME NEW p, NEW q, BatchRequest(p) /= Refused, BatchRequest(q) = BatchRequest(p),
         NEW o \in Known.batch
  PROVE  Same(p, q, o)
<1>1. CASE o \in Ranked
  BY <1>1, BatchReads, RankedDiffers
<1>2. CASE o \in {"verify", "tag"}
  <2>1. /\ Has(p, "verify") = Has(q, "verify")
        /\ Value(p, "tag", "indexsail") = Value(q, "tag", "indexsail")
    BY BatchReads
  <2> QED BY <1>2, <2>1 DEF Same, Flags
<1> QED BY <1>1, <1>2 DEF Known

LEMMA CiffDiffers ==
  ASSUME NEW p, NEW q, NEW hits, CiffRequest(p, hits) /= Refused,
         CiffRequest(q, hits) = CiffRequest(p, hits), NEW o \in Known.ciff_batch
  PROVE  Same(p, q, o)
<1>1. /\ Value(p, "scorer", "bm25") = Value(q, "scorer", "bm25")
      /\ Has(p, "ascii") = Has(q, "ascii")
      /\ Value(p, "operator", "or") = Value(q, "operator", "or")
      /\ Value(p, "top-k", hits) = Value(q, "top-k", hits)
      /\ Value(p, "k1", "1.2") = Value(q, "k1", "1.2")
      /\ Value(p, "b", "0.75") = Value(q, "b", "0.75")
      /\ Value(p, "tag", "indexsail-ciff") = Value(q, "tag", "indexsail-ciff")
  BY CiffReads
<1> QED BY <1>1 DEF Same, Flags, Known

LEMMA IndexDiffers ==
  ASSUME NEW p, NEW q, IndexRequest(p) /= Refused, IndexRequest(q) = IndexRequest(p),
         NEW o \in Known.index \union Known.shard_index
  PROVE  Same(p, q, o)
<1>1. /\ Has(p, "ascii") = Has(q, "ascii")
      /\ Value(p, "format", "tsv") = Value(q, "format", "tsv")
      /\ Value(p, "codec", "varbyte") = Value(q, "codec", "varbyte")
      /\ Value(p, "shards", "0") = Value(q, "shards", "0")
  BY IndexReads
<1> QED BY <1>1 DEF Same, Flags, Known

LEMMA InspectDiffers ==
  ASSUME NEW p, NEW q, InspectRequest(p) /= Refused, InspectRequest(q) = InspectRequest(p),
         NEW o \in Known.inspect
  PROVE  Same(p, q, o)
<1>1. \A x \in {p, q} : /\ InspectRequest(x).field = Value(x, "field", "")
                        /\ InspectRequest(x).term = Value(x, "term", "")
  BY DEF InspectRequest
<1>2. Value(p, "field", "") = Value(q, "field", "") /\ Value(p, "term", "") = Value(q, "term", "")
  BY <1>1
<1> QED BY <1>2 DEF Same, Flags, Known

LEMMA ForwardInspectDiffers ==
  ASSUME NEW p, NEW q, ForwardInspectRequest(p) /= Refused,
         ForwardInspectRequest(q) = ForwardInspectRequest(p), NEW o \in Known.forward_inspect
  PROVE  Same(p, q, o)
<1>1. \A x \in {p, q} : /\ ForwardInspectRequest(x).document = Value(x, "document", "")
                        /\ ForwardInspectRequest(x).limit = Value(x, "limit", "20")
  BY DEF ForwardInspectRequest
<1>2. /\ Value(p, "document", "") = Value(q, "document", "")
      /\ Value(p, "limit", "20") = Value(q, "limit", "20")
  BY <1>1
<1> QED BY <1>2 DEF Same, Flags, Known

LEMMA BenchmarkDiffers ==
  ASSUME NEW p, NEW q, BenchmarkRequest(p) /= Refused, BenchmarkRequest(q) = BenchmarkRequest(p),
         NEW o \in Known.benchmark
  PROVE  Same(p, q, o)
<1>1. \A x \in {p, q} :
        /\ Value(x, "scorer", "bm25") = "bm25"
        /\ \A a \in {"documents", "queries", "seed", "top-k", "shards"} :
             BenchmarkRequest(x)[a] = Value(x, a, "default")
  BY DEF BenchmarkRequest
<1>2. \A a \in {"documents", "queries", "seed", "top-k", "shards"} :
        Value(p, a, "default") = Value(q, a, "default")
  BY <1>1
<1>3. Value(p, "scorer", "bm25") = Value(q, "scorer", "bm25")
  BY <1>1
<1> QED BY <1>2, <1>3 DEF Same, Flags, Known

LEMMA LexiconReads ==
  ASSUME NEW p, LexiconRequest(p) /= Refused
  PROVE  IF Has(p, "id")
         THEN /\ None(p, {"field", "term", "offset", "limit"})
              /\ LexiconRequest(p).id = Value(p, "id", "")
         ELSE IF Has(p, "field") /\ Has(p, "term")
         THEN /\ None(p, {"offset", "limit"})
              /\ LexiconRequest(p).field = Value(p, "field", "")
              /\ LexiconRequest(p).term = Value(p, "term", "")
         ELSE /\ None(p, {"field", "term"})
              /\ LexiconRequest(p).offset = Value(p, "offset", "0")
              /\ LexiconRequest(p).limit = Value(p, "limit", "20")
BY DEF LexiconRequest

LEMMA LexiconDiffers ==
  ASSUME NEW p, NEW q, LexiconRequest(p) /= Refused, LexiconRequest(q) = LexiconRequest(p),
         \A a \in Known.lexicon : Has(p, a) = Has(q, a),
         NEW o \in Known.lexicon, Has(p, o)
  PROVE  Same(p, q, o)
<1>1. o \notin Flags /\ o \in {"id", "field", "term", "offset", "limit"}
  BY DEF Flags, Known
<1>2. \A a \in {"id", "field", "term", "offset", "limit"} : Has(p, a) = Has(q, a)
  BY DEF Known
<1>3. LexiconRequest(q) /= Refused
  OBVIOUS
<1>4. CASE Has(p, "id")
  <2>1. None(p, {"field", "term", "offset", "limit"})
    BY <1>4, LexiconReads
  <2>2. o = "id"
    BY <1>1, <2>1 DEF None
  <2>3. Value(p, "id", "") = Value(q, "id", "")
    BY <1>2, <1>3, <1>4, LexiconReads
  <2> QED BY <1>1, <2>2, <2>3 DEF Same
<1>5. CASE ~Has(p, "id") /\ Has(p, "field") /\ Has(p, "term")
  <2>1. None(p, {"offset", "limit"})
    BY <1>5, LexiconReads
  <2>2. o \in {"field", "term"}
    BY <1>1, <1>5, <2>1 DEF None
  <2>3. Value(p, "field", "") = Value(q, "field", "") /\ Value(p, "term", "") = Value(q, "term", "")
    BY <1>2, <1>3, <1>5, LexiconReads
  <2> QED BY <1>1, <2>2, <2>3 DEF Same
<1>6. CASE ~Has(p, "id") /\ ~(Has(p, "field") /\ Has(p, "term"))
  <2>1. None(p, {"field", "term"})
    BY <1>6, LexiconReads
  <2>2. o \in {"offset", "limit"}
    BY <1>1, <1>6, <2>1 DEF None
  <2>3. Value(p, "offset", "0") = Value(q, "offset", "0") /\ Value(p, "limit", "20") = Value(q, "limit", "20")
    BY <1>2, <1>3, <1>6, LexiconReads
  <2> QED BY <1>1, <2>2, <2>3 DEF Same
<1> QED BY <1>4, <1>5, <1>6

Methods == {"random", "by-feature", "from-mapping", "bp"}

LEMMA ReorderReads ==
  ASSUME NEW p, ReorderRequest(p) /= Refused
  PROVE  /\ \E m \in Methods : \A o \in Methods : Has(p, o) <=> o = m
         /\ Has(p, "seed") => Has(p, "random")
         /\ Has(p, "depth") \/ Has(p, "iterations") => Has(p, "bp")
         /\ Has(p, "random") => ReorderRequest(p).random = Value(p, "seed", "0")
         /\ Has(p, "by-feature") => ReorderRequest(p).feature = Value(p, "by-feature", "")
         /\ Has(p, "from-mapping") => ReorderRequest(p).mapping = Value(p, "from-mapping", "")
         /\ Has(p, "bp") => /\ ReorderRequest(p).depth = Value(p, "depth", "")
                            /\ ReorderRequest(p).iterations = Value(p, "iterations", "")
<1>1. /\ \E m \in {o \in Methods : Has(p, o)} : {o \in Methods : Has(p, o)} = {m}
      /\ Has(p, "seed") => Has(p, "random")
      /\ Has(p, "depth") \/ Has(p, "iterations") => Has(p, "bp")
  BY DEF ReorderRequest, Methods
<1>2. PICK m \in Methods : \A o \in Methods : Has(p, o) <=> o = m
  BY <1>1
<1>3. /\ Has(p, "random") <=> m = "random"
      /\ Has(p, "by-feature") <=> m = "by-feature"
      /\ Has(p, "from-mapping") <=> m = "from-mapping"
      /\ Has(p, "bp") <=> m = "bp"
  BY <1>2 DEF Methods
<1>4. Has(p, "random") => ReorderRequest(p).random = Value(p, "seed", "0")
  <2>1. Has(p, "random") => ReorderRequest(p) = [random |-> Value(p, "seed", "0")]
    BY <1>3 DEF ReorderRequest
  <2>2. [random |-> Value(p, "seed", "0")].random = Value(p, "seed", "0")
    OBVIOUS
  <2> QED BY <2>1, <2>2, Zenon
<1>5. Has(p, "by-feature") => ReorderRequest(p).feature = Value(p, "by-feature", "")
  BY <1>3 DEF ReorderRequest
<1>6. Has(p, "from-mapping") => ReorderRequest(p).mapping = Value(p, "from-mapping", "")
  BY <1>3 DEF ReorderRequest
<1>7. ASSUME Has(p, "bp")
      PROVE  /\ ReorderRequest(p).depth = Value(p, "depth", "")
             /\ ReorderRequest(p).iterations = Value(p, "iterations", "")
  <2>1. ~Has(p, "random") /\ ~Has(p, "by-feature") /\ ~Has(p, "from-mapping")
    BY <1>3, <1>7
  <2> QED BY <2>1 DEF ReorderRequest
<1> QED BY <1>1, <1>2, <1>4, <1>5, <1>6, <1>7

LEMMA ReorderDiffers ==
  ASSUME NEW p, NEW q, ReorderRequest(p) /= Refused, ReorderRequest(q) = ReorderRequest(p),
         NEW o \in Known.reorder, Has(p, o),
         \A a \in Known.reorder \ {o} : Has(p, a) = Has(q, a),
         o \notin Flags => Has(q, o)
  PROVE  Same(p, q, o)
<1>1. Methods \subseteq Known.reorder
  BY DEF Methods, Known
<1>2. PICK m \in Methods : \A a \in Methods : Has(p, a) <=> a = m
  BY ReorderReads
<1>3. ReorderRequest(q) /= Refused
  OBVIOUS
<1>4. PICK n \in Methods : \A a \in Methods : Has(q, a) <=> a = n
  BY <1>3, ReorderReads
<1>5. CASE o \in Methods
  <2>1. m = o
    BY <1>2, <1>5
  <2>2. n = m
    BY <1>1, <1>2, <1>4, <2>1
  <2>3. CASE o \in Flags
    BY <1>2, <1>4, <2>1, <2>2, <2>3 DEF Same, Has
  <2>4. CASE o = "by-feature"
    <3>1. Has(p, "by-feature") /\ Has(q, "by-feature")
      BY <2>4 DEF Flags
    <3>2. Value(p, "by-feature", "") = Value(q, "by-feature", "")
      BY <1>3, <3>1, ReorderReads
    <3> QED BY <2>4, <3>2 DEF Same, Flags
  <2>5. CASE o = "from-mapping"
    <3>1. Has(p, "from-mapping") /\ Has(q, "from-mapping")
      BY <2>5 DEF Flags
    <3>2. Value(p, "from-mapping", "") = Value(q, "from-mapping", "")
      BY <1>3, <3>1, ReorderReads
    <3> QED BY <2>5, <3>2 DEF Same, Flags
  <2> QED BY <1>5, <2>3, <2>4, <2>5 DEF Methods, Flags
<1>6. CASE o = "seed"
  <2>1. Has(p, "random") /\ Has(q, "random")
    BY <1>1, <1>6, ReorderReads DEF Methods
  <2>2. Value(p, "seed", "0") = Value(q, "seed", "0")
    BY <1>3, <2>1, ReorderReads
  <2> QED BY <1>6, <2>2 DEF Same, Flags
<1>7. CASE o \in {"depth", "iterations"}
  <2>1. Has(p, "bp") /\ Has(q, "bp")
    BY <1>1, <1>7, ReorderReads DEF Methods
  <2>2. /\ Value(p, "depth", "") = Value(q, "depth", "")
        /\ Value(p, "iterations", "") = Value(q, "iterations", "")
    BY <1>3, <2>1, ReorderReads
  <2> QED BY <1>7, <2>2 DEF Same, Flags
<1> QED BY <1>5, <1>6, <1>7 DEF Known, Methods

LEMMA AcceptedIsSingle ==
  ASSUME NEW h \in DOMAIN Known, NEW p, Request(h, p) /= Refused
  PROVE  Single(p)
<1>1. SearchRequest(p) /= Refused => Single(p)
  BY SearchReads, RankedReads
<1>2. BatchRequest(p) /= Refused => Single(p)
  BY BatchReads, RankedReads
<1>3. \A hits : CiffRequest(p, hits) /= Refused => Single(p)
  BY CiffReads
<1>4. IndexRequest(p) /= Refused => Single(p)
  BY IndexReads
<1>5. /\ InspectRequest(p) /= Refused => Single(p)
      /\ ForwardInspectRequest(p) /= Refused => Single(p)
  BY DEF InspectRequest, ForwardInspectRequest
<1>6. LexiconRequest(p) /= Refused => Single(p)
  BY DEF LexiconRequest
<1>7. ReorderRequest(p) /= Refused => Single(p)
  BY DEF ReorderRequest
<1>8. BenchmarkRequest(p) /= Refused => Single(p)
  BY DEF BenchmarkRequest
<1>9. h \in {"search", "batch", "ciff_search", "ciff_batch", "index", "shard_index", "inspect",
             "forward_inspect", "lexicon", "reorder", "benchmark"}
  BY DEF Known
<1> QED BY <1>1, <1>2, <1>3, <1>4, <1>5, <1>6, <1>7, <1>8, <1>9 DEF Request

LEMMA RequestDiffers ==
  ASSUME NEW h \in DOMAIN Known, NEW p, NEW q, Request(h, p) /= Refused,
         Request(h, q) = Request(h, p), NEW o \in Known[h] \ {"filter"}, Has(p, o),
         \A a \in Known[h] \ {o} : Has(p, a) = Has(q, a),
         o \notin Flags => Has(q, o)
  PROVE  Same(p, q, o)
<1>1. CASE h = "search"
  <2>1. o \in Known.search \ {"filter"} /\ Request(h, p) = SearchRequest(p)
        /\ Request(h, q) = SearchRequest(q)
    BY <1>1 DEF Request, Known
  <2> QED BY <2>1, SearchDiffers
<1>2. CASE h = "batch"
  <2>1. o \in Known.batch /\ Request(h, p) = BatchRequest(p) /\ Request(h, q) = BatchRequest(q)
    BY <1>2 DEF Request, Known
  <2> QED BY <2>1, BatchDiffers
<1>3. CASE h = "ciff_search"
  <2>1. o \in Known.ciff_batch /\ Request(h, p) = CiffRequest(p, "10")
        /\ Request(h, q) = CiffRequest(q, "10")
    BY <1>3 DEF Request, Known
  <2> QED BY <2>1, CiffDiffers
<1>4. CASE h = "ciff_batch"
  <2>1. o \in Known.ciff_batch /\ Request(h, p) = CiffRequest(p, "1000")
        /\ Request(h, q) = CiffRequest(q, "1000")
    BY <1>4 DEF Request, Known
  <2> QED BY <2>1, CiffDiffers
<1>5. CASE h \in {"index", "shard_index"}
  <2>1. o \in Known.index \union Known.shard_index /\ Request(h, p) = IndexRequest(p)
        /\ Request(h, q) = IndexRequest(q)
    BY <1>5 DEF Request, Known
  <2> QED BY <2>1, IndexDiffers
<1>6. CASE h = "inspect"
  <2>1. o \in Known.inspect /\ Request(h, p) = InspectRequest(p) /\ Request(h, q) = InspectRequest(q)
    BY <1>6 DEF Request, Known
  <2> QED BY <2>1, InspectDiffers
<1>7. CASE h = "forward_inspect"
  <2>1. o \in Known.forward_inspect /\ Request(h, p) = ForwardInspectRequest(p)
        /\ Request(h, q) = ForwardInspectRequest(q)
    BY <1>7 DEF Request, Known
  <2> QED BY <2>1, ForwardInspectDiffers
<1>8. CASE h = "lexicon"
  <2>1. o \in Known.lexicon /\ Request(h, p) = LexiconRequest(p) /\ Request(h, q) = LexiconRequest(q)
    BY <1>8 DEF Request, Known
  <2>2. o \notin Flags
    BY <2>1 DEF Known, Flags
  <2>3. \A a \in Known.lexicon : Has(p, a) = Has(q, a)
    BY <1>8, <2>2 DEF Has
  <2> QED BY <2>1, <2>3, LexiconDiffers
<1>9. CASE h = "reorder"
  <2>1. o \in Known.reorder /\ Request(h, p) = ReorderRequest(p) /\ Request(h, q) = ReorderRequest(q)
        /\ Known[h] = Known.reorder
    BY <1>9 DEF Request, Known
  <2> QED BY <2>1, ReorderDiffers
<1>10. CASE h = "benchmark"
  <2>1. o \in Known.benchmark /\ Request(h, p) = BenchmarkRequest(p)
        /\ Request(h, q) = BenchmarkRequest(q)
    BY <1>10 DEF Request, Known
  <2> QED BY <2>1, BenchmarkDiffers
<1>11. h \in {"search", "batch", "ciff_search", "ciff_batch", "index", "shard_index", "inspect",
              "forward_inspect", "lexicon", "reorder", "benchmark"}
  BY DEF Known
<1> QED BY <1>1, <1>2, <1>3, <1>4, <1>5, <1>6, <1>7, <1>8, <1>9, <1>10, <1>11

\* The options read so far are of the handler's, a flag at most once; the handler has not
\* read them, refuses them, or has made its request of them.
OptionsInv ==
  /\ handler \in DOMAIN Known
  /\ DOMAIN parsed = Known[handler]
  /\ \A o \in DOMAIN parsed : parsed[o] \in Seq(Values(o)) /\ (o \in Flags => Len(parsed[o]) <= 1)
  /\ request \in {Unread, Refused, Request(handler, parsed)}

LEMMA InitOptionsInv == OptionsInit => OptionsInv
<1> SUFFICES ASSUME OptionsInit PROVE OptionsInv
  OBVIOUS
<1>1. \A S : <<>> \in Seq(S) /\ Len(<<>>) = 0
  OBVIOUS
<1> QED BY <1>1 DEF OptionsInit, OptionsInv

LEMMA NextOptionsInv == OptionsInv /\ [OptionsNext]_optionVars => OptionsInv'
<1> SUFFICES ASSUME OptionsInv, [OptionsNext]_optionVars PROVE OptionsInv'
  OBVIOUS
<1>1. ASSUME NEW option \in DOMAIN parsed, NEW value \in Values(option), ParseOption(option, value)
      PROVE  OptionsInv'
  <2>1. request = Unread /\ handler' = handler
    BY <1>1 DEF ParseOption
  <2>2. CASE option \in Flags /\ Has(parsed, option)
    BY <1>1, <2>1, <2>2 DEF ParseOption, OptionsInv
  <2>3. CASE ~(option \in Flags /\ Has(parsed, option))
    <3>1. /\ parsed' = [parsed EXCEPT ![option] = Append(@, value)] /\ request' = Unread
      BY <1>1, <2>1, <2>3 DEF ParseOption
    <3>2. DOMAIN parsed' = DOMAIN parsed
          /\ parsed'[option] = Append(parsed[option], value)
          /\ \A o \in DOMAIN parsed : o /= option => parsed'[o] = parsed[o]
      BY <3>1
    <3>3. parsed[option] \in Seq(Values(option))
      BY DEF OptionsInv
    <3>4. Append(parsed[option], value) \in Seq(Values(option))
          /\ Len(Append(parsed[option], value)) = Len(parsed[option]) + 1
      BY <3>3
    <3>5. option \in Flags => Len(parsed[option]) = 0
      BY <2>3, <3>3 DEF Has
    <3> QED BY <2>1, <3>1, <3>2, <3>4, <3>5 DEF OptionsInv
  <2> QED BY <2>2, <2>3
<1>2. CASE Read
  BY <1>2 DEF Read, OptionsInv
<1>3. CASE UNCHANGED optionVars
  BY <1>3 DEF optionVars, OptionsInv
<1> QED BY <1>1, <1>2, <1>3 DEF OptionsNext

LEMMA OptionsCount == OptionsInv => NoOptionIgnored
<1> SUFFICES ASSUME OptionsInv, request \notin {Unread, Refused},
                    NEW o \in DOMAIN parsed, Has(parsed, o), NEW i \in DOMAIN parsed[o]
             PROVE  IF o \in Flags
                    THEN Request(handler, [parsed EXCEPT ![o] = <<>>]) /= request
                    ELSE \A v \in Values(o) \ {parsed[o][i]} :
                           Request(handler, [parsed EXCEPT ![o][i] = v]) /= request
  BY DEF NoOptionIgnored
<1>1. /\ handler \in DOMAIN Known /\ DOMAIN parsed = Known[handler]
      /\ request = Request(handler, parsed) /\ request /= Refused
      /\ parsed[o] \in Seq(Values(o))
  BY DEF OptionsInv
<1>2. Single(parsed)
  BY <1>1, AcceptedIsSingle
<1>3. ASSUME o \in Flags, Request(handler, [parsed EXCEPT ![o] = <<>>]) = request PROVE FALSE
  <2> DEFINE q == [parsed EXCEPT ![o] = <<>>]
  <2>1. /\ q[o] = <<>> /\ DOMAIN q = DOMAIN parsed
        /\ \A a \in DOMAIN parsed \ {o} : q[a] = parsed[a]
    OBVIOUS
  <2>2. Request(handler, q) = Request(handler, parsed)
    BY <1>1, <1>3
  <2> HIDE DEF q
  <2>3. ~Has(q, o) /\ \A a \in Known[handler] \ {o} : Has(parsed, a) = Has(q, a)
    BY <1>1, <2>1 DEF Has
  <2>4. o \in Known[handler] \ {"filter"}
    BY <1>1, <1>3 DEF Flags
  <2>5. Same(parsed, q, o)
    BY <1>1, <1>3, <2>2, <2>3, <2>4, RequestDiffers
  <2> QED BY <1>3, <2>3, <2>5 DEF Same
<1>4. ASSUME o \notin Flags, NEW v \in Values(o) \ {parsed[o][i]},
             Request(handler, [parsed EXCEPT ![o][i] = v]) = request
      PROVE  FALSE
  <2> DEFINE q == [parsed EXCEPT ![o][i] = v]
  <2>1. /\ q[o] = [parsed[o] EXCEPT ![i] = v] /\ DOMAIN q = DOMAIN parsed
        /\ \A a \in DOMAIN parsed \ {o} : q[a] = parsed[a]
    OBVIOUS
  <2>2. Request(handler, q) = Request(handler, parsed)
    BY <1>1, <1>4
  <2> HIDE DEF q
  <2>3. q[o][i] = v /\ v /= parsed[o][i] /\ i \in 1 .. Len(parsed[o])
    BY <1>1, <2>1
  <2>4. Has(q, o)
    <3>1. i \in DOMAIN q[o]
      BY <2>1, <2>3
    <3>2. DOMAIN <<>> = {}
      OBVIOUS
    <3>3. q[o] /= <<>>
      BY <3>1, <3>2
    <3> QED BY <2>1, <3>3 DEF Has
  <2>5. \A a \in Known[handler] \ {o} : Has(parsed, a) = Has(q, a)
    BY <1>1, <2>1 DEF Has
  <2>6. CASE o = "filter"
    <3>1. handler = "search"
      BY <1>1, <2>6 DEF Known, Ranked
    <3>2. Request(handler, q) = SearchRequest(q) /\ Request(handler, parsed) = SearchRequest(parsed)
      BY <3>1 DEF Request
    <3>3. SearchRequest(q).filters = q["filter"] /\ SearchRequest(parsed).filters = parsed["filter"]
      BY <1>1, <2>2, <2>4, <2>6, <3>2, SearchReads
    <3> QED BY <2>2, <2>3, <2>6, <3>2, <3>3
  <2>7. CASE o /= "filter"
    <3>1. i = 1
      <4>1. Len(parsed[o]) <= 1
        BY <1>2, <2>7 DEF Single
      <4>2. Len(parsed[o]) \in Nat
        BY <1>1
      <4> QED BY <2>3, <4>1, <4>2
    <3>2. Same(parsed, q, o)
      BY <1>1, <2>2, <2>4, <2>5, <2>7, RequestDiffers
    <3> QED BY <1>4, <2>3, <2>4, <3>1, <3>2 DEF Same, Value
  <2> QED BY <2>6, <2>7
<1> QED BY <1>3, <1>4

\* Whatever options are given and in whatever order, on a command line of any length, each
\* that is accepted counts (cli.rs, the handlers' option checks).
THEOREM EveryOptionCounts == OptionsInit /\ [][OptionsNext]_optionVars => []NoOptionIgnored
BY InitOptionsInv, NextOptionsInv, OptionsCount, PTL

\* The same of the specification the runs check: each accepted option counts.
THEOREM EveryOptionCountsInRuns == CommandLineSpec => []NoOptionIgnored
<1>1. OptionsParked => NoOptionIgnored
  BY DEF OptionsParked, NoOptionIgnored
<1>2. CommandLineInit => OptionsParked \/ OptionsInv
  BY InitOptionsInv DEF CommandLineInit
<1>3. (OptionsParked \/ OptionsInv) /\ [CommandLineNext]_commandLineVars
        => (OptionsParked \/ OptionsInv)'
  <2> SUFFICES ASSUME OptionsParked \/ OptionsInv, [CommandLineNext]_commandLineVars
               PROVE  (OptionsParked \/ OptionsInv)'
    OBVIOUS
  <2>1. OptionsNext \/ UNCHANGED optionVars
    BY DEF CommandLineNext, commandLineVars
  <2>2. CASE OptionsInv
    BY <2>1, <2>2, NextOptionsInv
  <2>3. CASE OptionsParked /\ UNCHANGED optionVars
    BY <2>3 DEF OptionsParked, optionVars
  <2>4. CASE OptionsParked /\ OptionsNext
    <3>1. request /= Unread
      <4>1. Refused[("refused")] = TRUE /\ DOMAIN Refused = {"refused"} /\ DOMAIN Unread = {"unread"}
        BY DEF Refused, Unread
      <4> QED BY <2>4, <4>1 DEF OptionsParked
    <3> QED BY <2>4, <3>1 DEF OptionsNext, ParseOption, Read
  <2> QED BY <2>1, <2>2, <2>3, <2>4
<1> QED BY <1>1, <1>2, <1>3, OptionsCount, PTL DEF CommandLineSpec


-----------------------------------------------------------------------------
\* Reports.  The loop over the hits against the definitions of the metrics.

Worth(x) == IF x <= 0 THEN 0 ELSE Power[x] - 1

LEMMA WorthGrows ==
  ASSUME NEW x \in Int, NEW y \in Int, x <= y
  PROVE  Worth(x) \in Nat /\ Worth(x) <= Worth(y)
<1>1. Power[0] = 1 /\ \A n \in Nat \ {0} : Power[n] = 2 * Power[n - 1]
  BY DoublesForever DEF Power
<1>2. \A n \in Nat : Power[n] \in Nat /\ n < Power[n]
  BY DoublesGrow DEF Power
<1>3. ASSUME x > 0 PROVE Power[x] <= Power[y]
  <2> DEFINE Bad == {n \in Nat : x <= n /\ ~(Power[x] <= Power[n])}
  <2>1. ASSUME NEW m \in Bad PROVE \E l \in Bad : ~(m <= l)
    <3>1. m /= x
      BY <1>2
    <3>2. m - 1 \in Nat /\ x <= m - 1 /\ m \in Nat \ {0}
      BY <1>3, <3>1
    <3>3. Power[m] = 2 * Power[m - 1] /\ Power[m - 1] \in Nat /\ Power[m] \in Nat /\ Power[x] \in Nat
      BY <1>1, <1>2, <1>3, <3>2
    <3>4. ~(Power[x] <= Power[m - 1])
      BY <3>3
    <3>5. m - 1 \in Bad /\ ~(m <= m - 1)
      BY <3>2, <3>4
    <3> HIDE DEF Bad
    <3> QED BY <3>5
  <2>2. Bad = {}
    <3>1. Bad \in SUBSET Nat
      OBVIOUS
    <3> HIDE DEF Bad
    <3> QED BY <2>1, <3>1, LeastNatural
  <2>3. y \in Nat
    BY <1>3
  <2> QED BY <2>2, <2>3
<1>4. ASSUME NEW z \in Int PROVE Worth(z) \in Nat
  <2>1. CASE z <= 0
    BY <2>1 DEF Worth
  <2>2. CASE z > 0
    <3>1. z \in Nat /\ Power[z] \in Nat /\ z < Power[z]
      BY <1>2, <2>2
    <3>2. Worth(z) = Power[z] - 1
      BY <2>2 DEF Worth
    <3> QED BY <2>2, <3>1, <3>2
  <2> QED BY <2>1, <2>2
<1>5. Worth(x) <= Worth(y)
  <2>1. CASE x <= 0
    <3>1. Worth(x) = 0
      BY <2>1 DEF Worth
    <3> QED BY <1>4, <3>1
  <2>2. CASE x > 0
    <3>1. Worth(x) = Power[x] - 1 /\ Worth(y) = Power[y] - 1
      BY <2>2 DEF Worth
    <3>2. Power[x] \in Nat /\ Power[y] \in Nat
      BY <1>2, <2>2
    <3> QED BY <1>3, <2>2, <3>1, <3>2
  <2> QED BY <2>1, <2>2
<1> QED BY <1>4, <1>5

LEMMA GainIs ==
  ASSUME NEW x \in Int, NEW r \in DOMAIN Discount
  PROVE  Gain(x, r) = Worth(x) * Discount[r] /\ Discount[r] \in Nat /\ Gain(x, r) \in Nat
<1>1. Discount[r] \in Nat
  BY RanksAssumption, SeqElements
<1>2. Worth(x) \in Nat
  BY WorthGrows
<1>3. CASE x <= 0
  <2>1. Worth(x) = 0 /\ Gain(x, r) = 0
    BY <1>3 DEF Worth, Gain
  <2> QED BY <1>1, <2>1
<1>4. CASE ~(x <= 0)
  <2>1. Gain(x, r) = Worth(x) * Discount[r]
    BY <1>4 DEF Worth, Gain
  <2>2. Worth(x) * Discount[r] \in Nat
    BY <1>1, <1>2
  <2> QED BY <1>1, <2>1, <2>2
<1> QED BY <1>3, <1>4

\* Quotients of numbers.
LEMMA RatioIs ==
  ASSUME NEW a \in Nat, NEW b \in Nat
  PROVE  Ratio(a, b) \in Nat /\ (a <= b => Ratio(a, b) <= Whole)
<1>1. Whole \in Nat
  BY RanksAssumption
<1>2. CASE b = 0
  BY <1>1, <1>2 DEF Ratio
<1>3. CASE b /= 0
  <2> DEFINE product == a * Whole
             quotient == product \div b
  <2>1. product \in Nat
    BY <1>1
  <2>2. Ratio(a, b) = quotient
    BY <1>3 DEF Ratio
  <2>3. a <= b => product <= b * Whole
    <3> SUFFICES ASSUME a <= b PROVE product <= b * Whole
      OBVIOUS
    <3>1. PICK more \in Nat : b = a + more
      <4>1. b - a \in Nat /\ b = a + (b - a)
        OBVIOUS
      <4> QED BY <4>1
    <3>2. PICK w \in Nat : w = Whole
      BY <1>1
    <3>3. b * w = a * w + more * w /\ more * w \in Nat /\ a * w \in Nat
      BY <3>1
    <3> QED BY <3>2, <3>3
  <2> HIDE DEF product
  <2>4. quotient \in Nat /\ product % b \in 0 .. b - 1 /\ product = quotient * b + (product % b)
    BY <1>3, <2>1, Division
  <2> HIDE DEF quotient
  <2>5. ASSUME product <= b * Whole PROVE quotient <= Whole
    <3> SUFFICES ASSUME Whole < quotient PROVE FALSE
      BY <1>1, <2>4
    <3>1. PICK w \in Nat, rest \in 0 .. b - 1 : w = Whole /\ rest = product % b
      BY <1>1, <2>4
    <3>2. w * b + rest < quotient * b + rest
      <4>1. b \in Nat \ {0}
        BY <1>3
      <4> QED BY <2>4, <3>1, <4>1, NotBelow
    <3>3. product = quotient * b + rest /\ w * b \in Nat /\ quotient * b \in Nat /\ product <= w * b
      <4>1. b * w = w * b
        OBVIOUS
      <4> QED BY <2>4, <2>5, <3>1, <4>1
    <3> QED BY <3>2, <3>3
  <2> QED BY <2>2, <2>3, <2>4, <2>5
<1> QED BY <1>2, <1>3


Loops(m, judged, hits, n) ==
  m = [r \in 0 .. n |-> IF r = 0 THEN NoHits ELSE AfterHit(m[r - 1], judged[hits[r].doc], r)]

LEMMA LoopExists ==
  ASSUME NEW judged, NEW hits, NEW n \in Nat
  PROVE  \E m : Loops(m, judged, hits, n)
<1> DEFINE Step(earlier, r) == AfterHit(earlier, judged[hits[r].doc], r)
           Bad == {k \in Nat : ~ \E m : Loops(m, judged, hits, k)}
<1>1. ASSUME NEW k \in Bad PROVE \E l \in Bad : ~(k <= l)
  <2>1. CASE k = 0
    <3> DEFINE m == [r \in 0 .. 0 |-> NoHits]
    <3>1. m = [r \in 0 .. 0 |-> IF r = 0 THEN NoHits ELSE Step(m[r - 1], r)]
      OBVIOUS
    <3> HIDE DEF m
    <3> QED BY <2>1, <3>1 DEF Loops
  <2>2. CASE k /= 0 /\ k - 1 \notin Bad
    <3>1. k - 1 \in Nat
      BY <2>2
    <3>2. PICK g : Loops(g, judged, hits, k - 1)
      BY <2>2, <3>1
    <3>0. g = [r \in 0 .. k - 1 |-> IF r = 0 THEN NoHits ELSE Step(g[r - 1], r)]
      BY <3>2 DEF Loops
    <3> HIDE DEF Step
    <3> DEFINE m == [r \in 0 .. k |-> IF r = 0 THEN NoHits ELSE Step(g[r - 1], r)]
    <3>3. \A r \in 0 .. k - 1 : m[r] = g[r]
      BY <3>0, <3>1
    <3>4. m = [r \in 0 .. k |-> IF r = 0 THEN NoHits ELSE Step(m[r - 1], r)]
      <4>1. \A r \in 0 .. k : r /= 0 => r - 1 \in 0 .. k - 1
        BY <3>1
      <4>2. \A r \in 0 .. k : r /= 0 => m[r - 1] = g[r - 1]
        BY <3>3, <4>1
      <4> QED BY <4>2
    <3> HIDE DEF m
    <3> QED BY <3>4 DEF Loops, Step
  <2>3. CASE k /= 0 /\ k - 1 \in Bad
    BY <2>3
  <2> QED BY <2>1, <2>2, <2>3
<1>2. Bad = {}
  <2>1. Bad \in SUBSET Nat
    OBVIOUS
  <2> HIDE DEF Bad
  <2> QED BY <1>1, <2>1, LeastNatural
<1> QED BY <1>2

\* The ranks of relevant documents among the first k, and what each rank adds.
Found(judged, hits, k) == {r \in 1 .. k : judged[hits[r].doc] > 0}
Precisions(judged, hits, n) ==
  [r \in 1 .. n |-> IF judged[hits[r].doc] > 0 THEN Ratio(Cardinality(Found(judged, hits, r)), r) ELSE 0]
Gains(judged, hits, n) == [r \in 1 .. n |-> Gain(judged[hits[r].doc], r)]

First(r, S) == r \in S /\ \A q \in S : r <= q

Measured(m, judged, hits, n, k) ==
  LET found == Found(judged, hits, k)
  IN  /\ m.retrieved = Cardinality(found)
      /\ m.precisions = UpTo(Precisions(judged, hits, n), k)
      /\ m.precisions \in Nat /\ m.precisions <= m.retrieved * Whole
      /\ m.dcg = UpTo(Gains(judged, hits, n), k)
      /\ found = {} => m.reciprocal = 0
      /\ found /= {} => \E r : First(r, found) /\ m.reciprocal = Ratio(1, r)

LEMMA FoundGrows ==
  ASSUME NEW judged, NEW hits, NEW k \in Nat
  PROVE  /\ Found(judged, hits, 0) = {}
         /\ IsFiniteSet(Found(judged, hits, k)) /\ Cardinality(Found(judged, hits, k)) \in 0 .. k
         /\ k /= 0 => IF judged[hits[k].doc] > 0
                      THEN /\ Found(judged, hits, k) = Found(judged, hits, k - 1) \union {k}
                           /\ Cardinality(Found(judged, hits, k)) = Cardinality(Found(judged, hits, k - 1)) + 1
                      ELSE Found(judged, hits, k) = Found(judged, hits, k - 1)
<1>1. Found(judged, hits, 0) = {}
  BY DEF Found
<1>2. ASSUME NEW l \in Nat
      PROVE  IsFiniteSet(Found(judged, hits, l)) /\ Cardinality(Found(judged, hits, l)) \in 0 .. l
  <2>1. IsFiniteSet(1 .. l) /\ Cardinality(1 .. l) = l
    BY FS_Interval
  <2>2. Found(judged, hits, l) \subseteq 1 .. l
    BY DEF Found
  <2>3. IsFiniteSet(Found(judged, hits, l)) /\ Cardinality(Found(judged, hits, l)) <= l
    BY <2>1, <2>2, FS_Subset
  <2>4. Cardinality(Found(judged, hits, l)) \in Nat
    BY <2>3, FS_CardinalityType
  <2> QED BY <2>3, <2>4
<1>3. ASSUME k /= 0, judged[hits[k].doc] > 0
      PROVE  /\ Found(judged, hits, k) = Found(judged, hits, k - 1) \union {k}
             /\ Cardinality(Found(judged, hits, k)) = Cardinality(Found(judged, hits, k - 1)) + 1
  <2>1. Found(judged, hits, k) = Found(judged, hits, k - 1) \union {k}
    BY <1>3 DEF Found
  <2>2. k \notin Found(judged, hits, k - 1) /\ k - 1 \in Nat
    BY <1>3 DEF Found
  <2>3. IsFiniteSet(Found(judged, hits, k - 1))
    BY <1>2, <2>2
  <2> QED BY <2>1, <2>2, <2>3, FS_AddElement
<1>4. ASSUME k /= 0, ~(judged[hits[k].doc] > 0) PROVE Found(judged, hits, k) = Found(judged, hits, k - 1)
  BY <1>4 DEF Found
<1> QED BY <1>1, <1>2, <1>3, <1>4

\* What a rank is worth is not lost in rounding.
LEMMA RankCounts ==
  ASSUME NEW r \in DOMAIN Discount
  PROVE  r \in Nat \ {0} /\ Ratio(1, r) \in Nat \ {0}
<1>1. /\ r \in Nat \ {0} /\ Whole \in Nat \ {0} /\ Whole % r = 0
  BY RanksAssumption, SeqElements
<1> DEFINE quotient == Whole \div r
<1>2. Ratio(1, r) = quotient
  <2>1. 1 * Whole = Whole
    BY <1>1
  <2> QED BY <1>1, <2>1 DEF Ratio
<1>3. quotient \in Nat /\ Whole = quotient * r + (Whole % r)
  BY <1>1, Division
<1> HIDE DEF quotient
<1>4. quotient /= 0
  BY <1>1, <1>3
<1> QED BY <1>1, <1>2, <1>3, <1>4


LEMMA RankMeasures ==
  ASSUME NEW judged, NEW hits, NEW n \in 0 .. Len(Discount), Len(hits) = n,
         \A r \in 1 .. n : judged[hits[r].doc] \in Int
  PROVE  Measured(Rank(judged, hits), judged, hits, n, n)
<1> DEFINE P == Precisions(judged, hits, n)
           G == Gains(judged, hits, n)
           F(k) == Found(judged, hits, k)
           Chosen == CHOOSE m : Loops(m, judged, hits, n)
<1>1. Len(Discount) \in Nat /\ DOMAIN Discount = 1 .. Len(Discount) /\ n \in Nat
  BY RanksAssumption, SeqElements
<1>2. PICK m : Loops(m, judged, hits, n) /\ Rank(judged, hits) = m[n]
  <2>1. Loops(Chosen, judged, hits, n)
    BY <1>1, LoopExists
  <2>2. Rank(judged, hits) = Chosen[n]
    BY DEF Rank, Loops
  <2> HIDE DEF Chosen
  <2> QED BY <2>1, <2>2
<1>3. m[0] = NoHits /\ \A r \in 1 .. n : m[r] = AfterHit(m[r - 1], judged[hits[r].doc], r)
  BY <1>1, <1>2 DEF Loops
<1>4. \A r \in 1 .. n : G[r] \in Nat /\ G[r] = Gain(judged[hits[r].doc], r)
  <2> TAKE r \in 1 .. n
  <2>1. r \in DOMAIN Discount /\ judged[hits[r].doc] \in Int
    BY <1>1
  <2> QED BY <2>1, GainIs DEF Gains
<1>5. \A r \in 1 .. n : /\ P[r] \in Nat
                        /\ P[r] = IF judged[hits[r].doc] > 0 THEN Ratio(Cardinality(F(r)), r) ELSE 0
  <2> TAKE r \in 1 .. n
  <2>1. Cardinality(F(r)) \in Nat /\ r \in Nat
    BY FoundGrows
  <2>2. P[r] = IF judged[hits[r].doc] > 0 THEN Ratio(Cardinality(F(r)), r) ELSE 0
    BY DEF Precisions
  <2>3. Ratio(Cardinality(F(r)), r) \in Nat
    BY <2>1, RatioIs
  <2> QED BY <2>2, <2>3
<1> HIDE DEF P, G
<1>6. /\ UpTo(P, 0) = 0 /\ UpTo(G, 0) = 0
      /\ \A k \in 1 .. n : UpTo(P, k) = UpTo(P, k - 1) + P[k] /\ UpTo(G, k) = UpTo(G, k - 1) + G[k]
  <2>1. \A r \in 1 .. n : P[r] \in Int /\ G[r] \in Int
    BY <1>4, <1>5
  <2> QED BY <1>1, <2>1, UpToNext
<1> DEFINE Bad == {k \in 0 .. n : ~ Measured(m[k], judged, hits, n, k)}
<1>7. ASSUME NEW k \in Bad PROVE \E l \in Bad : ~(k <= l)
  <2>1. CASE k = 0
    <3>1. F(0) = {} /\ Cardinality(F(0)) = 0
      BY FoundGrows, FS_EmptySet
    <3>2. 0 * Whole = 0
      BY RanksAssumption
    <3>3. Measured(m[0], judged, hits, n, 0)
      BY <1>3, <1>6, <3>1, <3>2 DEF Measured, NoHits, P, G
    <3> QED BY <2>1, <3>3
  <2>2. CASE k /= 0 /\ k - 1 \notin Bad
    <3> DEFINE earlier == m[k - 1]
               relevance == judged[hits[k].doc]
               old == F(k - 1)
               found == F(k)
               retrieved == earlier.retrieved + (IF relevance > 0 THEN 1 ELSE 0)
    <3>1. k \in 1 .. n /\ k - 1 \in 0 .. n /\ k \in Nat /\ k - 1 \in Nat
      BY <1>1, <2>2
    <3>2. Measured(earlier, judged, hits, n, k - 1)
      BY <2>2, <3>1
    <3>3. /\ earlier.retrieved = Cardinality(old) /\ earlier.precisions = UpTo(P, k - 1)
          /\ earlier.precisions \in Nat /\ earlier.precisions <= earlier.retrieved * Whole
          /\ earlier.dcg = UpTo(G, k - 1)
          /\ old = {} => earlier.reciprocal = 0
          /\ old /= {} => \E r : First(r, old) /\ earlier.reciprocal = Ratio(1, r)
      BY <3>2 DEF Measured, P, G
    <3>4. m[k] = AfterHit(earlier, relevance, k) /\ relevance \in Int
      BY <1>3, <3>1
    <3>5. /\ m[k].retrieved = retrieved
          /\ m[k].precisions = earlier.precisions + (IF relevance > 0 THEN Ratio(retrieved, k) ELSE 0)
          /\ m[k].reciprocal = IF relevance > 0 /\ earlier.reciprocal = 0 THEN Ratio(1, k) ELSE earlier.reciprocal
          /\ m[k].dcg = earlier.dcg + Gain(relevance, k)
      BY <3>4 DEF AfterHit
    <3>6. IF relevance > 0 THEN found = old \union {k} /\ Cardinality(found) = Cardinality(old) + 1
                           ELSE found = old
      <4>1. k \in Nat /\ k /= 0
        BY <2>2, <3>1
      <4>2. IF judged[hits[k].doc] > 0
            THEN /\ Found(judged, hits, k) = Found(judged, hits, k - 1) \union {k}
                 /\ Cardinality(Found(judged, hits, k)) = Cardinality(Found(judged, hits, k - 1)) + 1
            ELSE Found(judged, hits, k) = Found(judged, hits, k - 1)
        BY ONLY <4>1, FoundGrows
      <4> QED BY ONLY <4>2
    <3>7. \A r \in old : r \in 1 .. k - 1
      BY DEF Found
    <3> HIDE DEF earlier, relevance, old, found, F
    <3>8. retrieved = Cardinality(found)
      <4>1. Cardinality(old) \in Nat
        BY <3>1, FoundGrows DEF old, F
      <4> QED BY <3>3, <3>4, <3>6, <4>1
    <3>9. m[k].precisions = UpTo(P, k)
      <4>1. P[k] = IF relevance > 0 THEN Ratio(Cardinality(found), k) ELSE 0
        BY <1>5, <3>1 DEF relevance, found
      <4>2. UpTo(P, k) = UpTo(P, k - 1) + P[k]
        BY <1>6, <3>1
      <4> QED BY <3>3, <3>5, <3>8, <4>1, <4>2
    <3>10. m[k].dcg = UpTo(G, k)
      <4>1. G[k] = Gain(relevance, k) /\ UpTo(G, k) = UpTo(G, k - 1) + G[k]
        BY <1>4, <1>6, <3>1 DEF relevance
      <4> QED BY <3>3, <3>5, <4>1
    <3>11. /\ found = {} => m[k].reciprocal = 0
           /\ found /= {} => \E r : First(r, found) /\ m[k].reciprocal = Ratio(1, r)
      <4>1. CASE ~(relevance > 0)
        BY <3>3, <3>5, <3>6, <4>1
      <4>2. CASE relevance > 0 /\ old = {}
        <5>1. First(k, found)
          BY <3>1, <3>6, <4>2 DEF First
        <5>2. m[k].reciprocal = Ratio(1, k) /\ found /= {}
          BY <3>3, <3>5, <3>6, <4>2
        <5> QED BY <5>1, <5>2
      <4>3. CASE relevance > 0 /\ old /= {}
        <5>1. PICK r : First(r, old) /\ earlier.reciprocal = Ratio(1, r)
          BY <3>3, <4>3
        <5>2. r \in 1 .. k - 1
          BY <3>7, <5>1 DEF First
        <5>3. Ratio(1, r) /= 0
          <6>1. r \in DOMAIN Discount
            BY <1>1, <3>1, <5>2
          <6> QED BY <6>1, RankCounts
        <5>4. m[k].reciprocal = Ratio(1, r)
          BY <3>5, <5>1, <5>3
        <5>5. First(r, found)
          BY <3>1, <3>6, <4>3, <5>1, <5>2 DEF First
        <5>6. found /= {}
          BY <5>5 DEF First
        <5> QED BY <5>4, <5>5, <5>6
      <4> QED BY <4>1, <4>2, <4>3
    <3>12. m[k].precisions \in Nat /\ m[k].precisions <= m[k].retrieved * Whole
      <4>1. PICK whole \in Nat, c \in Nat, p \in Nat :
              /\ whole = Whole /\ c = earlier.retrieved /\ p = earlier.precisions
              /\ c \in 0 .. k - 1 /\ p <= c * whole
        <5>1. Cardinality(old) \in 0 .. k - 1
          <6> DEFINE last == k - 1
          <6>1. last \in Nat
            BY <3>1
          <6> HIDE DEF last
          <6>2. Cardinality(Found(judged, hits, last)) \in 0 .. last
            BY <6>1, FoundGrows
          <6> QED BY <6>2 DEF last, old, F
        <5>2. Whole \in Nat /\ earlier.retrieved \in 0 .. k - 1 /\ k - 1 \in Nat
          BY <3>1, <3>3, <5>1, RanksAssumption
        <5>3. earlier.retrieved \in Nat
          BY <5>2
        <5>4. Whole \in Nat /\ earlier.retrieved \in Nat /\ earlier.precisions \in Nat
          BY <3>3, <5>2, <5>3
        <5> QED BY ONLY <3>3, <5>2, <5>4
      <4>2. CASE relevance > 0
        <5>1. PICK ratio \in Nat : ratio = Ratio(c + 1, k) /\ ratio <= whole
          <6>1. c + 1 \in Nat /\ k \in Nat /\ c + 1 <= k
            BY <3>1, <4>1
          <6> QED BY <4>1, <6>1, RatioIs
        <5>2. m[k].retrieved = c + 1 /\ m[k].precisions = p + ratio
          BY <3>5, <4>1, <4>2, <5>1
        <5>3. (c + 1) * whole = c * whole + whole /\ c * whole \in Nat
          BY ONLY c \in Nat, whole \in Nat
        <5>4. p + ratio \in Nat /\ p + ratio <= (c + 1) * whole
          <6>1. p \in Nat /\ ratio \in Nat /\ p <= c * whole /\ ratio <= whole /\ whole \in Nat
            BY <4>1, <5>1
          <6> QED BY ONLY <5>3, <6>1
        <5> QED BY <4>1, <5>2, <5>4
      <4>3. CASE ~(relevance > 0)
        <5>1. m[k].retrieved = c /\ m[k].precisions = p
          BY <3>5, <4>1, <4>3
        <5> QED BY <4>1, <5>1
      <4> QED BY <4>2, <4>3
    <3>13. Measured(m[k], judged, hits, n, k)
      BY <3>5, <3>8, <3>9, <3>10, <3>11, <3>12 DEF Measured, P, G, found, F
    <3> QED BY <3>13
  <2>3. CASE k /= 0 /\ k - 1 \in Bad
    BY <2>3
  <2> QED BY <2>1, <2>2, <2>3
<1>8. Bad = {}
  <2>1. Bad \in SUBSET Nat
    OBVIOUS
  <2> HIDE DEF Bad
  <2> QED BY <1>7, <2>1, LeastNatural
<1>9. n \in 0 .. n
  BY <1>1
<1> QED BY <1>2, <1>8, <1>9


\* The gain of a ranking, and that no ranking has more than the ideal one.
DcgOf(judged, ranking) == SumFunction([r \in DOMAIN ranking |-> Gain(judged[ranking[r]], r)])
Worths(judged) == [d \in Documents |-> Worth(judged[d])]

Heading(t, s, m, T) ==
  /\ t \in [1 .. m -> T] /\ Len(t) = m
  /\ \A i \in 1 .. m : i \in DOMAIN s /\ t[i] = s[i]

LEMMA TakeIs ==
  ASSUME NEW T, NEW s \in Seq(T), NEW n \in Nat
  PROVE  \E m \in Nat : m = (IF Len(s) < n THEN Len(s) ELSE n) /\ Heading(Take(s, n), s, m, T)
<1>1. PICK l \in Nat : Len(s) = l /\ DOMAIN s = 1 .. l
  BY SeqElements
<1>2. PICK m \in Nat : m = IF l < n THEN l ELSE n
  OBVIOUS
<1>3. m <= l /\ Take(s, n) = SubSeq(s, 1, m)
  BY <1>1, <1>2 DEF Take
<1>4. Len(SubSeq(s, 1, m)) = m /\ SubSeq(s, 1, m) \in Seq(T) /\ \A i \in 1 .. m : SubSeq(s, 1, m)[i] = s[i]
  BY <1>1, <1>3
<1>5. SubSeq(s, 1, m) \in [1 .. m -> T]
  <2>1. PICK t : t = SubSeq(s, 1, m)
    OBVIOUS
  <2>2. t \in Seq(T) /\ Len(t) = m
    BY <1>4, <2>1
  <2>3. t \in [1 .. m -> T]
    BY ONLY <2>2
  <2> QED BY <2>1, <2>3
<1>6. \A i \in 1 .. m : i \in DOMAIN s
  BY <1>1, <1>3
<1> QED BY <1>1, <1>2, <1>3, <1>4, <1>5, <1>6 DEF Heading

LEMMA DescendingIs ==
  ASSUME NEW judged, \A d \in Documents : judged[d] \in Int
  PROVE  /\ IsFiniteSet(Relevant(judged)) /\ Relevant(judged) \in SUBSET Documents
         /\ Sorts(Descending(judged), judged, Relevant(judged))
         /\ Sorts(Descending(judged), Worths(judged), Relevant(judged))
<1> DEFINE R == Relevant(judged)
           order == Descending(judged)
<1>1. R \in SUBSET Documents /\ \A d \in R : judged[d] \in Int
  BY DEF Relevant
<1>2. IsFiniteSet(R)
  <2> HIDE DEF R
  <2> QED BY <1>1, CasesAssumption, FS_Subset
<1>3. Sorts(order, judged, R)
  <2>1. \E f : Sorts(f, judged, R)
    <3> HIDE DEF R
    <3> QED BY <1>1, <1>2, SortedExists
  <2>2. \E f \in [1 .. Cardinality(R) -> R] :
          IsInjective(f) /\ \A i, j \in DOMAIN f : i < j => judged[f[i]] >= judged[f[j]]
    BY <2>1 DEF Sorts
  <2> QED BY <2>2 DEF Descending, Sorts
<1> HIDE DEF R, order
<1>4. Sorts(order, Worths(judged), R)
  <2>1. order \in [1 .. Cardinality(R) -> R] /\ IsInjective(order)
    BY <1>3 DEF Sorts
  <2>2. \A i, j \in DOMAIN order : i < j => Worths(judged)[order[i]] >= Worths(judged)[order[j]]
    <3> TAKE i \in DOMAIN order, j \in DOMAIN order
    <3> HAVE i < j
    <3> DEFINE x == judged[order[i]]
               y == judged[order[j]]
    <3>1. order[i] \in R /\ order[j] \in R
      BY <2>1
    <3>2. x \in Int /\ y \in Int /\ x >= y
      BY <1>1, <1>3, <3>1 DEF Sorts
    <3>3. Worths(judged)[order[i]] = Worth(x) /\ Worths(judged)[order[j]] = Worth(y)
      BY <1>1, <3>1 DEF Worths
    <3> HIDE DEF x, y
    <3>4. Worth(y) \in Nat /\ Worth(y) <= Worth(x) /\ Worth(x) \in Nat
      BY <3>2, WorthGrows
    <3> QED BY <3>3, <3>4
  <2> QED BY <2>1, <2>2 DEF Sorts
<1> QED BY <1>1, <1>2, <1>3, <1>4 DEF R, order

\* u lists the discounted worth of the documents of a ranking of length n.
Gaining(u, judged, ranking, n) ==
  /\ \A d \in Documents : judged[d] \in Int
  /\ DOMAIN ranking = 1 .. n
  /\ \A r \in 1 .. n : ranking[r] \in Documents /\ u[r] = Worth(judged[ranking[r]]) * Discount[r]

LEMMA DcgIs ==
  ASSUME NEW n \in 0 .. Len(Discount), NEW judged, NEW ranking, NEW u, Gaining(u, judged, ranking, n)
  PROVE  DcgOf(judged, ranking) = UpTo(u, n) /\ \A r \in 1 .. n : u[r] \in Nat
<1>0. /\ \A d \in Documents : judged[d] \in Int
      /\ DOMAIN ranking = 1 .. n
      /\ \A r \in 1 .. n : ranking[r] \in Documents /\ u[r] = Worth(judged[ranking[r]]) * Discount[r]
  BY DEF Gaining
<1>1. Len(Discount) \in Nat /\ DOMAIN Discount = 1 .. Len(Discount)
  BY RanksAssumption, SeqElements
<1>2. \A r \in 1 .. n : Gain(judged[ranking[r]], r) = u[r] /\ u[r] \in Nat
  <2> TAKE r \in 1 .. n
  <2>1. r \in DOMAIN Discount /\ judged[ranking[r]] \in Int
    BY <1>0, <1>1
  <2> QED BY <1>0, <2>1, GainIs
<1>4. [r \in DOMAIN ranking |-> Gain(judged[ranking[r]], r)] = [r \in 1 .. n |-> u[r]]
  BY <1>0, <1>2
<1> QED BY <1>2, <1>4 DEF DcgOf, UpTo

LEMMA IdealIs ==
  ASSUME NEW judged, \A d \in Documents : judged[d] \in Int, NEW cutoff \in 0 .. Len(Discount)
  PROVE  /\ \E m \in 0 .. cutoff : Take(Descending(judged), cutoff) \in [1 .. m -> Documents]
         /\ IsInjective(Take(Descending(judged), cutoff))
         /\ IdealDcg(judged, cutoff) = DcgOf(judged, Take(Descending(judged), cutoff))
         /\ IdealDcg(judged, cutoff) \in Nat
         /\ \A n \in 0 .. cutoff : \A ranking \in [1 .. n -> Documents] :
              IsInjective(ranking) => DcgOf(judged, ranking) <= IdealDcg(judged, cutoff)
<1> DEFINE R == Relevant(judged)
           W == Worths(judged)
           order == Descending(judged)
           ideal == Take(order, cutoff)
           best == [i \in Nat |-> IF i \in 1 .. Cardinality(R) THEN W[order[i]] ELSE 0]
           v == [i \in Nat |-> best[i] * Discount[i]]
<1>1. /\ Len(Discount) \in Nat /\ DOMAIN Discount = 1 .. Len(Discount)
      /\ \A r \in 1 .. Len(Discount) : Discount[r] \in Nat
      /\ cutoff \in Nat /\ cutoff <= Len(Discount)
  BY RanksAssumption, SeqElements
<1>2. /\ IsFiniteSet(R) /\ R \in SUBSET Documents /\ Sorts(order, W, R)
      /\ Cardinality(R) \in Nat
  BY DescendingIs, FS_CardinalityType
<1>3. PICK c \in Nat : c = Cardinality(R)
  BY <1>2
<1>4. /\ order \in [1 .. c -> R] /\ order \in [1 .. c -> Documents]
      /\ \A i, j \in 1 .. c : order[i] = order[j] => i = j
  BY <1>2, <1>3 DEF Sorts, IsInjective
<1>5. order \in Seq(Documents) /\ Len(order) = c
  BY <1>4, FunctionIsSeq
<1> HIDE DEF order
<1>6. PICK m \in Nat :
        /\ m = IF c < cutoff THEN c ELSE cutoff
        /\ ideal \in [1 .. m -> Documents]
        /\ \A i \in 1 .. m : i \in DOMAIN order /\ ideal[i] = order[i]
  <2>1. order \in Seq(Documents) /\ cutoff \in Nat
    BY <1>1, <1>5
  <2>2. \E m \in Nat : /\ m = IF Len(order) < cutoff THEN Len(order) ELSE cutoff
                       /\ Heading(Take(order, cutoff), order, m, Documents)
    BY ONLY <2>1, TakeIs
  <2> QED BY <1>5, <2>2 DEF Heading
<1>7. m \in 0 .. cutoff /\ m <= c
  BY <1>1, <1>6
<1> HIDE DEF ideal
<1>8. IsInjective(ideal)
  <2>1. \A i \in 1 .. m : i \in 1 .. c
    BY <1>7
  <2>2. \A i, j \in 1 .. m : ideal[i] = ideal[j] => i = j
    BY <1>4, <1>6, <2>1
  <2> QED BY <1>6, <2>2 DEF IsInjective
<1>9. \A d \in Documents : W[d] \in Nat /\ W[d] = Worth(judged[d])
  <2> TAKE d \in Documents
  <2>1. PICK x \in Int : x = judged[d]
    OBVIOUS
  <2>2. x <= x /\ W[d] = Worth(x)
    BY <2>1 DEF Worths
  <2>3. Worth(x) \in Nat
    BY ONLY <2>2, WorthGrows
  <2> QED BY <2>1, <2>2, <2>3
<1>10. \A d \in Documents \ R : W[d] = 0
  BY <1>9 DEF Relevant, Worth
<1> HIDE DEF R, W
<1>11. \A i \in Nat : best[i] \in Nat /\ best[i] = IF i \in 1 .. Cardinality(R) THEN W[order[i]] ELSE 0
  BY <1>3, <1>4, <1>9
<1> HIDE DEF best
<1>12. \A i \in 1 .. cutoff : v[i] = best[i] * Discount[i] /\ v[i] \in Nat
  <2> TAKE i \in 1 .. cutoff
  <2>1. i \in Nat /\ i \in 1 .. Len(Discount)
    BY <1>1
  <2>2. v[i] = best[i] * Discount[i]
    BY <2>1
  <2>3. best[i] \in Nat /\ Discount[i] \in Nat
    BY <1>1, <1>11, <2>1
  <2> HIDE DEF v
  <2> QED BY <2>2, <2>3
<1> HIDE DEF v
<1>13. IdealDcg(judged, cutoff) = DcgOf(judged, ideal)
  BY DEF IdealDcg, DcgOf, ideal, order
<1>14. \A i \in 1 .. m : v[i] = Worth(judged[ideal[i]]) * Discount[i]
  <2> TAKE i \in 1 .. m
  <2>1. i \in 1 .. cutoff /\ i \in Nat /\ i \in 1 .. c
    BY <1>7
  <2>2. best[i] = W[ideal[i]]
    BY <1>3, <1>6, <1>11, <2>1
  <2>3. W[ideal[i]] = Worth(judged[ideal[i]])
    BY <1>6, <1>9
  <2> QED BY <1>12, <2>1, <2>2, <2>3
<1>15. DcgOf(judged, ideal) = UpTo(v, m)
  <2>1. m \in 0 .. Len(Discount)
    BY <1>1, <1>7
  <2>2. DOMAIN ideal = 1 .. m /\ \A r \in 1 .. m : ideal[r] \in Documents
    BY <1>6
  <2>3. Gaining(v, judged, ideal, m)
    BY <1>14, <2>2 DEF Gaining
  <2> QED BY ONLY <2>1, <2>3, DcgIs
<1>16. UpTo(v, m) = UpTo(v, cutoff)
  <2> DEFINE S == 1 .. cutoff
             A == 1 .. m
             f == [i \in S |-> v[i]]
             g == [i \in A |-> v[i]]
  <2>1. IsFiniteSet(S) /\ DOMAIN f = S /\ DOMAIN g = A /\ \A i \in S : f[i] \in Int
    <3>1. IsFiniteSet(S)
      BY <1>1, FS_Interval
    <3> QED BY <1>12, <3>1
  <2>2. A \in SUBSET S
    BY <1>7
  <2>3. \A i \in A : f[i] = g[i]
    BY <2>2
  <2>4. \A i \in S \ A : f[i] = 0
    <3> TAKE i \in S \ A
    <3>1. i \in 1 .. cutoff /\ i \in Nat /\ i \notin 1 .. c
      BY <1>6
    <3>2. best[i] = 0 /\ Discount[i] \in Nat
      BY <1>1, <1>3, <1>11, <3>1
    <3> QED BY <1>12, <3>1, <3>2
  <2>5. UpTo(v, cutoff) = SumFunction(f) /\ UpTo(v, m) = SumFunction(g)
    BY DEF UpTo
  <2> HIDE DEF S, A, f, g
  <2>6. SumFunction(f) = SumFunction(g)
    BY ONLY <2>1, <2>2, <2>3, <2>4, SumOfPart
  <2> QED BY <2>5, <2>6
<1>17. UpTo(v, cutoff) \in Nat
  BY <1>1, <1>12, UpToGrows
<1>18. ASSUME NEW n \in 0 .. cutoff, NEW ranking \in [1 .. n -> Documents], IsInjective(ranking)
       PROVE  DcgOf(judged, ranking) <= UpTo(v, cutoff)
  <2> DEFINE f == [i \in 1 .. n |-> W[ranking[i]]]
             u == [i \in 1 .. n |-> f[i] * Discount[i]]
  <2>1. n \in Nat /\ n \in 0 .. Len(Discount) /\ \A i \in 1 .. n : i \in Nat /\ i \in 1 .. cutoff /\ i \in 1 .. Len(Discount)
    BY <1>1
  <2>2. \A i \in 1 .. n : f[i] = W[ranking[i]] /\ ranking[i] \in Documents /\ f[i] \in Nat
    BY <1>9
  <2>3. \A i \in 1 .. n : u[i] = f[i] * Discount[i]
    OBVIOUS
  <2> HIDE DEF f, u
  <2>4. DcgOf(judged, ranking) = UpTo(u, n)
    <3>1. \A i \in 1 .. n : u[i] = Worth(judged[ranking[i]]) * Discount[i]
      BY <1>9, <2>2, <2>3
    <3>2. DOMAIN ranking = 1 .. n /\ \A r \in 1 .. n : ranking[r] \in Documents
      BY <2>2
    <3>3. Gaining(u, judged, ranking, n)
      BY <3>1, <3>2 DEF Gaining
    <3> QED BY ONLY <2>1, <3>3, DcgIs
  <2>5. \A k \in 0 .. n : UpTo(f, k) <= UpTo(best, k)
    <3> TAKE k \in 0 .. n
    <3>1. \A i, j \in 1 .. n : ranking[i] = ranking[j] => i = j
      BY <1>18 DEF IsInjective
    <3>2. \A d \in Documents : W[d] \in Int
      BY <1>9
    <3>3. \A i \in 1 .. n : ranking[i] \in Documents /\ f[i] = W[ranking[i]]
      BY <2>2
    <3>4. Cardinality(Heads(ranking, k)) = k /\ UpTo(f, k) = SumOver(W, Heads(ranking, k))
      <4>1. Along(f, ranking, W, Documents, n)
        BY <3>1, <3>2, <3>3 DEF Along
      <4> QED BY ONLY n \in Nat, k \in 0 .. n, <4>1, SumAlong
    <3>5. Heads(ranking, k) \in SUBSET Documents
      BY <2>1, <2>2 DEF Heads
    <3>6. SumOver(W, Heads(ranking, k)) <= UpTo(best, Cardinality(Heads(ranking, k)))
      <4>1. \A d \in Documents : W[d] \in Nat
        BY <1>9
      <4>2. \A i \in Nat : best[i] = IF i \in 1 .. Cardinality(R) THEN W[order[i]] ELSE 0
        BY <1>11
      <4>3. IsFiniteSet(Documents)
        BY CasesAssumption
      <4> QED BY <1>2, <1>10, <3>5, <4>1, <4>2, <4>3, FirstAreBest
    <3> QED BY <3>4, <3>6
  <2>6. UpTo(u, n) <= UpTo(v, n)
    <3>1. \A i \in 1 .. n : f[i] \in Nat /\ best[i] \in Nat /\ Discount[i] \in Nat
      BY <1>1, <1>11, <2>1, <2>2
    <3>2. \A i \in 2 .. n : Discount[i] <= Discount[i - 1]
      <4> TAKE i \in 2 .. n
      <4>1. i \in 1 .. Len(Discount) /\ i - 1 \in 1 .. Len(Discount) /\ i - 1 < i
        BY <1>1, <2>1
      <4> QED BY <1>1, <4>1, RanksAssumption
    <3>3. \A i \in 1 .. n : u[i] = f[i] * Discount[i] /\ v[i] = best[i] * Discount[i]
      BY <1>12, <2>1, <2>3
    <3> QED BY <2>1, <2>5, <3>1, <3>2, <3>3, WeightedSums
  <2>7. UpTo(v, n) \in Nat /\ UpTo(v, n) <= UpTo(v, cutoff)
    BY <1>1, <1>12, UpToGrows
  <2>8. UpTo(u, n) \in Int
    <3>1. \A i \in 1 .. n : u[i] \in Int
      BY <1>1, <2>1, <2>2, <2>3
    <3>2. n \in 0 .. n
      BY <2>1
    <3> QED BY <2>1, <3>1, <3>2, UpToNext
  <2> QED BY <1>17, <2>4, <2>6, <2>7, <2>8
<1> QED BY <1>6, <1>7, <1>8, <1>13, <1>15, <1>16, <1>17, <1>18 DEF ideal, order


\* The best of all rankings has what the ideal one has.
Rankings(cutoff) ==
  {ranking \in UNION {[1 .. n -> Documents] : n \in 0 .. cutoff} : IsInjective(ranking)}
BestOf(judged, cutoff) ==
  CHOOSE n \in {DcgOf(judged, ranking) : ranking \in Rankings(cutoff)} :
    \A ranking \in Rankings(cutoff) : DcgOf(judged, ranking) <= n

LEMMA IdealIsBest ==
  ASSUME NEW judged, \A d \in Documents : judged[d] \in Int, NEW cutoff \in 0 .. Len(Discount)
  PROVE  BestOf(judged, cutoff) = IdealDcg(judged, cutoff)
<1> DEFINE ideal == Take(Descending(judged), cutoff)
           S == Rankings(cutoff)
           gains == {DcgOf(judged, ranking) : ranking \in S}
           most == IdealDcg(judged, cutoff)
<1>1. /\ \E m \in 0 .. cutoff : ideal \in [1 .. m -> Documents]
      /\ IsInjective(ideal) /\ most = DcgOf(judged, ideal) /\ most \in Nat
      /\ \A n \in 0 .. cutoff : \A ranking \in [1 .. n -> Documents] :
           IsInjective(ranking) => DcgOf(judged, ranking) <= most
  BY IdealIs
<1> HIDE DEF ideal, most
<1>2. ideal \in S
  BY <1>1 DEF Rankings
<1>3. \A ranking \in S : DcgOf(judged, ranking) <= most
  BY <1>1 DEF Rankings
<1> HIDE DEF S
<1>4. most \in gains
  BY <1>1, <1>2
<1>5. \A x \in gains : (\A ranking \in S : DcgOf(judged, ranking) <= x) => x = most
  <2> TAKE x \in gains
  <2> HAVE \A ranking \in S : DcgOf(judged, ranking) <= x
  <2>1. most <= x
    BY <1>1, <1>2
  <2>2. PICK ranking \in S : x = DcgOf(judged, ranking)
    OBVIOUS
  <2>3. ranking \in S => ranking \in UNION {[1 .. n -> Documents] : n \in 0 .. cutoff} /\ IsInjective(ranking)
    BY DEF S, Rankings
  <2>4. PICK n \in 0 .. cutoff : ranking \in [1 .. n -> Documents]
    BY <2>3
  <2>5. x \in Int
    <3>1. Len(Discount) \in Nat /\ DOMAIN Discount = 1 .. Len(Discount) /\ n \in 0 .. Len(Discount)
      BY RanksAssumption, SeqElements
    <3> DEFINE u == [r \in 1 .. n |-> Worth(judged[ranking[r]]) * Discount[r]]
    <3>2. DOMAIN ranking = 1 .. n /\ \A r \in 1 .. n : ranking[r] \in Documents
      BY <2>4
    <3>3. \A r \in 1 .. n : u[r] = Worth(judged[ranking[r]]) * Discount[r]
      OBVIOUS
    <3> HIDE DEF u
    <3>6. Gaining(u, judged, ranking, n)
      BY <3>2, <3>3 DEF Gaining
    <3>4. DcgOf(judged, ranking) = UpTo(u, n) /\ \A r \in 1 .. n : u[r] \in Nat
      BY ONLY <3>1, <3>6, DcgIs
    <3>5. n \in Nat /\ n \in 0 .. n
      OBVIOUS
    <3> QED BY <2>2, <3>4, <3>5, UpToGrows
  <2>6. x <= most
    BY <1>3, <2>2
  <2> QED BY <1>1, <2>1, <2>5, <2>6
<1>6. BestOf(judged, cutoff) = most
  <2>1. BestOf(judged, cutoff) = CHOOSE n \in gains : \A ranking \in S : DcgOf(judged, ranking) <= n
    BY DEF BestOf, S
  <2> HIDE DEF gains
  <2> QED BY <1>3, <1>4, <1>5, <2>1
<1> QED BY <1>6 DEF most

\* A ranking that names no document twice finds no more than there is.
FoundDocs(judged, hits, n) == {hits[r].doc : r \in Found(judged, hits, n)}

LEMMA FoundIsRelevant ==
  ASSUME NEW judged, NEW hits, NEW n \in Nat,
         \A r \in 1 .. n : hits[r].doc \in Documents,
         \A q, r \in 1 .. n : hits[q].doc = hits[r].doc => q = r,
         IsFiniteSet(Relevant(judged))
  PROVE  /\ Cardinality(FoundDocs(judged, hits, n)) = Cardinality(Found(judged, hits, n))
         /\ Cardinality(Found(judged, hits, n)) <= Cardinality(Relevant(judged))
<1> DEFINE found == Found(judged, hits, n)
           docs == {hits[r].doc : r \in found}
           doc == [r \in found |-> hits[r].doc]
<1>1. IsFiniteSet(found) /\ Cardinality(found) \in Nat
  BY FoundGrows
<1>2. \A r \in found : r \in 1 .. n /\ judged[hits[r].doc] > 0
  BY DEF Found
<1> HIDE DEF found
<1>3. doc \in Bijection(found, docs)
  <2>1. doc \in [found -> docs] /\ DOMAIN doc = found
    OBVIOUS
  <2>2. \A q, r \in found : doc[q] = doc[r] => q = r
    BY <1>2
  <2>3. \A d \in docs : \E r \in found : doc[r] = d
    OBVIOUS
  <2> HIDE DEF doc, docs
  <2> QED BY <2>1, <2>2, <2>3 DEF Bijection, Injection, Surjection, IsInjective
<1>4. docs \in SUBSET Relevant(judged)
  BY <1>2 DEF Relevant
<1> HIDE DEF doc, docs
<1>5. Cardinality(docs) = Cardinality(found)
  BY <1>1, <1>3, FS_Bijection DEF ExistsBijection
<1>6. Cardinality(docs) <= Cardinality(Relevant(judged))
  BY <1>4, FS_Subset
<1> QED BY <1>5, <1>6 DEF docs, found, FoundDocs


\* metrics_for: a ranking without repetitions is measured by the definitions, and
\* nothing exceeds 1.
Shares(metrics) ==
  /\ metrics.precision \in 0 .. Whole /\ metrics.reciprocal \in 0 .. Whole
  /\ metrics.ndcg \in 0 .. Whole /\ metrics.recall \in 0 .. Whole

LEMMA MetricsAreTrue ==
  ASSUME NEW judged, \A d \in Documents : judged[d] \in Int, NEW cutoff \in 0 .. Len(Discount),
         NEW T, NEW hits \in Seq(T), \A hit \in T : hit.doc \in Documents,
         IsInjective([r \in DOMAIN hits |-> hits[r].doc])
  PROVE  /\ Metrics(judged, hits, cutoff) = TrueMetrics(judged, hits, cutoff)
         /\ Shares(Metrics(judged, hits, cutoff))
<1> DEFINE top == Take(hits, cutoff)
<1>1. PICK n \in 0 .. cutoff : Heading(top, hits, n, T)
  <2>1. cutoff \in Nat /\ Len(hits) \in Nat
    BY RanksAssumption, SeqElements
  <2>2. \E n \in Nat : n = (IF Len(hits) < cutoff THEN Len(hits) ELSE cutoff) /\ Heading(top, hits, n, T)
    BY <2>1, TakeIs
  <2> QED BY <2>1, <2>2
<1> HIDE DEF top
<1>2. /\ DOMAIN top = 1 .. n /\ Len(top) = n /\ n \in Nat
      /\ \A r \in 1 .. n : r \in DOMAIN hits /\ top[r] = hits[r] /\ top[r] \in T
  BY <1>1 DEF Heading
<1>3. /\ \A r \in 1 .. n : top[r].doc \in Documents /\ judged[top[r].doc] \in Int
      /\ \A q, r \in 1 .. n : top[q].doc = top[r].doc => q = r
  BY <1>2 DEF IsInjective
<1>4. n \in 0 .. Len(Discount) /\ Len(Discount) \in Nat /\ DOMAIN Discount = 1 .. Len(Discount)
  BY RanksAssumption, SeqElements
<1> DEFINE found == Found(judged, top, n)
           m == Rank(judged, top)
           P == Precisions(judged, top, n)
           total == Cardinality(Relevant(judged))
           docs == [r \in DOMAIN top |-> top[r].doc]
           ideal == IdealDcg(judged, cutoff)
<1>5. Measured(m, judged, top, n, n)
  BY <1>2, <1>3, <1>4, RankMeasures
<1>6. /\ m.retrieved = Cardinality(found) /\ m.precisions = UpTo(P, n)
      /\ m.precisions \in Nat /\ m.precisions <= m.retrieved * Whole
      /\ m.dcg = UpTo(Gains(judged, top, n), n)
      /\ found = {} => m.reciprocal = 0
      /\ found /= {} => \E r : First(r, found) /\ m.reciprocal = Ratio(1, r)
  BY <1>5 DEF Measured
<1>7. IsFiniteSet(found) /\ Cardinality(found) \in Nat /\ \A r \in found : r \in 1 .. n
  <2>1. IsFiniteSet(found) /\ Cardinality(found) \in 0 .. n
    <3> HIDE DEF found
    <3> QED BY <1>2, FoundGrows DEF found
  <2> QED BY <2>1 DEF Found
<1>8. /\ IsFiniteSet(Relevant(judged)) /\ total \in Nat
      /\ Cardinality({top[r].doc : r \in found}) = Cardinality(found)
      /\ Cardinality(found) <= total
  <2>1. IsFiniteSet(Relevant(judged))
    BY DescendingIs
  <2>2. total \in Nat
    BY <2>1, FS_CardinalityType
  <2>3. /\ Cardinality(FoundDocs(judged, top, n)) = Cardinality(found)
        /\ Cardinality(found) <= total
    <3> HIDE DEF found, total
    <3> QED BY <1>2, <1>3, <2>1, FoundIsRelevant DEF found, total
  <2> HIDE DEF found, total
  <2> QED BY <2>1, <2>2, <2>3 DEF FoundDocs, found
<1>9. found = {r \in DOMAIN top : judged[top[r].doc] > 0}
  BY <1>2 DEF Found
<1> HIDE DEF m
<1>10. m.precisions = SumFunction([r \in DOMAIN top |->
                        IF r \in found THEN Ratio(Cardinality({q \in found : q <= r}), r) ELSE 0])
  <2> DEFINE f == [r \in DOMAIN top |->
                     IF r \in found THEN Ratio(Cardinality({q \in found : q <= r}), r) ELSE 0]
             g == [r \in 1 .. n |-> P[r]]
  <2>1. \A r \in 1 .. n : P[r] = IF r \in found THEN Ratio(Cardinality({q \in found : q <= r}), r) ELSE 0
    <3> TAKE r \in 1 .. n
    <3>1. Found(judged, top, r) = {q \in found : q <= r}
      BY <1>2 DEF Found
    <3>2. r \in found <=> judged[top[r].doc] > 0
      BY <1>2 DEF Found
    <3> QED BY <3>1, <3>2 DEF Precisions
  <2>2. f = g
    <3> HIDE DEF P, found
    <3> QED BY <1>2, <2>1
  <2>3. UpTo(P, n) = SumFunction(g)
    BY DEF UpTo
  <2> HIDE DEF f, g
  <2>4. m.precisions = SumFunction(f)
    BY <1>6, <2>2, <2>3
  <2> QED BY <2>4 DEF f
<1> HIDE DEF found
<1>11. m.reciprocal = IF found = {} THEN 0
                      ELSE Ratio(1, CHOOSE r \in found : \A q \in found : r <= q)
  <2>1. CASE found = {}
    BY <1>6, <2>1
  <2>2. CASE found /= {}
    <3>1. PICK r : First(r, found) /\ m.reciprocal = Ratio(1, r)
      BY <1>6, <2>2
    <3>2. \A q \in found : q \in Int
      BY <1>7
    <3>3. r = CHOOSE x \in found : \A q \in found : x <= q
      BY <3>1, <3>2 DEF First
    <3> QED BY <2>2, <3>1, <3>3
  <2> QED BY <2>1, <2>2
<1>12. DOMAIN docs = 1 .. n /\ \A r \in 1 .. n : docs[r] = top[r].doc /\ docs[r] \in Documents
  BY <1>2, <1>3
<1>13. m.dcg = DcgOf(judged, docs)
  <2> DEFINE G == Gains(judged, top, n)
             f == [r \in 1 .. n |-> G[r]]
             g == [r \in DOMAIN docs |-> Gain(judged[docs[r]], r)]
  <2>1. f = g
    BY <1>12 DEF Gains
  <2>2. UpTo(G, n) = SumFunction(f) /\ DcgOf(judged, docs) = SumFunction(g)
    BY DEF UpTo, DcgOf
  <2> HIDE DEF f, g
  <2> QED BY <1>6, <2>1, <2>2
<1>14. /\ ideal \in Nat /\ ideal = BestOf(judged, cutoff)
       /\ \A ranking \in [1 .. n -> Documents] : IsInjective(ranking) => DcgOf(judged, ranking) <= ideal
  BY IdealIs, IdealIsBest
<1> HIDE DEF ideal
<1>15. m.dcg \in Nat /\ m.dcg <= ideal
  <2>1. docs \in [1 .. n -> Documents]
    BY <1>12
  <2>2. IsInjective(docs)
    BY <1>3, <1>12 DEF IsInjective
  <2>3. \A r \in 1 .. n : Gains(judged, top, n)[r] \in Nat
    <3> TAKE r \in 1 .. n
    <3>1. r \in DOMAIN Discount /\ judged[top[r].doc] \in Int
      BY <1>3, <1>4
    <3> QED BY <3>1, GainIs DEF Gains
  <2>4. n \in 0 .. n
    BY <1>2
  <2>5. UpTo(Gains(judged, top, n), n) \in Nat
    BY <1>2, <2>3, <2>4, UpToGrows
  <2> HIDE DEF docs
  <2> QED BY <1>6, <1>13, <1>14, <2>1, <2>2, <2>5
<1> DEFINE precision == IF total = 0 THEN 0 ELSE m.precisions \div total
           metrics == Metrics(judged, hits, cutoff)
<1>16. metrics = [precision |-> precision, reciprocal |-> m.reciprocal,
                  ndcg |-> Ratio(m.dcg, ideal), recall |-> Ratio(m.retrieved, total)]
  BY DEF Metrics, m, top, ideal
<1>17. metrics = TrueMetrics(judged, hits, cutoff)
  <2>1. m.retrieved = Cardinality({top[r].doc : r \in found})
    BY <1>6, <1>8
  <2>2. TrueMetrics(judged, hits, cutoff) =
          [precision |-> IF total = 0 THEN 0
                         ELSE SumFunction([r \in DOMAIN top |->
                                IF r \in found
                                THEN Ratio(Cardinality({q \in found : q <= r}), r) ELSE 0]) \div total,
           reciprocal |-> IF found = {} THEN 0
                          ELSE Ratio(1, CHOOSE r \in found : \A q \in found : r <= q),
           ndcg |-> Ratio(DcgOf(judged, docs), BestOf(judged, cutoff)),
           recall |-> Ratio(Cardinality({top[r].doc : r \in found}), total)]
    BY ONLY <1>9 DEF TrueMetrics, top, DcgOf, BestOf, Rankings
  <2> QED BY <1>10, <1>11, <1>13, <1>14, <1>16, <2>1, <2>2
<1>18. precision \in 0 .. Whole
  <2>1. CASE total = 0
    BY <2>1, RanksAssumption
  <2>2. CASE total /= 0
    <3>1. PICK p \in Nat, t \in Nat, c \in Nat, whole \in Nat :
            /\ p = m.precisions /\ t = total /\ c = m.retrieved /\ whole = Whole
            /\ p <= c * whole /\ c <= t /\ t /= 0
      BY <1>6, <1>7, <1>8, <2>2, RanksAssumption
    <3>2. c * whole <= t * whole
      <4>1. PICK more \in Nat : t = c + more
        <5>1. t - c \in Nat /\ t = c + (t - c)
          BY <3>1
        <5> QED BY <5>1
      <4>2. t * whole = c * whole + more * whole /\ more * whole \in Nat /\ c * whole \in Nat
        BY <4>1
      <4> QED BY <4>2
    <3> DEFINE quotient == p \div t
    <3>3. quotient \in Nat /\ p % t \in 0 .. t - 1 /\ p = quotient * t + (p % t)
      BY <3>1, Division
    <3> HIDE DEF quotient
    <3>4. PICK rest \in 0 .. t - 1 : p = quotient * t + rest
      BY <3>3
    <3>5. ~(whole < quotient)
      <4> SUFFICES ASSUME whole < quotient PROVE FALSE
        OBVIOUS
      <4>1. whole * t + rest < quotient * t + rest
        <5>1. t \in Nat \ {0}
          BY <3>1
        <5>2. quotient \in Nat /\ whole < quotient
          BY <3>3
        <5> QED BY <5>1, <5>2, NotBelow
      <4>2. whole * t = t * whole /\ whole * t \in Nat /\ quotient * t \in Nat /\ c * whole \in Nat
        BY <3>3
      <4>3. rest \in Nat /\ p <= c * whole /\ c * whole <= t * whole
        BY <3>1, <3>2
      <4> QED BY ONLY <3>4, <4>1, <4>2, <4>3, p \in Nat
    <3> QED BY <2>2, <3>1, <3>3, <3>5 DEF quotient
  <2> QED BY <2>1, <2>2
<1>19. m.reciprocal \in 0 .. Whole
  <2>1. Whole \in Nat
    BY RanksAssumption
  <2>2. CASE found = {}
    BY <1>6, <2>1, <2>2
  <2>3. CASE found /= {}
    <3>1. PICK r : First(r, found) /\ m.reciprocal = Ratio(1, r)
      BY <1>6, <2>3
    <3>2. r \in Nat /\ 1 \in Nat /\ 1 <= r
      BY <1>7, <3>1 DEF First
    <3>3. Ratio(1, r) \in Nat /\ Ratio(1, r) <= Whole
      BY <3>2, RatioIs
    <3> QED BY <2>1, <3>1, <3>3
  <2> QED BY <2>2, <2>3
<1>20. Ratio(m.dcg, ideal) \in 0 .. Whole /\ Ratio(m.retrieved, total) \in 0 .. Whole
  <2>1. Whole \in Nat
    BY RanksAssumption
  <2>2. m.retrieved \in Nat /\ m.retrieved <= total
    BY <1>6, <1>7, <1>8
  <2>3. Ratio(m.dcg, ideal) \in Nat /\ Ratio(m.dcg, ideal) <= Whole
    BY <1>14, <1>15, RatioIs
  <2>4. Ratio(m.retrieved, total) \in Nat /\ Ratio(m.retrieved, total) <= Whole
    <3>1. total \in Nat
      BY <1>8
    <3> HIDE DEF total
    <3> QED BY ONLY <2>2, <3>1, RatioIs
  <2> HIDE DEF total
  <2> QED BY <2>1, <2>3, <2>4
<1>21. Shares(metrics)
  <2> HIDE DEF precision, metrics
  <2> QED BY <1>16, <1>18, <1>19, <1>20 DEF Shares
<1> QED BY <1>17, <1>21


\* aggregate_metrics: a mean is between two of its values.
LEMMA MeanIsBetween ==
  ASSUME NEW n \in Nat \ {0}, NEW values, values = [i \in 1 .. n |-> values[i]],
         \A i \in 1 .. n : values[i] \in Nat
  PROVE  /\ \E i \in 1 .. n : values[i] <= Mean(values)
         /\ \E i \in 1 .. n : Mean(values) <= values[i]
<1> DEFINE sum == UpTo(values, n)
           mean == sum \div n
<1>1. sum \in Nat
  BY UpToBounds
<1>2. Mean(values) = mean
  <2>1. Len(values) = n
    <3>1. values \in [1 .. n -> Nat]
      OBVIOUS
    <3>2. n \in Nat
      OBVIOUS
    <3> QED BY ONLY <3>1, <3>2, FunctionIsSeq
  <2>2. SumFunction(values) = sum
    BY DEF UpTo
  <2> QED BY <2>1, <2>2 DEF Mean
<1> HIDE DEF sum
<1>3. mean \in Nat /\ sum % n \in 0 .. n - 1 /\ sum = mean * n + (sum % n)
  BY <1>1, Division
<1> HIDE DEF mean
<1>4. PICK rest \in 0 .. n - 1 : sum = mean * n + rest
  BY <1>3
<1>5. mean * n \in Nat
  BY <1>3
<1>6. ASSUME \A i \in 1 .. n : ~(values[i] <= mean) PROVE FALSE
  <2>1. \A i \in 1 .. n : mean + 1 <= values[i]
    BY <1>3, <1>6
  <2>2. PICK c \in Nat : c = mean + 1
    BY <1>3
  <2>3. c * n <= sum
    <3>1. n \in Nat /\ \A i \in 1 .. n : c <= values[i]
      BY <2>1, <2>2
    <3> QED BY <3>1, UpToBounds DEF sum
  <2>4. c * n = mean * n + n
    BY <1>3, <2>2
  <2> QED BY <1>4, <1>5, <2>3, <2>4
<1>7. ASSUME \A i \in 1 .. n : ~(mean <= values[i]) PROVE FALSE
  <2>1. 1 \in 1 .. n /\ values[1] \in Nat
    OBVIOUS
  <2>2. mean - 1 \in Nat /\ \A i \in 1 .. n : values[i] <= mean - 1
    <3>1. mean \in Nat /\ \A i \in 1 .. n : values[i] \in Nat /\ values[i] < mean
      BY <1>3, <1>7
    <3>2. mean /= 0
      BY <2>1, <3>1
    <3> QED BY ONLY <3>1, <3>2
  <2>3. PICK c \in Nat : c = mean - 1
    BY <2>2
  <2>4. sum <= c * n
    <3>1. n \in Nat /\ \A i \in 1 .. n : values[i] <= c
      BY <2>2, <2>3
    <3> QED BY <3>1, UpToBounds DEF sum
  <2>5. mean * n = c * n + n /\ c * n \in Nat
    <3>1. mean = c + 1
      BY <1>3, <2>3
    <3>2. (c + 1) * n = c * n + n
      OBVIOUS
    <3> QED BY <3>1, <3>2
  <2> QED BY <1>4, <2>4, <2>5
<1> QED BY <1>2, <1>6, <1>7


\* Batches and benchmarks.  What has been reported follows from the case alone: of a
\* batch, the hits of each topic and their metrics; of a benchmark, that the passes that
\* have ended, and the topics done of the current one, gave what the first pass gave.
Hits(c, t) == c.answers[c.config.strategy][t.text]
Reported(c, t) ==
  [topic |-> t, hits |-> Hits(c, t),
   metrics |-> IF c.config.judged THEN <<Metrics(c.judged[t.id], Hits(c, t), c.config.top_k)>> ELSE <<>>]
Reports(c) == {Reported(c, t) : t \in ToSet(c.topics)}
Verified(c, t) ==
  /\ Hits(c, t) /= Failed
  /\ c.config.verify => c.answers[Oracle(c.config.strategy)][t.text] = Hits(c, t)

MeansOf(reports) ==
  LET Of(measure) == Mean([i \in DOMAIN reports |-> reports[i].metrics[1][measure]])
  IN  [precision |-> Of("precision"), reciprocal |-> Of("reciprocal"),
       ndcg |-> Of("ndcg"), recall |-> Of("recall")]

NoHitTwice(hits) == IsInjective([r \in DOMAIN hits |-> hits[r].doc])

Reporting(c, st, n, reports, means) ==
  /\ st \in {"check", "search", "run", "report", "reported", "error"}
  /\ reports \in Seq(Reports(c)) /\ Len(reports) = n
  /\ \A i \in 1 .. n : reports[i] = Reported(c, c.topics[i]) /\ Verified(c, c.topics[i])
  /\ st \in {"run", "report", "reported"} =>
       n = Len(c.topics) /\ (c.config.judged => means = MeansOf(reports))
  /\ st \in {"report", "reported"} => \A i \in 1 .. n : NoHitTwice(reports[i].hits)

Kept(c, t) == [topic |-> t, hits |-> c.answers["Exhaustive"][t.text], metrics |-> <<>>]
Keeps(c) == {Kept(c, t) : t \in ToSet(c.topics)}
Agrees(c, e, n) ==
  \A i \in 1 .. n : c.answers[e][c.topics[i].text] = c.answers["Exhaustive"][c.topics[i].text]

Comparing(c, st, n, kept) ==
  /\ st \in {"exhaustive", "Wand", "BlockMaxWand", "MaxScore", "BlockMaxMaxScore", "sharded",
             "reported", "error"}
  /\ kept \in Seq(Keeps(c)) /\ Len(kept) <= Len(c.topics)
  /\ \A i \in 1 .. Len(kept) : kept[i] = Kept(c, c.topics[i])
  /\ IF st = "exhaustive" THEN Len(kept) = n ELSE st /= "error" => Len(kept) = Len(c.topics)
  /\ st \in {"Wand", "BlockMaxWand", "MaxScore", "BlockMaxMaxScore", "sharded"} => Agrees(c, st, n)
  /\ st \in {"BlockMaxWand", "MaxScore", "BlockMaxMaxScore", "sharded", "reported"}
       => Agrees(c, "Wand", Len(c.topics))
  /\ st \in {"MaxScore", "BlockMaxMaxScore", "sharded", "reported"}
       => Agrees(c, "BlockMaxWand", Len(c.topics))
  /\ st \in {"BlockMaxMaxScore", "sharded", "reported"} => Agrees(c, "MaxScore", Len(c.topics))
  /\ st \in {"sharded", "reported"} => Agrees(c, "BlockMaxMaxScore", Len(c.topics))
  /\ st = "reported" => Agrees(c, "sharded", Len(c.topics))

BatchInv ==
  /\ case \in Cases /\ position \in 0 .. Len(case.topics)
  /\ case.benchmark => Comparing(case, step, position, queries)
  /\ ~case.benchmark => Reporting(case, step, position, queries, aggregate)
  /\ ~case.benchmark /\ step \notin {"check", "error"} => IsBatch

LEMMA TopicsAre ==
  ASSUME NEW c \in Cases
  PROVE  /\ Len(c.topics) \in Nat /\ DOMAIN c.topics = 1 .. Len(c.topics)
         /\ \A i \in 1 .. Len(c.topics) : c.topics[i] \in ToSet(c.topics)
         /\ \A t \in ToSet(c.topics) : \E i \in 1 .. Len(c.topics) : t = c.topics[i]
<1>1. PICK topics : topics = c.topics
  OBVIOUS
<1>2. topics \in Seq(ToSet(topics))
  BY <1>1, CasesAssumption
<1>3. Len(topics) \in Nat /\ DOMAIN topics = 1 .. Len(topics)
  BY <1>2, SeqElements
<1> QED BY <1>1, <1>3 DEF ToSet

LEMMA AppendIs ==
  ASSUME NEW S, NEW s \in Seq(S), NEW x \in S, NEW t, t = Append(s, x)
  PROVE  t \in Seq(S) /\ Len(t) = Len(s) + 1 /\ t[Len(s) + 1] = x /\ \A i \in 1 .. Len(s) : t[i] = s[i]
OBVIOUS

LEMMA InitBatchInv == BatchInit => BatchInv
<1> SUFFICES ASSUME BatchInit PROVE BatchInv
  OBVIOUS
<1>1. case \in Cases /\ position = 0 /\ queries = <<>>
      /\ step = IF case.benchmark THEN "exhaustive" ELSE "check"
  BY DEF BatchInit
<1>2. Len(case.topics) \in Nat
  BY <1>1, TopicsAre
<1>3. \A S : <<>> \in Seq(S) /\ Len(<<>>) = 0
  OBVIOUS
<1>4. case.benchmark => Comparing(case, step, position, queries)
  BY <1>1, <1>2, <1>3 DEF Comparing
<1>5. ~case.benchmark => Reporting(case, step, position, queries, aggregate)
  BY <1>1, <1>2, <1>3 DEF Reporting
<1>6. ~case.benchmark => step = "check"
  BY <1>1
<1> QED BY <1>1, <1>2, <1>4, <1>5, <1>6 DEF BatchInv

\* A step that fails.
LEMMA FailKeeps == BatchInv /\ Fail => BatchInv'
<1> SUFFICES ASSUME BatchInv, Fail PROVE BatchInv'
  OBVIOUS
<1>1. case' = case /\ position' = position /\ queries' = queries /\ aggregate' = aggregate /\ step' = "error"
  BY DEF Fail
<1>2. case.benchmark => Comparing(case, "error", position, queries)
  BY DEF BatchInv, Comparing
<1>3. ~case.benchmark => Reporting(case, "error", position, queries, aggregate)
  BY DEF BatchInv, Reporting
<1> QED BY <1>1, <1>2, <1>3 DEF BatchInv


LEMMA EvaluateKeeps == BatchInv /\ ~case.benchmark /\ EvaluateTopic => BatchInv'
<1> SUFFICES ASSUME BatchInv, ~case.benchmark, EvaluateTopic PROVE BatchInv'
  OBVIOUS
<1> DEFINE topic == case.topics[position + 1]
           record == [topic |-> topic, hits |-> Answer(case.config.strategy, topic),
                      metrics |-> IF case.config.judged
                                  THEN <<Metrics(case.judged[topic.id], Answer(case.config.strategy, topic),
                                                 case.config.top_k)>>
                                  ELSE <<>>]
           verified == case.config.verify =>
                         /\ Answer(Oracle(case.config.strategy), topic) /= Failed
                         /\ SameHits(Answer(case.config.strategy, topic),
                                     Answer(Oracle(case.config.strategy), topic))
<1>1. step = "search" /\ position < Len(case.topics)
  BY DEF EvaluateTopic
<1>2. /\ case \in Cases /\ position \in 0 .. Len(case.topics)
      /\ Reporting(case, "search", position, queries, aggregate) /\ IsBatch
  BY <1>1 DEF BatchInv
<1>3. CASE ~(Answer(case.config.strategy, topic) /= Failed /\ verified)
  <2>1. Fail
    BY <1>3 DEF EvaluateTopic
  <2> QED BY <2>1, FailKeeps
<1>4. CASE Answer(case.config.strategy, topic) /= Failed /\ verified
  <2>1. /\ queries' = Append(queries, record) /\ position' = position + 1
        /\ case' = case /\ step' = step /\ aggregate' = aggregate
    BY <1>4 DEF EvaluateTopic
  <2>2. Len(case.topics) \in Nat /\ topic \in ToSet(case.topics)
    <3>1. Len(case.topics) \in Nat /\ \A i \in 1 .. Len(case.topics) : case.topics[i] \in ToSet(case.topics)
      BY <1>2, TopicsAre
    <3>2. position + 1 \in 1 .. Len(case.topics)
      BY <1>1, <1>2, <3>1
    <3> QED BY <3>1, <3>2
  <2>3. record = Reported(case, topic) /\ Verified(case, topic)
    BY <1>4 DEF Reported, Hits, Answer, Verified, SameHits
  <2>4. record \in Reports(case)
    BY <2>2, <2>3 DEF Reports
  <2>5. queries \in Seq(Reports(case)) /\ Len(queries) = position
    BY <1>2 DEF Reporting
  <2> HIDE DEF record
  <2>6. /\ queries' \in Seq(Reports(case)) /\ Len(queries') = position + 1
        /\ queries'[position + 1] = record /\ \A i \in 1 .. position : queries'[i] = queries[i]
    BY <2>1, <2>4, <2>5, AppendIs
  <2>7. position + 1 \in 0 .. Len(case.topics) /\ position \in Nat
    BY <1>1, <1>2, <2>2
  <2>8. \A i \in 1 .. position + 1 : queries'[i] = Reported(case, case.topics[i]) /\ Verified(case, case.topics[i])
    <3> TAKE i \in 1 .. position + 1
    <3>1. CASE i = position + 1
      BY <2>3, <2>6, <3>1
    <3>2. CASE i /= position + 1
      <4>1. i \in 1 .. position
        BY <2>7, <3>2
      <4>2. queries[i] = Reported(case, case.topics[i]) /\ Verified(case, case.topics[i])
        BY <1>2, <4>1 DEF Reporting
      <4> QED BY <2>6, <4>1, <4>2
    <3> QED BY <3>1, <3>2
  <2>9. Reporting(case, "search", position + 1, queries', aggregate)
    BY <2>6, <2>8 DEF Reporting
  <2>10. IsBatch'
    BY <1>2, <2>1 DEF IsBatch
  <2> QED BY <1>1, <1>2, <2>1, <2>7, <2>9, <2>10 DEF BatchInv
<1> QED BY <1>3, <1>4

LEMMA BatchStepsKeep ==
  BatchInv /\ ~case.benchmark /\ (CheckBatch \/ Aggregate \/ WriteRun \/ WriteReport) => BatchInv'
<1> SUFFICES ASSUME BatchInv, ~case.benchmark, CheckBatch \/ Aggregate \/ WriteRun \/ WriteReport
             PROVE  BatchInv'
  OBVIOUS
<1>1. /\ case \in Cases /\ position \in 0 .. Len(case.topics)
      /\ Reporting(case, step, position, queries, aggregate)
      /\ step \notin {"check", "error"} => IsBatch
  BY DEF BatchInv
<1>2. CASE Fail
  BY <1>2, FailKeeps
<1>3. CASE CheckBatch /\ ~Fail
  <2>1. IsBatch /\ step = "check" /\ step' = "search"
        /\ case' = case /\ position' = position /\ queries' = queries /\ aggregate' = aggregate
    BY <1>3 DEF CheckBatch
  <2>2. Reporting(case, "search", position, queries, aggregate)
    BY <1>1, <2>1 DEF Reporting
  <2>3. IsBatch'
    BY <2>1 DEF IsBatch
  <2> QED BY <1>1, <2>1, <2>2, <2>3 DEF BatchInv
<1>4. CASE Aggregate
  <2>1. /\ step = "search" /\ position = Len(case.topics) /\ step' = "run"
        /\ case' = case /\ position' = position /\ queries' = queries
        /\ case.config.judged => aggregate' = MeansOf(queries)
    BY <1>4 DEF Aggregate, MeansOf
  <2>2. Reporting(case, "run", position, queries, aggregate')
    BY <1>1, <2>1 DEF Reporting
  <2>3. IsBatch'
    BY <1>1, <2>1 DEF IsBatch
  <2> QED BY <1>1, <2>1, <2>2, <2>3 DEF BatchInv
<1>5. CASE WriteRun /\ ~Fail
  <2>1. /\ step = "run" /\ step' = "report"
        /\ case' = case /\ position' = position /\ queries' = queries /\ aggregate' = aggregate
        /\ \A i \in DOMAIN queries : NoHitTwice(queries[i].hits)
    BY <1>5 DEF WriteRun, NoHitTwice
  <2>2. DOMAIN queries = 1 .. position
    <3>1. queries \in Seq(Reports(case)) /\ Len(queries) = position
      BY <1>1 DEF Reporting
    <3> QED BY <3>1, SeqElements
  <2>3. Reporting(case, "report", position, queries, aggregate)
    BY <1>1, <2>1, <2>2 DEF Reporting
  <2>4. IsBatch'
    BY <1>1, <2>1 DEF IsBatch
  <2> QED BY <1>1, <2>1, <2>3, <2>4 DEF BatchInv
<1>6. CASE WriteReport /\ ~Fail
  <2>1. /\ step = "report" /\ step' = "reported"
        /\ case' = case /\ position' = position /\ queries' = queries /\ aggregate' = aggregate
    BY <1>6 DEF WriteReport
  <2>2. Reporting(case, "reported", position, queries, aggregate)
    BY <1>1, <2>1 DEF Reporting
  <2>3. IsBatch'
    BY <1>1, <2>1 DEF IsBatch
  <2> QED BY <1>1, <2>1, <2>2, <2>3 DEF BatchInv
<1> QED BY <1>2, <1>3, <1>4, <1>5, <1>6


LEMMA ExhaustiveKeeps == BatchInv /\ case.benchmark /\ ExhaustivePass => BatchInv'
<1> SUFFICES ASSUME BatchInv, case.benchmark, ExhaustivePass PROVE BatchInv'
  OBVIOUS
<1>1. /\ case \in Cases /\ position \in 0 .. Len(case.topics) /\ step = "exhaustive"
      /\ Comparing(case, "exhaustive", position, queries)
  BY DEF BatchInv, ExhaustivePass
<1>2. /\ queries \in Seq(Keeps(case)) /\ Len(queries) = position
      /\ \A i \in 1 .. position : queries[i] = Kept(case, case.topics[i])
  BY <1>1 DEF Comparing
<1>3. /\ Len(case.topics) \in Nat
      /\ \A i \in 1 .. Len(case.topics) : case.topics[i] \in ToSet(case.topics)
  BY <1>1, TopicsAre
<1>4. CASE position = Len(case.topics)
  <2>1. step' = "Wand" /\ position' = 0 /\ case' = case /\ queries' = queries /\ aggregate' = aggregate
    BY <1>1, <1>4 DEF ExhaustivePass
  <2>2. Agrees(case, "Wand", 0)
    BY DEF Agrees
  <2>3. Comparing(case, "Wand", 0, queries)
    BY <1>1, <1>2, <1>4, <2>2 DEF Comparing
  <2> QED BY <1>1, <1>3, <2>1, <2>3 DEF BatchInv
<1>5. CASE position /= Len(case.topics) /\ ~Fail
  <2> DEFINE topic == case.topics[position + 1]
             record == Kept(case, topic)
  <2>1. /\ queries' = Append(queries, record) /\ position' = position + 1
        /\ case' = case /\ step' = "exhaustive"
    BY <1>1, <1>5 DEF ExhaustivePass, Kept, Answer
  <2>2. position + 1 \in 1 .. Len(case.topics) /\ position \in Nat
    BY <1>1, <1>3, <1>5
  <2>3. record \in Keeps(case)
    BY <1>3, <2>2 DEF Keeps
  <2>4. /\ queries' \in Seq(Keeps(case)) /\ Len(queries') = position + 1
        /\ queries'[position + 1] = record /\ \A i \in 1 .. position : queries'[i] = queries[i]
    <3> HIDE DEF record
    <3> QED BY <1>2, <2>1, <2>3, AppendIs
  <2>5. \A i \in 1 .. position + 1 : queries'[i] = Kept(case, case.topics[i])
    <3> TAKE i \in 1 .. position + 1
    <3>1. i = position + 1 \/ i \in 1 .. position
      BY <2>2
    <3> QED BY <1>2, <2>4, <3>1
  <2>6. Comparing(case, "exhaustive", position + 1, queries')
    BY <2>2, <2>4, <2>5 DEF Comparing
  <2>7. position + 1 \in 0 .. Len(case.topics)
    BY <2>2
  <2> QED BY <1>1, <2>1, <2>6, <2>7 DEF BatchInv
<1>6. CASE Fail
  BY <1>6, FailKeeps
<1> QED BY <1>4, <1>5, <1>6

LEMMA ComparedKeeps == BatchInv /\ case.benchmark /\ ComparedPass => BatchInv'
<1> SUFFICES ASSUME BatchInv, case.benchmark, ComparedPass PROVE BatchInv'
  OBVIOUS
<1>1. /\ case \in Cases /\ position \in 0 .. Len(case.topics) /\ position < Len(case.topics)
      /\ step \in {"Wand", "BlockMaxWand", "MaxScore", "BlockMaxMaxScore", "sharded"}
      /\ Comparing(case, step, position, queries)
  BY DEF BatchInv, ComparedPass, Pruned
<1>2. CASE Fail
  BY <1>2, FailKeeps
<1>3. CASE ~Fail
  <2> DEFINE kept == queries[position + 1]
  <2>1. /\ position' = position + 1 /\ case' = case /\ step' = step /\ queries' = queries
        /\ Answer(step, kept.topic) = kept.hits
    BY <1>3 DEF ComparedPass, SameHits
  <2>2. Len(case.topics) \in Nat
    BY <1>1, TopicsAre
  <2>3. position + 1 \in 1 .. Len(case.topics) /\ position \in Nat /\ position + 1 \in 0 .. Len(case.topics)
    BY <1>1, <2>2
  <2>4. Len(queries) = Len(case.topics)
    BY <1>1 DEF Comparing
  <2>5. kept = Kept(case, case.topics[position + 1])
    BY <1>1, <2>3, <2>4 DEF Comparing
  <2>6. Agrees(case, step, position)
    BY <1>1 DEF Comparing
  <2>7. Agrees(case, step, position + 1)
    <3>1. SUFFICES ASSUME NEW i \in 1 .. position + 1
                   PROVE  case.answers[step][case.topics[i].text]
                            = case.answers["Exhaustive"][case.topics[i].text]
      BY DEF Agrees
    <3>2. CASE i = position + 1
      BY <2>1, <2>5, <3>2 DEF Answer, Kept
    <3>3. CASE i /= position + 1
      <4>1. i \in 1 .. position
        BY <2>3, <3>3
      <4> QED BY <2>6, <4>1 DEF Agrees
    <3> QED BY <3>2, <3>3
  <2>8. Comparing(case, step, position + 1, queries)
    BY <1>1, <2>7 DEF Comparing
  <2> QED BY <1>1, <2>1, <2>3, <2>8 DEF BatchInv
<1> QED BY <1>2, <1>3

LEMMA EndKeepsBatch == BatchInv /\ case.benchmark /\ EndPass => BatchInv'
<1> SUFFICES ASSUME BatchInv, case.benchmark, EndPass PROVE BatchInv'
  OBVIOUS
<1>1. /\ case \in Cases /\ position = Len(case.topics)
      /\ step \in {"Wand", "BlockMaxWand", "MaxScore", "BlockMaxMaxScore", "sharded"}
      /\ Comparing(case, step, Len(case.topics), queries)
  BY DEF BatchInv, EndPass, Pruned
<1>2. CASE Fail
  BY <1>2, FailKeeps
<1>3. CASE ~Fail
  <2>1. /\ position' = 0 /\ case' = case /\ queries' = queries
        /\ step' = IF step = "sharded" THEN "reported" ELSE Following[step]
    BY <1>3 DEF EndPass
  <2>2. 0 \in 0 .. Len(case.topics)
    BY <1>1, TopicsAre
  <2>3. \A e : Agrees(case, e, 0)
    BY DEF Agrees
  <2>4. Agrees(case, step, Len(case.topics))
    BY <1>1 DEF Comparing
  <2>5. /\ queries \in Seq(Keeps(case)) /\ Len(queries) <= Len(case.topics)
        /\ \A i \in 1 .. Len(queries) : queries[i] = Kept(case, case.topics[i])
        /\ Len(queries) = Len(case.topics)
    BY <1>1 DEF Comparing
  <2>6. Comparing(case, step', 0, queries)
    <3>1. CASE step = "Wand"
      <4>1. step' = "BlockMaxWand"
        BY <2>1, <3>1 DEF Following
      <4> QED BY <2>3, <2>4, <2>5, <3>1, <4>1 DEF Comparing
    <3>2. CASE step = "BlockMaxWand"
      <4>1. step' = "MaxScore"
        BY <2>1, <3>2 DEF Following
      <4> QED BY <1>1, <2>3, <2>4, <2>5, <3>2, <4>1 DEF Comparing
    <3>3. CASE step = "MaxScore"
      <4>1. step' = "BlockMaxMaxScore"
        BY <2>1, <3>3 DEF Following
      <4> QED BY <1>1, <2>3, <2>4, <2>5, <3>3, <4>1 DEF Comparing
    <3>4. CASE step = "BlockMaxMaxScore"
      <4>1. step' = "sharded"
        BY <2>1, <3>4 DEF Following
      <4> QED BY <1>1, <2>3, <2>4, <2>5, <3>4, <4>1 DEF Comparing
    <3>5. CASE step = "sharded"
      <4>1. step' = "reported"
        BY <2>1, <3>5
      <4> QED BY <1>1, <2>4, <2>5, <3>5, <4>1 DEF Comparing
    <3> QED BY <1>1, <3>1, <3>2, <3>3, <3>4, <3>5
  <2> QED BY <1>1, <2>1, <2>2, <2>6 DEF BatchInv
<1> QED BY <1>2, <1>3

LEMMA NextBatchInv == BatchInv /\ [BatchNext]_batchVars => BatchInv'
<1> SUFFICES ASSUME BatchInv, [BatchNext]_batchVars PROVE BatchInv'
  OBVIOUS
<1>1. CASE UNCHANGED batchVars
  BY <1>1 DEF batchVars, BatchInv, IsBatch
<1>2. CASE BatchNext /\ ~case.benchmark
  <2>1. step \in {"check", "search", "run", "report", "reported", "error"}
    BY <1>2 DEF BatchInv, Reporting
  <2>2. ~ExhaustivePass /\ ~ComparedPass /\ ~EndPass
    BY <2>1 DEF ExhaustivePass, ComparedPass, EndPass, Pruned
  <2> QED BY <1>2, <2>2, EvaluateKeeps, BatchStepsKeep DEF BatchNext
<1>3. CASE BatchNext /\ case.benchmark
  <2>1. step \notin {"check", "search", "run", "report"}
    BY <1>3 DEF BatchInv, Comparing
  <2>2. ~CheckBatch /\ ~EvaluateTopic /\ ~Aggregate /\ ~WriteRun /\ ~WriteReport
    BY <2>1 DEF CheckBatch, EvaluateTopic, Aggregate, WriteRun, WriteReport
  <2> QED BY <1>3, <2>2, ExhaustiveKeeps, ComparedKeeps, EndKeepsBatch DEF BatchNext
<1> QED BY <1>1, <1>2, <1>3


\* What is reported of one topic.
LEMMA ReportedIsTrue ==
  ASSUME NEW c \in Cases, NEW t \in ToSet(c.topics), t.text /= "", c.config.judged,
         Hits(c, t) /= Failed, NoHitTwice(Hits(c, t))
  PROVE  /\ Metrics(c.judged[t.id], Hits(c, t), c.config.top_k)
              = TrueMetrics(c.judged[t.id], Hits(c, t), c.config.top_k)
         /\ Shares(Metrics(c.judged[t.id], Hits(c, t), c.config.top_k))
<1>1. /\ c.config.top_k \in 0 .. Len(Discount) /\ c.config.strategy \in Executors
      /\ \A d \in Documents : c.judged[t.id][d] \in Int
  BY CasesAssumption
<1>2. Hits(c, t) \in Seq(ToSet(Hits(c, t))) /\ \A hit \in ToSet(Hits(c, t)) : hit.doc \in Documents
  BY <1>1, CasesAssumption DEF Hits
<1>3. PICK cutoff \in 0 .. Len(Discount) : cutoff = c.config.top_k
  BY <1>1
<1> DEFINE hits == Hits(c, t)
           T == ToSet(hits)
           judged == c.judged[t.id]
<1>4. /\ \A d \in Documents : judged[d] \in Int
      /\ hits \in Seq(T) /\ \A hit \in T : hit.doc \in Documents
      /\ IsInjective([r \in DOMAIN hits |-> hits[r].doc])
  BY <1>1, <1>2 DEF NoHitTwice
<1> HIDE DEF hits, T, judged
<1>5. /\ Metrics(judged, hits, cutoff) = TrueMetrics(judged, hits, cutoff)
      /\ Shares(Metrics(judged, hits, cutoff))
  BY ONLY cutoff \in 0 .. Len(Discount), <1>4, MetricsAreTrue
<1> QED BY <1>3, <1>5 DEF hits, judged

Measures == {"precision", "reciprocal", "ndcg", "recall"}

LEMMA MeansAreBetween ==
  ASSUME NEW n \in Nat \ {0}, NEW reports, DOMAIN reports = 1 .. n,
         \A i \in 1 .. n : Shares(reports[i].metrics[1]), NEW measure \in Measures
  PROVE  /\ \E i \in 1 .. n : reports[i].metrics[1][measure] <= MeansOf(reports)[measure]
         /\ \E i \in 1 .. n : MeansOf(reports)[measure] <= reports[i].metrics[1][measure]
<1> DEFINE values == [i \in 1 .. n |-> reports[i].metrics[1][measure]]
<1>1. Whole \in Nat
  BY RanksAssumption
<1>2. \A i \in 1 .. n : values[i] \in Nat /\ values[i] = reports[i].metrics[1][measure]
  BY <1>1 DEF Shares, Measures
<1>3. MeansOf(reports)[measure] = Mean(values)
  <2>1. values = [i \in DOMAIN reports |-> reports[i].metrics[1][measure]]
    OBVIOUS
  <2> HIDE DEF values
  <2>2. CASE measure = "precision"
    BY <2>1, <2>2 DEF MeansOf
  <2>3. CASE measure = "reciprocal"
    BY <2>1, <2>3 DEF MeansOf
  <2>4. CASE measure = "ndcg"
    BY <2>1, <2>4 DEF MeansOf
  <2>5. CASE measure = "recall"
    BY <2>1, <2>5 DEF MeansOf
  <2> QED BY <2>2, <2>3, <2>4, <2>5 DEF Measures
<1>4. values = [i \in 1 .. n |-> values[i]]
  OBVIOUS
<1> HIDE DEF values
<1>5. /\ \E i \in 1 .. n : values[i] <= Mean(values)
      /\ \E i \in 1 .. n : Mean(values) <= values[i]
  BY <1>2, <1>4, MeanIsBetween
<1> QED BY <1>2, <1>3, <1>5

LEMMA BatchIsTrue == BatchInv => ReportIsTrue
<1> SUFFICES ASSUME BatchInv, step = "reported" PROVE ReportIsTrue
  BY DEF ReportIsTrue
<1>1. case \in Cases
  BY DEF BatchInv
<1>2. /\ Len(case.topics) \in Nat /\ DOMAIN case.topics = 1 .. Len(case.topics)
      /\ \A i \in 1 .. Len(case.topics) : case.topics[i] \in ToSet(case.topics)
      /\ \A t \in ToSet(case.topics) : \E i \in 1 .. Len(case.topics) : t = case.topics[i]
  BY <1>1, TopicsAre
<1>3. DOMAIN case.answers = Executors /\ case.config.strategy \in Executors
  BY <1>1, CasesAssumption
<1>4. CASE case.benchmark
  <2>1. Comparing(case, "reported", position, queries)
    BY <1>4 DEF BatchInv
  <2>2. \A e \in Executors \ {"Exhaustive"} : Agrees(case, e, Len(case.topics))
    BY <2>1 DEF Comparing, Executors, Pruned
  <2>3. \A t \in ToSet(case.topics), e \in Executors : Answer(e, t) = Answer("Exhaustive", t)
    <3> TAKE t \in ToSet(case.topics), e \in Executors
    <3>1. PICK i \in 1 .. Len(case.topics) : t = case.topics[i]
      BY <1>2
    <3>2. CASE e /= "Exhaustive"
      BY <2>2, <3>1, <3>2 DEF Agrees, Answer
    <3> QED BY <3>2
  <2> QED BY <1>3, <1>4, <2>3 DEF ReportIsTrue
<1>5. CASE ~case.benchmark
  <2>1. Reporting(case, "reported", position, queries, aggregate) /\ IsBatch
    BY <1>5 DEF BatchInv
  <2>2. PICK n \in Nat \ {0} : n = Len(case.topics)
    <3>1. case.topics /= <<>>
      BY <2>1 DEF IsBatch
    <3>2. PICK topics : topics = case.topics
      OBVIOUS
    <3>3. topics \in Seq(ToSet(topics)) /\ topics /= <<>>
      BY <1>1, <3>1, <3>2, CasesAssumption
    <3>4. Len(topics) \in Nat \ {0}
      BY ONLY <3>3
    <3> QED BY <3>2, <3>4
  <2>3. /\ Len(queries) = n /\ DOMAIN queries = 1 .. n
        /\ \A i \in 1 .. n : /\ queries[i] = Reported(case, case.topics[i])
                             /\ Verified(case, case.topics[i]) /\ NoHitTwice(queries[i].hits)
        /\ case.config.judged => aggregate = MeansOf(queries)
    <3>1. queries \in Seq(Reports(case)) /\ Len(queries) = n
      BY <2>1, <2>2 DEF Reporting
    <3>2. DOMAIN queries = 1 .. n
      BY <3>1, SeqElements
    <3> QED BY <2>1, <2>2, <3>1, <3>2 DEF Reporting
  <2>4. ASSUME NEW i \in 1 .. n
        PROVE  LET topic == case.topics[i]
                   hits == queries[i].hits
               IN  /\ topic \in ToSet(case.topics) /\ topic.text /= ""
                   /\ queries[i].topic = topic /\ hits = Hits(case, topic) /\ hits /= Failed
                   /\ case.config.verify => Answer(Oracle(case.config.strategy), topic) = hits
                   /\ case.config.judged =>
                        queries[i].metrics[1] = Metrics(case.judged[topic.id], hits, case.config.top_k)
    <3>1. case.topics[i] \in ToSet(case.topics) /\ i \in DOMAIN case.topics
      BY <1>2, <2>2
    <3>2. case.topics[i].text /= ""
      BY <2>1, <3>1 DEF IsBatch
    <3>3. queries[i] = Reported(case, case.topics[i]) /\ Verified(case, case.topics[i])
      BY <2>3
    <3>4. queries[i].hits = Hits(case, case.topics[i]) /\ queries[i].topic = case.topics[i]
      BY <3>3 DEF Reported
    <3>5. case.config.judged =>
            queries[i].metrics = <<Metrics(case.judged[case.topics[i].id], Hits(case, case.topics[i]),
                                           case.config.top_k)>>
      BY <3>3 DEF Reported
    <3>6. case.config.judged =>
            queries[i].metrics[1] = Metrics(case.judged[case.topics[i].id], Hits(case, case.topics[i]),
                                            case.config.top_k)
      <4> DEFINE metrics == Metrics(case.judged[case.topics[i].id], Hits(case, case.topics[i]),
                                    case.config.top_k)
      <4> HIDE DEF metrics
      <4>1. <<metrics>>[1] = metrics
        OBVIOUS
      <4> QED BY <3>5, <4>1 DEF metrics
    <3>7. Hits(case, case.topics[i]) /= Failed
      BY <3>3 DEF Verified
    <3>8. case.config.verify =>
            Answer(Oracle(case.config.strategy), case.topics[i]) = Hits(case, case.topics[i])
      BY <3>3 DEF Verified, Answer
    <3> HIDE DEF Hits, Metrics
    <3> QED BY ONLY <3>1, <3>2, <3>4, <3>6, <3>7, <3>8
  <2>5. ASSUME NEW i \in 1 .. n, case.config.judged
        PROVE  LET metrics == queries[i].metrics[1]
               IN  /\ metrics = TrueMetrics(case.judged[case.topics[i].id], queries[i].hits, case.config.top_k)
                   /\ Shares(metrics)
    <3>1. PICK t \in ToSet(case.topics) : t = case.topics[i]
      BY <2>4
    <3>2. t.text /= "" /\ Hits(case, t) /= Failed /\ NoHitTwice(Hits(case, t)) /\ queries[i].hits = Hits(case, t)
      BY <2>3, <2>4, <3>1
    <3>3. queries[i].metrics[1] = Metrics(case.judged[t.id], Hits(case, t), case.config.top_k)
      BY <2>4, <2>5, <3>1, <3>2
    <3> QED BY <1>1, <2>5, <3>1, <3>2, <3>3, ReportedIsTrue
  <2>6. ASSUME NEW i \in 1 .. n, case.config.verify
        PROVE  /\ queries[i].hits = Answer("Exhaustive", case.topics[i])
               /\ \E e \in DOMAIN case.answers \ {"Exhaustive"} : queries[i].hits = Answer(e, case.topics[i])
    <3>1. Answer(Oracle(case.config.strategy), case.topics[i]) = queries[i].hits
      BY <2>4, <2>6
    <3>2. Answer(case.config.strategy, case.topics[i]) = queries[i].hits
      BY <2>4 DEF Hits, Answer
    <3>3. CASE case.config.strategy = "Exhaustive"
      <4>1. "Wand" \in DOMAIN case.answers \ {"Exhaustive"}
        BY <1>3 DEF Executors, Pruned
      <4> QED BY <3>1, <3>2, <3>3, <4>1 DEF Oracle
    <3>4. CASE case.config.strategy /= "Exhaustive"
      BY <1>3, <3>1, <3>2, <3>4 DEF Oracle
    <3> QED BY <3>3, <3>4
  <2>7. ASSUME case.config.judged, NEW measure \in DOMAIN aggregate
        PROVE  /\ \E i \in DOMAIN queries : queries[i].metrics[1][measure] <= aggregate[measure]
               /\ \E i \in DOMAIN queries : aggregate[measure] <= queries[i].metrics[1][measure]
    <3>1. aggregate = MeansOf(queries) /\ DOMAIN MeansOf(queries) = Measures
      BY <2>3, <2>7 DEF MeansOf, Measures
    <3>2. measure \in Measures /\ \A i \in 1 .. n : Shares(queries[i].metrics[1])
      BY <2>5, <2>7, <3>1
    <3>3. /\ \E i \in 1 .. n : queries[i].metrics[1][measure] <= MeansOf(queries)[measure]
          /\ \E i \in 1 .. n : MeansOf(queries)[measure] <= queries[i].metrics[1][measure]
      BY <2>3, <3>2, MeansAreBetween
    <3> QED BY <2>3, <3>1, <3>3
  <2>8. ASSUME NEW i \in 1 .. n, case.config.judged, NEW measure \in DOMAIN queries[i].metrics[1]
        PROVE  queries[i].metrics[1][measure] \in 0 .. Whole
    <3>1. Shares(queries[i].metrics[1])
      BY <2>5, <2>8
    <3>2. queries[i].metrics[1] = Metrics(case.judged[case.topics[i].id], queries[i].hits, case.config.top_k)
      BY <2>4, <2>8
    <3>3. measure \in Measures
      BY <2>8, <3>2 DEF Metrics, Measures
    <3> QED BY <3>1, <3>3 DEF Shares, Measures
  <2>9. \A i \in 1 .. n : IsInjective([r \in DOMAIN queries[i].hits |-> queries[i].hits[r].doc])
    BY <2>3 DEF NoHitTwice
  <2>10. \A i \in 1 .. n : queries[i].topic = case.topics[i]
    BY <2>4
  <2> QED BY <1>5, <2>2, <2>3, <2>5, <2>6, <2>7, <2>8, <2>9, <2>10 DEF ReportIsTrue
<1> QED BY <1>4, <1>5

\* Of any batches and benchmarks, whatever their executors answer: what is reported is
\* true (evaluation.rs evaluate_batch, metrics_for, aggregate_metrics, write_trec_run;
\* benchmark.rs run).
THEOREM ReportsAreTrue == BatchInit /\ [][BatchNext]_batchVars => []ReportIsTrue
BY InitBatchInv, NextBatchInv, BatchIsTrue, PTL

\* The same of the specification the runs check: what the command line reports is true.
THEOREM ReportsAreTrueInRuns == CommandLineSpec => []ReportIsTrue
<1>1. BatchParked => ReportIsTrue
  BY DEF BatchParked, ReportIsTrue
<1>2. CommandLineInit => BatchParked \/ BatchInv
  BY InitBatchInv DEF CommandLineInit
<1>3. (BatchParked \/ BatchInv) /\ [CommandLineNext]_commandLineVars => (BatchParked \/ BatchInv)'
  <2> SUFFICES ASSUME BatchParked \/ BatchInv, [CommandLineNext]_commandLineVars
               PROVE  (BatchParked \/ BatchInv)'
    OBVIOUS
  <2>1. [BatchNext]_batchVars
    BY DEF CommandLineNext, commandLineVars
  <2>2. CASE BatchInv
    BY <2>1, <2>2, NextBatchInv
  <2>3. CASE BatchParked /\ UNCHANGED batchVars
    BY <2>3 DEF BatchParked, batchVars
  <2>4. CASE BatchParked /\ BatchNext
    BY <2>4 DEF BatchParked, BatchNext, CheckBatch, EvaluateTopic, Aggregate, WriteRun, WriteReport,
                ExhaustivePass, ComparedPass, EndPass, Pruned
  <2> QED BY <2>1, <2>2, <2>3, <2>4
<1> QED BY <1>1, <1>2, <1>3, BatchIsTrue, PTL DEF CommandLineSpec
=============================================================================
