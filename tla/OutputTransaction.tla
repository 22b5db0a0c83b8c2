-------------------------- MODULE OutputTransaction --------------------------
(***************************************************************************)
(* atomic.rs: several output files replaced as one recoverable             *)
(* transaction (atomic_write_many and its streaming and single-file        *)
(* variants).  Every output is staged in a temporary file and synced; then *)
(* the existing destinations are backed up, the staged files renamed over  *)
(* them, the directories synced, and the backups removed.  A failure on    *)
(* the way rolls every output back.                                        *)
(*                                                                         *)
(* One action is one file-system call of the code, so the process may be   *)
(* killed, and another process may change a destination, between any two.  *)
(* Every call may fail.  A file is abstracted to what it holds: the        *)
(* content the destination had, the whole new content, or a part of one.   *)
(***************************************************************************)
EXTENDS Integers, FiniteSets

CONSTANTS
  N,       \* number of outputs, distinct paths (ensure_distinct_targets)
  MayRace  \* what another process may put in a destination's place

ASSUME OutputsAssumption == N \in Nat \ {0}
ASSUME RaceAssumption == MayRace \subseteq {"dir", "link"}

Outputs == 1 .. N

VARIABLES
  \* The file system, per output.
  original,   \* what the destination held at first: "absent" or "old"
  target,     \* what it holds now
  stage,      \* the temporary file: "none", "partial" or "new"
  saved,      \* the backup file: "none", or what it holds
  \* The StagedOutput of each output.
  temporary,  \* its `temporary` is Some
  backup,     \* its `backup` is Some
  installed,  \* its `installed`
  \* Control.
  phase,      \* the next call
  at,         \* the output it works on
  undo,       \* outputs rolled back after this one
  committing, \* the staged outputs are in an OutputTransaction
  outcome,    \* what the failed step raised: "error" or "panic"; "ok" before
  undoFailed, \* rollback's first_error is Some, of any output
  result,     \* what the caller sees; "running" until then
  \* History.
  littered,   \* an ignored removal failed
  raced       \* destinations another process has changed

files == <<original, target, stage, saved>>
handles == <<temporary, backup, installed>>
control == <<phase, at, undo, committing, outcome, undoFailed, result>>
history == <<littered, raced>>
vars == <<files, handles, control, history>>

Everywhere(value) == [o \in Outputs |-> value]

Init ==
  /\ original \in [Outputs -> {"absent", "old"}]
  /\ target = original
  /\ stage = Everywhere("none")
  /\ saved = Everywhere("none")
  /\ temporary = Everywhere(FALSE)
  /\ backup = Everywhere(FALSE)
  /\ installed = Everywhere(FALSE)
  /\ phase = "create"
  /\ at = 1
  /\ undo = {}
  /\ committing = FALSE
  /\ outcome = "ok"
  /\ undoFailed = FALSE
  /\ result = "running"
  /\ littered = FALSE
  /\ raced = {}

\* prevalidate_output_path: neither a symbolic link nor a directory.
Regular(o) == target[o] \notin {"dir", "link"}

\* The call that is due.
Due(p) == result = "running" /\ phase = p

\* Mutants of NextOutput: each output is installed right after its backup, in
\* one loop; and the loops leave out the last output.
NextOutputInOneLoop(same, following) ==
  \/ same = "backup" /\ phase' = "install" /\ at' = at
  \/ same = "install" /\ at < N /\ phase' = "backup" /\ at' = at + 1
  \/ same = "install" /\ at = N /\ phase' = following /\ at' = 1
  \/ same = "create" /\ at < N /\ phase' = same /\ at' = at + 1
  \/ same = "create" /\ at = N /\ phase' = following /\ at' = 1

NextOutputButLast(same, following) ==
  IF at < N - 1 THEN phase' = same /\ at' = at + 1
                ELSE phase' = following /\ at' = 1

\* On to the next output, or after the last one to the next phase.
NextOutput(same, following) ==
  IF at < N THEN phase' = same /\ at' = at + 1
            ELSE phase' = following /\ at' = 1

Return(value) == phase' = "returned" /\ result' = value

-----------------------------------------------------------------------------
\* StagedOutput::from_writer, for one output after the other.

\* create_unique opens the temporary file.
CreateStage ==
  /\ Due("create")
  /\ Regular(at)
  /\ stage' = [stage EXCEPT ![at] = "partial"]
  /\ temporary' = [temporary EXCEPT ![at] = TRUE]
  /\ phase' = "write"
  /\ UNCHANGED <<original, target, saved, backup, installed, at, undo, committing,
                 outcome, undoFailed, result, history>>

\* The serializer runs.
WriteStage ==
  /\ Due("write")
  /\ phase' = "sync"
  /\ UNCHANGED <<files, handles, at, undo, committing, outcome, undoFailed, result, history>>

\* Mutant of SyncStage: sync_all is left out.
SyncStageWithoutSync ==
  /\ Due("sync")
  /\ phase' = "recheck"
  /\ UNCHANGED <<files, handles, at, undo, committing, outcome, undoFailed, result, history>>

\* flush and sync_all: the whole content is on disk.
SyncStage ==
  /\ Due("sync")
  /\ stage' = [stage EXCEPT ![at] = "new"]
  /\ phase' = "recheck"
  /\ UNCHANGED <<original, target, saved, handles, at, undo, committing, outcome,
                 undoFailed, result, history>>

\* The destination is checked again; then the next output is staged, or the
\* commit begins.
Recheck ==
  /\ Due("recheck")
  /\ Regular(at)
  /\ NextOutput("create", "backup")
  /\ committing' = (at = N)
  /\ UNCHANGED <<files, handles, undo, outcome, undoFailed, result, history>>

\* The first file of an output cannot be created: the earlier ones are dropped,
\* in order.
CreateFails ==
  /\ Due("create")
  /\ outcome' = "error"
  /\ IF at = 1
     THEN Return("error") /\ UNCHANGED <<at, undo>>
     ELSE phase' = "undo_target" /\ at' = 1 /\ undo' = 2 .. (at - 1) /\ UNCHANGED result
  /\ UNCHANGED <<files, handles, committing, undoFailed, history>>

\* A later step of staging fails, or the serializer panics: this output is
\* dropped, then the earlier ones.
StagingFails(kind) ==
  /\ Due("write") \/ Due("sync") \/ Due("recheck")
  /\ kind = "panic" => phase = "write"
  /\ outcome' = kind
  /\ phase' = "undo_target"
  /\ undo' = 1 .. (at - 1)
  /\ UNCHANGED <<files, handles, at, committing, undoFailed, result, history>>

-----------------------------------------------------------------------------
\* OutputTransaction::commit_inner.

\* prepare_backup: nothing to save.
NoBackup ==
  /\ Due("backup")
  /\ target[at] = "absent"
  /\ NextOutput("backup", "install")
  /\ UNCHANGED <<files, handles, undo, committing, outcome, undoFailed, result, history>>

\* prepare_backup: a hard link keeps the old content.
LinkBackup ==
  /\ Due("backup")
  /\ Regular(at) /\ target[at] /= "absent"
  /\ saved' = [saved EXCEPT ![at] = target[at]]
  /\ backup' = [backup EXCEPT ![at] = TRUE]
  /\ NextOutput("backup", "install")
  /\ UNCHANGED <<original, target, stage, temporary, installed, undo, committing,
                 outcome, undoFailed, result, history>>

\* prepare_backup where hard links are not supported: source and copy are open.
BeginCopy ==
  /\ Due("backup")
  /\ Regular(at) /\ target[at] /= "absent"
  /\ saved' = [saved EXCEPT ![at] = "partial"]
  /\ phase' = "copy"
  /\ UNCHANGED <<original, target, stage, handles, at, undo, committing, outcome,
                 undoFailed, result, history>>

\* The copy is complete and synced; the open source kept the old content.
EndCopy ==
  /\ Due("copy")
  /\ saved' = [saved EXCEPT ![at] = original[at]]
  /\ backup' = [backup EXCEPT ![at] = TRUE]
  /\ NextOutput("backup", "install")
  /\ UNCHANGED <<original, target, stage, temporary, installed, undo, committing,
                 outcome, undoFailed, result, history>>

\* install: the rename replaces a file or a symbolic link, never a directory.
Install ==
  /\ Due("install")
  /\ target[at] /= "dir"
  /\ target' = [target EXCEPT ![at] = stage[at]]
  /\ stage' = [stage EXCEPT ![at] = "none"]
  /\ temporary' = [temporary EXCEPT ![at] = FALSE]
  /\ installed' = [installed EXCEPT ![at] = TRUE]
  /\ NextOutput("install", "sync_dirs")
  /\ UNCHANGED <<original, saved, backup, undo, committing, outcome, undoFailed,
                 result, history>>

\* sync_parent_directories; commit then sets `finished`.
SyncDirectories ==
  /\ Due("sync_dirs")
  /\ phase' = "finish"
  /\ UNCHANGED <<files, handles, at, undo, committing, outcome, undoFailed, result, history>>

\* Any call of commit_inner may fail, and the code after an install may panic:
\* every output is rolled back, the last one first.  A failed copy is removed.
CommitFails(kind) ==
  /\ Due("backup") \/ Due("copy") \/ Due("install") \/ Due("sync_dirs")
  /\ kind = "panic" => phase = "sync_dirs" \/ (phase = "install" /\ at > 1)
  /\ IF phase = "copy"
     THEN \E removed \in BOOLEAN :
            /\ saved' = IF removed THEN [saved EXCEPT ![at] = "none"] ELSE saved
            /\ littered' = (littered \/ ~removed)
     ELSE UNCHANGED <<saved, littered>>
  /\ outcome' = kind
  /\ phase' = "undo_target"
  /\ at' = N
  /\ undo' = 1 .. (N - 1)
  /\ UNCHANGED <<original, target, stage, handles, committing, undoFailed, result, raced>>

\* finish removes a backup and ignores a failure to.
Finish ==
  /\ Due("finish")
  /\ \E removed \in BOOLEAN :
       /\ removed \/ backup[at]
       /\ saved' = IF removed /\ backup[at] THEN [saved EXCEPT ![at] = "none"] ELSE saved
       /\ littered' = (littered \/ ~removed)
  /\ backup' = [backup EXCEPT ![at] = FALSE]
  /\ installed' = [installed EXCEPT ![at] = FALSE]
  /\ IF at < N
     THEN at' = at + 1 /\ UNCHANGED <<phase, result>>
     ELSE Return("ok") /\ UNCHANGED at
  /\ UNCHANGED <<original, target, stage, temporary, undo, committing, outcome,
                 undoFailed, raced>>

-----------------------------------------------------------------------------
\* StagedOutput::rollback of output `at`, from a failed commit, from the Drop of
\* the transaction when it unwinds, or from the Drop of an output that was only
\* staged.  The handles are taken whether or not the calls succeed.

\* remove_if_exists(target) of an installed output.
UndoTarget ==
  /\ Due("undo_target")
  /\ \/ /\ installed[at] /\ target[at] /= "dir"
        /\ target' = [target EXCEPT ![at] = "absent"]
        /\ UNCHANGED undoFailed
     \/ /\ installed[at]
        /\ undoFailed' = TRUE
        /\ UNCHANGED target
     \/ /\ ~installed[at]
        /\ UNCHANGED <<target, undoFailed>>
  /\ phase' = "undo_backup"
  /\ UNCHANGED <<original, stage, saved, handles, at, undo, committing, outcome, result, history>>

\* Mutant of UndoBackup: `installed` is not asked.
UndoBackupByRemoval ==
  /\ Due("undo_backup")
  /\ saved' = [saved EXCEPT ![at] = "none"]
  /\ backup' = [backup EXCEPT ![at] = FALSE]
  /\ installed' = [installed EXCEPT ![at] = FALSE]
  /\ phase' = "undo_stage"
  /\ UNCHANGED <<original, target, stage, temporary, at, undo, committing, outcome,
                 undoFailed, result, history>>

\* The backup is renamed over an installed target, or is removed.
UndoBackup ==
  /\ Due("undo_backup")
  /\ \/ /\ backup[at] /\ installed[at] /\ target[at] /= "dir"
        /\ target' = [target EXCEPT ![at] = saved[at]]
        /\ saved' = [saved EXCEPT ![at] = "none"]
        /\ UNCHANGED undoFailed
     \/ /\ backup[at] /\ ~installed[at]
        /\ saved' = [saved EXCEPT ![at] = "none"]
        /\ UNCHANGED <<target, undoFailed>>
     \/ /\ backup[at]
        /\ undoFailed' = TRUE
        /\ UNCHANGED <<target, saved>>
     \/ /\ ~backup[at]
        /\ UNCHANGED <<target, saved, undoFailed>>
  /\ backup' = [backup EXCEPT ![at] = FALSE]
  /\ installed' = [installed EXCEPT ![at] = FALSE]
  /\ phase' = "undo_stage"
  /\ UNCHANGED <<original, stage, temporary, at, undo, committing, outcome, result, history>>

\* The next output to roll back: the last one first in a transaction, the first
\* one first where a Vec of staged outputs is dropped.
NextUndo ==
  /\ at' \in undo
  /\ \A o \in undo : IF committing THEN o <= at' ELSE at' <= o
  /\ undo' = undo \ {at'}

\* What commit, or a failed staging, returns.  Only commit tells that its
\* rollback failed; Drop ignores it.
Outcome(failed) ==
  IF committing /\ outcome = "error" /\ failed THEN "rollback_failed" ELSE outcome

\* Mutant of UndoStage: the temporary file of an output is kept.
UndoStageKept ==
  /\ Due("undo_stage")
  /\ temporary' = [temporary EXCEPT ![at] = FALSE]
  /\ IF undo = {}
     THEN Return(Outcome(undoFailed)) /\ UNCHANGED <<at, undo>>
     ELSE phase' = "undo_target" /\ NextUndo /\ UNCHANGED result
  /\ UNCHANGED <<files, backup, installed, committing, outcome, undoFailed, history>>

\* Mutant of UndoStage: the rollback stops at the first output that fails.
UndoStageStopping ==
  /\ Due("undo_stage")
  /\ stage' = [stage EXCEPT ![at] = "none"]
  /\ temporary' = [temporary EXCEPT ![at] = FALSE]
  /\ IF undo = {} \/ undoFailed
     THEN Return(Outcome(undoFailed)) /\ UNCHANGED <<at, undo>>
     ELSE phase' = "undo_target" /\ NextUndo /\ UNCHANGED result
  /\ UNCHANGED <<original, target, saved, backup, installed, committing, outcome,
                 undoFailed, history>>

\* The temporary file is removed, and the next output rolled back.
UndoStage ==
  /\ Due("undo_stage")
  /\ \/ /\ temporary[at]
        /\ stage' = [stage EXCEPT ![at] = "none"]
        /\ UNCHANGED undoFailed
     \/ /\ temporary[at]
        /\ undoFailed' = TRUE
        /\ UNCHANGED stage
     \/ /\ ~temporary[at]
        /\ UNCHANGED <<stage, undoFailed>>
  /\ temporary' = [temporary EXCEPT ![at] = FALSE]
  /\ IF undo = {}
     THEN Return(Outcome(undoFailed')) /\ UNCHANGED <<at, undo>>
     ELSE phase' = "undo_target" /\ NextUndo /\ UNCHANGED result
  /\ UNCHANGED <<original, target, saved, backup, installed, committing, outcome, history>>

-----------------------------------------------------------------------------
\* The environment.

\* Another process puts a directory or a symbolic link in a destination's place;
\* once per behaviour.
Race(o, kind) ==
  /\ result = "running"
  /\ raced = {}
  /\ target' = [target EXCEPT ![o] = kind]
  /\ raced' = {o}
  /\ UNCHANGED <<original, stage, saved, handles, control, littered>>

\* The process is killed; nothing runs afterwards, no startup scan exists.
Crash ==
  /\ result = "running"
  /\ Return("crashed")
  /\ UNCHANGED <<files, handles, at, undo, committing, outcome, undoFailed, history>>

Staging == CreateStage \/ WriteStage \/ SyncStage \/ Recheck

Commit ==
  NoBackup \/ LinkBackup \/ BeginCopy \/ EndCopy \/ Install \/ SyncDirectories \/ Finish

Failure ==
  \/ CreateFails
  \/ \E kind \in {"error", "panic"} : StagingFails(kind) \/ CommitFails(kind)

Undo == UndoTarget \/ UndoBackup \/ UndoStage

\* The steps of the process itself; none waits for anything.
Run == Staging \/ Commit \/ Failure \/ Undo

Next ==
  \/ Run
  \/ \E o \in Outputs, kind \in MayRace : Race(o, kind)
  \/ Crash

Spec == Init /\ [][Next]_vars /\ WF_vars(Run)

-----------------------------------------------------------------------------
\* Each variable has its type.  A destination never holds a part of a content: a
\* staged file is whole and synced before the rename that makes it visible.
TypeOK ==
  /\ original \in [Outputs -> {"absent", "old"}]
  /\ target \in [Outputs -> {"absent", "old", "new"} \union MayRace]
  /\ stage \in [Outputs -> {"none", "partial", "new"}]
  /\ saved \in [Outputs -> {"none", "partial", "old"}]
  /\ temporary \in [Outputs -> BOOLEAN]
  /\ backup \in [Outputs -> BOOLEAN]
  /\ installed \in [Outputs -> BOOLEAN]
  /\ phase \in {"create", "write", "sync", "recheck", "backup", "copy", "install",
                "sync_dirs", "finish", "undo_target", "undo_backup", "undo_stage",
                "returned"}
  /\ at \in Outputs
  /\ undo \subseteq Outputs
  /\ committing \in BOOLEAN
  /\ outcome \in {"ok", "error", "panic"}
  /\ undoFailed \in BOOLEAN
  /\ result \in {"running", "ok", "error", "panic", "rollback_failed", "crashed"}
  /\ littered \in BOOLEAN
  /\ raced \subseteq Outputs

\* A failed write leaves every destination as it was, unless the error says that
\* the rollback failed too.  Destinations another process changed are excepted.
RestoredOnFailure ==
  result = "error" \/ (result = "panic" /\ ~undoFailed)
    => \A o \in Outputs \ raced : target[o] = original[o]

\* A write that succeeds has replaced every destination.
CommittedTogether ==
  result = "ok" => \A o \in Outputs \ raced : target[o] = "new"

\* Wherever the process is killed, and whichever calls of a rollback fail, the old
\* content of each destination is still in the destination or in its backup, until
\* all of the destinations hold their new content.
OldNeverLost ==
  \/ \A o \in Outputs \ raced : target[o] = "new"
  \/ \A o \in Outputs \ raced : original[o] = "old" => "old" \in {target[o], saved[o]}

\* Once the call has returned no temporary or backup file is left, unless a removal
\* failed.
NoLitter ==
  phase = "returned" /\ result /= "crashed" /\ ~undoFailed /\ ~littered
    => \A o \in Outputs : stage[o] = "none" /\ saved[o] = "none"

\* The first destination is replaced only when all outputs are staged and each
\* existing destination has its whole backup.
BackupsBeforeInstall ==
  [][ installed = Everywhere(FALSE) /\ installed' /= installed =>
        \A o \in Outputs :
          /\ stage[o] = "new"
          /\ o \notin raced /\ original[o] = "old" => backup[o] /\ saved[o] = "old" ]_vars

\* What the re-check after serialization is for: a destination that another process
\* changes to a directory or a symbolic link is never replaced.
ConcurrentChangeKept ==
  [][ \A o \in Outputs : target[o] \in {"dir", "link"} => target'[o] = target[o] ]_vars

\* A failure is always followed through: in the end no output owns a file or counts
\* as installed, whatever fails on the way, unless the process is killed.
FailureSettles ==
  outcome /= "ok" ~>
    \/ result = "crashed"
    \/ /\ result \in {"error", "panic", "rollback_failed"}
       /\ \A o \in Outputs : ~temporary[o] /\ ~backup[o] /\ ~installed[o]
=============================================================================
