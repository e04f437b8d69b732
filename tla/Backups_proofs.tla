---------------------------- MODULE Backups_proofs ----------------------------
(***************************************************************************)
(* Proofs about Backups for any number of applications, backups and        *)
(* attempts.  What a step of the worker may rely on is FileInv (row,       *)
(* deletion and file of one backup), RestoreGuarded, and HoldInv: what the *)
(* worker knows of the job in its hands, which no handler may change       *)
(* between two of its steps.  The capacity needs one more thing: what the  *)
(* second look found to fit still fits when the backup is recorded,        *)
(* because no import and no other backup gets in between (CapacityInv).    *)
(***************************************************************************)
EXTENDS Backups, SumTheorems

\* One backup: only a completed one is deleted, a deleted one has no file, and a
\* successful one that nobody deletes has its file.
FileInv(b) ==
    /\ backup[b].status \in {"none", "queued", "running"} => deletion[b].status = "none"
    /\ deletion[b].status = "succeeded" => archive[b] = "none"
    /\ backup[b].status = "succeeded" /\ deletion[b].status = "none" =>
           archive[b] = "whole" \/ b \in doubtful

\* What the worker knows at each of its places.
HoldInv ==
    LET b == worker.backup
        a == AppOf[b]
    IN  /\ worker.at # "idle" => b \in Backups
        /\ worker.at \in {"claimed", "archived", "fits"} => backup[b].status = "running"
        /\ worker.at \in {"archived", "fits"} => archive[b] = "whole" /\ worker.size \in Sizes
        /\ worker.at \in {"undo", "failing"} => backup[b].status = "running" \/ b \in doubtful
        /\ worker.at \in {"deleting", "removed"} => deletion[b].status = "running"
        /\ worker.at = "removed" /\ worker.ok => archive[b] = "none"
        /\ worker.at \in {"restoring", "restored"} =>
               restore[a].status = "running" /\ restore[a].backup = b
        /\ worker.at = "restored" /\ worker.ok => volume[a] = b

IInv ==
    /\ TypeOK
    /\ \A b \in Backups : FileInv(b)
    /\ RestoreGuarded
    /\ HoldInv

LEMMA InitIInv == Init => IInv
<1> SUFFICES ASSUME Init PROVE IInv
  OBVIOUS
<1>1. TypeOK
  BY AttemptsAssumption DEF Init, TypeOK, Statuses, JobStatuses, Idle, Workers, Places
<1>2. (\A b \in Backups : FileInv(b)) /\ RestoreGuarded /\ HoldInv
  BY DEF Init, FileInv, RestoreGuarded, Restoring, Unfinished, HoldInv, Idle
<1> QED
  BY <1>1, <1>2 DEF IInv

\* A place of the worker with a backup in hand is well typed.
LEMMA AtType ==
    ASSUME NEW place \in Places, NEW b \in Backups
    PROVE  At(place, b) \in Workers
  BY DEF At, Idle, Workers

LEMMA IdleType == Idle \in Workers
  BY DEF Idle, Workers, Places

\* Also when it holds the size of an archive, or the outcome of its Docker calls.
LEMMA HeldType ==
    ASSUME NEW place \in Places, NEW b \in Backups, NEW size \in Sizes,
           NEW ok \in BOOLEAN, NEW healthy \in BOOLEAN
    PROVE  /\ [At(place, b) EXCEPT !.size = size] \in Workers
           /\ [At(place, b) EXCEPT !.ok = ok] \in Workers
           /\ [At(place, b) EXCEPT !.ok = ok, !.healthy = healthy] \in Workers
  BY DEF At, Idle, Workers

LEMMA CreateAppBackupStep ==
    ASSUME IInv, NEW b \in Backups, CreateAppBackup(b)
    PROVE  IInv'
<1>1. TypeOK'
  BY AttemptsAssumption DEF IInv, TypeOK, CreateAppBackup, Statuses, JobStatuses
<1>2. \A c \in Backups : FileInv(c)'
  BY DEF IInv, TypeOK, FileInv, HoldInv, CreateAppBackup, Unfinished
<1>3. RestoreGuarded'
  BY BackupsAssumption DEF IInv, TypeOK, FileInv, HoldInv, RestoreGuarded, Restoring,
     Unfinished, CreateAppBackup
<1>4. HoldInv'
  BY BackupsAssumption DEF IInv, TypeOK, FileInv, HoldInv, RestoreGuarded, Restoring,
     Unfinished, Workers, CreateAppBackup
<1> QED
  BY <1>1, <1>2, <1>3, <1>4 DEF IInv

LEMMA ImportAppBackupStep ==
    ASSUME IInv, NEW b \in Backups, NEW size \in Sizes, NEW live \in Live, ImportAppBackup(b,
    size, live)
    PROVE  IInv'
<1>1. TypeOK'
  BY AttemptsAssumption DEF IInv, TypeOK, ImportAppBackup, Succeeded, Statuses, JobStatuses
<1>2. \A c \in Backups : FileInv(c)'
  BY DEF IInv, TypeOK, FileInv, HoldInv, ImportAppBackup, Succeeded, Unfinished
<1>3. RestoreGuarded'
  BY BackupsAssumption DEF IInv, TypeOK, FileInv, HoldInv, RestoreGuarded, Restoring,
     Unfinished, ImportAppBackup, Succeeded
<1>4. HoldInv'
  BY BackupsAssumption DEF IInv, TypeOK, FileInv, HoldInv, RestoreGuarded, Restoring,
     Unfinished, Workers, ImportAppBackup, Succeeded
<1> QED
  BY <1>1, <1>2, <1>3, <1>4 DEF IInv

LEMMA DeleteAppBackupStep ==
    ASSUME IInv, NEW b \in Backups, DeleteAppBackup(b)
    PROVE  IInv'
<1>1. TypeOK'
  BY AttemptsAssumption DEF IInv, TypeOK, DeleteAppBackup, Queued, Statuses, JobStatuses
<1>2. \A c \in Backups : FileInv(c)'
  BY DEF IInv, TypeOK, FileInv, HoldInv, DeleteAppBackup, Queued, Unfinished
<1>3. RestoreGuarded'
  BY BackupsAssumption DEF IInv, TypeOK, FileInv, HoldInv, RestoreGuarded, Restoring,
     Unfinished, DeleteAppBackup, Queued
<1>4. HoldInv'
  BY BackupsAssumption DEF IInv, TypeOK, FileInv, HoldInv, RestoreGuarded, Restoring,
     Unfinished, Workers, DeleteAppBackup, Queued
<1> QED
  BY <1>1, <1>2, <1>3, <1>4 DEF IInv

LEMMA RestoreAppBackupStep ==
    ASSUME IInv, NEW b \in Backups, RestoreAppBackup(b)
    PROVE  IInv'
<1>1. TypeOK'
  BY AttemptsAssumption DEF IInv, TypeOK, RestoreAppBackup, Statuses, JobStatuses
<1>2. \A c \in Backups : FileInv(c)'
  BY DEF IInv, TypeOK, FileInv, HoldInv, RestoreAppBackup, Unfinished
<1>3. RestoreGuarded'
  BY BackupsAssumption DEF IInv, TypeOK, FileInv, HoldInv, RestoreGuarded, Restoring,
     Unfinished, RestoreAppBackup
<1>4. HoldInv'
  BY BackupsAssumption DEF IInv, TypeOK, FileInv, HoldInv, RestoreGuarded, Restoring,
     Unfinished, Workers, RestoreAppBackup
<1> QED
  BY <1>1, <1>2, <1>3, <1>4 DEF IInv

LEMMA ClaimBackupStep ==
    ASSUME IInv, NEW b \in Backups, ClaimBackup(b)
    PROVE  IInv'
<1>1. TypeOK'
  <2>1. worker' \in Workers
    BY AtType, IdleType, HeldType DEF IInv, TypeOK, HoldInv, ClaimBackup, Places
  <2> QED
    BY <2>1, AttemptsAssumption DEF IInv, TypeOK, ClaimBackup, HoldInv, Statuses, JobStatuses
<1>2. \A c \in Backups : FileInv(c)'
  BY DEF IInv, TypeOK, FileInv, HoldInv, ClaimBackup, At, Idle, Unfinished
<1>3. RestoreGuarded'
  BY BackupsAssumption DEF IInv, TypeOK, FileInv, HoldInv, RestoreGuarded, Restoring,
     Unfinished, ClaimBackup, At, Idle
<1>4. HoldInv'
  BY BackupsAssumption DEF IInv, TypeOK, FileInv, HoldInv, RestoreGuarded, Restoring,
     Unfinished, Workers, ClaimBackup, At, Idle
<1> QED
  BY <1>1, <1>2, <1>3, <1>4 DEF IInv

LEMMA RefuseBackupStep ==
    ASSUME IInv, NEW b \in Backups, RefuseBackup(b)
    PROVE  IInv'
<1>1. TypeOK'
  <2>1. worker' \in Workers
    BY AtType, IdleType, HeldType DEF IInv, TypeOK, HoldInv, RefuseBackup, Places
  <2> QED
    BY <2>1, AttemptsAssumption DEF IInv, TypeOK, RefuseBackup, HoldInv, Statuses, JobStatuses
<1>2. \A c \in Backups : FileInv(c)'
  BY DEF IInv, TypeOK, FileInv, HoldInv, RefuseBackup, At, Idle, Unfinished
<1>3. RestoreGuarded'
  BY BackupsAssumption DEF IInv, TypeOK, FileInv, HoldInv, RestoreGuarded, Restoring,
     Unfinished, RefuseBackup, At, Idle
<1>4. HoldInv'
  BY BackupsAssumption DEF IInv, TypeOK, FileInv, HoldInv, RestoreGuarded, Restoring,
     Unfinished, Workers, RefuseBackup, At, Idle
<1> QED
  BY <1>1, <1>2, <1>3, <1>4 DEF IInv

LEMMA ArchiveVolumeStep ==
    ASSUME IInv, NEW b \in Backups, NEW size \in Sizes, NEW live \in Live, ArchiveVolume(b,
    size, live)
    PROVE  IInv'
<1>1. TypeOK'
  <2>1. worker' \in Workers
    BY AtType, IdleType, HeldType DEF IInv, TypeOK, HoldInv, ArchiveVolume, Places
  <2> QED
    BY <2>1, AttemptsAssumption DEF IInv, TypeOK, ArchiveVolume, HoldInv, Statuses, JobStatuses
<1>2. \A c \in Backups : FileInv(c)'
  BY DEF IInv, TypeOK, FileInv, HoldInv, ArchiveVolume, At, Idle, Unfinished
<1>3. RestoreGuarded'
  BY BackupsAssumption DEF IInv, TypeOK, FileInv, HoldInv, RestoreGuarded, Restoring,
     Unfinished, ArchiveVolume, At, Idle
<1>4. HoldInv'
  BY BackupsAssumption DEF IInv, TypeOK, FileInv, HoldInv, RestoreGuarded, Restoring,
     Unfinished, Workers, ArchiveVolume, At, Idle
<1> QED
  BY <1>1, <1>2, <1>3, <1>4 DEF IInv

LEMMA ArchiveFailsStep ==
    ASSUME IInv, NEW b \in Backups, NEW size \in Sizes, NEW live \in Live, ArchiveFails(b, size,
    live)
    PROVE  IInv'
<1>1. TypeOK'
  <2>1. worker' \in Workers
    BY AtType, IdleType, HeldType DEF IInv, TypeOK, HoldInv, ArchiveFails, Places
  <2> QED
    BY <2>1, AttemptsAssumption DEF IInv, TypeOK, ArchiveFails, HoldInv, Statuses, JobStatuses
<1>2. \A c \in Backups : FileInv(c)'
  BY DEF IInv, TypeOK, FileInv, HoldInv, ArchiveFails, At, Idle, Unfinished
<1>3. RestoreGuarded'
  BY BackupsAssumption DEF IInv, TypeOK, FileInv, HoldInv, RestoreGuarded, Restoring,
     Unfinished, ArchiveFails, At, Idle
<1>4. HoldInv'
  BY BackupsAssumption DEF IInv, TypeOK, FileInv, HoldInv, RestoreGuarded, Restoring,
     Unfinished, Workers, ArchiveFails, At, Idle
<1> QED
  BY <1>1, <1>2, <1>3, <1>4 DEF IInv

LEMMA CheckBackupStep ==
    ASSUME IInv, NEW b \in Backups, NEW live \in Live, CheckBackup(b, live)
    PROVE  IInv'
<1>1. TypeOK'
  <2>1. worker' \in Workers
    BY AtType DEF IInv, TypeOK, CheckBackup, Places, Workers
  <2> QED
    BY <2>1, AttemptsAssumption DEF IInv, TypeOK, CheckBackup, HoldInv, Statuses, JobStatuses
<1>2. \A c \in Backups : FileInv(c)'
  BY DEF IInv, TypeOK, FileInv, HoldInv, CheckBackup, At, Idle, Unfinished
<1>3. RestoreGuarded'
  BY BackupsAssumption DEF IInv, TypeOK, FileInv, HoldInv, RestoreGuarded, Restoring,
     Unfinished, CheckBackup, At, Idle
<1>4. HoldInv'
  <2>1. CASE worker' = [worker EXCEPT !.at = "fits"]
    BY <2>1 DEF IInv, TypeOK, HoldInv, Workers, CheckBackup
  <2>2. CASE worker' = At("undo", b)
    BY <2>2 DEF IInv, HoldInv, CheckBackup, At, Idle
  <2> QED
    BY <2>1, <2>2 DEF CheckBackup
<1> QED
  BY <1>1, <1>2, <1>3, <1>4 DEF IInv

LEMMA FinishBackupStep ==
    ASSUME IInv, NEW b \in Backups, FinishBackup(b)
    PROVE  IInv'
<1>0. /\ backup[b].status = "running" /\ archive[b] = "whole" /\ worker.size \in Sizes
      /\ deletion[b].status = "none"
  BY DEF IInv, HoldInv, FinishBackup, FileInv
<1>a. worker' \in Workers /\ worker' \in {Idle, At("undo", b)}
  BY AtType, IdleType DEF FinishBackup, Places
<1>b. backup' \in {backup,
[backup EXCEPT ![b] = Succeeded(worker.size)]} /\ doubtful' \in {doubtful, doubtful \cup {b}}
  BY DEF FinishBackup
<1>1. TypeOK'
  <2>1. /\ backup' \in [Backups -> [status: JobStatuses, size: Sizes \cup {0}]]
        /\ \A c \in Backups : backup'[c].status = "succeeded" => backup'[c].size \in Sizes
    <3>1. CASE backup' = backup
      BY <3>1 DEF IInv, TypeOK
    <3>2. CASE backup' = [backup EXCEPT ![b] = Succeeded(worker.size)]
      BY <1>0, <3>2 DEF IInv, TypeOK, Succeeded, JobStatuses
    <3> QED
      BY <1>b, <3>1, <3>2
  <2> QED
    BY <1>a, <1>b, <2>1 DEF IInv, TypeOK, FinishBackup
<1>2. \A c \in Backups : FileInv(c)'
  BY <1>0 DEF IInv, TypeOK, FileInv, FinishBackup, Succeeded
<1>3. RestoreGuarded'
  <2>1. \A c \in Backups : backup[c].status = "succeeded" => backup'[c].status = "succeeded"
    BY <1>b DEF IInv, TypeOK, Succeeded
  <2> QED
    BY <2>1 DEF IInv, RestoreGuarded, Restoring, FinishBackup
<1>4. HoldInv'
  <2>1. CASE worker' = Idle
    BY <2>1 DEF HoldInv, Idle
  <2>2. CASE worker' = At("undo", b) /\ UNCHANGED <<backup, doubtful>>
    BY <1>0, <2>2 DEF HoldInv, At, Idle
  <2>3. CASE worker' = At("undo", b) /\ doubtful' = doubtful \cup {b}
    BY <2>3 DEF HoldInv, At, Idle
  <2> QED
    BY <2>1, <2>2, <2>3 DEF FinishBackup
<1> QED
  BY <1>1, <1>2, <1>3, <1>4 DEF IInv

LEMMA UndoBackupStep ==
    ASSUME IInv, NEW b \in Backups, UndoBackup(b)
    PROVE  IInv'
<1>1. TypeOK'
  <2>1. worker' \in Workers
    BY AtType, IdleType, HeldType DEF IInv, TypeOK, HoldInv, UndoBackup, Places
  <2> QED
    BY <2>1, AttemptsAssumption DEF IInv, TypeOK, UndoBackup, HoldInv, Statuses, JobStatuses
<1>2. \A c \in Backups : FileInv(c)'
  BY DEF IInv, TypeOK, FileInv, HoldInv, UndoBackup, At, Idle, Unfinished
<1>3. RestoreGuarded'
  BY BackupsAssumption DEF IInv, TypeOK, FileInv, HoldInv, RestoreGuarded, Restoring,
     Unfinished, UndoBackup, At, Idle
<1>4. HoldInv'
  BY BackupsAssumption DEF IInv, TypeOK, FileInv, HoldInv, RestoreGuarded, Restoring,
     Unfinished, Workers, UndoBackup, At, Idle
<1> QED
  BY <1>1, <1>2, <1>3, <1>4 DEF IInv

LEMMA MarkBackupFailedStep ==
    ASSUME IInv, NEW b \in Backups, MarkBackupFailed(b)
    PROVE  IInv'
<1>1. CASE UNCHANGED backup
  <2>1. TypeOK'
    BY <1>1, IdleType DEF IInv, TypeOK, MarkBackupFailed
  <2>2. (\A c \in Backups : FileInv(c)') /\ RestoreGuarded'
    BY <1>1 DEF IInv, FileInv, RestoreGuarded, Restoring, MarkBackupFailed
  <2>3. HoldInv'
    BY DEF MarkBackupFailed, HoldInv, Idle
  <2> QED
    BY <2>1, <2>2, <2>3 DEF IInv
<1>2. CASE backup[b].status = "running" /\ backup' = [backup EXCEPT ![b].status = "failed"]
  <2>1. TypeOK'
    BY <1>2, IdleType DEF IInv, TypeOK, MarkBackupFailed, JobStatuses
  <2>2. \A c \in Backups : FileInv(c)'
    BY <1>2 DEF IInv, TypeOK, FileInv, MarkBackupFailed
  <2>3. RestoreGuarded'
    BY <1>2 DEF IInv, TypeOK, RestoreGuarded, Restoring, Unfinished, MarkBackupFailed
  <2>4. HoldInv'
    BY DEF MarkBackupFailed, HoldInv, Idle
  <2> QED
    BY <2>1, <2>2, <2>3, <2>4 DEF IInv
<1> QED
  BY <1>1, <1>2 DEF MarkBackupFailed

LEMMA ClaimBackupDeletionStep ==
    ASSUME IInv, NEW b \in Backups, ClaimBackupDeletion(b)
    PROVE  IInv'
<1>1. TypeOK'
  <2>1. worker' \in Workers
    BY AtType, IdleType, HeldType DEF IInv, TypeOK, HoldInv, ClaimBackupDeletion, Claimed, Places
  <2> QED
    BY <2>1, AttemptsAssumption DEF IInv, TypeOK, ClaimBackupDeletion, Claimed, HoldInv, Statuses,
       JobStatuses
<1>2. \A c \in Backups : FileInv(c)'
  BY DEF IInv, TypeOK, FileInv, HoldInv, ClaimBackupDeletion, Claimed, At, Idle, Unfinished
<1>3. RestoreGuarded'
  BY BackupsAssumption DEF IInv, TypeOK, FileInv, HoldInv, RestoreGuarded, Restoring,
     Unfinished, ClaimBackupDeletion, Claimed, At, Idle
<1>4. HoldInv'
  BY BackupsAssumption DEF IInv, TypeOK, FileInv, HoldInv, RestoreGuarded, Restoring,
     Unfinished, Workers, ClaimBackupDeletion, Claimed, At, Idle
<1> QED
  BY <1>1, <1>2, <1>3, <1>4 DEF IInv

LEMMA DeleteArchiveStep ==
    ASSUME IInv, NEW b \in Backups, DeleteArchive(b)
    PROVE  IInv'
<1>0. deletion[b].status = "running"
  BY DEF IInv, HoldInv, DeleteArchive
<1>a. archive' \in {archive, [archive EXCEPT ![b] = "none"]}
  BY DEF DeleteArchive
<1>b. worker' \in {At("removed", b), [At("removed", b) EXCEPT !.ok = FALSE]}
  BY DEF DeleteArchive
<1>1. TypeOK'
  <2>1. worker' \in Workers
    BY <1>b DEF At, Idle, Workers, Places
  <2> QED
    BY <1>a, <2>1 DEF IInv, TypeOK, DeleteArchive
<1>2. \A c \in Backups : FileInv(c)'
  BY <1>0, <1>a DEF IInv, TypeOK, FileInv, DeleteArchive
<1>3. RestoreGuarded'
  BY DEF IInv, RestoreGuarded, Restoring, DeleteArchive
<1>4. HoldInv'
  <2>1. CASE worker' = At("removed", b) /\ archive' = [archive EXCEPT ![b] = "none"]
    BY <1>0, <2>1 DEF IInv, TypeOK, HoldInv, At, Idle, DeleteArchive
  <2>2. CASE worker' = [At("removed", b) EXCEPT !.ok = FALSE]
    BY <1>0, <2>2 DEF HoldInv, At, Idle, DeleteArchive
  <2> QED
    BY <2>1, <2>2 DEF DeleteArchive
<1> QED
  BY <1>1, <1>2, <1>3, <1>4 DEF IInv

LEMMA FinishBackupDeletionStep ==
    ASSUME IInv, NEW b \in Backups, FinishBackupDeletion(b)
    PROVE  IInv'
<1>1. TypeOK'
  <2>1. worker' \in Workers
    BY AtType, IdleType, HeldType DEF IInv, TypeOK, HoldInv, FinishBackupDeletion, Places
  <2> QED
    BY <2>1, AttemptsAssumption DEF IInv, TypeOK, FinishBackupDeletion, DeletionResult, HoldInv,
       Statuses, JobStatuses
<1>2. \A c \in Backups : FileInv(c)'
  BY DEF IInv, TypeOK, FileInv, HoldInv, FinishBackupDeletion, Idle, DeletionResult, Unfinished
<1>3. RestoreGuarded'
  BY BackupsAssumption DEF IInv, TypeOK, FileInv, HoldInv, RestoreGuarded, Restoring,
     Unfinished, FinishBackupDeletion, Idle, DeletionResult
<1>4. HoldInv'
  BY BackupsAssumption DEF IInv, TypeOK, FileInv, HoldInv, RestoreGuarded, Restoring,
     Unfinished, Workers, FinishBackupDeletion, Idle, DeletionResult
<1> QED
  BY <1>1, <1>2, <1>3, <1>4 DEF IInv

LEMMA RestoreVolumeStep ==
    ASSUME IInv, NEW b \in Backups, RestoreVolume(b)
    PROVE  IInv'
<1>1. TypeOK'
  <2>1. worker' \in Workers
    BY DEF RestoreVolume, At, Idle, Workers, Places
  <2> QED
    BY <2>1, AttemptsAssumption DEF IInv, TypeOK, RestoreVolume, HoldInv, Statuses, JobStatuses
<1>2. \A c \in Backups : FileInv(c)'
  BY DEF IInv, TypeOK, FileInv, HoldInv, RestoreVolume, At, Idle, Unfinished
<1>3. RestoreGuarded'
  BY BackupsAssumption DEF IInv, TypeOK, FileInv, HoldInv, RestoreGuarded, Restoring,
     Unfinished, RestoreVolume, At, Idle
<1>4. HoldInv'
  BY BackupsAssumption DEF IInv, TypeOK, FileInv, HoldInv, RestoreGuarded, Restoring,
     Unfinished, Workers, RestoreVolume, At, Idle
<1> QED
  BY <1>1, <1>2, <1>3, <1>4 DEF IInv

LEMMA RestoreFailsStep ==
    ASSUME IInv, NEW b \in Backups, RestoreFails(b)
    PROVE  IInv'
<1>1. TypeOK'
  <2>1. worker' \in Workers
    BY DEF RestoreFails, At, Idle, Workers, Places
  <2> QED
    BY <2>1, AttemptsAssumption DEF IInv, TypeOK, RestoreFails, HoldInv, Statuses, JobStatuses
<1>2. \A c \in Backups : FileInv(c)'
  BY DEF IInv, TypeOK, FileInv, HoldInv, RestoreFails, At, Idle, Unfinished
<1>3. RestoreGuarded'
  BY BackupsAssumption DEF IInv, TypeOK, FileInv, HoldInv, RestoreGuarded, Restoring,
     Unfinished, RestoreFails, At, Idle
<1>4. HoldInv'
  BY BackupsAssumption DEF IInv, TypeOK, FileInv, HoldInv, RestoreGuarded, Restoring,
     Unfinished, Workers, RestoreFails, At, Idle
<1> QED
  BY <1>1, <1>2, <1>3, <1>4 DEF IInv

LEMMA FinishRestoreStep ==
    ASSUME IInv, NEW b \in Backups, FinishRestore(b)
    PROVE  IInv'
<1>1. TypeOK'
  <2>1. worker' \in Workers
    BY AtType, IdleType, HeldType DEF IInv, TypeOK, HoldInv, FinishRestore, Places
  <2> QED
    BY <2>1, BackupsAssumption DEF IInv, TypeOK, FinishRestore, RestoreResult, HoldInv,
       Statuses, JobStatuses
<1>2. \A c \in Backups : FileInv(c)'
  BY DEF IInv, TypeOK, FileInv, HoldInv, FinishRestore, Idle, RestoreResult, Unfinished
<1>3. RestoreGuarded'
  BY BackupsAssumption DEF IInv, TypeOK, FileInv, HoldInv, RestoreGuarded, Restoring,
     Unfinished, FinishRestore, Idle, RestoreResult
<1>4. HoldInv'
  BY BackupsAssumption DEF IInv, TypeOK, FileInv, HoldInv, RestoreGuarded, Restoring,
     Unfinished, Workers, FinishRestore, Idle, RestoreResult
<1> QED
  BY <1>1, <1>2, <1>3, <1>4 DEF IInv

LEMMA LifecycleStep ==
    ASSUME IInv, NEW a \in Apps, NEW s \in Statuses, Lifecycle(a, s)
    PROVE  IInv'
<1>1. TypeOK'
  BY AttemptsAssumption DEF IInv, TypeOK, Lifecycle, Statuses, JobStatuses
<1>2. \A c \in Backups : FileInv(c)'
  BY DEF IInv, TypeOK, FileInv, HoldInv, Lifecycle, Unfinished
<1>3. RestoreGuarded'
  BY BackupsAssumption DEF IInv, TypeOK, FileInv, HoldInv, RestoreGuarded, Restoring,
     Unfinished, Lifecycle
<1>4. HoldInv'
  BY BackupsAssumption DEF IInv, TypeOK, FileInv, HoldInv, RestoreGuarded, Restoring,
     Unfinished, Workers, Lifecycle
<1> QED
  BY <1>1, <1>2, <1>3, <1>4 DEF IInv

LEMMA ClaimRestoreStep ==
    ASSUME IInv, NEW a \in Apps, ClaimRestore(a)
    PROVE  IInv'
<1>1. TypeOK'
  <2>0. restore[a].backup \in Backups
    BY DEF IInv, RestoreGuarded, Restoring, Unfinished, ClaimRestore
  <2>1. worker' \in Workers
    BY <2>0, AtType DEF ClaimRestore, Places
  <2> QED
    BY <2>1, AttemptsAssumption DEF IInv, TypeOK, ClaimRestore, HoldInv, Statuses, JobStatuses
<1>2. \A c \in Backups : FileInv(c)'
  BY DEF IInv, TypeOK, FileInv, HoldInv, ClaimRestore, At, Idle, Unfinished
<1>3. RestoreGuarded'
  BY BackupsAssumption DEF IInv, TypeOK, FileInv, HoldInv, RestoreGuarded, Restoring,
     Unfinished, ClaimRestore, At, Idle
<1>4. HoldInv'
  BY BackupsAssumption DEF IInv, TypeOK, FileInv, HoldInv, RestoreGuarded, Restoring,
     Unfinished, Workers, ClaimRestore, At, Idle
<1> QED
  BY <1>1, <1>2, <1>3, <1>4 DEF IInv

LEMMA ExpireSuspendedStep ==
    ASSUME IInv, NEW a \in Apps, ExpireSuspended(a)
    PROVE  IInv'
<1>1. TypeOK'
  BY AttemptsAssumption DEF IInv, TypeOK, ExpireSuspended, NoUnfinished, Queued, Statuses,
     JobStatuses
<1>2. \A c \in Backups : FileInv(c)'
  BY DEF IInv, TypeOK, FileInv, HoldInv, ExpireSuspended, NoUnfinished, Queued, Unfinished
<1>3. RestoreGuarded'
  BY BackupsAssumption DEF IInv, TypeOK, FileInv, HoldInv, RestoreGuarded, Restoring,
     Unfinished, ExpireSuspended, NoUnfinished, Queued
<1>4. HoldInv'
  BY BackupsAssumption DEF IInv, TypeOK, FileInv, HoldInv, RestoreGuarded, Restoring,
     Unfinished, Workers, ExpireSuspended, NoUnfinished, Queued
<1> QED
  BY <1>1, <1>2, <1>3, <1>4 DEF IInv

LEMMA RestartStep ==
    ASSUME IInv, Restart
    PROVE  IInv'
<1>1. TypeOK'
  <2>1. worker' \in Workers
    BY AtType, IdleType, HeldType DEF IInv, TypeOK, HoldInv, Restart, Places
  <2> QED
    BY <2>1, AttemptsAssumption DEF IInv, TypeOK, Restart, HoldInv, Statuses, JobStatuses
<1>2. \A c \in Backups : FileInv(c)'
  BY DEF IInv, TypeOK, FileInv, HoldInv, Restart, Idle, Unfinished
<1>3. RestoreGuarded'
  BY BackupsAssumption DEF IInv, TypeOK, FileInv, HoldInv, RestoreGuarded, Restoring,
     Unfinished, Restart, Idle
<1>4. HoldInv'
  BY BackupsAssumption DEF IInv, TypeOK, FileInv, HoldInv, RestoreGuarded, Restoring,
     Unfinished, Workers, Restart, Idle
<1> QED
  BY <1>1, <1>2, <1>3, <1>4 DEF IInv

LEMMA NextIInv == IInv /\ [Next]_vars => IInv'
<1> SUFFICES ASSUME IInv, [Next]_vars PROVE IInv'
  OBVIOUS
<1>1. ASSUME Continue PROVE IInv'
  BY <1>1, RefuseBackupStep, FinishBackupStep, UndoBackupStep, MarkBackupFailedStep,
     DeleteArchiveStep, FinishBackupDeletionStep, RestoreVolumeStep, RestoreFailsStep,
     FinishRestoreStep, CheckBackupStep, ArchiveVolumeStep, ArchiveFailsStep DEF Continue
<1>2. ASSUME UNCHANGED vars PROVE IInv'
  BY <1>2 DEF IInv, TypeOK, FileInv, RestoreGuarded, Restoring, HoldInv, vars
<1> QED
  BY <1>1, <1>2, CreateAppBackupStep, DeleteAppBackupStep, RestoreAppBackupStep,
     ImportAppBackupStep, ClaimBackupStep, ClaimBackupDeletionStep, LifecycleStep,
     ClaimRestoreStep, ExpireSuspendedStep, RestartStep DEF Next

(* The inductive invariant holds in every reachable state.                   *)
THEOREM Invariance == Spec => []IInv
  BY InitIInv, NextIInv, PTL DEF Spec

(* Rows, files and the worker keep their types and every successful backup   *)
(* has recorded its size.                                                    *)
THEOREM TypeCorrect == Spec => []TypeOK
<1>1. IInv => TypeOK
  BY DEF IInv
<1> QED
  BY <1>1, Invariance, PTL

(* Crashes and failures of the worker never cost a successful backup that    *)
(* nobody deletes its archive.                                               *)
THEOREM ArchivesAreKept == Spec => []ArchiveKept
<1>1. IInv => ArchiveKept
  BY DEF IInv, FileInv, ArchiveKept
<1> QED
  BY <1>1, Invariance, PTL

(* Restores and deletions exclude each other.                                *)
THEOREM RestoresAreGuarded == Spec => []RestoreGuarded
<1>1. IInv => RestoreGuarded
  BY DEF IInv
<1> QED
  BY <1>1, Invariance, PTL

(* A deletion reported as done has removed the archive for good.             *)
THEOREM DeletedStaysGone == Spec => []DeletedIsGone
<1>1. IInv => DeletedIsGone
  BY DEF IInv, FileInv, DeletedIsGone
<1> QED
  BY <1>1, Invariance, PTL

\* Only finishRestore ends a restore.
LEMMA OthersDoNotEndRestores ==
    ASSUME IInv, [Next]_vars, \A b \in Backups : ~FinishRestore(b), NEW a \in Apps,
           restore[a].status # "succeeded"
    PROVE  restore'[a].status # "succeeded"
<1>0. restore \in [Apps -> [status: JobStatuses, backup: Backups \cup {NoBackup}]]
  BY DEF IInv, TypeOK
<1>1. CASE UNCHANGED restore
  BY <1>1
<1>2. ASSUME NEW b \in Backups, RestoreAppBackup(b) PROVE restore'[a].status # "succeeded"
  BY <1>0, <1>2 DEF RestoreAppBackup
<1>3. ASSUME NEW c \in Apps, ClaimRestore(c) PROVE restore'[a].status # "succeeded"
  BY <1>0, <1>3 DEF ClaimRestore
<1>4. ASSUME Continue PROVE UNCHANGED restore
  BY <1>4 DEF Continue, RefuseBackup, FinishBackup, UndoBackup, MarkBackupFailed, DeleteArchive,
     FinishBackupDeletion, RestoreVolume, RestoreFails, CheckBackup, ArchiveVolume, ArchiveFails
<1> QED
  BY <1>1, <1>2, <1>3, <1>4 DEF Next, vars, CreateAppBackup, DeleteAppBackup, ImportAppBackup,
     ClaimBackup, ClaimBackupDeletion, Lifecycle, ExpireSuspended, Restart

LEMMA FinishTellsTruth ==
    ASSUME IInv, NEW b \in Backups, FinishRestore(b), NEW a \in Apps,
           restore'[a].status = "succeeded", restore[a].status # "succeeded"
    PROVE  volume'[a] = restore[a].backup
<1>1. restore[AppOf[b]].backup = b /\ (worker.ok => volume[AppOf[b]] = b) /\ volume' = volume
  BY DEF IInv, HoldInv, FinishRestore
<1>2. a = AppOf[b] /\ worker.ok
  <2>1. restore' = [restore EXCEPT ![AppOf[b]].status = RestoreResult(worker.ok,
  worker.healthy)[1]]
    BY DEF FinishRestore
  <2>2. a = AppOf[b]
    BY <2>1 DEF IInv, TypeOK
  <2>3. RestoreResult(worker.ok, worker.healthy)[1] = "succeeded"
    BY <2>1, <2>2 DEF IInv, TypeOK
  <2> QED
    BY <2>2, <2>3 DEF RestoreResult
<1> QED
  BY <1>1, <1>2

(* A restore that is reported as succeeded has put its backup into the       *)
(* volume.                                                                   *)
THEOREM RestoresTellTheTruth == Spec => RestoreTellsTruth
<1>1. ASSUME IInv, [Next]_vars
      PROVE  \A a \in Apps : restore'[a].status = "succeeded" /\ restore[a].status # "succeeded" =>
                 volume'[a] = restore[a].backup
  BY <1>1, FinishTellsTruth, OthersDoNotEndRestores
<1> QED
  BY <1>1, Invariance, PTL DEF Spec, RestoreTellsTruth

-----------------------------------------------------------------------------
(* Capacity.                                                                 *)

Successful == {b \in Backups : backup[b].status = "succeeded"}
SizeOf == [b \in Backups |-> backup[b].size]

\* What is retained fits, and so does the archive the worker has looked at for the
\* second time, until its row says so.  That finitely many backups have succeeded
\* makes their sum a number.
CapacityInv ==
    /\ IsFiniteSet(Successful)
    /\ \A a \in Apps : Total(Retained(a)) <= Capacity
    /\ worker.at = "fits" => Total(Retained(AppOf[worker.backup])) + worker.size <= Capacity

LEMMA SizeType ==
    ASSUME TypeOK, NEW b \in Backups
    PROVE  SizeOf[b] = backup[b].size /\ SizeOf[b] \in Nat
<1>1. backup[b] \in [status: JobStatuses, size: Sizes \cup {0}]
  BY DEF TypeOK
<1>2. backup[b].size \in Nat
  BY <1>1, SizesAssumption
<1> QED
  BY <1>2 DEF SizeOf

LEMMA SizeTypeAfter ==
    ASSUME TypeOK', NEW b \in Backups
    PROVE  SizeOf'[b] = backup'[b].size /\ SizeOf'[b] \in Nat
<1>1. backup'[b] \in [status: JobStatuses, size: Sizes \cup {0}]
  BY DEF TypeOK
<1>2. backup'[b].size \in Nat
  <2>1. backup'[b].size \in Sizes \cup {0}
    BY <1>1
  <2>2. Sizes \cup {0} \subseteq Nat
    BY SizesAssumption
  <2> QED
    BY <2>1, <2>2
<1> QED
  BY <1>2 DEF SizeOf

LEMMA TotalType ==
    ASSUME TypeOK, NEW S \in SUBSET Backups, IsFiniteSet(S)
    PROVE  Total(S) \in Nat /\ Total(S) = SumFunctionOnSet(SizeOf, S)
<1>1. \A b \in S : SizeOf[b] \in Nat
  BY SizeType
<1>2. Total(S) = SumFunctionOnSet(SizeOf, S)
  BY DEF Total, SizeOf
<1> QED
  BY <1>1, <1>2, SumNat

LEMMA RetainedFinite ==
    ASSUME CapacityInv, NEW a
    PROVE  Retained(a) \in SUBSET Backups /\ IsFiniteSet(Retained(a))
<1>1. Retained(a) \in SUBSET Successful /\ Successful \in SUBSET Backups
  BY DEF Retained, Successful
<1> QED
  BY <1>1, FS_Subset DEF CapacityInv

\* What is retained after a step, in terms of the sizes after it.
LEMMA RetainedAfter ==
    ASSUME NEW a
    PROVE  Total(Retained(a))' = SumFunctionOnSet(SizeOf', Retained(a)')
  BY DEF Total, SizeOf

\* Fewer archives of the same size do not need more.
LEMMA TotalShrinks ==
    ASSUME TypeOK, TypeOK', NEW S \in SUBSET Backups, IsFiniteSet(S), NEW T \in SUBSET S,
           \A b \in T : backup'[b].size = backup[b].size
    PROVE  SumFunctionOnSet(SizeOf', T) <= Total(S) /\ SumFunctionOnSet(SizeOf', T) \in Nat
<1>1. \A b \in Backups : SizeOf[b] = backup[b].size /\ SizeOf[b] \in Nat
  BY SizeType
<1>2. \A b \in Backups : SizeOf'[b] = backup'[b].size /\ SizeOf'[b] \in Nat
  BY SizeTypeAfter
<1>3. IsFiniteSet(T)
  BY FS_Subset
<1> DEFINE f == SizeOf
           g == SizeOf'
<1>4. SumFunctionOnSet(g, T) = SumFunctionOnSet(f, T)
  <2>1. \A b \in T : g[b] = f[b]
    BY <1>1, <1>2
  <2> HIDE DEF f, g
  <2> QED
    BY <1>3, <2>1, SumSame
<1>5. SumFunctionOnSet(f, T) <= SumFunctionOnSet(f, S)
  <2>1. \A b \in S : f[b] \in Nat
    BY <1>1
  <2> HIDE DEF f, g
  <2> QED
    BY <2>1, SumSubset
<1>6. SumFunctionOnSet(g, T) \in Nat
  <2>1. \A b \in T : g[b] \in Nat
    BY <1>2
  <2> HIDE DEF f, g
  <2> QED
    BY <1>3, <2>1, SumNat
<1>7. Total(S) = SumFunctionOnSet(f, S)
  BY TotalType
<1> QED
  BY <1>4, <1>5, <1>6, <1>7

\* An application none of whose backups succeeds in a step needs no more after it.
LEMMA AppShrinks ==
    ASSUME IInv, IInv', CapacityInv, NEW a \in Apps,
           \A b \in Backups : AppOf[b] = a /\ backup'[b].status = "succeeded" =>
               backup'[b] = backup[b],
           \A b \in Backups : deletion[b].status = "succeeded" => deletion'[b].status = "succeeded"
    PROVE  /\ Total(Retained(a))' <= Total(Retained(a))
           /\ Total(Retained(a))' \in Nat /\ Total(Retained(a)) \in Nat
<1> DEFINE S == Retained(a)
           T == Retained(a)'
<1>1. S \in SUBSET Backups /\ IsFiniteSet(S)
  BY RetainedFinite
<1>2. T \in SUBSET S /\ \A b \in T : backup'[b].size = backup[b].size
  BY DEF Retained
<1>3. Total(Retained(a))' = SumFunctionOnSet(SizeOf', T)
  BY RetainedAfter
<1>4. Total(S) \in Nat
  BY <1>1, TotalType DEF IInv
<1> HIDE DEF S, T
<1>5. SumFunctionOnSet(SizeOf', T) <= Total(S) /\ SumFunctionOnSet(SizeOf', T) \in Nat
  BY <1>1, <1>2, TotalShrinks DEF IInv
<1> QED
  BY <1>3, <1>4, <1>5 DEF S

\* Steps that record no new success and do not look at the capacity.
LEMMA QuietCapacity ==
    ASSUME IInv, IInv', CapacityInv,
           \A b \in Backups : backup'[b].status = "succeeded" => backup'[b] = backup[b],
           \A b \in Backups : deletion[b].status = "succeeded" => deletion'[b].status = "succeeded",
           worker'.at = "fits" => worker' = worker
    PROVE  CapacityInv'
<1>1. IsFiniteSet(Successful')
  <2>1. Successful' \in SUBSET Successful
    BY DEF Successful
  <2> QED
    BY <2>1, FS_Subset DEF CapacityInv
<1>2. ASSUME NEW a \in Apps
      PROVE  /\ Total(Retained(a))' <= Total(Retained(a))
             /\ Total(Retained(a))' \in Nat /\ Total(Retained(a)) \in Nat
  BY AppShrinks
<1>3. ASSUME NEW a \in Apps PROVE Total(Retained(a))' <= Capacity
  BY <1>2, SizesAssumption DEF CapacityInv
<1>4. ASSUME worker'.at = "fits"
      PROVE  (Total(Retained(AppOf[worker.backup])) + worker.size <= Capacity)'
  <2>1. /\ worker' = worker /\ worker.backup \in Backups /\ worker.size \in Nat
        /\ AppOf[worker.backup] \in Apps
    BY <1>4, BackupsAssumption, SizesAssumption DEF IInv, HoldInv
  <2>2. Total(Retained(AppOf[worker.backup])) + worker.size <= Capacity
    BY <1>4, <2>1 DEF CapacityInv
  <2>3. PICK a \in Apps : a = AppOf[worker.backup]
    BY <2>1
  <2>4. Total(Retained(a))' + worker.size <= Capacity
    BY <1>2, <2>1, <2>2, <2>3, SizesAssumption
  <2>5. Total(Retained(AppOf[worker.backup]))' = Total(Retained(a))'
    BY <2>1, <2>3
  <2> QED
    BY <2>1, <2>4, <2>5
<1> QED
  BY <1>1, <1>3, <1>4 DEF CapacityInv

\* A backup that succeeds within the capacity.
LEMMA SuccessCapacity ==
    ASSUME IInv, IInv', CapacityInv, NEW b \in Backups, NEW size \in Sizes,
           backup[b].status # "succeeded",
           backup' = [backup EXCEPT ![b] = Succeeded(size)], deletion' = deletion,
           Total(Retained(AppOf[b])) + size <= Capacity,
           worker'.at = "fits" => worker' = worker /\ AppOf[worker.backup] # AppOf[b]
    PROVE  CapacityInv'
<1>0. backup'[b] = Succeeded(size) /\ \A c \in Backups \ {b} : backup'[c] = backup[c]
  BY DEF IInv, TypeOK
<1>1. IsFiniteSet(Successful')
  <2>1. Successful' \in SUBSET (Successful \union {b})
    BY <1>0 DEF Successful
  <2>2. IsFiniteSet(Successful \union {b})
    BY FS_AddElement DEF CapacityInv
  <2> QED
    BY <2>1, <2>2, FS_Subset
<1>2. ASSUME NEW a \in Apps, a # AppOf[b]
      PROVE  /\ Total(Retained(a))' <= Total(Retained(a))
             /\ Total(Retained(a))' \in Nat /\ Total(Retained(a)) \in Nat
  BY <1>0, <1>2, AppShrinks
<1>3. Total(Retained(AppOf[b]))' <= Capacity
  <2> DEFINE S == Retained(AppOf[b])
             T == Retained(AppOf[b])'
  <2>1. S \in SUBSET Backups /\ IsFiniteSet(S)
    BY RetainedFinite
  <2>2. b \notin S /\ T \in SUBSET (S \union {b}) /\ \A c \in S : backup'[c].size = backup[c].size
    BY <1>0 DEF Retained
  <2>3. Total(Retained(AppOf[b]))' = SumFunctionOnSet(SizeOf', T)
    BY RetainedAfter
  <2>4. Total(S) + size <= Capacity /\ Total(S) \in Nat
    BY <2>1, TotalType DEF IInv
  <2>5. \A c \in S \union {b} : SizeOf'[c] \in Nat
    <3>1. \A c \in Backups : SizeOf'[c] \in Nat
      BY SizeTypeAfter DEF IInv
    <3> QED
      BY <2>1, <3>1
  <2>6. SizeOf'[b] = size
    BY <1>0 DEF SizeOf, Succeeded
  <2> HIDE DEF S, T
  <2>7. SumFunctionOnSet(SizeOf', S) <= Total(S) /\ SumFunctionOnSet(SizeOf', S) \in Nat
    BY <2>1, <2>2, TotalShrinks DEF IInv
  <2> DEFINE g == SizeOf'
  <2>8. \A c \in S \union {b} : g[c] \in Nat /\ g[c] \in Int
    BY <2>5
  <2>9. g[b] = size /\ SumFunctionOnSet(g, S) <= Total(S) /\ SumFunctionOnSet(g, S) \in Nat
    BY <2>6, <2>7
  <2>10. Total(Retained(AppOf[b]))' = SumFunctionOnSet(g, T)
    BY <2>3
  <2> HIDE DEF g
  <2>11. IsFiniteSet(S \union {b})
    BY <2>1, FS_AddElement
  <2>12. SumFunctionOnSet(g, S \union {b}) = SumFunctionOnSet(g, S) + g[b]
    BY <2>1, <2>2, <2>8, SumAdd
  <2>13. SumFunctionOnSet(g, T) <= SumFunctionOnSet(g, S \union {b})
    BY <2>2, <2>8, <2>11, SumSubset
  <2>14. SumFunctionOnSet(g, T) \in Nat
    <3>1. IsFiniteSet(T)
      BY <2>2, <2>11, FS_Subset
    <3>2. \A c \in T : g[c] \in Nat
      BY <2>2, <2>8
    <3> QED
      BY <3>1, <3>2, SumNat
  <2> QED
    BY <2>4, <2>9, <2>10, <2>12, <2>13, <2>14, SizesAssumption
<1>4. ASSUME NEW a \in Apps PROVE Total(Retained(a))' <= Capacity
  <2>1. CASE a = AppOf[b]
    BY <1>3, <2>1
  <2>2. CASE a # AppOf[b]
    BY <1>2, <2>2, SizesAssumption DEF CapacityInv
  <2> QED
    BY <2>1, <2>2
<1>5. ASSUME worker'.at = "fits"
      PROVE  (Total(Retained(AppOf[worker.backup])) + worker.size <= Capacity)'
  <2>1. /\ worker' = worker /\ worker.backup \in Backups /\ worker.size \in Nat
        /\ AppOf[worker.backup] \in Apps /\ AppOf[worker.backup] # AppOf[b]
    BY <1>5, BackupsAssumption, SizesAssumption DEF IInv, HoldInv
  <2>2. Total(Retained(AppOf[worker.backup])) + worker.size <= Capacity
    BY <1>5, <2>1 DEF CapacityInv
  <2>3. PICK a \in Apps : a = AppOf[worker.backup]
    BY <2>1
  <2>4. Total(Retained(a))' + worker.size <= Capacity
    BY <1>2, <2>1, <2>2, <2>3, SizesAssumption
  <2>5. Total(Retained(AppOf[worker.backup]))' = Total(Retained(a))'
    BY <2>1, <2>3
  <2> QED
    BY <2>1, <2>4, <2>5
<1> QED
  BY <1>1, <1>4, <1>5 DEF CapacityInv

\* An import finds no unfinished backup of its application, so the worker is not at
\* work on one.
LEMMA ImportCapacity ==
    ASSUME IInv, IInv', CapacityInv, NEW b \in Backups, NEW size \in Sizes, NEW live \in Live,
           ImportAppBackup(b, size, live)
    PROVE  CapacityInv'
<1>1. AppOf[b] \in Apps /\ size \in Nat /\ live \in Nat
  BY BackupsAssumption, SizesAssumption
<1>2. Total(Retained(AppOf[b])) \in Nat
  BY RetainedFinite, TotalType DEF IInv
<1>3. Total(Retained(AppOf[b])) + size <= Capacity
  BY <1>1, <1>2, SizesAssumption DEF ImportAppBackup, Fits
<1>4. worker'.at = "fits" => worker' = worker /\ AppOf[worker.backup] # AppOf[b]
  BY DEF ImportAppBackup, NoUnfinished, Unfinished, IInv, HoldInv
<1>5. /\ backup[b].status # "succeeded" /\ deletion' = deletion
      /\ backup' = [backup EXCEPT ![b] = Succeeded(size)]
  BY DEF ImportAppBackup
<1> QED
  BY <1>3, <1>4, <1>5, SuccessCapacity

LEMMA CheckCapacity ==
    ASSUME IInv, IInv', CapacityInv, NEW b \in Backups, NEW live \in Live, CheckBackup(b, live)
    PROVE  CapacityInv'
<1>1. CASE Fits(AppOf[b], live, worker.size) /\ worker' = [worker EXCEPT !.at = "fits"]
  <2>1. worker.backup = b /\ worker.size \in Nat /\ live \in Nat /\ AppOf[b] \in Apps
    BY BackupsAssumption, SizesAssumption DEF CheckBackup, IInv, HoldInv
  <2>2. Total(Retained(AppOf[b])) \in Nat
    BY RetainedFinite, TotalType DEF IInv
  <2>3. Total(Retained(AppOf[b])) + worker.size <= Capacity
    BY <1>1, <2>1, <2>2, SizesAssumption DEF Fits
  <2>4. worker'.backup = b /\ worker'.size = worker.size
    BY <1>1, <2>1 DEF IInv, TypeOK, Workers
  <2>5. UNCHANGED <<backup, deletion>>
    BY DEF CheckBackup
  <2> QED
    BY <2>3, <2>4, <2>5 DEF CapacityInv, Successful, Total, Retained
<1>2. CASE worker' = At("undo", b)
  <2>1. worker'.at # "fits"
    BY <1>2 DEF At, Idle
  <2> QED
    BY <2>1, QuietCapacity DEF CheckBackup
<1> QED
  BY <1>1, <1>2 DEF CheckBackup

LEMMA FinishCapacity ==
    ASSUME IInv, IInv', CapacityInv, NEW b \in Backups, FinishBackup(b)
    PROVE  CapacityInv'
<1>1. worker'.at # "fits"
  <2>1. worker' = Idle \/ worker' = At("undo", b)
    BY DEF FinishBackup
  <2>2. Idle.at = "idle" /\ At("undo", b).at = "undo"
    BY DEF At, Idle
  <2> QED
    BY <2>1, <2>2
<1>2. CASE backup' = backup
  BY <1>1, <1>2, QuietCapacity DEF FinishBackup
<1>3. CASE backup' = [backup EXCEPT ![b] = Succeeded(worker.size)]
  <2>1. /\ worker.size \in Sizes /\ backup[b].status # "succeeded" /\ deletion' = deletion
        /\ Total(Retained(AppOf[b])) + worker.size <= Capacity
    BY DEF FinishBackup, IInv, HoldInv, CapacityInv
  <2> QED
    BY <1>1, <1>3, <2>1, SuccessCapacity
<1> QED
  BY <1>2, <1>3 DEF FinishBackup

LEMMA InitCapacity == Init => CapacityInv
<1> SUFFICES ASSUME Init PROVE CapacityInv
  OBVIOUS
<1>1. Successful = {} /\ \A a : Retained(a) = {}
  BY DEF Init, Successful, Retained
<1>2. Total({}) = 0
  BY SumEmpty DEF Total
<1>3. worker.at = "idle"
  BY DEF Init, Idle
<1> QED
  BY <1>1, <1>2, <1>3, SizesAssumption, FS_EmptySet DEF CapacityInv

\* The steps that touch neither the rows nor the deletions, and the claims.
LEMMA ContinueCapacity ==
    ASSUME IInv, IInv', CapacityInv, Continue
    PROVE  CapacityInv'
<1>1. PICK b \in Backups :
        \/ RefuseBackup(b) \/ FinishBackup(b) \/ UndoBackup(b) \/ MarkBackupFailed(b)
        \/ DeleteArchive(b) \/ FinishBackupDeletion(b)
        \/ RestoreVolume(b) \/ RestoreFails(b) \/ FinishRestore(b)
        \/ \E live \in Live :
            \/ CheckBackup(b, live)
            \/ \E size \in Sizes : ArchiveVolume(b, size, live) \/ ArchiveFails(b, size, live)
  BY DEF Continue
<1>2. CASE RefuseBackup(b) \/ UndoBackup(b) \/ DeleteArchive(b)
  BY <1>2, QuietCapacity DEF RefuseBackup, UndoBackup, DeleteArchive, At, Idle
<1>3. CASE RestoreVolume(b) \/ RestoreFails(b) \/ FinishRestore(b)
  <2>1. UNCHANGED <<backup, deletion>>
    BY <1>3 DEF RestoreVolume, RestoreFails, FinishRestore
  <2>2. worker'.at # "fits"
    <3>1. At("restored", b).at = "restored" /\ Idle.at = "idle"
      BY DEF At, Idle
    <3>2. At("restored", b) \in Workers
      BY AtType DEF Places
    <3>3. PICK ok, healthy : \/ worker' = Idle
                             \/ worker' = [At("restored", b) EXCEPT !.ok = ok, !.healthy = healthy]
      BY <1>3 DEF RestoreVolume, RestoreFails, FinishRestore
    <3> QED
      BY <3>1, <3>2, <3>3 DEF Workers
  <2> QED
    BY <2>1, <2>2, QuietCapacity
<1>4. CASE MarkBackupFailed(b)
  BY <1>4, QuietCapacity DEF MarkBackupFailed, Idle, IInv, TypeOK
<1>5. CASE FinishBackupDeletion(b)
  <2>1. deletion[b].status = "running"
    BY <1>5 DEF FinishBackupDeletion, IInv, HoldInv
  <2> QED
    BY <1>5, <2>1, QuietCapacity DEF FinishBackupDeletion, Idle, IInv, TypeOK
<1>6. ASSUME NEW live \in Live, NEW size \in Sizes,
             ArchiveVolume(b, size, live) \/ ArchiveFails(b, size, live)
      PROVE  CapacityInv'
  BY <1>6, QuietCapacity DEF ArchiveVolume, ArchiveFails, At, Idle
<1> QED
  BY <1>1, <1>2, <1>3, <1>4, <1>5, <1>6, CheckCapacity, FinishCapacity

LEMMA NextCapacity ==
    ASSUME IInv, IInv', CapacityInv, [Next]_vars
    PROVE  CapacityInv'
<1>1. ASSUME NEW b \in Backups,
             CreateAppBackup(b) \/ DeleteAppBackup(b) \/ RestoreAppBackup(b) \/ ClaimBackup(b)
      PROVE  CapacityInv'
  <2>1. \A c \in Backups : backup'[c].status = "succeeded" => backup'[c] = backup[c]
    BY <1>1 DEF CreateAppBackup, DeleteAppBackup, RestoreAppBackup, ClaimBackup, IInv, TypeOK
  <2>2. \A c \in Backups : deletion[c].status = "succeeded" => deletion'[c].status = "succeeded"
    BY <1>1 DEF CreateAppBackup, DeleteAppBackup, RestoreAppBackup, ClaimBackup, IInv, TypeOK
  <2>3. worker'.at = "fits" => worker' = worker
    BY <1>1 DEF CreateAppBackup, DeleteAppBackup, RestoreAppBackup, ClaimBackup, At, Idle
  <2> QED
    BY <2>1, <2>2, <2>3, QuietCapacity
<1>2. ASSUME NEW b \in Backups, ClaimBackupDeletion(b) PROVE CapacityInv'
  BY <1>2, QuietCapacity DEF ClaimBackupDeletion, Unfinished, At, Idle, IInv, TypeOK
<1>3. ASSUME NEW a \in Apps, NEW s \in Statuses, Lifecycle(a, s) PROVE CapacityInv'
  BY <1>3, QuietCapacity DEF Lifecycle
<1>4. ASSUME NEW a \in Apps, ClaimRestore(a) PROVE CapacityInv'
  BY <1>4, QuietCapacity DEF ClaimRestore, At, Idle
<1>5. ASSUME NEW a \in Apps, ExpireSuspended(a) PROVE CapacityInv'
  BY <1>5, QuietCapacity DEF ExpireSuspended
<1>6. ASSUME Restart PROVE CapacityInv'
  BY <1>6, QuietCapacity DEF Restart, Idle
<1>7. ASSUME UNCHANGED vars PROVE CapacityInv'
  BY <1>7, QuietCapacity DEF vars
<1> QED
  BY <1>1, <1>2, <1>3, <1>4, <1>5, <1>6, <1>7, ImportCapacity, ContinueCapacity DEF Next

LEMMA CapacityHolds ==
    ASSUME IInv, CapacityInv
    PROVE  WithinCapacity
<1> SUFFICES ASSUME NEW a \in Apps
             PROVE  Total({b \in Backups : AppOf[b] = a /\ backup[b].status = "succeeded"
                                             /\ archive[b] = "whole"}) <= Capacity
  BY DEF WithinCapacity
<1> DEFINE OnDisk == {b \in Backups : AppOf[b] = a /\ backup[b].status = "succeeded"
                                        /\ archive[b] = "whole"}
           S == Retained(a)
<1>1. S \in SUBSET Backups /\ IsFiniteSet(S) /\ Total(S) <= Capacity
  BY RetainedFinite DEF CapacityInv
<1>2. OnDisk \in SUBSET S
  BY DEF IInv, FileInv, Retained
<1> HIDE DEF OnDisk, S
<1>3. IsFiniteSet(OnDisk) /\ OnDisk \in SUBSET Backups
  BY <1>1, <1>2, FS_Subset
<1>4. \A b \in S : SizeOf[b] \in Nat
  BY <1>1, SizeType DEF IInv
<1>5. SumFunctionOnSet(SizeOf, OnDisk) <= SumFunctionOnSet(SizeOf, S)
  BY <1>1, <1>2, <1>4, SumSubset
<1>6. Total(OnDisk) \in Nat /\ Total(OnDisk) = SumFunctionOnSet(SizeOf, OnDisk)
      /\ Total(S) \in Nat /\ Total(S) = SumFunctionOnSet(SizeOf, S)
  BY <1>1, <1>3, TotalType DEF IInv
<1>7. Total(OnDisk) <= Capacity
  BY <1>1, <1>5, <1>6, SizesAssumption
<1> QED
  BY <1>7 DEF OnDisk

(* The archives of the successful backups never outgrow the capacity of      *)
(* their application, although the worker measures, writes and measures      *)
(* again outside of any transaction.                                         *)
THEOREM CapacityIsKept == Spec => []WithinCapacity
<1>1. Init => CapacityInv
  BY InitCapacity
<1>2. IInv /\ IInv' /\ CapacityInv /\ [Next]_vars => CapacityInv'
  BY NextCapacity
<1>3. IInv /\ CapacityInv => WithinCapacity
  BY CapacityHolds
<1> QED
  BY <1>1, <1>2, <1>3, Invariance, PTL DEF Spec
==============================================================================
