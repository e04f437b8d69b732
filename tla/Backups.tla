------------------------------- MODULE Backups -------------------------------
(***************************************************************************)
(* Backups of application volumes: the API reserves, imports, deletes and  *)
(* restores them (internal/httpapi/backup_features.go), the worker writes, *)
(* removes and unpacks the archives (processBackupOne,                     *)
(* processBackupDeletionOne and processRestoreOne in apps/worker/main.go). *)
(*                                                                         *)
(* A handler is one transaction and one action.  The worker is cut at its  *)
(* commits and around its Docker calls, each of which may fail, before or  *)
(* after it had its effect.  The worker may die between any two of its     *)
(* steps.  The bytes an application has in its volume are whatever a       *)
(* measurement says (Live), since the application writes them as it likes. *)
(*                                                                         *)
(* What else happens to applications is module AppLifecycle, of which only *)
(* the status is kept.                                                     *)
(***************************************************************************)
EXTENDS Integers, FiniteSets, Functions

CONSTANTS
    Apps,
    Backups, AppOf,     \* rows of app_backups that may come to exist, user_app_id
    NoBackup,
    Sizes,              \* sizes an archive may have
    Live,               \* what a measurement of the live volumes may say
    Capacity,           \* shared data volume capacity of an application; rollbacks to
                        \* a release with a smaller one are left out
    MaxAttempts         \* attempts of a deletion before it counts as failed

ASSUME BackupsAssumption == AppOf \in [Backups -> Apps] /\ NoBackup \notin Backups
ASSUME SizesAssumption == Sizes \subseteq Nat \ {0} /\ Live \subseteq Nat /\ Capacity \in Nat
ASSUME AttemptsAssumption == MaxAttempts \in Nat \ {0}

VARIABLES
    app,        \* user_apps.status, "stopped" for what is neither of the others
    backup,     \* app_backups: status and size_bytes, 0 for NULL
    deletion,   \* app_backup_deletion_jobs: status and attempts
    restore,    \* the newest app_restore_jobs row of an application
    archive,    \* the archive file: none, partial or whole
    volume,     \* what the volume holds: a backup, "own" data or "wiped"
    worker,     \* where the worker stands and what it holds
    doubtful    \* observation: backups whose commit went through unanswered

vars == <<app, backup, deletion, restore, archive, volume, worker, doubtful>>

Statuses == {"running", "updating", "failed", "suspended", "stopped"}
JobStatuses == {"none", "queued", "running", "succeeded", "failed"}
Places == {"idle", "claimed", "archived", "fits", "undo", "failing",
           "deleting", "removed", "restoring", "restored"}
Workers == [at: Places, backup: Backups \cup {NoBackup}, size: Sizes \cup {0},
            ok: BOOLEAN, healthy: BOOLEAN]

Idle == [at |-> "idle", backup |-> NoBackup, size |-> 0, ok |-> TRUE, healthy |-> TRUE]
At(place, b) == [Idle EXCEPT !.at = place, !.backup = b]

Init ==
    /\ app = [a \in Apps |-> "running"]
    /\ backup = [b \in Backups |-> [status |-> "none", size |-> 0]]
    /\ deletion = [b \in Backups |-> [status |-> "none", attempts |-> 0]]
    /\ restore = [a \in Apps |-> [status |-> "none", backup |-> NoBackup]]
    /\ archive = [b \in Backups |-> "none"]
    /\ volume = [a \in Apps |-> "own"]
    /\ worker = Idle
    /\ doubtful = {}

Unfinished == {"queued", "running"}
Total(S) == SumFunctionOnSet([b \in Backups |-> backup[b].size], S)

NoUnfinished(a) == \A b \in Backups : AppOf[b] = a => backup[b].status \notin Unfinished
Restoring(a) == restore[a].status \in Unfinished

\* Mutant: a backup on its way to deletion no longer counts.
Retained_Undeleted(a) ==
    {b \in Backups : AppOf[b] = a /\ backup[b].status = "succeeded" /\ deletion[b].status = "none"}

\* The archives that count: those whose deletion has not succeeded.
Retained(a) ==
    {b \in Backups : AppOf[b] = a /\ backup[b].status = "succeeded"
                       /\ deletion[b].status # "succeeded"}

\* backupStorageQuotaExceeded, negated; the boundary is inclusive.
Fits(a, live, size) == live + Total(Retained(a)) + size <= Capacity

-----------------------------------------------------------------------------
(* The API.                                                                *)

CreateAppBackup(b) ==
    /\ backup[b].status = "none"
    /\ app[AppOf[b]] = "running"
    /\ NoUnfinished(AppOf[b])
    /\ backup' = [backup EXCEPT ![b].status = "queued"]
    /\ UNCHANGED <<app, deletion, restore, archive, volume, worker, doubtful>>

\* Mutant: the size of an import is not recorded.
Succeeded_NoSize(size) == [status |-> "succeeded", size |-> 0]

Succeeded(size) == [status |-> "succeeded", size |-> size]

\* importAppBackup: the row passes through queued and running in one transaction.
\* When the commit is not answered the file is removed, whatever became of the row.
ImportAppBackup(b, size, live) ==
    /\ backup[b].status = "none"
    /\ NoUnfinished(AppOf[b])
    /\ Fits(AppOf[b], live, size)
    /\ backup' = [backup EXCEPT ![b] = Succeeded(size)]
    /\ \/ archive' = [archive EXCEPT ![b] = "whole"] /\ doubtful' = doubtful
       \/ archive' = archive /\ doubtful' = doubtful \cup {b}
    /\ UNCHANGED <<app, deletion, restore, volume, worker>>

Queued == [status |-> "queued", attempts |-> 0]

\* Mutant: a restore in progress is not looked for.
DeleteAppBackup_Unchecked(b) ==
    /\ backup[b].status \in {"succeeded", "failed"}
    /\ deletion[b].status \in {"none", "failed"}
    /\ deletion' = [deletion EXCEPT ![b] = Queued]
    /\ UNCHANGED <<app, backup, restore, archive, volume, worker, doubtful>>

\* A failed deletion is queued again with fresh attempts; asking for one that is
\* under way or done changes nothing.
DeleteAppBackup(b) ==
    /\ backup[b].status \in {"succeeded", "failed"}
    /\ ~(restore[AppOf[b]].backup = b /\ Restoring(AppOf[b]))
    /\ deletion[b].status \in {"none", "failed"}
    /\ deletion' = [deletion EXCEPT ![b] = Queued]
    /\ UNCHANGED <<app, backup, restore, archive, volume, worker, doubtful>>

RestoreAppBackup(b) ==
    LET a == AppOf[b]
    IN  /\ backup[b].status = "succeeded"
        /\ deletion[b].status \in {"none", "failed"}
        /\ app[a] = "running"
        /\ ~Restoring(a)
        /\ restore' = [restore EXCEPT ![a] = [status |-> "queued", backup |-> b]]
        /\ app' = [app EXCEPT ![a] = "updating"]
        /\ UNCHANGED <<backup, deletion, archive, volume, worker, doubtful>>

\* Deployments, stops and billing move an application that is not being restored
\* (module AppLifecycle).
Lifecycle(a, s) ==
    /\ app[a] # "updating"
    /\ s \in {"running", "suspended", "stopped"} \ {app[a]}
    /\ app' = [app EXCEPT ![a] = s]
    /\ UNCHANGED <<backup, deletion, restore, archive, volume, worker, doubtful>>

-----------------------------------------------------------------------------
(* The worker: backups.                                                    *)

ClaimBackup(b) ==
    /\ worker.at = "idle"
    /\ backup[b].status = "queued"
    /\ backup' = [backup EXCEPT ![b].status = "running"]
    /\ worker' = At("claimed", b)
    /\ UNCHANGED <<app, deletion, restore, archive, volume, doubtful>>

\* No Docker, no helper image, no measurement or no capacity left.
RefuseBackup(b) ==
    /\ worker.at = "claimed" /\ worker.backup = b
    /\ worker' = At("failing", b)
    /\ UNCHANGED <<app, backup, deletion, restore, archive, volume, doubtful>>

ArchiveVolume(b, size, live) ==
    /\ worker.at = "claimed" /\ worker.backup = b
    /\ Fits(AppOf[b], live, 0)
    /\ archive' = [archive EXCEPT ![b] = "whole"]
    /\ worker' = [At("archived", b) EXCEPT !.size = size]
    /\ UNCHANGED <<app, backup, deletion, restore, volume, doubtful>>

\* Mutant: the failure of tar is not noticed.
ArchiveFails_Ignored(b, size, live) ==
    /\ worker.at = "claimed" /\ worker.backup = b
    /\ Fits(AppOf[b], live, 0)
    /\ archive' = [archive EXCEPT ![b] = "partial"]
    /\ worker' = [At("archived", b) EXCEPT !.size = size]
    /\ UNCHANGED <<app, backup, deletion, restore, volume, doubtful>>

\* What tar has written stays on the disk.
ArchiveFails(b, size, live) ==
    /\ worker.at = "claimed" /\ worker.backup = b
    /\ Fits(AppOf[b], live, 0)
    /\ archive' \in {archive, [archive EXCEPT ![b] = "partial"]}
    /\ worker' = At("failing", b)
    /\ UNCHANGED <<app, backup, deletion, restore, volume, doubtful>>

\* The second look at the capacity, now with the size of the archive.  Too little of
\* it, or a measurement that fails, undoes the backup.
CheckBackup(b, live) ==
    /\ worker.at = "archived" /\ worker.backup = b
    /\ \/ Fits(AppOf[b], live, worker.size) /\ worker' = [worker EXCEPT !.at = "fits"]
       \/ worker' = At("undo", b)
    /\ UNCHANGED <<app, backup, deletion, restore, archive, volume, doubtful>>

\* The last transaction commits, fails, or commits without the worker learning of it.
\* The usage event it writes for the operation is left out.
FinishBackup(b) ==
    /\ worker.at = "fits" /\ worker.backup = b
    /\ \/ /\ backup' = [backup EXCEPT ![b] = Succeeded(worker.size)]
          /\ worker' = Idle
          /\ doubtful' = doubtful
       \/ /\ worker' = At("undo", b)
          /\ UNCHANGED <<backup, doubtful>>
       \/ /\ backup' = [backup EXCEPT ![b] = Succeeded(worker.size)]
          /\ worker' = At("undo", b)
          /\ doubtful' = doubtful \cup {b}
    /\ UNCHANGED <<app, deletion, restore, archive, volume>>

\* DeleteBackup after a failure; its own failure is ignored.
UndoBackup(b) ==
    /\ worker.at = "undo" /\ worker.backup = b
    /\ archive' \in {archive, [archive EXCEPT ![b] = "none"]}
    /\ worker' = At("failing", b)
    /\ UNCHANGED <<app, backup, deletion, restore, volume, doubtful>>

\* A completed row is immutable: the trigger refuses to fail it.  The update may
\* also be lost, and then nothing will ever end this backup.
MarkBackupFailed(b) ==
    /\ worker.at = "failing" /\ worker.backup = b
    /\ \/ backup[b].status = "running" /\ backup' = [backup EXCEPT ![b].status = "failed"]
       \/ backup' = backup
    /\ worker' = Idle
    /\ UNCHANGED <<app, deletion, restore, archive, volume, doubtful>>

-----------------------------------------------------------------------------
(* The worker: deletions.                                                  *)

\* The claim counts an attempt.  After crashes the code counts on past the limit,
\* but it only ever compares the number with it.
Claimed(job) ==
    [status |-> "running",
     attempts |-> IF job.attempts < MaxAttempts THEN job.attempts + 1 ELSE MaxAttempts]

\* Mutant: a running deletion whose worker died is not taken up again.
ClaimBackupDeletion_Queued(b) ==
    /\ worker.at = "idle"
    /\ deletion[b].status = "queued"
    /\ deletion' = [deletion EXCEPT ![b] = Claimed(@)]
    /\ worker' = At("deleting", b)
    /\ UNCHANGED <<app, backup, restore, archive, volume, doubtful>>

\* A queued deletion, or a running one whose lease of two minutes is over.
ClaimBackupDeletion(b) ==
    /\ worker.at = "idle"
    /\ deletion[b].status \in Unfinished
    /\ deletion' = [deletion EXCEPT ![b] = Claimed(@)]
    /\ worker' = At("deleting", b)
    /\ UNCHANGED <<app, backup, restore, archive, volume, doubtful>>

\* DeleteBackup removes the file, fails, or removes it and still reports an error.
DeleteArchive(b) ==
    /\ worker.at = "deleting" /\ worker.backup = b
    /\ \/ archive' = [archive EXCEPT ![b] = "none"] /\ worker' = At("removed", b)
       \/ /\ archive' \in {archive, [archive EXCEPT ![b] = "none"]}
          /\ worker' = [At("removed", b) EXCEPT !.ok = FALSE]
    /\ UNCHANGED <<app, backup, deletion, restore, volume, doubtful>>

\* Mutant: a deletion is given up as if it had succeeded.
DeletionResult_GivenUp(ok, attempts) ==
    IF ok \/ attempts >= MaxAttempts THEN "succeeded" ELSE "queued"

DeletionResult(ok, attempts) ==
    IF ok THEN "succeeded" ELSE IF attempts >= MaxAttempts THEN "failed" ELSE "queued"

FinishBackupDeletion(b) ==
    /\ worker.at = "removed" /\ worker.backup = b
    /\ deletion' = [deletion EXCEPT ![b].status = DeletionResult(worker.ok, deletion[b].attempts)]
    /\ worker' = Idle
    /\ UNCHANGED <<app, backup, restore, archive, volume, doubtful>>

-----------------------------------------------------------------------------
(* The worker: restores.                                                   *)

\* Also needs a route of the application, which AppLifecycle has.
ClaimRestore(a) ==
    /\ worker.at = "idle"
    /\ restore[a].status = "queued"
    /\ restore' = [restore EXCEPT ![a].status = "running"]
    /\ worker' = At("restoring", restore[a].backup)
    /\ UNCHANGED <<app, backup, deletion, archive, volume, doubtful>>

\* The container is stopped, the volume emptied and the archive unpacked into it.
\* Afterwards the container may be healthy or not, and its ports known or not.
RestoreVolume(b) ==
    /\ worker.at = "restoring" /\ worker.backup = b
    /\ archive[b] = "whole"
    /\ volume' = [volume EXCEPT ![AppOf[b]] = b]
    /\ \E ok, healthy \in BOOLEAN :
        /\ ok => healthy
        /\ worker' = [At("restored", b) EXCEPT !.ok = ok, !.healthy = healthy]
    /\ UNCHANGED <<app, backup, deletion, restore, archive, doubtful>>

\* Docker fails before the volume is touched, or after it was emptied; so does tar
\* when there is no whole archive.
RestoreFails(b) ==
    /\ worker.at = "restoring" /\ worker.backup = b
    /\ volume' \in {volume, [volume EXCEPT ![AppOf[b]] = "wiped"]}
    /\ \E healthy \in BOOLEAN :
        worker' = [At("restored", b) EXCEPT !.ok = FALSE, !.healthy = healthy]
    /\ UNCHANGED <<app, backup, deletion, restore, archive, doubtful>>

\* Mutant: a healthy container counts as a restore that succeeded.
RestoreResult_Healthy(ok, healthy) ==
    IF healthy THEN <<"succeeded", "running">> ELSE <<"failed", "failed">>

\* restoreResult: the status of the job and of the application.
RestoreResult(ok, healthy) ==
    IF ok THEN <<"succeeded", "running">>
    ELSE IF healthy THEN <<"failed", "running">> ELSE <<"failed", "failed">>

FinishRestore(b) ==
    LET a == AppOf[b]
        result == RestoreResult(worker.ok, worker.healthy)
    IN  /\ worker.at = "restored" /\ worker.backup = b
        /\ restore' = [restore EXCEPT ![a].status = result[1]]
        /\ app' = [app EXCEPT ![a] = result[2]]
        /\ worker' = Idle
        /\ UNCHANGED <<backup, deletion, archive, volume, doubtful>>

-----------------------------------------------------------------------------
\* An application suspended for too long is deleted with all its backups.
ExpireSuspended(a) ==
    /\ worker.at = "idle"
    /\ app[a] = "suspended"
    /\ ~Restoring(a)
    /\ NoUnfinished(a)
    /\ app' = [app EXCEPT ![a] = "stopped"]
    /\ deletion' = [b \in Backups |->
                       IF AppOf[b] = a /\ backup[b].status \in {"succeeded", "failed"}
                                       /\ deletion[b].status \in {"none", "failed"}
                       THEN Queued ELSE deletion[b]]
    /\ UNCHANGED <<backup, restore, archive, volume, worker, doubtful>>

\* The worker dies, or an update that ends a job is lost: what it held is forgotten.
Restart ==
    /\ worker' = Idle
    /\ UNCHANGED <<app, backup, deletion, restore, archive, volume, doubtful>>

\* The steps that go on with what the worker holds.
Continue ==
    \E b \in Backups :
        \/ RefuseBackup(b) \/ FinishBackup(b) \/ UndoBackup(b) \/ MarkBackupFailed(b)
        \/ DeleteArchive(b) \/ FinishBackupDeletion(b)
        \/ RestoreVolume(b) \/ RestoreFails(b) \/ FinishRestore(b)
        \/ \E live \in Live :
            \/ CheckBackup(b, live)
            \/ \E size \in Sizes : ArchiveVolume(b, size, live) \/ ArchiveFails(b, size, live)

Next ==
    \/ \E b \in Backups :
        \/ CreateAppBackup(b) \/ DeleteAppBackup(b) \/ RestoreAppBackup(b)
        \/ \E live \in Live, size \in Sizes : ImportAppBackup(b, size, live)
        \/ ClaimBackup(b) \/ ClaimBackupDeletion(b)
    \/ Continue
    \/ \E a \in Apps :
        \/ \E s \in Statuses : Lifecycle(a, s)
        \/ ClaimRestore(a) \/ ExpireSuspended(a)
    \/ Restart

Spec == Init /\ [][Next]_vars

\* The loop calls processBackupDeletionOne on every turn, also after a crash, and
\* in the end an attempt is carried through and its outcome written.
DeletionFairness ==
    /\ \A b \in Backups : SF_vars(ClaimBackupDeletion(b)) /\ SF_vars(DeleteArchive(b))
                            /\ SF_vars(FinishBackupDeletion(b))
    /\ WF_vars(Continue)

FairSpec == Spec /\ DeletionFairness

-----------------------------------------------------------------------------
(* Properties.                                                             *)

(* Rows, files and the worker have their types, and a successful backup has  *)
(* recorded a size, as enforce_app_backup_integrity demands.                 *)
TypeOK ==
    /\ app \in [Apps -> Statuses]
    /\ backup \in [Backups -> [status: JobStatuses, size: Sizes \cup {0}]]
    /\ deletion \in [Backups -> [status: JobStatuses, attempts: 0..MaxAttempts]]
    /\ restore \in [Apps -> [status: JobStatuses, backup: Backups \cup {NoBackup}]]
    /\ archive \in [Backups -> {"none", "partial", "whole"}]
    /\ volume \in [Apps -> Backups \cup {"own", "wiped"}]
    /\ worker \in Workers
    /\ doubtful \subseteq Backups
    /\ \A b \in Backups : backup[b].status = "succeeded" => backup[b].size \in Sizes

(* The archives of successful backups on the disk never need more than the   *)
(* capacity of their application: the worker looks at the capacity, writes   *)
(* and looks again outside of any transaction, while imports, deletions and  *)
(* failed deletions change what is retained.                                 *)
WithinCapacity ==
    \A a \in Apps :
        Total({b \in Backups : AppOf[b] = a /\ backup[b].status = "succeeded"
                                 /\ archive[b] = "whole"}) <= Capacity

(* A successful backup nobody asked to delete has its whole archive, through *)
(* every failure and crash of the worker.  The one exception is a commit     *)
(* that went through without its answer arriving.                            *)
ArchiveKept ==
    \A b \in Backups :
        backup[b].status = "succeeded" /\ deletion[b].status = "none" =>
            archive[b] = "whole" \/ b \in doubtful

(* While a restore is under way its application is updating, and its backup  *)
(* is a successful one of that application that no deletion is after:        *)
(* deleteAppBackup, restoreAppBackup and the automatic deletion exclude each *)
(* other whatever the worker has in hand.                                    *)
RestoreGuarded ==
    \A a \in Apps : Restoring(a) =>
        LET b == restore[a].backup
        IN  /\ app[a] = "updating"
            /\ b \in Backups /\ AppOf[b] = a
            /\ backup[b].status = "succeeded"
            /\ deletion[b].status \in {"none", "failed"}

(* A deletion that is reported as done has removed the file, and no later    *)
(* step of a backup or a retry brings it back.                               *)
DeletedIsGone ==
    \A b \in Backups : deletion[b].status = "succeeded" => archive[b] = "none"

(* A restore ends as succeeded only when the volume holds its backup: not    *)
(* when the container came up again over an emptied volume.                  *)
RestoreTellsTruth ==
    [][\A a \in Apps : restore'[a].status = "succeeded" /\ restore[a].status # "succeeded" =>
            volume'[a] = restore[a].backup]_vars

(* Every deletion ends, however often the worker dies in the middle of it.   *)
DeletionsEnd ==
    \A b \in Backups : deletion[b].status \in Unfinished ~> deletion[b].status \notin Unfinished

(* migrations/000079 says that the retryable deletion job exists so that a   *)
(* Docker failure never "makes a restore reference dangling": the archive of *)
(* a restore that is under way is there, commits without answer left aside.  *)
NoDanglingRestore ==
    \A a \in Apps : Restoring(a) =>
        archive[restore[a].backup] = "whole" \/ restore[a].backup \in doubtful

==============================================================================
