---------------------------- MODULE AppLifecycle ----------------------------
(***************************************************************************)
(* The life of a user application: the API handlers that request work      *)
(* (internal/httpapi), the single worker loop that performs it             *)
(* (apps/worker/main.go), the database rows they share and the Docker      *)
(* engine behind the worker.                                               *)
(*                                                                         *)
(* A handler is one database transaction that holds the row lock of its    *)
(* application, so it is one action.  A worker function is cut where the   *)
(* code commits: what it does to Docker after a commit, or between two     *)
(* transactions, is a step of its own, and the worker may crash before it. *)
(* Docker calls may fail at any time.                                      *)
(*                                                                         *)
(* Abstracted: snapshots, ports, secrets and quotas (a handler that        *)
(* refuses a request changes nothing), idempotency keys (a repeated key    *)
(* returns the first job and changes nothing), notifications and audit     *)
(* rows.  Billing decides nondeterministically here; module UsageBilling   *)
(* says when it decides what.                                              *)
(***************************************************************************)
EXTENDS Integers, FiniteSets

CONSTANTS
    Apps,               \* application rows that may come to exist
    Users,              \* their owners
    Owner,              \* Owner[a]: the user of application a
    Requires,           \* pairs <<a, b>>: a's release declares b as required
    MaxReleases,        \* bound on the releases of one application
    MaxHealthAttempts,  \* deploymentMaxHealthAttempts
    EnginePing          \* how the Docker ping at worker start may end

ASSUME OwnerAssumption == Owner \in [Apps -> Users]
ASSUME RequiresAssumption ==
    Requires \subseteq {p \in Apps \X Apps : p[1] # p[2] /\ Owner[p[1]] = Owner[p[2]]}
ASSUME ReleasesAssumption == MaxReleases \in Nat \ {0}
ASSUME HealthAssumption == MaxHealthAttempts \in Nat \ {0}
ASSUME EngineAssumption == EnginePing \subseteq BOOLEAN /\ EnginePing # {}

VARIABLES
    status,     \* user_apps.status, "absent" before the row exists
    reason,     \* user_apps.suspension_reason, "none" for NULL
    suspendedAt,\* user_apps.billing_suspended_at IS NOT NULL
    deleted,    \* user_apps.deleted_at IS NOT NULL
    last,       \* user_apps.last_successful_release_id, 0 for NULL
    rel,        \* app_releases.state by release number, "none" before insert
    job,        \* the newest deployment_jobs row of the application
    stop,       \* the newest app_stop_jobs row: release_id and container_name
    restore,    \* status of the newest app_restore_jobs row
    deletion,   \* status of the app_deletion_jobs row
    route,      \* app_routes.release_id, 0 when there is no route
    cont,       \* releases of an application that have a Docker container
    worker,     \* where the worker stands inside the current function
    engine,     \* the worker's executor # nil, decided when it starts
    domain,     \* system_settings.app_base_domain is not empty
    passed,     \* observation: releases whose health check succeeded
    degraded    \* observation: a restore ended with the application failed

rows == <<status, reason, suspendedAt, deleted, last, rel, job, stop, restore,
          deletion, route>>
vars == <<rows, cont, worker, engine, domain, passed, degraded>>

Releases == 1..MaxReleases
Statuses == {"absent", "deploying", "running", "updating", "stopping",
             "stopped", "failed", "suspended"}
Reasons == {"none", "billing_insufficient", "subscription_expired"}
ReleaseStates == {"none", "created", "active", "superseded", "failed"}
ActiveJobStates == {"queued", "pulling", "starting", "health_checking",
                    "switching_route", "rolling_back"}
JobStates == ActiveJobStates \cup {"none", "succeeded", "failed"}
Operations == {"none", "deploy", "update", "rollback", "start",
               "billing_recovery", "subscription_recovery"}
TaskStates == {"none", "queued", "running", "succeeded", "failed"}

Jobs == [state: JobStates, op: Operations, rel: 0..MaxReleases, attempts: Nat]
StopJobs == [status: TaskStates, rel: 0..MaxReleases, container: 0..MaxReleases]
WorkerStates ==
    [pc: {"idle", "marking", "removing", "stopping", "stopped", "restoring",
          "deleting", "deleted"},
     on: SUBSET Apps, doomed: SUBSET (Apps \X Releases)]

TypeOK ==
    /\ status \in [Apps -> Statuses]
    /\ reason \in [Apps -> Reasons]
    /\ suspendedAt \in [Apps -> BOOLEAN]
    /\ deleted \in [Apps -> BOOLEAN]
    /\ last \in [Apps -> 0..MaxReleases]
    /\ rel \in [Apps -> [Releases -> ReleaseStates]]
    /\ job \in [Apps -> Jobs]
    /\ stop \in [Apps -> StopJobs]
    /\ restore \in [Apps -> TaskStates]
    /\ deletion \in [Apps -> TaskStates]
    /\ route \in [Apps -> 0..MaxReleases]
    /\ cont \in [Apps -> SUBSET Releases]
    /\ worker \in WorkerStates
    /\ engine \in BOOLEAN
    /\ domain \in BOOLEAN
    /\ passed \in [Apps -> SUBSET Releases]
    /\ degraded \in SUBSET Apps

-----------------------------------------------------------------------------
(* The rows other rows refer to.                                           *)

ActiveJob(a) == job[a].state \in ActiveJobStates
ActiveStop(a) == stop[a].status \in {"queued", "running"}
ActiveRestore(a) == restore[a] \in {"queued", "running"}

\* isRecoveryOperation
Recovery(op) == op \in {"billing_recovery", "subscription_recovery"}

\* Mutant: the number of a failed release is used again.
Fresh_Reuse(a, r) ==
    /\ rel[a][r] \in {"none", "failed"}
    /\ \A q \in Releases : q < r => rel[a][q] # "none"

\* The release number a new release gets.
Fresh(a, r) ==
    /\ rel[a][r] = "none"
    /\ \A q \in Releases : q < r => rel[a][q] # "none"

\* missingRuntimeDependencies: every required dependency of the same user is
\* running and routed to its last successful release.
DependenciesReady(a) ==
    \A b \in Apps :
        <<a, b>> \in Requires =>
            /\ status[b] = "running"
            /\ last[b] # 0
            /\ route[b] = last[b]

\* The applications that are (being) deployed and whose newest release that has
\* not failed requires a.
Dependents(a) ==
    {b \in Apps : /\ <<b, a>> \in Requires
                  /\ status[b] \in {"deploying", "running", "updating"}
                  /\ \E r \in Releases : rel[b][r] \notin {"none", "failed"}}

NewJob(op, r) == [state |-> "queued", op |-> op, rel |-> r, attempts |-> 0]

\* What the router forwards: its query over routes, applications and releases.
Routable(a) ==
    /\ route[a] # 0
    /\ ~deleted[a]
    /\ status[a] \in {"running", "updating"}
    /\ last[a] = route[a]
    /\ rel[a][route[a]] = "active"

Idle == worker.pc = "idle"
Resting == [pc |-> "idle", on |-> {}, doomed |-> {}]
Busy(pc, a) == [pc |-> pc, on |-> {a}, doomed |-> {}]
\* Containers left to remove after a commit; without any, or without a Docker
\* engine, the function is over.
Removing(cs) ==
    IF cs = {} \/ ~engine THEN Resting
    ELSE [pc |-> "removing", on |-> {}, doomed |-> cs]

-----------------------------------------------------------------------------
Init ==
    /\ status = [a \in Apps |-> "absent"]
    /\ reason = [a \in Apps |-> "none"]
    /\ suspendedAt = [a \in Apps |-> FALSE]
    /\ deleted = [a \in Apps |-> FALSE]
    /\ last = [a \in Apps |-> 0]
    /\ rel = [a \in Apps |-> [r \in Releases |-> "none"]]
    /\ job = [a \in Apps |-> [state |-> "none", op |-> "none", rel |-> 0,
                              attempts |-> 0]]
    /\ stop = [a \in Apps |-> [status |-> "none", rel |-> 0, container |-> 0]]
    /\ restore = [a \in Apps |-> "none"]
    /\ deletion = [a \in Apps |-> "none"]
    /\ route = [a \in Apps |-> 0]
    /\ cont = [a \in Apps |-> {}]
    /\ worker = Resting
    /\ engine \in EnginePing
    /\ domain = FALSE
    /\ passed = [a \in Apps |-> {}]
    /\ degraded = {}

-----------------------------------------------------------------------------
(* API handlers.                                                           *)

\* createApp: the row, release 1 and its deployment job in one transaction.
CreateApp(a) ==
    /\ status[a] = "absent"
    /\ DependenciesReady(a)
    /\ status' = [status EXCEPT ![a] = "deploying"]
    /\ rel' = [rel EXCEPT ![a][1] = "created"]
    /\ job' = [job EXCEPT ![a] = NewJob("deploy", 1)]
    /\ UNCHANGED <<reason, suspendedAt, deleted, last, stop, restore, deletion,
                   route, cont, worker, engine, domain, passed, degraded>>

\* createReleaseJob, shared by update and rollback.  It looks at the status
\* and at active deployment jobs, not at deleted_at.
CreateReleaseJob(a, op) ==
    /\ status[a] \in {"running", "failed", "stopped"}
    /\ ~ActiveJob(a)
    /\ DependenciesReady(a)
    /\ \E r \in Releases :
        /\ Fresh(a, r)
        /\ rel' = [rel EXCEPT ![a][r] = "created"]
        /\ job' = [job EXCEPT ![a] = NewJob(op, r)]
    /\ status' = [status EXCEPT ![a] = "updating"]
    /\ UNCHANGED <<reason, suspendedAt, deleted, last, stop, restore, deletion,
                   route, cont, worker, engine, domain, passed, degraded>>

CreateAppRelease(a) == CreateReleaseJob(a, "update")

\* rollbackApp clones the snapshot of a release that once succeeded.
RollbackApp(a) ==
    /\ \E r \in Releases : rel[a][r] \in {"active", "superseded"}
    /\ CreateReleaseJob(a, "rollback")

\* startApp.  The active-job conjunct is the unique index
\* deployment_jobs_active_app_uidx: the handler itself only reads the status.
StartApp(a) ==
    /\ \/ status[a] \in {"stopped", "failed"}
       \/ status[a] = "suspended" /\ reason[a] = "billing_insufficient"
    /\ last[a] # 0
    /\ DependenciesReady(a)
    /\ ~ActiveJob(a)
    /\ \E r \in Releases :
        /\ Fresh(a, r)
        /\ rel' = [rel EXCEPT ![a][r] = "created"]
        /\ job' = [job EXCEPT ![a] = NewJob("start", r)]
    /\ status' = [status EXCEPT ![a] = "updating"]
    /\ reason' = [reason EXCEPT ![a] = "none"]
    /\ suspendedAt' = [suspendedAt EXCEPT ![a] = FALSE]
    /\ UNCHANGED <<deleted, last, stop, restore, deletion, route, cont, worker,
                   engine, domain, passed, degraded>>

\* Mutant: the newest release is recorded instead of the last successful one.
NewStop_Newest(a) ==
    [status |-> "queued", rel |-> job[a].rel, container |-> route[a]]

NewStop(a) == [status |-> "queued", rel |-> last[a], container |-> route[a]]

\* stopApp closes the route and records the last successful release and the
\* container the route pointed at.
StopApp(a) ==
    /\ status[a] = "running"
    /\ ~ActiveJob(a)
    /\ ~ActiveRestore(a)
    /\ Dependents(a) = {}
    /\ stop' = [stop EXCEPT ![a] = NewStop(a)]
    /\ route' = [route EXCEPT ![a] = 0]
    /\ status' = [status EXCEPT ![a] = "stopping"]
    /\ reason' = [reason EXCEPT ![a] = "none"]
    /\ UNCHANGED <<suspendedAt, deleted, last, rel, job, restore, deletion,
                   cont, worker, engine, domain, passed, degraded>>

\* restoreAppBackup; that a restorable backup exists is left open.
RestoreAppBackup(a) ==
    /\ status[a] = "running"
    /\ ~ActiveRestore(a)
    /\ restore' = [restore EXCEPT ![a] = "queued"]
    /\ status' = [status EXCEPT ![a] = "updating"]
    /\ UNCHANGED <<reason, suspendedAt, deleted, last, rel, job, stop, deletion,
                   route, cont, worker, engine, domain, passed, degraded>>

\* What deleteApp and the billing cleanup do to the rows of an application.
SoftDelete(a) ==
    /\ route' = [route EXCEPT ![a] = 0]
    /\ deleted' = [deleted EXCEPT ![a] = TRUE]
    /\ status' = [status EXCEPT ![a] = "stopped"]
    /\ reason' = [reason EXCEPT ![a] = "none"]
    /\ suspendedAt' = [suspendedAt EXCEPT ![a] = FALSE]
    /\ deletion' = IF deletion[a] = "none"
                   THEN [deletion EXCEPT ![a] = "queued"] ELSE deletion
    /\ UNCHANGED <<last, rel, job, stop, restore, cont, worker, engine, domain,
                   passed, degraded>>

\* Mutant: unfinished work does not hold a deletion back.
DeleteApp_Unchecked(a) == status[a] # "absent" /\ ~deleted[a] /\ SoftDelete(a)

DeleteApp(a) ==
    /\ status[a] # "absent"
    /\ ~deleted[a]
    /\ ~ActiveJob(a)
    /\ ~ActiveStop(a)
    /\ ~ActiveRestore(a)
    /\ \A b \in Apps : <<b, a>> \in Requires => last[b] = 0 \/ deleted[b]
    /\ SoftDelete(a)

\* updateSystemSettings and updateGatewaySettings refuse an empty domain, so one
\* that was set stays set.
UpdateSystemSettings ==
    /\ domain' = TRUE
    /\ UNCHANGED <<rows, cont, worker, engine, passed, degraded>>

-----------------------------------------------------------------------------
(* The worker: deployment jobs.                                            *)

\* deploymentFailureState
FailureStatus(op, hasLast) ==
    CASE op = "start" -> "stopped"
      [] Recovery(op) -> "suspended"
      [] OTHER -> IF hasLast THEN "running" ELSE "failed"

\* Mutant: a failed billing recovery forgets why the application is suspended.
FailureReason_Lost(op) ==
    IF op = "subscription_recovery" THEN "subscription_expired" ELSE "none"

FailureReason(op) ==
    CASE op = "billing_recovery" -> "billing_insufficient"
      [] op = "subscription_recovery" -> "subscription_expired"
      [] OTHER -> "none"

\* Mutant: off by one.
HealthAttempt_Late(attempts) == IF attempts < 4 THEN 1 ELSE attempts - 3

\* deploymentHealthAttempt: three attempts precede the first health check.
HealthAttempt(attempts) == IF attempts < 3 THEN 1 ELSE attempts - 2

\* Mutant: the last failed check goes on to the switch.
UnhealthyNext_Switch(attempts) ==
    IF HealthAttempt(attempts) < MaxHealthAttempts
    THEN "health_checking" ELSE "switching_route"

\* nextDeploymentStateWithHealth for a health check that did not pass.
UnhealthyNext(attempts) ==
    IF HealthAttempt(attempts) < MaxHealthAttempts
    THEN "health_checking" ELSE "rolling_back"

Advanced(a, state) ==
    [job EXCEPT ![a].state = state, ![a].attempts = @ + 1]

\* Mutant: the release of a failed job keeps its state.
ReleaseFailed_Kept(a) == rel

\* A release is marked failed, except the one a recovery job deploys again.
ReleaseFailed(a) ==
    IF Recovery(job[a].op) THEN rel ELSE [rel EXCEPT ![a][job[a].rel] = "failed"]

\* A deployment job that fails gives the application its previous status back.
FailJob(a) ==
    /\ job' = Advanced(a, "failed")
    /\ status' = [status EXCEPT ![a] = FailureStatus(job[a].op, last[a] # 0)]
    /\ reason' = [reason EXCEPT ![a] = FailureReason(job[a].op)]
    /\ worker' = Removing({<<a, job[a].rel>>})
    /\ UNCHANGED <<suspendedAt, deleted, last, stop, restore, deletion, route,
                   cont, engine, domain, passed, degraded>>

\* Mutant: the error is logged and the job left as it is.
JobError_Dropped(a) == UNCHANGED <<rows, worker, engine, domain, passed,
                                   degraded>>

\* Docker, or a check made before it is called, reports an error: the claim is
\* rolled back and markJobError runs in a transaction of its own.
JobError(a) == worker' = Busy("marking", a) /\ UNCHANGED <<rows, engine, domain,
                                                           passed, degraded>>

JobQueued(a) ==
    /\ job[a].state = "queued"
    /\ job' = Advanced(a, "pulling")
    /\ UNCHANGED <<status, reason, suspendedAt, deleted, last, rel, stop,
                   restore, deletion, route, cont, worker, engine, domain,
                   passed, degraded>>

\* pulling: the dependencies are checked again, networks joined, images pulled.
JobPull(a) ==
    /\ job[a].state = "pulling"
    /\ UNCHANGED cont
    /\ \/ /\ engine => /\ DependenciesReady(a)
                       /\ \A b \in Apps : <<a, b>> \in Requires => route[b] \in cont[b]
          /\ job' = Advanced(a, "starting")
          /\ UNCHANGED <<status, reason, suspendedAt, deleted, last, rel, stop,
                         restore, deletion, route, worker, engine, domain,
                         passed, degraded>>
       \/ engine /\ JobError(a)

\* starting: Docker refuses to create a container whose name is taken.  The
\* container outlives a transaction that is rolled back or never commits.
JobStart(a) ==
    LET r == job[a].rel
        create == engine /\ r \notin cont[a] /\ cont' = [cont EXCEPT ![a] = @ \cup {r}]
    IN  /\ job[a].state = "starting"
        /\ \/ /\ create \/ (~engine /\ UNCHANGED cont)
              /\ job' = Advanced(a, "health_checking")
              /\ UNCHANGED <<status, reason, suspendedAt, deleted, last, rel,
                             stop, restore, deletion, route, worker, engine,
                             domain, passed, degraded>>
           \/ create /\ JobError(a)
           \/ create /\ UNCHANGED <<rows, worker, engine, domain, passed,
                                    degraded>>
           \/ engine /\ UNCHANGED cont /\ JobError(a)

\* health_checking.  Without an engine "healthy" keeps its initial value, true.
JobCheck(a) ==
    /\ job[a].state = "health_checking"
    /\ UNCHANGED cont
    /\ \/ /\ engine => job[a].rel \in cont[a]
          /\ job' = Advanced(a, "switching_route")
          /\ passed' = IF engine THEN [passed EXCEPT ![a] = @ \cup {job[a].rel}]
                       ELSE passed
          /\ UNCHANGED <<status, reason, suspendedAt, deleted, last, rel, stop,
                         restore, deletion, route, worker, engine, domain,
                         degraded>>
       \/ LET next == UnhealthyNext(job[a].attempts)
          IN  /\ engine /\ job[a].rel \in cont[a]
              /\ job' = Advanced(a, next)
              /\ rel' = IF next = "rolling_back" THEN ReleaseFailed(a) ELSE rel
              /\ UNCHANGED <<status, reason, suspendedAt, deleted, last, stop,
                             restore, deletion, route, worker, engine, domain,
                             passed, degraded>>
       \/ engine /\ JobError(a)

\* Mutant: the replaced release stays active.
Promoted_Both(a, r) == [rel[a] EXCEPT ![r] = "active"]

\* The release that wins becomes active, the one it replaces superseded.
Promoted(a, r) ==
    [q \in Releases |-> IF q = r THEN "active"
                       ELSE IF rel[a][q] = "active" THEN "superseded"
                       ELSE rel[a][q]]

\* switching_route: release, route and application change in one transaction;
\* the container the route pointed at is removed after the commit.  Without an
\* app_base_domain the transaction is rolled back and nothing else is done: the
\* job stays in switching_route, whatever it had tried to write.
JobSwitch(a) ==
    LET r == job[a].rel
        old == IF route[a] \in {0, r} THEN {} ELSE {<<a, route[a]>>}
    IN  /\ job[a].state = "switching_route"
        /\ domain
        /\ job' = Advanced(a, "succeeded")
        /\ status' = [status EXCEPT ![a] = "running"]
        /\ reason' = [reason EXCEPT ![a] = "none"]
        /\ suspendedAt' = [suspendedAt EXCEPT ![a] = FALSE]
        /\ last' = [last EXCEPT ![a] = r]
        /\ rel' = [rel EXCEPT ![a] = Promoted(a, r)]
        /\ route' = [route EXCEPT ![a] = r]
        /\ worker' = Removing(old)
        /\ degraded' = degraded \ {a}
        /\ UNCHANGED <<deleted, stop, restore, deletion, cont, engine, domain,
                       passed>>

\* rolling_back: the route was never switched; the job ends as failed.
JobRollback(a) ==
    /\ job[a].state = "rolling_back"
    /\ UNCHANGED rel
    /\ FailJob(a)

\* processOne claims one unfinished job and moves it by one state.
ProcessOne(a) ==
    /\ Idle
    /\ \/ JobQueued(a) \/ JobPull(a) \/ JobStart(a)
       \/ JobCheck(a) \/ JobSwitch(a) \/ JobRollback(a)

MarkJobError(a) ==
    /\ worker = Busy("marking", a)
    /\ ActiveJob(a)
    /\ rel' = ReleaseFailed(a)
    /\ FailJob(a)

\* One container of a list: Docker removes it, or the error is only logged.
RemoveContainer ==
    /\ worker.pc = "removing"
    /\ \E c \in worker.doomed :
        /\ worker' = Removing(worker.doomed \ {c})
        /\ \/ cont' = [cont EXCEPT ![c[1]] = @ \ {c[2]}]
           \/ UNCHANGED cont
    /\ UNCHANGED <<rows, engine, domain, passed, degraded>>

-----------------------------------------------------------------------------
(* The worker: stop, restore and deletion jobs.                            *)

\* Mutant: no lease, a running stop job is never claimed again.
ClaimStop_Once(a) ==
    /\ Idle
    /\ stop[a].status = "queued"
    /\ stop' = [stop EXCEPT ![a].status = "running"]
    /\ worker' = Busy("stopping", a)
    /\ UNCHANGED <<status, reason, suspendedAt, deleted, last, rel, job,
                   restore, deletion, route, cont, engine, domain, passed,
                   degraded>>

\* processStopOne claims a queued job, or a running one whose lease ran out.
ClaimStop(a) ==
    /\ Idle
    /\ ActiveStop(a)
    /\ stop' = [stop EXCEPT ![a].status = "running"]
    /\ worker' = Busy("stopping", a)
    /\ UNCHANGED <<status, reason, suspendedAt, deleted, last, rel, job,
                   restore, deletion, route, cont, engine, domain, passed,
                   degraded>>

\* stopContainerMatches: the container named by the job is the release's own.
StopIdentityOK(a) == stop[a].container \in {0, stop[a].rel}

StopContainer(a) ==
    /\ worker = Busy("stopping", a)
    /\ StopIdentityOK(a)
    /\ engine \/ stop[a].container = 0
    /\ cont' = [cont EXCEPT ![a] = @ \ {stop[a].container}]
    /\ worker' = Busy("stopped", a)
    /\ UNCHANGED <<rows, engine, domain, passed, degraded>>

\* A wrong identity or a Docker error puts the job back in the queue.
RetryStop(a) ==
    /\ worker = Busy("stopping", a)
    /\ stop[a].container # 0
    /\ stop' = [stop EXCEPT ![a].status = "queued"]
    /\ worker' = Resting
    /\ UNCHANGED <<status, reason, suspendedAt, deleted, last, rel, job,
                   restore, deletion, route, cont, engine, domain, passed,
                   degraded>>

FinishStop(a) ==
    /\ worker = Busy("stopped", a)
    /\ stop' = [stop EXCEPT ![a].status =
                    IF @ = "running" THEN "succeeded" ELSE @]
    /\ status' = [status EXCEPT ![a] = IF @ = "stopping" THEN "stopped" ELSE @]
    /\ reason' = IF status[a] = "stopping"
                 THEN [reason EXCEPT ![a] = "none"] ELSE reason
    /\ worker' = Resting
    /\ UNCHANGED <<suspendedAt, deleted, last, rel, job, restore, deletion,
                   route, cont, engine, domain, passed, degraded>>

\* processRestoreOne.  The claim joins the route, so it needs one; a running
\* restore is never claimed again.
ClaimRestore(a) ==
    /\ Idle
    /\ restore[a] = "queued"
    /\ route[a] # 0
    /\ restore' = [restore EXCEPT ![a] = "running"]
    /\ worker' = Busy("restoring", a)
    /\ UNCHANGED <<status, reason, suspendedAt, deleted, last, rel, job, stop,
                   deletion, route, cont, engine, domain, passed, degraded>>

\* restoreResult: a failed restore leaves the application running when its
\* container is healthy, failed when it is not.
RestoredStatus(ok, healthy) == IF ok \/ healthy THEN "running" ELSE "failed"

\* finishRestore, after the container was stopped, its volume replaced and the
\* container started again.  ok: every step went well.  healthy: nothing was
\* stopped yet, or the container came up again, which needs a container.
FinishRestore(a) ==
    /\ worker = Busy("restoring", a)
    /\ \E ok, healthy \in BOOLEAN :
        /\ ok => engine /\ healthy /\ route[a] \in cont[a]
        /\ ~engine => healthy
        /\ restore' = [restore EXCEPT ![a] = IF ok THEN "succeeded" ELSE "failed"]
        /\ status' = [status EXCEPT ![a] = RestoredStatus(ok, healthy)]
        /\ degraded' = IF healthy THEN degraded ELSE degraded \cup {a}
    /\ worker' = Resting
    /\ UNCHANGED <<reason, suspendedAt, deleted, last, rel, job, stop, deletion,
                   route, cont, engine, domain, passed>>

\* processAppDeletionOne.  Docker errors are ignored; without a Docker engine
\* the job goes back to the queue.
ClaimDeletion(a) ==
    /\ Idle
    /\ deletion[a] \in {"queued", "running"}
    /\ deletion' = [deletion EXCEPT ![a] = "running"]
    /\ worker' = Busy("deleting", a)
    /\ UNCHANGED <<status, reason, suspendedAt, deleted, last, rel, job, stop,
                   restore, route, cont, engine, domain, passed, degraded>>

DeleteContainers(a) ==
    /\ worker = Busy("deleting", a)
    /\ engine
    /\ \E kept \in SUBSET cont[a] : cont' = [cont EXCEPT ![a] = kept]
    /\ worker' = Busy("deleted", a)
    /\ UNCHANGED <<rows, engine, domain, passed, degraded>>

RequeueDeletion(a) ==
    /\ worker = Busy("deleting", a)
    /\ ~engine
    /\ deletion' = [deletion EXCEPT ![a] = "queued"]
    /\ worker' = Resting
    /\ UNCHANGED <<status, reason, suspendedAt, deleted, last, rel, job, stop,
                   restore, route, cont, engine, domain, passed, degraded>>

FinishDeletion(a) ==
    /\ worker = Busy("deleted", a)
    /\ deletion' = [deletion EXCEPT ![a] = "succeeded"]
    /\ worker' = Resting
    /\ UNCHANGED <<status, reason, suspendedAt, deleted, last, rel, job, stop,
                   restore, route, cont, engine, domain, passed, degraded>>

-----------------------------------------------------------------------------
(* The worker: reconciliation, billing and the clean-up after it.          *)

\* Mutant: an application that is updating is not looked at.
Keep_NotUpdating(a, r) ==
    \/ status[a] \in {"deploying", "running"} /\ route[a] = r
    \/ ActiveJob(a) /\ job[a].rel = r
    \/ ActiveStop(a) /\ stop[a].container = r

\* What reconcileRuntimeContainers keeps.
Keep(a, r) ==
    \/ /\ status[a] \in {"deploying", "running", "updating"}
       /\ route[a] = r \/ (ActiveJob(a) /\ job[a].rel = r)
    \/ /\ status[a] = "stopping"
       /\ ActiveStop(a)
       /\ stop[a].container = r

\* Mutant: only containers of deleted applications are reconciled.
ReconcileContainer_Deleted(a, r) ==
    /\ Idle /\ engine /\ r \in cont[a] /\ ~Keep(a, r) /\ deleted[a]
    /\ worker' = Removing({<<a, r>>})
    /\ UNCHANGED <<rows, cont, engine, domain, passed, degraded>>

\* One turn of its loop: the container is looked up, then removed.
ReconcileContainer(a, r) ==
    /\ Idle
    /\ engine
    /\ r \in cont[a]
    /\ ~Keep(a, r)
    /\ worker' = Removing({<<a, r>>})
    /\ UNCHANGED <<rows, cont, engine, domain, passed, degraded>>

\* Mutant: applications whose deployment is unfinished are suspended as well.
Suspendable_Updating(u) ==
    {a \in Apps : Owner[a] = u /\ status[a] \in {"running", "updating"}}

Suspendable(u) == {a \in Apps : Owner[a] = u /\ status[a] = "running"}

\* Mutant: applications without a route are not left out.
RoutedContainers_All(apps) == {<<a, route[a]>> : a \in apps}

RoutedContainers(apps) == {<<a, route[a]>> : a \in {b \in apps : route[b] # 0}}

\* billUsage, when the charge or the reserve is not covered: every running
\* application of the user is suspended and loses its route.
SuspendForBilling(u) ==
    LET hit == Suspendable(u)
        off == hit \cup {a \in Apps : /\ Owner[a] = u
                                     /\ status[a] = "suspended"
                                     /\ reason[a] = "billing_insufficient"}
    IN  /\ Idle
        /\ status' = [a \in Apps |-> IF a \in hit THEN "suspended" ELSE status[a]]
        /\ reason' = [a \in Apps |-> IF a \in hit THEN "billing_insufficient"
                                     ELSE reason[a]]
        /\ suspendedAt' = [a \in Apps |-> suspendedAt[a] \/ a \in hit]
        /\ route' = [a \in Apps |-> IF a \in off THEN 0 ELSE route[a]]
        /\ worker' = Removing(RoutedContainers(hit))
        /\ UNCHANGED <<deleted, last, rel, job, stop, restore, deletion, cont,
                       engine, domain, passed, degraded>>

\* billUsage, when the last pending window is charged and the reserve covered:
\* the last successful release of every suspended application is deployed
\* again.  billing_suspended_at is kept until that deployment succeeds.
RecoverFromBilling(u) ==
    LET back == {a \in Apps : /\ Owner[a] = u
                              /\ status[a] = "suspended"
                              /\ reason[a] = "billing_insufficient"
                              /\ last[a] # 0
                              /\ ~ActiveJob(a)}
    IN  /\ Idle
        /\ back # {}
        /\ job' = [a \in Apps |-> IF a \in back
                                  THEN NewJob("billing_recovery", last[a])
                                  ELSE job[a]]
        /\ status' = [a \in Apps |-> IF a \in back THEN "updating" ELSE status[a]]
        /\ reason' = [a \in Apps |-> IF a \in back THEN "none" ELSE reason[a]]
        /\ UNCHANGED <<suspendedAt, deleted, last, rel, stop, restore, deletion,
                       route, cont, worker, engine, domain, passed, degraded>>

\* queueExpiredBillingSuspendedAppDeletionOne, once the retention has passed.
ExpireSuspended(a) ==
    /\ Idle
    /\ status[a] = "suspended"
    /\ reason[a] = "billing_insufficient"
    /\ suspendedAt[a]
    /\ ~deleted[a]
    /\ ~ActiveJob(a)
    /\ ~ActiveStop(a)
    /\ ~ActiveRestore(a)
    /\ SoftDelete(a)

\* The worker process dies and is started again: only the rows and Docker
\* remain, and the executor exists if Docker answers the ping.
Restart ==
    /\ worker' = Resting
    /\ engine' \in EnginePing
    /\ UNCHANGED <<rows, cont, domain, passed, degraded>>

-----------------------------------------------------------------------------
Request(a) ==
    \/ CreateApp(a) \/ CreateAppRelease(a) \/ RollbackApp(a) \/ StartApp(a)
    \/ StopApp(a) \/ RestoreAppBackup(a) \/ DeleteApp(a)

Work(a) ==
    \/ ProcessOne(a) \/ MarkJobError(a)
    \/ ClaimStop(a) \/ StopContainer(a) \/ RetryStop(a) \/ FinishStop(a)
    \/ ClaimRestore(a) \/ FinishRestore(a)
    \/ ClaimDeletion(a) \/ DeleteContainers(a) \/ RequeueDeletion(a)
    \/ FinishDeletion(a)
    \/ ExpireSuspended(a)
    \/ \E r \in Releases : ReconcileContainer(a, r)

Next ==
    \/ \E a \in Apps : Request(a) \/ Work(a)
    \/ \E u \in Users : SuspendForBilling(u) \/ RecoverFromBilling(u)
    \/ RemoveContainer
    \/ UpdateSystemSettings
    \/ Restart

Spec == Init /\ [][Next]_vars

(* The loop of the worker goes on, after a crash too, so the function it is *)
(* in ends and what it can do again and again it does; Docker and the        *)
(* database do not fail for ever.  Nothing is assumed of the users, nor that *)
(* an administrator ever configures a domain.                                *)
Continue ==
    \/ \E a \in Apps : \/ MarkJobError(a) \/ StopContainer(a) \/ RetryStop(a)
                       \/ FinishStop(a) \/ FinishRestore(a) \/ DeleteContainers(a)
                       \/ RequeueDeletion(a) \/ FinishDeletion(a)
    \/ RemoveContainer

JobFairness ==
    \A a \in Apps :
        /\ SF_vars(ProcessOne(a)) /\ SF_vars(MarkJobError(a))
        /\ SF_vars(ClaimStop(a)) /\ SF_vars(StopContainer(a)) /\ SF_vars(FinishStop(a))
        /\ SF_vars(ClaimRestore(a)) /\ SF_vars(FinishRestore(a))
        /\ SF_vars(FinishDeletion(a))

CleaningFairness ==
    \A a \in Apps, r \in Releases :
        /\ SF_vars(ReconcileContainer(a, r))
        /\ SF_vars(RemoveContainer /\ r \in cont[a] /\ r \notin cont'[a])

FairSpec == Spec /\ WF_vars(Continue) /\ JobFairness
CleaningSpec == Spec /\ WF_vars(Continue) /\ CleaningFairness

-----------------------------------------------------------------------------
(* Properties.                                                             *)

OwnerInv(a) ==
    /\ status[a] = "deploying" => ActiveJob(a)
    /\ status[a] = "updating" <=> \/ ActiveJob(a) /\ job[a].op # "deploy"
                                  \/ ActiveRestore(a)
    /\ ActiveJob(a) => /\ status[a] \in {"deploying", "updating"}
                       /\ ~ActiveRestore(a)
    /\ status[a] = "stopping" <=> ActiveStop(a)

(* Every unfinished task owns its application: deploying and updating mean  *)
(* that exactly one deployment or restore job is unfinished, stopping that a *)
(* stop job is, and no other status has one.  Handlers only compare          *)
(* statuses and job tables, so this is what makes their checks sufficient.   *)
OneOwner == \A a \in Apps : OwnerInv(a)

ReleaseInv(a) ==
    /\ \A r \in Releases : rel[a][r] = "active" <=> last[a] = r
    /\ route[a] \in {0, last[a]}

(* The release an application records as its last successful one is the only *)
(* active one, and a route can point nowhere else, whatever jobs failed,     *)
(* were rolled back or recovered in between.                                 *)
ActiveRelease == \A a \in Apps : ReleaseInv(a)

TargetInv(a) ==
    ActiveJob(a) =>
        IF Recovery(job[a].op)
        THEN job[a].rel = last[a] /\ last[a] # 0 /\ route[a] = 0
        ELSE /\ job[a].rel \in Releases \ {last[a]}
             /\ rel[a][job[a].rel] =
                    IF job[a].state = "rolling_back" THEN "failed" ELSE "created"

(* A deployment job deploys a release of its own that nothing serves yet; a  *)
(* recovery job, and no other, deploys the last successful release again.    *)
JobTarget == \A a \in Apps : TargetInv(a)

BudgetInv(a) ==
    /\ job[a].state = "queued" => job[a].attempts = 0
    /\ job[a].state = "pulling" => job[a].attempts = 1
    /\ job[a].state = "starting" => job[a].attempts = 2
    /\ job[a].state = "health_checking" =>
           job[a].attempts \in 3..(MaxHealthAttempts + 2)
    /\ job[a].state = "switching_route" =>
           job[a].attempts \in 4..(MaxHealthAttempts + 3)
    /\ job[a].state = "rolling_back" => job[a].attempts = MaxHealthAttempts + 3
    /\ job[a].attempts <= MaxHealthAttempts + 4

(* attempts counts states as well as health checks; a job still gets at most *)
(* deploymentMaxHealthAttempts checks, and at least one, before it ends.     *)
HealthBudget == \A a \in Apps : BudgetInv(a)

ClockInv(a) ==
    suspendedAt[a] <=>
        \/ status[a] = "suspended" /\ reason[a] = "billing_insufficient"
        \/ ActiveJob(a) /\ job[a].op = "billing_recovery"

(* billing_suspended_at, which starts the clock of the automatic deletion,   *)
(* is set exactly while the application is suspended for billing or a        *)
(* recovery job tries to end that; a start, a recovery or a deletion that    *)
(* went through never leaves an old date behind.                             *)
SuspensionClock == \A a \in Apps : ClockInv(a)

(* "A route points only at a release that passed its health check"           *)
(* (docs/state-machines.md, Invariants).                                     *)
RoutePassedHealth == \A a \in Apps : route[a] # 0 => route[a] \in passed[a]

(* Clean-ups never take away the container the router forwards to: after a   *)
(* switch, a failed job, a suspension, a reconciliation or a crash between    *)
(* any two of them it is still there, unless a restore failed on it.          *)
RoutedContainerKept ==
    \A a \in Apps : Routable(a) /\ a \notin degraded => route[a] \in cont[a]

(* The worker refuses a stop job whose container is not that of the release  *)
(* it names, and retries it for ever: no such job is ever written.           *)
StopIdentity == \A a \in Apps : ActiveStop(a) => StopIdentityOK(a)

HoldInv(a) ==
    /\ worker = Busy("marking", a) =>
           job[a].state \in {"pulling", "starting", "health_checking"}
    /\ worker \in {Busy("stopping", a), Busy("stopped", a)} =>
           stop[a].status = "running"
    /\ worker = Busy("restoring", a) => restore[a] = "running" /\ route[a] # 0

(* What the worker remembers between two transactions is still true when it  *)
(* uses it: no handler changes the job the worker has in hand.               *)
WorkerHolds == \A a \in Apps : HoldInv(a)

ReleaseSteps ==
    {<<"none", "created">>, <<"created", "active">>, <<"created", "failed">>,
     <<"active", "superseded">>}

(* A release state only moves forward: what failed or was superseded never   *)
(* serves again, and no failing job marks the active release failed.  A      *)
(* finished job row never changes: only a new job replaces it.               *)
History ==
    [][\A a \in Apps :
        /\ \A r \in Releases :
            rel'[a][r] # rel[a][r] => <<rel[a][r], rel'[a][r]>> \in ReleaseSteps
        /\ ~ActiveJob(a) /\ job'[a] # job[a] =>
               job'[a].state = "queued" /\ job'[a].attempts = 0]_vars

(* Once an application domain is configured every deployment job ends,       *)
(* whatever Docker answers and however often the worker crashes in the       *)
(* middle of it; a job that was held in switching_route for want of a domain *)
(* goes on and ends as well.                                                 *)
JobsEnd == \A a \in Apps : (domain /\ ActiveJob(a)) ~> ~ActiveJob(a)

(* "queued -> pulling -> starting -> health_checking -> switching_route ->   *)
(* succeeded" and "rolling_back always finishes as failed"                   *)
(* (docs/state-machines.md, Deployment), with no word of a configuration.    *)
DeploymentsEnd == \A a \in Apps : ActiveJob(a) ~> ~ActiveJob(a)

(* A stop that was accepted is carried out: its job never stays queued or    *)
(* running for ever, also when the worker died holding it.                   *)
StopsEnd == \A a \in Apps : ActiveStop(a) ~> ~ActiveStop(a)

(* A container that no route and no unfinished job claims does not stay for  *)
(* ever, although every clean-up after a commit may fail or be cut short.    *)
NoLastingOrphan ==
    \A a \in Apps, r \in Releases : []<>(r \notin cont[a] \/ Keep(a, r))

(* "an application with a previous successful Release returns to `running`   *)
(* and keeps its existing route" (docs/state-machines.md, Deployment).       *)
RunningIsRouted ==
    \A a \in Apps : status[a] = "running" /\ ~deleted[a] => route[a] # 0

(* "An active route can only reference that same successful Release while it *)
(* is `active` and the application is `running` or `updating`"               *)
(* (docs/state-machines.md, Deployment).                                     *)
RouteWhileServing ==
    \A a \in Apps : route[a] # 0 => status[a] \in {"running", "updating"}

(* "A restore normally follows `queued -> running -> succeeded | failed`"    *)
(* (docs/state-machines.md, Backup and restore).                             *)
RestoresEnd == \A a \in Apps : ActiveRestore(a) ~> ~ActiveRestore(a)

=============================================================================
