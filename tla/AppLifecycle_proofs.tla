------------------------ MODULE AppLifecycle_proofs ------------------------
(***************************************************************************)
(* Proofs about AppLifecycle, for any number of applications, users and    *)
(* releases and any health-check budget.                                   *)
(*                                                                         *)
(* OneOwner, ActiveRelease and the others are not inductive one by one:    *)
(* that a failing job does not mark the active release failed rests on     *)
(* JobTarget, which rests on OneOwner, and so on.  They are proved         *)
(* together, as IInv.  AppInv(a) is IInv for one application: a step       *)
(* disturbs it only for the applications it touches.                       *)
(*                                                                         *)
(* What routes point to (RoutingInv) is proved on top of IInv for the      *)
(* behaviours in which Docker answers at every start of the worker; what a *)
(* step may do to releases and finished jobs (History) follows from IInv.  *)
(***************************************************************************)
EXTENDS AppLifecycle, TLAPS

\* Nothing exists before the application does, and a suspended application
\* has no route.
AbsentInv(a) ==
    /\ status[a] = "absent" =>
           last[a] = 0 /\ \A r \in Releases : rel[a][r] = "none"
    /\ status[a] = "suspended" => route[a] = 0

AppInv(a) ==
    /\ OwnerInv(a) /\ ReleaseInv(a) /\ TargetInv(a) /\ BudgetInv(a)
    /\ ClockInv(a) /\ HoldInv(a) /\ AbsentInv(a)
    /\ ActiveStop(a) => StopIdentityOK(a)

IInv == TypeOK /\ \A a \in Apps : AppInv(a)

USE OwnerAssumption, ReleasesAssumption, HealthAssumption, EngineAssumption

LEMMA InitIInv == Init => IInv
<1> SUFFICES ASSUME Init PROVE IInv
  OBVIOUS
<1>1. TypeOK
  <2>1. /\ status \in [Apps -> Statuses] /\ reason \in [Apps -> Reasons]
        /\ suspendedAt \in [Apps -> BOOLEAN] /\ deleted \in [Apps -> BOOLEAN]
        /\ restore \in [Apps -> TaskStates] /\ deletion \in [Apps -> TaskStates]
        /\ engine \in BOOLEAN /\ domain \in BOOLEAN /\ degraded \in SUBSET Apps
    BY DEF Init, Statuses, Reasons, TaskStates
  <2>2. /\ last \in [Apps -> 0..MaxReleases] /\ route \in [Apps -> 0..MaxReleases]
        /\ rel \in [Apps -> [Releases -> ReleaseStates]]
        /\ cont \in [Apps -> SUBSET Releases] /\ passed \in [Apps -> SUBSET Releases]
    BY DEF Init, Releases, ReleaseStates
  <2>3. job \in [Apps -> Jobs] /\ stop \in [Apps -> StopJobs] /\ worker \in WorkerStates
    BY DEF Init, Jobs, JobStates, Operations, StopJobs, TaskStates, WorkerStates, Resting
  <2> QED  BY <2>1, <2>2, <2>3 DEF TypeOK
<1>2. ASSUME NEW a \in Apps PROVE AppInv(a)
  BY <1>2 DEF Init, AppInv, OwnerInv, ReleaseInv, TargetInv, BudgetInv, ClockInv,
         HoldInv, AbsentInv, ActiveJob, ActiveJobStates, ActiveStop, ActiveRestore,
         Resting, Busy, Releases
<1> QED  BY <1>1, <1>2 DEF IInv

-----------------------------------------------------------------------------
(* A step that leaves the rows of an application alone keeps its invariant, *)
(* whatever job of another application the worker takes in hand.            *)

Same(b) ==
    /\ status'[b] = status[b] /\ reason'[b] = reason[b]
    /\ suspendedAt'[b] = suspendedAt[b] /\ last'[b] = last[b] /\ rel'[b] = rel[b]
    /\ job'[b] = job[b] /\ stop'[b] = stop[b] /\ restore'[b] = restore[b]
    /\ route'[b] = route[b]

Elsewhere(b) ==
    \/ worker' = worker
    \/ worker'.pc \in {"idle", "removing", "deleting", "deleted"}
    \/ worker'.on # {b}

LEMMA Frame ==
  ASSUME IInv, NEW b \in Apps, Same(b), Elsewhere(b)
  PROVE  AppInv(b)'
<1>1. OwnerInv(b)' /\ BudgetInv(b)' /\ ClockInv(b)'
  BY DEF Same, IInv, AppInv, OwnerInv, BudgetInv, ClockInv, ActiveJob, ActiveStop,
         ActiveRestore
<1>2. ReleaseInv(b)' /\ TargetInv(b)' /\ AbsentInv(b)'
  BY DEF Same, IInv, AppInv, ReleaseInv, TargetInv, AbsentInv, ActiveJob
<1>3. HoldInv(b)'
  BY DEF Same, IInv, AppInv, Elsewhere, HoldInv, Busy
<1>4. ActiveStop(b)' => StopIdentityOK(b)'
  BY DEF Same, IInv, AppInv, ActiveStop, StopIdentityOK
<1> QED  BY <1>1, <1>2, <1>3, <1>4 DEF AppInv

-----------------------------------------------------------------------------
(* Requests.                                                               *)

LEMMA CreateAppInv ==
  ASSUME IInv, NEW a \in Apps, CreateApp(a)
  PROVE  IInv'
<1> USE DEF CreateApp, NewJob, ActiveJob, ActiveStop, ActiveRestore,
       ActiveJobStates, Releases
<1>1. TypeOK'
  <2>1. status' \in [Apps -> Statuses] /\ rel' \in [Apps -> [Releases -> ReleaseStates]]
    BY DEF IInv, TypeOK, Statuses, ReleaseStates
  <2>2. job' \in [Apps -> Jobs]
    BY DEF IInv, TypeOK, Jobs, JobStates, Operations
  <2> QED  BY <2>1, <2>2 DEF IInv, TypeOK
<1>2. ASSUME NEW b \in Apps, b # a PROVE AppInv(b)'
  BY <1>2, Frame DEF Same, Elsewhere, IInv, TypeOK
<1>3. AppInv(a)'
  <2>1. OwnerInv(a)'
    BY DEF IInv, AppInv, TypeOK, Jobs, StopJobs, OwnerInv
  <2>2. ReleaseInv(a)' /\ AbsentInv(a)'
    BY DEF IInv, AppInv, TypeOK, OwnerInv, ReleaseInv, AbsentInv
  <2>3. TargetInv(a)'
    BY DEF IInv, AppInv, TypeOK, Jobs, OwnerInv, ReleaseInv, AbsentInv, TargetInv, Recovery
  <2>4. BudgetInv(a)'
    BY DEF IInv, AppInv, TypeOK, Jobs, BudgetInv
  <2>5. ClockInv(a)'
    BY DEF IInv, AppInv, TypeOK, Jobs, OwnerInv, ClockInv
  <2>6. HoldInv(a)'
    BY DEF IInv, AppInv, TypeOK, Jobs, StopJobs, OwnerInv, HoldInv, Busy
  <2>7. ActiveStop(a)' => StopIdentityOK(a)'
    BY DEF IInv, AppInv, TypeOK, StopJobs, OwnerInv, ReleaseInv, StopIdentityOK
  <2> QED  BY <2>1, <2>2, <2>3, <2>4, <2>5, <2>6, <2>7 DEF AppInv
<1> QED  BY <1>1, <1>2, <1>3 DEF IInv

LEMMA CreateReleaseJobInv ==
  ASSUME IInv, NEW a \in Apps, NEW op \in {"update", "rollback"}, CreateReleaseJob(a, op)
  PROVE  IInv'
<1> USE DEF CreateReleaseJob, NewJob, Fresh, ActiveJob, ActiveStop, ActiveRestore,
       ActiveJobStates, Releases
<1>1. TypeOK'
  <2>1. PICK r \in Releases :
            /\ rel' = [rel EXCEPT ![a][r] = "created"]
            /\ job' = [job EXCEPT ![a] = NewJob(op, r)]
    OBVIOUS
  <2>2. rel' \in [Apps -> [Releases -> ReleaseStates]]
    BY <2>1 DEF IInv, TypeOK, ReleaseStates
  <2>3. job' \in [Apps -> Jobs]
    BY <2>1 DEF IInv, TypeOK, Jobs, JobStates, Operations
  <2> QED  BY <2>2, <2>3 DEF IInv, TypeOK, Statuses, Reasons
<1>2. ASSUME NEW b \in Apps, b # a PROVE AppInv(b)'
  BY <1>2, Frame DEF Same, Elsewhere, IInv, TypeOK
<1>3. AppInv(a)'
  <2>1. OwnerInv(a)'
    BY DEF IInv, AppInv, TypeOK, Jobs, StopJobs, OwnerInv
  <2>2. ReleaseInv(a)' /\ AbsentInv(a)'
    BY DEF IInv, AppInv, TypeOK, OwnerInv, ReleaseInv, AbsentInv
  <2>3. TargetInv(a)'
    BY DEF IInv, AppInv, TypeOK, Jobs, OwnerInv, ReleaseInv, AbsentInv, TargetInv, Recovery
  <2>4. BudgetInv(a)'
    BY DEF IInv, AppInv, TypeOK, Jobs, BudgetInv
  <2>5. ClockInv(a)'
    BY DEF IInv, AppInv, TypeOK, Jobs, OwnerInv, ClockInv
  <2>6. HoldInv(a)'
    BY DEF IInv, AppInv, TypeOK, Jobs, StopJobs, OwnerInv, HoldInv, Busy
  <2>7. ActiveStop(a)' => StopIdentityOK(a)'
    BY DEF IInv, AppInv, TypeOK, StopJobs, OwnerInv, ReleaseInv, StopIdentityOK
  <2> QED  BY <2>1, <2>2, <2>3, <2>4, <2>5, <2>6, <2>7 DEF AppInv
<1> QED  BY <1>1, <1>2, <1>3 DEF IInv

LEMMA StartAppInv ==
  ASSUME IInv, NEW a \in Apps, StartApp(a)
  PROVE  IInv'
<1> USE DEF StartApp, NewJob, Fresh, ActiveJob, ActiveStop, ActiveRestore,
       ActiveJobStates, Releases
<1>1. TypeOK'
  <2>1. PICK r \in Releases :
            /\ rel' = [rel EXCEPT ![a][r] = "created"]
            /\ job' = [job EXCEPT ![a] = NewJob("start", r)]
    OBVIOUS
  <2>2. rel' \in [Apps -> [Releases -> ReleaseStates]]
    BY <2>1 DEF IInv, TypeOK, ReleaseStates
  <2>3. job' \in [Apps -> Jobs]
    BY <2>1 DEF IInv, TypeOK, Jobs, JobStates, Operations
  <2> QED  BY <2>2, <2>3 DEF IInv, TypeOK, Statuses, Reasons
<1>2. ASSUME NEW b \in Apps, b # a PROVE AppInv(b)'
  BY <1>2, Frame DEF Same, Elsewhere, IInv, TypeOK
<1>3. AppInv(a)'
  <2>1. OwnerInv(a)'
    BY DEF IInv, AppInv, TypeOK, Jobs, StopJobs, OwnerInv
  <2>2. ReleaseInv(a)' /\ AbsentInv(a)'
    BY DEF IInv, AppInv, TypeOK, OwnerInv, ReleaseInv, AbsentInv
  <2>3. TargetInv(a)'
    BY DEF IInv, AppInv, TypeOK, Jobs, OwnerInv, ReleaseInv, AbsentInv, TargetInv, Recovery
  <2>4. BudgetInv(a)'
    BY DEF IInv, AppInv, TypeOK, Jobs, BudgetInv
  <2>5. ClockInv(a)'
    BY DEF IInv, AppInv, TypeOK, Jobs, OwnerInv, ClockInv
  <2>6. HoldInv(a)'
    BY DEF IInv, AppInv, TypeOK, Jobs, StopJobs, OwnerInv, HoldInv, Busy
  <2>7. ActiveStop(a)' => StopIdentityOK(a)'
    BY DEF IInv, AppInv, TypeOK, StopJobs, OwnerInv, ReleaseInv, StopIdentityOK
  <2> QED  BY <2>1, <2>2, <2>3, <2>4, <2>5, <2>6, <2>7 DEF AppInv
<1> QED  BY <1>1, <1>2, <1>3 DEF IInv

LEMMA StopAppInv ==
  ASSUME IInv, NEW a \in Apps, StopApp(a)
  PROVE  IInv'
<1> USE DEF StopApp, NewStop, ActiveJob, ActiveStop, ActiveRestore,
       ActiveJobStates, Releases
<1>1. TypeOK'
  <2>1. NewStop(a) \in StopJobs
    BY DEF IInv, TypeOK, StopJobs, TaskStates
  <2> QED  BY <2>1 DEF IInv, TypeOK, Statuses, Reasons
<1>2. ASSUME NEW b \in Apps, b # a PROVE AppInv(b)'
  BY <1>2, Frame DEF Same, Elsewhere, IInv, TypeOK
<1>3. AppInv(a)'
  <2>1. OwnerInv(a)'
    BY DEF IInv, AppInv, TypeOK, Jobs, StopJobs, OwnerInv
  <2>2. ReleaseInv(a)' /\ AbsentInv(a)'
    BY DEF IInv, AppInv, TypeOK, OwnerInv, ReleaseInv, AbsentInv
  <2>3. TargetInv(a)'
    BY DEF IInv, AppInv, TypeOK, Jobs, OwnerInv, ReleaseInv, AbsentInv, TargetInv, Recovery
  <2>4. BudgetInv(a)'
    BY DEF IInv, AppInv, TypeOK, Jobs, BudgetInv
  <2>5. ClockInv(a)'
    BY DEF IInv, AppInv, TypeOK, Jobs, OwnerInv, ClockInv
  <2>6. HoldInv(a)'
    BY DEF IInv, AppInv, TypeOK, Jobs, StopJobs, OwnerInv, HoldInv, Busy
  <2>7. ActiveStop(a)' => StopIdentityOK(a)'
    BY DEF IInv, AppInv, TypeOK, StopJobs, OwnerInv, ReleaseInv, StopIdentityOK
  <2> QED  BY <2>1, <2>2, <2>3, <2>4, <2>5, <2>6, <2>7 DEF AppInv
<1> QED  BY <1>1, <1>2, <1>3 DEF IInv

LEMMA RestoreAppBackupInv ==
  ASSUME IInv, NEW a \in Apps, RestoreAppBackup(a)
  PROVE  IInv'
<1> USE DEF RestoreAppBackup, ActiveJob, ActiveStop, ActiveRestore,
       ActiveJobStates, Releases
<1>1. TypeOK'
  BY DEF IInv, TypeOK, Statuses, Reasons, ReleaseStates, Jobs, JobStates, Operations,
         StopJobs, TaskStates, WorkerStates
<1>2. ASSUME NEW b \in Apps, b # a PROVE AppInv(b)'
  BY <1>2, Frame DEF Same, Elsewhere, IInv, TypeOK
<1>3. AppInv(a)'
  <2>1. OwnerInv(a)'
    BY DEF IInv, AppInv, TypeOK, Jobs, StopJobs, OwnerInv
  <2>2. ReleaseInv(a)' /\ AbsentInv(a)'
    BY DEF IInv, AppInv, TypeOK, OwnerInv, ReleaseInv, AbsentInv
  <2>3. TargetInv(a)'
    BY DEF IInv, AppInv, TypeOK, Jobs, OwnerInv, ReleaseInv, AbsentInv, TargetInv, Recovery
  <2>4. BudgetInv(a)'
    BY DEF IInv, AppInv, TypeOK, Jobs, BudgetInv
  <2>5. ClockInv(a)'
    BY DEF IInv, AppInv, TypeOK, Jobs, OwnerInv, ClockInv
  <2>6. HoldInv(a)'
    BY DEF IInv, AppInv, TypeOK, Jobs, StopJobs, OwnerInv, HoldInv, Busy
  <2>7. ActiveStop(a)' => StopIdentityOK(a)'
    BY DEF IInv, AppInv, TypeOK, StopJobs, OwnerInv, ReleaseInv, StopIdentityOK
  <2> QED  BY <2>1, <2>2, <2>3, <2>4, <2>5, <2>6, <2>7 DEF AppInv
<1> QED  BY <1>1, <1>2, <1>3 DEF IInv

LEMMA SoftDeleteInv ==
  ASSUME IInv, NEW a \in Apps, SoftDelete(a),
         status[a] # "absent", ~ActiveJob(a), ~ActiveStop(a), ~ActiveRestore(a)
  PROVE  IInv'
<1> USE DEF SoftDelete, ActiveJob, ActiveStop, ActiveRestore,
       ActiveJobStates, Releases
<1>1. TypeOK'
  <2>1. /\ status' \in [Apps -> Statuses] /\ reason' \in [Apps -> Reasons]
        /\ deletion' \in [Apps -> TaskStates]
    BY DEF IInv, TypeOK, Statuses, Reasons, TaskStates
  <2>2. /\ route' \in [Apps -> 0..MaxReleases] /\ deleted' \in [Apps -> BOOLEAN]
        /\ suspendedAt' \in [Apps -> BOOLEAN]
    BY DEF IInv, TypeOK
  <2> QED  BY <2>1, <2>2 DEF IInv, TypeOK
<1>2. ASSUME NEW b \in Apps, b # a PROVE AppInv(b)'
  BY <1>2, Frame DEF Same, Elsewhere, IInv, TypeOK
<1>3. AppInv(a)'
  <2>1. OwnerInv(a)'
    BY DEF IInv, AppInv, TypeOK, Jobs, StopJobs, OwnerInv
  <2>2. ReleaseInv(a)' /\ AbsentInv(a)'
    BY DEF IInv, AppInv, TypeOK, OwnerInv, ReleaseInv, AbsentInv
  <2>3. TargetInv(a)'
    BY DEF IInv, AppInv, TypeOK, Jobs, OwnerInv, ReleaseInv, AbsentInv, TargetInv, Recovery
  <2>4. BudgetInv(a)'
    BY DEF IInv, AppInv, TypeOK, Jobs, BudgetInv
  <2>5. ClockInv(a)'
    BY DEF IInv, AppInv, TypeOK, Jobs, OwnerInv, ClockInv
  <2>6. HoldInv(a)'
    BY DEF IInv, AppInv, TypeOK, Jobs, StopJobs, OwnerInv, HoldInv, Busy
  <2>7. ActiveStop(a)' => StopIdentityOK(a)'
    BY DEF IInv, AppInv, TypeOK, StopJobs, OwnerInv, ReleaseInv, StopIdentityOK
  <2> QED  BY <2>1, <2>2, <2>3, <2>4, <2>5, <2>6, <2>7 DEF AppInv
<1> QED  BY <1>1, <1>2, <1>3 DEF IInv

-----------------------------------------------------------------------------
(* Deployment jobs.                                                        *)

LEMMA QuietInv ==
  ASSUME IInv, UNCHANGED rows, TypeOK', \A b \in Apps : Elsewhere(b)
  PROVE  IInv'
<1>1. ASSUME NEW b \in Apps PROVE AppInv(b)'
  BY <1>1, Frame DEF Same, rows
<1> QED  BY <1>1 DEF IInv

LEMMA JobErrorInv ==
  ASSUME IInv, NEW a \in Apps, JobError(a), cont' \in [Apps -> SUBSET Releases],
         job[a].state \in {"pulling", "starting", "health_checking"}
  PROVE  IInv'
<1> USE DEF JobError, rows, Busy
<1>1. TypeOK'
  BY DEF IInv, TypeOK, WorkerStates
<1>2. ASSUME NEW b \in Apps, b # a PROVE AppInv(b)'
  BY <1>2, Frame DEF Same, Elsewhere
<1>3. AppInv(a)'
  <2>1. OwnerInv(a)' /\ BudgetInv(a)' /\ ClockInv(a)'
    BY DEF IInv, AppInv, OwnerInv, BudgetInv, ClockInv, ActiveJob, ActiveStop,
           ActiveRestore
  <2>2. ReleaseInv(a)' /\ TargetInv(a)' /\ AbsentInv(a)'
    BY DEF IInv, AppInv, ReleaseInv, TargetInv, AbsentInv, ActiveJob
  <2>3. HoldInv(a)'
    BY DEF HoldInv
  <2>4. ActiveStop(a)' => StopIdentityOK(a)'
    BY DEF IInv, AppInv, ActiveStop, StopIdentityOK
  <2> QED  BY <2>1, <2>2, <2>3, <2>4 DEF AppInv
<1> QED  BY <1>1, <1>2, <1>3 DEF IInv

LEMMA AdvancedType ==
  ASSUME job \in [Apps -> Jobs], NEW a \in Apps, NEW s \in JobStates
  PROVE  Advanced(a, s) \in [Apps -> Jobs]
<1>1. job[a] \in Jobs
  OBVIOUS
<1>2. job[a].attempts + 1 \in Nat
  BY <1>1 DEF Jobs
<1>3. [job[a] EXCEPT !.state = s, !.attempts = @ + 1] \in Jobs
  BY <1>1, <1>2 DEF Jobs
<1>4. Advanced(a, s) = [job EXCEPT ![a] = [job[a] EXCEPT !.state = s, !.attempts = @ + 1]]
  BY DEF Advanced
<1> QED  BY <1>3, <1>4

\* A job that goes on to a later state with the release it has.
LEMMA AdvanceInv ==
  ASSUME IInv, NEW a \in Apps, Idle, ActiveJob(a), job[a].state # "rolling_back",
         NEW s \in {"pulling", "starting", "health_checking", "switching_route"},
         job' = Advanced(a, s), BudgetInv(a)',
         cont' \in [Apps -> SUBSET Releases], passed' \in [Apps -> SUBSET Releases],
         UNCHANGED <<status, reason, suspendedAt, deleted, last, rel, stop, restore,
                     deletion, route, worker, engine, domain, degraded>>
  PROVE  IInv'
<1>1. TypeOK'
  BY AdvancedType DEF IInv, TypeOK, JobStates, ActiveJobStates
<1> USE DEF Advanced, ActiveJobStates, ActiveJob
<1>2. ASSUME NEW b \in Apps, b # a PROVE AppInv(b)'
  BY <1>2, Frame DEF Same, Elsewhere, IInv, TypeOK
<1>3. AppInv(a)'
  <2>1. OwnerInv(a)' /\ ClockInv(a)'
    BY DEF IInv, AppInv, TypeOK, Jobs, OwnerInv, ClockInv, ActiveStop, ActiveRestore
  <2>2. ReleaseInv(a)' /\ AbsentInv(a)'
    BY DEF IInv, AppInv, ReleaseInv, AbsentInv
  <2>3. TargetInv(a)'
    BY DEF IInv, AppInv, TypeOK, Jobs, TargetInv
  <2>4. HoldInv(a)'
    BY DEF Idle, HoldInv, Busy
  <2>5. ActiveStop(a)' => StopIdentityOK(a)'
    BY DEF IInv, AppInv, ActiveStop, StopIdentityOK
  <2> QED  BY <2>1, <2>2, <2>3, <2>4, <2>5 DEF AppInv
<1> QED  BY <1>1, <1>2, <1>3 DEF IInv

LEMMA JobQueuedInv ==
  ASSUME IInv, NEW a \in Apps, Idle, JobQueued(a)
  PROVE  IInv'
<1>1. BudgetInv(a)'
  BY DEF IInv, AppInv, TypeOK, Jobs, BudgetInv, JobQueued, Advanced
<1> QED
  BY <1>1, AdvanceInv DEF JobQueued, ActiveJob, ActiveJobStates, IInv, TypeOK

LEMMA JobPullInv ==
  ASSUME IInv, NEW a \in Apps, Idle, JobPull(a)
  PROVE  IInv'
<1>1. CASE JobError(a)
  BY <1>1, JobErrorInv DEF JobPull, IInv, TypeOK
<1>2. CASE ~JobError(a)
  <2>1. BudgetInv(a)'
    BY <1>2 DEF IInv, AppInv, TypeOK, Jobs, BudgetInv, JobPull, Advanced
  <2> QED
    BY <1>2, <2>1, AdvanceInv DEF JobPull, ActiveJob, ActiveJobStates, IInv, TypeOK
<1> QED  BY <1>1, <1>2

LEMMA JobStartInv ==
  ASSUME IInv, NEW a \in Apps, Idle, JobStart(a)
  PROVE  IInv'
<1>1. job[a].rel \in Releases
  BY DEF IInv, AppInv, TypeOK, Jobs, TargetInv, ActiveJob, ActiveJobStates, JobStart,
         Releases
<1>2. cont' \in [Apps -> SUBSET Releases]
  BY <1>1 DEF IInv, TypeOK, JobStart
<1>3. CASE JobError(a)
  BY <1>2, <1>3, JobErrorInv DEF JobStart
<1>4. CASE UNCHANGED <<rows, worker, engine, domain, passed, degraded>>
  <2>1. TypeOK'
    BY <1>2, <1>4 DEF IInv, TypeOK, rows
  <2> QED  BY <1>4, <2>1, QuietInv DEF Elsewhere
<1>5. CASE /\ job' = Advanced(a, "health_checking")
           /\ UNCHANGED <<status, reason, suspendedAt, deleted, last, rel, stop,
                          restore, deletion, route, worker, engine, domain, passed, degraded>>
  <2>1. BudgetInv(a)'
    BY <1>5 DEF IInv, AppInv, TypeOK, Jobs, BudgetInv, JobStart, Advanced
  <2> QED
    BY <1>2, <1>5, <2>1, AdvanceInv
    DEF JobStart, ActiveJob, ActiveJobStates, IInv, TypeOK
<1> QED  BY <1>3, <1>4, <1>5 DEF JobStart

LEMMA JobCheckInv ==
  ASSUME IInv, NEW a \in Apps, Idle, JobCheck(a)
  PROVE  IInv'
<1> DEFINE next == UnhealthyNext(job[a].attempts)
<1>1. job[a].state = "health_checking" /\ ActiveJob(a) /\ job[a].rel \in Releases
  BY DEF IInv, AppInv, TypeOK, Jobs, TargetInv, ActiveJob, ActiveJobStates, JobCheck,
         Releases
<1>2. job[a].attempts \in 3..(MaxHealthAttempts + 2)
  BY <1>1 DEF IInv, AppInv, BudgetInv
<1>3. CASE JobError(a)
  BY <1>3, JobErrorInv DEF JobCheck, IInv, TypeOK
<1>4. CASE /\ job' = Advanced(a, "switching_route")
           /\ UNCHANGED <<status, reason, suspendedAt, deleted, last, rel, stop,
                          restore, deletion, route, worker, engine, domain, degraded>>
           /\ passed' = IF engine THEN [passed EXCEPT ![a] = @ \cup {job[a].rel}]
                        ELSE passed
  <2>1. BudgetInv(a)'
    BY <1>2, <1>4 DEF IInv, TypeOK, Jobs, BudgetInv, Advanced
  <2>2. passed' \in [Apps -> SUBSET Releases]
    BY <1>1, <1>4 DEF IInv, TypeOK
  <2> QED
    BY <1>1, <1>4, <2>1, <2>2, AdvanceInv DEF JobCheck, IInv, TypeOK
<1>5. CASE /\ job' = Advanced(a, next)
           /\ rel' = IF next = "rolling_back" THEN ReleaseFailed(a) ELSE rel
           /\ UNCHANGED <<status, reason, suspendedAt, deleted, last, stop,
                          restore, deletion, route, worker, engine, domain, passed, degraded>>
  <2>1. BudgetInv(a)'
    BY <1>2, <1>5 DEF IInv, TypeOK, Jobs, BudgetInv, Advanced, UnhealthyNext,
       HealthAttempt
  <2>2. CASE next = "health_checking"
    BY <1>1, <1>5, <2>1, <2>2, AdvanceInv DEF JobCheck, IInv, TypeOK
  <2>3. CASE next = "rolling_back"
    <3>1. TypeOK'
      <4>1. rel' \in [Apps -> [Releases -> ReleaseStates]]
        BY <1>1, <1>5 DEF IInv, TypeOK, ReleaseFailed, ReleaseStates
      <4>2. job' \in [Apps -> Jobs]
        BY <1>5, <2>3, AdvancedType DEF IInv, TypeOK, JobStates, ActiveJobStates
      <4> QED  BY <1>5, <4>1, <4>2 DEF IInv, TypeOK, JobCheck
    <3>2. ASSUME NEW b \in Apps, b # a PROVE AppInv(b)'
      BY <1>5, <3>2, Frame DEF Same, Elsewhere, IInv, TypeOK, Advanced, ReleaseFailed
    <3>3. AppInv(a)'
      <4>1. OwnerInv(a)' /\ ClockInv(a)'
        BY <1>1, <1>5, <2>3 DEF IInv, AppInv, TypeOK, Jobs, OwnerInv, ClockInv,
           ActiveJob, ActiveJobStates, ActiveStop, ActiveRestore, Advanced
      <4>2. TargetInv(a)'
        BY <1>1, <1>5, <2>3 DEF IInv, AppInv, TypeOK, Jobs, TargetInv, ActiveJob,
           ActiveJobStates, Advanced, ReleaseFailed
      <4>3. ReleaseInv(a)' /\ AbsentInv(a)'
        BY <1>1, <1>5, <2>3 DEF IInv, AppInv, TypeOK, OwnerInv, TargetInv, ReleaseInv,
           AbsentInv, ReleaseFailed
      <4>4. HoldInv(a)'
        BY <1>5 DEF Idle, HoldInv, Busy
      <4>5. ActiveStop(a)' => StopIdentityOK(a)'
        BY <1>5 DEF IInv, AppInv, ActiveStop, StopIdentityOK
      <4> QED  BY <2>1, <4>1, <4>2, <4>3, <4>4, <4>5 DEF AppInv
    <3> QED  BY <3>1, <3>2, <3>3 DEF IInv
  <2> QED  BY <2>2, <2>3 DEF UnhealthyNext
<1> QED  BY <1>3, <1>4, <1>5 DEF JobCheck

LEMMA RemovingType ==
  ASSUME NEW cs \in SUBSET (Apps \X Releases)
  PROVE  Removing(cs) \in WorkerStates /\ Removing(cs).pc \in {"idle", "removing"}
BY DEF Removing, Resting, WorkerStates

LEMMA JobSwitchInv ==
  ASSUME IInv, NEW a \in Apps, Idle, JobSwitch(a)
  PROVE  IInv'
<1> DEFINE r == job[a].rel
           old == IF route[a] \in {0, r} THEN {} ELSE {<<a, route[a]>>}
<1>1. r \in Releases /\ ActiveJob(a)
  BY DEF IInv, AppInv, TypeOK, Jobs, TargetInv, ActiveJob, ActiveJobStates, JobSwitch,
         Releases
<1>2. old \in SUBSET (Apps \X Releases)
  BY DEF IInv, TypeOK, Releases
<1>3. worker' \in WorkerStates /\ worker'.pc \in {"idle", "removing"}
  BY <1>2, RemovingType DEF JobSwitch
<1>4. TypeOK'
  <2>1. job' \in [Apps -> Jobs]
    BY AdvancedType DEF IInv, TypeOK, JobStates, JobSwitch
  <2>2. rel' \in [Apps -> [Releases -> ReleaseStates]]
    <3>1. Promoted(a, r) \in [Releases -> ReleaseStates]
      BY DEF Promoted, IInv, TypeOK, ReleaseStates
    <3> QED  BY <3>1 DEF JobSwitch, IInv, TypeOK
  <2> QED
    BY <1>1, <1>3, <2>1, <2>2 DEF IInv, TypeOK, JobSwitch, Statuses, Reasons, Releases
<1>5. ASSUME NEW b \in Apps, b # a PROVE AppInv(b)'
  BY <1>3, <1>5, Frame DEF Same, Elsewhere, IInv, TypeOK, JobSwitch, Advanced
<1>6. AppInv(a)'
  <2> USE DEF ActiveJob, ActiveJobStates, ActiveStop, ActiveRestore
  <2>1. job'[a] = [job[a] EXCEPT !.state = "succeeded", !.attempts = @ + 1]
    BY DEF IInv, TypeOK, JobSwitch, Advanced
  <2>2. job'[a].state = "succeeded" /\ job'[a].attempts = job[a].attempts + 1
    BY <2>1 DEF IInv, TypeOK, Jobs
  <2>3. OwnerInv(a)' /\ ClockInv(a)'
    BY <1>1, <2>2 DEF IInv, AppInv, TypeOK, Jobs, OwnerInv, ClockInv, JobSwitch
  <2>4. ReleaseInv(a)' /\ AbsentInv(a)'
    BY <1>1 DEF IInv, AppInv, TypeOK, ReleaseInv, AbsentInv, JobSwitch, Promoted
  <2>5. TargetInv(a)'
    BY <2>2 DEF TargetInv
  <2>6. BudgetInv(a)'
    BY <2>2 DEF IInv, AppInv, TypeOK, Jobs, BudgetInv, JobSwitch
  <2>7. HoldInv(a)'
    BY <1>3 DEF HoldInv, Busy
  <2>8. ActiveStop(a)' => StopIdentityOK(a)'
    BY DEF IInv, AppInv, StopIdentityOK, JobSwitch
  <2> QED  BY <2>3, <2>4, <2>5, <2>6, <2>7, <2>8 DEF AppInv
<1> QED  BY <1>4, <1>5, <1>6 DEF IInv

\* How a job ends as failed: in rolling_back, whose release is marked already,
\* or through markJobError.
LEMMA FailJobInv ==
  ASSUME IInv, NEW a \in Apps, FailJob(a), ActiveJob(a),
         \/ rel' = ReleaseFailed(a) /\ job[a].state # "switching_route"
         \/ rel' = rel /\ job[a].state = "rolling_back"
  PROVE  IInv'
<1>1. job[a].rel \in Releases
  BY DEF IInv, AppInv, TypeOK, Jobs, TargetInv, Releases
<1>2. worker' \in WorkerStates /\ worker'.pc \in {"idle", "removing"}
  BY <1>1, RemovingType DEF FailJob
<1>3. TypeOK'
  <2>1. job' \in [Apps -> Jobs]
    BY AdvancedType DEF IInv, TypeOK, JobStates, FailJob
  <2>2. rel' \in [Apps -> [Releases -> ReleaseStates]]
    <3>1. ReleaseFailed(a) \in [Apps -> [Releases -> ReleaseStates]]
      BY <1>1 DEF ReleaseFailed, IInv, TypeOK, ReleaseStates
    <3> QED  BY <3>1 DEF IInv, TypeOK
  <2>3. /\ FailureStatus(job[a].op, last[a] # 0) \in Statuses
        /\ FailureReason(job[a].op) \in Reasons
    BY DEF FailureStatus, FailureReason, Statuses, Reasons, Recovery
  <2> QED
    BY <1>2, <2>1, <2>2, <2>3 DEF IInv, TypeOK, FailJob
<1>4. ASSUME NEW b \in Apps, b # a PROVE AppInv(b)'
  BY <1>2, <1>4, Frame DEF Same, Elsewhere, IInv, TypeOK, FailJob, Advanced,
     ReleaseFailed
<1>5. AppInv(a)'
  <2> USE DEF ActiveJob, ActiveJobStates, ActiveStop, ActiveRestore
  <2>1. job'[a] = [job[a] EXCEPT !.state = "failed", !.attempts = @ + 1]
    BY DEF IInv, TypeOK, FailJob, Advanced
  <2>2. /\ job'[a].state = "failed" /\ job'[a].attempts = job[a].attempts + 1
        /\ job'[a].op = job[a].op
    BY <2>1 DEF IInv, TypeOK, Jobs
  <2>3. /\ status'[a] = FailureStatus(job[a].op, last[a] # 0)
        /\ reason'[a] = FailureReason(job[a].op)
    BY DEF IInv, TypeOK, FailJob
  <2>4. status'[a] \in {"stopped", "suspended", "running", "failed"}
    BY <2>3 DEF FailureStatus
  <2>5. OwnerInv(a)'
    BY <2>2, <2>4 DEF IInv, AppInv, TypeOK, OwnerInv, FailJob
  <2>6. ClockInv(a)'
    BY <2>2, <2>3 DEF IInv, AppInv, TypeOK, OwnerInv, ClockInv, FailJob, FailureStatus,
       FailureReason, Recovery
  <2>7. ReleaseInv(a)'
    BY DEF IInv, AppInv, TypeOK, ReleaseInv, TargetInv, FailJob, ReleaseFailed
  <2>8. AbsentInv(a)'
    BY <2>3, <2>4 DEF IInv, AppInv, TypeOK, AbsentInv, TargetInv, FailJob,
       FailureStatus
  <2>9. TargetInv(a)'
    BY <2>2 DEF TargetInv
  <2>10. BudgetInv(a)'
    BY <2>2 DEF IInv, AppInv, TypeOK, Jobs, BudgetInv
  <2>11. HoldInv(a)'
    BY <1>2 DEF HoldInv, Busy
  <2>12. ActiveStop(a)' => StopIdentityOK(a)'
    BY DEF IInv, AppInv, StopIdentityOK, FailJob
  <2> QED  BY <2>5, <2>6, <2>7, <2>8, <2>9, <2>10, <2>11, <2>12 DEF AppInv
<1> QED  BY <1>3, <1>4, <1>5 DEF IInv

LEMMA ProcessOneInv ==
  ASSUME IInv, NEW a \in Apps, ProcessOne(a)
  PROVE  IInv'
<1>1. CASE JobQueued(a)
  BY <1>1, JobQueuedInv DEF ProcessOne
<1>2. CASE JobPull(a)
  BY <1>2, JobPullInv DEF ProcessOne
<1>3. CASE JobStart(a)
  BY <1>3, JobStartInv DEF ProcessOne
<1>4. CASE JobCheck(a)
  BY <1>4, JobCheckInv DEF ProcessOne
<1>5. CASE JobSwitch(a)
  BY <1>5, JobSwitchInv DEF ProcessOne
<1>6. CASE JobRollback(a)
  BY <1>6, FailJobInv DEF JobRollback, ActiveJob, ActiveJobStates
<1> QED  BY <1>1, <1>2, <1>3, <1>4, <1>5, <1>6 DEF ProcessOne

LEMMA MarkJobErrorInv ==
  ASSUME IInv, NEW a \in Apps, MarkJobError(a)
  PROVE  IInv'
<1>1. job[a].state # "switching_route"
  BY DEF IInv, AppInv, HoldInv, MarkJobError
<1> QED  BY <1>1, FailJobInv DEF MarkJobError

LEMMA RemoveContainerInv ==
  ASSUME IInv, RemoveContainer
  PROVE  IInv'
<1>1. PICK c \in worker.doomed :
          /\ worker' = Removing(worker.doomed \ {c})
          /\ \/ cont' = [cont EXCEPT ![c[1]] = @ \ {c[2]}]
             \/ UNCHANGED cont
  BY DEF RemoveContainer
<1>2. worker.doomed \in SUBSET (Apps \X Releases)
  BY DEF IInv, TypeOK, WorkerStates
<1>3. worker' \in WorkerStates /\ worker'.pc \in {"idle", "removing"}
  <2>1. worker.doomed \ {c} \in SUBSET (Apps \X Releases)
    BY <1>2
  <2> QED  BY <1>1, <2>1, RemovingType
<1>4. cont' \in [Apps -> SUBSET Releases]
  <2>1. c[1] \in Apps /\ cont \in [Apps -> SUBSET Releases]
    BY <1>1, <1>2 DEF IInv, TypeOK
  <2>2. cont[c[1]] \ {c[2]} \in SUBSET Releases
    BY <2>1
  <2> QED  BY <1>1, <2>1, <2>2
<1>5. TypeOK'
  BY <1>3, <1>4 DEF IInv, TypeOK, RemoveContainer, rows
<1> QED
  BY <1>3, <1>5, QuietInv DEF Elsewhere, RemoveContainer

-----------------------------------------------------------------------------
(* Stop, restore and deletion jobs.                                        *)

LEMMA WorkerType ==
  ASSUME NEW a \in Apps,
         NEW pc \in {"marking", "stopping", "stopped", "restoring", "deleting", "deleted"}
  PROVE  Busy(pc, a) \in WorkerStates /\ Resting \in WorkerStates
BY DEF Busy, Resting, WorkerStates

LEMMA StopStatus ==
  ASSUME IInv, NEW a \in Apps, NEW s \in TaskStates,
         stop' = [stop EXCEPT ![a].status = s]
  PROVE  /\ stop' \in [Apps -> StopJobs]
         /\ stop'[a].status = s
         /\ stop'[a].rel = stop[a].rel /\ stop'[a].container = stop[a].container
         /\ \A b \in Apps : b # a => stop'[b] = stop[b]
<1>1. stop \in [Apps -> StopJobs]
  BY DEF IInv, TypeOK
<1>2. stop[a] \in [status: TaskStates, rel: 0..MaxReleases, container: 0..MaxReleases]
  BY <1>1 DEF StopJobs
<1>3. [stop[a] EXCEPT !.status = s] \in StopJobs
  BY <1>2 DEF StopJobs
<1>4. stop' = [stop EXCEPT ![a] = [stop[a] EXCEPT !.status = s]]
  OBVIOUS
<1>5. stop'[a] = [stop[a] EXCEPT !.status = s]
  BY <1>1, <1>4
<1> QED  BY <1>1, <1>2, <1>3, <1>4, <1>5

\* A stop job that stays unfinished: claimed, or put back in the queue.
LEMMA StopPendingInv ==
  ASSUME IInv, NEW a \in Apps, ClaimStop(a) \/ RetryStop(a)
  PROVE  IInv'
<1>1. PICK s \in {"queued", "running"} : 
          /\ stop' = [stop EXCEPT ![a].status = s]
          /\ \/ s = "running" /\ worker' = Busy("stopping", a)
             \/ worker' = Resting
  BY DEF ClaimStop, RetryStop
<1>2. /\ stop' \in [Apps -> StopJobs]
      /\ stop'[a].status = s
      /\ stop'[a].rel = stop[a].rel /\ stop'[a].container = stop[a].container
      /\ \A b \in Apps : b # a => stop'[b] = stop[b]
  BY <1>1, StopStatus DEF TaskStates
<1>3. /\ UNCHANGED <<status, reason, suspendedAt, deleted, last, rel, job, restore,
                     deletion, route, cont, engine, domain, passed, degraded>>
  BY DEF ClaimStop, RetryStop
<1>4. ActiveStop(a)
  BY DEF ClaimStop, RetryStop, IInv, AppInv, HoldInv, ActiveStop
<1>5. TypeOK'
  BY <1>1, <1>2, <1>3, WorkerType DEF IInv, TypeOK
<1>6. ASSUME NEW b \in Apps, b # a PROVE AppInv(b)'
  BY <1>1, <1>2, <1>3, <1>6, Frame DEF Same, Elsewhere, Busy, Resting
<1>7. AppInv(a)'
  <2>1. OwnerInv(a)' /\ ClockInv(a)' /\ BudgetInv(a)'
    BY <1>1, <1>2, <1>3, <1>4 DEF IInv, AppInv, OwnerInv, ClockInv, BudgetInv, ActiveJob,
           ActiveStop, ActiveRestore
  <2>2. ReleaseInv(a)' /\ AbsentInv(a)' /\ TargetInv(a)'
    BY <1>3 DEF IInv, AppInv, ReleaseInv, AbsentInv, TargetInv, ActiveJob
  <2>3. HoldInv(a)'
    BY <1>1, <1>2 DEF HoldInv, Busy, Resting
  <2>4. StopIdentityOK(a)'
    BY <1>2, <1>4 DEF IInv, AppInv, StopIdentityOK
  <2> QED  BY <2>1, <2>2, <2>3, <2>4 DEF AppInv
<1> QED  BY <1>5, <1>6, <1>7 DEF IInv

LEMMA StopContainerInv ==
  ASSUME IInv, NEW a \in Apps, StopContainer(a)
  PROVE  IInv'
<1>1. TypeOK'
  BY WorkerType DEF StopContainer, IInv, TypeOK, rows
<1>2. ASSUME NEW b \in Apps, b # a PROVE AppInv(b)'
  BY <1>2, Frame DEF StopContainer, Same, Elsewhere, Busy, rows
<1>3. AppInv(a)'
  <2> USE DEF StopContainer, rows
  <2>1. OwnerInv(a)' /\ ClockInv(a)' /\ BudgetInv(a)'
    BY DEF IInv, AppInv, OwnerInv, ClockInv, BudgetInv, ActiveJob, ActiveStop,
           ActiveRestore
  <2>2. ReleaseInv(a)' /\ AbsentInv(a)' /\ TargetInv(a)'
    BY DEF IInv, AppInv, ReleaseInv, AbsentInv, TargetInv, ActiveJob
  <2>3. HoldInv(a)'
    BY DEF IInv, AppInv, HoldInv, Busy
  <2>4. ActiveStop(a)' => StopIdentityOK(a)'
    BY DEF IInv, AppInv, ActiveStop, StopIdentityOK
  <2> QED  BY <2>1, <2>2, <2>3, <2>4 DEF AppInv
<1> QED  BY <1>1, <1>2, <1>3 DEF IInv

LEMMA FinishStopInv ==
  ASSUME IInv, NEW a \in Apps, FinishStop(a)
  PROVE  IInv'
<1>1. stop[a].status = "running" /\ status[a] = "stopping"
  BY DEF FinishStop, IInv, AppInv, HoldInv, OwnerInv, ActiveStop
<1>2. /\ stop' \in [Apps -> StopJobs]
      /\ stop'[a].status = "succeeded"
      /\ \A b \in Apps : b # a => stop'[b] = stop[b]
  <2>1. stop' = [stop EXCEPT ![a].status = "succeeded"]
    BY <1>1 DEF FinishStop
  <2> QED  BY <2>1, StopStatus DEF TaskStates
<1>3. /\ status' = [status EXCEPT ![a] = "stopped"]
      /\ reason' = [reason EXCEPT ![a] = "none"]
      /\ worker' = Resting
      /\ UNCHANGED <<suspendedAt, deleted, last, rel, job, restore, deletion, route,
                     cont, engine, domain, passed, degraded>>
  BY <1>1 DEF FinishStop
<1>4. TypeOK'
  BY <1>2, <1>3, WorkerType DEF IInv, TypeOK, Statuses, Reasons
<1>5. status'[a] = "stopped"
  BY <1>3 DEF IInv, TypeOK
<1>6. ASSUME NEW b \in Apps, b # a PROVE AppInv(b)'
  BY <1>2, <1>3, <1>6, Frame DEF Same, Elsewhere, Resting, IInv, TypeOK
<1>7. AppInv(a)'
  <2>1. OwnerInv(a)' /\ ClockInv(a)' /\ BudgetInv(a)'
    BY <1>1, <1>2, <1>3, <1>5 DEF IInv, AppInv, OwnerInv, ClockInv, BudgetInv, ActiveJob,
           ActiveStop, ActiveRestore
  <2>2. ReleaseInv(a)' /\ AbsentInv(a)' /\ TargetInv(a)'
    BY <1>3, <1>5 DEF IInv, AppInv, ReleaseInv, AbsentInv, TargetInv, ActiveJob
  <2>3. HoldInv(a)' /\ ~ActiveStop(a)'
    BY <1>2, <1>3 DEF HoldInv, Busy, Resting, ActiveStop
  <2> QED  BY <2>1, <2>2, <2>3 DEF AppInv
<1> QED  BY <1>4, <1>6, <1>7 DEF IInv

LEMMA ClaimRestoreInv ==
  ASSUME IInv, NEW a \in Apps, ClaimRestore(a)
  PROVE  IInv'
<1>1. TypeOK'
  BY WorkerType DEF ClaimRestore, IInv, TypeOK, TaskStates
<1>2. ASSUME NEW b \in Apps, b # a PROVE AppInv(b)'
  <2>1. Same(b)
    BY <1>2 DEF ClaimRestore, Same, IInv, TypeOK
  <2>2. Elsewhere(b)
    BY <1>2 DEF ClaimRestore, Elsewhere, Busy
  <2> QED  BY <2>1, <2>2, Frame
<1>3. AppInv(a)'
  <2> USE DEF ClaimRestore
  <2>1. OwnerInv(a)' /\ ClockInv(a)' /\ BudgetInv(a)'
    BY DEF IInv, AppInv, TypeOK, OwnerInv, ClockInv, BudgetInv, ActiveJob, ActiveStop,
           ActiveRestore
  <2>2. ReleaseInv(a)' /\ AbsentInv(a)' /\ TargetInv(a)'
    BY DEF IInv, AppInv, ReleaseInv, AbsentInv, TargetInv, ActiveJob
  <2>3. HoldInv(a)'
    BY DEF IInv, TypeOK, HoldInv, Busy
  <2>4. ActiveStop(a)' => StopIdentityOK(a)'
    BY DEF IInv, AppInv, ActiveStop, StopIdentityOK
  <2> QED  BY <2>1, <2>2, <2>3, <2>4 DEF AppInv
<1> QED  BY <1>1, <1>2, <1>3 DEF IInv

LEMMA FinishRestoreInv ==
  ASSUME IInv, NEW a \in Apps, FinishRestore(a)
  PROVE  IInv'
<1>1. /\ restore[a] = "running" /\ status[a] = "updating"
      /\ ~ActiveJob(a) /\ ~ActiveStop(a)
  BY DEF FinishRestore, IInv, AppInv, HoldInv, OwnerInv, ActiveRestore
<1>2. PICK end \in {"succeeded", "failed"}, now \in {"running", "failed"} :
          /\ restore' = [restore EXCEPT ![a] = end]
          /\ status' = [status EXCEPT ![a] = now]
          /\ degraded' \in SUBSET (degraded \cup {a})
  BY DEF FinishRestore, RestoredStatus
<1>3. /\ worker' = Resting
      /\ UNCHANGED <<reason, suspendedAt, deleted, last, rel, job, stop, deletion,
                     route, cont, engine, domain, passed>>
  BY DEF FinishRestore
<1>4. TypeOK'
  BY <1>2, <1>3, WorkerType DEF IInv, TypeOK, Statuses, TaskStates
<1>5. restore'[a] = end /\ status'[a] = now
  BY <1>2 DEF IInv, TypeOK
<1>6. ASSUME NEW b \in Apps, b # a PROVE AppInv(b)'
  BY <1>2, <1>3, <1>6, Frame DEF Same, Elsewhere, Resting, IInv, TypeOK
<1>7. AppInv(a)'
  <2>1. OwnerInv(a)' /\ ClockInv(a)' /\ BudgetInv(a)'
    BY <1>1, <1>3, <1>5 DEF IInv, AppInv, OwnerInv, ClockInv, BudgetInv, ActiveJob,
           ActiveStop, ActiveRestore
  <2>2. ReleaseInv(a)' /\ AbsentInv(a)' /\ TargetInv(a)'
    BY <1>3, <1>5 DEF IInv, AppInv, ReleaseInv, AbsentInv, TargetInv, ActiveJob
  <2>3. HoldInv(a)' /\ ~ActiveStop(a)'
    BY <1>1, <1>3 DEF HoldInv, Busy, Resting, ActiveStop
  <2> QED  BY <2>1, <2>2, <2>3 DEF AppInv
<1> QED  BY <1>4, <1>6, <1>7 DEF IInv

LEMMA DeletionInv ==
  ASSUME IInv, NEW a \in Apps,
         \/ ClaimDeletion(a) \/ DeleteContainers(a)
         \/ RequeueDeletion(a) \/ FinishDeletion(a)
  PROVE  IInv'
<1> USE DEF ClaimDeletion, DeleteContainers, RequeueDeletion, FinishDeletion
<1>1. TypeOK'
  <2>1. deletion' \in [Apps -> TaskStates]
    BY DEF IInv, TypeOK, TaskStates, rows
  <2>2. cont' \in [Apps -> SUBSET Releases]
    BY DEF IInv, TypeOK
  <2>3. worker' \in WorkerStates
    BY WorkerType
  <2> QED  BY <2>1, <2>2, <2>3 DEF IInv, TypeOK, rows
<1>2. ASSUME NEW b \in Apps PROVE AppInv(b)'
  BY <1>2, Frame DEF Same, Elsewhere, Busy, Resting, rows
<1> QED  BY <1>1, <1>2 DEF IInv

-----------------------------------------------------------------------------
(* Reconciliation, billing, clean-up and restart.                          *)

LEMMA ReconcileContainerInv ==
  ASSUME IInv, NEW a \in Apps, NEW r \in Releases, ReconcileContainer(a, r)
  PROVE  IInv'
<1>1. worker' \in WorkerStates /\ worker'.pc \in {"idle", "removing"}
  <2>1. {<<a, r>>} \in SUBSET (Apps \X Releases)
    OBVIOUS
  <2> QED  BY <2>1, RemovingType DEF ReconcileContainer
<1>2. TypeOK'
  BY <1>1 DEF IInv, TypeOK, ReconcileContainer, rows
<1> QED  BY <1>1, <1>2, QuietInv DEF Elsewhere, ReconcileContainer

LEMMA SuspendForBillingInv ==
  ASSUME IInv, NEW u \in Users, SuspendForBilling(u)
  PROVE  IInv'
<1> DEFINE hit == Suspendable(u)
<1>1. worker' \in WorkerStates /\ worker'.pc \in {"idle", "removing"}
  <2>1. RoutedContainers(hit) \in SUBSET (Apps \X Releases)
    BY DEF RoutedContainers, Suspendable, IInv, TypeOK, Releases
  <2> QED  BY <2>1, RemovingType DEF SuspendForBilling
<1>2. TypeOK'
  BY <1>1 DEF IInv, TypeOK, SuspendForBilling, Statuses, Reasons, Releases
<1>3. ASSUME NEW b \in Apps PROVE AppInv(b)'
  <2> USE DEF SuspendForBilling
  <2>1. CASE status[b] = "running" /\ Owner[b] = u
    <3>1. b \in hit
      BY <2>1 DEF Suspendable
    <3>2. /\ status'[b] = "suspended" /\ reason'[b] = "billing_insufficient"
          /\ suspendedAt'[b] /\ route'[b] = 0
      BY <3>1
    <3>3. /\ job'[b] = job[b] /\ stop'[b] = stop[b] /\ restore'[b] = restore[b]
          /\ last'[b] = last[b] /\ rel'[b] = rel[b]
      OBVIOUS
    <3>4. ~ActiveJob(b) /\ ~ActiveStop(b) /\ ~ActiveRestore(b)
      BY <2>1 DEF IInv, AppInv, OwnerInv
    <3>5. ~ActiveJob(b)' /\ ~ActiveStop(b)' /\ ~ActiveRestore(b)'
      BY <3>3, <3>4 DEF ActiveJob, ActiveStop, ActiveRestore
    <3>6. OwnerInv(b)' /\ ClockInv(b)' /\ TargetInv(b)'
      BY <3>2, <3>5 DEF OwnerInv, ClockInv, TargetInv
    <3>7. ReleaseInv(b)' /\ AbsentInv(b)'
      BY <3>2, <3>3 DEF IInv, AppInv, ReleaseInv, AbsentInv
    <3>8. BudgetInv(b)'
      BY <3>3 DEF IInv, AppInv, BudgetInv
    <3>9. HoldInv(b)'
      BY <1>1 DEF HoldInv, Busy
    <3> QED  BY <3>5, <3>6, <3>7, <3>8, <3>9 DEF AppInv
  <2>2. CASE ~(status[b] = "running" /\ Owner[b] = u)
    <3>1. b \notin hit
      BY <2>2 DEF Suspendable
    <3>2. route'[b] = route[b]
      BY <3>1 DEF IInv, AppInv, AbsentInv
    <3>3. Same(b)
      BY <3>1, <3>2 DEF Same, IInv, TypeOK
    <3> QED  BY <1>1, <3>3, Frame DEF Elsewhere
  <2> QED  BY <2>1, <2>2
<1> QED  BY <1>2, <1>3 DEF IInv

LEMMA RecoverFromBillingInv ==
  ASSUME IInv, NEW u \in Users, RecoverFromBilling(u)
  PROVE  IInv'
<1> USE DEF RecoverFromBilling
<1>1. ASSUME NEW b \in Apps
      PROVE  NewJob("billing_recovery", last[b]) \in Jobs
  BY <1>1 DEF NewJob, Jobs, JobStates, ActiveJobStates, Operations, IInv, TypeOK
<1>2. TypeOK'
  BY <1>1 DEF IInv, TypeOK, Statuses, Reasons
<1>3. ASSUME NEW b \in Apps PROVE AppInv(b)'
  <2>1. CASE /\ Owner[b] = u /\ status[b] = "suspended"
             /\ reason[b] = "billing_insufficient" /\ last[b] # 0 /\ ~ActiveJob(b)
    <3>1. /\ job'[b] = NewJob("billing_recovery", last[b])
          /\ status'[b] = "updating" /\ reason'[b] = "none"
      BY <2>1
    <3>2. ActiveJob(b)' /\ job'[b].op = "billing_recovery" /\ job'[b].rel = last[b]
      BY <3>1 DEF NewJob, ActiveJob, ActiveJobStates
    <3>3. OwnerInv(b)'
      BY <2>1, <3>1, <3>2 DEF IInv, AppInv, OwnerInv, ActiveStop, ActiveRestore
    <3>4. ClockInv(b)' /\ ReleaseInv(b)' /\ AbsentInv(b)'
      BY <2>1, <3>1, <3>2 DEF IInv, AppInv, ClockInv, ReleaseInv, AbsentInv
    <3>5. TargetInv(b)'
      BY <2>1, <3>2 DEF IInv, AppInv, AbsentInv, TargetInv, Recovery
    <3>6. BudgetInv(b)'
      BY <3>1 DEF NewJob, BudgetInv
    <3>7. HoldInv(b)'
      BY DEF Idle, HoldInv, Busy
    <3>8. ActiveStop(b)' => StopIdentityOK(b)'
      BY DEF IInv, AppInv, ActiveStop, StopIdentityOK
    <3> QED  BY <3>3, <3>4, <3>5, <3>6, <3>7, <3>8 DEF AppInv
  <2>2. CASE ~(/\ Owner[b] = u /\ status[b] = "suspended"
               /\ reason[b] = "billing_insufficient" /\ last[b] # 0 /\ ~ActiveJob(b))
    <3>1. Same(b)
      BY <2>2 DEF Same, IInv, TypeOK
    <3> QED  BY <3>1, Frame DEF Elsewhere
  <2> QED  BY <2>1, <2>2
<1> QED  BY <1>2, <1>3 DEF IInv

LEMMA RestartInv ==
  ASSUME IInv, Restart
  PROVE  IInv'
<1>1. TypeOK'
  BY DEF IInv, TypeOK, Restart, Resting, WorkerStates, rows
<1> QED  BY <1>1, QuietInv DEF Elsewhere, Restart, Resting

LEMMA UpdateSystemSettingsInv ==
  ASSUME IInv, UpdateSystemSettings
  PROVE  IInv'
<1>1. TypeOK'
  BY DEF IInv, TypeOK, UpdateSystemSettings, rows
<1> QED  BY <1>1, QuietInv DEF Elsewhere, UpdateSystemSettings

-----------------------------------------------------------------------------
LEMMA StutterInv ==
  ASSUME IInv, UNCHANGED vars
  PROVE  IInv'
<1>1. TypeOK'
  BY DEF IInv, TypeOK, vars, rows
<1> QED  BY <1>1, QuietInv DEF Elsewhere, vars

LEMMA RequestInv ==
  ASSUME IInv, NEW a \in Apps, Request(a)
  PROVE  IInv'
<1>1. CASE CreateApp(a)
  BY <1>1, CreateAppInv
<1>2. CASE CreateAppRelease(a) \/ RollbackApp(a)
  BY <1>2, CreateReleaseJobInv DEF CreateAppRelease, RollbackApp
<1>3. CASE StartApp(a)
  BY <1>3, StartAppInv
<1>4. CASE StopApp(a)
  BY <1>4, StopAppInv
<1>5. CASE RestoreAppBackup(a)
  BY <1>5, RestoreAppBackupInv
<1>6. CASE DeleteApp(a)
  BY <1>6, SoftDeleteInv DEF DeleteApp
<1> QED  BY <1>1, <1>2, <1>3, <1>4, <1>5, <1>6 DEF Request

LEMMA WorkInv ==
  ASSUME IInv, NEW a \in Apps, Work(a)
  PROVE  IInv'
<1>1. CASE ProcessOne(a) \/ MarkJobError(a)
  BY <1>1, ProcessOneInv, MarkJobErrorInv
<1>2. CASE ClaimStop(a) \/ StopContainer(a) \/ RetryStop(a) \/ FinishStop(a)
  BY <1>2, StopPendingInv, StopContainerInv, FinishStopInv
<1>3. CASE ClaimRestore(a) \/ FinishRestore(a)
  BY <1>3, ClaimRestoreInv, FinishRestoreInv
<1>4. CASE \/ ClaimDeletion(a) \/ DeleteContainers(a)
           \/ RequeueDeletion(a) \/ FinishDeletion(a)
  BY <1>4, DeletionInv
<1>5. CASE ExpireSuspended(a)
  BY <1>5, SoftDeleteInv DEF ExpireSuspended
<1>6. CASE \E r \in Releases : ReconcileContainer(a, r)
  BY <1>6, ReconcileContainerInv
<1> QED  BY <1>1, <1>2, <1>3, <1>4, <1>5, <1>6 DEF Work

LEMMA NextInv == IInv /\ [Next]_vars => IInv'
<1> SUFFICES ASSUME IInv, [Next]_vars PROVE IInv'
  OBVIOUS
<1>1. CASE \E a \in Apps : Request(a) \/ Work(a)
  BY <1>1, RequestInv, WorkInv
<1>2. CASE \E u \in Users : SuspendForBilling(u) \/ RecoverFromBilling(u)
  BY <1>2, SuspendForBillingInv, RecoverFromBillingInv
<1>3. CASE RemoveContainer
  BY <1>3, RemoveContainerInv
<1>4. CASE Restart
  BY <1>4, RestartInv
<1>5. CASE UpdateSystemSettings
  BY <1>5, UpdateSystemSettingsInv
<1>6. CASE UNCHANGED vars
  BY <1>6, StutterInv
<1> QED  BY <1>1, <1>2, <1>3, <1>4, <1>5, <1>6 DEF Next

(* IInv is an invariant of the specification.                               *)
THEOREM Invariance == Spec => []IInv
<1> QED  BY InitIInv, NextInv, PTL DEF Spec

(* The rows and the worker always have their types; in particular every      *)
(* container the worker sets out to remove belongs to a release that exists. *)
THEOREM TypeCorrect == Spec => []TypeOK
<1>1. IInv => TypeOK
  BY DEF IInv
<1> QED  BY <1>1, Invariance, PTL

(* Every unfinished task owns its application: what createReleaseJob,        *)
(* startApp, stopApp, restoreAppBackup and deleteApp check is sufficient.    *)
THEOREM TasksOwnStatus == Spec => []OneOwner
<1>1. IInv => OneOwner
  BY DEF IInv, AppInv, OneOwner
<1> QED  BY <1>1, Invariance, PTL

(* The last successful release is the one active release, and the only one   *)
(* a route can point to.                                                     *)
THEOREM OneActiveRelease == Spec => []ActiveRelease
<1>1. IInv => ActiveRelease
  BY DEF IInv, AppInv, ActiveRelease
<1> QED  BY <1>1, Invariance, PTL

(* A job deploys a new release or, if it is a recovery, the last successful. *)
THEOREM JobsHaveTarget == Spec => []JobTarget
<1>1. IInv => JobTarget
  BY DEF IInv, AppInv, JobTarget
<1> QED  BY <1>1, Invariance, PTL

(* No job uses more than its budget of health checks.                        *)
THEOREM ChecksAreBounded == Spec => []HealthBudget
<1>1. IInv => HealthBudget
  BY DEF IInv, AppInv, HealthBudget
<1> QED  BY <1>1, Invariance, PTL

(* The clock of the automatic deletion runs only while it should.            *)
THEOREM ClockIsRight == Spec => []SuspensionClock
<1>1. IInv => SuspensionClock
  BY DEF IInv, AppInv, SuspensionClock
<1> QED  BY <1>1, Invariance, PTL

(* No stop job is ever written whose container is not that of its release,   *)
(* which processStopOne would refuse on every retry.                         *)
THEOREM StopJobsAreValid == Spec => []StopIdentity
<1>1. IInv => StopIdentity
  BY DEF IInv, AppInv, StopIdentity
<1> QED  BY <1>1, Invariance, PTL

(* No handler takes the job the worker has in hand away from it.             *)
THEOREM WorkerIsUndisturbed == Spec => []WorkerHolds
<1>1. IInv => WorkerHolds
  BY DEF IInv, AppInv, WorkerHolds
<1> QED  BY <1>1, Invariance, PTL

-----------------------------------------------------------------------------
(* What routes point to.  Clean-ups work through lists of containers made    *)
(* before, so a routed container must never be on the list (PresentInv); and *)
(* only an application that a failed restore left behind, or none, has a     *)
(* route without running (RouteInv).                                         *)

\* Docker has the container, and the worker is not about to remove it.
Present(a, r) == r \in cont[a] /\ <<a, r>> \notin worker.doomed

RouteInv(a) ==
    /\ route[a] # 0 /\ a \notin degraded => status[a] \in {"running", "updating"}
    /\ ActiveJob(a) /\ job[a].op = "deploy" => last[a] = 0
    /\ ActiveJob(a) /\ job[a].op = "start" => route[a] = 0 \/ a \in degraded
    /\ deletion[a] # "none" => deleted[a]
    /\ worker \in {Busy("deleting", a), Busy("deleted", a)} => deleted[a]
    /\ worker.pc # "removing" => worker.doomed = {}

\* What holds as long as Docker answers the worker.
PassedInv(a) ==
    /\ route[a] # 0 => route[a] \in passed[a]
    /\ job[a].state = "switching_route" => job[a].rel \in passed[a]

PresentInv(a) ==
    /\ ~deleted[a] /\ route[a] # 0 /\ a \notin degraded => Present(a, route[a])
    /\ ~deleted[a] /\ job[a].state = "switching_route" => Present(a, job[a].rel)

RoutingInv == \A a \in Apps : RouteInv(a) /\ PassedInv(a) /\ PresentInv(a)

\* The worker does not turn to b's containers.
Spares(b) ==
    /\ \A r : <<b, r>> \in worker'.doomed => <<b, r>> \in worker.doomed
    /\ worker'.pc # "removing" => worker'.doomed = {}
    /\ worker' \in {Busy("deleting", b), Busy("deleted", b)} => deleted[b]

LEMMA InitRouting == Init => RoutingInv
  BY DEF Init, RoutingInv, RouteInv, PassedInv, PresentInv, ActiveJob, ActiveJobStates, Resting, Busy

LEMMA SparesQuietly ==
  ASSUME RoutingInv, NEW b \in Apps,
         \/ worker' = worker
         \/ worker' = Resting
         \/ \E pc \in {"marking", "stopping", "stopped", "restoring"}, c \in Apps :
                worker' = Busy(pc, c)
  PROVE  Spares(b)
<1>1. CASE worker' = worker
  BY <1>1 DEF RoutingInv, RouteInv, Spares
<1>2. CASE worker' = Resting
  BY <1>2 DEF Spares, Resting, Busy
<1>3. CASE \E pc \in {"marking", "stopping", "stopped", "restoring"}, c \in Apps :
               worker' = Busy(pc, c)
  BY <1>3 DEF Spares, Busy
<1> QED  BY <1>1, <1>2, <1>3

LEMMA SparesOthers ==
  ASSUME NEW b \in Apps, NEW cs, worker' = Removing(cs), \A r : <<b, r>> \notin cs
  PROVE  Spares(b)
  BY DEF Spares, Removing, Resting, Busy

LEMMA RouteFrame ==
  ASSUME RoutingInv, NEW b \in Apps, Same(b), Spares(b),
         deleted'[b] = deleted[b], deletion'[b] = deletion[b], cont'[b] = cont[b],
         passed'[b] = passed[b], b \in degraded' <=> b \in degraded
  PROVE  RouteInv(b)' /\ PassedInv(b)' /\ PresentInv(b)'
<1>1. RouteInv(b) /\ PassedInv(b) /\ PresentInv(b)
  BY DEF RoutingInv
<1>2. RouteInv(b)'
  BY <1>1 DEF RouteInv, Same, Spares, ActiveJob
<1>3. PassedInv(b)'
  BY <1>1 DEF PassedInv, Same
<1>4. PresentInv(b)'
  BY <1>1 DEF PresentInv, Present, Same, Spares
<1> QED  BY <1>2, <1>3, <1>4

LEMMA AdvancedFields ==
  ASSUME IInv, NEW a \in Apps, NEW s, job' = Advanced(a, s)
  PROVE  /\ job'[a].state = s /\ job'[a].op = job[a].op /\ job'[a].rel = job[a].rel
         /\ \A b \in Apps : b # a => job'[b] = job[b]
<1>1. job \in [Apps -> Jobs] /\ job[a] \in Jobs
  BY DEF IInv, TypeOK
<1>2. job'[a] = [job[a] EXCEPT !.state = s, !.attempts = @ + 1]
  BY <1>1 DEF Advanced
<1>3. \A b \in Apps : b # a => job'[b] = job[b]
  BY <1>1 DEF Advanced
<1> QED  BY <1>1, <1>2, <1>3 DEF Jobs

LEMMA CreateAppRouting ==
  ASSUME IInv, RoutingInv, NEW a \in Apps, CreateApp(a)
  PROVE  RoutingInv'
<1> USE DEF CreateApp
<1>1. ASSUME NEW b \in Apps, b # a PROVE RouteInv(b)' /\ PassedInv(b)' /\ PresentInv(b)'
  BY <1>1, RouteFrame, SparesQuietly DEF Same, IInv, TypeOK
<1>2. route'[a] = 0 /\ job'[a] = NewJob("deploy", 1) /\ last'[a] = 0
  BY DEF IInv, TypeOK, AppInv, AbsentInv, ReleaseInv
<1>3. RouteInv(a)' /\ PassedInv(a)' /\ PresentInv(a)'
  BY <1>2 DEF RoutingInv, RouteInv, PassedInv, PresentInv, NewJob, ActiveJob
<1> QED  BY <1>1, <1>3 DEF RoutingInv

LEMMA CreateReleaseJobRouting ==
  ASSUME IInv, RoutingInv, NEW a \in Apps, NEW op \in {"update", "rollback"},
         CreateReleaseJob(a, op)
  PROVE  RoutingInv'
<1> USE DEF CreateReleaseJob
<1>1. ASSUME NEW b \in Apps, b # a PROVE RouteInv(b)' /\ PassedInv(b)' /\ PresentInv(b)'
  BY <1>1, RouteFrame, SparesQuietly DEF Same, IInv, TypeOK
<1>2. PICK r \in Releases : job'[a] = NewJob(op, r)
  BY DEF IInv, TypeOK
<1>3. job'[a].state = "queued" /\ job'[a].op = op /\ status'[a] = "updating"
  BY <1>2 DEF NewJob, IInv, TypeOK
<1>4. RouteInv(a)'
  BY <1>3 DEF RoutingInv, RouteInv
<1>5. PassedInv(a)' /\ PresentInv(a)'
  BY <1>3 DEF RoutingInv, PassedInv, PresentInv, Present
<1> QED  BY <1>1, <1>4, <1>5 DEF RoutingInv

LEMMA StartAppRouting ==
  ASSUME IInv, RoutingInv, NEW a \in Apps, StartApp(a)
  PROVE  RoutingInv'
<1> USE DEF StartApp
<1>1. ASSUME NEW b \in Apps, b # a PROVE RouteInv(b)' /\ PassedInv(b)' /\ PresentInv(b)'
  BY <1>1, RouteFrame, SparesQuietly DEF Same, IInv, TypeOK
<1>2. PICK r \in Releases : job'[a] = NewJob("start", r)
  BY DEF IInv, TypeOK
<1>3. job'[a].state = "queued" /\ job'[a].op = "start" /\ status'[a] = "updating"
  BY <1>2 DEF NewJob, IInv, TypeOK
<1>4. route[a] = 0 \/ a \in degraded
  BY DEF RoutingInv, RouteInv
<1>5. RouteInv(a)'
  BY <1>3, <1>4 DEF RoutingInv, RouteInv
<1>6. PassedInv(a)' /\ PresentInv(a)'
  BY <1>3 DEF RoutingInv, PassedInv, PresentInv, Present
<1> QED  BY <1>1, <1>5, <1>6 DEF RoutingInv

\* A route that is closed.
LEMMA ClosedRouting ==
  ASSUME IInv, RoutingInv, NEW a \in Apps, StopApp(a) \/ (SoftDelete(a) /\ ~ActiveJob(a))
  PROVE  RoutingInv'
<1>1. ASSUME NEW b \in Apps, b # a PROVE RouteInv(b)' /\ PassedInv(b)' /\ PresentInv(b)'
  <2>1. Same(b) /\ deleted'[b] = deleted[b] /\ deletion'[b] = deletion[b]
    BY <1>1 DEF StopApp, SoftDelete, Same, IInv, TypeOK
  <2> QED
    BY <1>1, <2>1, RouteFrame, SparesQuietly DEF StopApp, SoftDelete
<1>2. route'[a] = 0 /\ job'[a] = job[a] /\ ~ActiveJob(a)
  BY DEF StopApp, SoftDelete, IInv, TypeOK
<1>3. worker' = worker /\ degraded' = degraded
  BY DEF StopApp, SoftDelete
<1>4. deletion'[a] # "none" => deleted'[a]
  BY DEF StopApp, SoftDelete, IInv, TypeOK, RoutingInv, RouteInv
<1>5. deleted[a] => deleted'[a]
  BY DEF StopApp, SoftDelete, IInv, TypeOK
<1>6. RouteInv(a)'
  BY <1>2, <1>3, <1>4, <1>5 DEF RoutingInv, RouteInv, ActiveJob
<1>7. PassedInv(a)' /\ PresentInv(a)'
  BY <1>2 DEF PassedInv, PresentInv, ActiveJob, ActiveJobStates
<1> QED  BY <1>1, <1>6, <1>7 DEF RoutingInv

LEMMA RestoreAppBackupRouting ==
  ASSUME IInv, RoutingInv, NEW a \in Apps, RestoreAppBackup(a)
  PROVE  RoutingInv'
<1> USE DEF RestoreAppBackup
<1>1. ASSUME NEW b \in Apps, b # a PROVE RouteInv(b)' /\ PassedInv(b)' /\ PresentInv(b)'
  BY <1>1, RouteFrame, SparesQuietly DEF Same, IInv, TypeOK
<1>2. status'[a] = "updating"
  BY DEF IInv, TypeOK
<1>3. RouteInv(a)' /\ PassedInv(a)' /\ PresentInv(a)'
  BY <1>2 DEF RoutingInv, RouteInv, PassedInv, PresentInv, Present, ActiveJob
<1> QED  BY <1>1, <1>3 DEF RoutingInv

\* The worker turns to a job, or back to its loop, and no row changes.
LEMMA QuietRouting ==
  ASSUME RoutingInv, UNCHANGED <<rows, passed, degraded, cont>>, \A b \in Apps : Spares(b)
  PROVE  RoutingInv'
<1>1. ASSUME NEW b \in Apps PROVE RouteInv(b)' /\ PassedInv(b)' /\ PresentInv(b)'
  BY RouteFrame DEF Same, rows
<1> QED  BY <1>1 DEF RoutingInv

\* A job that goes on in its own application.
LEMMA AdvanceRouting ==
  ASSUME IInv, RoutingInv, NEW a \in Apps, ActiveJob(a),
         NEW s \in ActiveJobStates \ {"switching_route"}, job' = Advanced(a, s),
         cont'[a] \in SUBSET Releases, cont[a] \subseteq cont'[a],
         \A b \in Apps : b # a => rel'[b] = rel[b] /\ cont'[b] = cont[b],
         UNCHANGED <<status, reason, suspendedAt, deleted, last, stop, restore,
                     deletion, route, worker, passed, degraded>>
  PROVE  RoutingInv'
<1>1. /\ job'[a].state = s /\ job'[a].op = job[a].op
      /\ \A b \in Apps : b # a => job'[b] = job[b]
  BY AdvancedFields
<1>2. ASSUME NEW b \in Apps, b # a PROVE RouteInv(b)' /\ PassedInv(b)' /\ PresentInv(b)'
  BY <1>1, <1>2, RouteFrame, SparesQuietly DEF Same
<1>3. RouteInv(a)'
  BY <1>1 DEF RoutingInv, RouteInv, ActiveJob
<1>4. PassedInv(a)' /\ PresentInv(a)'
  BY <1>1 DEF RoutingInv, PassedInv, PresentInv, Present
<1> QED  BY <1>2, <1>3, <1>4 DEF RoutingInv

\* A container more does no harm, nor does an error that is still to be recorded.
LEMMA ErrorRouting ==
  ASSUME IInv, RoutingInv, NEW a \in Apps, cont[a] \subseteq cont'[a],
         \A b \in Apps : b # a => cont'[b] = cont[b],
         UNCHANGED <<rows, passed, degraded>>,
         worker' = worker \/ worker' = Busy("marking", a)
  PROVE  RoutingInv'
<1>1. ASSUME NEW b \in Apps PROVE Spares(b)
  BY SparesQuietly
<1>2. ASSUME NEW b \in Apps, b # a PROVE RouteInv(b)' /\ PassedInv(b)' /\ PresentInv(b)'
  BY <1>1, <1>2, RouteFrame DEF Same, rows
<1>3. RouteInv(a)' /\ PassedInv(a)' /\ PresentInv(a)'
  BY <1>1 DEF RoutingInv, RouteInv, PassedInv, PresentInv, Present, Spares, ActiveJob, rows
<1> QED  BY <1>2, <1>3 DEF RoutingInv

LEMMA JobStepRouting ==
  ASSUME IInv, RoutingInv, engine, Idle, NEW a \in Apps,
         JobQueued(a) \/ JobPull(a) \/ JobStart(a)
  PROVE  RoutingInv'
<1>1. /\ cont[a] \subseteq cont'[a] /\ cont'[a] \in SUBSET Releases
      /\ \A b \in Apps : b # a => cont'[b] = cont[b]
  <2>1. job[a].rel \in Releases
    <3>1. ActiveJob(a)
      BY DEF JobQueued, JobPull, JobStart, ActiveJob, ActiveJobStates
    <3> QED  BY <3>1 DEF IInv, AppInv, TypeOK, Jobs, TargetInv, Releases
  <2>2. cont' = cont \/ cont' = [cont EXCEPT ![a] = @ \cup {job[a].rel}]
    BY DEF JobQueued, JobPull, JobStart
  <2> QED  BY <2>1, <2>2 DEF IInv, TypeOK
<1>2. CASE \E s \in {"pulling", "starting", "health_checking"} :
               /\ job' = Advanced(a, s)
               /\ UNCHANGED <<status, reason, suspendedAt, deleted, last, rel, stop, restore,
                              deletion, route, worker, engine, domain, passed, degraded>>
  <2>1. ActiveJob(a)
    BY DEF JobQueued, JobPull, JobStart, ActiveJob, ActiveJobStates
  <2>2. PICK s \in {"pulling", "starting", "health_checking"} : job' = Advanced(a, s)
    BY <1>2
  <2> QED
    BY <1>1, <1>2, <2>1, <2>2, AdvanceRouting DEF ActiveJobStates
<1>3. CASE UNCHANGED <<rows, passed, degraded>> /\ (worker' = worker \/ worker' = Busy("marking", a))
  BY <1>1, <1>3, ErrorRouting
<1> QED  BY <1>2, <1>3 DEF JobQueued, JobPull, JobStart, JobError

LEMMA JobCheckRouting ==
  ASSUME IInv, RoutingInv, engine, Idle, NEW a \in Apps, JobCheck(a)
  PROVE  RoutingInv'
<1>1. ActiveJob(a) /\ cont' = cont /\ worker.doomed = {}
  BY DEF JobCheck, ActiveJob, ActiveJobStates, Idle, RoutingInv, RouteInv
<1>2. cont[a] \in SUBSET Releases
  BY DEF IInv, TypeOK
<1>3. CASE JobError(a)
  BY <1>1, <1>3, ErrorRouting DEF JobError
<1>4. CASE /\ job[a].rel \in cont[a]
           /\ job' = Advanced(a, "switching_route")
           /\ passed' = [passed EXCEPT ![a] = @ \cup {job[a].rel}]
           /\ UNCHANGED <<status, reason, suspendedAt, deleted, last, rel, stop,
                          restore, deletion, route, worker, degraded>>
  <2>1. /\ job'[a].state = "switching_route" /\ job'[a].op = job[a].op /\ job'[a].rel = job[a].rel
        /\ \A b \in Apps : b # a => job'[b] = job[b]
    BY <1>4, AdvancedFields
  <2>2. ASSUME NEW b \in Apps, b # a PROVE RouteInv(b)' /\ PassedInv(b)' /\ PresentInv(b)'
    <3>1. passed'[b] = passed[b]
      BY <1>4, <2>2 DEF IInv, TypeOK
    <3> QED  BY <1>1, <1>4, <2>1, <2>2, <3>1, RouteFrame, SparesQuietly DEF Same
  <2>3. RouteInv(a)'
    BY <1>1, <1>4, <2>1 DEF RoutingInv, RouteInv, ActiveJob
  <2>4. PassedInv(a)'
    BY <1>4, <2>1 DEF IInv, TypeOK, RoutingInv, PassedInv
  <2>5. PresentInv(a)'
    BY <1>1, <1>4, <2>1 DEF RoutingInv, PresentInv, Present
  <2> QED  BY <2>2, <2>3, <2>4, <2>5 DEF RoutingInv
<1>5. CASE /\ job' = Advanced(a, UnhealthyNext(job[a].attempts))
           /\ rel' = IF UnhealthyNext(job[a].attempts) = "rolling_back" THEN ReleaseFailed(a) ELSE rel
           /\ UNCHANGED <<status, reason, suspendedAt, deleted, last, stop,
                          restore, deletion, route, worker, engine, domain, passed, degraded>>
  <2>1. \A b \in Apps : b # a => rel'[b] = rel[b]
    BY <1>5 DEF ReleaseFailed, IInv, TypeOK
  <2>2. UnhealthyNext(job[a].attempts) \in ActiveJobStates \ {"switching_route"}
    BY DEF UnhealthyNext, ActiveJobStates
  <2> QED  BY <1>1, <1>2, <1>5, <2>1, <2>2, AdvanceRouting
<1> QED  BY <1>3, <1>4, <1>5 DEF JobCheck

LEMMA JobSwitchRouting ==
  ASSUME IInv, RoutingInv, engine, Idle, NEW a \in Apps, JobSwitch(a)
  PROVE  RoutingInv'
<1> DEFINE r == job[a].rel
           old == IF route[a] \in {0, r} THEN {} ELSE {<<a, route[a]>>}
<1>1. /\ job'[a].state = "succeeded" /\ \A b \in Apps : b # a => job'[b] = job[b]
  BY AdvancedFields DEF JobSwitch
<1>2. worker' = Removing(old) /\ \A q : <<a, q>> \in old => q = route[a] /\ q # r
  BY DEF JobSwitch
<1>3. ASSUME NEW b \in Apps, b # a PROVE RouteInv(b)' /\ PassedInv(b)' /\ PresentInv(b)'
  <2>1. Spares(b)
    BY <1>2, <1>3, SparesOthers
  <2>2. Same(b)
    BY <1>1, <1>3 DEF Same, JobSwitch, IInv, TypeOK
  <2> QED
    BY <1>3, <2>1, <2>2, RouteFrame DEF JobSwitch, IInv, TypeOK
<1>4. /\ route'[a] = r /\ status'[a] = "running" /\ last'[a] = r
      /\ deleted' = deleted /\ deletion' = deletion /\ cont' = cont /\ passed' = passed
  BY DEF JobSwitch, IInv, TypeOK
<1>5. /\ worker'.pc # "removing" => worker'.doomed = {}
      /\ worker'.pc \in {"idle", "removing"}
      /\ <<a, r>> \notin worker'.doomed
  BY <1>2 DEF Removing, Resting
<1>6. RouteInv(a)'
  BY <1>1, <1>4, <1>5 DEF RoutingInv, RouteInv, ActiveJob, ActiveJobStates, Busy
<1>7. PassedInv(a)'
  BY <1>1, <1>4 DEF RoutingInv, PassedInv, JobSwitch
<1>8. PresentInv(a)'
  BY <1>1, <1>4, <1>5 DEF RoutingInv, PresentInv, Present, JobSwitch
<1> QED  BY <1>3, <1>6, <1>7, <1>8 DEF RoutingInv

LEMMA FailJobRouting ==
  ASSUME IInv, RoutingInv, NEW a \in Apps, FailJob(a), ActiveJob(a),
         rel' = ReleaseFailed(a) \/ rel' = rel
  PROVE  RoutingInv'
<1>1. /\ job'[a].state = "failed" /\ \A b \in Apps : b # a => job'[b] = job[b]
  BY AdvancedFields DEF FailJob
<1>2. worker' = Removing({<<a, job[a].rel>>})
  BY DEF FailJob
<1>3. ASSUME NEW b \in Apps, b # a PROVE RouteInv(b)' /\ PassedInv(b)' /\ PresentInv(b)'
  <2>1. Spares(b)
    <3>1. \A r : <<b, r>> \notin {<<a, job[a].rel>>}
      BY <1>3
    <3> QED  BY <1>2, <3>1, SparesOthers
  <2>2. Same(b)
    BY <1>1, <1>3 DEF Same, FailJob, ReleaseFailed, IInv, TypeOK
  <2> QED
    BY <1>3, <2>1, <2>2, RouteFrame DEF FailJob
<1>4. route[a] = 0 \/ route[a] # job[a].rel
  BY DEF IInv, AppInv, TargetInv, ReleaseInv
<1>5. /\ worker'.pc # "removing" => worker'.doomed = {}
      /\ worker'.pc \in {"idle", "removing"}
      /\ route[a] # 0 => <<a, route[a]>> \notin worker'.doomed
  BY <1>2, <1>4 DEF Removing, Resting
<1>6. /\ status'[a] = FailureStatus(job[a].op, last[a] # 0)
      /\ UNCHANGED <<deleted, last, deletion, route, cont, passed, degraded>>
  BY DEF FailJob, IInv, TypeOK
<1>7. route[a] # 0 /\ a \notin degraded => status'[a] = "running"
  <2>1. route[a] # 0 /\ a \notin degraded => ~Recovery(job[a].op) /\ job[a].op # "start" /\ last[a] # 0
    BY DEF IInv, AppInv, TargetInv, ReleaseInv, RoutingInv, RouteInv
  <2> QED  BY <1>6, <2>1 DEF FailureStatus
<1>8. RouteInv(a)'
  BY <1>1, <1>5, <1>6, <1>7 DEF RoutingInv, RouteInv, ActiveJob, ActiveJobStates, Busy
<1>9. PassedInv(a)'
  BY <1>1, <1>6 DEF RoutingInv, PassedInv
<1>10. PresentInv(a)'
  BY <1>1, <1>5, <1>6 DEF RoutingInv, PresentInv, Present
<1> QED  BY <1>3, <1>8, <1>9, <1>10 DEF RoutingInv

LEMMA RemoveContainerRouting ==
  ASSUME IInv, RoutingInv, RemoveContainer
  PROVE  RoutingInv'
<1>1. PICK c \in worker.doomed :
          /\ worker' = Removing(worker.doomed \ {c})
          /\ \/ cont' = [cont EXCEPT ![c[1]] = @ \ {c[2]}]
             \/ UNCHANGED cont
  BY DEF RemoveContainer
<1>2. c \in Apps \X Releases
  BY <1>1 DEF IInv, TypeOK, WorkerStates
<1>3. /\ worker'.pc # "removing" => worker'.doomed = {}
      /\ worker'.pc \in {"idle", "removing"}
      /\ worker'.doomed \subseteq worker.doomed
  BY <1>1 DEF Removing, Resting
<1>4. ASSUME NEW b \in Apps PROVE RouteInv(b)' /\ PassedInv(b)' /\ PresentInv(b)'
  <2>1. \A r : r \in cont[b] /\ <<b, r>> \notin worker.doomed => r \in cont'[b]
    <3>1. PICK x \in Apps, y \in Releases : c = <<x, y>>
      BY <1>2
    <3>2. CASE cont' = [cont EXCEPT ![c[1]] = @ \ {c[2]}]
      <4>1. cont' = [cont EXCEPT ![x] = cont[x] \ {y}]
        BY <3>1, <3>2
      <4>2. b = x => cont'[b] = cont[b] \ {y}
        BY <4>1 DEF IInv, TypeOK
      <4>3. b # x => cont'[b] = cont[b]
        BY <4>1 DEF IInv, TypeOK
      <4> QED  BY <1>1, <3>1, <4>2, <4>3
    <3> QED  BY <1>1, <3>2
  <2>2. UNCHANGED <<rows, passed, degraded>>
    BY DEF RemoveContainer
  <2>3. RouteInv(b)'
    BY <1>3, <2>2 DEF RoutingInv, RouteInv, ActiveJob, Busy, rows
  <2>4. PassedInv(b)'
    BY <2>2 DEF RoutingInv, PassedInv, rows
  <2>5. PresentInv(b)'
    BY <1>3, <2>1, <2>2 DEF RoutingInv, PresentInv, Present, rows
  <2> QED  BY <2>3, <2>4, <2>5
<1> QED  BY <1>4 DEF RoutingInv

\* An application that is stopping has neither a route nor a deployment.
LEMMA StopRouting ==
  ASSUME IInv, RoutingInv, NEW a \in Apps,
         ClaimStop(a) \/ StopContainer(a) \/ RetryStop(a) \/ FinishStop(a)
  PROVE  RoutingInv'
<1>1. ActiveStop(a) /\ status[a] = "stopping" /\ ~ActiveJob(a)
  BY DEF ClaimStop, StopContainer, RetryStop, FinishStop, IInv, AppInv, HoldInv, OwnerInv, ActiveStop
<1>2. worker' = Resting \/ \E pc \in {"stopping", "stopped"} : worker' = Busy(pc, a)
  BY DEF ClaimStop, StopContainer, RetryStop, FinishStop
<1>3. \A b \in Apps : Spares(b)
  BY <1>2, SparesQuietly
<1>4. UNCHANGED <<suspendedAt, deleted, last, rel, job, restore, deletion, route, engine, domain,
                  passed, degraded>>
  BY DEF ClaimStop, StopContainer, RetryStop, FinishStop, rows
<1>5. ASSUME NEW b \in Apps, b # a PROVE RouteInv(b)' /\ PassedInv(b)' /\ PresentInv(b)'
  <2>1. Same(b) /\ cont'[b] = cont[b]
    <3>1. status'[b] = status[b]
      BY <1>5 DEF ClaimStop, StopContainer, RetryStop, FinishStop, rows, IInv, TypeOK
    <3>2. reason'[b] = reason[b]
      BY <1>5 DEF ClaimStop, StopContainer, RetryStop, FinishStop, rows, IInv, TypeOK
    <3>3. stop'[b] = stop[b] /\ cont'[b] = cont[b]
      BY <1>5 DEF ClaimStop, StopContainer, RetryStop, FinishStop, rows, IInv, TypeOK
    <3> QED  BY <1>4, <3>1, <3>2, <3>3 DEF Same
  <2> QED  BY <1>3, <1>4, <2>1, RouteFrame
<1>6. route[a] = 0 \/ a \in degraded
  BY <1>1 DEF RoutingInv, RouteInv
<1>7. RouteInv(a)'
  BY <1>1, <1>3, <1>4, <1>6 DEF RoutingInv, RouteInv, Spares, ActiveJob
<1>8. PassedInv(a)' /\ PresentInv(a)'
  BY <1>1, <1>4, <1>6 DEF RoutingInv, PassedInv, PresentInv, ActiveJob, ActiveJobStates
<1> QED  BY <1>5, <1>7, <1>8 DEF RoutingInv

LEMMA RestoreRouting ==
  ASSUME IInv, RoutingInv, NEW a \in Apps, ClaimRestore(a) \/ FinishRestore(a)
  PROVE  RoutingInv'
<1>1. \A b \in Apps : Spares(b)
  BY SparesQuietly DEF ClaimRestore, FinishRestore
<1>2. UNCHANGED <<reason, suspendedAt, deleted, last, rel, job, stop, deletion, route, cont, passed>>
  BY DEF ClaimRestore, FinishRestore
<1>3. ASSUME NEW b \in Apps, b # a PROVE RouteInv(b)' /\ PassedInv(b)' /\ PresentInv(b)'
  <2>1. status'[b] = status[b] /\ restore'[b] = restore[b]
    BY <1>3 DEF ClaimRestore, FinishRestore, IInv, TypeOK
  <2>2. b \in degraded' <=> b \in degraded
    BY <1>3 DEF ClaimRestore, FinishRestore
  <2> QED  BY <1>1, <1>2, <2>1, <2>2, RouteFrame DEF Same
<1>4. degraded \subseteq degraded'
  BY DEF ClaimRestore, FinishRestore
<1>5. a \in degraded' \/ status'[a] \in {status[a], "running"}
  BY DEF ClaimRestore, FinishRestore, RestoredStatus, IInv, TypeOK
<1>6. RouteInv(a)'
  BY <1>1, <1>2, <1>4, <1>5 DEF RoutingInv, RouteInv, Spares, ActiveJob
<1>7. PassedInv(a)' /\ PresentInv(a)'
  BY <1>1, <1>2, <1>4 DEF RoutingInv, PassedInv, PresentInv, Present, Spares
<1> QED  BY <1>3, <1>6, <1>7 DEF RoutingInv

LEMMA DeletionRouting ==
  ASSUME IInv, RoutingInv, NEW a \in Apps,
         \/ ClaimDeletion(a) \/ DeleteContainers(a)
         \/ RequeueDeletion(a) \/ FinishDeletion(a)
  PROVE  RoutingInv'
<1>1. deleted[a]
  BY DEF ClaimDeletion, DeleteContainers, RequeueDeletion, FinishDeletion, RoutingInv, RouteInv
<1>2. worker' = Resting \/ worker' = Busy("deleting", a) \/ worker' = Busy("deleted", a)
  BY DEF ClaimDeletion, DeleteContainers, RequeueDeletion, FinishDeletion
<1>3. \A b \in Apps : Spares(b)
  BY <1>1, <1>2 DEF Spares, Resting, Busy
<1>4. UNCHANGED <<status, reason, suspendedAt, deleted, last, rel, job, stop, restore, route,
                  passed, degraded>>
  BY DEF ClaimDeletion, DeleteContainers, RequeueDeletion, FinishDeletion, rows
<1>5. ASSUME NEW b \in Apps, b # a PROVE RouteInv(b)' /\ PassedInv(b)' /\ PresentInv(b)'
  <2>1. deletion'[b] = deletion[b] /\ cont'[b] = cont[b]
    BY <1>5 DEF ClaimDeletion, DeleteContainers, RequeueDeletion, FinishDeletion, rows, IInv, TypeOK
  <2> QED  BY <1>3, <1>4, <2>1, RouteFrame DEF Same
<1>6. RouteInv(a)'
  BY <1>1, <1>3, <1>4 DEF RoutingInv, RouteInv, Spares, ActiveJob
<1>7. PassedInv(a)' /\ PresentInv(a)'
  BY <1>1, <1>4 DEF RoutingInv, PassedInv, PresentInv
<1> QED  BY <1>5, <1>6, <1>7 DEF RoutingInv

\* reconcileRuntimeContainers keeps what is routed or being deployed.
LEMMA ReconcileRouting ==
  ASSUME IInv, RoutingInv, NEW a \in Apps, NEW r \in Releases, ReconcileContainer(a, r)
  PROVE  RoutingInv'
<1>1. worker' = Removing({<<a, r>>}) /\ UNCHANGED <<rows, cont, passed, degraded>>
  BY DEF ReconcileContainer
<1>2. ASSUME NEW b \in Apps, b # a PROVE RouteInv(b)' /\ PassedInv(b)' /\ PresentInv(b)'
  <2>1. \A q : <<b, q>> \notin {<<a, r>>}
    BY <1>2
  <2>2. Spares(b)
    BY <1>1, <2>1, SparesOthers
  <2> QED  BY <1>1, <2>2, RouteFrame DEF Same, rows
<1>3. /\ route[a] = r => route[a] = 0 \/ a \in degraded
      /\ job[a].state = "switching_route" => job[a].rel # r
  BY DEF ReconcileContainer, Keep, RoutingInv, RouteInv, IInv, AppInv, OwnerInv, ActiveJob,
     ActiveJobStates
<1>4. /\ worker'.pc # "removing" => worker'.doomed = {}
      /\ worker'.pc \in {"idle", "removing"}
      /\ \A q : <<a, q>> \in worker'.doomed => q = r
  BY <1>1 DEF Removing, Resting
<1>5. RouteInv(a)' /\ PassedInv(a)'
  <2>1. RouteInv(a) /\ PassedInv(a)
    BY DEF RoutingInv
  <2>2. worker' \notin {Busy("deleting", a), Busy("deleted", a)}
    BY <1>4 DEF Busy
  <2>3. RouteInv(a)'
    BY <1>1, <1>4, <2>1, <2>2 DEF RouteInv, ActiveJob, rows
  <2> QED  BY <1>1, <2>1, <2>3 DEF PassedInv, rows
<1>6. PresentInv(a)'
  BY <1>1, <1>3, <1>4 DEF RoutingInv, PresentInv, Present, rows
<1> QED  BY <1>2, <1>5, <1>6 DEF RoutingInv

LEMMA SuspendRouting ==
  ASSUME IInv, RoutingInv, NEW u \in Users, SuspendForBilling(u)
  PROVE  RoutingInv'
<1> DEFINE hit == Suspendable(u)
<1>1. /\ worker' = Removing(RoutedContainers(hit))
      /\ UNCHANGED <<deleted, last, rel, job, stop, restore, deletion, cont, passed, degraded>>
  BY DEF SuspendForBilling
<1>2. ASSUME NEW b \in Apps PROVE RouteInv(b)' /\ PassedInv(b)' /\ PresentInv(b)'
  <2>1. CASE b \in hit
    <3>1. route'[b] = 0
      BY <2>1 DEF SuspendForBilling
    <3>2. ~ActiveJob(b)
      BY <2>1 DEF Suspendable, IInv, AppInv, OwnerInv
    <3>3. /\ worker'.pc # "removing" => worker'.doomed = {}
          /\ worker'.pc \in {"idle", "removing"}
      BY <1>1 DEF Removing, Resting
    <3>4. RouteInv(b)'
      BY <1>1, <3>1, <3>2, <3>3 DEF RoutingInv, RouteInv, ActiveJob, Busy
    <3>5. PassedInv(b)' /\ PresentInv(b)'
      BY <1>1, <3>1, <3>2 DEF PassedInv, PresentInv, ActiveJob, ActiveJobStates
    <3> QED  BY <3>4, <3>5
  <2>2. CASE b \notin hit
    <3>1. \A r : <<b, r>> \notin RoutedContainers(hit)
      BY <2>2 DEF RoutedContainers
    <3>2. Spares(b)
      BY <1>1, <3>1, SparesOthers
    <3>3. route'[b] = route[b]
      BY <2>2 DEF SuspendForBilling, IInv, AppInv, AbsentInv
    <3>4. Same(b)
      BY <1>1, <2>2, <3>3 DEF SuspendForBilling, Same, IInv, TypeOK
    <3> QED  BY <1>1, <3>2, <3>4, RouteFrame
  <2> QED  BY <2>1, <2>2
<1> QED  BY <1>2 DEF RoutingInv

LEMMA RecoverRouting ==
  ASSUME IInv, RoutingInv, NEW u \in Users, RecoverFromBilling(u)
  PROVE  RoutingInv'
<1> USE DEF RecoverFromBilling
<1>1. ASSUME NEW b \in Apps PROVE RouteInv(b)' /\ PassedInv(b)' /\ PresentInv(b)'
  <2>1. CASE job'[b] = job[b] /\ status'[b] = status[b] /\ reason'[b] = reason[b]
    BY <2>1, RouteFrame, SparesQuietly DEF Same
  <2>2. CASE job'[b] = NewJob("billing_recovery", last[b]) /\ status[b] = "suspended"
    <3>1. job'[b].state = "queued" /\ job'[b].op = "billing_recovery" /\ route[b] = 0
      BY <2>2 DEF NewJob, IInv, AppInv, AbsentInv
    <3>2. UNCHANGED <<deleted, last, deletion, route, cont, worker, passed, degraded>>
      OBVIOUS
    <3>3. RouteInv(b)'
      BY <3>1, <3>2 DEF RoutingInv, RouteInv
    <3>4. PassedInv(b)' /\ PresentInv(b)'
      BY <3>1, <3>2 DEF PassedInv, PresentInv
    <3> QED  BY <3>3, <3>4
  <2> QED  BY <2>1, <2>2
<1> QED  BY <1>1 DEF RoutingInv

LEMMA NextRouting ==
  ASSUME IInv, RoutingInv, engine, [Next]_vars
  PROVE  RoutingInv'
<1>1. ASSUME NEW a \in Apps, Request(a) PROVE RoutingInv'
  <2>1. CASE CreateAppRelease(a) \/ RollbackApp(a)
    BY <2>1, CreateReleaseJobRouting DEF CreateAppRelease, RollbackApp
  <2>2. CASE StopApp(a) \/ DeleteApp(a)
    BY <2>2, ClosedRouting DEF DeleteApp
  <2> QED
    BY <1>1, <2>1, <2>2, CreateAppRouting, StartAppRouting, RestoreAppBackupRouting DEF Request
<1>2. ASSUME NEW a \in Apps, ProcessOne(a) PROVE RoutingInv'
  <2>1. CASE JobRollback(a)
    BY <2>1, FailJobRouting DEF JobRollback, ActiveJob, ActiveJobStates
  <2> QED
    BY <1>2, <2>1, JobStepRouting, JobCheckRouting, JobSwitchRouting DEF ProcessOne
<1>3. ASSUME NEW a \in Apps, MarkJobError(a) PROVE RoutingInv'
  BY <1>3, FailJobRouting DEF MarkJobError
<1>4. ASSUME NEW a \in Apps, ExpireSuspended(a) PROVE RoutingInv'
  BY <1>4, ClosedRouting DEF ExpireSuspended
<1>5. ASSUME NEW a \in Apps, Work(a) PROVE RoutingInv'
  BY <1>2, <1>3, <1>4, <1>5, StopRouting, RestoreRouting, DeletionRouting, ReconcileRouting DEF Work
<1>6. ASSUME Restart \/ UpdateSystemSettings \/ UNCHANGED vars PROVE RoutingInv'
  BY <1>6, QuietRouting, SparesQuietly DEF Restart, UpdateSystemSettings, vars
<1> QED
  BY <1>1, <1>5, <1>6, RemoveContainerRouting, SuspendRouting, RecoverRouting DEF Next

(* As long as Docker answers whenever the worker starts, a route points only *)
(* at a release that passed its health check, as docs/state-machines.md      *)
(* says: through failures of Docker calls, crashes and recoveries.           *)
THEOREM RoutesPassedHealth == Spec /\ []engine => []RoutePassedHealth
<1>1. IInv /\ RoutingInv /\ engine /\ [Next]_vars => RoutingInv'
  BY NextRouting
<1>2. RoutingInv => RoutePassedHealth
  BY DEF RoutingInv, PassedInv, RoutePassedHealth
<1> QED  BY <1>1, <1>2, InitRouting, Invariance, PTL DEF Spec

(* And no clean-up takes away the container of an application that the       *)
(* router forwards to.                                                       *)
THEOREM RoutedContainersAreKept == Spec /\ []engine => []RoutedContainerKept
<1>1. IInv /\ RoutingInv /\ engine /\ [Next]_vars => RoutingInv'
  BY NextRouting
<1>2. RoutingInv => RoutedContainerKept
  BY DEF RoutingInv, PresentInv, Present, Routable, RoutedContainerKept
<1> QED  BY <1>1, <1>2, InitRouting, Invariance, PTL DEF Spec

-----------------------------------------------------------------------------
(* History: what a step may do to releases and finished jobs.                *)

HistoryOf(a) ==
    /\ \A r \in Releases :
        rel'[a][r] # rel[a][r] => <<rel[a][r], rel'[a][r]>> \in ReleaseSteps
    /\ ~ActiveJob(a) /\ job'[a] # job[a] => job'[a].state = "queued" /\ job'[a].attempts = 0

LEMMA HistoryFrame ==
  ASSUME NEW b \in Apps, rel'[b] = rel[b], job'[b] = job[b]
  PROVE  HistoryOf(b)
  BY DEF HistoryOf

\* A new release and its job, or a recovery job without one.
LEMMA NewJobHistory ==
  ASSUME IInv, NEW a \in Apps, NEW op, NEW r \in Releases, rel[a][r] = "none",
         rel' = [rel EXCEPT ![a][r] = "created"], job' = [job EXCEPT ![a] = NewJob(op, r)]
  PROVE  \A b \in Apps : HistoryOf(b)
<1>1. ASSUME NEW b \in Apps, b # a PROVE HistoryOf(b)
  BY <1>1, HistoryFrame DEF IInv, TypeOK
<1>2. rel'[a] = [rel[a] EXCEPT ![r] = "created"] /\ job'[a] = NewJob(op, r)
  BY DEF IInv, TypeOK
<1>3. HistoryOf(a)
  BY <1>2 DEF HistoryOf, IInv, TypeOK, NewJob, ReleaseSteps
<1> QED  BY <1>1, <1>3

LEMMA RequestHistory ==
  ASSUME IInv, NEW a \in Apps, Request(a)
  PROVE  \A b \in Apps : HistoryOf(b)
<1>1. CASE CreateApp(a)
  <2>1. 1 \in Releases /\ rel[a][1] = "none"
    BY <1>1 DEF CreateApp, IInv, AppInv, AbsentInv, Releases
  <2> QED  BY <1>1, <2>1, NewJobHistory DEF CreateApp
<1>2. CASE CreateAppRelease(a) \/ RollbackApp(a)
  BY <1>2, NewJobHistory DEF CreateAppRelease, RollbackApp, CreateReleaseJob, Fresh
<1>3. CASE StartApp(a)
  <2>1. PICK r \in Releases :
            /\ rel[a][r] = "none"
            /\ rel' = [rel EXCEPT ![a][r] = "created"]
            /\ job' = [job EXCEPT ![a] = NewJob("start", r)]
    BY <1>3 DEF StartApp, Fresh
  <2> QED  BY <2>1, NewJobHistory
<1>4. CASE StopApp(a) \/ RestoreAppBackup(a) \/ DeleteApp(a)
  BY <1>4, HistoryFrame DEF StopApp, RestoreAppBackup, DeleteApp, SoftDelete
<1> QED  BY <1>1, <1>2, <1>3, <1>4 DEF Request

\* A job that goes on marks no release but its own, and only as failed.
LEMMA JobHistory ==
  ASSUME IInv, NEW a \in Apps, NEW s, job' = Advanced(a, s), ActiveJob(a),
         rel' = rel \/ (rel' = ReleaseFailed(a) /\ job[a].state # "rolling_back")
  PROVE  \A b \in Apps : HistoryOf(b)
<1>1. \A b \in Apps : b # a => job'[b] = job[b]
  BY AdvancedFields
<1>2. ASSUME NEW b \in Apps, b # a PROVE HistoryOf(b)
  BY <1>1, <1>2, HistoryFrame DEF ReleaseFailed, IInv, TypeOK
<1>3. CASE rel' = rel
  BY <1>2, <1>3 DEF HistoryOf
<1>4. CASE rel' = [rel EXCEPT ![a][job[a].rel] = "failed"] /\ ~Recovery(job[a].op)
           /\ job[a].state # "rolling_back"
  <2>1. rel[a][job[a].rel] = "created" /\ job[a].rel \in Releases
    BY <1>4 DEF IInv, AppInv, TargetInv
  <2>2. rel'[a] = [rel[a] EXCEPT ![job[a].rel] = "failed"]
    BY <1>4 DEF IInv, TypeOK
  <2>3. HistoryOf(a)
    BY <2>1, <2>2 DEF HistoryOf, IInv, TypeOK, ReleaseSteps
  <2> QED  BY <1>2, <2>3
<1> QED  BY <1>3, <1>4 DEF ReleaseFailed

LEMMA SwitchHistory ==
  ASSUME IInv, NEW a \in Apps, JobSwitch(a)
  PROVE  \A b \in Apps : HistoryOf(b)
<1>1. ActiveJob(a) /\ \A b \in Apps : b # a => job'[b] = job[b]
  BY AdvancedFields DEF JobSwitch, ActiveJob, ActiveJobStates
<1>2. ASSUME NEW b \in Apps, b # a PROVE HistoryOf(b)
  BY <1>1, <1>2, HistoryFrame DEF JobSwitch, IInv, TypeOK
<1>3. rel'[a] = Promoted(a, job[a].rel)
  BY DEF JobSwitch, IInv, TypeOK
<1>4. \/ rel[a][job[a].rel] = "created"
      \/ rel[a][job[a].rel] = "active"
  BY <1>1 DEF IInv, AppInv, TypeOK, TargetInv, ReleaseInv, JobSwitch, Releases
<1>5. HistoryOf(a)
  BY <1>1, <1>3, <1>4 DEF HistoryOf, Promoted, ReleaseSteps
<1> QED  BY <1>2, <1>5

LEMMA ProcessHistory ==
  ASSUME IInv, NEW a \in Apps, ProcessOne(a) \/ MarkJobError(a)
  PROVE  \A b \in Apps : HistoryOf(b)
<1>1. CASE UNCHANGED <<rel, job>>
  BY <1>1, HistoryFrame
<1>2. CASE JobQueued(a) \/ JobPull(a) \/ JobStart(a)
  <2>1. ActiveJob(a)
    BY <1>2 DEF JobQueued, JobPull, JobStart, ActiveJob, ActiveJobStates
  <2>2. \/ UNCHANGED <<rel, job>>
        \/ \E s \in {"pulling", "starting", "health_checking"} : job' = Advanced(a, s) /\ rel' = rel
    BY <1>2 DEF JobQueued, JobPull, JobStart, JobError, rows
  <2> QED  BY <1>1, <2>1, <2>2, JobHistory
<1>3. CASE JobCheck(a)
  <2>1. ActiveJob(a) /\ job[a].state # "rolling_back"
    BY <1>3 DEF JobCheck, ActiveJob, ActiveJobStates
  <2>2. \/ UNCHANGED <<rel, job>>
        \/ job' = Advanced(a, "switching_route") /\ rel' = rel
        \/ /\ job' = Advanced(a, UnhealthyNext(job[a].attempts))
           /\ rel' = ReleaseFailed(a) \/ rel' = rel
    BY <1>3 DEF JobCheck, JobError, rows
  <2> QED  BY <1>1, <2>1, <2>2, JobHistory
<1>4. CASE JobRollback(a)
  BY <1>4, JobHistory DEF JobRollback, FailJob, ActiveJob, ActiveJobStates
<1>5. CASE MarkJobError(a)
  <2>1. job[a].state # "rolling_back"
    BY <1>5 DEF IInv, AppInv, HoldInv, MarkJobError
  <2> QED  BY <1>5, <2>1, JobHistory DEF MarkJobError, FailJob
<1> QED  BY <1>2, <1>3, <1>4, <1>5, SwitchHistory DEF ProcessOne

LEMMA RecoverHistory ==
  ASSUME IInv, NEW u \in Users, RecoverFromBilling(u)
  PROVE  \A b \in Apps : HistoryOf(b)
<1> SUFFICES ASSUME NEW b \in Apps PROVE HistoryOf(b)
  OBVIOUS
<1>1. job'[b] = job[b] \/ job'[b] = NewJob("billing_recovery", last[b])
  BY DEF RecoverFromBilling
<1>2. rel' = rel
  BY DEF RecoverFromBilling
<1> QED  BY <1>1, <1>2 DEF HistoryOf, NewJob

LEMMA WorkHistory ==
  ASSUME NEW a \in Apps, Work(a), ~(ProcessOne(a) \/ MarkJobError(a))
  PROVE  UNCHANGED <<rel, job>>
<1>1. CASE ClaimStop(a) \/ StopContainer(a) \/ RetryStop(a) \/ FinishStop(a)
  BY <1>1 DEF ClaimStop, StopContainer, RetryStop, FinishStop, rows
<1>2. CASE ClaimRestore(a) \/ FinishRestore(a) \/ ExpireSuspended(a)
  BY <1>2 DEF ClaimRestore, FinishRestore, ExpireSuspended, SoftDelete
<1>3. CASE \/ ClaimDeletion(a) \/ DeleteContainers(a) \/ RequeueDeletion(a) \/ FinishDeletion(a)
  BY <1>3 DEF ClaimDeletion, DeleteContainers, RequeueDeletion, FinishDeletion, rows
<1>4. CASE \E r \in Releases : ReconcileContainer(a, r)
  BY <1>4 DEF ReconcileContainer, rows
<1> QED  BY <1>1, <1>2, <1>3, <1>4 DEF Work

(* Release states only move forward, no failing job marks the active release *)
(* failed, and a finished job row is never touched again.                    *)
THEOREM HistoryIsKept == Spec => History
<1>1. ASSUME IInv, [Next]_vars PROVE \A a \in Apps : HistoryOf(a)
  <2>1. ASSUME NEW c \in Apps, Work(c) PROVE \A a \in Apps : HistoryOf(a)
    BY <1>1, <2>1, ProcessHistory, WorkHistory, HistoryFrame
  <2>2. ASSUME RemoveContainer \/ Restart \/ UpdateSystemSettings \/ UNCHANGED vars
        PROVE  \A a \in Apps : HistoryOf(a)
    BY <2>2, HistoryFrame DEF RemoveContainer, Restart, UpdateSystemSettings, vars, rows
  <2>3. ASSUME NEW u \in Users, SuspendForBilling(u) PROVE \A a \in Apps : HistoryOf(a)
    BY <2>3, HistoryFrame DEF SuspendForBilling
  <2> QED
    BY <1>1, <2>1, <2>2, <2>3, RequestHistory, RecoverHistory DEF Next
<1>2. IInv /\ [Next]_vars =>
        \A a \in Apps :
          /\ \A r \in Releases :
              rel'[a][r] # rel[a][r] => <<rel[a][r], rel'[a][r]>> \in ReleaseSteps
          /\ ~ActiveJob(a) /\ job'[a] # job[a] =>
                 job'[a].state = "queued" /\ job'[a].attempts = 0
  BY <1>1 DEF HistoryOf
<1> QED  BY <1>2, Invariance, PTL DEF Spec, History

=============================================================================
