---------------------------- MODULE VersionTests ----------------------------
(***************************************************************************)
(* Isolated tests of product versions: the worker's main loop runs a test  *)
(* one step per turn while it holds the test's row; a second goroutine of  *)
(* the same process handles cancellations every half second.  Both remove  *)
(* the test's Docker resources.                                            *)
(***************************************************************************)
EXTENDS Integers, Sequences, FiniteSets, SequencesExt

CONSTANTS
  MaxTest,              \* tests are numbered in the order of created_at
  VersionOf,            \* the product version each test belongs to
  Probed,               \* tests whose version declares an HTTP health path
  MaxHealthAttempts,    \* productTestMaxHealthAttempts
  Executors,            \* what the Docker ping at start-up may answer
  MaxFaults             \* bound on crashes, failed removals and lost updates

Tests == 1 .. MaxTest

ASSUME ConstantsAssumption ==
  /\ MaxTest \in Nat
  /\ DOMAIN VersionOf = Tests
  /\ Probed \subseteq Tests
  /\ MaxHealthAttempts \in Nat \ {0}
  /\ Executors \in (SUBSET BOOLEAN) \ {{}}
  /\ MaxFaults \in Nat

VARIABLES
  test,         \* app_product_version_tests: state, health_attempts, secrets
  requests,     \* app_product_version_test_cancellations, unprocessed, oldest first
  processed,    \* the cancellations whose processed_at is set
  docker,       \* the Docker resources of each test
  worker,       \* the main loop
  canceller,    \* runProductVersionTestCancellationWorker
  executor,     \* whether the worker reached Docker when it started
  faults

vars == << test, requests, processed, docker, worker, canceller, executor, faults >>

Ended      == {"succeeded", "failed", "cancelled"}
Active     == {"queued", "pulling", "starting", "health_checking"}
States     == {"none"} \union Active \union Ended
Resources  == {"network", "container", "running", "probe"}

(* Mutant: the row is given back before the container is created. *)
Holding_Pull == {"check", "run"}

(* The places of the main loop at which its transaction holds the row.     *)
Holding == {"check", "run", "create", "start", "probe"}

WorkerPcs  == {"idle", "sweep", "claim", "check", "run", "create", "start", "probe",
               "fail", "cleanup"}
CancelPcs  == {"idle", "signal", "clean", "claim", "clean_after"}

Idle  == [pc |-> "idle", test |-> 0, known |-> {}, op |-> "none"]
Quiet == [pc |-> "idle", test |-> 0]

IsActive(t) == test[t].state \in Active
HasEnded(t) == test[t].state \in Ended
IsPending(t) == \E i \in DOMAIN requests : requests[i] = t

Locked(t) == worker.pc \in Holding /\ worker.test = t

Init ==
  /\ test = [t \in Tests |-> [state |-> "none", attempts |-> 0, secrets |-> FALSE]]
  /\ requests = << >>
  /\ processed = {}
  /\ docker = [t \in Tests |-> {}]
  /\ worker = Idle
  /\ canceller = Quiet
  /\ executor \in Executors
  /\ faults = 0

-----------------------------------------------------------------------------
(* The API's handlers.                                                     *)

(* A new test of a version none of whose tests is active.                  *)
StartTest(t) ==
  /\ test[t].state = "none"
  /\ \A u \in 1 .. (t - 1) : test[u].state # "none"
  /\ \A u \in Tests : VersionOf[u] = VersionOf[t] => ~IsActive(u)
  /\ test' = [test EXCEPT ![t] = [state |-> "queued", attempts |-> 0, secrets |-> TRUE]]
  /\ UNCHANGED << requests, processed, docker, worker, canceller, executor, faults >>

(* Mutant: the cancellation does not wait for the test's row. *)
CancelTest_Unlocked(t) ==
  /\ test[t].state # "none"
  /\ ~IsPending(t) /\ t \notin processed
  /\ requests' = Append(requests, t)
  /\ UNCHANGED << test, processed, docker, worker, canceller, executor, faults >>

(* cancelProductVersionTest reads the state without a lock and inserts the *)
(* cancellation if the test was active then: by the time of the insertion  *)
(* it may have ended.  The row references the test, so the insertion needs *)
(* a key-share lock on it and waits for a worker that holds the row; a     *)
(* second one conflicts and does nothing.                                  *)
CancelTest(t) ==
  /\ test[t].state # "none"
  /\ ~Locked(t)
  /\ ~IsPending(t) /\ t \notin processed
  /\ requests' = Append(requests, t)
  /\ UNCHANGED << test, processed, docker, worker, canceller, executor, faults >>

-----------------------------------------------------------------------------
(* completeProductVersionTest: a final state, and no secrets any more.     *)
Complete(t, state) == [test EXCEPT ![t].state = state, ![t].secrets = FALSE]

(* advanceProductVersionTest.                                              *)
Advance(t, state) == [test EXCEPT ![t].state = state]

(* cleanupProductVersionTestRuntime: container, probe and network, each    *)
(* removal tried whatever became of the one before.  Without an executor   *)
(* nothing is done; a removal that fails is a fault, and the network of a  *)
(* running container stays with it.                                        *)
Leftovers(t) ==
  {left \in SUBSET docker[t] :
     "running" \in left => docker[t] \intersect {"container", "network"} \subseteq left}

Cleanup(t) ==
  \/ ~executor /\ docker' = docker /\ faults' = faults
  \/ executor /\ docker' = [docker EXCEPT ![t] = {}] /\ faults' = faults
  \/ /\ executor
     /\ faults < MaxFaults
     /\ faults' = faults + 1
     /\ \E left \in Leftovers(t) : docker' = [docker EXCEPT ![t] = left]

(* Mutant: the reconciliation spares every test it knows. *)
ReadActive_All ==
  /\ worker.pc = "idle"
  /\ worker' = IF executor THEN [Idle EXCEPT !.pc = "sweep", !.known = {t \in Tests : test[t].state # "none"}]
                           ELSE [Idle EXCEPT !.pc = "claim"]
  /\ UNCHANGED << test, requests, processed, docker, canceller, executor, faults >>

(* reconcileProductTestContainers: the active tests are read first ...     *)
ReadActive ==
  /\ worker.pc = "idle"
  /\ worker' = IF executor THEN [Idle EXCEPT !.pc = "sweep", !.known = {t \in Tests : IsActive(t)}]
                           ELSE [Idle EXCEPT !.pc = "claim"]
  /\ UNCHANGED << test, requests, processed, docker, canceller, executor, faults >>

(* ... then what Docker has for any other test is removed.                 *)
Sweep ==
  /\ worker.pc = "sweep"
  /\ worker' = [Idle EXCEPT !.pc = "claim"]
  /\ \/ /\ docker' = [t \in Tests |-> IF t \in worker.known THEN docker[t] ELSE {}]
        /\ faults' = faults
     \/ /\ faults < MaxFaults        \* a listing or a removal fails
        /\ faults' = faults + 1
        /\ docker' = docker
  /\ UNCHANGED << test, requests, processed, canceller, executor >>

-----------------------------------------------------------------------------
(* processProductVersionTestOne.  The oldest active test that is available *)
(* is claimed: one that waits for its next health check may be passed      *)
(* over.  The cancel function is stored before cancellations are looked at.*)
(* The failure of a snapshot without an image is left out: snapshots are   *)
(* built from the columns of the version, and the check constraint of      *)
(* image_digest (migration 73) admits no blank image.                      *)
Claim(t) ==
  /\ worker.pc = "claim"
  /\ IsActive(t)
  /\ \A u \in 1 .. (t - 1) : IsActive(u) => test[u].state = "health_checking"
  /\ worker' = IF executor
               THEN [worker EXCEPT !.pc = "check", !.test = t, !.op = "live"]
               ELSE [worker EXCEPT !.pc = "fail", !.test = t]
  /\ UNCHANGED << test, requests, processed, docker, canceller, executor, faults >>

NothingToClaim ==
  /\ worker.pc = "claim"
  /\ \A t \in Tests : IsActive(t) => test[t].state = "health_checking"
  /\ worker' = Idle
  /\ UNCHANGED << test, requests, processed, docker, canceller, executor, faults >>

(* A pending cancellation sends the row back untouched.                    *)
CheckCancellation ==
  /\ worker.pc = "check"
  /\ worker' = IF IsPending(worker.test) THEN Idle ELSE [worker EXCEPT !.pc = "run"]
  /\ UNCHANGED << test, requests, processed, docker, canceller, executor, faults >>

(* An error of a Docker call: the transaction is rolled back first, and    *)
(* failProductVersionTest follows.                                         *)
Abort == worker' = [worker EXCEPT !.pc = "fail"]

Queued ==
  /\ worker.pc = "run" /\ test[worker.test].state = "queued"
  /\ test' = Advance(worker.test, "pulling")
  /\ worker' = Idle
  /\ UNCHANGED << requests, processed, docker, canceller, executor, faults >>

Pull ==
  /\ worker.pc = "run" /\ test[worker.test].state = "pulling"
  /\ \/ /\ worker.op = "live"
        /\ test' = Advance(worker.test, "starting")
        /\ worker' = Idle
     \/ test' = test /\ Abort
  /\ UNCHANGED << requests, processed, docker, canceller, executor, faults >>

(* startProductVersionTestContainer, one Docker call a step: a call that   *)
(* fails may or may not have had its effect.                               *)
DockerCall(effect, next) ==
  LET t == worker.test IN
  \/ /\ worker.op = "live"
     /\ docker' = [docker EXCEPT ![t] = effect]
     /\ next
  \/ /\ docker' \in {docker, [docker EXCEPT ![t] = effect]}
     /\ test' = test
     /\ Abort

StartNetwork ==
  /\ worker.pc = "run" /\ test[worker.test].state = "starting"
  /\ DockerCall(docker[worker.test] \union {"network"},
                test' = test /\ worker' = [worker EXCEPT !.pc = "create"])
  /\ UNCHANGED << requests, processed, canceller, executor, faults >>

StartCreate ==
  /\ worker.pc = "create"
  /\ DockerCall((docker[worker.test] \ {"running"}) \union {"container"},
                test' = test /\ worker' = [worker EXCEPT !.pc = "start"])
  /\ UNCHANGED << requests, processed, canceller, executor, faults >>

StartContainer ==
  /\ worker.pc = "start"
  /\ DockerCall(docker[worker.test] \union {"running"},
                /\ "container" \in docker[worker.test]
                /\ test' = Advance(worker.test, "health_checking")
                /\ worker' = Idle)
  /\ UNCHANGED << requests, processed, canceller, executor, faults >>

(* What the result of a health check does to the test.                     *)
Healthy ==
  /\ test' = Complete(worker.test, "succeeded")
  /\ worker' = [worker EXCEPT !.pc = "cleanup"]

(* Mutant: failed checks are not counted. *)
Unhealthy_Uncounted == test' = test /\ worker' = Idle

Unhealthy ==
  LET t == worker.test IN
  IF test[t].attempts + 1 >= MaxHealthAttempts
  THEN test' = Complete(t, "failed") /\ worker' = [worker EXCEPT !.pc = "cleanup"]
  ELSE test' = [test EXCEPT ![t].attempts = @ + 1] /\ worker' = Idle

(* productVersionTestHealthy: the container's own state, then the probe.   *)
HealthCheck ==
  LET t == worker.test IN
  /\ worker.pc = "run" /\ test[t].state = "health_checking"
  /\ \/ test' = test /\ Abort /\ docker' = docker
     \/ /\ worker.op = "live" /\ "container" \in docker[t]
        /\ \/ Unhealthy /\ docker' = docker
           \/ /\ "running" \in docker[t] /\ t \notin Probed
              /\ Healthy /\ docker' = docker
           \/ /\ "running" \in docker[t] /\ t \in Probed
              /\ docker' = [docker EXCEPT ![t] = @ \union {"probe"}]
              /\ test' = test
              /\ worker' = [worker EXCEPT !.pc = "probe"]
  /\ UNCHANGED << requests, processed, canceller, executor, faults >>

(* ProbeHTTP ends and removes its container; any error of it counts as an  *)
(* unhealthy answer, a cancelled context included.                         *)
ProbeEnds ==
  LET t == worker.test IN
  /\ worker.pc = "probe"
  /\ \/ worker.op = "live" /\ "running" \in docker[t] /\ Healthy
     \/ Unhealthy
  /\ \/ docker' = [docker EXCEPT ![t] = @ \ {"probe"}] /\ faults' = faults
     \/ docker' = docker /\ faults < MaxFaults /\ faults' = faults + 1
  /\ UNCHANGED << requests, processed, canceller, executor >>

(* Mutant: the row is not read again before it is finished. *)
Fail_Unguarded ==
  LET t == worker.test IN
  /\ worker.pc = "fail"
  /\ worker' = [worker EXCEPT !.pc = "cleanup"]
  /\ test' = Complete(t, IF IsPending(t) THEN "cancelled" ELSE "failed")
  /\ UNCHANGED << requests, processed, docker, canceller, executor, faults >>

(* Mutant: the two outcomes are swapped. *)
Fail_Swapped ==
  LET t == worker.test IN
  /\ worker.pc = "fail"
  /\ worker' = [worker EXCEPT !.pc = "cleanup"]
  /\ test' = IF HasEnded(t) THEN test
             ELSE Complete(t, IF IsPending(t) THEN "failed" ELSE "cancelled")
  /\ UNCHANGED << requests, processed, docker, canceller, executor, faults >>

(* failProductVersionTest: a transaction of its own, so that the row may   *)
(* have been finished in between; an update that is lost leaves the test   *)
(* to a later turn.                                                        *)
Fail ==
  LET t == worker.test IN
  /\ worker.pc = "fail"
  /\ worker' = [worker EXCEPT !.pc = "cleanup"]
  /\ \/ /\ test' = CASE HasEnded(t)  -> test
                     [] ~HasEnded(t) /\ IsPending(t) -> Complete(t, "cancelled")
                     [] OTHER -> Complete(t, "failed")
        /\ faults' = faults
     \/ test' = test /\ faults < MaxFaults /\ faults' = faults + 1
  /\ UNCHANGED << requests, processed, docker, canceller, executor >>

WorkerCleanup ==
  /\ worker.pc = "cleanup"
  /\ Cleanup(worker.test)
  /\ worker' = Idle
  /\ UNCHANGED << test, requests, processed, canceller, executor >>

-----------------------------------------------------------------------------
(* processProductVersionTestCancellationOne.                               *)
Lookup ==
  /\ canceller.pc = "idle"
  /\ requests # << >>
  /\ canceller' = [pc |-> "signal", test |-> Head(requests)]
  /\ UNCHANGED << test, requests, processed, docker, worker, executor, faults >>

Signal ==
  /\ canceller.pc = "signal"
  /\ worker' = IF worker.op = "live" /\ worker.test = canceller.test
               THEN [worker EXCEPT !.op = "cancelled"] ELSE worker
  /\ canceller' = [canceller EXCEPT !.pc = "clean"]
  /\ UNCHANGED << test, requests, processed, docker, executor, faults >>

CleanBefore ==
  /\ canceller.pc = "clean"
  /\ Cleanup(canceller.test)
  /\ canceller' = [canceller EXCEPT !.pc = "claim"]
  /\ UNCHANGED << test, requests, processed, worker, executor >>

(* Mutant: a cancellation of a test that has ended is passed over. *)
ClaimCancellation_ActiveOnly ==
  /\ canceller.pc = "claim"
  /\ \E i \in DOMAIN requests :
       LET t == requests[i] IN
       /\ ~Locked(t) /\ IsActive(t)
       /\ \A j \in 1 .. (i - 1) : Locked(requests[j]) \/ ~IsActive(requests[j])
       /\ test' = Complete(t, "cancelled")
       /\ requests' = RemoveAt(requests, i)
       /\ processed' = processed \union {t}
       /\ canceller' = [pc |-> "clean_after", test |-> t]
  /\ UNCHANGED << docker, worker, executor, faults >>

(* The oldest cancellation whose test the main loop does not hold, which   *)
(* need not be the one just cleaned.                                       *)
ClaimCancellation ==
  /\ canceller.pc = "claim"
  /\ \E i \in DOMAIN requests :
       LET t == requests[i] IN
       /\ ~Locked(t)
       /\ \A j \in 1 .. (i - 1) : Locked(requests[j])
       /\ test' = IF HasEnded(t) THEN test ELSE Complete(t, "cancelled")
       /\ requests' = RemoveAt(requests, i)
       /\ processed' = processed \union {t}
       /\ canceller' = [pc |-> "clean_after", test |-> t]
  /\ UNCHANGED << docker, worker, executor, faults >>

NoCancellation ==
  /\ canceller.pc = "claim"
  /\ \A i \in DOMAIN requests : Locked(requests[i])
  /\ canceller' = Quiet
  /\ UNCHANGED << test, requests, processed, docker, worker, executor, faults >>

CleanAfter ==
  /\ canceller.pc = "clean_after"
  /\ Cleanup(canceller.test)
  /\ canceller' = Quiet
  /\ UNCHANGED << test, requests, processed, worker, executor >>

-----------------------------------------------------------------------------
(* The environment.  A test's container runs without a restart policy and  *)
(* may exit by itself.                                                     *)
ContainerExits(t) ==
  /\ "running" \in docker[t]
  /\ docker' = [docker EXCEPT ![t] = @ \ {"running"}]
  /\ UNCHANGED << test, requests, processed, worker, canceller, executor, faults >>

(* The worker's process dies with both goroutines and its open            *)
(* transaction; Docker keeps what it has, and the next process pings again.*)
WorkerCrash ==
  /\ faults < MaxFaults
  /\ faults' = faults + 1
  /\ worker' = Idle
  /\ canceller' = Quiet
  /\ executor' \in Executors
  /\ UNCHANGED << test, requests, processed, docker >>

MainLoop ==
  \/ ReadActive \/ Sweep \/ NothingToClaim \/ CheckCancellation
  \/ Queued \/ Pull \/ StartNetwork \/ StartCreate \/ StartContainer
  \/ HealthCheck \/ ProbeEnds \/ Fail \/ WorkerCleanup
  \/ \E t \in Tests : Claim(t)

CancellationLoop ==
  Lookup \/ Signal \/ CleanBefore \/ ClaimCancellation \/ NoCancellation \/ CleanAfter

Next ==
  \/ MainLoop
  \/ CancellationLoop
  \/ \E t \in Tests : StartTest(t) \/ CancelTest(t) \/ ContainerExits(t)
  \/ WorkerCrash

(* Both goroutines keep going: their Docker calls have deadlines.  A test  *)
(* that is due is reached because the claim takes the oldest one.  The     *)
(* canceller turns every half second and the main loop holds a row at most *)
(* once every two seconds, so the canceller's steps fall between two turns *)
(* of the main loop again and again.                                       *)
Between == worker.pc \notin Holding

Fairness ==
  /\ WF_vars(MainLoop)
  /\ WF_vars(CancellationLoop)
  /\ \A t \in Tests : SF_vars(Claim(t))
  /\ SF_vars(Lookup /\ Between)
  /\ SF_vars(Signal /\ Between)
  /\ SF_vars(CleanBefore /\ Between)
  /\ SF_vars(ClaimCancellation)

Spec == Init /\ [][Next]_vars
LiveSpec == Spec /\ Fairness

-----------------------------------------------------------------------------
TypeOK ==
  /\ test \in [Tests -> [state : States, attempts : 0 .. MaxHealthAttempts, secrets : BOOLEAN]]
  /\ requests \in Seq(Tests)
  /\ processed \subseteq Tests
  /\ docker \in [Tests -> SUBSET Resources]
  /\ worker \in [pc : WorkerPcs, test : 0 .. MaxTest, known : SUBSET Tests,
                 op : {"none", "live", "cancelled"}]
  /\ canceller \in [pc : CancelPcs, test : 0 .. MaxTest]
  /\ executor \in BOOLEAN
  /\ faults \in 0 .. MaxFaults

(* The canceller never removes the container of a test under the hands of  *)
(* the main loop: when it is about to clean a test up, the main loop is    *)
(* not between two Docker calls for that test.  Nothing in the two loops   *)
(* says so; it follows from the lock a cancellation needs to be inserted.  *)
CleanupIsExclusive ==
  canceller.pc \in {"clean", "clean_after"} =>
    ~(worker.pc \in Holding \ {"check"} /\ worker.test = canceller.test)

(* A cancellation is marked processed only with its test ended, and a test *)
(* is recorded as cancelled only when somebody asked for it.               *)
CancellationMatches ==
  \A t \in Tests :
    /\ t \in processed => HasEnded(t)
    /\ test[t].state = "cancelled" => t \in processed \/ IsPending(t)

(* An ended test is never reopened, renamed or given its secrets back, in  *)
(* whatever order the two loops finish it.                                 *)
TerminalIsFinal ==
  [][\A t \in Tests : HasEnded(t) => test'[t] = test[t]]_vars

(* Nothing is created in Docker for a test that has ended: the main loop   *)
(* holds the row for as long as it works on it.                            *)
NoResurrection ==
  [][\A t \in Tests : HasEnded(t) => docker'[t] \subseteq docker[t]]_vars

(* A test ends, whatever fails on the way.                                 *)
TestsEnd == \A t \in Tests : IsActive(t) ~> HasEnded(t)

(* A cancellation that was inserted is processed.                          *)
CancellationsEnd == \A t \in Tests : IsPending(t) ~> t \in processed

(* What an ended test left in Docker is removed, after a crash or a failed *)
(* removal too, as long as the worker has Docker.                          *)
RuntimeIsRemoved ==
  \A t \in Tests : HasEnded(t) /\ docker[t] # {} ~> docker[t] = {} \/ ~executor
=============================================================================
