------------------------- MODULE VersionTests_proofs -------------------------
(***************************************************************************)
(* Proofs about VersionTests for any number of tests, versions, health     *)
(* checks and faults.  The main loop and the cancellation loop never speak *)
(* to each other; what keeps them apart is HandInv: a test the main loop   *)
(* holds is active, and once the cancellations were looked at none of them *)
(* is for it, because inserting one needs the row; a test the canceller    *)
(* has in hand has a pending cancellation or has ended.                    *)
(***************************************************************************)
EXTENDS VersionTests, SequenceTheorems, TLAPS

WorkerHand ==
  /\ worker.pc \notin {"idle", "sweep", "claim"} => worker.test \in Tests
  /\ worker.pc \in Holding => IsActive(worker.test)
  /\ worker.pc \in Holding \ {"check"} => ~IsPending(worker.test)

CancellerHand ==
  /\ canceller.pc # "idle" => canceller.test \in Tests
  /\ canceller.pc \in {"signal", "clean", "claim"} => IsPending(canceller.test)
  /\ canceller.pc = "clean_after" => HasEnded(canceller.test)

HandInv == WorkerHand /\ CancellerHand

IInv == TypeOK /\ HandInv /\ CancellationMatches

\* What is left when one element is taken out of a sequence.
LEMMA RemoveAtKeeps ==
  ASSUME NEW S, NEW s \in Seq(S), NEW i \in DOMAIN s
  PROVE  /\ RemoveAt(s, i) \in Seq(S)
         /\ \A j \in DOMAIN RemoveAt(s, i) : \E k \in DOMAIN s : s[k] = RemoveAt(s, i)[j]
         /\ \A k \in DOMAIN s : k # i => \E j \in DOMAIN RemoveAt(s, i) : s[k] = RemoveAt(s, i)[j]
<1> DEFINE n == Len(s)
           a == SubSeq(s, 1, i - 1)
           b == SubSeq(s, i + 1, n)
<1>1. n \in Nat /\ i \in Int /\ 1 <= i /\ i <= n /\ DOMAIN s = 1 .. n
  BY LenProperties
<1>2. /\ a \in Seq(S) /\ Len(a) = i - 1
      /\ \A j \in 1 .. (i - 1) : a[j] = s[j]
  <2>1. \A j \in 1 .. (i - 1) : j \in 1 .. n
    BY <1>1
  <2> QED
    BY <1>1, <2>1, SubSeqProperties
<1>3. /\ b \in Seq(S) /\ Len(b) = n - i
      /\ \A j \in 1 .. (n - i) : b[j] = s[i + j]
  <2>1. i + 1 \in 1 .. (n + 1) /\ n \in i .. n
    BY <1>1
  <2>2. b \in Seq(S) /\ Len(b) = (IF i + 1 <= n THEN n - (i + 1) + 1 ELSE 0)
        /\ \A j \in 1 .. (n - (i + 1) + 1) : b[j] = s[i + 1 + j - 1]
    BY <1>1, <2>1, SubSeqProperties
  <2> QED
    BY <1>1, <2>2
<1>4. RemoveAt(s, i) = a \o b
  BY DEF RemoveAt
<1> HIDE DEF a, b, n
<1>5. /\ a \o b \in Seq(S) /\ Len(a \o b) = Len(a) + Len(b)
      /\ \A j \in 1 .. (Len(a) + Len(b)) :
           (a \o b)[j] = IF j <= Len(a) THEN a[j] ELSE b[j - Len(a)]
  BY <1>2, <1>3, ConcatProperties
<1>6. Len(a) + Len(b) = n - 1 /\ DOMAIN (a \o b) = 1 .. (n - 1)
  BY <1>1, <1>2, <1>3, <1>5, LenProperties
<1>7. ASSUME NEW j \in 1 .. (n - 1), j < i PROVE (a \o b)[j] = s[j]
  BY <1>1, <1>2, <1>5, <1>6, <1>7
<1>8. ASSUME NEW j \in 1 .. (n - 1), j >= i PROVE (a \o b)[j] = s[j + 1]
  <2>1. j - (i - 1) \in 1 .. (n - i) /\ i + (j - (i - 1)) = j + 1 /\ ~(j <= i - 1)
    BY <1>1, <1>8
  <2>2. b[j - (i - 1)] = s[j + 1]
    BY <1>3, <2>1
  <2> QED
    BY <1>2, <1>5, <1>6, <2>1, <2>2
<1>9. ASSUME NEW j \in 1 .. (n - 1) PROVE \E k \in 1 .. n : s[k] = (a \o b)[j]
  <2>0. (j < i \/ j >= i) /\ j \in 1 .. n /\ j + 1 \in 1 .. n
    BY <1>1
  <2>1. CASE j < i
    <3>1. (a \o b)[j] = s[j]
      BY <1>7, <2>1
    <3> QED
      BY <2>0, <3>1
  <2>2. CASE j >= i
    <3>1. (a \o b)[j] = s[j + 1]
      BY <1>8, <2>2
    <3> QED
      BY <2>0, <3>1
  <2> QED
    BY <2>0, <2>1, <2>2
<1>10. ASSUME NEW k \in 1 .. n, k # i PROVE \E j \in 1 .. (n - 1) : s[k] = (a \o b)[j]
  <2>0. k < i \/ k > i
    BY <1>1, <1>10
  <2>1. CASE k < i
    <3>1. k \in 1 .. (n - 1)
      BY <1>1, <2>1
    <3> QED
      BY <1>7, <2>1, <3>1
  <2>2. CASE k > i
    <3>1. k - 1 \in 1 .. (n - 1) /\ k - 1 >= i /\ (k - 1) + 1 = k
      BY <1>1, <2>2
    <3>2. (a \o b)[k - 1] = s[k]
      BY <1>8, <3>1
    <3> QED
      BY <3>1, <3>2
  <2> QED
    BY <2>0, <2>1, <2>2
<1> QED
  BY <1>1, <1>4, <1>5, <1>6, <1>9, <1>10

USE ConstantsAssumption

LEMMA InitIInv == Init => IInv
<1> SUFFICES ASSUME Init PROVE IInv
  OBVIOUS
<1>1. TypeOK
  BY DEF Init, TypeOK, States, Active, Ended, Resources, Idle, Quiet, WorkerPcs, CancelPcs, Tests
<1>2. HandInv
  BY DEF Init, HandInv, WorkerHand, CancellerHand, Idle, Quiet, Holding
<1>3. CancellationMatches
  BY DEF Init, CancellationMatches
<1> QED
  BY <1>1, <1>2, <1>3 DEF IInv

-----------------------------------------------------------------------------
(* What the operators of the model do.                                       *)

TestRows == [state : States, attempts : 0 .. MaxHealthAttempts, secrets : BOOLEAN]

LEMMA CompleteFields ==
  ASSUME TypeOK, NEW t \in Tests, NEW s \in States
  PROVE  /\ Complete(t, s) \in [Tests -> TestRows]
         /\ Complete(t, s)[t].state = s
         /\ \A u \in Tests : u # t => Complete(t, s)[u] = test[u]
<1>1. test \in [Tests -> TestRows] /\ test[t] \in TestRows
  BY DEF TypeOK, TestRows
<1>2. Complete(t, s) = [test EXCEPT ![t] = [test[t] EXCEPT !.state = s, !.secrets = FALSE]]
  BY <1>1 DEF Complete
<1>3. [test[t] EXCEPT !.state = s, !.secrets = FALSE] \in TestRows
  BY <1>1 DEF TestRows
<1>4. [test[t] EXCEPT !.state = s, !.secrets = FALSE].state = s
  BY <1>1 DEF TestRows
<1> QED
  BY <1>1, <1>2, <1>3, <1>4

LEMMA AdvanceFields ==
  ASSUME TypeOK, NEW t \in Tests, NEW s \in States
  PROVE  /\ Advance(t, s) \in [Tests -> TestRows]
         /\ Advance(t, s)[t].state = s
         /\ \A u \in Tests : u # t => Advance(t, s)[u] = test[u]
<1>1. test \in [Tests -> TestRows] /\ test[t] \in TestRows
  BY DEF TypeOK, TestRows
<1>2. Advance(t, s) = [test EXCEPT ![t] = [test[t] EXCEPT !.state = s]]
  BY <1>1 DEF Advance
<1>3. [test[t] EXCEPT !.state = s] \in TestRows /\ [test[t] EXCEPT !.state = s].state = s
  BY <1>1 DEF TestRows
<1> QED
  BY <1>1, <1>2, <1>3

\* A clean-up takes resources away from one test.
LEMMA CleanupShrinks ==
  ASSUME TypeOK, NEW t \in Tests, Cleanup(t)
  PROVE  /\ docker' \in [Tests -> SUBSET Resources]
         /\ \A u \in Tests : docker'[u] \subseteq docker[u]
         /\ faults' \in 0 .. MaxFaults
<1>1. docker \in [Tests -> SUBSET Resources] /\ faults \in 0 .. MaxFaults
  BY DEF TypeOK
<1>2. faults' \in 0 .. MaxFaults
  BY <1>1 DEF Cleanup
<1>3. docker' = docker \/ \E left \in SUBSET docker[t] : docker' = [docker EXCEPT ![t] = left]
  BY DEF Cleanup, Leftovers
<1> QED
  BY <1>1, <1>2, <1>3

\* The cancellations that are pending after one was taken.
LEMMA PendingAfter ==
  ASSUME TypeOK, NEW i \in DOMAIN requests, requests' = RemoveAt(requests, i)
  PROVE  /\ requests' \in Seq(Tests)
         /\ \A u : IsPending(u)' => IsPending(u)
         /\ \A u : u # requests[i] /\ IsPending(u) => IsPending(u)'
<1>1. requests \in Seq(Tests)
  BY DEF TypeOK
<1>2. /\ RemoveAt(requests, i) \in Seq(Tests)
      /\ \A j \in DOMAIN RemoveAt(requests, i) :
           \E k \in DOMAIN requests : requests[k] = RemoveAt(requests, i)[j]
      /\ \A k \in DOMAIN requests :
           k # i => \E j \in DOMAIN RemoveAt(requests, i) : requests[k] = RemoveAt(requests, i)[j]
  BY <1>1, RemoveAtKeeps
<1> QED
  BY <1>2, Zenon DEF IsPending

-----------------------------------------------------------------------------
(* The API and the environment.                                              *)

LEMMA StartTestStep ==
  ASSUME IInv, NEW t \in Tests, StartTest(t)
  PROVE  IInv'
<1>1. TypeOK'
  BY DEF IInv, TypeOK, StartTest, States, Active
<1>2. \A u \in Tests : u # t => test'[u] = test[u]
  BY DEF IInv, TypeOK, StartTest
<1>3. ~IsActive(t) /\ ~HasEnded(t)
  BY DEF StartTest, IsActive, HasEnded, Active, Ended
<1>4. test'[t].state = "queued"
  BY DEF IInv, TypeOK, StartTest
<1>5. HandInv'
  BY <1>2, <1>3, <1>4 DEF IInv, HandInv, WorkerHand, CancellerHand, StartTest, IsActive, HasEnded, IsPending, Holding
<1>6. CancellationMatches'
  BY <1>2, <1>3, <1>4 DEF IInv, CancellationMatches, StartTest, HasEnded, IsPending
<1> QED
  BY <1>1, <1>5, <1>6 DEF IInv

LEMMA CancelTestStep ==
  ASSUME IInv, NEW t \in Tests, CancelTest(t)
  PROVE  IInv'
<1>1. requests \in Seq(Tests) /\ requests' = Append(requests, t)
  BY DEF IInv, TypeOK, CancelTest
<1>2. requests' \in Seq(Tests)
  BY <1>1
<1>3. \A u : IsPending(u)' <=> IsPending(u) \/ u = t
  <2>1. /\ DOMAIN requests = 1 .. Len(requests) /\ Len(requests) \in Nat
        /\ DOMAIN requests' = 1 .. (Len(requests) + 1)
        /\ \A i \in 1 .. Len(requests) : requests'[i] = requests[i]
        /\ requests'[Len(requests) + 1] = t
    BY <1>1, AppendProperties, LenProperties
  <2>2. \A i \in 1 .. (Len(requests) + 1) : i \in 1 .. Len(requests) \/ i = Len(requests) + 1
    BY <2>1
  <2>3. 1 .. Len(requests) \subseteq 1 .. (Len(requests) + 1)
        /\ Len(requests) + 1 \in 1 .. (Len(requests) + 1)
    BY <2>1
  <2> QED
    BY <2>1, <2>2, <2>3 DEF IsPending
<1>4. TypeOK'
  BY <1>2 DEF IInv, TypeOK, CancelTest
<1>5. ~(worker.pc \in Holding /\ worker.test = t)
  BY DEF CancelTest, Locked
<1>6. UNCHANGED << test, processed, worker, canceller >>
  BY DEF CancelTest
<1>7. HandInv'
  BY <1>3, <1>5, <1>6 DEF IInv, HandInv, WorkerHand, CancellerHand, IsActive, HasEnded
<1>8. CancellationMatches'
  BY <1>3, <1>6 DEF IInv, CancellationMatches, HasEnded
<1> QED
  BY <1>4, <1>7, <1>8 DEF IInv

\* A step after which the worker holds what it held, or lets go of it.
LEMMA QuietStep ==
  ASSUME IInv, TypeOK', UNCHANGED << test, requests, processed >>, HandInv'
  PROVE  IInv'
  BY DEF IInv, CancellationMatches, HasEnded, IsPending

LEMMA EnvironmentStep ==
  ASSUME IInv, WorkerCrash \/ \E t \in Tests : ContainerExits(t)
  PROVE  IInv'
<1>1. CASE WorkerCrash
  <2>1. worker' = Idle /\ canceller' = Quiet /\ UNCHANGED << test, requests, processed, docker >>
    BY <1>1 DEF WorkerCrash
  <2>2. faults' \in 0 .. MaxFaults /\ executor' \in BOOLEAN
    BY <1>1 DEF WorkerCrash, IInv, TypeOK
  <2>3. TypeOK'
    BY <2>1, <2>2 DEF IInv, TypeOK, Idle, Quiet, WorkerPcs, CancelPcs, Tests
  <2>4. HandInv'
    BY <2>1 DEF HandInv, WorkerHand, CancellerHand, Idle, Quiet, Holding
  <2> QED
    BY <2>1, <2>3, <2>4, QuietStep
<1>2. ASSUME NEW t \in Tests, ContainerExits(t) PROVE IInv'
  <2>1. TypeOK'
    BY <1>2 DEF IInv, TypeOK, ContainerExits
  <2>2. HandInv'
    BY <1>2 DEF IInv, HandInv, WorkerHand, CancellerHand, ContainerExits, IsActive, HasEnded, IsPending
  <2> QED
    BY <1>2, <2>1, <2>2, QuietStep DEF ContainerExits
<1> QED
  BY <1>1, <1>2

-----------------------------------------------------------------------------
(* The main loop.                                                            *)

WorkerRows == [pc : WorkerPcs, test : 0 .. MaxTest, known : SUBSET Tests,
               op : {"none", "live", "cancelled"}]

\* What the main loop may do: it finishes no test a second time, and cancels none
\* nobody wants cancelled.
LEMMA MainStep ==
  ASSUME IInv, TypeOK', WorkerHand', UNCHANGED << requests, processed, canceller >>,
         \A u \in Tests : HasEnded(u) => test'[u] = test[u],
         \A u \in Tests : test'[u].state = "cancelled" => test[u].state = "cancelled" \/ IsPending(u)
  PROVE  IInv'
<1>1. \A u : IsPending(u)' <=> IsPending(u)
  BY DEF IsPending
<1>2. \A u \in Tests : HasEnded(u) => HasEnded(u)'
  BY DEF HasEnded
<1>3. CancellerHand'
  BY <1>1, <1>2 DEF IInv, HandInv, CancellerHand
<1>4. CancellationMatches'
  BY <1>1, <1>2 DEF IInv, CancellationMatches
<1> QED
  BY <1>3, <1>4 DEF IInv, HandInv

LEMMA WorkerGoes ==
  ASSUME IInv, NEW p \in WorkerPcs
  PROVE  /\ [worker EXCEPT !.pc = p] \in WorkerRows
         /\ [worker EXCEPT !.pc = p].pc = p
         /\ [worker EXCEPT !.pc = p].test = worker.test
<1>1. worker \in WorkerRows
  BY DEF IInv, TypeOK, WorkerRows
<1> QED
  BY <1>1 DEF WorkerRows

LEMMA IdleFields == Idle \in WorkerRows /\ Idle.pc = "idle"
  BY DEF Idle, WorkerRows, WorkerPcs, Tests

LEMMA LoopFields ==
  ASSUME NEW p \in WorkerPcs, NEW k \in SUBSET Tests
  PROVE  /\ [Idle EXCEPT !.pc = p] \in WorkerRows /\ [Idle EXCEPT !.pc = p].pc = p
         /\ [Idle EXCEPT !.pc = p, !.known = k] \in WorkerRows
         /\ [Idle EXCEPT !.pc = p, !.known = k].pc = p
<1>1. Idle \in WorkerRows
  BY IdleFields
<1> QED
  BY <1>1 DEF WorkerRows

\* A step that takes no test in hand.
LEMMA LooseStep ==
  ASSUME IInv, UNCHANGED << test, requests, processed, canceller, executor >>,
         worker' \in WorkerRows, worker'.pc \in {"idle", "sweep", "claim"},
         docker' \in [Tests -> SUBSET Resources], faults' \in 0 .. MaxFaults
  PROVE  IInv'
<1>1. TypeOK'
  BY DEF IInv, TypeOK, WorkerRows
<1>2. WorkerHand'
  BY DEF WorkerHand, Holding
<1> QED
  BY <1>1, <1>2, MainStep

\* A test without the row's lock: to be failed or cleaned up.
LEMMA ReleasedStep ==
  ASSUME IInv, UNCHANGED << requests, processed, canceller, executor >>,
         worker.test \in Tests, worker' \in WorkerRows, worker'.pc \in {"fail", "cleanup"},
         worker'.test = worker.test,
         test' \in [Tests -> TestRows],
         \A u \in Tests : HasEnded(u) => test'[u] = test[u],
         \A u \in Tests : test'[u].state = "cancelled" => test[u].state = "cancelled" \/ IsPending(u),
         docker' \in [Tests -> SUBSET Resources], faults' \in 0 .. MaxFaults
  PROVE  IInv'
<1>1. TypeOK'
  BY DEF IInv, TypeOK, WorkerRows, TestRows
<1>2. WorkerHand'
  BY DEF WorkerHand, Holding
<1> QED
  BY <1>1, <1>2, MainStep

\* A test that goes on under the same lock.
LEMMA HeldStep ==
  ASSUME IInv, UNCHANGED << test, requests, processed, canceller, executor >>,
         worker.pc \in Holding \ {"check"}, worker' \in WorkerRows,
         worker'.pc \in Holding \ {"check"}, worker'.test = worker.test,
         docker' \in [Tests -> SUBSET Resources], faults' \in 0 .. MaxFaults
  PROVE  IInv'
<1>1. TypeOK'
  BY DEF IInv, TypeOK, WorkerRows
<1>2. worker.test \in Tests /\ IsActive(worker.test) /\ ~IsPending(worker.test)
  BY DEF IInv, HandInv, WorkerHand, Holding
<1>3. WorkerHand'
  BY <1>2 DEF WorkerHand, IsActive, IsPending
<1> QED
  BY <1>1, <1>3, MainStep

\* A test that is advanced or finished by the one who holds it, and given back.
LEMMA CommitStep ==
  ASSUME IInv, UNCHANGED << requests, processed, canceller, executor >>,
         worker.pc \in Holding, test' \in [Tests -> TestRows],
         \A u \in Tests : u # worker.test => test'[u] = test[u],
         test'[worker.test].state # "cancelled",
         worker' \in WorkerRows, worker'.pc \in {"idle", "cleanup"},
         worker'.pc = "cleanup" => worker'.test = worker.test,
         docker' \in [Tests -> SUBSET Resources], faults' \in 0 .. MaxFaults
  PROVE  IInv'
<1>1. TypeOK'
  BY DEF IInv, TypeOK, WorkerRows, TestRows
<1>2. worker.test \in Tests /\ ~HasEnded(worker.test)
  BY DEF IInv, HandInv, WorkerHand, Holding, IsActive, HasEnded, Active, Ended
<1>3. WorkerHand'
  BY <1>2 DEF WorkerHand, Holding
<1>4. \A u \in Tests : test'[u].state = "cancelled" => test[u].state = "cancelled" \/ IsPending(u)
  OBVIOUS
<1> QED
  BY <1>1, <1>2, <1>3, <1>4, MainStep

LEMMA SameTypes ==
  ASSUME IInv
  PROVE  /\ docker \in [Tests -> SUBSET Resources] /\ faults \in 0 .. MaxFaults
         /\ test \in [Tests -> TestRows] /\ worker \in WorkerRows
  BY DEF IInv, TypeOK, TestRows, WorkerRows

LEMMA LoopStep ==
  ASSUME IInv, ReadActive \/ Sweep \/ NothingToClaim
  PROVE  IInv'
<1>1. UNCHANGED << test, requests, processed, canceller, executor >>
  BY DEF ReadActive, Sweep, NothingToClaim
<1>2. worker' \in WorkerRows /\ worker'.pc \in {"idle", "sweep", "claim"}
  <2>1. {t \in Tests : IsActive(t)} \in SUBSET Tests
    OBVIOUS
  <2>2. "sweep" \in WorkerPcs /\ "claim" \in WorkerPcs
    BY DEF WorkerPcs
  <2>3. \/ worker' = Idle
        \/ worker' = [Idle EXCEPT !.pc = "claim"]
        \/ worker' = [Idle EXCEPT !.pc = "sweep", !.known = {t \in Tests : IsActive(t)}]
    BY DEF ReadActive, Sweep, NothingToClaim
  <2>4. CASE worker' = Idle
    BY <2>4, IdleFields
  <2>5. CASE worker' = [Idle EXCEPT !.pc = "claim"]
    BY <2>1, <2>2, <2>5, LoopFields
  <2>6. CASE worker' = [Idle EXCEPT !.pc = "sweep", !.known = {t \in Tests : IsActive(t)}]
    BY <2>1, <2>2, <2>6, LoopFields
  <2> QED
    BY <2>3, <2>4, <2>5, <2>6
<1>3. docker' \in [Tests -> SUBSET Resources]
  BY SameTypes DEF ReadActive, Sweep, NothingToClaim
<1>4. faults' \in 0 .. MaxFaults
  BY SameTypes DEF ReadActive, Sweep, NothingToClaim
<1> QED
  BY <1>1, <1>2, <1>3, <1>4, LooseStep

LEMMA ClaimStep ==
  ASSUME IInv, NEW t \in Tests, Claim(t)
  PROVE  IInv'
<1>1. worker \in WorkerRows /\ t \in 0 .. MaxTest
  BY SameTypes DEF Tests
<1>2. /\ worker' \in WorkerRows /\ worker'.pc \in {"check", "fail"} /\ worker'.test = t
  BY <1>1 DEF Claim, WorkerRows, WorkerPcs
<1>3. UNCHANGED << test, requests, processed, docker, canceller, executor, faults >> /\ IsActive(t)
  BY DEF Claim
<1>4. TypeOK'
  BY <1>2, <1>3 DEF IInv, TypeOK, WorkerRows
<1>5. WorkerHand'
  BY <1>2, <1>3 DEF WorkerHand, Holding, IsActive
<1> QED
  BY <1>3, <1>4, <1>5, MainStep

LEMMA CheckStep ==
  ASSUME IInv, CheckCancellation
  PROVE  IInv'
<1>1. UNCHANGED << test, requests, processed, docker, canceller, executor, faults >>
  BY DEF CheckCancellation
<1>2. CASE worker' = Idle
  BY <1>1, <1>2, LooseStep, IdleFields, SameTypes
<1>3. CASE ~IsPending(worker.test) /\ worker' = [worker EXCEPT !.pc = "run"]
  <2>1. worker' \in WorkerRows /\ worker'.pc = "run" /\ worker'.test = worker.test
    BY <1>3, WorkerGoes DEF WorkerPcs
  <2>2. worker.test \in Tests /\ IsActive(worker.test)
    BY DEF CheckCancellation, IInv, HandInv, WorkerHand, Holding
  <2>3. TypeOK'
    BY <1>1, <2>1 DEF IInv, TypeOK, WorkerRows
  <2>4. WorkerHand'
    BY <1>1, <1>3, <2>1, <2>2 DEF WorkerHand, IsActive, IsPending
  <2> QED
    BY <1>1, <2>3, <2>4, MainStep
<1> QED
  BY <1>2, <1>3 DEF CheckCancellation

\* A Docker call that fails.
LEMMA AbortStep ==
  ASSUME IInv, Abort, worker.pc \in Holding, UNCHANGED << test, requests, processed, canceller, executor >>,
         docker' \in [Tests -> SUBSET Resources], faults' = faults
  PROVE  IInv'
<1>1. worker' \in WorkerRows /\ worker'.pc = "fail" /\ worker'.test = worker.test
  BY WorkerGoes DEF Abort, WorkerPcs
<1>2. worker.test \in Tests
  BY DEF IInv, HandInv, WorkerHand, Holding
<1> QED
  BY <1>1, <1>2, ReleasedStep, SameTypes

LEMMA QueuedStep ==
  ASSUME IInv, Queued \/ Pull
  PROVE  IInv'
<1>1. /\ UNCHANGED << requests, processed, docker, canceller, executor, faults >>
      /\ worker.pc \in Holding /\ worker.test \in Tests
  BY DEF Queued, Pull, Holding, IInv, HandInv, WorkerHand
<1>2. CASE test' = test /\ Abort
  BY <1>1, <1>2, AbortStep, SameTypes
<1>3. CASE \E s \in {"pulling", "starting"} : test' = Advance(worker.test, s) /\ worker' = Idle
  <2>1. PICK s \in {"pulling", "starting"} : test' = Advance(worker.test, s) /\ worker' = Idle
    BY <1>3
  <2>2. /\ test' \in [Tests -> TestRows] /\ test'[worker.test].state = s
        /\ \A u \in Tests : u # worker.test => test'[u] = test[u]
    BY <1>1, <2>1, AdvanceFields DEF IInv, States, Active
  <2> QED
    BY <1>1, <2>1, <2>2, CommitStep, SameTypes, IdleFields
<1> QED
  BY <1>2, <1>3 DEF Queued, Pull

\* One Docker call of a test that is being started.
LEMMA CallTypes ==
  ASSUME IInv, NEW t \in Tests, NEW effect \in SUBSET Resources,
         docker' = docker \/ docker' = [docker EXCEPT ![t] = effect]
  PROVE  docker' \in [Tests -> SUBSET Resources]
  BY SameTypes

LEMMA StartStep ==
  ASSUME IInv, StartNetwork \/ StartCreate
  PROVE  IInv'
<1>1. /\ UNCHANGED << requests, processed, canceller, executor, faults >>
      /\ worker.pc \in Holding \ {"check"}
  BY DEF StartNetwork, StartCreate, Holding
<1>2. worker.test \in Tests
  BY <1>1 DEF Holding, IInv, HandInv, WorkerHand
<1>3. PICK effect \in SUBSET Resources, p \in {"create", "start"} :
        /\ docker' = docker \/ docker' = [docker EXCEPT ![worker.test] = effect]
        /\ test' = test
        /\ Abort \/ worker' = [worker EXCEPT !.pc = p]
  <2>1. docker[worker.test] \in SUBSET Resources
    BY <1>2, SameTypes
  <2>2. docker[worker.test] \union {"network"} \in SUBSET Resources
        /\ (docker[worker.test] \ {"running"}) \union {"container"} \in SUBSET Resources
    BY <2>1 DEF Resources
  <2>3. CASE StartNetwork
    BY <2>2, <2>3 DEF StartNetwork, DockerCall
  <2>4. CASE StartCreate
    BY <2>2, <2>4 DEF StartCreate, DockerCall
  <2> QED
    BY <2>3, <2>4
<1>4. docker' \in [Tests -> SUBSET Resources]
  BY <1>2, <1>3, CallTypes
<1>5. CASE Abort
  BY <1>1, <1>3, <1>4, <1>5, AbortStep
<1>6. CASE worker' = [worker EXCEPT !.pc = p]
  <2>1. worker' \in WorkerRows /\ worker'.pc = p /\ worker'.test = worker.test
    BY <1>6, WorkerGoes DEF WorkerPcs
  <2>2. faults' \in 0 .. MaxFaults
    BY <1>1, SameTypes
  <2> QED
    BY <1>1, <1>3, <1>4, <2>1, <2>2, HeldStep DEF Holding
<1> QED
  BY <1>3, <1>5, <1>6

LEMMA StartContainerStep ==
  ASSUME IInv, StartContainer
  PROVE  IInv'
<1>1. /\ UNCHANGED << requests, processed, canceller, executor, faults >>
      /\ worker.pc \in Holding
  BY DEF StartContainer, Holding
<1>2. worker.test \in Tests
  BY <1>1 DEF Holding, IInv, HandInv, WorkerHand
<1>3. docker' \in [Tests -> SUBSET Resources]
  <2>1. docker[worker.test] \union {"running"} \in SUBSET Resources
    BY <1>2, SameTypes DEF Resources
  <2>2. docker' = docker \/ docker' = [docker EXCEPT ![worker.test] = docker[worker.test] \union {"running"}]
    BY DEF StartContainer, DockerCall
  <2> QED
    BY <1>2, <2>1, <2>2, CallTypes
<1>4. CASE test' = test /\ Abort
  BY <1>1, <1>3, <1>4, AbortStep
<1>5. CASE test' = Advance(worker.test, "health_checking") /\ worker' = Idle
  <2>1. /\ test' \in [Tests -> TestRows] /\ test'[worker.test].state = "health_checking"
        /\ \A u \in Tests : u # worker.test => test'[u] = test[u]
    BY <1>2, <1>5, AdvanceFields DEF IInv, States, Active
  <2>2. faults' \in 0 .. MaxFaults
    BY <1>1, SameTypes
  <2> QED
    BY <1>1, <1>3, <1>5, <2>1, <2>2, CommitStep, IdleFields
<1> QED
  BY <1>4, <1>5 DEF StartContainer, DockerCall

\* The answer of a health check, for the test the worker holds.
LEMMA AnswerStep ==
  ASSUME IInv, Healthy \/ Unhealthy, worker.pc \in Holding, test[worker.test].state # "cancelled",
         UNCHANGED << requests, processed, canceller, executor >>,
         docker' \in [Tests -> SUBSET Resources], faults' \in 0 .. MaxFaults
  PROVE  IInv'
<1>1. worker.test \in Tests
  BY DEF Holding, IInv, HandInv, WorkerHand
<1>2. CASE \E s \in {"succeeded", "failed"} :
             test' = Complete(worker.test, s) /\ worker' = [worker EXCEPT !.pc = "cleanup"]
  <2>1. PICK s \in {"succeeded", "failed"} :
             test' = Complete(worker.test, s) /\ worker' = [worker EXCEPT !.pc = "cleanup"]
    BY <1>2
  <2>2. /\ test' \in [Tests -> TestRows] /\ test'[worker.test].state = s
        /\ \A u \in Tests : u # worker.test => test'[u] = test[u]
    BY <1>1, <2>1, CompleteFields DEF IInv, States, Ended
  <2>3. worker' \in WorkerRows /\ worker'.pc = "cleanup" /\ worker'.test = worker.test
    BY <2>1, WorkerGoes DEF WorkerPcs
  <2> QED
    BY <2>2, <2>3, CommitStep
<1>3. CASE /\ ~(test[worker.test].attempts + 1 >= MaxHealthAttempts)
           /\ test' = [test EXCEPT ![worker.test].attempts = @ + 1]
           /\ worker' = Idle
  <2>1. test \in [Tests -> TestRows] /\ test[worker.test] \in TestRows
    BY <1>1, SameTypes
  <2>2. test[worker.test].attempts + 1 \in 0 .. MaxHealthAttempts
    BY <1>3, <2>1 DEF TestRows
  <2>3. test' = [test EXCEPT ![worker.test] = [test[worker.test] EXCEPT !.attempts = @ + 1]]
    BY <1>3
  <2>4. /\ [test[worker.test] EXCEPT !.attempts = @ + 1] \in TestRows
        /\ [test[worker.test] EXCEPT !.attempts = @ + 1].state = test[worker.test].state
    BY <2>1, <2>2 DEF TestRows
  <2>5. /\ test' \in [Tests -> TestRows] /\ test'[worker.test].state # "cancelled"
        /\ \A u \in Tests : u # worker.test => test'[u] = test[u]
    BY <1>1, <2>1, <2>3, <2>4
  <2> QED
    BY <1>3, <2>5, CommitStep, IdleFields
<1> QED
  BY <1>2, <1>3 DEF Healthy, Unhealthy

LEMMA HealthStep ==
  ASSUME IInv, HealthCheck
  PROVE  IInv'
<1>1. /\ UNCHANGED << requests, processed, canceller, executor, faults >>
      /\ worker.pc \in Holding \ {"check"} /\ test[worker.test].state # "cancelled"
  BY DEF HealthCheck, Holding
<1>2. worker.test \in Tests /\ faults' \in 0 .. MaxFaults
  BY <1>1, SameTypes DEF Holding, IInv, HandInv, WorkerHand
<1>3. CASE docker' = docker /\ (Healthy \/ Unhealthy)
  BY <1>1, <1>2, <1>3, AnswerStep, SameTypes
<1>4. CASE docker' = docker /\ test' = test /\ Abort
  BY <1>1, <1>4, AbortStep, SameTypes
<1>5. CASE /\ docker' = [docker EXCEPT ![worker.test] = @ \union {"probe"}]
           /\ test' = test
           /\ worker' = [worker EXCEPT !.pc = "probe"]
  <2>1. docker' \in [Tests -> SUBSET Resources]
    BY <1>2, <1>5, SameTypes DEF Resources
  <2>2. worker' \in WorkerRows /\ worker'.pc = "probe" /\ worker'.test = worker.test
    BY <1>5, WorkerGoes DEF WorkerPcs
  <2> QED
    BY <1>1, <1>2, <1>5, <2>1, <2>2, HeldStep DEF Holding
<1> QED
  BY <1>3, <1>4, <1>5 DEF HealthCheck

LEMMA ProbeStep ==
  ASSUME IInv, ProbeEnds
  PROVE  IInv'
<1>1. /\ UNCHANGED << requests, processed, canceller, executor >>
      /\ worker.pc \in Holding /\ (Healthy \/ Unhealthy)
  BY DEF ProbeEnds, Holding
<1>2. worker.test \in Tests /\ test[worker.test].state # "cancelled"
  BY <1>1 DEF Holding, IInv, HandInv, WorkerHand, IsActive, Active
<1>3. docker' \in [Tests -> SUBSET Resources] /\ faults' \in 0 .. MaxFaults
  <2>1. docker' = docker \/ docker' = [docker EXCEPT ![worker.test] = @ \ {"probe"}]
    BY DEF ProbeEnds
  <2>2. docker' \in [Tests -> SUBSET Resources]
    BY <1>2, <2>1, SameTypes
  <2>3. faults' \in 0 .. MaxFaults
    BY SameTypes DEF ProbeEnds
  <2> QED
    BY <2>2, <2>3
<1> QED
  BY <1>1, <1>2, <1>3, AnswerStep

LEMMA FailStep ==
  ASSUME IInv, Fail
  PROVE  IInv'
<1>1. /\ worker.test \in Tests /\ UNCHANGED << requests, processed, docker, canceller, executor >>
      /\ worker' = [worker EXCEPT !.pc = "cleanup"]
  BY DEF Fail, IInv, HandInv, WorkerHand
<1>2. worker' \in WorkerRows /\ worker'.pc = "cleanup" /\ worker'.test = worker.test
  BY <1>1, WorkerGoes DEF WorkerPcs
<1>3. faults' \in 0 .. MaxFaults
  BY SameTypes DEF Fail
<1>4. CASE test' = test
  BY <1>1, <1>2, <1>3, <1>4, ReleasedStep, SameTypes
<1>5. CASE \E s \in {"cancelled", "failed"} :
             /\ ~HasEnded(worker.test) /\ test' = Complete(worker.test, s)
             /\ s = "cancelled" => IsPending(worker.test)
  <2>1. PICK s \in {"cancelled", "failed"} :
             /\ ~HasEnded(worker.test) /\ test' = Complete(worker.test, s)
             /\ s = "cancelled" => IsPending(worker.test)
    BY <1>5
  <2>2. /\ test' \in [Tests -> TestRows] /\ test'[worker.test].state = s
        /\ \A u \in Tests : u # worker.test => test'[u] = test[u]
    BY <1>1, <2>1, CompleteFields DEF IInv, States, Ended
  <2> QED
    BY <1>1, <1>2, <1>3, <2>1, <2>2, ReleasedStep, SameTypes
<1> QED
  BY <1>4, <1>5 DEF Fail

LEMMA CleanupStep ==
  ASSUME IInv, WorkerCleanup
  PROVE  IInv'
<1>1. worker.test \in Tests /\ Cleanup(worker.test) /\ worker' = Idle
      /\ UNCHANGED << test, requests, processed, canceller, executor >>
  BY DEF WorkerCleanup, IInv, HandInv, WorkerHand
<1>2. docker' \in [Tests -> SUBSET Resources] /\ faults' \in 0 .. MaxFaults
  BY <1>1, CleanupShrinks DEF IInv
<1> QED
  BY <1>1, <1>2, LooseStep, IdleFields

-----------------------------------------------------------------------------
(* The cancellation loop.                                                    *)

CancellerRows == [pc : CancelPcs, test : 0 .. MaxTest]

\* A step of the canceller within one cancellation.
LEMMA CancellerStep ==
  ASSUME IInv, UNCHANGED << test, requests, processed, worker, executor >>,
         canceller' \in CancellerRows, CancellerHand',
         docker' \in [Tests -> SUBSET Resources], faults' \in 0 .. MaxFaults
  PROVE  IInv'
<1>1. TypeOK'
  BY DEF IInv, TypeOK, CancellerRows
<1>2. WorkerHand'
  BY DEF IInv, HandInv, WorkerHand, IsActive, IsPending
<1> QED
  BY <1>1, <1>2, QuietStep DEF HandInv

LEMMA QuietFields == Quiet \in CancellerRows /\ Quiet.pc = "idle"
  BY DEF Quiet, CancellerRows, CancelPcs

LEMMA CancellerGoes ==
  ASSUME IInv, NEW p \in CancelPcs
  PROVE  /\ [canceller EXCEPT !.pc = p] \in CancellerRows
         /\ [canceller EXCEPT !.pc = p].pc = p
         /\ [canceller EXCEPT !.pc = p].test = canceller.test
<1>1. canceller \in CancellerRows
  BY DEF IInv, TypeOK, CancellerRows
<1> QED
  BY <1>1 DEF CancellerRows

LEMMA LookupStep ==
  ASSUME IInv, Lookup
  PROVE  IInv'
<1>1. requests \in Seq(Tests) /\ requests # << >>
  BY DEF IInv, TypeOK, Lookup
<1>2. Head(requests) \in Tests /\ IsPending(Head(requests))
  <2>1. Len(requests) \in Nat /\ Len(requests) # 0 /\ DOMAIN requests = 1 .. Len(requests)
    BY <1>1, LenProperties, EmptySeq
  <2>2. 1 \in DOMAIN requests /\ Head(requests) = requests[1]
    BY <1>1, <2>1
  <2>3. requests[1] \in Tests
    BY <1>1, <2>2, ElementOfSeq
  <2> QED
    BY <2>2, <2>3 DEF IsPending
<1>3. /\ canceller' = [pc |-> "signal", test |-> Head(requests)]
      /\ UNCHANGED << test, requests, processed, docker, worker, executor, faults >>
  BY DEF Lookup
<1>4. canceller' \in CancellerRows
  BY <1>2, <1>3 DEF CancellerRows, CancelPcs, Tests
<1>5. CancellerHand'
  BY <1>2, <1>3 DEF CancellerHand, IsPending
<1> QED
  BY <1>3, <1>4, <1>5, CancellerStep, SameTypes

LEMMA SignalStep ==
  ASSUME IInv, Signal
  PROVE  IInv'
<1>1. /\ canceller' \in CancellerRows /\ canceller'.pc = "clean" /\ canceller'.test = canceller.test
  BY CancellerGoes DEF Signal, CancelPcs
<1>2. UNCHANGED << test, requests, processed, docker, executor, faults >> /\ canceller.pc = "signal"
  BY DEF Signal
<1>3. worker' \in WorkerRows /\ worker'.pc = worker.pc /\ worker'.test = worker.test
  <2>1. worker' = worker \/ worker' = [worker EXCEPT !.op = "cancelled"]
    BY DEF Signal
  <2>2. worker \in WorkerRows
    BY SameTypes
  <2> QED
    BY <2>1, <2>2 DEF WorkerRows
<1>4. TypeOK'
  BY <1>1, <1>2, <1>3 DEF IInv, TypeOK, WorkerRows, CancellerRows
<1>5. WorkerHand'
  BY <1>2, <1>3 DEF IInv, HandInv, WorkerHand, IsActive, IsPending
<1>6. CancellerHand'
  BY <1>1, <1>2 DEF IInv, HandInv, CancellerHand, IsPending
<1> QED
  BY <1>2, <1>4, <1>5, <1>6, QuietStep DEF HandInv

LEMMA CleanStep ==
  ASSUME IInv, CleanBefore \/ CleanAfter
  PROVE  IInv'
<1>1. /\ canceller.test \in Tests /\ Cleanup(canceller.test)
      /\ UNCHANGED << test, requests, processed, worker, executor >>
  BY DEF CleanBefore, CleanAfter, IInv, HandInv, CancellerHand
<1>2. docker' \in [Tests -> SUBSET Resources] /\ faults' \in 0 .. MaxFaults
  BY <1>1, CleanupShrinks DEF IInv
<1>3. CASE CleanBefore
  <2>1. /\ canceller' \in CancellerRows /\ canceller'.pc = "claim" /\ canceller'.test = canceller.test
    BY <1>3, CancellerGoes DEF CleanBefore, CancelPcs
  <2>2. CancellerHand'
    BY <1>1, <1>3, <2>1 DEF CleanBefore, IInv, HandInv, CancellerHand, IsPending
  <2> QED
    BY <1>1, <1>2, <2>1, <2>2, CancellerStep
<1>4. CASE CleanAfter
  <2>1. CancellerHand'
    BY <1>4, QuietFields DEF CleanAfter, CancellerHand
  <2> QED
    BY <1>1, <1>2, <1>4, <2>1, QuietFields, CancellerStep DEF CleanAfter
<1> QED
  BY <1>3, <1>4

LEMMA NoCancellationStep ==
  ASSUME IInv, NoCancellation
  PROVE  IInv'
<1>1. CancellerHand'
  BY QuietFields DEF NoCancellation, CancellerHand
<1> QED
  BY <1>1, QuietFields, CancellerStep, SameTypes DEF NoCancellation

\* The canceller finishes a test that the main loop does not hold.
LEMMA ClaimCancellationStep ==
  ASSUME IInv, ClaimCancellation
  PROVE  IInv'
<1>1. PICK i \in DOMAIN requests :
        /\ ~Locked(requests[i])
        /\ test' = IF HasEnded(requests[i]) THEN test ELSE Complete(requests[i], "cancelled")
        /\ requests' = RemoveAt(requests, i)
        /\ processed' = processed \union {requests[i]}
        /\ canceller' = [pc |-> "clean_after", test |-> requests[i]]
  BY DEF ClaimCancellation
<1>2. UNCHANGED << docker, worker, executor, faults >>
  BY DEF ClaimCancellation
<1>3. PICK t \in Tests : t = requests[i]
  BY <1>1, ElementOfSeq DEF IInv, TypeOK
<1>4. /\ requests' \in Seq(Tests)
      /\ \A u : IsPending(u)' => IsPending(u)
      /\ \A u : u # t /\ IsPending(u) => IsPending(u)'
  BY <1>1, <1>3, PendingAfter DEF IInv
<1>5. /\ test' \in [Tests -> TestRows]
      /\ test'[t].state \in Ended
      /\ \A u \in Tests : u # t => test'[u] = test[u]
  <2>1. CASE HasEnded(t)
    BY <1>1, <1>3, <2>1, SameTypes DEF HasEnded
  <2>2. CASE ~HasEnded(t)
    <3>1. test' = Complete(t, "cancelled") /\ "cancelled" \in States /\ "cancelled" \in Ended
      BY <1>1, <1>3, <2>2 DEF States, Ended
    <3> QED
      BY <3>1, CompleteFields DEF IInv
  <2> QED
    BY <2>1, <2>2
<1>6. TypeOK'
  <2>1. canceller' \in CancellerRows
    BY <1>1, <1>3 DEF CancellerRows, CancelPcs, Tests
  <2>2. processed' \subseteq Tests
    BY <1>1, <1>3 DEF IInv, TypeOK
  <2> QED
    BY <1>2, <1>4, <1>5, <2>1, <2>2 DEF IInv, TypeOK, CancellerRows, TestRows
<1>7. WorkerHand'
  <2>1. WorkerHand /\ worker' = worker
    BY <1>2 DEF IInv, HandInv
  <2>2. worker.pc \in Holding => worker.test \in Tests /\ worker.test # t
    BY <1>1, <1>3, <2>1 DEF WorkerHand, Locked, Holding
  <2>3. worker.pc \in Holding => IsActive(worker.test)'
    BY <1>5, <2>1, <2>2 DEF WorkerHand, IsActive
  <2>4. worker.pc \in Holding \ {"check"} => ~IsPending(worker.test)'
    BY <1>4, <2>1 DEF WorkerHand
  <2> QED
    BY <2>1, <2>3, <2>4 DEF WorkerHand
<1>8. CancellerHand'
  BY <1>1, <1>3, <1>5 DEF CancellerHand, HasEnded
<1>9. CancellationMatches'
  BY <1>1, <1>3, <1>4, <1>5 DEF IInv, CancellationMatches, HasEnded
<1> QED
  BY <1>6, <1>7, <1>8, <1>9 DEF IInv, HandInv

-----------------------------------------------------------------------------
LEMMA NextIInv == IInv /\ [Next]_vars => IInv'
<1> SUFFICES ASSUME IInv, [Next]_vars PROVE IInv'
  OBVIOUS
<1>1. CASE MainLoop
  BY <1>1, LoopStep, ClaimStep, CheckStep, QueuedStep, StartStep, StartContainerStep, HealthStep,
     ProbeStep, FailStep, CleanupStep DEF MainLoop
<1>2. CASE CancellationLoop
  BY <1>2, LookupStep, SignalStep, CleanStep, ClaimCancellationStep, NoCancellationStep
  DEF CancellationLoop
<1>3. CASE UNCHANGED vars
  <2>1. TypeOK' /\ HandInv'
    BY <1>3 DEF IInv, vars, TypeOK, HandInv, WorkerHand, CancellerHand, IsActive, HasEnded, IsPending
  <2> QED
    BY <1>3, <2>1, QuietStep DEF vars
<1> QED
  BY <1>1, <1>2, <1>3, StartTestStep, CancelTestStep, EnvironmentStep DEF Next

(* The inductive invariant holds in every reachable state.                   *)
THEOREM Invariance == Spec => []IInv
  BY InitIInv, NextIInv, PTL DEF Spec

(* Rows, requests, Docker resources and both goroutines keep their types.    *)
THEOREM TypeCorrect == Spec => []TypeOK
<1>1. IInv => TypeOK
  BY DEF IInv
<1> QED
  BY <1>1, Invariance, PTL

(* The canceller never removes the container of a test between two Docker    *)
(* calls of the main loop for it.                                            *)
THEOREM CleanupsAreExclusive == Spec => []CleanupIsExclusive
<1>1. IInv => CleanupIsExclusive
  BY DEF IInv, HandInv, WorkerHand, CancellerHand, CleanupIsExclusive, IsActive, HasEnded,
     Active, Ended, Holding
<1> QED
  BY <1>1, Invariance, PTL

(* A processed cancellation has ended its test, and a test is recorded as    *)
(* cancelled only when somebody asked for it.                                *)
THEOREM CancellationsMatch == Spec => []CancellationMatches
<1>1. IInv => CancellationMatches
  BY DEF IInv
<1> QED
  BY <1>1, Invariance, PTL

-----------------------------------------------------------------------------
(* What the steps do to a test that has ended.                               *)

Untouched(t) == test'[t] = test[t] /\ docker'[t] \subseteq docker[t]

\* The main loop creates resources and writes results only for the test whose row it
\* holds, which is active.
LEMMA HolderStep ==
  ASSUME IInv, NEW t \in Tests, HasEnded(t),
         Queued \/ Pull \/ StartNetwork \/ StartCreate \/ StartContainer \/ HealthCheck \/ ProbeEnds
  PROVE  Untouched(t)
<1>1. worker.pc \in Holding
  BY DEF Queued, Pull, StartNetwork, StartCreate, StartContainer, HealthCheck, ProbeEnds, Holding
<1>2. worker.test \in Tests /\ worker.test # t
  BY <1>1 DEF IInv, HandInv, WorkerHand, Holding, IsActive, HasEnded, Active, Ended
<1>3. test'[t] = test[t]
  <2>1. \/ test' = test
        \/ \E s \in {"pulling", "starting", "health_checking"} : test' = Advance(worker.test, s)
        \/ Healthy \/ Unhealthy
    BY DEF Queued, Pull, StartNetwork, StartCreate, StartContainer, HealthCheck, ProbeEnds, DockerCall
  <2>2. test \in [Tests -> TestRows]
    BY SameTypes
  <2>3. CASE \E s \in {"pulling", "starting", "health_checking"} : test' = Advance(worker.test, s)
    BY <1>2, <2>2, <2>3 DEF Advance
  <2>4. CASE Healthy \/ Unhealthy
    BY <1>2, <2>2, <2>4 DEF Healthy, Unhealthy, Complete
  <2> QED
    BY <2>1, <2>3, <2>4
<1>4. docker'[t] = docker[t]
  <2>1. docker' = docker \/ \E effect : docker' = [docker EXCEPT ![worker.test] = effect]
    <3>1. CASE Queued \/ Pull
      BY <3>1 DEF Queued, Pull
    <3>2. CASE StartNetwork \/ StartCreate \/ StartContainer
      BY <3>2 DEF StartNetwork, StartCreate, StartContainer, DockerCall
    <3>3. CASE HealthCheck \/ ProbeEnds
      BY <3>3 DEF HealthCheck, ProbeEnds
    <3> QED
      BY <3>1, <3>2, <3>3
  <2>2. docker \in [Tests -> SUBSET Resources]
    BY SameTypes
  <2> QED
    BY <1>2, <2>1, <2>2
<1> QED
  BY <1>3, <1>4 DEF Untouched

LEMMA LoopUntouched ==
  ASSUME IInv, NEW t \in Tests, HasEnded(t),
         \/ ReadActive \/ Sweep \/ NothingToClaim \/ CheckCancellation \/ Fail \/ WorkerCleanup
         \/ \E u \in Tests : Claim(u)
  PROVE  Untouched(t)
<1>0. test \in [Tests -> TestRows] /\ docker \in [Tests -> SUBSET Resources]
  BY SameTypes
<1>1. CASE ReadActive \/ NothingToClaim \/ CheckCancellation \/ \E u \in Tests : Claim(u)
  BY <1>1 DEF ReadActive, NothingToClaim, CheckCancellation, Claim, Untouched
<1>2. CASE Sweep
  BY <1>0, <1>2 DEF Sweep, Untouched
<1>3. CASE Fail
  <2>1. test' = test \/ (~HasEnded(worker.test) /\ \E s : test' = Complete(worker.test, s))
    BY <1>3 DEF Fail
  <2> QED
    BY <1>0, <1>3, <2>1 DEF Fail, Complete, HasEnded, Untouched
<1>4. CASE WorkerCleanup
  <2>1. worker.test \in Tests /\ Cleanup(worker.test) /\ test' = test
    BY <1>4 DEF WorkerCleanup, IInv, HandInv, WorkerHand
  <2> QED
    BY <2>1, CleanupShrinks DEF IInv, Untouched
<1> QED
  BY <1>1, <1>2, <1>3, <1>4

LEMMA CancellerUntouched ==
  ASSUME IInv, NEW t \in Tests, HasEnded(t), CancellationLoop
  PROVE  Untouched(t)
<1>0. test \in [Tests -> TestRows]
  BY SameTypes
<1>1. CASE Lookup \/ Signal \/ NoCancellation
  BY <1>1 DEF Lookup, Signal, NoCancellation, Untouched
<1>2. CASE CleanBefore \/ CleanAfter
  <2>1. canceller.test \in Tests /\ Cleanup(canceller.test) /\ test' = test
    BY <1>2 DEF CleanBefore, CleanAfter, IInv, HandInv, CancellerHand
  <2> QED
    BY <2>1, CleanupShrinks DEF IInv, Untouched
<1>3. CASE ClaimCancellation
  <2>1. PICK u : test' = IF HasEnded(u) THEN test ELSE Complete(u, "cancelled")
    BY <1>3 DEF ClaimCancellation
  <2>2. docker' = docker
    BY <1>3 DEF ClaimCancellation
  <2> QED
    BY <1>0, <2>1, <2>2 DEF Complete, HasEnded, Untouched
<1> QED
  BY <1>1, <1>2, <1>3 DEF CancellationLoop

LEMMA EndedUntouched ==
  ASSUME IInv, [Next]_vars, NEW t \in Tests, HasEnded(t)
  PROVE  Untouched(t)
<1>0. test \in [Tests -> TestRows] /\ docker \in [Tests -> SUBSET Resources]
  BY SameTypes
<1>1. CASE MainLoop
  BY <1>1, HolderStep, LoopUntouched DEF MainLoop
<1>2. CASE CancellationLoop
  BY <1>2, CancellerUntouched
<1>3. ASSUME NEW u \in Tests, StartTest(u) \/ CancelTest(u) \/ ContainerExits(u) PROVE Untouched(t)
  <2>1. CASE StartTest(u)
    <3>1. u # t
      BY <2>1 DEF StartTest, HasEnded, Ended
    <3> QED
      BY <1>0, <2>1, <3>1 DEF StartTest, Untouched
  <2>2. CASE CancelTest(u)
    BY <2>2 DEF CancelTest, Untouched
  <2>3. CASE ContainerExits(u)
    BY <1>0, <2>3 DEF ContainerExits, Untouched
  <2> QED
    BY <1>3, <2>1, <2>2, <2>3
<1>4. CASE WorkerCrash \/ UNCHANGED vars
  BY <1>4 DEF WorkerCrash, vars, Untouched
<1> QED
  BY <1>1, <1>2, <1>3, <1>4 DEF Next

(* Nothing is created in Docker for a test that has ended, whichever of the  *)
(* two loops ended it: processProductVersionTestOne works on a test only     *)
(* while its transaction holds the row.                                      *)
THEOREM NothingIsResurrected == Spec => NoResurrection
<1>1. IInv /\ [Next]_vars => [\A t \in Tests : HasEnded(t) => docker'[t] \subseteq docker[t]]_vars
  BY EndedUntouched DEF Untouched
<1> QED
  BY <1>1, Invariance, PTL DEF Spec, NoResurrection

(* An ended test keeps its outcome and never gets its secrets back:          *)
(* failProductVersionTest and the canceller both look at the row again.      *)
THEOREM EndedTestsAreFinal == Spec => TerminalIsFinal
<1>1. IInv /\ [Next]_vars => [\A t \in Tests : HasEnded(t) => test'[t] = test[t]]_vars
  BY EndedUntouched DEF Untouched
<1> QED
  BY <1>1, Invariance, PTL DEF Spec, TerminalIsFinal
==============================================================================
