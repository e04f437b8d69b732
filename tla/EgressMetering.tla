--------------------------- MODULE EgressMetering ---------------------------
(***************************************************************************)
(* Public traffic: the proxy reports the bytes of a finished connection as *)
(* a sample (apps/egress-proxy/main.go), the API accepts samples of the    *)
(* open window (internal/httpapi/egress_features.go), and the worker turns *)
(* the samples of a closed window into one usage event (meterEgress in     *)
(* apps/worker/main.go).                                                   *)
(*                                                                         *)
(* A request may be lost before or after its transaction, and the proxy    *)
(* gives up waiting and sends again while the API still works on the older *)
(* request.  The API looks at its clock before it waits for the lock of    *)
(* the application, so the check and the transaction are two actions.      *)
(***************************************************************************)
EXTENDS Integers, FiniteSets, Functions

CONSTANTS
    Apps,
    Samples, AppOf,     \* samples and the application each belongs to
    Bytes,              \* byteDelta of a sample
    MaxTries,           \* attempts of report
    MaxWindows          \* bound on the number of five-minute windows

ASSUME SamplesAssumption == AppOf \in [Samples -> Apps] /\ Bytes \in [Samples -> Nat \ {0}]
ASSUME BoundsAssumption == MaxTries \in Nat \ {0} /\ MaxWindows \in Nat \ {0}

VARIABLES
    now,        \* the open window
    report,     \* report of the proxy: phase, window of observedAt, attempts made
    ingesting,  \* requests the API has not finished: sample, attempt, phase
    row,        \* app_egress_samples: absent, to be processed, or processed
    cumulative, \* app_egress_cursors.cumulative_bytes
    event       \* usage_events for network.egress_gib: bytes, 0 where there is none

egressVars == <<now, report, ingesting, row, cumulative, event>>

Windows == 1..MaxWindows
Phases == {"idle", "sending", "waiting", "done"}
Reports == [phase: Phases, window: 0..MaxWindows, tries: 0..MaxTries]
Requests == [sample: Samples, try: 1..MaxTries, phase: {"sent", "checked"}]

EgressTypeOK ==
    /\ now \in Windows
    /\ report \in [Samples -> Reports]
    /\ ingesting \subseteq Requests
    /\ row \in [Samples -> {"none", "new", "processed"}]
    /\ cumulative \in [Apps -> Nat]
    /\ event \in [Apps -> [Windows -> Nat]]

EgressInit ==
    /\ now = 1
    /\ report = [s \in Samples |-> [phase |-> "idle", window |-> 0, tries |-> 0]]
    /\ ingesting = {}
    /\ row = [s \in Samples |-> "none"]
    /\ cumulative = [a \in Apps |-> 0]
    /\ event = [a \in Apps |-> [w \in Windows |-> 0]]

Total(S) == SumFunctionOnSet(Bytes, S)

Tick ==
    /\ now < MaxWindows
    /\ now' = now + 1
    /\ UNCHANGED <<report, ingesting, row, cumulative, event>>

-----------------------------------------------------------------------------
(* The proxy.                                                              *)

\* A connection ends.  The clock of the proxy may be ahead of the API's.
Observe(s, w) ==
    /\ report[s].phase = "idle"
    /\ w \in {now, now + 1} \cap Windows
    /\ report' = [report EXCEPT ![s] = [phase |-> "sending", window |-> w, tries |-> 0]]
    /\ UNCHANGED <<now, ingesting, row, cumulative, event>>

\* An attempt; every attempt carries the same body.
Send(s) ==
    /\ report[s].phase = "sending"
    /\ report' = [report EXCEPT ![s].phase = "waiting", ![s].tries = @ + 1]
    /\ ingesting' = ingesting \cup
                       {[sample |-> s, try |-> report[s].tries + 1, phase |-> "sent"]}
    /\ UNCHANGED <<now, row, cumulative, event>>

\* The answer is 202; it can only come after the commit.
ReportAccepted(s) ==
    /\ report[s].phase = "waiting"
    /\ row[s] # "none"
    /\ report' = [report EXCEPT ![s].phase = "done"]
    /\ UNCHANGED <<now, ingesting, row, cumulative, event>>

\* Any other answer, or none in time.
Retry(s) ==
    /\ report[s].phase = "waiting"
    /\ report' = [report EXCEPT ![s].phase = IF report[s].tries < MaxTries THEN "sending" ELSE "done"]
    /\ UNCHANGED <<now, ingesting, row, cumulative, event>>

-----------------------------------------------------------------------------
(* The API.                                                                *)

\* A request is lost, fails, or its client has gone.
Lose(r) ==
    /\ ingesting' = ingesting \ {r}
    /\ UNCHANGED <<now, report, row, cumulative, event>>

\* ingestEgressSample up to the lock: not before the open window and at most two
\* minutes ahead.  Other samples are refused.
CheckWindow(r) ==
    /\ r.phase = "sent"
    /\ report[r.sample].window \in {now, now + 1}
    /\ ingesting' = (ingesting \ {r}) \cup {[r EXCEPT !.phase = "checked"]}
    /\ UNCHANGED <<now, report, row, cumulative, event>>

\* Mutant: every attempt counts as a sample of its own.
Added_Always(s) == Bytes[s]

\* What a sample adds: nothing when its sample_id is there already.
Added(s) == IF row[s] = "none" THEN Bytes[s] ELSE 0

\* The transaction of ingestEgressSample.
IngestEgressSample(r) ==
    LET s == r.sample
    IN  /\ r.phase = "checked"
        /\ ingesting' = ingesting \ {r}
        /\ row' = [row EXCEPT ![s] = IF @ = "none" THEN "new" ELSE @]
        /\ cumulative' = [cumulative EXCEPT ![AppOf[s]] = @ + Added(s)]
        /\ UNCHANGED <<now, report, event>>

-----------------------------------------------------------------------------
(* The worker.                                                             *)

\* Mutant: samples of every window are taken together.
Unprocessed_AnyWindow(a, w) == {s \in Samples : AppOf[s] = a /\ row[s] # "none"}

Unprocessed(a, w) ==
    {s \in Samples : AppOf[s] = a /\ row[s] = "new" /\ report[s].window = w}

\* Mutant: only the last window is metered.
WindowClosed_Previous(w) == w = now - 1

WindowClosed(w) == w < now

\* meterEgress for one application and window: an event that is there already
\* stays as it is (ON CONFLICT DO NOTHING), the samples are processed either way.
MeterEgress(a, w) ==
    LET batch == Unprocessed(a, w)
    IN  /\ WindowClosed(w)
        /\ batch # {}
        /\ event' = [event EXCEPT ![a][w] = IF @ = 0 THEN Total(batch) ELSE @]
        /\ row' = [s \in Samples |-> IF s \in batch THEN "processed" ELSE row[s]]
        /\ UNCHANGED <<now, report, ingesting, cumulative>>

-----------------------------------------------------------------------------
EgressNext ==
    \/ Tick
    \/ \E s \in Samples :
        \/ \E w \in Windows : Observe(s, w)
        \/ Send(s) \/ ReportAccepted(s) \/ Retry(s)
    \/ \E r \in ingesting : Lose(r) \/ CheckWindow(r) \/ IngestEgressSample(r)
    \/ \E a \in Apps, w \in Windows : MeterEgress(a, w)

EgressSpec == EgressInit /\ [][EgressNext]_egressVars

\* The worker calls meterEgress on every turn of its loop.
EgressFairSpec == EgressSpec /\ \A a \in Apps, w \in Windows : WF_egressVars(MeterEgress(a, w))

-----------------------------------------------------------------------------
(* Properties.                                                             *)

(* However often a sample is sent and however late its requests are handled, *)
(* its bytes count once: the cursor of an application is the sum of its      *)
(* samples.                                                                  *)
CountedOnce ==
    \A a \in Apps : cumulative[a] = Total({s \in Samples : AppOf[s] = a /\ row[s] # "none"})

(* No more is billed for a window than samples observed in it were accepted  *)
(* and processed: retries, late commits and clocks that are ahead never make *)
(* an owner pay for traffic of another window or twice.                      *)
NotOverbilled ==
    \A a \in Apps, w \in Windows :
        event[a][w] <= Total({s \in Samples : AppOf[s] = a /\ row[s] = "processed"
                                                /\ report[s].window = w})

(* The event of a window, once written, never changes and none is written    *)
(* for a window that is still open.                                          *)
EventsAreFinal ==
    [][\A a \in Apps, w \in Windows :
        event'[a][w] # event[a][w] => event[a][w] = 0 /\ w < now]_egressVars

(* An accepted sample of a closed window is processed in the end.            *)
SamplesAreProcessed ==
    \A s \in Samples : row[s] = "new" /\ report[s].window < now ~> row[s] = "processed"

(* docs/operations.md says that only samples of the window that is still     *)
(* open are accepted and that the worker seals the window as                 *)
(* network.egress_gib after it closed: what was accepted is in the event.    *)
AcceptedIsBilled ==
    \A a \in Apps, w \in Windows :
        event[a][w] = Total({s \in Samples : AppOf[s] = a /\ row[s] = "processed"
                                               /\ report[s].window = w})

=============================================================================
