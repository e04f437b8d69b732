# CloudMeter: a TLA+ model

CloudMeter runs container applications for its users behind one public port, meters what they use
and bills it. This directory holds TLA+ modules of its core, TLC configurations that check them on
small instances, and TLAPS proofs that hold for instances of any size. `PROJECT.json` lists
components, runs, mutants, findings, hazards and theorems and maps every definition to the lines it
models.

To check a run: `tlc -config <cfg> <MC module>`; to check a proof module: `tlapm <module>.tla`.

## 1. Inventory

CloudMeter is one PostgreSQL database with several programs around it. There are no messages between
the programs: the API writes rows, the worker polls for them, the router reads them.

| Component | State it keeps | Operations | What makes it correct |
| --- | --- | --- | --- |
| Application API (`internal/httpapi/app_control.go`, `app_lifecycle.go`, `resource_deletion.go`, `backup_features.go`, `createApp` in `server.go`) | `user_apps`, `app_releases`, `deployment_jobs`, `app_stop_jobs`, `app_restore_jobs`, `app_deletion_jobs`, `app_routes` | create, update, roll back, start, stop, restore, delete | one unfinished task per application, and the status names it |
| Worker (`apps/worker`) | position inside the current function (lost in a crash), Docker containers | one turn of a loop that claims a deployment, stop, restore, deletion or backup job, reconciles containers, meters and bills | every job ends; the active release and the route stay right; what clean-ups leave behind is found |
| Router (`apps/router`) | none | forwards a host name to the container of the active route | forwards only to a container that is there |
| Docker executor (`internal/runtime`) | containers, networks, volumes | pull, create, inspect, remove | external; every call may fail |
| Metering, aggregation, billing (`apps/worker/main.go`) | `usage_events`, `usage_aggregates`, `usage_charges`, `usage_billing_attempts` | meter a window, aggregate, charge, suspend, recover | a window is charged once, at its frozen price, and only when it can be paid |
| Wallets, prices, credit (`internal/httpapi`) | `wallets`, `wallet_ledger_entries`, `pricing_versions`, `credit_grants` | adjust, grant, change a price | the wallet is the sum of its append-only ledger |
| Payments (`payment_features.go`, `epay_callback.go`, `payment_operations.go`) | `payment_orders`, `refunds`, provider settings | create, mark paid, callback, close, refund | status and ledger tell the same story |
| Egress metering (`apps/egress-proxy`, `egress_features.go`) | `app_egress_samples`, `app_egress_cursors` | report with retries, ingest, meter | bytes count once |
| Subscriptions, monthly credit (`subscription_features.go`, `plan_features.go`) | `plans`, `plan_versions`, `user_subscriptions`, `subscription_purchases`, `credit_grants` | publish a plan version, purchase, assign, grant the credit of the month | a cycle is paid once, prepaid cycles are kept, a month's credit is granted once |
| Backups (`backup_features.go`, `apps/worker`) | `app_backups`, `app_backup_deletion_jobs`, `app_restore_jobs`, archive files | back up, import, delete, restore | rows and files agree, the capacity is kept, restores and deletions exclude each other |
| Product catalogue (`product_lifecycle.go`, `product_dependencies.go`, `version_lifecycle.go`, `resource_deletion.go`, `server.go`) | `app_products`, `app_product_versions` | create, publish, retire, restore, delete | the published dependency graph is complete and acyclic |
| Version tests (`product_test_features.go`, `apps/worker/product_tests.go`) | `app_product_version_tests`, cancellations, the test's container, probe and network | start, run, check, cancel, clean up | tests and cancellations end, and nothing is left in Docker |
| Accounts (`account_features.go`, `oauth_features.go`, `session_features.go`, `impersonation_features.go`, `llm_api.go`, `server.go`) | `users`, `user_roles`, `sessions`, `email_verification_codes`, `oauth_flows`, `oauth_login_results`, `oauth_bindings` | set up, register, log in, sign in with a provider, administer, impersonate | one code of an address counts; a sign-in opens one session, for its own account |
| Platform, gateway and Docker settings, platform restart, logs, tickets, AI support, FAQ, check-in, invitations, notifications, web console | their own tables and files | configuration, listings, messages | not modelled (section 8) |

How they interact:

* A handler of the API is one database transaction. It locks the row of the application (or order, or
  wallet), compares statuses and job tables, changes them and commits.
* The worker is a single loop (`apps/worker/main.go` 100-147) that calls every step in turn. A step
  claims a row in one transaction, may talk to Docker for minutes and finishes in another. A handler
  may run in between; the worker may die in between.
* Billing acts on applications: it suspends them, closes their routes and queues recovery jobs. The
  deployment worker tells billing nothing except through `user_apps.status`.
* The worker has a second goroutine (`runProductVersionTestCancellationWorker`) that works on the same
  tests as the main loop and can cut a Docker call of it short.
* Billing and payments move money in the same two tables, `wallets` and `wallet_ledger_entries`.
* The egress proxy talks to the API over HTTP with three attempts; the payment provider calls back
  over HTTP as often as it likes.

The behaviours that are hard here: requests between two transactions of the worker; crashes after a
commit and before the Docker call that belongs to it; Docker failing at any call; callbacks and
samples that arrive twice, late or after a change of state; two validations of one graph at once;
`now()`, fixed before a transaction waits for its lock; roles and accounts read before they are used; money that changes between the attempt
and the retry; windows that close while a request waits for a lock. The list `hazards` in
`PROJECT.json` has each of them with its line.

## 2. Modules

| Module | Models | Proofs |
| --- | --- | --- |
| `AppLifecycle` | application API, worker jobs, reconciliation, router query, Docker containers | `AppLifecycle_proofs` |
| `UsageBilling` | metering, aggregation, billing, wallets, prices, credit grants, suspension and recovery | `UsageBilling_proofs` |
| `Payments` | recharge orders, the provider, wallets, ledger | `Deliveries_proofs` |
| `Wallet` | abstract: what every movement of money promises | implemented by `UsageBilling` and `Payments` |
| `EgressMetering` | proxy reports, ingestion, egress windows | `Deliveries_proofs` |
| `Backups` | backups, imports, deletions, restores, archive files and volumes | `Backups_proofs` |
| `VersionTests` | version tests, the worker's main loop, the cancellation goroutine, Docker resources of tests | `VersionTests_proofs` |
| `ProductCatalog` | products, versions, publication, retirement, the dependency graph | `ProductCatalog_proofs` |
| `Subscriptions` | plan versions, purchases, assignments, monthly credit | `Subscriptions_proofs` |
| `Accounts` | setup, registration with codes, login, OAuth, sessions, roles, impersonation | `Deliveries_proofs` |

`Deliveries_proofs` is about the three components to which others deliver something again, late or not
at all: callbacks of payment providers, samples of the proxy, mailed codes and OAuth callbacks. It extends
all three, which is why the specifications of `EgressMetering` and `Accounts` are called `EgressSpec` and
`AccountsSpec` (and their parts accordingly).

`MC_<module>` gives the constants their values for TLC. `SumTheorems` has the lemmas about sums that the
proofs share.

Common conventions. A database transaction is one action: rows are locked first, and PostgreSQL's
uniqueness constraints appear as guards. Where the code reads before its transaction (or between two)
the read is an action of its own. A request that is refused, or repeated with a known idempotency
key, changes nothing and is no action. Definitions whose names have a suffix (`Fresh_Reuse`,
`Closed_Stale`) are mutants: plausible mistakes used to show that a property can fail. They are never
part of `Next`.

### AppLifecycle

State: for each application its row (`status`, `reason`, `suspendedAt`, `deleted`, `last`), the states
of its releases, its newest deployment, stop, restore and deletion job, its route and the containers
Docker has for it. `worker` is the place of the worker inside a function and what it holds in local
variables, `engine` says whether the worker has a Docker executor (decided once, at its start), `domain`
whether `app_base_domain` is configured: it is empty at first (migration 99) and, once set, never again.
`passed` and `degraded` are observations no action reads.

* `CreateApp`, `CreateAppRelease`, `RollbackApp`, `StartApp`, `StopApp`, `RestoreAppBackup`,
  `DeleteApp` are the handlers.
* `UpdateSystemSettings` is an administrator who configures the application domain.
* `ProcessOne` moves one deployment job by one state, with one action per state (`JobQueued` ...
  `JobRollback`); `MarkJobError` is the transaction after a failed Docker call. Without a domain
  `JobSwitch` does nothing: the code rolls its transaction back and leaves the job where it is.
* `ClaimStop`, `StopContainer`, `RetryStop`, `FinishStop`; `ClaimRestore`, `FinishRestore`;
  `ClaimDeletion`, `DeleteContainers`, `RequeueDeletion`, `FinishDeletion` are the other jobs, cut at
  their commits. `RemoveContainer` and `ReconcileContainer` are the clean-ups.
* `SuspendForBilling`, `RecoverFromBilling`, `ExpireSuspended` are what billing does to applications.
  When it does so is left open here and modelled in `UsageBilling`.
* `Restart`: the worker dies anywhere and comes back with only rows and containers.

Abstracted: the order of the job queues (any unfinished job may be next), snapshots, ports, secrets
and quotas, which only refuse requests.

### UsageBilling

A cell is a meter and a window; it has at most one event, aggregate and charge. `Meter`,
`AggregateUsage`, `BillUnaffordable` and `BillCharge` are the worker; `AdjustWallet`, `GrantCredit`,
`SetPrice` the administrators; `ExpireGrant` and `Tick` time; `StartApp`, `StopApp` and
`EndDeployment` what happens to applications meanwhile. `BillCharge` is the whole transaction: credit
from the grants in the order of their expiry, wallet, ledger, charge, seal, and then suspension or
recovery. Quantities are fixed per meter, so an amount depends on the price version only; the
rounding of quantity times price is left out.

### Payments

`CheckProvider` and `ReadForClose` are the reads before the transactions `CreatePaymentOrder` and
`ClosePayment`. `callbacks` holds what the provider has signed; `EpayCallback` may be taken for any of
them any number of times, late or never. `refundPayment` passes through `refunding` inside one
transaction, so no other transaction sees that status and it is left out of `Statuses`. `Spend`
stands for the charges of `UsageBilling`, which take from the same wallet.

### EgressMetering

A sample is one report of the proxy. `Send`, `ReportAccepted`, `Retry` are the attempts, `Lose` any failure
of a request. `CheckWindow` is the look at the clock, `IngestEgressSample` the transaction, which the
lock of the application may delay; `MeterEgress` turns a closed window into an event. A sample may
have been observed one window ahead, because `ingestEgressSample` tolerates two minutes.

### Backups

For each backup its row (`backup`), its deletion job and its archive file; for each application its
status, its newest restore and what its volume holds. `CreateAppBackup`, `ImportAppBackup`,
`DeleteAppBackup` and `RestoreAppBackup` are the handlers; `ClaimBackup` to `MarkBackupFailed`,
`ClaimBackupDeletion` to `FinishBackupDeletion` and `ClaimRestore` to `FinishRestore` the worker, cut
around its Docker calls. A Docker call may fail before or after its effect; a commit may go through
without its answer (`doubtful` remembers those). `Lifecycle` is everything else that happens to an
application, `ExpireSuspended` the automatic deletion seen from its backups. `AppLifecycle` has the
same restores from the side of the application: there the volume is left out, here the route. The
live bytes of a volume are whatever a measurement says (`Live`), since the application writes them;
the capacity is
constant: an update can only enlarge it, and a rollback to a release with a smaller one, after which
what is retained may be too much, is left out.

### Wallet

The specification both sides of the money are held to: a step adds at most one ledger entry, under a
reference nobody has used, moves the balance by its amount and never below zero. `UsageBilling` and
`Payments` have `W == INSTANCE Wallet` with a refinement mapping (`balance` to the wallet, `ledger` to
the entries that move it) and the property `ImplementsWallet == W!Spec`. A charge paid with credit
alone maps to a stutter.

### VersionTests

`worker` and `canceller` are the two goroutines, with the test each holds in its local variables;
`worker.op` is the context of the Docker call that the canceller can cancel. `StartTest` and
`CancelTest` are the handlers. A turn of the main loop reads the active tests, sweeps what the others
left in Docker (`ReadActive`, `Sweep`), claims the oldest test (`Claim`), and takes one step of it with
the row locked: `Queued`, `Pull`, `StartNetwork`, `StartCreate`, `StartContainer`, `HealthCheck`. The
canceller goes `Lookup`, `Signal`, `CleanBefore`, `ClaimCancellation`, `CleanAfter`. The row the main
loop holds is locked for the whole Docker call, and the row of a cancellation has a foreign key to it;
so `CancelTest` waits while the main loop works (`Locked`). `WorkerCrash` loses both goroutines;
`MaxFaults` bounds crashes, failed removals and lost final updates.

### ProductCatalog

For every product its status and whether it is deleted, for every version its dependencies, whether
it is published, deleted or archived, and what the catalogue reads of its tests. `inflight` holds the
handlers that validated and have not committed: `BeginPublish`/`CommitPublish`,
`BeginRetire`/`BeginRestore`/`CommitAvailability`, `Rollback`. `GraphFree` is the advisory lock of
the dependency graph, `RowFree` and `VersionFree` the row locks. The other handlers
(`CreateProduct`, `CreateProductVersion`, `StartTest`, `DeleteProductVersion`, `DeleteProduct`) are one
step each and may run in between when the locks allow it. `Reaches` is the recursive query: q is
reached from p when every set that is closed under `Edge` and contains p contains q.

### Subscriptions

One user, since every handler locks the user's row first. A purchase is two steps: `BeginPurchase` fixes
`now()` of the transaction, `FinishPurchase`, `InsufficientFunds` or `RefusePurchase` runs when the
lock is there and uses both that time and the clock. `quoteSubscription`, `paidBaseline`,
`futureCycles` and `grant_subscription_credit` keep the names and the cases of the code.
`createPlanVersion`, `updatePlanAvailability`, `assignSubscription` are the administrators,
`WalletMoves` every other movement of the wallet. `kept` is an observation: the purchases since the
last assignment.

### Accounts

An account is named by its address. A handler is cut where the code reads in one statement and acts in
another: `Authenticate` and `AuthenticateKey` put a request with its roles into `principal`, the
administration handlers act for it; `RequestCode`, `IssueCode` and `SendMail` are the policy, the
transaction and the mail of `sendVerificationCode`; `ReadLogin` and `Login` the two statements of
`login`; `OauthCallback`, `FetchOAuthUser`, `ResolveOAuthUser`, `IssueResult`, `ReadResult` and
`OauthExchange` the steps of a provider's sign-in. `Refuse` and `FlowEnds` are refusals, expiries and
clients that are gone. `bound` is chosen in the initial state and never changes: it says how many
codes, sessions, flows and open requests a behaviour may have, so that one run covers several small
worlds without their product. Whether the provider is enabled matters to flows only, so
`UpdateOAuthSettings` is left out of worlds without one.

## 3. Runs

| Run | Instance | Checks |
| --- | --- | --- |
| `lifecycle_one` | 1 application, 3 releases, 2 health checks, Docker up or down at start | `OneOwner ActiveRelease SuspensionClock WorkerHolds History` |
| `lifecycle_live` | 1 application, 2 releases, fair worker | `RoutePassedHealth RoutedContainerKept JobsEnd StopsEnd` |
| `billing_money` | 1 user, 2 meters, 2 grants, 2 adjustments, 2 prices | `CreditConserved ChargedOnce NothingLost SkippedIsUnaffordable RecoveredSolvent ImplementsWallet` |
| `payments_orders` | 2 EPay orders, 1 manual one, 1 trade, 2 amounts, 1 charge | `StatusMatchesLedger TradePaysOnce AckedIsCredited ImplementsWallet` |
| `egress_samples` | 2 samples, 3 windows, 2 attempts, fair worker | `CountedOnce NotOverbilled SamplesAreProcessed` |
| `backups_archives` | 2 backups of one application, 2 deletion attempts, fair deletions | `WithinCapacity ArchiveKept RestoreGuarded DeletedIsGone RestoreTellsTruth DeletionsEnd` |
| `version_tests` | 2 tests of one version, one with an HTTP probe, 2 health checks, 1 fault, both goroutines fair | `CleanupIsExclusive NoResurrection TestsEnd CancellationsEnd RuntimeIsRemoved` |
| `product_catalog` | 2 products, 3 versions | `DependenciesPublished GraphAcyclic` |
| `subscriptions` | 4 versions of 3 plans, 3 purchases, 4 points in time, 1 operation of an administrator | `NotOvercharged PrepaidKept MonthlyCredit` |
| `accounts_signin` | 2 addresses; 2 codes, or 1 OAuth flow and 3 sessions, or 3 sessions and 2 open requests | `OneLiveCode FlowSignsInOnce` |

What the last four show. `version_tests`: a cancellation never removes containers under the hands of
the main loop, nothing is created for an ended test, and every test, every cancellation and every
container left over by a crash comes to an end. `product_catalog`: overlapping publications,
retirements, restorations and deletions leave a graph whose published part can be installed.
`subscriptions`: whatever the order in which purchases wait for the user's row and the clock advances,
a cycle costs at most the dearest price asked for it, cycles paid in advance are not lost, and the
credit of a month is granted once. `accounts_signin`: whatever requests, mails and expiries come
together, one code of an address counts; a repeated callback or exchange opens no second session, and
none for another account than the one the identity is bound to. `lifecycle_live` has the hypothesis of
a configured domain in `JobsEnd` itself: nobody is assumed to configure one, and without it the
property is false (section 6).

Further configurations, not in the list of runs, check more of the same modules on other instances:
`AppLifecycle_pair.cfg` (two applications, one requires the other), `AppLifecycle_orphans.cfg`
(`NoLastingOrphan`), `UsageBilling_queue.cfg` (two users, `AffordableIsCharged`) and
`Subscriptions_changes.cfg` (two operations of administrators). `TypeOK` and the smaller invariants of
each module were checked with the same instances or are proved.

Runs that end with a counterexample are in section 6.

Why the bounds are enough. Three releases let an application have an active release, a superseded one
and one on its way, which is all a handler or job distinguishes; two health checks separate the first
check, a repetition and the last one. Rows of different applications meet only in the dependency
checks, in billing, which acts on all applications of a user at once, and in the single worker: two
applications of one user with a dependency show all three. Two grants are the smallest number with an
order of expiry; amounts of 1 and 2 make a window cost less than, as much as and more than a grant.
One trade and two EPay orders suffice for a trade used twice; the proofs show that more add nothing.
Two samples are needed for a window with an early and a late one, three windows for one metered after
it has closed twice. Two backups are one that is kept and one that competes with it for the capacity,
of which each needs more than half; two attempts are one that is repeated and the last one.
Two tests of one version are one that runs and one that waits or was left behind; a fault more only
repeats the sweep. Two products are the smallest cycle, three versions let one be published twice.
An administrator's assignment may have begun at any earlier time and waited for the user's row.
Three purchases are a cycle, one paid in advance and one that overlaps both; the three plans have a
lower, a higher and a changed price, and four points in time see a month begin and end with `Cycle`
2. Two codes are one and its replacement, three sessions the administrator's and two that a repeated
sign-in would open.
`MaxTest`, `MaxFaults`, `MaxVersion`, `MaxTime`, `MaxBalance`, `MaxChanges`, `MaxCode`, `MaxSession`,
`Bounds`, `MaxReleases`, `MaxWindows`, `MaxGrants`, `MaxAdjustments`, `MaxCharges`,
`MaxTries` (3 in the code) and `MaxAttempts` (5 in the code) are the bounds, each a constant in a guard. At the end of the bounded
windows nothing more happens in `EgressMetering`, and in the small billing instance of section 6;
when all tests have ended, or an installation's sessions have expired within the bound, nothing more
happens in `VersionTests` and `Accounts`. Those configurations do not check for deadlock; the others do.

## 4. Fairness

* `Continue` (weak): the worker does not stop in the middle of a function. Its calls have timeouts.
* `JobFairness`, `CleaningFairness` (strong): the loop calls every step on every turn, also after a
  crash, so a step possible again and again is taken; and one that can succeed does so in the end.
  Strong fairness is needed because a crash, or a step on another row, disables the step for a while.
  A system whose Docker or database fails for ever is excluded; one where they fail any finite number
  of times in a row, or the worker crashes infinitely often, is not.
  `processOne` takes the oldest job, so fairness for every job's step supposes that the jobs before it
  end. They do once a domain is configured (`JobsEnd`); `AppLifecycle_live.cfg` and
  `AppLifecycle_no_domain.cfg` have one application, for which the question does not arise.
* `UsageBilling`: `aggregateUsage` and `billUsage` run every turn; a deployment ends, which is
  `JobsEnd` of `AppLifecycle`, for an installation with an application domain.
* `EgressMetering`: `meterEgress` runs every turn. The proxy and the API are not fair: requests may be
  lost.
* `Backups`: `processBackupDeletionOne` runs every turn, also after crashes, and in the end an attempt
  is carried through (`DeletionFairness`, strong for the same reason). Backups and restores are not
  fair, because a crash ends them for good (section 6).
* `VersionTests`: both goroutines keep going (weak, also after crashes), the oldest test is claimed when
  it is claimable again and again (strong: the canceller may hold its row), and the canceller, which
  polls every half second, gets its steps in between two turns of the main loop (`Between`, strong:
  while the main loop holds the row it is skipped). Containers, handlers and Docker are not fair.
* Users, administrators, the payment provider and the clock are never assumed to do anything.

## 5. Proofs

All proofs are for every value of the constants that satisfies the assumptions in the modules (owners
exist, amounts are natural numbers, bounds are positive).

* `SumTheorems`. The models add up with `SumFunctionOnSet`. That such a fold exists, and what it does when
  an element is added, removed or changed, when two sets are joined or one is contained in another, is
  proved once, by induction over the subsets of a finite set. The property to be shown is given as the
  set of subsets that have it (`SubsetInduction`, from the well-foundedness of the strict subset
  ordering), so that no step has an operator as a parameter.
* `AppLifecycle_proofs`. `IInv` is `TypeOK` with, for every application, `OwnerInv`, `ReleaseInv`,
  `TargetInv`, `BudgetInv`, `ClockInv`, `HoldInv`, `AbsentInv` and the identity of stop jobs. None is
  inductive alone: that a failing job leaves the active release alone rests on `TargetInv`, that rests
  on there being one job at a time (`OwnerInv`), the clock needs both, and the worker's memory
  (`HoldInv`) carries the facts across two transactions. `Frame` reduces a step to the applications
  it touches; every action has one lemma. The theorems `TypeCorrect`, `TasksOwnStatus`,
  `OneActiveRelease`, `JobsHaveTarget`, `ChecksAreBounded`, `ClockIsRight`, `StopJobsAreValid`,
  `WorkerIsUndisturbed` and the action property `HistoryIsKept` follow.
  `RoutesPassedHealth` and `RoutedContainersAreKept` are for behaviours with `[]engine`, in which every
  worker reached Docker when it started: without it they are false (`AppLifecycle_no_engine.cfg`). Their
  invariant adds `RouteInv` (only an application that runs, is being updated or was left behind by a
  failed restore has a route), `PassedInv` (a release that has a route, or whose job is about to switch
  it, has passed) and `PresentInv` (Docker has its container, and it is not on the list of containers
  the worker is removing). `Spares` says that a step does not put it there.
* `UsageBilling_proofs`. `IInv` says that event, aggregate and charges of a cell agree; `NothingIsLost`
  and `WindowsAreChargedOnce` follow. `SkippedAreUnaffordable` adds that every recorded attempt was made
  with less than the frozen price asks (`AttemptInv`) and that a user's credit is a number of cents
  (`CreditIsTyped`). Price changes, grants and expiries are harmless because the event froze its price
  and the attempt recorded both balance and credit. `CreditIsConserved` sums both sides: a charge takes
  from the grants, in the order of their expiry, exactly what it does not take from the wallet, which is
  shown grant by grant for the credit used so far. `RecoveryIsSolvent` is the action property about
  recovery, `TypeCorrect` includes that no wallet and no grant goes below zero.
* `Deliveries_proofs`, Payments. `IInv` is `TypeOK`, `StatusMatchesLedger`, `TradePaysOnce` and `AckedIsCredited`
  together: that a callback on a paid order needs no entry rests on the order's status matching the
  ledger. Theorems `TypeCorrect` (no wallet below zero), `OrdersMatchLedger`, `TradesPayOnce`,
  `AnswersAreCredited`.
* `Deliveries_proofs`, EgressMetering. `EgressInv` is `EgressTypeOK`, `CountedOnce` and `NotOverbilled` with
  `ReportInv`: a request or a row is of a sample that was observed, and only a sample that was not gets
  a window, so the samples of a window stay the samples of that window. A request whose sample is stored
  adds nothing to either side of `CountedOnce`. A batch has all its samples in one window of one
  application and none of them was processed before; the event takes its sum when there is none yet and
  stays below the sum otherwise. Samples may be infinitely many: that the stored ones are finitely many
  is part of the invariant. Theorems `EgressTypeCorrect`, `EgressCountedOnce`, `EgressNotOverbilled` and the
  action property `EgressEventsAreFinal`, which no run checks.
* `Deliveries_proofs`, Accounts. `OneLiveCode` needs only that a step other than `IssueCode` never makes a
  code live; with the bound on wrong attempts it is `CodeInv`. `FlowSignsInOnce` rests on facts that
  hold at different stages of a sign-in: from the moment it is resolved until it ends a flow is for the
  account its identity is bound to (`FlowInv`), and a binding never changes; a flow that has a session is
  over, so no second exchange finds it (`SessionInv`). What the code does about existing accounts is
  `AccountsBindingsAreNew`: an account that does not exist has no password (`RowInv`), so the one
  created for an identity has none, and nobody creates an account twice (`BindingInv`); the documents
  say otherwise (section 6). TLC confirmed `AccountsInv` on the instance of `Accounts_signin.cfg`.
  Theorems `AccountsTypeCorrect`, `AccountsOneLiveCode`, `AccountsFlowSignsInOnce`.
* The wallet. `WalletIsImplemented`, in `Deliveries_proofs` and in `UsageBilling_proofs`, is
  `Spec => ImplementsWallet`. Both rest on an invariant that the references in a ledger belong to what
  happened (orders, windows, adjustments), so that a new entry has a new reference, and map every action
  to `Post` or a stutter.
* `ProductCatalog_proofs`. `IInv` is `TypeOK`, the four properties of the module, `VersionInv` (what is
  published or passed was tested, what was tested exists, a product that does not exist has no versions) and `OpsInv`: what a handler that
  has validated still knows when it commits, whatever ran in between. The lemma `PublishAcyclic` is
  the heart: in a set of products where each has a successor in the set, the published product's new
  edge must be used, and the set reached from the new dependency, closed under the old edges, would
  be a cycle of the old graph or reach the product, which the validation excluded. Theorems
  `CatalogIsInstallable`, `DependenciesAreAcyclic`, `RetiredProductsAreIdle`, `StatusIsHistory`.
* `Backups_proofs`. `IInv` is `TypeOK`, `FileInv` (row, deletion and file of a backup agree),
  `RestoreGuarded` and `HoldInv` (what the worker knows at each place in its functions). `ArchiveKept`
  and `DeletedIsGone` are not inductive alone: that writing an archive never brings a deleted one back
  needs the worker's knowledge that the row is still running, and that a row still running has no
  deletion. Theorems `TypeCorrect`, `ArchivesAreKept`, `RestoresAreGuarded`, `DeletedStaysGone` and the
  action property `RestoresTellTheTruth`. `CapacityIsKept` adds up what an application retains
  (`CapacityInv`): between the worker's second look at the capacity and the update of the row the new
  archive still fits, since every handler that could add to the sum is refused meanwhile.
* `VersionTests_proofs`. The two loops share no variable that says who works on a test. What keeps them
  apart is `HandInv`: a test whose row the main loop holds is active and, once it has looked for
  cancellations, has none pending, since inserting one needs the row; a test in the hands of the
  canceller has a pending cancellation or has ended. With `CancellationMatches` it is inductive.
  Theorems `TypeCorrect`, `CleanupsAreExclusive`, `CancellationsMatch` and the action properties
  `NothingIsResurrected` and `EndedTestsAreFinal`.
* `Subscriptions_proofs`. `BookInv` says that every successful purchase belongs to a cycle somebody bought
  and that, while the cycle of the subscription lasts, all purchases of it end when it ends. A purchase
  that changes the plan uses a `now()` older than its lock; a purchase of the cycle made after that time
  would look like a prepaid one and the change would be refused. So the purchases of the cycle are in
  effect at that time, `paidBaseline` covers the dearest of them (`ChangeIsCovered`), and the cost of the
  cycle stays below the price of one plan bought in it (`CostInv`). `CreditInv` does the same for the
  grants of a month. Theorems `TypeCorrect`, `CyclesAreNotOvercharged`, `PrepaidCyclesAreKept`,
  `CreditIsGrantedOnce`. Neither the set of keys nor that of grants is assumed to be finite; that those
  used are is part of the invariant.

Only model-checked: everything under fairness (`JobsEnd`, `StopsEnd`, `NoLastingOrphan`,
`AffordableIsCharged`, `SamplesAreProcessed`, `DeletionsEnd`, `TestsEnd`, `CancellationsEnd`,
`RuntimeIsRemoved`), because the prover has neither fairness nor `ENABLED`. Every invariant and every
action property that a passing run checks is also proved.

## 6. Where code and documents disagree

Each run below checks a sentence of the documents and ends with a counterexample.

| Run | What happens |
| --- | --- |
| `running_is_routed` | An update of a stopped application that fails returns it to `running`; its route and container were removed by the stop. |
| `backups_dangling` | A deletion that removed the archive and failed all the same leaves a backup that can be restored; the restore empties the volume and then finds no archive. |

Eight more disagreements can be reproduced with configurations that are not in the list of runs:

| Configuration | What happens |
| --- | --- |
| `AppLifecycle_broken_route.cfg` (`RouteWhileServing`, docs/state-machines.md:13) | A restore after which the container does not come up sets the application to `failed` and leaves the route. |
| `AppLifecycle_restore.cfg` (`RestoresEnd`, docs/state-machines.md:29) | A running restore has no lease: a worker that dies while holding it leaves it running for ever. The same is true of a running backup. |
| `AppLifecycle_no_engine.cfg` (`RoutePassedHealth`, docs/state-machines.md:70) | A worker that could not ping Docker at its start deploys and routes releases without container or check. |
| `AppLifecycle_no_domain.cfg` (`DeploymentsEnd`, docs/state-machines.md:5-7) | With an empty `app_base_domain` (the default) `processOne` logs "application domain is not configured" and returns without `markJobError` (apps/worker/main.go:2158): the job stays in `switching_route` until an administrator saves a domain and, being the oldest, holds up every later deployment. |
| `Accounts_existing.cfg` (`ExistingIsBound`, docs/operations.md:201) | "OAuth 绑定已有账户前会校验邮箱" (before OAuth is bound to an existing account the e-mail is checked). `resolveOAuthUser` never binds an existing account: with an address that has one it refuses and asks for the original way to sign in (oauth_features.go:331-337); with registration closed it does not get that far. |
| `UsageBilling_recovery.cfg` (`RecoversOncePaid`, docs/state-machines.md:55) | An application suspended by the reserve when nothing is pending is not recovered by a refill, since recovery is part of a charge. |
| `Payments_close.cfg` (`AnsweredIsClosed`, docs/openapi.yaml:1337) | An order paid between the read and the transaction of `closePayment` stays paid; the answer says `closed`. |
| `EgressMetering_late.cfg` (`AcceptedIsBilled`, docs/operations.md:219) | A sample that passes the check of its window and commits after the window was metered is accepted, processed and in no usage event. |

Outcomes of the code that the models show and a reader of the documents may not expect:

* A purchase the wallet does not cover commits a row with its idempotency key (`InsufficientFunds`):
  sent again after a refill with the same key it answers with the failure. docs/operations.md:144 says
  the whole transaction is rolled back.
* The price paid so far is the highest of the cycles that overlap now, also of one that was only
  prepaid: a later upgrade can cost less than the difference docs/operations.md names. It never costs
  more (`NotOvercharged`).
* A cancellation of a version test waits in the API while the main loop pulls or starts, because the
  insertion needs a key-share lock on the row the main loop holds. It takes effect between two steps
  and does not interrupt a running Docker call (`CleanupIsExclusive` rests on this).
* A retired product that was deleted can be restored, `startProductVersionTest` and
  `publishProductVersion` do not look at the product's `deleted_at`, and `deleteProductVersion` does not
  look at dependents; the edges of a deleted version still count as published edges.
* A login that read its account before a suspension inserts its session after it (`ReadLogin`,
  `Login`): the session is useless while the account is suspended and usable when it is active again.
  Impersonation sessions of a suspended administrator behave the same way.

## 7. Plan

Modelled: the lifecycle of applications, the flows of money around it with their common wallet,
subscriptions, backups, the product catalogue, version tests and accounts. Next, in this order:

1. The platform restart, a job the worker itself does not survive, and the gateway settings, where
   file, Caddy and database are written one after another by handlers that may overlap.
2. The order of the queue of deployment jobs (oldest first: `ProcessOne` takes any) and the dependency
   checks at the level of statements (write skew).
3. A composition of `AppLifecycle` with the application states of `UsageBilling`.

## 8. Not modelled

Platform, gateway and Docker settings (except that an application domain is configured), logs, host metrics and the web console are I/O, files or
browser code with one writer. Secret encryption is cryptography. The validation of runtime
specifications is a function of its input alone, which unit tests cover. Tickets, FAQ, AI support,
the home page and notifications are single-row features. Database migrations appear as guards and
types of the modules that need them.

Inside the modelled parts: `processSubscriptionCredits` and `processExpiredSubscriptions` of the worker
are never called by its loop, so no application is suspended for an expired subscription,
`resumeSubscriptionApps` has nothing to resume, and `Subscriptions` has no action for them. Months all
have the same length there; the clamp of `addCalendarMonth` to the end of a month is left out.
`VersionTests` leaves out the failure of a snapshot without an image (apps/worker/product_tests.go:59-64),
which the check constraint of `image_digest` excludes. `updateUserStatus` and `llmPatchUser` share
`ChangeStatus` although only the first counts super administrators in a serializable transaction: setup
makes the only one, so the count has nothing to miss.
`Accounts` leaves out slugs, display names, e-mail policies, the hourly limits, Turnstile and the
HTTP calls to the providers; `ProductCatalog` leaves out `updateProduct` and the contents of versions.
