---------------------------- MODULE UsageBilling ----------------------------
(***************************************************************************)
(* From usage to money: metering, aggregation and billing by the worker    *)
(* (apps/worker/main.go), the wallets and credit grants the administrators *)
(* change (internal/httpapi), and the suspension and recovery of           *)
(* applications that billing decides.                                      *)
(*                                                                         *)
(* A meter is one usage code of one application.  Metering writes at most  *)
(* one event per meter and window (its idempotency key), so an aggregate   *)
(* is identified by meter and window as well and carries the price version *)
(* of its event.  The quantity of a window is fixed, so a price version    *)
(* has one amount in cents; rounding is left out.                          *)
(*                                                                         *)
(* Every action is one database transaction; deployments, which module     *)
(* AppLifecycle describes, end here in any way they can end.               *)
(***************************************************************************)
EXTENDS Integers, FiniteSets, FiniteSetsExt, Functions

CONSTANTS
    Apps, Users, Owner,     \* applications and their owners
    Meters, MeterApp,       \* MeterApp[m]: the application a meter belongs to
    StorageMeters,          \* meters that go on while the application stands still
    Versions, Amount,       \* price versions, and cents a window costs at each
    NoPrice,                \* stands for the price version of an item without one
    Reserve,                \* system_settings.startup_balance_reserve_cents
    MaxWindows,             \* bound on the number of five-minute windows
    MaxGrants,              \* bound on the credit grants of a user
    GrantAmounts,           \* cents a grant may have
    MaxAdjustments,         \* bound on the wallet adjustments of a user
    AdjustmentAmounts       \* cents an adjustment may add or take

ASSUME AppsAssumption == Owner \in [Apps -> Users] /\ MeterApp \in [Meters -> Apps]
ASSUME StorageAssumption == StorageMeters \subseteq Meters
ASSUME AmountAssumption == Amount \in [Versions -> Nat] /\ NoPrice \notin Versions
ASSUME BoundsAssumption ==
    Reserve \in Nat /\ MaxWindows \in Nat /\ MaxGrants \in Nat /\ MaxAdjustments \in Nat
ASSUME AmountsAssumption ==
    GrantAmounts \subseteq Nat \ {0} /\ AdjustmentAmounts \subseteq Int \ {0}

Windows == 1..MaxWindows
Grants == 1..MaxGrants
Prices == Versions \cup {NoPrice}
Cells == Meters \X Windows          \* what an event, an aggregate or a charge is about
Of(u) == {c \in Cells : Owner[MeterApp[c[1]]] = u}

VARIABLES
    now,        \* the window that closed last, 0 before the first
    price,      \* what resolve_pricing_version finds for the window that closed last
    event,      \* usage_events: price version and whether aggregated, per cell
    agg,        \* usage_aggregates: disposition and price version, per cell
    balance,    \* wallets.balance_cents
    ledger,     \* wallet_ledger_entries of a user: type, reference and amount
    grant,      \* credit_grants of a user, in the order in which they expire
    charges,    \* usage_charges: cell, price version, what the wallet paid
    attempts,   \* usage_billing_attempts that ended with insufficient funds
    app         \* user_apps.status as far as billing tells it apart

vars == <<now, price, event, agg, balance, ledger, grant, charges, attempts, app>>

EventStates == {"none", "new", "aggregated"}
Dispositions == {"none", "pending", "unpriced", "charged"}
GrantStates == {"none", "live", "expired"}
\* suspended: for billing; recovering: its billing_recovery job is unfinished
AppStates == {"running", "stopped", "starting", "suspended", "recovering"}

Events == [state: EventStates, price: Prices]
Aggregates == [disp: Dispositions, price: Prices]
GrantRows == [state: GrantStates, amount: Nat, remaining: Nat]
Charges == [cell: Cells, price: Versions, wallet: Nat]
Attempts == [cell: Cells, balance: Nat, credit: Nat]
Adjustments == {"adjustment"} \X (1..MaxAdjustments)   \* business_ref of an adjustment
References == ({"usage"} \X Cells) \cup Adjustments

TypeOK ==
    /\ now \in 0..MaxWindows
    /\ price \in Prices
    /\ event \in [Cells -> Events]
    /\ agg \in [Cells -> Aggregates]
    /\ balance \in [Users -> Nat]
    /\ \A u \in Users : ledger[u] \subseteq [ref: References, amount: Int]
    /\ grant \in [Users -> [Grants -> GrantRows]]
    /\ charges \subseteq Charges
    /\ attempts \subseteq Attempts
    /\ app \in [Apps -> AppStates]

Init ==
    /\ now = 0
    /\ price \in Prices
    /\ event = [c \in Cells |-> [state |-> "none", price |-> NoPrice]]
    /\ agg = [c \in Cells |-> [disp |-> "none", price |-> NoPrice]]
    /\ balance = [u \in Users |-> 0]
    /\ ledger = [u \in Users |-> {}]
    /\ grant = [u \in Users |->
                    [g \in Grants |-> [state |-> "none", amount |-> 0, remaining |-> 0]]]
    /\ charges = {}
    /\ attempts = {}
    /\ app = [a \in Apps |-> "stopped"]

-----------------------------------------------------------------------------
(* What a user can pay with.                                               *)

Live(u) == {g \in Grants : grant[u][g].state = "live" /\ grant[u][g].remaining > 0}
Remaining(u) == [g \in Grants |-> grant[u][g].remaining]
Credit(u) == SumFunctionOnSet(Remaining(u), Live(u))
Available(u) == balance[u] + Credit(u)
Pending(u) == {c \in Of(u) : agg[c].disp = "pending"}
UserOf(c) == Owner[MeterApp[c[1]]]

-----------------------------------------------------------------------------
(* Administrators, users and deployments.                                  *)

\* createPricingVersion takes any effective_at, past or future, and pricing items
\* are archived and brought back: the version in force may change at any time.
SetPrice(v) ==
    /\ price # v
    /\ price' = v
    /\ UNCHANGED <<now, event, agg, balance, ledger, grant, charges, attempts, app>>

\* Mutant: the balance is not looked at.
AdjustWallet_Unchecked(u, ref, amount) ==
    /\ \A e \in ledger[u] : e.ref # ref
    /\ balance' = [balance EXCEPT ![u] = @ + amount]
    /\ ledger' = [ledger EXCEPT ![u] = @ \cup {[ref |-> ref, amount |-> amount]}]
    /\ UNCHANGED <<now, price, event, agg, grant, charges, attempts, app>>

\* Mutant: a repeated request finds its entry written and adds to the wallet.
AdjustWallet_Again(u, ref, amount) ==
    /\ balance[u] + amount \in 0..10
    /\ balance' = [balance EXCEPT ![u] = @ + amount]
    /\ ledger' = [ledger EXCEPT ![u] = @ \cup {[ref |-> ref, amount |-> amount]}]
    /\ UNCHANGED <<now, price, event, agg, grant, charges, attempts, app>>

\* adjustWallet: a reference that was used before changes nothing.
AdjustWallet(u, ref, amount) ==
    /\ \A e \in ledger[u] : e.ref # ref
    /\ balance[u] + amount >= 0
    /\ balance' = [balance EXCEPT ![u] = @ + amount]
    /\ ledger' = [ledger EXCEPT ![u] = @ \cup {[ref |-> ref, amount |-> amount]}]
    /\ UNCHANGED <<now, price, event, agg, grant, charges, attempts, app>>

\* grantCredit, once per business reference; the place in the order of expiry is free to choose, but the
\* grant has not expired yet.
GrantCredit(u, g, amount) ==
    /\ grant[u][g].state = "none"
    /\ \A h \in Grants : h > g => grant[u][h].state # "expired"
    /\ grant' = [grant EXCEPT ![u][g] =
                    [state |-> "live", amount |-> amount, remaining |-> amount]]
    /\ UNCHANGED <<now, price, event, agg, balance, ledger, charges, attempts, app>>

\* expires_at passes.
ExpireGrant(u, g) ==
    /\ grant[u][g].state = "live"
    /\ \A h \in Grants : h < g => grant[u][h].state # "live"
    /\ grant' = [grant EXCEPT ![u][g].state = "expired"]
    /\ UNCHANGED <<now, price, event, agg, balance, ledger, charges, attempts, app>>

\* startApp: enforceMinimumStartupBalance.  A suspended application may be
\* started by hand.
StartApp(a) ==
    /\ app[a] \in {"stopped", "suspended"}
    /\ Available(Owner[a]) >= Reserve
    /\ app' = [app EXCEPT ![a] = "starting"]
    /\ UNCHANGED <<now, price, event, agg, balance, ledger, grant, charges, attempts>>

StopApp(a) ==
    /\ app[a] = "running"
    /\ app' = [app EXCEPT ![a] = "stopped"]
    /\ UNCHANGED <<now, price, event, agg, balance, ledger, grant, charges, attempts>>

\* A deployment job ends; deploymentFailureState says where a failed one leads.
EndDeployment(a) ==
    /\ \/ /\ app[a] \in {"starting", "recovering"}
          /\ app' = [app EXCEPT ![a] = "running"]
       \/ /\ app[a] = "starting"
          /\ app' = [app EXCEPT ![a] = "stopped"]
       \/ /\ app[a] = "recovering"
          /\ app' = [app EXCEPT ![a] = "suspended"]
    /\ UNCHANGED <<now, price, event, agg, balance, ledger, grant, charges, attempts>>

-----------------------------------------------------------------------------
(* Metering and aggregation.                                               *)

Tick ==
    /\ now < MaxWindows
    /\ now' = now + 1
    /\ UNCHANGED <<price, event, agg, balance, ledger, grant, charges, attempts, app>>

\* meterRuntime and meterStorage: the window that closed last, once.  A window
\* the worker slept through is never metered.
Meter(m) ==
    LET c == <<m, now>>
    IN  /\ now > 0
        /\ event[c].state = "none"
        /\ app[MeterApp[m]] = "running" \/ m \in StorageMeters
        /\ event' = [event EXCEPT ![c] = [state |-> "new", price |-> price]]
        /\ UNCHANGED <<now, price, agg, balance, ledger, grant, charges, attempts, app>>

\* Mutant: the price of the day of the aggregation is used.
Aggregated_Today(c) ==
    [disp |-> IF price = NoPrice THEN "unpriced" ELSE "pending", price |-> price]

Aggregated(c) ==
    [disp |-> IF event[c].price = NoPrice THEN "unpriced" ELSE "pending",
     price |-> event[c].price]

\* aggregateUsage: every event that is not aggregated yet, in one statement.
AggregateUsage ==
    LET fresh == {c \in Cells : event[c].state = "new"}
    IN  /\ fresh # {}
        /\ event' = [c \in Cells |-> IF c \in fresh
                                     THEN [event[c] EXCEPT !.state = "aggregated"]
                                     ELSE event[c]]
        /\ agg' = [c \in Cells |-> IF c \in fresh THEN Aggregated(c) ELSE agg[c]]
        /\ UNCHANGED <<now, price, balance, ledger, grant, charges, attempts, app>>

-----------------------------------------------------------------------------
(* Billing.                                                                *)

\* Mutant: the credit at the time of the attempt is not compared.
Tried_AnyCredit(c) ==
    \E t \in attempts : t.cell = c /\ t.balance = balance[UserOf(c)]

\* The window failed before, with exactly the money there is now.
Tried(c) ==
    [cell |-> c, balance |-> balance[UserOf(c)], credit |-> Credit(UserOf(c))] \in attempts

Billable(c) ==
    /\ agg[c].disp = "pending"
    /\ \A x \in charges : ~(x.cell = c /\ x.price = agg[c].price)
    /\ ~Tried(c)

\* The claim of billUsage: a billable window that is as old as any.
Claim(c) == Billable(c) /\ \A d \in Cells : Billable(d) => c[2] <= d[2]

\* Mutant: no attempt is recorded.
Attempt_None(c) == {}

Attempt(c) == {[cell |-> c, balance |-> balance[UserOf(c)], credit |-> Credit(UserOf(c))]}

\* Every running application of a user is suspended.
Suspended(u) ==
    [a \in Apps |-> IF Owner[a] = u /\ app[a] = "running" THEN "suspended" ELSE app[a]]

\* Every application suspended for billing is deployed again.
Recovered(u) ==
    [a \in Apps |-> IF Owner[a] = u /\ app[a] = "suspended" THEN "recovering" ELSE app[a]]

\* Mutant: the wallet pays the full amount.
WalletPart_Gross(amount, credit) == amount

WalletPart(amount, credit) == IF amount > credit THEN amount - credit ELSE 0

\* billUsage when credit and wallet together do not cover the amount.
BillUnaffordable(c) ==
    LET u == UserOf(c)
    IN  /\ Claim(c)
        /\ balance[u] < WalletPart(Amount[agg[c].price], Credit(u))
        /\ attempts' = attempts \cup Attempt(c)
        /\ app' = Suspended(u)
        /\ UNCHANGED <<now, price, event, agg, balance, ledger, grant, charges>>

\* Mutant: each grant is used as if it were the first.
CreditFrom_Each(u, g, used) == Min({grant[u][g].remaining, used})

\* What is taken from grant g when "used" cents of credit are: grants that
\* expire earlier go first.
CreditFrom(u, g, used) ==
    LET before == SumFunctionOnSet(Remaining(u), {h \in Live(u) : h < g})
    IN  IF g \notin Live(u) \/ before >= used THEN 0
        ELSE Min({grant[u][g].remaining, used - before})

\* Mutant: the window is not sealed.
Sealed_Not(c) == agg

Sealed(c) == [agg EXCEPT ![c].disp = "charged"]

\* Mutant: recovery does not wait for the other windows of the user.
PaidUp_Always(u, c) == TRUE

\* No window of the user is left to pay once c is.
PaidUp(u, c) == Pending(u) \subseteq {c}

\* billUsage when they do: ledger, wallet, charge, credit, aggregate and the
\* applications change in one transaction.
BillCharge(c) ==
    LET u      == UserOf(c)
        amount == Amount[agg[c].price]
        wallet == WalletPart(amount, Credit(u))
        credit == Min({amount, Credit(u)})
        left   == balance[u] - wallet + Credit(u) - credit
    IN  /\ Claim(c)
        /\ balance[u] >= wallet
        /\ balance' = [balance EXCEPT ![u] = @ - wallet]
        /\ ledger' = IF wallet = 0 THEN ledger
                     ELSE [ledger EXCEPT ![u] = @ \cup {[ref |-> <<"usage", c>>, amount |-> -wallet]}]
        /\ charges' = charges \cup {[cell |-> c, price |-> agg[c].price, wallet |-> wallet]}
        /\ grant' = [grant EXCEPT ![u] = [g \in Grants |->
                        [grant[u][g] EXCEPT !.remaining = @ - CreditFrom(u, g, credit)]]]
        /\ agg' = Sealed(c)
        /\ app' = CASE left < Reserve -> Suspended(u)
                    [] left >= Reserve /\ PaidUp(u, c) -> Recovered(u)
                    [] OTHER -> app
        /\ UNCHANGED <<now, price, event, attempts>>

BillUsage == \E c \in Cells : BillUnaffordable(c) \/ BillCharge(c)

-----------------------------------------------------------------------------
Next ==
    \/ \E v \in Prices : SetPrice(v)
    \/ \E u \in Users :
        \/ \E ref \in Adjustments, amount \in AdjustmentAmounts :
               AdjustWallet(u, ref, amount)
        \/ \E g \in Grants : ExpireGrant(u, g) \/ \E amount \in GrantAmounts :
                                                      GrantCredit(u, g, amount)
    \/ \E a \in Apps : StartApp(a) \/ StopApp(a) \/ EndDeployment(a)
    \/ \E m \in Meters : Meter(m)
    \/ Tick
    \/ AggregateUsage
    \/ BillUsage

Spec == Init /\ [][Next]_vars

\* The worker calls aggregateUsage and billUsage on every turn of its loop and
\* deployment jobs end (JobsEnd of AppLifecycle).
FairSpec ==
    /\ Spec
    /\ WF_vars(AggregateUsage)
    /\ WF_vars(BillUsage)
    /\ \A a \in Apps : WF_vars(EndDeployment(a))

-----------------------------------------------------------------------------
(* Properties.                                                             *)

W == INSTANCE Wallet

(* Billing and the administrators' adjustments implement the wallet          *)
(* specification: every entry is new, moves the balance by its amount in the *)
(* same transaction and never overdraws it, through repeated references and  *)
(* charges that credit pays for in part (wallets, wallet_ledger_entries).    *)
ImplementsWallet == W!Spec

Consumed(u) == [g \in Grants |-> grant[u][g].amount - grant[u][g].remaining]
Uncovered == [x \in charges |-> Amount[x.price] - x.wallet]

(* What was taken from the grants of a user is what the user's charges cost  *)
(* and the wallet did not pay: consuming several grants in the order of      *)
(* their expiry loses and invents nothing, and every window is paid in full. *)
CreditConserved ==
    \A u \in Users :
        SumFunctionOnSet(Consumed(u), Grants)
            = SumFunctionOnSet(Uncovered, {x \in charges : UserOf(x.cell) = u})

ChargeInv(c) ==
    LET on == {x \in charges : x.cell = c}
    IN  IF agg[c].disp = "charged"
        THEN \E x \in on : on = {x} /\ x.price = event[c].price
        ELSE on = {}

(* A window is charged once and at the price frozen when its event was       *)
(* written; a pending window, and one that had no price then, never is,      *)
(* whatever happens to prices, credit and balance before billUsage gets to it. *)
ChargedOnce == \A c \in Cells : ChargeInv(c)

AggregateInv(c) ==
    /\ event[c].state = "aggregated" <=> agg[c].disp # "none"
    /\ agg[c].disp # "none" => agg[c].price = event[c].price
    /\ agg[c].disp = "unpriced" <=> (agg[c].disp # "none" /\ agg[c].price = NoPrice)

(* Aggregation loses no event and changes no price: what is pending has the  *)
(* price of its event, and only what had none is sealed as unpriced.         *)
NothingLost == \A c \in Cells : AggregateInv(c)

Affordable(c) ==
    agg[c].disp = "pending" /\ Available(UserOf(c)) >= Amount[agg[c].price]

(* billUsage leaves out the windows that failed with the money there is now. *)
(* None of them could be paid: a grant, a refill, an expiry or an            *)
(* adjustment that changes what is possible also makes the window billable.  *)
SkippedIsUnaffordable ==
    \A c \in Cells :
        agg[c].disp = "pending" /\ Tried(c) => ~Affordable(c)

(* The turn of billUsage that deploys a suspended application again leaves    *)
(* no window of its owner pending, and what is left covers the reserve.      *)
RecoveredSolvent ==
    [][\A a \in Apps :
        app[a] = "suspended" /\ app'[a] = "recovering" =>
            Pending(Owner[a])' = {} /\ Available(Owner[a])' >= Reserve]_vars

(* A window that its owner can pay is charged, whatever windows of insolvent *)
(* users stand before it in the queue.                                       *)
AffordableIsCharged ==
    \A c \in Cells :
        Affordable(c) ~> ~Affordable(c)

(* "Once a changed wallet balance allows all priced pending usage windows to *)
(* be charged, the Worker queues the last successful immutable Release       *)
(* through the deployment state machine" (docs/state-machines.md, Billing    *)
(* suspension).                                                              *)
RecoversOncePaid ==
    \A a \in Apps :
        app[a] = "suspended" /\ Pending(Owner[a]) = {} /\ Available(Owner[a]) >= Reserve
            ~> app[a] # "suspended" \/ Available(Owner[a]) < Reserve

=============================================================================
