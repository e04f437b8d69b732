--------------------------- MODULE Subscriptions ---------------------------
(* Plan versions, the subscription of one user, its purchases and the      *)
(* monthly credit that comes with a plan.                                   *)
(*                                                                          *)
(* Every handler takes the user's row FOR UPDATE first, so the purchases    *)
(* and assignments of a user run one after another.  PostgreSQL's now() is  *)
(* however the time at which the transaction BEGAN, before it waited for    *)
(* that lock, while time.Now() in quoteSubscription is the time after it: a *)
(* purchase is therefore two steps, BeginPurchase (fixes now()) and         *)
(* FinishPurchase (everything else).                                        *)
(*                                                                          *)
(* Time is counted in ticks, Cycle of them to a month; a calendar month and *)
(* a service period have the same length.  Requests of an account that is   *)
(* not active are refused and change nothing.  No application can be        *)
(* suspended with the reason subscription_expired (the worker's loop does   *)
(* not call processExpiredSubscriptions), so resumeSubscriptionApps has     *)
(* nothing to resume.  A repeated key answers with the stored row: no step. *)
EXTENDS Integers, FiniteSets, FiniteSetsExt, Functions

CONSTANTS
    Versions,       \* plan versions, numbered in the order of creation
    PlanOf,         \* the plan of a version
    Price,          \* cycle_price_cents
    Credit,         \* entitlements.creditGrantCents
    FreeVersion,    \* the version every account starts with
    Listed,         \* versions in effect when the account is opened
    Keys,           \* idempotency keys of the user's purchases
    Cycle,          \* ticks of a month
    MaxTime,        \* bound on the clock
    MaxBalance,     \* bound on the wallet
    MaxChanges,     \* bound on the administrators' operations
    None            \* no row, no request

ASSUME PlanAssumption ==
    /\ Versions \subseteq Nat /\ FreeVersion \in Listed /\ Listed \subseteq Versions
    /\ Price \in [Versions -> Nat] /\ Credit \in [Versions -> Nat]
    /\ Price[FreeVersion] = 0
    /\ DOMAIN PlanOf = Versions
ASSUME BoundAssumption ==
    Cycle \in Nat \ {0} /\ {MaxTime, MaxBalance, MaxChanges} \subseteq Nat

VARIABLES
    now,            \* the clock
    effective,      \* effective_at of a version, Never before it is created
    enabled,        \* plans with purchase_enabled
    balance,        \* wallets.balance_cents
    sub,            \* the user_subscriptions row
    pending,        \* began: now() of the request that waits for the user's row
    purchases,      \* subscription_purchases by idempotency key
    grants,         \* credit_grants with a subscription-credit/ reference
    kept,           \* history: purchases made since the last assignment
    changes         \* administrators' operations so far

catalogue == <<effective, enabled, changes>>
vars == <<now, catalogue, balance, sub, pending, purchases, grants, kept>>

-----------------------------------------------------------------------------
Time == 0 .. MaxTime
Forever == -1       \* ends_at IS NULL
Never == -1
Gift == "gift"      \* the cycle of an assigned subscription
Plans == Range(PlanOf)

(* Rows of subscription_purchases.                                          *)
Rows == [version : Versions, status : {"succeeded", "insufficient_funds"}, amount : Nat,
         start : Nat, end : Nat, cycle : Keys \cup {Gift}]

ASSUME NoneAssumption == Gift \notin Keys /\ None \notin Time \cup Rows

Month(t) == t \div Cycle
addCalendarMonth(t) == t + Cycle

Succeeded == {k \in Keys : purchases[k] # None /\ purchases[k].status = "succeeded"}

(* The version a plan sells at time t: latest effective_at, then version.   *)
Latest(p, t) ==
    LET started == {v \in Versions : PlanOf[v] = p /\ effective[v] \in 0 .. t}
    IN  {v \in started : \A w \in started :
             \/ effective[v] > effective[w]
             \/ effective[v] = effective[w] /\ v >= w}

Finite == sub.ends # Forever /\ sub.ends > now

futureCycles_Never(t) == FALSE

(* A prepaid cycle that has not begun at t.                                 *)
futureCycles(t) == \E k \in Succeeded : purchases[k].start > t /\ purchases[k].end > t

paidBaseline_Own(t) == IF Finite THEN Price[sub.version] ELSE 0

(* What the user has already paid towards the running cycle.                *)
paidBaseline(t) ==
    LET paid == {Price[purchases[k].version] : k \in
                    {j \in Succeeded : purchases[j].start <= t /\ purchases[j].end > t}}
        own  == IF Finite THEN {Price[sub.version]} ELSE {}
    IN  Max(paid \cup own \cup {0})

quoteSubscription(v, t) ==
    IF Finite /\ sub.version = v
    THEN [amount |-> Price[v], start |-> sub.ends, end |-> addCalendarMonth(sub.ends),
          ends |-> addCalendarMonth(sub.ends), renews |-> TRUE]
    ELSE IF Finite
    THEN [amount |-> Max({Price[v] - paidBaseline(t), 0}), start |-> now, end |-> sub.ends,
          ends |-> IF Price[v] > 0 THEN sub.ends ELSE Forever, renews |-> FALSE]
    ELSE [amount |-> Price[v], start |-> now, end |-> addCalendarMonth(now),
          ends |-> IF Price[v] > 0 THEN addCalendarMonth(now) ELSE Forever, renews |-> TRUE]

canPurchasePlan(v) == PlanOf[v] \in enabled \/ PlanOf[sub.version] = PlanOf[v]

GrantedIn(m) == {g \in grants : g.month = m}
SumOf(m) == SumFunctionOnSet([g \in grants |-> g.amount], GrantedIn(m))

grant_subscription_credit_Full(v, t) ==
    IF Credit[v] > 0 /\ ~\E g \in GrantedIn(Month(t)) : g.to = Credit[v]
    THEN grants \cup {[month |-> Month(t), to |-> Credit[v], amount |-> Credit[v]]}
    ELSE grants

(* grant_subscription_credit for version v of a live subscription, in a     *)
(* transaction that began at t: tops the month up to the plan's credit.     *)
grant_subscription_credit(v, t) ==
    LET delta == Credit[v] - SumOf(Month(t))
    IN  IF delta > 0 /\ ~\E g \in GrantedIn(Month(t)) : g.to = Credit[v]
        THEN grants \cup {[month |-> Month(t), to |-> Credit[v], amount |-> delta]}
        ELSE grants

-----------------------------------------------------------------------------
Init ==
    /\ now = 0
    /\ effective = [v \in Versions |-> IF v \in Listed THEN 0 ELSE Never]
    /\ enabled = {PlanOf[v] : v \in Listed}
    /\ balance = 0
    /\ sub = [version |-> FreeVersion, ends |-> Forever, cycle |-> Gift]
    /\ pending = [k \in Keys |-> None]
    /\ purchases = [k \in Keys |-> None]
    /\ grants = {}
    /\ kept = {}
    /\ changes = 0

Tick ==
    /\ now < MaxTime
    /\ now' = now + 1
    /\ UNCHANGED <<catalogue, balance, sub, pending, purchases, grants, kept>>

Counted == changes < MaxChanges /\ changes' = changes + 1

(* createPlanVersion: the next version of its plan, effective at `at`.      *)
createPlanVersion(v, at) ==
    /\ effective[v] = Never
    /\ \A w \in Versions : PlanOf[w] = PlanOf[v] /\ w < v => effective[w] # Never
    /\ effective' = [effective EXCEPT ![v] = at]
    /\ Counted
    /\ UNCHANGED <<now, enabled, balance, sub, pending, purchases, grants, kept>>

updatePlanAvailability(p) ==
    /\ enabled' = IF p \in enabled THEN enabled \ {p} ELSE enabled \cup {p}
    /\ Counted
    /\ UNCHANGED <<now, effective, balance, sub, pending, purchases, grants, kept>>

(* A payment, a refund or a usage charge moves the wallet.                  *)
WalletMoves(b) ==
    /\ b # balance
    /\ balance' = b
    /\ UNCHANGED <<now, catalogue, sub, pending, purchases, grants, kept>>

BeginPurchase(k) ==
    /\ pending[k] = None
    /\ purchases[k] = None
    /\ pending' = [pending EXCEPT ![k] = now]
    /\ UNCHANGED <<now, catalogue, balance, sub, purchases, grants, kept>>

(* The early returns of purchaseSubscription after the lock was taken.      *)
Refused(v, t) ==
    \/ v \notin Latest(PlanOf[v], t)
    \/ ~canPurchasePlan(v)
    \/ sub.ends = Forever /\ sub.version = v
    \/ sub.version # v /\ futureCycles(t)

RefusePurchase(k, v) ==
    /\ pending[k] # None
    /\ Refused(v, pending[k])
    /\ pending' = [pending EXCEPT ![k] = None]
    /\ UNCHANGED <<now, catalogue, balance, sub, purchases, grants, kept>>

Row(k, v, q, outcome) ==
    [version |-> v, status |-> outcome, amount |-> q.amount, start |-> q.start,
     end |-> q.end, cycle |-> IF q.renews THEN k ELSE sub.cycle]

(* The wallet does not cover the quote: a row is kept and the key is spent. *)
InsufficientFunds(k, v) ==
    /\ pending[k] # None
    /\ ~Refused(v, pending[k])
    /\ LET q == quoteSubscription(v, pending[k])
       IN  /\ balance < q.amount
           /\ purchases' = [purchases EXCEPT ![k] = Row(k, v, q, "insufficient_funds")]
    /\ pending' = [pending EXCEPT ![k] = None]
    /\ UNCHANGED <<now, catalogue, balance, sub, grants, kept>>

FinishPurchase(k, v) ==
    /\ pending[k] # None
    /\ ~Refused(v, pending[k])
    /\ LET q == quoteSubscription(v, pending[k])
       IN  /\ balance >= q.amount
           /\ balance' = balance - q.amount
           /\ sub' = [version |-> v, ends |-> q.ends,
                      cycle |-> IF q.renews THEN k ELSE sub.cycle]
           /\ purchases' = [purchases EXCEPT ![k] = Row(k, v, q, "succeeded")]
    /\ grants' = grant_subscription_credit(v, pending[k])
    /\ pending' = [pending EXCEPT ![k] = None]
    /\ kept' = kept \cup {k}
    /\ UNCHANGED <<now, catalogue>>

(* assignSubscription: an administrator sets any created version.  The end, *)
(* if there is one, was in the future at t, when the transaction began and  *)
(* now() was fixed; the user's row may have become free only later.         *)
assignSubscription(v, ends, t) ==
    /\ effective[v] # Never
    /\ ends = Forever \/ ends > t
    /\ sub' = [version |-> v, ends |-> ends, cycle |-> Gift]
    /\ grants' = grant_subscription_credit(v, t)
    /\ kept' = {}
    /\ Counted
    /\ UNCHANGED <<now, effective, enabled, balance, pending, purchases>>

Next ==
    \/ Tick
    \/ \E v \in Versions, at \in Time : createPlanVersion(v, at)
    \/ \E p \in Plans : updatePlanAvailability(p)
    \/ \E b \in 0 .. MaxBalance : WalletMoves(b)
    \/ \E k \in Keys :
         \/ BeginPurchase(k)
         \/ \E v \in Versions : \/ RefusePurchase(k, v)
                              \/ InsufficientFunds(k, v)
                              \/ FinishPurchase(k, v)
    \/ \E v \in Versions, ends \in {Forever} \cup 1 .. MaxTime + 1, t \in 0 .. now :
         assignSubscription(v, ends, t)

Spec == Init /\ [][Next]_vars

-----------------------------------------------------------------------------
TypeOK ==
    /\ now \in Time
    /\ effective \in [Versions -> Time \cup {Never}]
    /\ enabled \subseteq Plans
    /\ balance \in 0 .. MaxBalance
    /\ sub \in [version : Versions, ends : Nat \cup {Forever}, cycle : Keys \cup {Gift}]
    /\ pending \in [Keys -> Time \cup {None}]
    /\ purchases \in [Keys -> Rows \cup {None}]
    /\ \A k \in Keys : pending[k] # None => purchases[k] = None
    /\ \A g \in grants : g.to \in Nat /\ g.amount \in Nat
    /\ kept \subseteq Keys
    /\ changes \in 0 .. MaxChanges

(* Whatever sequence of upgrades, downgrades and changes a user makes within *)
(* a cycle it opened, and however the price list moves meanwhile, the cycle  *)
(* costs no more than the dearest plan it bought in it (paidBaseline).  A    *)
(* change to a plan without a price ends the cycle: what is bought after it  *)
(* opens a new one, at the full price.                                       *)
NotOvercharged ==
    \A c \in Succeeded :
        LET inCycle == {k \in Succeeded : purchases[k].cycle = c}
        IN  inCycle # {} =>
              SumFunctionOnSet([k \in inCycle |-> purchases[k].amount], inCycle)
                <= Max({Price[purchases[k].version] : k \in inCycle})

(* A cycle the user has paid for and that has not begun is still there: the  *)
(* subscription has the version it was paid for and lasts to its end, unless *)
(* an administrator assigned a plan since (prepaid_cycles_locked).           *)
PrepaidKept ==
    \A k \in kept :
        purchases[k].start > now =>
            /\ sub.version = purchases[k].version
            /\ sub.ends >= purchases[k].end

(* The credit granted for a month adds up to the largest plan credit it was  *)
(* topped up to: neither repeated assignments nor a downgrade and a new      *)
(* upgrade grant it twice (grant_subscription_credit).                       *)
MonthlyCredit ==
    \A g \in grants :
        SumOf(g.month) = Max({h.to : h \in GrantedIn(g.month)})
=============================================================================
