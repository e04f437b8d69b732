------------------------- MODULE UsageBilling_proofs -------------------------
(***************************************************************************)
(* Proofs about UsageBilling for every set of applications, users, meters  *)
(* and prices, every number of windows, grants and adjustments.            *)
(*                                                                         *)
(* First the windows: one that is charged leaves "pending", and only a     *)
(* pending window without a charge is claimed.  Then the money: what a     *)
(* charge takes from the grants in the order of their expiry adds up to    *)
(* what it uses (TakenIsUsed), hence credit is conserved, no grant and no  *)
(* balance goes below zero, and what billUsage computes before it writes   *)
(* is what the user has afterwards.                                        *)
(***************************************************************************)
EXTENDS UsageBilling, SumTheorems

\* The parts of TypeOK that the argument needs.
TypeInv ==
    /\ now \in 0..MaxWindows
    /\ price \in Prices
    /\ event \in [Cells -> Events]
    /\ agg \in [Cells -> Aggregates]

IInv == TypeInv /\ (\A c \in Cells : AggregateInv(c)) /\ (\A c \in Cells : ChargeInv(c))

LEMMA InitIInv == Init => IInv
<1> SUFFICES ASSUME Init PROVE IInv
  OBVIOUS
<1>1. TypeInv
  BY BoundsAssumption DEF Init, TypeInv, Prices, Events, Aggregates, EventStates, Dispositions
<1>2. \A c \in Cells : AggregateInv(c)
  BY DEF Init, AggregateInv
<1>3. \A c \in Cells : ChargeInv(c)
  BY DEF Init, ChargeInv
<1> QED
  BY <1>1, <1>2, <1>3 DEF IInv

LEMMA CellOfMeter ==
    ASSUME NEW m \in Meters, now \in 0..MaxWindows, now > 0
    PROVE  <<m, now>> \in Cells
  BY BoundsAssumption DEF Cells, Windows

\* Steps that leave events, aggregates and charges alone.
LEMMA OtherStep ==
    ASSUME IInv, UNCHANGED <<event, agg, charges>>, price' \in Prices, now' \in 0..MaxWindows
    PROVE  IInv'
  BY DEF IInv, TypeInv, AggregateInv, ChargeInv

LEMMA MeterStep ==
    ASSUME IInv, NEW m \in Meters, Meter(m)
    PROVE  IInv'
<1> DEFINE c == <<m, now>>
<1>1. c \in Cells /\ now \in 0..MaxWindows
  BY CellOfMeter DEF Meter, IInv, TypeInv
<1>2. TypeInv'
  BY <1>1 DEF Meter, IInv, TypeInv, Events, EventStates
<1>3. agg[c].disp = "none"
  BY <1>1 DEF Meter, IInv, AggregateInv
<1>4. ASSUME NEW d \in Cells PROVE AggregateInv(d)' /\ ChargeInv(d)'
  <2>1. CASE d = c
    <3>1. event'[d] = [state |-> "new", price |-> price] /\ agg' = agg /\ charges' = charges
      BY <1>1, <2>1 DEF Meter, IInv, TypeInv
    <3> QED
      BY <1>3, <2>1, <3>1 DEF IInv, AggregateInv, ChargeInv
  <2>2. CASE d # c
    <3>1. event'[d] = event[d] /\ agg' = agg /\ charges' = charges
      BY <1>1, <2>2 DEF Meter, IInv, TypeInv
    <3> QED
      BY <3>1 DEF IInv, AggregateInv, ChargeInv
  <2> QED
    BY <2>1, <2>2
<1> QED
  BY <1>2, <1>4 DEF IInv

LEMMA AggregateStep ==
    ASSUME IInv, AggregateUsage
    PROVE  IInv'
<1> DEFINE fresh == {c \in Cells : event[c].state = "new"}
<1>0. TypeInv
  BY DEF IInv
<1>1. ASSUME NEW c \in Cells
      PROVE  /\ c \in fresh => /\ event'[c] = [state |-> "aggregated", price |-> event[c].price]
                               /\ agg'[c] = Aggregated(c)
             /\ c \notin fresh => event'[c] = event[c] /\ agg'[c] = agg[c]
  BY <1>0 DEF AggregateUsage, TypeInv, Events
<1>2. charges' = charges /\ now' = now /\ price' = price
  BY DEF AggregateUsage
<1>3. ASSUME NEW c \in Cells
      PROVE  Aggregated(c) \in Aggregates /\ [state |-> "aggregated", price |-> event[c].price] \in Events
  BY <1>0 DEF Aggregated, TypeInv, Events, EventStates, Aggregates, Dispositions
<1>4. TypeInv'
  <2>1. event' \in [Cells -> Events]
    <3>1. \A c \in Cells : event'[c] \in Events
      BY <1>0, <1>1, <1>3 DEF TypeInv
    <3> QED
      BY <3>1 DEF AggregateUsage
  <2>2. agg' \in [Cells -> Aggregates]
    <3>1. \A c \in Cells : agg'[c] \in Aggregates
      BY <1>0, <1>1, <1>3 DEF TypeInv
    <3> QED
      BY <3>1 DEF AggregateUsage
  <2> QED
    BY <1>0, <1>2, <2>1, <2>2 DEF TypeInv
<1>5. ASSUME NEW c \in Cells PROVE AggregateInv(c)' /\ ChargeInv(c)'
  <2>1. CASE c \in fresh
    <3>1. event[c].state = "new" /\ agg[c].disp = "none"
      BY <2>1 DEF IInv, AggregateInv
    <3>2. /\ event'[c] = [state |-> "aggregated", price |-> event[c].price]
          /\ agg'[c].price = event[c].price
          /\ agg'[c].disp = IF event[c].price = NoPrice THEN "unpriced" ELSE "pending"
      <4>1. event'[c] = [state |-> "aggregated", price |-> event[c].price] /\ agg'[c] = Aggregated(c)
        BY <1>1, <2>1
      <4> QED
        BY <4>1 DEF Aggregated
    <3>3. AggregateInv(c)'
      BY <3>2 DEF AggregateInv
    <3>4. {x \in charges : x.cell = c} = {}
      BY <3>1 DEF IInv, ChargeInv
    <3>5. ChargeInv(c)'
      BY <1>2, <3>2, <3>4 DEF ChargeInv
    <3> QED
      BY <3>3, <3>5
  <2>2. CASE c \notin fresh
    <3>1. event'[c] = event[c] /\ agg'[c] = agg[c]
      BY <1>1, <2>2
    <3>2. AggregateInv(c)'
      BY <3>1 DEF IInv, AggregateInv
    <3>3. ChargeInv(c)'
      BY <1>2, <3>1 DEF IInv, ChargeInv
    <3> QED
      BY <3>2, <3>3
  <2> QED
    BY <2>1, <2>2
<1> QED
  BY <1>4, <1>5 DEF IInv

LEMMA ChargeStep ==
    ASSUME IInv, NEW c \in Cells, BillCharge(c)
    PROVE  IInv'
<1>0. TypeInv /\ AggregateInv(c) /\ ChargeInv(c)
  BY DEF IInv
<1>1. agg[c].disp = "pending"
  BY DEF BillCharge, Claim, Billable
<1>2. /\ agg'[c] = [disp |-> "charged", price |-> agg[c].price]
      /\ agg' \in [Cells -> Aggregates]
      /\ \A d \in Cells : d # c => agg'[d] = agg[d]
  BY <1>0 DEF BillCharge, Sealed, TypeInv, Aggregates, Dispositions
<1>3. event' = event /\ now' = now /\ price' = price
  BY DEF BillCharge
<1> DEFINE x == [cell |-> c, price |-> agg[c].price,
                 wallet |-> WalletPart(Amount[agg[c].price], Credit(UserOf(c)))]
<1>4. charges' = charges \cup {x} /\ x.cell = c /\ x.price = agg[c].price
  BY DEF BillCharge
<1> HIDE DEF x
<1>5. TypeInv'
  BY <1>0, <1>2, <1>3 DEF TypeInv
<1>6. ASSUME NEW d \in Cells PROVE AggregateInv(d)'
  BY <1>0, <1>1, <1>2, <1>3 DEF IInv, AggregateInv
<1>7. ASSUME NEW d \in Cells PROVE ChargeInv(d)'
  <2>1. CASE d = c
    <3>1. {y \in charges : y.cell = c} = {}
      BY <1>0, <1>1 DEF ChargeInv
    <3>2. {y \in charges' : y.cell = c} = {x}
      BY <1>4, <3>1
    <3>3. agg'[c].disp = "charged" /\ x.price = event'[c].price
      BY <1>0, <1>1, <1>2, <1>3, <1>4 DEF AggregateInv
    <3> QED
      BY <2>1, <3>2, <3>3 DEF ChargeInv
  <2>2. CASE d # c
    <3>1. {y \in charges' : y.cell = d} = {y \in charges : y.cell = d}
      BY <1>4, <2>2
    <3>2. agg'[d] = agg[d] /\ ChargeInv(d)
      BY <1>2, <2>2 DEF IInv
    <3> QED
      BY <1>3, <3>1, <3>2 DEF ChargeInv
  <2> QED
    BY <2>1, <2>2
<1> QED
  BY <1>5, <1>6, <1>7 DEF IInv

LEMMA NextIInv == IInv /\ [Next]_vars => IInv'
<1> SUFFICES ASSUME IInv, [Next]_vars PROVE IInv'
  OBVIOUS
<1>0. now \in 0..MaxWindows /\ price \in Prices
  BY DEF IInv, TypeInv
<1>1. ASSUME NEW v \in Prices, SetPrice(v) PROVE IInv'
  BY <1>0, <1>1, OtherStep DEF SetPrice
<1>2. ASSUME NEW u \in Users, NEW ref \in Adjustments, NEW amount \in AdjustmentAmounts,
             AdjustWallet(u, ref, amount)
      PROVE  IInv'
  BY <1>0, <1>2, OtherStep DEF AdjustWallet
<1>3. ASSUME NEW u \in Users, NEW g \in Grants, ExpireGrant(u, g) PROVE IInv'
  BY <1>0, <1>3, OtherStep DEF ExpireGrant
<1>4. ASSUME NEW u \in Users, NEW g \in Grants, NEW amount \in GrantAmounts,
             GrantCredit(u, g, amount)
      PROVE  IInv'
  BY <1>0, <1>4, OtherStep DEF GrantCredit
<1>5. ASSUME NEW a \in Apps, StartApp(a) \/ StopApp(a) \/ EndDeployment(a) PROVE IInv'
  BY <1>0, <1>5, OtherStep DEF StartApp, StopApp, EndDeployment
<1>6. ASSUME NEW m \in Meters, Meter(m) PROVE IInv'
  BY <1>6, MeterStep
<1>7. ASSUME Tick PROVE IInv'
  <2>1. now' \in 0..MaxWindows
    BY <1>0, <1>7, BoundsAssumption DEF Tick
  <2> QED
    BY <1>0, <1>7, <2>1, OtherStep DEF Tick
<1>8. ASSUME AggregateUsage PROVE IInv'
  BY <1>8, AggregateStep
<1>9. ASSUME NEW c \in Cells, BillUnaffordable(c) PROVE IInv'
  BY <1>0, <1>9, OtherStep DEF BillUnaffordable
<1>10. ASSUME NEW c \in Cells, BillCharge(c) PROVE IInv'
  BY <1>10, ChargeStep
<1>11. ASSUME UNCHANGED vars PROVE IInv'
  BY <1>0, <1>11, OtherStep DEF vars
<1> QED
  BY <1>1, <1>2, <1>3, <1>4, <1>5, <1>6, <1>7, <1>8, <1>9, <1>10, <1>11 DEF Next, BillUsage

(* The inductive invariant holds in every reachable state.                  *)
THEOREM Invariance == Spec => []IInv
  BY InitIInv, NextIInv, PTL DEF Spec

(* Aggregation loses no event and changes no frozen price.                  *)
THEOREM NothingIsLost == Spec => []NothingLost
<1>1. IInv => NothingLost
  BY DEF IInv, NothingLost
<1> QED
  BY <1>1, Invariance, PTL

(* billUsage charges a window once and at the price of its event, for every *)
(* order of metering, price changes, refills, expiries and billing turns.   *)
THEOREM WindowsAreChargedOnce == Spec => []ChargedOnce
<1>1. IInv => ChargedOnce
  BY DEF IInv, ChargedOnce
<1> QED
  BY <1>1, Invariance, PTL

-----------------------------------------------------------------------------
(* Credit.  The grants of a user add up to a number of cents, and consuming  *)
(* them in the order of their expiry takes exactly what is asked for.        *)

GrantInv ==
    /\ grant \in [Users -> [Grants -> GrantRows]]
    /\ \A u \in Users, g \in Grants :
           grant[u][g].state = "none" => grant[u][g].amount = 0 /\ grant[u][g].remaining = 0

LEMMA MinOfTwo ==
    ASSUME NEW a \in Int, NEW b \in Int
    PROVE  Min({a, b}) = IF a <= b THEN a ELSE b
<1> DEFINE P(x) == x \in {a, b} /\ \A y \in {a, b} : x <= y
           m == IF a <= b THEN a ELSE b
<1>1. P(m) /\ \A x : P(x) => x = m
  OBVIOUS
<1>2. Min({a, b}) = CHOOSE x : P(x)
  BY Zenon DEF Min
<1> QED
  BY <1>1, <1>2

LEMMA GrantsFinite == IsFiniteSet(Grants) /\ \A S \in SUBSET Grants : IsFiniteSet(S)
<1>1. IsFiniteSet(Grants)
  BY BoundsAssumption, FS_Interval DEF Grants
<1> QED
  BY <1>1, FS_Subset

LEMMA RemainingType ==
    ASSUME GrantInv, NEW u \in Users
    PROVE  \A g \in Grants : Remaining(u)[g] = grant[u][g].remaining /\ Remaining(u)[g] \in Nat
  BY DEF GrantInv, Remaining, GrantRows

LEMMA CreditType ==
    ASSUME GrantInv, NEW u \in Users
    PROVE  Live(u) \subseteq Grants /\ Credit(u) \in Nat
<1>1. Live(u) \subseteq Grants
  BY DEF Live
<1>2. \A g \in Live(u) : Remaining(u)[g] \in Nat
  BY <1>1, RemainingType
<1> QED
  BY <1>1, <1>2, GrantsFinite, SumNat DEF Credit

\* What is spendable of the grants up to the k-th, and what is taken from them.
Before(u, k) == SumFunctionOnSet(Remaining(u), {h \in Live(u) : h < k})
Taken(u, used) == [g \in Grants |-> CreditFrom(u, g, used)]

LEMMA CreditFromCases ==
    ASSUME GrantInv, NEW u \in Users, NEW g \in Grants, NEW used \in Nat
    PROVE  /\ Before(u, g) \in Nat
           /\ CreditFrom(u, g, used) =
                IF g \notin Live(u) \/ Before(u, g) >= used THEN 0
                ELSE IF grant[u][g].remaining <= used - Before(u, g) THEN grant[u][g].remaining
                     ELSE used - Before(u, g)
           /\ CreditFrom(u, g, used) \in 0 .. grant[u][g].remaining
<1> DEFINE b == Before(u, g)
           r == grant[u][g].remaining
<1>1. b \in Nat
  <2> DEFINE S == {h \in Live(u) : h < g}
  <2>1. S \in SUBSET Grants /\ \A h \in S : Remaining(u)[h] \in Nat
    BY RemainingType DEF Live
  <2>2. IsFiniteSet(S)
    BY <2>1, GrantsFinite
  <2> HIDE DEF S
  <2>3. SumFunctionOnSet(Remaining(u), S) \in Nat
    BY <2>1, <2>2, SumNat
  <2> QED
    BY <2>3 DEF Before, S
<1>2. r \in Nat
  BY DEF GrantInv, GrantRows
<1>3. CreditFrom(u, g, used) =
        IF g \notin Live(u) \/ b >= used THEN 0 ELSE Min({r, used - b})
  BY DEF CreditFrom, Before
<1> HIDE DEF b, r
<1>4. Min({r, used - b}) = IF r <= used - b THEN r ELSE used - b
  BY <1>1, <1>2, MinOfTwo
<1>5. CreditFrom(u, g, used) \in 0 .. r
  BY <1>1, <1>2, <1>3, <1>4
<1> QED
  BY <1>1, <1>3, <1>4, <1>5 DEF b, r

LEMMA TakenType ==
    ASSUME GrantInv, NEW u \in Users, NEW used \in Nat
    PROVE  \A g \in Grants : Taken(u, used)[g] \in Int
<1>1. ASSUME NEW g \in Grants PROVE Taken(u, used)[g] \in Int
  <2>1. Taken(u, used)[g] = CreditFrom(u, g, used) /\ grant[u][g].remaining \in Nat
    BY DEF Taken, GrantInv, GrantRows
  <2>2. CreditFrom(u, g, used) \in 0 .. grant[u][g].remaining
    BY CreditFromCases
  <2> QED
    BY <2>1, <2>2
<1> QED
  BY <1>1

\* From the grants up to the k-th as much is taken as they have, or all of it.
LEMMA TakenUpTo ==
    ASSUME GrantInv, NEW u \in Users, NEW used \in Nat, NEW k \in 0 .. MaxGrants
    PROVE  SumFunctionOnSet(Taken(u, used), 1 .. k) =
             IF Before(u, k + 1) <= used THEN Before(u, k + 1) ELSE used
<1> DEFINE T == Taken(u, used)
           B(j) == Before(u, j)
           Good == {j \in 0 .. MaxGrants :
                      /\ B(j + 1) \in Nat
                      /\ SumFunctionOnSet(T, 1 .. j) = IF B(j + 1) <= used THEN B(j + 1) ELSE used}
<1>1. 0 \in Good
  <2>1. 1 .. 0 = {} /\ {h \in Live(u) : h < 1} = {}
    BY DEF Live, Grants
  <2>2. B(1) = 0
    BY <2>1, SumEmpty DEF Before
  <2>3. SumFunctionOnSet(T, 1 .. 0) = 0
    BY <2>1, SumEmpty
  <2> QED
    BY <2>2, <2>3, BoundsAssumption
<1>2. ASSUME NEW j \in 0 .. (MaxGrants - 1), j \in Good PROVE j + 1 \in Good
  <2> DEFINE g == j + 1
             S == {h \in Live(u) : h < g}
             r == grant[u][g].remaining
  <2>0. g \in Grants /\ g \in 0 .. MaxGrants /\ g \notin 1 .. j /\ 1 .. g = (1 .. j) \union {g} /\ 1 .. g \in SUBSET Grants
    BY BoundsAssumption DEF Grants
  <2> HIDE DEF g
  <2>1. r \in Nat /\ B(g) \in Nat /\ T[g] = CreditFrom(u, g, used) /\ T[g] \in 0 .. r
    BY <2>0, CreditFromCases DEF Taken, GrantInv, GrantRows
  <2>2. SumFunctionOnSet(T, 1 .. g) = SumFunctionOnSet(T, 1 .. j) + T[g]
    <3> DEFINE J == 1 .. j
    <3>1. J \in SUBSET Grants /\ IsFiniteSet(J) /\ g \notin J
      BY <2>0, GrantsFinite
    <3>2. \A h \in J \union {g} : T[h] \in Int
      BY <2>0, <3>1, TakenType
    <3> HIDE DEF J, T
    <3>3. SumFunctionOnSet(T, J \union {g}) = SumFunctionOnSet(T, J) + T[g]
      BY <3>1, <3>2, SumAdd
    <3> QED
      BY <2>0, <3>3 DEF J
  <2>3. CASE g \in Live(u)
    <3>1. {h \in Live(u) : h < g + 1} = S \union {g} /\ g \notin S /\ S \in SUBSET Grants
      BY <2>0, <2>3 DEF Live, Grants
    <3>2. IsFiniteSet(S) /\ \A h \in S \union {g} : Remaining(u)[h] \in Int
      <4>1. IsFiniteSet(S)
        BY <3>1, GrantsFinite
      <4>2. \A h \in Grants : Remaining(u)[h] \in Int
        BY RemainingType
      <4> QED
        BY <2>0, <3>1, <4>1, <4>2
    <3> HIDE DEF S
    <3>3. SumFunctionOnSet(Remaining(u), S \union {g}) = SumFunctionOnSet(Remaining(u), S) + Remaining(u)[g]
      BY <3>1, <3>2, SumAdd
    <3>4. Remaining(u)[g] = r
      BY <2>0, RemainingType
    <3>5. B(g + 1) = B(g) + r
      BY <3>1, <3>3, <3>4 DEF Before, S
    <3>6. T[g] = IF B(g) >= used THEN 0 ELSE IF r <= used - B(g) THEN r ELSE used - B(g)
      BY <2>0, <2>1, <2>3, CreditFromCases
    <3>7. SumFunctionOnSet(T, 1 .. j) = IF B(g) <= used THEN B(g) ELSE used
      BY <1>2 DEF g
    <3> HIDE DEF B, T, r
    <3>8. /\ B(g + 1) \in Nat
          /\ SumFunctionOnSet(T, 1 .. g) = IF B(g + 1) <= used THEN B(g + 1) ELSE used
      BY <2>1, <2>2, <3>5, <3>6, <3>7
    <3> QED
      BY <2>0, <3>8 DEF g
  <2>4. CASE g \notin Live(u)
    <3>1. {h \in Live(u) : h < g + 1} = S
      BY <2>0, <2>4 DEF Live, Grants
    <3>2. B(g + 1) = B(g)
      BY <3>1 DEF Before
    <3>3. T[g] = 0
      BY <2>0, <2>1, <2>4, CreditFromCases
    <3>4. SumFunctionOnSet(T, 1 .. j) = IF B(g) <= used THEN B(g) ELSE used
      BY <1>2 DEF g
    <3> HIDE DEF B, T, r
    <3>5. /\ B(g + 1) \in Nat
          /\ SumFunctionOnSet(T, 1 .. g) = IF B(g + 1) <= used THEN B(g + 1) ELSE used
      BY <2>1, <2>2, <3>2, <3>3, <3>4
    <3> QED
      BY <2>0, <3>5 DEF g
  <2> QED
    BY <2>3, <2>4
<1> HIDE DEF Good
<1>3. 0 .. MaxGrants \subseteq Good
  BY <1>1, <1>2, UpTo, BoundsAssumption
<1>4. k \in Good
  BY <1>3
<1> QED
  BY <1>4 DEF Good

\* All grants together yield what is asked for, as long as they have it.
LEMMA TakenIsUsed ==
    ASSUME GrantInv, NEW u \in Users, NEW used \in Nat, used <= Credit(u)
    PROVE  /\ \A g \in Grants : Taken(u, used)[g] \in 0 .. grant[u][g].remaining
           /\ \A g \in Grants \ Live(u) : Taken(u, used)[g] = 0
           /\ SumFunctionOnSet(Taken(u, used), Grants) = used
<1>1. \A g \in Grants : Taken(u, used)[g] \in 0 .. grant[u][g].remaining
  BY CreditFromCases DEF Taken
<1>2. \A g \in Grants \ Live(u) : Taken(u, used)[g] = 0
  BY CreditFromCases DEF Taken
<1>3. SumFunctionOnSet(Taken(u, used), Grants) = used
  <2>1. MaxGrants \in 0 .. MaxGrants /\ Grants = 1 .. MaxGrants
    BY BoundsAssumption DEF Grants
  <2>2. {h \in Live(u) : h < MaxGrants + 1} = Live(u)
    BY BoundsAssumption DEF Live, Grants
  <2>3. Before(u, MaxGrants + 1) = Credit(u)
    BY <2>2 DEF Before, Credit
  <2>4. SumFunctionOnSet(Taken(u, used), 1 .. MaxGrants) = IF Credit(u) <= used THEN Credit(u) ELSE used
    BY <2>1, <2>3, TakenUpTo
  <2> QED
    BY <2>1, <2>4, CreditType
<1> QED
  BY <1>1, <1>2, <1>3

LEMMA UserOfCell == ASSUME NEW c \in Cells PROVE UserOf(c) \in Users
  BY AppsAssumption DEF Cells, UserOf

\* A pending window has a price.
LEMMA PendingIsPriced ==
    ASSUME IInv, NEW c \in Cells, agg[c].disp = "pending"
    PROVE  /\ agg[c].price = event[c].price /\ agg[c].price \in Versions
           /\ event[c].state = "aggregated"
<1>1. AggregateInv(c) /\ agg[c] \in Aggregates
  BY DEF IInv, TypeInv
<1>2. agg[c].price \in Prices
  BY <1>1 DEF Aggregates
<1> QED
  BY <1>1, <1>2 DEF AggregateInv, Prices

\* What a charge does to the grants of its user, and what credit pays of it.
CreditPart(c) == Min({Amount[agg[c].price], Credit(UserOf(c))})

LEMMA ChargeCredit ==
    ASSUME IInv, GrantInv, NEW c \in Cells, BillCharge(c)
    PROVE  /\ UserOf(c) \in Users /\ agg[c].price \in Versions
           /\ Amount[agg[c].price] \in Nat
           /\ CreditPart(c) \in Nat /\ CreditPart(c) <= Credit(UserOf(c))
           /\ WalletPart(Amount[agg[c].price], Credit(UserOf(c))) \in Nat
           /\ CreditPart(c) = Amount[agg[c].price] - WalletPart(Amount[agg[c].price], Credit(UserOf(c)))
           /\ grant' = [grant EXCEPT ![UserOf(c)] = [g \in Grants |->
                 [grant[UserOf(c)][g] EXCEPT !.remaining = @ - Taken(UserOf(c), CreditPart(c))[g]]]]
<1> DEFINE u == UserOf(c)
           amount == Amount[agg[c].price]
           credit == Min({amount, Credit(u)})
<1>1. agg[c].disp = "pending"
  BY DEF BillCharge, Claim, Billable
<1>2. u \in Users /\ agg[c].price \in Versions /\ amount \in Nat
  BY <1>1, PendingIsPriced, UserOfCell, AmountAssumption
<1>3. Credit(u) \in Nat
  BY <1>2, CreditType
<1>4. grant' = [grant EXCEPT ![u] = [g \in Grants |->
                  [grant[u][g] EXCEPT !.remaining = @ - CreditFrom(u, g, credit)]]]
  BY DEF BillCharge
<1>5. \A g \in Grants : Taken(u, credit)[g] = CreditFrom(u, g, credit)
  BY DEF Taken
<1> HIDE DEF u, amount
<1>6. credit = IF amount <= Credit(u) THEN amount ELSE Credit(u)
  BY <1>2, <1>3, MinOfTwo
<1>7. /\ credit \in Nat /\ credit <= Credit(u)
      /\ WalletPart(amount, Credit(u)) \in Nat
      /\ credit = amount - WalletPart(amount, Credit(u))
  BY <1>2, <1>3, <1>6 DEF WalletPart
<1> HIDE DEF credit
<1>8. grant' = [grant EXCEPT ![u] = [g \in Grants |->
                  [grant[u][g] EXCEPT !.remaining = @ - Taken(u, credit)[g]]]]
  BY <1>4, <1>5
<1> QED
  BY <1>2, <1>3, <1>7, <1>8 DEF u, amount, credit, CreditPart

LEMMA ChargeGrants ==
    ASSUME IInv, GrantInv, NEW c \in Cells, BillCharge(c)
    PROVE  /\ GrantInv'
           /\ \A v \in Users \ {UserOf(c)} : grant'[v] = grant[v]
           /\ \A g \in Grants : LET u == UserOf(c) IN
                 /\ grant'[u][g].state = grant[u][g].state
                 /\ grant'[u][g].amount = grant[u][g].amount
                 /\ grant'[u][g].remaining = grant[u][g].remaining - Taken(u, CreditPart(c))[g]
                 /\ grant'[u][g].remaining \in Nat
<1> DEFINE u == UserOf(c)
           T == Taken(u, CreditPart(c))
           row(g) == [grant[u][g] EXCEPT !.remaining = @ - T[g]]
<1>1. /\ u \in Users /\ CreditPart(c) \in Nat /\ CreditPart(c) <= Credit(u)
      /\ grant' = [grant EXCEPT ![u] = [g \in Grants |-> row(g)]]
  BY ChargeCredit
<1>2. \A g \in Grants : T[g] \in 0 .. grant[u][g].remaining
  BY <1>1, TakenIsUsed
<1> HIDE DEF T, u
<1>3. ASSUME NEW g \in Grants
      PROVE  /\ row(g) \in GrantRows
             /\ row(g).state = grant[u][g].state /\ row(g).amount = grant[u][g].amount
             /\ row(g).remaining = grant[u][g].remaining - T[g]
             /\ row(g).remaining \in Nat
             /\ grant[u][g].remaining = 0 => row(g).remaining = 0
  <2>1. grant[u][g] \in GrantRows /\ T[g] \in 0 .. grant[u][g].remaining
    BY <1>1, <1>2 DEF GrantInv
  <2>2. grant[u][g].remaining \in Nat
    BY <2>1 DEF GrantRows
  <2>3. grant[u][g].remaining - T[g] \in Nat
    BY <2>1, <2>2
  <2> QED
    BY <2>1, <2>2, <2>3 DEF GrantRows
<1>4. /\ \A v \in Users \ {u} : grant'[v] = grant[v]
      /\ \A g \in Grants : grant'[u][g] = row(g)
      /\ grant' \in [Users -> [Grants -> GrantRows]]
  BY <1>1, <1>3 DEF GrantInv
<1>5. ASSUME NEW v \in Users, NEW g \in Grants, grant'[v][g].state = "none"
      PROVE  grant'[v][g].amount = 0 /\ grant'[v][g].remaining = 0
  <2>1. CASE v = u
    <3>1. grant[u][g].state = "none"
      BY <1>3, <1>4, <1>5, <2>1
    <3>2. grant[u][g].amount = 0 /\ grant[u][g].remaining = 0
      BY <1>1, <3>1 DEF GrantInv
    <3> QED
      BY <1>3, <1>4, <2>1, <3>2
  <2>2. CASE v # u
    BY <1>4, <1>5, <2>2 DEF GrantInv
  <2> QED
    BY <2>1, <2>2
<1>6. GrantInv'
  BY <1>4, <1>5 DEF GrantInv
<1> QED
  BY <1>3, <1>4, <1>6 DEF u, T

LEMMA GrantStep ==
    ASSUME GrantInv, NEW u \in Users, NEW g \in Grants, NEW amount \in GrantAmounts,
           GrantCredit(u, g, amount)
    PROVE  /\ GrantInv'
           /\ \A v \in Users \ {u} : grant'[v] = grant[v]
           /\ \A h \in Grants \ {g} : grant'[u][h] = grant[u][h]
           /\ grant'[u][g] = [state |-> "live", amount |-> amount, remaining |-> amount]
<1> DEFINE row == [state |-> "live", amount |-> amount, remaining |-> amount]
<1>1. row \in GrantRows /\ row.state = "live"
  BY AmountsAssumption DEF GrantRows, GrantStates
<1>2. grant' = [grant EXCEPT ![u][g] = row]
  BY DEF GrantCredit
<1> HIDE DEF row
<1> QED
  BY <1>1, <1>2 DEF GrantInv, row

LEMMA ExpireStep ==
    ASSUME GrantInv, NEW u \in Users, NEW g \in Grants, ExpireGrant(u, g)
    PROVE  /\ GrantInv'
           /\ \A v \in Users, h \in Grants : /\ grant'[v][h].amount = grant[v][h].amount
                                             /\ grant'[v][h].remaining = grant[v][h].remaining
<1>1. grant' = [grant EXCEPT ![u][g].state = "expired"]
  BY DEF ExpireGrant
<1>2. grant \in [Users -> [Grants -> GrantRows]]
  BY DEF GrantInv
<1>3. \A v \in Users, h \in Grants :
          /\ grant'[v][h] = IF v = u /\ h = g THEN [grant[u][g] EXCEPT !.state = "expired"] ELSE grant[v][h]
          /\ grant'[v][h] \in GrantRows
  BY <1>1, <1>2 DEF GrantRows, GrantStates
<1>4. grant' \in [Users -> [Grants -> GrantRows]]
  BY <1>1, <1>2 DEF GrantRows, GrantStates
<1>5. \A v \in Users, h \in Grants : /\ grant'[v][h].amount = grant[v][h].amount
                                     /\ grant'[v][h].remaining = grant[v][h].remaining
                                     /\ grant'[v][h].state = "none" => grant[v][h].state = "none"
  BY <1>2, <1>3 DEF GrantRows
<1>6. ASSUME NEW v \in Users, NEW h \in Grants, grant'[v][h].state = "none"
      PROVE  grant'[v][h].amount = 0 /\ grant'[v][h].remaining = 0
  <2>1. grant[v][h].amount = 0 /\ grant[v][h].remaining = 0
    BY <1>5, <1>6 DEF GrantInv
  <2> QED
    BY <1>5, <2>1
<1>7. GrantInv'
  BY <1>4, <1>6 DEF GrantInv
<1> QED
  BY <1>5, <1>7

\* Which steps change grants or charges.
LEMMA MoneySteps ==
    ASSUME [Next]_vars
    PROVE  \/ \E u \in Users, g \in Grants : ExpireGrant(u, g)
           \/ \E u \in Users, g \in Grants, amount \in GrantAmounts : GrantCredit(u, g, amount)
           \/ \E c \in Cells : BillCharge(c)
           \/ UNCHANGED <<grant, charges>>
  BY DEF Next, vars, SetPrice, AdjustWallet, StartApp, StopApp, EndDeployment,
         Tick, Meter, AggregateUsage, BillUsage, BillUnaffordable

LEMMA NextGrantInv == IInv /\ GrantInv /\ [Next]_vars => GrantInv'
<1> SUFFICES ASSUME IInv, GrantInv, [Next]_vars PROVE GrantInv'
  OBVIOUS
<1>1. CASE UNCHANGED <<grant, charges>>
  BY <1>1 DEF GrantInv
<1> QED
  BY <1>1, MoneySteps, ChargeGrants, GrantStep, ExpireStep

CreditTyped == \A u \in Users : Credit(u) \in Nat

\* The credit of a user is a number of cents.
LEMMA CreditIsTyped == Spec => []CreditTyped
<1>1. Init => GrantInv
  BY DEF Init, GrantInv, GrantRows, GrantStates
<1>2. GrantInv => CreditTyped
  BY CreditType DEF CreditTyped
<1> QED
  BY <1>1, <1>2, InitIInv, NextIInv, NextGrantInv, PTL DEF Spec

-----------------------------------------------------------------------------
(* Windows that billing leaves out.  All that is needed of what the grants  *)
(* of a user add up to is that it is a number of cents.                      *)

BalanceInv == balance \in [Users -> Nat]

\* Every recorded attempt was made with less than the frozen price asks.
AttemptInv(t) ==
    /\ t.cell \in Cells
    /\ event[t.cell].state = "aggregated"
    /\ event[t.cell].price \in Versions
    /\ t.balance + t.credit < Amount[event[t.cell].price]

SkipInv == IInv /\ BalanceInv /\ \A t \in attempts : AttemptInv(t)

LEMMA InitSkipInv == Init => SkipInv
  BY InitIInv DEF Init, SkipInv, BalanceInv

LEMMA UnaffordableAttempt ==
    ASSUME SkipInv, CreditTyped, NEW c \in Cells, BillUnaffordable(c)
    PROVE  \A t \in Attempt(c) : AttemptInv(t)
<1> DEFINE u == UserOf(c)
           t == [cell |-> c, balance |-> balance[u], credit |-> Credit(u)]
<1>1. agg[c].disp = "pending" /\ balance[u] < WalletPart(Amount[agg[c].price], Credit(u))
  BY DEF BillUnaffordable, Claim, Billable
<1>2. agg[c].price = event[c].price /\ agg[c].price \in Versions /\ event[c].state = "aggregated"
  BY <1>1, PendingIsPriced DEF SkipInv
<1>3. u \in Users /\ balance[u] \in Nat /\ Credit(u) \in Nat
  BY UserOfCell DEF SkipInv, BalanceInv, CreditTyped
<1>4. Amount[agg[c].price] \in Nat
  BY <1>2, AmountAssumption
<1> HIDE DEF u
<1>5. balance[u] + Credit(u) < Amount[agg[c].price]
  BY <1>1, <1>3, <1>4 DEF WalletPart
<1>6. AttemptInv(t)
  BY <1>2, <1>5 DEF AttemptInv
<1> QED
  BY <1>6 DEF Attempt, u

\* Frozen prices: what is aggregated keeps its state and its price.
LEMMA AttemptsStay ==
    ASSUME SkipInv, NEW t \in attempts,
           \A c \in Cells : event[c].state = "aggregated" => event'[c] = event[c]
    PROVE  AttemptInv(t)'
  BY DEF SkipInv, AttemptInv

LEMMA EventsStay ==
    ASSUME IInv, [Next]_vars, NEW c \in Cells, event[c].state = "aggregated"
    PROVE  event'[c] = event[c]
<1>0. event \in [Cells -> Events]
  BY DEF IInv, TypeInv
<1>1. ASSUME NEW m \in Meters, Meter(m) PROVE event'[c] = event[c]
  <2>1. c # <<m, now>>
    BY <1>1 DEF Meter
  <2> QED
    BY <1>0, <1>1, <2>1 DEF Meter
<1>2. ASSUME AggregateUsage PROVE event'[c] = event[c]
  BY <1>0, <1>2 DEF AggregateUsage
<1>3. CASE event' = event
  BY <1>3
<1>4. (\E m \in Meters : Meter(m)) \/ AggregateUsage \/ event' = event
  BY DEF Next, vars, SetPrice, AdjustWallet, ExpireGrant, GrantCredit, StartApp, StopApp,
         EndDeployment, Tick, BillUsage, BillUnaffordable, BillCharge
<1> QED
  BY <1>1, <1>2, <1>3, <1>4

LEMMA BalanceStep ==
    ASSUME SkipInv, CreditTyped, [Next]_vars
    PROVE  BalanceInv'
<1>0. balance \in [Users -> Nat]
  BY DEF SkipInv, BalanceInv
<1>1. ASSUME NEW u \in Users, NEW ref \in Adjustments, NEW amount \in AdjustmentAmounts,
             AdjustWallet(u, ref, amount)
      PROVE  BalanceInv'
  <2>1. balance[u] + amount \in Nat
    BY <1>0, <1>1, AmountsAssumption DEF AdjustWallet
  <2> QED
    BY <1>0, <1>1, <2>1 DEF AdjustWallet, BalanceInv
<1>2. ASSUME NEW c \in Cells, BillCharge(c) PROVE BalanceInv'
  <2> DEFINE u == UserOf(c)
             wallet == WalletPart(Amount[agg[c].price], Credit(u))
  <2>1. balance[u] >= wallet /\ balance' = [balance EXCEPT ![u] = @ - wallet] /\ agg[c].disp = "pending"
    BY <1>2 DEF BillCharge, Claim, Billable
  <2>2. Amount[agg[c].price] \in Nat /\ Credit(u) \in Nat /\ balance[u] \in Nat
    BY <1>0, <2>1, PendingIsPriced, AmountAssumption, UserOfCell DEF SkipInv, CreditTyped
  <2>3. wallet \in Nat
    BY <2>2 DEF WalletPart
  <2> HIDE DEF wallet
  <2>4. balance[u] - wallet \in Nat
    BY <2>1, <2>2, <2>3
  <2> QED
    BY <1>0, <2>1, <2>4 DEF BalanceInv
<1>3. CASE balance' = balance
  BY <1>0, <1>3 DEF BalanceInv
<1>4. \/ \E u \in Users, ref \in Adjustments, amount \in AdjustmentAmounts :
             AdjustWallet(u, ref, amount)
      \/ \E c \in Cells : BillCharge(c)
      \/ balance' = balance
  BY DEF Next, vars, SetPrice, ExpireGrant, GrantCredit, StartApp, StopApp, EndDeployment,
         Tick, Meter, AggregateUsage, BillUsage, BillUnaffordable
<1> QED
  BY <1>1, <1>2, <1>3, <1>4

LEMMA NextSkipInv == SkipInv /\ CreditTyped /\ [Next]_vars => SkipInv'
<1> SUFFICES ASSUME SkipInv, CreditTyped, [Next]_vars PROVE SkipInv'
  OBVIOUS
<1>1. IInv' /\ BalanceInv'
  BY NextIInv, BalanceStep DEF SkipInv
<1>2. \A t \in attempts : AttemptInv(t)'
  BY AttemptsStay, EventsStay DEF SkipInv
<1>3. ASSUME NEW c \in Cells, BillUnaffordable(c) PROVE \A t \in attempts' : AttemptInv(t)'
  <2>1. event' = event /\ attempts' = attempts \cup Attempt(c)
    BY <1>3 DEF BillUnaffordable
  <2>2. \A t \in Attempt(c) : AttemptInv(t)
    BY <1>3, UnaffordableAttempt
  <2> QED
    BY <1>2, <2>1, <2>2 DEF AttemptInv
<1>4. CASE attempts' = attempts
  BY <1>1, <1>2, <1>4 DEF SkipInv
<1>5. (\E c \in Cells : BillUnaffordable(c)) \/ attempts' = attempts
  BY DEF Next, vars, SetPrice, AdjustWallet, ExpireGrant, GrantCredit, StartApp, StopApp,
         EndDeployment, Tick, Meter, AggregateUsage, BillUsage, BillCharge
<1> QED
  BY <1>1, <1>3, <1>4, <1>5 DEF SkipInv

(* The windows that billUsage leaves out are windows their owners cannot     *)
(* pay, however balance and credit went up and down since the failed         *)
(* attempts.                                                                 *)
THEOREM SkippedAreUnaffordable == Spec => []SkippedIsUnaffordable
<1>1. SkipInv /\ CreditTyped => SkippedIsUnaffordable
  <2> SUFFICES ASSUME SkipInv, CreditTyped, NEW c \in Cells, agg[c].disp = "pending", Tried(c)
               PROVE  ~Affordable(c)
    BY DEF SkippedIsUnaffordable
  <2> DEFINE u == UserOf(c)
             t == [cell |-> c, balance |-> balance[u], credit |-> Credit(u)]
  <2>1. AttemptInv(t)
    BY DEF Tried, SkipInv
  <2>2. balance[u] + Credit(u) < Amount[event[c].price] /\ event[c].price \in Versions
    BY <2>1 DEF AttemptInv
  <2>3. event[c].price = agg[c].price
    BY PendingIsPriced DEF SkipInv
  <2>4. Amount[event[c].price] \in Nat /\ balance[u] \in Nat /\ Credit(u) \in Nat
    BY <2>2, AmountAssumption, UserOfCell DEF SkipInv, BalanceInv, CreditTyped
  <2> QED
    BY <2>2, <2>3, <2>4 DEF Affordable, Available
<1>2. Spec => []SkipInv
  BY InitSkipInv, NextSkipInv, CreditIsTyped, PTL DEF Spec
<1> QED
  BY <1>1, <1>2, CreditIsTyped, PTL

-----------------------------------------------------------------------------
(* The refinement of Wallet.  A charge posts under a reference of its own:   *)
(* only windows that are sealed have a usage entry.                          *)

LedgerRows == [ref : References, amount : Int]

RefInv ==
    /\ ledger \in [Users -> SUBSET LedgerRows]
    /\ \A u \in Users : \A e \in ledger[u] : \A c \in Cells :
           e.ref = <<"usage", c>> => agg[c].disp = "charged"

WInv == SkipInv /\ RefInv

LEMMA InitWInv == Init => WInv
<1> SUFFICES ASSUME Init PROVE WInv
  OBVIOUS
<1>1. SkipInv
  BY InitSkipInv
<1>2. RefInv
  BY DEF Init, RefInv
<1> QED
  BY <1>1, <1>2 DEF WInv

\* What the wallet pays for a pending window.
LEMMA ChargeAmount ==
    ASSUME SkipInv, CreditTyped, NEW c \in Cells, agg[c].disp = "pending"
    PROVE  /\ UserOf(c) \in Users
           /\ WalletPart(Amount[agg[c].price], Credit(UserOf(c))) \in Nat
<1>1. agg[c].price \in Versions
  BY PendingIsPriced DEF SkipInv
<1>2. Amount[agg[c].price] \in Nat /\ UserOf(c) \in Users
  BY <1>1, AmountAssumption, UserOfCell
<1>3. Credit(UserOf(c)) \in Nat
  BY <1>2 DEF CreditTyped
<1> QED
  BY <1>2, <1>3 DEF WalletPart

\* Sealed windows stay sealed while no entry is written.
LEMMA QuietRefs ==
    ASSUME RefInv, ledger' = ledger,
           \A c \in Cells : agg[c].disp = "charged" => agg'[c].disp = "charged"
    PROVE  RefInv'
<1>1. ledger' \in [Users -> SUBSET LedgerRows]
  BY DEF RefInv
<1>2. ASSUME NEW u \in Users, NEW e \in ledger'[u], NEW c \in Cells, e.ref = <<"usage", c>>
      PROVE  agg'[c].disp = "charged"
  <2>1. e \in ledger[u]
    OBVIOUS
  <2>2. agg[c].disp = "charged"
    BY <1>2, <2>1 DEF RefInv
  <2> QED
    BY <2>2
<1> QED
  BY <1>1, <1>2 DEF RefInv

LEMMA AdjustRefs ==
    ASSUME RefInv, NEW u \in Users, NEW ref \in Adjustments, NEW amount \in AdjustmentAmounts,
           AdjustWallet(u, ref, amount)
    PROVE  RefInv'
<1> DEFINE e == [ref |-> ref, amount |-> amount]
<1>1. e \in LedgerRows /\ e.ref = ref
  BY AmountsAssumption DEF LedgerRows, References
<1>2. ledger' = [ledger EXCEPT ![u] = @ \cup {e}] /\ agg' = agg
  BY DEF AdjustWallet
<1>3. \A c \in Cells : ref # <<"usage", c>>
  BY DEF Adjustments
<1> HIDE DEF e
<1>4. ledger' \in [Users -> SUBSET LedgerRows]
  BY <1>1, <1>2 DEF RefInv
<1>5. ASSUME NEW v \in Users, NEW f \in ledger'[v], NEW c \in Cells, f.ref = <<"usage", c>>
      PROVE  agg'[c].disp = "charged"
  <2>1. f \in ledger[v] \/ f = e
    BY <1>2 DEF RefInv
  <2>2. f \in ledger[v]
    BY <1>1, <1>3, <1>5, <2>1
  <2> QED
    BY <1>2, <1>5, <2>2 DEF RefInv
<1> QED
  BY <1>4, <1>5 DEF RefInv

LEMMA ChargeRefs ==
    ASSUME WInv, CreditTyped, NEW c \in Cells, BillCharge(c)
    PROVE  RefInv'
<1> DEFINE u == UserOf(c)
           wallet == WalletPart(Amount[agg[c].price], Credit(u))
           e == [ref |-> <<"usage", c>>, amount |-> -wallet]
<1>1. agg[c].disp = "pending" /\ RefInv /\ agg \in [Cells -> Aggregates]
  BY DEF BillCharge, Claim, Billable, WInv, SkipInv, IInv, TypeInv
<1>2. u \in Users /\ wallet \in Nat
  BY <1>1, ChargeAmount DEF WInv
<1>3. /\ ledger' = IF wallet = 0 THEN ledger ELSE [ledger EXCEPT ![u] = @ \cup {e}]
      /\ agg' = [agg EXCEPT ![c].disp = "charged"]
  BY DEF BillCharge, Sealed
<1> HIDE DEF wallet, u
<1>4. e \in LedgerRows /\ e.ref = <<"usage", c>>
  BY <1>2 DEF LedgerRows, References
<1> HIDE DEF e
<1>5. ledger' \in [Users -> SUBSET LedgerRows]
  BY <1>1, <1>2, <1>3, <1>4 DEF RefInv
<1>6. agg'[c].disp = "charged" /\ \A d \in Cells : d # c => agg'[d] = agg[d]
  BY <1>1, <1>3 DEF Aggregates
<1>7. ASSUME NEW v \in Users, NEW f \in ledger'[v], NEW d \in Cells, f.ref = <<"usage", d>>
      PROVE  agg'[d].disp = "charged"
  <2>1. f \in ledger[v] \/ f = e
    BY <1>1, <1>2, <1>3 DEF RefInv
  <2>2. CASE f = e
    BY <1>4, <1>6, <1>7, <2>2
  <2>3. CASE f \in ledger[v]
    BY <1>1, <1>6, <1>7, <2>3 DEF RefInv
  <2> QED
    BY <2>1, <2>2, <2>3
<1> QED
  BY <1>5, <1>7 DEF RefInv

LEMMA NextWInv == WInv /\ CreditTyped /\ [Next]_vars => WInv'
<1> SUFFICES ASSUME WInv, CreditTyped, [Next]_vars PROVE WInv'
  OBVIOUS
<1>1. SkipInv'
  BY NextSkipInv DEF WInv
<1>2. RefInv /\ agg \in [Cells -> Aggregates]
  BY DEF WInv, SkipInv, IInv, TypeInv
<1>3. ASSUME AggregateUsage PROVE RefInv'
  <2>1. \A c \in Cells : agg[c].disp = "charged" => event[c].state # "new"
    BY DEF WInv, SkipInv, IInv, AggregateInv
  <2>2. \A c \in Cells : agg[c].disp = "charged" => agg'[c] = agg[c]
    BY <1>3, <2>1 DEF AggregateUsage
  <2>3. ledger' = ledger
    BY <1>3 DEF AggregateUsage
  <2> QED
    BY <1>2, <2>2, <2>3, QuietRefs
<1>4. ASSUME UNCHANGED <<ledger, agg>> PROVE RefInv'
  <2>1. ledger' = ledger /\ agg' = agg
    BY <1>4
  <2>2. \A c \in Cells : agg[c].disp = "charged" => agg'[c].disp = "charged"
    BY <2>1
  <2> QED
    BY <1>2, <2>1, <2>2, QuietRefs
<1>5. ASSUME NEW u \in Users, NEW ref \in Adjustments, NEW amount \in AdjustmentAmounts,
             AdjustWallet(u, ref, amount)
      PROVE  RefInv'
  BY <1>2, <1>5, AdjustRefs
<1>6. ASSUME NEW c \in Cells, BillCharge(c) PROVE RefInv'
  BY <1>6, ChargeRefs
<1>7. \/ \E u \in Users, ref \in Adjustments, amount \in AdjustmentAmounts :
             AdjustWallet(u, ref, amount)
      \/ \E c \in Cells : BillCharge(c)
      \/ AggregateUsage
      \/ UNCHANGED <<ledger, agg>>
  BY DEF Next, vars, SetPrice, ExpireGrant, GrantCredit, StartApp, StopApp, EndDeployment,
         Tick, Meter, BillUsage, BillUnaffordable
<1>8. RefInv'
  BY <1>3, <1>4, <1>5, <1>6, <1>7
<1> QED
  BY <1>1, <1>8 DEF WInv

\* One new entry, and the balance with it.
LEMMA PostRefines ==
    ASSUME WInv, NEW u \in Users, NEW e, e.amount \in Int \ {0},
           \A f \in ledger[u] : f.ref # e.ref,
           balance[u] + e.amount >= 0,
           balance' = [balance EXCEPT ![u] = @ + e.amount],
           ledger' = [ledger EXCEPT ![u] = @ \cup {e}]
    PROVE  W!Next
<1>1. e \in ledger'[u] \ ledger[u]
  BY DEF WInv, RefInv
<1>2. W!Post(u, e)
  BY DEF W!Post
<1> QED
  BY <1>1, <1>2 DEF W!Next

LEMMA AdjustRefines ==
    ASSUME WInv, NEW u \in Users, NEW ref \in Adjustments, NEW amount \in AdjustmentAmounts,
           AdjustWallet(u, ref, amount)
    PROVE  W!Next
<1> DEFINE e == [ref |-> ref, amount |-> amount]
<1>1. e.amount = amount /\ e.ref = ref /\ amount \in Int \ {0}
  BY AmountsAssumption
<1>2. /\ \A f \in ledger[u] : f.ref # e.ref
      /\ balance[u] + e.amount >= 0
      /\ balance' = [balance EXCEPT ![u] = @ + e.amount]
      /\ ledger' = [ledger EXCEPT ![u] = @ \cup {e}]
  BY <1>1 DEF AdjustWallet
<1> HIDE DEF e
<1> QED
  BY <1>1, <1>2, PostRefines

LEMMA ChargeRefines ==
    ASSUME WInv, CreditTyped, NEW c \in Cells, BillCharge(c)
    PROVE  W!Next \/ UNCHANGED W!vars
<1> DEFINE u == UserOf(c)
           wallet == WalletPart(Amount[agg[c].price], Credit(u))
           e == [ref |-> <<"usage", c>>, amount |-> -wallet]
<1>1. agg[c].disp = "pending" /\ RefInv /\ balance \in [Users -> Nat]
  BY DEF BillCharge, Claim, Billable, WInv, SkipInv, BalanceInv
<1>2. u \in Users /\ wallet \in Nat
  BY <1>1, ChargeAmount DEF WInv
<1>3. /\ ledger' = IF wallet = 0 THEN ledger ELSE [ledger EXCEPT ![u] = @ \cup {e}]
      /\ balance' = [balance EXCEPT ![u] = @ - wallet]
      /\ balance[u] >= wallet
  BY DEF BillCharge
<1> HIDE DEF wallet, u
<1>4. CASE wallet = 0
  <2>1. balance' = balance /\ ledger' = ledger
    BY <1>1, <1>2, <1>3, <1>4
  <2> QED
    BY <2>1 DEF W!vars
<1>5. CASE wallet # 0
  <2>1. e.amount = -wallet /\ e.ref = <<"usage", c>> /\ -wallet \in Int \ {0}
    BY <1>2, <1>5
  <2> HIDE DEF e
  <2>2. \A f \in ledger[u] : f.ref # e.ref
    BY <1>1, <1>2, <2>1 DEF RefInv
  <2>3. balance[u] - wallet = balance[u] + e.amount /\ balance[u] + e.amount >= 0
    BY <1>1, <1>2, <1>3, <2>1
  <2>4. balance' = [balance EXCEPT ![u] = @ + e.amount]
    BY <1>3, <2>3
  <2>5. ledger' = [ledger EXCEPT ![u] = @ \cup {e}]
    BY <1>3, <1>5
  <2> QED
    BY <1>2, <2>1, <2>2, <2>3, <2>4, <2>5, PostRefines
<1> QED
  BY <1>4, <1>5

LEMMA NextRefines == WInv /\ CreditTyped /\ [Next]_vars => [W!Next]_(W!vars)
<1> SUFFICES ASSUME WInv, CreditTyped, [Next]_vars PROVE W!Next \/ UNCHANGED W!vars
  OBVIOUS
<1>1. \/ \E u \in Users, ref \in Adjustments, amount \in AdjustmentAmounts :
             AdjustWallet(u, ref, amount)
      \/ \E c \in Cells : BillCharge(c)
      \/ UNCHANGED <<balance, ledger>>
  BY DEF Next, vars, SetPrice, ExpireGrant, GrantCredit, StartApp, StopApp, EndDeployment,
         Tick, Meter, AggregateUsage, BillUsage, BillUnaffordable
<1>2. CASE UNCHANGED <<balance, ledger>>
  BY <1>2 DEF W!vars
<1> QED
  BY <1>1, <1>2, AdjustRefines, ChargeRefines

(* Billing and the administrators' adjustments implement the wallet         *)
(* specification for every set of users, meters, prices and grants: each entry is new, moves the balance by *)
(* its amount in the same transaction and never overdraws it (billUsage,    *)
(* adjustWallet).                                                           *)
THEOREM WalletIsImplemented == Spec => ImplementsWallet
<1>1. Init => W!Init
  BY DEF Init, W!Init
<1>2. Spec => []WInv
  BY InitWInv, NextWInv, CreditIsTyped, PTL DEF Spec
<1> QED
  BY <1>1, <1>2, CreditIsTyped, NextRefines, PTL DEF Spec, ImplementsWallet, W!Spec
-----------------------------------------------------------------------------
(* Conservation of credit.  The grants of a user and the charges of a user   *)
(* are sums over two different sets; a charge adds the same to both.         *)

ChargesOf(u) == {x \in charges : UserOf(x.cell) = u}

MoneyInv ==
    /\ IInv /\ GrantInv
    /\ charges \subseteq Charges /\ IsFiniteSet(charges)
    /\ CreditConserved

LEMMA ConsumedType ==
    ASSUME GrantInv, NEW u \in Users
    PROVE  \A g \in Grants : Consumed(u)[g] \in Int
  BY DEF GrantInv, GrantRows, Consumed

LEMMA UncoveredType ==
    ASSUME charges \subseteq Charges
    PROVE  \A x \in charges : Uncovered[x] = Amount[x.price] - x.wallet /\ Uncovered[x] \in Int
  BY AmountAssumption DEF Charges, Uncovered

\* Grants given and expired leave what was consumed as it is.
LEMMA GrantsConserve ==
    ASSUME MoneyInv, GrantInv', charges' = charges,
           \A u \in Users, g \in Grants :
               grant'[u][g].amount - grant'[u][g].remaining = grant[u][g].amount - grant[u][g].remaining
    PROVE  MoneyInv' \/ ~IInv'
<1>1. ASSUME NEW u \in Users PROVE Consumed(u)' = Consumed(u)
  BY DEF Consumed
<1>2. Uncovered' = Uncovered
  BY DEF Uncovered
<1>3. CreditConserved'
  BY <1>1, <1>2 DEF MoneyInv, CreditConserved, UserOf
<1> QED
  BY <1>3 DEF MoneyInv

LEMMA ChargeConserves ==
    ASSUME MoneyInv, NEW c \in Cells, BillCharge(c), IInv'
    PROVE  MoneyInv'
<1> DEFINE u == UserOf(c)
           T == Taken(u, CreditPart(c))
           x == [cell |-> c, price |-> agg[c].price,
                 wallet |-> WalletPart(Amount[agg[c].price], Credit(u))]
<1>1. /\ u \in Users /\ agg[c].price \in Versions /\ Amount[agg[c].price] \in Nat
      /\ CreditPart(c) \in Nat /\ CreditPart(c) <= Credit(u)
      /\ x.wallet \in Nat /\ CreditPart(c) = Amount[agg[c].price] - x.wallet
  BY ChargeCredit DEF MoneyInv
<1>2. charges' = charges \cup {x} /\ x.cell = c /\ x.price = agg[c].price
  BY DEF BillCharge
<1>3. x \in Charges
  BY <1>1 DEF Charges
<1>4. x \notin charges
  <2>1. agg[c].disp = "pending"
    BY DEF BillCharge, Claim, Billable
  <2> QED
    BY <1>2, <2>1 DEF MoneyInv, IInv, ChargeInv
<1>5. /\ GrantInv'
      /\ \A v \in Users \ {u} : grant'[v] = grant[v]
      /\ \A g \in Grants : /\ grant'[u][g].amount = grant[u][g].amount
                           /\ grant'[u][g].remaining = grant[u][g].remaining - T[g]
  BY ChargeGrants DEF MoneyInv
<1>6. (\A g \in Grants : T[g] \in Int) /\ SumFunctionOnSet(T, Grants) = CreditPart(c)
  BY <1>1, TakenIsUsed, TakenType DEF MoneyInv
<1> HIDE DEF x, T, u
<1>7. charges' \subseteq Charges /\ IsFiniteSet(charges')
  BY <1>2, <1>3, FS_AddElement DEF MoneyInv
<1>8. ASSUME NEW v \in Users
      PROVE  SumFunctionOnSet(Consumed(v)', Grants) = SumFunctionOnSet(Uncovered', ChargesOf(v)')
  <2>1. SumFunctionOnSet(Consumed(v), Grants) = SumFunctionOnSet(Uncovered, ChargesOf(v))
    BY DEF MoneyInv, CreditConserved, ChargesOf
  <2>2. IsFiniteSet(ChargesOf(v)) /\ ChargesOf(v) \subseteq charges
    BY FS_Subset DEF MoneyInv, ChargesOf
  <2>3. \A y \in charges' : Uncovered'[y] = Amount[y.price] - y.wallet /\ Uncovered'[y] \in Int
    BY <1>7, AmountAssumption DEF Uncovered, Charges
  <2>4. \A y \in charges : Uncovered[y] = Amount[y.price] - y.wallet /\ Uncovered[y] \in Int
    BY UncoveredType DEF MoneyInv
  <2>5. SumFunctionOnSet(Uncovered', ChargesOf(v)) = SumFunctionOnSet(Uncovered, ChargesOf(v))
    <3>1. \A y \in ChargesOf(v) : Uncovered'[y] = Uncovered[y]
      BY <1>2, <2>2, <2>3, <2>4
    <3> QED
      BY <2>2, <3>1, SumSame
  <2>6. CASE v = u
    <3>1. ChargesOf(v)' = ChargesOf(v) \union {x} /\ x \notin ChargesOf(v)
      BY <1>2, <1>4, <2>6 DEF ChargesOf, UserOf, u
    <3>2. Uncovered'[x] = CreditPart(c)
      BY <1>1, <1>2, <2>3
    <3>3. \A y \in ChargesOf(v) \union {x} : Uncovered'[y] \in Int
      BY <1>2, <2>2, <2>3
    <3>4. SumFunctionOnSet(Uncovered', ChargesOf(v) \union {x})
            = SumFunctionOnSet(Uncovered', ChargesOf(v)) + Uncovered'[x]
      BY <2>2, <3>1, <3>3, SumAdd
    <3>5. \A g \in Grants : Consumed(v)'[g] = Consumed(v)[g] + T[g]
      <4>1. ASSUME NEW g \in Grants PROVE Consumed(v)'[g] = Consumed(v)[g] + T[g]
        <5>1. grant[v][g].amount \in Nat /\ grant[v][g].remaining \in Nat
          BY DEF MoneyInv, GrantInv, GrantRows
        <5>2. Consumed(v)[g] = grant[v][g].amount - grant[v][g].remaining
          BY DEF Consumed
        <5>3. Consumed(v)'[g] = grant'[v][g].amount - grant'[v][g].remaining
          BY DEF Consumed
        <5> QED
          BY <1>5, <1>6, <2>6, <5>1, <5>2, <5>3
      <4> QED
        BY <4>1
    <3>6. \A g \in Grants : Consumed(v)[g] \in Int
      BY ConsumedType DEF MoneyInv
    <3>7. SumFunctionOnSet(Consumed(v)', Grants)
            = SumFunctionOnSet(Consumed(v), Grants) + SumFunctionOnSet(T, Grants)
      BY <1>6, <3>5, <3>6, GrantsFinite, SumPlus
    <3> QED
      BY <1>6, <2>1, <2>5, <3>1, <3>2, <3>4, <3>7
  <2>7. CASE v # u
    <3>1. ChargesOf(v)' = ChargesOf(v)
      BY <1>2, <2>7 DEF ChargesOf, UserOf, u
    <3>2. Consumed(v)' = Consumed(v)
      BY <1>5, <2>7 DEF Consumed
    <3> QED
      BY <2>1, <2>5, <3>1, <3>2
  <2> QED
    BY <2>6, <2>7
<1>9. CreditConserved'
  BY <1>8 DEF CreditConserved, ChargesOf
<1> QED
  BY <1>5, <1>7, <1>9 DEF MoneyInv

LEMMA InitMoneyInv == Init => MoneyInv
<1> SUFFICES ASSUME Init PROVE MoneyInv
  OBVIOUS
<1>1. IInv
  BY InitIInv
<1>2. GrantInv
  BY DEF Init, GrantInv, GrantRows, GrantStates
<1>3. charges = {} /\ IsFiniteSet(charges)
  BY FS_EmptySet DEF Init
<1>4. CreditConserved
  <2> SUFFICES ASSUME NEW u \in Users
               PROVE  SumFunctionOnSet(Consumed(u), Grants) =
                        SumFunctionOnSet(Uncovered, {x \in charges : UserOf(x.cell) = u})
    BY DEF CreditConserved
  <2>1. \A g \in Grants : Consumed(u)[g] = 0
    BY DEF Init, Consumed
  <2>2. SumFunctionOnSet(Consumed(u), Grants) = 0
    BY <2>1, GrantsFinite, SumZero
  <2>3. {x \in charges : UserOf(x.cell) = u} = {}
    BY <1>3
  <2> QED
    BY <2>2, <2>3, SumEmpty
<1> QED
  BY <1>1, <1>2, <1>3, <1>4 DEF MoneyInv

LEMMA NextMoneyInv == MoneyInv /\ [Next]_vars => MoneyInv'
<1> SUFFICES ASSUME MoneyInv, [Next]_vars PROVE MoneyInv'
  OBVIOUS
<1>1. IInv' /\ GrantInv' /\ GrantInv
  BY NextIInv, NextGrantInv DEF MoneyInv
<1>2. ASSUME NEW u \in Users, NEW g \in Grants, ExpireGrant(u, g) PROVE MoneyInv'
  <2>1. charges' = charges
    BY <1>2 DEF ExpireGrant
  <2> QED
    BY <1>1, <1>2, <2>1, ExpireStep, GrantsConserve
<1>3. ASSUME NEW u \in Users, NEW g \in Grants, NEW amount \in GrantAmounts,
             GrantCredit(u, g, amount)
      PROVE  MoneyInv'
  <2>1. charges' = charges /\ grant[u][g].amount = 0 /\ grant[u][g].remaining = 0
    BY <1>1, <1>3 DEF GrantCredit, GrantInv
  <2>2. /\ \A v \in Users \ {u} : grant'[v] = grant[v]
        /\ \A h \in Grants \ {g} : grant'[u][h] = grant[u][h]
        /\ grant'[u][g] = [state |-> "live", amount |-> amount, remaining |-> amount]
        /\ amount \in Nat
    BY <1>1, <1>3, GrantStep, AmountsAssumption, Zenon
  <2>3. ASSUME NEW v \in Users, NEW h \in Grants
        PROVE  grant'[v][h].amount - grant'[v][h].remaining = grant[v][h].amount - grant[v][h].remaining
    <3>1. CASE v = u /\ h = g
      BY <2>1, <2>2, <3>1
    <3>2. CASE ~(v = u /\ h = g)
      BY <2>2, <3>2
    <3> QED
      BY <3>1, <3>2
  <2> QED
    BY <1>1, <2>1, <2>3, GrantsConserve
<1>4. ASSUME NEW c \in Cells, BillCharge(c) PROVE MoneyInv'
  BY <1>1, <1>4, ChargeConserves
<1>5. CASE UNCHANGED <<grant, charges>>
  BY <1>1, <1>5, GrantsConserve
<1> QED
  BY <1>2, <1>3, <1>4, <1>5, MoneySteps

(* What was taken from the credit grants of a user is what the charges of    *)
(* the user cost beyond what the wallet paid, however many grants a charge   *)
(* of billUsage consumes and whatever is granted or expires in between.      *)
THEOREM CreditIsConserved == Spec => []CreditConserved
<1>1. MoneyInv => CreditConserved
  BY DEF MoneyInv
<1> QED
  BY <1>1, InitMoneyInv, NextMoneyInv, PTL DEF Spec

-----------------------------------------------------------------------------
(* Recovery.  After a charge the user has exactly what the transaction       *)
(* computed from the balance and credit it had read.                         *)

LEMMA CreditAfterCharge ==
    ASSUME MoneyInv, NEW c \in Cells, BillCharge(c)
    PROVE  Credit(UserOf(c))' = Credit(UserOf(c)) - CreditPart(c)
<1> DEFINE u == UserOf(c)
           T == Taken(u, CreditPart(c))
           Old == Live(u)
           New == Live(u)'
           R == Remaining(u)
           S == Remaining(u)'
<1>1. u \in Users /\ CreditPart(c) \in Nat /\ CreditPart(c) <= Credit(u) /\ GrantInv
  BY ChargeCredit DEF MoneyInv
<1>2. /\ GrantInv'
      /\ \A g \in Grants : /\ grant'[u][g].state = grant[u][g].state
                           /\ grant'[u][g].remaining = grant[u][g].remaining - T[g]
                           /\ grant'[u][g].remaining \in Nat
  BY ChargeGrants DEF MoneyInv
<1>3. /\ \A g \in Grants : T[g] \in 0 .. grant[u][g].remaining /\ T[g] \in Int
      /\ \A g \in Grants \ Old : T[g] = 0
      /\ SumFunctionOnSet(T, Grants) = CreditPart(c)
  BY <1>1, TakenIsUsed, TakenType
<1>4. \A g \in Grants : /\ R[g] = grant[u][g].remaining /\ R[g] \in Nat
                        /\ S[g] = grant'[u][g].remaining /\ S[g] \in Nat /\ S[g] = R[g] - T[g]
  <2>1. \A g \in Grants : R[g] = grant[u][g].remaining /\ R[g] \in Nat
    BY <1>1, RemainingType
  <2>2. \A g \in Grants : S[g] = grant'[u][g].remaining
    BY DEF Remaining, UserOf
  <2> QED
    BY <1>2, <2>1, <2>2
<1>5. UserOf(c)' = u
  BY DEF UserOf
<1>6. Old \subseteq Grants /\ New \subseteq Grants
  BY DEF Live
<1>7. New \subseteq Old
  <2>1. ASSUME NEW g \in New PROVE g \in Old
    <3>1. g \in Grants /\ grant'[u][g].state = "live" /\ grant'[u][g].remaining > 0
      BY <1>5 DEF Live
    <3>2. grant[u][g].state = "live" /\ grant[u][g].remaining \in Nat /\ T[g] \in 0 .. grant[u][g].remaining
      BY <1>2, <1>3, <1>4, <3>1
    <3>3. grant[u][g].remaining > 0
      BY <1>2, <3>1, <3>2
    <3> QED
      BY <3>1, <3>2, <3>3 DEF Live
  <2> QED
    BY <2>1
<1>8. \A g \in Old \ New : S[g] = 0
  <2>1. ASSUME NEW g \in Old \ New PROVE S[g] = 0
    <3>1. g \in Grants /\ grant[u][g].state = "live"
      BY DEF Live
    <3>2. grant'[u][g].state = "live" /\ grant'[u][g].remaining \in Nat
      BY <1>2, <3>1
    <3>3. ~(grant'[u][g].remaining > 0)
      BY <1>5, <3>1, <3>2 DEF Live
    <3> QED
      BY <1>4, <3>1, <3>2, <3>3
  <2> QED
    BY <2>1
<1>9. Credit(u) = SumFunctionOnSet(R, Old) /\ Credit(UserOf(c))' = SumFunctionOnSet(S, New)
  BY <1>5 DEF Credit
<1> HIDE DEF u, T, Old, New, R, S
<1>10. IsFiniteSet(Old) /\ IsFiniteSet(Grants)
  BY <1>6, GrantsFinite
<1>11. SumFunctionOnSet(S, New) = SumFunctionOnSet(S, Old)
  <2>1. \A g \in Old : S[g] \in Int
    BY <1>4, <1>6
  <2> QED
    BY <1>7, <1>8, <1>10, <2>1, SumNonzero
<1>12. SumFunctionOnSet(T, Old) = CreditPart(c)
  BY <1>3, <1>6, <1>10, SumNonzero
<1>13. SumFunctionOnSet(R, Old) = SumFunctionOnSet(S, Old) + SumFunctionOnSet(T, Old)
  <2>1. \A g \in Old : S[g] \in Int /\ T[g] \in Int /\ R[g] = S[g] + T[g]
    BY <1>3, <1>4, <1>6
  <2> QED
    BY <1>10, <2>1, SumPlus
<1>14. SumFunctionOnSet(S, Old) \in Int
  <2>1. \A g \in Old : S[g] \in Int
    BY <1>4, <1>6
  <2> QED
    BY <1>10, <2>1, SumInt
<1> QED
  BY <1>1, <1>9, <1>11, <1>12, <1>13, <1>14 DEF u

LEMMA ChargeRecovers ==
    ASSUME MoneyInv, BalanceInv, NEW c \in Cells, BillCharge(c), NEW a \in Apps,
           app[a] = "suspended", app'[a] = "recovering"
    PROVE  Pending(Owner[a])' = {} /\ Available(Owner[a])' >= Reserve
<1> DEFINE u == UserOf(c)
           wallet == WalletPart(Amount[agg[c].price], Credit(u))
           left == balance[u] - wallet + Credit(u) - CreditPart(c)
<1>1. /\ app' = CASE left < Reserve -> Suspended(u)
                  [] left >= Reserve /\ PaidUp(u, c) -> Recovered(u)
                  [] OTHER -> app
      /\ balance' = [balance EXCEPT ![u] = @ - wallet]
      /\ agg' = Sealed(c)
  BY DEF BillCharge, CreditPart
<1>2. u \in Users /\ wallet \in Nat /\ CreditPart(c) \in Nat
  BY ChargeCredit DEF MoneyInv
<1>3. balance[u] \in Nat /\ Credit(u) \in Nat
  BY <1>2, CreditType DEF BalanceInv, MoneyInv
<1>4. Credit(u)' = Credit(u) - CreditPart(c) /\ u' = u
  BY CreditAfterCharge DEF UserOf
<1> HIDE DEF wallet
<1>5. left >= Reserve /\ PaidUp(u, c) /\ Owner[a] = u
  <2>0. left \in Int /\ Reserve \in Nat
    BY <1>2, <1>3, BoundsAssumption
  <2> HIDE DEF u, left
  <2>1. CASE left < Reserve
    BY <1>1, <2>0, <2>1 DEF Suspended
  <2>2. CASE left >= Reserve /\ PaidUp(u, c)
    BY <1>1, <2>2 DEF Recovered
  <2>3. CASE ~(left < Reserve) /\ ~(left >= Reserve /\ PaidUp(u, c))
    BY <1>1, <2>3
  <2> QED
    BY <2>1, <2>2, <2>3
<1>6. balance'[u] = balance[u] - wallet
  BY <1>1, <1>2 DEF BalanceInv
<1>7. Available(Owner[a])' >= Reserve
  <2>1. Available(Owner[a])' = balance'[u] + Credit(u)'
    BY <1>4, <1>5 DEF Available
  <2> QED
    BY <1>2, <1>3, <1>4, <1>5, <1>6, <2>1
<1>8. Pending(Owner[a])' = {}
  <2>1. Pending(u) \subseteq {c}
    BY <1>5 DEF PaidUp
  <2>2. agg \in [Cells -> Aggregates]
    BY DEF MoneyInv, IInv, TypeInv
  <2>3. \A d \in Cells : agg'[d].disp = IF d = c THEN "charged" ELSE agg[d].disp
    BY <1>1, <2>2 DEF Sealed, Aggregates
  <2> QED
    BY <1>5, <2>1, <2>3 DEF Pending, Of
<1> QED
  BY <1>7, <1>8

AppInv == app \in [Apps -> AppStates]

LEMMA InitAppInv == Init => AppInv
  BY DEF Init, AppInv, AppStates

LEMMA ChargeAppInv ==
    ASSUME AppInv, NEW c \in Cells, BillUnaffordable(c) \/ BillCharge(c)
    PROVE  AppInv'
<1> DEFINE u == UserOf(c)
<1>1. Suspended(u) \in [Apps -> AppStates] /\ Recovered(u) \in [Apps -> AppStates]
  BY DEF AppInv, Suspended, Recovered, AppStates
<1>2. app' = Suspended(u) \/ app' = Recovered(u) \/ app' = app
  <2>1. CASE BillUnaffordable(c)
    BY <2>1 DEF BillUnaffordable
  <2>2. CASE BillCharge(c)
    <3> DEFINE left == balance[u] - WalletPart(Amount[agg[c].price], Credit(u)) + Credit(u) - CreditPart(c)
    <3>1. app' = CASE left < Reserve -> Suspended(u)
                   [] left >= Reserve /\ PaidUp(u, c) -> Recovered(u)
                   [] OTHER -> app
      BY <2>2 DEF BillCharge, CreditPart
    <3> HIDE DEF left, u
    <3> QED
      BY <3>1
  <2> QED
    BY <2>1, <2>2
<1> QED
  BY <1>1, <1>2 DEF AppInv

LEMMA NextAppInv == AppInv /\ [Next]_vars => AppInv'
<1> SUFFICES ASSUME AppInv, [Next]_vars PROVE AppInv'
  OBVIOUS
<1>1. ASSUME NEW a \in Apps, StartApp(a) \/ StopApp(a) \/ EndDeployment(a) PROVE AppInv'
  BY <1>1 DEF AppInv, AppStates, StartApp, StopApp, EndDeployment
<1>2. CASE app' = app
  BY <1>2 DEF AppInv
<1>3. \/ \E a \in Apps : StartApp(a) \/ StopApp(a) \/ EndDeployment(a)
      \/ \E c \in Cells : BillUnaffordable(c) \/ BillCharge(c)
      \/ app' = app
  BY DEF Next, vars, SetPrice, AdjustWallet, ExpireGrant, GrantCredit, Tick, Meter,
         AggregateUsage, BillUsage
<1> QED
  BY <1>1, <1>2, <1>3, ChargeAppInv

(* An application that billing suspended is only deployed again when its     *)
(* owner owes nothing and what is left after the charge covers the reserve:  *)
(* what billUsage computes before it writes is what is there afterwards.     *)
THEOREM RecoveryIsSolvent == Spec => RecoveredSolvent
<1>1. ASSUME MoneyInv, BalanceInv, AppInv, [Next]_vars, NEW a \in Apps,
             app[a] = "suspended", app'[a] = "recovering"
      PROVE  Pending(Owner[a])' = {} /\ Available(Owner[a])' >= Reserve
  <2>0. app \in [Apps -> AppStates]
    BY <1>1 DEF AppInv
  <2>1. ASSUME NEW b \in Apps, StartApp(b) \/ StopApp(b) \/ EndDeployment(b)
        PROVE  app'[a] # "recovering"
    BY <1>1, <2>0, <2>1 DEF StartApp, StopApp, EndDeployment
  <2>2. ASSUME NEW c \in Cells, BillUnaffordable(c) PROVE app'[a] # "recovering"
    BY <1>1, <2>2 DEF BillUnaffordable, Suspended
  <2>3. \/ \E b \in Apps : StartApp(b) \/ StopApp(b) \/ EndDeployment(b)
        \/ \E c \in Cells : BillUnaffordable(c) \/ BillCharge(c)
        \/ app' = app
    BY <1>1 DEF Next, vars, SetPrice, AdjustWallet, ExpireGrant, GrantCredit, Tick, Meter,
           AggregateUsage, BillUsage
  <2>4. \E c \in Cells : BillCharge(c)
    BY <1>1, <2>1, <2>2, <2>3
  <2> QED
    BY <1>1, <2>4, ChargeRecovers
<1>2. MoneyInv /\ BalanceInv /\ AppInv /\ [Next]_vars =>
        [\A a \in Apps : app[a] = "suspended" /\ app'[a] = "recovering" =>
            Pending(Owner[a])' = {} /\ Available(Owner[a])' >= Reserve]_vars
  BY <1>1
<1>3. SkipInv => BalanceInv
  BY DEF SkipInv
<1> QED
  BY <1>2, <1>3, InitMoneyInv, NextMoneyInv, InitSkipInv, NextSkipInv, InitAppInv,
     NextAppInv, CreditIsTyped, PTL
     DEF Spec, RecoveredSolvent

LEMMA AttemptsType ==
    ASSUME SkipInv, CreditTyped, [Next]_vars, attempts \subseteq Attempts
    PROVE  attempts' \subseteq Attempts
<1>1. ASSUME NEW c \in Cells, BillUnaffordable(c) PROVE attempts' \subseteq Attempts
  <2>1. balance[UserOf(c)] \in Nat /\ Credit(UserOf(c)) \in Nat
    BY UserOfCell DEF SkipInv, BalanceInv, CreditTyped
  <2>2. Attempt(c) \subseteq Attempts
    BY <2>1 DEF Attempt, Attempts
  <2> QED
    BY <1>1, <2>2 DEF BillUnaffordable
<1>2. (\E c \in Cells : BillUnaffordable(c)) \/ attempts' = attempts
  BY DEF Next, vars, SetPrice, AdjustWallet, ExpireGrant, GrantCredit, StartApp, StopApp,
         EndDeployment, Tick, Meter, AggregateUsage, BillUsage, BillCharge
<1> QED
  BY <1>1, <1>2

(* Type correctness.  That no balance and no grant ever goes below zero is   *)
(* part of it, and needs the order in which a charge consumes the grants.    *)
THEOREM TypeCorrect == Spec => []TypeOK
<1>1. WInv /\ MoneyInv /\ AppInv /\ attempts \subseteq Attempts => TypeOK
  BY DEF WInv, SkipInv, IInv, TypeInv, BalanceInv, RefInv, LedgerRows, MoneyInv, GrantInv, AppInv, TypeOK
<1>2. Init => attempts \subseteq Attempts
  BY DEF Init
<1>3. SkipInv /\ CreditTyped /\ [Next]_vars /\ attempts \subseteq Attempts => (attempts \subseteq Attempts)'
  BY AttemptsType
<1>4. WInv => SkipInv
  BY DEF WInv
<1> QED
  BY <1>1, <1>2, <1>3, <1>4, InitWInv, NextWInv, InitMoneyInv, NextMoneyInv, InitAppInv, NextAppInv,
     CreditIsTyped, PTL DEF Spec
=============================================================================
