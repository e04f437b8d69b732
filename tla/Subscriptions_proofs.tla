------------------------ MODULE Subscriptions_proofs ------------------------
(***************************************************************************)
(* Proofs about Subscriptions for any price list, any number of purchases  *)
(* and any clock.  The argument rests on BookInv: every purchase that      *)
(* succeeded belongs to a cycle somebody bought, and as long as the cycle  *)
(* of the subscription lasts all purchases made in it end when it ends.    *)
(* So a purchase that is not refused as prepaid_cycles_locked finds all of *)
(* them in effect at its now(), however long it waited for the lock, and   *)
(* paidBaseline counts each of them.                                       *)
(***************************************************************************)
EXTENDS Subscriptions, SumTheorems

USE PlanAssumption, BoundAssumption, NoneAssumption

-----------------------------------------------------------------------------
(* Maxima and sums.                                                        *)

\* A finite set of numbers has a largest one.
LEMMA MaxOf ==
    ASSUME NEW S \in SUBSET Int, IsFiniteSet(S), S # {}
    PROVE  Max(S) \in S /\ \A y \in S : Max(S) >= y
<1> DEFINE Good == {T \in SUBSET S : T # {} => \E x \in T : \A y \in T : x >= y}
<1>1. ASSUME NEW T \in SUBSET S, \A V \in SUBSET T : V # T => V \in Good
      PROVE  T \in Good
  <2> SUFFICES ASSUME T # {} PROVE \E x \in T : \A y \in T : x >= y
    OBVIOUS
  <2>1. PICK z : z \in T
    OBVIOUS
  <2>2. CASE T = {z}
    BY <2>1, <2>2
  <2>3. CASE T # {z}
    <3>1. T \ {z} \in Good /\ T \ {z} # {}
      BY <1>1, <2>1, <2>3
    <3>2. PICK x \in T \ {z} : \A y \in T \ {z} : x >= y
      BY <3>1
    <3>3. x \in Int /\ z \in Int /\ \A y \in T : y \in Int
      BY <2>1, <3>2
    <3>4. CASE x >= z
      BY <2>1, <3>2, <3>4
    <3>5. CASE z >= x
      <4>1. \A y \in T : z >= y
        BY <3>2, <3>3, <3>5
      <4> QED
        BY <2>1, <4>1
    <3> QED
      BY <3>3, <3>4, <3>5
  <2> QED
    BY <2>2, <2>3
<1> HIDE DEF Good
<1>2. SUBSET S \subseteq Good
  BY <1>1, SubsetInduction
<1>3. \E x \in S : \A y \in S : x >= y
  BY <1>2 DEF Good
<1> QED
  BY <1>3 DEF Max

\* The values a function has on a finite set.
LEMMA FiniteImage ==
    ASSUME NEW S, IsFiniteSet(S), NEW f
    PROVE  IsFiniteSet({f[x] : x \in S})
<1> DEFINE T == {f[x] : x \in S}
           g == [x \in S |-> f[x]]
<1>1. g \in [S -> T] /\ \A t \in T : \E x \in S : g[x] = t
  OBVIOUS
<1> HIDE DEF T, g
<1>2. g \in Surjection(S, T)
  BY <1>1 DEF Surjection
<1>3. IsFiniteSet(T)
  BY <1>2, FS_Surjection
<1> QED
  BY <1>3 DEF T

\* The larger one of a number and zero.
LEMMA MaxOfTwo ==
    ASSUME NEW a \in Int
    PROVE  Max({a, 0}) \in Nat /\ Max({a, 0}) = IF a >= 0 THEN a ELSE 0
<1>1. IsFiniteSet({a, 0}) /\ {a, 0} \in SUBSET Int /\ {a, 0} # {}
  <2>1. IsFiniteSet({a}) /\ {a, 0} = {a} \cup {0}
    BY FS_Singleton
  <2>2. IsFiniteSet({a} \cup {0})
    BY <2>1, FS_AddElement
  <2> QED
    BY <2>1, <2>2
<1>2. Max({a, 0}) \in {a, 0} /\ \A y \in {a, 0} : Max({a, 0}) >= y
  BY <1>1, MaxOf
<1> QED
  BY <1>2

-----------------------------------------------------------------------------
(* The invariant.                                                          *)

InCycle(c) == {k \in Succeeded : purchases[k].cycle = c}
Cost(c) == SumFunctionOnSet([k \in InCycle(c) |-> purchases[k].amount], InCycle(c))

BookInv ==
    /\ IsFiniteSet(Succeeded)
    /\ kept \subseteq Succeeded
    /\ \A k \in Keys : pending[k] # None => pending[k] <= now
    /\ \A k \in Succeeded : purchases[k].end > purchases[k].start
    /\ \A k \in Succeeded : purchases[k].cycle \in Succeeded \cup {Gift}
    /\ sub.cycle \in Succeeded \cup {Gift}
    /\ sub.ends # Forever /\ sub.cycle # Gift =>
         \A k \in InCycle(sub.cycle) : purchases[k].end = sub.ends

\* What a cycle costs is covered by one of the plans bought in it.
CostInv ==
    \A c \in Succeeded :
        InCycle(c) # {} => \E k \in InCycle(c) : Cost(c) <= Price[purchases[k].version]

\* A month was topped up to the sum of what was granted for it.
CreditInv ==
    /\ IsFiniteSet(grants)
    /\ \A g \in grants :
         /\ \E h \in GrantedIn(g.month) : h.to = SumOf(g.month)
         /\ \A h \in GrantedIn(g.month) : h.to <= SumOf(g.month)

IInv == TypeOK /\ BookInv /\ PrepaidKept /\ CostInv /\ CreditInv

LEMMA InitIInv == Init => IInv
<1> SUFFICES ASSUME Init PROVE IInv
  OBVIOUS
<1>1. Succeeded = {}
  BY DEF Init, Succeeded
<1>2. TypeOK
  <2>1. enabled \subseteq Plans
    BY DEF Init, Plans, Range
  <2>2. effective \in [Versions -> Time \cup {Never}]
    BY DEF Init, Time, Never
  <2> QED
    BY <2>1, <2>2 DEF Init, TypeOK, Time, Forever
<1>3. BookInv
  BY <1>1, FS_EmptySet DEF Init, BookInv, InCycle
<1>4. PrepaidKept
  BY DEF Init, PrepaidKept
<1>5. CostInv /\ CreditInv
  BY <1>1, FS_EmptySet DEF Init, CostInv, CreditInv
<1> QED
  BY <1>2, <1>3, <1>4, <1>5 DEF IInv
-----------------------------------------------------------------------------
(* Steps that leave the subscription and what was bought as they are.      *)

SameBook ==
    /\ Succeeded' = Succeeded
    /\ \A k \in Succeeded : purchases'[k] = purchases[k]

LEMMA SameCycles ==
    ASSUME SameBook
    PROVE  \A c : InCycle(c)' = InCycle(c) /\ Cost(c)' = Cost(c)
<1> SUFFICES ASSUME NEW c PROVE InCycle(c)' = InCycle(c) /\ Cost(c)' = Cost(c)
  OBVIOUS
<1>1. InCycle(c)' = InCycle(c)
  BY DEF SameBook, InCycle
<1>2. [k \in InCycle(c) |-> purchases'[k].amount] = [k \in InCycle(c) |-> purchases[k].amount]
  BY DEF SameBook, InCycle
<1> QED
  BY <1>1, <1>2 DEF Cost

LEMMA SameGrants ==
    ASSUME CreditInv, grants' = grants
    PROVE  CreditInv'
  BY DEF CreditInv, GrantedIn, SumOf

LEMMA PlainStep ==
    ASSUME IInv, TypeOK', SameBook, UNCHANGED <<sub, grants, kept>>, now' >= now,
           \A k \in Keys : pending'[k] # None => pending'[k] <= now'
    PROVE  IInv'
<1>0. now \in Int /\ now' \in Int
  BY DEF IInv, TypeOK, Time
<1>1. BookInv'
  <2>1. Succeeded' = Succeeded /\ \A c : InCycle(c)' = InCycle(c)
    BY SameCycles DEF SameBook
  <2>2. \A c : InCycle(c) \subseteq Succeeded
    BY DEF InCycle
  <2> QED
    BY <2>1, <2>2 DEF IInv, BookInv, SameBook
<1>2. PrepaidKept'
  <2>1. SUFFICES ASSUME NEW k \in kept, purchases'[k].start > now'
                 PROVE  sub.version = purchases[k].version /\ sub.ends >= purchases[k].end
                        /\ purchases'[k] = purchases[k]
    BY DEF PrepaidKept
  <2>2. k \in Succeeded /\ purchases'[k] = purchases[k]
    BY DEF IInv, BookInv, SameBook
  <2>3. purchases[k].start \in Int
    BY <2>2 DEF IInv, TypeOK, Succeeded, Rows
  <2>4. purchases[k].start > now
    BY <1>0, <2>1, <2>2, <2>3
  <2> QED
    BY <2>2, <2>4 DEF IInv, PrepaidKept
<1>3. CostInv'
  <2>1. \A c : InCycle(c) \subseteq Succeeded
    BY DEF InCycle
  <2> QED
    BY <2>1, SameCycles DEF IInv, CostInv, SameBook
<1>4. CreditInv'
  BY SameGrants DEF IInv
<1> QED
  BY <1>1, <1>2, <1>3, <1>4 DEF IInv

LEMMA SamePurchases ==
    ASSUME purchases' = purchases
    PROVE  SameBook
  BY DEF SameBook, Succeeded

LEMMA TickStep ==
    ASSUME IInv, Tick
    PROVE  IInv'
<1>1. TypeOK'
  BY DEF IInv, TypeOK, Tick, Time, catalogue, Rows, Forever, Plans
<1>2. \A k \in Keys : pending'[k] # None => pending'[k] <= now'
  BY DEF IInv, TypeOK, BookInv, Tick, Time
<1>3. now' >= now
  BY DEF IInv, TypeOK, Tick, Time
<1> QED
  BY <1>1, <1>2, <1>3, SamePurchases, PlainStep DEF Tick

LEMMA CatalogueStep ==
    ASSUME IInv,
           \/ \E v \in Versions, at \in Time : createPlanVersion(v, at)
           \/ \E p \in Plans : updatePlanAvailability(p)
    PROVE  IInv'
<1>1. UNCHANGED <<now, balance, sub, pending, purchases, grants, kept>>
  BY DEF createPlanVersion, updatePlanAvailability
<1>2. changes' \in 0 .. MaxChanges
  BY DEF IInv, TypeOK, createPlanVersion, updatePlanAvailability, Counted
<1>3. effective' \in [Versions -> Time \cup {Never}]
  BY DEF IInv, TypeOK, createPlanVersion, updatePlanAvailability
<1>4. enabled' \subseteq Plans
  BY DEF IInv, TypeOK, createPlanVersion, updatePlanAvailability
<1>5. TypeOK'
  BY <1>1, <1>2, <1>3, <1>4 DEF IInv, TypeOK
<1>6. now' >= now
  BY <1>1 DEF IInv, TypeOK, Time
<1> QED
  BY <1>1, <1>5, <1>6, SamePurchases, PlainStep DEF IInv, BookInv

LEMMA WalletStep ==
    ASSUME IInv, NEW b \in 0 .. MaxBalance, WalletMoves(b)
    PROVE  IInv'
<1>1. TypeOK'
  BY DEF IInv, TypeOK, WalletMoves, catalogue
<1>2. now' >= now
  BY DEF IInv, TypeOK, Time, WalletMoves
<1> QED
  BY <1>1, <1>2, SamePurchases, PlainStep DEF IInv, BookInv, WalletMoves

LEMMA BeginStep ==
    ASSUME IInv, NEW k \in Keys, BeginPurchase(k) \/ \E v \in Versions : RefusePurchase(k, v)
    PROVE  IInv'
<1>1. UNCHANGED <<now, catalogue, balance, sub, purchases, grants, kept>>
  BY DEF BeginPurchase, RefusePurchase
<1>2. \/ pending' = [pending EXCEPT ![k] = now] /\ purchases[k] = None
      \/ pending' = [pending EXCEPT ![k] = None]
  BY DEF BeginPurchase, RefusePurchase
<1>3. TypeOK'
  BY <1>1, <1>2 DEF IInv, TypeOK, catalogue
<1>4. \A j \in Keys : pending'[j] # None => pending'[j] <= now'
  BY <1>1, <1>2 DEF IInv, TypeOK, BookInv, Time
<1>5. now' >= now
  BY <1>1 DEF IInv, TypeOK, Time
<1> QED
  BY <1>1, <1>3, <1>4, <1>5, SamePurchases, PlainStep
-----------------------------------------------------------------------------
(* What a purchase costs and what it changes.                              *)

LEMMA SucceededRows ==
    ASSUME IInv, NEW k \in Succeeded
    PROVE  /\ k \in Keys /\ purchases[k] \in Rows /\ purchases[k].version \in Versions
           /\ purchases[k].start \in Nat /\ purchases[k].end \in Nat /\ purchases[k].amount \in Nat
           /\ Price[purchases[k].version] \in Nat
  BY DEF IInv, TypeOK, Succeeded, Rows

\* The baseline covers every purchase in effect at t.
LEMMA Baseline ==
    ASSUME IInv, NEW t \in Time
    PROVE  /\ paidBaseline(t) \in Nat
           /\ \A j \in Succeeded : purchases[j].start <= t /\ purchases[j].end > t
                => Price[purchases[j].version] <= paidBaseline(t)
<1> DEFINE Running == {j \in Succeeded : purchases[j].start <= t /\ purchases[j].end > t}
           paid == {Price[purchases[k].version] : k \in Running}
           own == IF Finite THEN {Price[sub.version]} ELSE {}
           all == paid \cup own \cup {0}
<1>1. paidBaseline(t) = Max(all)
  BY DEF paidBaseline
<1>2. all \in SUBSET Nat
  <2>1. paid \in SUBSET Nat
    BY SucceededRows
  <2>2. own \in SUBSET Nat
    <3>1. Price[sub.version] \in Nat
      BY DEF IInv, TypeOK
    <3> QED
      BY <3>1
  <2> QED
    BY <2>1, <2>2
<1>3. IsFiniteSet(all)
  <2>1. IsFiniteSet(Running)
    BY FS_Subset DEF IInv, BookInv
  <2> DEFINE f == [k \in Running |-> Price[purchases[k].version]]
  <2> HIDE DEF Running
  <2>2. IsFiniteSet(paid)
    <3>1. paid = {f[k] : k \in Running}
      OBVIOUS
    <3> HIDE DEF f, paid
    <3> QED
      BY <2>1, <3>1, FiniteImage
  <2>3. IsFiniteSet(own)
    BY FS_Singleton, FS_EmptySet
  <2> HIDE DEF paid, own
  <2>4. IsFiniteSet(paid \cup own)
    BY <2>2, <2>3, FS_Union
  <2> QED
    BY <2>4, FS_AddElement
<1> HIDE DEF all
<1>4. all # {} /\ all \in SUBSET Int
  BY <1>2 DEF all
<1>5. Max(all) \in all /\ \A y \in all : Max(all) >= y
  BY <1>3, <1>4, MaxOf
<1>6. ASSUME NEW j \in Running PROVE Price[purchases[j].version] \in all /\ Price[purchases[j].version] \in Int
  BY <1>4 DEF all
<1> QED
  BY <1>1, <1>2, <1>5, <1>6

\* What a quote promises: a renewal costs the full price, a change of plan what the
\* baseline leaves of it.
Quoted(v, t, q) ==
    /\ q.amount \in Nat /\ q.start \in Nat /\ q.end \in Nat
    /\ q.ends \in Nat \cup {Forever} /\ q.renews \in BOOLEAN
    /\ q.end > q.start
    /\ q.ends # Forever => q.end = q.ends
    /\ q.renews => q.amount = Price[v]
    /\ q.start > now => Finite /\ sub.version = v
    /\ Finite /\ sub.version = v => q.ends = sub.ends + Cycle
    /\ ~q.renews => /\ Finite /\ sub.version # v /\ q.end = sub.ends
                    /\ q.amount = Max({Price[v] - paidBaseline(t), 0})

LEMMA Quote ==
    ASSUME IInv, NEW v \in Versions, NEW t \in Time, NEW q, q = quoteSubscription(v, t)
    PROVE  Quoted(v, t, q)
<1>0. /\ now \in Nat /\ Price[v] \in Nat /\ Cycle \in Nat /\ Cycle > 0
      /\ sub.ends \in Nat \cup {Forever} /\ Forever \in Int /\ Forever < 0
  BY DEF IInv, TypeOK, Time, Forever
<1>1. Finite => sub.ends \in Nat /\ sub.ends > now
  BY <1>0 DEF Finite
<1>2. CASE Finite /\ sub.version = v
  <2>1. q = [amount |-> Price[v], start |-> sub.ends, end |-> sub.ends + Cycle,
             ends |-> sub.ends + Cycle, renews |-> TRUE]
    BY <1>2 DEF quoteSubscription, addCalendarMonth
  <2> QED
    BY <1>0, <1>1, <1>2, <2>1 DEF Quoted
<1>3. CASE Finite /\ sub.version # v
  <2>0. paidBaseline(t) \in Nat
    BY Baseline
  <2> DEFINE due == Max({Price[v] - paidBaseline(t), 0})
  <2>1. due \in Nat
    BY <1>0, <2>0, MaxOfTwo
  <2>2. q = [amount |-> due, start |-> now, end |-> sub.ends,
             ends |-> IF Price[v] > 0 THEN sub.ends ELSE Forever, renews |-> FALSE]
    BY <1>3 DEF quoteSubscription
  <2> HIDE DEF due
  <2>3. /\ q.amount \in Nat /\ q.start \in Nat /\ q.end \in Nat
        /\ q.ends \in Nat \cup {Forever} /\ q.renews \in BOOLEAN
        /\ q.end > q.start
        /\ q.ends # Forever => q.end = q.ends
        /\ ~(q.start > now) /\ ~q.renews /\ q.end = sub.ends /\ q.amount = due
    BY <1>0, <1>1, <1>3, <2>1, <2>2
  <2> QED
    BY <1>3, <2>3 DEF due, Quoted
<1>4. CASE ~Finite
  <2>1. q = [amount |-> Price[v], start |-> now, end |-> now + Cycle,
             ends |-> IF Price[v] > 0 THEN now + Cycle ELSE Forever, renews |-> TRUE]
    BY <1>4 DEF quoteSubscription, addCalendarMonth
  <2> QED
    BY <1>0, <1>4, <2>1 DEF Quoted
<1> QED
  BY <1>2, <1>3, <1>4

LEMMA RowType ==
    ASSUME IInv, NEW k \in Keys, NEW v \in Versions, NEW t \in Time, NEW q,
           q = quoteSubscription(v, t), NEW o \in {"succeeded", "insufficient_funds"}
    PROVE  Row(k, v, q, o) \in Rows /\ Row(k, v, q, o) # None
<1>1. Row(k, v, q, o) \in Rows
  BY Quote DEF Quoted, Row, Rows, IInv, TypeOK
<1> QED
  BY <1>1

LEMMA InsufficientStep ==
    ASSUME IInv, NEW k \in Keys, NEW v \in Versions, InsufficientFunds(k, v)
    PROVE  IInv'
<1> DEFINE q == quoteSubscription(v, pending[k])
<1>1. /\ UNCHANGED <<now, catalogue, balance, sub, grants, kept>>
      /\ purchases' = [purchases EXCEPT ![k] = Row(k, v, q, "insufficient_funds")]
      /\ pending' = [pending EXCEPT ![k] = None] /\ pending[k] # None
  BY DEF InsufficientFunds
<1>2. pending[k] \in Time /\ purchases[k] = None
  BY <1>1 DEF IInv, TypeOK
<1>3. Row(k, v, q, "insufficient_funds") \in Rows
  BY <1>2, RowType
<1>4. Row(k, v, q, "insufficient_funds").status = "insufficient_funds"
  BY DEF Row
<1> HIDE DEF q
<1>5. TypeOK'
  BY <1>1, <1>2, <1>3 DEF IInv, TypeOK, catalogue
<1>6. SameBook
  BY <1>1, <1>2, <1>4 DEF SameBook, Succeeded, IInv, TypeOK
<1>7. \A j \in Keys : pending'[j] # None => pending'[j] <= now'
  BY <1>1 DEF IInv, TypeOK, BookInv
<1>8. now' >= now
  BY <1>1 DEF IInv, TypeOK, Time
<1> QED
  BY <1>1, <1>5, <1>6, <1>7, <1>8, PlainStep
-----------------------------------------------------------------------------
(* The monthly credit.                                                     *)

\* A month is topped up to the credit of the plan, or not at all.
LEMMA GrantStep ==
    ASSUME IInv, NEW v \in Versions, NEW t, grants' = grant_subscription_credit(v, t)
    PROVE  CreditInv' /\ \A g \in grants' : g.to \in Nat /\ g.amount \in Nat
<1> DEFINE m == Month(t)
           delta == Credit[v] - SumOf(m)
           new == [month |-> m, to |-> Credit[v], amount |-> delta]
           f == [g \in grants |-> g.amount]
           h == [g \in grants' |-> g.amount]
<1>0. Credit[v] \in Nat /\ IsFiniteSet(grants) /\ \A g \in grants : g.to \in Nat /\ g.amount \in Nat
  BY DEF IInv, TypeOK, CreditInv
<1>1. CASE grants' = grants
  BY <1>0, <1>1, SameGrants DEF IInv
<1>2. CASE /\ grants' = grants \cup {new}
           /\ delta > 0 /\ ~\E g \in GrantedIn(m) : g.to = Credit[v]
  <2>1. \A n : IsFiniteSet(GrantedIn(n)) /\ GrantedIn(n) \subseteq grants
    <3>1. \A n : GrantedIn(n) \subseteq grants
      BY DEF GrantedIn
    <3> QED
      BY <1>0, <3>1, FS_Subset
  <2>2. \A n : SumOf(n) \in Nat
    BY <1>0, <2>1, SumNat DEF SumOf
  <2>3. delta \in Nat
    BY <1>0, <1>2, <2>2
  <2>4. new \notin grants /\ new.month = m /\ new.to = Credit[v] /\ new.amount = delta
    BY <1>2 DEF GrantedIn
  <2> HIDE DEF delta, new, m
  <2>5. \A g \in grants' : g.to \in Nat /\ g.amount \in Nat
    BY <1>0, <1>2, <2>3, <2>4
  <2>6. IsFiniteSet(grants')
    BY <1>0, <1>2, FS_AddElement
  <2>7. GrantedIn(m)' = GrantedIn(m) \cup {new}
    BY <1>2, <2>4 DEF GrantedIn, m, Month
  <2>8. \A n : n # m => GrantedIn(n)' = GrantedIn(n)
    BY <1>2, <2>4 DEF GrantedIn
  <2>9. \A n : SumFunctionOnSet(h, GrantedIn(n)) = SumOf(n)
    <3> TAKE n
    <3>1. \A g \in GrantedIn(n) : h[g] = f[g]
      BY <1>2, <2>1
    <3> HIDE DEF h, f
    <3>2. SumFunctionOnSet(h, GrantedIn(n)) = SumFunctionOnSet(f, GrantedIn(n))
      BY <2>1, <3>1, SumSame
    <3> QED
      BY <3>2 DEF SumOf, f
  <2>10. SumOf(m)' = Credit[v]
    <3>1. \A g \in GrantedIn(m) \cup {new} : h[g] \in Int
      BY <1>2, <2>1, <2>5
    <3>2. h[new] = delta
      BY <1>2, <2>4
    <3>3. SumOf(m)' = SumFunctionOnSet(h, GrantedIn(m) \cup {new})
      BY <2>7 DEF SumOf, m, Month
    <3>4. new \notin GrantedIn(m) /\ IsFiniteSet(GrantedIn(m))
      BY <2>1, <2>4
    <3> HIDE DEF h
    <3>5. SumFunctionOnSet(h, GrantedIn(m) \cup {new}) = SumFunctionOnSet(h, GrantedIn(m)) + h[new]
      BY <3>1, <3>4, SumAdd
    <3>6. SumOf(m)' = SumOf(m) + delta
      BY <2>9, <3>2, <3>3, <3>5
    <3> QED
      BY <1>0, <2>2, <3>6 DEF delta
  <2>11. \A n : n # m => SumOf(n)' = SumOf(n)
    BY <2>8, <2>9 DEF SumOf
  <2>12. \A g \in GrantedIn(m) : g.to <= Credit[v]
    <3> TAKE g \in GrantedIn(m)
    <3>1. g \in grants /\ g.month = m
      BY DEF GrantedIn
    <3>2. g.to <= SumOf(m)
      BY <3>1 DEF IInv, CreditInv
    <3> QED
      BY <1>0, <1>2, <2>2, <3>1, <3>2 DEF delta
  <2>13. ASSUME NEW g \in grants'
         PROVE  /\ \E x \in GrantedIn(g.month)' : x.to = SumOf(g.month)'
                /\ \A x \in GrantedIn(g.month)' : x.to <= SumOf(g.month)'
    <3>1. CASE g.month = m
      <4>1. \A x \in GrantedIn(m) \cup {new} : x.to <= Credit[v]
        BY <1>0, <2>4, <2>12
      <4>2. GrantedIn(g.month)' = GrantedIn(m) \cup {new} /\ SumOf(g.month)' = Credit[v]
        BY <2>7, <2>10, <3>1 DEF m, Month
      <4> QED
        BY <2>4, <4>1, <4>2
    <3>2. CASE g.month # m
      <4>1. g \in grants
        BY <1>2, <2>4, <3>2
      <4>2. GrantedIn(g.month)' = GrantedIn(g.month) /\ SumOf(g.month)' = SumOf(g.month)
        BY <2>8, <2>11, <3>2
      <4> QED
        BY <4>1, <4>2 DEF IInv, CreditInv
    <3> QED
      BY <3>1, <3>2
  <2> QED
    BY <2>5, <2>6, <2>13 DEF CreditInv
<1> QED
  BY <1>1, <1>2 DEF grant_subscription_credit

LEMMA AssignStep ==
    ASSUME IInv, NEW v \in Versions, NEW ends \in {Forever} \cup 1 .. MaxTime + 1,
           NEW t \in 0 .. now, assignSubscription(v, ends, t)
    PROVE  IInv'
<1>1. /\ sub' = [version |-> v, ends |-> ends, cycle |-> Gift] /\ kept' = {}
      /\ UNCHANGED <<now, effective, enabled, balance, pending, purchases>>
  BY DEF assignSubscription
<1>2. CreditInv' /\ \A g \in grants' : g.to \in Nat /\ g.amount \in Nat
  <2>1. grants' = grant_subscription_credit(v, t)
    BY DEF assignSubscription
  <2> QED
    BY <2>1, GrantStep
<1>3. TypeOK'
  <2>1. changes' \in 0 .. MaxChanges
    BY DEF IInv, TypeOK, assignSubscription, Counted
  <2>2. ends \in Nat \cup {Forever}
    BY DEF IInv, TypeOK, Time
  <2> QED
    BY <1>1, <1>2, <2>1, <2>2 DEF IInv, TypeOK
<1>4. SameBook
  BY <1>1, SamePurchases
<1>5. BookInv'
  BY <1>1, <1>4, SameCycles DEF IInv, BookInv, SameBook
<1>6. PrepaidKept'
  BY <1>1 DEF PrepaidKept
<1>7. CostInv'
  <2>1. \A c : InCycle(c) \subseteq Succeeded
    BY DEF InCycle
  <2> QED
    BY <1>4, <2>1, SameCycles DEF IInv, CostInv, SameBook
<1> QED
  BY <1>2, <1>3, <1>5, <1>6, <1>7 DEF IInv
-----------------------------------------------------------------------------
(* A purchase that succeeds: quote q of version v, requested at t.         *)

Bought(k, v, t, q) ==
    /\ q = quoteSubscription(v, t)
    /\ ~Refused(v, t)
    /\ k \in Keys /\ v \in Versions /\ t \in Time /\ t <= now
    /\ purchases[k] = None
    /\ now' = now
    /\ sub' = [version |-> v, ends |-> q.ends, cycle |-> IF q.renews THEN k ELSE sub.cycle]
    /\ purchases' = [purchases EXCEPT ![k] = Row(k, v, q, "succeeded")]
    /\ kept' = kept \cup {k}

LEMMA BoughtBook ==
    ASSUME IInv, NEW k, NEW v, NEW t, NEW q, Bought(k, v, t, q)
    PROVE  /\ k \notin Succeeded /\ Succeeded' = Succeeded \cup {k}
           /\ \A j \in Succeeded : purchases'[j] = purchases[j] /\ j # k
           /\ purchases'[k].version = v /\ purchases'[k].amount = q.amount
           /\ purchases'[k].start = q.start /\ purchases'[k].end = q.end
           /\ purchases'[k].cycle = sub'.cycle
           /\ k # Gift
<1>1. purchases[k] = None /\ k \in Keys
  BY DEF Bought
<1>2. Row(k, v, q, "succeeded") # None
  BY RowType DEF Bought
<1>3. purchases' = [purchases EXCEPT ![k] = Row(k, v, q, "succeeded")] /\ DOMAIN purchases = Keys
  BY DEF Bought, IInv, TypeOK
<1>4. k \notin Succeeded /\ \A j \in Succeeded : purchases'[j] = purchases[j] /\ j # k
  BY <1>1, <1>3 DEF Succeeded
<1>5. purchases'[k] = Row(k, v, q, "succeeded")
  BY <1>1, <1>3
<1>6. Row(k, v, q, "succeeded").status = "succeeded"
  BY DEF Row
<1>7. Succeeded' = Succeeded \cup {k}
  BY <1>1, <1>2, <1>3, <1>5, <1>6 DEF Succeeded
<1>8. purchases'[k].cycle = sub'.cycle
  BY <1>5 DEF Row, Bought
<1> QED
  BY <1>1, <1>4, <1>5, <1>7, <1>8 DEF Row

\* The purchases of every cycle, after another one in the cycle of the subscription.
LEMMA BoughtCycles ==
    ASSUME IInv, NEW k, NEW v, NEW t, NEW q, Bought(k, v, t, q), NEW d, d = sub'.cycle
    PROVE  /\ InCycle(d)' = InCycle(d) \cup {k}
           /\ \A c : c # d => InCycle(c)' = InCycle(c) /\ Cost(c)' = Cost(c)
           /\ Cost(d)' = Cost(d) + q.amount
           /\ q.renews => d = k /\ InCycle(d) = {}
           /\ ~q.renews => d = sub.cycle
<1>1. /\ k \notin Succeeded /\ Succeeded' = Succeeded \cup {k}
      /\ \A j \in Succeeded : purchases'[j] = purchases[j] /\ j # k
      /\ purchases'[k].cycle = d /\ purchases'[k].amount = q.amount /\ k # Gift
  BY BoughtBook
<1>2. InCycle(d)' = InCycle(d) \cup {k}
  BY <1>1 DEF InCycle
<1>3. \A c : c # d => InCycle(c)' = InCycle(c)
  BY <1>1 DEF InCycle
<1>4. ASSUME NEW c, c # d PROVE Cost(c)' = Cost(c)
  <2>1. [j \in InCycle(c) |-> purchases'[j].amount] = [j \in InCycle(c) |-> purchases[j].amount]
    BY <1>1 DEF InCycle
  <2>2. InCycle(c)' = InCycle(c)
    BY <1>3, <1>4
  <2> QED
    BY <2>1, <2>2 DEF Cost
<1>5. Cost(d)' = Cost(d) + q.amount
  <2> DEFINE S == InCycle(d)
             f == [j \in S |-> purchases[j].amount]
             g == [j \in S \cup {k} |-> purchases'[j].amount]
  <2>1. IsFiniteSet(S)
    BY FS_Subset DEF InCycle, IInv, BookInv
  <2>2. S \subseteq Succeeded
    BY DEF InCycle
  <2>3. k \notin S
    BY <1>1, <2>2
  <2>4. \A j \in S : f[j] \in Int /\ g[j] = f[j]
    BY <1>1, <2>2, SucceededRows
  <2>5. g[k] = q.amount /\ q.amount \in Int
    <3>1. v \in Versions /\ t \in Time /\ q = quoteSubscription(v, t)
      BY DEF Bought
    <3>2. q.amount \in Nat
      BY <3>1, Quote DEF Quoted
    <3> QED
      BY <1>1, <3>2
  <2>6. Cost(d)' = SumFunctionOnSet(g, S \cup {k})
    BY <1>2 DEF Cost
  <2>7. Cost(d) = SumFunctionOnSet(f, S)
    BY DEF Cost
  <2> HIDE DEF f, g, S
  <2>8. \A j \in S \cup {k} : g[j] \in Int
    BY <2>4, <2>5
  <2>9. SumFunctionOnSet(g, S \cup {k}) = SumFunctionOnSet(g, S) + g[k]
    BY <2>1, <2>3, <2>8, SumAdd
  <2>10. SumFunctionOnSet(g, S) = SumFunctionOnSet(f, S)
    BY <2>1, <2>4, SumSame
  <2> QED
    BY <2>5, <2>6, <2>7, <2>9, <2>10
<1>6. q.renews => d = k /\ InCycle(d) = {}
  <2>1. q.renews => d = k
    BY DEF Bought
  <2> QED
    BY <1>1, <2>1 DEF InCycle, IInv, BookInv
<1>7. ~q.renews => d = sub.cycle
  BY DEF Bought
<1> QED
  BY <1>2, <1>3, <1>4, <1>5, <1>6, <1>7

\* A change of plan within a cycle finds every purchase of the cycle in effect.
LEMMA ChangeIsCovered ==
    ASSUME IInv, NEW k, NEW v, NEW t, NEW q, Bought(k, v, t, q), ~q.renews, sub.cycle # Gift,
           NEW j \in InCycle(sub.cycle)
    PROVE  /\ Price[purchases[j].version] <= paidBaseline(t)
           /\ purchases[j].end = q.end
<1>1. v \in Versions /\ t \in Time /\ q = quoteSubscription(v, t)
  BY DEF Bought
<1>2. Finite /\ sub.version # v /\ q.end = sub.ends
  <2>1. Quoted(v, t, q)
    BY <1>1, Quote
  <2> QED
    BY <2>1 DEF Quoted
<1>3. j \in Succeeded /\ purchases[j].start \in Nat /\ purchases[j].end \in Nat
  BY SucceededRows DEF InCycle
<1>4. purchases[j].end = sub.ends /\ purchases[j].end > now
  BY <1>2 DEF IInv, BookInv, Finite
<1>5. t \in Int /\ now \in Int /\ t <= now
  BY DEF Bought, IInv, TypeOK, Time
<1>6. purchases[j].end > t
  BY <1>3, <1>4, <1>5
<1>7. ~(purchases[j].start > t)
  BY <1>2, <1>3, <1>6 DEF Bought, Refused, futureCycles
<1>8. purchases[j].start <= t
  BY <1>3, <1>5, <1>7
<1> QED
  BY <1>1, <1>2, <1>3, <1>4, <1>6, <1>8, Baseline

LEMMA BoughtCost ==
    ASSUME IInv, NEW k, NEW v, NEW t, NEW q, Bought(k, v, t, q)
    PROVE  CostInv'
<1>0. PICK d : d = sub'.cycle
  OBVIOUS
<1>1. /\ v \in Versions /\ t \in Time /\ q = quoteSubscription(v, t) /\ Price[v] \in Nat
      /\ paidBaseline(t) \in Nat
  BY Baseline DEF Bought
<1>2. /\ InCycle(d)' = InCycle(d) \cup {k}
      /\ \A c : c # d => InCycle(c)' = InCycle(c) /\ Cost(c)' = Cost(c)
      /\ Cost(d)' = Cost(d) + q.amount
      /\ q.renews => d = k /\ InCycle(d) = {}
      /\ ~q.renews => d = sub.cycle
  BY <1>0, BoughtCycles
<1>3. /\ \A j \in Succeeded : purchases'[j] = purchases[j]
      /\ purchases'[k].version = v /\ Succeeded' = Succeeded \cup {k} /\ k \notin Succeeded
  BY BoughtBook
<1> SUFFICES ASSUME NEW c \in Succeeded', InCycle(c)' # {}
             PROVE  \E j \in InCycle(c)' : Cost(c)' <= Price[purchases'[j].version]
  BY DEF CostInv
<1>4. \A e : InCycle(e) \subseteq Succeeded
  BY DEF InCycle
<1>5. CASE c # d
  <2>1. c \in Succeeded
    <3>1. PICK j : j \in InCycle(c)
      BY <1>2, <1>5
    <3>2. j \in Succeeded /\ purchases[j].cycle = c
      BY <3>1 DEF InCycle
    <3>3. c # Gift
      BY <1>3, NoneAssumption DEF Bought, Succeeded
    <3> QED
      BY <3>2, <3>3 DEF IInv, BookInv
  <2>2. PICK j \in InCycle(c) : Cost(c) <= Price[purchases[j].version]
    BY <1>2, <1>5, <2>1 DEF IInv, CostInv
  <2> QED
    BY <1>2, <1>3, <1>4, <1>5, <2>2
<1>6. CASE c = d /\ q.renews
  <2>1. Cost(d) = 0
    <3>1. InCycle(d) = {}
      BY <1>2, <1>6
    <3> QED
      BY <3>1, SumEmpty DEF Cost
  <2>2. q.amount = Price[v]
    BY <1>1, <1>6, Quote DEF Quoted
  <2> QED
    BY <1>1, <1>2, <1>3, <1>6, <2>1, <2>2
<1>7. CASE c = d /\ ~q.renews
  <2>1. d = sub.cycle /\ d # Gift
    <3>1. k # Gift /\ c \in Keys
      BY <1>3, BoughtBook DEF Bought, Succeeded
    <3> QED
      BY <1>2, <1>7, <3>1
  <2>2. d \in Succeeded
    BY <2>1 DEF IInv, BookInv
  <2>3. q.amount = IF Price[v] - paidBaseline(t) >= 0 THEN Price[v] - paidBaseline(t) ELSE 0
    <3>1. q.amount = Max({Price[v] - paidBaseline(t), 0})
      BY <1>1, <1>7, Quote DEF Quoted
    <3>2. Price[v] - paidBaseline(t) \in Int
      BY <1>1
    <3> QED
      BY <3>1, <3>2, MaxOfTwo
  <2>4. CASE InCycle(d) = {}
    <3>1. Cost(d) = 0
      BY <2>4, SumEmpty DEF Cost
    <3> QED
      BY <1>1, <1>2, <1>3, <1>7, <2>3, <3>1
  <2>5. CASE InCycle(d) # {}
    <3>1. PICK j \in InCycle(d) : Cost(d) <= Price[purchases[j].version]
      BY <2>2, <2>5 DEF IInv, CostInv
    <3>2. Price[purchases[j].version] \in Nat /\ Price[purchases[j].version] <= paidBaseline(t)
      BY <1>4, <1>7, <2>1, <3>1, ChangeIsCovered, SucceededRows
    <3>3. Cost(d) \in Int
      <4>1. IsFiniteSet(InCycle(d))
        BY <1>4, FS_Subset DEF IInv, BookInv
      <4>2. \A i \in InCycle(d) : purchases[i].amount \in Int
        BY <1>4, SucceededRows
      <4> DEFINE f == [i \in InCycle(d) |-> purchases[i].amount]
      <4>3. \A i \in InCycle(d) : f[i] \in Int
        BY <4>2
      <4>4. Cost(d) = SumFunctionOnSet(f, InCycle(d))
        BY DEF Cost
      <4> HIDE DEF f
      <4> QED
        BY <4>1, <4>3, <4>4, SumInt
    <3>4. CASE Price[v] >= paidBaseline(t)
      <4>1. Cost(d)' <= Price[v]
        BY <1>1, <1>2, <2>3, <3>1, <3>2, <3>3, <3>4
      <4> QED
        BY <1>2, <1>3, <1>7, <4>1
    <3>5. CASE ~(Price[v] >= paidBaseline(t))
      <4>1. Cost(d)' = Cost(d)
        BY <1>1, <1>2, <2>3, <3>3, <3>5
      <4> QED
        BY <1>2, <1>3, <1>4, <1>7, <3>1, <4>1
    <3> QED
      BY <3>4, <3>5
  <2> QED
    BY <2>4, <2>5
<1> QED
  BY <1>5, <1>6, <1>7

LEMMA BoughtPrepaid ==
    ASSUME IInv, NEW k, NEW v, NEW t, NEW q, Bought(k, v, t, q)
    PROVE  PrepaidKept'
<1>1. v \in Versions /\ t \in Time /\ q = quoteSubscription(v, t) /\ now' = now /\ t <= now
      /\ kept' = kept \cup {k} /\ sub'.version = v /\ sub'.ends = q.ends
  BY DEF Bought
<1>2. /\ \A j \in Succeeded : purchases'[j] = purchases[j]
      /\ purchases'[k].version = v /\ purchases'[k].start = q.start /\ purchases'[k].end = q.end
  BY BoughtBook
<1>3. now \in Nat /\ t \in Nat /\ sub.ends \in Nat \cup {Forever} /\ Cycle \in Nat /\ Forever = -1
  BY <1>1 DEF IInv, TypeOK, Time, Forever
<1> SUFFICES ASSUME NEW j \in kept', purchases'[j].start > now
             PROVE  sub'.version = purchases'[j].version /\ sub'.ends >= purchases'[j].end
  BY <1>1 DEF PrepaidKept
<1>4. CASE j = k
  <2>1. q.start > now
    BY <1>2, <1>4
  <2>2. Finite /\ sub.version = v
    BY <1>1, <2>1, Quote DEF Quoted
  <2>3. q.ends = sub.ends + Cycle
    BY <1>1, <2>2, Quote DEF Quoted
  <2>4. sub.ends \in Nat
    BY <1>3, <2>2 DEF Finite
  <2>5. q.ends \in Nat /\ q.ends # Forever
    BY <1>3, <2>3, <2>4
  <2>6. q.end = q.ends
    <3>1. Quoted(v, t, q)
      BY <1>1, Quote
    <3> QED
      BY <2>5, <3>1 DEF Quoted
  <2> QED
    BY <1>1, <1>2, <1>4, <2>5, <2>6
<1>5. CASE j # k
  <2>1. j \in kept /\ j \in Succeeded /\ purchases'[j] = purchases[j]
    BY <1>1, <1>2, <1>5 DEF IInv, BookInv
  <2>2. purchases[j].start \in Nat /\ purchases[j].end \in Nat /\ purchases[j].end > purchases[j].start
    BY <2>1, SucceededRows DEF IInv, BookInv
  <2>3. sub.version = purchases[j].version /\ sub.ends >= purchases[j].end
    BY <2>1 DEF IInv, PrepaidKept
  <2>4. sub.ends \in Nat /\ sub.ends > now
    BY <1>3, <2>1, <2>2, <2>3
  <2>5. Finite
    BY <1>3, <2>4 DEF Finite
  <2>6. futureCycles(t)
    BY <1>1, <1>3, <2>1, <2>2 DEF futureCycles
  <2>7. sub.version = v
    BY <2>6 DEF Bought, Refused
  <2>8. q.ends = sub.ends + Cycle
    BY <1>1, <2>5, <2>7, Quote DEF Quoted
  <2> QED
    BY <1>1, <1>3, <2>1, <2>2, <2>3, <2>4, <2>7, <2>8
<1> QED
  BY <1>4, <1>5

LEMMA BoughtBookInv ==
    ASSUME IInv, NEW k, NEW v, NEW t, NEW q, Bought(k, v, t, q),
           \A j \in Keys : pending'[j] # None => pending'[j] <= now'
    PROVE  BookInv'
<1>0. PICK d : d = sub'.cycle
  OBVIOUS
<1>1. /\ v \in Versions /\ t \in Time /\ q = quoteSubscription(v, t)
      /\ kept' = kept \cup {k} /\ sub'.ends = q.ends
  BY DEF Bought
<1>2. /\ k \notin Succeeded /\ Succeeded' = Succeeded \cup {k}
      /\ \A j \in Succeeded : purchases'[j] = purchases[j]
      /\ purchases'[k].start = q.start /\ purchases'[k].end = q.end /\ purchases'[k].cycle = d
  BY <1>0, BoughtBook
<1>3. q.end > q.start /\ (q.ends # Forever => q.end = q.ends)
  <2>1. Quoted(v, t, q)
    BY <1>1, Quote
  <2> QED
    BY <2>1 DEF Quoted
<1>4. IsFiniteSet(Succeeded')
  BY <1>2, FS_AddElement DEF IInv, BookInv
<1>5. d \in Succeeded' \cup {Gift}
  BY <1>0, <1>2 DEF Bought, IInv, BookInv
<1>6. \A j \in Succeeded' : purchases'[j].end > purchases'[j].start
  BY <1>2, <1>3 DEF IInv, BookInv
<1>7. \A j \in Succeeded' : purchases'[j].cycle \in Succeeded' \cup {Gift}
  BY <1>2, <1>5 DEF IInv, BookInv
<1>8. kept' \subseteq Succeeded'
  BY <1>1, <1>2 DEF IInv, BookInv
<1>9. ASSUME sub'.ends # Forever, d # Gift, NEW j \in InCycle(d)'
      PROVE  purchases'[j].end = sub'.ends
  <2>1. InCycle(d)' = InCycle(d) \cup {k} /\ (q.renews => InCycle(d) = {}) /\ (~q.renews => d = sub.cycle)
    BY <1>0, BoughtCycles
  <2>2. CASE j = k
    BY <1>1, <1>2, <1>3, <1>9, <2>2
  <2>3. CASE j # k
    <3>1. ~q.renews /\ d = sub.cycle /\ j \in InCycle(d)
      BY <1>9, <2>1, <2>3
    <3>2. purchases[j].end = q.end
      BY <1>9, <3>1, ChangeIsCovered
    <3>3. j \in Succeeded
      BY <3>1 DEF InCycle
    <3> QED
      BY <1>1, <1>2, <1>3, <1>9, <3>2, <3>3
  <2> QED
    BY <2>2, <2>3
<1>10. sub'.ends # Forever /\ sub'.cycle # Gift =>
         \A j \in InCycle(sub.cycle)' : purchases'[j].end = sub'.ends
  BY <1>0, <1>9 DEF InCycle
<1> QED
  BY <1>0, <1>4, <1>5, <1>6, <1>7, <1>8, <1>10 DEF BookInv

LEMMA FinishStep ==
    ASSUME IInv, NEW k \in Keys, NEW v \in Versions, FinishPurchase(k, v)
    PROVE  IInv'
<1>1. PICK t : t = pending[k]
  OBVIOUS
<1>2. PICK q : q = quoteSubscription(v, t)
  OBVIOUS
<1>3. t \in Time /\ t <= now /\ purchases[k] = None
  BY <1>1 DEF FinishPurchase, IInv, TypeOK, BookInv
<1>4. Bought(k, v, t, q)
  BY <1>1, <1>2, <1>3 DEF Bought, FinishPurchase
<1>5. /\ balance >= q.amount /\ balance' = balance - q.amount
      /\ grants' = grant_subscription_credit(v, t)
      /\ pending' = [pending EXCEPT ![k] = None]
      /\ UNCHANGED <<now, catalogue>>
  BY <1>1, <1>2 DEF FinishPurchase
<1>6. CreditInv' /\ \A g \in grants' : g.to \in Nat /\ g.amount \in Nat
  BY <1>5, GrantStep
<1>7. \A j \in Keys : pending'[j] # None => pending'[j] <= now'
  BY <1>5 DEF IInv, TypeOK, BookInv
<1>8. BookInv' /\ PrepaidKept' /\ CostInv'
  BY <1>4, <1>7, BoughtBookInv, BoughtPrepaid, BoughtCost
<1>9. TypeOK'
  <2>1. q.amount \in Nat /\ q.ends \in Nat \cup {Forever}
    BY <1>2, <1>3, Quote DEF Quoted
  <2>2. balance' \in 0 .. MaxBalance
    BY <1>5, <2>1 DEF IInv, TypeOK
  <2>3. sub' \in [version : Versions, ends : Nat \cup {Forever}, cycle : Keys \cup {Gift}]
    BY <1>4, <2>1 DEF Bought, IInv, TypeOK
  <2>4. purchases' = [purchases EXCEPT ![k] = Row(k, v, q, "succeeded")]
        /\ Row(k, v, q, "succeeded") \in Rows
    BY <1>2, <1>3, <1>4, RowType DEF Bought
  <2>5. kept' = kept \cup {k}
    BY <1>4 DEF Bought
  <2> QED
    BY <1>5, <1>6, <2>2, <2>3, <2>4, <2>5 DEF IInv, TypeOK, catalogue
<1> QED
  BY <1>6, <1>8, <1>9 DEF IInv

-----------------------------------------------------------------------------
LEMMA NextIInv == IInv /\ [Next]_vars => IInv'
<1> SUFFICES ASSUME IInv, [Next]_vars PROVE IInv'
  OBVIOUS
<1>1. CASE UNCHANGED vars
  <2>1. TypeOK'
    BY <1>1 DEF vars, catalogue, IInv, TypeOK
  <2>2. now' >= now
    BY <1>1 DEF vars, IInv, TypeOK, Time
  <2> QED
    BY <1>1, <2>1, <2>2, SamePurchases, PlainStep DEF vars, IInv, BookInv
<1> QED
  BY <1>1, TickStep, CatalogueStep, WalletStep, BeginStep, InsufficientStep, FinishStep, AssignStep
  DEF Next

(* The inductive invariant holds in every reachable state.                 *)
THEOREM Invariance == Spec => []IInv
  BY InitIInv, NextIInv, PTL DEF Spec

(* The wallet stays within its bounds and never becomes negative, and the  *)
(* rows of subscriptions, purchases and grants keep their types.           *)
THEOREM TypeCorrect == Spec => []TypeOK
<1>1. IInv => TypeOK
  BY DEF IInv
<1> QED
  BY <1>1, Invariance, PTL

(* However a user changes plans within a cycle, however late the requests  *)
(* get the lock and however the price list moves, the cycle costs no more  *)
(* than the dearest plan bought in it.                                     *)
THEOREM CyclesAreNotOvercharged == Spec => []NotOvercharged
<1>1. ASSUME IInv PROVE NotOvercharged
  <2> SUFFICES ASSUME NEW c \in Succeeded, InCycle(c) # {}
               PROVE  Cost(c) <= Max({Price[purchases[k].version] : k \in InCycle(c)})
    BY DEF NotOvercharged, InCycle, Cost
  <2> DEFINE f == [k \in InCycle(c) |-> Price[purchases[k].version]]
             P == {f[k] : k \in InCycle(c)}
  <2>1. InCycle(c) \subseteq Succeeded
    BY DEF InCycle
  <2>2. P = {Price[purchases[k].version] : k \in InCycle(c)}
    OBVIOUS
  <2>3. P \in SUBSET Nat /\ P # {}
    BY <1>1, <2>1, SucceededRows
  <2>4. IsFiniteSet(P)
    <3>1. IsFiniteSet(InCycle(c))
      BY <1>1, <2>1, FS_Subset DEF IInv, BookInv
    <3> HIDE DEF f
    <3> QED
      BY <3>1, FiniteImage
  <2>5. PICK k \in InCycle(c) : Cost(c) <= Price[purchases[k].version]
    BY <1>1 DEF IInv, CostInv
  <2>6. Price[purchases[k].version] \in P
    BY <2>2
  <2> HIDE DEF P
  <2>7. P \in SUBSET Int
    BY <2>3
  <2>8. Max(P) \in Int /\ Max(P) >= Price[purchases[k].version]
    BY <2>3, <2>4, <2>6, <2>7, MaxOf
  <2>9. Cost(c) \in Int
    <3> DEFINE g == [i \in InCycle(c) |-> purchases[i].amount]
    <3>1. IsFiniteSet(InCycle(c))
      BY <1>1, <2>1, FS_Subset DEF IInv, BookInv
    <3>2. \A i \in InCycle(c) : g[i] \in Int
      BY <1>1, <2>1, SucceededRows
    <3>3. Cost(c) = SumFunctionOnSet(g, InCycle(c))
      BY DEF Cost
    <3> HIDE DEF g
    <3> QED
      BY <3>1, <3>2, <3>3, SumInt
  <2>10. Cost(c) <= Max(P)
    <3>1. Price[purchases[k].version] \in Int
      BY <2>6, <2>7
    <3> QED
      BY <2>5, <2>8, <2>9, <3>1
  <2> QED
    BY <2>2, <2>10
<1> QED
  BY <1>1, Invariance, PTL

(* A cycle the user paid for and that has not begun is never lost to a     *)
(* later purchase.                                                         *)
THEOREM PrepaidCyclesAreKept == Spec => []PrepaidKept
<1>1. IInv => PrepaidKept
  BY DEF IInv
<1> QED
  BY <1>1, Invariance, PTL

(* The credit granted for a month is the largest credit it was topped up   *)
(* to, whatever sequence of purchases and assignments led there.           *)
THEOREM CreditIsGrantedOnce == Spec => []MonthlyCredit
<1>1. ASSUME IInv PROVE MonthlyCredit
  <2> SUFFICES ASSUME NEW g \in grants
               PROVE  SumOf(g.month) = Max({h.to : h \in GrantedIn(g.month)})
    BY DEF MonthlyCredit
  <2> DEFINE T == {h.to : h \in GrantedIn(g.month)}
  <2>1. SumOf(g.month) \in T /\ \A y \in T : y <= SumOf(g.month)
    BY <1>1 DEF IInv, CreditInv
  <2>2. T \in SUBSET Nat
    BY <1>1 DEF IInv, TypeOK, GrantedIn
  <2> HIDE DEF T
  <2>3. Max(T) \in T /\ \A y \in T : Max(T) >= y
    BY <2>1, <2>2 DEF Max
  <2>4. SumOf(g.month) = Max(T)
    <3>0. T \subseteq Int
      BY <2>2
    <3>1. SumOf(g.month) \in Int /\ Max(T) \in Int
      BY <2>1, <2>3, <3>0, Zenon
    <3>2. Max(T) <= SumOf(g.month) /\ Max(T) >= SumOf(g.month)
      BY <2>1, <2>3
    <3> QED
      BY <3>1, <3>2
  <2> QED
    BY <2>4 DEF T
<1> QED
  BY <1>1, Invariance, PTL
=============================================================================
