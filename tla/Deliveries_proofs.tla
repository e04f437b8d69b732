-------------------------- MODULE Deliveries_proofs --------------------------
(***************************************************************************)
(* Proofs about the three components to which others deliver something     *)
(* again, late or not at all: Payments (callbacks of the provider),        *)
(* EgressMetering (samples of the proxy) and Accounts (mailed codes and    *)
(* OAuth callbacks).  They share no variable.                              *)
(*                                                                         *)
(* Payments, for every set of users, orders and trade numbers.             *)
(* StatusMatchesLedger, TradePaysOnce and AckedIsCredited are inductive    *)
(* together and with TypeOK: an answered callback is known to be credited  *)
(* through the status of its order, and the ledger never loses an entry.   *)
(***************************************************************************)
EXTENDS Payments, EgressMetering, Accounts, SumTheorems

IInv == TypeOK /\ StatusMatchesLedger /\ TradePaysOnce /\ AckedIsCredited

LEMMA InitIInv == Init => IInv
<1> SUFFICES ASSUME Init PROVE IInv
  OBVIOUS
<1>1. TypeOK
  BY DEF Init, TypeOK, Statuses
<1>2. StatusMatchesLedger
  BY DEF Init, StatusMatchesLedger, LedgerInv, EntriesOf
<1>3. TradePaysOnce /\ AckedIsCredited
  BY DEF Init, TradePaysOnce, AckedIsCredited
<1> QED
  BY <1>1, <1>2, <1>3 DEF IInv

\* Steps that leave orders, wallets and answered callbacks alone.
LEMMA QuietStep ==
    ASSUME IInv, TypeOK', UNCHANGED <<status, ref, refund, ledger, acked>>
    PROVE  IInv'
<1>1. StatusMatchesLedger'
  BY DEF IInv, StatusMatchesLedger, LedgerInv, EntriesOf, Entry
<1>2. TradePaysOnce' /\ AckedIsCredited'
  BY DEF IInv, TradePaysOnce, AckedIsCredited, Entry
<1> QED
  BY <1>1, <1>2 DEF IInv

\* Posting an amount that keeps the balance from going below zero.
LEMMA PostType ==
    ASSUME TypeOK, NEW u \in Users, NEW type \in {"topup", "refund", "usage"},
           NEW r \in Orders \cup Charges, NEW amount \in Int,
           balance[u] + amount >= 0, Post(u, type, r, amount)
    PROVE  balance' \in [Users -> Nat] /\ ledger' \subseteq Entries
<1>1. balance[u] + amount \in Nat
  BY DEF TypeOK
<1>2. [user |-> u, type |-> type, ref |-> r, amount |-> amount] \in Entries
  BY DEF Entries
<1> QED
  BY <1>1, <1>2 DEF Post, TypeOK

\* A pending order is paid, by an administrator or by a callback.
LEMMA PaidLedger ==
    ASSUME IInv, NEW o \in Orders, status[o] = "pending",
           Post(Buyer[o], "topup", o, AmountCents[o]),
           status' = [status EXCEPT ![o] = "paid"], refund' = refund
    PROVE  StatusMatchesLedger'
<1>0. status \in [Orders -> Statuses]
  BY DEF IInv, TypeOK
<1> DEFINE e == Entry(o, "topup", AmountCents[o])
<1>1. ledger' = ledger \cup {e} /\ e.ref = o /\ e.type = "topup"
  BY DEF Post, Entry
<1> HIDE DEF e
<1>2. ASSUME NEW p \in Orders PROVE LedgerInv(p)'
  <2>1. CASE p = o
    <3>1. EntriesOf(o) = {}
      BY DEF IInv, StatusMatchesLedger, LedgerInv
    <3>2. EntriesOf(o)' = {e}
      BY <1>1, <3>1 DEF EntriesOf
    <3>3. status'[o] = "paid"
      BY <1>0
    <3> QED
      BY <2>1, <3>2, <3>3 DEF LedgerInv, Entry, e
  <2>2. CASE p # o
    <3>1. EntriesOf(p)' = EntriesOf(p)
      BY <1>1, <2>2 DEF EntriesOf
    <3>2. status'[p] = status[p] /\ LedgerInv(p)
      BY <1>0, <2>2 DEF IInv, StatusMatchesLedger
    <3> QED
      BY <3>1, <3>2 DEF LedgerInv, Entry
  <2> QED
    BY <2>1, <2>2
<1>3. refund' = {p \in Orders : status'[p] = "refunded"}
  BY <1>0 DEF IInv, StatusMatchesLedger
<1> QED
  BY <1>2, <1>3 DEF StatusMatchesLedger

LEMMA MarkStep ==
    ASSUME IInv, NEW o \in Orders, MarkPaymentPaid(o)
    PROVE  IInv'
<1>0. Buyer[o] \in Users /\ AmountCents[o] \in Nat /\ TypeOK
  BY OrdersAssumption, AmountsAssumption DEF IInv
<1>1. balance' \in [Users -> Nat] /\ ledger' \subseteq Entries
  <2>1. balance[Buyer[o]] + AmountCents[o] >= 0
    BY <1>0 DEF TypeOK
  <2> QED
    BY <1>0, <2>1, PostType DEF MarkPaymentPaid
<1>2. TypeOK'
  BY <1>0, <1>1 DEF MarkPaymentPaid, TypeOK, Statuses, requests
<1>3. StatusMatchesLedger'
  BY PaidLedger DEF MarkPaymentPaid
<1>4. TradePaysOnce'
  BY DEF MarkPaymentPaid, IInv, TradePaysOnce
<1>5. AckedIsCredited'
  BY DEF MarkPaymentPaid, Post, IInv, AckedIsCredited, Entry
<1> QED
  BY <1>2, <1>3, <1>4, <1>5 DEF IInv

LEMMA RefundStep ==
    ASSUME IInv, NEW o \in Orders, RefundPayment(o)
    PROVE  IInv'
<1>0. Buyer[o] \in Users /\ AmountCents[o] \in Nat /\ TypeOK
  BY OrdersAssumption, AmountsAssumption DEF IInv
<1>1. balance' \in [Users -> Nat] /\ ledger' \subseteq Entries
  <2>1. balance[Buyer[o]] + (-AmountCents[o]) >= 0 /\ -AmountCents[o] \in Int
    BY <1>0 DEF TypeOK, RefundPayment, Refundable
  <2> QED
    BY <1>0, <2>1, PostType DEF RefundPayment
<1>2. TypeOK'
  BY <1>0, <1>1 DEF RefundPayment, TypeOK, Statuses, requests
<1> DEFINE e == Entry(o, "refund", -AmountCents[o])
<1>3. ledger' = ledger \cup {e} /\ e.ref = o /\ e.type = "refund"
  BY DEF RefundPayment, Post, Entry
<1> HIDE DEF e
<1>4. status[o] = "paid" /\ status' = [status EXCEPT ![o] = "refunded"] /\ status \in [Orders -> Statuses]
  BY <1>0 DEF RefundPayment, Refundable, TypeOK
<1>5. ASSUME NEW p \in Orders PROVE LedgerInv(p)'
  <2>1. CASE p = o
    <3>1. EntriesOf(o) = {Entry(o, "topup", AmountCents[o])}
      BY <1>4 DEF IInv, StatusMatchesLedger, LedgerInv
    <3>2. EntriesOf(o)' = {Entry(o, "topup", AmountCents[o]), e}
      BY <1>3, <3>1 DEF EntriesOf
    <3>3. status'[o] = "refunded"
      BY <1>4
    <3> QED
      BY <2>1, <3>2, <3>3 DEF LedgerInv, Entry, e
  <2>2. CASE p # o
    <3>1. EntriesOf(p)' = EntriesOf(p)
      BY <1>3, <2>2 DEF EntriesOf
    <3>2. status'[p] = status[p] /\ LedgerInv(p)
      BY <1>4, <2>2 DEF IInv, StatusMatchesLedger
    <3> QED
      BY <3>1, <3>2 DEF LedgerInv, Entry
  <2> QED
    BY <2>1, <2>2
<1>6. refund' = {p \in Orders : status'[p] = "refunded"}
  BY <1>4 DEF RefundPayment, IInv, StatusMatchesLedger
<1>7. TradePaysOnce'
  BY DEF RefundPayment, IInv, TradePaysOnce
<1>8. AckedIsCredited'
  BY <1>3 DEF RefundPayment, IInv, AckedIsCredited, Entry
<1> QED
  BY <1>2, <1>5, <1>6, <1>7, <1>8 DEF IInv, StatusMatchesLedger

\* Steps that move an order between statuses without money.
LEMMA FreeStep ==
    ASSUME IInv, NEW o \in Orders, NEW s \in {"pending", "closed"},
           status[o] \in {"none", "pending"}, status' = [status EXCEPT ![o] = s],
           TypeOK', UNCHANGED <<ref, refund, ledger, acked>>
    PROVE  IInv'
<1>0. status \in [Orders -> Statuses]
  BY DEF IInv, TypeOK
<1>1. ASSUME NEW p \in Orders PROVE LedgerInv(p)'
  <2>1. EntriesOf(p)' = EntriesOf(p) /\ LedgerInv(p)
    BY DEF EntriesOf, IInv, StatusMatchesLedger
  <2>2. CASE p = o
    <3>1. EntriesOf(p) = {}
      BY <2>1, <2>2 DEF LedgerInv
    <3>2. status'[p] = s
      BY <1>0, <2>2
    <3> QED
      BY <2>1, <3>1, <3>2 DEF LedgerInv
  <2>3. CASE p # o
    <3>1. status'[p] = status[p]
      BY <1>0, <2>3
    <3> QED
      BY <2>1, <3>1 DEF LedgerInv, Entry
  <2> QED
    BY <2>2, <2>3
<1>2. refund' = {p \in Orders : status'[p] = "refunded"}
  BY <1>0 DEF IInv, StatusMatchesLedger
<1>3. TradePaysOnce' /\ AckedIsCredited'
  BY DEF IInv, TradePaysOnce, AckedIsCredited, Entry
<1> QED
  BY <1>1, <1>2, <1>3 DEF IInv, StatusMatchesLedger

LEMMA CreateStep ==
    ASSUME IInv, NEW o \in Orders, CreatePaymentOrder(o)
    PROVE  IInv'
<1>1. TypeOK'
  BY DEF CreatePaymentOrder, IInv, TypeOK, Statuses, wallets
<1>2. UNCHANGED <<ref, refund, ledger, acked>> /\ status \in [Orders -> Statuses]
  BY DEF CreatePaymentOrder, wallets, IInv, TypeOK
<1>3. CASE status[o] = "none"
  <2>1. status' = [status EXCEPT ![o] = "pending"]
    BY <1>3 DEF CreatePaymentOrder
  <2> QED
    BY <1>1, <1>2, <1>3, <2>1, FreeStep
<1>4. CASE status[o] # "none"
  <2>1. status' = status
    BY <1>2, <1>4 DEF CreatePaymentOrder
  <2> QED
    BY <1>1, <1>2, <2>1, QuietStep
<1> QED
  BY <1>3, <1>4

LEMMA CloseStep ==
    ASSUME IInv, NEW o \in Orders, ClosePayment(o)
    PROVE  IInv'
<1>1. TypeOK'
  BY DEF ClosePayment, Closed, IInv, TypeOK, Statuses, wallets
<1>2. UNCHANGED <<ref, refund, ledger, acked>> /\ status \in [Orders -> Statuses]
  BY DEF ClosePayment, wallets, IInv, TypeOK
<1>3. CASE status[o] = "pending"
  <2>1. status' = [status EXCEPT ![o] = "closed"]
    BY <1>3 DEF ClosePayment, Closed
  <2> QED
    BY <1>1, <1>2, <1>3, <2>1, FreeStep
<1>4. CASE status[o] # "pending"
  <2>1. status' = status
    BY <1>2, <1>4 DEF ClosePayment, Closed
  <2> QED
    BY <1>1, <1>2, <2>1, QuietStep
<1> QED
  BY <1>3, <1>4

LEMMA CallbackStep ==
    ASSUME IInv, NEW m \in callbacks, EpayCallback(m)
    PROVE  IInv'
<1> DEFINE o == m.order
<1>0. /\ TypeOK /\ o \in Orders /\ m.trade \in Trades /\ Buyer[o] \in Users
      /\ AmountCents[o] \in Nat /\ m.amount = AmountCents[o]
  BY OrdersAssumption, AmountsAssumption DEF IInv, TypeOK, Callbacks, EpayCallback, Accepted
<1>1. acked' = acked \cup {m} /\ \A p \in Orders \ {o} : ref[p] # m.trade
  BY DEF EpayCallback, Accepted
<1>2. UNCHANGED <<enabled, refund, creating, closing, answer, callbacks>>
  BY DEF EpayCallback, requests
<1> HIDE DEF o
<1>3. CASE status[o] = "paid"
  <2>1. UNCHANGED <<status, ref, balance, ledger>>
    BY <1>3 DEF EpayCallback, wallets, o
  <2>2. TypeOK'
    BY <1>0, <1>1, <1>2, <2>1 DEF TypeOK
  <2>3. StatusMatchesLedger'
    BY <1>2, <2>1 DEF IInv, StatusMatchesLedger, LedgerInv, EntriesOf, Entry
  <2>4. TradePaysOnce'
    BY <1>1, <2>1 DEF IInv, TradePaysOnce
  <2>5. Entry(o, "topup", AmountCents[o]) \in ledger
    <3>1. EntriesOf(o) = {Entry(o, "topup", AmountCents[o])}
      BY <1>0, <1>3 DEF IInv, StatusMatchesLedger, LedgerInv
    <3> QED
      BY <3>1 DEF EntriesOf
  <2>6. AckedIsCredited'
    BY <1>1, <2>1, <2>5 DEF IInv, AckedIsCredited, Entry, o
  <2> QED
    BY <2>2, <2>3, <2>4, <2>6 DEF IInv
<1>4. CASE status[o] = "pending"
  <2>1. /\ Post(Buyer[o], "topup", o, AmountCents[o])
        /\ status' = [status EXCEPT ![o] = "paid"]
        /\ ref' = [ref EXCEPT ![o] = m.trade]
    BY <1>0, <1>4 DEF EpayCallback, o
  <2>2. balance' \in [Users -> Nat] /\ ledger' \subseteq Entries
    <3>1. balance[Buyer[o]] + AmountCents[o] >= 0
      BY <1>0 DEF TypeOK
    <3> QED
      BY <1>0, <2>1, <3>1, PostType
  <2>3. TypeOK'
    BY <1>0, <1>1, <1>2, <2>1, <2>2 DEF TypeOK, Statuses
  <2>4. StatusMatchesLedger'
    BY <1>0, <1>2, <1>4, <2>1, PaidLedger
  <2>5. ref \in [Orders -> Trades \cup {NoTrade}] /\ TradePaysOnce
    BY DEF IInv, TypeOK
  <2>6. ref'[o] = m.trade /\ \A p \in Orders \ {o} : ref'[p] = ref[p]
    BY <1>0, <2>1, <2>5
  <2>7. ASSUME NEW p \in Orders, NEW q \in Orders, ref'[p] = ref'[q], ref'[p] # NoTrade PROVE p = q
    BY <1>1, <2>5, <2>6, <2>7 DEF TradePaysOnce
  <2>8. ASSUME NEW p \in Orders, ref'[p] # NoTrade
        PROVE  \E n \in acked' : n.order = p /\ n.trade = ref'[p] /\ n.amount = AmountCents[p]
    <3>1. CASE p = o
      BY <1>0, <1>1, <2>6, <3>1 DEF o
    <3>2. CASE p # o
      BY <1>1, <2>5, <2>6, <2>8, <3>2 DEF TradePaysOnce
    <3> QED
      BY <3>1, <3>2
  <2>9. TradePaysOnce'
    BY <2>7, <2>8 DEF TradePaysOnce
  <2>10. AckedIsCredited'
    BY <1>1, <2>1 DEF IInv, AckedIsCredited, Entry, Post, o
  <2> QED
    BY <2>3, <2>4, <2>9, <2>10 DEF IInv
<1> QED
  BY <1>3, <1>4 DEF EpayCallback, o

LEMMA SpendStep ==
    ASSUME IInv, NEW u \in Users, NEW c \in Charges, Spend(u, c)
    PROVE  IInv'
<1>0. TypeOK
  BY DEF IInv
<1>1. balance' \in [Users -> Nat] /\ ledger' \subseteq Entries
  <2>1. balance[u] + (-ChargeCents) >= 0 /\ -ChargeCents \in Int
    BY <1>0, AmountsAssumption DEF TypeOK, Spend
  <2> QED
    BY <1>0, <2>1, PostType DEF Spend
<1>2. TypeOK'
  BY <1>0, <1>1 DEF Spend, TypeOK, requests
<1> DEFINE e == [user |-> u, type |-> "usage", ref |-> c, amount |-> -ChargeCents]
<1>3. ledger' = ledger \cup {e} /\ e.type = "usage"
  BY DEF Spend, Post
<1> HIDE DEF e
<1>4. ASSUME NEW p \in Orders PROVE LedgerInv(p)'
  <2>1. EntriesOf(p)' = EntriesOf(p)
    BY <1>3 DEF EntriesOf
  <2>2. LedgerInv(p) /\ status' = status
    BY DEF IInv, StatusMatchesLedger, Spend
  <2> QED
    BY <2>1, <2>2 DEF LedgerInv, Entry
<1>5. StatusMatchesLedger'
  BY <1>4 DEF Spend, IInv, StatusMatchesLedger
<1>6. TradePaysOnce' /\ AckedIsCredited'
  BY <1>3 DEF Spend, IInv, TradePaysOnce, AckedIsCredited, Entry
<1> QED
  BY <1>2, <1>5, <1>6 DEF IInv

LEMMA NextIInv == IInv /\ [Next]_vars => IInv'
<1> SUFFICES ASSUME IInv, [Next]_vars PROVE IInv'
  OBVIOUS
<1>0. TypeOK
  BY DEF IInv
<1>1. ASSUME NEW p \in Providers, UpdatePaymentSettings(p) PROVE IInv'
  <2>1. TypeOK'
    BY <1>0, <1>1 DEF UpdatePaymentSettings, TypeOK, wallets, requests
  <2> QED
    BY <1>1, <2>1, QuietStep DEF UpdatePaymentSettings, wallets
<1>2. ASSUME NEW o \in Orders, CheckProvider(o) PROVE IInv'
  <2>1. TypeOK'
    BY <1>0, <1>2 DEF CheckProvider, TypeOK, wallets
  <2> QED
    BY <1>2, <2>1, QuietStep DEF CheckProvider, wallets
<1>3. ASSUME NEW o \in Orders, ReadForClose(o) PROVE IInv'
  <2>1. TypeOK'
    BY <1>0, <1>3 DEF ReadForClose, TypeOK, wallets
  <2> QED
    BY <1>3, <2>1, QuietStep DEF ReadForClose, wallets
<1>4. ASSUME NEW o \in Orders, NEW t \in Trades, NEW amount \in CallbackAmounts,
             PayAtProvider(o, t, amount)
      PROVE  IInv'
  <2>1. [order |-> o, trade |-> t, amount |-> amount] \in Callbacks
    BY DEF Callbacks
  <2>2. TypeOK'
    BY <1>0, <1>4, <2>1 DEF PayAtProvider, TypeOK, wallets, requests
  <2> QED
    BY <1>4, <2>2, QuietStep DEF PayAtProvider, wallets
<1>5. ASSUME UNCHANGED vars PROVE IInv'
  <2>1. TypeOK'
    BY <1>0, <1>5 DEF TypeOK, vars
  <2> QED
    BY <1>5, <2>1, QuietStep DEF vars
<1> QED
  BY <1>1, <1>2, <1>3, <1>4, <1>5, CreateStep, MarkStep, RefundStep, CloseStep,
     CallbackStep, SpendStep DEF Next

(* The inductive invariant holds in every reachable state.                  *)
THEOREM Invariance == Spec => []IInv
  BY InitIInv, NextIInv, PTL DEF Spec

(* Rows keep their types; above all, no order of refunds, charges and       *)
(* top-ups takes a wallet below zero.                                       *)
THEOREM TypeCorrect == Spec => []TypeOK
<1>1. IInv => TypeOK
  BY DEF IInv
<1> QED
  BY <1>1, Invariance, PTL

(* An order is credited once when it is paid, debited once when it is       *)
(* refunded, and moves no money otherwise.                                  *)
THEOREM OrdersMatchLedger == Spec => []StatusMatchesLedger
<1>1. IInv => StatusMatchesLedger
  BY DEF IInv
<1> QED
  BY <1>1, Invariance, PTL

(* A trade number of the provider pays for one order only.                  *)
THEOREM TradesPayOnce == Spec => []TradePaysOnce
<1>1. IInv => TradePaysOnce
  BY DEF IInv
<1> QED
  BY <1>1, Invariance, PTL

(* No callback is answered with success before its order is credited.       *)
THEOREM AnswersAreCredited == Spec => []AckedIsCredited
<1>1. IInv => AckedIsCredited
  BY DEF IInv
<1> QED
  BY <1>1, Invariance, PTL

-----------------------------------------------------------------------------
(* The refinement: every step posts one new entry or leaves the wallets     *)
(* alone.  That an entry is new follows from StatusMatchesLedger.           *)

\* Posting under a reference that the user's ledger does not have.
LEMMA PostRefines ==
    ASSUME TypeOK, NEW u \in Users, NEW type, NEW r, NEW amount \in Int \ {0},
           balance[u] + amount >= 0, Post(u, type, r, amount),
           \A e \in ledger : ~(e.user = u /\ e.type = type /\ e.ref = r)
    PROVE  W!Next
<1> DEFINE e == [user |-> u, type |-> type, ref |-> r, amount |-> amount]
           n == [ref |-> <<type, r>>, amount |-> amount]
           L == WalletLedger
<1>1. ledger' = ledger \cup {e} /\ balance' = [balance EXCEPT ![u] = @ + amount]
  BY DEF Post
<1>2. \A f \in L[u] : f.ref # n.ref
  BY DEF WalletLedger
<1>3. n.ref = <<type, r>> /\ n.amount = amount
  OBVIOUS
<1>4. ASSUME NEW v \in Users PROVE L'[v] = IF v = u THEN L[u] \cup {n} ELSE L[v]
  <2>1. L'[v] = {[ref |-> <<f.type, f.ref>>, amount |-> f.amount] :
                    f \in {g \in ledger \cup {e} : g.user = v}}
    BY <1>1 DEF WalletLedger
  <2>2. L[v] = {[ref |-> <<f.type, f.ref>>, amount |-> f.amount] :
                    f \in {g \in ledger : g.user = v}}
    BY DEF WalletLedger
  <2>3. CASE v # u
    <3>1. {g \in ledger \cup {e} : g.user = v} = {g \in ledger : g.user = v}
      BY <2>3
    <3> QED
      BY <2>1, <2>2, <2>3, <3>1
  <2>4. CASE v = u
    <3>1. {g \in ledger \cup {e} : g.user = v} = {g \in ledger : g.user = v} \cup {e}
      BY <2>4
    <3>2. [ref |-> <<e.type, e.ref>>, amount |-> e.amount] = n
      OBVIOUS
    <3> HIDE DEF e, n
    <3> QED
      BY <2>1, <2>2, <2>4, <3>1, <3>2
  <2> QED
    BY <2>3, <2>4
<1>5. L \in [Users -> {L[v] : v \in Users}] /\ L' = [v \in Users |-> L'[v]]
  BY DEF WalletLedger
<1>6. L' = [L EXCEPT ![u] = @ \cup {n}]
  <2> HIDE DEF n, L
  <2> QED
    BY <1>4, <1>5
<1>7. n \in L'[u] \ L[u]
  <2> HIDE DEF n, L
  <2> QED
    BY <1>2, <1>4
<1>8. W!Post(u, n)
  BY <1>1, <1>2, <1>3, <1>6 DEF W!Post
<1> QED
  BY <1>7, <1>8 DEF W!Next

\* An order without entries can be credited.
LEMMA CreditRefines ==
    ASSUME IInv, NEW o \in Orders, status[o] = "pending",
           Post(Buyer[o], "topup", o, AmountCents[o])
    PROVE  W!Next
<1>0. Buyer[o] \in Users /\ AmountCents[o] \in Int \ {0} /\ AmountCents[o] >= 0 /\ TypeOK
  BY OrdersAssumption, AmountsAssumption DEF IInv
<1>1. EntriesOf(o) = {}
  BY DEF IInv, StatusMatchesLedger, LedgerInv
<1>2. \A e \in ledger : ~(e.user = Buyer[o] /\ e.type = "topup" /\ e.ref = o)
  BY <1>1 DEF EntriesOf
<1>3. balance[Buyer[o]] + AmountCents[o] >= 0
  BY <1>0 DEF TypeOK
<1> QED
  BY <1>0, <1>2, <1>3, PostRefines

LEMMA RefundRefines ==
    ASSUME IInv, NEW o \in Orders, RefundPayment(o)
    PROVE  W!Next
<1>0. Buyer[o] \in Users /\ -AmountCents[o] \in Int \ {0} /\ TypeOK
  BY OrdersAssumption, AmountsAssumption DEF IInv
<1>1. EntriesOf(o) = {Entry(o, "topup", AmountCents[o])}
  BY DEF IInv, StatusMatchesLedger, LedgerInv, RefundPayment, Refundable
<1>2. \A e \in ledger : ~(e.user = Buyer[o] /\ e.type = "refund" /\ e.ref = o)
  BY <1>1 DEF EntriesOf, Entry
<1>3. balance[Buyer[o]] + (-AmountCents[o]) >= 0
  BY <1>0, OrdersAssumption, AmountsAssumption DEF TypeOK, RefundPayment, Refundable
<1> QED
  BY <1>0, <1>2, <1>3, PostRefines DEF RefundPayment

LEMMA SpendRefines ==
    ASSUME IInv, NEW u \in Users, NEW c \in Charges, Spend(u, c)
    PROVE  W!Next
<1>0. TypeOK /\ -ChargeCents \in Int \ {0}
  BY AmountsAssumption DEF IInv
<1>1. balance[u] + (-ChargeCents) >= 0
  BY <1>0, AmountsAssumption DEF TypeOK, Spend
<1> QED
  BY <1>0, <1>1, PostRefines DEF Spend

LEMMA QuietRefines == ASSUME UNCHANGED <<balance, ledger>> PROVE UNCHANGED W!vars
  BY DEF W!vars, WalletLedger

LEMMA NextRefines == IInv /\ [Next]_vars => [W!Next]_(W!vars)
<1> SUFFICES ASSUME IInv, [Next]_vars PROVE W!Next \/ UNCHANGED W!vars
  OBVIOUS
<1>1. ASSUME NEW o \in Orders, MarkPaymentPaid(o) PROVE W!Next
  BY <1>1, CreditRefines DEF MarkPaymentPaid
<1>2. ASSUME NEW m \in callbacks, EpayCallback(m) PROVE W!Next \/ UNCHANGED W!vars
  <2>1. m.order \in Orders
    BY DEF IInv, TypeOK, Callbacks
  <2>2. CASE status[m.order] = "pending"
    <3>1. Post(Buyer[m.order], "topup", m.order, AmountCents[m.order])
      BY <1>2, <2>2 DEF EpayCallback, Accepted
    <3> QED
      BY <2>1, <2>2, <3>1, CreditRefines
  <2>3. CASE status[m.order] = "paid"
    BY <1>2, <2>3, QuietRefines DEF EpayCallback, wallets
  <2> QED
    BY <1>2, <2>2, <2>3 DEF EpayCallback
<1>3. ASSUME \/ \E p \in Providers : UpdatePaymentSettings(p)
             \/ \E o \in Orders : \/ CheckProvider(o) \/ CreatePaymentOrder(o)
                                   \/ ReadForClose(o) \/ ClosePayment(o)
                                   \/ \E t \in Trades, amount \in CallbackAmounts :
                                          PayAtProvider(o, t, amount)
             \/ UNCHANGED vars
      PROVE  UNCHANGED W!vars
  <2>1. UNCHANGED <<balance, ledger>>
    BY <1>3 DEF UpdatePaymentSettings, CheckProvider, CreatePaymentOrder, ReadForClose,
                ClosePayment, PayAtProvider, wallets, vars
  <2> QED
    BY <2>1, QuietRefines
<1> QED
  BY <1>1, <1>2, <1>3, RefundRefines, SpendRefines DEF Next

(* Orders, callbacks, refunds and charges implement the wallet              *)
(* specification for every set of users, orders and trade numbers: each     *)
(* entry of the ledger is new, moves the balance by its amount in the same  *)
(* transaction, and never overdraws it (markPaymentPaid, epayCallback,      *)
(* refundPayment).                                                          *)
THEOREM WalletIsImplemented == Spec => ImplementsWallet
<1>1. Init => W!Init
  BY DEF Init, W!Init, WalletLedger
<1> QED
  BY <1>1, NextRefines, Invariance, PTL DEF Spec, ImplementsWallet, W!Spec

-----------------------------------------------------------------------------
(***************************************************************************)
(* EgressMetering, for every set of samples and applications.  CountedOnce *)
(* and NotOverbilled are inductive with the knowledge that a stored sample *)
(* was observed: its window does not change any more (ReportInv).  Samples *)
(* may be infinite; those that are stored are finitely many.               *)
(***************************************************************************)

\* The samples in app_egress_samples, those of an application, and those that were
\* metered for one of its windows.
Stored == {s \in Samples : row[s] # "none"}
StoredOf(a) == {s \in Samples : AppOf[s] = a /\ row[s] # "none"}
ProcessedIn(a, w) ==
    {s \in Samples : AppOf[s] = a /\ row[s] = "processed" /\ report[s].window = w}

\* A request carries a sample that was observed, and so does a row; only an
\* unobserved sample gets a window, so the window of a stored one stays.
ReportInv ==
    /\ \A s \in Samples : report[s].phase = "sending" => report[s].tries < MaxTries
    /\ \A r \in ingesting : report[r.sample].phase # "idle"
    /\ \A s \in Stored : report[s].phase # "idle"

EgressInv ==
    EgressTypeOK /\ ReportInv /\ IsFiniteSet(Stored) /\ CountedOnce /\ NotOverbilled

LEMMA InitEgressInv == EgressInit => EgressInv
<1> SUFFICES ASSUME EgressInit PROVE EgressInv
  OBVIOUS
<1>1. EgressTypeOK
  BY SamplesAssumption, BoundsAssumption DEF EgressInit, EgressTypeOK, Windows, Reports, Requests, Phases
<1>2. Stored = {} /\ (\A a \in Apps : StoredOf(a) = {})
  BY DEF EgressInit, Stored, StoredOf
<1>3. ReportInv
  BY <1>2 DEF EgressInit, ReportInv
<1>4. IsFiniteSet(Stored)
  BY <1>2, FS_EmptySet
<1>5. CountedOnce
  BY <1>2, SumEmpty DEF EgressInit, CountedOnce, StoredOf, Total
<1>6. NotOverbilled
  <2>1. ASSUME NEW a \in Apps, NEW w \in Windows
        PROVE  event[a][w] = 0 /\ Total(ProcessedIn(a, w)) = 0
    <3>1. event[a][w] = 0 /\ ProcessedIn(a, w) = {}
      BY DEF EgressInit, ProcessedIn
    <3> QED
      BY <3>1, SumEmpty DEF Total
  <2> QED
    BY <2>1 DEF NotOverbilled, ProcessedIn
<1> QED
  BY <1>1, <1>3, <1>4, <1>5, <1>6 DEF EgressInv

\* A step that stores and bills nothing and keeps the windows of stored samples.
LEMMA EgressQuiet ==
    ASSUME EgressInv, EgressTypeOK', ReportInv', UNCHANGED <<row, cumulative, event>>,
           \A s \in Stored : report'[s].window = report[s].window
    PROVE  EgressInv'
<1>1. Stored' = Stored /\ (\A a \in Apps : StoredOf(a)' = StoredOf(a))
  BY DEF Stored, StoredOf
<1>2. \A a \in Apps : \A w \in Windows : ProcessedIn(a, w)' = ProcessedIn(a, w)
  BY DEF Stored, ProcessedIn
<1>3. IsFiniteSet(Stored)'
  BY <1>1 DEF EgressInv
<1>4. CountedOnce'
  BY <1>1 DEF EgressInv, CountedOnce, StoredOf, Total
<1>5. NotOverbilled'
  BY <1>2 DEF EgressInv, NotOverbilled, Windows, ProcessedIn, Total
<1> QED
  BY <1>3, <1>4, <1>5 DEF EgressInv

LEMMA TickEgressStep == ASSUME EgressInv, Tick PROVE EgressInv'
<1>1. EgressTypeOK'
  BY SamplesAssumption, BoundsAssumption DEF EgressInv, Tick, EgressTypeOK, Windows
<1>2. ReportInv'
  BY DEF EgressInv, ReportInv, Stored, Tick
<1> QED
  BY <1>1, <1>2, EgressQuiet DEF Tick

LEMMA ObserveStep ==
    ASSUME EgressInv, NEW s \in Samples, NEW w \in Windows, Observe(s, w)
    PROVE  EgressInv'
<1>0. [phase |-> "sending", window |-> w, tries |-> 0] \in Reports
  BY SamplesAssumption, BoundsAssumption DEF Reports, Phases, Windows
<1>1. EgressTypeOK'
  BY <1>0 DEF EgressInv, Observe, EgressTypeOK
<1>2. ReportInv'
  BY SamplesAssumption, BoundsAssumption DEF EgressInv, ReportInv, Stored, Observe, EgressTypeOK, Requests
<1>3. s \notin Stored
  BY DEF EgressInv, ReportInv, Observe
<1>4. \A t \in Stored : report'[t].window = report[t].window
  BY <1>3 DEF EgressInv, Observe, EgressTypeOK, Stored
<1> QED
  BY <1>1, <1>2, <1>4, EgressQuiet DEF Observe

LEMMA SendStep ==
    ASSUME EgressInv, NEW s \in Samples, Send(s)
    PROVE  EgressInv'
<1>0. report[s] \in Reports /\ report[s].tries < MaxTries
  BY DEF EgressInv, ReportInv, EgressTypeOK, Send
<1>1. [sample |-> s, try |-> report[s].tries + 1, phase |-> "sent"] \in Requests
  BY <1>0, SamplesAssumption, BoundsAssumption DEF Reports, Requests
<1>2. report' \in [Samples -> Reports]
  BY <1>0, SamplesAssumption, BoundsAssumption DEF EgressInv, EgressTypeOK, Send, Reports, Phases
<1>3. EgressTypeOK'
  BY <1>1, <1>2 DEF EgressInv, Send, EgressTypeOK
<1>4. \A t \in Samples : /\ t # s => report'[t] = report[t]
                         /\ report'[t].window = report[t].window
                         /\ report'[t].phase = IF t = s THEN "waiting" ELSE report[t].phase
  BY <1>0 DEF EgressInv, Send, EgressTypeOK, Reports
<1>5. ReportInv'
  BY <1>4 DEF EgressInv, ReportInv, Stored, Send, EgressTypeOK, Requests
<1> QED
  BY <1>3, <1>4, <1>5, EgressQuiet DEF Send, Stored

\* The proxy learns of an answer, or that there was none.
LEMMA AnswerStep ==
    ASSUME EgressInv, NEW s \in Samples, ReportAccepted(s) \/ Retry(s)
    PROVE  EgressInv'
<1>0. report[s] \in Reports /\ report[s].phase = "waiting"
  BY DEF EgressInv, EgressTypeOK, ReportAccepted, Retry
<1>1. PICK p \in {"sending", "done"} :
        /\ report' = [report EXCEPT ![s].phase = p]
        /\ p = "sending" => report[s].tries < MaxTries
  BY DEF ReportAccepted, Retry
<1>2. report' \in [Samples -> Reports]
  BY <1>0, <1>1 DEF EgressInv, EgressTypeOK, Reports, Phases
<1>3. EgressTypeOK'
  BY <1>2 DEF EgressInv, ReportAccepted, Retry, EgressTypeOK
<1>4. \A t \in Samples : /\ report'[t].window = report[t].window
                         /\ report'[t].tries = report[t].tries
                         /\ report'[t].phase = IF t = s THEN p ELSE report[t].phase
  BY <1>0, <1>1 DEF EgressInv, EgressTypeOK, Reports
<1>5. ReportInv'
  BY <1>1, <1>4 DEF EgressInv, ReportInv, Stored, ReportAccepted, Retry, EgressTypeOK, Requests
<1> QED
  BY <1>3, <1>4, <1>5, EgressQuiet DEF ReportAccepted, Retry, Stored

\* A request goes, or is found to be in time.
LEMMA EgressRequestStep ==
    ASSUME EgressInv, NEW r \in ingesting, Lose(r) \/ CheckWindow(r)
    PROVE  EgressInv'
<1>0. r \in Requests /\ [r EXCEPT !.phase = "checked"] \in Requests
      /\ [r EXCEPT !.phase = "checked"].sample = r.sample
  BY DEF EgressInv, EgressTypeOK, Requests
<1>1. EgressTypeOK'
  BY <1>0 DEF EgressInv, EgressTypeOK, Lose, CheckWindow
<1>2. ReportInv'
  BY <1>0 DEF EgressInv, ReportInv, Stored, Lose, CheckWindow
<1> QED
  BY <1>1, <1>2, EgressQuiet DEF Lose, CheckWindow

\* The transaction of a request: a sample that is stored already adds nothing.
LEMMA IngestStep ==
    ASSUME EgressInv, NEW r \in ingesting, IngestEgressSample(r)
    PROVE  EgressInv'
<1> DEFINE s == r.sample
<1>0. s \in Samples /\ report[s].phase # "idle" /\ AppOf[s] \in Apps /\ Bytes[s] \in Nat
  BY SamplesAssumption, BoundsAssumption DEF EgressInv, ReportInv, EgressTypeOK, Requests
<1>1. /\ ingesting' = ingesting \ {r}
      /\ row' = [row EXCEPT ![s] = IF row[s] = "none" THEN "new" ELSE row[s]]
      /\ cumulative' = [cumulative EXCEPT ![AppOf[s]] = cumulative[AppOf[s]] + Added(s)]
      /\ now' = now /\ report' = report /\ event' = event
  BY DEF IngestEgressSample
<1> HIDE DEF s
<1>2. Added(s) \in Nat
  BY <1>0 DEF Added
<1>3. EgressTypeOK'
  BY <1>0, <1>1, <1>2 DEF EgressInv, EgressTypeOK
<1>4. Stored' = Stored \union {s}
  BY <1>0, <1>1 DEF EgressInv, EgressTypeOK, Stored
<1>5. ReportInv'
  BY <1>0, <1>1, <1>4 DEF EgressInv, ReportInv
<1>6. IsFiniteSet(Stored)'
  BY <1>4, FS_AddElement DEF EgressInv
<1>7. \A a \in Apps : \A w \in Windows : ProcessedIn(a, w)' = ProcessedIn(a, w)
  BY <1>0, <1>1 DEF EgressInv, EgressTypeOK, ProcessedIn
<1>8. NotOverbilled'
  BY <1>1, <1>7 DEF EgressInv, NotOverbilled, Windows, ProcessedIn, Total
<1>9. ASSUME NEW a \in Apps PROVE cumulative'[a] = SumFunctionOnSet(Bytes, StoredOf(a)')
  <2>0. cumulative[a] = SumFunctionOnSet(Bytes, StoredOf(a)) /\ cumulative[a] \in Nat
    BY DEF EgressInv, EgressTypeOK, CountedOnce, StoredOf, Total
  <2>1. CASE a = AppOf[s] /\ row[s] = "none"
    <3>1. StoredOf(a)' = StoredOf(a) \union {s} /\ s \notin StoredOf(a)
      BY <1>0, <1>1, <2>1 DEF EgressInv, EgressTypeOK, StoredOf
    <3>2. IsFiniteSet(StoredOf(a))
      BY FS_Subset DEF EgressInv, Stored, StoredOf
    <3>3. \A y \in StoredOf(a) \union {s} : Bytes[y] \in Int
      BY <1>0, SamplesAssumption, BoundsAssumption DEF StoredOf
    <3>4. SumFunctionOnSet(Bytes, StoredOf(a) \union {s})
            = SumFunctionOnSet(Bytes, StoredOf(a)) + Bytes[s]
      BY <3>1, <3>2, <3>3, SumAdd
    <3>5. cumulative'[a] = cumulative[a] + Bytes[s]
      BY <1>1, <2>1 DEF EgressInv, EgressTypeOK, Added
    <3> QED
      BY <2>0, <3>1, <3>4, <3>5
  <2>2. CASE ~(a = AppOf[s] /\ row[s] = "none")
    <3>1. StoredOf(a)' = StoredOf(a)
      BY <1>0, <1>1, <2>2 DEF EgressInv, EgressTypeOK, StoredOf
    <3>2. cumulative'[a] = cumulative[a]
      BY <1>1, <2>0, <2>2 DEF EgressInv, EgressTypeOK, Added
    <3> QED
      BY <2>0, <3>1, <3>2
  <2> QED
    BY <2>1, <2>2
<1>10. CountedOnce'
  BY <1>9 DEF CountedOnce, StoredOf, Total
<1> QED
  BY <1>3, <1>5, <1>6, <1>8, <1>10 DEF EgressInv

\* The samples of a batch are all of one application and window, so the event
\* is either there already or worth exactly what becomes processed.
LEMMA MeterEgressStep ==
    ASSUME EgressInv, NEW a \in Apps, NEW w \in Windows, MeterEgress(a, w)
    PROVE  EgressInv'
<1> DEFINE batch == Unprocessed(a, w)
<1>1. /\ event' = [event EXCEPT ![a][w] = IF event[a][w] = 0 THEN Total(batch)
                                               ELSE event[a][w]]
      /\ row' = [s \in Samples |-> IF s \in batch THEN "processed" ELSE row[s]]
      /\ UNCHANGED <<now, report, ingesting, cumulative>>
  BY DEF MeterEgress
<1>2. batch \subseteq Stored
      /\ \A s \in Samples : s \in batch <=>
            AppOf[s] = a /\ row[s] = "new" /\ report[s].window = w
  BY DEF Unprocessed, Stored
<1> HIDE DEF batch
<1>3. IsFiniteSet(batch) /\ \A s \in batch : Bytes[s] \in Nat
  BY <1>2, FS_Subset, SamplesAssumption, BoundsAssumption DEF EgressInv, Stored
<1>4. Total(batch) \in Nat
  BY <1>3, SumNat DEF Total
<1>5. EgressTypeOK'
  BY <1>1, <1>4 DEF EgressInv, EgressTypeOK
<1>6. Stored' = Stored /\ \A b \in Apps : StoredOf(b)' = StoredOf(b)
  BY <1>1, <1>2 DEF Stored, StoredOf
<1>7. ReportInv'
  BY <1>1, <1>6 DEF EgressInv, ReportInv
<1>8. IsFiniteSet(Stored)'
  BY <1>6 DEF EgressInv
<1>9. CountedOnce'
  BY <1>1, <1>6 DEF EgressInv, CountedOnce, StoredOf, Total
<1>10. ASSUME NEW b \in Apps, NEW v \in Windows
       PROVE  event'[b][v] <= SumFunctionOnSet(Bytes, ProcessedIn(b, v)')
  <2>0. /\ event[b][v] <= SumFunctionOnSet(Bytes, ProcessedIn(b, v))
        /\ event[b][v] \in Nat
    BY DEF EgressInv, EgressTypeOK, NotOverbilled, ProcessedIn, Total
  <2>1. CASE b = a /\ v = w
    <3>1. ProcessedIn(b, v)' = ProcessedIn(b, v) \union batch
          /\ ProcessedIn(b, v) \intersect batch = {}
      BY <1>1, <1>2, <2>1 DEF ProcessedIn, Stored
    <3>2. IsFiniteSet(ProcessedIn(b, v)) /\ \A s \in ProcessedIn(b, v) : Bytes[s] \in Nat
      BY FS_Subset, SamplesAssumption, BoundsAssumption DEF EgressInv, Stored, ProcessedIn
    <3>3. SumFunctionOnSet(Bytes, ProcessedIn(b, v)) \in Nat
      BY <3>2, SumNat
    <3>4. \A s \in ProcessedIn(b, v) \union batch : Bytes[s] \in Int
      BY <1>3, <3>2
    <3>5. SumFunctionOnSet(Bytes, ProcessedIn(b, v) \union batch)
            = SumFunctionOnSet(Bytes, ProcessedIn(b, v)) + Total(batch)
      BY <1>3, <3>1, <3>2, <3>4, SumUnion DEF Total
    <3>6. event'[b][v] = IF event[a][w] = 0 THEN Total(batch) ELSE event[a][w]
      BY <1>1, <2>1 DEF EgressInv, EgressTypeOK
    <3> QED
      BY <1>4, <2>0, <2>1, <3>1, <3>3, <3>5, <3>6
  <2>2. CASE ~(b = a /\ v = w)
    <3>1. ProcessedIn(b, v)' = ProcessedIn(b, v)
      BY <1>1, <1>2, <2>2 DEF ProcessedIn
    <3>2. event'[b][v] = event[b][v]
      BY <1>1, <2>2 DEF EgressInv, EgressTypeOK
    <3> QED
      BY <2>0, <3>1, <3>2
  <2> QED
    BY <2>1, <2>2
<1>11. NotOverbilled'
  BY <1>10 DEF NotOverbilled, ProcessedIn, Windows, Total
<1> QED
  BY <1>5, <1>7, <1>8, <1>9, <1>11 DEF EgressInv

LEMMA NextEgressInv == EgressInv /\ [EgressNext]_egressVars => EgressInv'
<1> SUFFICES ASSUME EgressInv, [EgressNext]_egressVars PROVE EgressInv'
  OBVIOUS
<1>1. CASE UNCHANGED egressVars
  <2>1. EgressTypeOK' /\ ReportInv'
    BY <1>1 DEF EgressInv, EgressTypeOK, ReportInv, Stored, egressVars
  <2> QED
    BY <1>1, <2>1, EgressQuiet DEF egressVars
<1>2. CASE Tick
  BY <1>2, TickEgressStep
<1>3. ASSUME NEW s \in Samples, NEW w \in Windows, Observe(s, w) PROVE EgressInv'
  BY <1>3, ObserveStep
<1>4. ASSUME NEW s \in Samples, Send(s) PROVE EgressInv'
  BY <1>4, SendStep
<1>5. ASSUME NEW s \in Samples, ReportAccepted(s) \/ Retry(s) PROVE EgressInv'
  BY <1>5, AnswerStep
<1>6. ASSUME NEW r \in ingesting, Lose(r) \/ CheckWindow(r) PROVE EgressInv'
  BY <1>6, EgressRequestStep
<1>7. ASSUME NEW r \in ingesting, IngestEgressSample(r) PROVE EgressInv'
  BY <1>7, IngestStep
<1>8. ASSUME NEW a \in Apps, NEW w \in Windows, MeterEgress(a, w) PROVE EgressInv'
  BY <1>8, MeterEgressStep
<1> QED
  BY <1>1, <1>2, <1>3, <1>4, <1>5, <1>6, <1>7, <1>8 DEF EgressNext

LEMMA EgressInvariant == EgressSpec => []EgressInv
<1>1. EgressInit => EgressInv
  BY InitEgressInv
<1>2. EgressInv /\ [EgressNext]_egressVars => EgressInv'
  BY NextEgressInv
<1> QED
  BY <1>1, <1>2, PTL DEF EgressSpec

(* Type correctness of egress: no more than MaxTries attempts are made to    *)
(* report a sample.                                                          *)
THEOREM EgressTypeCorrect == EgressSpec => []EgressTypeOK
<1>1. EgressInv => EgressTypeOK
  BY DEF EgressInv
<1> QED
  BY <1>1, EgressInvariant, PTL

(* A sample may be sent and accepted any number of times: its bytes are in  *)
(* the cursor of its application once, for every set of samples and every   *)
(* order in which ingesting are lost, checked and committed                  *)
(* (ingestEgressSample).                                                    *)
THEOREM EgressCountedOnce == EgressSpec => []CountedOnce
<1>1. EgressInv => CountedOnce
  BY DEF EgressInv
<1> QED
  BY <1>1, EgressInvariant, PTL

(* No window of an application is billed for more than the samples that     *)
(* were observed in it and processed, whichever batches meterEgress makes   *)
(* of them.                                                                 *)
THEOREM EgressNotOverbilled == EgressSpec => []NotOverbilled
<1>1. EgressInv => NotOverbilled
  BY DEF EgressInv
<1> QED
  BY <1>1, EgressInvariant, PTL

\* Of an event only the first amount is ever written.
LEMMA EventWritten ==
    ASSUME EgressInv, [EgressNext]_egressVars, NEW a \in Apps, NEW w \in Windows,
           event'[a][w] # event[a][w]
    PROVE  event[a][w] = 0 /\ w < now
<1>1. PICK b \in Apps, v \in Windows : MeterEgress(b, v)
  <2>1. ~(event' = event)
    OBVIOUS
  <2> QED
    BY <2>1 DEF EgressNext, egressVars, Tick, Observe, Send, ReportAccepted, Retry, Lose,
                CheckWindow, IngestEgressSample
<1>2. b = a /\ v = w /\ event[a][w] = 0
  BY <1>1 DEF EgressInv, EgressTypeOK, MeterEgress
<1> QED
  BY <1>1, <1>2 DEF MeterEgress, WindowClosed

(* meterEgress writes the event of a window once and after it closed.       *)
THEOREM EgressEventsAreFinal == EgressSpec => EventsAreFinal
<1> DEFINE Final == \A a \in Apps, w \in Windows :
                        event'[a][w] # event[a][w] => event[a][w] = 0 /\ w < now
<1>1. EgressInv /\ [EgressNext]_egressVars => [Final]_egressVars
  BY EventWritten
<1> QED
  BY <1>1, EgressInvariant, PTL DEF EgressSpec, EventsAreFinal

-----------------------------------------------------------------------------
(***************************************************************************)
(* Accounts, for every set of addresses, identities and flows.             *)
(* FlowSignsInOnce is not inductive: that the session of a flow is for the *)
(* account of its identity is decided when the flow is resolved (FlowInv), *)
(* and that there is one session on the flow being over once there is      *)
(* (SessionInv).  That an identity is only bound to an account made for it *)
(* rests on the address being free when it was bound (BindingInv, RowInv). *)
(***************************************************************************)

\* The rows of the tables, as TypeOK has them.
AccountRows == [status : {"none", "active", "suspended"},
             role : {"none", "user", "admin", "super_admin"}, password : BOOLEAN]
CodeRows == [email : SUBSET Emails, state : {"none", "live", "expired", "consumed", "deleted"},
             attempts : 0 .. MaxAttempts, recent : BOOLEAN,
             mail : {"none", "pending", "sent", "lost"}]
FlowRows == [stage : Stages, who : SUBSET Identities, reported : SUBSET Emails,
             user : SUBSET Emails]
SessionRows == [user : SUBSET Emails, actor : SUBSET Emails, write : BOOLEAN, live : BOOLEAN,
                flow : SUBSET Flows]
Principals == [user : Emails, role : {"user", "admin", "super_admin", "automation_api"},
               session : 0 .. MaxSession, write : BOOLEAN]

AccountTypes ==
    /\ setup \in BOOLEAN /\ smtp \in BOOLEAN /\ oauth \in BOOLEAN
    /\ policy \subseteq Switches
    /\ account \in [Emails -> AccountRows]
    /\ binding \in [Identities -> SUBSET Emails]
    /\ code \in [Codes -> CodeRows]
    /\ requested \subseteq Emails
    /\ flow \in [Flows -> FlowRows]
    /\ session \in [Sessions -> SessionRows]
    /\ entering \subseteq Emails
    /\ principal \subseteq Principals
    /\ apiKey \subseteq Emails
    /\ bound \in Bounds

\* A row of users that is not there says nothing of a password, one that is has a role.
RowInv ==
    \A e \in Emails : /\ ~Exists(e) => ~account[e].password
                      /\ Exists(e) => account[e].role # "none"

CodeInv ==
    /\ \A c \in Codes : code[c].state = "live" => code[c].attempts < MaxAttempts
    /\ OneLiveCode

Late == {"resolved", "issued", "exchanging"}

\* The provider named, for the flow, the identity whose account the users are.
Named(f, users) ==
    users # {} /\ \E i \in Identities : flow[f].who = {i} /\ binding[i] = users

\* A binding is to an account without a password; a resolved flow is for the account
\* its identity is bound to; a flow that has a session is over and has no other.
BindingInv ==
    \A i \in Identities : \A e \in binding[i] : Exists(e) /\ ~account[e].password
FlowInv == \A f \in Flows : flow[f].stage \in Late => Named(f, flow[f].user)
SessionInv ==
    \A s \in Sessions :
        /\ session[s].user = {} => session[s].flow = {}
        /\ \A f \in session[s].flow :
               /\ flow[f].stage = "over"
               /\ Named(f, session[s].user)
               /\ \A r \in Sessions : f \in session[r].flow => r = s

AccountsInv ==
    AccountTypes /\ RowInv /\ CodeInv /\ BindingInv /\ FlowInv /\ SessionInv

LEMMA InitAccountsInv == AccountsInit => AccountsInv
<1> SUFFICES ASSUME AccountsInit PROVE AccountsInv
  OBVIOUS
<1>1. AccountTypes
  <2>1. setup \in BOOLEAN /\ smtp \in BOOLEAN /\ oauth \in BOOLEAN /\ policy \subseteq Switches
    BY DEF AccountsInit, Switches
  <2>2. account \in [Emails -> AccountRows]
    BY DEF AccountsInit, NoAccount, AccountRows
  <2>3. code \in [Codes -> CodeRows]
    BY AccountsAssumption DEF AccountsInit, NoCode, CodeRows
  <2>4. flow \in [Flows -> FlowRows]
    BY DEF AccountsInit, NoFlow, FlowRows, Stages
  <2>5. session \in [Sessions -> SessionRows]
    BY DEF AccountsInit, NoSession, SessionRows
  <2> QED
    BY <2>1, <2>2, <2>3, <2>4, <2>5
    DEF AccountsInit, AccountTypes
<1>2. RowInv
  BY DEF AccountsInit, RowInv, Exists, NoAccount
<1>3. CodeInv
  BY DEF AccountsInit, CodeInv, OneLiveCode, IsLive, NoCode
<1>4. BindingInv /\ FlowInv
  BY DEF AccountsInit, BindingInv, FlowInv, Late, NoFlow
<1>5. SessionInv
  BY DEF AccountsInit, SessionInv, NoSession
<1> QED
  BY <1>1, <1>2, <1>3, <1>4, <1>5 DEF AccountsInv

-----------------------------------------------------------------------------
\* What a step does to one table, whatever else it does.

LEMMA SameAccounts == ASSUME RowInv, account' = account PROVE RowInv'
BY DEF RowInv, Exists

LEMMA SameCodes == ASSUME CodeInv, code' = code PROVE CodeInv'
BY DEF CodeInv, OneLiveCode, IsLive

\* Accounts may be added and change but keep their passwords, a free session may be
\* opened for somebody without a flow, and sessions may be revoked.
LEMMA SameFlows ==
    ASSUME BindingInv, FlowInv, SessionInv, AccountTypes, UNCHANGED <<binding, flow>>,
           \A e \in Emails : Exists(e) => Exists(e)' /\ account'[e].password = account[e].password,
           \A s \in Sessions :
               \/ session'[s].user = session[s].user /\ session'[s].flow = session[s].flow
               \/ session'[s].user # {} /\ session'[s].flow = {}
    PROVE  BindingInv' /\ FlowInv' /\ SessionInv'
<1>1. BindingInv'
  BY DEF BindingInv, AccountTypes
<1>2. FlowInv'
  BY DEF FlowInv, Named
<1>3. SessionInv'
  BY DEF SessionInv, Named, Sessions
<1> QED
  BY <1>1, <1>2, <1>3

\* One flow, which is not over, goes on; when it is resolved its users are who they
\* should be.
LEMMA OneFlow ==
    ASSUME BindingInv, FlowInv, SessionInv, AccountTypes, UNCHANGED <<account, binding, session>>,
           NEW f \in Flows, flow[f].stage # "over",
           \A g \in Flows : g # f => flow'[g] = flow[g],
           flow'[f].stage \in Late =>
               /\ flow'[f].user # {}
               /\ \E i \in Identities : flow'[f].who = {i} /\ binding[i] = flow'[f].user
    PROVE  BindingInv' /\ FlowInv' /\ SessionInv'
<1>1. BindingInv'
  BY DEF BindingInv, Exists
<1>2. FlowInv'
  BY DEF FlowInv, Named
<1>3. \A s \in Sessions : f \notin session[s].flow /\ session[s].flow \subseteq Flows
  BY DEF SessionInv, AccountTypes, SessionRows
<1>4. SessionInv'
  BY <1>3 DEF SessionInv, Named, Sessions
<1> QED
  BY <1>1, <1>2, <1>4

\* Steps that change none of these tables.
LEMMA QuietAccounts ==
    ASSUME AccountsInv, AccountTypes', UNCHANGED <<account, binding, code, flow, session>>
    PROVE  AccountsInv'
<1>1. RowInv' /\ CodeInv'
  BY SameAccounts, SameCodes DEF AccountsInv
<1>2. BindingInv' /\ FlowInv' /\ SessionInv'
  BY SameFlows DEF AccountsInv, Exists
<1> QED
  BY <1>1, <1>2 DEF AccountsInv

LEMMA NoStep == ASSUME AccountsInv, UNCHANGED accountsVars PROVE AccountsInv'
<1>1. AccountTypes'
  BY DEF AccountsInv, AccountTypes, accountsVars
<1> QED
  BY <1>1, QuietAccounts DEF accountsVars

-----------------------------------------------------------------------------
\* Requests that begin and end.

LEMMA AuthenticateStep ==
    ASSUME AccountsInv, NEW s \in Sessions, Authenticate(s)
    PROVE  AccountsInv'
<1>1. PICK e \in session[s].user :
        principal' = principal \union
          {[user |-> e, role |-> account[e].role, session |-> s, write |-> session[s].write]}
  BY DEF Authenticate
<1>2. session[s] \in SessionRows /\ e \in Emails /\ session[s].write \in BOOLEAN
  BY <1>1 DEF AccountsInv, AccountTypes, SessionRows
<1>3. account[e] \in AccountRows /\ account[e].role # "none"
  BY <1>1, <1>2 DEF AccountsInv, AccountTypes, RowInv, Authenticate, Usable, IsActive, Exists
<1>4. [user |-> e, role |-> account[e].role, session |-> s, write |-> session[s].write]
        \in Principals
  BY <1>2, <1>3, AccountsAssumption DEF AccountRows, Principals, Sessions
<1>5. AccountTypes'
  BY <1>1, <1>4 DEF AccountsInv, AccountTypes, Authenticate
<1> QED
  BY <1>5, QuietAccounts DEF Authenticate

LEMMA AuthenticateKeyStep ==
    ASSUME AccountsInv, AuthenticateKey
    PROVE  AccountsInv'
<1>1. PICK e \in apiKey :
        principal' = principal \union
          {[user |-> e, role |-> "automation_api", session |-> 0, write |-> TRUE]}
  BY DEF AuthenticateKey
<1>2. [user |-> e, role |-> "automation_api", session |-> 0, write |-> TRUE] \in Principals
  BY <1>1, AccountsAssumption DEF AccountsInv, AccountTypes, Principals
<1>3. AccountTypes'
  BY <1>1, <1>2 DEF AccountsInv, AccountTypes, AuthenticateKey
<1> QED
  BY <1>3, QuietAccounts DEF AuthenticateKey

LEMMA RefuseStep == ASSUME AccountsInv, Refuse PROVE AccountsInv'
<1>1. principal' \subseteq principal /\ requested' \subseteq requested /\ entering' \subseteq entering
  BY DEF Refuse
<1>2. AccountTypes'
  BY <1>1 DEF AccountsInv, AccountTypes, Refuse
<1> QED
  BY <1>2, QuietAccounts DEF Refuse

LEMMA SettingsStep ==
    ASSUME AccountsInv, NEW p \in principal,
           \/ \E new \in bound.policies : UpdateAuthPolicy(p, new)
           \/ \E on \in BOOLEAN : UpdateMailSettings(p, on) \/ UpdateOAuthSettings(p, on)
           \/ \E owner \in {{}, {p.user}} : SetApiKey(p, owner)
    PROVE  AccountsInv'
<1>0. p.user \in Emails /\ \A new \in bound.policies : new \subseteq Switches
  BY AccountsAssumption DEF AccountsInv, AccountTypes, Principals
<1>1. ASSUME NEW new \in bound.policies, UpdateAuthPolicy(p, new) PROVE AccountsInv'
  <2>1. AccountTypes'
    BY <1>0, <1>1 DEF AccountsInv, AccountTypes, UpdateAuthPolicy, As
  <2> QED
    BY <1>1, <2>1, QuietAccounts DEF UpdateAuthPolicy
<1>2. ASSUME NEW on \in BOOLEAN, UpdateMailSettings(p, on) PROVE AccountsInv'
  <2>1. AccountTypes'
    BY <1>2 DEF AccountsInv, AccountTypes, UpdateMailSettings, As
  <2> QED
    BY <1>2, <2>1, QuietAccounts DEF UpdateMailSettings
<1>3. ASSUME NEW on \in BOOLEAN, UpdateOAuthSettings(p, on) PROVE AccountsInv'
  <2>1. AccountTypes'
    BY <1>3 DEF AccountsInv, AccountTypes, UpdateOAuthSettings, As
  <2> QED
    BY <1>3, <2>1, QuietAccounts DEF UpdateOAuthSettings
<1>4. ASSUME NEW owner \in {{}, {p.user}}, SetApiKey(p, owner) PROVE AccountsInv'
  <2>1. AccountTypes'
    BY <1>0, <1>4 DEF AccountsInv, AccountTypes, SetApiKey, As
  <2> QED
    BY <1>4, <2>1, QuietAccounts DEF SetApiKey
<1> QED
  BY <1>1, <1>2, <1>3, <1>4

LEMMA RequestStep ==
    ASSUME AccountsInv, NEW e \in Emails, RequestCode(e) \/ ReadLogin(e)
    PROVE  AccountsInv'
<1>1. AccountTypes'
  BY DEF AccountsInv, AccountTypes, RequestCode, ReadLogin
<1> QED
  BY <1>1, QuietAccounts DEF RequestCode, ReadLogin

-----------------------------------------------------------------------------
\* Accounts and sessions.

\* A new account has an address that was free, so no identity is bound to it.
LEMMA AddedAccount ==
    ASSUME AccountsInv, NEW e \in Emails, ~Exists(e), NEW role \in {"user", "admin", "super_admin"},
           NEW password \in BOOLEAN, account' = NewAccount(e, role, password)
    PROVE  /\ account' \in [Emails -> AccountRows]
           /\ RowInv'
           /\ \A d \in Emails :
                Exists(d) => Exists(d)' /\ account'[d].password = account[d].password
<1>1. account' = [account EXCEPT ![e] = [status |-> "active", role |-> role, password |-> password]]
  BY DEF NewAccount
<1>2. account' \in [Emails -> AccountRows]
  BY <1>1 DEF AccountsInv, AccountTypes, AccountRows
<1>3. \A d \in Emails : account'[d] = IF d = e THEN [status |-> "active", role |-> role, password |-> password]
                                      ELSE account[d]
  BY <1>1 DEF AccountsInv, AccountTypes
<1> QED
  BY <1>2, <1>3 DEF AccountsInv, RowInv, Exists

\* An account goes on with another status or role.
LEMMA ChangedAccount ==
    ASSUME AccountsInv, NEW e \in Emails, Exists(e),
           \/ \E new \in {"active", "suspended"} : account' = [account EXCEPT ![e].status = new]
           \/ \E role \in {"user", "admin"} : account' = [account EXCEPT ![e].role = role]
    PROVE  /\ account' \in [Emails -> AccountRows]
           /\ RowInv'
           /\ \A d \in Emails :
                Exists(d) => Exists(d)' /\ account'[d].password = account[d].password
<1>1. account' \in [Emails -> AccountRows]
  BY DEF AccountsInv, AccountTypes, AccountRows
<1>2. \A d \in Emails : /\ account'[d].password = account[d].password
                        /\ d # e => account'[d] = account[d]
                        /\ account[e].role # "none" => account'[e].role # "none"
                        /\ account'[e].status # "none"
  BY DEF AccountsInv, AccountTypes, AccountRows, Exists
<1> QED
  BY <1>1, <1>2 DEF AccountsInv, RowInv, Exists

\* A session of somebody who signs in otherwise than with a flow.
LEMMA OpenedSession ==
    ASSUME AccountsInv, NEW s \in Sessions, NEW e \in Emails, NEW actor \in SUBSET Emails,
           NEW write \in BOOLEAN, NewSession(s, {e}, actor, write, {})
    PROVE  /\ session' \in [Sessions -> SessionRows]
           /\ \A r \in Sessions :
                \/ session'[r].user = session[r].user /\ session'[r].flow = session[r].flow
                \/ session'[r].user # {} /\ session'[r].flow = {}
BY DEF AccountsInv, AccountTypes, SessionRows, NewSession

\* Sessions are revoked.
LEMMA RevokedSession ==
    ASSUME AccountsInv, NEW S,
           session' = [r \in Sessions |-> IF r \in S THEN [session[r] EXCEPT !.live = FALSE]
                                            ELSE session[r]]
    PROVE  /\ session' \in [Sessions -> SessionRows]
           /\ \A r \in Sessions : session'[r].user = session[r].user
                                    /\ session'[r].flow = session[r].flow
BY DEF AccountsInv, AccountTypes, SessionRows

\* What is left of the invariant once accounts and sessions are known to be in order.
LEMMA AccountsAndSessions ==
    ASSUME AccountsInv, AccountTypes', RowInv', UNCHANGED <<binding, code, flow>>,
           \A e \in Emails :
               Exists(e) => Exists(e)' /\ account'[e].password = account[e].password,
           \A s \in Sessions :
               \/ session'[s].user = session[s].user /\ session'[s].flow = session[s].flow
               \/ session'[s].user # {} /\ session'[s].flow = {}
    PROVE  AccountsInv'
<1>1. CodeInv'
  BY SameCodes DEF AccountsInv
<1>2. BindingInv' /\ FlowInv' /\ SessionInv'
  BY SameFlows DEF AccountsInv
<1> QED
  BY <1>1, <1>2 DEF AccountsInv

LEMMA InitializeStep ==
    ASSUME AccountsInv, NEW e \in Emails, NEW s \in Sessions, Initialize(e, s)
    PROVE  AccountsInv'
<1>1. /\ ~Exists(e) /\ account' = NewAccount(e, "super_admin", TRUE)
      /\ NewSession(s, {e}, {}, TRUE, {})
      /\ setup' = TRUE /\ policy' \subseteq policy
      /\ UNCHANGED << bound, smtp, oauth, binding, code, requested, flow, entering, principal,
                      apiKey >>
  BY DEF Initialize
<1>2. /\ account' \in [Emails -> AccountRows] /\ RowInv'
      /\ \A d \in Emails :
           Exists(d) => Exists(d)' /\ account'[d].password = account[d].password
  BY <1>1, AddedAccount
<1>3. /\ session' \in [Sessions -> SessionRows]
      /\ \A r \in Sessions :
           \/ session'[r].user = session[r].user /\ session'[r].flow = session[r].flow
           \/ session'[r].user # {} /\ session'[r].flow = {}
  BY <1>1, OpenedSession
<1>4. AccountTypes'
  BY <1>1, <1>2, <1>3 DEF AccountsInv, AccountTypes
<1> QED
  BY <1>1, <1>2, <1>3, <1>4, AccountsAndSessions

\* The steps that add an account or change its role, and open no session.
LEMMA AccountStep ==
    ASSUME AccountsInv, NEW e \in Emails,
           \/ Register(e)
           \/ \E p \in principal, role \in {"user", "admin"} :
                AdminCreateUser(p, e, role) \/ UpdateUserRole(p, e, role)
    PROVE  AccountsInv'
<1>1. /\ account' \in [Emails -> AccountRows] /\ RowInv'
      /\ \A d \in Emails :
           Exists(d) => Exists(d)' /\ account'[d].password = account[d].password
  <2>1. CASE Register(e)
    <3>1. ~Exists(e) /\ account' = NewAccount(e, "user", TRUE)
      BY <2>1 DEF Register
    <3> QED
      BY <3>1, AddedAccount
  <2>2. ASSUME NEW p \in principal, NEW role \in {"user", "admin"}, AdminCreateUser(p, e, role)
        PROVE  <1>1!1 /\ <1>1!2
    <3>1. ~Exists(e) /\ account' = NewAccount(e, role, TRUE)
      BY <2>2 DEF AdminCreateUser
    <3> QED
      BY <3>1, AddedAccount
  <2>3. ASSUME NEW p \in principal, NEW role \in {"user", "admin"}, UpdateUserRole(p, e, role)
        PROVE  <1>1!1 /\ <1>1!2
    <3>1. Exists(e) /\ account' = [account EXCEPT ![e].role = role]
      BY <2>3 DEF UpdateUserRole, MayChangeRole
    <3> QED
      BY <3>1, ChangedAccount
  <2> QED
    BY <2>1, <2>2, <2>3
<1>2. /\ principal' \subseteq principal
      /\ UNCHANGED << bound, setup, policy, smtp, oauth, binding, code, requested, flow,
                      session, entering, apiKey >>
  BY DEF Register, AdminCreateUser, UpdateUserRole, As
<1>3. AccountTypes'
  BY <1>1, <1>2 DEF AccountsInv, AccountTypes
<1> QED
  BY <1>1, <1>2, <1>3, AccountsAndSessions

LEMMA StatusStep ==
    ASSUME AccountsInv, NEW p \in principal, NEW e \in Emails, NEW new \in {"active", "suspended"},
           UpdateUserStatus(p, e, new) \/ LlmPatchUser(p, e, new)
    PROVE  AccountsInv'
<1> DEFINE S == {r \in Sessions : new # "active" /\ session[r].user = {e}}
<1>1. /\ Exists(e) /\ account' = [account EXCEPT ![e].status = new]
      /\ principal' \subseteq principal
      /\ session' = [r \in Sessions |-> IF r \in S THEN [session[r] EXCEPT !.live = FALSE]
                                          ELSE session[r]]
      /\ UNCHANGED << bound, setup, policy, smtp, oauth, binding, code, requested, flow,
                      entering, apiKey >>
  BY DEF UpdateUserStatus, LlmPatchUser, ChangeStatus, As
<1>2. /\ account' \in [Emails -> AccountRows] /\ RowInv'
      /\ \A d \in Emails :
           Exists(d) => Exists(d)' /\ account'[d].password = account[d].password
  BY <1>1, ChangedAccount
<1> HIDE DEF S
<1>3. /\ session' \in [Sessions -> SessionRows]
      /\ \A r \in Sessions : session'[r].user = session[r].user
                               /\ session'[r].flow = session[r].flow
  BY <1>1, RevokedSession
<1>4. AccountTypes'
  BY <1>1, <1>2, <1>3 DEF AccountsInv, AccountTypes
<1> QED
  BY <1>1, <1>2, <1>3, <1>4, AccountsAndSessions

\* A password login or an impersonation opens a session.
LEMMA SignedInStep ==
    ASSUME AccountsInv, NEW e \in Emails, NEW s \in Sessions,
           \/ Login(e, s)
           \/ \E p \in principal, write \in BOOLEAN : StartImpersonation(p, e, s, write)
    PROVE  AccountsInv'
<1>1. /\ \E actor \in SUBSET Emails, write \in BOOLEAN : NewSession(s, {e}, actor, write, {})
      /\ principal' \subseteq principal /\ entering' \subseteq entering
      /\ UNCHANGED << bound, setup, policy, smtp, oauth, account, binding, code, requested,
                      flow, apiKey >>
  <2>1. CASE Login(e, s)
    BY <2>1 DEF Login
  <2>2. ASSUME NEW p \in principal, NEW write \in BOOLEAN, StartImpersonation(p, e, s, write)
        PROVE  <1>1!1 /\ <1>1!2 /\ <1>1!3
    <3>1. {p.user} \in SUBSET Emails
      BY DEF AccountsInv, AccountTypes, Principals
    <3> QED
      BY <2>2, <3>1 DEF StartImpersonation, As
  <2> QED
    BY <2>1, <2>2
<1>2. /\ session' \in [Sessions -> SessionRows]
      /\ \A r \in Sessions :
           \/ session'[r].user = session[r].user /\ session'[r].flow = session[r].flow
           \/ session'[r].user # {} /\ session'[r].flow = {}
  BY <1>1, OpenedSession
<1>3. AccountTypes' /\ RowInv'
  BY <1>1, <1>2, SameAccounts DEF AccountsInv, AccountTypes
<1> QED
  BY <1>1, <1>2, <1>3, AccountsAndSessions DEF Exists

\* A session ends: its user leaves, or it expires.
LEMMA SignedOutStep ==
    ASSUME AccountsInv,
           \/ \E p \in principal : Logout(p) \/ EndImpersonation(p)
           \/ \E s \in Sessions : ExpireSession(s)
    PROVE  AccountsInv'
<1>1. /\ \E x : session' = [session EXCEPT ![x].live = FALSE]
      /\ principal' \subseteq principal
      /\ UNCHANGED << bound, setup, policy, smtp, oauth, account, binding, code, requested,
                      flow, entering, apiKey >>
  BY DEF Logout, EndImpersonation, ExpireSession
<1>2. PICK x : session' = [session EXCEPT ![x].live = FALSE]
  BY <1>1
<1>3. session' = [r \in Sessions |-> IF r \in {x} THEN [session[r] EXCEPT !.live = FALSE]
                                       ELSE session[r]]
  BY <1>2 DEF AccountsInv, AccountTypes
<1>4. /\ session' \in [Sessions -> SessionRows]
      /\ \A r \in Sessions : session'[r].user = session[r].user
                               /\ session'[r].flow = session[r].flow
  BY <1>3, RevokedSession
<1>5. AccountTypes' /\ RowInv'
  BY <1>1, <1>4, SameAccounts DEF AccountsInv, AccountTypes
<1> QED
  BY <1>1, <1>4, <1>5, AccountsAndSessions DEF Exists

-----------------------------------------------------------------------------
\* Codes.

\* What is left of the invariant once the codes are known to be in order.
LEMMA CodesOnly ==
    ASSUME AccountsInv, code' \in [Codes -> CodeRows], CodeInv', requested' \subseteq requested,
           UNCHANGED << bound, setup, policy, smtp, oauth, account, binding, flow, session,
                        entering, principal, apiKey >>
    PROVE  AccountsInv'
<1>1. AccountTypes' /\ RowInv'
  BY SameAccounts DEF AccountsInv, AccountTypes
<1>2. BindingInv' /\ FlowInv' /\ SessionInv'
  BY SameFlows DEF AccountsInv, Exists
<1> QED
  BY <1>1, <1>2 DEF AccountsInv

\* One code changes: it may stop to be live, never begin to be, and keeps its address.
LEMMA OneCode ==
    ASSUME AccountsInv, NEW c \in Codes, NEW new \in CodeRows, code' = [code EXCEPT ![c] = new],
           new.email = code[c].email,
           new.state = "live" => code[c].state = "live" /\ new.attempts < MaxAttempts
    PROVE  code' \in [Codes -> CodeRows] /\ CodeInv'
<1>1. code' \in [Codes -> CodeRows]
  BY DEF AccountsInv, AccountTypes
<1>2. code'[c] = new /\ \A b \in Codes : b # c => code'[b] = code[b]
  BY DEF AccountsInv, AccountTypes
<1> QED
  BY <1>1, <1>2 DEF AccountsInv, CodeInv, OneLiveCode, IsLive, Codes

\* A new code consumes every other one of its address that is live.
LEMMA IssueCodeStep ==
    ASSUME AccountsInv, NEW e \in Emails, NEW c \in Codes, IssueCode(e, c)
    PROVE  AccountsInv'
<1> DEFINE new == [email |-> {e}, state |-> "live", attempts |-> 0, recent |-> TRUE,
                   mail |-> "pending"]
<1>1. code' = [b \in Codes |->
                 IF b = c THEN new
                 ELSE IF Replaced(b, e) THEN [code[b] EXCEPT !.state = "consumed"] ELSE code[b]]
  BY DEF IssueCode
<1>2. new \in CodeRows
  BY AccountsAssumption DEF CodeRows
<1>3. \A b \in Codes : [code[b] EXCEPT !.state = "consumed"] \in CodeRows
  BY DEF AccountsInv, AccountTypes, CodeRows
<1>4. code' \in [Codes -> CodeRows]
  BY <1>1, <1>2, <1>3 DEF AccountsInv, AccountTypes
<1>5. ASSUME NEW b \in Codes, code'[b].state = "live", b # c
      PROVE  code'[b] = code[b] /\ code[b].email # {e}
  BY <1>1, <1>5 DEF AccountsInv, AccountTypes, CodeRows, Replaced
<1>6. code'[c] = new
  BY <1>1
<1>7. \A b \in Codes : code'[b].state = "live" => code'[b].attempts < MaxAttempts
  BY <1>5, <1>6, AccountsAssumption DEF AccountsInv, CodeInv
<1>8. OneLiveCode'
  BY <1>5, <1>6 DEF AccountsInv, CodeInv, OneLiveCode, IsLive, Codes
<1>9. CodeInv'
  BY <1>7, <1>8 DEF CodeInv, Codes
<1> QED
  BY <1>4, <1>9, CodesOnly DEF IssueCode

LEMMA SendMailStep == ASSUME AccountsInv, NEW c \in Codes, SendMail(c) PROVE AccountsInv'
<1>0. code[c] \in CodeRows
  BY DEF AccountsInv, AccountTypes
<1>1. PICK mail \in {"sent", "lost"}, state \in {code[c].state, "deleted"} :
        code' = [code EXCEPT ![c].mail = mail, ![c].state = state]
  BY DEF SendMail
<1> DEFINE new == [code[c] EXCEPT !.mail = mail, !.state = state]
<1>2. /\ new \in CodeRows /\ new.email = code[c].email /\ new.attempts = code[c].attempts
      /\ new.state = "live" => code[c].state = "live"
      /\ code' = [code EXCEPT ![c] = new]
  BY <1>0, <1>1 DEF CodeRows
<1> HIDE DEF new
<1>3. code' \in [Codes -> CodeRows] /\ CodeInv'
  BY <1>2, OneCode DEF AccountsInv, CodeInv
<1> QED
  BY <1>3, CodesOnly DEF SendMail

LEMMA CodeAgesStep == ASSUME AccountsInv, NEW c \in Codes, CodeAges(c) PROVE AccountsInv'
<1>0. code[c] \in CodeRows
  BY DEF AccountsInv, AccountTypes
<1>1. PICK new \in {[code[c] EXCEPT !.recent = FALSE], [code[c] EXCEPT !.state = "expired"]} :
        code' = [code EXCEPT ![c] = new]
  BY DEF CodeAges
<1>2. /\ new \in CodeRows /\ new.email = code[c].email /\ new.attempts = code[c].attempts
      /\ new.state = "live" => code[c].state = "live"
  BY <1>0, <1>1 DEF CodeRows
<1>3. code' \in [Codes -> CodeRows] /\ CodeInv'
  BY <1>1, <1>2, OneCode DEF AccountsInv, CodeInv
<1> QED
  BY <1>3, CodesOnly DEF CodeAges

LEMMA WrongCodeStep ==
    ASSUME AccountsInv, NEW e \in Emails, NEW c \in Codes,
           RegisterWrongCode(e, c)
    PROVE  AccountsInv'
<1>0. code[c] \in CodeRows /\ code[c].state = "live" /\ code[c].attempts < MaxAttempts
  BY DEF AccountsInv, AccountTypes, CodeInv, RegisterWrongCode, Newest, IsLive
<1> DEFINE tries == code[c].attempts + 1
           state == IF tries >= MaxAttempts THEN "consumed" ELSE "live"
           new == [code[c] EXCEPT !.attempts = tries, !.state = state]
<1>1. code' = [code EXCEPT ![c] = new]
  BY <1>0 DEF RegisterWrongCode, CodeRows
<1>2. /\ tries \in 0 .. MaxAttempts /\ state \in {"consumed", "live"}
      /\ state = "live" => tries < MaxAttempts
  BY <1>0, AccountsAssumption DEF CodeRows
<1> HIDE DEF tries, state
<1>3. /\ new \in CodeRows /\ new.email = code[c].email
      /\ new.state = "live" => new.attempts < MaxAttempts
  BY <1>0, <1>2 DEF CodeRows
<1> HIDE DEF new
<1>4. code' \in [Codes -> CodeRows] /\ CodeInv'
  BY <1>0, <1>1, <1>3, OneCode
<1> QED
  BY <1>4, CodesOnly DEF RegisterWrongCode

\* The account and the end of its code are one transaction.
LEMMA RegisterWithCodeStep ==
    ASSUME AccountsInv, NEW e \in Emails, NEW c \in Codes, RegisterWithCode(e, c)
    PROVE  AccountsInv'
<1>1. /\ code' = [code EXCEPT ![c].state = "consumed"]
      /\ ~Exists(e) /\ account' = NewAccount(e, "user", TRUE)
      /\ UNCHANGED << bound, setup, policy, smtp, oauth, binding, requested, flow, session,
                      entering, principal, apiKey >>
  BY DEF RegisterWithCode
<1>2. /\ account' \in [Emails -> AccountRows] /\ RowInv'
      /\ \A d \in Emails :
           Exists(d) => Exists(d)' /\ account'[d].password = account[d].password
  BY <1>1, AddedAccount
<1>3. code' \in [Codes -> CodeRows] /\ CodeInv'
  <2> DEFINE new == [code[c] EXCEPT !.state = "consumed"]
  <2>1. new \in CodeRows /\ new.email = code[c].email /\ new.state # "live"
    BY DEF AccountsInv, AccountTypes, CodeRows
  <2>2. code' = [code EXCEPT ![c] = new]
    BY <1>1
  <2> HIDE DEF new
  <2> QED
    BY <2>1, <2>2, OneCode
<1>4. AccountTypes'
  BY <1>1, <1>2, <1>3 DEF AccountsInv, AccountTypes
<1>5. BindingInv' /\ FlowInv' /\ SessionInv'
  BY <1>1, <1>2, SameFlows DEF AccountsInv
<1> QED
  BY <1>2, <1>3, <1>4, <1>5 DEF AccountsInv

-----------------------------------------------------------------------------
\* Flows.

\* What is left of the invariant when one flow goes on.
LEMMA FlowOnly ==
    ASSUME AccountsInv, NEW f \in Flows, flow[f].stage # "over", NEW next \in FlowRows,
           flow' = [flow EXCEPT ![f] = next],
           next.stage \in Late =>
               next.user # {} /\ \E i \in Identities : next.who = {i} /\ binding[i] = next.user,
           UNCHANGED << bound, setup, policy, smtp, oauth, account, binding, code, requested,
                        session, entering, principal, apiKey >>
    PROVE  AccountsInv'
<1>1. AccountTypes'
  BY DEF AccountsInv, AccountTypes
<1>2. RowInv' /\ CodeInv'
  BY SameAccounts, SameCodes DEF AccountsInv
<1>3. flow'[f] = next /\ \A g \in Flows : g # f => flow'[g] = flow[g]
  BY DEF AccountsInv, AccountTypes
<1>4. BindingInv' /\ FlowInv' /\ SessionInv'
  BY <1>3, OneFlow DEF AccountsInv
<1> QED
  BY <1>1, <1>2, <1>4 DEF AccountsInv

\* The flow begins, is consumed by its callback, and the provider names somebody.
LEMMA EarlyFlowStep ==
    ASSUME AccountsInv, NEW f \in Flows,
           \/ OauthStart(f) \/ OauthCallback(f)
           \/ \E i \in Identities, e \in Emails : FetchOAuthUser(f, i, e)
    PROVE  AccountsInv'
<1>0. flow[f] \in FlowRows
  BY DEF AccountsInv, AccountTypes
<1>1. CASE OauthStart(f)
  <2> DEFINE next == [flow[f] EXCEPT !.stage = "open"]
  <2>1. next \in FlowRows /\ next.stage \notin Late
    BY <1>0 DEF FlowRows, Stages, Late
  <2>2. flow' = [flow EXCEPT ![f] = next]
    BY <1>1 DEF OauthStart
  <2> HIDE DEF next
  <2> QED
    BY <1>1, <2>1, <2>2, FlowOnly DEF OauthStart
<1>2. CASE OauthCallback(f)
  <2> DEFINE next == [NoFlow EXCEPT !.stage = "consumed"]
  <2>1. next \in FlowRows /\ next.stage \notin Late
    BY DEF NoFlow, FlowRows, Stages, Late
  <2>2. flow' = [flow EXCEPT ![f] = next] /\ flow[f].stage # "over"
    BY <1>2 DEF OauthCallback, Unconsumed
  <2> HIDE DEF next
  <2> QED
    BY <1>2, <2>1, <2>2, FlowOnly DEF OauthCallback
<1>3. ASSUME NEW i \in Identities, NEW e \in Emails, FetchOAuthUser(f, i, e) PROVE AccountsInv'
  <2> DEFINE next == [flow[f] EXCEPT !.stage = "fetched", !.who = {i}, !.reported = {e}]
  <2>1. next \in FlowRows /\ next.stage \notin Late
    BY <1>0 DEF FlowRows, Stages, Late
  <2>2. flow' = [flow EXCEPT ![f].stage = "fetched", ![f].who = {i}, ![f].reported = {e}]
        /\ flow[f].stage # "over"
    BY <1>3 DEF FetchOAuthUser
  <2>3. flow' = [flow EXCEPT ![f] = next]
    BY <1>0, <2>2 DEF FlowRows
  <2> HIDE DEF next
  <2> QED
    BY <1>3, <2>1, <2>2, <2>3, FlowOnly DEF FetchOAuthUser
<1> QED
  BY <1>1, <1>2, <1>3

\* The result is issued, read, or the flow ends: nobody changes whom it is for.
LEMMA LateFlowStep ==
    ASSUME AccountsInv, NEW f \in Flows, IssueResult(f) \/ ReadResult(f) \/ FlowEnds(f)
    PROVE  AccountsInv'
<1>0. flow[f] \in FlowRows
  BY DEF AccountsInv, AccountTypes
<1>1. PICK stage \in {"issued", "exchanging", "over"} :
        /\ flow' = [flow EXCEPT ![f].stage = stage]
        /\ stage \in Late => flow[f].stage \in Late
        /\ flow[f].stage # "over"
  BY DEF IssueResult, ReadResult, FlowEnds, Late
<1> DEFINE next == [flow[f] EXCEPT !.stage = stage]
<1>2. flow' = [flow EXCEPT ![f] = next]
  BY <1>1
<1>3. next \in FlowRows /\ next.stage = stage /\ next.who = flow[f].who /\ next.user = flow[f].user
  BY <1>0 DEF FlowRows, Stages
<1> HIDE DEF next
<1>4. next.stage \in Late =>
        next.user # {} /\ \E i \in Identities : next.who = {i} /\ binding[i] = next.user
  BY <1>1, <1>3 DEF AccountsInv, FlowInv, Named
<1>5. UNCHANGED << bound, setup, policy, smtp, oauth, account, binding, code, requested,
                   session, entering, principal, apiKey >>
  BY DEF IssueResult, ReadResult, FlowEnds
<1> QED
  BY <1>1, <1>2, <1>3, <1>4, <1>5, FlowOnly

\* The account that is found or created for the identity.
LEMMA ResolveStep ==
    ASSUME AccountsInv, NEW f \in Flows, NEW i \in Identities, NEW e \in Emails,
           ResolveOAuthUser(f, i, e)
    PROVE  AccountsInv'
<1>0. /\ flow[f] \in FlowRows /\ binding[i] \in SUBSET Emails
      /\ flow[f].stage = "fetched" /\ flow[f].who = {i}
      /\ UNCHANGED << bound, setup, policy, smtp, oauth, code, requested, session, entering,
                      principal, apiKey >>
  BY DEF AccountsInv, AccountTypes, ResolveOAuthUser
<1>1. CASE /\ binding[i] # {}
           /\ flow' = [flow EXCEPT ![f].stage = "resolved", ![f].user = binding[i]]
           /\ UNCHANGED << account, binding >>
  <2> DEFINE next == [flow[f] EXCEPT !.stage = "resolved", !.user = binding[i]]
  <2>1. next \in FlowRows /\ next.who = {i} /\ next.user = binding[i]
    BY <1>0 DEF FlowRows, Stages
  <2>2. flow' = [flow EXCEPT ![f] = next]
    BY <1>0, <1>1 DEF FlowRows
  <2> HIDE DEF next
  <2> QED
    BY <1>0, <1>1, <2>1, <2>2, FlowOnly
<1>2. CASE /\ binding[i] = {} /\ MayCreate(e)
           /\ account' = NewAccount(e, "user", account[e].password)
           /\ binding' = [binding EXCEPT ![i] = {e}]
           /\ flow' = [flow EXCEPT ![f].stage = "resolved", ![f].user = {e}]
  <2> DEFINE next == [flow[f] EXCEPT !.stage = "resolved", !.user = {e}]
  <2>1. next \in FlowRows /\ next.who = {i} /\ next.user = {e}
    BY <1>0 DEF FlowRows, Stages
  <2>2. flow' = [flow EXCEPT ![f] = next]
    BY <1>0, <1>2 DEF FlowRows
  <2> HIDE DEF next
  <2>3. /\ flow'[f] = next
        /\ \A g \in Flows : g # f => flow'[g] = flow[g]
        /\ flow' \in [Flows -> FlowRows]
    BY <2>1, <2>2 DEF AccountsInv, AccountTypes
  <2>4. /\ binding' \in [Identities -> SUBSET Emails]
        /\ binding'[i] = {e}
        /\ \A j \in Identities : j # i => binding'[j] = binding[j]
    BY <1>2 DEF AccountsInv, AccountTypes
  <2>5. ~Exists(e) /\ account[e].password = FALSE
    BY <1>2 DEF AccountsInv, AccountTypes, AccountRows, RowInv, MayCreate
  <2>6. /\ account' \in [Emails -> AccountRows] /\ RowInv'
        /\ \A d \in Emails :
             Exists(d) => Exists(d)' /\ account'[d].password = account[d].password
    BY <1>2, <2>5, AddedAccount
  <2>7. Exists(e)' /\ ~account'[e].password
    BY <1>2, <2>5 DEF AccountsInv, AccountTypes, NewAccount, Exists
  <2>8. AccountTypes'
    BY <1>0, <2>3, <2>4, <2>6 DEF AccountsInv, AccountTypes
  <2>9. CodeInv'
    BY <1>0, SameCodes DEF AccountsInv
  <2>10. BindingInv'
    BY <2>4, <2>6, <2>7 DEF AccountsInv, AccountTypes, BindingInv
  <2>11. FlowInv'
    <3>1. Named(f, {e})'
      BY <2>1, <2>3, <2>4 DEF Named
    <3>2. ASSUME NEW g \in Flows, g # f, flow'[g].stage \in Late
          PROVE  Named(g, flow[g].user)' /\ flow'[g].user = flow[g].user
      <4>1. flow'[g] = flow[g]
        BY <2>3, <3>2
      <4>2. PICK j \in Identities :
              flow[g].who = {j} /\ binding[j] = flow[g].user /\ binding[j] # {}
        BY <3>2, <4>1 DEF AccountsInv, FlowInv, Named
      <4> QED
        BY <1>2, <2>4, <4>1, <4>2 DEF Named
    <3> QED
      BY <2>1, <2>3, <3>1, <3>2 DEF FlowInv
  <2>12. \A s \in Sessions : f \notin session[s].flow /\ session[s].flow \subseteq Flows
    BY <1>0 DEF AccountsInv, SessionInv, AccountTypes, SessionRows
  <2>13. SessionInv'
    BY <1>0, <1>2, <2>3, <2>4, <2>12 DEF AccountsInv, SessionInv, Named, Sessions
  <2> QED
    BY <2>6, <2>8, <2>9, <2>10, <2>11, <2>13 DEF AccountsInv
<1> QED
  BY <1>1, <1>2 DEF ResolveOAuthUser

\* The exchange: the flow has no session yet, because it is not over.
LEMMA ExchangeStep ==
    ASSUME AccountsInv, NEW f \in Flows, NEW s \in Sessions, OauthExchange(f, s)
    PROVE  AccountsInv'
<1>1. /\ flow[f].stage = "exchanging" /\ session[s].user = {}
      /\ session' = [session EXCEPT ![s] = [user |-> flow[f].user, actor |-> {}, write |-> TRUE,
                                            live |-> TRUE, flow |-> {f}]]
      /\ flow' = [flow EXCEPT ![f].stage = "over"]
      /\ UNCHANGED << bound, setup, policy, smtp, oauth, account, binding, code, requested,
                      entering, principal, apiKey >>
  BY DEF OauthExchange, FreeSession, NewSession
<1>2. flow[f] \in FlowRows /\ flow[f].user \in SUBSET Emails
  BY DEF AccountsInv, AccountTypes, FlowRows
<1>3. /\ session' \in [Sessions -> SessionRows]
      /\ session'[s].user = flow[f].user /\ session'[s].flow = {f}
      /\ \A r \in Sessions : r # s => session'[r] = session[r]
  BY <1>1, <1>2 DEF AccountsInv, AccountTypes, SessionRows
<1>4. /\ flow' \in [Flows -> FlowRows]
      /\ flow'[f].stage = "over"
      /\ \A g \in Flows : /\ flow'[g].who = flow[g].who /\ flow'[g].user = flow[g].user
                          /\ g # f => flow'[g] = flow[g]
  BY <1>1, <1>2 DEF AccountsInv, AccountTypes, FlowRows, Stages
<1>5. Named(f, flow[f].user)
  BY <1>1 DEF AccountsInv, FlowInv, Late
<1>6. \A r \in Sessions : f \notin session[r].flow /\ session[r].flow \subseteq Flows
  BY <1>1 DEF AccountsInv, SessionInv, AccountTypes, SessionRows
<1>7. AccountTypes'
  BY <1>1, <1>3, <1>4 DEF AccountsInv, AccountTypes
<1>8. RowInv' /\ CodeInv'
  BY <1>1, SameAccounts, SameCodes DEF AccountsInv
<1>9. BindingInv'
  BY <1>1 DEF AccountsInv, BindingInv, Exists
<1>10. FlowInv'
  BY <1>1, <1>4 DEF AccountsInv, FlowInv, Named, Late
<1>11. SessionInv'
  BY <1>1, <1>3, <1>4, <1>5, <1>6 DEF AccountsInv, SessionInv, Named, Sessions
<1> QED
  BY <1>7, <1>8, <1>9, <1>10, <1>11 DEF AccountsInv

-----------------------------------------------------------------------------
LEMMA SignInStep ==
    ASSUME AccountsInv, NEW f \in Flows, SignIn(f)
    PROVE  AccountsInv'
BY EarlyFlowStep, LateFlowStep, ResolveStep, ExchangeStep DEF SignIn

LEMMA AdministrationStep ==
    ASSUME AccountsInv, Administration
    PROVE  AccountsInv'
BY SettingsStep, AccountStep, StatusStep, SignedInStep, SignedOutStep DEF Administration

LEMMA NextAccountsInv == AccountsInv /\ [AccountsNext]_accountsVars => AccountsInv'
<1> SUFFICES ASSUME AccountsInv, [AccountsNext]_accountsVars PROVE AccountsInv'
  OBVIOUS
<1>1. CASE UNCHANGED accountsVars
  BY <1>1, NoStep
<1>2. CASE AuthenticateKey \/ Refuse \/ Administration
  BY <1>2, AuthenticateKeyStep, RefuseStep, AdministrationStep
<1>3. ASSUME NEW s \in Sessions, Authenticate(s) \/ ExpireSession(s) PROVE AccountsInv'
  BY <1>3, AuthenticateStep, SignedOutStep
<1>4. ASSUME NEW c \in Codes, SendMail(c) \/ CodeAges(c) PROVE AccountsInv'
  BY <1>4, SendMailStep, CodeAgesStep
<1>5. ASSUME NEW e \in Emails, RequestCode(e) \/ Register(e) \/ ReadLogin(e)
      PROVE  AccountsInv'
  BY <1>5, RequestStep, AccountStep
<1>6. ASSUME NEW e \in Emails, NEW s \in Sessions, Initialize(e, s) \/ Login(e, s)
      PROVE  AccountsInv'
  BY <1>6, InitializeStep, SignedInStep
<1>7. ASSUME NEW e \in Emails, NEW c \in Codes,
             IssueCode(e, c) \/ RegisterWithCode(e, c) \/ RegisterWrongCode(e, c)
      PROVE  AccountsInv'
  BY <1>7, IssueCodeStep, RegisterWithCodeStep, WrongCodeStep
<1>8. ASSUME NEW f \in Flows, SignIn(f) PROVE AccountsInv'
  BY <1>8, SignInStep
<1> QED
  BY <1>1, <1>2, <1>3, <1>4, <1>5, <1>6, <1>7, <1>8 DEF AccountsNext

LEMMA AccountsInvariant == AccountsSpec => []AccountsInv
<1>1. AccountsInit => AccountsInv
  BY InitAccountsInv
<1>2. AccountsInv /\ [AccountsNext]_accountsVars => AccountsInv'
  BY NextAccountsInv
<1> QED
  BY <1>1, <1>2, PTL DEF AccountsSpec

(* Type correctness.  That no code counts more wrong attempts than           *)
(* MaxAttempts is part of it (register), and that nobody acts with the role  *)
(* of an account that does not exist (authenticate).                         *)
THEOREM AccountsTypeCorrect == AccountsSpec => []AccountsTypeOK
<1>1. AccountsInv => AccountsTypeOK
  BY DEF AccountsInv, AccountTypes, AccountsTypeOK, AccountRows, CodeRows, FlowRows, SessionRows,
         Principals
<1> QED
  BY <1>1, AccountsInvariant, PTL

(* For every set of addresses and any number of requests, mails and wrong    *)
(* attempts, an address has at most one code that counts: sendVerification-  *)
(* Code consumes the others, expired ones included, when it stores one.      *)
THEOREM AccountsOneLiveCode == AccountsSpec => []OneLiveCode
<1>1. AccountsInv => OneLiveCode
  BY DEF AccountsInv, CodeInv
<1> QED
  BY <1>1, AccountsInvariant, PTL

(* However often callback and exchange are repeated or fail, and whoever     *)
(* registers, is created or suspended meanwhile, an OAuth sign-in opens at   *)
(* most one session, and it is for the account the identity the provider     *)
(* named is bound to (oauthCallback, resolveOAuthUser, oauthExchange).       *)
THEOREM AccountsFlowSignsInOnce == AccountsSpec => []FlowSignsInOnce
<1>1. AccountsInv => FlowSignsInOnce
  BY DEF AccountsInv, SessionInv, Named, FlowSignsInOnce
<1> QED
  BY <1>1, AccountsInvariant, PTL

(* The code binds an identity only to an account it creates for it, never to *)
(* one that was registered with a password or created by an administrator.   *)
(* docs/operations.md:201 speaks of existing accounts that are bound; see    *)
(* ExistingIsBound.                                                          *)
THEOREM AccountsBindingsAreNew == AccountsSpec => []BindingInv
<1>1. AccountsInv => BindingInv
  BY DEF AccountsInv
<1> QED
  BY <1>1, AccountsInvariant, PTL
=============================================================================
