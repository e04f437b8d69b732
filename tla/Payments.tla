------------------------------ MODULE Payments ------------------------------
(***************************************************************************)
(* Recharge orders (internal/httpapi/payment_features.go, epay_callback.go,*)
(* payment_operations.go, payment_provider.go): creation, payment by an    *)
(* administrator or by a callback of the EPay provider, closing and        *)
(* refund, with the wallet and its ledger.                                 *)
(*                                                                         *)
(* A transaction is one action: all of them lock the order first and the   *)
(* wallet after it.  Creating and closing an order read the configuration  *)
(* or the order before their transaction begins and take two actions.      *)
(* The provider is external: it repeats callbacks, delivers them late, in  *)
(* any order, and may report an amount or a trade number that is not the   *)
(* order's.                                                                *)
(***************************************************************************)
EXTENDS Integers, FiniteSets, FiniteSetsExt

CONSTANTS
    Users,
    Orders,             \* orders, one per user and idempotency key
    Buyer, Provider,    \* the user and the provider of an order
    AmountCents,        \* amount_cents of an order
    Trades, NoTrade,    \* trade numbers of the provider; NoTrade: no provider_ref
    CallbackAmounts,    \* amounts a callback may report
    MaxCharges,         \* bound on the usage charges of a user
    ChargeCents         \* cents of a usage charge

Providers == {"manual", "epay"}

ASSUME OrdersAssumption == Buyer \in [Orders -> Users] /\ Provider \in [Orders -> Providers]
ASSUME AmountsAssumption ==
    /\ AmountCents \in [Orders -> Nat \ {0}]
    /\ CallbackAmounts \subseteq Nat
    /\ ChargeCents \in Nat \ {0}
    /\ MaxCharges \in Nat
ASSUME TradesAssumption == NoTrade \notin Trades

VARIABLES
    enabled,    \* payment_provider_configs.enabled
    status,     \* payment_orders.status, "none" before the order is there
    ref,        \* payment_orders.provider_ref
    refund,     \* orders with a refund record, always succeeded
    balance,    \* wallets.balance_cents
    ledger,     \* wallet_ledger_entries: wallet, type, reference and amount
    creating,   \* createPaymentOrder requests that found their provider enabled
    closing,    \* closePayment requests that found their order to be closed
    answer,     \* orders an administrator was told are closed
    callbacks,  \* callbacks the provider may send, again and again
    acked       \* callbacks answered with "success"

vars == <<enabled, status, ref, refund, balance, ledger, creating, closing, answer,
          callbacks, acked>>
wallets == <<balance, ledger>>
requests == <<creating, closing, answer>>

Statuses == {"none", "pending", "paid", "closed", "refunded"}
Charges == {"charge"} \X (1..MaxCharges)
Entries == [user: Users, type: {"topup", "refund", "usage"}, ref: Orders \cup Charges, amount: Int]
Callbacks == [order: Orders, trade: Trades, amount: CallbackAmounts]

TypeOK ==
    /\ enabled \in [Providers -> BOOLEAN]
    /\ status \in [Orders -> Statuses]
    /\ ref \in [Orders -> Trades \cup {NoTrade}]
    /\ refund \subseteq Orders
    /\ balance \in [Users -> Nat]
    /\ ledger \subseteq Entries
    /\ creating \subseteq Orders /\ closing \subseteq Orders /\ answer \subseteq Orders
    /\ callbacks \subseteq Callbacks /\ acked \subseteq callbacks

Init ==
    /\ enabled = [p \in Providers |-> p = "manual"]
    /\ status = [o \in Orders |-> "none"]
    /\ ref = [o \in Orders |-> NoTrade]
    /\ refund = {}
    /\ balance = [u \in Users |-> 0]
    /\ ledger = {}
    /\ creating = {} /\ closing = {} /\ answer = {}
    /\ callbacks = {} /\ acked = {}

\* One ledger entry and the balance with it.
Post(u, type, r, amount) ==
    /\ balance' = [balance EXCEPT ![u] = @ + amount]
    /\ ledger' = ledger \cup {[user |-> u, type |-> type, ref |-> r, amount |-> amount]}

-----------------------------------------------------------------------------
(* Settings and orders.                                                    *)

UpdatePaymentSettings(p) ==
    /\ enabled' = [enabled EXCEPT ![p] = ~@]
    /\ UNCHANGED <<status, ref, refund, wallets, requests, callbacks, acked>>

\* createPaymentOrder before its transaction.
CheckProvider(o) ==
    /\ enabled[Provider[o]]
    /\ creating' = creating \cup {o}
    /\ UNCHANGED <<enabled, status, ref, refund, wallets, closing, answer, callbacks, acked>>

\* The transaction of createPaymentOrder: a key used before answers with the
\* order that is there.
CreatePaymentOrder(o) ==
    /\ o \in creating
    /\ creating' = creating \ {o}
    /\ status' = [status EXCEPT ![o] = IF @ = "none" THEN "pending" ELSE @]
    /\ UNCHANGED <<enabled, ref, refund, wallets, closing, answer, callbacks, acked>>

\* markPaymentPaid: any pending order, whatever its provider; a repeated request
\* changes nothing.
MarkPaymentPaid(o) ==
    /\ status[o] = "pending"
    /\ Post(Buyer[o], "topup", o, AmountCents[o])
    /\ status' = [status EXCEPT ![o] = "paid"]
    /\ UNCHANGED <<enabled, ref, refund, requests, callbacks, acked>>

\* Mutant: the balance is not looked at.
Refundable_Overdraw(o) == status[o] = "paid" /\ Provider[o] = "manual"

\* Mutant: a refunded order is refunded again.
Refundable_Again(o) ==
    status[o] \in {"paid", "refunded"} /\ Provider[o] = "manual"
        /\ balance[Buyer[o]] >= AmountCents[o]

Refundable(o) ==
    status[o] = "paid" /\ Provider[o] = "manual" /\ balance[Buyer[o]] >= AmountCents[o]

\* refundPayment: paid -> refunding -> refunded and processing -> succeeded in one
\* transaction; every other case leaves the order alone.
RefundPayment(o) ==
    /\ Refundable(o)
    /\ Post(Buyer[o], "refund", o, -AmountCents[o])
    /\ refund' = refund \cup {o}
    /\ status' = [status EXCEPT ![o] = "refunded"]
    /\ UNCHANGED <<enabled, ref, requests, callbacks, acked>>

\* closePayment reads the order and asks the provider; EPay has no close, and a
\* manual order is refused unless it is pending or closed.
ReadForClose(o) ==
    /\ Provider[o] = "manual"
    /\ status[o] \in {"pending", "closed"}
    /\ closing' = closing \cup {o}
    /\ UNCHANGED <<enabled, status, ref, refund, wallets, creating, answer, callbacks, acked>>

\* Mutant: the order is closed as it was read.
Closed_Stale(o) == "closed"

Closed(o) == IF status[o] = "pending" THEN "closed" ELSE status[o]

\* The transaction of closePayment, and the answer: status "closed" in any case.
ClosePayment(o) ==
    /\ o \in closing
    /\ closing' = closing \ {o}
    /\ status' = [status EXCEPT ![o] = Closed(o)]
    /\ answer' = answer \cup {o}
    /\ UNCHANGED <<enabled, ref, refund, wallets, creating, callbacks, acked>>

-----------------------------------------------------------------------------
(* The provider.                                                           *)

\* A user pays with the checkout URL of an order, which stays valid.
PayAtProvider(o, t, amount) ==
    /\ Provider[o] = "epay"
    /\ status[o] # "none"
    /\ callbacks' = callbacks \cup {[order |-> o, trade |-> t, amount |-> amount]}
    /\ UNCHANGED <<enabled, status, ref, refund, wallets, requests, acked>>

\* Mutants: the amount, or the trade number, is not compared.
Accepted_AnyAmount(m) ==
    /\ enabled["epay"]
    /\ \A o \in Orders \ {m.order} : ref[o] # m.trade
    /\ status[m.order] \in {"pending", "paid"}

Accepted_AnyTrade(m) ==
    /\ enabled["epay"]
    /\ m.amount = AmountCents[m.order]
    /\ status[m.order] \in {"pending", "paid"}

\* The checks of epayCallback, after the signature.
Accepted(m) ==
    /\ enabled["epay"]
    /\ m.amount = AmountCents[m.order]
    /\ \A o \in Orders \ {m.order} : ref[o] # m.trade
    /\ status[m.order] \in {"pending", "paid"}

EpayCallback(m) ==
    /\ Accepted(m)
    /\ acked' = acked \cup {m}
    /\ \/ /\ status[m.order] = "paid"
          /\ UNCHANGED <<status, ref, wallets>>
       \/ /\ status[m.order] = "pending"
          /\ Post(Buyer[m.order], "topup", m.order, m.amount)
          /\ status' = [status EXCEPT ![m.order] = "paid"]
          /\ ref' = [ref EXCEPT ![m.order] = m.trade]
    /\ UNCHANGED <<enabled, refund, requests, callbacks>>

\* A usage charge (module UsageBilling).
Spend(u, c) ==
    /\ balance[u] >= ChargeCents
    /\ \A e \in ledger : ~(e.user = u /\ e.type = "usage" /\ e.ref = c)
    /\ Post(u, "usage", c, -ChargeCents)
    /\ UNCHANGED <<enabled, status, ref, refund, requests, callbacks, acked>>

-----------------------------------------------------------------------------
Next ==
    \/ \E p \in Providers : UpdatePaymentSettings(p)
    \/ \E o \in Orders :
        \/ CheckProvider(o) \/ CreatePaymentOrder(o)
        \/ MarkPaymentPaid(o) \/ RefundPayment(o)
        \/ ReadForClose(o) \/ ClosePayment(o)
        \/ \E t \in Trades, amount \in CallbackAmounts : PayAtProvider(o, t, amount)
    \/ \E m \in callbacks : EpayCallback(m)
    \/ \E u \in Users, c \in Charges : Spend(u, c)

Spec == Init /\ [][Next]_vars

-----------------------------------------------------------------------------
(* Properties.                                                             *)

\* The ledger of a user; business type and reference identify an entry.
WalletLedger ==
    [u \in Users |-> {[ref |-> <<e.type, e.ref>>, amount |-> e.amount] :
                         e \in {f \in ledger : f.user = u}}]

W == INSTANCE Wallet WITH ledger <- WalletLedger

(* Top-ups by administrators and by callbacks, refunds and charges implement *)
(* the wallet specification, in any order and however often a request or a   *)
(* callback is repeated: one new entry moves the balance by its amount in    *)
(* the same transaction and never overdraws it.                              *)
ImplementsWallet == W!Spec

EntriesOf(o) == {e \in ledger : e.type # "usage" /\ e.ref = o}
Entry(o, type, amount) == [user |-> Buyer[o], type |-> type, ref |-> o, amount |-> amount]

LedgerInv(o) ==
    EntriesOf(o) =
        CASE status[o] = "paid" -> {Entry(o, "topup", AmountCents[o])}
          [] status[o] = "refunded" -> {Entry(o, "topup", AmountCents[o]),
                                        Entry(o, "refund", -AmountCents[o])}
          [] OTHER -> {}

(* The status of an order and the ledger tell the same story: a paid order   *)
(* was credited to its buyer once and with its own amount, a refunded one    *)
(* was also debited once, any other order never moved money, although an     *)
(* administrator, repeated callbacks and a close may work on it at once.     *)
StatusMatchesLedger ==
    /\ \A o \in Orders : LedgerInv(o)
    /\ refund = {o \in Orders : status[o] = "refunded"}

(* A trade number of the provider pays for one order, whatever the provider  *)
(* reports later, and only for orders whose callback was answered.           *)
TradePaysOnce ==
    /\ \A o, p \in Orders : ref[o] = ref[p] /\ ref[o] # NoTrade => o = p
    /\ \A o \in Orders : ref[o] # NoTrade =>
           \E m \in acked : m.order = o /\ m.trade = ref[o] /\ m.amount = AmountCents[o]

(* The provider stops sending a callback that was answered with "success":   *)
(* by then the buyer has been credited.                                      *)
AckedIsCredited ==
    \A m \in acked :
        Entry(m.order, "topup", AmountCents[m.order]) \in ledger

(* "Pending payment order closed after provider confirmation" is what        *)
(* docs/openapi.yaml says of the answer 200 of closePayment.                 *)
AnsweredIsClosed == \A o \in answer : status[o] = "closed"

=============================================================================
