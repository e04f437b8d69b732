------------------------------- MODULE Wallet -------------------------------
(***************************************************************************)
(* What every handler that moves money promises of a wallet: entries are   *)
(* only ever added to its ledger, one at a time and each under a reference *)
(* of its own, the balance moves by the amount of the entry in the same    *)
(* step, and it never becomes negative.  The tables wallets and            *)
(* wallet_ledger_entries are shared by billing (module UsageBilling) and   *)
(* payments (module Payments), each of which is shown to implement this    *)
(* specification.                                                          *)
(***************************************************************************)
EXTENDS Integers

CONSTANT Users

VARIABLES
    balance,    \* wallets.balance_cents
    ledger      \* wallet_ledger_entries of a user: reference and amount

vars == <<balance, ledger>>

Init ==
    /\ balance = [u \in Users |-> 0]
    /\ ledger = [u \in Users |-> {}]

\* Entry e is posted: it moves money, its reference is new, and the balance
\* covers it.
Post(u, e) ==
    /\ e.amount # 0
    /\ \A f \in ledger[u] : f.ref # e.ref
    /\ balance[u] + e.amount >= 0
    /\ balance' = [balance EXCEPT ![u] = @ + e.amount]
    /\ ledger' = [ledger EXCEPT ![u] = @ \cup {e}]

Next == \E u \in Users : \E e \in ledger'[u] \ ledger[u] : Post(u, e)

Spec == Init /\ [][Next]_vars
=============================================================================
