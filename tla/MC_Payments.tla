---------------------------- MODULE MC_Payments ----------------------------
(* Small instances of Payments for TLC.                                     *)
EXTENDS Payments, TLC

CONSTANTS o1, o2, o3, u1, t1, t2

OneBuyer == [o \in Orders |-> u1]
ByHand == [o \in Orders |-> IF o = o3 THEN "manual" ELSE "epay"]
Cents == [o \in Orders |-> IF o = o2 THEN 1 ELSE 2]
=============================================================================
