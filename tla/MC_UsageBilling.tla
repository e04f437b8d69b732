--------------------------- MODULE MC_UsageBilling ---------------------------
(* Small instances of UsageBilling for TLC.                               *)
EXTENDS UsageBilling, TLC

CONSTANTS a1, a2, u1, u2, m1, m2, v1, v2

OneOwner == [a \in Apps |-> u1]
OwnOwner == [a \in Apps |-> IF a = a1 THEN u1 ELSE u2]
OneApp == [m \in Meters |-> a1]
OwnApp == [m \in Meters |-> IF m = m1 THEN a1 ELSE a2]
Cents == [v \in Versions |-> IF v = v1 THEN 1 ELSE 2]
Refill == {-1, 2}
=============================================================================
