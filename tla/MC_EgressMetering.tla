------------------------- MODULE MC_EgressMetering -------------------------
(* Small instances of EgressMetering for TLC.                               *)
EXTENDS EgressMetering, TLC

CONSTANTS a1, s1, s2

OneApp == [s \in Samples |-> a1]
Sizes == [s \in Samples |-> IF s = s1 THEN 1 ELSE 2]
=============================================================================
