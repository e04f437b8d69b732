------------------------------ MODULE MC_Backups ------------------------------
(* Small instances of Backups for TLC.                                        *)
EXTENDS Backups, TLC

CONSTANTS a1, b1, b2

OneApp == [b \in Backups |-> a1]
===============================================================================
