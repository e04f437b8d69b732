------------------------ MODULE MC_AppLifecycle ------------------------
(* Small instances of AppLifecycle for TLC.                               *)
EXTENDS AppLifecycle, TLC

CONSTANTS a1, a2, u1

OneUser == [a \in Apps |-> u1]
Pair == {<<a2, a1>>}        \* a2 requires a1
NoPair == {}
=============================================================================
