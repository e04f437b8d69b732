----------------------- MODULE MC_Subscriptions -----------------------
(* A small price list: a free plan, a dearer one, and a basic plan whose  *)
(* second version costs more than the first.                              *)
EXTENDS Subscriptions, TLC

MCPlanOf == <<"free", "basic", "pro", "basic">>
MCPrice == <<0, 1, 2, 2>>
MCCredit == <<0, 1, 2, 1>>
Symmetry == Permutations(Keys)
=============================================================================
