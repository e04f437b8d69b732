----------------------------- MODULE MC_Accounts -----------------------------
(* Instances of Accounts for TLC.                                           *)
EXTENDS Accounts

CONSTANTS a, b, i, f

EmailsBoth   == {a, b}
IdentityOne  == {i}
ReportedOne  == [x \in {i} |-> {b}]
FlowsOne     == {f}

Passwords    == {"passwordLogin", "passwordRegistration"}
Open         == Passwords \union {"registration"}
Verified     == Open \union {"verification"}

(* Behaviours about codes, about sign-in and about administrators.          *)
BoundCodes   == [codes |-> 2, sessions |-> 1, flows |-> {}, requests |-> 1,
                 policies |-> {Verified}]
BoundSignIn  == [codes |-> 0, sessions |-> 3, flows |-> {f}, requests |-> 1,
                 policies |-> {Passwords, {"registration"}}]
BoundAdmin   == [codes |-> 0, sessions |-> 3, flows |-> {}, requests |-> 2,
                 policies |-> {Open}]
BoundsThree  == {BoundCodes, BoundSignIn, BoundAdmin}
=============================================================================
