------------------------------ MODULE MCPWRApp -------------------------------
(***************************************************************************)
(* PWRApp for TLC.  Users, states and requests are model values, and every *)
(* state has the two senators that senators.xml gives it.                  *)
(***************************************************************************)
EXTENDS PWRApp, TLC

TwoSenatorsEach == [s \in States |-> 2]

\* Users, states and requests are interchangeable.
Interchangeable ==
    Permutations(Users) \cup Permutations(States) \cup Permutations(Requests)
=============================================================================
