---------------------------- MODULE MCAuthIssuer ----------------------------
(* AuthIssuer with alice in the catalog and a stranger outside it. *)
EXTENDS AuthIssuer, TLC

CONSTANTS alice, stranger, k1, k2

OneUser == {alice}
OneUserAndStranger == {alice, stranger}
BothKeys == {k1, k2}
OneKey == {k1}
AliceHasK1 == [wellFormed |-> TRUE, keys |-> (alice :> k1)]
SafetySymmetry == Permutations(Requests) \cup Permutations(Audiences)
=============================================================================
