--------------------------- MODULE MCCatalogKeys ---------------------------
(* CatalogKeys on two users with one or two keys each.                     *)
EXTENDS CatalogKeys, TLC

CONSTANTS u1, u2, k1, k2

MCUsers == {u1, u2}
MCKeys == {k1, k2}
MCFirstCatalog == [wellFormed |-> TRUE, keys |-> (u1 :> k1 @@ u2 :> k1)]
=============================================================================
