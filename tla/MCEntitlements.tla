--------------------------- MODULE MCEntitlements ---------------------------
(* Instances of Entitlements for TLC. *)
EXTENDS Entitlements, TLC

CONSTANTS o1, o2, s1, s2, l1, l2
Owners == (s1 :> o1) @@ (s2 :> o1) @@ (l1 :> o1) @@ (l2 :> o2)
SameOrg == Permutations({s1, s2})
(* Ids that sort against the order of creation. *)
Ids == [paid |-> 3, opened |-> 2, winding |-> 5, resumed |-> 1, deleted |-> 4]
=============================================================================
