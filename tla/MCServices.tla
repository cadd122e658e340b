----------------------------- MODULE MCServices -----------------------------
(* Instances of Services for TLC. *)
EXTENDS Services, TLC

CONSTANTS u1, u2, u3, t1, t2, t3, a1, p1, p2
TwoOwners == <<u1, u2>>
Their == (t1 :> u1) @@ (t2 :> u2) @@ (t3 :> None)
OneCheckout == (p1 :> a1) @@ (p2 :> a1)
Alike == Permutations(Workers) \cup Permutations(Visitors)
=============================================================================
