------------------------------ MODULE MCTenancy ------------------------------
(* Instances of Tenancy for TLC. *)
EXTENDS Tenancy, TLC

CONSTANTS u1, u2, u3, t1, t2, t3
TwoOwners == <<u1, u2>>
OneOwner == <<u1>>
Their == (t1 :> u1) @@ (t2 :> u2) @@ (t3 :> None)
His == (t1 :> u1) @@ (t2 :> None) @@ (t3 :> None)
Slots == Permutations(Requests)
==============================================================================
