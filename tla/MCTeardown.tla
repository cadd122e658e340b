------------------------------ MODULE MCTeardown ------------------------------
(* Instances of Teardown for TLC. *)
EXTENDS Teardown, TLC

CONSTANTS u1, u2, o1, o2, c1
Team == o2 :> {u1, u2}
Home == c1 :> o2
===============================================================================
