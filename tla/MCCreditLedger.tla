-------------------------- MODULE MCCreditLedger ---------------------------
(* Instances of CreditLedger for TLC. *)
EXTENDS CreditLedger, TLC

CONSTANTS c1, c2, d1, d2
OneContested == (d1 :> c1)
SameContested == (d1 :> c1) @@ (d2 :> c1)
MCSymmetry == Permutations(Workers)
=============================================================================
