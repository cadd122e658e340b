--------------------------- MODULE MCCronWorkload ---------------------------
(* Instances of CronWorkload for TLC. *)
EXTENDS CronWorkload, TLC

MCSymmetry == Permutations(Runners)
=============================================================================
