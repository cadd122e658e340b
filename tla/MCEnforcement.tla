--------------------------- MODULE MCEnforcement ---------------------------
(* Instances of Enforcement for TLC. *)
EXTENDS Enforcement, TLC

\* One verdict per way an action can meet a human: none, provisional, destructive.
MCVerdicts == {[status |-> "approved", kind |-> "none"],
               [status |-> "pending",  kind |-> "hold"],
               [status |-> "rejected", kind |-> "reject"]}
MCAllVerdicts == AllVerdicts
MCHoldOrReject == MCVerdicts \ {[status |-> "approved", kind |-> "none"]}

MCSymmetry == Permutations(Requests) \cup Permutations(Runners)
=============================================================================
