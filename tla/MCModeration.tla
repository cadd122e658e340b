---------------------------- MODULE MCModeration ----------------------------
(* Instances of Moderation for TLC. *)
EXTENDS Moderation, TLC

CONSTANTS x, y, h1, h2
EveryVerdict ==   \* Enforcement's AllVerdicts
  {[status |-> "rejected", kind |-> k] : k \in {"reject", "ban"}}
    \cup {[status |-> s, kind |-> "hold"] : s \in {"pending", "held"}}
    \cup {[status |-> "approved", kind |-> "none"], [status |-> "deleted", kind |-> "delete"]}
ASSUME EveryVerdict = E!AllVerdicts
Wrote == <<x, y>>
Holds == (h1 :> x) @@ (h2 :> None)
Alike == Permutations(Requests)
=============================================================================
