----------------------------- MODULE Moderation -----------------------------
(***************************************************************************)
(* What is decided of a comment and what becomes of it: the rules an owner *)
(* may store (Rules), the verdicts of a batch with the authors its owners  *)
(* protect (Verdicts), and the enforcement of one verdict on YouTube,      *)
(* against the people who decide otherwise (Enforcement).  The three meet  *)
(* in constants only: Enforcement takes any verdict, Verdicts any rule.    *)
(* So the specification is their sum, as in Services: `machine' names the  *)
(* one that runs.                                                          *)
(***************************************************************************)
EXTENDS Naturals

CONSTANTS None,
          Comments, Runners, Requests, Verdicts, QueueVerbs, Events, MaxVisits, MaxFaults,
          Authors, Author, Handles, Holder, Teams, Cap, Credits, MaxLinks, MaxAdds, MaxRuns,
          MaxLength, MaxRules

VARIABLES
  machine,
  comment, action, intents, active, remote, late, pc, task, run, req, visits, faults, \* Enforcement
  tie, listed, editor, batch, staged, funds, ties, adds, batches,                     \* Verdicts
  pattern, rules                                                                      \* Rules

enforcing == <<comment, action, intents, active, remote, late, pc, task, run, req, visits, faults>>
judging == <<tie, listed, editor, batch, staged, funds, ties, adds, batches>>
ruling == <<pattern, rules>>
vars == <<machine, enforcing, judging, ruling>>

E == INSTANCE Enforcement
V == INSTANCE Verdicts WITH Owners <- Requests, link <- tie, owner <- editor, run <- batch,
                            links <- ties, runs <- batches
L == INSTANCE Rules

ASSUME ConstantsOK == V!ConstantsOK /\ L!ConstantsOK

Init ==   \* where the others begin is of no account
  /\ machine \in {"enforcing", "judging", "ruling"}
  /\ E!Init /\ V!Init /\ L!Init
  /\ machine # "judging" => tie.team = (CHOOSE t \in Teams : TRUE)

Enforce == machine = "enforcing" /\ E!Next /\ UNCHANGED <<machine, judging, ruling>>
Judge == machine = "judging" /\ V!Next /\ UNCHANGED <<machine, enforcing, ruling>>
Rule == machine = "ruling" /\ L!Next /\ UNCHANGED <<machine, enforcing, judging>>
Next == Enforce \/ Judge \/ Rule

Spec == Init /\ [][Next]_vars

-----------------------------------------------------------------------------
(* The properties of the three modules.                                    *)
VerdictsHold == E!HumanVerdictStands /\ E!QueuedIsHidden
ProtectionExact == V!ProtectionExact
HandlesKept == V!HandlesKept
RulesExact == L!RulesExact
=============================================================================
