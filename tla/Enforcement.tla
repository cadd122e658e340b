---------------------------- MODULE Enforcement ----------------------------
(***************************************************************************)
(* Moderation of the comments of one YouTube channel: the local decision   *)
(* on a comment, the moderation_actions row that still has to be carried   *)
(* out on YouTube, the human requests that race with it, and what YouTube  *)
(* actually shows.                                                         *)
(*                                                                         *)
(* Two kinds of process share the database.  A runner is the cron job of   *)
(* the channel: it stages verdicts (staging.ts), sweeps the outstanding    *)
(* actions and replays human intents (enforcement.ts).  A request is one   *)
(* click in the review queue or one Undo in the log: it claims a comment,  *)
(* writes to YouTube under a durable reservation (human-dispatch.ts) and   *)
(* commits the final status.  One action below is one database transaction *)
(* or query, or one end of a YouTube call, so every await of the code is a *)
(* point where the other processes may step in.                            *)
(***************************************************************************)
EXTENDS Naturals, FiniteSets

CONSTANTS
    Comments,    \* comment ids
    Runners,     \* cron jobs that may work on the channel
    Requests,    \* dashboard requests; a request's id is also its audit row id
    None,        \* SQL NULL
    Verdicts,    \* what a scan may decide, a subset of AllVerdicts
    QueueVerbs,  \* what a reviewer may click, a subset of {approve, ...}
    Events,      \* which disturbances the environment may cause
    MaxVisits,   \* how often scans may stage one comment
    MaxFaults    \* how many disturbances may happen in a behaviour

VARIABLES
    comment,   \* comments rows: status, decidedBy, restoreIntentId, reservation
    action,    \* moderation_actions rows: kind and state
    intents,   \* user rows of audit_log that a comment may be bound to
    active,    \* channels.active
    remote,    \* moderation state of the comment on YouTube
    late,      \* writes whose caller gave up but which may still land
    pc,        \* control point of each process
    task,      \* the reservation a process holds, and the write it carries
    run,       \* a runner's local variables
    req,       \* a request's local variables
    visits,    \* number of scans that staged a comment (bound only)
    faults     \* number of disturbances so far (bound only)

vars == <<comment, action, intents, active, remote, late, pc, task, run, req,
          visits, faults>>

Procs == Runners \union Requests

(***************************************************************************)
(* Types.                                                                  *)
(***************************************************************************)
Status == {"absent", "approved", "pending", "held", "rejected", "deleted", "restoring"}
Decided == {"approved", "rejected", "deleted"}
Queued == {"pending", "held"}
Kind == {"hold", "reject", "ban", "delete"}
Outstanding == {"pending", "dispatched", "cancelling"}
Terminal == {"completed", "superseded"}
Remote == {"published", "heldForReview", "rejected", "deleted"}
Verb == {"approve", "reject", "delete", "ban", "restore"}

Action == [kind : Kind \union {"none"}, state : Outstanding \union Terminal \union {"none"}]
NoAction == [kind |-> "none", state |-> "none"]

Comment == [status : Status, by : {"system", "human"}, intent : Requests \union {None},
            token : Procs \union {None}, dispatch : {"none", "in_flight", "uncertain"}]

Task == [c : Comments \union {None}, intent : Requests \union {None}, status : Status,
         final : Decided, missing : BOOLEAN]
NoTask == [c |-> None, intent |-> None, status |-> "absent", final |-> "approved",
           missing |-> FALSE]

Intent == [c : Comments, verb : Verb]

Phase == {"none", "cancelling", "superseded", "applied", "reconcile"}
Run == [phase : Phase, snap : [Comments -> Action], fenced : SUBSET Comments,
        failed : BOOLEAN, ready : SUBSET Comments, kind : Kind \union {"none"},
        batch : SUBSET Comments, singles : SUBSET Comments, todo : SUBSET Comments,
        seen : [Comments -> Status], bound : [Comments -> Requests \union {None}],
        converged : SUBSET Comments, unknown : SUBSET Comments, missing : BOOLEAN]
NoRun == [phase |-> "none", snap |-> [c \in Comments |-> NoAction], fenced |-> {},
          failed |-> FALSE, ready |-> {}, kind |-> "none", batch |-> {}, singles |-> {},
          todo |-> {}, seen |-> [c \in Comments |-> "absent"],
          bound |-> [c \in Comments |-> None], converged |-> {}, unknown |-> {},
          missing |-> FALSE]

Req == [c : Comments \union {None}, intent : Requests \union {None},
        from : Status, by : {"system", "human"}]
NoReq == [c |-> None, intent |-> None, from |-> "absent", by |-> "system"]

DispatchPC == {"reserved", "sent", "landed"}
RunnerPC == {"idle", "fence", "converge", "each", "recheck", "guard", "revise", "claim",
             "apply", "partition", "write", "wired", "answered", "reconcile", "replay"}
            \union DispatchPC
RequestPC == {"unused", "claimed", "release", "done"} \union DispatchPC

AllEvents == {"pause", "refusal", "lostReply", "lateWrite", "commitFault", "crash", "deadline",
              "ownerRemoval", "protected", "unresolved"}
AllVerdicts == {[status |-> "approved", kind |-> "none"],
                [status |-> "pending",  kind |-> "hold"],
                [status |-> "held",     kind |-> "hold"],
                [status |-> "rejected", kind |-> "reject"],
                [status |-> "rejected", kind |-> "ban"],
                [status |-> "deleted",  kind |-> "delete"]}

ASSUME ConstantsAssumption ==
    /\ Runners \intersect Requests = {}
    /\ None \notin Comments \union Runners \union Requests \union Intent
    /\ Verdicts \subseteq AllVerdicts
    /\ QueueVerbs \subseteq Verb \ {"restore"}
    /\ Events \subseteq AllEvents
    /\ MaxVisits \in Nat /\ MaxFaults \in Nat

TypeOK ==
    /\ comment \in [Comments -> Comment]
    /\ action \in [Comments -> Action]
    /\ intents \in [Requests -> Intent \union {None}]
    /\ active \in BOOLEAN
    /\ remote \in [Comments -> Remote]
    /\ late \in [Comments -> SUBSET Remote]
    /\ pc \in [Procs -> RunnerPC \union RequestPC]
    /\ task \in [Procs -> Task]
    /\ run \in [Runners -> Run]
    /\ req \in [Requests -> Req]
    /\ visits \in [Comments -> 0..MaxVisits]
    /\ faults \in 0..MaxFaults

(***************************************************************************)
(* Tables and predicates.                                                  *)
(***************************************************************************)
\* ACTION_OUTCOME: the local status a queued action drives toward.
Outcome == [hold |-> "held", reject |-> "rejected", ban |-> "rejected",
            delete |-> "deleted"]

\* humanFinalStatus: the local status committed after a human intent.
HumanFinal == [approve |-> "approved", restore |-> "approved", delete |-> "deleted",
               reject |-> "rejected", ban |-> "rejected"]

\* What YouTube shows once the write that belongs to a local status has landed.
RemoteOf(status) ==
    CASE status = "approved" -> "published"
      [] status = "rejected" -> "rejected"
      [] status = "deleted"  -> "deleted"
      [] OTHER               -> "heldForReview"

\* A write to a comment that is gone answers 404 and changes nothing.
Landed(c, write) == IF remote[c] = "deleted" THEN "deleted" ELSE write

\* hasHumanClaim
Claimed(c) == comment[c].status = "restoring" \/ comment[c].dispatch # "none"
Unreserved(c) == comment[c].token = None /\ comment[c].dispatch = "none"

\* The order of applyYoutubeActions.
Rank == [hold |-> 1, reject |-> 2, ban |-> 3, delete |-> 4]

Fault(e) == e \in Events /\ faults < MaxFaults /\ faults' = faults + 1

\* Rows of S whose state is one of "from" move to "to"; terminal rows stay.
Move(S, from, to) ==
    [c \in Comments |-> IF c \in S /\ action[c].state \in from
                        THEN [action[c] EXCEPT !.state = to] ELSE action[c]]

Init ==
    /\ comment = [c \in Comments |-> [status |-> "absent", by |-> "system", intent |-> None,
                                      token |-> None, dispatch |-> "none"]]
    /\ action = [c \in Comments |-> NoAction]
    /\ intents = [r \in Requests |-> None]
    /\ active = TRUE
    /\ remote = [c \in Comments |-> "published"]
    /\ late = [c \in Comments |-> {}]
    /\ pc = [p \in Procs |-> IF p \in Runners THEN "idle" ELSE "unused"]
    /\ task = [p \in Procs |-> NoTask]
    /\ run = [w \in Runners |-> NoRun]
    /\ req = [r \in Requests |-> NoReq]
    /\ visits = [c \in Comments |-> 0]
    /\ faults = 0

(***************************************************************************)
(* Staging: one transaction decides a comment.  A comment under a human    *)
(* claim keeps its decision and its actions (preserveRescanHumanClaims).   *)
(***************************************************************************)
StageDecision(w, c, v) ==
    /\ pc[w] = "idle" /\ active
    /\ visits[c] < MaxVisits
    /\ ~Claimed(c)
    /\ comment' = [comment EXCEPT ![c].status = v.status, ![c].by = "system"]
    /\ action' = IF v.kind # "none"
                 THEN [action EXCEPT ![c] = [kind |-> v.kind, state |-> "pending"]]
                 ELSE [action EXCEPT ![c].state =
                         IF @ = "pending" THEN "superseded"
                         ELSE IF @ = "dispatched" THEN "cancelling" ELSE @]
    /\ visits' = [visits EXCEPT ![c] = @ + 1]
    /\ UNCHANGED <<intents, active, remote, late, pc, task, run, req, faults>>

(***************************************************************************)
(* The reservation (human-dispatch.ts), used by requests, by the replay of *)
(* human intents and by corrective writes.  A corrective write carries the *)
(* decided status it re-asserts, a human write the claim 'restoring'.      *)
(***************************************************************************)
Human(p) == task[p].status = "restoring"

\* Mutant: the reservation is not compared before it is taken.
ReserveOver(c, status, intent) == comment[c].status = status /\ comment[c].intent = intent
CanReserve(c, status, intent) ==
    comment[c].status = status /\ comment[c].intent = intent /\ Unreserved(c)

Reserve(p, c, status, intent, final) ==
    /\ comment' = [comment EXCEPT ![c].token = p, ![c].dispatch = "in_flight"]
    /\ task' = [task EXCEPT ![p] = [c |-> c, intent |-> intent, status |-> status,
                                    final |-> final, missing |-> FALSE]]
    /\ pc' = [pc EXCEPT ![p] = "reserved"]

Holds(p, c) == comment[c].token = p /\ comment[c].dispatch = "in_flight"

\* settleHumanDispatch: an uncertain outcome keeps its owner for ever.
Settle(p, uncertain) ==
    LET c == task[p].c IN
    comment' = IF ~Holds(p, c) THEN comment
               ELSE IF uncertain THEN [comment EXCEPT ![c].dispatch = "uncertain"]
               ELSE [comment EXCEPT ![c].token = None, ![c].dispatch = "none"]

StillBound(p) ==
    LET c == task[p].c IN
    comment[c].status = task[p].status /\ comment[c].intent = task[p].intent /\ Holds(p, c)

\* A request goes on at "next"; a runner takes the next comment of its loop.
Resume(p, next) ==
    /\ task' = [task EXCEPT ![p] = NoTask]
    /\ IF p \in Runners
       THEN /\ pc' = [pc EXCEPT ![p] = IF Human(p) THEN "replay" ELSE "each"]
            /\ run' = [run EXCEPT ![p].todo = @ \ {task[p].c}]
       ELSE /\ pc' = [pc EXCEPT ![p] = next]
            /\ UNCHANGED run

\* DeadlineExceededError and ChannelDeactivatedError end the run.
EndRun(w) ==
    /\ pc' = [pc EXCEPT ![w] = "idle"]
    /\ run' = [run EXCEPT ![w] = NoRun]
    /\ task' = [task EXCEPT ![w] = NoTask]

Send(p) ==
    /\ pc[p] = "reserved" /\ active /\ StillBound(p)
    /\ pc' = [pc EXCEPT ![p] = "sent"]
    /\ UNCHANGED <<comment, action, intents, active, remote, late, task, run, req, visits, faults>>

\* dispatchOnce gives the reservation back when nothing was sent.
SendRefused(p) ==
    /\ pc[p] = "reserved"
    /\ Settle(p, FALSE)
    /\ \/ ~active /\ p \in Runners /\ EndRun(p) /\ UNCHANGED faults
       \/ ~active /\ p \in Requests /\ Resume(p, "release") /\ UNCHANGED faults
       \/ active /\ ~StillBound(p) /\ Resume(p, "release") /\ UNCHANGED faults
       \/ active /\ p \in Runners /\ Fault("deadline") /\ EndRun(p)
    /\ UNCHANGED <<action, intents, active, remote, late, req, visits>>

Land(p) ==
    /\ pc[p] = "sent"
    /\ LET c == task[p].c  write == RemoteOf(task[p].final) IN
       /\ remote' = [remote EXCEPT ![c] = Landed(c, write)]
       /\ task' = [task EXCEPT ![p].missing = remote[c] = "deleted" /\ write # "deleted"]
    /\ pc' = [pc EXCEPT ![p] = "landed"]
    /\ UNCHANGED <<comment, action, intents, active, late, run, req, visits, faults>>

\* YoutubeWriteRefusedError: the write did not happen.
Refuse(p) ==
    /\ pc[p] = "sent" /\ Fault("refusal")
    /\ Settle(p, FALSE) /\ Resume(p, "release")
    /\ UNCHANGED <<action, intents, active, remote, late, req, visits>>

\* HumanDispatchUncertainError: no answer, so the write may land, now or later.
LoseReply(p) ==
    /\ pc[p] \in {"sent", "landed"} /\ Fault("lostReply")
    /\ Settle(p, TRUE) /\ Resume(p, "done")
    /\ late' = IF pc[p] = "landed" THEN late
               ELSE [late EXCEPT ![task[p].c] = @ \union {RemoteOf(task[p].final)}]
    /\ UNCHANGED <<action, intents, active, remote, req, visits>>

\* executeDecidedDispatch: a corrective write gives its reservation back.
SettleDecided(w) ==
    /\ pc[w] = "landed" /\ ~Human(w)
    /\ Settle(w, FALSE)
    /\ pc' = [pc EXCEPT ![w] = "recheck"]
    /\ UNCHANGED <<action, intents, active, remote, late, task, run, req, visits, faults>>

(***************************************************************************)
(* finalizeHumanIntent: one transaction commits the final status, drops    *)
(* the claim and the reservation and resolves the comment's action.        *)
(***************************************************************************)
Agrees(c, final) == action[c].kind # "none" /\ Outcome[action[c].kind] = final

\* Mutant: a dispatched action is taken to have landed before the human's write.
FinalizedTrusting(c, final) ==
    CASE action[c].state = "dispatched" -> "completed"
      [] action[c].state \in {"pending", "cancelling"} -> "superseded"
      [] OTHER -> action[c].state

FinalizedState(c, final) ==
    CASE action[c].state = "dispatched" -> IF Agrees(c, final) THEN "completed" ELSE "cancelling"
      [] action[c].state = "pending" -> "superseded"
      [] action[c].state = "cancelling" /\ Agrees(c, final) -> "superseded"
      [] OTHER -> action[c].state

\* A finalizer that lost its claim re-arms a completed action it conflicts with.
RearmedState(p, c, final) ==
    IF /\ comment[c].dispatch = "none" \/ Holds(p, c)
       /\ comment[c].status # final /\ action[c].state = "completed"
    THEN IF comment[c].status \in Queued THEN "pending" ELSE "cancelling"
    ELSE action[c].state

Finalize(p) ==
    /\ pc[p] = "landed" /\ Human(p) /\ active
    /\ LET c == task[p].c
           final == IF task[p].missing THEN "deleted" ELSE task[p].final
       IN IF StillBound(p)
          THEN /\ comment' = [comment EXCEPT ![c].status = final, ![c].by = "human",
                                ![c].intent = None, ![c].token = None, ![c].dispatch = "none"]
               /\ action' = [action EXCEPT ![c].state = FinalizedState(c, final)]
          ELSE /\ Settle(p, FALSE)
               /\ action' = [action EXCEPT ![c].state = RearmedState(p, c, final)]
    /\ Resume(p, "done")
    /\ UNCHANGED <<intents, active, remote, late, req, visits, faults>>

\* HumanFinalizeError: the write landed, the commit failed, the intent stays.
FinalizeFails(p) ==
    /\ pc[p] = "landed" /\ Human(p)
    /\ \/ ~active /\ UNCHANGED faults
       \/ active /\ Fault("commitFault")
    /\ Settle(p, FALSE) /\ Resume(p, "done")
    /\ UNCHANGED <<action, intents, active, remote, late, req, visits>>

(***************************************************************************)
(* Requests.  Queue review (queue/+page.server.ts) and log Undo            *)
(* (log/+page.server.ts) claim the comment and record the intent in one    *)
(* transaction; the write to YouTube follows under a reservation.          *)
(***************************************************************************)
QueueClaim(r, c, verb) ==
    /\ pc[r] = "unused"
    /\ comment[c].status = "pending" /\ Unreserved(c)
    /\ comment' = [comment EXCEPT ![c].status = "restoring", ![c].by = "human", ![c].intent = r]
    /\ intents' = [intents EXCEPT ![r] = [c |-> c, verb |-> verb]]
    /\ req' = [req EXCEPT ![r] = [c |-> c, intent |-> r, from |-> "pending", by |-> "system"]]
    /\ pc' = [pc EXCEPT ![r] = "claimed"]
    /\ UNCHANGED <<action, active, remote, late, task, run, visits, faults>>

UndoClaim(r, c) ==
    /\ pc[r] = "unused"
    /\ comment[c].status \in {"held", "rejected"} /\ Unreserved(c)
    /\ comment' = [comment EXCEPT ![c].status = "restoring", ![c].intent = r]
    /\ intents' = [intents EXCEPT ![r] = [c |-> c, verb |-> "restore"]]
    /\ req' = [req EXCEPT ![r] = [c |-> c, intent |-> r, from |-> comment[c].status,
                                  by |-> comment[c].by]]
    /\ pc' = [pc EXCEPT ![r] = "claimed"]
    /\ UNCHANGED <<action, active, remote, late, task, run, visits, faults>>

\* Undo of a comment already 'restoring' resumes the recorded restore.
UndoResume(r, c) ==
    LET bound == comment[c].intent IN
    /\ pc[r] = "unused"
    /\ comment[c].status = "restoring" /\ Unreserved(c)
    /\ bound # None /\ intents[bound] # None /\ intents[bound].verb = "restore"
    /\ req' = [req EXCEPT ![r] = [c |-> c, intent |-> bound, from |-> "restoring",
                                  by |-> comment[c].by]]
    /\ pc' = [pc EXCEPT ![r] = "claimed"]
    /\ UNCHANGED <<comment, action, intents, active, remote, late, task, run, visits, faults>>

\* Connector check, token refresh, then reserveHumanDispatch.
RequestReserve(r) ==
    LET c == req[r].c IN
    /\ pc[r] = "claimed" /\ active
    /\ CanReserve(c, "restoring", req[r].intent)
    /\ Reserve(r, c, "restoring", req[r].intent, HumanFinal[intents[req[r].intent].verb])
    /\ UNCHANGED <<action, intents, active, remote, late, run, req, visits, faults>>

\* HUMAN_DISPATCH_BLOCKED: somebody else has the comment; the intent stays.
RequestBlocked(r) ==
    /\ pc[r] = "claimed" /\ active
    /\ ~CanReserve(req[r].c, "restoring", req[r].intent)
    /\ pc' = [pc EXCEPT ![r] = "done"]
    /\ UNCHANGED <<comment, action, intents, active, remote, late, task, run, req, visits, faults>>

\* The channel is paused or the token cannot be refreshed: nothing was sent.
RequestUnauthorized(r) ==
    /\ pc[r] = "claimed"
    /\ \/ ~active /\ UNCHANGED faults
       \/ active /\ Fault("refusal")
    /\ pc' = [pc EXCEPT ![r] = "release"]
    /\ UNCHANGED <<comment, action, intents, active, remote, late, task, run, req, visits>>

\* The claim goes back if this request made it and nobody holds the comment.
\* A mutant: a request that resumed a claim gives it back too.
ReleaseResumed(r) == CanReserve(req[r].c, "restoring", req[r].intent)
MayRelease(r) == req[r].from # "restoring" /\ CanReserve(req[r].c, "restoring", r)

\* Only the queue re-arms a hold that a runner superseded meanwhile.
ReleasedState(r) ==
    LET row == action[req[r].c] IN
    IF req[r].from = "pending" /\ row = [kind |-> "hold", state |-> "superseded"]
    THEN "pending" ELSE row.state

Release(r) ==
    LET c == req[r].c IN
    /\ pc[r] = "release"
    /\ pc' = [pc EXCEPT ![r] = "done"]
    /\ IF MayRelease(r)
       THEN /\ comment' = [comment EXCEPT ![c].status = req[r].from, ![c].by = req[r].by,
                                          ![c].intent = None]
            /\ intents' = [intents EXCEPT ![r] = None]
            /\ action' = [action EXCEPT ![c].state = ReleasedState(r)]
       ELSE UNCHANGED <<comment, intents, action>>
    /\ UNCHANGED <<active, remote, late, task, run, req, visits, faults>>

(***************************************************************************)
(* The sweep of a runner: processOutstandingActions, first half.  It takes *)
(* a snapshot of the outstanding actions, then of the fenced comments.     *)
(***************************************************************************)
\* Mutant: rows in 'cancelling' are not read.
ReadLiveActions(w) ==
    /\ pc[w] = "idle" /\ active
    /\ pc' = [pc EXCEPT ![w] = "fence"]
    /\ run' = [run EXCEPT ![w].snap =
                 [c \in Comments |-> IF action[c].state \in {"pending", "dispatched"}
                                     THEN action[c] ELSE NoAction]]
    /\ UNCHANGED <<comment, action, intents, active, remote, late, task, req, visits, faults>>

ReadActions(w) ==
    /\ pc[w] = "idle" /\ active
    /\ pc' = [pc EXCEPT ![w] = "fence"]
    /\ run' = [run EXCEPT ![w].snap =
                 [c \in Comments |-> IF action[c].state \in Outstanding THEN action[c]
                                     ELSE NoAction]]
    /\ UNCHANGED <<comment, action, intents, active, remote, late, task, req, visits, faults>>

ReadFence(w) ==
    LET claimed == {c \in Comments : Claimed(c)} IN
    /\ pc[w] = "fence"
    /\ pc' = [pc EXCEPT ![w] = "converge"]
    /\ run' = [run EXCEPT
                 ![w].fenced = claimed, ![w].phase = "cancelling",
                 ![w].todo = {c \in Comments \ claimed : run[w].snap[c].state = "cancelling"}]
    /\ UNCHANGED <<comment, action, intents, active, remote, late, task, req, visits, faults>>

(***************************************************************************)
(* convergeHolds: re-assert on YouTube the status a comment was decided to *)
(* have, before an action over it becomes terminal.                        *)
(***************************************************************************)
\* decidedIntentFor: a row that was only ever pending never reached YouTube.
NeedsWrite(w, c, status) ==
    /\ status \in Decided
    /\ run[w].phase = "applied" \/ run[w].snap[c].state # "pending"

\* A comment that needs no write converged, but 'restoring' belongs to the human
\* flow.  Mutant: it does not.
NoWriteMissing(status) == status # "absent"
NoWriteOwed(status) == status \notin {"absent", "restoring"}

ReadStatuses(w) ==
    LET status(c) == comment[c].status
        write == {c \in run[w].todo : NeedsWrite(w, c, status(c))}
    IN /\ pc[w] = "converge"
       /\ pc' = [pc EXCEPT ![w] = "each"]
       /\ run' = [run EXCEPT
                    ![w].seen = [c \in Comments |-> IF c \in write THEN status(c) ELSE "absent"],
                    ![w].todo = write,
                    ![w].converged = {c \in run[w].todo \ write : NoWriteOwed(status(c))}]
       /\ UNCHANGED <<comment, action, intents, active, remote, late, task, req, visits, faults>>

\* convergeOneHold, up to the reservation; the status must still be the one read.
CorrectOne(w, c) ==
    LET status == run[w].seen[c] IN
    /\ pc[w] = "each" /\ c \in run[w].todo /\ active
    /\ IF CanReserve(c, status, comment[c].intent)
       THEN Reserve(w, c, status, comment[c].intent, status) /\ UNCHANGED run
       ELSE /\ run' = [run EXCEPT ![w].todo = @ \ {c}]
            /\ UNCHANGED <<comment, task, pc>>
    /\ UNCHANGED <<action, intents, active, remote, late, req, visits, faults>>

\* convergeOneHold, after the write: a comment YouTube has lost becomes 'deleted';
\* otherwise the row converged unless its status moved during the write.
Recheck(w) ==
    LET c == task[w].c
        gone == task[w].missing
        flip == gone /\ comment[c].status \in {"approved", "rejected"}
        still == comment[c].status \in {task[w].status, "absent"}
    IN /\ pc[w] = "recheck"
       /\ comment' = IF flip THEN [comment EXCEPT ![c].status = "deleted"] ELSE comment
       /\ run' = [run EXCEPT ![w].todo = @ \ {c},
                             ![w].converged = IF flip \/ (~gone /\ still) THEN @ \union {c} ELSE @]
       /\ task' = [task EXCEPT ![w] = NoTask]
       /\ pc' = [pc EXCEPT ![w] = "each"]
       /\ UNCHANGED <<action, intents, active, remote, late, req, visits, faults>>

Converged(w, phase) ==
    /\ pc[w] = "each" /\ run[w].phase = phase /\ run[w].todo = {}
    /\ active \/ run[w].converged = {}

\* transitionActions: a converged cancelled action is over.
ReleaseCancelled(w) ==
    /\ Converged(w, "cancelling")
    /\ action' = Move(run[w].converged, {"cancelling"}, "superseded")
    /\ pc' = [pc EXCEPT ![w] = "guard"]
    /\ run' = [run EXCEPT ![w].phase = "none", ![w].converged = {},
                          ![w].seen = [c \in Comments |-> "absent"]]
    /\ UNCHANGED <<comment, intents, active, remote, late, task, req, visits, faults>>

\* markSuperseded: only rows whose comment is decided when the transaction runs.
ReleaseSuperseded(w) ==
    LET decided == {c \in run[w].converged : comment[c].status \notin Queued \union {"absent"}} IN
    /\ Converged(w, "superseded")
    /\ action' = Move(decided, Outstanding, "superseded")
    /\ pc' = [pc EXCEPT ![w] = IF run[w].batch = {} THEN "apply" ELSE "write"]
    /\ run' = [run EXCEPT ![w].phase = "none", ![w].converged = {},
                          ![w].seen = [c \in Comments |-> "absent"]]
    /\ UNCHANGED <<comment, intents, active, remote, late, task, req, visits, faults>>

(***************************************************************************)
(* Protected authors: guardPendingProtection looks up the authors of the   *)
(* destructive actions on YouTube, then revises them in one transaction.   *)
(***************************************************************************)
\* The channel has a list of protected handles.
Guarded == Events \intersect {"protected", "unresolved"} # {}

Destructive(w) ==
    {c \in Comments \ run[w].fenced :
        run[w].snap[c].state \in {"pending", "dispatched"} /\ run[w].snap[c].kind # "hold"}

\* YouTube names no author for a comment it no longer has, and an outage may
\* hide any other.
ReadAuthors(w) ==
    LET gone == {c \in Destructive(w) : Guarded /\ remote[c] = "deleted"} IN
    /\ pc[w] = "guard"
    /\ \E hidden \in SUBSET (Destructive(w) \ gone) :
         /\ IF hidden = {} THEN UNCHANGED faults ELSE Fault("unresolved")
         /\ run' = [run EXCEPT ![w].unknown = gone \union hidden]
    /\ pc' = [pc EXCEPT ![w] = "revise"]
    /\ UNCHANGED <<comment, action, intents, active, remote, late, task, req, visits>>

\* A row a human decided, or whose action moved on, is left out of this sweep.
Revisable(w, c) ==
    /\ comment[c].status # "absent" /\ ~Claimed(c) /\ comment[c].by # "human"
    /\ action[c].state = run[w].snap[c].state

\* The action of a protected author is withdrawn, a pending action of an unknown
\* author shrinks to a hold.
Revise(w, protected) ==
    LET spare == {c \in protected : Revisable(w, c)}
        soften == {c \in run[w].unknown : Revisable(w, c)}
    IN /\ comment' = [c \in Comments |->
            IF c \in spare THEN [comment[c] EXCEPT !.status = "approved", !.by = "system"]
            ELSE IF c \in soften THEN [comment[c] EXCEPT !.status = "pending", !.by = "system"]
            ELSE comment[c]]
       /\ action' = [c \in Comments |->
            IF c \in spare
            THEN [action[c] EXCEPT !.state = IF @ = "dispatched" THEN "cancelling"
                                             ELSE "superseded"]
            ELSE IF c \in soften THEN [action[c] EXCEPT !.kind = "hold"]
            ELSE action[c]]
       /\ run' = [run EXCEPT ![w].unknown = {}, ![w].snap = [c \in Comments |->
            IF c \in soften THEN [kind |-> "hold", state |-> "pending"]
            ELSE IF c \in protected \union run[w].unknown THEN NoAction ELSE run[w].snap[c]]]

GuardPending(w) ==
    /\ pc[w] = "revise"
    /\ active \/ Destructive(w) = {}
    /\ \A c \in run[w].unknown : run[w].snap[c].state = "pending"
    /\ \E protected \in SUBSET (Destructive(w) \ run[w].unknown) :
         /\ protected # {} => "protected" \in Events
         /\ Revise(w, protected)
    /\ pc' = [pc EXCEPT ![w] = "claim"]
    /\ UNCHANGED <<intents, active, remote, late, task, req, visits, faults>>

\* Revalidation throws, always if the author of a dispatched action is unknown:
\* only holds are attempted, then the run fails.
GuardFails(w) ==
    /\ pc[w] = "revise"
    /\ IF \E c \in run[w].unknown : run[w].snap[c].state = "dispatched"
       THEN UNCHANGED faults
       ELSE Destructive(w) # {} /\ Fault("unresolved")
    /\ run' = [run EXCEPT ![w].failed = TRUE, ![w].unknown = {}, ![w].snap = [c \in Comments |->
                 IF run[w].snap[c].kind = "hold" THEN run[w].snap[c] ELSE NoAction]]
    /\ pc' = [pc EXCEPT ![w] = "claim"]
    /\ UNCHANGED <<comment, action, intents, active, remote, late, task, req, visits>>

(***************************************************************************)
(* Applying actions: claim, mark dispatched, write, prove, complete.       *)
(***************************************************************************)
\* claimPendingActions: only rows this run moved out of 'pending' are its own.
ClaimPending(w) ==
    LET mine(state) == {c \in Comments \ run[w].fenced : run[w].snap[c].state = state}
        claimed == {c \in mine("pending") : action[c].state = "pending"}
    IN /\ pc[w] = "claim"
       /\ active \/ mine("pending") = {}
       /\ action' = Move(mine("pending"), {"pending"}, "dispatched")
       /\ run' = [run EXCEPT ![w].ready = claimed \union mine("dispatched")]
       /\ pc' = [pc EXCEPT ![w] = "apply"]
       /\ UNCHANGED <<comment, intents, active, remote, late, task, req, visits, faults>>

\* One write covers many comments, but a delete covers one.
Batches(group, single) == IF single THEN {{c} : c \in group} ELSE {group}

\* Holds, then rejects, bans and deletes.
MarkDispatched(w, k) ==
    LET group == {c \in run[w].ready : run[w].snap[c].kind = k} IN
    /\ pc[w] = "apply" /\ active /\ group # {}
    /\ \A c \in run[w].ready : Rank[run[w].snap[c].kind] >= Rank[k]
    /\ \E batch \in Batches(group, k = "delete") :
         /\ action' = Move(batch, Outstanding, "dispatched")
         /\ run' = [run EXCEPT ![w].kind = k, ![w].batch = batch, ![w].ready = @ \ batch]
    /\ pc' = [pc EXCEPT ![w] = IF k = "hold" THEN "partition" ELSE "write"]
    /\ UNCHANGED <<comment, intents, active, remote, late, task, req, visits, faults>>

FinishApply(w) ==
    /\ pc[w] = "apply" /\ run[w].ready = {}
    /\ IF run[w].failed THEN EndRun(w)
       ELSE pc' = [pc EXCEPT ![w] = "reconcile"] /\ run' = [run EXCEPT ![w] = NoRun] /\ UNCHANGED task
    /\ UNCHANGED <<comment, action, intents, active, remote, late, req, visits, faults>>

\* partitionHolds: a hold still applies while the comment is queued or held.
PartitionHolds(w) ==
    LET applicable == {c \in run[w].batch : comment[c].status \in Queued}
        decided == run[w].batch \ applicable
    IN /\ pc[w] = "partition"
       /\ IF decided = {}
          THEN pc' = [pc EXCEPT ![w] = "write"] /\ UNCHANGED run
          ELSE /\ pc' = [pc EXCEPT ![w] = "converge"]
               /\ run' = [run EXCEPT ![w].phase = "superseded", ![w].todo = decided,
                                     ![w].batch = applicable]
       /\ UNCHANGED <<comment, action, intents, active, remote, late, task, req, visits, faults>>

\* partitionHolds stands between the last check of the channel and the write.
CheckedBefore(w) == run[w].kind = "hold" /\ run[w].batch # {}

SendBatch(w) ==
    /\ pc[w] = "write"
    /\ active \/ CheckedBefore(w)
    /\ \E batch \in IF run[w].batch # {} THEN {run[w].batch} ELSE Batches(run[w].singles, TRUE) :
         run' = [run EXCEPT ![w].batch = batch, ![w].singles = @ \ batch]
    /\ pc' = [pc EXCEPT ![w] = "wired"]
    /\ UNCHANGED <<comment, action, intents, active, remote, late, task, req, visits, faults>>

\* A batch with a missing comment answers 404; which of the others it changed
\* is not known.  A lost answer is retried by fetchWithRetry: the write lands
\* and the runner is still waiting.
LandBatch(w) ==
    LET batch == run[w].batch
        write == RemoteOf(Outcome[run[w].kind])
        gone == {c \in batch : remote[c] = "deleted"}
        missing == gone # {} /\ write # "deleted"
    IN /\ pc[w] = "wired"
       /\ \E L \in IF missing THEN SUBSET (batch \ gone) ELSE {batch} :
            remote' = [c \in Comments |-> IF c \in L THEN write ELSE remote[c]]
       /\ \/ /\ pc' = [pc EXCEPT ![w] = "answered"]
             /\ run' = [run EXCEPT ![w].missing = missing]
          \/ UNCHANGED <<pc, run>>
       /\ UNCHANGED <<comment, action, intents, active, late, task, req, visits, faults>>

\* completeActions: a row whose comment was decided otherwise meanwhile stays
\* outstanding, because its write may have landed after the decision's.
Complete(w, S) ==
    LET contested(c) == /\ comment[c].status \in Decided \union {"restoring"}
                        /\ comment[c].status # Outcome[run[w].kind]
    IN /\ active \/ S = {}
       /\ action' = [c \in Comments |->
            IF c \in S /\ action[c].state \in Outstanding
            THEN [action[c] EXCEPT !.state = IF contested(c) THEN "cancelling" ELSE "completed"]
            ELSE action[c]]
       /\ pc' = [pc EXCEPT ![w] = IF run[w].singles = {} THEN "apply" ELSE "write"]
       /\ run' = [run EXCEPT ![w].batch = {}, ![w].missing = FALSE, ![w].phase = "none",
                             ![w].converged = {}, ![w].seen = [c \in Comments |-> "absent"],
                             ![w].kind = IF run[w].singles = {} THEN "none" ELSE @]
       /\ UNCHANGED <<comment, intents, active, remote, late, task, req, visits, faults>>

CompleteBatch(w) ==
    /\ pc[w] = "answered"
    /\ IF run[w].missing THEN Cardinality(run[w].batch) = 1 ELSE run[w].kind # "hold"
    /\ Complete(w, run[w].batch)

CompleteConverged(w) ==
    /\ Converged(w, "applied")
    /\ Complete(w, run[w].converged)

\* applyModerationBatch falls back to one write per comment.
FallBack(w) ==
    /\ pc[w] = "answered" /\ run[w].missing /\ Cardinality(run[w].batch) > 1
    /\ pc' = [pc EXCEPT ![w] = "write"]
    /\ run' = [run EXCEPT ![w].singles = run[w].batch, ![w].batch = {}, ![w].missing = FALSE]
    /\ UNCHANGED <<comment, action, intents, active, remote, late, task, req, visits, faults>>

\* A landed hold is provisional until no decision was committed meanwhile.
ConvergeApplied(w) ==
    /\ pc[w] = "answered" /\ ~run[w].missing /\ run[w].kind = "hold"
    /\ pc' = [pc EXCEPT ![w] = "converge"]
    /\ run' = [run EXCEPT ![w].phase = "applied", ![w].todo = run[w].batch]
    /\ UNCHANGED <<comment, action, intents, active, remote, late, task, req, visits, faults>>

(***************************************************************************)
(* reconcileRestoring: replay the recorded intent of every free claim.     *)
(***************************************************************************)
\* Mutant: only restores are replayed.
ReplayRestores(c) ==
    /\ comment[c].status = "restoring" /\ Unreserved(c)
    /\ intents[comment[c].intent].verb = "restore"
Replayable(c) == comment[c].status = "restoring" /\ Unreserved(c)

ReadClaims(w) ==
    /\ pc[w] = "reconcile" /\ active
    /\ pc' = [pc EXCEPT ![w] = "replay"]
    /\ run' = [run EXCEPT
                 ![w].phase = "reconcile",
                 ![w].todo = {c \in Comments : Replayable(c)},
                 ![w].bound = [c \in Comments |-> comment[c].intent]]
    /\ UNCHANGED <<comment, action, intents, active, remote, late, task, req, visits, faults>>

ReplayIntent(w, c) ==
    LET id == run[w].bound[c] IN
    /\ pc[w] = "replay" /\ c \in run[w].todo /\ active
    /\ IF id # None /\ CanReserve(c, "restoring", id) /\ intents[id] # None
       THEN /\ Reserve(w, c, "restoring", id, HumanFinal[intents[id].verb])
            /\ UNCHANGED run
       ELSE /\ run' = [run EXCEPT ![w].todo = @ \ {c}]
            /\ UNCHANGED <<comment, task, pc>>
    /\ UNCHANGED <<action, intents, active, remote, late, req, visits, faults>>

FinishRun(w) ==
    /\ pc[w] = "replay" /\ run[w].todo = {}
    /\ EndRun(w)
    /\ UNCHANGED <<comment, action, intents, active, remote, late, req, visits, faults>>

\* assertChannelActive throws: the run ends before its next write.
Deactivated(w) ==
    /\ pc[w] \in {"each", "revise", "claim", "apply", "partition", "write", "answered",
                  "reconcile", "replay"}
    /\ ~active
    /\ ~(pc[w] = "write" /\ CheckedBefore(w))
    /\ EndRun(w)
    /\ UNCHANGED <<comment, action, intents, active, remote, late, req, visits, faults>>

(***************************************************************************)
(* The environment.                                                        *)
(***************************************************************************)
\* The process dies, or a runner's call throws (deadline, database, YouTube).
\* What it had on the wire may still land: a reserved write always, a write of
\* the sweep only if "lateWrite" is among the events.
Crash(p) ==
    /\ pc[p] \notin {"idle", "unused", "done"} /\ Fault("crash")
    /\ task' = [task EXCEPT ![p] = NoTask]
    /\ pc' = [pc EXCEPT ![p] = IF p \in Runners THEN "idle" ELSE "done"]
    /\ run' = IF p \in Runners THEN [run EXCEPT ![p] = NoRun] ELSE run
    /\ \/ UNCHANGED late
       \/ /\ pc[p] = "sent"
          /\ late' = [late EXCEPT ![task[p].c] = @ \union {RemoteOf(task[p].final)}]
       \/ /\ pc[p] = "wired" /\ "lateWrite" \in Events
          /\ late' = [c \in Comments |-> IF c \in run[p].batch
                        THEN late[c] \union {RemoteOf(Outcome[run[p].kind])} ELSE late[c]]
    /\ UNCHANGED <<comment, action, intents, active, remote, req, visits>>

LandLate(c, write) ==
    /\ write \in late[c]
    /\ remote' = [remote EXCEPT ![c] = Landed(c, write)]
    /\ late' = [late EXCEPT ![c] = @ \ {write}]
    /\ UNCHANGED <<comment, action, intents, active, pc, task, run, req, visits, faults>>

OwnerRemoves(c) ==
    /\ "ownerRemoval" \in Events /\ remote[c] # "deleted"
    /\ remote' = [remote EXCEPT ![c] = "deleted"]
    /\ UNCHANGED <<comment, action, intents, active, late, pc, task, run, req, visits, faults>>

Pause ==
    /\ active /\ Fault("pause")
    /\ active' = FALSE
    /\ UNCHANGED <<comment, action, intents, remote, late, pc, task, run, req, visits>>

Unpause ==
    /\ ~active
    /\ active' = TRUE
    /\ UNCHANGED <<comment, action, intents, remote, late, pc, task, run, req, visits, faults>>

DispatchStep(p) ==
    Send(p) \/ SendRefused(p) \/ Land(p) \/ Refuse(p) \/ LoseReply(p) \/ Finalize(p)
    \/ FinalizeFails(p)

SweepStep(w) ==
    \/ ReadActions(w) \/ ReadFence(w) \/ ReadStatuses(w)
    \/ \E c \in Comments : CorrectOne(w, c)
    \/ SettleDecided(w) \/ Recheck(w) \/ ReleaseCancelled(w) \/ ReleaseSuperseded(w)
    \/ ReadAuthors(w) \/ GuardPending(w) \/ GuardFails(w) \/ ClaimPending(w)
    \/ \E k \in Kind : MarkDispatched(w, k)
    \/ FinishApply(w) \/ PartitionHolds(w) \/ SendBatch(w) \/ LandBatch(w)
    \/ CompleteBatch(w) \/ CompleteConverged(w) \/ FallBack(w) \/ ConvergeApplied(w)
    \/ ReadClaims(w) \/ \E c \in Comments : ReplayIntent(w, c)
    \/ FinishRun(w) \/ Deactivated(w)

RequestStep(r) ==
    RequestReserve(r) \/ RequestBlocked(r) \/ RequestUnauthorized(r) \/ Release(r)

Click(r) ==
    \E c \in Comments : \/ \E verb \in QueueVerbs : QueueClaim(r, c, verb)
                        \/ UndoClaim(r, c) \/ UndoResume(r, c)

Environment ==
    \/ \E p \in Procs : Crash(p)
    \/ \E c \in Comments : OwnerRemoves(c) \/ \E write \in Remote : LandLate(c, write)
    \/ Pause \/ Unpause

Next ==
    \/ \E w \in Runners : SweepStep(w)
    \/ \E w \in Runners, c \in Comments, v \in Verdicts : StageDecision(w, c, v)
    \/ \E r \in Requests : RequestStep(r) \/ Click(r)
    \/ \E p \in Procs : DispatchStep(p)
    \/ Environment

Spec == Init /\ [][Next]_vars

\* The cron keeps visiting the channel, and a request handler that has begun
\* runs on until it answers or dies.  Nothing obliges anyone to click.
Fairness ==
    /\ \A w \in Runners : WF_vars(SweepStep(w) \/ DispatchStep(w))
    /\ \A r \in Requests : WF_vars(RequestStep(r) \/ DispatchStep(r))

FairSpec == Spec /\ Fairness

(***************************************************************************)
(* Correctness.                                                            *)
(***************************************************************************)
\* One durable owner covers a human or corrective write from its reservation
\* until it settles: two processes never dispatch for the same comment, and the
\* reservation a dispatching process believes in is the stored one.
OneDispatcher ==
    \A p, q \in Procs :
        pc[p] \in DispatchPC => /\ Holds(p, task[p].c)
                                /\ (pc[q] \in DispatchPC /\ task[q].c = task[p].c) => q = p

\* Between the reservation of a human intent and its finalization nobody moves
\* the comment: the finalizer always finds the claim it was dispatched for, so
\* the write that reached YouTube is always the one that is committed.
FinalizerFindsClaim ==
    \A p \in Procs : pc[p] \in DispatchPC /\ Human(p) => StillBound(p)

\* Every comment in 'restoring' is bound to a recorded intent for that comment,
\* so a crash at any point leaves something the next cron run can replay.
ClaimHasIntent ==
    \A c \in Comments :
        comment[c].status = "restoring" =>
            LET id == comment[c].intent IN
            id # None /\ intents[id] # None /\ intents[id].c = c

\* So what a human decided is neither lost while the comment waits for it, nor
\* replaced between its reservation and its commit.
ClaimsKept == ClaimHasIntent /\ FinalizerFindsClaim

\* Nothing is under way for comment c: no action outstanding, no claim or
\* reservation, no process in the middle of it and nothing on the wire.
Touching(p, c) ==
    \/ p \in Requests /\ pc[p] \notin {"unused", "done"} /\ req[p].c = c
    \/ p \in Runners /\ pc[p] \notin {"idle", "fence"}
AtRest(c) ==
    /\ action[c].state \notin Outstanding
    /\ ~Claimed(c) /\ late[c] = {}
    /\ \A p \in Procs : ~Touching(p, c)

\* Once everything about a comment has settled, YouTube shows what the human
\* decided, unless the comment is gone: no action staged before or during the
\* decision has the last word over it.
HumanVerdictStands ==
    \A c \in Comments :
        AtRest(c) /\ comment[c].by = "human" /\ comment[c].status \in Decided =>
            remote[c] \in {RemoteOf(comment[c].status), "deleted"}

\* A comment that settled in the review queue or in a rule's hold is not public:
\* its hold landed and no released or superseded request published it.
QueuedIsHidden ==
    \A c \in Comments :
        AtRest(c) /\ comment[c].status \in Queued => remote[c] # "published"

\* A reservation whose outcome is uncertain is never given up, and while a claim
\* is reserved its status and its bound intent change only when the owner
\* finalizes it.
KeepsFence ==
    \A c \in Comments :
        /\ comment[c].dispatch = "uncertain" =>
             comment'[c].dispatch = "uncertain" /\ comment'[c].token = comment[c].token
        /\ (comment[c].dispatch # "none" /\ comment[c].status = "restoring"
            /\ (comment'[c].status # "restoring" \/ comment'[c].intent # comment[c].intent)) =>
             /\ comment[c].dispatch = "in_flight" /\ comment'[c].dispatch = "none"
             /\ pc[comment[c].token] = "landed" /\ comment'[c].by = "human"

\* Every step keeps the fence, whoever takes it.
FenceHolds == [][KeepsFence]_vars

\* The reservation of a comment is lost: its outcome is uncertain, or its owner
\* died holding it.  The code leaves such a comment to an operator.
Orphaned(c) ==
    \/ comment[c].dispatch = "uncertain"
    \/ /\ comment[c].token # None
       /\ ~(pc[comment[c].token] \in DispatchPC /\ task[comment[c].token].c = c)

\* A recorded human decision is carried out and committed in the end, by its
\* request or by the cron, unless its write was lost in mid-air.
IntentDecided ==
    \A c \in Comments :
        comment[c].status = "restoring" ~> comment[c].status # "restoring" \/ Orphaned(c)

\* Every outstanding action becomes terminal, unless the comment was orphaned:
\* the sweep never leaves a row that no later sweep can finish.
ActionResolves ==
    \A c \in Comments :
        action[c].state \in Outstanding ~> action[c].state \notin Outstanding \/ Orphaned(c)

=============================================================================
