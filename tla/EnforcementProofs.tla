------------------------- MODULE EnforcementProofs -------------------------
(***************************************************************************)
(* Theorems about Enforcement for any number of comments, runners and      *)
(* requests, any verdicts, events and bounds.                              *)
(***************************************************************************)
EXTENDS Enforcement, TLAPS

(***************************************************************************)
(* The inductive invariant.                                                *)
(***************************************************************************)
\* An unused request has recorded nothing; any other knows its comment.
ClaimsKnown ==
    \A r \in Requests :
        IF pc[r] = "unused" THEN intents[r] = None ELSE req[r].c \in Comments

\* A runner is converging: what it writes are decided statuses.
Correcting(w) == pc[w] \in {"each", "recheck"} \/ (pc[w] \in DispatchPC /\ ~Human(w))

WorkKnown ==
    /\ \A p \in Procs : pc[p] \in DispatchPC \union {"recheck"} => task[p].c \in Comments
    /\ \A w \in Runners : Correcting(w) => \A c \in run[w].todo : run[w].seen[c] \in Decided

\* A dispatching process owns the stored reservation of its comment and, for a
\* human intent, the claim the reservation was made for.
Held(p) == Holds(p, task[p].c) /\ (Human(p) => StillBound(p))
ReservationHeld == \A p \in Procs : pc[p] \in DispatchPC => Held(p)

IInv == TypeOK /\ ClaimHasIntent /\ ClaimsKnown /\ WorkKnown /\ ReservationHeld

(***************************************************************************)
(* Typing lemmas about the pieces actions are made of.                     *)
(***************************************************************************)
LEMMA RunOf ==
    ASSUME TypeOK, NEW w \in Runners
    PROVE  run[w] \in Run
  BY DEF TypeOK

LEMMA RunTyped ==
    ASSUME TypeOK, NEW w \in Runners, run' = [run EXCEPT ![w] = run'[w]], run'[w] \in Run
    PROVE  run' \in [Runners -> Run]
  BY DEF TypeOK

LEMMA RunSplit ==
    ASSUME NEW r \in Run, NEW phase \in Phase, NEW todo \in SUBSET Comments,
           NEW batch \in SUBSET Comments, NEW q,
           q = [r EXCEPT !.phase = phase, !.todo = todo, !.batch = batch]
    PROVE  q \in Run
  BY DEF Run

LEMMA RunCleared ==
    ASSUME NEW r \in Run, NEW phase \in Phase, NEW seen \in [Comments -> Status],
           NEW kind \in Kind \union {"none"}, NEW q,
           q = [r EXCEPT !.batch = {}, !.missing = FALSE, !.phase = phase,
                         !.converged = {}, !.seen = seen, !.kind = kind]
    PROVE  q \in Run
  BY DEF Run

LEMMA CommentOf ==
    ASSUME TypeOK, NEW c \in Comments
    PROVE  comment[c] \in Comment
  BY DEF TypeOK

LEMMA CommentTyped ==
    ASSUME TypeOK, NEW c \in Comments,
           comment' = [comment EXCEPT ![c] = comment'[c]], comment'[c] \in Comment
    PROVE  comment' \in [Comments -> Comment]
  BY DEF TypeOK

LEMMA NoRunTyped == NoRun \in Run
  BY DEF NoRun, Run, NoAction, Action, Phase, Kind, Status

LEMMA NoTaskTyped == NoTask \in Task
  BY DEF NoTask, Task, Status, Decided

LEMMA ReserveTyped ==
    ASSUME TypeOK, NEW p \in Procs, NEW c \in Comments, NEW status \in Status,
           NEW intent \in Requests \union {None}, NEW final \in Decided,
           Reserve(p, c, status, intent, final)
    PROVE  /\ comment' \in [Comments -> Comment]
           /\ task' \in [Procs -> Task]
           /\ pc' \in [Procs -> RunnerPC \union RequestPC]
  <1>1. comment' \in [Comments -> Comment]
    <2>1. comment' = [comment EXCEPT ![c] = comment'[c]]
      BY DEF TypeOK, Reserve
    <2>2. comment'[c] \in Comment
      BY ZenonT(60), CommentOf DEF TypeOK, Reserve, Comment
    <2> QED BY <2>1, <2>2, CommentTyped
  <1>2. task' \in [Procs -> Task]
    <2>1. [c |-> c, intent |-> intent, status |-> status, final |-> final, missing |-> FALSE]
             \in Task
      BY DEF Task
    <2> QED BY <2>1 DEF TypeOK, Reserve
  <1>3. pc' \in [Procs -> RunnerPC \union RequestPC]
    BY DEF TypeOK, Reserve, RunnerPC, DispatchPC
  <1> QED BY <1>1, <1>2, <1>3

LEMMA SettleTyped ==
    ASSUME TypeOK, NEW p \in Procs, NEW uncertain \in BOOLEAN, Settle(p, uncertain)
    PROVE  comment' \in [Comments -> Comment]
  <1> DEFINE c == task[p].c
  <1>1. CASE Holds(p, c) /\ c \in Comments
    <2>1. comment' = [comment EXCEPT ![c] = comment'[c]]
      BY <1>1 DEF TypeOK, Settle
    <2>2. comment'[c] \in Comment
      <3>1. comment'[c] = IF uncertain THEN [comment[c] EXCEPT !.dispatch = "uncertain"]
                          ELSE [comment[c] EXCEPT !.token = None, !.dispatch = "none"]
        BY <1>1 DEF TypeOK, Settle
      <3>2. comment[c] \in Comment
        BY <1>1, CommentOf
      <3> QED BY <3>1, <3>2 DEF Comment
    <2> QED BY <1>1, <2>1, <2>2, CommentTyped
  <1>2. CASE ~(Holds(p, c) /\ c \in Comments)
    <2>1. comment' = comment
      BY <1>2 DEF TypeOK, Settle
    <2> QED BY <2>1 DEF TypeOK
  <1> QED BY <1>1, <1>2

LEMMA ResumeTyped ==
    ASSUME TypeOK, NEW p \in Procs, NEW next \in RequestPC, Resume(p, next)
    PROVE  /\ task' \in [Procs -> Task]
           /\ pc' \in [Procs -> RunnerPC \union RequestPC]
           /\ run' \in [Runners -> Run]
  <1>1. task' \in [Procs -> Task]
    BY NoTaskTyped DEF TypeOK, Resume
  <1>2. pc' \in [Procs -> RunnerPC \union RequestPC]
    BY DEF TypeOK, Resume, RunnerPC, RequestPC
  <1>3. run' \in [Runners -> Run]
    <2>1. CASE p \in Runners
      <3>1. run' = [run EXCEPT ![p] = run'[p]]
        BY <2>1, RunOf DEF Resume, TypeOK
      <3>2. run'[p] = [run[p] EXCEPT !.todo = @ \ {task[p].c}]
        BY <2>1 DEF Resume, TypeOK
      <3>3. run'[p] \in Run
        BY <2>1, <3>2, RunOf DEF Run
      <3> QED BY <2>1, <3>1, <3>3, RunTyped
    <2>2. CASE p \notin Runners
      BY <2>2 DEF Resume, TypeOK
    <2> QED BY <2>1, <2>2
  <1> QED BY <1>1, <1>2, <1>3

LEMMA EndRunTyped ==
    ASSUME TypeOK, NEW w \in Runners, EndRun(w)
    PROVE  /\ task' \in [Procs -> Task]
           /\ pc' \in [Procs -> RunnerPC \union RequestPC]
           /\ run' \in [Runners -> Run]
  <1>1. task' \in [Procs -> Task] /\ run' \in [Runners -> Run]
    BY NoTaskTyped, NoRunTyped DEF TypeOK, EndRun
  <1>2. pc' \in [Procs -> RunnerPC \union RequestPC]
    BY DEF TypeOK, EndRun, RunnerPC
  <1> QED BY <1>1, <1>2

LEMMA FaultTyped ==
    ASSUME TypeOK, NEW e, Fault(e)
    PROVE  faults' \in 0..MaxFaults
  BY ConstantsAssumption DEF TypeOK, Fault, ConstantsAssumption

LEMMA BatchesTyped ==
    ASSUME NEW group, NEW single \in BOOLEAN, NEW batch \in Batches(group, single)
    PROVE  batch \subseteq group
  BY DEF Batches

LEMMA MoveTyped ==
    ASSUME TypeOK, NEW S, NEW from, NEW to \in Outstanding \union Terminal
    PROVE  Move(S, from, to) \in [Comments -> Action]
  BY DEF TypeOK, Move, Action

(***************************************************************************)
(* Type correctness, one group of actions at a time.                       *)
(***************************************************************************)
LEMMA InitTyped == Init => TypeOK
  <1> SUFFICES ASSUME Init PROVE TypeOK
    OBVIOUS
  <1>1. comment \in [Comments -> Comment]
    BY DEF Init, Comment, Status
  <1>2. NoAction \in Action
    BY DEF NoAction, Action
  <1>3. NoReq \in Req
    BY DEF NoReq, Req, Status
  <1>4. pc \in [Procs -> RunnerPC \union RequestPC]
    BY DEF Init, RunnerPC, RequestPC
  <1>5. visits \in [Comments -> 0..MaxVisits] /\ faults \in 0..MaxFaults
    BY ConstantsAssumption DEF Init, ConstantsAssumption
  <1>6. intents \in [Requests -> Intent \union {None}] /\ active \in BOOLEAN
    BY DEF Init
  <1>7. remote \in [Comments -> Remote] /\ late \in [Comments -> SUBSET Remote]
    BY DEF Init, Remote
  <1> QED
    BY <1>1, <1>2, <1>3, <1>4, <1>5, <1>6, <1>7, NoRunTyped, NoTaskTyped DEF Init, TypeOK

LEMMA StageTyped ==
    ASSUME TypeOK, NEW w \in Runners, NEW c \in Comments, NEW v \in Verdicts,
           StageDecision(w, c, v)
    PROVE  TypeOK'
  <1>1. v \in AllVerdicts
    BY ConstantsAssumption DEF ConstantsAssumption
  <1>2. v.status \in Status /\ (v.kind # "none" => v.kind \in Kind)
    BY <1>1 DEF AllVerdicts, Status, Kind
  <1>3. comment' \in [Comments -> Comment]
    <2>1. comment' = [comment EXCEPT ![c] = comment'[c]]
      BY DEF TypeOK, StageDecision
    <2>2. comment'[c] \in Comment
      BY ZenonT(60), <1>2, CommentOf DEF TypeOK, StageDecision, Comment
    <2> QED BY <2>1, <2>2, CommentTyped
  <1>4. action' \in [Comments -> Action]
    BY <1>2 DEF TypeOK, StageDecision, Action, Outstanding, Terminal
  <1>5. visits' \in [Comments -> 0..MaxVisits]
    BY ConstantsAssumption DEF ConstantsAssumption, TypeOK, StageDecision
  <1> QED BY <1>3, <1>4, <1>5 DEF TypeOK, StageDecision

LEMMA DispatchTyped ==
    ASSUME TypeOK, NEW p \in Procs, DispatchStep(p)
    PROVE  TypeOK'
  <1>1. CASE Send(p)
    <2>1. pc' \in [Procs -> RunnerPC \union RequestPC]
      BY <1>1 DEF Send, TypeOK, RunnerPC, DispatchPC
    <2> QED BY <1>1, <2>1 DEF Send, TypeOK
  <1>2. CASE SendRefused(p)
    <2>1. comment' \in [Comments -> Comment]
      BY <1>2, SettleTyped DEF SendRefused
    <2>2. (p \in Runners /\ EndRun(p)) \/ Resume(p, "release")
      BY <1>2 DEF SendRefused
    <2>3. /\ task' \in [Procs -> Task]
          /\ pc' \in [Procs -> RunnerPC \union RequestPC]
          /\ run' \in [Runners -> Run]
      <3>1. "release" \in RequestPC
        BY DEF RequestPC
      <3> QED BY <2>2, <3>1, EndRunTyped, ResumeTyped
    <2>4. faults' \in 0..MaxFaults
      BY <1>2, FaultTyped DEF SendRefused, TypeOK
    <2> QED BY <1>2, <2>1, <2>3, <2>4 DEF SendRefused, TypeOK
  <1>3. CASE Land(p)
    <2>1. remote' \in [Comments -> Remote]
      BY <1>3 DEF Land, TypeOK, Landed, RemoteOf, Remote
    <2>2. task' \in [Procs -> Task]
      <3>1. PICK missing \in BOOLEAN : task' = [task EXCEPT ![p].missing = missing]
        BY <1>3 DEF Land
      <3>2. task \in [Procs -> Task] /\ task[p] \in Task
        BY DEF TypeOK
      <3>3. [task[p] EXCEPT !.missing = missing] \in Task
        BY <3>2 DEF Task
      <3> QED BY <3>1, <3>2, <3>3
    <2>3. pc' \in [Procs -> RunnerPC \union RequestPC]
      BY <1>3 DEF Land, TypeOK, RunnerPC, DispatchPC
    <2> QED BY <1>3, <2>1, <2>2, <2>3 DEF Land, TypeOK
  <1>4. CASE Refuse(p)
    <2>1. "release" \in RequestPC
      BY DEF RequestPC
    <2>2. comment' \in [Comments -> Comment] /\ faults' \in 0..MaxFaults
      BY <1>4, SettleTyped, FaultTyped DEF Refuse
    <2> QED BY <1>4, <2>1, <2>2, ResumeTyped DEF Refuse, TypeOK
  <1>5. CASE LoseReply(p)
    <2>1. "done" \in RequestPC
      BY DEF RequestPC
    <2>2. comment' \in [Comments -> Comment] /\ faults' \in 0..MaxFaults
      BY <1>5, SettleTyped, FaultTyped DEF LoseReply
    <2>3. late' \in [Comments -> SUBSET Remote]
      BY <1>5 DEF LoseReply, TypeOK, RemoteOf, Remote
    <2> QED BY <1>5, <2>1, <2>2, <2>3, ResumeTyped DEF LoseReply, TypeOK
  <1>6. CASE Finalize(p)
    <2>1. "done" \in RequestPC
      BY DEF RequestPC
    <2>2. task[p].final \in Decided
      BY DEF TypeOK, Task
    <2>3. comment' \in [Comments -> Comment]
      <3>1. CASE StillBound(p)
        BY SMTT(60), <1>6, <2>2, <3>1 DEF Finalize, TypeOK, Comment, Decided, Status
      <3>2. CASE ~StillBound(p)
        BY <1>6, <3>2, SettleTyped DEF Finalize
      <3> QED BY <3>1, <3>2
    <2>4. \A c \in Comments : \A final :
             /\ FinalizedState(c, final) \in Outstanding \union Terminal \union {"none"}
             /\ RearmedState(p, c, final) \in Outstanding \union Terminal \union {"none"}
      BY DEF TypeOK, Action, FinalizedState, RearmedState, Outstanding, Terminal
    <2>5. action' \in [Comments -> Action]
      <3>1. PICK state : /\ task[p].c \in Comments => state \in Outstanding \union Terminal \union {"none"}
                         /\ action' = [action EXCEPT ![task[p].c].state = state]
        BY <1>6, <2>4 DEF Finalize
      <3> QED BY ZenonT(60), <3>1 DEF TypeOK, Action
    <2> QED BY <1>6, <2>1, <2>3, <2>5, ResumeTyped DEF Finalize, TypeOK
  <1>7. CASE FinalizeFails(p)
    <2>1. "done" \in RequestPC
      BY DEF RequestPC
    <2>2. comment' \in [Comments -> Comment] /\ faults' \in 0..MaxFaults
      BY <1>7, SettleTyped, FaultTyped DEF FinalizeFails, TypeOK
    <2> QED BY <1>7, <2>1, <2>2, ResumeTyped DEF FinalizeFails, TypeOK
  <1> QED BY <1>1, <1>2, <1>3, <1>4, <1>5, <1>6, <1>7 DEF DispatchStep

LEMMA RequestTyped ==
    ASSUME TypeOK, ClaimHasIntent, ClaimsKnown, NEW r \in Requests, RequestStep(r) \/ Click(r)
    PROVE  TypeOK'
  <1>1. r \in Procs
    BY DEF Procs
  <1>2. ASSUME NEW c \in Comments, NEW verb \in QueueVerbs, QueueClaim(r, c, verb)
        PROVE  TypeOK'
    <2>1. comment' \in [Comments -> Comment]
      <3>1. comment' = [comment EXCEPT ![c] = comment'[c]]
        BY <1>2 DEF TypeOK, QueueClaim
      <3>2. comment'[c] \in Comment
        BY ZenonT(60), <1>2, CommentOf DEF TypeOK, QueueClaim, Comment, Status
      <3> QED BY <3>1, <3>2, CommentTyped
    <2>2. intents' \in [Requests -> Intent \union {None}]
      BY <1>2, ConstantsAssumption DEF ConstantsAssumption, QueueClaim, TypeOK, Intent
    <2>3. req' \in [Requests -> Req]
      BY <1>2 DEF QueueClaim, TypeOK, Req, Status
    <2>4. pc' \in [Procs -> RunnerPC \union RequestPC]
      BY <1>1, <1>2 DEF QueueClaim, TypeOK, RequestPC
    <2> QED BY <1>2, <2>1, <2>2, <2>3, <2>4 DEF QueueClaim, TypeOK
  <1>3. ASSUME NEW c \in Comments, UndoClaim(r, c)
        PROVE  TypeOK'
    <2>1. comment' \in [Comments -> Comment]
      <3>1. comment' = [comment EXCEPT ![c] = comment'[c]]
        BY <1>3 DEF TypeOK, UndoClaim
      <3>2. comment'[c] \in Comment
        BY ZenonT(60), <1>3, CommentOf DEF TypeOK, UndoClaim, Comment, Status
      <3> QED BY <3>1, <3>2, CommentTyped
    <2>2. intents' \in [Requests -> Intent \union {None}]
      BY <1>3 DEF UndoClaim, TypeOK, Intent, Verb
    <2>3. req' \in [Requests -> Req]
      BY <1>3 DEF UndoClaim, TypeOK, Req, Comment
    <2>4. pc' \in [Procs -> RunnerPC \union RequestPC]
      BY <1>1, <1>3 DEF UndoClaim, TypeOK, RequestPC
    <2> QED BY <1>3, <2>1, <2>2, <2>3, <2>4 DEF UndoClaim, TypeOK
  <1>4. ASSUME NEW c \in Comments, UndoResume(r, c)
        PROVE  TypeOK'
    <2>1. req' \in [Requests -> Req]
      BY <1>4 DEF UndoResume, TypeOK, Req, Comment, Status
    <2>2. pc' \in [Procs -> RunnerPC \union RequestPC]
      BY <1>1, <1>4 DEF UndoResume, TypeOK, RequestPC
    <2> QED BY <1>4, <2>1, <2>2 DEF UndoResume, TypeOK
  <1>5. CASE RequestReserve(r)
    <2>1. req[r].c \in Comments
      BY <1>5 DEF RequestReserve, ClaimsKnown
    <2>2. /\ req[r].intent \in Requests
          /\ intents[req[r].intent] \in Intent
      <3>1. /\ comment[req[r].c].status = "restoring"
            /\ comment[req[r].c].intent = req[r].intent
        BY <1>5 DEF RequestReserve, CanReserve
      <3>2. req[r].intent \in Requests \union {None}
        BY DEF TypeOK, Req
      <3> QED BY <2>1, <3>1, <3>2 DEF ClaimHasIntent, TypeOK
    <2>3. HumanFinal[intents[req[r].intent].verb] \in Decided
      BY <2>2 DEF Intent, Verb, HumanFinal, Decided
    <2>4. "restoring" \in Status
      BY DEF Status
    <2>5. Reserve(r, req[r].c, "restoring", req[r].intent,
                  HumanFinal[intents[req[r].intent].verb])
      BY <1>5 DEF RequestReserve
    <2> QED BY <1>1, <1>5, <2>1, <2>2, <2>3, <2>4, <2>5, ReserveTyped
               DEF RequestReserve, TypeOK
  <1>6. CASE RequestBlocked(r)
    <2>1. pc' \in [Procs -> RunnerPC \union RequestPC]
      BY <1>1, <1>6 DEF RequestBlocked, TypeOK, RequestPC
    <2> QED BY <1>6, <2>1 DEF RequestBlocked, TypeOK
  <1>7. CASE RequestUnauthorized(r)
    <2>1. pc' \in [Procs -> RunnerPC \union RequestPC]
      BY <1>1, <1>7 DEF RequestUnauthorized, TypeOK, RequestPC
    <2>2. faults' \in 0..MaxFaults
      BY <1>7, FaultTyped DEF RequestUnauthorized, TypeOK
    <2> QED BY <1>7, <2>1, <2>2 DEF RequestUnauthorized, TypeOK
  <1>8. CASE Release(r)
    <2>1. pc' \in [Procs -> RunnerPC \union RequestPC]
      BY <1>1, <1>8 DEF Release, TypeOK, RequestPC
    <2>2. CASE ~MayRelease(r)
      BY <1>8, <2>1, <2>2 DEF Release, TypeOK
    <2>3. CASE MayRelease(r)
      <3> DEFINE c == req[r].c
      <3>1. comment' \in [Comments -> Comment]
        <4>1. CASE c \in Comments
          <5>1. comment' = [comment EXCEPT ![c] = comment'[c]]
            BY <1>8, <2>3, <4>1 DEF Release, TypeOK
          <5>2. comment'[c] \in Comment
            <6>1. comment'[c] = [comment[c] EXCEPT !.status = req[r].from, !.by = req[r].by,
                                                   !.intent = None]
              BY <1>8, <2>3, <4>1 DEF Release, TypeOK
            <6>2. req[r].from \in Status /\ req[r].by \in {"system", "human"}
              BY DEF TypeOK, Req
            <6> QED BY <4>1, <6>1, <6>2, CommentOf DEF Comment
          <5> QED BY <4>1, <5>1, <5>2, CommentTyped
        <4>2. CASE c \notin Comments
          BY <1>8, <2>3, <4>2 DEF Release, TypeOK
        <4> QED BY <4>1, <4>2
      <3>2. intents' \in [Requests -> Intent \union {None}]
        BY <1>8, <2>3 DEF Release, TypeOK
      <3>3. action' \in [Comments -> Action]
        BY SMTT(60), <1>8, <2>3 DEF Release, TypeOK, ReleasedState, Action, Outstanding
      <3> QED BY <1>8, <2>1, <3>1, <3>2, <3>3 DEF Release, TypeOK
    <2> QED BY <2>2, <2>3
  <1> QED BY <1>2, <1>3, <1>4, <1>5, <1>6, <1>7, <1>8 DEF RequestStep, Click

LEMMA EnvironmentTyped ==
    ASSUME TypeOK, Environment
    PROVE  TypeOK'
  <1>1. ASSUME NEW p \in Procs, Crash(p)
        PROVE  TypeOK'
    <2>1. task' \in [Procs -> Task]
      BY <1>1, NoTaskTyped DEF Crash, TypeOK
    <2>2. pc' \in [Procs -> RunnerPC \union RequestPC]
      BY <1>1 DEF Crash, TypeOK, RunnerPC, RequestPC
    <2>3. run' \in [Runners -> Run]
      BY <1>1, NoRunTyped DEF Crash, TypeOK
    <2>4. late' \in [Comments -> SUBSET Remote]
      BY <1>1 DEF Crash, TypeOK, RemoteOf, Remote
    <2>5. faults' \in 0..MaxFaults
      BY <1>1, FaultTyped DEF Crash
    <2> QED BY <1>1, <2>1, <2>2, <2>3, <2>4, <2>5 DEF Crash, TypeOK
  <1>2. ASSUME NEW c \in Comments, NEW write \in Remote, LandLate(c, write)
        PROVE  TypeOK'
    BY <1>2 DEF LandLate, TypeOK, Landed
  <1>3. ASSUME NEW c \in Comments, OwnerRemoves(c)
        PROVE  TypeOK'
    BY <1>3 DEF OwnerRemoves, TypeOK, Remote
  <1>4. CASE Pause
    BY <1>4, FaultTyped DEF Pause, TypeOK
  <1>5. CASE Unpause
    BY <1>5 DEF Unpause, TypeOK
  <1> QED BY <1>1, <1>2, <1>3, <1>4, <1>5 DEF Environment

(***************************************************************************)
(* The sweep: first the snapshots and the convergence, then the writes.    *)
(***************************************************************************)
LEMMA ReadTyped ==
    ASSUME TypeOK, WorkKnown, NEW w \in Runners,
           \/ ReadActions(w) \/ ReadFence(w) \/ ReadStatuses(w)
           \/ \E c \in Comments : CorrectOne(w, c)
           \/ SettleDecided(w) \/ Recheck(w) \/ ReleaseCancelled(w) \/ ReleaseSuperseded(w)
    PROVE  TypeOK'
  <1>1. w \in Procs
    BY DEF Procs
  <1>2. CASE ReadActions(w)
    <2>1. run' \in [Runners -> Run]
      <3>1. run' = [run EXCEPT ![w] = run'[w]]
        BY <1>2 DEF ReadActions, TypeOK
      <3>2. run'[w] = [run[w] EXCEPT !.snap = run'[w].snap]
        BY <1>2, RunOf DEF ReadActions, TypeOK
      <3>3. run'[w].snap \in [Comments -> Action]
        BY <1>2, RunOf DEF ReadActions, TypeOK, NoAction, Action, Run
      <3>4. run'[w] \in Run
        BY <3>2, <3>3, RunOf DEF Run
      <3> QED BY <3>1, <3>4, RunTyped
    <2>2. pc' \in [Procs -> RunnerPC \union RequestPC]
      BY <1>1, <1>2 DEF ReadActions, TypeOK, RunnerPC
    <2> QED BY <1>2, <2>1, <2>2 DEF ReadActions, TypeOK
  <1>3. CASE ReadFence(w)
    <2>1. run' \in [Runners -> Run]
      <3>1. run' = [run EXCEPT ![w] = run'[w]]
        BY <1>3 DEF ReadFence, TypeOK
      <3>2. run'[w] = [run[w] EXCEPT !.fenced = run'[w].fenced, !.phase = "cancelling",
                                     !.todo = run'[w].todo]
        BY <1>3, RunOf DEF ReadFence, TypeOK
      <3>3. run'[w].fenced \subseteq Comments /\ run'[w].todo \subseteq Comments
        BY ZenonT(60), <1>3, RunOf DEF ReadFence, TypeOK, Run
      <3>4. run'[w] \in Run
        BY ZenonT(60), <3>2, <3>3, RunOf DEF Run, Phase
      <3> QED BY <3>1, <3>4, RunTyped
    <2>2. pc' \in [Procs -> RunnerPC \union RequestPC]
      BY ZenonT(60), <1>1, <1>3 DEF ReadFence, TypeOK, RunnerPC
    <2> QED BY <1>3, <2>1, <2>2 DEF ReadFence, TypeOK
  <1>4. CASE ReadStatuses(w)
    <2>1. run' \in [Runners -> Run]
      <3>1. run' = [run EXCEPT ![w] = run'[w]]
        BY <1>4 DEF ReadStatuses, TypeOK
      <3>2. run'[w] = [run[w] EXCEPT !.seen = run'[w].seen, !.todo = run'[w].todo,
                                     !.converged = run'[w].converged]
        BY <1>4, RunOf DEF ReadStatuses, TypeOK
      <3>3. run'[w].seen \in [Comments -> Status]
        <4>1. \A d \in Comments : run'[w].seen[d] \in {comment[d].status, "absent"}
          BY ZenonT(60), <1>4, RunOf DEF ReadStatuses, TypeOK, Run
        <4>2. \A d \in Comments : run'[w].seen[d] \in Status
          BY <4>1, CommentOf DEF Comment, Status
        <4>3. run'[w].seen = [d \in Comments |-> run'[w].seen[d]]
          BY ZenonT(60), <1>4, RunOf DEF ReadStatuses, TypeOK, Run
        <4> QED BY <4>2, <4>3
      <3>4. run'[w].todo \subseteq Comments /\ run'[w].converged \subseteq Comments
        BY ZenonT(60), <1>4, RunOf DEF ReadStatuses, TypeOK, Run
      <3>5. run'[w] \in Run
        BY ZenonT(60), <3>2, <3>3, <3>4, RunOf DEF Run
      <3> QED BY <3>1, <3>5, RunTyped
    <2>2. pc' \in [Procs -> RunnerPC \union RequestPC]
      BY <1>1, <1>4 DEF ReadStatuses, TypeOK, RunnerPC
    <2> QED BY <1>4, <2>1, <2>2 DEF ReadStatuses, TypeOK
  <1>5. ASSUME NEW c \in Comments, CorrectOne(w, c)
        PROVE  TypeOK'
    <2>1. run[w].seen[c] \in Decided
      BY <1>5 DEF WorkKnown, Correcting, CorrectOne
    <2>2. run[w].seen[c] \in Status /\ comment[c].intent \in Requests \union {None}
      BY <2>1, CommentOf DEF Decided, Status, Comment
    <2>3. CASE Reserve(w, c, run[w].seen[c], comment[c].intent, run[w].seen[c]) /\ UNCHANGED run
      BY <1>1, <1>5, <2>1, <2>2, <2>3, ReserveTyped DEF CorrectOne, TypeOK
    <2>4. CASE /\ run' = [run EXCEPT ![w].todo = @ \ {c}]
               /\ UNCHANGED <<comment, task, pc>>
      <3>1. run' = [run EXCEPT ![w] = run'[w]]
        BY <2>4 DEF TypeOK
      <3>2. run'[w] = [run[w] EXCEPT !.todo = @ \ {c}]
        BY <2>4, RunOf DEF TypeOK
      <3>4. run'[w] \in Run
        BY <3>2, RunOf DEF Run
      <3>3. run' \in [Runners -> Run]
        BY <3>1, <3>4, RunTyped
      <3> QED BY <1>5, <2>4, <3>3 DEF CorrectOne, TypeOK
    <2> QED BY <1>5, <2>3, <2>4 DEF CorrectOne
  <1>6. CASE SettleDecided(w)
    <2>1. comment' \in [Comments -> Comment]
      BY <1>1, <1>6, SettleTyped DEF SettleDecided
    <2>2. pc' \in [Procs -> RunnerPC \union RequestPC]
      BY <1>1, <1>6 DEF SettleDecided, TypeOK, RunnerPC
    <2> QED BY <1>6, <2>1, <2>2 DEF SettleDecided, TypeOK
  <1>7. CASE Recheck(w)
    <2> DEFINE c == task[w].c
    <2>1. c \in Comments
      BY <1>1, <1>7 DEF WorkKnown, Recheck
    <2>2. comment' \in [Comments -> Comment]
      <3>1. comment' = [comment EXCEPT ![c] = comment'[c]]
        BY <1>7, <2>1 DEF Recheck, TypeOK
      <3>2. comment'[c] \in Comment
        <4>1. comment'[c] \in {comment[c], [comment[c] EXCEPT !.status = "deleted"]}
          BY <1>7, <2>1 DEF Recheck, TypeOK
        <4> QED BY <2>1, <4>1, CommentOf DEF Comment, Status
      <3> QED BY <2>1, <3>1, <3>2, CommentTyped
    <2>3. run' \in [Runners -> Run]
      <3>1. run' = [run EXCEPT ![w] = run'[w]]
        BY <1>7 DEF Recheck, TypeOK
      <3>2. run'[w] \in Run
        <4> DEFINE todo == run[w].todo \ {c}
        <4>1. PICK converged \in {run[w].converged, run[w].converged \union {c}} :
                 run'[w] = [run[w] EXCEPT !.todo = todo, !.converged = converged]
          BY <1>7 DEF Recheck, TypeOK
        <4>2. todo \in SUBSET Comments /\ converged \in SUBSET Comments
          BY <2>1, <4>1, RunOf DEF Run
        <4> HIDE DEF todo
        <4> QED BY ZenonT(60), <4>1, <4>2, RunOf DEF Run
      <3> QED BY <3>1, <3>2, RunTyped
    <2>4. task' \in [Procs -> Task]
      BY <1>1, <1>7, NoTaskTyped DEF Recheck, TypeOK
    <2>5. pc' \in [Procs -> RunnerPC \union RequestPC]
      BY <1>1, <1>7 DEF Recheck, TypeOK, RunnerPC
    <2> QED BY <1>7, <2>2, <2>3, <2>4, <2>5 DEF Recheck, TypeOK
  <1>8. ASSUME /\ run' = [run EXCEPT ![w].phase = "none", ![w].converged = {},
                          ![w].seen = [c \in Comments |-> "absent"]]
        PROVE  run' \in [Runners -> Run]
    <2>1. run' = [run EXCEPT ![w] = run'[w]]
      BY <1>8 DEF TypeOK
    <2>2. run'[w] \in Run
      <3>1. run'[w] = [run[w] EXCEPT !.phase = "none", !.converged = {},
                                     !.seen = [c \in Comments |-> "absent"]]
        BY <1>8, RunOf DEF TypeOK
      <3>2. [c \in Comments |-> "absent"] \in [Comments -> Status]
        BY DEF Status
      <3>3. "none" \in Phase
        BY DEF Phase
      <3>4. \A seen \in [Comments -> Status], r \in Run :
               [r EXCEPT !.phase = "none", !.converged = {}, !.seen = seen] \in Run
        BY <3>3 DEF Run
      <3> QED BY <3>1, <3>2, <3>4, RunOf
    <2> QED BY <2>1, <2>2, RunTyped
  <1>9. CASE ReleaseCancelled(w)
    <2>1. action' \in [Comments -> Action]
      BY <1>9, MoveTyped DEF ReleaseCancelled, Terminal
    <2>2. pc' \in [Procs -> RunnerPC \union RequestPC]
      BY <1>1, <1>9 DEF ReleaseCancelled, TypeOK, RunnerPC
    <2> QED BY <1>8, <1>9, <2>1, <2>2 DEF ReleaseCancelled, TypeOK
  <1>10. CASE ReleaseSuperseded(w)
    <2>1. action' \in [Comments -> Action]
      BY <1>10, MoveTyped DEF ReleaseSuperseded, Terminal
    <2>2. pc' \in [Procs -> RunnerPC \union RequestPC]
      BY <1>1, <1>10 DEF ReleaseSuperseded, TypeOK, RunnerPC
    <2> QED BY <1>8, <1>10, <2>1, <2>2 DEF ReleaseSuperseded, TypeOK
  <1> QED BY <1>2, <1>3, <1>4, <1>5, <1>6, <1>7, <1>9, <1>10

LEMMA WriteTyped ==
    ASSUME TypeOK, NEW w \in Runners,
           \/ ReadAuthors(w) \/ GuardPending(w) \/ GuardFails(w) \/ ClaimPending(w)
           \/ \E k \in Kind : MarkDispatched(w, k)
           \/ FinishApply(w) \/ PartitionHolds(w) \/ SendBatch(w) \/ LandBatch(w)
           \/ CompleteBatch(w) \/ CompleteConverged(w) \/ FallBack(w) \/ ConvergeApplied(w)
           \/ ReadClaims(w) \/ \E c \in Comments : ReplayIntent(w, c)
           \/ FinishRun(w) \/ Deactivated(w)
    PROVE  TypeOK'
  <1>1. w \in Procs
    BY DEF Procs
  <1>2. CASE ReadAuthors(w)
    <2>1. run' \in [Runners -> Run]
      <3>1. run' = [run EXCEPT ![w] = run'[w]]
        BY <1>2 DEF ReadAuthors, TypeOK
      <3>2. run'[w] = [run[w] EXCEPT !.unknown = run'[w].unknown]
        BY SMTT(60), <1>2, RunOf DEF ReadAuthors, TypeOK
      <3>3. run'[w].unknown \subseteq Comments
        BY <1>2, RunOf DEF ReadAuthors, TypeOK, Run, Destructive
      <3>4. run'[w] \in Run
        BY <3>2, <3>3, RunOf DEF Run
      <3> QED BY <3>1, <3>4, RunTyped
    <2>2. pc' \in [Procs -> RunnerPC \union RequestPC]
      BY <1>1, <1>2 DEF ReadAuthors, TypeOK, RunnerPC
    <2>3. faults' \in 0..MaxFaults
      BY <1>2, FaultTyped DEF ReadAuthors, TypeOK
    <2> QED BY <1>2, <2>1, <2>2, <2>3 DEF ReadAuthors, TypeOK
  <1>3. CASE GuardPending(w)
    <2>0. PICK protected : Revise(w, protected)
      BY <1>3 DEF GuardPending
    <2> DEFINE soften == {c \in run[w].unknown : Revisable(w, c)}
               snap == [c \in Comments |->
                          IF c \in soften THEN [kind |-> "hold", state |-> "pending"]
                          ELSE IF c \in protected \union run[w].unknown THEN NoAction
                          ELSE run[w].snap[c]]
    <2>1. run' \in [Runners -> Run]
      <3>1. run' = [run EXCEPT ![w] = run'[w]]
        BY <2>0 DEF Revise, TypeOK
      <3>2. run'[w] = [run[w] EXCEPT !.unknown = {}, !.snap = snap]
        BY <2>0 DEF Revise, TypeOK
      <3>3. snap \in [Comments -> Action]
        <4>1. \A d \in Comments : run[w].snap[d] \in Action
          BY RunOf DEF Run
        <4>2. [kind |-> "hold", state |-> "pending"] \in Action /\ NoAction \in Action
          BY DEF Action, NoAction, Kind, Outstanding
        <4> QED BY <4>1, <4>2
      <3>4. run'[w] \in Run
        <4> HIDE DEF snap
        <4> QED BY ZenonT(60), <3>2, <3>3, RunOf DEF Run
      <3> QED BY <3>1, <3>4, RunTyped
    <2>2. comment' \in [Comments -> Comment]
      <3>1. comment' = [d \in Comments |-> comment'[d]]
        BY <2>0 DEF Revise
      <3>2. \A d \in Comments :
               \/ comment'[d] = [comment[d] EXCEPT !.status = "approved", !.by = "system"]
               \/ comment'[d] = [comment[d] EXCEPT !.status = "pending", !.by = "system"]
               \/ comment'[d] = comment[d]
        BY <2>0 DEF Revise
      <3>3. \A row \in Comment :
               /\ [row EXCEPT !.status = "approved", !.by = "system"] \in Comment
               /\ [row EXCEPT !.status = "pending", !.by = "system"] \in Comment
        BY ZenonT(60) DEF Comment, Status
      <3> QED BY <3>1, <3>2, <3>3, CommentOf
    <2>3. action' \in [Comments -> Action]
      <3>1. action' = [d \in Comments |-> action'[d]]
        BY <2>0 DEF Revise
      <3>2. \A d \in Comments :
               \/ action'[d] = [action[d] EXCEPT !.state = "cancelling"]
               \/ action'[d] = [action[d] EXCEPT !.state = "superseded"]
               \/ action'[d] = [action[d] EXCEPT !.kind = "hold"]
               \/ action'[d] = action[d]
        BY <2>0 DEF Revise
      <3>3. \A row \in Action :
               /\ [row EXCEPT !.state = "cancelling"] \in Action
               /\ [row EXCEPT !.state = "superseded"] \in Action
               /\ [row EXCEPT !.kind = "hold"] \in Action
        BY DEF Action, Outstanding, Terminal, Kind
      <3>4. \A d \in Comments : action'[d] \in Action
        BY <3>2, <3>3 DEF TypeOK
      <3> QED BY <3>1, <3>4
    <2>4. pc' \in [Procs -> RunnerPC \union RequestPC]
      BY <1>1, <1>3 DEF GuardPending, TypeOK, RunnerPC
    <2> QED BY <1>3, <2>1, <2>2, <2>3, <2>4 DEF GuardPending, TypeOK
  <1>4. CASE GuardFails(w)
    <2>1. run' \in [Runners -> Run]
      <3>1. run' = [run EXCEPT ![w] = run'[w]]
        BY <1>4 DEF GuardFails, TypeOK
      <3>2. run'[w] = [run[w] EXCEPT !.failed = TRUE, !.unknown = {}, !.snap = run'[w].snap]
        BY <1>4, RunOf DEF GuardFails, TypeOK
      <3>3. run'[w].snap \in [Comments -> Action]
        BY <1>4, RunOf DEF GuardFails, TypeOK, NoAction, Action, Run
      <3>4. run'[w] \in Run
        BY ZenonT(60), <3>2, <3>3, RunOf DEF Run
      <3> QED BY <3>1, <3>4, RunTyped
    <2>2. pc' \in [Procs -> RunnerPC \union RequestPC]
      BY <1>1, <1>4 DEF GuardFails, TypeOK, RunnerPC
    <2>3. faults' \in 0..MaxFaults
      BY <1>4, FaultTyped DEF GuardFails, TypeOK
    <2> QED BY <1>4, <2>1, <2>2, <2>3 DEF GuardFails, TypeOK
  <1>5. CASE ClaimPending(w)
    <2>1. run' \in [Runners -> Run]
      <3>1. run' = [run EXCEPT ![w] = run'[w]]
        BY <1>5 DEF ClaimPending, TypeOK
      <3>2. run'[w] = [run[w] EXCEPT !.ready = run'[w].ready]
        BY <1>5, RunOf DEF ClaimPending, TypeOK
      <3>3. run'[w].ready \subseteq Comments
        BY <1>5, RunOf DEF ClaimPending, TypeOK, Run
      <3>4. run'[w] \in Run
        BY <3>2, <3>3, RunOf DEF Run
      <3> QED BY <3>1, <3>4, RunTyped
    <2>2. action' \in [Comments -> Action]
      BY <1>5, MoveTyped DEF ClaimPending, Outstanding
    <2>3. pc' \in [Procs -> RunnerPC \union RequestPC]
      BY <1>1, <1>5 DEF ClaimPending, TypeOK, RunnerPC
    <2> QED BY <1>5, <2>1, <2>2, <2>3 DEF ClaimPending, TypeOK
  <1>6. ASSUME NEW k \in Kind, MarkDispatched(w, k)
        PROVE  TypeOK'
    <2>1. PICK batch \in SUBSET Comments :
             /\ action' = Move(batch, Outstanding, "dispatched")
             /\ run' = [run EXCEPT ![w].kind = k, ![w].batch = batch, ![w].ready = @ \ batch]
      <3>1. run[w].ready \subseteq Comments
        BY RunOf DEF Run
      <3> QED BY <1>6, <3>1, BatchesTyped DEF MarkDispatched
    <2>2. run' \in [Runners -> Run]
      <3>1. run' = [run EXCEPT ![w] = run'[w]]
        BY <2>1 DEF TypeOK
      <3>2. run'[w] = [run[w] EXCEPT !.kind = k, !.batch = batch, !.ready = @ \ batch]
        BY <2>1, RunOf DEF TypeOK
      <3>3. \A r \in Run : [r EXCEPT !.kind = k, !.batch = batch, !.ready = r.ready \ batch] \in Run
        BY DEF Run
      <3> QED BY ZenonT(60), <3>1, <3>2, <3>3, RunOf, RunTyped
    <2>3. action' \in [Comments -> Action]
      BY <2>1, MoveTyped DEF Outstanding
    <2>4. pc' \in [Procs -> RunnerPC \union RequestPC]
      BY <1>1, <1>6 DEF MarkDispatched, TypeOK, RunnerPC
    <2> QED BY ZenonT(60), <1>6, <2>2, <2>3, <2>4 DEF MarkDispatched, TypeOK
  <1>7. CASE FinishApply(w)
    <2>1. CASE EndRun(w)
      BY <1>7, <2>1, EndRunTyped DEF FinishApply, TypeOK
    <2>2. CASE pc' = [pc EXCEPT ![w] = "reconcile"] /\ run' = [run EXCEPT ![w] = NoRun]
               /\ UNCHANGED task
      <3>1. pc' \in [Procs -> RunnerPC \union RequestPC]
        BY SMTT(60), <1>1, <2>2 DEF TypeOK, RunnerPC
      <3> QED BY <1>7, <2>2, <3>1, NoRunTyped DEF FinishApply, TypeOK
    <2> QED BY <1>7, <2>1, <2>2 DEF FinishApply
  <1>8. CASE PartitionHolds(w)
    <2>1. run' \in [Runners -> Run]
      <3>1. CASE UNCHANGED run
        BY <3>1 DEF TypeOK
      <3>2. CASE ~UNCHANGED run
        <4> DEFINE applicable == {c \in run[w].batch : comment[c].status \in Queued}
                   decided == run[w].batch \ applicable
        <4>1. run' = [run EXCEPT ![w].phase = "superseded", ![w].todo = decided,
                                 ![w].batch = applicable]
          BY <1>8, <3>2 DEF PartitionHolds
        <4>2. decided \in SUBSET Comments /\ applicable \in SUBSET Comments
          BY RunOf DEF Run
        <4> HIDE DEF applicable, decided
        <4>3. run' = [run EXCEPT ![w] = run'[w]]
          BY <4>1 DEF TypeOK
        <4>4. run'[w] = [run[w] EXCEPT !.phase = "superseded", !.todo = decided,
                                       !.batch = applicable]
          BY <4>1 DEF TypeOK
        <4>5. "superseded" \in Phase
          BY DEF Phase
        <4>6. run'[w] \in Run
          <5>1. PICK r \in Run, q \in {run'[w]} : r = run[w] /\ q = run'[w]
            BY RunOf, Zenon
          <5>2. q = [r EXCEPT !.phase = "superseded", !.todo = decided, !.batch = applicable]
            BY <4>4, <5>1, Zenon
          <5>3. q \in Run
            BY <4>2, <4>5, <5>2, RunSplit
          <5> QED BY <5>1, <5>3
        <4> QED BY <4>3, <4>6, RunTyped
      <3> QED BY <3>1, <3>2
    <2>2. pc' \in [Procs -> RunnerPC \union RequestPC]
      BY ZenonT(60), <1>1, <1>8 DEF PartitionHolds, TypeOK, RunnerPC
    <2> QED BY <1>8, <2>1, <2>2 DEF PartitionHolds, TypeOK
  <1>9. CASE SendBatch(w)
    <2>1. PICK batch \in SUBSET Comments :
             run' = [run EXCEPT ![w].batch = batch, ![w].singles = @ \ batch]
      <3>1. run[w].batch \subseteq Comments /\ run[w].singles \subseteq Comments
        BY RunOf DEF Run
      <3> QED BY <1>9, <3>1, BatchesTyped DEF SendBatch
    <2>2. run' \in [Runners -> Run]
      <3>1. run' = [run EXCEPT ![w] = run'[w]]
        BY <2>1 DEF TypeOK
      <3> DEFINE rest == run[w].singles \ batch
      <3>2. run'[w] = [run[w] EXCEPT !.batch = batch, !.singles = rest]
        BY <2>1 DEF TypeOK
      <3>3. run'[w] \in Run
        <4>1. rest \in SUBSET Comments
          BY RunOf DEF Run
        <4> HIDE DEF rest
        <4> QED BY ZenonT(60), <3>2, <4>1, RunOf DEF Run
      <3> QED BY <3>1, <3>3, RunTyped
    <2>3. pc' \in [Procs -> RunnerPC \union RequestPC]
      BY <1>1, <1>9 DEF SendBatch, TypeOK, RunnerPC
    <2> QED BY <1>9, <2>2, <2>3 DEF SendBatch, TypeOK
  <1>10. CASE LandBatch(w)
    <2>1. remote' \in [Comments -> Remote]
      <3>1. RemoteOf(Outcome[run[w].kind]) \in Remote
        BY DEF RemoteOf, Remote
      <3> QED BY <1>10, <3>1 DEF LandBatch, TypeOK
    <2>2. run' \in [Runners -> Run]
      <3>1. CASE UNCHANGED run
        BY <3>1 DEF TypeOK
      <3>2. CASE \E missing \in BOOLEAN : run' = [run EXCEPT ![w].missing = missing]
        <4>1. PICK missing \in BOOLEAN : run' = [run EXCEPT ![w].missing = missing]
          BY <3>2
        <4>2. run' = [run EXCEPT ![w] = run'[w]]
          BY <4>1 DEF TypeOK
        <4>3. run'[w] = [run[w] EXCEPT !.missing = missing]
          BY <4>1 DEF TypeOK
        <4>4. run'[w] \in Run
          BY <4>3, RunOf DEF Run
        <4> QED BY <4>2, <4>4, RunTyped
      <3> QED BY <1>10, <3>1, <3>2 DEF LandBatch
    <2>3. pc' \in [Procs -> RunnerPC \union RequestPC]
      BY <1>1, <1>10 DEF LandBatch, TypeOK, RunnerPC
    <2> QED BY <1>10, <2>1, <2>2, <2>3 DEF LandBatch, TypeOK
  <1>11. ASSUME NEW S, Complete(w, S)
         PROVE  TypeOK'
    <2>1. action' \in [Comments -> Action]
      BY <1>11 DEF Complete, TypeOK, Action, Outstanding, Terminal
    <2>2. run' \in [Runners -> Run]
      <3>1. run' = [run EXCEPT ![w] = run'[w]]
        BY <1>11 DEF Complete, TypeOK
      <3> DEFINE seen == [c \in Comments |-> "absent"]
      <3>2. PICK kind \in Kind \union {"none"} :
               run'[w] = [run[w] EXCEPT !.batch = {}, !.missing = FALSE, !.phase = "none",
                                        !.converged = {}, !.seen = seen, !.kind = kind]
        <4>1. run[w].kind \in Kind \union {"none"}
          BY RunOf DEF Run
        <4> QED BY <1>11, <4>1 DEF Complete, TypeOK
      <3>3. seen \in [Comments -> Status]
        BY DEF Status
      <3>4. "none" \in Phase
        BY DEF Phase
      <3> HIDE DEF seen
      <3>5. run'[w] \in Run
        <4>1. PICK r \in Run, q \in {run'[w]} : r = run[w] /\ q = run'[w]
          BY RunOf, Zenon
        <4>2. q = [r EXCEPT !.batch = {}, !.missing = FALSE, !.phase = "none",
                            !.converged = {}, !.seen = seen, !.kind = kind]
          BY <3>2, <4>1, Zenon
        <4>3. q \in Run
          BY <3>3, <3>4, <4>2, RunCleared
        <4> QED BY <4>1, <4>3
      <3> QED BY <3>1, <3>5, RunTyped
    <2>3. pc' \in [Procs -> RunnerPC \union RequestPC]
      BY <1>1, <1>11 DEF Complete, TypeOK, RunnerPC
    <2> QED BY <1>11, <2>1, <2>2, <2>3 DEF Complete, TypeOK
  <1>12. CASE CompleteBatch(w) \/ CompleteConverged(w)
    BY <1>11, <1>12 DEF CompleteBatch, CompleteConverged
  <1>13. CASE FallBack(w)
    <2>1. run' \in [Runners -> Run]
      <3>1. run' = [run EXCEPT ![w] = run'[w]]
        BY <1>13 DEF FallBack, TypeOK
      <3>2. run'[w] \in Run
        BY SMTT(60), <1>13, RunOf DEF FallBack, TypeOK, Run
      <3> QED BY <3>1, <3>2, RunTyped
    <2>2. pc' \in [Procs -> RunnerPC \union RequestPC]
      BY <1>1, <1>13 DEF FallBack, TypeOK, RunnerPC
    <2> QED BY <1>13, <2>1, <2>2 DEF FallBack, TypeOK
  <1>14. CASE ConvergeApplied(w)
    <2>1. run' \in [Runners -> Run]
      <3>1. run' = [run EXCEPT ![w] = run'[w]]
        BY <1>14 DEF ConvergeApplied, TypeOK
      <3>2. run'[w] = [run[w] EXCEPT !.phase = "applied", !.todo = run[w].batch]
        BY <1>14 DEF ConvergeApplied, TypeOK
      <3>3. run'[w] \in Run
        BY ZenonT(60), <3>2, RunOf DEF Run, Phase
      <3> QED BY <3>1, <3>3, RunTyped
    <2>2. pc' \in [Procs -> RunnerPC \union RequestPC]
      BY <1>1, <1>14 DEF ConvergeApplied, TypeOK, RunnerPC
    <2> QED BY <1>14, <2>1, <2>2 DEF ConvergeApplied, TypeOK
  <1>15. CASE ReadClaims(w)
    <2>1. run' \in [Runners -> Run]
      <3> DEFINE claims == {c \in Comments : Replayable(c)}
                 bound == [c \in Comments |-> comment[c].intent]
      <3>1. run' = [run EXCEPT ![w] = run'[w]]
        BY <1>15 DEF ReadClaims, TypeOK
      <3>2. run'[w] = [run[w] EXCEPT !.phase = "reconcile",
                                     !.todo = claims, !.bound = bound]
        BY <1>15 DEF ReadClaims, TypeOK
      <3>3. bound \in [Comments -> Requests \union {None}]
        BY CommentOf DEF Comment
      <3>4. claims \in SUBSET Comments
        OBVIOUS
      <3>5. "reconcile" \in Phase
        BY DEF Phase
      <3> HIDE DEF claims, bound
      <3>6. run'[w] \in Run
        BY ZenonT(60), <3>2, <3>3, <3>4, <3>5, RunOf DEF Run
      <3> QED BY <3>1, <3>6, RunTyped
    <2>2. pc' \in [Procs -> RunnerPC \union RequestPC]
      BY <1>1, <1>15 DEF ReadClaims, TypeOK, RunnerPC
    <2> QED BY <1>15, <2>1, <2>2 DEF ReadClaims, TypeOK
  <1>16. ASSUME NEW c \in Comments, ReplayIntent(w, c)
         PROVE  TypeOK'
    <2> DEFINE id == run[w].bound[c]
    <2>1. CASE /\ run' = [run EXCEPT ![w].todo = @ \ {c}]
               /\ UNCHANGED <<comment, task, pc>>
      <3>1. run' = [run EXCEPT ![w] = run'[w]]
        BY <2>1 DEF TypeOK
      <3>2. run'[w] = [run[w] EXCEPT !.todo = @ \ {c}]
        BY <2>1 DEF TypeOK
      <3>3. run'[w] \in Run
        BY SMTT(60), <3>2, RunOf DEF Run
      <3>4. run' \in [Runners -> Run]
        BY <3>1, <3>3, RunTyped
      <3> QED BY <1>16, <2>1, <3>4 DEF ReplayIntent, TypeOK
    <2>2. CASE /\ id # None /\ intents[id] # None
               /\ Reserve(w, c, "restoring", id, HumanFinal[intents[id].verb])
               /\ UNCHANGED run
      <3>1. id \in Requests
        BY <2>2, RunOf DEF Run
      <3>2. HumanFinal[intents[id].verb] \in Decided
        <4>1. intents[id] \in Intent
          BY <2>2, <3>1 DEF TypeOK
        <4> QED BY <4>1 DEF Intent, Verb, HumanFinal, Decided
      <3>3. "restoring" \in Status
        BY DEF Status
      <3>4. /\ comment' \in [Comments -> Comment]
            /\ task' \in [Procs -> Task]
            /\ pc' \in [Procs -> RunnerPC \union RequestPC]
        BY <1>1, <2>2, <3>1, <3>2, <3>3, ReserveTyped
      <3> QED BY <1>16, <2>2, <3>4 DEF ReplayIntent, TypeOK
    <2> QED BY <1>16, <2>1, <2>2 DEF ReplayIntent
  <1>17. CASE FinishRun(w)
    BY <1>17, EndRunTyped DEF FinishRun, TypeOK
  <1>18. CASE Deactivated(w)
    BY <1>18, EndRunTyped DEF Deactivated, TypeOK
  <1> QED
    BY <1>2, <1>3, <1>4, <1>5, <1>6, <1>7, <1>8, <1>9, <1>10, <1>12, <1>13, <1>14, <1>15,
       <1>16, <1>17, <1>18

LEMMA NextTyped ==
    ASSUME TypeOK, ClaimHasIntent, ClaimsKnown, WorkKnown, [Next]_vars
    PROVE  TypeOK'
  <1>1. CASE UNCHANGED vars
    BY <1>1 DEF vars, TypeOK
  <1>2. CASE Next
    BY <1>2, StageTyped, DispatchTyped, RequestTyped, EnvironmentTyped, ReadTyped,
       WriteTyped
       DEF Next, SweepStep
  <1> QED BY <1>1, <1>2
-----------------------------------------------------------------------------
(***************************************************************************)
(* The inductive invariant is preserved by every step, for any constants,  *)
(* and the theorems that follow from it.                                   *)
(***************************************************************************)

(***************************************************************************)
(* What the shared operations do to the rows of the comments table.        *)
(***************************************************************************)
LEMMA ReserveRows ==
    ASSUME TypeOK, NEW p \in Procs, NEW c \in Comments, NEW status, NEW intent, NEW final,
           Reserve(p, c, status, intent, final)
    PROVE  /\ \A d \in Comments : /\ comment'[d].status = comment[d].status
                                  /\ comment'[d].intent = comment[d].intent
                                  /\ comment'[d].by = comment[d].by
                                  /\ d # c => comment'[d] = comment[d]
           /\ comment'[c].token = p /\ comment'[c].dispatch = "in_flight"
           /\ task'[p] = [c |-> c, intent |-> intent, status |-> status, final |-> final,
                          missing |-> FALSE]
           /\ pc'[p] = "reserved"
           /\ \A q \in Procs \ {p} : pc'[q] = pc[q] /\ task'[q] = task[q]
  <1>1. /\ \A d \in Comments : /\ comment'[d].status = comment[d].status
                               /\ comment'[d].intent = comment[d].intent
                               /\ comment'[d].by = comment[d].by
                               /\ d # c => comment'[d] = comment[d]
        /\ comment'[c].token = p /\ comment'[c].dispatch = "in_flight"
    BY CommentOf DEF TypeOK, Reserve, Comment
  <1>2. /\ task'[p] = [c |-> c, intent |-> intent, status |-> status, final |-> final,
                       missing |-> FALSE]
        /\ pc'[p] = "reserved"
        /\ \A q \in Procs \ {p} : pc'[q] = pc[q] /\ task'[q] = task[q]
    BY DEF TypeOK, Reserve
  <1> QED BY <1>1, <1>2

LEMMA SettleRows ==
    ASSUME TypeOK, NEW p \in Procs, NEW uncertain \in BOOLEAN, Settle(p, uncertain)
    PROVE  \A d \in Comments : /\ comment'[d].status = comment[d].status
                               /\ comment'[d].intent = comment[d].intent
                               /\ ~Holds(p, d) => comment'[d] = comment[d]
  BY CommentOf DEF TypeOK, Settle, Comment, Holds

\* The sweep touches the comments table in four ways.
LEMMA SweepRows ==
    ASSUME NEW w \in Runners, SweepStep(w)
    PROVE  \/ \E c \in Comments : \E status, intent, final : Reserve(w, c, status, intent, final)
           \/ Settle(w, FALSE)
           \/ Recheck(w)
           \/ \E protected : Revise(w, protected)
           \/ UNCHANGED comment
  <1>1. CASE \E c \in Comments : CorrectOne(w, c) \/ ReplayIntent(w, c)
    BY <1>1 DEF CorrectOne, ReplayIntent
  <1>2. CASE SettleDecided(w) \/ Recheck(w) \/ GuardPending(w)
    BY <1>2 DEF SettleDecided, GuardPending
  <1>3. CASE \/ ReadActions(w) \/ ReadFence(w) \/ ReadStatuses(w)
             \/ ReleaseCancelled(w) \/ ReleaseSuperseded(w)
             \/ ReadAuthors(w) \/ GuardFails(w) \/ ClaimPending(w)
    BY ZenonT(60), <1>3
       DEF ReadActions, ReadFence, ReadStatuses, ReleaseCancelled, ReleaseSuperseded,
                ReadAuthors, GuardFails, ClaimPending
  <1>4. CASE \/ \E k \in Kind : MarkDispatched(w, k)
             \/ FinishApply(w) \/ PartitionHolds(w) \/ SendBatch(w) \/ LandBatch(w)
             \/ CompleteBatch(w) \/ CompleteConverged(w) \/ FallBack(w) \/ ConvergeApplied(w)
             \/ ReadClaims(w) \/ FinishRun(w) \/ Deactivated(w)
    BY <1>4 DEF MarkDispatched, FinishApply, PartitionHolds, SendBatch, LandBatch,
                CompleteBatch, CompleteConverged, Complete, FallBack, ConvergeApplied,
                ReadClaims, FinishRun, Deactivated
  <1> QED BY <1>1, <1>2, <1>3, <1>4 DEF SweepStep

(***************************************************************************)
(* A step of one process leaves the others where they are.                 *)
(***************************************************************************)
Alone(p) ==
    /\ \A q \in Procs \ {p} : pc'[q] = pc[q] /\ task'[q] = task[q]
    /\ \A w \in Runners \ {p} : run'[w] = run[w]

LEMMA ResumeAlone ==
    ASSUME TypeOK, NEW p \in Procs, NEW next, Resume(p, next) \/ (p \in Runners /\ EndRun(p))
    PROVE  Alone(p)
  BY DEF TypeOK, Resume, EndRun, Alone

LEMMA DispatchAlone ==
    ASSUME TypeOK, NEW p \in Procs, DispatchStep(p)
    PROVE  Alone(p)
  <1>1. CASE Send(p) \/ Land(p)
    BY SMTT(60), <1>1 DEF Send, Land, TypeOK, Alone
  <1>2. CASE SendRefused(p) \/ Refuse(p) \/ LoseReply(p) \/ Finalize(p) \/ FinalizeFails(p)
    BY <1>2, ResumeAlone DEF SendRefused, Refuse, LoseReply, Finalize, FinalizeFails
  <1> QED BY <1>1, <1>2 DEF DispatchStep

LEMMA RequestAlone ==
    ASSUME TypeOK, NEW r \in Requests, RequestStep(r) \/ Click(r)
    PROVE  Alone(r) /\ UNCHANGED run
  <1>1. CASE Click(r)
    BY <1>1 DEF Click, QueueClaim, UndoClaim, UndoResume, Alone, TypeOK
  <1>2. CASE RequestStep(r)
    BY <1>2
       DEF RequestStep, RequestReserve, Reserve, RequestBlocked, RequestUnauthorized, Release,
                Alone, TypeOK
  <1> QED BY <1>1, <1>2

LEMMA SweepAlone ==
    ASSUME TypeOK, NEW w \in Runners, SweepStep(w)
    PROVE  Alone(w)
  <1>1. CASE FinishRun(w) \/ Deactivated(w) \/ FinishApply(w)
    BY <1>1, ResumeAlone DEF FinishRun, Deactivated, FinishApply, Alone, TypeOK, Procs
  <1>2. CASE \/ ReadActions(w) \/ ReadFence(w) \/ ReadStatuses(w) \/ SettleDecided(w)
             \/ Recheck(w) \/ ReleaseCancelled(w) \/ ReleaseSuperseded(w)
    BY <1>2
       DEF ReadActions, ReadFence, ReadStatuses, SettleDecided, Recheck, ReleaseCancelled,
                ReleaseSuperseded, Alone, TypeOK
  <1>3. CASE \E c \in Comments : CorrectOne(w, c) \/ ReplayIntent(w, c)
    BY SMTT(60), <1>3 DEF CorrectOne, ReplayIntent, Reserve, Alone, TypeOK
  <1>4. CASE \/ ReadAuthors(w) \/ GuardPending(w) \/ GuardFails(w) \/ ClaimPending(w)
    BY ZenonT(60), <1>4
       DEF ReadAuthors, GuardPending, Revise, GuardFails, ClaimPending, Alone, TypeOK
  <1>5. CASE (\E k \in Kind : MarkDispatched(w, k)) \/ PartitionHolds(w) \/ SendBatch(w)
             \/ LandBatch(w)
    BY ZenonT(60), <1>5
       DEF MarkDispatched, PartitionHolds, SendBatch, LandBatch, Alone, TypeOK
  <1>6. CASE \/ CompleteBatch(w) \/ CompleteConverged(w) \/ FallBack(w) \/ ConvergeApplied(w)
             \/ ReadClaims(w)
    BY ZenonT(60), <1>6
       DEF CompleteBatch, CompleteConverged, Complete, FallBack, ConvergeApplied, ReadClaims,
                Alone, TypeOK
  <1> QED BY <1>1, <1>2, <1>3, <1>4, <1>5, <1>6 DEF SweepStep

(***************************************************************************)
(* Only requests record or delete intents, and every claim stays bound.    *)
(***************************************************************************)
\* A step that claims nothing keeps every remaining claim bound as it was.
LEMMA BoundKept ==
    ASSUME ClaimHasIntent, UNCHANGED intents,
           \A c \in Comments : comment'[c].status = "restoring" =>
                /\ comment[c].status = "restoring"
                /\ comment'[c].intent = comment[c].intent
    PROVE  ClaimHasIntent'
  BY DEF ClaimHasIntent

LEMMA KnownKept ==
    ASSUME TypeOK, ClaimsKnown, NEW p \in Procs, Alone(p), UNCHANGED <<intents, req>>,
           p \in Requests => pc[p] # "unused" /\ pc'[p] # "unused"
    PROVE  ClaimsKnown'
  BY DEF ClaimsKnown, Alone, Procs

LEMMA DispatchClaims ==
    ASSUME IInv, NEW p \in Procs, DispatchStep(p)
    PROVE  ClaimHasIntent' /\ ClaimsKnown'
  <1> USE DEF IInv
  <1>1. UNCHANGED <<intents, req>>
    BY ZenonT(60)
       DEF DispatchStep, Send, SendRefused, Land, Refuse, LoseReply, Finalize, FinalizeFails
  <1>2. p \in Requests => pc[p] # "unused" /\ pc'[p] # "unused"
    BY ZenonT(60), ConstantsAssumption
       DEF ConstantsAssumption, DispatchStep, Send, SendRefused, Land, Refuse, LoseReply, Finalize,
           FinalizeFails, Resume, TypeOK, Procs
  <1>3. ClaimsKnown'
    BY <1>1, <1>2, DispatchAlone, KnownKept
  <1>4. \A c \in Comments : comment'[c].status = "restoring" =>
            comment[c].status = "restoring" /\ comment'[c].intent = comment[c].intent
    <2>1. CASE Settle(p, TRUE) \/ Settle(p, FALSE)
      BY <2>1, SettleRows
    <2>2. CASE UNCHANGED comment
      BY <2>2
    <2>3. CASE Finalize(p) /\ StillBound(p)
      <3>1. task[p].c \in Comments /\ task[p].final \in Decided
        BY SMTT(60), <2>3 DEF WorkKnown, Finalize, DispatchPC, TypeOK, Task
      <3>2. PICK final \in Decided :
               comment' = [comment EXCEPT ![task[p].c].status = final, ![task[p].c].by = "human",
                              ![task[p].c].intent = None, ![task[p].c].token = None,
                              ![task[p].c].dispatch = "none"]
        BY <2>3, <3>1 DEF Finalize, Decided
      <3>3. \A c \in Comments : comment'[c].status \in {comment[c].status, final}
        BY <3>2, CommentOf DEF Comment, TypeOK
      <3>4. \A c \in Comments \ {task[p].c} : comment'[c] = comment[c]
        BY <3>2 DEF TypeOK
      <3>5. comment'[task[p].c].status = final
        BY <3>1, <3>2, CommentOf DEF Comment, TypeOK
      <3> QED BY <3>2, <3>4, <3>5 DEF Decided
    <2> QED
      BY <2>1, <2>2, <2>3
         DEF DispatchStep, Send, SendRefused, Land, Refuse, LoseReply, Finalize, FinalizeFails
  <1> QED BY <1>1, <1>3, <1>4, BoundKept

LEMMA SweepClaims ==
    ASSUME IInv, NEW w \in Runners, SweepStep(w)
    PROVE  ClaimHasIntent' /\ ClaimsKnown'
  <1> USE DEF IInv
  <1>1. w \in Procs /\ w \notin Requests
    BY SMTT(60), ConstantsAssumption DEF ConstantsAssumption, Procs
  <1>2. UNCHANGED <<intents, req>>
    BY DEF SweepStep, ReadActions, ReadFence, ReadStatuses, CorrectOne, SettleDecided,
       Recheck,
           ReleaseCancelled, ReleaseSuperseded, ReadAuthors, GuardPending, GuardFails,
           ClaimPending, MarkDispatched, FinishApply, PartitionHolds, SendBatch, LandBatch,
           CompleteBatch, CompleteConverged, Complete, FallBack, ConvergeApplied, ReadClaims,
           ReplayIntent, FinishRun, Deactivated
  <1>3. ClaimsKnown'
    BY <1>1, <1>2, SweepAlone, KnownKept
  <1>4. \A c \in Comments : comment'[c].status = "restoring" =>
            comment[c].status = "restoring" /\ comment'[c].intent = comment[c].intent
    <2>1. CASE \E c \in Comments : \E status, intent, final : Reserve(w, c, status, intent, final)
      BY ZenonT(60), <1>1, <2>1, ReserveRows
    <2>2. CASE Settle(w, FALSE)
      BY <1>1, <2>2, SettleRows
    <2>3. CASE Recheck(w)
      <3>1. \A d \in Comments : \/ comment'[d] = comment[d]
                                \/ comment'[d] = [comment[d] EXCEPT !.status = "deleted"]
        BY <2>3 DEF Recheck, TypeOK
      <3>2. \A d \in Comments : comment'[d] # comment[d] => comment'[d].status = "deleted"
        BY <3>1, CommentOf DEF Comment
      <3> QED BY <3>2
    <2>4. CASE \E protected : Revise(w, protected)
      <3>1. \A d \in Comments :
               \/ comment'[d] = comment[d]
               \/ comment'[d] = [comment[d] EXCEPT !.status = "approved", !.by = "system"]
               \/ comment'[d] = [comment[d] EXCEPT !.status = "pending", !.by = "system"]
        BY ZenonT(60), <2>4 DEF Revise
      <3>2. \A d \in Comments : comment'[d] # comment[d] =>
                comment'[d].status \in {"approved", "pending"}
        BY <3>1, CommentOf DEF Comment
      <3> QED BY <3>2
    <2>5. CASE UNCHANGED comment
      BY <2>5
    <2> QED BY <2>1, <2>2, <2>3, <2>4, <2>5, SweepRows
  <1> QED BY <1>2, <1>3, <1>4, BoundKept

\* A fresh request binds a comment to the intent it records.
LEMMA FreshClaim ==
    ASSUME TypeOK, ClaimHasIntent, ClaimsKnown, NEW r \in Requests, NEW c \in Comments, NEW i,
           pc[r] = "unused", i # None, i.c = c, intents' = [intents EXCEPT ![r] = i],
           comment'[c].intent = r, \A d \in Comments \ {c} : comment'[d] = comment[d]
    PROVE  ClaimHasIntent'
  <1>1. r # None
    BY ConstantsAssumption DEF ConstantsAssumption
  <1>2. intents'[r] = i /\ \A q \in Requests \ {r} : intents'[q] = intents[q]
    BY DEF TypeOK
  <1>3. intents[r] = None
    BY DEF ClaimsKnown
  <1>4. ASSUME NEW d \in Comments \ {c}, comment'[d].status = "restoring"
        PROVE  /\ comment'[d].intent # None /\ intents'[comment'[d].intent] # None
               /\ intents'[comment'[d].intent].c = d
    <2>1. comment'[d] = comment[d] /\ comment[d].intent \in Requests \ {r}
      BY <1>3, <1>4, CommentOf DEF ClaimHasIntent, Comment
    <2> QED BY <1>2, <1>4, <2>1 DEF ClaimHasIntent
  <1> QED BY <1>1, <1>2, <1>4 DEF ClaimHasIntent

LEMMA RequestClaims ==
    ASSUME IInv, NEW r \in Requests, RequestStep(r) \/ Click(r)
    PROVE  ClaimHasIntent' /\ ClaimsKnown'
  <1> USE DEF IInv
  <1>1. r \in Procs /\ r # None
    BY ConstantsAssumption DEF ConstantsAssumption, Procs
  <1>2. Alone(r)
    BY RequestAlone
  <1>3. ASSUME NEW c \in Comments, NEW verb \in Verb, NEW i, i = [c |-> c, verb |-> verb],
               pc[r] = "unused", intents' = [intents EXCEPT ![r] = i], comment'[c].intent = r,
               \A d \in Comments \ {c} : comment'[d] = comment[d],
               pc'[r] = "claimed", req'[r].c = c, \A q \in Requests \ {r} : req'[q] = req[q]
        PROVE  ClaimHasIntent' /\ ClaimsKnown'
    <2>1. i \in Intent /\ i # None /\ i.c = c
      <3>1. i \in Intent
        BY <1>3 DEF Intent
      <3> QED BY <1>3, <3>1, ConstantsAssumption DEF ConstantsAssumption
    <2>2. ClaimHasIntent'
      BY <1>3, <2>1, FreshClaim
    <2>3. \A q \in Requests \ {r} : intents'[q] = intents[q]
      BY <1>3 DEF TypeOK
    <2>4. ClaimsKnown'
      BY <1>1, <1>2, <1>3, <2>3 DEF ClaimsKnown, Alone, Procs
    <2> QED BY <2>2, <2>4
  <1>4. ASSUME NEW c \in Comments, NEW verb \in QueueVerbs, QueueClaim(r, c, verb)
        PROVE  ClaimHasIntent' /\ ClaimsKnown'
    <2>1. verb \in Verb
      BY ConstantsAssumption DEF ConstantsAssumption
    <2>2. comment'[c].intent = r /\ \A d \in Comments \ {c} : comment'[d] = comment[d]
      BY <1>4, CommentOf DEF QueueClaim, TypeOK, Comment
    <2>3. pc'[r] = "claimed" /\ req'[r].c = c /\ \A q \in Requests \ {r} : req'[q] = req[q]
      BY <1>1, <1>4 DEF QueueClaim, TypeOK, Req
    <2> QED BY <1>3, <1>4, <2>1, <2>2, <2>3 DEF QueueClaim
  <1>5. ASSUME NEW c \in Comments, UndoClaim(r, c)
        PROVE  ClaimHasIntent' /\ ClaimsKnown'
    <2>1. "restore" \in Verb
      BY DEF Verb
    <2>2. comment'[c].intent = r /\ \A d \in Comments \ {c} : comment'[d] = comment[d]
      BY <1>5, CommentOf DEF UndoClaim, TypeOK, Comment
    <2>3. pc'[r] = "claimed" /\ req'[r].c = c /\ \A q \in Requests \ {r} : req'[q] = req[q]
      BY <1>1, <1>5 DEF UndoClaim, TypeOK, Req
    <2> QED BY <1>3, <1>5, <2>1, <2>2, <2>3 DEF UndoClaim
  <1>6. ASSUME NEW c \in Comments, UndoResume(r, c)
        PROVE  ClaimHasIntent' /\ ClaimsKnown'
    <2>1. pc'[r] = "claimed" /\ req'[r].c = c /\ \A q \in Requests \ {r} : req'[q] = req[q]
      BY <1>1, <1>6 DEF UndoResume, TypeOK, Req
    <2>2. ClaimsKnown'
      BY <1>1, <1>2, <1>6, <2>1 DEF UndoResume, ClaimsKnown, Alone, Procs
    <2> QED BY <1>6, <2>2 DEF UndoResume, ClaimHasIntent
  <1>7. CASE RequestReserve(r) \/ RequestBlocked(r) \/ RequestUnauthorized(r)
    <2>1. pc[r] # "unused" /\ pc'[r] # "unused" /\ UNCHANGED <<intents, req>>
      BY <1>1, <1>7
         DEF RequestReserve, Reserve, RequestBlocked, RequestUnauthorized, TypeOK
    <2>2. ClaimsKnown'
      BY <1>1, <1>2, <2>1, KnownKept
    <2>3. CASE RequestReserve(r)
      <3>1. req[r].c \in Comments
        BY <2>1 DEF ClaimsKnown
      <3>2. \A d \in Comments : /\ comment'[d].status = comment[d].status
                                /\ comment'[d].intent = comment[d].intent
        <4>1. \E final : Reserve(r, req[r].c, "restoring", req[r].intent, final)
          BY <2>3 DEF RequestReserve
        <4> QED BY <1>1, <3>1, <4>1, ReserveRows
      <3> QED BY <2>1, <2>2, <3>2, BoundKept
    <2>4. CASE RequestBlocked(r) \/ RequestUnauthorized(r)
      BY <2>1, <2>2, <2>4 DEF RequestBlocked, RequestUnauthorized, ClaimHasIntent
    <2> QED BY <1>7, <2>2, <2>3, <2>4
  <1>8. CASE Release(r)
    <2> DEFINE c == req[r].c
    <2>1. pc[r] # "unused" /\ pc'[r] # "unused" /\ req' = req /\ c \in Comments
      BY <1>1, <1>8 DEF Release, TypeOK, ClaimsKnown
    <2>2. \A q \in Requests \ {r} : intents'[q] = intents[q]
      BY <1>8 DEF Release, TypeOK
    <2>3. ClaimsKnown'
      BY <1>1, <1>2, <2>1, <2>2 DEF ClaimsKnown, Alone, Procs
    <2>4. CASE MayRelease(r)
      <3>1. comment[c].status = "restoring" /\ comment[c].intent = r /\ req[r].from # "restoring"
        BY <2>4 DEF MayRelease, CanReserve
      <3>2. /\ comment'[c].status # "restoring"
            /\ \A d \in Comments \ {c} : comment'[d] = comment[d]
        BY <1>8, <2>1, <2>4, <3>1, CommentOf DEF Release, TypeOK, Comment
      <3>3. \A d \in Comments \ {c} :
               comment[d].status = "restoring" => comment[d].intent \in Requests \ {r}
        BY <2>1, <3>1, CommentOf DEF ClaimHasIntent, Comment
      <3> QED BY <2>2, <2>3, <3>2, <3>3 DEF ClaimHasIntent
    <2>5. CASE ~MayRelease(r)
      BY <1>8, <2>3, <2>5 DEF Release, ClaimHasIntent
    <2> QED BY <2>4, <2>5
  <1> QED BY <1>4, <1>5, <1>6, <1>7, <1>8 DEF RequestStep, Click

LEMMA StageClaims ==
    ASSUME IInv, NEW w \in Runners, NEW c \in Comments, NEW v \in Verdicts, StageDecision(w, c, v)
    PROVE  ClaimHasIntent' /\ ClaimsKnown'
  <1> USE DEF IInv
  <1>1. v.status # "restoring"
    BY ConstantsAssumption DEF ConstantsAssumption, AllVerdicts
  <1>2. \A d \in Comments : comment'[d] # comment[d] => comment'[d].status = v.status
    BY CommentOf DEF StageDecision, TypeOK, Comment
  <1> QED BY <1>1, <1>2 DEF StageDecision, ClaimHasIntent, ClaimsKnown

LEMMA EnvironmentClaims ==
    ASSUME IInv, Environment
    PROVE  ClaimHasIntent' /\ ClaimsKnown'
  <1> USE DEF IInv
  <1>1. UNCHANGED <<comment, intents, req>>
    BY DEF Environment, Crash, OwnerRemoves, LandLate, Pause, Unpause
  <1>2. \A r \in Requests : pc'[r] = "unused" <=> pc[r] = "unused"
    BY ConstantsAssumption
       DEF ConstantsAssumption, Environment, Crash, OwnerRemoves, LandLate,
                               Pause, Unpause, TypeOK, Procs
  <1> QED BY <1>1, <1>2 DEF ClaimHasIntent, ClaimsKnown

LEMMA ClaimsNext ==
    ASSUME IInv, [Next]_vars
    PROVE  ClaimHasIntent' /\ ClaimsKnown'
  <1>1. CASE UNCHANGED vars
    BY <1>1 DEF vars, IInv, ClaimHasIntent, ClaimsKnown
  <1>2. CASE Next
    BY <1>2, DispatchClaims, SweepClaims, RequestClaims, StageClaims,
       EnvironmentClaims DEF Next
  <1> QED BY <1>1, <1>2

(***************************************************************************)
(* A process at work knows its comment, a converging runner its statuses.  *)
(***************************************************************************)
KnownBy(p) ==
    /\ pc[p] \in DispatchPC \union {"recheck"} => task[p].c \in Comments
    /\ p \in Runners => (Correcting(p) => \A c \in run[p].todo : run[p].seen[c] \in Decided)

\* It is enough to look at the process that made the step.
LEMMA WorkKept ==
    ASSUME WorkKnown, NEW p \in Procs, Alone(p), KnownBy(p)'
    PROVE  WorkKnown'
  <1>1. \A q \in Procs \ {p} : KnownBy(q) => KnownBy(q)'
    BY DEF Alone, KnownBy, Correcting, Human
  <1>2. \A q \in Procs : KnownBy(q)
    BY DEF WorkKnown, KnownBy
  <1>3. \A q \in Procs : KnownBy(q)'
    BY <1>1, <1>2
  <1> QED BY <1>3 DEF WorkKnown, KnownBy, Procs

LEMMA DispatchWork ==
    ASSUME IInv, NEW p \in Procs, DispatchStep(p)
    PROVE  WorkKnown'
  <1> USE DEF IInv
  <1>1. task[p].c \in Comments /\ pc[p] \in DispatchPC
    BY DEF WorkKnown, DispatchStep, Send, SendRefused, Land, Refuse, LoseReply, Finalize,
           FinalizeFails, DispatchPC
  <1>2. p \in Runners /\ ~Human(p) => \A c \in run[p].todo : run[p].seen[c] \in Decided
    BY <1>1 DEF WorkKnown, Correcting
  <1>3. CASE Send(p) \/ Land(p)
    <2>1. run' = run /\ task'[p].c = task[p].c /\ task'[p].status = task[p].status
      BY <1>3 DEF Send, Land, TypeOK, Task
    <2>2. pc'[p] \in {"sent", "landed"}
      BY <1>3 DEF Send, Land, TypeOK
    <2> QED BY <1>1, <1>2, <2>1, <2>2, DispatchAlone, WorkKept
               DEF KnownBy, Correcting, Human
  <1>4. CASE SendRefused(p) \/ Refuse(p) \/ LoseReply(p) \/ Finalize(p) \/ FinalizeFails(p)
    <2>1. (\E next \in {"release", "done"} : Resume(p, next)) \/ (p \in Runners /\ EndRun(p))
      BY <1>4 DEF SendRefused, Refuse, LoseReply, Finalize, FinalizeFails
    <2>2. /\ pc'[p] \in {"release", "done", "replay", "each", "idle"}
          /\ p \in Runners /\ pc'[p] = "each" => ~Human(p)
      BY <2>1 DEF Resume, EndRun, TypeOK
    <2>3. p \in Runners /\ pc'[p] = "each" =>
             run'[p].todo \subseteq run[p].todo /\ run'[p].seen = run[p].seen
      BY <2>1, RunOf DEF Resume, EndRun, TypeOK, Run
    <2> QED BY SMTT(60), <1>2, <2>2, <2>3, DispatchAlone, WorkKept
               DEF KnownBy, Correcting, DispatchPC
  <1> QED BY SMTT(60), <1>3, <1>4 DEF DispatchStep

LEMMA SweepWork ==
    ASSUME IInv, NEW w \in Runners, SweepStep(w)
    PROVE  WorkKnown'
  <1> USE DEF IInv
  <1>1. w \in Procs
    BY DEF Procs
  <1>2. SUFFICES KnownBy(w)'
    BY <1>1, SweepAlone, WorkKept
  <1>3. ASSUME NEW c \in Comments, CorrectOne(w, c)
        PROVE  KnownBy(w)'
    <2>1. \A d \in run[w].todo : run[w].seen[d] \in Decided
      BY <1>1, <1>3 DEF WorkKnown, Correcting, CorrectOne
    <2>2. CASE \E intent, final : Reserve(w, c, run[w].seen[c], intent, final) /\ UNCHANGED run
      <3>1. task'[w].c = c
        <4>1. PICK intent, final : Reserve(w, c, run[w].seen[c], intent, final)
          BY <2>2
        <4> QED BY <1>1, <4>1 DEF Reserve, TypeOK
      <3> QED BY <2>1, <2>2, <3>1 DEF KnownBy
    <2>3. CASE run' = [run EXCEPT ![w].todo = @ \ {c}] /\ UNCHANGED <<task, pc>>
      <3>1. run'[w].todo \subseteq run[w].todo /\ run'[w].seen = run[w].seen
        BY <2>3, RunOf DEF TypeOK, Run
      <3> QED BY <1>3, <2>1, <2>3, <3>1 DEF KnownBy, CorrectOne, DispatchPC
    <2> QED BY <1>3, <2>2, <2>3 DEF CorrectOne
  <1>4. ASSUME NEW c \in Comments, ReplayIntent(w, c)
        PROVE  KnownBy(w)'
    <2>1. CASE \E intent, final : Reserve(w, c, "restoring", intent, final) /\ UNCHANGED run
      <3>1. pc'[w] = "reserved" /\ task'[w].c = c /\ task'[w].status = "restoring"
        <4>1. PICK intent, final : Reserve(w, c, "restoring", intent, final)
          BY <2>1
        <4> QED BY <1>1, <4>1 DEF Reserve, TypeOK
      <3> QED BY <3>1 DEF KnownBy, Correcting, Human
    <2>2. CASE UNCHANGED <<task, pc>>
      BY <1>4, <2>2 DEF KnownBy, ReplayIntent, DispatchPC, Correcting
    <2> QED BY <1>4, <2>1, <2>2 DEF ReplayIntent
  <1>5. CASE ReadStatuses(w)
    <2>1. pc'[w] = "each" /\ task' = task
      BY <1>1, <1>5 DEF ReadStatuses, TypeOK
    <2>2. run'[w].todo = {c \in run[w].todo : NeedsWrite(w, c, comment[c].status)}
      BY <1>5, RunOf DEF ReadStatuses, TypeOK, Run
    <2>3. run'[w].seen = [c \in Comments |-> IF c \in run'[w].todo THEN comment[c].status
                                             ELSE "absent"]
      BY <1>5, RunOf DEF ReadStatuses, TypeOK, Run
    <2>4. run[w].todo \subseteq Comments
      BY RunOf DEF Run
    <2>5. \A c \in run'[w].todo : run'[w].seen[c] \in Decided
      BY <2>2, <2>3, <2>4 DEF NeedsWrite
    <2> QED BY <2>1, <2>5 DEF KnownBy, DispatchPC
  <1>6. CASE SettleDecided(w)
    <2>1. \A c \in run[w].todo : run[w].seen[c] \in Decided
      BY <1>1, <1>6 DEF WorkKnown, SettleDecided, Correcting, DispatchPC
    <2>2. task[w].c \in Comments
      BY <1>1, <1>6 DEF WorkKnown, SettleDecided, DispatchPC
    <2> QED BY <1>6, <2>1, <2>2 DEF KnownBy, SettleDecided
  <1>7. CASE Recheck(w)
    <2>1. \A c \in run[w].todo : run[w].seen[c] \in Decided
      BY <1>7 DEF WorkKnown, Recheck, Correcting
    <2>2. run'[w].todo \subseteq run[w].todo /\ run'[w].seen = run[w].seen
      BY <1>7, RunOf DEF Recheck, TypeOK, Run
    <2>3. pc'[w] = "each"
      BY <1>1, <1>7 DEF Recheck, TypeOK
    <2> QED BY <2>1, <2>2, <2>3 DEF KnownBy, DispatchPC
  <1>8. CASE pc'[w] \notin DispatchPC \union {"each", "recheck"}
    BY <1>8 DEF KnownBy, Correcting
  <1>9. CASE \/ ReadActions(w) \/ ReadFence(w) \/ ReleaseCancelled(w) \/ ReleaseSuperseded(w)
             \/ ReadAuthors(w) \/ GuardPending(w) \/ GuardFails(w) \/ ClaimPending(w)
    <2>1. pc'[w] \in {"fence", "converge", "guard", "apply", "write", "revise", "claim"}
      BY ZenonT(60), <1>1, <1>9
         DEF ReadActions, ReadFence, ReleaseCancelled, ReleaseSuperseded, ReadAuthors,
                        GuardPending, GuardFails, ClaimPending, TypeOK
    <2> QED BY SMTT(60), <1>8, <2>1 DEF DispatchPC
  <1>10. CASE \/ \E k \in Kind : MarkDispatched(w, k)
              \/ FinishApply(w) \/ PartitionHolds(w) \/ SendBatch(w) \/ LandBatch(w)
    <2>1. pc'[w] \in {"partition", "write", "reconcile", "idle", "converge", "wired", "answered"}
      BY ZenonT(60), <1>1, <1>10
         DEF MarkDispatched, FinishApply, EndRun, PartitionHolds, SendBatch, LandBatch,
                         TypeOK
    <2> QED BY <1>8, <2>1 DEF DispatchPC
  <1>11. CASE \/ CompleteBatch(w) \/ CompleteConverged(w) \/ FallBack(w) \/ ConvergeApplied(w)
              \/ ReadClaims(w) \/ FinishRun(w) \/ Deactivated(w)
    <2>1. pc'[w] \in {"apply", "write", "converge", "replay", "idle"}
      BY <1>1, <1>11
         DEF CompleteBatch, CompleteConverged, Complete, FallBack, ConvergeApplied,
                         ReadClaims, FinishRun, Deactivated, EndRun, TypeOK
    <2> QED BY <1>8, <2>1 DEF DispatchPC
  <1> QED BY <1>3, <1>4, <1>5, <1>6, <1>7, <1>9, <1>10, <1>11 DEF SweepStep

LEMMA RequestWork ==
    ASSUME IInv, NEW r \in Requests, RequestStep(r) \/ Click(r)
    PROVE  WorkKnown'
  <1> USE DEF IInv
  <1>1. r \in Procs /\ r \notin Runners
    BY ConstantsAssumption DEF ConstantsAssumption, Procs
  <1>2. Alone(r)
    BY RequestAlone
  <1>3. CASE RequestReserve(r)
    <2>1. req[r].c \in Comments
      BY <1>3 DEF RequestReserve, ClaimsKnown
    <2>2. task'[r].c = req[r].c
      BY <1>1, <1>3 DEF RequestReserve, Reserve, TypeOK
    <2> QED BY <1>1, <1>2, <2>1, <2>2, WorkKept DEF KnownBy
  <1>4. CASE Click(r) \/ RequestBlocked(r) \/ RequestUnauthorized(r) \/ Release(r)
    <2>1. pc'[r] \in {"claimed", "done", "release"}
      BY <1>1, <1>4 DEF Click, QueueClaim, UndoClaim, UndoResume, RequestBlocked,
                        RequestUnauthorized, Release, TypeOK
    <2> QED BY SMTT(60), <1>1, <1>2, <2>1, WorkKept DEF KnownBy, DispatchPC
  <1> QED BY <1>3, <1>4 DEF RequestStep

LEMMA EnvironmentWork ==
    ASSUME IInv, Environment
    PROVE  WorkKnown'
  <1> USE DEF IInv
  <1>1. ASSUME NEW p \in Procs, Crash(p)
        PROVE  WorkKnown'
    <2>1. Alone(p)
      BY <1>1 DEF Crash, Alone, TypeOK
    <2>2. pc'[p] \in {"idle", "done"}
      BY <1>1 DEF Crash, TypeOK
    <2> QED BY <2>1, <2>2, WorkKept DEF KnownBy, Correcting, DispatchPC
  <1>2. CASE UNCHANGED <<pc, task, run>>
    BY <1>2 DEF WorkKnown, Correcting, Human
  <1> QED BY <1>1, <1>2 DEF Environment, OwnerRemoves, LandLate, Pause, Unpause

LEMMA WorkNext ==
    ASSUME IInv, [Next]_vars
    PROVE  WorkKnown'
  <1>1. CASE UNCHANGED <<pc, task, run>>
    BY <1>1 DEF IInv, WorkKnown, Correcting, Human
  <1>2. CASE Next
    BY <1>1, <1>2, DispatchWork, SweepWork, RequestWork, EnvironmentWork
       DEF Next, StageDecision
  <1> QED BY <1>1, <1>2 DEF vars

(***************************************************************************)
(* A reservation stays with its owner.                                     *)
(***************************************************************************)
\* What a step of process p does to reserved comments: what others hold, and what
\* it lost itself, keeps its reservation and the claim under it; what it holds in
\* flight leaves 'restoring' or its intent only when p finalizes it.
Respects(p) ==
    \A d \in Comments : comment[d].dispatch # "none" =>
        /\ ~Holds(p, d) =>
             /\ comment'[d].token = comment[d].token
             /\ comment'[d].dispatch = comment[d].dispatch
             /\ comment[d].status = "restoring" => /\ comment'[d].status = "restoring"
                                                   /\ comment'[d].intent = comment[d].intent
        /\ (Holds(p, d) /\ comment[d].status = "restoring"
            /\ (comment'[d].status # "restoring" \/ comment'[d].intent # comment[d].intent)) =>
             pc[p] = "landed" /\ comment'[d].dispatch = "none" /\ comment'[d].by = "human"

\* A step is orderly if only its process moved, and holds what it works on.
Orderly(p) == Alone(p) /\ Respects(p) /\ (pc'[p] \in DispatchPC => Held(p)')

LEMMA HeldKept ==
    ASSUME TypeOK, WorkKnown, ReservationHeld, NEW p \in Procs, Orderly(p)
    PROVE  ReservationHeld'
  <1> USE DEF Orderly
  <1>1. ASSUME NEW q \in Procs \ {p}, pc'[q] \in DispatchPC
        PROVE  Held(q)'
    <2> DEFINE c == task[q].c
    <2>1. pc[q] \in DispatchPC /\ task'[q] = task[q]
      BY <1>1 DEF Alone
    <2>2. c \in Comments /\ Held(q)
      BY <2>1 DEF WorkKnown, ReservationHeld
    <2>3. comment[c].dispatch = "in_flight" /\ comment[c].token = q
      BY <2>2 DEF Held, Holds
    <2>4. /\ comment'[c].token = q /\ comment'[c].dispatch = "in_flight"
          /\ comment[c].status = "restoring" => /\ comment'[c].status = "restoring"
                                                /\ comment'[c].intent = comment[c].intent
      BY <1>1, <2>2, <2>3 DEF Respects, Holds
    <2> QED BY <2>1, <2>2, <2>4 DEF Held, Holds, Human, StillBound
  <1> QED BY <1>1 DEF ReservationHeld

LEMMA FenceKept ==
    ASSUME TypeOK, NEW p \in Procs, Orderly(p)
    PROVE  KeepsFence
  BY CommentOf DEF Orderly, Respects, Holds, KeepsFence, Comment

LEMMA ReserveRespects ==
    ASSUME TypeOK, NEW p \in Procs, NEW c \in Comments, Unreserved(c),
           \E status, intent, final : Reserve(p, c, status, intent, final)
    PROVE  Respects(p)
  <1>1. PICK status, intent, final : Reserve(p, c, status, intent, final)
    OBVIOUS
  <1>2. \A d \in Comments \ {c} : comment'[d] = comment[d]
    BY <1>1 DEF Reserve, TypeOK
  <1> QED BY <1>2 DEF Respects, Unreserved

LEMMA SettleRespects ==
    ASSUME TypeOK, NEW p \in Procs, Settle(p, TRUE) \/ Settle(p, FALSE)
    PROVE  Respects(p)
  BY SettleRows DEF Respects

\* A human write that was reserved for the claim it read is bound to it.
LEMMA ReserveHeld ==
    ASSUME TypeOK, NEW p \in Procs, NEW c \in Comments, NEW status, NEW intent, NEW final,
           CanReserve(c, status, intent), Reserve(p, c, status, intent, final)
    PROVE  Held(p)'
  BY CommentOf DEF CanReserve, Reserve, Held, Holds, Human, StillBound, TypeOK, Comment

LEMMA DispatchHeld ==
    ASSUME IInv, NEW p \in Procs, DispatchStep(p)
    PROVE  Orderly(p)
  <1> USE DEF IInv
  <1>1. Alone(p)
    BY DispatchAlone
  <1>2. CASE Send(p) \/ Land(p)
    <2>1. /\ comment' = comment /\ pc[p] \in DispatchPC
          /\ task'[p].c = task[p].c /\ task'[p].intent = task[p].intent
          /\ task'[p].status = task[p].status
      BY <1>2 DEF Send, Land, DispatchPC, TypeOK, Task
    <2>2. Held(p)'
      BY <2>1 DEF ReservationHeld, Held, Holds, Human, StillBound
    <2>3. Respects(p)
      BY SMTT(60), <2>1 DEF Respects
    <2> QED BY <1>1, <2>2, <2>3 DEF Orderly
  <1>3. CASE SendRefused(p) \/ Refuse(p) \/ LoseReply(p) \/ Finalize(p) \/ FinalizeFails(p)
    <2>1. pc'[p] \notin DispatchPC
      BY <1>3
         DEF SendRefused, Refuse, LoseReply, Finalize, FinalizeFails, Resume, EndRun, TypeOK,
                  DispatchPC
    <2>2. CASE Settle(p, TRUE) \/ Settle(p, FALSE)
      BY <1>1, <2>1, <2>2, SettleRespects DEF Orderly
    <2>3. CASE Finalize(p) /\ StillBound(p)
      <3>1. \A d \in Comments \ {task[p].c} : comment'[d] = comment[d]
        BY <2>3 DEF Finalize, TypeOK
      <3>2. /\ pc[p] = "landed" /\ Holds(p, task[p].c)
            /\ task[p].c \in Comments =>
                 comment'[task[p].c].dispatch = "none" /\ comment'[task[p].c].by = "human"
        BY <2>3, CommentOf DEF Finalize, TypeOK, Comment, StillBound
      <3>3. Respects(p)
        BY <3>1, <3>2 DEF Respects
      <3> QED BY <1>1, <2>1, <3>3 DEF Orderly
    <2> QED
      BY ZenonT(60), <1>3, <2>2, <2>3
         DEF SendRefused, Refuse, LoseReply, Finalize, FinalizeFails
  <1> QED BY <1>2, <1>3 DEF DispatchStep

LEMMA ReviseRows ==
    ASSUME NEW w \in Runners, NEW protected, Revise(w, protected)
    PROVE  \A d \in Comments : comment[d].dispatch # "none" => comment'[d] = comment[d]
  <1>1. \A d \in Comments : Revisable(w, d) \/ comment'[d] = comment[d]
    BY DEF Revise
  <1> QED BY <1>1 DEF Revisable, Claimed

LEMMA SweepHeld ==
    ASSUME IInv, NEW w \in Runners, SweepStep(w)
    PROVE  Orderly(w)
  <1> USE DEF IInv
  <1>1. w \in Procs /\ Alone(w)
    BY SweepAlone DEF Procs
  <1>2. ASSUME NEW c \in Comments, NEW status, NEW intent, NEW final,
               CanReserve(c, status, intent), Reserve(w, c, status, intent, final)
        PROVE  Orderly(w)
    <2>1. Unreserved(c)
      BY <1>2 DEF CanReserve
    <2>2. Respects(w) /\ Held(w)'
      BY <1>1, <1>2, <2>1, ReserveRespects, ReserveHeld
    <2> QED BY <1>1, <2>2 DEF Orderly
  <1>3. ASSUME NEW c \in Comments, CorrectOne(w, c) \/ ReplayIntent(w, c)
        PROVE  Orderly(w)
    <2>1. CASE \E status, intent, final :
                  CanReserve(c, status, intent) /\ Reserve(w, c, status, intent, final)
      BY <1>2, <2>1
    <2>2. CASE UNCHANGED <<comment, task, pc>>
      BY <1>1, <1>3, <2>2 DEF CorrectOne, ReplayIntent, Respects, DispatchPC, Orderly
    <2> QED BY <1>3, <2>1, <2>2 DEF CorrectOne, ReplayIntent
  <1>4. CASE SettleDecided(w)
    <2>1. pc'[w] = "recheck"
      BY <1>1, <1>4 DEF SettleDecided, TypeOK
    <2> QED BY <1>1, <1>4, <2>1, SettleRespects DEF SettleDecided, DispatchPC, Orderly
  <1>5. CASE Recheck(w)
    <2>1. pc'[w] = "each"
      BY <1>1, <1>5 DEF Recheck, TypeOK
    <2>2. \A d \in Comments :
             \/ comment'[d] = comment[d]
             \/ comment[d].status # "restoring"
                /\ comment'[d] = [comment[d] EXCEPT !.status = "deleted"]
      BY <1>5 DEF Recheck, TypeOK
    <2>3. Respects(w)
      BY <2>2, CommentOf DEF Respects, Comment
    <2> QED BY <1>1, <2>1, <2>3 DEF DispatchPC, Orderly
  <1>6. CASE GuardPending(w)
    <2>1. pc'[w] = "claim"
      BY <1>1, <1>6 DEF GuardPending, TypeOK
    <2>2. Respects(w)
      BY <1>6, ReviseRows DEF GuardPending, Respects
    <2> QED BY <1>1, <2>1, <2>2 DEF DispatchPC, Orderly
  <1>7. ASSUME comment' = comment, pc'[w] \notin DispatchPC
        PROVE  Orderly(w)
    BY <1>1, <1>7 DEF Respects, Orderly
  <1>8. CASE \/ ReadActions(w) \/ ReadFence(w) \/ ReadStatuses(w) \/ ReleaseCancelled(w)
             \/ ReleaseSuperseded(w) \/ ReadAuthors(w) \/ GuardFails(w) \/ ClaimPending(w)
    <2>1. /\ comment' = comment
          /\ pc'[w] \in {"fence", "converge", "each", "guard", "apply", "write", "revise", "claim"}
      BY ZenonT(60), <1>1, <1>8
         DEF ReadActions, ReadFence, ReadStatuses, ReleaseCancelled, ReleaseSuperseded,
                        ReadAuthors, GuardFails, ClaimPending, TypeOK
    <2> QED BY SMTT(60), <1>7, <2>1 DEF DispatchPC
  <1>9. CASE \/ \E k \in Kind : MarkDispatched(w, k)
             \/ FinishApply(w) \/ PartitionHolds(w) \/ SendBatch(w) \/ LandBatch(w)
    <2>1. /\ comment' = comment
          /\ pc'[w] \in {"partition", "write", "reconcile", "idle", "converge", "wired", "answered"}
      BY ZenonT(60), <1>1, <1>9
         DEF MarkDispatched, FinishApply, EndRun, PartitionHolds, SendBatch, LandBatch,
                        TypeOK
    <2> QED BY <1>7, <2>1 DEF DispatchPC
  <1>10. CASE \/ CompleteBatch(w) \/ CompleteConverged(w) \/ FallBack(w) \/ ConvergeApplied(w)
              \/ ReadClaims(w) \/ FinishRun(w) \/ Deactivated(w)
    <2>1. comment' = comment /\ pc'[w] \in {"apply", "write", "converge", "replay", "idle"}
      BY <1>1, <1>10
         DEF CompleteBatch, CompleteConverged, Complete, FallBack, ConvergeApplied,
                         ReadClaims, FinishRun, Deactivated, EndRun, TypeOK
    <2> QED BY <1>7, <2>1 DEF DispatchPC
  <1> QED BY <1>3, <1>4, <1>5, <1>6, <1>8, <1>9, <1>10 DEF SweepStep

LEMMA RequestHeld ==
    ASSUME IInv, NEW r \in Requests, RequestStep(r) \/ Click(r)
    PROVE  Orderly(r)
  <1> USE DEF IInv
  <1>1. r \in Procs /\ Alone(r)
    BY RequestAlone DEF Procs
  <1>2. CASE RequestReserve(r)
    <2>1. req[r].c \in Comments
      BY <1>2 DEF RequestReserve, ClaimsKnown
    <2>2. PICK final : /\ CanReserve(req[r].c, "restoring", req[r].intent)
                       /\ Reserve(r, req[r].c, "restoring", req[r].intent, final)
      BY <1>2 DEF RequestReserve
    <2>3. Unreserved(req[r].c)
      BY <2>2 DEF CanReserve
    <2> QED BY <1>1, <2>1, <2>2, <2>3, ReserveRespects, ReserveHeld DEF Orderly
  <1>3. CASE Click(r) \/ RequestBlocked(r) \/ RequestUnauthorized(r) \/ Release(r)
    <2>1. pc'[r] \notin DispatchPC
      BY ZenonT(60), <1>1, <1>3
         DEF Click, QueueClaim, UndoClaim, UndoResume, RequestBlocked,
                        RequestUnauthorized, Release, TypeOK, DispatchPC
    <2>2. PICK c : /\ \A d \in Comments \ {c} : comment'[d] = comment[d]
                   /\ c \in Comments => Unreserved(c) \/ comment' = comment
      BY <1>3
         DEF Click, QueueClaim, UndoClaim, UndoResume, RequestBlocked, RequestUnauthorized,
                  Release, MayRelease, CanReserve, TypeOK
    <2>3. Respects(r)
      BY <2>2 DEF Respects, Unreserved
    <2> QED BY SMTT(60), <1>1, <2>1, <2>3 DEF Orderly
  <1> QED BY <1>2, <1>3 DEF RequestStep

LEMMA StageHeld ==
    ASSUME IInv, NEW w \in Runners, NEW c \in Comments, NEW v \in Verdicts, StageDecision(w, c, v)
    PROVE  Orderly(w)
  <1> USE DEF IInv
  <1>1. w \in Procs /\ Alone(w) /\ pc'[w] \notin DispatchPC
    BY DEF Procs, StageDecision, Alone, DispatchPC
  <1>2. \A d \in Comments : comment[d].dispatch # "none" => comment'[d] = comment[d]
    BY DEF StageDecision, Claimed, TypeOK
  <1> QED BY <1>1, <1>2 DEF Respects, Orderly

LEMMA EnvironmentHeld ==
    ASSUME IInv, Environment
    PROVE  ReservationHeld' /\ UNCHANGED comment
  <1> USE DEF IInv
  <1>1. ASSUME NEW p \in Procs, Crash(p)
        PROVE  ReservationHeld'
    <2>1. Alone(p) /\ Respects(p)
      BY <1>1 DEF Crash, Alone, Respects, TypeOK
    <2>2. pc'[p] \notin DispatchPC
      BY <1>1 DEF Crash, TypeOK, DispatchPC
    <2> QED BY <2>1, <2>2, HeldKept DEF Orderly
  <1>2. CASE UNCHANGED <<comment, pc, task>>
    BY <1>2 DEF ReservationHeld, Held, Holds, Human, StillBound
  <1>3. UNCHANGED comment
    BY DEF Environment, Crash, OwnerRemoves, LandLate, Pause, Unpause
  <1> QED BY <1>1, <1>2, <1>3 DEF Environment, OwnerRemoves, LandLate, Pause, Unpause

\* Every step is some process's orderly step or leaves the comments alone.
LEMMA StepOrderly ==
    ASSUME IInv, Next
    PROVE  (\E p \in Procs : Orderly(p)) \/ (ReservationHeld' /\ UNCHANGED comment)
  BY DispatchHeld, SweepHeld, RequestHeld, StageHeld, EnvironmentHeld DEF Next, Procs

LEMMA HeldNext ==
    ASSUME IInv, [Next]_vars
    PROVE  ReservationHeld'
  <1>1. CASE UNCHANGED vars
    BY <1>1 DEF vars, IInv, ReservationHeld, Held, Holds, Human, StillBound
  <1>2. CASE Next
    BY <1>2, StepOrderly, HeldKept DEF IInv
  <1> QED BY <1>1, <1>2

(***************************************************************************)
(* The theorems.                                                           *)
(***************************************************************************)
LEMMA InvInit == Init => IInv
  <1> SUFFICES ASSUME Init PROVE IInv
    OBVIOUS
  <1>1. TypeOK
    BY InitTyped
  <1>2. ClaimHasIntent
    BY DEF Init, ClaimHasIntent
  <1>3. \A p \in Procs : pc[p] \in {"idle", "unused"}
    BY DEF Init
  <1>4. \A r \in Requests : pc[r] = "unused" /\ intents[r] = None
    BY ConstantsAssumption DEF ConstantsAssumption, Init, Procs
  <1>5. WorkKnown /\ ReservationHeld
    BY <1>3 DEF WorkKnown, ReservationHeld, Correcting, DispatchPC, Procs
  <1> QED BY <1>1, <1>2, <1>4, <1>5 DEF IInv, ClaimsKnown

LEMMA InvNext == IInv /\ [Next]_vars => IInv'
  <1> SUFFICES ASSUME IInv, [Next]_vars PROVE IInv'
    OBVIOUS
  <1>1. TypeOK'
    BY NextTyped DEF IInv
  <1> QED BY <1>1, ClaimsNext, WorkNext, HeldNext DEF IInv

LEMMA Inductive == Spec => []IInv
  BY InvInit, InvNext, PTL DEF Spec

\* Every variable keeps its type, in any number of runners, requests and comments.
THEOREM TypeCorrect == Spec => []TypeOK
  <1>1. IInv => TypeOK
    BY DEF IInv
  <1> QED BY <1>1, Inductive, PTL

\* Two processes never dispatch for one comment (reserveCommentDispatch).
THEOREM SingleDispatcher == Spec => []OneDispatcher
  <1>1. IInv => OneDispatcher
    BY DEF IInv, ReservationHeld, Held, Holds, OneDispatcher
  <1> QED BY <1>1, Inductive, PTL

\* A comment in 'restoring' is always bound to a recorded intent for it, and from
\* its reservation on a human write is for the stored claim: whatever crashes and
\* whoever releases a claim, the decision is not lost while the comment waits for
\* it, and the finalizer commits the write that was sent (queue act, log restore,
\* reconcileHumanClaim, finalizeHumanIntent).
THEOREM SpecImpliesClaimsKept == Spec => []ClaimsKept
  <1>1. IInv => ClaimHasIntent
    BY DEF IInv
  <1>2. IInv => FinalizerFindsClaim
    BY DEF IInv, ReservationHeld, Held, FinalizerFindsClaim
  <1>3. IInv => ClaimsKept
    BY <1>1, <1>2 DEF ClaimsKept
  <1> QED BY <1>3, Inductive, PTL

\* An uncertain reservation is never given up, and a reserved claim is only ever
\* resolved by the finalizer of the process that reserved it (settleHumanDispatch,
\* finalizeHumanIntent, hasHumanClaim).
THEOREM FenceKeeps == Spec => FenceHolds
  <1>1. IInv /\ [Next]_vars => [KeepsFence]_vars
    <2> SUFFICES ASSUME IInv, Next PROVE KeepsFence
      OBVIOUS
    <2>1. CASE UNCHANGED comment
      BY <2>1 DEF KeepsFence
    <2>2. TypeOK
      BY DEF IInv
    <2> QED BY <2>1, <2>2, StepOrderly, FenceKept
  <1> QED BY <1>1, Inductive, PTL DEF Spec, FenceHolds
=============================================================================
