------------------------- MODULE EntitlementProofs -------------------------
(***************************************************************************)
(* Theorems about Entitlements, for any organisations, purchases, slots    *)
(* and handlers that overlap: each lifetime plan has its slot, no slot is  *)
(* lost or given twice, and the cached plan follows the entitlement.       *)
(***************************************************************************)
EXTENDS Entitlements, FiniteSetTheorems, WellFoundedInduction, TLAPS

-----------------------------------------------------------------------------
(* The inductive invariant: what a handler works on fits its step, ...     *)
OnSub == {"hosted", "probe", "claim", "tracked", "superseded", "cancel", "period", "snapshot", "beside"}
OnSession == {"verdict", "session", "blocked", "rival", "slot"}
OnDispute == {"lookup", "record"}
Later == {"reverse", "endpaid", "queue", "status", "recall", "setwon", "restore", "restored",
          "giveback", "finish"}
Step == OnSub \cup OnSession \cup OnDispute \cup Later

OfSub == Change \cup {"hosted", "paid"}
Kind == OfSub \cup {"lifetime", "refund", "dispute", "closed"}
Task == [at : Step, event : Event, seen : Payments \cup {None}]
Fits(t) ==
  LET kind == t.event.kind IN
  /\ t.at \in OnSub => kind \in OfSub
  /\ t.at \in OnSession => kind = "lifetime"
  /\ t.at \in OnDispute => kind = "dispute"
  /\ t.at = "reverse" => kind \in {"refund", "dispute"}
WorkersFit ==
  /\ worker \in [Workers -> Task \cup {Idle}]
  /\ \A w \in Workers : worker[w] # Idle => Fits(worker[w])

(* ... whatever speaks of a dispute is about a payment that has one, ...   *)
Disputable(p) == contest[p] # "none"
DisputesKnown ==
  /\ contest \in [Payments -> {"none", "open", "won", "lost"}]
  /\ inbox \in [Event -> {"unsent", "sent", "done"}]
  /\ \A e \in Event : e.kind = "dispute" /\ inbox[e] # "unsent" => Disputable(e.of)
  /\ \A w \in Workers : worker[w] # Idle /\ worker[w].event.kind = "dispute" => Disputable(Job(w))
  /\ \A r \in pending : r.of \in Payments /\ (r.reason = "dispute" => Disputable(r.of))
  /\ \A l \in Sessions : ent[l] = "disputed" => Disputable(l)

(* ... and slots, entitlements and plans belong together.                  *)
Plan == {"free", "hosted", "lifetime"}
OrgRow == [sub : Subs \cup {None}, active : BOOLEAN, plan : Plan, at : Nat, last : Kind \cup {"none"}]
RowsTyped ==
  /\ org \in [Orgs -> OrgRow] /\ second \in [Event -> Nat] /\ clock \in Nat
  /\ ent \in [Sessions -> {"none", "active", "disputed", "released"}]
  /\ slot \in [Slots -> Sessions \cup {None}]
SlotsOwned ==
  /\ \A l \in Sessions : ent[l] \in {"active", "disputed"} <=> \E k \in Slots : slot[k] = l
  /\ \A j, k \in Slots : slot[j] = slot[k] /\ slot[j] # None => j = k
OneActive ==
  \A l, m \in Sessions :
    ent[l] = "active" /\ ent[m] = "active" /\ OwnerOf[l] = OwnerOf[m] => l = m
PlanFollows ==
  \A o \in Orgs : /\ org[o].plan = "lifetime" => ActiveLifetime(o)
                  /\ ActiveLifetime(o) => org[o].plan = "lifetime" \/ Downgraded(o)

Inv == WorkersFit /\ DisputesKnown /\ RowsTyped /\ SlotsOwned /\ OneActive /\ PlanFollows

-----------------------------------------------------------------------------
(* Events, tasks and what a step does to them.                             *)
LEMMA Events ==
  \A e \in Event :
    /\ e.kind \in Kind
    /\ e.kind \in OfSub => e.of \in Subs
    /\ e.kind = "lifetime" => e.of \in Sessions
    /\ e.of \in Payments /\ OwnerOf[e.of] \in Orgs
    /\ e = On(e.kind, e.of)
BY ConstantsOK DEF Event, Kind, OfSub, Change, Payments, On

LEMMA JobType ==
  ASSUME WorkersFit, NEW w \in Workers, worker[w] # Idle
  PROVE  /\ worker[w] \in Task /\ worker[w].event \in Event /\ Fits(worker[w])
         /\ Job(w) \in Payments /\ Owner(w) \in Orgs
         /\ worker[w].at \in OnSub => Job(w) \in Subs
         /\ worker[w].at \in OnSession => Job(w) \in Sessions
<1>1. worker[w] \in Task /\ Fits(worker[w])
  BY DEF WorkersFit
<1>2. worker[w].event \in Event
  BY <1>1 DEF Task
<1> QED BY <1>1, <1>2, Events DEF Fits, Job, Owner

(* A handler goes on with the same event, or is done. *)
Proceeds(w) ==
  \/ worker' = [worker EXCEPT ![w] = Idle]
  \/ /\ worker' = [worker EXCEPT ![w] = worker'[w]] /\ worker'[w] \in Task
     /\ worker'[w].event = worker[w].event /\ Fits(worker'[w])

LEMMA GoesOn ==
  ASSUME WorkersFit, NEW w \in Workers, worker[w] # Idle, NEW x \in Step, Go(w, x)
  PROVE  /\ worker' = [worker EXCEPT ![w] = worker'[w]] /\ worker'[w] \in Task
         /\ worker'[w].event = worker[w].event /\ worker'[w].at = x /\ worker'[w].seen = worker[w].seen
<1>1. worker[w] \in Task
  BY DEF WorkersFit
<1>2. worker' = [worker EXCEPT ![w] = [worker[w] EXCEPT !.at = x]]
  BY DEF Go
<1>3. worker'[w] = [worker[w] EXCEPT !.at = x]
  BY <1>2 DEF WorkersFit
<1> HIDE DEF Step, Event, Payments
<1> QED BY ZenonT(60), <1>1, <1>2, <1>3 DEF Task

LEMMA GoesOnWith ==
  ASSUME WorkersFit, NEW w \in Workers, worker[w] # Idle, NEW x \in Step, NEW p \in Payments \cup {None},
         worker' = [worker EXCEPT ![w].seen = p, ![w].at = x]
  PROVE  /\ worker' = [worker EXCEPT ![w] = worker'[w]] /\ worker'[w] \in Task
         /\ worker'[w].event = worker[w].event /\ worker'[w].at = x /\ worker'[w].seen = p
<1>1. worker[w] \in Task
  BY DEF WorkersFit
<1>2. worker'[w] = [worker[w] EXCEPT !.seen = p, !.at = x]
  BY DEF WorkersFit
<1>3. worker' = [worker EXCEPT ![w] = worker'[w]]
  BY <1>2 DEF WorkersFit
<1> HIDE DEF Step, Event, Payments
<1>4. worker'[w] = [at |-> x, event |-> worker[w].event, seen |-> p]
  BY ZenonT(60), <1>1, <1>2 DEF Task
<1>5. worker'[w] \in Task
  BY <1>1, <1>4 DEF Task
<1> QED BY <1>3, <1>4, <1>5

LEMMA ProceedsFits ==
  ASSUME WorkersFit, NEW w \in Workers, worker[w] # Idle, Proceeds(w)
  PROVE  /\ WorkersFit'
         /\ \A v \in Workers : worker'[v] # Idle => worker[v] # Idle /\ worker'[v].event = worker[v].event
<1>1. \A v \in Workers \ {w} : worker'[v] = worker[v]
  BY DEF Proceeds, WorkersFit
<1>2. worker' \in [Workers -> Task \cup {Idle}]
  BY DEF Proceeds, WorkersFit
<1>3. worker'[w] = Idle \/ (worker'[w].event = worker[w].event /\ Fits(worker'[w]))
  BY DEF Proceeds, WorkersFit
<1> QED BY <1>1, <1>2, <1>3 DEF WorkersFit

-----------------------------------------------------------------------------
(* What leaves each part of the invariant alone.                           *)
LEMMA Emitted ==
  ASSUME RowsTyped, DisputesKnown, NEW es, Emit(es)
  PROVE  /\ inbox' \in [Event -> {"unsent", "sent", "done"}] /\ second' \in [Event -> Nat]
         /\ \A e \in Event : inbox'[e] # "unsent" => inbox[e] # "unsent" \/ e \in es
<1> HIDE DEF Event
<1> QED BY DEF RowsTyped, DisputesKnown, Emit

(* Nothing that was said of a dispute is taken back. *)
Informed ==
  /\ contest' \in [Payments -> {"none", "open", "won", "lost"}]
  /\ \A p \in Payments : Disputable(p) => contest'[p] # "none"
  /\ inbox' \in [Event -> {"unsent", "sent", "done"}]
  /\ \A e \in Event : e.kind = "dispute" /\ inbox'[e] # "unsent" =>
       inbox[e] # "unsent" \/ contest'[e.of] # "none"
Timed == second' \in [Event -> Nat] /\ clock' \in Nat

LEMMA DisputesKept ==
  ASSUME DisputesKnown, Informed,
         \A w \in Workers : worker'[w] # Idle /\ worker'[w].event.kind = "dispute" =>
           contest'[worker'[w].event.of] # "none",
         \A r \in pending' : r.of \in Payments /\ (r.reason = "dispute" => contest'[r.of] # "none"),
         \A l \in Sessions : ent'[l] = "disputed" => contest'[l] # "none"
  PROVE  DisputesKnown'
<1> HIDE DEF Event, Payments, Idle
<1>1. \A e \in Event : e.of \in Payments
  BY Events
<1> QED BY <1>1 DEF DisputesKnown, Informed, Disputable, Job

LEMMA OwnedKept ==
  ASSUME RowsTyped, SlotsOwned, OneActive, PlanFollows, Timed, Informed, UNCHANGED <<org, ent, slot>>
  PROVE  RowsTyped' /\ SlotsOwned' /\ OneActive' /\ PlanFollows'
<1>1. RowsTyped'
  <2> HIDE DEF Event, OrgRow
  <2> QED BY DEF RowsTyped, Timed
<1>2. SlotsOwned' /\ OneActive'
  BY DEF SlotsOwned, OneActive
<1>3. \A o \in Orgs : ActiveLifetime(o) <=> ActiveLifetime(o)'
  BY DEF ActiveLifetime
<1>4. \A o \in Orgs : Downgraded(o) => Downgraded(o)'
  BY DEF Downgraded, Informed, Disputable, Payments
<1>5. PlanFollows'
  BY <1>3, <1>4 DEF PlanFollows
<1> QED BY <1>1, <1>2, <1>5

(* The world moves, the books and the handlers do not. *)
LEMMA Outside ==
  ASSUME Inv, Informed, Timed, UNCHANGED <<books, worker>>
  PROVE  Inv'
<1> USE DEF Inv, books
<1>1. WorkersFit'
  <2> HIDE DEF Event, Task, Idle
  <2> QED BY DEF WorkersFit, Fits
<1>2. \A w \in Workers : worker[w] # Idle => Job(w) \in Payments
  BY JobType
<1>3. DisputesKnown'
  <2>1. \A w \in Workers : worker'[w] # Idle /\ worker'[w].event.kind = "dispute" =>
           contest'[worker'[w].event.of] # "none"
    <3> HIDE DEF Event, Payments, Idle
    <3> QED BY <1>2 DEF DisputesKnown, Informed, Job
  <2>2. \A r \in pending' : r.of \in Payments /\ (r.reason = "dispute" => contest'[r.of] # "none")
    BY DEF DisputesKnown, Informed
  <2>3. \A l \in Sessions : ent'[l] = "disputed" => contest'[l] # "none"
    BY DEF DisputesKnown, Informed, Payments
  <2> QED BY <2>1, <2>2, <2>3, DisputesKept
<1> QED BY <1>1, <1>3, OwnedKept

(* A handler goes on and touches no organisation, entitlement or slot. *)
LEMMA Aside ==
  ASSUME Inv, NEW w \in Workers, worker[w] # Idle, Proceeds(w), UNCHANGED <<org, ent, slot, contest>>,
         Informed, Timed,
         \A r \in pending' : r \in pending \/ (r.of \in Payments /\ (r.reason = "dispute" => Disputable(r.of)))
  PROVE  Inv'
<1> USE DEF Inv
<1>1. /\ WorkersFit'
      /\ \A v \in Workers : worker'[v] # Idle => worker[v] # Idle /\ worker'[v].event = worker[v].event
  BY ProceedsFits
<1>2. DisputesKnown'
  <2>1. \A v \in Workers : worker'[v] # Idle /\ worker'[v].event.kind = "dispute" =>
           contest'[worker'[v].event.of] # "none"
    <3> HIDE DEF Event, Payments, Idle
    <3> QED BY <1>1 DEF DisputesKnown, Job, Disputable
  <2>2. \A r \in pending' : r.of \in Payments /\ (r.reason = "dispute" => contest'[r.of] # "none")
    BY DEF DisputesKnown, Disputable
  <2>3. \A l \in Sessions : ent'[l] = "disputed" => contest'[l] # "none"
    BY DEF DisputesKnown, Disputable
  <2> QED BY <2>1, <2>2, <2>3, DisputesKept
<1> QED BY <1>1, <1>2, OwnedKept

-----------------------------------------------------------------------------
(* Stripe, its customers and the operators.                                *)
LEMMA Announced ==
  ASSUME Inv, NEW es, Emit(es), UNCHANGED clock, contest' \in [Payments -> {"none", "open", "won", "lost"}],
         \A p \in Payments : Disputable(p) => contest'[p] # "none",
         \A e \in es : e.kind = "dispute" => contest'[e.of] # "none"
  PROVE  Informed /\ Timed
<1> HIDE DEF Event
<1>1. /\ inbox' \in [Event -> {"unsent", "sent", "done"}] /\ second' \in [Event -> Nat]
      /\ \A e \in Event : inbox'[e] # "unsent" => inbox[e] # "unsent" \/ e \in es
  BY Emitted DEF Inv
<1>2. clock' \in Nat
  BY DEF Inv, RowsTyped
<1> QED BY <1>1, <1>2 DEF Informed, Timed

LEMMA AnnouncedElse ==
  ASSUME Inv, NEW es, Emit(es), UNCHANGED <<clock, contest>>, \A e \in es : e.kind # "dispute"
  PROVE  Informed /\ Timed
<1>1. /\ contest' \in [Payments -> {"none", "open", "won", "lost"}]
      /\ \A p \in Payments : Disputable(p) => contest'[p] # "none"
  BY DEF Inv, DisputesKnown, Disputable
<1> QED BY <1>1, Announced

LEMMA Unannounced ==
  ASSUME Inv, UNCHANGED <<contest, inbox, second, clock>>
  PROVE  Informed /\ Timed
<1> HIDE DEF Event
<1> QED BY DEF Inv, DisputesKnown, Disputable, RowsTyped, Informed, Timed

LEMMA CustomersKeep ==
  ASSUME Inv,
         \/ \E s \in Subs : Subscribe(s) \/ WindDown(s) \/ Resume(s) \/ RunOut(s)
         \/ \E l \in Sessions : BuyLifetime(l)
         \/ \E p \in Payments : Repay(p) \/ Contested(p) \/ Ruled(p)
         \/ Tick
  PROVE  Inv'
<1>1. ASSUME Act, UNCHANGED contest, NEW es, Emit(es), \A e \in es : e.kind # "dispute"
      PROVE  Inv'
  BY <1>1, AnnouncedElse, Outside DEF Act
<1>2. CASE \E s \in Subs : Subscribe(s) \/ WindDown(s) \/ Resume(s) \/ RunOut(s)
  <2>1. PICK s \in Subs : Subscribe(s) \/ WindDown(s) \/ Resume(s) \/ RunOut(s)
    BY <1>2
  <2>2. CASE Subscribe(s)
    BY <1>1, <2>2 DEF Subscribe, On
  <2>3. CASE WindDown(s)
    BY <1>1, <2>3 DEF WindDown, On
  <2>4. CASE Resume(s)
    BY <1>1, <2>4 DEF Resume, On
  <2>5. CASE RunOut(s)
    BY <1>1, <2>5 DEF RunOut, On
  <2> QED BY <2>1, <2>2, <2>3, <2>4, <2>5
<1>3. CASE \E l \in Sessions : BuyLifetime(l)
  BY <1>1, <1>3 DEF BuyLifetime, On
<1>4. CASE \E p \in Payments : Repay(p) \/ Contested(p) \/ Ruled(p)
  <2>1. PICK p \in Payments : Repay(p) \/ Contested(p) \/ Ruled(p)
    BY <1>4
  <2>2. CASE Repay(p)
    BY <1>1, <2>2 DEF Repay, On
  <2>3. ASSUME UNCHANGED <<books, worker, clock>>, NEW ruling \in {"open", "won", "lost"}, contest' = [contest EXCEPT ![p] = ruling],
               NEW es, Emit(es), \A e \in es : e.of = p
        PROVE  Inv'
    <3>1. /\ contest' \in [Payments -> {"none", "open", "won", "lost"}]
          /\ \A q \in Payments : Disputable(q) => contest'[q] # "none"
          /\ contest'[p] # "none"
      BY <2>3 DEF Inv, DisputesKnown, Disputable
    <3>2. Informed /\ Timed
      BY <2>3, <3>1, Announced
    <3> QED BY <2>3, <3>2, Outside
  <2>4. CASE Contested(p)
    BY <2>3, <2>4 DEF Contested, On, Act
  <2>5. CASE Ruled(p)
    <3>1. UNCHANGED <<books, worker, clock>> /\ Emit({On("closed", p)})
      BY <2>5 DEF Ruled
    <3>2. PICK ruling \in {"won", "lost"} : contest' = [contest EXCEPT ![p] = ruling]
      BY <2>5 DEF Ruled
    <3>3. \A e \in {On("closed", p)} : e.of = p
      BY DEF On
    <3> QED BY <2>3, <3>1, <3>2, <3>3
  <2> QED BY <2>1, <2>2, <2>4, <2>5
<1>5. CASE Tick
  <2> HIDE DEF Event
  <2>1. Informed /\ Timed
    BY <1>5 DEF Tick, Inv, DisputesKnown, Disputable, RowsTyped, Informed, Timed
  <2> QED BY <1>5, <2>1, Outside DEF Tick
<1> QED BY <1>2, <1>3, <1>4, <1>5

-----------------------------------------------------------------------------
(* Handlers that touch no organisation, entitlement or slot.               *)
MayFollow(x, w) ==
  \/ x \in Later \ {"reverse"}
  \/ \E class \in {OnSub, OnSession, OnDispute} : x \in class /\ worker[w].at \in class
  \/ x = "reverse" /\ worker[w].at = "record"

LEMMA Moves ==
  ASSUME Inv, NEW w \in Workers, worker[w] # Idle, NEW x \in Step, MayFollow(x, w), Go(w, x)
  PROVE  Proceeds(w)
<1>1. /\ worker' = [worker EXCEPT ![w] = worker'[w]] /\ worker'[w] \in Task
      /\ worker'[w].event = worker[w].event /\ worker'[w].at = x
  BY GoesOn DEF Inv
<1>2. Fits(worker[w])
  BY DEF Inv, WorkersFit
<1>3. Fits(worker'[w])
  BY <1>1, <1>2 DEF Fits, MayFollow, OnSub, OnSession, OnDispute, Later
<1> QED BY <1>1, <1>3 DEF Proceeds

LEMMA MovesWith ==
  ASSUME Inv, NEW w \in Workers, worker[w] # Idle, NEW x \in Step, MayFollow(x, w),
         NEW p \in Payments \cup {None}, worker' = [worker EXCEPT ![w].seen = p, ![w].at = x]
  PROVE  Proceeds(w)
<1>1. /\ worker' = [worker EXCEPT ![w] = worker'[w]] /\ worker'[w] \in Task
      /\ worker'[w].event = worker[w].event /\ worker'[w].at = x
  BY GoesOnWith DEF Inv
<1>2. Fits(worker[w])
  BY DEF Inv, WorkersFit
<1>3. Fits(worker'[w])
  BY <1>1, <1>2 DEF Fits, MayFollow, OnSub, OnSession, OnDispute, Later
<1> QED BY <1>1, <1>3 DEF Proceeds

LEMMA Reading ==
  ASSUME Inv, NEW w \in Workers, worker[w] # Idle, Proceeds(w), Reads
  PROVE  Inv'
<1>1. Informed /\ Timed
  BY Unannounced DEF Reads, stripe
<1> QED BY <1>1, Aside DEF Reads, books, stripe

LEMMA Calling ==
  ASSUME Inv, NEW w \in Workers, worker[w] # Idle, Proceeds(w), Calls,
         \/ UNCHANGED <<inbox, second>>
         \/ \E es : Emit(es) /\ \A e \in es : e.kind # "dispute"
  PROVE  Inv'
<1>1. Informed /\ Timed
  BY Unannounced, AnnouncedElse DEF Calls
<1> QED BY <1>1, Aside DEF Calls, books

LEMMA Noting ==
  ASSUME Inv, NEW w \in Workers, worker[w] # Idle, Proceeds(w), Writes, UNCHANGED <<org, ent, slot>>,
         \A r \in pending' : r \in pending \/ (r.of \in Payments /\ (r.reason = "dispute" => Disputable(r.of)))
  PROVE  Inv'
<1>1. Informed /\ Timed
  BY Unannounced DEF Writes, stripe
<1> QED BY <1>1, Aside DEF Writes, stripe

LEMMA StoredType ==
  ASSUME Inv, NEW w \in Workers, worker[w] # Idle
  PROVE  /\ org[Owner(w)] \in OrgRow /\ org[Owner(w)].sub \in Payments \cup {None}
         /\ Owner(w) \in Orgs
<1>1. Owner(w) \in Orgs
  BY JobType DEF Inv
<1>2. org[Owner(w)] \in OrgRow
  BY <1>1 DEF Inv, RowsTyped
<1>3. org[Owner(w)].sub \in Payments \cup {None}
  BY <1>2 DEF OrgRow, Payments
<1> QED BY <1>1, <1>2, <1>3

LEMMA ReadersKeep ==
  ASSUME Inv, NEW w \in Workers,
         \/ ReadHosted(w) \/ ProbeStored(w) \/ ReadTracked(w) \/ ProbeTracked(w)
         \/ VerdictLifetime(w) \/ ReadSession(w) \/ ProbeBlocking(w) \/ ReadRival(w)
         \/ LookUp(w) \/ Recall(w)
  PROVE  Inv'
<1> USE DEF MayFollow, Step, Later, OnSub, OnSession, OnDispute
<1>1. worker[w] # Idle
  BY SMTT(60) DEF ReadHosted, ProbeStored, ReadTracked, ProbeTracked, VerdictLifetime, ReadSession,
                  ProbeBlocking, ReadRival, LookUp, Recall, At
<1>2. CASE ReadHosted(w)
  <2> DEFINE x == IF ActiveLifetime(Owner(w)) THEN "cancel"
                  ELSE IF org[Owner(w)].sub = Job(w) THEN "finish"
                  ELSE IF org[Owner(w)].sub = None THEN "claim" ELSE "probe"
  <2>1. worker' = [worker EXCEPT ![w].seen = org[Owner(w)].sub, ![w].at = x] /\ Reads /\ worker[w].at = "hosted"
    BY <1>2 DEF ReadHosted, At
  <2>2. x \in {"cancel", "finish", "claim", "probe"}
    OBVIOUS
  <2> HIDE DEF x
  <2>3. x \in Step /\ MayFollow(x, w)
    BY <2>1, <2>2
  <2> QED BY <1>1, <2>1, <2>3, StoredType, MovesWith, Reading
<1>3. CASE ReadTracked(w)
  <2> DEFINE x == IF org[Owner(w)].sub \in {None, Job(w)} THEN Apply(worker[w].event.kind) ELSE "superseded"
  <2>1. worker' = [worker EXCEPT ![w].seen = org[Owner(w)].sub, ![w].at = x] /\ Reads /\ worker[w].at = "tracked"
    BY <1>3 DEF ReadTracked, At
  <2>2. x \in {"period", "snapshot", "superseded"}
    BY DEF Apply
  <2> HIDE DEF x
  <2>3. x \in Step /\ MayFollow(x, w)
    BY SMTT(60), <2>1, <2>2
  <2> QED BY <1>1, <2>1, <2>3, StoredType, MovesWith, Reading
<1>4. CASE ReadSession(w)
  <2> DEFINE x == IF ent[Job(w)] # "none" THEN "finish"
                  ELSE IF org[Owner(w)].sub = None THEN "rival" ELSE "blocked"
  <2>1. worker' = [worker EXCEPT ![w].seen = org[Owner(w)].sub, ![w].at = x] /\ Reads /\ worker[w].at = "session"
    BY <1>4 DEF ReadSession, At
  <2>2. x \in {"finish", "rival", "blocked"}
    OBVIOUS
  <2> HIDE DEF x
  <2>3. x \in Step /\ MayFollow(x, w)
    BY <2>1, <2>2
  <2> QED BY <1>1, <2>1, <2>3, StoredType, MovesWith, Reading
<1>5. ASSUME NEW x \in Step, MayFollow(x, w), Go(w, x), Reads
      PROVE  Inv'
  <2> HIDE DEF MayFollow, Step
  <2> QED BY <1>1, <1>5, Moves, Reading
<1>6. CASE ProbeStored(w)
  <2>1. PICK x \in {"cancel", "claim"} : Go(w, x) /\ Reads /\ worker[w].at = "probe"
    BY <1>6 DEF ProbeStored, At
  <2> QED BY <1>5, <2>1
<1>7. CASE ProbeTracked(w)
  <2>1. PICK x \in {"cancel", "finish", "period", "snapshot"} :
          Go(w, x) /\ Reads /\ worker[w].at = "superseded"
    BY <1>7 DEF ProbeTracked, At, Superseded, Apply
  <2> QED BY <1>5, <2>1
<1>8. CASE VerdictLifetime(w)
  <2>1. PICK x \in {"session", "finish"} : Go(w, x) /\ Reads /\ worker[w].at = "verdict"
    BY <1>8 DEF VerdictLifetime, At
  <2> QED BY <1>5, <2>1
<1>9. CASE ProbeBlocking(w)
  <2>1. PICK x \in {"giveback", "rival"} : Go(w, x) /\ Reads /\ worker[w].at = "blocked"
    BY <1>9 DEF ProbeBlocking, At
  <2> QED BY <1>5, <2>1
<1>10. CASE ReadRival(w)
  <2>1. PICK x \in {"finish", "giveback", "slot"} : Go(w, x) /\ Reads /\ worker[w].at = "rival"
    BY <1>10 DEF ReadRival, At
  <2> QED BY <1>5, <2>1
<1>11. CASE LookUp(w)
  <2>1. PICK x \in {"recall", "record"} : Go(w, x) /\ Reads /\ worker[w].at = "lookup"
    BY <1>11 DEF LookUp, At
  <2> QED BY <1>5, <2>1
<1>12. CASE Recall(w)
  <2>1. PICK x \in {"finish", "setwon", "restore"} : Go(w, x) /\ Reads
    BY <1>12 DEF Recall
  <2> QED BY <1>5, <2>1
<1> QED BY <1>2, <1>3, <1>4, <1>6, <1>7, <1>8, <1>9, <1>10, <1>11, <1>12

LEMMA CallersKeep ==
  ASSUME Inv, NEW w \in Workers,
         CancelDuplicate(w) \/ GiveBack(w) \/ EndBeside(w) \/ CancelRefunded(w)
  PROVE  Inv'
<1> USE DEF MayFollow, Step, Later, On
<1>1. worker[w] # Idle
  BY DEF CancelDuplicate, GiveBack, EndBeside, CancelRefunded, At
<1>2. ASSUME NEW x \in Later \ {"reverse"}, Go(w, x), Calls,
             \/ UNCHANGED <<inbox, second>>
             \/ \E es : Emit(es) /\ \A e \in es : e.kind # "dispute"
      PROVE  Inv'
  <2>1. Proceeds(w)
    BY <1>1, <1>2, Moves
  <2> QED BY <1>1, <1>2, <2>1, Calling
<1>3. CASE CancelDuplicate(w)
  BY <1>2, <1>3 DEF CancelDuplicate
<1>4. CASE GiveBack(w)
  <2>1. CASE Drop(w) /\ UNCHANGED <<inbox, second>>
    <3>1. Proceeds(w)
      BY <2>1 DEF Drop, Proceeds
    <3> QED BY <1>1, <1>4, <2>1, <3>1, Calling DEF GiveBack
  <2>2. CASE Go(w, "finish")
    BY <1>2, <1>4, <2>2 DEF GiveBack
  <2> QED BY <1>4, <2>1, <2>2 DEF GiveBack
<1>5. CASE EndBeside(w)
  BY <1>2, <1>5 DEF EndBeside
<1>6. CASE CancelRefunded(w)
  BY <1>2, <1>6 DEF CancelRefunded
<1> QED BY <1>3, <1>4, <1>5, <1>6

LEMMA NotesKeep ==
  ASSUME Inv, NEW w \in Workers,
         RecordDispute(w) \/ Queue(w) \/ StoreReversed(w) \/ RememberWin(w) \/ MarkRestored(w)
  PROVE  Inv'
<1> USE DEF MayFollow, Step, Later
<1>1. worker[w] # Idle
  BY DEF RecordDispute, Queue, StoreReversed, RememberWin, MarkRestored, At
<1>2. ASSUME NEW x \in Step, MayFollow(x, w), Go(w, x), Writes, UNCHANGED <<org, ent, slot>>,
             pending' = pending \/ pending' = pending \cup {[of |-> Job(w), reason |-> worker[w].event.kind]}
      PROVE  Inv'
  <2>1. Proceeds(w)
    <3> HIDE DEF MayFollow, Step
    <3> QED BY <1>1, <1>2, Moves
  <2>2. Job(w) \in Payments /\ (worker[w].event.kind = "dispute" => Disputable(Job(w)))
    BY <1>1, JobType DEF Inv, DisputesKnown
  <2>3. \A r \in pending' : r \in pending \/ (r.of \in Payments /\ (r.reason = "dispute" => Disputable(r.of)))
    BY <1>2, <2>2
  <2> QED BY <1>1, <1>2, <2>1, <2>3, Noting
<1>3. CASE RecordDispute(w)
  BY <1>2, <1>3 DEF RecordDispute, At
<1>4. CASE Queue(w)
  BY <1>2, <1>4 DEF Queue
<1>5. CASE StoreReversed(w)
  BY <1>2, <1>5 DEF StoreReversed
<1>6. CASE RememberWin(w) \/ MarkRestored(w)
  BY <1>2, <1>6 DEF RememberWin, MarkRestored, SetStatus
<1> QED BY <1>3, <1>4, <1>5, <1>6

LEMMA EndsKeep ==
  ASSUME Inv, NEW w \in Workers, Finish(w) \/ Fail(w)
  PROVE  Inv'
<1>1. worker[w] # Idle /\ Proceeds(w)
  BY DEF Finish, Fail, Drop, Proceeds, At
<1>2. CASE Finish(w)
  <2>1. Informed /\ Timed
    <3> HIDE DEF Event
    <3>1. worker[w].event \in Event
      BY <1>1, JobType DEF Inv
    <3>2. /\ inbox' \in [Event -> {"unsent", "sent", "done"}]
          /\ \A e \in Event \ {worker[w].event} : inbox'[e] = inbox[e]
      BY <1>2, <3>1 DEF Finish, Inv, DisputesKnown
    <3>3. worker[w].event.kind = "dispute" => contest[worker[w].event.of] # "none"
      BY <1>1 DEF Inv, DisputesKnown, Disputable, Job
    <3> QED BY <1>2, <3>2, <3>3 DEF Finish, Inv, DisputesKnown, Disputable, RowsTyped, Informed, Timed, stripe, books
  <2> QED BY <1>1, <1>2, <2>1, Aside DEF Finish, books, stripe
<1>3. CASE Fail(w)
  <2>1. Informed /\ Timed
    BY <1>3, Unannounced DEF Fail, stripe
  <2> QED BY <1>1, <1>3, <2>1, Aside DEF Fail, books, stripe
<1> QED BY <1>2, <1>3

LEMMA DeliverKeeps ==
  ASSUME Inv, NEW w \in Workers, NEW e \in Event, Deliver(w, e)
  PROVE  Inv'
<1> DEFINE t == [at |-> Entry(e.kind), event |-> e, seen |-> None]
<1>1. worker[w] = Idle /\ worker' = [worker EXCEPT ![w] = t]
  BY DEF Deliver
<1>2. /\ Entry(e.kind) \in Step
      /\ Entry(e.kind) \in OnSub => e.kind \in OfSub
      /\ Entry(e.kind) \in OnSession => e.kind = "lifetime"
      /\ Entry(e.kind) \in OnDispute => e.kind = "dispute"
      /\ Entry(e.kind) = "reverse" => e.kind = "refund"
  BY Events DEF Kind, OfSub, Change, Entry, Step, OnSub, OnSession, OnDispute, Later
<1>3. t \in Task /\ t.event = e /\ Fits(t)
  BY <1>2 DEF Task, Fits
<1> HIDE DEF t
<1>4. worker'[w] = t /\ \A v \in Workers \ {w} : worker'[v] = worker[v]
  BY <1>1 DEF Inv, WorkersFit
<1>5. WorkersFit'
  <2>1. worker' \in [Workers -> Task \cup {Idle}]
    BY <1>1, <1>3 DEF Inv, WorkersFit
  <2> HIDE DEF Task, Idle
  <2> QED BY <2>1, <1>3, <1>4 DEF Inv, WorkersFit, Fits
<1>6. Informed /\ Timed
  BY Unannounced DEF Deliver, stripe
<1>7. DisputesKnown'
  <2> HIDE DEF Event, Payments, Idle
  <2>1. e.kind = "dispute" => contest[e.of] # "none"
    BY DEF Deliver, Inv, DisputesKnown, Disputable
  <2>2. UNCHANGED <<contest, ent, pending>>
    BY DEF Deliver, stripe, books
  <2>3. \A v \in Workers : worker'[v] # Idle /\ worker'[v].event.kind = "dispute" =>
           contest'[worker'[v].event.of] # "none"
    BY <1>3, <1>4, <2>1, <2>2 DEF Inv, DisputesKnown, Disputable, Job
  <2>4. \A r \in pending' : r.of \in Payments /\ (r.reason = "dispute" => contest'[r.of] # "none")
    BY <2>2 DEF Inv, DisputesKnown, Disputable
  <2>5. \A l \in Sessions : ent'[l] = "disputed" => contest'[l] # "none"
    BY <2>2 DEF Inv, DisputesKnown, Disputable
  <2> QED BY <1>6, <2>3, <2>4, <2>5, DisputesKept DEF Inv
<1> QED BY <1>5, <1>6, <1>7, OwnedKept DEF Inv, Deliver, books

-----------------------------------------------------------------------------
(* Handlers that write the tracked subscription of an organisation.        *)
LEMMA Told ==
  ASSUME Inv, NEW w \in Workers, worker[w] # Idle, Proceeds(w), Informed, UNCHANGED contest, pending' \subseteq pending,
         \A l \in Sessions : ent'[l] = "disputed" => ent[l] = "disputed" \/ Disputable(l)
  PROVE  WorkersFit' /\ DisputesKnown'
<1> USE DEF Inv
<1>1. /\ WorkersFit'
      /\ \A v \in Workers : worker'[v] # Idle => worker[v] # Idle /\ worker'[v].event = worker[v].event
  BY ProceedsFits
<1> HIDE DEF Event, Payments, Idle
<1>2. \A v \in Workers : worker'[v] # Idle /\ worker'[v].event.kind = "dispute" =>
         contest'[worker'[v].event.of] # "none"
  BY <1>1 DEF DisputesKnown, Job, Disputable
<1>3. \A r \in pending' : r.of \in Payments /\ (r.reason = "dispute" => contest'[r.of] # "none")
  BY DEF DisputesKnown, Disputable
<1>4. \A l \in Sessions : ent'[l] = "disputed" => contest'[l] # "none"
  BY DEF DisputesKnown, Disputable
<1> QED BY <1>1, <1>2, <1>3, <1>4, DisputesKept

LEMMA Tracking ==
  ASSUME Inv, NEW w \in Workers, worker[w] # Idle, Proceeds(w), Writes, UNCHANGED <<ent, slot>>,
         pending' \subseteq pending, org' \in [Orgs -> OrgRow],
         \A o \in Orgs : \/ org'[o].plan = org[o].plan
                         \/ org'[o].plan = "lifetime" <=> ActiveLifetime(o)
  PROVE  Inv'
<1>1. Informed /\ Timed
  BY Unannounced DEF Writes, stripe
<1>2. WorkersFit' /\ DisputesKnown'
  BY <1>1, Told DEF Writes, stripe, Inv, DisputesKnown
<1>3. RowsTyped' /\ SlotsOwned' /\ OneActive'
  <2> HIDE DEF Event, OrgRow
  <2> QED BY <1>1 DEF Inv, RowsTyped, SlotsOwned, OneActive, Timed
<1>4. PlanFollows'
  <2>1. \A o \in Orgs : (ActiveLifetime(o) <=> ActiveLifetime(o)') /\ (Downgraded(o) <=> Downgraded(o)')
    BY DEF ActiveLifetime, Downgraded, Writes, stripe
  <2> QED BY <2>1 DEF Inv, PlanFollows
<1> QED BY <1>2, <1>3, <1>4 DEF Inv

LEMMA Snapshots ==
  ASSUME Inv, NEW o \in Orgs, NEW e \in Event, e.kind \in OfSub, NEW active \in BOOLEAN,
         org' = Snapshot(o, e, active)
  PROVE  /\ org' \in [Orgs -> OrgRow]
         /\ \A q \in Orgs : \/ org'[q].plan = org[q].plan
                            \/ org'[q].plan = "lifetime" <=> ActiveLifetime(q)
<1> DEFINE plan == IF ActiveLifetime(o) THEN "lifetime" ELSE IF active THEN "hosted" ELSE "free"
           row == [sub |-> e.of, active |-> active, at |-> second[e], last |-> e.kind, plan |-> plan]
<1>1. plan \in Plan /\ (plan = "lifetime" <=> ActiveLifetime(o))
  BY DEF Plan
<1>2. e.of \in Subs /\ e.kind \in Kind /\ second[e] \in Nat
  BY Events DEF Inv, RowsTyped
<1>3. org' = [org EXCEPT ![o] = row]
  BY DEF Snapshot
<1> HIDE DEF plan
<1>4. row \in OrgRow /\ row.plan = plan
  BY <1>1, <1>2 DEF OrgRow
<1> HIDE DEF row
<1> QED BY <1>1, <1>3, <1>4 DEF Inv, RowsTyped

LEMMA TrackersKeep ==
  ASSUME Inv, NEW w \in Workers, ClaimSubscription(w) \/ GrantPeriod(w) \/ ApplySnapshot(w)
  PROVE  Inv'
<1> USE DEF MayFollow, Step, Later, OnSub
<1>1. /\ worker[w] # Idle /\ worker[w].at \in OnSub
  BY DEF ClaimSubscription, GrantPeriod, ApplySnapshot, At
<1>2. /\ Job(w) \in Subs /\ Owner(w) \in Orgs /\ worker[w].event \in Event
      /\ worker[w].event.kind \in OfSub
  BY <1>1, JobType DEF Inv, Fits
<1>3. ASSUME NEW x \in {"finish", "cancel", "beside"}, Go(w, x)
      PROVE  Proceeds(w)
  BY <1>1, <1>3, Moves
<1>4. CASE ClaimSubscription(w)
  <2>1. Proceeds(w)
    BY <1>3, <1>4 DEF ClaimSubscription
  <2>2. /\ org' \in [Orgs -> OrgRow]
        /\ \A o \in Orgs : org'[o].plan = org[o].plan
    <3>1. CASE org' = org
      BY <3>1 DEF Inv, RowsTyped
    <3>2. CASE org' = [org EXCEPT ![Owner(w)].sub = Job(w)]
      BY <1>2, <3>2 DEF Inv, RowsTyped, OrgRow
    <3> QED BY <1>4, <3>1, <3>2 DEF ClaimSubscription
  <2> QED BY <1>1, <1>4, <2>1, <2>2, Tracking DEF ClaimSubscription
<1>5. CASE GrantPeriod(w)
  <2>1. Proceeds(w)
    BY <1>3, <1>5 DEF GrantPeriod
  <2>2. /\ org' \in [Orgs -> OrgRow]
        /\ \A o \in Orgs : \/ org'[o].plan = org[o].plan
                           \/ org'[o].plan = "lifetime" <=> ActiveLifetime(o)
    <3>1. CASE org' = org
      BY <3>1 DEF Inv, RowsTyped
    <3>2. CASE org' = Snapshot(Owner(w), worker[w].event, TRUE)
      BY <1>2, <3>2, Snapshots
    <3> QED BY <1>5, <3>1, <3>2 DEF GrantPeriod
  <2>3. pending' \subseteq pending
    BY <1>5 DEF GrantPeriod, Forget
  <2> QED BY <1>1, <1>5, <2>1, <2>2, <2>3, Tracking DEF GrantPeriod
<1>6. CASE ApplySnapshot(w)
  <2>1. Proceeds(w)
    BY <1>3, <1>6 DEF ApplySnapshot
  <2>2. /\ org' \in [Orgs -> OrgRow]
        /\ \A o \in Orgs : \/ org'[o].plan = org[o].plan
                           \/ org'[o].plan = "lifetime" <=> ActiveLifetime(o)
    <3>1. CASE org' = org
      BY <3>1 DEF Inv, RowsTyped
    <3>2. CASE org' = Snapshot(Owner(w), worker[w].event, worker[w].event.kind # "deleted")
      BY <1>2, <3>2, Snapshots
    <3> QED BY <1>6, <3>1, <3>2 DEF ApplySnapshot
  <2> QED BY <1>1, <1>6, <2>1, <2>2, Tracking DEF ApplySnapshot
<1> QED BY <1>4, <1>5, <1>6

-----------------------------------------------------------------------------
(* Handlers that grant and withdraw lifetime plans.                        *)
NatLess == {p \in Nat \X Nat : p[1] < p[2]}
LEMMA NatLessWellFounded == IsWellFoundedOn(NatLess, Nat)
BY NatLessThanWellFounded, Zenon DEF OpToRel, NatLess

LEMMA LowestFree ==
  ASSUME Free # {}
  PROVE  Lowest \in Slots /\ slot[Lowest] = None
<1>1. Free \subseteq Nat
  BY ConstantsOK DEF Free
<1>2. PICK k \in Free : \A n \in Free : ~(<<n, k>> \in NatLess)
  BY <1>1, NatLessWellFounded, WFMin
<1>3. \A n \in Free : k <= n
  <2>1. TAKE n \in Free
  <2>2. k \in Nat /\ n \in Nat /\ <<n, k>> \notin NatLess
    BY <1>1, <1>2
  <2> QED BY <2>2 DEF NatLess
<1>4. Lowest \in Free
  BY <1>3 DEF Lowest
<1> QED BY <1>4 DEF Free

(* One entitlement changes and the plan of its organisation with it. *)
LEMMA Regranted ==
  ASSUME Inv, NEW l \in Sessions, ent[l] # "released", UNCHANGED contest,
         NEW status \in {"active", "disputed", "released"}, ent' = [ent EXCEPT ![l] = status],
         \A o \in Orgs \ {OwnerOf[l]} : org'[o] = org[o],
         IF status = "active"
           THEN Holders(OwnerOf[l]) = {} /\ org'[OwnerOf[l]].plan = "lifetime"
           ELSE /\ org'[OwnerOf[l]].plan # "lifetime"
                /\ \/ status = "released" /\ Disputable(l)
                   \/ Holders(OwnerOf[l]) \subseteq {l}
  PROVE  OneActive' /\ PlanFollows'
<1>1. /\ ent'[l] = status /\ \A m \in Sessions \ {l} : ent'[m] = ent[m]
  BY DEF Inv, RowsTyped
<1>2. OneActive'
  BY <1>1 DEF Inv, OneActive, Holders
<1>3. \A o \in Orgs : Downgraded(o) => Downgraded(o)'
  BY <1>1 DEF Downgraded
<1>4. \A o \in Orgs \ {OwnerOf[l]} : ActiveLifetime(o) <=> ActiveLifetime(o)'
  BY <1>1 DEF ActiveLifetime
<1>5. /\ org'[OwnerOf[l]].plan = "lifetime" => ActiveLifetime(OwnerOf[l])'
      /\ ActiveLifetime(OwnerOf[l])' => org'[OwnerOf[l]].plan = "lifetime" \/ Downgraded(OwnerOf[l])'
  BY <1>1 DEF ActiveLifetime, Downgraded, Holders, Disputable
<1>6. ASSUME NEW o \in Orgs
      PROVE  /\ org'[o].plan = "lifetime" => ActiveLifetime(o)'
             /\ ActiveLifetime(o)' => org'[o].plan = "lifetime" \/ Downgraded(o)'
  BY <1>3, <1>4, <1>5 DEF Inv, PlanFollows
<1> QED BY <1>2, <1>6 DEF PlanFollows

LEMMA PlanRow ==
  ASSUME Inv, NEW o \in Orgs
  PROVE  /\ Lost(o) \in [Orgs -> OrgRow] /\ Lost(o)[o].plan # "lifetime"
         /\ \A q \in Orgs \ {o} : Lost(o)[q] = org[q]
         /\ [org EXCEPT ![o].plan = "lifetime"] \in [Orgs -> OrgRow]
         /\ [org EXCEPT ![o].plan = "lifetime"][o].plan = "lifetime"
         /\ \A q \in Orgs \ {o} : [org EXCEPT ![o].plan = "lifetime"][q] = org[q]
<1>1. \A r \in OrgRow, p \in Plan : [r EXCEPT !.plan = p] \in OrgRow /\ [r EXCEPT !.plan = p].plan = p
  BY DEF OrgRow
<1>2. org \in [Orgs -> OrgRow] /\ {"free", "hosted", "lifetime"} = Plan
  BY DEF Inv, RowsTyped, Plan
<1> HIDE DEF OrgRow, Plan
<1>3. PICK p \in {"hosted", "free"} : Lost(o) = [org EXCEPT ![o] = [org[o] EXCEPT !.plan = p]]
  BY DEF Lost
<1>4. [org EXCEPT ![o].plan = "lifetime"] = [org EXCEPT ![o] = [org[o] EXCEPT !.plan = "lifetime"]]
  OBVIOUS
<1>5. \A x \in Plan : [org[o] EXCEPT !.plan = x] \in OrgRow /\ [org[o] EXCEPT !.plan = x].plan = x
  BY <1>1, <1>2
<1> QED BY <1>2, <1>3, <1>4, <1>5

LEMMA Regranting ==
  ASSUME Inv, NEW w \in Workers, worker[w] # Idle, Proceeds(w), Writes, pending' \subseteq pending,
         NEW l \in Sessions, ent[l] # "released",
         NEW status \in {"active", "disputed", "released"}, ent' = [ent EXCEPT ![l] = status],
         status = "disputed" => Disputable(l),
         \/ /\ status = "active" /\ Holders(OwnerOf[l]) = {}
            /\ org' = [org EXCEPT ![OwnerOf[l]].plan = "lifetime"]
         \/ /\ status # "active" /\ org' = Lost(OwnerOf[l])
            /\ \/ status = "released" /\ Disputable(l)
               \/ Holders(OwnerOf[l]) \subseteq {l},
         slot' \in [Slots -> Sessions \cup {None}],
         \A j, k \in Slots : slot'[j] = slot'[k] /\ slot'[j] # None => j = k,
         \A m \in Sessions \ {l} : (\E k \in Slots : slot'[k] = m) <=> (\E k \in Slots : slot[k] = m),
         (\E k \in Slots : slot'[k] = l) <=> status # "released"
  PROVE  Inv'
<1> DEFINE o == OwnerOf[l]
<1>1. o \in Orgs
  BY ConstantsOK DEF Payments
<1>2. Informed /\ Timed /\ UNCHANGED contest
  BY Unannounced DEF Writes, stripe
<1>3. /\ ent'[l] = status /\ \A m \in Sessions \ {l} : ent'[m] = ent[m]
  BY DEF Inv, RowsTyped
<1>4. WorkersFit' /\ DisputesKnown'
  BY <1>2, <1>3, Told
<1>5. RowsTyped'
  <2>1. ent' \in [Sessions -> {"none", "active", "disputed", "released"}]
    BY DEF Inv, RowsTyped
  <2>2. org' \in [Orgs -> OrgRow]
    BY <1>1, PlanRow
  <2> HIDE DEF Event, OrgRow
  <2> QED BY <1>2, <2>1, <2>2 DEF RowsTyped, Timed
<1>6. SlotsOwned'
  BY <1>3 DEF Inv, SlotsOwned
<1>7. OneActive' /\ PlanFollows'
  <2>1. \A q \in Orgs \ {o} : org'[q] = org[q]
    BY <1>1, PlanRow
  <2>2. CASE status = "active"
    <3>1. org' = [org EXCEPT ![o].plan = "lifetime"] /\ Inv
      BY <2>2
    <3> HIDE DEF o
    <3>2. org'[o].plan = "lifetime"
      BY <1>1, <3>1, PlanRow
    <3> USE DEF o
    <3> QED BY <1>2, <2>1, <2>2, <3>2, Regranted
  <2>3. CASE status # "active"
    <3>1. org' = Lost(o) /\ Inv
      BY <2>3
    <3> HIDE DEF o
    <3>2. org'[o].plan # "lifetime"
      BY <1>1, <3>1, PlanRow
    <3> USE DEF o
    <3> QED BY <1>2, <2>1, <2>3, <3>2, Regranted
  <2> QED BY <2>2, <2>3
<1> QED BY <1>4, <1>5, <1>6, <1>7 DEF Inv

(* An organisation is left as it was: nothing of books but what is noted.  *)
LEMMA Unbooked ==
  ASSUME Inv, NEW w \in Workers, worker[w] # Idle, Proceeds(w), Writes, UNCHANGED <<org, ent, slot, pending>>
  PROVE  Inv'
BY Noting

LEMMA ClaimKeeps ==
  ASSUME Inv, NEW w \in Workers, ClaimSlot(w)
  PROVE  Inv'
<1> DEFINE l == Job(w)
           worth == GrantedAs(l)
<1>1. /\ worker[w] # Idle /\ worker[w].at = "slot"
  BY DEF ClaimSlot, At
<1>2. l \in Sessions
  BY <1>1, JobType DEF Inv, OnSession
<1>3. ASSUME NEW x \in {"finish", "giveback"}, Go(w, x)
      PROVE  Proceeds(w)
  BY <1>1, <1>3, Moves DEF MayFollow, Step, Later
<1>4. Proceeds(w) /\ Writes
  BY <1>3 DEF ClaimSlot
<1>5. CASE UNCHANGED books
  BY <1>1, <1>4, <1>5, Unbooked DEF books
<1>6. CASE ~UNCHANGED books
  <2> DEFINE status == IF worth = "paid" THEN "active" ELSE IF worth = "disputed" THEN "disputed" ELSE "released"
  <2>1. worth \in {"paid", "disputed", "refunded"}
    BY DEF GrantedAs
  <2>2. /\ ent[l] = "none" /\ Free # {} /\ Holders(OwnerOf[l]) = {}
        /\ ent' = [ent EXCEPT ![l] = status]
        /\ slot' = IF worth = "refunded" THEN slot ELSE [slot EXCEPT ![Lowest] = l]
        /\ org' = IF worth = "paid" THEN [org EXCEPT ![OwnerOf[l]].plan = "lifetime"] ELSE Lost(OwnerOf[l])
        /\ pending' = Forget(l)
    BY <1>6, <2>1 DEF ClaimSlot, Owner
  <2>3. pending' \subseteq pending
    BY <2>2 DEF Forget
  <2>4. status = "disputed" => Disputable(l)
    <3>1. worth = "disputed" => Queued(l, "dispute")
      BY DEF GrantedAs
    <3> QED BY <3>1 DEF Queued, Inv, DisputesKnown
  <2>5. Lowest \in Slots /\ slot[Lowest] = None
    BY <2>2, LowestFree
  <2>6. \A k \in Slots : slot[k] # l
    BY <1>2, <2>2 DEF Inv, SlotsOwned
  <2>7. l # None
    BY <1>2, ConstantsOK DEF Payments
  <2>8. /\ slot' \in [Slots -> Sessions \cup {None}]
        /\ \A j, k \in Slots : slot'[j] = slot'[k] /\ slot'[j] # None => j = k
        /\ \A m \in Sessions \ {l} : (\E k \in Slots : slot'[k] = m) <=> (\E k \in Slots : slot[k] = m)
        /\ (\E k \in Slots : slot'[k] = l) <=> status # "released"
    <3> HIDE DEF l, worth
    <3>1. CASE worth = "refunded"
      BY <2>2, <2>6, <3>1 DEF Inv, RowsTyped, SlotsOwned
    <3>2. CASE worth # "refunded"
      <4>1. slot' = [slot EXCEPT ![Lowest] = l] /\ status # "released"
        BY <2>1, <2>2, <3>2
      <4>2. slot'[Lowest] = l /\ \A k \in Slots \ {Lowest} : slot'[k] = slot[k]
        BY <2>5, <4>1 DEF Inv, RowsTyped
      <4>3. slot' \in [Slots -> Sessions \cup {None}]
        BY <1>2, <4>1 DEF Inv, RowsTyped
      <4>4. \A m \in Sessions \ {l} : m # None
        BY ConstantsOK DEF Payments
      <4> QED BY <2>5, <2>6, <4>1, <4>2, <4>3, <4>4 DEF Inv, SlotsOwned
    <3> QED BY <3>1, <3>2
  <2> HIDE DEF l, worth
  <2>9. \/ /\ status = "active" /\ Holders(OwnerOf[l]) = {}
           /\ org' = [org EXCEPT ![OwnerOf[l]].plan = "lifetime"]
        \/ /\ status # "active" /\ org' = Lost(OwnerOf[l]) /\ Holders(OwnerOf[l]) \subseteq {l}
    BY <2>1, <2>2
  <2>10. status \in {"active", "disputed", "released"} /\ ent[l] # "released"
    BY <2>2
  <2> HIDE DEF status
  <2> QED BY <1>1, <1>2, <1>4, <2>2, <2>3, <2>4, <2>8, <2>9, <2>10, Regranting
<1> QED BY <1>5, <1>6

LEMMA ReverseKeeps ==
  ASSUME Inv, NEW w \in Workers, Reverse(w)
  PROVE  Inv'
<1> DEFINE p == Job(w)
           refund == worker[w].event.kind = "refund"
<1>1. worker[w] # Idle /\ worker[w].at = "reverse"
  BY DEF Reverse, At
<1>2. /\ p \in Payments /\ worker[w].event.kind \in {"refund", "dispute"}
      /\ ~refund => Disputable(p)
  BY <1>1, JobType DEF Inv, DisputesKnown, Fits
<1>3. Proceeds(w) /\ Writes /\ UNCHANGED pending
  <2>1. PICK x \in {"endpaid", "status", "queue"}, seen \in Payments \cup {None} :
          worker' = [worker EXCEPT ![w].seen = seen, ![w].at = x]
    BY <1>2 DEF Reverse
  <2> QED BY <1>1, <2>1, MovesWith DEF Reverse, MayFollow, Step, Later
<1>4. CASE UNCHANGED <<org, ent, slot>>
  BY <1>1, <1>3, <1>4, Unbooked
<1>5. CASE ~UNCHANGED <<org, ent, slot>>
  <2> DEFINE status == IF refund THEN "released" ELSE "disputed"
  <2>1. p \in Sessions /\ ReverseLifetime(p, refund)
    BY <1>2, <1>5 DEF Reverse, ReversePeriod, Payments
  <2>2. /\ ent[p] \in Taken(refund)
        /\ ent' = [ent EXCEPT ![p] = status]
        /\ slot' = IF refund THEN Vacated(p) ELSE slot
        /\ org' = Lost(OwnerOf[p])
    BY <1>5, <2>1 DEF ReverseLifetime
  <2>3. ent[p] = "active" \/ (refund /\ ent[p] = "disputed" /\ Disputable(p))
    BY <2>1, <2>2 DEF Taken, Inv, DisputesKnown
  <2>4. Holders(OwnerOf[p]) \subseteq {p} \/ (status = "released" /\ Disputable(p))
    BY <2>1, <2>3 DEF Inv, OneActive, Holders
  <2>5. status = "disputed" => Disputable(p)
    BY <1>2
  <2>6. /\ slot' \in [Slots -> Sessions \cup {None}]
        /\ \A j, k \in Slots : slot'[j] = slot'[k] /\ slot'[j] # None => j = k
        /\ \A m \in Sessions \ {p} : (\E k \in Slots : slot'[k] = m) <=> (\E k \in Slots : slot[k] = m)
        /\ (\E k \in Slots : slot'[k] = p) <=> status # "released"
    <3> HIDE DEF p
    <3>1. \A m \in Sessions : m # None
      BY ConstantsOK DEF Payments
    <3>2. CASE refund
      BY <2>1, <2>2, <3>1, <3>2 DEF Vacated, Inv, RowsTyped, SlotsOwned
    <3>3. CASE ~refund
      BY <2>1, <2>2, <2>3, <3>3 DEF Inv, RowsTyped, SlotsOwned
    <3> QED BY <3>2, <3>3
  <2>7. status \in {"disputed", "released"} /\ ent[p] # "released"
    BY <2>3
  <2> HIDE DEF p, refund, status
  <2> QED BY <1>1, <1>3, <2>1, <2>2, <2>4, <2>5, <2>6, <2>7, Regranting
<1> QED BY <1>4, <1>5

LEMMA RestoreKeeps ==
  ASSUME Inv, NEW w \in Workers, Restore(w)
  PROVE  Inv'
<1> DEFINE p == Job(w)
<1>1. worker[w] # Idle /\ p \in Payments
  BY JobType DEF Restore, At, Inv
<1>2. Writes /\ UNCHANGED <<slot, pending>>
  BY DEF Restore, SetStatus
<1>3. Proceeds(w)
  <2>1. Drop(w) \/ \E x \in {"finish", "restored"} : Go(w, x)
    BY DEF Restore, SetStatus, RestorePeriod, RestoreLifetime, RestoreNothing
  <2> QED BY <1>1, <2>1, Moves DEF MayFollow, Step, Later, Drop, Proceeds
<1>4. CASE UNCHANGED <<org, ent>>
  BY <1>1, <1>2, <1>3, <1>4, Unbooked
<1>5. CASE ~UNCHANGED <<org, ent>>
  <2>1. /\ p \in Sessions /\ ent[p] = "disputed" /\ Holders(OwnerOf[p]) = {}
        /\ ent' = [ent EXCEPT ![p] = "active"]
        /\ org' = [org EXCEPT ![OwnerOf[p]].plan = "lifetime"]
    <3>1. RestoreLifetime(w)
      BY <1>5 DEF Restore, SetStatus, RestorePeriod, RestoreNothing
    <3> QED BY <1>5, <3>1 DEF RestoreLifetime, Withheld, Owner
  <2>2. /\ slot' \in [Slots -> Sessions \cup {None}]
        /\ \A j, k \in Slots : slot'[j] = slot'[k] /\ slot'[j] # None => j = k
        /\ \A m \in Sessions \ {p} : (\E k \in Slots : slot'[k] = m) <=> (\E k \in Slots : slot[k] = m)
        /\ \E k \in Slots : slot'[k] = p
    <3> HIDE DEF p
    <3> QED BY <1>2, <2>1 DEF Inv, RowsTyped, SlotsOwned
  <2> HIDE DEF p
  <2> QED BY <1>1, <1>2, <1>3, <2>1, <2>2, Regranting
<1> QED BY <1>4, <1>5

-----------------------------------------------------------------------------
(* What the handlers establish: the invariant holds of every behaviour.    *)
LEMMA InitInv == Init => Inv
<1> SUFFICES ASSUME Init PROVE Inv
  OBVIOUS
<1>1. WorkersFit
  BY DEF Init, WorkersFit
<1>2. DisputesKnown
  <2> HIDE DEF Event, Payments, Idle
  <2> QED BY DEF Init, DisputesKnown, Disputable
<1>3. RowsTyped
  <2>1. Row \in OrgRow
    BY DEF Row, OrgRow, Plan
  <2> HIDE DEF Event, Row, OrgRow
  <2> QED BY <2>1 DEF Init, RowsTyped
<1>4. SlotsOwned
  <2>1. \A l \in Sessions : l # None
    BY ConstantsOK DEF Payments
  <2> QED BY <2>1 DEF Init, SlotsOwned
<1>5. OneActive /\ PlanFollows
  BY DEF Init, OneActive, PlanFollows, ActiveLifetime, Row
<1> QED BY <1>1, <1>2, <1>3, <1>4, <1>5 DEF Inv

LEMMA NextInv == Inv /\ [Next]_vars => Inv'
<1> SUFFICES ASSUME Inv, [Next]_vars PROVE Inv'
  OBVIOUS
<1>1. CASE UNCHANGED vars
  <2>1. Informed /\ Timed
    BY <1>1, Unannounced DEF vars, stripe
  <2> QED BY <1>1, <2>1, Outside DEF vars
<1>2. ASSUME NEW w \in Workers, Handler(w)
      PROVE  Inv'
  BY <1>2, ReadersKeep, CallersKeep, NotesKeep, EndsKeep, TrackersKeep, ClaimKeeps, ReverseKeeps,
     RestoreKeeps DEF Handler
<1>3. CASE \E w \in Workers : (\E e \in Event : Deliver(w, e)) \/ Handler(w) \/ Fail(w)
  <2> HIDE DEF Event
  <2> QED BY <1>2, <1>3, DeliverKeeps, EndsKeep
<1>4. CASE Next /\ ~(\E w \in Workers : (\E e \in Event : Deliver(w, e)) \/ Handler(w) \/ Fail(w))
  BY <1>4, CustomersKeep DEF Next
<1> QED BY <1>1, <1>3, <1>4

LEMMA InvHolds == Spec => []Inv
<1> QED BY InitInv, NextInv, PTL DEF Spec

LEMMA InvSlotsHeld == Inv => SlotsHeld
<1> SUFFICES ASSUME Inv PROVE SlotsHeld
  OBVIOUS
<1> USE DEF Inv
<1>1. ASSUME NEW l \in Sessions
      PROVE  Cardinality({k \in Slots : slot[k] = l}) = IF ent[l] \in {"active", "disputed"} THEN 1 ELSE 0
  <2> DEFINE held == {k \in Slots : slot[k] = l}
  <2>1. CASE ent[l] \in {"active", "disputed"}
    <3>1. PICK k \in Slots : slot[k] = l
      BY <2>1 DEF SlotsOwned
    <3>2. held = {k}
      <4>1. l # None
        BY ConstantsOK DEF Payments
      <4> QED BY <3>1, <4>1 DEF SlotsOwned
    <3> QED BY <2>1, <3>2, FS_Singleton
  <2>2. CASE ent[l] \notin {"active", "disputed"}
    <3>1. held = {}
      BY <2>2 DEF SlotsOwned
    <3> QED BY <2>2, <3>1, FS_EmptySet
  <2> QED BY <2>1, <2>2
<1>2. ASSUME NEW o \in Orgs
      PROVE  Cardinality(Holders(o)) <= 1
  <2>1. CASE Holders(o) = {}
    BY <2>1, FS_EmptySet
  <2>2. CASE Holders(o) # {}
    <3>1. PICK l \in Holders(o) : TRUE
      BY <2>2
    <3>2. Holders(o) = {l}
      BY <3>1 DEF Holders, OneActive
    <3>3. Cardinality(Holders(o)) = 1
      BY <3>2, FS_Singleton
    <3> QED BY <3>3
  <2> QED BY <2>1, <2>2
<1> QED BY <1>1, <1>2 DEF SlotsHeld, PlanFollows

(* Whatever handlers overlap, fail and are repeated, every lifetime        *)
(* entitlement that is active or disputed holds exactly one slot and the   *)
(* others none; an organisation has at most one active, and the lifetime   *)
(* plan exactly with it, unless the refund of one that had been contested  *)
(* took the plan away.                                                     *)
THEOREM SpecImpliesSlotsHeld == Spec => []SlotsHeld
<1> QED BY InvHolds, InvSlotsHeld, PTL
=============================================================================
