---------------------------- MODULE LedgerProofs ----------------------------
(***************************************************************************)
(* Theorems about CreditLedger, for any number of charges, disputes,       *)
(* handlers, periods and comments: a debt is bounded by the grants under   *)
(* dispute, an acknowledged event stays answered, a charge debits exactly  *)
(* what it charges, and the ledger implements LedgerSpec.                  *)
(***************************************************************************)
EXTENDS CreditLedger, FiniteSetTheorems, TLAPS

-----------------------------------------------------------------------------
(* The inductive invariant.                                                *)

(* What an acknowledged event leaves behind. *)
Answered(e) ==
  /\ e.kind = "checkout" => e.of \in granted \/ money[e.of] = "refunded" \/ ~Quiet(e.of)
  /\ e.kind = "refund" => \/ e.of \in refunded
                          \/ \E r \in pending : r.reason = "refund" /\ r.of = e.of
  /\ e.kind = "dispute" =>
       \/ ChargeOf[e.of] \in disputed
       \/ \E r \in pending : r.reason = "dispute" /\ r.of = ChargeOf[e.of]
       \/ \E d \in Disputes : ChargeOf[d] = ChargeOf[e.of] /\ contest[d] = "won"

(* A queued reversal names a dispute of its charge. *)
Named(rows) == \A r \in rows : r.reason = "dispute" => ChargeOf[r.by] = r.of

(* The kinds of event that come to each step of a handler. *)
Purchase == {"retrieve", "grant", "refuse", "list", "drain"}
Recovery == {"recall", "setwon", "recheck", "ignore", "restore", "mark"}
Comes(step) ==
  IF step \in Purchase THEN {"checkout"}
  ELSE IF step \in Recovery THEN {"dispute", "closed"}
  ELSE IF step \in {"lookup", "record", "judge", "status"} THEN {"dispute"}
  ELSE IF step \in {"find", "queue", "reverse"} THEN {"refund", "dispute"}
  ELSE {"checkout", "refund", "dispute", "closed"}

(* What a handler relies on, from what it read steps ago. *)
Founded(t) ==
  /\ t.event.kind \in Comes(t.at)
  /\ t.event.kind = "checkout" => money[t.event.of] # "unpaid"
  /\ t.at \in {"list", "drain", "reverse"} => Of(t.event) \in granted
  /\ t.at \in {"judge", "status"} => Of(t.event) \in disputed
  /\ t.at \in Recovery /\ t.event.kind = "dispute" => contest[t.event.of] = "won"
  /\ t.at = "setwon" => contest[t.event.of] = "won"
  /\ t.at = "finish" => Answered(t.event)
  /\ \A r \in t.rows : r.of = Of(t.event)
  /\ Named(t.rows)
  /\ t.status # "won"
HandlersFounded == \A w \in Workers : Busy(w) => Founded(worker[w])

RestoredOnes == \A d \in restored : ChargeOf[d] \in disputed
SentIsPaid == \A c \in Charges : inbox[[kind |-> "checkout", of |-> c]] # "unsent"
                                   => money[c] # "unpaid"
WonIsWon == \A d \in Disputes : reversal[d].status = "won" => contest[d] = "won"
AllAnswered == \A e \in Event : inbox[e] = "done" => Answered(e)

Inv ==
  /\ TypeOK
  /\ IsFiniteSet(disputed) /\ RestoredOnes /\ DebtBounded
  /\ SentIsPaid /\ WonIsWon /\ Named(pending)
  /\ HandlersFounded
  /\ AllAnswered

-----------------------------------------------------------------------------
(* Types. *)

LEMMA Kinds ==
  /\ \A c \in Charges : [kind |-> "checkout", of |-> c] \in Event
  /\ \A c \in Charges : [kind |-> "refund", of |-> c] \in Event
  /\ \A d \in Disputes : [kind |-> "dispute", of |-> d] \in Event
  /\ \A d \in Disputes : [kind |-> "closed", of |-> d] \in Event
  /\ \A e \in Event : /\ e.kind \in {"checkout", "refund", "dispute", "closed"}
                      /\ e.kind \in {"checkout", "refund"} => e.of \in Charges
                      /\ e.kind \in {"dispute", "closed"} => e.of \in Disputes
                      /\ e = [kind |-> e.kind, of |-> e.of]
                      /\ Of(e) \in Charges
                      /\ Entry(e) \in Step
BY ConstantsOK DEF Event, Of, Entry, Step

(* A handler that runs has a task, and what it writes of it is a task.     *)
WorkerOK == worker \in [Workers -> Task \cup {Idle}]

LEMMA TaskType ==
  ASSUME WorkerOK, NEW w \in Workers, Busy(w)
  PROVE  /\ worker[w] \in Task
         /\ worker[w].at \in Step /\ worker[w].event \in Event
         /\ worker[w].rows \subseteq Owed /\ worker[w].status \in Status
BY DEF WorkerOK, Busy, Task

LEMMA Tasks ==
  ASSUME WorkerOK, NEW w \in Workers
  PROVE  /\ Leave(w) => WorkerOK'
         /\ \A step \in Step : Busy(w) /\ Goto(w, step) => WorkerOK'
         /\ \A e \in Event, b \in BOOLEAN : Start(w, e, b) => WorkerOK'
<1>1. Leave(w) => WorkerOK'
  BY DEF WorkerOK, Leave
<1>2. ASSUME NEW step \in Step, Busy(w), Goto(w, step) PROVE WorkerOK'
  <2>1. [worker[w] EXCEPT !.at = step] \in Task
    BY <1>2, TaskType DEF Task
  <2> QED BY <2>1, <1>2 DEF WorkerOK, Goto
<1>3. ASSUME NEW e \in Event, NEW b \in BOOLEAN, Start(w, e, b) PROVE WorkerOK'
  <2>1. [at |-> Entry(e), event |-> e, inboxed |-> b, rows |-> {}, status |-> "absent"] \in Task
    BY Kinds DEF Task, Status
  <2> QED BY <2>1, <1>3 DEF WorkerOK, Start
<1> QED BY <1>1, <1>2, <1>3

LEMMA WorkerStep ==
  ASSUME WorkerOK, pending \subseteq Owed, [Next]_vars
  PROVE  WorkerOK'
<1>1. CASE UNCHANGED worker
  BY <1>1 DEF WorkerOK
<1>2. ASSUME NEW w \in Workers, NEW e \in Event, ClaimEvent(w, e) PROVE WorkerOK'
  BY <1>2, Tasks DEF ClaimEvent
<1>3. ASSUME NEW w \in Workers, NEW c \in Charges, VisitSuccess(w, c) PROVE WorkerOK'
  BY <1>3, Tasks, Kinds DEF VisitSuccess
<1>4. ASSUME NEW w \in Workers, Throw(w) \/ Crash(w) \/ Finish(w) PROVE WorkerOK'
  BY <1>4, Tasks DEF Throw, Crash, Finish
<1>5. ASSUME NEW w \in Workers, Handler(w) PROVE WorkerOK'
  <2>1. CASE \/ RetrieveSession(w) \/ LookUpDispute(w) \/ RecordDispute(w) \/ FindGrant(w)
             \/ RecallDispute(w) \/ RememberWin(w) \/ RecheckCharge(w) \/ IgnoreWin(w)
    BY <2>1, Tasks DEF At, RetrieveSession, LookUpDispute, RecordDispute, FindGrant,
                       RecallDispute, RememberWin, RecheckCharge, IgnoreWin, Step
  <2>2. CASE \/ GrantPurchase(w) \/ RefundUngrantable(w) \/ QueueReversal(w)
             \/ StoreStatus(w) \/ RestoreCredits(w) \/ MarkRestored(w)
    BY <2>2, Tasks DEF At, GrantPurchase, RefundUngrantable, RefundPayment, QueueReversal,
                       StoreStatus, RestoreCredits, MarkRestored, Ungrantable, Step
  <2>3. CASE ListPending(w)
    <3> DEFINE rows == {r \in pending : r.of = worker[w].event.of}
               task == [worker[w] EXCEPT !.rows = rows,
                                         !.at = IF rows = {} THEN "finish" ELSE "drain"]
    <3>1. task \in Task
      BY <2>3, TaskType DEF ListPending, At, Task, Step
    <3>2. worker' = [worker EXCEPT ![w] = task]
      BY <2>3 DEF ListPending, WorkerOK
    <3> QED BY <3>1, <3>2 DEF WorkerOK
  <2>4. CASE DrainRow(w)
    <3>1. PICK r \in Foremost(worker[w].rows) : worker' = [worker EXCEPT
                 ![w].rows = @ \ {r},
                 ![w].at = IF worker[w].rows = {r} THEN "finish" ELSE "drain"]
      BY <2>4 DEF DrainRow
    <3> DEFINE task == [worker[w] EXCEPT
                 !.rows = @ \ {r},
                 !.at = IF worker[w].rows = {r} THEN "finish" ELSE "drain"]
    <3>2. task \in Task
      BY <2>4, TaskType DEF DrainRow, At, Task, Step
    <3>3. worker' = [worker EXCEPT ![w] = task]
      BY <3>1 DEF WorkerOK
    <3> QED BY <3>2, <3>3 DEF WorkerOK
  <2>5. CASE Reverse(w)
    <3>1. CASE Goto(w, "finish")
      BY <2>5, <3>1, Tasks DEF Reverse, At, Step
    <3>2. CASE worker' = [worker EXCEPT
                 ![w].at = IF Of(worker[w].event) \in disputed THEN "judge" ELSE "status",
                 ![w].status = "reversed"]
      <4>1. [worker[w] EXCEPT
                 !.at = IF Of(worker[w].event) \in disputed THEN "judge" ELSE "status",
                 !.status = "reversed"] \in Task
        BY ZenonT(60), <2>5, TaskType DEF Reverse, At, Task, Step, Status
      <4> QED BY <3>2, <4>1 DEF WorkerOK
    <3> QED BY <2>5, <3>1, <3>2 DEF Reverse
  <2>6. CASE JudgeDispute(w)
    <3> DEFINE verdict == IF Claimed(worker[w].event.of) THEN "ignored" ELSE "reversed"
    <3>1. [worker[w] EXCEPT !.at = "status", !.status = verdict] \in Task
      BY ZenonT(60), <2>6, TaskType DEF JudgeDispute, At, Task, Step, Status
    <3>2. worker' = [worker EXCEPT ![w] = [worker[w] EXCEPT !.at = "status", !.status = verdict]]
      BY <2>6 DEF JudgeDispute, WorkerOK
    <3> QED BY <3>1, <3>2 DEF WorkerOK
  <2>7. CASE Finish(w)
    BY <1>4, <2>7
  <2> QED BY SMTT(60), <1>5, <2>1, <2>2, <2>3, <2>4, <2>5, <2>6, <2>7 DEF Handler
<1>6. CASE \/ \E c \in Charges : Pay(c) \/ Repay(c)
           \/ \E d \in Disputes : Contested(d) \/ Ruled(d)
           \/ \E batch \in (SUBSET Refs) \ {{}} : Charge(batch)
           \/ \E p \in Periods : PeriodPasses(p)
           \/ PlanChanges
  BY <1>1, <1>6 DEF Pay, Repay, Contested, Ruled, Charge, PeriodPasses, PlanChanges
<1> QED BY <1>1, <1>2, <1>3, <1>4, <1>5, <1>6 DEF Next, vars

(* Who may write what. *)
Writes(w, name) ==
  CASE name = "stripe"   -> RefundUngrantable(w)
    [] name = "inbox"    -> RefundUngrantable(w) \/ Finish(w)
    [] name = "ledger"   -> GrantPurchase(w) \/ DrainRow(w) \/ Reverse(w) \/ RestoreCredits(w)
    [] name = "pending"  -> QueueReversal(w) \/ DrainRow(w)
    [] name = "reversal" -> RecordDispute(w) \/ DrainRow(w) \/ StoreStatus(w)
                              \/ RememberWin(w) \/ IgnoreWin(w) \/ MarkRestored(w)
Customers == \/ \E c \in Charges : Pay(c) \/ Repay(c)
             \/ \E d \in Disputes : Contested(d) \/ Ruled(d)
Charging == \E batch \in (SUBSET Refs) \ {{}} : Charge(batch)

LEMMA HandlerFootprint ==
  ASSUME NEW w \in Workers, Handler(w)
  PROVE  /\ UNCHANGED stripe \/ Writes(w, "stripe")
         /\ UNCHANGED inbox \/ Writes(w, "inbox")
         /\ UNCHANGED ledger \/ Writes(w, "ledger")
         /\ UNCHANGED pending \/ Writes(w, "pending")
         /\ UNCHANGED reversal \/ Writes(w, "reversal")
         /\ UNCHANGED <<metering, setting, faults>>
<1>1. CASE \/ RetrieveSession(w) \/ ListPending(w) \/ LookUpDispute(w) \/ FindGrant(w)
           \/ JudgeDispute(w) \/ RecallDispute(w) \/ RecheckCharge(w)
  BY <1>1 DEF RetrieveSession, ListPending, LookUpDispute, FindGrant, JudgeDispute,
              RecallDispute, RecheckCharge
<1>2. CASE GrantPurchase(w) \/ RestoreCredits(w)
  BY <1>2 DEF Writes, GrantPurchase, RestoreCredits
<1>3. CASE RefundUngrantable(w) \/ Finish(w)
  BY <1>3 DEF Writes, RefundUngrantable, Finish
<1>4. CASE DrainRow(w)
  BY <1>4 DEF Writes, DrainRow
<1>5. CASE \/ RecordDispute(w) \/ StoreStatus(w) \/ RememberWin(w) \/ IgnoreWin(w)
           \/ MarkRestored(w)
  BY <1>5 DEF Writes, RecordDispute, StoreStatus, RememberWin, IgnoreWin, MarkRestored
<1>6. CASE QueueReversal(w) \/ Reverse(w)
  BY <1>6 DEF Writes, QueueReversal, Reverse
<1> QED BY <1>1, <1>2, <1>3, <1>4, <1>5, <1>6 DEF Handler

LEMMA Footprint ==
  ASSUME [Next]_vars
  PROVE  /\ UNCHANGED stripe \/ Customers \/ \E w \in Workers : Writes(w, "stripe")
         /\ UNCHANGED inbox \/ Customers \/ \E w \in Workers : Writes(w, "inbox")
         /\ UNCHANGED ledger \/ Charging \/ \E w \in Workers : Writes(w, "ledger")
         /\ UNCHANGED pending \/ \E w \in Workers : Writes(w, "pending")
         /\ UNCHANGED reversal \/ \E w \in Workers : Writes(w, "reversal")
         /\ UNCHANGED metering \/ Charging
         /\ UNCHANGED faults \/ (faults < MaxFaults /\ faults' = faults + 1)
         /\ UNCHANGED setting \/ PlanChanges \/ \E p \in Periods : PeriodPasses(p)
<1>1. CASE UNCHANGED vars
  BY <1>1 DEF vars
<1>2. CASE Customers
  BY <1>2 DEF Customers, Pay, Repay, Contested, Ruled
<1>3. CASE \E w \in Workers : \/ \E e \in Event : ClaimEvent(w, e)
                              \/ \E c \in Charges : VisitSuccess(w, c)
                              \/ Throw(w) \/ Crash(w)
  BY <1>3 DEF ClaimEvent, VisitSuccess, Throw, Crash
<1>4. CASE \E w \in Workers : Handler(w)
  BY <1>4, HandlerFootprint
<1>5. CASE Charging
  BY <1>5 DEF Charging, Charge, ledger
<1>6. CASE PlanChanges \/ \E p \in Periods : PeriodPasses(p)
  BY <1>6 DEF PlanChanges, PeriodPasses
<1> QED BY <1>1, <1>2, <1>3, <1>4, <1>5, <1>6 DEF Next, Customers, Charging

StripeOK == money \in [Charges -> Money] /\ contest \in [Disputes -> Contest]
InboxOK == inbox \in [Event -> Delivery]
LeaseOK == lease \in [Event -> Workers \cup {NoOne}]

LEMMA StripeStep ==
  ASSUME StripeOK, [Next]_vars
  PROVE  /\ StripeOK'
         /\ \A c \in Charges : /\ money[c] # "unpaid" => money'[c] # "unpaid"
                               /\ money[c] = "refunded" => money'[c] = "refunded"
         /\ \A d \in Disputes : /\ contest[d] # "none" => contest'[d] # "none"
                                /\ contest[d] = "won" => contest'[d] = "won"
<1>1. CASE UNCHANGED stripe
  BY <1>1 DEF stripe, StripeOK
<1>2. ASSUME NEW c \in Charges, Pay(c) \/ Repay(c) PROVE
          /\ contest' = contest /\ money[c] \in {"unpaid", "paid"}
          /\ \E m \in Money \ {"unpaid"} : money' = [money EXCEPT ![c] = m]
  BY <1>2 DEF Pay, Repay, Refundable, Money
<1>3. ASSUME NEW d \in Disputes, Contested(d) \/ Ruled(d) PROVE
          /\ money' = money /\ contest[d] \in {"none", "open"}
          /\ \E m \in Contest \ {"none"} : contest' = [contest EXCEPT ![d] = m]
  BY <1>3 DEF Contested, Ruled, Contest
<1>4. ASSUME NEW w \in Workers, RefundUngrantable(w) PROVE
          /\ contest' = contest
          /\ money' = money \/ \E c \in Charges \cup Disputes :
               money[c] = "paid" /\ money' = [money EXCEPT ![c] = "refunded"]
  BY <1>4 DEF RefundUngrantable, RefundPayment, Refundable, StripeOK
<1> QED BY <1>1, <1>2, <1>3, <1>4, Footprint DEF StripeOK, Customers, Writes, Money, Contest

LEMMA InboxStep ==
  ASSUME StripeOK, InboxOK, WorkerOK, [Next]_vars
  PROVE  /\ InboxOK'
         /\ \A e \in Event : inbox'[e] # inbox[e] =>
              \/ /\ inbox'[e] = "sent"
                 /\ e.kind = "checkout" => money'[e.of] # "unpaid"
              \/ /\ inbox'[e] = "done"
                 /\ \E w \in Workers : At(w, "finish") /\ worker[w].event = e
<1>1. CASE UNCHANGED inbox
  BY <1>1 DEF InboxOK
<1>2. CASE Customers
  <2>1. PICK e \in Event : /\ inbox' = [inbox EXCEPT ![e] = "sent"]
                           /\ e.kind = "checkout" => money'[e.of] # "unpaid"
    BY ZenonT(60), <1>2, Kinds DEF Customers, Pay, Repay, Contested, Ruled, Emit, StripeOK
  <2> QED BY <2>1 DEF InboxOK, Delivery
<1>3. ASSUME NEW w \in Workers, RefundUngrantable(w), inbox' # inbox
      PROVE  \E e \in Event : inbox' = [inbox EXCEPT ![e] = "sent"] /\ e.kind = "refund"
  <2>1. /\ inbox' = [inbox EXCEPT ![[kind |-> "refund", of |-> worker[w].event.of]] = "sent"]
        /\ money[worker[w].event.of] = "paid"
    BY <1>3 DEF RefundUngrantable, RefundPayment, Emit, Refundable
  <2>2. [kind |-> "refund", of |-> worker[w].event.of] \in Event
    BY <2>1, <1>3 DEF InboxOK
  <2> QED BY <2>1, <2>2
<1>4. ASSUME NEW w \in Workers, Finish(w), inbox' # inbox
      PROVE  /\ inbox' = [inbox EXCEPT ![worker[w].event] = "done"]
             /\ At(w, "finish")
  BY <1>4 DEF Finish
<1> QED
  BY <1>1, <1>2, <1>3, <1>4, Footprint DEF Writes, InboxOK, Delivery

LEMMA LeaseStep ==
  ASSUME LeaseOK, WorkerOK, [Next]_vars
  PROVE  LeaseOK'
<1>1. CASE UNCHANGED lease
  BY <1>1 DEF LeaseOK
<1>2. ASSUME NEW w \in Workers, NEW e \in Event, ClaimEvent(w, e) PROVE LeaseOK'
  BY <1>2 DEF ClaimEvent, LeaseOK
<1>3. ASSUME NEW w \in Workers, Unlease(w) PROVE LeaseOK'
  BY <1>3 DEF Unlease, LeaseOK
<1>4. ASSUME NEW w \in Workers, Handler(w) PROVE UNCHANGED lease \/ Unlease(w)
  BY <1>4 DEF Handler, RetrieveSession, GrantPurchase, RefundUngrantable, RefundPayment,
     ListPending, DrainRow, LookUpDispute, RecordDispute, FindGrant, QueueReversal, Reverse,
     JudgeDispute, StoreStatus, RecallDispute, RememberWin, RecheckCharge, IgnoreWin,
     RestoreCredits, MarkRestored, Finish
<1>5. CASE Customers \/ Charging \/ PlanChanges \/ \E p \in Periods : PeriodPasses(p)
  BY <1>1, <1>5 DEF Customers, Charging, Pay, Repay, Contested, Ruled, Charge, PeriodPasses,
     PlanChanges
<1>6. ASSUME NEW w \in Workers, NEW c \in Charges,
             VisitSuccess(w, c) \/ Throw(w) \/ Crash(w)
      PROVE  UNCHANGED lease \/ Unlease(w)
  BY <1>6 DEF VisitSuccess, Throw, Crash
<1>7. ASSUME NEW w \in Workers, Throw(w) \/ Crash(w) PROVE UNCHANGED lease \/ Unlease(w)
  BY <1>7 DEF Throw, Crash
<1> QED BY <1>1, <1>2, <1>3, <1>4, <1>5, <1>6, <1>7 DEF Next, vars, Customers, Charging

-----------------------------------------------------------------------------
(* The balance moves by whole grants, or is spent.                         *)
Granted(c) ==
  /\ c \notin granted
  /\ granted' = granted \cup {c} /\ balance' = balance + Credits
  /\ UNCHANGED <<disputed, restored, refunded>>
Restored(d) ==
  /\ ChargeOf[d] \in disputed /\ d \notin restored
  /\ restored' = restored \cup {d} /\ balance' = balance + Credits
  /\ UNCHANGED <<granted, disputed, refunded>>
Spent(n) ==
  /\ n <= Floored(balance) /\ balance' = balance - n
  /\ UNCHANGED <<granted, disputed, restored, refunded>>

LedgerMoves ==
  \/ UNCHANGED ledger
  \/ \E c \in Charges : Granted(c)
  \/ \E c \in granted : Withdraw(c) \/ Return(c)
  \/ \E d \in Disputes : Restored(d)
  \/ \E n \in Nat : Spent(n)

LEMMA FreshOnes ==
  ASSUME NEW batch \in SUBSET Refs
  PROVE  IsFiniteSet(batch \ consumed) /\ Cardinality(batch \ consumed) \in Nat
BY ConstantsOK, FS_Subset, FS_CardinalityType

LEMMA LedgerStep ==
  ASSUME TypeOK, HandlersFounded, [Next]_vars
  PROVE  LedgerMoves
<1>1. CASE UNCHANGED ledger
  BY <1>1 DEF LedgerMoves
<1>2. CASE Charging
  <2>1. PICK batch \in (SUBSET Refs) \ {{}} : Charge(batch)
    BY <1>2 DEF Charging
  <2>2. PICK n \in Purchased(Cardinality(batch \ consumed)) : balance' = balance - n
    BY <2>1 DEF Charge
  <2>3. n \in Nat /\ n <= Floored(balance)
    BY <2>2, FreshOnes DEF Purchased
  <2> QED BY <2>1, <2>2, <2>3 DEF LedgerMoves, Spent, Charge
<1>3. ASSUME NEW w \in Workers, GrantPurchase(w) PROVE LedgerMoves
  <2>1. worker[w].event.of \in Charges
    BY <1>3, Kinds, TaskType DEF GrantPurchase, At, HandlersFounded, Founded, Comes, Purchase,
                                 TypeOK, WorkerOK
  <2> QED BY <1>3, <2>1 DEF GrantPurchase, LedgerMoves, Granted, ledger
<1>4. ASSUME NEW w \in Workers, DrainRow(w) PROVE LedgerMoves
  <2>1. /\ \A r \in worker[w].rows : r.of = Of(worker[w].event)
        /\ Of(worker[w].event) \in granted
    BY <1>4 DEF DrainRow, At, HandlersFounded, Founded
  <2>2. PICK r \in worker[w].rows : DrainEffect(r)
    BY <1>4 DEF DrainRow, Foremost
  <2> QED BY <2>1, <2>2 DEF DrainEffect, LedgerMoves
<1>5. ASSUME NEW w \in Workers, Reverse(w) PROVE LedgerMoves
  <2>1. Of(worker[w].event) \in granted
    BY <1>5 DEF Reverse, At, HandlersFounded, Founded
  <2> QED BY <1>5, <2>1 DEF Reverse, LedgerMoves
<1>6. ASSUME NEW w \in Workers, RestoreCredits(w) PROVE LedgerMoves
  <2>1. worker[w].event.of \in Disputes
    BY <1>6, Kinds, TaskType DEF RestoreCredits, At, HandlersFounded, Founded, Comes, Purchase,
                                 Recovery, TypeOK, WorkerOK
  <2> QED BY <1>6, <2>1 DEF RestoreCredits, Restorable, LedgerMoves, Restored, ledger
<1> QED BY <1>1, <1>2, <1>3, <1>4, <1>5, <1>6, Footprint DEF Writes

LEMMA PendingStep ==
  ASSUME TypeOK, HandlersFounded, Named(pending), [Next]_vars
  PROVE  /\ pending' \subseteq Owed /\ Named(pending')
         /\ \A r \in pending \ pending' : \E w \in Workers :
              /\ At(w, "drain") /\ r \in Foremost(worker[w].rows) /\ DrainEffect(r)
<1>1. CASE UNCHANGED pending
  BY <1>1 DEF TypeOK
<1>2. ASSUME NEW w \in Workers, QueueReversal(w)
      PROVE  /\ pending' \subseteq Owed /\ Named(pending')
             /\ pending \subseteq pending'
  <2> DEFINE row == Row(worker[w].event)
  <2>1. /\ worker[w].event \in Event
        /\ worker[w].event.kind \in {"refund", "dispute"}
    BY <1>2, TaskType DEF QueueReversal, At, HandlersFounded, Founded, Comes, Purchase, Recovery,
                          TypeOK, WorkerOK
  <2>2. row \in Owed /\ (row.reason = "dispute" => ChargeOf[row.by] = row.of)
    BY <2>1, Kinds DEF Row, Owed, Of
  <2>3. pending' \in {pending, pending \cup {row}}
    BY <1>2 DEF QueueReversal
  <2> QED BY <2>2, <2>3 DEF TypeOK, Named
<1>3. ASSUME NEW w \in Workers, DrainRow(w)
      PROVE  \E r \in Foremost(worker[w].rows) : DrainEffect(r) /\ pending' = pending \ {r}
  BY <1>3 DEF DrainRow, DeleteRow
<1>4. ASSUME NEW w \in Workers, DrainRow(w) PROVE At(w, "drain")
  BY <1>4 DEF DrainRow
<1> QED BY <1>1, <1>2, <1>3, <1>4, Footprint DEF Writes, TypeOK, Named

ReversalOK ==
  reversal \in [Disputes -> [status : Status, source : {"unknown", "credits"}]]

(* The row of one dispute is written, and "won" only where Stripe says so. *)
ReversalMoves ==
  \E d \in Disputes, row \in [status : Status, source : {"unknown", "credits"}] :
    /\ reversal' = [reversal EXCEPT ![d] = row]
    /\ row.status = "won" => contest[d] = "won" \/ reversal[d].status = "won"

LEMMA ReversalWrite ==
  ASSUME TypeOK, HandlersFounded, NEW w \in Workers, Writes(w, "reversal")
  PROVE  UNCHANGED reversal \/ ReversalMoves
<1>1. WorkerOK /\ ReversalOK
  BY DEF TypeOK, WorkerOK, ReversalOK
<1>2. ASSUME Busy(w), worker[w].at \in {"record", "status", "setwon", "ignore", "mark"}
      PROVE  worker[w].event.of \in Disputes
  BY <1>1, <1>2, TaskType, Kinds DEF HandlersFounded, Founded, Comes, Purchase, Recovery
<1>3. CASE RecordDispute(w)
  <2> DEFINE d == worker[w].event.of
             row == [reversal[d] EXCEPT !.status = "pending"]
  <2>1. d \in Disputes
    BY <1>2, <1>3 DEF RecordDispute, At
  <2>2. row \in [status : Status, source : {"unknown", "credits"}] /\ row.status # "won"
    BY <1>1, <2>1 DEF ReversalOK, Status
  <2>3. UNCHANGED reversal \/ reversal' = [reversal EXCEPT ![d] = row]
    BY <1>1, <1>3, <2>1 DEF RecordDispute, ReversalOK
  <2> QED BY <2>1, <2>2, <2>3 DEF ReversalMoves
<1>4. CASE DrainRow(w)
  <2>1. PICK r \in Foremost(worker[w].rows) : DrainEffect(r)
    BY <1>4 DEF DrainRow
  <2>2. r \in Owed /\ r.reason \in {"refund", "dispute"}
    BY <1>1, <1>4, TaskType DEF DrainRow, At, Foremost, Owed
  <2>3. CASE r.reason = "refund"
    BY <2>1, <2>3 DEF DrainEffect
  <2>4. CASE r.reason = "dispute"
    <3>1. r.by \in Disputes
      BY <2>2, <2>4 DEF Owed
    <3>2. PICK status \in {"reversed", "restored"} : reversal' = Judged(r.by, status)
      BY <2>1, <2>4 DEF DrainEffect
    <3> DEFINE row == [status |-> status, source |-> "credits"]
    <3>3. row \in [status : Status, source : {"unknown", "credits"}] /\ row.status # "won"
      BY <3>2 DEF Status
    <3>4. reversal' = [reversal EXCEPT ![r.by] = row]
      BY <3>2 DEF Judged
    <3> HIDE DEF row
    <3> QED BY <3>1, <3>3, <3>4 DEF ReversalMoves
  <2> QED BY <2>2, <2>3, <2>4
<1>5. CASE StoreStatus(w)
  <2>1. worker[w].event.of \in Disputes
    BY <1>2, <1>5 DEF StoreStatus, At
  <2>2. worker[w].status \in Status /\ worker[w].status # "won"
    BY <1>1, <1>5, TaskType DEF StoreStatus, At, HandlersFounded, Founded
  <2> DEFINE row == [status |-> worker[w].status, source |-> "credits"]
  <2>3. row \in [status : Status, source : {"unknown", "credits"}] /\ row.status # "won"
    BY <2>2
  <2>4. reversal' = [reversal EXCEPT ![worker[w].event.of] = row]
    BY <1>5 DEF StoreStatus, Judged
  <2> HIDE DEF row
  <2> QED BY <2>1, <2>3, <2>4 DEF ReversalMoves
<1>6. ASSUME RememberWin(w) \/ IgnoreWin(w) \/ MarkRestored(w) PROVE ReversalMoves
  <2> DEFINE d == worker[w].event.of
  <2>1. d \in Disputes
    BY <1>2, <1>6 DEF RememberWin, IgnoreWin, MarkRestored, At
  <2>2. PICK s \in {"won", "ignored", "restored"} :
          /\ reversal' = [reversal EXCEPT ![d].status = s]
          /\ s = "won" => contest[d] = "won"
    BY <1>6 DEF RememberWin, IgnoreWin, MarkRestored, At, HandlersFounded, Founded
  <2> DEFINE row == [reversal[d] EXCEPT !.status = s]
  <2>3. row \in [status : Status, source : {"unknown", "credits"}] /\ row.status = s
    BY <1>1, <2>1 DEF ReversalOK, Status
  <2> QED BY <2>1, <2>2, <2>3 DEF ReversalMoves
<1> QED BY <1>3, <1>4, <1>5, <1>6 DEF Writes

LEMMA ReversalStep ==
  ASSUME TypeOK, HandlersFounded, WonIsWon, [Next]_vars
  PROVE  ReversalOK' /\ WonIsWon'
<1>1. \A d \in Disputes : contest[d] = "won" => contest'[d] = "won"
  BY StripeStep DEF TypeOK, StripeOK
<1>2. CASE UNCHANGED reversal
  BY <1>1, <1>2 DEF TypeOK, ReversalOK, WonIsWon
<1>3. CASE ReversalMoves
  BY <1>1, <1>3 DEF TypeOK, ReversalOK, WonIsWon, ReversalMoves
<1> QED BY <1>2, <1>3, Footprint, ReversalWrite

-----------------------------------------------------------------------------
(* Metering.                                                               *)
LEMMA ChargeEffect ==
  ASSUME TypeOK, NEW batch \in (SUBSET Refs) \ {{}}, Charge(batch)
  PROVE  /\ consumed' = consumed \cup batch
         /\ used' \in [Periods -> 0..Included]
         /\ \E n \in 0..Cardinality(batch \ consumed) :
              /\ n <= Floored(balance) /\ balance' = balance - n
              /\ Debited = Cardinality(batch \ consumed) - n
<1> DEFINE owed == Cardinality(batch \ consumed)
<1>1. PICK f \in Allowances, n \in Purchased(owed) :
          /\ Total(f) = owed - n
          /\ used' = [p \in Periods |-> used[p] + f[p]]
          /\ balance' = balance - n
  BY DEF Charge
<1>2. \A p \in Periods : used[p] \in 0..Included /\ f[p] \in 0..Included /\ f[p] <= Included - used[p]
  BY <1>1 DEF TypeOK, Allowances, Room
<1>3. [p \in Periods |-> used'[p] - used[p]] = f
  BY <1>1, <1>2, ConstantsOK DEF Allowances
<1>4. used' \in [Periods -> 0..Included]
  BY <1>1, <1>2, ConstantsOK
<1>5. consumed' = consumed \cup batch
  BY DEF Charge
<1>6. n \in 0..owed /\ n <= Floored(balance)
  BY DEF Purchased
<1> HIDE DEF owed
<1>7. Debited = owed - n
  BY <1>1, <1>3 DEF Debited
<1> QED BY <1>1, <1>4, <1>5, <1>6, <1>7 DEF owed

LEMMA LedgerTypes ==
  ASSUME TypeOK, LedgerMoves
  PROVE  /\ granted' \subseteq Charges /\ disputed' \subseteq granted'
         /\ refunded' \subseteq granted' /\ restored' \subseteq Disputes /\ balance' \in Int
         /\ granted \subseteq granted' /\ disputed \subseteq disputed'
         /\ refunded \subseteq refunded'
BY ConstantsOK DEF TypeOK, LedgerMoves, ledger, Granted, Withdraw, Return, Restored, Spent, Floored

LEMMA MeteringTypes ==
  ASSUME TypeOK, [Next]_vars
  PROVE  consumed' \subseteq Refs /\ used' \in [Periods -> 0..Included]
<1>1. CASE UNCHANGED metering
  BY <1>1 DEF metering, TypeOK
<1>2. CASE Charging
  BY <1>2, ChargeEffect DEF Charging, TypeOK
<1> QED BY <1>1, <1>2, Footprint

LEMMA SettingTypes ==
  ASSUME TypeOK, [Next]_vars
  PROVE  /\ window' \in [Periods -> Window] /\ plan' \in Plan
         /\ changes' \in 0..MaxPlanChanges /\ faults' \in 0..MaxFaults
<1>1. faults' \in 0..MaxFaults
  BY ConstantsOK, Footprint DEF TypeOK
<1>2. CASE UNCHANGED setting
  BY <1>1, <1>2 DEF setting, TypeOK
<1>3. CASE PlanChanges
  BY <1>1, <1>3, ConstantsOK DEF PlanChanges, TypeOK, Plan
<1>4. CASE \E p \in Periods : PeriodPasses(p)
  BY <1>1, <1>4 DEF PeriodPasses, TypeOK, Window
<1> QED BY <1>2, <1>3, <1>4, Footprint

LEMMA TypeStep ==
  ASSUME TypeOK, HandlersFounded, WonIsWon, Named(pending), [Next]_vars
  PROVE  TypeOK'
<1>1. StripeOK /\ InboxOK /\ LeaseOK /\ WorkerOK /\ pending \subseteq Owed
  BY DEF TypeOK, StripeOK, InboxOK, LeaseOK, WorkerOK
<1>2. StripeOK' /\ InboxOK' /\ LeaseOK' /\ WorkerOK'
  BY <1>1, StripeStep, InboxStep, LeaseStep, WorkerStep
<1>3. pending' \subseteq Owed /\ ReversalOK'
  BY PendingStep, ReversalStep
<1> QED
  BY <1>2, <1>3, LedgerStep, LedgerTypes, MeteringTypes, SettingTypes
  DEF TypeOK, StripeOK, InboxOK, LeaseOK, WorkerOK, ReversalOK

-----------------------------------------------------------------------------
(* The debt.                                                               *)
LEMMA DebtArithmetic ==
  /\ \A n \in Nat : Credits * (n + 1) = Credits * n + Credits /\ Credits * n >= 0
                    /\ Credits * n \in Nat
  /\ \A n \in Nat \ {0} : Credits * (n - 1) = Credits * n - Credits
BY ConstantsOK

LEMMA DebtStep ==
  ASSUME TypeOK, IsFiniteSet(disputed), RestoredOnes, DebtBounded, LedgerMoves
  PROVE  IsFiniteSet(disputed)' /\ RestoredOnes' /\ DebtBounded'
<1> DEFINE n == Cardinality(Withdrawn)
<1>1. IsFiniteSet(disputed)' /\ RestoredOnes'
  BY FS_AddElement DEF LedgerMoves, ledger, Granted, Withdraw, Return, Restored, Spent,
                       RestoredOnes
<1>2. IsFiniteSet(Withdrawn) /\ n \in Nat
  BY FS_Subset, FS_CardinalityType DEF Withdrawn
<1>3. balance \in Int /\ Credits \in Nat \ {0} /\ balance >= -(Credits * n)
  BY ConstantsOK DEF TypeOK, DebtBounded
<1>4. /\ Credits * n \in Nat /\ Credits * (n + 1) = Credits * n + Credits
      /\ n # 0 => Credits * (n - 1) = Credits * n - Credits
  BY <1>2, DebtArithmetic
<1>5. ASSUME UNCHANGED ledger PROVE DebtBounded'
  BY <1>5 DEF ledger, DebtBounded, Withdrawn
<1>6. ASSUME NEW c \in Charges, Granted(c) PROVE DebtBounded'
  <2>1. Withdrawn' = Withdrawn /\ balance' = balance + Credits
    BY <1>6 DEF Granted, Withdrawn
  <2> QED BY <1>3, <1>4, <2>1 DEF DebtBounded
<1>7. ASSUME NEW c \in granted, Withdraw(c) PROVE DebtBounded'
  <2>1. CASE c \in disputed
    <3>1. disputed' = disputed /\ restored' = restored /\ balance' = balance
      BY <1>7, <2>1 DEF Withdraw
    <3> QED BY <3>1 DEF DebtBounded, Withdrawn
  <2>2. CASE c \notin disputed
    <3>1. Withdrawn' = Withdrawn \cup {c} /\ c \notin Withdrawn
      BY <1>7, <2>2 DEF Withdraw, Withdrawn, RestoredOnes
    <3>2. Cardinality(Withdrawn)' = n + 1
      BY <1>2, <3>1, FS_AddElement
    <3>3. balance' = balance - Credits
      BY <1>7, <2>2 DEF Withdraw
    <3> QED BY <1>3, <1>4, <3>2, <3>3 DEF DebtBounded
  <2> QED BY <2>1, <2>2
<1>8. ASSUME NEW c \in granted, Return(c) PROVE DebtBounded'
  <2>1. Withdrawn' = Withdrawn /\ (balance' = balance \/ balance' >= 0)
    BY <1>3, <1>8 DEF Return, Withdrawn, Floored
  <2>2. balance' \in Int
    BY <1>3, <1>8 DEF Return, Floored
  <2> QED BY <1>3, <1>4, <2>1, <2>2 DEF DebtBounded
<1>9. ASSUME NEW d \in Disputes, Restored(d) PROVE DebtBounded'
  <2>1. Withdrawn' = Withdrawn \ {ChargeOf[d]} /\ balance' = balance + Credits
    BY <1>9 DEF Restored, Withdrawn
  <2>2. CASE ChargeOf[d] \in Withdrawn
    <3>1. Cardinality(Withdrawn)' = n - 1 /\ n # 0
      BY <1>2, <2>1, <2>2, FS_RemoveElement, FS_EmptySet
    <3> QED BY <1>2, <1>3, <1>4, <2>1, <3>1 DEF DebtBounded
  <2>3. CASE ChargeOf[d] \notin Withdrawn
    <3>1. Withdrawn' = Withdrawn
      BY <2>1, <2>3
    <3>2. n' = n
      BY <3>1
    <3> HIDE DEF n
    <3> QED BY <1>3, <1>4, <2>1, <3>2 DEF DebtBounded, n
  <2> QED BY <2>2, <2>3
<1>10. ASSUME NEW k \in Nat, Spent(k) PROVE DebtBounded'
  <2>1. Withdrawn' = Withdrawn /\ balance' = balance - k /\ k <= Floored(balance)
    BY <1>10 DEF Spent, Withdrawn
  <2> QED BY <1>3, <1>4, <2>1 DEF DebtBounded, Floored
<1> QED BY <1>1, <1>5, <1>6, <1>7, <1>8, <1>9, <1>10 DEF LedgerMoves

-----------------------------------------------------------------------------
(* What was answered stays answered, and what a handler read stays true.   *)
LEMMA Grows ==
  ASSUME TypeOK, HandlersFounded, [Next]_vars
  PROVE  /\ granted \subseteq granted' /\ disputed \subseteq disputed'
         /\ refunded \subseteq refunded'
         /\ \A c \in Charges : /\ money[c] # "unpaid" => money'[c] # "unpaid"
                               /\ money[c] = "refunded" => money'[c] = "refunded"
                               /\ ~Quiet(c) => ~Quiet(c)'
         /\ \A d \in Disputes : contest[d] = "won" => contest'[d] = "won"
<1>1. StripeOK
  BY DEF TypeOK, StripeOK
<1>2. ASSUME NEW c \in Charges, ~Quiet(c) PROVE ~Quiet(c)'
  BY <1>1, <1>2, StripeStep DEF Quiet
<1> QED BY <1>1, <1>2, StripeStep, LedgerStep, LedgerTypes

LEMMA AnsweredStays ==
  ASSUME Inv, [Next]_vars, NEW e \in Event, Answered(e)
  PROVE  Answered(e)'
<1>1. /\ TypeOK /\ HandlersFounded /\ Named(pending) /\ WonIsWon
  BY DEF Inv
<1>2. ASSUME NEW r \in pending \ pending'
      PROVE  /\ r.reason = "refund" => r.of \in refunded'
             /\ r.reason = "dispute" => \/ r.of \in disputed'
                                        \/ contest[r.by] = "won" /\ ChargeOf[r.by] = r.of
  <2>1. DrainEffect(r)
    BY <1>1, PendingStep
  <2>2. r.reason = "dispute" => r.by \in Disputes /\ ChargeOf[r.by] = r.of
    BY <1>1 DEF TypeOK, Owed, Named
  <2> QED BY <1>1, <2>1, <2>2 DEF DrainEffect, Return, Withdraw, WonIsWon
<1>3. CASE e.kind = "checkout"
  BY <1>1, <1>3, Grows, Kinds DEF Answered
<1>4. CASE e.kind = "refund"
  BY <1>1, <1>2, <1>4, Grows DEF Answered
<1>5. CASE e.kind = "dispute"
  <2>1. e.of \in Disputes
    BY <1>5, Kinds
  <2>2. CASE \/ ChargeOf[e.of] \in disputed
             \/ \E d \in Disputes : ChargeOf[d] = ChargeOf[e.of] /\ contest[d] = "won"
    BY <1>1, <1>5, <2>1, <2>2, Grows DEF Answered
  <2>3. CASE \E r \in pending : r.reason = "dispute" /\ r.of = ChargeOf[e.of]
    <3>1. PICK r \in pending : r.reason = "dispute" /\ r.of = ChargeOf[e.of]
      BY <2>3
    <3>2. CASE r \in pending'
      BY <1>5, <3>1, <3>2 DEF Answered
    <3>3. CASE r \notin pending' /\ r.of \in disputed'
      BY <1>5, <3>1, <3>3 DEF Answered
    <3>4. CASE contest[r.by] = "won" /\ ChargeOf[r.by] = r.of
      <4>1. r.by \in Disputes /\ contest'[r.by] = "won"
        BY <1>1, <3>1, <3>4, Grows DEF TypeOK, Owed
      <4> QED BY <1>5, <3>1, <3>4, <4>1 DEF Answered
    <3> QED BY <1>2, <3>1, <3>2, <3>3, <3>4
  <2> QED BY <1>5, <2>2, <2>3 DEF Answered
<1> QED BY <1>3, <1>4, <1>5, Kinds DEF Answered

LEMMA FoundedStays ==
  ASSUME Inv, [Next]_vars, NEW w \in Workers, Busy(w), worker'[w] = worker[w]
  PROVE  Founded(worker[w])'
<1>1. TypeOK /\ HandlersFounded /\ WorkerOK /\ Founded(worker[w])
  BY DEF Inv, TypeOK, WorkerOK, HandlersFounded
<1>2. worker[w].event \in Event /\ Of(worker[w].event) \in Charges
  BY <1>1, TaskType, Kinds
<1>3. worker[w].at = "finish" => Answered(worker[w].event)'
  BY <1>1, <1>2, AnsweredStays DEF Founded
<1>4. /\ worker[w].event.kind = "checkout" => worker[w].event.of \in Charges
      /\ worker[w].at \in Recovery /\ worker[w].event.kind = "dispute"
           => worker[w].event.of \in Disputes
      /\ worker[w].at = "setwon" => worker[w].event.of \in Disputes
  BY <1>1, <1>2, Kinds DEF Founded, Comes, Purchase, Recovery
<1> QED BY <1>1, <1>2, <1>3, <1>4, Grows DEF Founded, Named, Of

(* The step a handler goes to is founded if what it read says so.          *)
LEMMA Lands ==
  ASSUME Inv, [Next]_vars, NEW w \in Workers, Busy(w), NEW t \in Task, worker'[w] = t,
         t.event = worker[w].event, t.status # "won",
         Named(t.rows), \A r \in t.rows : r.of = Of(t.event),
         t.event.kind \in Comes(t.at),
         t.at \in {"list", "drain", "reverse"} => Of(t.event) \in granted',
         t.at \in {"judge", "status"} => Of(t.event) \in disputed',
         t.at \in Recovery /\ t.event.kind = "dispute" => contest[t.event.of] = "won",
         t.at = "setwon" => contest[t.event.of] = "won",
         t.at = "finish" => Answered(t.event) \/ Answered(t.event)'
  PROVE  Founded(worker[w])'
<1>1. TypeOK /\ HandlersFounded /\ WorkerOK /\ Founded(worker[w])
  BY DEF Inv, TypeOK, WorkerOK, HandlersFounded
<1>2. t.event \in Event
  BY DEF Task
<1>3. t.at = "finish" => Answered(t.event)'
  BY <1>2, AnsweredStays
<1>4. t.event.kind = "checkout" => money'[t.event.of] # "unpaid"
  BY <1>1, <1>2, Grows, Kinds DEF Founded
<1>5. t.at \in Recovery /\ t.event.kind = "dispute" => contest'[t.event.of] = "won"
  BY <1>1, <1>2, Grows, Kinds
<1>6. t.at = "setwon" => contest'[t.event.of] = "won"
  BY <1>1, <1>2, Grows, Kinds DEF Comes, Purchase, Recovery
<1> QED BY <1>3, <1>4, <1>5, <1>6 DEF Founded, Named, Of

LEMMA GotoLands ==
  ASSUME Inv, [Next]_vars, NEW w \in Workers, Busy(w), NEW step \in Step, Goto(w, step),
         worker[w].event.kind \in Comes(step),
         step \in {"list", "drain", "reverse"} => Of(worker[w].event) \in granted',
         step \in {"judge", "status"} => Of(worker[w].event) \in disputed',
         step \in Recovery /\ worker[w].event.kind = "dispute"
           => contest[worker[w].event.of] = "won",
         step = "setwon" => contest[worker[w].event.of] = "won",
         step = "finish" => Answered(worker[w].event) \/ Answered(worker[w].event)'
  PROVE  Founded(worker[w])'
<1> DEFINE t == [worker[w] EXCEPT !.at = step]
<1>1. WorkerOK /\ worker[w] \in Task /\ Founded(worker[w])
  BY TaskType DEF Inv, TypeOK, WorkerOK, HandlersFounded
<1>2. /\ t \in Task /\ worker'[w] = t /\ t.at = step /\ t.event = worker[w].event
      /\ t.rows = worker[w].rows /\ t.status = worker[w].status
  BY <1>1 DEF Task, WorkerOK, Goto
<1>3. Named(t.rows) /\ (\A r \in t.rows : r.of = Of(t.event)) /\ t.status # "won"
  BY <1>1, <1>2 DEF Founded
<1> HIDE DEF t
<1> QED BY <1>2, <1>3, Lands

LEMMA PurchaseFounded ==
  ASSUME Inv, [Next]_vars, NEW w \in Workers, Busy(w)',
         \/ RetrieveSession(w) \/ GrantPurchase(w) \/ RefundUngrantable(w)
         \/ ListPending(w) \/ DrainRow(w)
  PROVE  Founded(worker[w])'
<1> DEFINE e == worker[w].event
<1>1. /\ Busy(w) /\ WorkerOK /\ Founded(worker[w]) /\ worker[w] \in Task /\ Named(pending)
      /\ e \in Event /\ e.kind = "checkout" /\ e.of \in Charges /\ Of(e) = e.of
  <2>1. Busy(w) /\ worker[w].at \in Purchase
    BY DEF RetrieveSession, GrantPurchase, RefundUngrantable, ListPending, DrainRow, At, Purchase
  <2>2. WorkerOK /\ Founded(worker[w]) /\ Named(pending)
    BY <2>1 DEF Inv, TypeOK, WorkerOK, HandlersFounded
  <2>3. worker[w] \in Task /\ e \in Event
    BY <2>1, <2>2, TaskType
  <2>4. e.kind = "checkout"
    BY <2>1, <2>2 DEF Founded, Comes
  <2>5. e.of \in Charges /\ Of(e) = e.of
    BY <2>3, <2>4, Kinds DEF Of
  <2> QED BY <2>1, <2>2, <2>3, <2>4, <2>5
<1>2. "checkout" \in Comes("grant") /\ "checkout" \in Comes("finish")
      /\ "checkout" \in Comes("refuse") /\ "checkout" \in Comes("list")
      /\ "checkout" \in Comes("drain")
  BY DEF Comes, Purchase, Recovery
<1>3. CASE RetrieveSession(w)
  <2>1. money[e.of] # "unpaid" /\ StripeOK
    BY <1>1 DEF Founded, Inv, TypeOK, StripeOK
  <2>2. CASE money[e.of] = "paid" /\ Quiet(e.of)
    BY <1>1, <1>2, <1>3, <2>2, GotoLands DEF RetrieveSession, Step, Recovery
  <2>3. CASE ~(money[e.of] = "paid" /\ Quiet(e.of))
    <3>1. Answered(e)
      BY <1>1, <2>1, <2>3 DEF StripeOK, Money, Answered
    <3> QED BY <1>1, <1>2, <1>3, <2>3, <3>1, GotoLands DEF RetrieveSession, Step, Recovery
  <2> QED BY <2>2, <2>3
<1>4. CASE GrantPurchase(w)
  <2>1. CASE e.of \in granted /\ Goto(w, "finish")
    <3>1. Answered(e)
      BY <1>1, <2>1 DEF Answered
    <3> QED BY <1>1, <1>2, <2>1, <3>1, GotoLands DEF Step, Recovery
  <2>2. CASE Goto(w, "refuse")
    BY <1>1, <1>2, <2>2, GotoLands DEF Step, Recovery
  <2>3. CASE granted' = granted \cup {e.of} /\ Goto(w, "list")
    BY <1>1, <1>2, <2>3, GotoLands DEF Step, Recovery
  <2> QED BY <1>4, <2>1, <2>2, <2>3 DEF GrantPurchase, Ungrantable
<1>5. CASE RefundUngrantable(w)
  <2>1. CASE Leave(w)
    BY <1>1, <2>1 DEF Leave, Busy, WorkerOK
  <2>2. CASE Goto(w, "finish") /\ money'[e.of] = "refunded"
    <3>1. worker'[w].event = e
      BY <1>1, <2>2 DEF Goto, WorkerOK, Task
    <3>2. Answered(e)'
      BY <1>1, <2>2, <3>1 DEF Answered
    <3> QED BY <1>1, <1>2, <2>2, <3>2, GotoLands DEF Step, Recovery
  <2> QED BY <1>1, <1>5, <2>1, <2>2 DEF RefundUngrantable, RefundPayment, Inv, TypeOK
<1>6. CASE ListPending(w)
  <2> DEFINE rows == {r \in pending : r.of = e.of}
             t == [worker[w] EXCEPT !.rows = rows,
                                    !.at = IF rows = {} THEN "finish" ELSE "drain"]
  <2>1. /\ t \in Task /\ worker'[w] = t /\ t.event = e /\ t.rows = rows
        /\ t.at \in {"finish", "drain"} /\ t.status = worker[w].status
    BY <1>1, <1>6 DEF ListPending, Task, WorkerOK, Step, Inv, TypeOK
  <2>2. Named(t.rows) /\ (\A r \in t.rows : r.of = Of(t.event)) /\ t.status # "won"
    BY <1>1, <2>1 DEF Founded, Named
  <2>3. e.of \in granted /\ e.of \in granted' /\ Answered(e)
    BY <1>1, <1>6 DEF ListPending, At, Founded, Answered, ledger
  <2> HIDE DEF t, rows
  <2> QED BY <1>1, <1>2, <2>1, <2>2, <2>3, Lands DEF Recovery
<1>7. CASE DrainRow(w)
  <2>1. PICK r \in Foremost(worker[w].rows) : worker' = [worker EXCEPT
               ![w].rows = @ \ {r},
               ![w].at = IF worker[w].rows = {r} THEN "finish" ELSE "drain"]
    BY <1>7 DEF DrainRow
  <2> DEFINE t == [worker[w] EXCEPT
               !.rows = @ \ {r},
               !.at = IF worker[w].rows = {r} THEN "finish" ELSE "drain"]
  <2>2. /\ t \in Task /\ worker'[w] = t /\ t.event = e /\ t.rows = worker[w].rows \ {r}
        /\ t.at \in {"finish", "drain"} /\ t.status = worker[w].status
    BY <1>1, <2>1 DEF Task, WorkerOK, Step
  <2>3. Named(t.rows) /\ (\A q \in t.rows : q.of = Of(t.event)) /\ t.status # "won"
    BY <1>1, <2>2 DEF Founded, Named
  <2>4. e.of \in granted /\ Answered(e)
    BY <1>1, <1>7 DEF DrainRow, At, Founded, Answered
  <2>5. e.of \in granted'
    BY <2>4, Grows DEF Inv
  <2> HIDE DEF t
  <2> QED BY <1>1, <1>2, <2>2, <2>3, <2>4, <2>5, Lands DEF Recovery
<1> QED BY <1>3, <1>4, <1>5, <1>6, <1>7

LEMMA ReversalFounded ==
  ASSUME Inv, [Next]_vars, NEW w \in Workers, Busy(w)',
         \/ LookUpDispute(w) \/ RecordDispute(w) \/ FindGrant(w) \/ QueueReversal(w)
         \/ Reverse(w) \/ JudgeDispute(w) \/ StoreStatus(w)
  PROVE  Founded(worker[w])'
<1> DEFINE e == worker[w].event
<1>1. /\ Busy(w) /\ WorkerOK /\ Founded(worker[w]) /\ worker[w] \in Task
      /\ e \in Event /\ e.kind \in {"refund", "dispute"} /\ Of(e) \in Charges
      /\ e.kind = "refund" => e.of \in Charges /\ Of(e) = e.of
      /\ e.kind = "dispute" => e.of \in Disputes /\ Of(e) = ChargeOf[e.of]
  <2>1. Busy(w) /\ worker[w].at \in {"lookup", "record", "find", "queue", "reverse",
                                   "judge", "status"}
    BY DEF LookUpDispute, RecordDispute, FindGrant, QueueReversal, Reverse, JudgeDispute,
       StoreStatus, At
  <2>2. WorkerOK /\ Founded(worker[w])
    BY <2>1 DEF Inv, TypeOK, WorkerOK, HandlersFounded
  <2>3. worker[w] \in Task /\ e \in Event
    BY <2>1, <2>2, TaskType
  <2>4. e.kind \in {"refund", "dispute"}
    BY <2>1, <2>2 DEF Founded, Comes, Purchase, Recovery
  <2>5. /\ Of(e) \in Charges
        /\ e.kind = "refund" => e.of \in Charges
        /\ e.kind = "dispute" => e.of \in Disputes
    BY <2>3, Kinds
  <2>6. /\ e.kind = "refund" => Of(e) = e.of
        /\ e.kind = "dispute" => Of(e) = ChargeOf[e.of]
    BY DEF Of
  <2> QED BY <2>1, <2>2, <2>3, <2>4, <2>5, <2>6
<1>2. /\ \A k \in {"refund", "dispute"} : k \in Comes("find") /\ k \in Comes("queue")
                                          /\ k \in Comes("reverse") /\ k \in Comes("finish")
      /\ \A step \in {"record", "recall", "judge", "status"} : "dispute" \in Comes(step)
  BY DEF Comes, Purchase, Recovery
<1>3. CASE LookUpDispute(w)
  <2>1. e.kind = "dispute"
    BY <1>3, <1>1 DEF LookUpDispute, At, Founded, Comes, Purchase, Recovery
  <2> QED BY <1>1, <1>2, <1>3, <2>1, GotoLands DEF LookUpDispute, Step, Recovery
<1>4. CASE RecordDispute(w)
  BY <1>1, <1>2, <1>4, GotoLands DEF RecordDispute, Step, Recovery
<1>5. CASE FindGrant(w)
  BY <1>1, <1>2, <1>5, GotoLands DEF FindGrant, Step, Recovery, ledger
<1>6. CASE QueueReversal(w)
  <2>1. \E r \in pending' : r.of = Of(e) /\ r.reason = e.kind
    <3> DEFINE row == Row(e)
    <3>1. row.of = Of(e) /\ row.reason = e.kind
      BY DEF Row
    <3>2. pending' = IF \E q \in pending : q.of = row.of /\ q.reason = row.reason
                       THEN pending ELSE pending \cup {row}
      BY <1>6 DEF QueueReversal
    <3> HIDE DEF row
    <3> QED BY <3>1, <3>2
  <2>2. worker'[w].event = e /\ Goto(w, "finish")
    BY <1>1, <1>6 DEF QueueReversal, Goto, WorkerOK, Task
  <2>3. Answered(e)'
    BY <1>1, <2>1, <2>2 DEF Answered
  <2> QED BY <1>1, <1>2, <2>2, <2>3, GotoLands DEF Step, Recovery
<1>7. CASE Reverse(w)
  <2>1. CASE e.kind = "refund"
    <3>1. e.of \in refunded' /\ Goto(w, "finish")
      BY <1>1, <1>7, <2>1 DEF Reverse, Return
    <3>2. worker'[w].event = e
      BY <1>1, <3>1 DEF Goto, WorkerOK, Task
    <3>3. Answered(e)'
      BY <2>1, <3>1, <3>2 DEF Answered
    <3> QED BY <1>1, <1>2, <3>1, <3>3, GotoLands DEF Step, Recovery
  <2>2. CASE e.kind = "dispute"
    <3> DEFINE t == [worker[w] EXCEPT
                 !.at = IF Of(e) \in disputed THEN "judge" ELSE "status",
                 !.status = "reversed"]
    <3>1. Of(e) \in disputed'
      BY <1>7, <2>2 DEF Reverse, Withdraw
    <3>2. /\ t \in Task /\ worker'[w] = t /\ t.event = e /\ t.rows = worker[w].rows
          /\ t.at \in {"judge", "status"} /\ t.status = "reversed"
      BY <1>1, <1>7, <2>2 DEF Reverse, Task, WorkerOK, Step, Status
    <3>3. Named(t.rows) /\ (\A r \in t.rows : r.of = Of(t.event)) /\ t.status # "won"
      BY <1>1, <3>2 DEF Founded
    <3> HIDE DEF t
    <3> QED BY <1>1, <1>2, <2>2, <3>1, <3>2, <3>3, Lands DEF Recovery
  <2> QED BY <1>1, <2>1, <2>2
<1>8. ASSUME JudgeDispute(w) \/ StoreStatus(w)
      PROVE  e.kind = "dispute" /\ Of(e) \in disputed /\ Of(e) \in disputed' /\ Answered(e)
  <2>1. e.kind = "dispute" /\ Of(e) \in disputed
    BY <1>1, <1>8 DEF JudgeDispute, StoreStatus, At, Founded, Comes, Purchase, Recovery
  <2> QED BY <1>1, <1>8, <2>1 DEF JudgeDispute, StoreStatus, ledger, Answered
<1>9. CASE JudgeDispute(w)
  <2> DEFINE verdict == IF Claimed(e.of) THEN "ignored" ELSE "reversed"
             t == [worker[w] EXCEPT !.at = "status", !.status = verdict]
  <2>1. /\ t \in Task /\ worker'[w] = t /\ t.event = e /\ t.rows = worker[w].rows
        /\ t.at = "status" /\ t.status \in {"ignored", "reversed"}
    BY <1>1, <1>9 DEF JudgeDispute, Task, WorkerOK, Step, Status
  <2>2. Named(t.rows) /\ (\A r \in t.rows : r.of = Of(t.event)) /\ t.status # "won"
    BY <1>1, <2>1 DEF Founded
  <2> HIDE DEF t
  <2> QED BY <1>1, <1>2, <1>8, <1>9, <2>1, <2>2, Lands DEF Recovery
<1>10. CASE StoreStatus(w)
  BY <1>1, <1>2, <1>8, <1>10, GotoLands DEF StoreStatus, Step, Recovery
<1> QED BY SMTT(60), <1>3, <1>4, <1>5, <1>6, <1>7, <1>9, <1>10

LEMMA RecoveryFounded ==
  ASSUME Inv, [Next]_vars, NEW w \in Workers, Busy(w)',
         \/ RecallDispute(w) \/ RememberWin(w) \/ RecheckCharge(w) \/ IgnoreWin(w)
         \/ RestoreCredits(w) \/ MarkRestored(w)
  PROVE  Founded(worker[w])'
<1> DEFINE e == worker[w].event
<1>1. /\ Busy(w) /\ WorkerOK /\ Founded(worker[w]) /\ worker[w] \in Task
      /\ worker[w].at \in Recovery
      /\ e \in Event /\ e.kind \in {"dispute", "closed"} /\ e.of \in Disputes
  <2>1. Busy(w) /\ worker[w].at \in Recovery
    BY DEF RecallDispute, RememberWin, RecheckCharge, IgnoreWin, RestoreCredits, MarkRestored,
       At, Recovery
  <2>2. WorkerOK /\ Founded(worker[w])
    BY <2>1 DEF Inv, TypeOK, WorkerOK, HandlersFounded
  <2>3. worker[w] \in Task /\ e \in Event
    BY <2>1, <2>2, TaskType
  <2>4. e.kind \in {"dispute", "closed"}
    BY <2>1, <2>2 DEF Founded, Comes, Purchase, Recovery
  <2>5. e.of \in Disputes
    BY <2>3, <2>4, Kinds
  <2> QED BY <2>1, <2>2, <2>3, <2>4, <2>5
<1>2. /\ \A step \in Recovery \cup {"finish"} : e.kind \in Comes(step)
      /\ e.kind = "dispute" => contest[e.of] = "won"
  BY <1>1 DEF Comes, Purchase, Recovery, Founded
<1>3. Answered(e)
  BY SMTT(60), <1>1, <1>2 DEF Answered
<1>4. PICK step \in Recovery \cup {"finish"} :
        Goto(w, step) /\ (step = "setwon" => contest[e.of] = "won")
  BY DEF RecallDispute, RememberWin, RecheckCharge, IgnoreWin, RestoreCredits, MarkRestored, Recovery
<1>5. /\ step \in Step /\ step \notin {"list", "drain", "reverse", "judge", "status"}
  BY <1>4 DEF Step, Recovery
<1> QED BY SMTT(60), <1>1, <1>2, <1>3, <1>4, <1>5, GotoLands

LEMMA HandlersStep ==
  ASSUME Inv, [Next]_vars
  PROVE  HandlersFounded'
<1> SUFFICES ASSUME NEW w \in Workers, Busy(w)' PROVE Founded(worker[w])'
  BY DEF HandlersFounded
<1> USE DEF Busy
<1>1. WorkerOK /\ StripeOK
  BY DEF Inv, TypeOK, WorkerOK, StripeOK
<1>2. CASE worker'[w] = worker[w]
  BY <1>2, FoundedStays
<1>3. ASSUME NEW e \in Event, NEW b \in BOOLEAN, Start(w, e, b),
             e.kind = "checkout" => money'[e.of] # "unpaid"
      PROVE  Founded(worker[w])'
  <2>1. worker'[w] = [at |-> Entry(e), event |-> e, inboxed |-> b, rows |-> {},
                      status |-> "absent"]
    BY <1>1, <1>3 DEF Start, WorkerOK
  <2>2. e.kind \in Comes(Entry(e)) /\ Entry(e) \in {"retrieve", "find", "lookup", "recall"}
        /\ (Entry(e) = "recall" => e.kind = "closed")
    BY Kinds DEF Entry, Comes, Purchase, Recovery
  <2> QED BY <1>3, <2>1, <2>2 DEF Founded, Named, Recovery
<1>4. ASSUME NEW v \in Workers, NEW e \in Event, ClaimEvent(v, e) PROVE Founded(worker[w])'
  <2>1. e.kind = "checkout" => money'[e.of] # "unpaid"
    BY <1>4, Kinds DEF ClaimEvent, Inv, SentIsPaid, stripe
  <2> QED BY <1>1, <1>2, <1>3, <1>4, <2>1 DEF ClaimEvent, Start, WorkerOK
<1>5. ASSUME NEW v \in Workers, NEW c \in Charges, VisitSuccess(v, c) PROVE Founded(worker[w])'
  BY <1>1, <1>2, <1>3, <1>5, Kinds DEF VisitSuccess, Start, WorkerOK, stripe
<1>6. ASSUME NEW v \in Workers, Throw(v) \/ Crash(v) \/ Finish(v) PROVE Founded(worker[w])'
  BY <1>1, <1>2, <1>6 DEF Throw, Crash, Finish, Leave, WorkerOK
<1>7. ASSUME NEW v \in Workers, Handler(v) PROVE Founded(worker[w])'
  <2>1. CASE v # w
    BY <1>1, <1>2, <1>7, <2>1 DEF Handler, RetrieveSession, GrantPurchase, RefundUngrantable,
       RefundPayment, ListPending, DrainRow, LookUpDispute, RecordDispute, FindGrant,
       QueueReversal, Reverse, JudgeDispute, StoreStatus, RecallDispute, RememberWin,
       RecheckCharge, IgnoreWin, RestoreCredits, MarkRestored, Finish, Goto, Leave, WorkerOK
  <2>2. CASE v = w
    BY <1>6, <1>7, <2>2, PurchaseFounded, ReversalFounded, RecoveryFounded DEF Handler
  <2> QED BY <2>1, <2>2
<1>8. CASE \/ Customers \/ Charging \/ PlanChanges \/ (\E p \in Periods : PeriodPasses(p))
           \/ UNCHANGED vars
  <2>1. UNCHANGED worker
    BY <1>8 DEF Customers, Charging, Pay, Repay, Contested, Ruled, Charge, PeriodPasses,
                PlanChanges, vars
  <2> QED BY <1>2, <2>1
<1> QED BY <1>4, <1>5, <1>6, <1>7, <1>8 DEF Next, Customers, Charging

-----------------------------------------------------------------------------
(* The invariant.                                                          *)
LEMMA InitInv == Init => Inv
<1> SUFFICES ASSUME Init PROVE Inv
  OBVIOUS
<1>1. TypeOK
  BY ConstantsOK DEF Init, TypeOK, Money, Contest, Delivery, Window, Plan, Status
<1>2. IsFiniteSet(disputed) /\ Cardinality(Withdrawn) = 0
  BY FS_EmptySet DEF Init, Withdrawn
<1>3. DebtBounded
  BY <1>2, DebtArithmetic, ConstantsOK DEF Init, DebtBounded
<1>4. HandlersFounded
  BY DEF Init, HandlersFounded, Busy
<1>5. SentIsPaid /\ AllAnswered /\ WonIsWon /\ Named(pending) /\ RestoredOnes
  BY Kinds DEF Init, SentIsPaid, AllAnswered, WonIsWon, Named, RestoredOnes
<1> QED BY <1>1, <1>2, <1>3, <1>4, <1>5 DEF Inv

LEMMA NextInv == Inv /\ [Next]_vars => Inv'
<1> SUFFICES ASSUME Inv, [Next]_vars PROVE Inv'
  OBVIOUS
<1>1. /\ TypeOK /\ HandlersFounded /\ WonIsWon /\ Named(pending) /\ SentIsPaid /\ AllAnswered
      /\ IsFiniteSet(disputed) /\ RestoredOnes /\ DebtBounded
      /\ StripeOK /\ InboxOK /\ WorkerOK
  BY DEF Inv, TypeOK, StripeOK, InboxOK, WorkerOK
<1>2. TypeOK' /\ WonIsWon' /\ Named(pending)'
  BY <1>1, TypeStep, ReversalStep, PendingStep
<1>3. IsFiniteSet(disputed)' /\ RestoredOnes' /\ DebtBounded'
  BY <1>1, LedgerStep, DebtStep
<1>4. SentIsPaid'
  <2> SUFFICES ASSUME NEW c \in Charges, inbox'[[kind |-> "checkout", of |-> c]] # "unsent"
               PROVE  money'[c] # "unpaid"
    BY DEF SentIsPaid
  <2> DEFINE e == [kind |-> "checkout", of |-> c]
  <2>1. e \in Event /\ e.kind = "checkout" /\ e.of = c
    BY Kinds
  <2>2. CASE inbox'[e] = inbox[e]
    BY <1>1, <2>2, StripeStep DEF SentIsPaid
  <2>3. CASE inbox'[e] = "sent" /\ money'[e.of] # "unpaid"
    BY <2>1, <2>3
  <2>4. CASE \E w \in Workers : At(w, "finish") /\ worker[w].event = e
    <3>1. money[c] # "unpaid"
      BY <1>1, <2>1, <2>4 DEF At, HandlersFounded, Founded
    <3> QED BY <1>1, <3>1, StripeStep
  <2> HIDE DEF e
  <2> QED BY <1>1, <2>1, <2>2, <2>3, <2>4, InboxStep
<1>5. AllAnswered'
  <2> SUFFICES ASSUME NEW e \in Event, inbox'[e] = "done" PROVE Answered(e)'
    BY DEF AllAnswered
  <2>1. CASE inbox[e] = "done"
    BY <1>1, <2>1, AnsweredStays DEF AllAnswered
  <2>2. CASE inbox[e] # "done"
    <3>1. PICK w \in Workers : At(w, "finish") /\ worker[w].event = e
      BY <1>1, <2>2, InboxStep
    <3>2. Answered(e)
      BY <1>1, <3>1 DEF At, HandlersFounded, Founded
    <3> QED BY <3>2, AnsweredStays
  <2> QED BY <2>1, <2>2
<1> QED BY <1>2, <1>3, <1>4, <1>5, HandlersStep DEF Inv

THEOREM Invariance == Spec => []Inv
<1>1. Init => Inv
  BY InitInv
<1>2. Inv /\ [Next]_vars => Inv'
  BY NextInv
<1> QED BY <1>1, <1>2, PTL DEF Spec

(* Every row and local variable keeps its type, through every order of     *)
(* events, crash and redelivery.                                           *)
THEOREM SpecImpliesTypeOK == Spec => []TypeOK
<1>1. Inv => TypeOK
  BY DEF Inv
<1> QED BY <1>1, Invariance, PTL

(* A debt never exceeds the grants of the disputes that are not settled,   *)
(* also where a charge is disputed twice (adjustedCreditBalance).          *)
THEOREM SpecImpliesDebtBounded == Spec => []DebtBounded
<1>1. Inv => DebtBounded
  BY DEF Inv
<1> QED BY <1>1, Invariance, PTL

(* However often a charge is disputed, whatever Stripe is told is done     *)
(* stays answered: the refund or the dispute is in the ledger or queued,   *)
(* or a dispute of the charge was won; the buyer has credits or money.     *)
THEOREM SpecImpliesEventsHonoured == Spec => []EventsHonoured
<1>1. Inv => EventsHonoured
  <2> SUFFICES ASSUME Inv PROVE EventsHonoured
    OBVIOUS
  <2>1. ObligationKept
    BY Kinds DEF Inv, AllAnswered, Answered, ObligationKept
  <2>2. PaidIsHonoured
    BY Kinds DEF Inv, AllAnswered, Answered, PaidIsHonoured
  <2> QED BY <2>1, <2>2 DEF EventsHonoured
<1> QED BY <1>1, Invariance, PTL

(* No buyer pays for nothing, also where a charge is disputed twice.       *)
THEOREM SpecImpliesPaidIsHonoured == Spec => []PaidIsHonoured
<1>1. Inv => PaidIsHonoured
  BY Kinds DEF Inv, AllAnswered, Answered, PaidIsHonoured
<1> QED BY <1>1, Invariance, PTL

(* Every step that charges comments charges each new one once, and takes   *)
(* exactly their number from the allowances and from a balance it never    *)
(* overdraws (consumeCreditsBulk).                                         *)
THEOREM SpecImpliesChargesExact == Spec => ChargesExact
<1> DEFINE Exact ==
      metering' # metering =>
       /\ consumed \subseteq consumed'
       /\ Cardinality(consumed') - Cardinality(consumed)
            = Debited + (balance - balance')
       /\ Debited >= 0 /\ balance' <= balance
       /\ balance' < balance => balance' >= 0
<1>1. Inv /\ [Next]_vars => [Exact]_vars
  <2> SUFFICES ASSUME Inv, [Next]_vars, metering' # metering PROVE Exact
    BY DEF Exact
  <2>1. PICK batch \in (SUBSET Refs) \ {{}} : Charge(batch)
    BY Footprint DEF Charging
  <2> DEFINE fresh == batch \ consumed
  <2>2. PICK n \in 0..Cardinality(fresh) :
           /\ n <= Floored(balance) /\ balance' = balance - n
           /\ Debited = Cardinality(fresh) - n
    BY <2>1, ChargeEffect DEF Inv
  <2>3. consumed' = consumed \cup fresh
    BY <2>1, ChargeEffect DEF Inv
  <2>4. /\ IsFiniteSet(consumed) /\ Cardinality(consumed) \in Nat
        /\ IsFiniteSet(fresh) /\ Cardinality(fresh) \in Nat
    BY ConstantsOK, FreshOnes, FS_Subset, FS_CardinalityType DEF Inv, TypeOK
  <2>5. Cardinality(consumed') = Cardinality(consumed) + Cardinality(fresh)
    <3>1. consumed \cap fresh = {} /\ Cardinality({}) = 0
      BY FS_EmptySet
    <3> HIDE DEF fresh
    <3>2. Cardinality(consumed \cup fresh)
            = Cardinality(consumed) + Cardinality(fresh) - Cardinality(consumed \cap fresh)
      BY <2>4, FS_Union
    <3>3. Cardinality(consumed \cap fresh) = 0
      BY <3>1
    <3>4. Cardinality(consumed \cup fresh) = Cardinality(consumed) + Cardinality(fresh)
      BY <2>4, <3>2, <3>3
    <3> QED BY <2>3, <3>4
  <2>6. balance \in Int
    BY DEF Inv, TypeOK
  <2> HIDE DEF fresh
  <2> QED BY <2>2, <2>3, <2>4, <2>5, <2>6 DEF Floored, Exact
<1>2. Spec => [][Exact]_vars
  BY <1>1, Invariance, PTL DEF Spec
<1> QED BY <1>2 DEF ChargesExact

-----------------------------------------------------------------------------
(* The refinement.                                                         *)
Standings == [c \in Charges |-> Standing(c)]

LEMMA PromiseStep ==
  ASSUME Inv, [Next]_vars
  PROVE  [Promise!Next]_Promise!vars
<1>1. /\ TypeOK /\ RestoredOnes /\ granted \subseteq Charges /\ disputed \subseteq granted
      /\ balance \in Int /\ Credits \in Nat \ {0}
  BY ConstantsOK DEF Inv, TypeOK
<1>2. Withdrawn \subseteq disputed
  BY DEF Withdrawn
<1>3. CASE UNCHANGED ledger
  <2>1. Standings' = Standings /\ refunded' = refunded /\ balance' = balance
        /\ restored' = restored
    BY <1>3 DEF ledger, Standings, Standing, Withdrawn
  <2> QED BY <2>1 DEF Promise!vars, Standings
<1>4. ASSUME NEW c \in Charges, Granted(c) PROVE Promise!Next
  <2>1. Withdrawn' = Withdrawn /\ c \notin disputed
    BY <1>1, <1>4 DEF Granted, Withdrawn
  <2>2. Standings' = [Standings EXCEPT ![c] = "granted"] /\ Standings[c] = "none"
    BY <1>4, <2>1 DEF Granted, Standings, Standing
  <2>3. Promise!Grant(c)
    BY <1>4, <2>2 DEF Promise!Grant, Promise!Passes, Granted, Standings
  <2> QED BY <2>3 DEF Promise!Next
<1>5. ASSUME NEW c \in granted, Withdraw(c) PROVE [Promise!Next]_Promise!vars
  <2>1. CASE c \in disputed
    <3>1. UNCHANGED ledger
      BY <1>5, <2>1 DEF Withdraw, ledger
    <3> QED BY <1>3, <3>1
  <2>2. CASE c \notin disputed
    <3>1. Withdrawn' = Withdrawn \cup {c}
      BY <1>1, <1>5, <2>2 DEF Withdraw, Withdrawn, RestoredOnes
    <3>2. Standings' = [Standings EXCEPT ![c] = "withdrawn"] /\ Standings[c] = "granted"
      BY <1>1, <1>5, <2>2, <3>1 DEF Withdraw, Standings, Standing
    <3>3. balance' = balance + (-Credits) /\ refunded' = refunded /\ restored' = restored
      BY <1>1, <1>5, <2>2 DEF Withdraw
    <3>4. Promise!Withdraw(c)
      BY <3>2, <3>3 DEF Promise!Withdraw, Promise!Passes, Standings
    <3> QED BY <1>1, <3>4 DEF Promise!Next
  <2> QED BY <2>1, <2>2
<1>6. ASSUME NEW c \in granted, Return(c) PROVE [Promise!Next]_Promise!vars
  <2>1. CASE c \in refunded
    <3>1. UNCHANGED ledger
      BY <1>6, <2>1 DEF Return, ledger
    <3> QED BY <1>3, <3>1
  <2>2. CASE c \notin refunded
    <3>1. Standings' = Standings /\ Standings[c] # "none"
      BY <1>1, <1>6 DEF Return, Standings, Standing, Withdrawn
    <3>2. balance' = IF balance > Credits THEN balance - Credits ELSE 0
      BY <1>1, <1>6, <2>2 DEF Return, Floored
    <3>3. Promise!Return(c)
      BY <1>6, <2>2, <3>1, <3>2 DEF Promise!Return, Return, Standings
    <3> QED BY <1>1, <3>3 DEF Promise!Next
  <2> QED BY <2>1, <2>2
<1>7. ASSUME NEW d \in Disputes, Restored(d) PROVE Promise!Next
  <2> DEFINE c == ChargeOf[d]
  <2>1. c \in Charges /\ c \in granted /\ c \in disputed
    BY <1>1, <1>7, ConstantsOK DEF Restored
  <2>2. Withdrawn' = Withdrawn \ {c}
    BY <1>7 DEF Restored, Withdrawn
  <2> HIDE DEF c
  <2>3. /\ Standings' = [Standings EXCEPT ![c] = "restored"]
        /\ Standings[c] \in {"withdrawn", "restored"}
    BY <1>7, <2>1, <2>2 DEF Restored, Standings, Standing
  <2> USE DEF c
  <2>4. Promise!GiveBack(d)
    BY <1>7, <2>3 DEF Promise!GiveBack, Restored, Standings
  <2> QED BY <2>4 DEF Promise!Next
<1>8. ASSUME NEW n \in Nat, Spent(n) PROVE [Promise!Next]_Promise!vars
  <2>1. Standings' = Standings /\ refunded' = refunded /\ restored' = restored
    BY <1>8 DEF Spent, Standings, Standing, Withdrawn
  <2>2. CASE n = 0
    <3>1. balance' = balance
      BY <1>1, <1>8, <2>2 DEF Spent
    <3> QED BY <2>1, <3>1 DEF Promise!vars, Standings
  <2>3. CASE n # 0
    <3>1. n \in 1..balance /\ balance' = balance - n
      BY <1>1, <1>8, <2>3 DEF Spent, Floored
    <3>2. Promise!Spend
      BY <2>1, <3>1 DEF Promise!Spend, Standings
    <3> QED BY <3>2 DEF Promise!Next
  <2> QED BY <2>2, <2>3
<1> QED BY <1>1, <1>3, <1>4, <1>5, <1>6, <1>7, <1>8, LedgerStep DEF LedgerMoves, Inv

(* The ledger implements its promise, however often a charge is disputed:  *)
(* every step grants, withdraws or takes the refund of a charge, each once *)
(* and by its amount, gives a withdrawal back once per dispute, spends, or *)
(* leaves the ledger alone.                                                *)
THEOREM SpecImpliesKeepsPromise == Spec => KeepsPromise
<1>1. Init => Promise!Init
  BY DEF Init, Promise!Init, Standing
<1>2. Inv /\ [Next]_vars => [Promise!Next]_Promise!vars
  BY PromiseStep
<1>3. Spec => Promise!Spec
  BY <1>1, <1>2, Invariance, PTL DEF Spec, Promise!Spec
<1> QED BY <1>3 DEF KeepsPromise
=============================================================================
