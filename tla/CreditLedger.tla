---------------------------- MODULE CreditLedger ----------------------------
(***************************************************************************)
(* The credit ledger of one organisation and the Stripe webhooks that      *)
(* write it: billing/ledger.ts and the credit paths of stripe/webhooks.ts. *)
(*                                                                         *)
(* Stripe delivers each event until it is acknowledged, in any order; the  *)
(* handlers run concurrently, at the granularity of their awaits: one      *)
(* action per database transaction or Stripe call.  The success page runs  *)
(* the same fulfilment without the inbox.  A handler may throw (its claim  *)
(* is released and Stripe retries), die (its claim goes stale), or be      *)
(* overtaken after its lease.                                              *)
(*                                                                         *)
(* A charge stands for one paid Checkout session of a credit bundle, its   *)
(* PaymentIntent and its Charge; a ledger row is its UNIQUE anchor.        *)
(***************************************************************************)
EXTENDS Integers, FiniteSets, Functions

CONSTANTS Charges,      \* paid sessions for a bundle of credits
          Disputes,     \* disputes the customers may open
          ChargeOf,     \* the charge each dispute contests
          Workers,      \* handler invocations that may run at once
          NoOne,        \* no holder, no dispute
          Credits,      \* credits of the bundle
          Refs,         \* comments (with their scan) that may be charged
          Periods,      \* subscription periods, numbered by the end of each
          Included,     \* comments included in a period
          MaxPlanChanges, \* how often the plan may change: a bound
          MaxFaults     \* crashes, exceptions and overtaken leases: a bound

ASSUME ConstantsOK ==
  /\ Credits \in Nat \ {0} /\ Included \in Nat
  /\ MaxPlanChanges \in Nat /\ MaxFaults \in Nat
  /\ ChargeOf \in [Disputes -> Charges]
  /\ Periods \subseteq Nat /\ IsFiniteSet(Periods)
  /\ IsFiniteSet(Refs)
  /\ NoOne \notin Workers /\ NoOne \notin Disputes

VARIABLES money,      \* Stripe: the state of each payment
          contest,    \* Stripe: the state of each dispute
          inbox,      \* stripe_events, with what Stripe still has to deliver
          lease,      \* stripe_events.processing_lease_token
          worker,     \* the handlers that run
          granted, disputed, restored, refunded, \* anchors of credit_transactions
          consumed,   \* anchors of the 'consume' rows
          balance,    \* organizations.credits_remaining, NULL read as 0
          used,       \* stripe_subscription_periods.consumed_credits
          window,     \* where each period stands
          plan,       \* organizations.plan
          pending,    \* stripe_pending_reversals
          reversal,   \* stripe_dispute_reversals
          changes, faults

stripe == <<money, contest>>
ledger == <<granted, disputed, restored, refunded, balance>>
metering == <<consumed, used>>
setting == <<window, plan, changes>>
vars == <<stripe, inbox, lease, worker, ledger, metering, setting, pending,
          reversal, faults>>

Money == {"unpaid", "paid", "refunded"}
Contest == {"none", "open", "won", "lost"}
Event == [kind : {"checkout", "refund"}, of : Charges]
           \cup [kind : {"dispute", "closed"}, of : Disputes]
Delivery == {"unsent", "sent", "done"}
Step == {"retrieve", "grant", "refuse", "list", "drain",
         "lookup", "record", "find", "queue", "reverse", "judge", "status",
         "recall", "setwon", "recheck", "ignore", "restore", "mark", "finish"}
(* A queued reversal: one row per charge and reason. *)
Owed == [reason : {"refund"}, of : Charges, by : {NoOne}]
          \cup [reason : {"dispute"}, of : Charges, by : Disputes]
Status == {"absent", "pending", "reversed", "ignored", "won", "restored"}
Plan == {"metered", "lifetime"}
Window == {"ahead", "live", "over"}   \* paid only while live

Idle == [at |-> "idle"]
Task == [at : Step, event : Event, inboxed : BOOLEAN, rows : SUBSET Owed,
         status : Status]

Quiet(c) == {d \in Disputes : ChargeOf[d] = c /\ contest[d] # "none"} = {}
Of(e) == IF e.kind \in {"checkout", "refund"} THEN e.of ELSE ChargeOf[e.of]

Init ==
  /\ money = [c \in Charges |-> "unpaid"]
  /\ contest = [d \in Disputes |-> "none"]
  /\ inbox = [e \in Event |-> "unsent"]
  /\ lease = [e \in Event |-> NoOne]
  /\ worker = [w \in Workers |-> Idle]
  /\ granted = {} /\ disputed = {} /\ restored = {} /\ refunded = {}
  /\ consumed = {} /\ balance = 0
  /\ used = [p \in Periods |-> 0] /\ window = [p \in Periods |-> "ahead"]
  /\ plan = "metered"
  /\ pending = {}
  /\ reversal = [d \in Disputes |-> [status |-> "absent", source |-> "unknown"]]
  /\ changes = 0 /\ faults = 0

-----------------------------------------------------------------------------
(* Stripe and its customers. *)

Emit(e) == inbox' = [inbox EXCEPT ![e] = "sent"]

Pay(c) ==
  /\ money[c] = "unpaid"
  /\ money' = [money EXCEPT ![c] = "paid"]
  /\ Emit([kind |-> "checkout", of |-> c])
  /\ UNCHANGED <<contest, lease, worker, ledger, metering, setting, pending,
                 reversal, faults>>

(* A charge whose dispute is open or lost cannot be refunded any more.     *)
Refundable(c) ==
  /\ money[c] = "paid"
  /\ \A d \in Disputes : ChargeOf[d] = c => contest[d] \notin {"open", "lost"}

Repay(c) ==
  /\ Refundable(c)
  /\ money' = [money EXCEPT ![c] = "refunded"]
  /\ Emit([kind |-> "refund", of |-> c])
  /\ UNCHANGED <<contest, lease, worker, ledger, metering, setting, pending,
                 reversal, faults>>

Contested(d) ==
  /\ contest[d] = "none"
  /\ money[ChargeOf[d]] # "unpaid"
  /\ contest' = [contest EXCEPT ![d] = "open"]
  /\ Emit([kind |-> "dispute", of |-> d])
  /\ UNCHANGED <<money, lease, worker, ledger, metering, setting, pending,
                 reversal, faults>>

Ruled(d) ==
  /\ contest[d] = "open"
  /\ \E ruling \in {"won", "lost"} : contest' = [contest EXCEPT ![d] = ruling]
  /\ Emit([kind |-> "closed", of |-> d])
  /\ UNCHANGED <<money, lease, worker, ledger, metering, setting, pending,
                 reversal, faults>>

-----------------------------------------------------------------------------
(* The inbox. *)

Entry(e) ==
  CASE e.kind = "checkout" -> "retrieve"
    [] e.kind = "refund"   -> "find"
    [] e.kind = "dispute"  -> "lookup"
    [] e.kind = "closed"   -> "recall"

Start(w, e, inboxed) ==
  worker' = [worker EXCEPT ![w] =
    [at |-> Entry(e), event |-> e, inboxed |-> inboxed, rows |-> {},
     status |-> "absent"]]

Busy(w) == worker[w] # Idle
At(w, step) == Busy(w) /\ worker[w].at = step
Handles(w, e) == Busy(w) /\ worker[w].inboxed /\ worker[w].event = e

(* The lease of a handler that no longer runs has aged out; that of one    *)
(* that still runs is overtaken only when it outlives five minutes.        *)
\* Mutant: a lease is never considered stale.
ReclaimReleased(e) == lease[e] = NoOne
Reclaimable(e) ==
  \/ lease[e] = NoOne
  \/ lease[e] # NoOne /\ ~Handles(lease[e], e)

ClaimEvent(w, e) ==
  /\ ~Busy(w) /\ inbox[e] = "sent"
  /\ \/ Reclaimable(e) /\ UNCHANGED faults
     \/ ~Reclaimable(e) /\ faults < MaxFaults /\ faults' = faults + 1
  /\ lease' = [lease EXCEPT ![e] = w]
  /\ Start(w, e, TRUE)
  /\ UNCHANGED <<stripe, inbox, ledger, metering, setting, pending, reversal>>

(* The buyer returns to the success page, which fulfils without a claim.   *)
VisitSuccess(w, c) ==
  /\ ~Busy(w) /\ money[c] # "unpaid"
  /\ faults < MaxFaults /\ faults' = faults + 1
  /\ Start(w, [kind |-> "checkout", of |-> c], FALSE)
  /\ UNCHANGED <<stripe, inbox, lease, ledger, metering, setting, pending,
                 reversal>>

Goto(w, step) == worker' = [worker EXCEPT ![w].at = step]
Leave(w) == worker' = [worker EXCEPT ![w] = Idle]
HoldsLease(w) == worker[w].inboxed /\ lease[worker[w].event] = w

(* releaseEventClaim. *)
Unlease(w) ==
  lease' = IF HoldsLease(w) THEN [lease EXCEPT ![worker[w].event] = NoOne] ELSE lease

(* markEventProcessed: only the current lease completes the event. *)
Finish(w) ==
  /\ At(w, "finish")
  /\ IF HoldsLease(w)
       THEN inbox' = [inbox EXCEPT ![worker[w].event] = "done"]
       ELSE UNCHANGED inbox
  /\ Unlease(w) /\ Leave(w)
  /\ UNCHANGED <<stripe, ledger, metering, setting, pending, reversal, faults>>

(* A call fails: the claim is given back and Stripe delivers again. *)
Throw(w) ==
  /\ Busy(w) /\ faults < MaxFaults /\ faults' = faults + 1
  /\ Leave(w) /\ Unlease(w)
  /\ UNCHANGED <<stripe, inbox, ledger, metering, setting, pending, reversal>>

Crash(w) ==
  /\ Busy(w) /\ faults < MaxFaults /\ faults' = faults + 1
  /\ Leave(w)
  /\ UNCHANGED <<stripe, inbox, lease, ledger, metering, setting, pending,
                 reversal>>

-----------------------------------------------------------------------------
(* checkout.session.completed: fulfillCheckout for a bundle. *)

(* The charge's current state is read from Stripe before anything is       *)
(* granted: a disputed or refunded payment grants nothing any more.        *)
RetrieveSession(w) ==
  LET c == worker[w].event.of IN
  /\ At(w, "retrieve")
  /\ Goto(w, IF money[c] = "paid" /\ Quiet(c) THEN "grant" ELSE "finish")
  /\ UNCHANGED <<stripe, inbox, lease, ledger, metering, setting, pending,
                 reversal, faults>>

\* Mutant: a purchase that cannot be granted is only reported.
Reported == "finish"
(* A purchase on the lifetime plan is refunded. *)
Ungrantable == "refuse"

(* applyLedgerDelta: the anchor first, then the plan. *)
GrantPurchase(w) ==
  LET c == worker[w].event.of IN
  /\ At(w, "grant")
  /\ \/ /\ c \in granted
        /\ Goto(w, "finish")
        /\ UNCHANGED <<granted, balance>>
     \/ /\ c \notin granted /\ plan = "lifetime"
        /\ Goto(w, Ungrantable)
        /\ UNCHANGED <<granted, balance>>
     \/ /\ c \notin granted /\ plan # "lifetime"
        /\ granted' = granted \cup {c}
        /\ balance' = balance + Credits
        /\ Goto(w, "list")
  /\ UNCHANGED <<stripe, inbox, lease, disputed, restored, refunded, metering,
                 setting, pending, reversal, faults>>

(* refundUngrantablePayment: a repeated call of ours succeeds; Stripe      *)
(* refuses a charge that was refunded otherwise or is contested by now,    *)
(* and the delivery is retried.                                            *)
RefundPayment(w) ==
  LET c == worker[w].event.of IN
  \/ /\ Refundable(c)
     /\ money' = [money EXCEPT ![c] = "refunded"]
     /\ Emit([kind |-> "refund", of |-> c])
     /\ Goto(w, "finish")
     /\ UNCHANGED lease
  \/ /\ money[c] = "refunded"
     /\ Goto(w, "finish")
     /\ UNCHANGED <<money, inbox, lease>>
  \/ /\ ~Refundable(c)
     /\ Leave(w) /\ Unlease(w)
     /\ UNCHANGED <<money, inbox>>

(* refundUngrantableCheckout: the refund, and nothing stored of it here. *)
RefundUngrantable(w) ==
  /\ At(w, "refuse")
  /\ RefundPayment(w)
  /\ UNCHANGED <<contest, ledger, metering, setting, pending, reversal, faults>>

(* drainPendingReversals, first its read of the queued rows. *)
ListPending(w) ==
  LET rows == {r \in pending : r.of = worker[w].event.of} IN
  /\ At(w, "list")
  /\ worker' = [worker EXCEPT ![w].rows = rows,
                              ![w].at = IF rows = {} THEN "finish" ELSE "drain"]
  /\ UNCHANGED <<stripe, inbox, lease, ledger, metering, setting, pending,
                 reversal, faults>>

\* Mutant: the reversal of a refund is not floored.
Unfloored(amount) == amount
Floored(amount) == IF amount > 0 THEN amount ELSE 0

(* What a reversal of the charge does to the balance, once per anchor: a   *)
(* dispute withdraws the full grant, a refund never leaves a debt.         *)
\* Mutant: the anchor of the dispute is not asked for.
WithdrawAgain(c) ==
  /\ disputed' = disputed \cup {c}
  /\ balance' = balance - Credits
  /\ UNCHANGED <<granted, restored, refunded>>
Withdraw(c) ==
  /\ disputed' = disputed \cup {c}
  /\ balance' = IF c \in disputed THEN balance ELSE balance - Credits
  /\ UNCHANGED <<granted, restored, refunded>>
Return(c) ==
  /\ refunded' = refunded \cup {c}
  /\ balance' = IF c \in refunded THEN balance ELSE Floored(balance - Credits)
  /\ UNCHANGED <<granted, restored, disputed>>

Judged(d, status) == [reversal EXCEPT ![d] = [status |-> status, source |-> "credits"]]

(* The queued reversals of a charge, disputes first. *)
Foremost(rows) ==
  {r \in rows : r.reason = "refund" => \A q \in rows : q.reason = "refund"}

(* One transaction per row: the reversal, the dispute's row and the delete *)
(* of exactly this row.                                                    *)
DrainEffect(r) ==
  \/ /\ r.reason = "refund"
     /\ Return(r.of) /\ UNCHANGED reversal
  \/ /\ r.reason = "dispute" /\ reversal[r.by].status = "won"
     /\ reversal' = Judged(r.by, "restored")
     /\ UNCHANGED ledger
  \/ /\ r.reason = "dispute" /\ reversal[r.by].status # "won"
     /\ Withdraw(r.of)
     /\ reversal' = Judged(r.by, "reversed")

\* Mutant: the satisfied reversal is deleted by its charge.
DeleteCharge(r) == pending' = {q \in pending : q.of # r.of}
DeleteRow(r) == pending' = pending \ {r}

DrainRow(w) ==
  /\ At(w, "drain")
  /\ \E r \in Foremost(worker[w].rows) :
       /\ DrainEffect(r)
       /\ DeleteRow(r)
       /\ worker' = [worker EXCEPT
            ![w].rows = @ \ {r},
            ![w].at = IF worker[w].rows = {r} THEN "finish" ELSE "drain"]
  /\ UNCHANGED <<stripe, inbox, lease, metering, setting, faults>>

-----------------------------------------------------------------------------
(* charge.refunded and charge.dispute.created: reverseDispute, reverseCharge. *)

(* A dispute that is already won goes to the restore path. *)
\* Mutant: the state of the dispute is not looked at.
LookUpNothing(w) ==
  /\ At(w, "lookup")
  /\ Goto(w, "record")
  /\ UNCHANGED <<stripe, inbox, lease, ledger, metering, setting, pending,
                 reversal, faults>>
LookUpDispute(w) ==
  /\ At(w, "lookup")
  /\ Goto(w, IF contest[worker[w].event.of] = "won" THEN "recall" ELSE "record")
  /\ UNCHANGED <<stripe, inbox, lease, ledger, metering, setting, pending,
                 reversal, faults>>

RecordDispute(w) ==
  LET d == worker[w].event.of IN
  /\ At(w, "record")
  /\ reversal' = IF reversal[d].status = "absent"
                   THEN [reversal EXCEPT ![d].status = "pending"] ELSE reversal
  /\ Goto(w, "find")
  /\ UNCHANGED <<stripe, inbox, lease, ledger, metering, setting, pending, faults>>

(* findGrantForStripe, read on its own before anything is written. *)
FindGrant(w) ==
  /\ At(w, "find")
  /\ Goto(w, IF Of(worker[w].event) \in granted THEN "reverse" ELSE "queue")
  /\ UNCHANGED <<stripe, inbox, lease, ledger, metering, setting, pending,
                 reversal, faults>>

Row(e) == [reason |-> e.kind, of |-> Of(e),
           by |-> IF e.kind = "dispute" THEN e.of ELSE NoOne]

(* queuePendingReversal: an existing row keeps its dispute. *)
QueueReversal(w) ==
  LET row == Row(worker[w].event) IN
  /\ At(w, "queue")
  /\ pending' = IF \E q \in pending : q.of = row.of /\ q.reason = row.reason
                  THEN pending ELSE pending \cup {row}
  /\ Goto(w, "finish")
  /\ UNCHANGED <<stripe, inbox, lease, ledger, metering, setting, reversal, faults>>

Reverse(w) ==
  LET e == worker[w].event
      c == Of(e) IN
  /\ At(w, "reverse")
  /\ \/ /\ e.kind = "refund"
        /\ Return(c)
        /\ Goto(w, "finish")
     \/ /\ e.kind = "dispute"
        /\ Withdraw(c)
        /\ worker' = [worker EXCEPT
             ![w].at = IF c \in disputed THEN "judge" ELSE "status",
             ![w].status = "reversed"]
  /\ UNCHANGED <<stripe, inbox, lease, metering, setting, pending, reversal, faults>>

(* The anchor was there: the withdrawal is this dispute's own unless       *)
(* another dispute of the charge has claimed it.                           *)
Claimed(d) ==
  \E o \in Disputes \ {d} :
    /\ ChargeOf[o] = ChargeOf[d]
    /\ reversal[o].source = "credits"
    /\ reversal[o].status \in {"reversed", "restored"}

JudgeDispute(w) ==
  /\ At(w, "judge")
  /\ worker' = [worker EXCEPT ![w].at = "status",
       ![w].status = IF Claimed(worker[w].event.of) THEN "ignored" ELSE "reversed"]
  /\ UNCHANGED <<stripe, inbox, lease, ledger, metering, setting, pending,
                 reversal, faults>>

StoreStatus(w) ==
  /\ At(w, "status")
  /\ reversal' = Judged(worker[w].event.of, worker[w].status)
  /\ Goto(w, "finish")
  /\ UNCHANGED <<stripe, inbox, lease, ledger, metering, setting, pending, faults>>

-----------------------------------------------------------------------------
(* charge.dispute.closed: restoreWonDispute. *)

RecallDispute(w) ==
  LET d == worker[w].event.of IN
  /\ At(w, "recall")
  /\ Goto(w,
       IF contest[d] # "won" \/ reversal[d].status \in {"absent", "ignored", "restored"}
         THEN "finish"
       ELSE IF reversal[d].status = "pending" THEN "setwon"
       ELSE "recheck")
  /\ UNCHANGED <<stripe, inbox, lease, ledger, metering, setting, pending,
                 reversal, faults>>

RememberWin(w) ==
  /\ At(w, "setwon")
  /\ reversal' = [reversal EXCEPT ![worker[w].event.of].status = "won"]
  /\ Goto(w, "finish")
  /\ UNCHANGED <<stripe, inbox, lease, ledger, metering, setting, pending, faults>>

(* The charge is retrieved again: a refunded one is not restored, and a    *)
(* dispute whose source was never established has nothing to restore.      *)
RecheckCharge(w) ==
  LET d == worker[w].event.of IN
  /\ At(w, "recheck")
  /\ Goto(w, IF money[ChargeOf[d]] = "refunded" THEN "ignore"
             ELSE IF reversal[d].source = "credits" THEN "restore" ELSE "finish")
  /\ UNCHANGED <<stripe, inbox, lease, ledger, metering, setting, pending,
                 reversal, faults>>

IgnoreWin(w) ==
  /\ At(w, "ignore")
  /\ reversal' = [reversal EXCEPT ![worker[w].event.of].status = "ignored"]
  /\ Goto(w, "finish")
  /\ UNCHANGED <<stripe, inbox, lease, ledger, metering, setting, pending, faults>>

(* restoreDisputedCredits: nothing without the withdrawal, once per        *)
(* dispute, and closed without credits on the lifetime plan.               *)
Restorable(d) == ChargeOf[d] \in disputed

RestoreCredits(w) ==
  LET d == worker[w].event.of IN
  /\ At(w, "restore")
  /\ \/ /\ Restorable(d) /\ d \notin restored /\ plan # "lifetime"
        /\ restored' = restored \cup {d}
        /\ balance' = balance + Credits
        /\ Goto(w, "mark")
     \/ /\ Restorable(d) /\ (d \in restored \/ plan = "lifetime")
        /\ Goto(w, "mark")
        /\ UNCHANGED <<restored, balance>>
     \/ /\ ~Restorable(d)
        /\ Goto(w, "finish")
        /\ UNCHANGED <<restored, balance>>
  /\ UNCHANGED <<stripe, inbox, lease, granted, disputed, refunded, metering,
                 setting, pending, reversal, faults>>

MarkRestored(w) ==
  /\ At(w, "mark")
  /\ reversal' = [reversal EXCEPT ![worker[w].event.of].status = "restored"]
  /\ Goto(w, "finish")
  /\ UNCHANGED <<stripe, inbox, lease, ledger, metering, setting, pending, faults>>

-----------------------------------------------------------------------------
(* Charging comments: consumeCreditsBulk inside the staging of a scan or   *)
(* before a digest, both of which abort when a metered balance runs out.   *)

(* Metered: not on the lifetime plan, and subscribed or granted credits at *)
(* least once (credits_remaining is NULL before the first grant).          *)
Metered == plan # "lifetime" /\ (granted # {} \/ \E p \in Periods : window[p] # "ahead")

Live == {p \in Periods : window[p] = "live"}
Room(p) == Included - used[p]
Total(f) == FoldFunction(LAMBDA a, b : a + b, 0, f)

(* How charges may be funded from the live periods: the one that ends    *)
(* first is exhausted before the next one is touched.                      *)
Allowances ==
  {f \in [Periods -> 0..Included] :
     \A p \in Periods :
       /\ p \notin Live => f[p] = 0
       /\ f[p] <= Room(p)
       /\ f[p] > 0 => \A q \in Live : q < p => f[q] = Room(q)}

(* The purchased balance, if there is one, funds the remainder. *)
\* Mutant: one more credit than the balance holds may be spent.
PurchasedOver(owed) == {n \in 0..owed : n <= Floored(balance) + 1}
Purchased(owed) == {n \in 0..owed : n <= Floored(balance)}

Charge(batch) ==
  LET fresh == batch \ consumed IN
  /\ Metered
  /\ \E f \in Allowances, spent \in Purchased(Cardinality(fresh)) :
       /\ Total(f) = Cardinality(fresh) - spent
       /\ spent > 0 => \A p \in Live : f[p] = Room(p)
       /\ used' = [p \in Periods |-> used[p] + f[p]]
       /\ balance' = balance - spent
  /\ consumed' = consumed \cup fresh
  /\ UNCHANGED <<stripe, inbox, lease, worker, granted, disputed, restored,
                 refunded, setting, pending, reversal, faults>>

(* A period is paid and begins, or it ends or is refunded or disputed.     *)
PeriodPasses(p) ==
  /\ \/ window[p] = "ahead" /\ window' = [window EXCEPT ![p] = "live"]
     \/ window[p] = "live" /\ window' = [window EXCEPT ![p] = "over"]
  /\ UNCHANGED <<stripe, inbox, lease, worker, ledger, metering, plan, changes,
                 pending, reversal, faults>>

(* The organisation buys the lifetime plan, or loses it again. *)
PlanChanges ==
  /\ changes < MaxPlanChanges /\ changes' = changes + 1
  /\ plan' = IF plan = "lifetime" THEN "metered" ELSE "lifetime"
  /\ UNCHANGED <<stripe, inbox, lease, worker, ledger, metering, window,
                 pending, reversal, faults>>

-----------------------------------------------------------------------------
Handler(w) ==
  \/ RetrieveSession(w) \/ GrantPurchase(w) \/ RefundUngrantable(w)
  \/ ListPending(w) \/ DrainRow(w)
  \/ LookUpDispute(w) \/ RecordDispute(w) \/ FindGrant(w) \/ QueueReversal(w)
  \/ Reverse(w) \/ JudgeDispute(w) \/ StoreStatus(w)
  \/ RecallDispute(w) \/ RememberWin(w) \/ RecheckCharge(w) \/ IgnoreWin(w)
  \/ RestoreCredits(w) \/ MarkRestored(w)
  \/ Finish(w)

Next ==
  \/ \E c \in Charges : Pay(c) \/ Repay(c)
  \/ \E d \in Disputes : Contested(d) \/ Ruled(d)
  \/ \E w \in Workers : \/ \E e \in Event : ClaimEvent(w, e)
                        \/ \E c \in Charges : VisitSuccess(w, c)
                        \/ Handler(w) \/ Throw(w) \/ Crash(w)
  \/ \E batch \in (SUBSET Refs) \ {{}} : Charge(batch)
  \/ \E p \in Periods : PeriodPasses(p)
  \/ PlanChanges

Spec == Init /\ [][Next]_vars

(* A handler that runs is not stopped for ever, and Stripe delivers an     *)
(* event until it is acknowledged.                                         *)
Fairness ==
  /\ \A w \in Workers : WF_vars(Handler(w))
  /\ \A e \in Event : SF_vars(\E w \in Workers : ClaimEvent(w, e))

FairSpec == Spec /\ Fairness

-----------------------------------------------------------------------------
(* Types. *)

(* Every row and local variable keeps its type, and no period gives more   *)
(* comments than it includes.                                              *)
TypeOK ==
  /\ money \in [Charges -> Money] /\ contest \in [Disputes -> Contest]
  /\ inbox \in [Event -> Delivery] /\ lease \in [Event -> Workers \cup {NoOne}]
  /\ worker \in [Workers -> Task \cup {Idle}]
  /\ granted \subseteq Charges /\ disputed \subseteq granted
  /\ refunded \subseteq granted /\ restored \subseteq Disputes
  /\ consumed \subseteq Refs /\ balance \in Int
  /\ used \in [Periods -> 0..Included]
  /\ window \in [Periods -> Window] /\ plan \in Plan
  /\ pending \subseteq Owed
  /\ reversal \in [Disputes -> [status : Status, source : {"unknown", "credits"}]]
  /\ changes \in 0..MaxPlanChanges /\ faults \in 0..MaxFaults

(* Safety. *)

(* A debt is never larger than the grants of the disputes that are not     *)
(* settled: neither a refund, nor moderation, nor a reversal that is       *)
(* delivered twice drives an organisation below zero (adjustedCreditBalance, *)
(* consumePurchasedBalance).                                               *)
Withdrawn == {c \in disputed : \A d \in restored : ChargeOf[d] # c}
DebtBounded == balance >= -(Credits * Cardinality(Withdrawn))

(* Once Stripe is told that a refund or a dispute was handled, it is in    *)
(* the ledger or queued for the grant it overtook, through every crash and *)
(* redelivery; a dispute may instead have been won meanwhile, or another   *)
(* one of its charge whose queued row stands for both.                     *)
ObligationKept ==
  \A e \in Event : inbox[e] = "done" =>
    /\ e.kind = "refund" =>
         \/ e.of \in refunded
         \/ \E r \in pending : r.reason = "refund" /\ r.of = e.of
    /\ e.kind = "dispute" =>
         \/ ChargeOf[e.of] \in disputed
         \/ \E r \in pending : r.reason = "dispute" /\ r.of = ChargeOf[e.of]
         \/ \E d \in Disputes : ChargeOf[d] = ChargeOf[e.of] /\ contest[d] = "won"

(* A session whose completion is acknowledged has its credits, or its      *)
(* money went back or is contested: no buyer pays for nothing              *)
(* (fulfillCheckout, refundUngrantableCheckout).                           *)
PaidIsHonoured ==
  \A c \in Charges : inbox[[kind |-> "checkout", of |-> c]] = "done" =>
    c \in granted \/ money[c] = "refunded" \/ ~Quiet(c)

(* Whatever Stripe is told is done stays answered.                         *)
EventsHonoured == ObligationKept /\ PaidIsHonoured

(* When every event is handled and nothing failed on the way, the books    *)
(* agree with Stripe for each grant, in whatever order the events came: a  *)
(* refund was taken, an open or lost dispute is withdrawn, a won one is    *)
(* not.                                                                    *)
Settled == \A e \in Event : inbox[e] # "sent"
Still == \A w \in Workers : ~Busy(w)
AgreesOn(c) ==
  /\ money[c] = "refunded" => c \in refunded
  /\ \A d \in Disputes : ChargeOf[d] = c =>
       /\ contest[d] \in {"open", "lost"} => c \in Withdrawn
       /\ contest[d] = "won" => c \notin Withdrawn \/ money[c] = "refunded"
BooksMatchStripe ==
  Settled /\ Still /\ faults = 0 /\ changes = 0 => \A c \in granted : AgreesOn(c)

(* Every charge debits exactly one unit per new comment, from the          *)
(* allowance and then from a balance it never overdraws.                   *)
Debited == Total([p \in Periods |-> used'[p] - used[p]])
ChargesExact ==
  [][metering' # metering =>
       /\ consumed \subseteq consumed'
       /\ Cardinality(consumed') - Cardinality(consumed)
            = Debited + (balance - balance')
       /\ Debited >= 0 /\ balance' <= balance
       /\ balance' < balance => balance' >= 0]_vars

(* The ledger implements its promise. *)
Standing(c) ==
  IF c \notin granted THEN "none"
  ELSE IF c \notin disputed THEN "granted"
  ELSE IF c \in Withdrawn THEN "withdrawn" ELSE "restored"

Promise == INSTANCE LedgerSpec
             WITH standing <- [c \in Charges |-> Standing(c)],
                  given <- restored, returned <- refunded
KeepsPromise == Promise!Spec

(* Every event that Stripe sends is acknowledged in the end: a lease whose *)
(* handler died does not hold it back (claimEvent).                        *)
EventsSettle == <>[]Settled
=============================================================================
