----------------------------- MODULE MercadoPago -----------------------------
(***************************************************************************)
(* Credits bought through Mercado Pago: the checkout of                    *)
(* mercadopago/checkout.ts, the payment lookup of client.ts, the webhook   *)
(* and the success page that process a payment (webhooks.ts).  There is no *)
(* inbox: Mercado Pago repeats a notification until it is answered with    *)
(* success, and every handler reads the payment as it stands by then, so   *)
(* handlers of one payment overlap and act on different states of it.      *)
(*                                                                         *)
(* One organisation and one bundle.  Amounts are none, a part or all of    *)
(* the price; a refund is either answered by a later consent of the owner  *)
(* or not, which is all that its time decides.                             *)
(***************************************************************************)
EXTENDS Naturals, FiniteSets

CONSTANTS Attempts,         \* checkouts
          Payments, Pays,   \* payments, and the checkout each one is for
          Handlers, None,
          MaxMoves,                    \* how often payments change: a bound
          MaxPlanChanges, MaxResumes   \* bounds on what the owner does

Notices == {"approved", "partial", "refunded", "charged_back"}

ConstantsOK ==
  /\ Pays \in [Payments -> Attempts] /\ None \notin Payments /\ None \notin Notices
  /\ MaxMoves \in Nat /\ MaxPlanChanges \in Nat /\ MaxResumes \in Nat

NoRefund == 0
Part == 1
All == 2

VARIABLES payment,   \* Mercado Pago: the payments
          due,       \* Mercado Pago: notifications not yet accepted
          attempt,   \* mercadopago_checkout_attempts
          granted, reversed,   \* anchors of credit_transactions
          sum,       \* organizations.credits_remaining, in bundles
          plan,      \* organizations.plan
          topup,     \* organizations.auto_topup_enabled
          answered,  \* what had been refunded when the owner last consented
          handler,
          accepted,  \* history: notifications answered with success
          moves, changes, resumes   \* totals

provider == <<payment, due, accepted, moves>>
books == <<granted, reversed, sum>>
owner == <<plan, topup, answered, changes, resumes>>
vars == <<provider, attempt, books, owner, handler>>

Unpaid == [status |-> "none", refunded |-> NoRefund]
Absent == [status |-> "none", open |-> FALSE, payment |-> None, refunded |-> NoRefund]
Idle == [at |-> "idle"]

Init ==
  /\ payment = [p \in Payments |-> Unpaid] /\ due = {} /\ accepted = {}
  /\ attempt = [a \in Attempts |-> Absent]
  /\ granted = {} /\ reversed = {} /\ sum = 0
  /\ plan = "metered" /\ topup = TRUE /\ answered = [p \in Payments |-> NoRefund]
  /\ handler = [h \in Handlers |-> Idle]
  /\ moves = 0 /\ changes = 0 /\ resumes = 0

-----------------------------------------------------------------------------
(* The checkout: the attempt is planted, then a preference is created under *)
(* the attempt's idempotency key and saved once.                           *)
Plant(a) ==
  /\ plan # "lifetime" /\ attempt[a].status = "none"
  /\ attempt' = [attempt EXCEPT ![a].status = "creating"]
  /\ UNCHANGED <<provider, books, owner, handler>>
SavePreference(a) ==
  /\ attempt[a].status # "none" /\ ~attempt[a].open
  /\ attempt' = [attempt EXCEPT ![a].status = "open", ![a].open = TRUE]
  /\ UNCHANGED <<provider, books, owner, handler>>

-----------------------------------------------------------------------------
(* Mercado Pago and the buyer, who may pay one preference twice. *)

Becomes(p, status, refunded, notice) ==
  /\ moves < MaxMoves /\ moves' = moves + 1
  /\ payment' = [payment EXCEPT ![p] = [status |-> status, refunded |-> refunded]]
  /\ due' = due \cup {<<p, notice>>}
  /\ UNCHANGED <<attempt, books, owner, handler, accepted>>
Approve(p) ==
  attempt[Pays[p]].open /\ payment[p] = Unpaid /\ Becomes(p, "approved", NoRefund, "approved")
RefundPart(p) ==
  payment[p] = [status |-> "approved", refunded |-> NoRefund] /\ Becomes(p, "approved", Part, "partial")
RefundAll(p) ==
  /\ payment[p].status \in {"approved", "charged_back"} /\ payment[p].refunded # All
  /\ Becomes(p, "refunded", All, "refunded")
ChargeBack(p) ==
  /\ payment[p].status \in {"approved", "refunded"} /\ <<p, "charged_back">> \notin due \cup accepted
  /\ Becomes(p, "charged_back", payment[p].refunded, "charged_back")

(* The owner. *)
PlanChanges ==
  /\ changes < MaxPlanChanges /\ changes' = changes + 1
  /\ plan' = IF plan = "lifetime" THEN "metered" ELSE "lifetime"
  /\ UNCHANGED <<provider, attempt, books, topup, answered, resumes, handler>>
Resume ==
  /\ ~topup /\ resumes < MaxResumes /\ resumes' = resumes + 1
  /\ topup' = TRUE /\ answered' = [p \in Payments |-> payment[p].refunded]
  /\ UNCHANGED <<provider, attempt, books, plan, changes, handler>>

-----------------------------------------------------------------------------
(* A handler: the webhook, or the success page (with no notification). *)

At(h, at) == handler[h].at = at
Go(h, at) == handler' = [handler EXCEPT ![h].at = at]
Leave(h) == handler' = [handler EXCEPT ![h] = Idle]
Accept(h) ==     \* the answer is a success
  /\ Leave(h)
  /\ due' = due \ {<<handler[h].of, handler[h].notice>>}
  /\ accepted' = accepted \cup ({<<handler[h].of, handler[h].notice>>} \cap due)
  /\ UNCHANGED <<payment, moves>>

(* retrievePayment. *)
Retrieve(h, p, notice) ==
  /\ handler[h] = Idle /\ payment[p] # Unpaid
  /\ handler' = [handler EXCEPT ![h] = [at |-> "read", of |-> p, notice |-> notice, seen |-> payment[p]]]
  /\ UNCHANGED <<provider, attempt, books, owner>>
Deliver(h) == \E n \in due : Retrieve(h, n[1], n[2])
VisitSuccess(h, a) ==
  /\ attempt[a].status \in {"creating", "open"} /\ attempt[a].payment # None
  /\ Retrieve(h, attempt[a].payment, None)

(* The attempt is read: one that another payment has is an error, which    *)
(* leaves the notification to be repeated.                                 *)
Row(h) == attempt[Pays[handler[h].of]]
Free(h) == Row(h).payment \in {None, handler[h].of}
Way(seen) ==
  CASE seen.status = "approved" /\ seen.refunded = NoRefund -> "fulfil"
    [] seen.status = "approved" /\ seen.refunded = Part -> "observe"
    [] OTHER -> "reverse"
ReadAttempt(h) ==
  /\ At(h, "read")
  /\ IF Free(h) THEN Go(h, Way(handler[h].seen)) ELSE Leave(h)
  /\ UNCHANGED <<provider, attempt, books, owner>>

Reversal == {"refunded", "disputed"}
Terminal == Reversal \cup {"manual_refund_required"}
Mark(h, status) ==
  attempt' = [attempt EXCEPT ![Pays[handler[h].of]].status = status,
                             ![Pays[handler[h].of]].payment = handler[h].of]

(* pauseForRefundBoundaries: a later consent stands. *)
PausedAfter(h) == topup /\ handler[h].seen.refunded <= answered[handler[h].of]
PauseForRefund(h) == topup' = PausedAfter(h)

(* fulfillMercadoPagoPayment: a part refunded is for a human to settle. *)
ObservePart(h) ==
  /\ At(h, "observe") /\ Leave(h)
  /\ IF Free(h) /\ Row(h).refunded < Part
       THEN /\ attempt' = [attempt EXCEPT ![Pays[handler[h].of]].refunded = Part,
                                          ![Pays[handler[h].of]].payment = handler[h].of]
            /\ PauseForRefund(h)
       ELSE UNCHANGED <<attempt, topup>>
  /\ UNCHANGED <<provider, books, plan, answered, changes, resumes>>

(* The claim of the row and the grant are one transaction. *)
ClaimableLoosely(h) == Free(h)                              \* a mutant
Claimable(h) == Free(h) /\ Row(h).refunded = NoRefund /\ Row(h).status \notin Terminal
Grant(h) ==
  LET p == handler[h].of
  IN /\ At(h, "fulfil") /\ Claimable(h) /\ (p \in granted \/ plan # "lifetime")
     /\ Mark(h, "fulfilled") /\ Accept(h)
     /\ granted' = granted \cup {p}
     /\ sum' = IF p \in granted THEN sum ELSE sum + 1
     /\ UNCHANGED <<reversed, owner>>
Ungrantable(h) ==
  /\ At(h, "fulfil") /\ Claimable(h) /\ handler[h].of \notin granted /\ plan = "lifetime"
  /\ Go(h, "manual") /\ UNCHANGED <<provider, attempt, books, owner>>
Overtaken(h) ==
  /\ At(h, "fulfil") /\ ~Claimable(h)
  /\ IF Row(h).payment = handler[h].of /\ Row(h).status \in Terminal
       THEN Accept(h) ELSE Leave(h) /\ UNCHANGED provider
  /\ UNCHANGED <<attempt, books, owner>>
(* The second transaction records what a human has to refund. *)
RecordNothing(h) ==                                         \* a mutant
  At(h, "manual") /\ Accept(h) /\ UNCHANGED <<attempt, books, owner>>
RecordManual(h) ==
  /\ At(h, "manual") /\ Accept(h)
  /\ IF Free(h) /\ Row(h).status \notin Terminal \cup {"fulfilled"}
       THEN Mark(h, "manual_refund_required") ELSE UNCHANGED attempt
  /\ UNCHANGED <<books, owner>>

(* reverseMercadoPagoPayment: one transaction, keyed on the payment. *)
StopTopup(h) ==
  IF handler[h].seen.status = "charged_back" THEN topup' = FALSE
  ELSE IF Row(h).refunded < All THEN PauseForRefund(h) ELSE UNCHANGED topup
TakenTwice(h) == handler[h].of \in granted                  \* a mutant
Taken(h) == handler[h].of \in granted \ reversed
Reverse(h) ==
  LET p == handler[h].of
      a == Pays[p]
      refund == handler[h].seen.status = "refunded"
  IN /\ At(h, "reverse") /\ Accept(h) /\ StopTopup(h)
     /\ reversed' = IF Taken(h) THEN reversed \cup {p} ELSE reversed
     /\ sum' = IF Taken(h) THEN sum - 1 ELSE sum
     /\ attempt' = IF ~Free(h) THEN attempt
          ELSE [attempt EXCEPT ![a].status = IF refund THEN "refunded" ELSE "disputed",
                               ![a].payment = p, ![a].refunded = IF refund THEN All ELSE @]
     /\ UNCHANGED <<granted, plan, answered, changes, resumes>>

(* A call fails or the process dies; the notification is repeated. *)
Crash(h) == handler[h] # Idle /\ Leave(h) /\ UNCHANGED <<provider, attempt, books, owner>>

Next ==
  \/ \E a \in Attempts : Plant(a) \/ SavePreference(a)
  \/ \E p \in Payments : Approve(p) \/ RefundPart(p) \/ RefundAll(p) \/ ChargeBack(p)
  \/ PlanChanges \/ Resume
  \/ \E h \in Handlers : \/ Deliver(h) \/ ReadAttempt(h) \/ ObservePart(h) \/ Grant(h) \/ Ungrantable(h)
                         \/ Overtaken(h) \/ RecordManual(h) \/ Reverse(h) \/ Crash(h)
                         \/ \E a \in Attempts : VisitSuccess(h, a)

Spec == Init /\ [][Next]_vars

-----------------------------------------------------------------------------
(* Properties. *)

(* A payment whose approval was accepted is granted, has gone back, or     *)
(* waits for a human who refunds it, in whatever state of the payment and  *)
(* of the plan its handlers met; a second payment of one checkout that     *)
(* lost the row to the first is left out.                                  *)
BuyerHonoured ==
  \A p \in Payments : <<p, "approved">> \in accepted =>
    \/ p \in granted
    \/ payment[p].status # "approved" \/ payment[p].refunded # NoRefund
    \/ attempt[Pays[p]].payment = p /\ attempt[Pays[p]].status = "manual_refund_required"
    \/ attempt[Pays[p]].payment \notin {None, p}

(* A payment that was charged back, refunded, or both, leaves no credits:  *)
(* they are taken once, and a grant that the reversal overtook is never    *)
(* made.                                                                   *)
ReversalsTaken ==
  /\ sum + Cardinality(reversed) = Cardinality(granted)
  /\ \A p \in Payments :
       <<p, "refunded">> \in accepted \/ <<p, "charged_back">> \in accepted => p \notin granted \ reversed

(* Once a refund is accepted that the owner has not answered with a new    *)
(* consent, automatic payments stay off (pauseForRefundBoundaries).        *)
ConsentDecides ==
  \A p \in Payments :
    (<<p, "refunded">> \in accepted /\ payment[p].refunded > answered[p]) => ~topup
=============================================================================
