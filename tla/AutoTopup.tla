----------------------------- MODULE AutoTopup -----------------------------
(***************************************************************************)
(* Automatic top-up of one organisation: billing/autotopup.ts, the         *)
(* recoveries of billing/autoTopupRecovery.ts, the refund pause of         *)
(* billing/ledger.ts, the settings of usage/+page.server.ts and the        *)
(* suspensions of stripe/webhooks.ts when the saved card changes (which    *)
(* card is charged is the matter of Cards).                                *)
(*                                                                         *)
(* A shortage of credits is answered by an attempt: its timestamp is the   *)
(* idempotency key of the payment, so an attempt has at most one payment   *)
(* and both have its number.  Runners step once per transaction or Stripe  *)
(* call and may be cut short.  The clock counts days: the cooldown, the    *)
(* daily cap, stale claims and the order of refunds, consents and payments *)
(* are days apart, and no runner lives to see the next one.                *)
(***************************************************************************)
EXTENDS Naturals, FiniteSets

CONSTANTS Runners,
          StaleAfter,    \* days after which a claim or an attempt is stale
          MaxAttempts, MaxDays, MaxActs, MaxFaults,
          MaxLoad        \* bounds, the last one of attempts, acts and faults together

Attempts == 1..MaxAttempts

ConstantsOK ==
  /\ StaleAfter \in Nat \ {0} /\ MaxAttempts \in Nat /\ MaxDays \in Nat \ {0}
  /\ MaxActs \in Nat /\ MaxFaults \in Nat /\ MaxLoad \in Nat

VARIABLES org,        \* organizations: the top-up columns and plan
          low,        \* the balance is below the threshold
          minted,     \* the day of each attempt
          pi,         \* Stripe: the payment of each attempt
          hook,       \* payment_intent.succeeded and payment_failed
          credit,     \* the ledger row of each payment
          recovery,   \* stripe_auto_topup_recoveries, and whether refundId is set
          runner, today, refunds, agreed, acts, faults,
          overlooked  \* for the record: the payments each refund passed by

stripe == <<pi, hook>>
vars == <<org, low, minted, stripe, credit, recovery, runner, today, refunds,
          agreed, overlooked, acts, faults>>

Unmade == [status |-> "none", day |-> 0, refunded |-> "no"]
Unrecovered == [status |-> "none", at |-> 0, asked |-> FALSE]
Never == [id |-> 0, day |-> 0]
Idle == [at |-> "idle", why |-> "none", n |-> 0, todo |-> {}, blocked |-> FALSE,
         seen |-> 0, outcome |-> "none"]

Init ==
  /\ org = [enabled |-> TRUE, state |-> "idle", attempt |-> 0, last |-> Never,
            submitted |-> FALSE, failures |-> 0, plan |-> "metered", consent |-> 1]
  /\ agreed = {1}
  /\ low = FALSE /\ minted = [n \in Attempts |-> 0]
  /\ pi = [n \in Attempts |-> Unmade] /\ hook = [n \in Attempts |-> "none"]
  /\ credit = [n \in Attempts |-> [status |-> "none", day |-> 0]]
  /\ recovery = [n \in Attempts |-> Unrecovered]
  /\ runner = [w \in Runners |-> Idle]
  /\ today = 1 /\ refunds = {} /\ overlooked = {} /\ acts = 0 /\ faults = 0

At(w, step) == runner[w].at = step
Go(w, step) == runner' = [runner EXCEPT ![w].at = step]
Rest(w) == runner' = [runner EXCEPT ![w] = Idle]
Start(w, step, why, n) ==
  /\ runner[w] = Idle
  /\ runner' = [runner EXCEPT ![w] = [Idle EXCEPT !.at = step, !.why = why, !.n = n]]
World == <<today, refunds, agreed, overlooked, acts, faults>>

Unused == {n \in Attempts : minted[n] = 0}
Room == acts + faults + Cardinality(Attempts \ Unused) < MaxLoad

-----------------------------------------------------------------------------
(* The recoveries. *)

(* findPausedTopup: a payment that a recovery protected is not paused.     *)
Paused(n) == recovery[n].status \in {"open", "done"}
Unresolved == \E n \in Attempts : recovery[n].status = "open"

(* recordPausedAttempt: only a new attempt that was never marked as        *)
(* submitted is known not to have reached Stripe.                          *)
Claimed == org.state = "in_flight" \/ org.attempt # 0
Attempt == IF org.attempt # 0 THEN org.attempt ELSE org.last.id
SentNever == FALSE
Sent == org.attempt = 0 \/ org.submitted
Recorded(day) ==
  IF Claimed /\ recovery[Attempt].status = "none"
    THEN [recovery EXCEPT ![Attempt].status = IF Sent THEN "open" ELSE "done", ![Attempt].at = day]
    ELSE recovery

(* pauseAutoTopupForRefund: a refund on a day reaches back to the grants   *)
(* since then and to recoveries that took it for later.                    *)
Reach(rows, day) ==
  [n \in Attempts |->
     CASE rows[n].status = "none" /\ credit[n].status # "none" /\ credit[n].day >= day ->
            [rows[n] EXCEPT !.status = "open", !.at = day]
       [] rows[n].at > day ->
            [rows[n] EXCEPT !.status = IF @ = "preserved" THEN "open" ELSE @, !.at = day]
       [] OTHER -> rows[n]]
Suspended == [org EXCEPT !.enabled = FALSE, !.state = "disabled",
                         !.attempt = 0, !.submitted = FALSE]
PauseForRefund(day) ==
  /\ IF org.consent <= day
       THEN org' = Suspended /\ recovery' = Reach(Recorded(day), day)
       ELSE org' = org /\ recovery' = Reach(recovery, day)

-----------------------------------------------------------------------------
(* Owners, customers, Stripe and the calendar. *)

Act == Room /\ acts < MaxActs /\ acts' = acts + 1
       /\ UNCHANGED <<low, minted, stripe, credit, runner, today, faults>>

Spend ==
  /\ ~low /\ low' = TRUE
  /\ UNCHANGED <<org, minted, stripe, credit, recovery, runner, World>>

(* The pause looks only at the claim, if no consent came since, the grants *)
(* and the recoveries: it passes by a payment made since the refund that   *)
(* is none of these.                                                       *)
PassedBy(n, day) ==
  /\ day < pi[n].day /\ credit[n].status = "none" /\ recovery[n].status = "none"
  /\ ~(org.consent <= day /\ Claimed /\ Attempt = n)

(* A refund of another charge of the organisation, heard of today. *)
Refund(day) ==
  /\ Act /\ PauseForRefund(day)
  /\ refunds' = refunds \cup {day}
  /\ overlooked' = overlooked \cup {<<n, day>> : n \in {k \in Attempts : PassedBy(k, day)}}
  /\ UNCHANGED agreed

(* setAutoTopup: applyAutoTopupEnable, disableAutoTopup.  Consent is dated *)
(* when top-up is turned on, or when another bundle replaces one that is   *)
(* no longer offered, which waits until no attempt is unresolved; the      *)
(* claim is reset when top-up is turned on or was disabled by failures.    *)
(* Within a day consents precede refunds and refunds precede payments: a   *)
(* bound.                                                                  *)
Morning == today \notin refunds /\ \A n \in Attempts : pi[n].day # today
Enable ==
  /\ Morning
  /\ Act /\ org.plan = "metered" /\ ~Unresolved
  /\ \E consents \in BOOLEAN :
       /\ consents => ~org.enabled \/ ~Claimed
       /\ ~consents => org.enabled /\ org.state = "disabled"
       /\ LET kept == [org EXCEPT !.enabled = TRUE,
                                  !.consent = IF consents THEN today ELSE @]
          IN org' = IF org.enabled /\ org.state # "disabled" THEN kept
                    ELSE [kept EXCEPT !.state = "idle", !.failures = 0, !.attempt = 0,
                                      !.submitted = FALSE]
       /\ agreed' = agreed \cup IF consents THEN {today} ELSE {}
  /\ UNCHANGED <<recovery, refunds, overlooked>>
Disable ==
  /\ Act /\ org.enabled
  /\ recovery' = Recorded(0)
  /\ org' = [org EXCEPT !.enabled = FALSE, !.state = "disabled",
       !.attempt = 0, !.submitted = FALSE]
  /\ UNCHANGED <<agreed, refunds, overlooked>>

(* handleCustomerUpdated, applySubscriptionDefaultPm: one statement. *)
ChangeCard ==
  /\ Act /\ org.enabled
  /\ org' = [org EXCEPT !.enabled = FALSE, !.state = "disabled"]
  /\ UNCHANGED <<recovery, agreed, refunds, overlooked>>

(* claimLifetimeSlot. *)
Upgrade ==
  /\ Act /\ org.plan = "metered"
  /\ org' = [org EXCEPT !.plan = "lifetime", !.enabled = FALSE, !.state = "idle"]
  /\ UNCHANGED <<recovery, agreed, refunds, overlooked>>

Tick ==
  /\ today < MaxDays /\ \A w \in Runners : runner[w] = Idle
  /\ today' = today + 1
  /\ UNCHANGED <<org, low, minted, stripe, credit, recovery, runner, refunds, agreed, overlooked, acts, faults>>

Settle(n) ==
  /\ pi[n].status = "processing"
  /\ \E s \in {"succeeded", "dead"} : pi' = [pi EXCEPT ![n].status = s]
  /\ hook' = [hook EXCEPT ![n] = "sent"]
  /\ UNCHANGED <<org, low, minted, credit, recovery, runner, World>>

(* A refund that was pending ends; that it failed is told to a human.      *)
SettleRefund(n) ==
  /\ pi[n].refunded = "pending"
  /\ \E s \in {"yes", "failed"} : pi' = [pi EXCEPT ![n].refunded = s]
  /\ UNCHANGED <<org, low, minted, hook, credit, recovery, runner, World>>

-----------------------------------------------------------------------------
(* maybeTriggerAutoTopUp. *)

Step == UNCHANGED World
Books == <<low, credit, recovery>>

Eligible ==
  /\ org.plan = "metered" /\ org.enabled /\ low /\ org.state = "idle"
  /\ org.last.day # today
Look(w) ==
  /\ Eligible
  /\ Start(w, IF org.attempt # 0 THEN "list" ELSE "caps", "charge", 0)
  /\ UNCHANGED <<org, minted, stripe, Books>> /\ Step

(* reconcileAutoTopup: one list of the customer's payments. *)
Moving(why) == IF why = "charge" THEN {"processing"} ELSE {"processing", "dead"}
List(w) ==
  /\ At(w, "list")
  /\ runner' = [runner EXCEPT ![w].at = "next",
       ![w].todo = {n \in Attempts : pi[n].status = "succeeded"},
       ![w].blocked = \E n \in Attempts : pi[n].status \in Moving(runner[w].why)]
  /\ UNCHANGED <<org, minted, stripe, Books>> /\ Step

(* What a runner does once no listed payment is left.                      *)
Done(w) == At(w, "next") /\ runner[w].todo = {}
Close(w) ==
  /\ Done(w) /\ runner[w].why = "hook"
  /\ hook' = [hook EXCEPT ![runner[w].n] = "done"]
  /\ Rest(w)
  /\ UNCHANGED <<org, minted, pi, Books>> /\ Step
Clear(w) ==
  /\ Done(w) /\ runner[w].why = "clear"
  /\ org' = IF org.plan = "lifetime" /\ ~runner[w].blocked
              THEN [org EXCEPT !.enabled = FALSE, !.state = "idle", !.last = Never]
              ELSE org
  /\ Rest(w)
  /\ UNCHANGED <<minted, stripe, Books>> /\ Step

(* topupCountsSince, rateLimited: one top-up a day. *)
Capped == \E n \in Attempts : credit[n].day = today
Cap(w) ==
  /\ At(w, "caps") \/ (Done(w) /\ runner[w].why = "charge")
  /\ IF runner[w].blocked \/ Capped THEN Rest(w) ELSE Go(w, "claim")
  /\ UNCHANGED <<org, minted, stripe, Books>> /\ Step

(* The atomic claim: eligibility again, and the attempt of before unless   *)
(* it is stale.                                                            *)
Claimable == org.state = "idle" /\ org.enabled /\ org.plan = "metered" /\ low
Stale(day) == day + StaleAfter < today
Mints == org.attempt = 0 \/ Stale(minted[org.attempt])
Claim(w) ==
  /\ At(w, "claim")
  /\ \/ ~Claimable /\ Rest(w) /\ UNCHANGED <<org, minted>>
     \/ /\ Claimable /\ (Mints => Unused # {} /\ Room)
        /\ LET n == IF Mints THEN CHOOSE k \in Unused : \A j \in Unused : k <= j
                    ELSE org.attempt IN
           /\ minted' = IF Mints THEN [minted EXCEPT ![n] = today] ELSE minted
           /\ org' = [org EXCEPT !.state = "in_flight", !.attempt = n,
                !.last = [id |-> n, day |-> IF Mints THEN today ELSE minted[n]],
                !.submitted = ~Mints /\ org.submitted]
           /\ runner' = [runner EXCEPT ![w].at = "submit", ![w].n = n]
  /\ UNCHANGED <<stripe, Books>> /\ Step

Mine(w) == org.state = "in_flight" /\ org.attempt = runner[w].n
(* The mark that the payment may exist precedes the call to Stripe. *)
MayCharge(w) == Mine(w) /\ org.enabled
Submit(w) ==
  /\ At(w, "submit")
  /\ \/ /\ MayCharge(w)
        /\ org' = [org EXCEPT !.submitted = TRUE]
        /\ Go(w, "create")
     \/ /\ ~MayCharge(w)
        /\ org' = IF Mine(w) THEN [org EXCEPT !.state = "idle"] ELSE org
        /\ Rest(w)
  /\ UNCHANGED <<minted, stripe, Books>> /\ Step

Released(w) == IF Mine(w) THEN [org EXCEPT !.state = "idle", !.last = Never] ELSE org
(* recordAutoTopupFailure: two declines in a row disable, or one that asks *)
(* for authentication.                                                     *)
Declined ==
  IF org.state # "in_flight" THEN {org}
  ELSE {[org EXCEPT !.state = s, !.failures = @ + 1, !.last = [id |-> 0, day |-> today],
                    !.attempt = 0, !.submitted = FALSE] :
          s \in {"disabled"} \cup IF org.failures + 1 >= 2 THEN {} ELSE {"idle"}}

(* paymentIntents.create under the attempt's key: a payment that exists is *)
(* returned; an outage hides whether it was made.  The code relies on      *)
(* Stripe to announce no failure that it returned from this call, and the  *)
(* answer to a key is the first one, whatever became of the payment since. *)
Create(w) ==
  LET n == runner[w].n IN
  /\ At(w, "create")
  /\ \E s \in {"processing", "succeeded", "dead"} :
       pi' = IF pi[n].status = "none"
               THEN [pi EXCEPT ![n].status = s, ![n].day = today]
               ELSE pi
  /\ hook' = [hook EXCEPT ![n] =
                IF pi[n].status = "none" /\ pi'[n].status = "succeeded" THEN "sent" ELSE @]
  /\ Go(w, IF pi'[n].status = "dead" /\ hook[n] = "none" THEN "decline" ELSE "check")
  /\ UNCHANGED <<org, minted, Books>> /\ Step
(* A request that Stripe calls invalid surely made no payment: its attempt *)
(* is over.                                                                *)
Outage(w) ==
  LET n == runner[w].n IN
  /\ At(w, "create") /\ Room /\ faults < MaxFaults /\ faults' = faults + 1
  /\ \/ org' = Released(w) /\ UNCHANGED stripe
     \/ /\ pi[n].status = "none" /\ org' = Released(w)
        /\ pi' = [pi EXCEPT ![n].status = "processing", ![n].day = today]
        /\ UNCHANGED hook
     \/ /\ pi[n].status = "none" /\ UNCHANGED stripe
        /\ org' = IF Mine(w) THEN [Released(w) EXCEPT !.attempt = 0, !.submitted = FALSE] ELSE org
  /\ Rest(w)
  /\ UNCHANGED <<minted, Books, today, refunds, agreed, overlooked, acts>>
Decline(w) ==
  /\ At(w, "decline")
  /\ org' \in Declined /\ Rest(w)
  /\ UNCHANGED <<minted, stripe, Books>> /\ Step
Check(w) ==
  /\ At(w, "check")
  /\ IF Paused(runner[w].n)
       THEN runner' = [runner EXCEPT ![w].at = "recover", ![w].why = "sweep"]
       ELSE Rest(w)
  /\ UNCHANGED <<org, minted, stripe, Books>> /\ Step

-----------------------------------------------------------------------------
(* Webhooks and grants. *)

Webhook(w) ==
  /\ \E n \in Attempts :
       /\ pi[n].status = "succeeded" /\ hook[n] = "sent"
       /\ Start(w, "grant", "hook", n)
  /\ UNCHANGED <<org, minted, stripe, Books>> /\ Step

(* handleAutoTopupFailure: a payment made more than a minute from the last *)
(* attempt is ignored; two instants of a day may be that far apart.        *)
FailureHook(n) ==
  /\ pi[n].status = "dead" /\ hook[n] = "sent"
  /\ hook' = [hook EXCEPT ![n] = "done"]
  /\ \/ (org.last = Never \/ org.last.day = pi[n].day) /\ org' \in Declined
     \/ org.last # Never /\ UNCHANGED org
  /\ UNCHANGED <<low, minted, pi, credit, recovery, runner, World>>

(* releaseClaimForPi: the claim of a payment's own attempt. *)
Cleared == [org EXCEPT !.state = IF @ = "disabled" THEN "disabled" ELSE "idle",
                   !.failures = 0, !.attempt = 0, !.submitted = FALSE]
Freed(n, states) == IF org.last.id = n /\ org.state \in states THEN Cleared ELSE org
(* grantTopupInTransaction: a row dedupes, a recovery defers, a lifetime   *)
(* plan refuses; the grant also ends an attempt that is not in flight,     *)
(* whichever payment was granted.                                          *)
Ended(n) == \/ org.last.id = n \/ org.state = "idle"
            \/ org.state = "in_flight" /\ org.last = Never
Granting(w, n) == \/ At(w, "grant") /\ n = runner[w].n
                  \/ At(w, "next") /\ n \in runner[w].todo
Then(w, n, step) ==
  runner' = [runner EXCEPT ![w].at = step, ![w].n = n, ![w].todo = @ \ {n}]
Grant(w, n) ==
  /\ Granting(w, n)
  /\ \/ /\ credit[n].status # "none"
        /\ org' = Freed(n, {"in_flight", "disabled"})
        /\ Then(w, n, "next") /\ UNCHANGED <<low, credit>>
     \/ /\ credit[n].status = "none" /\ Paused(n)
        /\ Then(w, n, "recover") /\ UNCHANGED <<org, low, credit>>
     \/ /\ credit[n].status = "none" /\ ~Paused(n) /\ org.plan = "lifetime"
        /\ Then(w, n, "return") /\ UNCHANGED <<org, low, credit>>
     \/ /\ credit[n].status = "none" /\ ~Paused(n) /\ org.plan = "metered"
        /\ credit' = [credit EXCEPT ![n] = [status |-> "granted", day |-> today]]
        /\ low' = FALSE
        /\ org' = IF Ended(n) THEN Cleared ELSE org
        /\ Then(w, n, "next")
  /\ UNCHANGED <<minted, stripe, recovery>> /\ Step

(* refundUngrantablePayment: Stripe's answer to a key is the first one. *)
Refunding(n) ==
  \E s \in {"pending", "yes"} : pi' = [pi EXCEPT ![n].refunded = IF @ = "no" THEN s ELSE @]
(* The payment of an organisation without meter goes back. *)
Return(w) ==
  LET n == runner[w].n IN
  /\ At(w, "return")
  /\ Refunding(n)
  /\ org' = Freed(n, {"in_flight", "disabled", "idle"})
  /\ Go(w, "next")
  /\ UNCHANGED <<hook, minted, Books>> /\ Step

-----------------------------------------------------------------------------
(* recoverPausedTopup. *)

(* sweepPausedTopups: a payment that is not found is looked for again. *)
SweepRecovery(w) ==
  /\ \E n \in Attempts :
       /\ recovery[n].status = "open" /\ pi[n].status # "none"
       /\ Start(w, "recover", "sweep", n)
  /\ UNCHANGED <<org, minted, stripe, Books>> /\ Step

ReadRecovery(w) ==
  LET n == runner[w].n IN
  /\ At(w, "recover")
  /\ runner' = IF recovery[n].status = "open"
                 THEN [runner EXCEPT ![w].at = "undo", ![w].seen = recovery[n].at]
                 ELSE [runner EXCEPT ![w] = IF @.why = "sweep" THEN Idle
                                            ELSE [@ EXCEPT !.at = "recovered"]]
  /\ UNCHANGED <<org, minted, stripe, Books>> /\ Step

(* A payment that is not paid is canceled; one that is goes back, unless   *)
(* paymentPrecedesRefund protects it.  A refund that the recovery asked    *)
(* for and that failed is for a human.                                     *)
Precedes(day, refund) ==
  refund # 0 /\ (day < refund \/ (org.consent > refund /\ day >= org.consent))
Concludes(w, outcome) == runner' = [runner EXCEPT ![w].at = "record", ![w].outcome = outcome]
Undo(w) ==
  LET n == runner[w].n
      kept == Precedes(pi[n].day, runner[w].seen) IN
  /\ At(w, "undo")
  /\ \/ /\ pi[n].status # "succeeded"
        /\ pi' = [pi EXCEPT ![n].status = "canceled"]
        /\ Concludes(w, "canceled") /\ UNCHANGED recovery
     \/ /\ pi[n].status = "succeeded" /\ kept
        /\ Concludes(w, "preserved") /\ UNCHANGED <<pi, recovery>>
     \/ /\ pi[n].status = "succeeded" /\ ~kept
        /\ IF pi[n].refunded = "failed"
             THEN IF recovery[n].asked THEN UNCHANGED pi
                  ELSE \E s \in {"pending", "yes"} : pi' = [pi EXCEPT ![n].refunded = s]
             ELSE Refunding(n)
        /\ recovery' = [recovery EXCEPT ![n].asked = @ \/ pi[n].refunded \in {"no", "failed"}]
        /\ CASE pi'[n].refunded = "yes" -> Concludes(w, "repaid")
             [] pi'[n].refunded = "pending" -> Concludes(w, "waiting")
             [] pi'[n].refunded = "failed" -> Rest(w)
  /\ UNCHANGED <<org, minted, hook, low, credit>> /\ Step

(* A payment is protected only if no earlier refund was heard of meanwhile *)
(* (or another worker came first); a pending refund decides nothing yet.   *)
BoundaryHolds(w) == recovery[runner[w].n].at = runner[w].seen
WithdrawnNever(w) == FALSE
Withdrawn(w) == runner[w].outcome = "repaid" /\ credit[runner[w].n].status = "granted"
(* The sweep of recoveries and the check after a charge only recover.      *)
Conclude(w) == IF runner[w].why = "sweep" THEN Rest(w) ELSE Go(w, "recovered")
Verdict(w) ==
  LET was == recovery[runner[w].n].status IN
  CASE runner[w].outcome = "preserved" -> "preserved"
    [] runner[w].outcome = "waiting" -> IF was = "preserved" THEN "done" ELSE was
    [] OTHER -> "done"
Record(w) ==
  LET n == runner[w].n IN
  /\ At(w, "record")
  /\ \/ /\ runner[w].outcome = "preserved" /\ ~BoundaryHolds(w)
        /\ IF recovery[n].status = "open" THEN Rest(w) ELSE Conclude(w)
        /\ UNCHANGED Books
     \/ /\ runner[w].outcome # "preserved" \/ BoundaryHolds(w)
        /\ recovery' = [recovery EXCEPT ![n].status = Verdict(w)]
        /\ credit' = IF Withdrawn(w) THEN [credit EXCEPT ![n].status = "withdrawn"] ELSE credit
        /\ low' = (low \/ Withdrawn(w))
        /\ Conclude(w)
  /\ UNCHANGED <<org, minted, stripe>> /\ Step

(* postGrantFollowup: once no recovery is in the way the grant is retried. *)
Recovered(w) ==
  LET n == runner[w].n IN
  /\ At(w, "recovered")
  /\ Go(w, IF pi[n].status = "succeeded" /\ ~Paused(n) THEN "grant" ELSE "next")
  /\ UNCHANGED <<org, minted, stripe, Books>> /\ Step

-----------------------------------------------------------------------------
(* The rest of the sweep, and a checkout that saves another card. *)

(* releaseStaleTopupClaims. *)
ReleaseStale ==
  /\ org.state = "in_flight" /\ Stale(org.last.day)
  /\ org' = [org EXCEPT !.state = "idle"]
  /\ UNCHANGED <<low, minted, stripe, credit, recovery, runner, World>>

(* reconcileStaleLifetimeRows. *)
SweepLifetime(w) ==
  /\ org.plan = "lifetime" /\ (org.enabled \/ org.last # Never)
  /\ Start(w, "list", "clear", 0)
  /\ UNCHANGED <<org, minted, stripe, Books>> /\ Step

(* savePaymentMethod: whether top-up is enabled is read in a step of its own. *)
SaveCard(w) ==
  /\ Room /\ acts < MaxActs /\ acts' = acts + 1
  /\ org.enabled /\ Start(w, "suspend", "card", 0)
  /\ UNCHANGED <<org, minted, stripe, Books, today, refunds, agreed, overlooked, faults>>
Suspend(w) ==
  /\ At(w, "suspend")
  /\ org' = [org EXCEPT !.enabled = FALSE, !.state = "disabled"]
  /\ Rest(w)
  /\ UNCHANGED <<minted, stripe, Books>> /\ Step

Crash(w) ==
  /\ runner[w] # Idle /\ Room /\ faults < MaxFaults /\ faults' = faults + 1
  /\ Rest(w)
  /\ UNCHANGED <<org, minted, stripe, Books, today, refunds, agreed, overlooked, acts>>

-----------------------------------------------------------------------------
Run(w) ==
  \/ Look(w) \/ List(w) \/ Close(w) \/ Clear(w) \/ Cap(w) \/ Claim(w)
  \/ Submit(w) \/ Create(w) \/ Decline(w) \/ Check(w)
  \/ Webhook(w) \/ (\E n \in Attempts : Grant(w, n)) \/ Return(w)
  \/ SweepRecovery(w) \/ ReadRecovery(w) \/ Undo(w) \/ Record(w) \/ Recovered(w)
  \/ SweepLifetime(w) \/ Suspend(w)

Next ==
  \/ Spend \/ Enable \/ Disable \/ ChangeCard \/ Upgrade \/ Tick \/ ReleaseStale
  \/ \E day \in 1..today : Refund(day)
  \/ \E n \in Attempts : Settle(n) \/ SettleRefund(n) \/ FailureHook(n)
  \/ \E w \in Runners : Run(w) \/ SaveCard(w) \/ Outage(w) \/ Crash(w)

Spec == Init /\ [][Next]_vars

-----------------------------------------------------------------------------
Settled ==
  /\ \A w \in Runners : runner[w] = Idle
  /\ \A n \in Attempts :
       /\ pi[n].status # "processing" /\ pi[n].refunded # "pending"
       /\ pi[n].status = "succeeded" => hook[n] # "sent"
       /\ pi[n].status # "none" => recovery[n].status # "open" \/ pi[n].refunded = "failed"

(* When everything is settled every payment that succeeded is either       *)
(* credited and kept or paid back, with no credits left: whatever was      *)
(* refunded, revoked, upgraded, cut short or delivered twice.  Left out    *)
(* are a refund that failed, which a human makes; a protected payment that *)
(* a second refund, heard of later, put in doubt again (its delivery is    *)
(* over and only a sweep that charges would grant); and one that was paid  *)
(* back when an earlier refund, heard of before that was recorded, gave it *)
(* the protection of a later consent.                                      *)
Doubted(n) == recovery[n].status = "preserved" /\ Cardinality(refunds) > 1
Reprieved(n) ==
  /\ recovery[n].status = "preserved"
  /\ \E c \in agreed : recovery[n].at < c /\ c <= pi[n].day
PaymentsAnswered ==
  Settled => \A n \in Attempts : pi[n].status = "succeeded" =>
    CASE pi[n].refunded = "yes" -> credit[n].status # "granted" \/ Reprieved(n)
      [] pi[n].refunded = "no" -> credit[n].status = "granted" \/ Doubted(n)
      [] OTHER -> TRUE

(* When everything is settled no payment is kept that was made after a     *)
(* refund, with no consent in between (pauseAutoTopupForRefund).  Left out *)
(* are the payments a refund passed by, and one judged by the earliest     *)
(* refund alone: its recovery keeps no other, and a consent given between  *)
(* the two protects it (paymentPrecedesRefund).                            *)
Misdated(n, day) == recovery[n].status = "preserved" /\ recovery[n].at < day
RefundStopsCharges ==
  Settled => \A n \in Attempts, day \in refunds :
    /\ pi[n].status = "succeeded" /\ pi[n].day > day
    /\ day..pi[n].day \cap agreed = {}
    /\ <<n, day>> \notin overlooked /\ ~Misdated(n, day)
    => pi[n].refunded # "no"

=============================================================================
