----------------------------- MODULE RefundPause -----------------------------
(***************************************************************************)
(* A refund revokes the owner's authorization of automatic top-up: the     *)
(* refunds of one charge (stripe/webhooks.ts, billing/ledger.ts), its late *)
(* grant (billing/entitlements.ts) and the owner's form on the usage page. *)
(*                                                                         *)
(* The charge is refunded in parts.  Each part has an event of its own,    *)
(* but a handler reads the sum refunded so far, so a late or early event   *)
(* may bring the whole sum.  Events come in any order, several at a time,  *)
(* again after a failure, and before the charge's grant.  Refunds and      *)
(* consents each have an instant of their own.  What a pause does to an    *)
(* attempt under way is AutoTopup's.                                       *)
(***************************************************************************)
EXTENDS Naturals

CONSTANTS Hooks,     \* handlers of charge.refunded
          None,
          Parts,     \* into which the charge may be refunded
          MaxTime, MaxFaults   \* bounds

ConstantsOK ==
  /\ Parts \in Nat \ {0} /\ MaxTime \in Nat /\ MaxFaults \in Nat
  /\ None \notin [sum : Nat, at : Nat, by : BOOLEAN]

VARIABLES
  now,
  bought,     \* "credits" or a "period" of the subscription
  linked,     \* Stripe's objects lead to the organisation before the grant
  refunded,   \* Stripe: the parts refunded
  refunds,    \* and the instants they were
  news,       \* charge.refunded, not yet acknowledged
  granted,    \* the ledger or the period row of the charge
  reversed,   \* the ledger row of its refund
  observed,   \* stripe_refund_observations
  pending,    \* stripe_pending_reversals: the instant of a full refund
  org,        \* organizations: enabled, consent and the version of a pause
  hook, form, faults,
  wish        \* history: what the owner last settled, when and knowing what

purchase == <<bought, linked, granted, reversed, pending>>
owner == <<form, wish>>
vars == <<now, purchase, refunded, refunds, news, observed, org, hook, faults, owner>>

Idle == [step |-> "idle", event |-> 0, sum |-> 0, found |-> FALSE]
Closed == [step |-> "closed", version |-> 0, read |-> 0, enabled |-> FALSE, consent |-> 0]

Init ==
  /\ now = 1 /\ bought \in {"credits", "period"} /\ linked \in BOOLEAN
  /\ refunded = 0 /\ refunds = {} /\ news = {}
  /\ granted = FALSE /\ reversed = FALSE /\ observed = None /\ pending = None
  /\ org = [enabled |-> TRUE, consent |-> 1, version |-> 0]
  /\ hook = [h \in Hooks |-> Idle] /\ form = Closed /\ faults = 0
  /\ wish = [on |-> TRUE, at |-> 1, seen |-> 0]

Later == now < MaxTime /\ now' = now + 1

-----------------------------------------------------------------------------
(* pauseAutoTopupForRefund: a delayed event respects a consent given after *)
(* the refund; without advance, a version already there is kept.           *)
Authorized(o, at) == o.consent > at
Version(o, advance) == IF ~advance /\ o.version # 0 THEN o.version ELSE o.version + 1
Pause(o, at, advance) ==
  IF Authorized(o, at) THEN o
  ELSE [o EXCEPT !.enabled = FALSE, !.version = Version(o, advance)]

(* pauseForObservedStripeRefund.  The sum alone cannot tell a later refund *)
(* from a replay once an earlier event has brought the final sum.          *)
\* Mutant: a later refund of the same sum is a replay.
NewerSum(obs, sum, at) == obs.sum < sum
Newer(obs, sum, at) == obs.sum < sum \/ (obs.sum = sum /\ obs.at < at)
Recorded(obs, sum, at) ==
  IF obs = None THEN [sum |-> sum, at |-> at, by |-> FALSE]
  ELSE IF Newer(obs, sum, at)
    THEN [sum |-> sum, at |-> IF obs.at < at THEN at ELSE obs.at, by |-> FALSE]
  ELSE obs
Unclaimed(obs) == obs # None /\ ~obs.by
Claimed(obs) == IF Unclaimed(obs) THEN [obs EXCEPT !.by = TRUE] ELSE obs
PulledBy(o, obs) == IF Unclaimed(obs) THEN Pause(o, obs.at, TRUE) ELSE o

Observe(h) ==
  LET at == hook[h].event
      obs == Recorded(observed, hook[h].sum, at)
      early == IF at < obs.at THEN Pause(org, at, FALSE) ELSE org
  IN IF hook[h].found
       THEN observed' = Claimed(obs) /\ org' = PulledBy(early, obs)
       ELSE observed' = obs /\ UNCHANGED org

-----------------------------------------------------------------------------
(* Stripe and the organisation's own events.                               *)
Refund ==
  /\ refunded < Parts /\ Later
  /\ \E sum \in (refunded + 1)..Parts : refunded' = sum
  /\ refunds' = refunds \cup {now'} /\ news' = news \cup {now'}
  /\ UNCHANGED <<purchase, observed, org, hook, faults, owner>>

(* The grant of a period takes what is pending and the observation that    *)
(* waited for it in its own transaction, if the invoice names its charge.  *)
GrantPeriod ==
  /\ bought = "period" /\ ~granted /\ granted' = TRUE
  /\ \/ /\ org' = PulledBy(IF pending # None THEN Pause(org, pending, TRUE) ELSE org, observed)
        /\ observed' = Claimed(observed) /\ pending' = None
     \/ UNCHANGED <<org, observed, pending>>
  /\ UNCHANGED <<now, bought, linked, reversed, refunded, refunds, news, hook, faults, owner>>

(* That of credits takes the observation; drainPendingReversals follows.   *)
GrantCredits ==
  /\ bought = "credits" /\ ~granted /\ granted' = TRUE
  /\ org' = PulledBy(org, observed) /\ observed' = Claimed(observed)
  /\ UNCHANGED <<now, bought, linked, reversed, pending, refunded, refunds, news, hook, faults,
                 owner>>

Drain ==
  /\ bought = "credits" /\ granted /\ pending # None
  /\ pending' = None /\ reversed' = TRUE
  /\ org' = IF reversed THEN org ELSE Pause(org, pending, TRUE)
  /\ UNCHANGED <<now, bought, linked, granted, refunded, refunds, news, observed, hook, faults,
                 owner>>

-----------------------------------------------------------------------------
(* reverseCharge, for charge.refunded.                                     *)
Rest(h) == hook' = [hook EXCEPT ![h] = Idle]
Go(h, step) == hook' = [hook EXCEPT ![h].step = step]

Take(h) ==
  /\ hook[h].step = "idle"
  /\ \E e \in news \ {hook[x].event : x \in Hooks} :
       hook' = [hook EXCEPT ![h] = [step |-> "find", event |-> e, sum |-> refunded,
                                    found |-> FALSE]]
  /\ UNCHANGED <<now, purchase, refunded, refunds, news, observed, org, faults, owner>>

(* Before the grant: the session of a purchase, or the attempt it kept; of *)
(* a period the invoice's subscription, if it is already stored.           *)
OfCheckout == bought = "credits" /\ linked
OfInvoice == bought = "period" /\ linked
FindOwner(h) ==
  /\ hook[h].step = "find"
  /\ hook' = [hook EXCEPT ![h].step = "observe", ![h].found = granted \/ OfCheckout \/ OfInvoice]
  /\ UNCHANGED <<now, purchase, refunded, refunds, news, observed, org, faults, owner>>

PauseRefunded(h) ==
  /\ hook[h].step = "observe"
  /\ Observe(h) /\ Go(h, "reverse")
  /\ UNCHANGED <<now, purchase, refunded, refunds, news, faults, owner>>

(* Only a full refund reverses the grant; one with no grant yet waits.     *)
Reverse(h) ==
  /\ hook[h].step = "reverse"
  /\ IF hook[h].sum = Parts
       THEN IF ~granted
              THEN /\ pending' = IF pending = None THEN hook[h].event ELSE pending
                   /\ UNCHANGED <<org, reversed>>
              ELSE /\ reversed' = TRUE
                   /\ org' = IF bought = "credits" /\ ~reversed
                               THEN Pause(org, hook[h].event, TRUE) ELSE org
                   /\ UNCHANGED pending
       ELSE UNCHANGED <<pending, reversed, org>>
  /\ news' = news \ {hook[h].event} /\ Rest(h)
  /\ UNCHANGED <<now, bought, linked, granted, refunded, refunds, observed, faults, owner>>

Fail(h) ==
  /\ hook[h].step # "idle" /\ faults < MaxFaults /\ faults' = faults + 1
  /\ Rest(h)
  /\ UNCHANGED <<now, purchase, refunded, refunds, news, observed, org, owner>>

-----------------------------------------------------------------------------
(* The usage page: the form carries the pause it was rendered under.       *)
LoadPage ==
  /\ form.step = "closed"
  /\ form' = [form EXCEPT !.step = "shown", !.version = org.version]
  /\ UNCHANGED <<now, purchase, refunded, refunds, news, observed, org, hook, faults, wish>>

\* Mutant: a form from before a pause is accepted.
StaleNever == FALSE
Stale == org.version # 0 /\ form.version # org.version
(* setAutoTopup until the write: consent is asked and dated on the         *)
(* transition, or when a bundle no longer offered is replaced, and a form  *)
(* from before a pause is refused.                                         *)
Submit ==
  /\ form.step = "shown" /\ Later
  /\ \E consent \in {now'} \cup IF org.enabled THEN {org.consent} ELSE {} :
       form' = IF Stale THEN Closed
               ELSE [form EXCEPT !.step = "write", !.read = org.version, !.enabled = org.enabled,
                                 !.consent = consent]
  /\ UNCHANGED <<purchase, refunded, refunds, news, observed, org, hook, faults, wish>>

\* Mutant: the version is not compared.
UnchangedEnabled == org.enabled = form.enabled
Unchanged == org.enabled = form.enabled /\ org.version = form.read
WriteForm ==
  /\ form.step = "write" /\ form' = Closed
  /\ IF Unchanged
       THEN /\ org' = [org EXCEPT !.enabled = TRUE, !.consent = form.consent]
            /\ wish' = [on |-> TRUE, at |-> form.consent, seen |-> form.version]
       ELSE UNCHANGED <<org, wish>>
  /\ UNCHANGED <<now, purchase, refunded, refunds, news, observed, hook, faults>>

(* disableAutoTopup keeps the pause the page explains.                     *)
Disable ==
  /\ org.enabled
  /\ org' = [org EXCEPT !.enabled = FALSE] /\ wish' = [wish EXCEPT !.on = FALSE]
  /\ UNCHANGED <<now, purchase, refunded, refunds, news, observed, hook, form, faults>>

-----------------------------------------------------------------------------
Next ==
  \/ Refund \/ GrantPeriod \/ GrantCredits \/ Drain
  \/ \E h \in Hooks : Take(h) \/ FindOwner(h) \/ PauseRefunded(h) \/ Reverse(h) \/ Fail(h)
  \/ LoadPage \/ Submit \/ WriteForm \/ Disable

Spec == Init /\ [][Next]_vars

TypeOK ==
  /\ now \in 1..MaxTime /\ bought \in {"credits", "period"} /\ linked \in BOOLEAN
  /\ refunded \in 0..Parts /\ refunds \subseteq 1..MaxTime /\ news \subseteq refunds
  /\ granted \in BOOLEAN /\ reversed \in BOOLEAN /\ pending \in refunds \cup {None}
  /\ observed = None \/ observed \in [sum : 1..Parts, at : refunds, by : BOOLEAN]
  /\ org \in [enabled : BOOLEAN, consent : 1..MaxTime, version : Nat]
  /\ hook \in [Hooks -> [step : {"idle", "find", "observe", "reverse"},
                         event : refunds \cup {0}, sum : 0..Parts, found : BOOLEAN]]
  /\ form \in [step : {"closed", "shown", "write"}, version : Nat, read : Nat, enabled : BOOLEAN,
               consent : 0..MaxTime]
  /\ wish \in [on : BOOLEAN, at : 1..MaxTime, seen : Nat] /\ faults \in 0..MaxFaults

(* The owner is known, and no observation was left behind by a handler     *)
(* that looked for the owner before the grant and stored it after.         *)
Known == (granted \/ linked) /\ ~(granted /\ Unclaimed(observed))
Heard == news = {} /\ \A h \in Hooks : hook[h].step = "idle"

(* Once every refund was heard of, top-up is enabled exactly if the owner  *)
(* last wished it and no refund came after that consent, whatever the      *)
(* order of events, grants and forms; and an enabled top-up was agreed to  *)
(* by an owner whose page showed the last pause (pausedAt, the observation *)
(* and the predicates of applyAutoTopupEnable).                            *)
MandateKept ==
  /\ Heard /\ Known => (org.enabled <=> wish.on /\ \A r \in refunds : r < wish.at)
  /\ org.enabled => wish.seen = org.version

=============================================================================
