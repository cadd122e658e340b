---------------------------- MODULE Entitlements ----------------------------
(***************************************************************************)
(* Hosted subscriptions and lifetime plans: billing/entitlements.ts and    *)
(* the handlers of stripe/webhooks.ts that decide who is entitled.         *)
(*                                                                         *)
(* Stripe is the authority for money and subscriptions; the database keeps *)
(* one tracked subscription and a plan per organisation, one period per    *)
(* invoice and one entitlement per lifetime session.  Every event reaches  *)
(* its handler until it is acknowledged, in any order; handlers take one   *)
(* step per transaction or Stripe call, and may fail between two steps.    *)
(* The lease of the inbox is in CreditLedger: here an event is handled by  *)
(* one worker at a time.  A payment is a subscription's invoice or a       *)
(* lifetime session, and has its name.                                     *)
(***************************************************************************)
EXTENDS Naturals, FiniteSets

CONSTANTS Orgs, Subs, Sessions,
          OwnerOf,      \* the organisation of each subscription and session
          Slots,        \* the numbered slots of the lifetime deal
          Workers, None,
          Rank,         \* the order of event ids that fall into one second
          MaxActs,      \* what customers and operators do: a bound
          MaxSeconds,   \* seconds in which events are created: a bound
          MaxFaults     \* exceptions and crashes, each in an act's place

Payments == Subs \cup Sessions

ASSUME ConstantsOK ==
  /\ OwnerOf \in [Payments -> Orgs] /\ Subs \cap Sessions = {}
  /\ Slots \subseteq Nat /\ None \notin Payments
  /\ MaxActs \in Nat /\ MaxSeconds \in Nat /\ MaxFaults \in Nat

VARIABLES money, contest,   \* Stripe: each payment and its dispute
          named,            \* Stripe: the subscriptions whose invoice names its charge
          sub,              \* Stripe: each subscription
          inbox,            \* the events Stripe sent and those acknowledged
          second,           \* event.created, where it orders events
          org,              \* organizations: subscription columns and plan
          period,           \* stripe_subscription_periods.status
          ent,              \* stripe_lifetime_entitlements.status
          slot,             \* stripe_lifetime_slots: the holder of each
          pending,          \* stripe_pending_reversals
          reversal,         \* stripe_dispute_reversals
          outranked,        \* history: sessions whose won dispute hid a queued refund
          worker,           \* the handlers that run
          clock, acts, faults

stripe == <<money, contest, named, sub, second, clock>>
books == <<org, period, ent, slot, pending, reversal, outranked>>
vars == <<stripe, inbox, books, worker, acts, faults>>

(* The states of a subscription: "ending" bills until its period is over.  *)
Change == {"opened", "winding", "resumed", "deleted"}
Event == [kind : Change \cup {"hosted", "paid"}, of : Subs]
           \cup [kind : {"lifetime"}, of : Sessions]
           \cup [kind : {"refund", "dispute", "closed"}, of : Payments]
Ordered(e) == e.kind \in Change \cup {"paid"}
Running(s) == sub[s] \in {"live", "ending"}

Row == [sub |-> None, active |-> FALSE, plan |-> "free", at |-> 0, last |-> "none"]
Idle == [at |-> "idle"]

Init ==
  /\ money = [p \in Payments |-> "none"] /\ contest = [p \in Payments |-> "none"]
  /\ named = {} /\ sub = [s \in Subs |-> "none"]
  /\ inbox = [e \in Event |-> "unsent"] /\ second = [e \in Event |-> 0]
  /\ org = [o \in Orgs |-> Row]
  /\ period = [s \in Subs |-> "none"] /\ ent = [l \in Sessions |-> "none"]
  /\ slot = [k \in Slots |-> None] /\ pending = {} /\ outranked = {}
  /\ reversal = [p \in Payments |-> [status |-> "absent", source |-> "unknown"]]
  /\ worker = [w \in Workers |-> Idle]
  /\ clock = 1 /\ acts = 0 /\ faults = 0

-----------------------------------------------------------------------------
(* Stripe, its customers and the operators. *)

On(kind, p) == [kind |-> kind, of |-> p]
Emit(es) ==
  /\ inbox' = [e \in Event |-> IF e \in es THEN "sent" ELSE inbox[e]]
  /\ second' = [e \in Event |-> IF e \in es /\ Ordered(e) THEN clock ELSE second[e]]
Act == acts + faults < MaxActs /\ acts' = acts + 1 /\ UNCHANGED <<books, worker, faults, clock>>

Tick ==
  /\ clock < MaxSeconds /\ acts \in 1..(MaxActs - 1) /\ clock' = clock + 1
  /\ UNCHANGED <<money, contest, named, sub, second, inbox, books, worker, acts, faults>>

(* A hosted checkout: offered while nothing is live or lifetime in the     *)
(* database, so two of them may be open at once (assertPlanAvailable).     *)
Offered(o) == ~org[o].active /\ org[o].plan # "lifetime"
Subscribe(s) ==
  /\ Act /\ money[s] = "none" /\ Offered(OwnerOf[s])
  /\ money' = [money EXCEPT ![s] = "paid"] /\ sub' = [sub EXCEPT ![s] = "live"]
  /\ named' \in {named, named \cup {s}}
  /\ Emit({On("hosted", s), On("paid", s), On("opened", s)})
  /\ UNCHANGED contest

WindDown(s) ==
  /\ Act /\ sub[s] = "live" /\ inbox[On("winding", s)] = "unsent"
  /\ sub' = [sub EXCEPT ![s] = "ending"] /\ Emit({On("winding", s)})
  /\ UNCHANGED <<money, contest, named>>
Resume(s) ==
  /\ Act /\ sub[s] = "ending" /\ inbox[On("resumed", s)] = "unsent"
  /\ sub' = [sub EXCEPT ![s] = "live"] /\ Emit({On("resumed", s)})
  /\ UNCHANGED <<money, contest, named>>
RunOut(s) ==
  /\ Act /\ sub[s] = "ending"
  /\ sub' = [sub EXCEPT ![s] = "canceled"] /\ Emit({On("deleted", s)})
  /\ UNCHANGED <<money, contest, named>>

(* A lifetime checkout: offered while a slot is free, nothing is lifetime  *)
(* and the tracked subscription is not live or is scheduled to end.        *)
BuyLifetime(l) ==
  /\ Act /\ money[l] = "none" /\ org[OwnerOf[l]].plan # "lifetime"
  /\ \E k \in Slots : slot[k] = None
  /\ money' = [money EXCEPT ![l] = "paid"] /\ Emit({On("lifetime", l)})
  /\ UNCHANGED <<contest, named, sub>>

Refundable(p) == money[p] = "paid" /\ contest[p] \notin {"open", "lost"}
Repay(p) ==
  /\ Act /\ Refundable(p)
  /\ money' = [money EXCEPT ![p] = "refunded"] /\ Emit({On("refund", p)})
  /\ UNCHANGED <<contest, named, sub>>
Contested(p) ==
  /\ Act /\ money[p] = "paid" /\ contest[p] = "none"
  /\ contest' = [contest EXCEPT ![p] = "open"] /\ Emit({On("dispute", p)})
  /\ UNCHANGED <<money, named, sub>>
(* The ruling follows the dispute and needs no bound of its own. *)
Ruled(p) ==
  /\ contest[p] = "open" /\ UNCHANGED <<books, worker, acts, faults, clock>>
  /\ \E ruling \in {"won", "lost"} : contest' = [contest EXCEPT ![p] = ruling]
  /\ Emit({On("closed", p)})
  /\ UNCHANGED <<money, named, sub>>

-----------------------------------------------------------------------------
(* Handlers. *)

At(w, step) == worker[w] # Idle /\ worker[w].at = step
Job(w) == worker[w].event.of
Owner(w) == OwnerOf[Job(w)]
Go(w, step) == worker' = [worker EXCEPT ![w].at = step]

Entry(kind) ==
  CASE kind = "hosted"   -> "hosted"
    [] kind \in {"paid"} \cup Change -> "tracked"
    [] kind = "lifetime" -> "verdict"
    [] kind = "refund"   -> "reverse"
    [] kind = "dispute"  -> "lookup"
    [] kind = "closed"   -> "recall"

Deliver(w, e) ==
  /\ worker[w] = Idle /\ inbox[e] = "sent"
  /\ e \notin {worker[v].event : v \in {u \in Workers : worker[u] # Idle}}
  /\ worker' = [worker EXCEPT ![w] = [at |-> Entry(e.kind), event |-> e, seen |-> None]]
  /\ UNCHANGED <<stripe, inbox, books, acts, faults>>

Finish(w) ==
  /\ At(w, "finish")
  /\ inbox' = [inbox EXCEPT ![worker[w].event] = "done"]
  /\ worker' = [worker EXCEPT ![w] = Idle]
  /\ UNCHANGED <<stripe, books, acts, faults>>

Drop(w) == worker' = [worker EXCEPT ![w] = Idle]
Fail(w) ==
  /\ worker[w] # Idle /\ faults < MaxFaults /\ acts + faults < MaxActs
  /\ faults' = faults + 1
  /\ Drop(w)
  /\ UNCHANGED <<stripe, inbox, books, acts>>

Reads == UNCHANGED <<stripe, inbox, books, acts, faults>>
Writes == UNCHANGED <<stripe, inbox, acts, faults>>
Calls == UNCHANGED <<contest, named, clock, books, acts, faults>>

ActiveLifetime(o) == \E l \in Sessions : OwnerOf[l] = o /\ ent[l] = "active"

(* fulfillHostedCheckout: the stored subscription and the lifetime plan. *)
ReadHosted(w) ==
  LET stored == org[Owner(w)].sub IN
  /\ At(w, "hosted")
  /\ worker' = [worker EXCEPT ![w].seen = stored,
       ![w].at = IF ActiveLifetime(Owner(w)) THEN "cancel"
                 ELSE IF stored = Job(w) THEN "finish"
                 ELSE IF stored = None THEN "claim" ELSE "probe"]
  /\ Reads

(* storedSubscriptionIsDuplicate: Stripe says whether it is live. *)
DuplicateNever(w) == FALSE
Duplicate(w) == Running(worker[w].seen)
ProbeStored(w) ==
  /\ At(w, "probe")
  /\ Go(w, IF Duplicate(w) THEN "cancel" ELSE "claim")
  /\ Reads

(* The organisation is claimed only while it names what was read. *)
Unmoved(w) == org[Owner(w)].sub \in {Job(w), worker[w].seen}
ClaimSubscription(w) ==
  /\ At(w, "claim")
  /\ \/ /\ Unmoved(w)
        /\ org' = [org EXCEPT ![Owner(w)].sub = Job(w)]
        /\ Go(w, "finish")
     \/ ~Unmoved(w) /\ Go(w, "cancel") /\ UNCHANGED org
  /\ UNCHANGED <<period, ent, slot, pending, reversal, outranked>> /\ Writes

(* isSupersededSubscription, for invoices and subscription events. *)
Apply(kind) == IF kind = "paid" THEN "period" ELSE "snapshot"
ReadTracked(w) ==
  LET stored == org[Owner(w)].sub IN
  /\ At(w, "tracked")
  /\ worker' = [worker EXCEPT ![w].seen = stored,
       ![w].at = IF stored \in {None, Job(w)} THEN Apply(worker[w].event.kind)
                 ELSE "superseded"]
  /\ Reads
(* A late death notice is ignored, any other life sign tears down. *)
SupersededIgnored(kind) == "finish"
Superseded(kind) == IF kind = "deleted" THEN "finish" ELSE "cancel"
ProbeTracked(w) ==
  LET kind == worker[w].event.kind IN
  /\ At(w, "superseded")
  /\ Go(w, IF Running(worker[w].seen) THEN Superseded(kind) ELSE Apply(kind))
  /\ Reads

(* teardownDuplicateSubscription: cancel what still runs, then give back   *)
(* every paid invoice that bought no period.                               *)
Teardown == "cancel"
CancelDuplicate(w) ==
  /\ At(w, Teardown)
  /\ IF Running(Job(w))
       THEN /\ sub' = [sub EXCEPT ![Job(w)] = "canceled"]
            /\ Emit({On("deleted", Job(w))})
       ELSE UNCHANGED <<sub, inbox, second>>
  /\ Go(w, "giveback")
  /\ UNCHANGED money /\ Calls

Bought(p) == p \in Subs /\ period[p] # "none"
GiveBack(w) ==
  LET p == Job(w) IN
  /\ At(w, "giveback")
  /\ \/ /\ ~Bought(p) /\ Refundable(p)
        /\ money' = [money EXCEPT ![p] = "refunded"]
        /\ Emit({On("refund", p)})
        /\ Go(w, "finish")
     \/ /\ Bought(p) \/ money[p] = "refunded"
        /\ Go(w, "finish") /\ UNCHANGED <<money, inbox, second>>
     \/ /\ ~Bought(p) /\ money[p] = "paid" /\ ~Refundable(p)
        /\ Drop(w) /\ UNCHANGED <<money, inbox, second>>
  /\ UNCHANGED sub /\ Calls

(* isNewerEvent. *)
Newer(o, e) ==
  \/ org[o].last = "none" \/ second[e] > org[o].at
  \/ second[e] = org[o].at /\ Rank[e.kind] > Rank[org[o].last]

(* applySubscriptionSnapshotTx. *)
Snapshot(o, e, active) ==
  [org EXCEPT ![o] = [sub |-> e.of, active |-> active, at |-> second[e], last |-> e.kind,
     plan |-> IF ActiveLifetime(o) THEN "lifetime" ELSE IF active THEN "hosted" ELSE "free"]]

(* pendingReversalState: what waits is found by the charge, which an       *)
(* invoice may not name (invoicePaymentReferences); a session always does. *)
Named(p) == p \in Sessions \cup named
Queued(p, reason) == Named(p) /\ [of |-> p, reason |-> reason] \in pending
Forget(p) == {r \in pending : r.of # p \/ ~Named(p)}

(* grantSubscriptionPeriod, applyPendingLifetimeReversal: a reversal that  *)
(* came first decides what the purchase is worth; of a lifetime plan a won *)
(* dispute outranks even a refund (restoreWonLifetimeDispute).             *)
Won(p) == Queued(p, "dispute") /\ reversal[p].status = "won"
Outranked(p) == p \in Sessions /\ Won(p) /\ Queued(p, "refund")
GrantedFully(p) == "paid"
GrantedAs(p) ==
  IF Queued(p, "refund") /\ ~Outranked(p) THEN "refunded"
  ELSE IF Queued(p, "dispute") /\ ~Won(p) THEN "disputed"
  ELSE "paid"
Outcome == [refunded |-> "ignored", disputed |-> "reversed", paid |-> "restored"]
Answered(p, source) ==
  IF Queued(p, "dispute")
    THEN [reversal EXCEPT ![p] = [source |-> source, status |-> Outcome[GrantedAs(p)]]]
    ELSE reversal
GrantPeriod(w) ==
  LET s == Job(w) IN
  /\ At(w, "period")
  /\ period' = IF period[s] = "none" THEN [period EXCEPT ![s] = GrantedAs(s)] ELSE period
  /\ pending' = Forget(s)
  /\ reversal' = Answered(s, "subscription")
  /\ org' = IF Newer(Owner(w), worker[w].event)
              THEN Snapshot(Owner(w), worker[w].event, TRUE) ELSE org
  /\ Go(w, "finish")
  /\ UNCHANGED <<ent, slot, outranked>> /\ Writes

(* handleSubscriptionEvent: a stale event of the same second is settled    *)
(* from the live subscription (reconcileStaleSubscriptionEvent).           *)
Billing(kind) == kind \in {"opened", "resumed"}
ApplySnapshot(w) ==
  LET e == worker[w].event
      o == Owner(w) IN
  /\ At(w, "snapshot")
  /\ \/ /\ Newer(o, e)
        /\ org' = Snapshot(o, e, e.kind # "deleted")
        /\ Go(w, IF Billing(e.kind) THEN "beside" ELSE "finish")
     \/ /\ ~Newer(o, e)
        /\ Go(w, IF second[e] = org[o].at /\ sub[e.of] = "live" THEN "beside" ELSE "finish")
        /\ UNCHANGED org
  /\ UNCHANGED <<period, ent, slot, pending, reversal, outranked>> /\ Writes

(* endSubscriptionOnLifetimeOrg. *)
EndBeside(w) ==
  LET s == Job(w) IN
  /\ At(w, "beside")
  /\ IF ActiveLifetime(Owner(w)) /\ sub[s] = "live"
       THEN sub' = [sub EXCEPT ![s] = "ending"] /\ Emit({On("winding", s)})
       ELSE UNCHANGED <<sub, inbox, second>>
  /\ Go(w, "finish")
  /\ UNCHANGED money /\ Calls

-----------------------------------------------------------------------------
(* fulfillLifetimeCheckout. *)

(* fulfillCheckout: the payment as Stripe has it now. *)
VerdictLifetime(w) ==
  LET l == Job(w) IN
  /\ At(w, "verdict")
  /\ Go(w, IF money[l] = "paid" /\ contest[l] = "none" THEN "session" ELSE "finish")
  /\ Reads
ReadSession(w) ==
  LET stored == org[Owner(w)].sub IN
  /\ At(w, "session")
  /\ worker' = [worker EXCEPT ![w].seen = stored,
       ![w].at = IF ent[Job(w)] # "none" THEN "finish"
                 ELSE IF stored = None THEN "rival" ELSE "blocked"]
  /\ Reads
(* liveHostedBlocksLifetime: a subscription that is scheduled to end does not. *)
ProbeBlocking(w) ==
  /\ At(w, "blocked")
  /\ Go(w, IF sub[worker[w].seen] = "live" THEN "giveback" ELSE "rival")
  /\ Reads
Holders(o) == {l \in Sessions : OwnerOf[l] = o /\ ent[l] = "active"}
ReadRival(w) ==
  /\ At(w, "rival")
  /\ Go(w, IF Job(w) \in Holders(Owner(w)) THEN "finish"
           ELSE IF Holders(Owner(w)) # {} THEN "giveback" ELSE "slot")
  /\ Reads

Free == {k \in Slots : slot[k] = None}
Lowest == CHOOSE k \in Free : \A j \in Free : k <= j
Lost(o) == [org EXCEPT ![o].plan = IF org[o].sub # None /\ org[o].active THEN "hosted" ELSE "free"]
VacatedLeaves(l) == slot
Vacated(l) == [k \in Slots |-> IF slot[k] = l THEN None ELSE slot[k]]

(* claimLifetimeSlot: the slot, the entitlement and the plan in one        *)
(* transaction, reversals that came first included; two active ones of an  *)
(* organisation violate an index.                                          *)
ClaimSlot(w) ==
  LET l == Job(w)
      o == Owner(w)
      worth == GrantedAs(l) IN
  /\ At(w, "slot")
  /\ \/ /\ ent[l] # "none"
        /\ Go(w, "finish")
        /\ UNCHANGED books
     \/ /\ ent[l] = "none" /\ (Free = {} \/ Holders(o) # {})
        /\ Go(w, "giveback")
        /\ UNCHANGED books
     \/ /\ ent[l] = "none" /\ Free # {} /\ Holders(o) = {}
        /\ ent' = [ent EXCEPT ![l] = CASE worth = "paid" -> "active"
                                       [] worth = "disputed" -> "disputed"
                                       [] worth = "refunded" -> "released"]
        /\ slot' = IF worth = "refunded" THEN slot ELSE [slot EXCEPT ![Lowest] = l]
        /\ org' = IF worth = "paid" THEN [org EXCEPT ![o].plan = "lifetime"] ELSE Lost(o)
        /\ pending' = Forget(l)
        /\ reversal' = Answered(l, "lifetime")
        /\ outranked' = outranked \cup {m \in {l} : Outranked(m)}
        /\ Go(w, "finish")
        /\ UNCHANGED period
  /\ Writes

-----------------------------------------------------------------------------
(* Refunds and disputes: reverseCharge, reverseDispute, restoreWonDispute. *)

LookUp(w) ==
  /\ At(w, "lookup")
  /\ Go(w, IF contest[Job(w)] = "won" THEN "recall" ELSE "record")
  /\ Reads
RecordDispute(w) ==
  LET p == Job(w) IN
  /\ At(w, "record")
  /\ reversal' = IF reversal[p].status = "absent"
                   THEN [reversal EXCEPT ![p].status = "pending"] ELSE reversal
  /\ Go(w, "reverse")
  /\ UNCHANGED <<org, period, ent, slot, pending, outranked>> /\ Writes

(* releaseLifetimeForPayment, revokeLifetimeForDispute; refundSubscription-  *)
(* Period, disputeSubscriptionPeriod.  A refund frees the slot.            *)
Taken(refund) == IF refund THEN {"active", "disputed"} ELSE {"active"}
ReverseLifetime(l, refund) ==
  /\ ent' = IF ent[l] \in Taken(refund)
              THEN [ent EXCEPT ![l] = IF refund THEN "released" ELSE "disputed"] ELSE ent
  /\ slot' = IF ent[l] \in Taken(refund) /\ refund THEN Vacated(l) ELSE slot
  /\ org' = IF ent[l] \in Taken(refund) THEN Lost(OwnerOf[l]) ELSE org
  /\ UNCHANGED period
ReversePeriod(s, refund) ==
  /\ period' = IF period[s] = "paid" \/ (period[s] = "disputed" /\ refund)
                 THEN [period EXCEPT ![s] = IF refund THEN "refunded" ELSE "disputed"]
                 ELSE period
  /\ UNCHANGED <<ent, slot, org>>

(* A match of any status counts; a released lifetime matches no dispute.   *)
Matches(p, refund) ==
  IF p \in Subs THEN period[p] # "none"
  ELSE ent[p] # "none" /\ (refund \/ ent[p] # "released")

Reverse(w) ==
  LET p == Job(w)
      refund == worker[w].event.kind = "refund" IN
  /\ At(w, "reverse")
  /\ IF Matches(p, refund)
       THEN IF p \in Subs THEN ReversePeriod(p, refund) ELSE ReverseLifetime(p, refund)
       ELSE UNCHANGED <<org, period, ent, slot>>
  /\ worker' = [worker EXCEPT
       ![w].seen = IF Matches(p, refund) THEN p ELSE None,
       ![w].at = IF refund THEN "endpaid"
                 ELSE IF Matches(p, refund) THEN "status" ELSE "queue"]
  /\ UNCHANGED <<pending, reversal, outranked>> /\ Writes

(* cancelRefundedSubscription: a refunded subscription must not renew. *)
CancelRefunded(w) ==
  LET p == Job(w) IN
  /\ At(w, "endpaid")
  /\ IF p \in Subs /\ Running(p)
       THEN sub' = [sub EXCEPT ![p] = "canceled"] /\ Emit({On("deleted", p)})
       ELSE UNCHANGED <<sub, inbox, second>>
  /\ Go(w, IF worker[w].seen = None THEN "queue" ELSE "finish")
  /\ UNCHANGED money /\ Calls

Queue(w) ==
  /\ At(w, "queue")
  /\ pending' = pending \cup {[of |-> Job(w), reason |-> worker[w].event.kind]}
  /\ Go(w, "finish")
  /\ UNCHANGED <<org, period, ent, slot, reversal, outranked>> /\ Writes

Source(p) == IF p \in Subs THEN "subscription" ELSE "lifetime"
StoreReversed(w) ==
  /\ At(w, "status")
  /\ reversal' = [reversal EXCEPT ![Job(w)] =
                    [status |-> "reversed", source |-> Source(Job(w))]]
  /\ Go(w, "finish")
  /\ UNCHANGED <<org, period, ent, slot, pending, outranked>> /\ Writes

Recall(w) ==
  LET p == Job(w) IN
  /\ At(w, "recall")
  /\ Go(w, IF contest[p] # "won" \/ reversal[p].status \in {"absent", "ignored", "restored"}
             THEN "finish"
           ELSE IF reversal[p].status = "pending" THEN "setwon" ELSE "restore")
  /\ Reads
SetStatus(w, status) ==
  /\ reversal' = [reversal EXCEPT ![Job(w)].status = status]
  /\ Go(w, "finish")
  /\ UNCHANGED <<org, period, ent, slot, pending, outranked>> /\ Writes
RememberWin(w) == At(w, "setwon") /\ SetStatus(w, "won")
MarkRestored(w) == At(w, "restored") /\ SetStatus(w, "restored")

(* restoreDisputedSubscriptionPeriod, restoreLifetimeForDispute: which one *)
(* the row says; a row that was never told restores nothing.  A second     *)
(* active lifetime plan violates the index and the delivery fails.         *)
Withheld(p, source) ==
  /\ reversal[p].source = source
  /\ \/ source = "subscription" /\ p \in Subs /\ period[p] = "disputed"
     \/ source = "lifetime" /\ p \in Sessions /\ ent[p] = "disputed"
RestorePeriod(w) ==
  /\ Withheld(Job(w), "subscription")
  /\ period' = [period EXCEPT ![Job(w)] = "paid"]
  /\ Go(w, "restored")
  /\ UNCHANGED <<ent, org>>
RestoreLifetime(w) ==
  LET o == Owner(w) IN
  /\ Withheld(Job(w), "lifetime")
  /\ \/ /\ Holders(o) # {}
        /\ Drop(w) /\ UNCHANGED <<ent, org>>
     \/ /\ Holders(o) = {}
        /\ ent' = [ent EXCEPT ![Job(w)] = "active"]
        /\ org' = [org EXCEPT ![o].plan = "lifetime"]
        /\ Go(w, "restored")
  /\ UNCHANGED period
RestoreNothing(w) ==
  /\ ~Withheld(Job(w), reversal[Job(w)].source)
  /\ Go(w, "finish")
  /\ UNCHANGED <<period, ent, org>>

(* restoreWonDispute, after the charge was retrieved again. *)
Restore(w) ==
  /\ At(w, "restore")
  /\ IF money[Job(w)] = "refunded" THEN SetStatus(w, "ignored")
     ELSE /\ RestorePeriod(w) \/ RestoreLifetime(w) \/ RestoreNothing(w)
          /\ UNCHANGED <<pending, reversal, slot, outranked>> /\ Writes

-----------------------------------------------------------------------------
Handler(w) ==
  \/ ReadHosted(w) \/ ProbeStored(w) \/ ClaimSubscription(w)
  \/ ReadTracked(w) \/ ProbeTracked(w) \/ CancelDuplicate(w) \/ GiveBack(w)
  \/ GrantPeriod(w) \/ ApplySnapshot(w) \/ EndBeside(w)
  \/ VerdictLifetime(w) \/ ReadSession(w) \/ ProbeBlocking(w) \/ ReadRival(w)
  \/ ClaimSlot(w)
  \/ LookUp(w) \/ RecordDispute(w) \/ Reverse(w) \/ CancelRefunded(w) \/ Queue(w)
  \/ StoreReversed(w) \/ Recall(w) \/ RememberWin(w) \/ Restore(w) \/ MarkRestored(w)
  \/ Finish(w)

Next ==
  \/ \E s \in Subs : Subscribe(s) \/ WindDown(s) \/ Resume(s) \/ RunOut(s)
  \/ \E l \in Sessions : BuyLifetime(l)
  \/ \E p \in Payments : Repay(p) \/ Contested(p) \/ Ruled(p)
  \/ Tick
  \/ \E w \in Workers : \/ \E e \in Event : Deliver(w, e)
                        \/ Handler(w) \/ Fail(w)

Spec == Init /\ [][Next]_vars

-----------------------------------------------------------------------------
Settled == (\A e \in Event : inbox[e] # "sent") /\ \A w \in Workers : worker[w] = Idle

(* Every lifetime entitlement that is active or disputed holds exactly one *)
(* slot, no slot is held by anything else, and an organisation's plan is   *)
(* lifetime exactly with the one that is active (claimLifetimeSlot and its *)
(* reversals) - unless a purchase that had been contested was refunded: if *)
(* that was beside a later one, downgradeOrgPlanAfterLifetimeLoss took the *)
(* plan of the later one too.                                              *)
Downgraded(o) == \E l \in Sessions : OwnerOf[l] = o /\ ent[l] = "released" /\ contest[l] # "none"
SlotsHeld ==
  /\ \A l \in Sessions :
       Cardinality({k \in Slots : slot[k] = l}) = IF ent[l] \in {"active", "disputed"} THEN 1 ELSE 0
  /\ \A o \in Orgs :
       /\ Cardinality(Holders(o)) <= 1
       /\ org[o].plan = "lifetime" => ActiveLifetime(o)
       /\ ActiveLifetime(o) => org[o].plan = "lifetime" \/ Downgraded(o)

Honoured(p) == IF p \in Subs THEN period[p] # "none" ELSE ent[p] # "none"
(* When every event is handled no payment is kept for nothing: it bought a *)
(* period or an entitlement, went back, or is contested at the bank.       *)
PaymentsAnswered ==
  Settled => \A p \in Payments :
    money[p] = "paid" /\ contest[p] = "none" => Honoured(p)

(* When every event is handled at most one subscription of an organisation *)
(* bills, and none beside a lifetime plan except towards its end.  A plan  *)
(* that a won dispute gave back is left out: restoreLifetimeForDispute     *)
(* looks at no subscription.                                               *)
OneBilling ==
  Settled => \A o \in Orgs :
    /\ Cardinality({s \in Subs : OwnerOf[s] = o /\ Running(s)}) <= 1
    /\ (\E l \in Holders(o) : contest[l] # "won") =>
         \A s \in Subs : OwnerOf[s] = o => sub[s] # "live"

(* Whoever paid has what it bought, and pays for nothing else.             *)
BuyersAnswered == PaymentsAnswered /\ OneBilling

(* When every event is handled nothing that was refunded or withdrawn      *)
(* still counts as paid, so no plan rests on it, in whatever order the     *)
(* events of a purchase, its refund and its dispute came - unless the      *)
(* reversal is queued to this day, because the invoice named no charge to  *)
(* find it by or the purchase was recorded between the lookup and the      *)
(* queue, or a won dispute outranked the refund of a lifetime plan.        *)
Waits(p) == \E r \in pending : r.of = p
PlanIsTrue ==
  Settled =>
    /\ \A s \in Subs : period[s] = "paid" /\ ~Waits(s) =>
         money[s] # "refunded" /\ contest[s] \notin {"open", "lost"}
    /\ \A l \in Sessions \ outranked : ent[l] = "active" /\ ~Waits(l) =>
         money[l] = "paid" /\ contest[l] \in {"none", "won"}
=============================================================================
