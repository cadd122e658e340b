------------------------------ MODULE Checkouts ------------------------------
(***************************************************************************)
(* One purchase through Stripe Checkout (billing/checkout.ts): the attempt *)
(* its button names, the session Stripe keeps for it and the customer it   *)
(* is made for. Tabs press the button again, sessions expire and are       *)
(* replaced, payments settle late, and the webhook and the success page    *)
(* fulfil what was paid. An attempt that is not over shields the account   *)
(* from erasure (zeroCredits.ts).                                          *)
(*                                                                         *)
(* Stripe answers a repeated idempotency key with what it answered first,  *)
(* for a day. A tab may die between any two steps, and an answer of Stripe *)
(* be lost, which is the same.                                             *)
(***************************************************************************)
EXTENDS Naturals, FiniteSets

CONSTANTS Tabs, None,
          MaxKeys, MaxSessions, MaxFaults   \* bounds

ConstantsOK == None \notin Nat /\ MaxKeys \in Nat \ {0} /\ {MaxSessions, MaxFaults} \subseteq Nat

VARIABLES session, answer, customers,   \* Stripe: sessions, answers by key, customers
          attempt, customer,            \* stripe_checkout_attempts; organizations
          tab, shown,                   \* what each tab does, the links it was given
          news, granted,                \* sessions that ended, not yet heard of; sessions fulfilled
          keys, faults,                 \* totals
          crossed                       \* history: a tab wrote over a replacement

vars == <<session, answer, customers, attempt, customer, tab, shown, news, granted, keys, faults, crossed>>
stripe == <<session, answer, customers, news>>

Sessions == 1..MaxSessions
Absent == [status |-> "absent", key |-> None, session |-> None]
Idle == [at |-> "idle", read |-> Absent, customer |-> None, session |-> None]

Init ==
  /\ session = [s \in Sessions |-> [status |-> "none", customer |-> None]]
  /\ answer = [k \in 1..MaxKeys |-> None] /\ customers = 0 /\ attempt = Absent /\ customer = None
  /\ tab = [t \in Tabs |-> Idle] /\ shown = {} /\ news = {} /\ granted = {}
  /\ keys = 0 /\ faults = 0 /\ crossed = FALSE

-----------------------------------------------------------------------------
(* A tab: createCreditCheckout, createPlanCheckout, createTestCheckout.    *)
At(t, at) == tab[t].at = at
Go(t, at) == tab' = [tab EXCEPT ![t].at = at]
Rest(t) == tab' = [tab EXCEPT ![t] = Idle]

Load(t) ==      \* loadOrCreateCheckoutAttempt
  /\ At(t, "idle")
  /\ IF attempt = Absent
     THEN keys' = keys + 1 /\ attempt' = [status |-> "pending", key |-> keys + 1, session |-> None]
     ELSE UNCHANGED <<keys, attempt>>
  /\ tab' = [tab EXCEPT ![t] = [Idle EXCEPT !.at = "resolve", !.read = attempt']]
  /\ UNCHANGED <<stripe, customer, shown, granted, faults, crossed>>
Read(t) == tab[t].read
Resolve(t) ==   \* resolveExistingCheckout
  /\ At(t, "resolve")
  /\ CASE Read(t).status = "fulfilled" -> Rest(t) /\ UNCHANGED shown
       [] Read(t).status # "fulfilled" /\ Read(t).session = None -> Go(t, "plan") /\ UNCHANGED shown
       [] OTHER ->
            LET found == session[Read(t).session].status IN
            /\ shown' = IF found = "open" THEN shown \cup {Read(t).session} ELSE shown
            /\ IF found = "expired" THEN Go(t, "replace") ELSE Rest(t)
  /\ UNCHANGED <<stripe, attempt, customer, granted, keys, faults, crossed>>
KeyOf(t) == [Read(t) EXCEPT !.status = "pending", !.session = None, !.key = keys + 1]
Overwrites(t) == crossed' = (crossed \/ attempt.key # Read(t).key)
Replace(t) ==
  /\ At(t, "replace") /\ keys < MaxKeys /\ keys' = keys + 1
  /\ attempt' = KeyOf(t)
  /\ tab' = [tab EXCEPT ![t].at = "plan", ![t].read = KeyOf(t)]
  /\ Overwrites(t)
  /\ UNCHANGED <<stripe, customer, shown, granted, faults>>
PlanAvailable(t) == At(t, "plan") /\ Go(t, "customer")   \* assertPlanAvailable, assertCreditsPurchasable
                    /\ UNCHANGED <<stripe, attempt, customer, shown, granted, keys, faults, crossed>>
PlanRefused(t) == At(t, "plan") /\ Rest(t)
                  /\ UNCHANGED <<stripe, attempt, customer, shown, granted, keys, faults, crossed>>

(* getOrCreateStripeCustomer: the answer to its key may be forgotten.      *)
ReadCustomer(t) ==
  /\ At(t, "customer")
  /\ tab' = [tab EXCEPT ![t].at = IF customer = None THEN "mint" ELSE "create", ![t].customer = customer]
  /\ UNCHANGED <<stripe, attempt, customer, shown, granted, keys, faults, crossed>>
MintCustomer(t) ==
  /\ At(t, "mint")
  /\ \E c \in {customers, customers + 1} \cap 1..2 :   \* forgotten once
       /\ customers' = c
       /\ tab' = [tab EXCEPT ![t].at = "claim", ![t].customer = c]
  /\ UNCHANGED <<session, answer, news, attempt, customer, shown, granted, keys, faults, crossed>>
Winner(t) == IF customer = None THEN tab[t].customer ELSE customer
ClaimCustomer(t) ==
  /\ At(t, "claim") /\ customer' = IF customer = None THEN tab[t].customer ELSE customer
  /\ tab' = [tab EXCEPT ![t].at = "create", ![t].customer = Winner(t)]
  /\ UNCHANGED <<stripe, attempt, shown, granted, keys, faults, crossed>>

(* createCheckoutAttempt: the session, and the row that names it.          *)
Unused == {s \in Sessions : session[s].status = "none"}
Create(t) ==
  /\ At(t, "create")
  /\ LET k == Read(t).key IN
     IF answer[k] # None
     THEN tab' = [tab EXCEPT ![t].at = "save", ![t].session = answer[k]] /\ UNCHANGED <<session, answer>>
     ELSE \E s \in Unused :
            /\ \A r \in Unused : s <= r
            /\ session' = [session EXCEPT ![s] = [status |-> "open", customer |-> tab[t].customer]]
            /\ answer' = [answer EXCEPT ![k] = s]
            /\ tab' = [tab EXCEPT ![t].at = "save", ![t].session = s]
  /\ UNCHANGED <<customers, news, attempt, customer, shown, granted, keys, faults, crossed>>
Save(t) ==
  /\ At(t, "save") /\ Rest(t)
  /\ attempt' = [attempt EXCEPT !.status = "open", !.session = tab[t].session]
  /\ shown' = shown \cup {tab[t].session}
  /\ Overwrites(t)
  /\ UNCHANGED <<stripe, customer, granted, keys, faults>>
Crash(t) ==
  /\ ~At(t, "idle") /\ faults < MaxFaults /\ faults' = faults + 1 /\ Rest(t)
  /\ UNCHANGED <<stripe, attempt, customer, shown, granted, keys, crossed>>

-----------------------------------------------------------------------------
(* At Stripe.                                                              *)
Become(s, status) == session' = [session EXCEPT ![s].status = status]
Outside == UNCHANGED <<answer, customers, attempt, customer, tab, shown, granted, keys, faults, crossed>>
Pay(s, status) ==    \* some methods settle later
  /\ session[s].status = "open" /\ s \in shown /\ status \in {"paid", "settling"} /\ Become(s, status)
  /\ UNCHANGED news /\ Outside
Settle(s, status) ==
  /\ session[s].status = "settling" /\ status \in {"paid", "failed"} /\ Become(s, status)
  /\ news' = IF status = "failed" THEN news \cup {s} ELSE news
  /\ Outside
Expire(s) ==
  /\ session[s].status = "open" /\ Become(s, "expired")
  /\ news' = news \cup {s} /\ Outside
Forget(k) ==         \* a day later, when no tab is about to use the key
  /\ answer[k] # None /\ session[answer[k]].status # "open" /\ \A t \in Tabs : At(t, "idle")
  /\ answer' = [answer EXCEPT ![k] = None]
  /\ UNCHANGED <<session, customers, news, attempt, customer, tab, shown, granted, keys, faults, crossed>>

(* dispatchCheckoutEvent, and stripeSuccess for what was paid: the credits *)
(* or the plan, then the attempt.                                          *)
NamesAny(s) == attempt.session # None   \* a mutant
Names(s) == attempt.session = s
Row(s, from, to) == IF Names(s) /\ attempt.status \in from
                    THEN [attempt EXCEPT !.status = to] ELSE attempt
Statuses == {"pending", "open", "fulfilled", "expired", "manual"}
Unfinished == {"pending", "open"}
Fulfil(s) ==
  /\ session[s].status = "paid" /\ s \notin granted /\ granted' = granted \cup {s}
  /\ UNCHANGED <<stripe, attempt, customer, tab, shown, keys, faults, crossed>>
MarkFulfilled(s) ==  \* markCheckoutAttemptFulfilled
  /\ s \in granted /\ attempt' = Row(s, Statuses, "fulfilled") /\ attempt' # attempt
  /\ UNCHANGED <<stripe, customer, tab, shown, granted, keys, faults, crossed>>
HearOver(s) ==
  /\ s \in news /\ news' = news \ {s}
  /\ attempt' = Row(s, Unfinished, "expired")
  /\ UNCHANGED <<session, answer, customers, customer, tab, shown, granted, keys, faults, crossed>>
RefundFails(s) ==    \* handleUngrantableRefundUpdate, for what could not be granted
  /\ session[s].status = "paid" /\ s \notin granted
  /\ attempt' = Row(s, Statuses, "manual") /\ attempt' # attempt
  /\ UNCHANGED <<stripe, customer, tab, shown, granted, keys, faults, crossed>>

Next ==
  \/ \E t \in Tabs :
       \/ Load(t) \/ Resolve(t) \/ Replace(t) \/ PlanAvailable(t) \/ PlanRefused(t)
       \/ ReadCustomer(t) \/ MintCustomer(t) \/ ClaimCustomer(t) \/ Create(t) \/ Save(t) \/ Crash(t)
  \/ \E s \in Sessions :
       \/ \E status \in {"paid", "settling", "failed"} : Pay(s, status) \/ Settle(s, status)
       \/ Expire(s) \/ HearOver(s) \/ Fulfil(s) \/ MarkFulfilled(s) \/ RefundFails(s)
  \/ \E k \in 1..MaxKeys : Forget(k)

Spec == Init /\ [][Next]_vars

-----------------------------------------------------------------------------
(* However often the button is pressed, in however many tabs, whatever     *)
(* dies: an attempt is paid at most once - unless a tab wrote over another *)
(* tab's replacement of an expired session, which it had not seen.         *)
Taken(s) == session[s].status \in {"paid", "settling"}
PaidOnce == Cardinality({s \in Sessions : Taken(s)}) <= 1 \/ crossed

(* While a link can still be paid, or a payment is not yet honoured, the   *)
(* attempt is one that keeps the account from being erased.                *)
Shields == {"pending", "open", "manual"}
Owed(s) == (Taken(s) /\ s \notin granted) \/ (session[s].status = "open" /\ s \in shown)
ShieldHeld == (\E s \in Sessions : Owed(s)) => attempt.status \in Shields \/ crossed

(* Every session is made for the customer the organization's row names.    *)
OneCustomer == \A s \in Sessions : session[s].customer \in {None, customer}

CheckoutsKept == PaidOnce /\ ShieldHeld /\ OneCustomer
=============================================================================
