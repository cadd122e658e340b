-------------------------------- MODULE Cards --------------------------------
(***************************************************************************)
(* The card auto top-up charges. Stripe keeps a customer's default card    *)
(* and their subscription's; the organization's row keeps a copy, which    *)
(* four kinds of events move (stripe/webhooks.ts): a paid checkout, a      *)
(* changed default, a removed card and a subscription. The owner consents  *)
(* to one card (usage/+page.server.ts), so a card that changes turns auto  *)
(* top-up off.                                                             *)
(*                                                                         *)
(* Events arrive in any order, handlers overlap, and one that fails is     *)
(* delivered again. Stripe's clock counts seconds in which several things  *)
(* happen.                                                                 *)
(***************************************************************************)
EXTENDS Naturals

CONSTANTS Cards, Handlers, None,
          MaxSecond, MaxChanges, MaxConsents, MaxFaults  \* bounds

ConstantsOK == None \notin Cards /\ {MaxSecond, MaxChanges, MaxConsents, MaxFaults} \subseteq Nat

VARIABLES second, wallet, default, subscribed, events,   \* Stripe
          pointer, cursor, subCursor, enabled, form,     \* organizations; the owner's request
          handler,
          changes, consents, faults,                     \* totals
          consented, overtaken, crossed                  \* history: see below

stripe == <<second, wallet, default, subscribed, changes>>
row == <<pointer, cursor, subCursor, enabled>>
owner == <<form, consents>>
vars == <<stripe, events, row, owner, handler, faults, consented, overtaken, crossed>>

Idle == [at |-> "idle", event |-> None, read |-> None, value |-> None]
Init ==
  /\ second = 1 /\ wallet = Cards /\ default = None /\ subscribed = None /\ events = {}
  /\ pointer = None /\ cursor = 0 /\ subCursor = 0 /\ enabled = FALSE /\ form = "none"
  /\ handler = [h \in Handlers |-> Idle]
  /\ changes = 0 /\ consents = 0 /\ faults = 0 /\ consented = None
  /\ overtaken = FALSE /\ crossed = FALSE

-----------------------------------------------------------------------------
(* At Stripe: the portal, the checkouts.                                   *)
Sent(kind, card) == [kind |-> kind, card |-> card, second |-> second]
Happens == changes < MaxChanges /\ changes' = changes + 1
Beside == UNCHANGED <<row, owner, handler, faults, consented, overtaken, crossed>>

Tick == second < MaxSecond /\ second' = second + 1
        /\ UNCHANGED <<wallet, default, subscribed, changes, events>> /\ Beside
ChooseDefault(c) ==
  /\ Happens /\ c \in wallet \ {default} /\ default' = c
  /\ events' = events \cup {Sent("updated", c)}
  /\ UNCHANGED <<second, wallet, subscribed>> /\ Beside
Remove(c) ==
  /\ Happens /\ c \in wallet \ {subscribed} /\ wallet' = wallet \ {c}
  /\ default' = IF default = c THEN None ELSE default
  /\ events' = events \cup {Sent("detached", c)}
                      \cup (IF default = c THEN {Sent("updated", None)} ELSE {})
  /\ UNCHANGED <<second, subscribed>> /\ Beside
Pay(c) ==
  /\ Happens /\ c \in wallet /\ events' = events \cup {Sent("checkout", c)}
  /\ UNCHANGED <<second, wallet, default, subscribed>> /\ Beside
Subscribe(c) ==
  /\ Happens /\ subscribed = None /\ c \in wallet /\ subscribed' = c
  /\ events' = events \cup {Sent("hosted", c), Sent("subscription", c)}
  /\ UNCHANGED <<second, wallet, default>> /\ Beside

-----------------------------------------------------------------------------
(* setAutoTopup: what the form was based on is compared as it is written.  *)
OpenForm == form = "none" /\ form' = (IF enabled THEN "on" ELSE "off")
            /\ UNCHANGED <<stripe, events, row, handler, consents, faults, consented, overtaken, crossed>>
Storing == {h \in Handlers : handler[h].at = "store"}
Enable ==   \* a change of threshold asks for no consent
  /\ form # "none" /\ form' = "none"
  /\ consents < MaxConsents /\ consents' = consents + 1
  /\ IF (form = "on") # enabled THEN UNCHANGED <<enabled, consented, overtaken>>
     ELSE /\ enabled' = TRUE
          /\ consented' = IF form = "off" THEN pointer ELSE consented
          /\ overtaken' = IF form = "off" THEN Storing # {} ELSE overtaken
  /\ UNCHANGED <<stripe, events, pointer, cursor, subCursor, handler, faults, crossed>>
Disable ==
  /\ enabled /\ enabled' = FALSE
  /\ UNCHANGED <<stripe, events, pointer, cursor, subCursor, owner, handler, faults, consented, overtaken, crossed>>

-----------------------------------------------------------------------------
(* The handlers. The copy changes together with the switch, in one         *)
(* statement everywhere but at the end of a checkout.                      *)
At(h, at) == handler[h].at = at
Rest(h) == handler' = [handler EXCEPT ![h] = Idle]
Go(h, at) == handler' = [handler EXCEPT ![h].at = at]
Event(h) == handler[h].event
Move(c) == pointer' = c /\ enabled' = FALSE
Alone == UNCHANGED <<stripe, owner, faults, consented, overtaken, crossed>>
Apart == UNCHANGED <<stripe, owner, faults>>
Between == {"prior", "off", "store", "apply", "fetch", "reconcile", "clear"}
Cross(h) == crossed' = (crossed \/ \E g \in Handlers \ {h} : handler[g].at \in Between)

Take(h, e, kind) ==    \* claimEvent
  At(h, "idle") /\ e \in events /\ e.kind = kind
Begin(h, e, at) == handler' = [handler EXCEPT ![h] = [Idle EXCEPT !.at = at, !.event = e]]
Done(e) == events' = events \ {e}
Fail(h) ==       \* it threw or died: Stripe delivers the event again
  /\ ~At(h, "idle") /\ faults < MaxFaults /\ faults' = faults + 1
  /\ events' = events \cup {Event(h)} /\ Rest(h)
  /\ UNCHANGED <<stripe, row, owner, consented, overtaken, crossed>>

(* savePaymentMethod: the card becomes the default at Stripe, the row is   *)
(* read, the switch turned off, the copy stored.                           *)
MakeDefault(h, e) ==
  /\ Take(h, e, "checkout") /\ e.card \in wallet /\ Begin(h, e, "prior")
  /\ default' = e.card
  /\ events' = (events \ {e}) \cup (IF default = e.card THEN {} ELSE {Sent("updated", e.card)})
  /\ UNCHANGED <<second, wallet, subscribed, changes, row, owner, faults, consented, overtaken, crossed>>
Refused(h, e) ==    \* a card removed since: refused each time, until Stripe gives up
  /\ Take(h, e, "checkout") /\ e.card \notin wallet /\ Done(e)
  /\ UNCHANGED <<handler, row>> /\ Alone
UncoveredNever(h) == FALSE   \* a mutant
Uncovered(h) == enabled /\ pointer \notin {None, Event(h).card}
ReadPrior(h) ==
  /\ At(h, "prior") /\ Go(h, IF Uncovered(h) THEN "off" ELSE "store")
  /\ UNCHANGED <<events, row>> /\ Alone
TurnOff(h) ==
  /\ At(h, "off") /\ Go(h, "store") /\ enabled' = FALSE
  /\ UNCHANGED <<events, pointer, cursor, subCursor>> /\ Alone
SaveCard(h) ==
  /\ At(h, "store") /\ Rest(h) /\ pointer' = Event(h).card
  /\ consented' = IF enabled /\ consented = None THEN Event(h).card ELSE consented
  /\ overtaken' = (overtaken \/ Storing # {h})
  /\ UNCHANGED <<events, cursor, subCursor, enabled>> /\ Apart /\ Cross(h)

(* handleCustomerUpdated: a payload needs an older cursor; within one      *)
(* second the live customer decides.                                       *)
ReadOrg(h, e) ==
  /\ Take(h, e, "updated") /\ Done(e)
  /\ handler' = [handler EXCEPT ![h] =
       IF e.second < cursor THEN Idle
       ELSE [at |-> IF e.second = cursor THEN "fetch" ELSE "apply",
             event |-> e, read |-> pointer, value |-> e.card]]
  /\ UNCHANGED row /\ Alone
FetchLive(h) ==
  /\ At(h, "fetch")
  /\ handler' = [handler EXCEPT ![h].at = "reconcile", ![h].value = default]
  /\ UNCHANGED <<events, row>> /\ Alone
Appliable(h) == IF At(h, "reconcile") THEN cursor <= Event(h).second ELSE cursor < Event(h).second
ReachesOnChange(h) == IF handler[h].value = handler[h].read THEN cursor ELSE Event(h).second  \* a mutant
Reaches(h) == Event(h).second
WriteDefault(h) ==
  /\ handler[h].at \in {"apply", "reconcile"} /\ Appliable(h) /\ Rest(h)
  /\ cursor' = Reaches(h)
  /\ IF handler[h].value = handler[h].read THEN UNCHANGED <<pointer, enabled>>
     ELSE Move(handler[h].value)
  /\ UNCHANGED <<events, subCursor, consented, overtaken>> /\ Apart /\ Cross(h)
LoseRace(h) ==   \* to the same second: once more, from the live customer
  /\ handler[h].at \in {"apply", "reconcile"} /\ ~Appliable(h)
  /\ IF At(h, "apply") /\ cursor = Event(h).second THEN Go(h, "fetch") ELSE Rest(h)
  /\ UNCHANGED <<events, row>> /\ Alone

(* handlePaymentMethodDetached. *)
LookUpCard(h, e) ==
  /\ Take(h, e, "detached") /\ Done(e)
  /\ IF pointer = e.card THEN Begin(h, e, "clear") ELSE UNCHANGED handler
  /\ UNCHANGED row /\ Alone
ClearCard(h) ==
  /\ At(h, "clear") /\ Rest(h)
  /\ IF pointer = Event(h).card THEN pointer' = None /\ enabled' = FALSE ELSE UNCHANGED <<pointer, enabled>>
  /\ UNCHANGED <<events, cursor, subCursor, consented, overtaken>> /\ Apart /\ Cross(h)

(* handleSubscriptionEvent stores a newer snapshot and then its card;      *)
(* fulfillHostedCheckout asks Stripe for the card.                         *)
Snapshot(h, e) ==   \* within one second the ids decide
  /\ Take(h, e, "subscription") /\ Done(e)
  /\ \E newer \in {TRUE} \cup (IF e.second = subCursor THEN {FALSE} ELSE {}) :
       IF e.second >= subCursor /\ newer
       THEN subCursor' = e.second /\ Begin(h, e, "card") ELSE UNCHANGED <<subCursor, handler>>
  /\ UNCHANGED <<pointer, cursor, enabled>> /\ Alone
AskCard(h, e) ==
  /\ Take(h, e, "hosted") /\ Done(e) /\ Begin(h, e, "card") /\ UNCHANGED row /\ Alone
InTime(h) == Event(h).kind = "hosted" \/ subCursor <= Event(h).second
SyncCard(h) ==   \* applySubscriptionDefaultPm
  /\ At(h, "card") /\ Rest(h)
  /\ IF InTime(h) /\ pointer # Event(h).card THEN Move(Event(h).card)
     ELSE UNCHANGED <<pointer, enabled>>
  /\ UNCHANGED <<events, cursor, subCursor, consented, overtaken>> /\ Apart /\ Cross(h)

Next ==
  \/ Tick \/ OpenForm \/ Enable \/ Disable
  \/ \E c \in Cards : ChooseDefault(c) \/ Remove(c) \/ Pay(c) \/ Subscribe(c)
  \/ \E h \in Handlers :
       \/ \E e \in events :
            \/ MakeDefault(h, e) \/ Refused(h, e) \/ ReadOrg(h, e) \/ LookUpCard(h, e)
            \/ Snapshot(h, e) \/ AskCard(h, e)
       \/ Fail(h) \/ ReadPrior(h) \/ TurnOff(h) \/ SaveCard(h)
       \/ FetchLive(h) \/ WriteDefault(h) \/ LoseRace(h) \/ ClearCard(h) \/ SyncCard(h)

Spec == Init /\ [][Next]_vars

-----------------------------------------------------------------------------
(* While auto top-up is on, the card it charges is the one its owner       *)
(* agreed to, whichever events move the copy and however late - unless     *)
(* they agreed, or another checkout stored its card, while a checkout that *)
(* had found the switch off was about to store one.                        *)
ConsentCoversCard == enabled => consented \in {None, pointer} \/ overtaken

(* Once every event was handled, in whatever order and however often, the  *)
(* copy is the customer's default card or the subscription's - unless a    *)
(* handler wrote the row between another's read of it and its write.       *)
Quiet == events = {} /\ \A h \in Handlers : At(h, "idle")
CopySettles == Quiet => pointer \in {default, subscribed} \/ crossed
=============================================================================
