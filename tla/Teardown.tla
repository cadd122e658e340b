------------------------------ MODULE Teardown ------------------------------
(***************************************************************************)
(* What an erased account leaves at Stripe and at Google, and the three    *)
(* outboxes that see it go: deletion.ts, with the requests that may still  *)
(* run while the account is erased (getOrCreateStripeCustomer of           *)
(* billing/checkout.ts, upsertChannelConnection of channelConnect.ts, and  *)
(* the disconnect action of the channel page).                             *)
(*                                                                         *)
(* A worker is a drain that serves one row: right after the commit, or in  *)
(* a later cron tick.  It takes one step per remote call and per write and *)
(* may fail between two; a remote call may also do its work and lose the   *)
(* answer.  The batch limit, the hourly backoff and the shared deadline    *)
(* only delay a row: rows rotate by their last attempt.                    *)
(***************************************************************************)
EXTENDS Naturals, FiniteSets

CONSTANTS Users, Orgs, Channels, Workers, None,
          MembersOf,    \* who is in each organisation at first
          HomeOf,       \* the organisation of each channel
          MaxFaults     \* failures of calls and processes: a bound

ASSUME ConstantsOK ==
  /\ MembersOf \in [Orgs -> SUBSET Users] /\ HomeOf \in [Channels -> Orgs]
  /\ {None, "clean", "deleted"} \cap Users = {} /\ None \notin {"clean", "deleted"}
  /\ MaxFaults \in Nat

Grants == Channels \X Users   \* what a user lets us do with a channel

VARIABLES account,      \* users: live, or a tombstone
          members,      \* memberships; an organisation without any is gone
          customer,     \* Stripe: the customer of each organisation, or whose
                        \* e-mail it carries
          stored,       \* organizations.stripe_customer_id is set
          topup,        \* an automatic payment is under way
          recovery,     \* stripe_auto_topup_recoveries
          grant,        \* Google: the grants
          token,        \* channels.refresh_token_enc: whose, if any
          deletionBox, scrubBox, grantBox,   \* the outboxes
          worker,
          visit,        \* a checkout or a connection in progress
          late,         \* history: brought in by a request that outlived the
                        \* account, or overwritten before it was erased
          misses        \* faults so far

accounts == <<account, members, topup, recovery>>
boxes == <<deletionBox, scrubBox, grantBox>>
vars == <<accounts, customer, stored, grant, token, boxes, worker, visit, late, misses>>

Idle == [at |-> "idle", on |-> None]
Alive(o) == members[o] # {}

Init ==
  /\ account = [u \in Users |-> "live"] /\ members = MembersOf
  /\ customer = [o \in Orgs |-> None] /\ stored = {}
  /\ topup = {} /\ recovery = [o \in Orgs |-> "none"]
  /\ grant = [g \in Grants |-> "none"] /\ token = [c \in Channels |-> None]
  /\ deletionBox = {} /\ scrubBox = {} /\ grantBox = {}
  /\ worker = [w \in Workers |-> Idle] /\ visit = Idle /\ late = {} /\ misses = 0

Fault == misses < MaxFaults /\ misses' = misses + 1

-----------------------------------------------------------------------------
(* Requests of members, which their account may not outlive. *)

Enter(kind, u, on) == visit = Idle /\ visit' = [at |-> kind, on |-> on, by |-> u]
Outlived == account[visit.by] = "erased"

(* A first checkout: the customer carries the e-mail of who opened it.     *)
OpenCheckout(u, o) ==
  /\ u \in members[o] /\ o \notin stored /\ Enter("create", u, o)
  /\ UNCHANGED <<accounts, customer, stored, grant, token, boxes, worker, late, misses>>
CreateCustomer ==
  /\ visit.at = "create" /\ visit' = [visit EXCEPT !.at = "store"]
  /\ customer' = [customer EXCEPT ![visit.on] = IF @ = None THEN visit.by ELSE @]
  /\ UNCHANGED <<accounts, stored, grant, token, boxes, worker, late, misses>>
StoreCustomer ==
  /\ visit.at = "store" /\ visit' = Idle
  /\ stored' = IF Alive(visit.on) THEN stored \cup {visit.on} ELSE stored
  /\ late' = IF Outlived THEN late \cup {visit.on} ELSE late
  /\ UNCHANGED <<accounts, customer, grant, token, boxes, worker, misses>>

(* Connecting a channel: Google grants, then one conditional upsert, which *)
(* a teammate may use to hand the channel over.                            *)
Connect(u, c) ==
  /\ u \in members[HomeOf[c]] /\ Enter("upsert", u, c)
  /\ grant' = [grant EXCEPT ![<<c, u>>] = "live"]
  /\ UNCHANGED <<accounts, customer, stored, token, boxes, worker, late, misses>>
UpsertChannelConnection ==
  LET c == visit.on IN
  /\ visit.at = "upsert" /\ visit' = Idle
  /\ IF Alive(HomeOf[c])
       THEN /\ token' = [token EXCEPT ![c] = visit.by]
            /\ late' = late \cup (IF token[c] \in Users \ {visit.by} THEN {<<c, token[c]>>} ELSE {})
                            \cup (IF Outlived THEN {<<c, visit.by>>} ELSE {})
       ELSE /\ late' = late \cup {<<c, visit.by>>} /\ UNCHANGED token
  /\ UNCHANGED <<accounts, customer, stored, grant, boxes, worker, misses>>

(* Disconnecting one: the grant is revoked if Google answers, and the row  *)
(* goes if it is still of this organisation, with the token it has then.   *)
Disconnect(u, c) ==
  /\ u \in members[HomeOf[c]] /\ token[c] \in Users /\ visit = Idle
  /\ visit' = [at |-> "disconnect", on |-> c, by |-> u]
  /\ \E g \in {grant, [grant EXCEPT ![<<c, token[c]>>] = "revoked"]} : grant' = g
  /\ UNCHANGED <<accounts, customer, stored, token, boxes, worker, late, misses>>
DeleteChannelRecords ==
  LET c == visit.on IN
  /\ visit.at = "disconnect" /\ visit' = Idle /\ token' = [token EXCEPT ![c] = None]
  /\ late' = IF token[c] \in Users THEN late \cup {<<c, token[c]>>} ELSE late
  /\ UNCHANGED <<accounts, customer, stored, grant, boxes, worker, misses>>

Abandon ==
  /\ Fault /\ visit # Idle /\ visit' = Idle
  /\ late' = late \cup (CASE visit.at = "store" -> {visit.on}
                          [] visit.at = "upsert" -> {<<visit.on, visit.by>>}
                          [] OTHER -> {})
  /\ UNCHANGED <<accounts, customer, stored, grant, token, boxes, worker>>

(* An automatic payment begins and ends; its recovery is settled by        *)
(* refunding or canceling it (AutoTopup).                                  *)
StartTopup(o) ==
  /\ Alive(o) /\ o \in stored \ topup /\ recovery[o] = "none" /\ topup' = topup \cup {o}
  /\ UNCHANGED <<account, members, recovery, customer, stored, grant, token, boxes, worker, visit, late, misses>>
EndTopup(o) ==
  /\ o \in topup /\ topup' = topup \ {o}
  /\ UNCHANGED <<account, members, recovery, customer, stored, grant, token, boxes, worker, visit, late, misses>>
Recover(o) ==
  /\ recovery[o] = "open" /\ recovery' = [recovery EXCEPT ![o] = "resolved"]
  /\ UNCHANGED <<account, members, topup, customer, stored, grant, token, boxes, worker, visit, late, misses>>

-----------------------------------------------------------------------------
(* deleteUserRecords: one transaction that writes every obligation down.   *)

Dissolved(u) == {o \in Orgs : members[o] = {u}}
Surviving(u) == {o \in Orgs : u \in members[o] /\ members[o] # {u}}
Captured(u) == {c \in Channels : token[c] = u \/ (token[c] \in Users /\ HomeOf[c] \in Dissolved(u))}

Erase(u) ==
  /\ account[u] = "live" /\ account' = [account EXCEPT ![u] = "erased"]
  /\ members' = [o \in Orgs |-> members[o] \ {u}]
  /\ scrubBox' = scrubBox \cup (Surviving(u) \cap stored)
  /\ deletionBox' = deletionBox \cup (Dissolved(u) \cap stored)
  /\ grantBox' = grantBox \cup {<<c, token[c]>> : c \in Captured(u)}
  /\ token' = [c \in Channels |-> IF c \in Captured(u) THEN None ELSE token[c]]
  /\ recovery' = [o \in Orgs |-> IF o \in Dissolved(u) /\ o \in topup THEN "open" ELSE recovery[o]]
  /\ topup' = topup \ Dissolved(u)
  /\ UNCHANGED <<customer, stored, grant, worker, visit, late, misses>>

-----------------------------------------------------------------------------
(* The drains. *)

Go(w, at) == worker' = [worker EXCEPT ![w].at = at]
Rest(w) == worker' = [worker EXCEPT ![w] = Idle]
Busy(w, at) == worker[w].at = at
Sparing(w) == UNCHANGED <<accounts, stored, token, visit, late>>

(* Any row may come first: two drains may serve the same one. *)
Pick(w, kind, x) ==
  /\ worker[w] = Idle /\ worker' = [worker EXCEPT ![w] = [at |-> kind, on |-> x]]
  /\ Sparing(w) /\ UNCHANGED <<customer, grant, boxes, misses>>
ServeDeletion(w, o) == o \in deletionBox /\ Pick(w, "cancel", o)
ServeScrub(w, o) == o \in scrubBox /\ Pick(w, "scrub", o)
ServeGrant(w, g) == g \in grantBox /\ Pick(w, "revoke", g)

(* deleteStripeCustomer: subscriptions are canceled, which tells whether   *)
(* the customer is already gone; an unsettled payment defers the rest.     *)
MissingFails(w) == customer[worker[w].on] # "deleted"   \* a mutant
MissingIsDone(w) == TRUE
DeferredNever(o) == FALSE                               \* a mutant
Deferred(o) == recovery[o] = "open"
CancelSubscriptions(w) ==
  /\ Busy(w, "cancel") /\ (IF MissingIsDone(w) THEN Go(w, "check") ELSE Rest(w))
  /\ Sparing(w) /\ UNCHANGED <<customer, grant, boxes, misses>>
CheckRecovery(w) ==
  /\ Busy(w, "check") /\ (IF Deferred(worker[w].on) THEN Rest(w) ELSE Go(w, "del"))
  /\ Sparing(w) /\ UNCHANGED <<customer, grant, boxes, misses>>
DeleteCustomer(w) ==
  /\ Busy(w, "del") /\ Go(w, "unlist")
  /\ customer' = [customer EXCEPT ![worker[w].on] = "deleted"]
  /\ Sparing(w) /\ UNCHANGED <<grant, boxes, misses>>
(* Settled recoveries of the customer are deleted in the same stretch. *)
Unlist(w) ==
  /\ Busy(w, "unlist") /\ Go(w, "unscrub") /\ deletionBox' = deletionBox \ {worker[w].on}
  /\ Sparing(w) /\ UNCHANGED <<customer, grant, scrubBox, grantBox, misses>>
(* The deletion also discharges a scrub that an earlier departure queued.  *)
Unscrub(w) ==
  /\ Busy(w, "unscrub") /\ Rest(w) /\ scrubBox' = scrubBox \ {worker[w].on}
  /\ Sparing(w) /\ UNCHANGED <<customer, grant, deletionBox, grantBox, misses>>

(* applyScrubOutboxRow: a customer that is gone discharges the row. *)
Scrub(w) ==
  /\ Busy(w, "scrub") /\ Go(w, "unscrub")
  /\ customer' = [customer EXCEPT ![worker[w].on] = IF @ \in Users THEN "clean" ELSE @]
  /\ Sparing(w) /\ UNCHANGED <<grant, boxes, misses>>

(* Google refuses a token it no longer knows, and any refusal leaves the   *)
(* row queued (postGoogleForm).                                            *)
Revoke(w) ==
  LET g == worker[w].on IN
  /\ Busy(w, "revoke") /\ grant' = [grant EXCEPT ![g] = "revoked"]
  /\ (IF grant[g] = "live" THEN Go(w, "ungrant") ELSE Rest(w))
  /\ Sparing(w) /\ UNCHANGED <<customer, boxes, misses>>
Ungrant(w) ==
  /\ Busy(w, "ungrant") /\ Rest(w) /\ grantBox' = grantBox \ {worker[w].on}
  /\ Sparing(w) /\ UNCHANGED <<customer, grant, deletionBox, scrubBox, misses>>

(* A call fails, or its answer is lost, or the process dies: the row is    *)
(* kept with its attempt counted.                                          *)
ForgetOnFailure(w) == {worker[w].on}   \* a mutant
Forgotten(w) == {}
Fail(w) ==
  /\ Fault /\ worker[w] # Idle /\ Rest(w)
  /\ \E done \in BOOLEAN :
       /\ customer' = IF done /\ Busy(w, "del") THEN [customer EXCEPT ![worker[w].on] = "deleted"]
                      ELSE IF done /\ Busy(w, "scrub") /\ customer[worker[w].on] \in Users
                        THEN [customer EXCEPT ![worker[w].on] = "clean"] ELSE customer
       /\ grant' = IF done /\ Busy(w, "revoke") THEN [grant EXCEPT ![worker[w].on] = "revoked"] ELSE grant
  /\ scrubBox' = scrubBox \ Forgotten(w)
  /\ Sparing(w) /\ UNCHANGED <<deletionBox, grantBox>>

-----------------------------------------------------------------------------
Step(w) ==
  \/ CancelSubscriptions(w) \/ CheckRecovery(w) \/ DeleteCustomer(w) \/ Unlist(w) \/ Unscrub(w)
  \/ Scrub(w) \/ Revoke(w) \/ Ungrant(w)
Next ==
  \/ CreateCustomer \/ StoreCustomer \/ UpsertChannelConnection \/ DeleteChannelRecords \/ Abandon
  \/ \E u \in Users : \/ Erase(u) \/ (\E o \in Orgs : OpenCheckout(u, o))
                      \/ (\E c \in Channels : Connect(u, c) \/ Disconnect(u, c))
  \/ \E o \in Orgs : StartTopup(o) \/ EndTopup(o) \/ Recover(o)
  \/ \E w \in Workers : \/ Step(w) \/ Fail(w) \/ (\E g \in Grants : ServeGrant(w, g))
                        \/ (\E o \in Orgs : ServeDeletion(w, o) \/ ServeScrub(w, o))

(* The cron keeps draining, each row gets its turn (the batch is ordered   *)
(* by last attempt), and the recovery sweep settles what Stripe lets it.   *)
Fairness ==
  /\ \A w \in Workers : WF_vars(Step(w))
  /\ \A o \in Orgs : WF_vars(Recover(o)) /\ SF_vars(\E w \in Workers : ServeDeletion(w, o))
                       /\ SF_vars(\E w \in Workers : ServeScrub(w, o))
  /\ \A g \in Grants : SF_vars(\E w \in Workers : ServeGrant(w, g))

Spec == Init /\ [][Next]_vars /\ Fairness

-----------------------------------------------------------------------------
(* Properties. *)

Gone(u) == account[u] = "erased"
(* What a provider still holds of erased accounts: customers of dissolved  *)
(* organisations, e-mails of members who left, grants.                     *)
HeldCustomers == {o \in Orgs \ late : ~Alive(o) /\ customer[o] \in Users \cup {"clean"}}
HeldMails == {o \in Orgs \ late : customer[o] \in Users /\ Gone(customer[o])}
HeldGrants == {g \in Grants \ late : Gone(g[2]) /\ grant[g] = "live"}

(* Whatever a provider still holds of an erased account is written down    *)
(* for a drain, through every failure, overlap and succession of           *)
(* departures.  A request that outlived the account is excepted.           *)
NothingForgotten ==
  visit = Idle => /\ HeldCustomers \subseteq deletionBox
                  /\ HeldMails \subseteq scrubBox \cup deletionBox
                  /\ HeldGrants \subseteq grantBox

(* A customer is deleted only once its last automatic payment is settled:  *)
(* until then the refund can still be made.                                *)
PaymentSettledFirst ==
  [][\A o \in Orgs : customer[o] # "deleted" /\ customer'[o] = "deleted" => recovery[o] # "open"]_vars

(* Every erasure is carried out in the end: with accounts finite in        *)
(* number, a time comes from which no customer, e-mail or grant of theirs  *)
(* waits, whatever failed on the way.                                      *)
Owed == {o \in deletionBox : customer[o] # "deleted"} \cup (scrubBox \cap HeldMails)
          \cup {g \in grantBox : grant[g] = "live"}
ErasureCompletes == <>[](Owed = {} /\ deletionBox \cup scrubBox = {})
=============================================================================
