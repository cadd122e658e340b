----------------------------- MODULE Retention -----------------------------
(***************************************************************************)
(* The retention sweep of one account (zeroCredits.ts): an account whose   *)
(* every billed organisation is out of credits is warned, and erased when  *)
(* the grace runs out.  Cron invocations overlap, so two sweepers may hold *)
(* the same account; each step is one statement or one remote call.        *)
(*                                                                         *)
(* Time is counted in evaluations: each reads an instant of its own, and   *)
(* the intervals are in the same unit.  An evaluation may be outlasted by  *)
(* any number of others, which is more than its deadline allows.           *)
(***************************************************************************)
EXTENDS Naturals, FiniteSets

CONSTANTS Orgs, Sweepers, None,
          Notice, Grace,     \* ZERO_CREDIT_NOTICE_MS, ZERO_CREDIT_GRACE_MS
          MaxClock, MaxMoney \* evaluations, changes of funding: bounds

ConstantsOK == Notice \in Nat /\ Grace \in Nat /\ MaxClock \in Nat /\ None \notin Nat

VARIABLES clock,    \* the last instant
          row,      \* users: zero_credits_since, _notified_at, _warned_at
          live,     \* the account is not a tombstone
          org,      \* how each organisation of the account is funded
          paying,   \* organisations with a checkout that is not resolved
          moves,    \* changes of funding so far
          sweeper,  \* evaluations in progress
          mailed    \* history: when the last warning was delivered

money == <<org, paying, moves>>
vars == <<clock, row, live, money, sweeper, mailed>>

Clean == [since |-> None, notified |-> None, warned |-> None]
Idle == [at |-> "idle", read |-> Clean, now |-> 0]
Now == clock + 1

Init ==
  /\ clock = 0 /\ row = Clean /\ live = TRUE
  /\ org \in [Orgs -> {"unmetered", "funded"}] /\ paying = {} /\ moves = 0
  /\ sweeper = [w \in Sweepers |-> Idle] /\ mailed = 0

-----------------------------------------------------------------------------
(* Money: organisations are bought for, spend, and are refunded. *)

(* orgIsUnfunded: "past due" is funded, "unpaid" is not.  An organisation  *)
(* that never bought anything is not engaged; a lifetime one exempts all.  *)
Engaged == {o \in Orgs : org[o] # "unmetered"}
FundingState ==
  IF \E o \in Orgs : org[o] = "lifetime" THEN "funded"
  ELSE IF Engaged # {} /\ \A o \in Engaged : org[o] = "broke" THEN "broke" ELSE "funded"
HasInFlightPayment == paying # {}

Money == live /\ moves < MaxMoney /\ moves' = moves + 1
Still == UNCHANGED <<clock, row, live, sweeper, mailed>>
RunOut(o) ==
  /\ live /\ org[o] = "funded" /\ org' = [org EXCEPT ![o] = "broke"]
  /\ Still /\ UNCHANGED <<paying, moves>>
OpenCheckout(o) == Money /\ o \notin paying /\ paying' = paying \cup {o} /\ Still /\ UNCHANGED org
Pay(o) ==
  /\ live /\ o \in paying /\ paying' = paying \ {o}
  /\ \E to \in {org[o], "funded", "lifetime"} : org' = [org EXCEPT ![o] = IF @ = "lifetime" THEN @ ELSE to]
  /\ Still /\ UNCHANGED moves

-----------------------------------------------------------------------------
(* One evaluation. *)

Go(w, at) == sweeper' = [sweeper EXCEPT ![w].at = at]
Rest(w) == sweeper' = [sweeper EXCEPT ![w] = Idle]
At(w, at) == sweeper[w].at = at /\ UNCHANGED <<money>>
Read(w) == sweeper[w].read
SameSince(w) == row.since = Read(w).since
Kept == UNCHANGED <<row, live, clock, mailed>>

(* The batch is read once; a tombstone is never in it. *)
Sweep(w) ==
  /\ sweeper[w] = Idle /\ live /\ clock < MaxClock
  /\ sweeper' = [sweeper EXCEPT ![w] = [at |-> "evaluate", read |-> row, now |-> 0]]
  /\ Kept /\ UNCHANGED money

Age(w) == Now - Read(w).since
NeverWarnedAsClaimed(w) == Read(w).notified = None     \* a mutant
NeverWarned(w) == Read(w).warned = None \/ Read(w).warned < Read(w).since
NoticeDue(w) == Age(w) >= Notice /\ (Read(w).notified = None \/ Now - Read(w).notified >= Notice)

(* Each write is conditional on what the batch read. *)
ClearsAs(w) ==       \* funded again
  /\ row' = IF Read(w).since # None /\ SameSince(w) THEN Clean ELSE row
  /\ Rest(w)
Stamps(w) ==         \* first seen broke
  /\ row' = IF row.since = None THEN [Clean EXCEPT !.since = Now] ELSE row
  /\ Rest(w)
Restamps(w) ==       \* the grace is over without a delivered warning
  /\ row' = IF SameSince(w) /\ row.notified = Read(w).notified
              THEN [Clean EXCEPT !.since = Now] ELSE row
  /\ Rest(w)
Evaluate(w) ==
  /\ At(w, "evaluate") /\ clock < MaxClock /\ clock' = Now
  /\ CASE FundingState = "funded" -> ClearsAs(w)
       [] FundingState = "broke" /\ Read(w).since = None -> Stamps(w)
       [] FundingState = "broke" /\ Read(w).since # None /\ Age(w) >= Grace ->
            IF NeverWarned(w) THEN Restamps(w) ELSE (Go(w, "look") /\ UNCHANGED row)
       [] FundingState = "broke" /\ Read(w).since # None /\ Age(w) < Grace /\ NoticeDue(w) ->
            sweeper' = [sweeper EXCEPT ![w].at = "warn", ![w].now = Now] /\ UNCHANGED row
       [] OTHER -> Rest(w) /\ UNCHANGED row
  /\ UNCHANGED <<live, mailed>>

(* claimAndWarn: claim, check the funding again, send, mark as delivered.  *)
ClaimWarning(w) ==
  /\ At(w, "warn") /\ UNCHANGED <<live, clock, mailed>>
  /\ IF SameSince(w) /\ (row.notified = None \/ clock - row.notified >= Notice)
       THEN (row' = [row EXCEPT !.notified = sweeper[w].now] /\ Go(w, "verify"))
       ELSE (Rest(w) /\ UNCHANGED row)
Verify(w) ==
  /\ At(w, "verify") /\ UNCHANGED <<live, clock, mailed>>
  /\ IF FundingState = "broke" THEN (Go(w, "send") /\ UNCHANGED row) ELSE ClearsAs(w)
Send(w) == At(w, "send") /\ Go(w, "mark") /\ mailed' = clock /\ UNCHANGED <<row, live, clock>>
StillClaimed(w) == SameSince(w) /\ row.notified = sweeper[w].now
MarkWarned(w) ==
  /\ At(w, "mark") /\ Rest(w) /\ UNCHANGED <<live, clock, mailed>>
  /\ row' = IF StillClaimed(w) THEN [row EXCEPT !.warned = sweeper[w].now] ELSE row
(* The transport refuses or its answer is lost, or the mark cannot be      *)
(* written: the claim is given back.                                       *)
ReleaseWarning(w) ==
  /\ \/ At(w, "send") /\ mailed' \in {mailed, clock}
     \/ At(w, "mark") /\ UNCHANGED mailed
  /\ row' = IF row.notified = sweeper[w].now THEN [row EXCEPT !.notified = Read(w).notified] ELSE row
  /\ Rest(w) /\ UNCHANGED <<live, clock>>

(* claimAndDelete: an open payment defers it; the claim clears the clock;  *)
(* the erase transaction checks funding and payments again.                *)
LookForPayment(w) ==
  At(w, "look") /\ Kept /\ (IF HasInFlightPayment THEN Rest(w) ELSE Go(w, "claim"))
ClaimDeletion(w) ==
  /\ At(w, "claim") /\ UNCHANGED <<live, clock, mailed>>
  /\ IF SameSince(w) THEN (row' = Clean /\ Go(w, "recheck")) ELSE (Rest(w) /\ UNCHANGED row)
RecheckFunding(w) ==
  At(w, "recheck") /\ Kept /\ (IF FundingState = "broke" THEN Go(w, "erase") ELSE Rest(w))
Deletable == FundingState = "broke" /\ ~HasInFlightPayment
Erase(w) ==
  /\ At(w, "erase") /\ live /\ Deletable /\ live' = FALSE /\ Rest(w) /\ UNCHANGED <<row, clock, mailed>>
Abort(w) ==
  /\ At(w, "erase") /\ ~(live /\ Deletable) /\ Kept
  /\ IF live /\ FundingState = "broke" THEN Go(w, "restore") ELSE Rest(w)
Restore(w) ==
  /\ At(w, "restore") /\ Rest(w) /\ UNCHANGED <<live, clock, mailed>>
  /\ row' = IF row = Clean THEN Read(w) ELSE row

(* The process dies, the deadline is spent or a statement fails. *)
Crash(w) == sweeper[w] # Idle /\ Rest(w) /\ Kept /\ UNCHANGED money

Step(w) ==
  \/ Sweep(w) \/ Evaluate(w) \/ ClaimWarning(w) \/ Verify(w) \/ Send(w) \/ MarkWarned(w)
  \/ ReleaseWarning(w) \/ LookForPayment(w) \/ ClaimDeletion(w) \/ RecheckFunding(w)
  \/ Erase(w) \/ Abort(w) \/ Restore(w) \/ Crash(w)
Next ==
  \/ \E o \in Orgs : RunOut(o) \/ OpenCheckout(o) \/ Pay(o)
  \/ \E w \in Sweepers : Step(w)

Spec == Init /\ [][Next]_vars

-----------------------------------------------------------------------------
(* Properties. *)

Erasing(w) == sweeper[w].at = "erase" /\ live /\ ~live'

(* An account is erased only after a warning of the countdown that ran     *)
(* out was delivered, a full grace after that countdown began; a claim     *)
(* that was never sent, or a warning of an earlier countdown, is none.     *)
NeverErasedUnwarned ==
  [][\A w \in Sweepers : Erasing(w) =>
       /\ mailed >= Read(w).since + Notice /\ clock >= Read(w).since + Grace]_vars

============================================================================
