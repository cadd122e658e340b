------------------------------ MODULE Delivery ------------------------------
(***************************************************************************)
(* The welcome of an account, which must go out once (welcomeEmail.ts,     *)
(* welcomeEnrollment.ts, welcomeBackfill.ts, welcomeDeliveryOutcome.ts),   *)
(* over an SMTP client that may not learn whether its message was taken    *)
(* (protonMail.ts).                                                        *)
(*                                                                         *)
(* Mailers are cron invocations; they overlap, may die between two steps,  *)
(* and may outlive their lease.  Clocks are left out: a lease or the       *)
(* throttle is over when the model says so.  Every claim draws a token of  *)
(* its own.                                                                *)
(***************************************************************************)
EXTENDS Naturals, FiniteSets, FiniteSetsExt

CONSTANTS LastUser,            \* accounts, in the order of their ids
          Mailers, None,
          Signups,             \* accounts that do not exist yet at first
          MaxTries,            \* MAX_ATTEMPTS
          MaxTokens, MaxFaults \* claims and failures: bounds

Users == 1..LastUser

ConstantsOK ==
  /\ LastUser \in Nat /\ Signups \subseteq Users /\ None \notin Nat
  /\ MaxTries \in Nat /\ MaxTokens \in Nat /\ MaxFaults \in Nat

VARIABLES account,    \* users: absent, live, or a tombstone
          welcome,    \* welcome_emails
          throttled,  \* welcome_campaigns.next_attempt_at is ahead
          discovery,  \* welcome_discovery: the traversal and who has it
          mailer,
          tokens, faults,    \* totals
          welcomes,   \* history: what was delivered
          failed             \* history: accounts this traversal gave up on

tables == <<account, welcome, throttled, discovery>>
history == <<welcomes, failed>>
vars == <<tables, mailer, tokens, faults, history>>

Unsent == [state |-> "unsent", token |-> None, leased |-> FALSE, tries |-> 0]
Free == [after |-> 0, end |-> None, token |-> None, leased |-> FALSE]
Idle == [at |-> "idle", on |-> None, token |-> None, tries |-> 0, last |-> FALSE]

Init ==
  /\ account = [u \in Users |-> IF u \in Signups THEN "absent" ELSE "live"]
  /\ welcome = [u \in Users |-> Unsent] /\ throttled = FALSE /\ discovery = Free
  /\ mailer = [m \in Mailers |-> Idle]
  /\ tokens = 0 /\ faults = 0 /\ failed = {}
  /\ welcomes = [u \in Users |-> 0]

-----------------------------------------------------------------------------
At(m, at) == mailer[m].at = at
Go(m, at) == mailer' = [mailer EXCEPT ![m].at = at]
Rest(m) == mailer' = [mailer EXCEPT ![m] = Idle]
Take(m, at, x) ==    \* a claim: a fresh token
  /\ mailer[m] = Idle /\ tokens < MaxTokens /\ tokens' = tokens + 1
  /\ mailer' = [mailer EXCEPT ![m] = [Idle EXCEPT !.at = at, !.on = x, !.token = tokens + 1]]
Fault == faults < MaxFaults /\ faults' = faults + 1

Row(m) == welcome[mailer[m].on]
Owned(m) == Row(m).token = mailer[m].token /\ Row(m).token # None
Put(m, state) == welcome' = [welcome EXCEPT ![mailer[m].on] =
                    [@ EXCEPT !.state = state, !.token = None, !.leased = FALSE]]

(* enqueueWelcome: inside the transaction that signs an account up, or     *)
(* that moves the traversal past it.                                       *)
Enqueued(u, w) == IF w[u].state = "unsent" THEN [w EXCEPT ![u].state = "queued"] ELSE w
SignUp(u) ==
  /\ account[u] = "absent" /\ account' = [account EXCEPT ![u] = "live"]
  /\ \A v \in Users : v < u => account[v] # "absent"
  /\ welcome' = Enqueued(u, welcome)
  /\ UNCHANGED <<throttled, discovery, mailer, tokens, faults, history>>
Erase(u) ==     \* deleteUserRecords takes the row away
  /\ account[u] = "live" /\ account' = [account EXCEPT ![u] = "erased"]
  /\ welcome' = [welcome EXCEPT ![u] = [Unsent EXCEPT !.state = "gone"]]
  /\ UNCHANGED <<throttled, discovery, mailer, tokens, faults, history>>

(* Time: leases and the throttle run out. *)
LeaseEnds(u) ==
  /\ welcome[u].leased /\ welcome' = [welcome EXCEPT ![u].leased = FALSE]
  /\ UNCHANGED <<account, throttled, discovery, mailer, tokens, faults, history>>
ThrottleEnds ==
  /\ throttled /\ throttled' = FALSE
  /\ UNCHANGED <<account, welcome, discovery, mailer, tokens, faults, history>>
TraversalEnds ==
  /\ discovery.leased /\ discovery' = [discovery EXCEPT !.leased = FALSE]
  /\ UNCHANGED <<account, welcome, throttled, mailer, tokens, faults, history>>

-----------------------------------------------------------------------------
(* One welcome (deliverWelcome). *)

Due(u) == welcome[u].state \in {"queued", "retry"}
ClaimWelcome(m, u) ==
  /\ Due(u) /\ ~throttled /\ Take(m, "prepare", u) /\ throttled' = TRUE
  /\ welcome' = [welcome EXCEPT ![u] = [@ EXCEPT !.state = "claimed", !.token = tokens', !.leased = TRUE]]
  /\ UNCHANGED <<account, discovery, faults, history>>
(* A claim that was lost meanwhile is left alone; a row that may not be    *)
(* mailed is suppressed; a spent deadline puts it back.                    *)
Prepare(m) ==
  /\ At(m, "prepare")
  /\ IF Owned(m) /\ Row(m).state = "claimed"
       THEN \/ mailer' = [mailer EXCEPT ![m].at = "start", ![m].tries = Row(m).tries] /\ UNCHANGED welcome
            \/ \E to \in {"suppressed", "queued"} : Put(m, to) /\ Rest(m)
       ELSE Rest(m) /\ UNCHANGED welcome
  /\ UNCHANGED <<account, throttled, discovery, tokens, faults, history>>
Startable(m) ==
  Owned(m) /\ Row(m).state = "claimed" /\ Row(m).leased /\ account[mailer[m].on] = "live"
StartSubmission(m) ==
  /\ At(m, "start")
  /\ IF Startable(m)
       THEN /\ Go(m, "send") /\ throttled' = TRUE
            /\ welcome' = [welcome EXCEPT ![mailer[m].on] = [Row(m) EXCEPT !.state = "flight", !.tries = @ + 1]]
       ELSE Rest(m) /\ UNCHANGED <<throttled, welcome>>
  /\ UNCHANGED <<account, discovery, tokens, faults, history>>
(* sendProtonMailEmail: taken; refused for certain, for good, for now or   *)
(* for the whole deployment; or the outcome is not known.                  *)
Send(m) ==
  /\ At(m, "send") /\ Go(m, "accepted")
  /\ welcomes' = [welcomes EXCEPT ![mailer[m].on] = @ + 1]
  /\ UNCHANGED <<tables, tokens, faults, failed>>
Refused(m) ==
  /\ At(m, "send") /\ Fault /\ \E how \in {"permanent", "retryable", "outage"} : Go(m, how)
  /\ UNCHANGED <<tables, tokens, history>>
Unknown(m) ==
  /\ At(m, "send") /\ Fault /\ Go(m, "unknown")
  /\ \E n \in {0, 1} : welcomes' = [welcomes EXCEPT ![mailer[m].on] = @ + n]
  /\ UNCHANGED <<tables, tokens, failed>>
(* recordWelcomeAcceptance, recordWelcomeFailure. *)
InFlight(m) == Owned(m) /\ Row(m).state = "flight"
Verdict(m) ==
  CASE At(m, "accepted") -> "accepted"
    [] At(m, "unknown") -> "ambiguous"
    [] At(m, "permanent") -> "failed"
    [] At(m, "retryable") -> IF mailer[m].tries + 1 >= MaxTries THEN "failed" ELSE "retry"
    [] At(m, "outage") -> "queued"      \* not counted as a try, and the campaign waits
Record(m) ==
  /\ mailer[m].at \in {"accepted", "unknown", "permanent", "retryable", "outage"} /\ Rest(m)
  /\ throttled' = (throttled \/ At(m, "outage"))
  /\ welcome' = IF ~InFlight(m) THEN welcome
                ELSE [welcome EXCEPT ![mailer[m].on] =
                       [state |-> Verdict(m), token |-> None, leased |-> FALSE,
                        tries |-> IF At(m, "outage") THEN mailer[m].tries ELSE @.tries]]
  /\ UNCHANGED <<account, discovery, tokens, faults, history>>
(* recoverExpiredClaims: only a claim that never submitted starts over.    *)
RecoveredToQueue(u) == "queued"         \* a mutant
Recovered(u) == IF welcome[u].state = "claimed" THEN "queued" ELSE "ambiguous"
Recover(u) ==
  /\ welcome[u].state \in {"claimed", "flight"} /\ ~welcome[u].leased
  /\ welcome' = [welcome EXCEPT ![u] = [@ EXCEPT !.state = Recovered(u), !.token = None]]
  /\ UNCHANGED <<account, throttled, discovery, mailer, tokens, faults, history>>

-----------------------------------------------------------------------------
(* The traversal that enrolls older accounts (enrollWelcomeCandidates), a  *)
(* page of one account at a time.                                          *)

Existing == {u \in Users : account[u] # "absent"}
ClaimDiscovery(m) ==
  LET d == IF discovery.end = None THEN [Free EXCEPT !.end = Max(Existing)] ELSE discovery
      page == {u \in Existing : u > d.after /\ u <= d.end}
  IN /\ ~discovery.leased /\ Existing # {}
     /\ mailer[m] = Idle /\ tokens < MaxTokens /\ tokens' = tokens + 1
     /\ discovery' = [d EXCEPT !.token = tokens', !.leased = TRUE]
     /\ mailer' = [mailer EXCEPT ![m] = [Idle EXCEPT !.token = tokens',
                     !.at = IF page = {} THEN "release" ELSE "inspect",
                     !.on = IF page = {} THEN None ELSE Min(page), !.last = page = {}]]
     /\ failed' = IF discovery.end = None THEN {} ELSE failed
     /\ UNCHANGED <<account, welcome, throttled, faults, welcomes>>
HoldsStale(m) == TRUE                   \* a mutant
Holds(m) == discovery.token = mailer[m].token
Finishes(m) == [mailer[m] EXCEPT !.at = "release", !.last = mailer[m].on = discovery.end]
Inspect(m) ==
  LET u == mailer[m].on IN
  /\ At(m, "inspect")
  /\ IF Holds(m) /\ discovery.leased
       THEN /\ discovery' = [discovery EXCEPT !.after = u] /\ mailer' = [mailer EXCEPT ![m] = Finishes(m)]
            /\ welcome' = IF account[u] = "live" THEN Enqueued(u, welcome) ELSE welcome
       ELSE Go(m, "release") /\ UNCHANGED <<discovery, welcome>>
  /\ UNCHANGED <<account, throttled, tokens, faults, history>>
(* An account that cannot be enrolled is passed over, by a statement of    *)
(* its own: the lease may be over, the traversal must still be ours.       *)
InspectFails(m) ==
  /\ At(m, "inspect") /\ Fault /\ Go(m, "pass") /\ UNCHANGED <<tables, tokens, history>>
PassOver(m) ==
  /\ At(m, "pass")
  /\ IF Holds(m)
       THEN /\ discovery' = [discovery EXCEPT !.after = mailer[m].on]
            /\ failed' = failed \cup {mailer[m].on} /\ mailer' = [mailer EXCEPT ![m] = Finishes(m)]
       ELSE Go(m, "release") /\ UNCHANGED <<discovery, failed>>
  /\ UNCHANGED <<account, welcome, throttled, tokens, faults, welcomes>>
ReleaseDiscovery(m) ==
  /\ At(m, "release") /\ Rest(m)
  /\ discovery' = IF ~Holds(m) THEN discovery
                  ELSE IF mailer[m].last THEN Free
                  ELSE [discovery EXCEPT !.token = None, !.leased = FALSE]
  /\ UNCHANGED <<account, welcome, throttled, tokens, faults, history>>

-----------------------------------------------------------------------------
Crash(m) == mailer[m] # Idle /\ Fault /\ Rest(m) /\ UNCHANGED <<tables, tokens, history>>

Next ==
  \/ ThrottleEnds \/ TraversalEnds
  \/ \E u \in Users : SignUp(u) \/ Erase(u) \/ LeaseEnds(u) \/ Recover(u)
  \/ \E m \in Mailers :
       \/ (\E u \in Users : ClaimWelcome(m, u))
       \/ Prepare(m) \/ StartSubmission(m) \/ Send(m) \/ Refused(m) \/ Unknown(m) \/ Record(m)
       \/ ClaimDiscovery(m) \/ Inspect(m) \/ InspectFails(m) \/ PassOver(m) \/ ReleaseDiscovery(m)
       \/ Crash(m)

Spec == Init /\ [][Next]_vars

-----------------------------------------------------------------------------
(* Properties. *)

(* No account is welcomed twice, whatever crashes, lost answers, expired   *)
(* leases and overlapping mailers there are; a row that a sweep may still  *)
(* take up has reached nobody.                                             *)
OneWelcome ==
  /\ \A u \in Users : welcomes[u] <= 1
  /\ \A u \in Users : welcome[u].state \in {"queued", "retry", "claimed", "unsent"} => welcomes[u] = 0

(* A traversal that ends has enrolled every account that was there when it *)
(* began, save those it failed on; those return in the next one.           *)
TraversalCovers ==
  [][discovery.end # None /\ discovery'.end = None =>
       \A u \in 1..discovery.end : account[u] = "live" /\ u \notin failed => welcome[u].state # "unsent"]_vars
=============================================================================
