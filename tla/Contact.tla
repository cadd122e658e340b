------------------------------- MODULE Contact -------------------------------
(***************************************************************************)
(* A contact request: submitted and submitted again, confirmed by the link *)
(* that was mailed (contact.ts), and told to the inbox                     *)
(* (contactNotification.ts), over an SMTP client that may not learn        *)
(* whether its message was taken (protonMail.ts).                          *)
(*                                                                         *)
(* Mailers are confirmation clicks and cron invocations; they overlap, may *)
(* die between two steps, and may outlive their claim, whose end is a      *)
(* retry time that comes when the model says so.                           *)
(***************************************************************************)
EXTENDS Naturals

CONSTANTS Requests, Mailers, None,
          MaxTokens, MaxFaults \* claims and failures: bounds

ConstantsOK == None \notin Nat \cup Requests /\ MaxTokens \in Nat /\ MaxFaults \in Nat

VARIABLES request,        \* contact_submissions
          mailer,
          tokens, faults, \* totals
          notices         \* history: what was delivered

vars == <<request, mailer, tokens, faults, notices>>

Untold == [status |-> "pending", due |-> "never", token |-> None]
Idle == [at |-> "idle", on |-> None, token |-> None]

Init ==
  /\ request = [q \in Requests |-> Untold] /\ mailer = [m \in Mailers |-> Idle]
  /\ tokens = 0 /\ faults = 0 /\ notices = [q \in Requests |-> 0]

-----------------------------------------------------------------------------
At(m, at) == mailer[m].at = at
Go(m, at) == mailer' = [mailer EXCEPT ![m].at = at]
Rest(m) == mailer' = [mailer EXCEPT ![m] = Idle]
Fault == faults < MaxFaults /\ faults' = faults + 1
Sure == UNCHANGED faults
ClaimIsMine(m) == request[mailer[m].on].token = mailer[m].token

Expire(q) ==
  /\ request[q].status = "pending" /\ request' = [request EXCEPT ![q].status = "expired"]
  /\ UNCHANGED <<mailer, tokens, faults, notices>>
Submit(q) ==
  /\ request[q].status = "expired" /\ request' = [request EXCEPT ![q].status = "pending"]
  /\ UNCHANGED <<mailer, tokens, faults, notices>>
Verify(q) ==
  /\ request[q].status = "pending"
  /\ request' = [request EXCEPT ![q].status = "verified", ![q].due = "now"]
  /\ UNCHANGED <<mailer, tokens, faults, notices>>
RetryDue(q) ==   \* while the claim is being served, this is a frozen process
  /\ request[q].due = "later" /\ request' = [request EXCEPT ![q].due = "now"]
  /\ IF \E m \in Mailers : mailer[m].on = q /\ ClaimIsMine(m) THEN Fault ELSE Sure
  /\ UNCHANGED <<mailer, tokens, notices>>

(* deliverContactNotification. *)
TakenUntilDone == "never"               \* a mutant
TakenFor == "later"                     \* the claim is a lease as well
ClaimNotice(m, q) ==
  /\ request[q].status = "verified" /\ request[q].due = "now"
  /\ mailer[m] = Idle /\ tokens < MaxTokens /\ tokens' = tokens + 1
  /\ mailer' = [mailer EXCEPT ![m] = [at |-> "notify", on |-> q, token |-> tokens + 1]]
  /\ request' = [request EXCEPT ![q].due = TakenFor, ![q].token = tokens + 1]
  /\ UNCHANGED <<faults, notices>>
Notify(m) ==
  /\ At(m, "notify") /\ Go(m, "acknowledge")
  /\ notices' = [notices EXCEPT ![mailer[m].on] = @ + 1]
  /\ UNCHANGED <<request, tokens, faults>>
NotifyFails(m) ==    \* refused, or the answer is lost
  /\ At(m, "notify") /\ Fault /\ Go(m, "giveBack")
  /\ \E n \in {0, 1} : notices' = [notices EXCEPT ![mailer[m].on] = @ + n]
  /\ UNCHANGED <<request, tokens>>
Told == [status |-> "told", due |-> "never", token |-> None]
Acknowledge(m) ==
  /\ At(m, "acknowledge") /\ Rest(m)
  /\ request' = IF ClaimIsMine(m) THEN [request EXCEPT ![mailer[m].on] = Told] ELSE request
  /\ UNCHANGED <<tokens, faults, notices>>
GiveBack(m) ==
  /\ At(m, "giveBack") /\ Rest(m)
  /\ request' = IF ClaimIsMine(m) THEN [request EXCEPT ![mailer[m].on] = [@ EXCEPT !.due = "later", !.token = None]]
                ELSE request
  /\ UNCHANGED <<tokens, faults, notices>>
Crash(m) == mailer[m] # Idle /\ Fault /\ Rest(m) /\ UNCHANGED <<request, tokens, notices>>

Next ==
  \/ \E q \in Requests : Expire(q) \/ Submit(q) \/ Verify(q) \/ RetryDue(q)
  \/ \E m \in Mailers :
       \/ \E q \in Requests : ClaimNotice(m, q)
       \/ Notify(m) \/ NotifyFails(m) \/ Acknowledge(m) \/ GiveBack(m) \/ Crash(m)

Spec == Init /\ [][Next]_vars

-----------------------------------------------------------------------------
(* A confirmed request is never lost: until its notice was taken by the    *)
(* mail server the row is due, now or when the claim on it runs out; and   *)
(* each further copy of a notice costs a failure.                          *)
NoticeKept ==
  \A q \in Requests :
    /\ request[q].status = "verified" => request[q].due # "never"
    /\ request[q].status = "told" => notices[q] >= 1
    /\ notices[q] <= 1 + faults
=============================================================================
