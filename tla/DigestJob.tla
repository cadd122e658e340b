----------------------------- MODULE DigestJob -----------------------------
(***************************************************************************)
(* The feedback digest of one channel: feedbackDigest.ts with the history  *)
(* checkpoint of feedbackHistory.ts and the actions of the feedback page.  *)
(* A run takes the channel's lease, reads the channel, picks a batch (a    *)
(* page of the window an owner asked for, or the stored comments no digest *)
(* has covered), charges it, has it classified and writes the digest in    *)
(* one transaction.  The lease may lapse under a run, so runs overlap.     *)
(*                                                                         *)
(* A comment is the instant it was published at.  A page token stands for  *)
(* the oldest comment of the page before it; YouTube may serve that one    *)
(* again.  What a digest says is abstracted: a digest is the batch it      *)
(* names.                                                                  *)
(***************************************************************************)
EXTENDS Naturals, FiniteSets, FiniteSetsExt

CONSTANTS Runs, None,
          Last,             \* comments of the channel: a bound
          PageSize,         \* comments of a page, and of a stored batch
          Funds,            \* credits to begin with
          MaxScans, MaxTopups, MaxToggles,   \* bounds on what people do
          MaxFaults                          \* and on failures

ConstantsOK ==
  /\ Last \in Nat /\ PageSize \in Nat \ {0} /\ Funds \in Nat
  /\ MaxScans \in Nat /\ MaxTopups \in Nat /\ MaxToggles \in Nat /\ MaxFaults \in Nat

Comments == 1..Last
Plain == 0                  \* no scan: the scope of the stored comments
Scopes == Plain..MaxScans

VARIABLES channel,   \* whether it is on, and the checkpoint of its scan
          lease,     \* channels.lease_expires_at: whose, and whether expired
          stored,    \* comments
          digested,  \* comments.feedback_digested_at
          history,   \* feedback_history_comments: the scan that wrote the row
          charged,   \* credit ledger: the feedback charges, by scope
          balance,   \* the organisation's credits; it is metered
          told,      \* complete digests of each scope that name a comment
          stopped,   \* a failed or deferred row is shown
          run,
          window,    \* history: the boundary of each scan
          scans, topups, toggles, faults   \* totals

rows == <<stored, digested, history, told>>
money == <<charged, balance>>
counts == <<scans, topups, toggles, faults>>
vars == <<channel, lease, rows, money, stopped, run, window, counts>>

Idle == [at |-> "idle"]
Unasked == [boundary |-> None, token |-> None, scan |-> Plain]

Init ==
  /\ channel = [on |-> TRUE, check |-> Unasked]
  /\ lease = [by |-> None, expired |-> FALSE]
  /\ stored = {} /\ digested = {} /\ history = [c \in Comments |-> None]
  /\ charged = {} /\ balance = Funds
  /\ told = [c \in Comments |-> [s \in Scopes |-> 0]] /\ stopped = FALSE
  /\ run = [r \in Runs |-> Idle]
  /\ window = [s \in Scopes |-> None]
  /\ scans = 0 /\ topups = 0 /\ toggles = 0 /\ faults = 0

-----------------------------------------------------------------------------
(* People and the moderation run. *)

Claimable == lease.by = None \/ lease.expired

(* analyzeHistory: one scan at a time, and none while a run has the lease. *)
AnalyzeHistory(b) ==
  /\ channel.on /\ channel.check.boundary = None /\ Claimable
  /\ scans < MaxScans /\ scans' = scans + 1
  /\ channel' = [channel EXCEPT !.check = [boundary |-> b, token |-> None, scan |-> scans + 1]]
  /\ window' = [window EXCEPT ![scans + 1] = b]
  /\ UNCHANGED <<lease, rows, money, stopped, run, topups, toggles, faults>>
(* settings, and the pause of the channel. *)
Toggle ==
  /\ toggles < MaxToggles /\ toggles' = toggles + 1
  /\ channel' = [channel EXCEPT !.on = ~@]
  /\ UNCHANGED <<lease, rows, money, stopped, run, window, scans, topups, faults>>
TopUp ==
  /\ topups < MaxTopups /\ topups' = topups + 1 /\ balance' = balance + 1
  /\ UNCHANGED <<channel, lease, rows, charged, stopped, run, window, scans, toggles, faults>>
StoreComment(c) ==
  /\ c \notin stored /\ stored' = stored \cup {c}
  /\ UNCHANGED <<channel, lease, digested, history, told, money, stopped, run, window, counts>>

-----------------------------------------------------------------------------
(* One run (generateFeedbackDigest, under the claim of cron or the page).  *)

At(r, at) == run[r].at = at
Go(r, at) == run' = [run EXCEPT ![r].at = at]
End(r) == run' = [run EXCEPT ![r] = Idle] /\ lease' = IF lease.by = r THEN [by |-> None, expired |-> FALSE] ELSE lease

Claim(r) ==
  /\ run[r] = Idle /\ Claimable /\ lease' = [by |-> r, expired |-> FALSE]
  /\ run' = [run EXCEPT ![r] = [at |-> "load"]]
  /\ UNCHANGED <<channel, rows, money, stopped, window, counts>>
Lapse ==                    \* under the run, or left by one that died
  /\ lease.by # None /\ ~lease.expired
  /\ faults' = faults + IF run[lease.by] = Idle THEN 0 ELSE 1
  /\ faults' <= MaxFaults
  /\ lease' = [lease EXCEPT !.expired = TRUE]
  /\ UNCHANGED <<channel, rows, money, stopped, run, window, scans, topups, toggles>>

(* The row that is read, and the gate: a channel that is paused or has the *)
(* digest off is skipped, and so is one that is not due.                   *)
Load(r) ==
  /\ At(r, "load")
  /\ \/ /\ channel.on
        /\ run' = [run EXCEPT ![r] =
             [at |-> IF channel.check.boundary = None THEN "select" ELSE "fetch",
              check |-> channel.check, lease |-> lease.by, next |-> None, batch |-> {}]]
        /\ UNCHANGED lease
     \/ (~channel.on \/ channel.check.boundary = None) /\ End(r)
  /\ UNCHANGED <<channel, rows, money, stopped, window, counts>>

(* markDigestState: an attempt that does not own the state it read leaves  *)
(* no row.                                                                 *)
Current(r) == lease.by = run[r].lease /\ channel.check = run[r].check
Stop(r) == End(r) /\ stopped' = (stopped \/ Current(r))

(* selectHistoryBatch: one page, cut at the first comment under the        *)
(* boundary, less what this scan has already written.                      *)
Under(token) == {c \in Comments : token = None \/ c < token}
PageAfter(token) == {c \in Under(token) : Cardinality({d \in Under(token) : d > c}) < PageSize}
InWindow(check) == {c \in PageAfter(check.token) : c >= check.boundary}
Served(check) == {InWindow(check), InWindow(check) \cup ({check.token} \ {None})}
More(check) == InWindow(check) = PageAfter(check.token) /\ PageAfter(check.token) # Under(check.token)
CoveredNone(check, page) == {}                              \* a mutant
Covered(check, page) == {c \in page : history[c] = check.scan}
SelectHistory(r) ==
  LET check == run[r].check
  IN /\ At(r, "fetch")
     /\ \E page \in Served(check) :
          LET fresh == page \ Covered(check, page)
          IN run' = [run EXCEPT ![r] = [@ EXCEPT !.batch = fresh,
                      !.next = IF More(check) THEN Min(InWindow(check)) ELSE None,
                      !.at = IF fresh = {} THEN "advance" ELSE "charge"]]
     /\ UNCHANGED <<channel, lease, rows, money, stopped, window, counts>>

(* selectStoredBatch: the oldest comments no digest has covered. *)
PendingStored == {c \in stored \ digested : history[c] = None}
SelectStored(r) ==
  LET batch == {c \in PendingStored : Cardinality({d \in PendingStored : d < c}) < PageSize}
  IN /\ At(r, "select")
     /\ \/ /\ batch # {} /\ run' = [run EXCEPT ![r].batch = batch, ![r].at = "charge"]
           /\ UNCHANGED lease
        \/ batch = {} /\ End(r)
     /\ UNCHANGED <<channel, rows, money, stopped, window, counts>>

(* chargeFeedbackBatch: all or nothing, once for each comment and scope.   *)
(* Then the batch is classified: comments that fail are counted, and only  *)
(* a batch that fails as a whole stops the run (Fail).                     *)
Scope(r) == run[r].check.scan
Owing(r) == {c \in run[r].batch : <<c, Scope(r)>> \notin charged}
AffordableAny(r) == TRUE                                    \* a mutant
Affordable(r) == Cardinality(Owing(r)) <= balance
Charge(r) ==
  LET paid == {c \in Owing(r) : Cardinality({d \in Owing(r) : d < c}) < balance}
  IN /\ At(r, "charge") /\ Affordable(r)
     /\ charged' = charged \cup {<<c, Scope(r)>> : c \in paid}
     /\ balance' = balance - Cardinality(paid)
     /\ Go(r, "write") /\ UNCHANGED <<channel, lease, rows, stopped, window, counts>>
Shortfall(r) ==
  /\ At(r, "charge") /\ ~Affordable(r) /\ Stop(r)
  /\ UNCHANGED <<channel, rows, money, window, counts>>

(* advanceFeedbackHistory: the checkpoint moves only from what was read.   *)
MovesWithinScan(r) == channel.on /\ channel.check.scan = run[r].check.scan   \* a mutant
Moves(r) == channel.on /\ Current(r)
Moved(r) == IF run[r].next = None THEN Unasked ELSE [run[r].check EXCEPT !.token = run[r].next]
Advance(r) ==               \* nothing of the page is left to classify
  /\ At(r, "advance") /\ Moves(r) /\ End(r)
  /\ channel' = [channel EXCEPT !.check = Moved(r)] /\ stopped' = FALSE
  /\ UNCHANGED <<rows, money, window, counts>>

(* writeDigestRun: the digest, its coverage and the checkpoint together.   *)
Named(r) == told' = [c \in Comments |->
  IF c \in run[r].batch THEN [told[c] EXCEPT ![Scope(r)] = Min({@ + 1, 2})] ELSE told[c]]
Marked(r) == digested' = digested \cup (run[r].batch \cap stored)
WriteHistory(r) ==
  /\ At(r, "write") /\ Scope(r) # Plain /\ Moves(r) /\ End(r)
  /\ Named(r) /\ Marked(r) /\ stopped' = FALSE
  /\ history' = [c \in Comments |-> IF c \in run[r].batch THEN Scope(r) ELSE history[c]]
  /\ channel' = [channel EXCEPT !.check = Moved(r)]
  /\ UNCHANGED <<stored, money, window, counts>>
WriteStored(r) ==
  /\ At(r, "write") /\ Scope(r) = Plain /\ End(r)
  /\ Named(r) /\ Marked(r) /\ stopped' = FALSE
  /\ UNCHANGED <<channel, stored, history, money, window, counts>>
Outdated(r) ==
  /\ At(r, "advance") \/ (At(r, "write") /\ Scope(r) # Plain)
  /\ ~Moves(r) /\ Stop(r)
  /\ UNCHANGED <<channel, rows, money, window, counts>>

(* A call fails or the deadline is spent; or the process dies. *)
Fail(r) ==
  /\ run[r].at \in {"fetch", "charge", "write"}
  /\ faults < MaxFaults /\ faults' = faults + 1 /\ Stop(r)
  /\ UNCHANGED <<channel, rows, money, window, scans, topups, toggles>>
Crash(r) ==
  /\ run[r] # Idle /\ faults < MaxFaults /\ faults' = faults + 1
  /\ run' = [run EXCEPT ![r] = Idle]
  /\ UNCHANGED <<channel, lease, rows, money, stopped, window, scans, topups, toggles>>

Next ==
  \/ Toggle \/ TopUp \/ Lapse
  \/ \E c \in Comments : AnalyzeHistory(c) \/ StoreComment(c)
  \/ \E r \in Runs : \/ Claim(r) \/ Load(r) \/ SelectHistory(r) \/ SelectStored(r)
                     \/ Charge(r) \/ Shortfall(r) \/ Advance(r)
                     \/ WriteHistory(r) \/ WriteStored(r) \/ Outdated(r) \/ Fail(r) \/ Crash(r)

Spec == Init /\ [][Next]_vars

-----------------------------------------------------------------------------
(* Properties. *)

(* However runs overlap, lose their lease, crash or find the channel off,  *)
(* a scan reports every comment of its window, and each in one digest: at  *)
(* most one while it runs, and exactly one when its checkpoint is cleared. *)
Over(s) == s \in 1..scans /\ channel.check.scan # s
ScanDigestsEach ==
  \A s \in 1..scans, c \in Comments :
    /\ told[c][s] <= 1
    /\ Over(s) /\ c >= window[s] => told[c][s] = 1

(* Every comment a digest names was paid for in the scope it was read for, *)
(* once, whatever was retried, ran out of credit or was written twice.     *)
DigestsPaid ==
  /\ balance + Cardinality(charged) = Funds + topups
  /\ \A c \in Comments, s \in Scopes : told[c][s] > 0 => <<c, s>> \in charged
=============================================================================
