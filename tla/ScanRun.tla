------------------------------ MODULE ScanRun ------------------------------
(***************************************************************************)
(* A channel's scan: pipeline/run.ts with the deduplication and the AI     *)
(* budget of scoring.ts, the transaction of staging.ts and the history     *)
(* analysis of the channel page.  Runs take a lease that may lapse under   *)
(* them, so an old run can go on beside a newer one or beside a planted    *)
(* rescan.                                                                 *)
(*                                                                         *)
(* A comment is the instant it was published at.  YouTube lists newest     *)
(* first; a page token stands for the oldest comment of the page before.   *)
(* What is decided of a comment, and what enforcement does, is in          *)
(* Enforcement; here a decision needs the AI, and so a credit, or not.     *)
(***************************************************************************)
EXTENDS Naturals, FiniteSets, FiniteSetsExt

CONSTANTS Runs, None,
          Horizon,          \* comments that will be published: a bound
          First,            \* comments published before the channel connected
          NeedsAI,          \* comments no rule decides
          PageSize,
          MaxScans, MaxTopups, MaxClaims,   \* bounds on what people do
          MaxFaults                         \* and on failures

ConstantsOK ==
  /\ Horizon \in Nat /\ First \in 0..Horizon /\ NeedsAI \subseteq 1..Horizon /\ PageSize \in Nat \ {0}
  /\ MaxScans \in Nat /\ MaxTopups \in Nat /\ MaxClaims \in Nat /\ MaxFaults \in Nat

Comments == 1..Horizon
Live == 0                   \* no rescan: channels.history_scan_id is null
Scans == Live..MaxScans

VARIABLES now,       \* the newest published comment
          channel,   \* cursor, page token, scan cursor, boundary, scan id
          lease,     \* the run that holds the channel, if any
          visit,     \* comments: the scan that staged the row, or None
          claimed,   \* comments a human has claimed
          charged,   \* credit ledger: the comment charges, by scope
          balance,   \* the organisation's credits; it is metered
          run,
          floor,     \* history: the boundary of the last window asked for
          visited,   \* history: comments each scan decided or found claimed
          spent, scans, claims, faults   \* bounds and totals

rows == <<visit, claimed>>
money == <<charged, balance>>
history == <<floor, visited>>
counts == <<spent, scans, claims, faults>>
vars == <<now, channel, lease, rows, money, run, history, counts>>

Fresh == [cursor |-> First, token |-> None, scanCursor |-> None, boundary |-> None, scan |-> Live]
Idle == [at |-> "idle", read |-> Fresh, page |-> {}, more |-> FALSE, decided |-> {}, seen |-> {}, parked |-> FALSE]

Init ==
  /\ now = First /\ channel = Fresh /\ lease = None
  /\ visit = [c \in Comments |-> None] /\ claimed = {}
  /\ charged = {} /\ balance = 1 /\ run = [r \in Runs |-> Idle]
  /\ floor = First /\ visited = [s \in Scans |-> {}]
  /\ spent = 0 /\ scans = 0 /\ claims = 0 /\ faults = 0

Stored == {c \in Comments : visit[c] # None}

-----------------------------------------------------------------------------
(* People. *)

Publish ==
  /\ now < Horizon /\ now' = now + 1
  /\ UNCHANGED <<channel, lease, rows, money, run, history, counts>>
TopUp ==
  /\ spent < MaxTopups /\ spent' = spent + 1 /\ balance' = balance + 1
  /\ UNCHANGED <<now, channel, lease, rows, charged, run, history, scans, claims, faults>>
Claim(c) ==      \* a human decides; a failed request gives the comment back
  /\ c \in Stored \ claimed /\ claims < MaxClaims /\ claims' = claims + 1 /\ claimed' = claimed \cup {c}
  /\ UNCHANGED <<now, channel, lease, visit, money, run, history, spent, scans, faults>>
Unclaim(c) ==
  /\ c \in claimed /\ claimed' = claimed \ {c}
  /\ UNCHANGED <<now, channel, lease, visit, money, run, history, counts>>
(* analyzeHistory: refused while a run holds the lease. *)
AnalyzeHistory(b) ==
  /\ lease = None /\ b <= now /\ scans < MaxScans /\ scans' = scans + 1 /\ floor' = b
  /\ channel' = [cursor |-> b, token |-> None, scanCursor |-> None, boundary |-> b, scan |-> scans + 1]
  /\ UNCHANGED <<now, lease, rows, money, run, visited, spent, claims, faults>>

-----------------------------------------------------------------------------
(* One run (runChannel). *)

At(r, at) == run[r].at = at
Go(r, at) == run' = [run EXCEPT ![r].at = at]
End(r) == run' = [run EXCEPT ![r] = Idle] /\ lease' = IF lease = r THEN None ELSE lease

Start(r) ==
  /\ run[r] = Idle /\ lease = None /\ lease' = r /\ Go(r, "load")
  /\ UNCHANGED <<now, channel, rows, money, history, counts>>
Lapse ==          \* the run that holds the lease is frozen past it
  /\ lease # None /\ faults < MaxFaults /\ faults' = faults + 1 /\ lease' = None
  /\ UNCHANGED <<now, channel, rows, money, run, history, spent, scans, claims>>
Load(r) ==
  /\ At(r, "load") /\ run' = [run EXCEPT ![r].at = "fetch", ![r].read = channel]
  /\ UNCHANGED <<now, channel, lease, rows, money, history, counts>>

(* fetchNewComments: one page, cut at the first comment under the cursor.  *)
Listed(token) == {c \in 1..now : token = None \/ c < token}
PageOf(token) == {c \in Listed(token) : Cardinality({d \in Listed(token) : d > c}) < PageSize}
Fetch(r) ==
  LET in == run[r].read
      listed == PageOf(in.token)
      page == {c \in listed : c >= in.cursor}
      more == page = listed /\ Listed(in.token) # listed
  IN /\ At(r, "fetch") /\ run' = [run EXCEPT ![r].at = "decide", ![r].page = page, ![r].more = more]
     /\ UNCHANGED <<now, channel, lease, rows, money, history, counts>>

(* decideNewComments: what this scan has staged, and what humans have      *)
(* claimed, is left out; beyond the budget a comment is deferred, and a    *)
(* decision may fail.                                                      *)
Rescan(r) == run[r].read.scan # Live
Skipped(r) == IF Rescan(r) THEN {c \in run[r].page : visit[c] = run[r].read.scan \/ c \in claimed}
              ELSE run[r].page \cap Stored
Decide(r) ==
  LET fresh == run[r].page \ Skipped(r)
      ai == fresh \cap NeedsAI
  IN /\ At(r, "decide")
     /\ \E scored \in SUBSET ai, failed \in SUBSET fresh :
          /\ Cardinality(scored) = Min({Cardinality(ai), balance})
          /\ failed # {} => faults < MaxFaults
          /\ faults' = IF failed = {} THEN faults ELSE faults + 1
          /\ run' = [run EXCEPT ![r] = [@ EXCEPT !.at = "stage", !.parked = failed # {} \/ scored # ai,
                       !.decided = ((fresh \ NeedsAI) \cup scored) \ failed, !.seen = run[r].page \cap claimed]]
     /\ UNCHANGED <<now, channel, lease, rows, money, history, spent, scans, claims>>

(* stageDecisions: one transaction.  A live run inserts, and dies on a     *)
(* comment that was staged meanwhile; a rescan rewrites, sparing what a    *)
(* human holds by now.  The charge anchors of this scan settle a retry,    *)
(* and a shortfall stages nothing.                                         *)
Scope(r) == run[r].read.scan
Kept(r) == IF Rescan(r) THEN run[r].decided \ claimed ELSE run[r].decided
Owing(r) == {c \in Kept(r) \cap NeedsAI : <<c, Scope(r)>> \notin charged}
StagedFree(r) == TRUE                       \* a mutant
Affordable(r) == Cardinality(Owing(r)) <= balance
Fits(r) == Rescan(r) \/ run[r].decided \cap Stored = {}
Stage(r) ==
  LET paid == {c \in Owing(r) : Cardinality({d \in Owing(r) : d < c}) < balance}
      marked == Kept(r) \cup IF Rescan(r) THEN (run[r].decided \cup run[r].seen) \cap claimed ELSE {}
  IN /\ At(r, "stage") /\ Fits(r) /\ Affordable(r)
     /\ visit' = [c \in Comments |-> IF c \in marked THEN Scope(r) ELSE visit[c]]
     /\ charged' = charged \cup {<<c, Scope(r)>> : c \in paid}
     /\ balance' = balance - Cardinality(paid)
     /\ visited' = [visited EXCEPT ![Scope(r)] = @ \cup marked \cup run[r].seen]
     /\ Go(r, "persist") /\ UNCHANGED <<now, channel, lease, claimed, floor, counts>>
StageAborts(r) ==
  /\ At(r, "stage") /\ ~(Fits(r) /\ Affordable(r)) /\ End(r)
  /\ UNCHANGED <<now, channel, rows, money, history, counts>>

(* persistResults: the checkpoint of the scan this run read.  A page with  *)
(* failed or deferred decisions is left for the next run.                  *)
ParkedNever(r) == FALSE                     \* a mutant
Parked(r) == run[r].parked
SameScanLoosely(r) == TRUE                  \* a mutant
SameScan(r) == channel.scan = run[r].read.scan /\ channel.boundary = run[r].read.boundary
Newest(r) == IF run[r].page = {} THEN run[r].read.cursor ELSE Max(run[r].page)
ScanCursor(r) == IF run[r].read.scanCursor = None THEN Newest(r) ELSE run[r].read.scanCursor
Persist(r) ==
  /\ At(r, "persist") /\ ~Parked(r) /\ SameScan(r) /\ End(r)
  /\ channel' = IF run[r].more
                  THEN [channel EXCEPT !.token = Min(run[r].page), !.scanCursor = ScanCursor(r)]
                  ELSE [Fresh EXCEPT !.cursor = ScanCursor(r)]
  /\ UNCHANGED <<now, rows, money, history, counts>>
Leave(r) ==
  /\ At(r, "persist") /\ (Parked(r) \/ ~SameScan(r)) /\ End(r)
  /\ UNCHANGED <<now, channel, rows, money, history, counts>>

(* The process dies, a call fails or the deadline is spent. *)
Crash(r) ==
  /\ run[r] # Idle /\ faults < MaxFaults /\ faults' = faults + 1 /\ End(r)
  /\ UNCHANGED <<now, channel, rows, money, history, spent, scans, claims>>

Next ==
  \/ Publish \/ TopUp \/ Lapse
  \/ \E c \in Comments : Claim(c) \/ Unclaim(c) \/ AnalyzeHistory(c)
  \/ \E r \in Runs : \/ Start(r) \/ Load(r) \/ Fetch(r) \/ Decide(r) \/ Stage(r) \/ StageAborts(r)
                     \/ Persist(r) \/ Leave(r) \/ Crash(r)

Spec == Init /\ [][Next]_vars

-----------------------------------------------------------------------------
(* Properties. *)

(* The cursor never passes a comment that was not staged, whatever runs    *)
(* overlap, park, crash or lose their lease: a comment under it, and in    *)
(* the window last asked for, has its row.                                 *)
NothingSkipped == \A c \in Comments : floor <= c /\ c < channel.cursor => c \in Stored

(* A rescan that ends has been over every comment of its window: each was  *)
(* decided anew by this scan, or was in a human's hands when it came by.   *)
Completes(s) == s # Live /\ channel.scan = s /\ channel'.scan = Live
RescanCovers ==
  [][\A s \in Scans : Completes(s) => channel.boundary..(channel'.cursor) \subseteq visited[s]]_vars

(* No AI verdict is staged free, and none is paid for twice: what was      *)
(* bought is what is left and one credit for each comment of each scan     *)
(* that scored it, retries, overlaps and shortfalls included.              *)
EveryVerdictPaid ==
  /\ balance + Cardinality(charged) = 1 + spent
  /\ \A c \in Stored \cap NeedsAI : \E s \in Scans : <<c, s>> \in charged
=============================================================================
