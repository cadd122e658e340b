---------------------------- MODULE CronWorkload ----------------------------
(***************************************************************************)
(* Who works on which channel, and when.  Every cron invocation first      *)
(* fails the feedback previews that no runner can serve any more, then     *)
(* claims one workload: the oldest pending preview or the least recently   *)
(* run channel, taking turns (cronWorkload.ts).  Moderation previews,      *)
(* "Generate now" and the kick of a new feedback preview take the same     *)
(* expiring channel lease from the dashboard (dryRun.ts, the feedback      *)
(* page).  A lease is the timestamp at which it ends, and its holder keeps *)
(* that value to recognise it: nothing stops a holder that overruns.       *)
(*                                                                         *)
(* Time passes in units of a few minutes.  A lease that ends k units from  *)
(* now is held; an attempt is stale when its age exceeds StaleTime.  Two   *)
(* leases that end in the same millisecond are not modelled, so the owner  *)
(* stands for the lease's value.                                           *)
(***************************************************************************)
EXTENDS Integers, Sequences, FiniteSets

CONSTANTS
    Channels,    \* channel ids, ordered as the SQL orders them
    Runners,     \* invocations and requests that may be in progress at once
    NoOne,       \* SQL NULL
    Lost,        \* the value of a lease whose holder is gone
    LeaseTime,   \* LEASE_MS
    ManualTime,  \* the dashboard's 60 s lease
    StaleTime,   \* PREVIEW_PENDING_STALE_MS
    Cadence,     \* units between two invocations of the scheduler
    SweepBatch,  \* STALE_PREVIEW_BATCH
    Events,      \* which dashboard actions and faults may happen
    MaxEvents,   \* how many of them in a behaviour
    MaxPassed    \* up to where passed-over claims are counted

VARIABLES
    channel,  \* channels rows: status, leaseExpiresAt, lastRunAt, feedbackDryRunUsedAt
    preview,  \* the channel's feedback_digests row of a preview
    queue,    \* channels with a dry-run-pending row, in the order of the rows' ids
    turn,     \* cron_workload_state.nextWorkload
    runner,   \* what each invocation or request holds in its local variables
    wait,     \* units since the scheduler last called
    events,   \* number of events so far (bound only)
    served    \* history: the kind of the last contested claim, and how many claims
              \* have passed over each channel while it was ready for a live run

vars == <<channel, preview, queue, turn, runner, wait, events, served>>

AllEvents == {"preview", "hold", "pause", "reconnect", "disconnect",
              "crash", "late", "dberror", "budget"}

ASSUME CronAssumption ==
    /\ Channels \subseteq Nat \ {0} /\ IsFiniteSet(Channels) /\ IsFiniteSet(Runners)
    /\ NoOne \notin Runners /\ Lost \notin Runners /\ NoOne # Lost
    /\ {LeaseTime, ManualTime, StaleTime, SweepBatch} \subseteq Nat \ {0}
    /\ ManualTime <= LeaseTime
    /\ {Cadence, MaxEvents, MaxPassed} \subseteq Nat
    /\ Events \subseteq AllEvents

(***************************************************************************)
(* Rows and local variables.                                               *)
(***************************************************************************)
Kinds == {"preview", "live"}
Never == -1
Stamps == 0 .. Cardinality(Channels) + Cardinality(Runners) + 1

Channel == [status : {"absent", "active", "paused"}, owner : Runners \union {NoOne, Lost},
            left : 0 .. LeaseTime, lastRun : Stamps, used : BOOLEAN]
NoChannel == [status |-> "absent", owner |-> NoOne, left |-> 0, lastRun |-> 0,
              used |-> FALSE]

Preview == [status : {"none", "dry-run-pending", "dry-run", "dry-run-failed"},
            age : {Never} \union 0 .. StaleTime + 1, tries : 0 .. 2]
NoPreview == [status |-> "none", age |-> Never, tries |-> 0]

\* conn: whether the connector the runner read is still the channel's, was
\* replaced in place, or belonged to a row that has been erased.
Runner == [pc : {"idle", "claim", "claimed", "plant", "running", "release"},
           task : {"none", "cron", "live", "preview", "kick", "hold"},
           ch : Channels \union {0}, conn : {"same", "swapped", "erased"},
           left : 0 .. LeaseTime, stamp : Stamps]
Idle == [pc |-> "idle", task |-> "none", ch |-> 0, conn |-> "same", left |-> 0,
         stamp |-> 0]

RowsOK ==
    /\ channel \in [Channels -> Channel]
    /\ preview \in [Channels -> Preview]
    /\ runner \in [Runners -> Runner]

TypeOK ==
    /\ RowsOK
    /\ queue \in Seq(Channels)
    /\ \A c \in Channels :
         preview[c].status = "dry-run-pending" <=> \E i \in DOMAIN queue : queue[i] = c
    /\ \A i, j \in DOMAIN queue : queue[i] = queue[j] => i = j
    /\ turn \in Kinds
    /\ wait \in 0 .. Cadence
    /\ events \in 0 .. MaxEvents
    /\ served \in [last : Kinds \union {"none"}, since : [Channels -> 0 .. MaxPassed]]

Init ==
    /\ channel = [c \in Channels |-> [NoChannel EXCEPT !.status = "active"]]
    /\ preview = [c \in Channels |-> NoPreview]
    /\ queue = <<>>
    /\ turn = "preview"
    /\ runner = [r \in Runners |-> Idle]
    /\ wait = Cadence
    /\ events = 0
    /\ served = [last |-> "none", since |-> [c \in Channels |-> 0]]

(***************************************************************************)
(* Queries.                                                                *)
(***************************************************************************)
Free(c) == channel[c].left = 0
Claimable(c) == channel[c].status = "active" /\ Free(c)
Pending(c) == preview[c].status = "dry-run-pending"
Stale(c) == preview[c].age > StaleTime

\* Mutant: the rotation forgets lastRunAt.
RunsBeforeById(c, d) == c <= d

\* Ordered by lastRunAt, NULL first, then by id.
RunsBefore(c, d) ==
    \/ channel[c].lastRun < channel[d].lastRun
    \/ channel[c].lastRun = channel[d].lastRun /\ c <= d

LiveCandidates ==
    {c \in Channels :
       Claimable(c) /\ \A d \in Channels : Claimable(d) => RunsBefore(c, d)}

PreviewCandidates ==
    LET servable == {i \in DOMAIN queue : Claimable(queue[i]) /\ ~Stale(queue[i])}
    IN  {queue[i] : i \in {n \in servable : \A m \in servable : n <= m}}

\* finalizeStalePreviews: no live lease, and either unservable or stale.
Finalizable(c) == Free(c) /\ (channel[c].status # "active" \/ Stale(c))

\* Mutant: the guard compares the connector and not the lease.
MatchesRow(r) == runner[r].conn = "same"

\* The row is still the one the runner claimed, under the lease it claimed.
Matches(r) ==
    LET c == runner[r].ch
    IN  runner[r].conn = "same" /\ channel[c].owner = r

(***************************************************************************)
(* Updates.                                                                *)
(***************************************************************************)
Event(e) == e \in Events /\ events < MaxEvents /\ events' = events + 1
NoEvent == UNCHANGED events

Dequeue(S) == queue' = SelectSeq(queue, LAMBDA c : c \notin S)
Resolve(S, status) ==
    /\ preview' = [c \in Channels |->
         IF c \in S THEN [preview[c] EXCEPT !.status = status] ELSE preview[c]]
    /\ Dequeue(S)

\* Mutant: the update of a preview's row does not ask for its status.
SettleAny(r, status) ==
    LET c == runner[r].ch
    IN  Resolve({d \in {c} : runner[r].conn # "erased"}, status)

\* An update of a preview's row succeeds only while it is pending.
Settle(r, status) ==
    LET c == runner[r].ch
    IN  Resolve({d \in {c} : runner[r].conn # "erased" /\ Pending(d)}, status)

Goto(r, pc) == runner' = [runner EXCEPT ![r].pc = pc]
Leave(r) == runner' = [runner EXCEPT ![r] = Idle]

\* Mutant: a release clears whatever lease it finds.
UnleaseAny(r) == [c \in Channels |->
    IF c = runner[r].ch
    THEN [channel[c] EXCEPT !.owner = NoOne, !.left = 0] ELSE channel[c]]

\* The lease of c is cleared if it still is the one r took.
Unlease(r) == [c \in Channels |->
    IF c = runner[r].ch /\ channel[c].owner = r
    THEN [channel[c] EXCEPT !.owner = NoOne, !.left = 0] ELSE channel[c]]
\* r is gone and nothing will clear its lease.
Abandon(r) == [c \in Channels |->
    IF channel[c].owner = r THEN [channel[c] EXCEPT !.owner = Lost] ELSE channel[c]]
Lease(r, c, time) == [channel EXCEPT ![c].owner = r, ![c].left = time]

\* Order is all that lastRunAt is used for: stamps in use are renumbered.
InUse(chs, rs) == {chs[c].lastRun : c \in Channels} \union {rs[r].stamp : r \in Runners}
Renumber(s, used) == Cardinality({u \in used \ {0} : u <= s})

(***************************************************************************)
(* A cron invocation.                                                      *)
(***************************************************************************)
\* finalizeStalePreviews.  It may fail; the invocation goes on.
Sweep(r) ==
    /\ runner[r].pc = "idle" /\ wait = Cadence
    /\ runner' = [runner EXCEPT ![r].pc = "claim", ![r].task = "cron"]
    /\ wait' = 0
    /\ \/ LET dead == SelectSeq(queue, Finalizable)
              batch == {dead[i] : i \in {j \in DOMAIN dead : j <= SweepBatch}}
          IN  Resolve({c \in batch : Pending(c)}, "dry-run-failed") /\ NoEvent
       \/ Event("dberror") /\ UNCHANGED <<preview, queue>>
    /\ UNCHANGED <<channel, turn, served>>

\* The sweeps before it used up the budget: nothing is claimed.
Exhausted(r) ==
    /\ runner[r].pc = "idle" /\ wait = Cadence
    /\ Event("budget")
    /\ wait' = 0
    /\ UNCHANGED <<channel, preview, queue, turn, runner, served>>

\* claimCronWorkload found nothing to do.
ClaimNothing(r) ==
    /\ runner[r].pc = "claim" /\ LiveCandidates = {} /\ PreviewCandidates = {}
    /\ Leave(r)
    /\ UNCHANGED <<channel, preview, queue, turn, wait, events, served>>

\* The transaction failed or found its budget spent: nothing is written.
ClaimFails(r) ==
    /\ runner[r].pc = "claim"
    /\ Event("dberror") \/ Event("budget")
    /\ Leave(r)
    /\ UNCHANGED <<channel, preview, queue, turn, wait, served>>

Contested == LiveCandidates # {} /\ PreviewCandidates # {}

\* The work to claim is the candidate of the class whose turn it is, or of the only
\* class that has one.
Selected(kind, c) ==
    /\ c \in IF kind = "preview" THEN PreviewCandidates ELSE LiveCandidates
    /\ Contested => kind = turn

\* Mutant: work without contest spends the turn too.
NextTurnAlways(kind) == IF kind = "preview" THEN "live" ELSE "preview"
NextTurn(kind) ==
    IF ~Contested THEN turn ELSE IF kind = "preview" THEN "live" ELSE "preview"

\* Mutant: every attempt is stamped.
AttemptRestamped(c) ==
    [preview EXCEPT ![c].age = 0, ![c].tries = IF @ < 2 THEN @ + 1 ELSE @]

\* The first attempt is stamped; later ones keep that stamp.
Attempt(c) ==
    [preview EXCEPT ![c].age = IF @ = Never THEN 0 ELSE @,
                    ![c].tries = IF @ < 2 THEN @ + 1 ELSE @]

Served(kind, c) ==
    [last |-> IF Contested THEN kind ELSE served.last,
     since |-> [d \in Channels |->
        IF (d = c /\ kind = "live") \/ ~Claimable(d) THEN 0
        ELSE IF served.since[d] < MaxPassed THEN served.since[d] + 1 ELSE MaxPassed]]

\* claimCronWorkload: lease, attempt stamp and turn in one transaction.
Claim(r) ==
    /\ runner[r].pc = "claim"
    /\ \E kind \in Kinds, c \in Channels :
         LET leased == Lease(r, c, LeaseTime)
             now == 1 + Cardinality(Channels) + Cardinality(Runners)
             mine == [pc |-> "claimed", task |-> kind, ch |-> c, conn |-> "same",
                      left |-> LeaseTime, stamp |-> now]
             rs == [runner EXCEPT ![r] = mine]
             used == InUse(leased, rs)
         IN  /\ Selected(kind, c)
             /\ channel' = [d \in Channels |->
                  [leased[d] EXCEPT !.lastRun = Renumber(@, used)]]
             /\ runner' = [s \in Runners |->
                  [rs[s] EXCEPT !.stamp = Renumber(@, used)]]
             /\ preview' = IF kind = "preview" THEN Attempt(c) ELSE preview
             /\ turn' = NextTurn(kind)
             /\ served' = Served(kind, c)
    /\ UNCHANGED <<queue, wait, events>>

\* The claim committed after the deadline: the lease is given back.
LateClaim(r) ==
    /\ runner[r].pc = "claimed" /\ runner[r].task \in Kinds
    /\ Event("late")
    /\ Goto(r, "release")
    /\ UNCHANGED <<channel, preview, queue, turn, wait, served>>

\* The end of runAndRecord: lease and health in one guarded update.
RecordRun(r) ==
    /\ runner[r].pc = "claimed" /\ runner[r].task = "live"
    /\ channel' = IF Matches(r)
                  THEN [Unlease(r) EXCEPT ![runner[r].ch].lastRun = runner[r].stamp]
                  ELSE Abandon(r)
    /\ Leave(r)
    /\ UNCHANGED <<preview, queue, turn, wait, events, served>>

\* That update fails: the lease ends by itself.
RecordFails(r) ==
    /\ runner[r].pc = "claimed" /\ runner[r].task = "live"
    /\ Event("dberror")
    /\ channel' = Abandon(r)
    /\ Leave(r)
    /\ UNCHANGED <<preview, queue, turn, wait, served>>

(***************************************************************************)
(* Running a preview: runFeedbackPreview, for a cron claim or a kick.      *)
(***************************************************************************)
StartPreview(r) ==
    /\ runner[r].pc = "claimed" /\ runner[r].task \in {"preview", "kick"}
    /\ IF /\ Matches(r) /\ channel[runner[r].ch].status = "active"
          /\ Pending(runner[r].ch)
       THEN Goto(r, "running") /\ UNCHANGED <<preview, queue>>
       ELSE Goto(r, "release") /\ Settle(r, "dry-run-failed")
    /\ UNCHANGED <<channel, turn, wait, events, served>>

\* The provider answered and the findings are stored, or it failed, or the
\* deadline passed and the row stays as it is for a later attempt.
EndPreview(r) ==
    /\ runner[r].pc = "running"
    /\ Goto(r, "release")
    /\ \/ \E status \in {"dry-run", "dry-run-failed"} : Settle(r, status)
       \/ UNCHANGED <<preview, queue>>
    /\ UNCHANGED <<channel, turn, wait, events, served>>

\* releaseCronWorkload, releaseClaimLease, and the dashboard's finally blocks.
Release(r) ==
    /\ runner[r].pc = "release"
    /\ channel' = Unlease(r)
    /\ Leave(r)
    /\ UNCHANGED <<preview, queue, turn, wait, events, served>>

\* The release fails, or the process ends anywhere.
Crash(r) ==
    /\ runner[r].pc # "idle"
    /\ \/ Event("crash")
       \/ runner[r].pc = "release" /\ Event("dberror")
    /\ channel' = Abandon(r)
    /\ Leave(r)
    /\ UNCHANGED <<preview, queue, turn, wait, served>>

(***************************************************************************)
(* The dashboard.                                                          *)
(***************************************************************************)
Held(r, c, pc, task) ==
    runner' = [runner EXCEPT ![r] = [Idle EXCEPT !.pc = pc, !.task = task, !.ch = c,
                                                 !.left = ManualTime]]

\* claimDryRun for a feedback preview: one per connection.
ClaimPreview(r, c) ==
    /\ runner[r].pc = "idle" /\ Claimable(c) /\ ~channel[c].used
    /\ Event("preview")
    /\ channel' = [Lease(r, c, ManualTime) EXCEPT ![c].used = TRUE]
    /\ Held(r, c, "plant", "kick")
    /\ UNCHANGED <<preview, queue, turn, wait, served>>

\* startFeedbackPreview: the pending row, if the claimed row is still there.
Plant(r) ==
    LET c == runner[r].ch
    IN  /\ runner[r].pc = "plant"
        /\ IF Matches(r) /\ channel[c].status = "active"
           THEN /\ preview' = [preview EXCEPT ![c] =
                     [NoPreview EXCEPT !.status = "dry-run-pending"]]
                /\ queue' = Append(queue, c)
                /\ Goto(r, "claimed")
           ELSE Goto(r, "release") /\ UNCHANGED <<preview, queue>>
        /\ UNCHANGED <<channel, turn, wait, events, served>>

\* A moderation preview or "Generate now", from its claim to its release.
Hold(r, c) ==
    /\ runner[r].pc = "idle" /\ channel[c].status # "absent" /\ Free(c)
    /\ Event("hold")
    /\ channel' = Lease(r, c, ManualTime)
    /\ Held(r, c, "release", "hold")
    /\ UNCHANGED <<preview, queue, turn, wait, served>>

\* Pausing and resuming leave the lease alone.
Toggle(c) ==
    /\ channel[c].status # "absent"
    /\ Event("pause")
    /\ channel' = [channel EXCEPT ![c].status = IF @ = "active" THEN "paused" ELSE "active"]
    /\ UNCHANGED <<preview, queue, turn, runner, wait, served>>

Reread(c, conn) == [r \in Runners |->
    IF runner[r].ch = c /\ runner[r].conn # "erased"
    THEN [runner[r] EXCEPT !.conn = conn] ELSE runner[r]]

\* upsertChannelConnection: a new row, or a new connector in the old one.
Connect(c) ==
    /\ Event("reconnect")
    /\ channel' = [channel EXCEPT ![c].status = "active"]
    /\ runner' = IF channel[c].status = "absent" THEN runner ELSE Reread(c, "swapped")
    /\ UNCHANGED <<preview, queue, turn, wait, served>>

\* deleteChannelRecords: the row and its previews.
Disconnect(c) ==
    /\ channel[c].status # "absent"
    /\ Event("disconnect")
    /\ channel' = [channel EXCEPT ![c] = NoChannel]
    /\ preview' = [preview EXCEPT ![c] = NoPreview]
    /\ Dequeue({c})
    /\ runner' = Reread(c, "erased")
    /\ UNCHANGED <<turn, wait, served>>

(***************************************************************************)
(* Time.                                                                   *)
(***************************************************************************)
Minus1(n) == IF n = 0 THEN 0 ELSE n - 1

Elapse ==
    /\ channel' = [c \in Channels |-> [channel[c] EXCEPT !.left = Minus1(@)]]
    /\ runner' = [r \in Runners |-> [runner[r] EXCEPT !.left = Minus1(@)]]
    /\ preview' = [c \in Channels |-> [preview[c] EXCEPT !.age =
         IF @ = Never \/ @ > StaleTime THEN @ ELSE @ + 1]]
    /\ wait' = IF wait < Cadence THEN wait + 1 ELSE wait
    /\ UNCHANGED <<queue, turn, events, served>>

(***************************************************************************)
(* Behaviours.                                                             *)
(***************************************************************************)
\* What a process does by itself, and what may happen to it.
Progress(r) ==
    \/ Sweep(r) \/ ClaimNothing(r) \/ Claim(r) \/ RecordRun(r)
    \/ Plant(r) \/ StartPreview(r) \/ EndPreview(r) \/ Release(r)
Fault(r) ==
    \/ Exhausted(r) \/ ClaimFails(r) \/ LateClaim(r) \/ RecordFails(r) \/ Crash(r)
Dashboard ==
    \/ \E r \in Runners, c \in Channels : ClaimPreview(r, c) \/ Hold(r, c)
    \/ \E c \in Channels : Toggle(c) \/ Connect(c) \/ Disconnect(c)

Step == Dashboard \/ \E r \in Runners : Progress(r) \/ Fault(r)

Next == Step \/ Elapse
Spec == Init /\ [][Next]_vars

\* A scheduler that calls every Cadence units, and invocations that end in time.
Punctual ==
    /\ wait < Cadence
    /\ \A r \in Runners : runner[r].task \notin Kinds \union {"cron"}
    /\ Elapse
ScheduledNext == Step \/ Punctual
Fairness == WF_vars(Punctual) /\ \A r \in Runners : WF_vars(Progress(r))
Scheduled == Init /\ [][ScheduledNext]_vars /\ Fairness

(***************************************************************************)
(* Properties.                                                             *)
(***************************************************************************)
\* While a holder's lease runs, the row carries that lease: no late release, no
\* other claim and no late bookkeeping takes it away, so two holders in time never
\* share a channel (claimCronWorkload, releaseCronWorkload, runAndRecord).
LeaseExclusive ==
    \A r \in Runners :
        LET c == runner[r].ch
        IN  c # 0 /\ runner[r].left > 0 /\ runner[r].conn # "erased" =>
              channel[c].owner = r /\ channel[c].left = runner[r].left

\* The class that lost the last contested claim has the next one, whatever crashed,
\* came late or was claimed without contest since (claimCronWorkload's shared turn).
TurnOwed == served.last # "none" => turn # served.last

\* A run that ends late never replaces the bookkeeping of a run claimed after it
\* (the guard of runAndRecord's update).
RotationNeverRewinds ==
    [][\A r \in Runners, c \in Channels :
         (/\ runner[r].task = "live" /\ runner'[r].task = "none"
          /\ channel'[c].lastRun # channel[c].lastRun)
         => channel[c].lastRun < channel'[c].lastRun]_vars

\* A preview that is finished or failed stays as it is until its channel is erased,
\* even when two runners work on it (the pending predicates of runFeedbackPreview).
PreviewResolvedOnce ==
    [][\A c \in Channels :
         preview[c].status \in {"dry-run", "dry-run-failed"} =>
           preview'[c].status = preview[c].status \/ channel'[c].status = "absent"]_vars

\* Runners that outlived their lease leave both outcomes as they are.
OutcomesStand == RotationNeverRewinds /\ PreviewResolvedOnce

\* Once planted, a preview does not stay pending for ever, although every attempt may
\* run into its deadline and some may crash (first-attempt stamp, sweep and turn).
PreviewsResolve == \A c \in Channels : Pending(c) ~> ~Pending(c)

\* With N channels a channel that stays ready is claimed for a live run at the latest
\* by the 2N-th claim, however many previews wait (claimCronWorkload's order and turn),
\* if invocations end in time; each withdrawal, crash, lost answer or failed statement
\* costs it two claims at most: one of the run to repeat, one of a preview before it.
RotationBound ==
    \A c \in Channels : served.since[c] < 2 * (Cardinality(Channels) + events)

=============================================================================
