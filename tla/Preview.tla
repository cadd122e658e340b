------------------------------ MODULE Preview ------------------------------
(***************************************************************************)
(* The free dry run of a channel's moderation: the channel page plants a   *)
(* window and audits its first page under a lease of one minute, and the   *)
(* cron audits one further page at each of its runs (routes/api/cron,      *)
(* drainDryRunWindow) until the window is complete.  A dry run writes      *)
(* nothing but audit rows.  The channel may be paused, erased and          *)
(* connected anew meanwhile, and a job may outlive the lease it took.      *)
(*                                                                         *)
(* Comments and page tokens are those of ScanRun.                          *)
(***************************************************************************)
EXTENDS Naturals, FiniteSets, FiniteSetsExt

CONSTANTS Jobs, None,
          Horizon,     \* comments on the channel
          PageSize,
          MaxRows,     \* how often the channel may be connected: a bound
          MaxToggles, MaxFaults              \* pauses and failures: bounds

ConstantsOK ==
  /\ None \notin Jobs /\ Horizon \in Nat /\ PageSize \in Nat \ {0} /\ MaxRows \in Nat \ {0}
  /\ MaxToggles \in Nat /\ MaxFaults \in Nat

VARIABLES row,        \* channels: the drain's columns, and which row it is
          lease,      \* the job whose lease the row carries
          job,        \* requests for a preview, and runs of the cron
          audits,     \* comments with a dry-run audit row
          preview,    \* history: the window asked for, and whether it ended
          crossed,    \* history: an earlier row's drain met an equal boundary
          toggles, faults

counts == <<toggles, faults>>
vars == <<row, lease, job, audits, preview, crossed, counts>>

Comments == 1..Horizon
(* Instants: all time is the epoch, the same for every row; a window of    *)
(* months ends at the millisecond it was asked for, so it is the row's own.*)
AllTime == [from |-> 1, stamp |-> 0]
Months(n) == [from |-> 2, stamp |-> n]
Windows(n) == {AllTime, Months(n)}

Fresh(n) == [born |-> n, live |-> TRUE, active |-> TRUE, used |-> FALSE, boundary |-> None, token |-> None]
Idle == [at |-> "idle"]
NoPreview == [state |-> "none", from |-> 1]

Init ==
  /\ row = Fresh(1) /\ lease = None /\ job = [j \in Jobs |-> Idle]
  /\ audits = {} /\ preview = NoPreview /\ crossed = FALSE
  /\ toggles = 0 /\ faults = 0

-----------------------------------------------------------------------------
(* The channel's owners. *)

SetPaused ==
  /\ row.live /\ toggles < MaxToggles /\ toggles' = toggles + 1
  /\ row' = [row EXCEPT !.active = ~@]
  /\ UNCHANGED <<lease, job, audits, preview, crossed, faults>>
Disconnect ==        \* deleteChannelRecords: the row and its audit rows go
  /\ row.live /\ row' = [row EXCEPT !.live = FALSE]
  /\ lease' = None /\ audits' = {} /\ preview' = NoPreview
  /\ UNCHANGED <<job, crossed, counts>>
Connect ==           \* the same channel id, a new row and a new grant
  /\ ~row.live /\ row.born < MaxRows /\ row' = Fresh(row.born + 1)
  /\ UNCHANGED <<lease, job, audits, preview, crossed, counts>>

-----------------------------------------------------------------------------
(* The jobs. *)

At(j, at) == job[j].at = at
Claimable == row.live /\ row.active /\ lease = None
End(j) == job' = [job EXCEPT ![j] = Idle] /\ lease' = IF lease = j THEN None ELSE lease

(* claimDryRun: the allowance and the lease in one write. *)
ClaimDryRun(j) ==
  /\ At(j, "idle") /\ Claimable /\ ~row.used
  /\ \E w \in Windows(row.born) :
       /\ job' = [job EXCEPT ![j] = [at |-> "load", by |-> "request", claim |-> row.born,
                    loaded |-> None, boundary |-> w, token |-> None, page |-> {}, end |-> "none"]]
       /\ preview' = [state |-> "going", from |-> w.from]
  /\ row' = [row EXCEPT !.used = TRUE] /\ lease' = j
  /\ UNCHANGED <<audits, crossed, counts>>

(* The cron's claim reads the row; its live run comes first, and the drain *)
(* goes on with the boundary and the token read then.                      *)
ClaimDrain(j) ==
  /\ At(j, "idle") /\ Claimable /\ row.boundary # None
  /\ job' = [job EXCEPT ![j] = [at |-> "load", by |-> "cron", claim |-> row.born, loaded |-> None,
               boundary |-> row.boundary, token |-> row.token, page |-> {}, end |-> "none"]]
  /\ lease' = j
  /\ UNCHANGED <<row, audits, preview, crossed, counts>>

Lapse ==             \* a job is frozen past its lease
  /\ lease # None /\ faults < MaxFaults /\ faults' = faults + 1 /\ lease' = None
  /\ UNCHANGED <<row, job, audits, preview, crossed, toggles>>

(* loadChannelForRun: a request runs against the very row, under the very  *)
(* lease, it claimed; the drain of the cron against whatever row is there. *)
Claimant(j) == job[j].by = "cron" \/ (job[j].claim = row.born /\ lease = j)
Load(j) ==
  /\ At(j, "load") /\ row.live /\ Claimant(j) /\ row.active
  /\ job' = [job EXCEPT ![j].at = "audit", ![j].loaded = row.born]
  /\ UNCHANGED <<row, lease, audits, preview, crossed, counts>>
Refuse(j) ==         \* it throws, or skips an inactive channel
  /\ At(j, "load") /\ ~(row.live /\ Claimant(j) /\ row.active) /\ End(j)
  /\ UNCHANGED <<row, audits, preview, crossed, counts>>

(* One page of the window, decided anew and audited if the channel is      *)
(* still the one that was loaded.                                          *)
Listed(token) == {c \in Comments : token = None \/ c < token}
PageOf(token) == {c \in Listed(token) : Cardinality({d \in Listed(token) : d > c}) < PageSize}
Audit(j) ==
  LET listed == PageOf(job[j].token)
      page == {c \in listed : c >= job[j].boundary.from}
      ended == page # listed \/ Listed(job[j].token) = listed
  IN /\ At(j, "audit") /\ row.live /\ row.active /\ row.born = job[j].loaded
     /\ audits' = audits \cup page
     /\ job' = [job EXCEPT ![j].at = "save", ![j].page = page, ![j].end = IF ended THEN "complete" ELSE "more"]
     /\ UNCHANGED <<row, lease, preview, crossed, counts>>
(* Deactivated meanwhile, or out of time: the result is partial. *)
Partial(j) ==
  /\ At(j, "audit") /\ job' = [job EXCEPT ![j].at = "save", ![j].end = "partial"]
  /\ \/ ~(row.live /\ row.active /\ row.born = job[j].loaded) /\ UNCHANGED faults
     \/ row.live /\ row.active /\ row.born = job[j].loaded /\ faults < MaxFaults /\ faults' = faults + 1
  /\ UNCHANGED <<row, lease, audits, preview, crossed, toggles>>

(* What a page leaves for the next: nothing, or the window and its token.  *)
Rest(j) ==
  CASE job[j].end = "complete" -> [boundary |-> None, token |-> None]
    [] job[j].end = "more"     -> [boundary |-> job[j].boundary, token |-> Min(job[j].page)]
    [] job[j].end = "partial"  -> [boundary |-> job[j].boundary, token |-> None]
Write(j) == row' = [row EXCEPT !.boundary = Rest(j).boundary, !.token = Rest(j).token]
Ended(j) == preview' = IF job[j].end = "complete" THEN [preview EXCEPT !.state = "ended"] ELSE preview

(* The request saves under its own lease only, and gives it back. *)
OursAlways(j) == row.live                                    \* a mutant
Ours(j) == row.live /\ lease = j
SavePreview(j) ==
  /\ At(j, "save") /\ job[j].by = "request" /\ End(j)
  /\ IF Ours(j) THEN Write(j) /\ Ended(j) ELSE UNCHANGED <<row, preview>>
  /\ UNCHANGED <<audits, crossed, counts>>

(* saveDryRunDrain: the boundary has to be the one that was read.          *)
SameWindowLoosely(j) == row.live /\ row.boundary # None      \* a mutant
SameWindow(j) == row.live /\ row.boundary = job[j].boundary
SaveDrain(j) ==
  /\ At(j, "save") /\ job[j].by = "cron" /\ End(j)
  /\ IF job[j].end # "partial" /\ SameWindow(j)
       THEN Write(j) /\ Ended(j) /\ crossed' = (crossed \/ (row.born # job[j].claim /\ row.boundary = job[j].boundary))
       ELSE UNCHANGED <<row, preview, crossed>>
  /\ UNCHANGED <<audits, counts>>

(* A call fails, or the process dies and the lease runs out. *)
Fail(j) ==
  /\ ~At(j, "idle") /\ faults < MaxFaults /\ faults' = faults + 1 /\ End(j)
  /\ UNCHANGED <<row, audits, preview, crossed, toggles>>

Next ==
  \/ SetPaused \/ Disconnect \/ Connect \/ Lapse
  \/ \E j \in Jobs : \/ ClaimDryRun(j) \/ ClaimDrain(j) \/ Load(j) \/ Refuse(j) \/ Audit(j) \/ Partial(j)
                     \/ SavePreview(j) \/ SaveDrain(j) \/ Fail(j)

Spec == Init /\ [][Next]_vars

-----------------------------------------------------------------------------
(* Properties. *)

(* A preview that is reported over has audited every comment of its        *)
(* window, whatever jobs overlapped, were frozen past their lease or began *)
(* on a row that is gone.  The exception: a drain that began before the    *)
(* channel was connected anew, over all time as the new preview is.        *)
PreviewCovers == preview.state = "ended" /\ ~crossed => (preview.from)..Horizon \subseteq audits
=============================================================================
