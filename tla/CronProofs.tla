----------------------------- MODULE CronProofs -----------------------------
(***************************************************************************)
(* Theorems about CronWorkload: an unexpired lease is exclusive and the    *)
(* lost turn is owed for any number of channels and overlapping runners,   *)
(* a late run never rewinds the rotation, and the rotation passes nobody   *)
(* over for long.                                                          *)
(***************************************************************************)
EXTENDS CronWorkload, FiniteSetTheorems, WellFoundedInduction, TLAPS

(***************************************************************************)
(* Types.                                                                  *)
(***************************************************************************)
\* The stamp that a claim gives before renumbering.
Latest == 1 + Cardinality(Channels) + Cardinality(Runners)

\* Renumbered stamps stay below it: at most one stamp per row and runner.
LEMMA RenumberBelow ==
    ASSUME NEW chs, NEW rs, NEW s
    PROVE  Renumber(s, InUse(chs, rs)) \in 0 .. Latest - 1
<1> DEFINE A == {chs[c].lastRun : c \in Channels}
           B == {rs[r].stamp : r \in Runners}
           U == {u \in InUse(chs, rs) \ {0} : u <= s}
<1>1. IsFiniteSet(A) /\ Cardinality(A) <= Cardinality(Channels)
  <2>1. [c \in Channels |-> chs[c].lastRun] \in Surjection(Channels, A)
    BY DEF Surjection
  <2> QED BY <2>1, FS_Surjection, CronAssumption DEF CronAssumption
<1>2. IsFiniteSet(B) /\ Cardinality(B) <= Cardinality(Runners)
  <2>1. [r \in Runners |-> rs[r].stamp] \in Surjection(Runners, B)
    BY DEF Surjection
  <2> QED BY <2>1, FS_Surjection, CronAssumption DEF CronAssumption
<1>3. /\ IsFiniteSet(A \union B)
      /\ Cardinality(A \union B)
           = Cardinality(A) + Cardinality(B) - Cardinality(A \cap B)
  BY <1>1, <1>2, FS_Union
<1>4. Cardinality(A) \in Nat /\ Cardinality(B) \in Nat /\ Cardinality(A \cap B) \in Nat
  BY <1>1, <1>2, FS_CardinalityType, FS_Intersection
<1>5. U \subseteq A \union B
  BY DEF InUse
<1>6. IsFiniteSet(U) /\ Cardinality(U) <= Cardinality(A \union B)
  BY <1>3, <1>5, FS_Subset
<1>7. Cardinality(U) \in Nat
  BY <1>6, FS_CardinalityType
<1>8. Cardinality(Channels) \in Nat /\ Cardinality(Runners) \in Nat
  BY FS_CardinalityType, CronAssumption DEF CronAssumption
<1>9. Cardinality(U) \in 0 .. Latest - 1
  <2> HIDE DEF A, B, U
  <2> QED BY <1>1, <1>2, <1>3, <1>4, <1>6, <1>7, <1>8 DEF Latest
<1> QED BY <1>9 DEF Renumber

LEMMA RenumberRange ==
    ASSUME NEW chs, NEW rs, NEW s
    PROVE  Renumber(s, InUse(chs, rs)) \in Stamps
<1>1. Cardinality(Channels) \in Nat /\ Cardinality(Runners) \in Nat
  BY FS_CardinalityType, CronAssumption DEF CronAssumption
<1> QED BY <1>1, RenumberBelow DEF Latest, Stamps

\* Times and stamps that the steps below compute with.
LEMMA Times ==
    /\ LeaseTime \in Nat \ {0} /\ ManualTime \in 0 .. LeaseTime /\ StaleTime \in Nat
    /\ LeaseTime \in 0 .. LeaseTime /\ 0 \in 0 .. LeaseTime /\ 0 \in Stamps
    /\ \A n \in 0 .. LeaseTime : Minus1(n) \in 0 .. LeaseTime
<1>1. Cardinality(Channels) \in Nat /\ Cardinality(Runners) \in Nat
  BY FS_CardinalityType, CronAssumption DEF CronAssumption
<1> QED BY <1>1, CronAssumption DEF CronAssumption, Stamps, Minus1

\* The rows and local variables nothing has been written to yet.
LEMMA Defaults ==
    /\ NoChannel \in Channel /\ NoPreview \in Preview /\ Idle \in Runner
    /\ [NoPreview EXCEPT !.status = "dry-run-pending"] \in Preview
<1>1. NoChannel \in Channel
  BY Times DEF Channel, NoChannel
<1>2. Idle \in Runner
  BY Times DEF Runner, Idle
<1>3. NoPreview \in Preview
  BY DEF Preview, NoPreview
<1>4. [NoPreview EXCEPT !.status = "dry-run-pending"] \in Preview
  BY DEF Preview, NoPreview
<1> QED BY <1>1, <1>2, <1>3, <1>4

LEMMA InitRows == Init => RowsOK
<1> SUFFICES ASSUME Init PROVE RowsOK
  OBVIOUS
<1>1. [NoChannel EXCEPT !.status = "active"] \in Channel
  BY Defaults DEF Channel
<1> QED BY <1>1, Defaults DEF Init, RowsOK

LEMMA LeaseType ==
    ASSUME RowsOK, NEW r \in Runners, NEW c \in Channels, NEW n \in 0 .. LeaseTime
    PROVE  Lease(r, c, n) \in [Channels -> Channel]
<1> DEFINE row == [channel[c] EXCEPT !.owner = r, !.left = n]
<1>1. row \in Channel
  BY DEF RowsOK, Channel
<1>2. Lease(r, c, n) = [channel EXCEPT ![c] = row]
  BY DEF RowsOK, Lease, Channel
<1> HIDE DEF row
<1> QED BY <1>1, <1>2 DEF RowsOK

LEMMA UnleaseType ==
    ASSUME RowsOK, NEW r \in Runners
    PROVE  /\ Unlease(r) \in [Channels -> Channel]
           /\ Abandon(r) \in [Channels -> Channel]
<1>1. ASSUME NEW c \in Channels
      PROVE  /\ channel[c] \in Channel
             /\ [channel[c] EXCEPT !.owner = NoOne, !.left = 0] \in Channel
             /\ [channel[c] EXCEPT !.owner = Lost] \in Channel
  BY Times DEF RowsOK, Channel
<1> QED BY <1>1 DEF Unlease, Abandon

LEMMA ResolveType ==
    ASSUME RowsOK, NEW S, NEW status \in {"dry-run", "dry-run-failed"},
           Resolve(S, status)
    PROVE  preview' \in [Channels -> Preview]
BY DEF RowsOK, Resolve, Preview

LEMMA SettleType ==
    ASSUME RowsOK, NEW r \in Runners, NEW status \in {"dry-run", "dry-run-failed"},
           Settle(r, status)
    PROVE  preview' \in [Channels -> Preview]
BY ResolveType DEF Settle

LEMMA GotoType ==
    ASSUME RowsOK, NEW r \in Runners,
           NEW p \in {"claim", "claimed", "plant", "running", "release"}
    PROVE  /\ Goto(r, p) => runner' \in [Runners -> Runner]
           /\ Leave(r) => runner' \in [Runners -> Runner]
BY Times DEF RowsOK, Goto, Leave, Runner, Idle

\* A dashboard request takes its lease: only r's local variables change.
LEMMA HeldEffect ==
    ASSUME RowsOK, NEW r \in Runners, NEW c \in Channels,
           ClaimPreview(r, c) \/ Hold(r, c)
    PROVE  /\ runner'[r].ch = c /\ runner'[r].left = ManualTime
           /\ runner'[r].task \in {"kick", "hold"}
           /\ runner'[r] \in Runner
           /\ runner' = [runner EXCEPT ![r] = runner'[r]]
<1>1. PICK pc \in {"plant", "release"}, task \in {"kick", "hold"} : Held(r, c, pc, task)
  BY DEF ClaimPreview, Hold
<1> DEFINE mine == [Idle EXCEPT !.pc = pc, !.task = task, !.ch = c,
                                !.left = ManualTime]
<1>2. /\ mine.ch = c /\ mine.left = ManualTime /\ mine.task = task
      /\ mine \in Runner
  BY Times DEF Idle, Runner
<1>3. runner' = [runner EXCEPT ![r] = mine]
  BY <1>1 DEF Held
<1> HIDE DEF mine
<1>4. runner'[r] = mine
  BY <1>3 DEF RowsOK
<1> QED BY <1>2, <1>3, <1>4

LEMMA RereadType ==
    ASSUME RowsOK, NEW c \in Channels, NEW conn \in {"swapped", "erased"}
    PROVE  Reread(c, conn) \in [Runners -> Runner]
BY DEF RowsOK, Reread, Runner

LEMMA AttemptType ==
    ASSUME RowsOK, NEW c \in Channels
    PROVE  Attempt(c) \in [Channels -> Preview]
<1> DEFINE age == IF preview[c].age = Never THEN 0 ELSE preview[c].age
           tries == IF preview[c].tries < 2 THEN preview[c].tries + 1
                    ELSE preview[c].tries
           row == [preview[c] EXCEPT !.age = age, !.tries = tries]
<1>1. Attempt(c) = [preview EXCEPT ![c] = row]
  BY DEF RowsOK, Attempt, Preview
<1>2. age \in {Never} \union 0 .. StaleTime + 1
  BY Times DEF RowsOK, Preview
<1>3. tries \in 0 .. 2
  BY DEF RowsOK, Preview
<1>4. row \in Preview
  <2> HIDE DEF age, tries
  <2> QED BY <1>2, <1>3 DEF RowsOK, Preview
<1> HIDE DEF row
<1> QED BY <1>1, <1>4 DEF RowsOK

LEMMA ClaimType ==
    ASSUME RowsOK, NEW r \in Runners, Claim(r)
    PROVE  RowsOK'
<1> PICK kind \in Kinds, c \in Channels :
      LET leased == Lease(r, c, LeaseTime)
          now == 1 + Cardinality(Channels) + Cardinality(Runners)
          mine == [pc |-> "claimed", task |-> kind, ch |-> c, conn |-> "same",
                   left |-> LeaseTime, stamp |-> now]
          rs == [runner EXCEPT ![r] = mine]
          used == InUse(leased, rs)
      IN  /\ channel' = [d \in Channels |->
               [leased[d] EXCEPT !.lastRun = Renumber(@, used)]]
          /\ runner' = [s \in Runners |-> [rs[s] EXCEPT !.stamp = Renumber(@, used)]]
          /\ preview' = IF kind = "preview" THEN Attempt(c) ELSE preview
  BY DEF Claim
<1> DEFINE leased == Lease(r, c, LeaseTime)
           now == 1 + Cardinality(Channels) + Cardinality(Runners)
           mine == [pc |-> "claimed", task |-> kind, ch |-> c, conn |-> "same",
                    left |-> LeaseTime, stamp |-> now]
           rs == [runner EXCEPT ![r] = mine]
           used == InUse(leased, rs)
<1>1. \A s : Renumber(s, used) \in Stamps
  BY RenumberRange
<1>2. channel' \in [Channels -> Channel]
  <2>1. leased \in [Channels -> Channel]
    BY LeaseType, Times
  <2>2. \A d \in Channels :
          channel'[d] = [leased[d] EXCEPT !.lastRun = Renumber(leased[d].lastRun, used)]
    OBVIOUS
  <2>3. channel' = [d \in Channels |-> channel'[d]]
    OBVIOUS
  <2>4. ASSUME NEW d \in Channels PROVE channel'[d] \in Channel
    <3> DEFINE stamp == Renumber(leased[d].lastRun, used)
    <3>1. stamp \in Stamps
      BY <1>1
    <3>2. leased[d] \in Channel
      BY <2>1
    <3>3. channel'[d] = [leased[d] EXCEPT !.lastRun = stamp]
      BY <2>2
    <3> HIDE DEF stamp, leased
    <3> QED BY <3>1, <3>2, <3>3 DEF Channel
  <2> HIDE DEF leased, used
  <2> QED BY <2>3, <2>4
<1>3. runner' \in [Runners -> Runner]
  <2>1. now \in Stamps
    BY FS_CardinalityType, CronAssumption DEF CronAssumption, Stamps
  <2>2. mine \in Runner
    BY <2>1, Times DEF Runner, Kinds
  <2>3. rs \in [Runners -> Runner]
    <3> HIDE DEF mine
    <3> QED BY <2>2 DEF RowsOK
  <2>4. \A t \in Runners :
          runner'[t] = [rs[t] EXCEPT !.stamp = Renumber(rs[t].stamp, used)]
    OBVIOUS
  <2>5. runner' = [t \in Runners |-> runner'[t]]
    OBVIOUS
  <2>6. ASSUME NEW t \in Runners PROVE runner'[t] \in Runner
    <3> DEFINE stamp == Renumber(rs[t].stamp, used)
    <3>1. stamp \in Stamps
      BY <1>1
    <3>2. rs[t] \in Runner
      BY <2>3
    <3>3. runner'[t] = [rs[t] EXCEPT !.stamp = stamp]
      BY <2>4
    <3> HIDE DEF stamp, rs
    <3> QED BY <3>1, <3>2, <3>3 DEF Runner
  <2> HIDE DEF rs, used
  <2> QED BY <2>5, <2>6
<1>4. preview' \in [Channels -> Preview]
  BY AttemptType DEF RowsOK
<1> QED BY <1>2, <1>3, <1>4 DEF RowsOK

LEMMA RowsStep ==
    ASSUME RowsOK, [Next]_vars
    PROVE  RowsOK'
<1>1. CASE UNCHANGED vars
  BY <1>1 DEF vars, RowsOK
<1>2. ASSUME NEW r \in Runners, Progress(r) PROVE RowsOK'
  <2>1. CASE Sweep(r)
    <3>1. runner' \in [Runners -> Runner]
      <4>1. [runner[r] EXCEPT !.pc = "claim", !.task = "cron"] \in Runner
        BY DEF RowsOK, Runner
      <4>2. runner' = [runner EXCEPT ![r] = [runner[r] EXCEPT !.pc = "claim",
                                                               !.task = "cron"]]
        BY <2>1 DEF Sweep, RowsOK, Runner
      <4> QED BY <4>1, <4>2 DEF RowsOK
    <3>2. preview' \in [Channels -> Preview]
      BY <2>1, ResolveType DEF Sweep, RowsOK
    <3> QED BY <2>1, <3>1, <3>2 DEF Sweep, RowsOK
  <2>2. CASE ClaimNothing(r)
    BY <2>2, GotoType DEF ClaimNothing, RowsOK
  <2>3. CASE Claim(r)
    BY <2>3, ClaimType
  <2>4. CASE RecordRun(r)
    <3>1. runner[r].stamp \in Stamps
      BY DEF RowsOK, Runner
    <3>2. channel' \in [Channels -> Channel]
      <4>1. CASE Matches(r)
        <5> DEFINE chs == Unlease(r)
                   c == runner[r].ch
        <5>1. chs \in [Channels -> Channel]
          BY UnleaseType
        <5>2. channel' = [chs EXCEPT ![c].lastRun = runner[r].stamp]
          BY <2>4, <4>1 DEF RecordRun
        <5>3. ASSUME NEW row \in Channel
              PROVE  [row EXCEPT !.lastRun = runner[r].stamp] \in Channel
          BY <3>1 DEF Channel
        <5> HIDE DEF chs
        <5>4. channel' = [chs EXCEPT ![c] = [chs[c] EXCEPT !.lastRun = runner[r].stamp]]
          BY <5>1, <5>2
        <5> QED BY <5>1, <5>3, <5>4
      <4>2. CASE ~Matches(r)
        BY <2>4, <4>2, UnleaseType DEF RecordRun
      <4> QED BY <4>1, <4>2
    <3> QED BY <2>4, <3>2, GotoType DEF RecordRun, RowsOK
  <2>5. CASE Plant(r)
    <3>1. runner' \in [Runners -> Runner]
      BY <2>5, GotoType DEF Plant
    <3>2. preview' \in [Channels -> Preview]
      BY <2>5, Defaults DEF Plant, RowsOK
    <3> QED BY <2>5, <3>1, <3>2 DEF Plant, RowsOK
  <2>6. CASE StartPreview(r)
    BY <2>6, GotoType, SettleType DEF StartPreview, RowsOK
  <2>7. CASE EndPreview(r)
    BY <2>7, GotoType, SettleType DEF EndPreview, RowsOK
  <2>8. CASE Release(r)
    BY <2>8, GotoType, UnleaseType DEF Release, RowsOK
  <2> QED BY <1>2, <2>1, <2>2, <2>3, <2>4, <2>5, <2>6, <2>7, <2>8 DEF Progress
<1>3. ASSUME NEW r \in Runners, Fault(r) PROVE RowsOK'
  <2>1. CASE Exhausted(r)
    BY <2>1 DEF Exhausted, RowsOK
  <2>2. CASE ClaimFails(r)
    BY <2>2, GotoType DEF ClaimFails, RowsOK
  <2>3. CASE LateClaim(r)
    BY <2>3, GotoType DEF LateClaim, RowsOK
  <2>4. CASE RecordFails(r)
    BY <2>4, GotoType, UnleaseType DEF RecordFails, RowsOK
  <2>5. CASE Crash(r)
    BY <2>5, GotoType, UnleaseType DEF Crash, RowsOK
  <2> QED BY <1>3, <2>1, <2>2, <2>3, <2>4, <2>5 DEF Fault
<1>4. ASSUME NEW r \in Runners, NEW c \in Channels, ClaimPreview(r, c) \/ Hold(r, c)
      PROVE  RowsOK'
  <2>1. channel' \in [Channels -> Channel]
    <3>1. Lease(r, c, ManualTime) \in [Channels -> Channel]
      BY LeaseType, Times
    <3> DEFINE chs == Lease(r, c, ManualTime)
    <3>2. channel' = chs \/ channel' = [chs EXCEPT ![c].used = TRUE]
      BY <1>4 DEF ClaimPreview, Hold
    <3> HIDE DEF chs
    <3>3. [chs[c] EXCEPT !.used = TRUE] \in Channel
      BY <3>1 DEF chs, Channel
    <3>4. [chs EXCEPT ![c].used = TRUE] = [chs EXCEPT ![c] = [chs[c] EXCEPT !.used = TRUE]]
      BY <3>1 DEF chs
    <3> QED BY <3>1, <3>2, <3>3, <3>4 DEF chs
  <2>2. runner' \in [Runners -> Runner]
    BY <1>4, HeldEffect DEF RowsOK
  <2> QED BY <1>4, <2>1, <2>2 DEF ClaimPreview, Hold, RowsOK
<1>5. ASSUME NEW c \in Channels, Toggle(c) \/ Connect(c) \/ Disconnect(c)
      PROVE  RowsOK'
  <2>1. CASE Toggle(c)
    BY <2>1 DEF Toggle, RowsOK, Channel
  <2>2. CASE Connect(c)
    <3>1. channel' \in [Channels -> Channel]
      BY <2>2 DEF Connect, RowsOK, Channel
    <3> QED BY <2>2, <3>1, RereadType DEF Connect, RowsOK
  <2>3. CASE Disconnect(c)
    <3>1. channel' \in [Channels -> Channel]
      BY <2>3, Times DEF Disconnect, RowsOK, Channel, NoChannel
    <3>2. preview' \in [Channels -> Preview]
      BY <2>3 DEF Disconnect, RowsOK, Preview, NoPreview
    <3> QED BY <2>3, <3>1, <3>2, RereadType DEF Disconnect, RowsOK
  <2> QED BY <1>5, <2>1, <2>2, <2>3
<1>6. CASE Elapse
  <2>1. channel' \in [Channels -> Channel]
    <3>1. \A c \in Channels : Minus1(channel[c].left) \in 0 .. LeaseTime
      BY Times DEF RowsOK, Channel
    <3>2. \A c \in Channels :
            [channel[c] EXCEPT !.left = Minus1(channel[c].left)] \in Channel
      BY <3>1 DEF RowsOK, Channel
    <3> QED BY <1>6, <3>2 DEF Elapse
  <2>2. runner' \in [Runners -> Runner]
    <3>1. \A r \in Runners : Minus1(runner[r].left) \in 0 .. LeaseTime
      BY Times DEF RowsOK, Runner
    <3>2. \A r \in Runners :
            [runner[r] EXCEPT !.left = Minus1(runner[r].left)] \in Runner
      BY <3>1 DEF RowsOK, Runner
    <3> QED BY <1>6, <3>2 DEF Elapse
  <2>3. preview' \in [Channels -> Preview]
    <3> DEFINE older(a) == IF a = Never \/ a > StaleTime THEN a ELSE a + 1
    <3>1. \A a \in {Never} \union 0 .. StaleTime + 1 :
            older(a) \in {Never} \union 0 .. StaleTime + 1
      BY Times DEF Never
    <3>2. preview' = [c \in Channels |->
                        [preview[c] EXCEPT !.age = older(preview[c].age)]]
      BY <1>6 DEF Elapse
    <3> HIDE DEF older
    <3>3. \A c \in Channels :
            [preview[c] EXCEPT !.age = older(preview[c].age)] \in Preview
      BY <3>1 DEF RowsOK, Preview
    <3> QED BY <3>2, <3>3
  <2> QED BY <2>1, <2>2, <2>3 DEF RowsOK
<1> QED BY <1>1, <1>2, <1>3, <1>4, <1>5, <1>6 DEF Next, Step, Dashboard

(***************************************************************************)
(* The lease.                                                              *)
(***************************************************************************)
\* What s relies on: it believes in a lease of its channel that has not ended.
Trusts(s) ==
    runner[s].ch # 0 /\ runner[s].left > 0 /\ runner[s].conn # "erased"
\* And what makes that right.
Carried(s) ==
    /\ channel[runner[s].ch].owner = s
    /\ channel[runner[s].ch].left = runner[s].left

LEMMA ExclusiveDef == LeaseExclusive <=> \A s \in Runners : Trusts(s) => Carried(s)
BY DEF LeaseExclusive, Trusts, Carried

\* What a claim selects is free.
LEMMA SelectedFree ==
    ASSUME NEW kind, NEW c \in Channels, Selected(kind, c)
    PROVE  Free(c)
BY DEF Selected, LiveCandidates, PreviewCandidates, Claimable

\* r leaves, or moves on, and gives up at most a lease that is its own.
LEMMA GivesUp ==
    ASSUME RowsOK, LeaseExclusive, NEW r \in Runners,
           Leave(r) \/ \E pc : Goto(r, pc),
           \A c \in Channels : channel[c].owner # r =>
             channel'[c].owner = channel[c].owner /\ channel'[c].left = channel[c].left,
           Leave(r) \/ \A c \in Channels :
             channel'[c].owner = channel[c].owner /\ channel'[c].left = channel[c].left
    PROVE  LeaseExclusive'
<1> SUFFICES ASSUME NEW s \in Runners, Trusts(s)' PROVE Carried(s)'
  BY DEF LeaseExclusive, Trusts, Carried
<1>1. CASE Leave(r)
  <2>1. s # r
    BY <1>1 DEF Leave, Idle, Trusts, RowsOK
  <2>2. runner'[s] = runner[s]
    BY <1>1, <2>1 DEF Leave, RowsOK
  <2>3. Trusts(s) /\ runner[s].ch \in Channels
    BY <2>2 DEF Trusts, RowsOK, Runner
  <2>4. Carried(s)
    BY <2>3, ExclusiveDef
  <2> QED BY <2>1, <2>2, <2>3, <2>4 DEF Carried
<1>2. CASE ~Leave(r)
  <2>1. PICK pc : Goto(r, pc)
    BY <1>2
  <2>2. /\ runner'[s].ch = runner[s].ch /\ runner'[s].left = runner[s].left
        /\ runner'[s].conn = runner[s].conn
    BY <2>1 DEF Goto, RowsOK, Runner
  <2>3. Trusts(s) /\ runner[s].ch \in Channels
    BY <2>2 DEF Trusts, RowsOK, Runner
  <2>4. Carried(s)
    BY <2>3, ExclusiveDef
  <2> QED BY <1>2, <2>2, <2>3, <2>4 DEF Carried
<1> QED BY <1>1, <1>2

\* r takes the lease of a free channel for n units.
LEMMA TakesFree ==
    ASSUME RowsOK, LeaseExclusive, NEW r \in Runners, NEW c \in Channels, Free(c),
           NEW n \in 0 .. LeaseTime,
           runner'[r].ch = c, runner'[r].left = n,
           channel'[c].owner = r, channel'[c].left = n,
           \A s \in Runners \ {r} :
             /\ runner'[s].ch = runner[s].ch /\ runner'[s].left = runner[s].left
             /\ runner'[s].conn = runner[s].conn,
           \A d \in Channels \ {c} :
             channel'[d].owner = channel[d].owner /\ channel'[d].left = channel[d].left
    PROVE  LeaseExclusive'
<1> SUFFICES ASSUME NEW s \in Runners, Trusts(s)' PROVE Carried(s)'
  BY DEF LeaseExclusive, Trusts, Carried
<1>1. CASE s = r
  BY <1>1 DEF Carried
<1>2. CASE s # r
  <2>1. Trusts(s) /\ runner[s].ch \in Channels
    BY <1>2 DEF Trusts, RowsOK, Runner
  <2>2. Carried(s)
    BY <2>1, ExclusiveDef
  <2>3. runner[s].ch # c
    BY <2>1, <2>2 DEF Free, Trusts, Carried
  <2> QED BY <1>2, <2>1, <2>2, <2>3 DEF Carried
<1> QED BY <1>1, <1>2

\* What a claim by r does: it takes the lease of the free channel c it selected, and
\* renumbers all stamps in use around the latest one, now, which the new run gets.
Effect(r, kind, c, now, used) ==
    /\ Selected(kind, c) /\ turn' = NextTurn(kind) /\ served' = Served(kind, c)
    /\ now = Latest
    /\ \A n \in Stamps : n <= now
    /\ \E chs, rs : used = InUse(chs, rs)
    /\ now \in used /\ \A d \in Channels : channel[d].lastRun \in used
    /\ \A s \in Runners \ {r} : runner[s].stamp \in used
    /\ runner'[r].conn = "same"
    /\ runner'[r].task = kind /\ runner'[r].ch = c /\ runner'[r].pc = "claimed"
    /\ runner'[r].left = LeaseTime /\ runner'[r].stamp = Renumber(now, used)
    /\ \A s \in Runners \ {r} :
         /\ runner'[s].pc = runner[s].pc
         /\ runner'[s].task = runner[s].task /\ runner'[s].ch = runner[s].ch
         /\ runner'[s].conn = runner[s].conn /\ runner'[s].left = runner[s].left
         /\ runner'[s].stamp = Renumber(runner[s].stamp, used)
    /\ channel'[c].owner = r /\ channel'[c].left = LeaseTime
    /\ \A d \in Channels \ {c} :
         channel'[d].owner = channel[d].owner /\ channel'[d].left = channel[d].left
    /\ \A d \in Channels : /\ channel'[d].lastRun = Renumber(channel[d].lastRun, used)
                          /\ channel'[d].used = channel[d].used

LEMMA ClaimEffect ==
    ASSUME RowsOK, NEW r \in Runners, Claim(r)
    PROVE  \E kind \in Kinds, c \in Channels, now \in Stamps, used \in SUBSET Stamps :
             Effect(r, kind, c, now, used)
<1> PICK kind \in Kinds, c \in Channels :
      LET leased == Lease(r, c, LeaseTime)
          now == 1 + Cardinality(Channels) + Cardinality(Runners)
          mine == [pc |-> "claimed", task |-> kind, ch |-> c, conn |-> "same",
                   left |-> LeaseTime, stamp |-> now]
          rs == [runner EXCEPT ![r] = mine]
          used == InUse(leased, rs)
      IN  /\ Selected(kind, c) /\ turn' = NextTurn(kind) /\ served' = Served(kind, c)
          /\ channel' = [d \in Channels |->
               [leased[d] EXCEPT !.lastRun = Renumber(@, used)]]
          /\ runner' = [s \in Runners |-> [rs[s] EXCEPT !.stamp = Renumber(@, used)]]
  BY DEF Claim
<1> DEFINE leased == Lease(r, c, LeaseTime)
           now == 1 + Cardinality(Channels) + Cardinality(Runners)
           mine == [pc |-> "claimed", task |-> kind, ch |-> c, conn |-> "same",
                    left |-> LeaseTime, stamp |-> now]
           rs == [runner EXCEPT ![r] = mine]
           used == InUse(leased, rs)
<1>1. leased \in [Channels -> Channel]
  BY LeaseType, Times
<1>2. now \in Stamps /\ \A n \in Stamps : n <= now
  BY FS_CardinalityType, CronAssumption DEF CronAssumption, Stamps
<1>3. rs \in [Runners -> Runner]
  <2>1. mine \in Runner
    BY <1>2, Times DEF Runner, Kinds
  <2> HIDE DEF mine
  <2> QED BY <2>1 DEF RowsOK
<1>4. used \in SUBSET Stamps
  <2> HIDE DEF leased, rs
  <2> QED BY <1>1, <1>3 DEF InUse, Channel, Runner
<1>5. ASSUME NEW d \in Channels
      PROVE  /\ channel'[d].owner = leased[d].owner /\ channel'[d].left = leased[d].left
             /\ channel'[d].lastRun = Renumber(leased[d].lastRun, used)
             /\ channel'[d].used = leased[d].used
  <2> DEFINE stamp == Renumber(leased[d].lastRun, used)
  <2>1. channel'[d] = [leased[d] EXCEPT !.lastRun = stamp]
    OBVIOUS
  <2>2. leased[d] \in Channel
    BY <1>1
  <2> HIDE DEF leased, stamp
  <2>3. /\ channel'[d].owner = leased[d].owner /\ channel'[d].left = leased[d].left
        /\ channel'[d].lastRun = stamp /\ channel'[d].used = leased[d].used
    BY <2>1, <2>2 DEF Channel
  <2> QED BY <2>3 DEF stamp
<1>6. ASSUME NEW s \in Runners
      PROVE  /\ runner'[s].pc = rs[s].pc
             /\ runner'[s].task = rs[s].task /\ runner'[s].ch = rs[s].ch
             /\ runner'[s].conn = rs[s].conn /\ runner'[s].left = rs[s].left
             /\ runner'[s].stamp = Renumber(rs[s].stamp, used)
  <2> DEFINE stamp == Renumber(rs[s].stamp, used)
  <2>1. runner'[s] = [rs[s] EXCEPT !.stamp = stamp]
    OBVIOUS
  <2>2. rs[s] \in Runner
    BY <1>3
  <2> HIDE DEF rs, stamp
  <2>3. /\ runner'[s].pc = rs[s].pc
        /\ runner'[s].task = rs[s].task /\ runner'[s].ch = rs[s].ch
        /\ runner'[s].conn = rs[s].conn /\ runner'[s].left = rs[s].left
        /\ runner'[s].stamp = stamp
    BY <2>1, <2>2 DEF Runner
  <2> QED BY <2>3 DEF stamp
<1>7. /\ leased[c].owner = r /\ leased[c].left = LeaseTime
      /\ leased[c].lastRun = channel[c].lastRun /\ leased[c].used = channel[c].used
      /\ \A d \in Channels \ {c} : leased[d] = channel[d]
  BY DEF Lease, RowsOK, Channel
<1>8. /\ rs[r].pc = "claimed" /\ rs[r].task = kind /\ rs[r].ch = c /\ rs[r].left = LeaseTime /\ rs[r].stamp = now
      /\ \A s \in Runners \ {r} : rs[s] = runner[s]
  BY DEF RowsOK
<1>9. \E chs, rows : used = InUse(chs, rows)
  OBVIOUS
<1>14. /\ \A d \in Channels : leased[d].lastRun \in used
       /\ \A s \in Runners : rs[s].stamp \in used
  <2> HIDE DEF leased, rs
  <2> QED BY DEF InUse
<1>15. rs[r].conn = "same" /\ now = Latest
  BY DEF RowsOK, Latest
<1> HIDE DEF leased, rs, used, now
<1>16. /\ now \in used /\ \A d \in Channels : channel[d].lastRun \in used
       /\ \A s \in Runners \ {r} : runner[s].stamp \in used
       /\ runner'[r].conn = "same"
  <2>1. \A d \in Channels : leased[d].lastRun = channel[d].lastRun
    BY <1>7
  <2>2. runner'[r].conn = rs[r].conn
    BY <1>6
  <2> QED BY <1>8, <1>14, <1>15, <2>1, <2>2
<1>10. /\ runner'[r].task = kind /\ runner'[r].ch = c /\ runner'[r].pc = "claimed"
       /\ runner'[r].left = LeaseTime /\ runner'[r].stamp = Renumber(now, used)
       /\ \A s \in Runners \ {r} :
            /\ runner'[s].pc = runner[s].pc
            /\ runner'[s].task = runner[s].task /\ runner'[s].ch = runner[s].ch
            /\ runner'[s].conn = runner[s].conn /\ runner'[s].left = runner[s].left
            /\ runner'[s].stamp = Renumber(runner[s].stamp, used)
  <2>1. runner'[r].stamp = Renumber(rs[r].stamp, used)
    BY <1>6
  <2>2. runner'[r].task = rs[r].task /\ runner'[r].ch = rs[r].ch
        /\ runner'[r].left = rs[r].left /\ runner'[r].pc = rs[r].pc
    BY <1>6
  <2>3. ASSUME NEW s \in Runners \ {r}
        PROVE  /\ runner'[s].pc = runner[s].pc
               /\ runner'[s].task = runner[s].task /\ runner'[s].ch = runner[s].ch
               /\ runner'[s].conn = runner[s].conn /\ runner'[s].left = runner[s].left
               /\ runner'[s].stamp = Renumber(runner[s].stamp, used)
    <3>1. rs[s] = runner[s]
      BY <1>8
    <3>2. runner'[s].stamp = Renumber(runner[s].stamp, used)
      BY <1>6, <3>1
    <3>3. /\ runner'[s].pc = rs[s].pc
          /\ runner'[s].task = rs[s].task /\ runner'[s].ch = rs[s].ch
          /\ runner'[s].conn = rs[s].conn /\ runner'[s].left = rs[s].left
      BY <1>6
    <3> QED BY <3>1, <3>2, <3>3
  <2> QED BY <1>8, <2>1, <2>2, <2>3
<1>11. /\ channel'[c].owner = r /\ channel'[c].left = LeaseTime
       /\ \A d \in Channels \ {c} :
            channel'[d].owner = channel[d].owner /\ channel'[d].left = channel[d].left
       /\ \A d \in Channels : /\ channel'[d].lastRun = Renumber(channel[d].lastRun, used)
                             /\ channel'[d].used = channel[d].used
  <2>1. /\ channel'[c].owner = leased[c].owner /\ channel'[c].left = leased[c].left
        /\ channel'[c].lastRun = Renumber(leased[c].lastRun, used)
        /\ channel'[c].used = leased[c].used
    BY <1>5
  <2>2. ASSUME NEW d \in Channels \ {c}
        PROVE  /\ channel'[d].owner = channel[d].owner
               /\ channel'[d].left = channel[d].left
               /\ channel'[d].lastRun = Renumber(channel[d].lastRun, used)
               /\ channel'[d].used = channel[d].used
    <3>1. leased[d] = channel[d]
      BY <1>7
    <3> QED BY ZenonT(60), <1>5, <3>1
  <2> QED BY ZenonT(60), <1>7, <2>1, <2>2
<1>12. Selected(kind, c) /\ turn' = NextTurn(kind) /\ served' = Served(kind, c)
  OBVIOUS
<1>13. Effect(r, kind, c, now, used)
  BY <1>2, <1>9, <1>10, <1>11, <1>12, <1>15, <1>16 DEF Effect
<1> QED BY <1>2, <1>4, <1>13

\* The claim of a cron invocation takes a free channel.
LEMMA ClaimExclusive ==
    ASSUME RowsOK, LeaseExclusive, NEW r \in Runners, Claim(r)
    PROVE  LeaseExclusive'
<1>1. PICK kind \in Kinds, c \in Channels, now \in Stamps, used \in SUBSET Stamps :
        Effect(r, kind, c, now, used)
  BY ClaimEffect
<1>2. Free(c)
  BY <1>1, SelectedFree DEF Effect
<1> QED BY <1>1, <1>2, TakesFree, Times DEF Effect

LEMMA LeaseStep ==
    ASSUME RowsOK, LeaseExclusive, [Next]_vars
    PROVE  LeaseExclusive'
<1>1. CASE UNCHANGED vars
  BY <1>1 DEF vars, LeaseExclusive
<1>2. ASSUME NEW r \in Runners,
             Leave(r) \/ \E pc : Goto(r, pc),
             \/ UNCHANGED channel
             \/ Leave(r) /\ channel' = Abandon(r)
             \/ Leave(r) /\ channel' = Unlease(r)
      PROVE  LeaseExclusive'
  BY <1>2, GivesUp DEF Abandon, Unlease, RowsOK, Channel
<1>3. ASSUME NEW r \in Runners, Progress(r) PROVE LeaseExclusive'
  <2>1. CASE Sweep(r)
    <3>1. /\ UNCHANGED channel
          /\ \A s \in Runners : /\ runner'[s].ch = runner[s].ch
                                /\ runner'[s].left = runner[s].left
                                /\ runner'[s].conn = runner[s].conn
      BY <2>1 DEF Sweep, RowsOK, Runner
    <3> QED BY <3>1, ExclusiveDef DEF LeaseExclusive, Trusts, Carried
  <2>2. CASE Claim(r)
    BY <2>2, ClaimExclusive
  <2>3. CASE RecordRun(r)
    <3>1. CASE Matches(r)
      <4> DEFINE chs == Unlease(r)
                 c == runner[r].ch
      <4>1. chs \in [Channels -> Channel]
        BY UnleaseType
      <4>2. channel' = [chs EXCEPT ![c].lastRun = runner[r].stamp]
        BY <2>3, <3>1 DEF RecordRun
      <4>3. \A d \in Channels :
              channel'[d].owner = chs[d].owner /\ channel'[d].left = chs[d].left
        <5> HIDE DEF chs
        <5> QED BY <4>1, <4>2 DEF Channel
      <4>4. \A d \in Channels : channel[d].owner # r => chs[d] = channel[d]
        BY DEF Unlease
      <4> HIDE DEF chs
      <4> QED BY <2>3, <4>3, <4>4, GivesUp DEF RecordRun
    <3>2. CASE ~Matches(r)
      BY <1>2, <2>3, <3>2 DEF RecordRun
    <3> QED BY <3>1, <3>2
  <2>4. CASE ClaimNothing(r) \/ Plant(r) \/ StartPreview(r) \/ EndPreview(r)
    BY <1>2, <2>4 DEF ClaimNothing, Plant, StartPreview, EndPreview
  <2>5. CASE Release(r)
    BY <1>2, <2>5 DEF Release
  <2> QED BY <1>3, <2>1, <2>2, <2>3, <2>4, <2>5 DEF Progress
<1>4. ASSUME NEW r \in Runners, Fault(r) PROVE LeaseExclusive'
  <2>1. CASE Exhausted(r)
    BY <2>1 DEF Exhausted, LeaseExclusive
  <2>2. CASE ClaimFails(r) \/ LateClaim(r)
    BY <1>2, <2>2 DEF ClaimFails, LateClaim
  <2>3. CASE RecordFails(r) \/ Crash(r)
    BY <1>2, <2>3 DEF RecordFails, Crash
  <2> QED BY <1>4, <2>1, <2>2, <2>3 DEF Fault
<1>5. ASSUME NEW r \in Runners, NEW c \in Channels, ClaimPreview(r, c) \/ Hold(r, c)
      PROVE  LeaseExclusive'
  <2>1. Free(c)
    BY <1>5 DEF ClaimPreview, Hold, Claimable
  <2>2. /\ runner'[r].ch = c /\ runner'[r].left = ManualTime
        /\ \A s \in Runners \ {r} : runner'[s] = runner[s]
    BY <1>5, HeldEffect DEF RowsOK
  <2>3. /\ channel'[c].owner = r /\ channel'[c].left = ManualTime
        /\ \A d \in Channels \ {c} : channel'[d] = channel[d]
    BY <1>5 DEF ClaimPreview, Hold, Lease, RowsOK, Channel
  <2> QED BY <2>1, <2>2, <2>3, TakesFree, Times
<1>6. ASSUME NEW c \in Channels, Toggle(c) PROVE LeaseExclusive'
  <2>1. /\ UNCHANGED runner
        /\ \A d \in Channels : /\ channel'[d].owner = channel[d].owner
                               /\ channel'[d].left = channel[d].left
    BY <1>6 DEF Toggle, RowsOK, Channel
  <2> QED BY <2>1, ExclusiveDef DEF LeaseExclusive, Trusts, Carried, RowsOK, Runner
<1>7. ASSUME NEW c \in Channels, Connect(c) \/ Disconnect(c) PROVE LeaseExclusive'
  <2> SUFFICES ASSUME NEW s \in Runners, Trusts(s)' PROVE Carried(s)'
    BY DEF LeaseExclusive, Trusts, Carried
  <2>1. /\ runner'[s].ch = runner[s].ch /\ runner'[s].left = runner[s].left
        /\ runner'[s].conn # "erased" => runner[s].conn # "erased"
        /\ Disconnect(c) /\ runner[s].ch = c => runner'[s].conn = "erased"
    BY <1>7 DEF Connect, Disconnect, Reread, RowsOK, Runner
  <2>2. Trusts(s) /\ runner[s].ch \in Channels
    BY <2>1 DEF Trusts, RowsOK, Runner
  <2>3. Carried(s)
    BY <2>2, ExclusiveDef
  <2>4. \A d \in Channels : Connect(c) \/ d # c =>
          channel'[d].owner = channel[d].owner /\ channel'[d].left = channel[d].left
    BY <1>7 DEF Connect, Disconnect, RowsOK, Channel
  <2> QED BY <1>7, <2>1, <2>2, <2>3, <2>4 DEF Carried, Trusts
<1>8. CASE Elapse
  <2> SUFFICES ASSUME NEW s \in Runners, Trusts(s)' PROVE Carried(s)'
    BY DEF LeaseExclusive, Trusts, Carried
  <2>1. /\ runner'[s].ch = runner[s].ch /\ runner'[s].conn = runner[s].conn
        /\ runner'[s].left = Minus1(runner[s].left)
    BY <1>8 DEF Elapse, RowsOK, Runner
  <2>2. Trusts(s) /\ runner[s].ch \in Channels
    BY <2>1 DEF Trusts, RowsOK, Runner, Minus1
  <2>3. Carried(s)
    BY <2>2, ExclusiveDef
  <2>4. \A d \in Channels : /\ channel'[d].owner = channel[d].owner
                            /\ channel'[d].left = Minus1(channel[d].left)
    BY <1>8 DEF Elapse, RowsOK, Channel
  <2> QED BY <2>1, <2>2, <2>3, <2>4 DEF Carried
<1> QED BY <1>1, <1>3, <1>4, <1>5, <1>6, <1>7, <1>8 DEF Next, Step, Dashboard

\* An unexpired lease is exclusive, for any number of channels, overlapping
\* invocations and dashboard requests and any lease times (claimCronWorkload,
\* releaseCronWorkload, runAndRecord, claimDryRun).
THEOREM SpecImpliesLeaseExclusive == Spec => []LeaseExclusive
<1>1. Init => RowsOK
  BY InitRows
<1>2. Init => LeaseExclusive
  BY DEF Init, LeaseExclusive, Idle
<1>3. RowsOK /\ LeaseExclusive /\ [Next]_vars => RowsOK' /\ LeaseExclusive'
  BY RowsStep, LeaseStep
<1> QED BY <1>1, <1>2, <1>3, PTL DEF Spec

(***************************************************************************)
(* The turn.                                                               *)
(***************************************************************************)
TurnOK == turn \in Kinds /\ TurnOwed

\* Only a claim moves the turn or decides a contest.
LEMMA OnlyClaimMovesTurn ==
    ASSUME [Next]_vars, \A r \in Runners : ~Claim(r)
    PROVE  turn' = turn /\ served'.last = served.last
<1>1. CASE UNCHANGED vars
  BY <1>1 DEF vars
<1>2. ASSUME NEW r \in Runners, Progress(r)
      PROVE  turn' = turn /\ served'.last = served.last
  BY <1>2 DEF Progress, Sweep, ClaimNothing, RecordRun, Plant, StartPreview, EndPreview,
             Release
<1>3. ASSUME NEW r \in Runners, Fault(r)
      PROVE  turn' = turn /\ served'.last = served.last
  BY <1>3 DEF Fault, Exhausted, ClaimFails, LateClaim, RecordFails, Crash
<1>4. CASE Dashboard \/ Elapse
  BY <1>4 DEF Dashboard, ClaimPreview, Hold, Toggle, Connect, Disconnect, Elapse
<1> QED BY <1>1, <1>2, <1>3, <1>4 DEF Next, Step

LEMMA ClaimMovesTurn ==
    ASSUME TurnOK, NEW r \in Runners, Claim(r)
    PROVE  TurnOK'
<1>1. PICK kind \in Kinds, c \in Channels :
        /\ Selected(kind, c)
        /\ turn' = NextTurn(kind)
        /\ served' = Served(kind, c)
  BY DEF Claim
<1>2. served'.last = IF Contested THEN kind ELSE served.last
  BY <1>1 DEF Served
<1>3. CASE Contested
  <2>1. kind = turn
    BY <1>1, <1>3 DEF Selected
  <2> QED BY <1>1, <1>2, <1>3, <2>1 DEF TurnOK, TurnOwed, NextTurn, Kinds
<1>4. CASE ~Contested
  BY <1>1, <1>2, <1>4 DEF TurnOK, TurnOwed, NextTurn
<1> QED BY <1>3, <1>4

\* The class that lost the last contested claim has the next one, for any number of
\* channels and runners (claimCronWorkload's shared turn).
THEOREM SpecImpliesTurnOwed == Spec => []TurnOwed
<1>1. Init => TurnOK
  BY DEF Init, TurnOK, TurnOwed, Kinds
<1>2. TurnOK /\ [Next]_vars => TurnOK'
  BY ClaimMovesTurn, OnlyClaimMovesTurn DEF TurnOK, TurnOwed
<1>3. TurnOK => TurnOwed
  BY DEF TurnOK
<1> QED BY <1>1, <1>2, <1>3, PTL DEF Spec

(***************************************************************************)
(* The rotation.                                                           *)
(***************************************************************************)
\* r may still record its run in the row it claimed.
Records(r) ==
    /\ runner[r].ch # 0 /\ runner[r].task = "live" /\ runner[r].conn = "same"
    /\ channel[runner[r].ch].owner = r

\* A run that still holds its row was claimed no earlier than the run the row records.
InOrder ==
    \A r \in Runners : Records(r) => channel[runner[r].ch].lastRun <= runner[r].stamp

LEMMA StampsNat == Stamps \subseteq Nat
BY DEF Stamps

\* Renumbering keeps the order of stamps.
LEMMA RenumberMonotone ==
    ASSUME NEW chs, NEW rs, NEW s \in Stamps, NEW t \in Stamps, s <= t,
           InUse(chs, rs) \subseteq Stamps
    PROVE  Renumber(s, InUse(chs, rs)) <= Renumber(t, InUse(chs, rs))
<1> DEFINE U(n) == {u \in InUse(chs, rs) \ {0} : u <= n}
<1>1. IsFiniteSet(Stamps)
  <2>1. Cardinality(Channels) + Cardinality(Runners) + 1 \in Int
    BY FS_CardinalityType, CronAssumption DEF CronAssumption
  <2> QED BY <2>1, FS_Interval DEF Stamps
<1>2. U(t) \subseteq Stamps
  OBVIOUS
<1>3. IsFiniteSet(U(t))
  BY <1>1, <1>2, FS_Subset
<1>4. ASSUME NEW u \in U(s) PROVE u \in U(t)
  <2>1. u \in InUse(chs, rs) \ {0} /\ u <= s /\ u \in Stamps
    OBVIOUS
  <2>2. u \in Nat /\ s \in Nat /\ t \in Nat
    BY <2>1, StampsNat
  <2>3. u <= t
    BY <2>1, <2>2
  <2> QED BY <2>1, <2>3
<1>5. Cardinality(U(s)) <= Cardinality(U(t))
  BY <1>3, <1>4, FS_Subset
<1> QED BY <1>5 DEF Renumber

\* A claim keeps the stamps' order and gives the new run the latest one.
LEMMA ClaimInOrder ==
    ASSUME RowsOK, InOrder, NEW r \in Runners, Claim(r)
    PROVE  InOrder'
<1>1. PICK kind \in Kinds, c \in Channels, now \in Stamps, used \in SUBSET Stamps :
        Effect(r, kind, c, now, used)
  BY ClaimEffect
<1>2. \A m, n \in Stamps : m <= n => Renumber(m, used) <= Renumber(n, used)
  BY <1>1, RenumberMonotone DEF Effect
<1>3. /\ \A d \in Channels : channel[d].lastRun \in Stamps
      /\ \A s \in Runners : runner[s].stamp \in Stamps
  BY DEF RowsOK, Channel, Runner
<1> SUFFICES ASSUME NEW s \in Runners, Records(s)'
             PROVE  channel'[runner'[s].ch].lastRun <= runner'[s].stamp
  BY DEF InOrder, Records
<1>4. CASE s = r
  BY <1>1, <1>2, <1>3, <1>4 DEF Effect
<1>5. CASE s # r
  <2>1. runner[s].ch \in Channels /\ runner'[s].ch = runner[s].ch
    BY <1>1, <1>5 DEF Effect, Records, RowsOK, Runner
  <2>2. runner[s].ch # c
    BY <1>1, <1>5, <2>1 DEF Effect, Records
  <2>3. Records(s)
    BY <1>1, <1>5, <2>1, <2>2 DEF Effect, Records
  <2>4. channel[runner[s].ch].lastRun <= runner[s].stamp
    BY <2>3 DEF InOrder
  <2>5. /\ channel'[runner[s].ch].lastRun = Renumber(channel[runner[s].ch].lastRun, used)
        /\ runner'[s].stamp = Renumber(runner[s].stamp, used)
    BY <1>1, <1>5, <2>1 DEF Effect
  <2> QED BY <1>2, <1>3, <2>1, <2>4, <2>5
<1> QED BY <1>4, <1>5

\* A step that lets nobody record who could not, and changes no row or stamp of those
\* who still can.
LEMMA KeepsOrder ==
    ASSUME InOrder,
           \A s \in Runners : Records(s)' =>
             /\ Records(s)
             /\ runner'[s].ch = runner[s].ch /\ runner'[s].stamp = runner[s].stamp
             /\ channel'[runner[s].ch].lastRun = channel[runner[s].ch].lastRun
    PROVE  InOrder'
BY DEF InOrder, Records

\* A recorded run: r leaves, and only the row it still held has a new lastRunAt.
LEMMA RecordRunChanges ==
    ASSUME RowsOK, NEW r \in Runners, RecordRun(r)
    PROVE  /\ \A s \in Runners \ {r} : runner'[s] = runner[s]
           /\ runner'[r] = Idle
           /\ \A d \in Channels :
                \/ /\ d = runner[r].ch /\ Matches(r)
                   /\ channel'[d].owner = NoOne
                   /\ channel'[d].lastRun = runner[r].stamp
                \/ /\ channel'[d].lastRun = channel[d].lastRun
                   /\ channel'[d].owner \in {channel[d].owner, Lost}
<1>1. (\A s \in Runners \ {r} : runner'[s] = runner[s]) /\ runner'[r] = Idle
  BY DEF RecordRun, Leave, RowsOK
<1>2. ASSUME Matches(r), NEW d \in Channels
      PROVE  \/ /\ d = runner[r].ch /\ channel'[d].owner = NoOne
                /\ channel'[d].lastRun = runner[r].stamp
             \/ /\ channel'[d].lastRun = channel[d].lastRun
                /\ channel'[d].owner = channel[d].owner
  <2> DEFINE chs == Unlease(r)
             c == runner[r].ch
  <2>1. chs \in [Channels -> Channel]
    BY UnleaseType
  <2>2. channel' = [chs EXCEPT ![c].lastRun = runner[r].stamp]
    BY <1>2 DEF RecordRun
  <2>3. d # c => chs[d] = channel[d]
    BY DEF Unlease
  <2>4. d = c => chs[d].owner = NoOne
    BY <1>2 DEF Unlease, Matches, RowsOK, Channel
  <2> HIDE DEF chs
  <2> QED BY <2>1, <2>2, <2>3, <2>4 DEF Channel
<1>3. ASSUME ~Matches(r), NEW d \in Channels
      PROVE  /\ channel'[d].lastRun = channel[d].lastRun
             /\ channel'[d].owner \in {channel[d].owner, Lost}
  BY <1>3 DEF RecordRun, Abandon, RowsOK, Channel
<1> QED BY <1>1, <1>2, <1>3

\* Whatever a runner does besides claiming and recording keeps lastRunAt, and only
\* takes leases for itself or gives up its own.
LEMMA OtherSteps ==
    ASSUME RowsOK, NEW r \in Runners,
           \/ Progress(r) /\ ~Claim(r) /\ ~RecordRun(r)
           \/ Fault(r)
    PROVE  /\ \A s \in Runners \ {r} : runner'[s] = runner[s]
           /\ \/ runner'[r] = Idle
              \/ /\ runner'[r].ch = runner[r].ch /\ runner'[r].stamp = runner[r].stamp
                 /\ runner'[r].conn = runner[r].conn
                 /\ runner'[r].task \in {runner[r].task, "cron"}
           /\ \A d \in Channels :
                /\ channel'[d].lastRun = channel[d].lastRun
                /\ channel'[d].owner \in {channel[d].owner, NoOne, Lost}
<1>1. CASE Sweep(r)
  BY <1>1 DEF Sweep, RowsOK, Runner
<1>2. CASE ClaimNothing(r) \/ ClaimFails(r)
  BY <1>2 DEF ClaimNothing, ClaimFails, Leave, RowsOK
<1>3. CASE LateClaim(r) \/ Plant(r) \/ StartPreview(r) \/ EndPreview(r)
  <2>1. UNCHANGED channel /\ \E pc : Goto(r, pc)
    BY <1>3 DEF LateClaim, Plant, StartPreview, EndPreview
  <2> QED BY <2>1 DEF Goto, RowsOK, Runner
<1>4. CASE Release(r)
  BY <1>4 DEF Release, Leave, Unlease, RowsOK, Channel
<1>5. CASE RecordFails(r) \/ Crash(r)
  BY <1>5 DEF RecordFails, Crash, Leave, Abandon, RowsOK, Channel
<1>6. CASE Exhausted(r)
  BY <1>6 DEF Exhausted
<1> QED BY <1>1, <1>2, <1>3, <1>4, <1>5, <1>6 DEF Progress, Fault

\* The dashboard and time: no run is recorded.
LEMMA DashboardSteps ==
    ASSUME RowsOK, Dashboard \/ Elapse \/ UNCHANGED vars, NEW s \in Runners
    PROVE  /\ runner'[s].task = runner[s].task \/ runner'[s].task \in {"kick", "hold"}
           /\ Records(s)' =>
                /\ Records(s)
                /\ runner'[s].ch = runner[s].ch /\ runner'[s].stamp = runner[s].stamp
                /\ channel'[runner[s].ch].lastRun = channel[runner[s].ch].lastRun
<1> DEFINE Goal == /\ runner'[s].task = runner[s].task
                      \/ runner'[s].task \in {"kick", "hold"}
                   /\ Records(s)' =>
                        /\ Records(s)
                        /\ runner'[s].ch = runner[s].ch
                        /\ runner'[s].stamp = runner[s].stamp
                        /\ channel'[runner[s].ch].lastRun = channel[runner[s].ch].lastRun
<1>1. ASSUME NEW r \in Runners, NEW c \in Channels, ClaimPreview(r, c) \/ Hold(r, c)
      PROVE  Goal
  <2>1. /\ runner'[r].task \in {"kick", "hold"}
        /\ \A t \in Runners \ {r} : runner'[t] = runner[t]
    BY <1>1, HeldEffect DEF RowsOK
  <2>2. /\ \A d \in Channels : channel'[d].lastRun = channel[d].lastRun
        /\ \A d \in Channels : channel'[d].owner \in {r, channel[d].owner}
    BY <1>1 DEF ClaimPreview, Hold, Lease, RowsOK, Channel
  <2> QED BY <2>1, <2>2 DEF Records, RowsOK, Runner
<1>2. ASSUME NEW c \in Channels, Toggle(c) PROVE Goal
  <2>1. /\ UNCHANGED runner
        /\ \A d \in Channels : /\ channel'[d].lastRun = channel[d].lastRun
                               /\ channel'[d].owner = channel[d].owner
    BY <1>2 DEF Toggle, RowsOK, Channel
  <2> QED BY <2>1 DEF Records, RowsOK, Runner
<1>3. ASSUME NEW c \in Channels, Connect(c) \/ Disconnect(c) PROVE Goal
  <2>1. /\ runner'[s].task = runner[s].task /\ runner'[s].ch = runner[s].ch
        /\ runner'[s].stamp = runner[s].stamp
        /\ runner'[s].conn = "same" => runner[s].conn = "same"
    BY <1>3 DEF Connect, Disconnect, Reread, RowsOK, Runner
  <2>2. \A d \in Channels :
          \/ channel'[d].owner = NoOne
          \/ /\ channel'[d].lastRun = channel[d].lastRun
             /\ channel'[d].owner = channel[d].owner
    BY <1>3 DEF Connect, Disconnect, NoChannel, RowsOK, Channel
  <2>3. NoOne # s
    BY CronAssumption DEF CronAssumption
  <2>4. ASSUME Records(s)'
        PROVE  /\ Records(s)
               /\ channel'[runner[s].ch].lastRun = channel[runner[s].ch].lastRun
    <3>1. runner[s].ch \in Channels
      BY <2>1, <2>4 DEF Records, RowsOK, Runner
    <3> QED BY <2>1, <2>2, <2>3, <2>4, <3>1 DEF Records
  <2> QED BY <2>1, <2>4
<1>4. CASE Elapse
  <2>1. /\ runner'[s].task = runner[s].task /\ runner'[s].ch = runner[s].ch
        /\ runner'[s].stamp = runner[s].stamp /\ runner'[s].conn = runner[s].conn
    BY <1>4 DEF Elapse, RowsOK, Runner
  <2>2. \A d \in Channels : /\ channel'[d].lastRun = channel[d].lastRun
                            /\ channel'[d].owner = channel[d].owner
    BY <1>4 DEF Elapse, RowsOK, Channel
  <2> QED BY <2>1, <2>2 DEF Records, RowsOK, Runner
<1>5. CASE UNCHANGED vars
  BY <1>5 DEF vars, Records
<1> QED BY <1>1, <1>2, <1>3, <1>4, <1>5 DEF Dashboard

LEMMA OrderStep ==
    ASSUME RowsOK, InOrder, [Next]_vars
    PROVE  InOrder'
<1>1. ASSUME NEW r \in Runners, Claim(r) PROVE InOrder'
  BY <1>1, ClaimInOrder
<1>2. ASSUME NEW r \in Runners, RecordRun(r) PROVE InOrder'
  <2> SUFFICES ASSUME NEW s \in Runners, Records(s)'
               PROVE  /\ Records(s)
                      /\ runner'[s].ch = runner[s].ch
                      /\ runner'[s].stamp = runner[s].stamp
                      /\ channel'[runner[s].ch].lastRun = channel[runner[s].ch].lastRun
    BY KeepsOrder
  <2>1. s # r /\ runner'[s] = runner[s]
    BY <1>2, RecordRunChanges DEF Records, Idle
  <2>2. runner[s].ch \in Channels
    BY <2>1 DEF Records, RowsOK, Runner
  <2>3. channel'[runner[s].ch].owner = s /\ s # NoOne /\ s # Lost
    BY <2>1, CronAssumption DEF Records, CronAssumption
  <2>4. /\ channel'[runner[s].ch].lastRun = channel[runner[s].ch].lastRun
        /\ channel[runner[s].ch].owner = s
    BY <1>2, <2>2, <2>3, RecordRunChanges
  <2> QED BY <2>1, <2>4 DEF Records
<1>3. ASSUME NEW r \in Runners,
             \/ Progress(r) /\ ~Claim(r) /\ ~RecordRun(r)
             \/ Fault(r)
      PROVE  InOrder'
  <2> SUFFICES ASSUME NEW s \in Runners, Records(s)'
               PROVE  /\ Records(s)
                      /\ runner'[s].ch = runner[s].ch
                      /\ runner'[s].stamp = runner[s].stamp
                      /\ channel'[runner[s].ch].lastRun = channel[runner[s].ch].lastRun
    BY KeepsOrder
  <2>1. /\ runner'[s].ch = runner[s].ch /\ runner'[s].stamp = runner[s].stamp
        /\ runner'[s].conn = runner[s].conn /\ runner[s].task = "live"
    BY <1>3, OtherSteps DEF Records, Idle
  <2>2. runner[s].ch \in Channels
    BY <2>1 DEF Records, RowsOK, Runner
  <2>3. channel'[runner[s].ch].owner = s /\ s # NoOne /\ s # Lost
    BY <2>1, CronAssumption DEF Records, CronAssumption
  <2>4. /\ channel'[runner[s].ch].lastRun = channel[runner[s].ch].lastRun
        /\ channel[runner[s].ch].owner = s
    BY <1>3, <2>2, <2>3, OtherSteps
  <2> QED BY <2>1, <2>4 DEF Records
<1>4. CASE Dashboard \/ Elapse \/ UNCHANGED vars
  BY <1>4, DashboardSteps, KeepsOrder
<1> QED BY <1>1, <1>2, <1>3, <1>4 DEF Next, Step, Progress

\* A run that ends late never replaces the bookkeeping of a run claimed after it, for
\* any number of channels and overlapping runners (runAndRecord's guarded update).
THEOREM SpecImpliesRotationNeverRewinds == Spec => RotationNeverRewinds
<1> DEFINE NoRewind ==
      \A r \in Runners, c \in Channels :
         (/\ runner[r].task = "live" /\ runner'[r].task = "none"
          /\ channel'[c].lastRun # channel[c].lastRun)
         => channel[c].lastRun < channel'[c].lastRun
<1>1. Init => RowsOK
  BY InitRows
<1>2. Init => InOrder
  BY DEF Init, InOrder, Records, Idle
<1>3. RowsOK /\ InOrder /\ [Next]_vars => RowsOK' /\ InOrder'
  BY RowsStep, OrderStep
<1>4. RowsOK /\ InOrder /\ [Next]_vars => [NoRewind]_vars
  <2> SUFFICES ASSUME RowsOK, InOrder, Next, NEW s \in Runners, NEW c \in Channels,
                      runner[s].task = "live", runner'[s].task = "none",
                      channel'[c].lastRun # channel[c].lastRun
               PROVE  channel[c].lastRun < channel'[c].lastRun
    OBVIOUS
  <2>1. ASSUME NEW r \in Runners, Claim(r) PROVE FALSE
    BY <2>1, ClaimEffect DEF Effect, Kinds
  <2>2. ASSUME NEW r \in Runners, RecordRun(r)
        PROVE  channel[c].lastRun < channel'[c].lastRun
    <3>1. s = r
      BY <2>2, RecordRunChanges
    <3>2. c = runner[r].ch /\ Matches(r) /\ channel'[c].lastRun = runner[r].stamp
      BY <2>2, RecordRunChanges
    <3>3. Records(r)
      BY <3>1, <3>2, CronAssumption DEF Records, Matches, CronAssumption
    <3>4. channel[c].lastRun <= runner[r].stamp
      BY <3>2, <3>3 DEF InOrder
    <3>5. channel[c].lastRun \in Nat /\ runner[r].stamp \in Nat
      BY StampsNat DEF RowsOK, Channel, Runner
    <3> QED BY <3>2, <3>4, <3>5
  <2>3. ASSUME NEW r \in Runners,
               \/ Progress(r) /\ ~Claim(r) /\ ~RecordRun(r)
               \/ Fault(r)
        PROVE  FALSE
    BY <2>3, OtherSteps
  <2>4. CASE Dashboard \/ Elapse
    BY <2>4, DashboardSteps
  <2> QED BY <2>1, <2>2, <2>3, <2>4 DEF Next, Step, Progress
<1> QED BY <1>1, <1>2, <1>3, <1>4, PTL DEF Spec, RotationNeverRewinds

(***************************************************************************)
(* The previews.                                                           *)
(***************************************************************************)
\* r is about to plant the preview for which it used the connection's allowance.
Planter(r) == runner[r].pc = "plant" /\ runner[r].conn # "erased"

\* Whoever plants is alone, and the connection has no preview yet.
Plantings ==
    /\ \A r \in Runners : Planter(r) =>
         LET c == runner[r].ch
         IN  c \in Channels /\ channel[c].used /\ preview[c].status = "none"
    /\ \A r, s \in Runners : Planter(r) /\ Planter(s) /\ runner[r].ch = runner[s].ch => r = s
    /\ \A c \in Channels : preview[c].status # "none" => channel[c].used

\* Steps that plant nothing and erase nothing: a preview's status changes only while
\* it is pending.
Quiet ==
    /\ \A s \in Runners : Planter(s)' => Planter(s) /\ runner'[s].ch = runner[s].ch
    /\ \A c \in Channels : channel'[c].used = channel[c].used
    /\ \A c \in Channels : preview'[c].status = preview[c].status \/ Pending(c)

LEMMA QuietKeeps ==
    ASSUME Plantings, Quiet
    PROVE  Plantings'
<1>1. ASSUME NEW r \in Runners, Planter(r)'
      PROVE  /\ runner'[r].ch \in Channels /\ channel'[runner'[r].ch].used
             /\ preview'[runner'[r].ch].status = "none"
  BY <1>1 DEF Plantings, Quiet, Pending
<1>2. \A r, s \in Runners :
        Planter(r)' /\ Planter(s)' /\ runner'[r].ch = runner'[s].ch => r = s
  BY DEF Plantings, Quiet
<1>3. \A c \in Channels : preview'[c].status # "none" => channel'[c].used
  BY DEF Plantings, Quiet, Pending
<1> QED BY <1>1, <1>2, <1>3 DEF Plantings, Planter

\* A row that is settled was pending.
LEMMA ResolvePending ==
    ASSUME RowsOK, NEW S, NEW status, Resolve({c \in S : Pending(c)}, status)
    PROVE  \A c \in Channels : preview'[c].status = preview[c].status \/ Pending(c)
BY DEF RowsOK, Resolve

LEMMA SettlePending ==
    ASSUME RowsOK, NEW r \in Runners, NEW status, Settle(r, status)
    PROVE  \A c \in Channels : preview'[c].status = preview[c].status \/ Pending(c)
BY DEF RowsOK, Settle, Resolve

LEMMA LeavesQuietly ==
    ASSUME RowsOK, NEW r \in Runners,
           Leave(r) \/ \E pc \in {"claimed", "running", "release"} : Goto(r, pc)
    PROVE  \A s \in Runners : Planter(s)' => Planter(s) /\ runner'[s].ch = runner[s].ch
<1>1. CASE Leave(r)
  BY <1>1 DEF Leave, Idle, Planter, RowsOK
<1>2. CASE \E pc \in {"claimed", "running", "release"} : Goto(r, pc)
  BY <1>2 DEF Goto, Planter, RowsOK, Runner
<1> QED BY <1>1, <1>2

LEMMA GivesUpQuietly ==
    ASSUME RowsOK, NEW r \in Runners, channel' \in {channel, Unlease(r), Abandon(r)}
    PROVE  \A c \in Channels : channel'[c].used = channel[c].used
BY DEF RowsOK, Channel, Unlease, Abandon

LEMMA ProcessQuiet ==
    ASSUME RowsOK, NEW r \in Runners, (Progress(r) /\ ~Plant(r)) \/ Fault(r)
    PROVE  Quiet
<1>1. CASE Sweep(r)
  <2>1. \A s \in Runners : Planter(s)' => Planter(s) /\ runner'[s].ch = runner[s].ch
    BY <1>1 DEF Sweep, Planter, RowsOK, Runner
  <2>2. \A c \in Channels : preview'[c].status = preview[c].status \/ Pending(c)
    BY <1>1, ResolvePending DEF Sweep
  <2> QED BY <1>1, <2>1, <2>2 DEF Sweep, Quiet
<1>2. CASE ClaimNothing(r) \/ ClaimFails(r)
  BY <1>2, LeavesQuietly DEF ClaimNothing, ClaimFails, Quiet
<1>3. CASE Claim(r)
  <2>1. PICK kind \in Kinds, c \in Channels, now \in Stamps, used \in SUBSET Stamps :
          Effect(r, kind, c, now, used)
    BY <1>3, ClaimEffect
  <2>2. \A s \in Runners : Planter(s)' => Planter(s) /\ runner'[s].ch = runner[s].ch
    BY <2>1 DEF Effect, Planter
  <2>3. \A d \in Channels : channel'[d].used = channel[d].used
    BY <2>1 DEF Effect
  <2>4. PICK d \in Channels : preview' \in {preview, Attempt(d)}
    BY <1>3 DEF Claim
  <2>5. \A e \in Channels : preview'[e].status = preview[e].status
    BY <2>4 DEF Attempt, RowsOK, Preview
  <2> QED BY <2>2, <2>3, <2>5 DEF Quiet
<1>4. CASE LateClaim(r)
  BY <1>4, LeavesQuietly DEF LateClaim, Quiet
<1>5. CASE StartPreview(r) \/ EndPreview(r)
  <2>1. \A c \in Channels : preview'[c].status = preview[c].status \/ Pending(c)
    BY <1>5, SettlePending DEF StartPreview, EndPreview
  <2>2. \E pc \in {"running", "release"} : Goto(r, pc)
    BY <1>5 DEF StartPreview, EndPreview
  <2> QED BY <1>5, <2>1, <2>2, LeavesQuietly DEF StartPreview, EndPreview, Quiet
<1>6. CASE RecordRun(r)
  <2>1. \A d \in Channels : channel'[d].used = channel[d].used
    <3>1. CASE Matches(r)
      <4> DEFINE chs == Unlease(r)
                 c == runner[r].ch
      <4>1. chs \in [Channels -> Channel] /\ \A d \in Channels : chs[d].used = channel[d].used
        BY ZenonT(60), UnleaseType DEF Unlease, RowsOK, Channel
      <4>2. channel' = [chs EXCEPT ![c].lastRun = runner[r].stamp]
        BY <1>6, <3>1 DEF RecordRun
      <4> HIDE DEF chs
      <4> QED BY <4>1, <4>2 DEF Channel
    <3>2. CASE ~Matches(r)
      BY <1>6, <3>2, GivesUpQuietly DEF RecordRun
    <3> QED BY <3>1, <3>2
  <2> QED BY <1>6, <2>1, LeavesQuietly DEF RecordRun, Quiet
<1>7. CASE Release(r) \/ RecordFails(r) \/ Crash(r)
  BY <1>7, GivesUpQuietly, LeavesQuietly DEF Release, RecordFails, Crash, Quiet
<1>8. CASE Exhausted(r)
  BY <1>8 DEF Exhausted, Quiet, Planter
<1> QED BY <1>1, <1>2, <1>3, <1>4, <1>5, <1>6, <1>7, <1>8 DEF Progress, Fault

LEMMA OthersQuiet ==
    ASSUME RowsOK,
           \/ \E r \in Runners, c \in Channels : Hold(r, c)
           \/ \E c \in Channels : Toggle(c) \/ Connect(c)
           \/ Elapse \/ UNCHANGED vars
    PROVE  Quiet
<1>1. ASSUME NEW r \in Runners, NEW c \in Channels, Hold(r, c) PROVE Quiet
  <2>1. runner'[r].pc = "release" /\ \A s \in Runners \ {r} : runner'[s] = runner[s]
    BY <1>1 DEF Hold, Held, Idle, RowsOK
  <2>2. \A d \in Channels : channel'[d].used = channel[d].used
    BY <1>1 DEF Hold, Lease, RowsOK, Channel
  <2> QED BY <1>1, <2>1, <2>2 DEF Hold, Quiet, Planter
<1>2. ASSUME NEW c \in Channels, Toggle(c) PROVE Quiet
  BY <1>2 DEF Toggle, Quiet, Planter, RowsOK, Channel
<1>3. ASSUME NEW c \in Channels, Connect(c) PROVE Quiet
  <2>1. \A s \in Runners : Planter(s)' => Planter(s) /\ runner'[s].ch = runner[s].ch
    BY <1>3 DEF Connect, Reread, Planter, RowsOK, Runner
  <2>2. \A d \in Channels : channel'[d].used = channel[d].used
    BY <1>3 DEF Connect, RowsOK, Channel
  <2> QED BY <1>3, <2>1, <2>2 DEF Connect, Quiet
<1>4. CASE Elapse
  <2>1. \A s \in Runners : Planter(s)' => Planter(s) /\ runner'[s].ch = runner[s].ch
    BY <1>4 DEF Elapse, Planter, RowsOK, Runner
  <2>2. \A d \in Channels : /\ channel'[d].used = channel[d].used
                            /\ preview'[d].status = preview[d].status
    BY <1>4 DEF Elapse, RowsOK, Channel, Preview
  <2> QED BY <2>1, <2>2 DEF Quiet
<1>5. CASE UNCHANGED vars
  BY <1>5 DEF vars, Quiet, Planter
<1> QED BY <1>1, <1>2, <1>3, <1>4, <1>5

\* Planting needs the lease, so the planter's row has no preview: it gets a pending one.
LEMMA PlantEffect ==
    ASSUME RowsOK, Plantings, NEW r \in Runners, Plant(r)
    PROVE  /\ ~Planter(r)' /\ \A s \in Runners \ {r} : runner'[s] = runner[s]
           /\ UNCHANGED channel
           /\ \/ UNCHANGED preview
              \/ /\ Planter(r) /\ preview[runner[r].ch].status = "none"
                 /\ \A d \in Channels : d # runner[r].ch => preview'[d] = preview[d]
<1>1. PICK pc \in {"claimed", "release"} : Goto(r, pc)
  BY DEF Plant
<1>2. ~Planter(r)' /\ \A s \in Runners \ {r} : runner'[s] = runner[s]
  BY <1>1 DEF Goto, Planter, RowsOK, Runner
<1>3. Matches(r) => Planter(r) /\ preview[runner[r].ch].status = "none"
  BY DEF Plant, Matches, Planter, Plantings
<1> QED BY <1>2, <1>3 DEF Plant, RowsOK

LEMMA PlantingsStep ==
    ASSUME RowsOK, Plantings, [Next]_vars
    PROVE  Plantings'
<1>1. ASSUME NEW r \in Runners, Plant(r) PROVE Plantings'
  <2>1. ASSUME NEW s \in Runners, Planter(s)'
        PROVE  /\ s # r /\ Planter(s) /\ runner'[s].ch = runner[s].ch
               /\ runner[s].ch \in Channels /\ channel'[runner[s].ch].used
               /\ preview'[runner[s].ch].status = "none"
    <3>1. s # r /\ Planter(s) /\ runner'[s] = runner[s]
      BY <1>1, <2>1, PlantEffect DEF Planter
    <3>2. Planter(r) => runner[s].ch # runner[r].ch
      BY <3>1 DEF Plantings
    <3> QED BY <1>1, <3>1, <3>2, PlantEffect DEF Plantings
  <2>2. \A c \in Channels : preview'[c].status # "none" => channel'[c].used
    BY <1>1, PlantEffect DEF Plantings
  <2>3. \A s, t \in Runners :
          Planter(s)' /\ Planter(t)' /\ runner'[s].ch = runner'[t].ch => s = t
    BY <2>1 DEF Plantings
  <2> QED BY <2>1, <2>2, <2>3 DEF Plantings, Planter
<1>2. ASSUME NEW r \in Runners, NEW c \in Channels, ClaimPreview(r, c) PROVE Plantings'
  <2>1. runner'[r].ch = c /\ \A s \in Runners \ {r} : runner'[s] = runner[s]
    BY <1>2, HeldEffect DEF RowsOK
  <2>2. /\ channel'[c].used /\ ~channel[c].used
        /\ \A d \in Channels \ {c} : channel'[d] = channel[d]
    BY <1>2 DEF ClaimPreview, Lease, RowsOK, Channel
  <2>3. preview' = preview /\ preview[c].status = "none"
    BY <1>2, <2>2 DEF ClaimPreview, Plantings
  <2>4. ASSUME NEW s \in Runners, Planter(s)'
        PROVE  /\ s # r => Planter(s) /\ runner'[s].ch = runner[s].ch /\ runner[s].ch # c
               /\ runner'[s].ch \in Channels /\ channel'[runner'[s].ch].used
               /\ preview'[runner'[s].ch].status = "none"
    <3>1. CASE s = r
      BY <2>1, <2>2, <2>3, <3>1
    <3>2. CASE s # r
      <4>1. Planter(s) /\ runner'[s] = runner[s]
        BY <2>1, <2>4, <3>2 DEF Planter
      <4> QED BY <2>2, <2>3, <3>2, <4>1 DEF Plantings
    <3> QED BY <3>1, <3>2
  <2>5. \A s, t \in Runners :
          Planter(s)' /\ Planter(t)' /\ runner'[s].ch = runner'[t].ch => s = t
    BY <2>1, <2>4 DEF Plantings
  <2>6. \A d \in Channels : preview'[d].status # "none" => channel'[d].used
    BY <2>2, <2>3 DEF Plantings
  <2> QED BY <2>4, <2>5, <2>6 DEF Plantings, Planter
<1>3. ASSUME NEW c \in Channels, Disconnect(c) PROVE Plantings'
  <2>1. ASSUME NEW s \in Runners, Planter(s)'
        PROVE  Planter(s) /\ runner'[s].ch = runner[s].ch /\ runner[s].ch # c
    BY <1>3, <2>1 DEF Disconnect, Reread, Planter, RowsOK, Runner
  <2>2. /\ preview'[c].status = "none"
        /\ \A d \in Channels \ {c} : preview'[d] = preview[d] /\ channel'[d] = channel[d]
    BY <1>3 DEF Disconnect, NoPreview, RowsOK
  <2>3. ASSUME NEW s \in Runners, Planter(s)'
        PROVE  /\ runner'[s].ch \in Channels /\ channel'[runner'[s].ch].used
               /\ preview'[runner'[s].ch].status = "none"
    BY <2>1, <2>2, <2>3 DEF Plantings
  <2>4. \A d \in Channels : preview'[d].status # "none" => channel'[d].used
    BY <2>2 DEF Plantings
  <2>5. \A s, t \in Runners :
          Planter(s)' /\ Planter(t)' /\ runner'[s].ch = runner'[t].ch => s = t
    BY <2>1 DEF Plantings
  <2> QED BY <2>3, <2>4, <2>5 DEF Plantings, Planter
<1>4. ASSUME NEW r \in Runners, (Progress(r) /\ ~Plant(r)) \/ Fault(r) PROVE Plantings'
  BY <1>4, ProcessQuiet, QuietKeeps
<1>5. CASE \/ \E r \in Runners, c \in Channels : Hold(r, c)
           \/ \E c \in Channels : Toggle(c) \/ Connect(c)
           \/ Elapse \/ UNCHANGED vars
  BY <1>5, OthersQuiet, QuietKeeps
<1> QED BY <1>1, <1>2, <1>3, <1>4, <1>5 DEF Next, Step, Dashboard

\* A preview that is finished or failed stays so until its channel is erased, for any
\* number of channels, overlapping invocations, kicks and sweeps: every write of a
\* preview's row asks for its pending status, and only one preview is planted per
\* connection (claimDryRun, runFeedbackPreview, finalizeStalePreviews).
THEOREM SpecImpliesPreviewResolvedOnce == Spec => PreviewResolvedOnce
<1> DEFINE Kept ==
      \A c \in Channels :
        preview[c].status \in {"dry-run", "dry-run-failed"} =>
          preview'[c].status = preview[c].status \/ channel'[c].status = "absent"
<1>1. Init => RowsOK
  BY InitRows
<1>2. Init => Plantings
  BY DEF Init, Plantings, Planter, Idle, NoPreview
<1>3. RowsOK /\ Plantings /\ [Next]_vars => RowsOK' /\ Plantings'
  BY RowsStep, PlantingsStep
<1>4. RowsOK /\ Plantings /\ [Next]_vars => [Kept]_vars
  <2> SUFFICES ASSUME RowsOK, Plantings, Next, NEW c \in Channels,
                      preview[c].status \in {"dry-run", "dry-run-failed"}
               PROVE  preview'[c].status = preview[c].status \/ channel'[c].status = "absent"
    OBVIOUS
  <2>1. Quiet => preview'[c].status = preview[c].status
    BY DEF Quiet, Pending
  <2>2. ASSUME NEW r \in Runners, Plant(r) PROVE preview'[c].status = preview[c].status
    BY <2>2, PlantEffect
  <2>3. ASSUME NEW r \in Runners, (Progress(r) /\ ~Plant(r)) \/ Fault(r)
        PROVE  preview'[c].status = preview[c].status
    BY <2>1, <2>3, ProcessQuiet
  <2>4. ASSUME NEW r \in Runners, NEW d \in Channels, ClaimPreview(r, d)
        PROVE  preview'[c].status = preview[c].status
    BY <2>4 DEF ClaimPreview
  <2>5. ASSUME NEW d \in Channels, Disconnect(d)
        PROVE  preview'[c].status = preview[c].status \/ channel'[c].status = "absent"
    BY <2>5 DEF Disconnect, NoChannel, RowsOK
  <2>6. CASE \/ \E r \in Runners, d \in Channels : Hold(r, d)
             \/ \E d \in Channels : Toggle(d) \/ Connect(d)
             \/ Elapse
    BY <2>1, <2>6, OthersQuiet
  <2> QED BY <2>2, <2>3, <2>4, <2>5, <2>6 DEF Next, Step, Dashboard
<1> QED BY <1>1, <1>2, <1>3, <1>4, PTL DEF Spec, PreviewResolvedOnce

\* Runners that outlived their lease leave both outcomes as they are: what a run
\* recorded and how a preview ended (runAndRecord, runFeedbackPreview).
THEOREM SpecImpliesOutcomesStand == Spec => OutcomesStand
BY SpecImpliesRotationNeverRewinds, SpecImpliesPreviewResolvedOnce DEF OutcomesStand

\* Rows and local variables keep their types: in particular a renumbered stamp, a
\* lease and an attempt's age stay in their ranges, whatever the interleaving.
THEOREM SpecImpliesRowsOK == Spec => []RowsOK
<1>1. RowsOK /\ [Next]_vars => RowsOK'
  BY RowsStep
<1> QED BY <1>1, InitRows, PTL DEF Spec
-----------------------------------------------------------------------------
(***************************************************************************)
(* The rotation waits for nobody for long: with N channels a channel that  *)
(* stays ready is claimed for a live run by the 2N-th claim, and each      *)
(* fault or dashboard action postpones it by two claims at most.  Proved   *)
(* for any number of channels and runners, any queue of previews and any   *)
(* times, of the schedules on which an invocation ends before the next.    *)
(***************************************************************************)

(***************************************************************************)
(* A ready channel waits for the others that may still be claimed before   *)
(* it.                                                                     *)
(***************************************************************************)
\* r runs channel d and will record it.
InRun(r, d) ==
    /\ runner[r].pc = "claimed" /\ runner[r].task = "live" /\ runner[r].conn = "same"
    /\ runner[r].ch = d /\ channel[d].owner = r

\* The stamp n is later than the last run of c, and than the one in progress.
Later(c, n) ==
    /\ channel[c].lastRun < n
    /\ \A r \in Runners : InRun(r, c) => runner[r].stamp < n

\* d had its turn after c.
Behind(d, c) ==
    \/ Later(c, channel[d].lastRun)
    \/ \E r \in Runners : InRun(r, d) /\ Later(c, runner[r].stamp)
Threats(c) == {d \in Channels \ {c} : ~Behind(d, c)}

\* Each threat costs c at most one live run and one preview before it.
Phase == IF turn = "live" THEN 1 ELSE 0
Patience ==
    \A c \in Channels :
      served.since[c] + 2 * Cardinality(Threats(c))
        <= 2 * (Cardinality(Channels) - 1) + 2 * events + Phase

\* Invocations end in time, and what they hold tells a run from a preview.
InTime ==
    \A r \in Runners : /\ runner[r].task = "live" => runner[r].left = LeaseTime
                       /\ runner[r].pc = "plant" => runner[r].task # "live"

\* No stamp in use is the one that the next claim gives.
Below ==
    /\ \A c \in Channels : channel[c].lastRun < Latest
    /\ \A r \in Runners : runner[r].stamp < Latest

Counts ==
    /\ events \in Nat /\ turn \in Kinds
    /\ \A c \in Channels : served.since[c] \in Nat

Inv == RowsOK /\ LeaseExclusive /\ InOrder /\ InTime /\ Below /\ Counts /\ Patience

(***************************************************************************)
(* Numbers.                                                                *)
(***************************************************************************)
LEMMA Sizes ==
    /\ Cardinality(Channels) \in Nat /\ Cardinality(Runners) \in Nat /\ Latest \in Nat
    /\ LeaseTime \in Nat \ {0} /\ MaxPassed \in Nat /\ 0 \notin Channels
    /\ IsFiniteSet(Channels) /\ Channels \subseteq Nat
BY FS_CardinalityType, CronAssumption DEF CronAssumption, Latest

LEMMA Naturals ==
    ASSUME RowsOK
    PROVE  /\ \A c \in Channels : channel[c].lastRun \in Nat /\ channel[c].lastRun \in Stamps
           /\ \A r \in Runners : runner[r].stamp \in Nat /\ runner[r].stamp \in Stamps
BY StampsNat DEF RowsOK, Channel, Runner

\* A non-empty set of naturals has a least element.
NatLess == {p \in Nat \X Nat : p[1] < p[2]}
LEMMA NatLessWellFounded == IsWellFoundedOn(NatLess, Nat)
BY NatLessThanWellFounded, Zenon DEF OpToRel, NatLess

LEMMA Least ==
    ASSUME NEW S, S \subseteq Nat, S # {}
    PROVE  \E m \in S : \A n \in S : m <= n
<1>1. PICK m \in S : \A n \in S : ~(<<n, m>> \in NatLess)
  BY NatLessWellFounded, WFMin
<1>2. ASSUME NEW n \in S PROVE m <= n
  <2>1. m \in Nat /\ n \in Nat /\ <<n, m>> \notin NatLess
    BY <1>1
  <2> QED BY <2>1 DEF NatLess
<1> QED BY <1>2

\* While some channel is claimable, one is due: the first by lastRunAt, then by id.
LEMMA SomeoneIsDue ==
    ASSUME RowsOK, NEW c \in Channels, Claimable(c)
    PROVE  LiveCandidates # {}
<1> DEFINE Ready == {d \in Channels : Claimable(d)}
           Ages == {channel[d].lastRun : d \in Ready}
<1>1. Ages \subseteq Nat /\ Ages # {}
  BY Naturals
<1>2. PICK a \in Ages : \A b \in Ages : a <= b
  <2> HIDE DEF Ages
  <2> QED BY <1>1, Least
<1> DEFINE Oldest == {d \in Ready : channel[d].lastRun = a}
<1>3. Oldest \subseteq Nat /\ Oldest # {}
  BY Sizes
<1>4. PICK d \in Oldest : \A e \in Oldest : d <= e
  <2> HIDE DEF Oldest
  <2> QED BY <1>3, Least
<1>5. ASSUME NEW e \in Ready PROVE RunsBefore(d, e)
  <2>1. a <= channel[e].lastRun /\ channel[d].lastRun = a
        /\ a \in Nat /\ channel[e].lastRun \in Nat
    BY <1>1, <1>2
  <2>2. CASE channel[e].lastRun = a
    BY <1>4, <2>1, <2>2 DEF RunsBefore
  <2>3. CASE channel[e].lastRun # a
    BY <2>1, <2>3 DEF RunsBefore
  <2> QED BY <2>2, <2>3
<1>6. d \in LiveCandidates
  BY <1>5 DEF LiveCandidates
<1> QED BY <1>6

\* A later stamp in use stays later.
LEMMA RenumberStrict ==
    ASSUME NEW chs, NEW rs, NEW s \in Stamps, NEW t \in InUse(chs, rs), s < t,
           InUse(chs, rs) \subseteq Stamps
    PROVE  Renumber(s, InUse(chs, rs)) < Renumber(t, InUse(chs, rs))
<1> DEFINE U(n) == {u \in InUse(chs, rs) \ {0} : u <= n}
<1>1. IsFiniteSet(Stamps)
  <2>1. Cardinality(Channels) + Cardinality(Runners) + 1 \in Int
    BY Sizes
  <2> QED BY <2>1, FS_Interval DEF Stamps
<1>2. IsFiniteSet(U(s)) /\ IsFiniteSet(U(t))
  BY <1>1, FS_Subset
<1>3. s \in Nat /\ t \in Nat
  BY StampsNat
<1>4. t \notin U(s)
  BY <1>3
<1>5. U(s) \union {t} \subseteq U(t)
  <2>1. ASSUME NEW u \in U(s) PROVE u \in U(t)
    <3>1. u \in InUse(chs, rs) \ {0} /\ u <= s /\ u \in Nat
      BY StampsNat
    <3> QED BY <1>3, <3>1
  <2>2. t \in U(t)
    BY <1>3
  <2> QED BY <2>1, <2>2
<1>6. Cardinality(U(s) \union {t}) = Cardinality(U(s)) + 1
  BY <1>2, <1>4, FS_AddElement
<1>7. Cardinality(U(s) \union {t}) <= Cardinality(U(t))
  BY <1>2, <1>5, FS_Subset
<1>8. Cardinality(U(s)) \in Nat /\ Cardinality(U(t)) \in Nat
  BY <1>2, FS_CardinalityType
<1> HIDE DEF U
<1>9. Cardinality(U(s)) < Cardinality(U(t))
  BY <1>6, <1>7, <1>8
<1> QED BY <1>9 DEF Renumber, U

LEMMA ThreatsFinite ==
    ASSUME NEW c \in Channels
    PROVE  /\ IsFiniteSet(Threats(c))
           /\ Cardinality(Threats(c)) \in 0 .. Cardinality(Channels) - 1
<1>1. IsFiniteSet(Channels \ {c}) /\ Cardinality(Channels \ {c}) = Cardinality(Channels) - 1
  BY Sizes, FS_RemoveElement
<1>2. Threats(c) \subseteq Channels \ {c}
  BY DEF Threats
<1>3. IsFiniteSet(Threats(c)) /\ Cardinality(Threats(c)) <= Cardinality(Channels \ {c})
  BY <1>1, <1>2, FS_Subset
<1>4. Cardinality(Threats(c)) \in Nat
  BY <1>3, FS_CardinalityType
<1> QED BY <1>1, <1>3, <1>4, Sizes

(***************************************************************************)
(* Steps.                                                                  *)
(***************************************************************************)
Others == Dashboard \/ Punctual \/ UNCHANGED vars

LEMMA ScheduledSteps ==
    ASSUME [ScheduledNext]_vars
    PROVE  /\ [Next]_vars
           /\ \/ \E r \in Runners : Claim(r)
              \/ \E r \in Runners : RecordRun(r)
              \/ \E r \in Runners : \/ Progress(r) /\ ~Claim(r) /\ ~RecordRun(r)
                                    \/ Fault(r)
              \/ Others
BY DEF ScheduledNext, Step, Punctual, Next, Progress, Others

\* Invocations end in time, by the schedule.
LEMMA InTimeStep ==
    ASSUME RowsOK, InTime, [ScheduledNext]_vars
    PROVE  InTime'
<1>1. ASSUME NEW r \in Runners, \A s \in Runners \ {r} : runner'[s] = runner[s],
             \/ runner'[r] = Idle
             \/ runner'[r].left = runner[r].left /\ runner'[r].task = runner[r].task
                /\ runner'[r].pc # "plant"
             \/ runner'[r].task # "live"
      PROVE  InTime'
  BY <1>1 DEF InTime, Idle
<1>2. ASSUME NEW r \in Runners, Claim(r) PROVE InTime'
  <2>1. PICK kind \in Kinds, c \in Channels, now \in Stamps, used \in SUBSET Stamps :
          Effect(r, kind, c, now, used)
    BY <1>2, ClaimEffect
  <2> QED BY <2>1 DEF InTime, Effect
<1>3. ASSUME NEW r \in Runners, Leave(r) PROVE InTime'
  BY <1>1, <1>3 DEF Leave, RowsOK
<1>4. ASSUME NEW r \in Runners,
             \/ \E pc \in {"running", "release"} : Goto(r, pc)
             \/ Plant(r)
      PROVE  InTime'
  <2>1. PICK pc \in {"claimed", "running", "release"} : Goto(r, pc)
    BY <1>4 DEF Plant
  <2>2. /\ \A s \in Runners \ {r} : runner'[s] = runner[s]
        /\ runner'[r].left = runner[r].left /\ runner'[r].task = runner[r].task
        /\ runner'[r].pc # "plant"
    BY <2>1 DEF Goto, RowsOK, Runner
  <2> QED BY <1>1, <2>2
<1>5. ASSUME NEW r \in Runners, Sweep(r) PROVE InTime'
  <2>1. /\ \A s \in Runners \ {r} : runner'[s] = runner[s]
        /\ runner'[r].task # "live"
    BY <1>5 DEF Sweep, RowsOK, Runner
  <2> QED BY <1>1, <2>1
<1>6. ASSUME NEW r \in Runners, NEW c \in Channels, ClaimPreview(r, c) \/ Hold(r, c)
      PROVE  InTime'
  <2>1. /\ \A s \in Runners \ {r} : runner'[s] = runner[s]
        /\ runner'[r].task # "live"
    BY <1>6, HeldEffect DEF RowsOK
  <2> QED BY <1>1, <2>1
<1>7. ASSUME NEW c \in Channels, Toggle(c) \/ Connect(c) \/ Disconnect(c) PROVE InTime'
  <2>1. \A s \in Runners : /\ runner'[s].left = runner[s].left
                           /\ runner'[s].task = runner[s].task /\ runner'[s].pc = runner[s].pc
    BY <1>7 DEF Toggle, Connect, Disconnect, Reread, RowsOK, Runner
  <2> QED BY <2>1 DEF InTime
<1>8. CASE Punctual
  <2>1. \A s \in Runners : /\ runner'[s].task = runner[s].task
                           /\ runner'[s].pc = runner[s].pc
                           /\ runner[s].task # "live"
    BY <1>8 DEF Punctual, Elapse, Kinds, RowsOK, Runner
  <2> QED BY <2>1 DEF InTime
<1>9. CASE UNCHANGED vars \/ \E r \in Runners : Exhausted(r)
  BY <1>9 DEF vars, Exhausted, InTime
<1>10. ASSUME NEW r \in Runners, Progress(r) \/ Fault(r) PROVE InTime'
  BY <1>2, <1>3, <1>4, <1>5, <1>9, <1>10 DEF Progress, Fault, ClaimNothing, RecordRun, StartPreview,
     EndPreview, Release, ClaimFails, LateClaim, RecordFails, Crash
<1> QED BY <1>6, <1>7, <1>8, <1>9, <1>10 DEF ScheduledNext, Step, Dashboard

LEMMA BelowStep ==
    ASSUME RowsOK, Below, [ScheduledNext]_vars
    PROVE  Below'
<1> USE Sizes
<1>1. ASSUME NEW r \in Runners, Claim(r) PROVE Below'
  <2>1. PICK kind \in Kinds, c \in Channels, now \in Stamps, used \in SUBSET Stamps :
          Effect(r, kind, c, now, used)
    BY <1>1, ClaimEffect
  <2>2. \A s : Renumber(s, used) < Latest
    <3>1. \A s : Renumber(s, used) \in 0 .. Latest - 1
      BY <2>1, RenumberBelow DEF Effect
    <3> QED BY <3>1
  <2> QED BY <2>1, <2>2 DEF Effect, Below
<1>2. ASSUME NEW r \in Runners, RecordRun(r) PROVE Below'
  <2>1. 0 < Latest
    BY DEF Latest
  <2>2. ASSUME NEW d \in Channels PROVE channel'[d].lastRun < Latest
    <3>1. channel'[d].lastRun \in {channel[d].lastRun, runner[r].stamp}
      BY <1>2, RecordRunChanges
    <3> QED BY <3>1 DEF Below
  <2>3. \A s \in Runners : runner'[s] \in {runner[s], Idle}
    BY <1>2, RecordRunChanges
  <2> QED BY <2>1, <2>2, <2>3 DEF Below, Idle
<1>3. ASSUME NEW r \in Runners,
             \/ Progress(r) /\ ~Claim(r) /\ ~RecordRun(r)
             \/ Fault(r)
      PROVE  Below'
  <2>1. 0 < Latest
    BY DEF Latest
  <2> QED BY <1>3, <2>1, OtherSteps DEF Below, Idle
<1>4. CASE Others
  <2>1. 0 < Latest
    BY DEF Latest
  <2>2. ASSUME NEW r \in Runners, NEW c \in Channels, ClaimPreview(r, c) \/ Hold(r, c)
        PROVE  Below'
    <3>1. \A d \in Channels : channel'[d].lastRun = channel[d].lastRun
      BY <2>2 DEF ClaimPreview, Hold, Lease, RowsOK, Channel
    <3>2. \A s \in Runners : runner'[s].stamp \in {0, runner[s].stamp}
      <4>1. PICK pc, task : Held(r, c, pc, task)
        BY <2>2 DEF ClaimPreview, Hold
      <4> DEFINE t == [Idle EXCEPT !.pc = pc, !.task = task, !.ch = c, !.left = ManualTime]
      <4>2. t.stamp = 0
        BY DEF Idle
      <4>3. runner' = [runner EXCEPT ![r] = t]
        BY <4>1 DEF Held
      <4> HIDE DEF t
      <4> QED BY <4>2, <4>3 DEF RowsOK
    <3> QED BY <2>1, <3>1, <3>2 DEF Below
  <2>3. ASSUME NEW c \in Channels, Toggle(c) \/ Connect(c) \/ Disconnect(c) PROVE Below'
    <3>1. \A d \in Channels : channel'[d].lastRun \in {0, channel[d].lastRun}
      BY SMTT(60), <2>3 DEF Toggle, Connect, Disconnect, NoChannel, RowsOK, Channel
    <3>2. \A s \in Runners : runner'[s].stamp = runner[s].stamp
      BY <2>3 DEF Toggle, Connect, Disconnect, Reread, RowsOK, Runner
    <3> QED BY <2>1, <3>1, <3>2 DEF Below
  <2>4. CASE Punctual
    <3>1. /\ \A d \in Channels : channel'[d].lastRun = channel[d].lastRun
          /\ \A s \in Runners : runner'[s].stamp = runner[s].stamp
      BY <2>4 DEF Punctual, Elapse, RowsOK, Channel, Runner
    <3> QED BY <3>1 DEF Below
  <2>5. CASE UNCHANGED vars
    BY <2>5 DEF vars, Below
  <2> QED BY <1>4, <2>2, <2>3, <2>4, <2>5 DEF Others, Dashboard
<1> QED BY <1>1, <1>2, <1>3, <1>4, ScheduledSteps

\* What a claim alone changes, and what an event costs.
LEMMA Counters ==
    ASSUME Counts, [ScheduledNext]_vars
    PROVE  /\ \/ events' = events
              \/ events' = events + 1 /\ \A r \in Runners : ~Claim(r) /\ ~RecordRun(r)
           /\ UNCHANGED <<turn, served>> \/ \E r \in Runners : Claim(r)
<1>1. ASSUME NEW r \in Runners, Claim(r) \/ RecordRun(r) PROVE events' = events
  BY <1>1 DEF Claim, RecordRun
<1>2. ASSUME NEW r \in Runners, Progress(r) \/ Fault(r)
      PROVE  /\ events' \in {events, events + 1}
             /\ UNCHANGED <<turn, served>> \/ Claim(r)
  BY <1>2 DEF Progress, Sweep, ClaimNothing, Claim, RecordRun, Plant, StartPreview, EndPreview,
     Release, Fault, Exhausted, ClaimFails, LateClaim, RecordFails, Crash, Event, NoEvent
<1>3. ASSUME Dashboard PROVE events' = events + 1 /\ UNCHANGED <<turn, served>>
  BY <1>3 DEF Dashboard, ClaimPreview, Hold, Toggle, Connect, Disconnect, Event
<1>4. ASSUME Punctual \/ UNCHANGED vars PROVE UNCHANGED <<events, turn, served>>
  BY <1>4 DEF Punctual, Elapse, vars
<1>5. events' \in {events, events + 1}
  BY <1>2, <1>3, <1>4 DEF ScheduledNext, Step
<1>6. UNCHANGED <<turn, served>> \/ \E r \in Runners : Claim(r)
  BY <1>2, <1>3, <1>4 DEF ScheduledNext, Step
<1> QED BY <1>1, <1>5, <1>6 DEF Counts

LEMMA CountsStep ==
    ASSUME Counts, [ScheduledNext]_vars
    PROVE  Counts'
<1>1. events' \in Nat
  BY Counters DEF Counts
<1>2. ASSUME NEW r \in Runners, Claim(r)
      PROVE  turn' \in Kinds /\ \A d \in Channels : served'.since[d] \in Nat
  <2>1. PICK kind \in Kinds, c \in Channels :
          turn' = NextTurn(kind) /\ served' = Served(kind, c)
    BY <1>2 DEF Claim
  <2>2. \A d \in Channels : served'.since[d] \in {0, served.since[d] + 1, MaxPassed}
    BY <2>1 DEF Served
  <2>3. \A d \in Channels : served.since[d] + 1 \in Nat
    BY DEF Counts
  <2> QED BY <2>1, <2>2, <2>3, Sizes DEF NextTurn, Kinds, Counts
<1> QED BY <1>1, <1>2, Counters DEF Counts

(***************************************************************************)
(* Who threatens whom, step by step.                                       *)
(***************************************************************************)
\* A channel in a run is leased, and so not claimable.
LEMMA InRunLeased ==
    ASSUME RowsOK, LeaseExclusive, InTime, NEW r \in Runners, NEW d \in Channels, InRun(r, d)
    PROVE  ~Free(d)
<1>1. Trusts(r)
  BY Sizes DEF InRun, InTime, Trusts
<1>2. Carried(r)
  BY <1>1, ExclusiveDef
<1> QED BY <1>2, Sizes DEF InRun, InTime, Carried, Free

\* At most channel x loses its run or its last run's stamp.
LosesOne(x) ==
    /\ \A d \in Channels : \/ channel'[d].lastRun = channel[d].lastRun
                           \/ d = x /\ channel'[d].lastRun = 0
    /\ \A r \in Runners, d \in Channels :
         InRun(r, d)' => InRun(r, d) /\ runner'[r].stamp = runner[r].stamp
    /\ \A r \in Runners, d \in Channels :
         InRun(r, d) /\ d # x => InRun(r, d)' /\ runner'[r].stamp = runner[r].stamp

LEMMA LosesOneThreat ==
    ASSUME RowsOK, NEW x, LosesOne(x), NEW c \in Channels
    PROVE  Threats(c)' \subseteq Threats(c) \union {x}
<1>1. ASSUME NEW d \in Channels, d # x, Behind(d, c) PROVE Behind(d, c)'
  <2>1. CASE Later(c, channel[d].lastRun)
    <3> DEFINE n == channel[d].lastRun
    <3>1. Later(c, n)'
      <4>1. channel'[d].lastRun = channel[d].lastRun /\ n \in Nat
        BY <1>1, Naturals DEF LosesOne
      <4>2. channel'[c].lastRun < n
        BY <2>1, <4>1, Naturals DEF LosesOne, Later
      <4> QED BY <2>1, <4>1, <4>2 DEF LosesOne, Later
    <3> QED BY <3>1 DEF Behind
  <2>2. CASE \E r \in Runners : InRun(r, d) /\ Later(c, runner[r].stamp)
    <3>1. PICK r \in Runners : InRun(r, d) /\ Later(c, runner[r].stamp)
      BY <2>2
    <3>2. InRun(r, d)' /\ runner'[r].stamp = runner[r].stamp
      BY <1>1, <3>1 DEF LosesOne
    <3>3. channel'[c].lastRun < runner'[r].stamp
      BY <3>1, <3>2, Naturals DEF LosesOne, Later
    <3>4. Later(c, runner[r].stamp)'
      BY <3>1, <3>2, <3>3 DEF LosesOne, Later
    <3> QED BY <3>2, <3>4 DEF Behind
  <2> QED BY <1>1, <2>1, <2>2 DEF Behind
<1> QED BY <1>1 DEF Threats

\* r leaves or moves on, and gives up at most leases of its own.
LEMMA StopsOne ==
    ASSUME RowsOK, NEW r \in Runners, channel' \in {channel, Unlease(r), Abandon(r)},
           Leave(r) \/ \E pc \in {"running", "release"} : Goto(r, pc)
    PROVE  LosesOne(IF runner[r].pc = "claimed" /\ runner[r].task = "live"
                    THEN runner[r].ch ELSE 0)
<1> DEFINE x == IF runner[r].pc = "claimed" /\ runner[r].task = "live"
                THEN runner[r].ch ELSE 0
<1>1. ASSUME NEW d \in Channels
      PROVE  /\ channel'[d].lastRun = channel[d].lastRun
             /\ channel'[d].owner \in {channel[d].owner, NoOne, Lost}
             /\ channel[d].owner # r => channel'[d].owner = channel[d].owner
  BY ZenonT(60) DEF Unlease, Abandon, RowsOK, Channel
<1>2. ASSUME NEW s \in Runners \ {r}, NEW d \in Channels
      PROVE  InRun(s, d)' <=> InRun(s, d)
  <2>1. runner'[s] = runner[s]
    BY DEF Leave, Goto, RowsOK
  <2> QED BY <1>1, <2>1, CronAssumption DEF InRun, CronAssumption
<1>3. ASSUME NEW d \in Channels PROVE ~InRun(r, d)'
  BY DEF Leave, Goto, Idle, InRun, RowsOK, Runner
<1>4. ASSUME NEW d \in Channels, InRun(r, d) PROVE d = x
  BY <1>4 DEF InRun
<1>5. \A s \in Runners \ {r} : runner'[s] = runner[s]
  BY DEF Leave, Goto, RowsOK
<1> HIDE DEF x
<1>6. LosesOne(x)
  BY <1>1, <1>2, <1>3, <1>4, <1>5 DEF LosesOne
<1> QED BY <1>6 DEF x

\* Nobody starts or stops running, and no stamp changes.
LEMMA LosesNone ==
    ASSUME NEW x,
           \A d \in Channels : channel'[d].lastRun = channel[d].lastRun,
           \A r \in Runners, d \in Channels : InRun(r, d)' <=> InRun(r, d),
           \A r \in Runners, d \in Channels : InRun(r, d) => runner'[r].stamp = runner[r].stamp
    PROVE  LosesOne(x)
BY DEF LosesOne

LEMMA ProcessLoses ==
    ASSUME RowsOK, InTime, Counts, NEW r \in Runners,
           \/ Progress(r) /\ ~Claim(r) /\ ~RecordRun(r)
           \/ Fault(r)
    PROVE  LosesOne(0) \/ (events' = events + 1 /\ \E x \in Channels : LosesOne(x))
<1>1. CASE Sweep(r)
  <2>1. /\ UNCHANGED channel /\ runner'[r].pc = "claim" /\ runner[r].pc = "idle"
        /\ \A s \in Runners \ {r} : runner'[s] = runner[s]
    BY <1>1 DEF Sweep, RowsOK, Runner
  <2> QED BY <2>1, LosesNone DEF InRun
<1>2. CASE Exhausted(r)
  BY <1>2, LosesNone DEF Exhausted, InRun
<1>3. CASE ClaimNothing(r) \/ ClaimFails(r)
  BY <1>3, StopsOne DEF ClaimNothing, ClaimFails
<1>4. CASE Plant(r)
  <2>1. PICK pc \in {"claimed", "release"} : Goto(r, pc)
    BY <1>4 DEF Plant
  <2>2. /\ UNCHANGED channel
        /\ \A s \in Runners \ {r} : runner'[s] = runner[s]
        /\ runner'[r].task # "live" /\ runner[r].task # "live"
    BY <1>4, <2>1 DEF Plant, Goto, InTime, RowsOK, Runner
  <2> QED BY <2>2, LosesNone DEF InRun
<1>5. CASE StartPreview(r) \/ EndPreview(r) \/ Release(r)
  <2>1. /\ channel' \in {channel, Unlease(r)}
        /\ Leave(r) \/ \E pc \in {"running", "release"} : Goto(r, pc)
        /\ ~(runner[r].pc = "claimed" /\ runner[r].task = "live")
    BY <1>5 DEF StartPreview, EndPreview, Release
  <2> QED BY <2>1, StopsOne
<1>6. CASE LateClaim(r) \/ RecordFails(r) \/ Crash(r)
  <2>1. /\ channel' \in {channel, Abandon(r)} /\ events' = events + 1
        /\ Leave(r) \/ \E pc \in {"running", "release"} : Goto(r, pc)
    BY <1>6 DEF LateClaim, RecordFails, Crash, Event
  <2>2. runner[r].ch \in Channels \union {0}
    BY DEF RowsOK, Runner
  <2> QED BY <2>1, <2>2, StopsOne
<1> QED BY <1>1, <1>2, <1>3, <1>4, <1>5, <1>6 DEF Progress, Fault

LEMMA OthersLose ==
    ASSUME RowsOK, LeaseExclusive, InTime, Counts, Others
    PROVE  LosesOne(0) \/ (events' = events + 1 /\ \E x \in Channels : LosesOne(x))
<1>1. ASSUME NEW r \in Runners, NEW c \in Channels, ClaimPreview(r, c) \/ Hold(r, c)
      PROVE  LosesOne(0)
  <2>1. /\ \A s \in Runners \ {r} : runner'[s] = runner[s]
        /\ runner'[r].task # "live"
    BY <1>1, HeldEffect DEF RowsOK
  <2>2. runner[r].pc = "idle" /\ Free(c)
    BY <1>1 DEF ClaimPreview, Hold, Claimable
  <2>3. /\ \A d \in Channels : channel'[d].lastRun = channel[d].lastRun
        /\ channel'[c].owner = r
        /\ \A d \in Channels \ {c} : channel'[d].owner = channel[d].owner
    BY <1>1 DEF ClaimPreview, Hold, Lease, RowsOK, Channel
  <2>4. \A s \in Runners : ~InRun(s, c)
    BY <2>2, InRunLeased
  <2>5. \A s \in Runners, d \in Channels : InRun(s, d)' <=> InRun(s, d)
    BY <2>1, <2>2, <2>3, <2>4 DEF InRun
  <2>6. \A s \in Runners, d \in Channels : InRun(s, d) => runner'[s].stamp = runner[s].stamp
    BY <2>1, <2>2 DEF InRun
  <2> QED BY <2>3, <2>5, <2>6, LosesNone
<1>2. ASSUME NEW c \in Channels, Toggle(c) PROVE LosesOne(0)
  <2>1. /\ UNCHANGED runner
        /\ \A d \in Channels : /\ channel'[d].lastRun = channel[d].lastRun
                               /\ channel'[d].owner = channel[d].owner
    BY <1>2 DEF Toggle, RowsOK, Channel
  <2> QED BY <2>1, LosesNone DEF InRun
<1>3. ASSUME NEW c \in Channels, Connect(c) \/ Disconnect(c)
      PROVE  events' = events + 1 /\ LosesOne(c)
  <2>1. events' = events + 1
    BY <1>3 DEF Connect, Disconnect, Event
  <2>2. ASSUME NEW s \in Runners
        PROVE  /\ runner'[s].pc = runner[s].pc /\ runner'[s].task = runner[s].task
               /\ runner'[s].ch = runner[s].ch /\ runner'[s].stamp = runner[s].stamp
               /\ runner'[s].conn = "same" => runner[s].conn = "same"
               /\ runner[s].ch # c => runner'[s].conn = runner[s].conn
    BY <1>3 DEF Connect, Disconnect, Reread, RowsOK, Runner
  <2>3. ASSUME NEW d \in Channels
        PROVE  /\ channel'[d].lastRun = channel[d].lastRun \/ (d = c /\ channel'[d].lastRun = 0)
               /\ channel'[d].owner \in {channel[d].owner, NoOne}
               /\ d # c => channel'[d].owner = channel[d].owner
    BY <1>3 DEF Connect, Disconnect, NoChannel, RowsOK, Channel
  <2>4. ASSUME NEW s \in Runners, NEW d \in Channels
        PROVE  /\ InRun(s, d)' => InRun(s, d)
               /\ InRun(s, d) /\ d # c => InRun(s, d)'
    BY <2>2, <2>3, CronAssumption DEF InRun, CronAssumption
  <2> QED BY <2>1, <2>2, <2>3, <2>4 DEF LosesOne
<1>4. CASE Punctual
  <2>1. \A s \in Runners : runner'[s].task = runner[s].task /\ runner[s].task # "live"
    BY <1>4 DEF Punctual, Elapse, Kinds, RowsOK, Runner
  <2>2. \A d \in Channels : channel'[d].lastRun = channel[d].lastRun
    BY <1>4 DEF Punctual, Elapse, RowsOK, Channel
  <2> QED BY <2>1, <2>2, LosesNone DEF InRun
<1>5. CASE UNCHANGED vars
  BY <1>5, LosesNone DEF vars, InRun
<1> QED BY <1>1, <1>2, <1>3, <1>4, <1>5 DEF Others, Dashboard

\* A recorded run has the same stamp in its row as it had in progress.
LEMMA RecordedStays ==
    ASSUME RowsOK, InOrder, NEW r \in Runners, RecordRun(r), NEW c \in Channels
    PROVE  Threats(c)' \subseteq Threats(c)
<1>1. ASSUME NEW s \in Runners, NEW d \in Channels, InRun(s, d)' PROVE s # r /\ InRun(s, d)
  <2>1. s # r /\ runner'[s] = runner[s]
    BY <1>1, RecordRunChanges DEF InRun, Idle
  <2>2. channel[d].owner = s
    BY <1>1, RecordRunChanges, CronAssumption DEF InRun, CronAssumption
  <2> QED BY <1>1, <2>1, <2>2 DEF InRun
<1>2. ASSUME NEW d \in Channels, channel[d].owner # r
      PROVE  channel'[d].lastRun = channel[d].lastRun /\ channel'[d].owner = channel[d].owner
  <2>1. CASE Matches(r)
    <3> DEFINE chs == Unlease(r)
    <3>1. chs \in [Channels -> Channel] /\ chs[d] = channel[d]
      BY <1>2, UnleaseType DEF Unlease
    <3>2. channel' = [chs EXCEPT ![runner[r].ch].lastRun = runner[r].stamp]
      BY <2>1 DEF RecordRun
    <3>3. d # runner[r].ch
      BY <1>2, <2>1 DEF Matches
    <3> HIDE DEF chs
    <3> QED BY <3>1, <3>2, <3>3
  <2>2. CASE ~Matches(r)
    BY <1>2, <2>2 DEF RecordRun, Abandon
  <2> QED BY <2>1, <2>2
<1>3. ASSUME NEW d \in Channels, InRun(r, d) PROVE channel'[d].lastRun = runner[r].stamp
  <2> DEFINE chs == Unlease(r)
  <2>1. chs \in [Channels -> Channel]
    BY UnleaseType
  <2>2. Matches(r) /\ runner[r].ch = d
    BY <1>3 DEF Matches, InRun
  <2>3. channel' = [chs EXCEPT ![d].lastRun = runner[r].stamp]
    BY <2>2 DEF RecordRun
  <2> HIDE DEF chs
  <2> QED BY SMTT(60), <2>1, <2>3 DEF Channel
<1>4. ASSUME NEW d \in Channels
      PROVE  channel'[d].lastRun = channel[d].lastRun
             \/ (InRun(r, d) /\ channel'[d].lastRun = runner[r].stamp)
  BY RecordRunChanges DEF RecordRun, Matches, InRun
<1>5. ASSUME NEW d \in Channels, InRun(r, d) PROVE channel[d].lastRun <= runner[r].stamp
  <2>1. Records(r)
    BY <1>5, Sizes DEF InRun, Records
  <2> QED BY <1>5, <2>1 DEF InOrder, InRun
\* Whatever was later than c's run stays so.
<1>6. ASSUME NEW n \in Nat, channel[c].lastRun < n,
             \A s \in Runners : InRun(s, c) => runner[s].stamp < n
      PROVE  /\ channel'[c].lastRun < n
             /\ \A s \in Runners : InRun(s, c)' => runner'[s].stamp < n
  <2>1. channel'[c].lastRun < n
    BY <1>4, <1>6
  <2>2. \A s \in Runners \ {r} : runner'[s] = runner[s]
    BY RecordRunChanges
  <2> QED BY <1>1, <1>6, <2>1, <2>2
<1>7. ASSUME NEW d \in Channels, Behind(d, c) PROVE Behind(d, c)'
  <2>1. ASSUME Later(c, channel[d].lastRun) PROVE Behind(d, c)'
    <3>1. channel'[d].lastRun \in Nat /\ channel[d].lastRun <= channel'[d].lastRun
      BY <1>4, <1>5, Naturals
    <3>2. channel[c].lastRun < channel'[d].lastRun
          /\ \A s \in Runners : InRun(s, c) => runner[s].stamp < channel'[d].lastRun
      BY <2>1, <3>1, Naturals DEF Later
    <3>3. Later(c, channel[d].lastRun)'
      BY <1>6, <3>1, <3>2 DEF Later
    <3> QED BY <3>3 DEF Behind
  <2>2. ASSUME NEW s \in Runners, InRun(s, d), Later(c, runner[s].stamp) PROVE Behind(d, c)'
    <3>1. runner[s].stamp \in Nat
      BY Naturals
    <3>2. /\ channel'[c].lastRun < runner[s].stamp
          /\ \A t \in Runners : InRun(t, c)' => runner'[t].stamp < runner[s].stamp
      BY <1>6, <2>2, <3>1 DEF Later
    <3>3. CASE s = r
      <4>1. channel'[d].lastRun = runner[s].stamp
        BY <1>3, <2>2, <3>3
      <4>2. Later(c, channel[d].lastRun)'
        BY <3>2, <4>1 DEF Later
      <4> QED BY <4>2 DEF Behind
    <3>4. CASE s # r
      <4>1. runner'[s] = runner[s]
        BY <3>4, RecordRunChanges
      <4>2. InRun(s, d)'
        BY <1>2, <2>2, <3>4, <4>1 DEF InRun
      <4>3. Later(c, runner[s].stamp)'
        BY <3>2, <4>1 DEF Later
      <4> QED BY <4>2, <4>3 DEF Behind
    <3> QED BY <3>3, <3>4
  <2> QED BY <1>7, <2>1, <2>2 DEF Behind
<1> QED BY <1>7 DEF Threats

\* A claim brings nobody before c; a live claim puts the claimed channel behind it.
LEMMA ClaimThreats ==
    ASSUME RowsOK, LeaseExclusive, InTime, Below,
           NEW r \in Runners, runner[r].pc = "claim",
           NEW kind \in Kinds, NEW k \in Channels, NEW now \in Stamps, NEW used \in SUBSET Stamps,
           Effect(r, kind, k, now, used), NEW c \in Channels, c # k \/ kind = "preview"
    PROVE  /\ Threats(c)' \subseteq Threats(c)
           /\ kind = "live" => k \notin Threats(c)'
<1> DEFINE R(n) == Renumber(n, used)
<1>1. \A m \in Stamps, n \in used : m < n => R(m) < R(n)
  BY RenumberStrict DEF Effect
<1>2. /\ \A d \in Channels : channel'[d].lastRun = R(channel[d].lastRun)
      /\ \A d \in Channels : channel[d].lastRun \in used /\ channel[d].lastRun \in Stamps
      /\ \A s \in Runners \ {r} : runner'[s].stamp = R(runner[s].stamp)
      /\ \A s \in Runners \ {r} : runner[s].stamp \in used /\ runner[s].stamp \in Stamps
      /\ runner'[r].stamp = R(now) /\ now \in used
  BY Naturals DEF Effect
<1>3. \A s \in Runners : ~InRun(s, k)
  BY SelectedFree, InRunLeased DEF Effect
<1>4. ASSUME NEW s \in Runners, InRun(s, c)' PROVE s # r /\ InRun(s, c)
  BY <1>3, <1>4 DEF Effect, InRun
<1>5. ASSUME NEW n \in used, Later(c, n)
      PROVE  /\ channel'[c].lastRun < R(n)
             /\ \A s \in Runners : InRun(s, c)' => runner'[s].stamp < R(n)
  <2>1. channel'[c].lastRun < R(n)
    BY <1>1, <1>2, <1>5 DEF Later
  <2>2. ASSUME NEW s \in Runners, InRun(s, c)' PROVE runner'[s].stamp < R(n)
    <3>1. s # r /\ runner[s].stamp < n
      BY <1>4, <1>5, <2>2 DEF Later
    <3> QED BY <1>1, <1>2, <3>1
  <2> QED BY <2>1, <2>2
<1> HIDE DEF R
<1>6. ASSUME NEW d \in Channels, Behind(d, c) PROVE Behind(d, c)'
  <2>1. ASSUME Later(c, channel[d].lastRun) PROVE Behind(d, c)'
    <3>1. Later(c, channel[d].lastRun)'
      BY <1>2, <1>5, <2>1 DEF Later
    <3> QED BY <3>1 DEF Behind
  <2>2. ASSUME NEW s \in Runners, InRun(s, d), Later(c, runner[s].stamp) PROVE Behind(d, c)'
    <3>1. s # r /\ d # k
      BY <1>3, <2>2 DEF InRun
    <3>2. InRun(s, d)'
      BY <2>2, <3>1 DEF Effect, InRun
    <3>3. Later(c, runner[s].stamp)'
      BY <1>2, <1>5, <2>2, <3>1 DEF Later
    <3> QED BY <3>2, <3>3 DEF Behind
  <2> QED BY <1>6, <2>1, <2>2 DEF Behind
<1>7. ASSUME kind = "live" PROVE Behind(k, c)'
  <2>1. InRun(r, k)'
    BY <1>7 DEF Effect, InRun
  <2>2. Later(c, now)
    BY DEF Effect, Below, Later
  <2>3. Later(c, runner[r].stamp)'
    BY <1>2, <1>5, <2>2 DEF Later
  <2> QED BY <2>1, <2>3 DEF Behind
<1> QED BY <1>6, <1>7 DEF Threats

\* The channel of a live claim was before every other channel that is ready.
LEMMA DueIsThreat ==
    ASSUME RowsOK, LeaseExclusive, InTime, NEW k \in Channels, NEW c \in Channels, c # k,
           Selected("live", k), Claimable(c)
    PROVE  k \in Threats(c)
<1>1. Free(k) /\ RunsBefore(k, c)
  BY SelectedFree DEF Selected, LiveCandidates
<1>2. \A s \in Runners : ~InRun(s, k)
  BY <1>1, InRunLeased
<1>3. ~Later(c, channel[k].lastRun)
  BY <1>1, Naturals DEF RunsBefore, Later
<1> QED BY <1>2, <1>3 DEF Threats, Behind

(***************************************************************************)
(* The invariant and the theorem.                                          *)
(***************************************************************************)
LEMMA PatienceKept ==
    ASSUME Counts, Counts', Patience, NEW n \in 0 .. 1, events' = events + n,
           UNCHANGED <<turn, served>>,
           \A c \in Channels : \E x : /\ Threats(c)' \subseteq Threats(c) \union {x}
                                      /\ n = 0 => x \notin Channels
    PROVE  Patience'
<1> SUFFICES ASSUME NEW c \in Channels
             PROVE  served'.since[c] + 2 * Cardinality(Threats(c)')
                      <= 2 * (Cardinality(Channels) - 1) + 2 * events' + Phase'
  BY DEF Patience
<1>1. PICK x : Threats(c)' \subseteq Threats(c) \union {x} /\ (n = 0 => x \notin Channels)
  OBVIOUS
<1>2. Cardinality(Threats(c)') \in Nat /\ Cardinality(Threats(c)') <= Cardinality(Threats(c)) + n
  <2>1. IsFiniteSet(Threats(c)) /\ Cardinality(Threats(c)) \in Nat
    BY ThreatsFinite, FS_CardinalityType
  <2>2. Threats(c)' \subseteq Channels
    BY DEF Threats
  <2>3. CASE Threats(c)' \subseteq Threats(c)
    BY <2>1, <2>3, FS_Subset, FS_CardinalityType
  <2>4. CASE ~(Threats(c)' \subseteq Threats(c))
    <3>1. x \in Channels /\ x \notin Threats(c) /\ n = 1
      BY <1>1, <2>2, <2>4
    <3>2. /\ IsFiniteSet(Threats(c) \union {x})
          /\ Cardinality(Threats(c) \union {x}) = Cardinality(Threats(c)) + 1
      BY <2>1, <3>1, FS_AddElement
    <3> QED BY <1>1, <3>1, <3>2, FS_Subset, FS_CardinalityType
  <2> QED BY <2>3, <2>4
<1>3. Cardinality(Threats(c)) \in Nat /\ Phase \in 0 .. 1 /\ Phase' = Phase
  BY ThreatsFinite, FS_CardinalityType DEF Phase
<1>4. served'.since[c] = served.since[c] /\ served.since[c] \in Nat /\ events \in Nat
  BY DEF Counts
<1>5. served.since[c] + 2 * Cardinality(Threats(c))
        <= 2 * (Cardinality(Channels) - 1) + 2 * events + Phase
  BY DEF Patience
<1> QED BY <1>2, <1>3, <1>4, <1>5, Sizes

LEMMA ClaimPatience ==
    ASSUME RowsOK, LeaseExclusive, InTime, Below, Counts, Patience, NEW r \in Runners, Claim(r)
    PROVE  Patience'
<1>0. PICK kind \in Kinds, k \in Channels, now \in Stamps, used \in SUBSET Stamps :
        Effect(r, kind, k, now, used)
  BY ClaimEffect
<1>1. Selected(kind, k) /\ turn' = NextTurn(kind) /\ served' = Served(kind, k)
  BY <1>0 DEF Effect
<1>2. runner[r].pc = "claim" /\ events' = events /\ events \in Nat
  BY DEF Claim, Counts
<1> SUFFICES ASSUME NEW c \in Channels
             PROVE  served'.since[c] + 2 * Cardinality(Threats(c)')
                      <= 2 * (Cardinality(Channels) - 1) + 2 * events' + Phase'
  BY DEF Patience
<1>3. Phase \in 0 .. 1 /\ Phase' \in 0 .. 1
  BY DEF Phase
<1>4. /\ Cardinality(Threats(c)) \in Nat
      /\ Cardinality(Threats(c)') \in Nat
      /\ Cardinality(Threats(c)') <= Cardinality(Channels) - 1
  <2>1. Threats(c)' \subseteq Channels \ {c}
    BY DEF Threats
  <2>2. IsFiniteSet(Channels \ {c}) /\ Cardinality(Channels \ {c}) = Cardinality(Channels) - 1
    BY Sizes, FS_RemoveElement
  <2>3. IsFiniteSet(Threats(c)') /\ Cardinality(Threats(c)') <= Cardinality(Channels \ {c})
    BY <2>1, <2>2, FS_Subset
  <2> QED BY <2>2, <2>3, ThreatsFinite, FS_CardinalityType
<1>5. CASE (c = k /\ kind = "live") \/ ~Claimable(c)
  <2>1. served'.since[c] = 0
    BY <1>1, <1>5 DEF Served
  <2> QED BY <1>2, <1>3, <1>4, <2>1, Sizes
<1>6. CASE (c # k \/ kind = "preview") /\ Claimable(c)
  <2>1. /\ Threats(c)' \subseteq Threats(c)
        /\ kind = "live" => k \notin Threats(c)'
    BY <1>0, <1>2, <1>6, ClaimThreats
  <2>2. served'.since[c] <= served.since[c] + 1 /\ served'.since[c] \in Nat
        /\ served.since[c] \in Nat
    <3>1. served'.since[c] \in {0, served.since[c] + 1, MaxPassed}
          /\ (served'.since[c] = MaxPassed /\ MaxPassed # 0 /\ MaxPassed # served.since[c] + 1
                => ~(served.since[c] < MaxPassed))
      BY <1>1 DEF Served
    <3> QED BY <3>1, Sizes DEF Counts
  <2>3. served.since[c] + 2 * Cardinality(Threats(c))
          <= 2 * (Cardinality(Channels) - 1) + 2 * events + Phase
    BY DEF Patience
  <2>4. CASE kind = "preview"
    <3>1. Contested
      BY <1>1, <1>6, <2>4, SomeoneIsDue DEF Selected, Contested
    <3>2. Phase = 0 /\ Phase' = 1
      BY <1>1, <2>4, <3>1 DEF Selected, NextTurn, Phase
    <3>3. Cardinality(Threats(c)') <= Cardinality(Threats(c))
      BY <2>1, ThreatsFinite, FS_Subset
    <3> QED BY <1>2, <1>4, <2>2, <2>3, <3>2, <3>3, Sizes
  <2>5. CASE kind = "live"
    <3>1. k \in Threats(c)
      BY <1>1, <1>6, <2>5, DueIsThreat
    <3>2. /\ IsFiniteSet(Threats(c) \ {k})
          /\ Cardinality(Threats(c) \ {k}) = Cardinality(Threats(c)) - 1
      BY <3>1, ThreatsFinite, FS_RemoveElement
    <3>3. Threats(c)' \subseteq Threats(c) \ {k}
      BY <2>1, <2>5
    <3>4. Cardinality(Threats(c)') <= Cardinality(Threats(c)) - 1
      BY <3>2, <3>3, FS_Subset
    <3> QED BY <1>2, <1>3, <1>4, <2>2, <2>3, <3>4, Sizes
  <2> QED BY <2>4, <2>5 DEF Kinds
<1> QED BY <1>1, <1>5, <1>6 DEF Kinds

LEMMA PatienceStep ==
    ASSUME Inv, [ScheduledNext]_vars
    PROVE  Patience'
<1> USE DEF Inv
<1>1. Counts'
  BY CountsStep
<1>2. ASSUME NEW r \in Runners, Claim(r) PROVE Patience'
  BY <1>2, ClaimPatience
<1>3. ASSUME NEW r \in Runners, RecordRun(r), UNCHANGED <<turn, served>> PROVE Patience'
  <2>1. events' = events + 0
    BY <1>3 DEF RecordRun, Counts
  <2>2. \A c \in Channels : Threats(c)' \subseteq Threats(c) \union {0} /\ 0 \notin Channels
    BY <1>3, RecordedStays, Sizes
  <2> QED BY <1>1, <1>3, <2>1, <2>2, PatienceKept
<1>4. ASSUME UNCHANGED <<turn, served>>,
             \/ Others
             \/ \E r \in Runners : \/ Progress(r) /\ ~Claim(r) /\ ~RecordRun(r)
                                   \/ Fault(r)
      PROVE  Patience'
  <2>1. LosesOne(0) \/ (events' = events + 1 /\ \E x \in Channels : LosesOne(x))
    BY <1>4, ProcessLoses, OthersLose
  <2>2. events' \in {events, events + 1}
    BY Counters
  <2>3. ASSUME LosesOne(0) PROVE Patience'
    <3>1. \A c \in Channels : Threats(c)' \subseteq Threats(c) \union {0} /\ 0 \notin Channels
      BY <2>3, LosesOneThreat, Sizes
    <3>2. PICK n \in 0 .. 1 : events' = events + n
      BY <2>2 DEF Counts
    <3> QED BY <1>1, <1>4, <3>1, <3>2, PatienceKept
  <2>4. ASSUME events' = events + 1, NEW x \in Channels, LosesOne(x) PROVE Patience'
    <3>1. \A c \in Channels : Threats(c)' \subseteq Threats(c) \union {x}
      BY <2>4, LosesOneThreat
    <3> QED BY <1>1, <1>4, <2>4, <3>1, PatienceKept
  <2> QED BY <2>1, <2>3, <2>4
<1> QED BY <1>2, <1>3, <1>4, ScheduledSteps, Counters

LEMMA InitInv == Init => Inv
<1> SUFFICES ASSUME Init PROVE Inv
  OBVIOUS
<1>1. RowsOK /\ LeaseExclusive /\ InOrder
  BY InitRows DEF Init, LeaseExclusive, InOrder, Records, Idle
<1>2. InTime /\ Below /\ Counts
  <2>1. Latest > 0 /\ 0 \in Nat
    BY Sizes DEF Latest
  <2>2. \A r \in Runners : runner[r].task # "live" /\ runner[r].pc # "plant" /\ runner[r].stamp = 0
    BY DEF Init, Idle
  <2>3. \A c \in Channels : channel[c].lastRun = 0
    BY DEF Init, NoChannel
  <2>4. Counts
    BY <2>1 DEF Init, Counts, Kinds
  <2> QED BY <2>1, <2>2, <2>3, <2>4 DEF InTime, Below
<1>3. Patience
  BY ThreatsFinite, Sizes DEF Init, Patience, Phase
<1> QED BY <1>1, <1>2, <1>3 DEF Inv

LEMMA NextInv ==
    ASSUME Inv, [ScheduledNext]_vars
    PROVE  Inv'
<1>1. [Next]_vars
  BY ScheduledSteps
<1> QED BY <1>1, RowsStep, LeaseStep, OrderStep, InTimeStep, BelowStep, CountsStep, PatienceStep
      DEF Inv

\* With N channels a channel that stays ready is claimed for a live run at the latest by
\* the 2N-th claim, however many previews wait; each fault or dashboard action postpones
\* it by two claims at most (claimCronWorkload's order and turn, the lease and the
\* guarded update of runAndRecord), on the schedules whose invocations end in time.
THEOREM ScheduledImpliesRotationBound == Scheduled => []RotationBound
<1>1. Inv => RotationBound
  <2> SUFFICES ASSUME Inv, NEW c \in Channels
               PROVE  served.since[c] < 2 * (Cardinality(Channels) + events)
    BY DEF RotationBound
  <2>1. served.since[c] + 2 * Cardinality(Threats(c))
          <= 2 * (Cardinality(Channels) - 1) + 2 * events + Phase
    BY DEF Inv, Patience
  <2>2. Cardinality(Threats(c)) \in Nat /\ Phase \in 0 .. 1
    BY ThreatsFinite, FS_CardinalityType DEF Phase
  <2> QED BY <2>1, <2>2, Sizes DEF Inv, Counts
<1> QED BY <1>1, InitInv, NextInv, PTL DEF Scheduled
=============================================================================
