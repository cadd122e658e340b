------------------------------ MODULE Verdicts ------------------------------
(***************************************************************************)
(* How a batch of comments gets its verdicts (decisions.ts, scoring.ts)    *)
(* while the owners change which authors are protected (allowlist.ts) and  *)
(* connect or disconnect the channel.  An owner lists handles; who holds a *)
(* handle is learnt from YouTube and never stored.  A run resolves the     *)
(* handles, scores the batch over many seconds, resolves again what is new *)
(* and stages in one transaction that reads the list once more.            *)
(*                                                                         *)
(* What a rule matches and what the models answer is arbitrary.  A batch   *)
(* of a new comment each: rescans, charging and overlapping runs are in    *)
(* ScanRun.  Who holds a handle does not change meanwhile.                 *)
(***************************************************************************)
EXTENDS Naturals, FiniteSets

CONSTANTS Authors, Author,    \* of the comments 1, 2, ... of the batch
          Handles, Holder,    \* and the author who holds each handle, or None
          Owners,             \* requests on the channel's settings
          Teams, None,
          Cap,                \* MAX_HANDLES_PER_CHANNEL
          Credits,            \* of the organisation
          MaxLinks, MaxAdds, MaxRuns   \* connections, requests, runs: bounds

Positions == DOMAIN Author
ConstantsOK ==
  /\ \A c \in Positions : c \in Nat /\ Author[c] \in Authors
  /\ Holder \in [Handles -> Authors \cup {None}] /\ None \notin Authors \cup Teams
  /\ Cap \in Nat \ {0} /\ Credits \in Nat
  /\ MaxLinks \in Nat /\ MaxAdds \in Nat /\ MaxRuns \in Nat

VARIABLES link,      \* channels: the team and the token of the connection
          listed,    \* channel_allowed_handles
          owner,     \* requests in progress
          run,
          staged,    \* comments: the verdict
          funds,     \* the credits that are left
          links, adds, runs   \* totals

vars == <<link, listed, owner, run, staged, funds, links, adds, runs>>

Apart == [team |-> None, token |-> 0]
Idle == [at |-> "idle"]

Init ==
  /\ \E team \in Teams : link = [team |-> team, token |-> 1]
  /\ listed = {} /\ owner = [o \in Owners |-> Idle] /\ run = Idle
  /\ staged = [c \in Positions |-> None] /\ funds = Credits
  /\ links = 1 /\ adds = 0 /\ runs = 0

-----------------------------------------------------------------------------
(* The owners. *)

Rest(o) == owner' = [owner EXCEPT ![o] = Idle]
RowOf(handle) == {r \in listed : r.handle = handle}

(* addHandle: the channel and its list are read, the handle is verified on *)
(* YouTube, and everything is checked again where it is stored.            *)
AskHandle(o, handle) ==
  /\ owner[o] = Idle /\ link # Apart /\ adds < MaxAdds
  /\ Cardinality(listed) < Cap \/ RowOf(handle) # {}
  /\ adds' = adds + 1
  /\ owner' = [owner EXCEPT ![o] = [at |-> "resolve", handle |-> handle, same |-> RowOf(handle), link |-> link]]
  /\ UNCHANGED <<link, listed, run, staged, funds, links, runs>>
ResolveHandle(o) ==
  /\ owner[o].at = "resolve"
  /\ \/ Holder[owner[o].handle] # None /\ owner' = [owner EXCEPT ![o].at = "store"]
     \/ Rest(o)     \* nobody holds it, or YouTube cannot be asked
  /\ UNCHANGED <<link, listed, run, staged, funds, links, adds, runs>>
SameLink(o) == owner[o].link = link
StorableLoosely(o) ==                                       \* a mutant
  RowOf(owner[o].handle) = {} /\ Cardinality(listed) < Cap
Storable(o) ==
  /\ SameLink(o) /\ owner[o].same = {}
  /\ RowOf(owner[o].handle) = {} /\ Cardinality(listed) < Cap
StoreHandle(o) ==
  /\ owner[o].at = "store" /\ Rest(o)
  /\ listed' = IF Storable(o)
                 THEN listed \cup {[id |-> adds, handle |-> owner[o].handle, team |-> owner[o].link.team]}
                 ELSE listed
  /\ adds' = adds + 1     \* a bound as well: no two rows have one id
  /\ UNCHANGED <<link, run, staged, funds, links, runs>>
RemoveHandle(r) ==
  /\ r \in listed /\ listed' = listed \ {r}
  /\ UNCHANGED <<link, owner, run, staged, funds, links, adds, runs>>

(* disconnectChannel: the team is checked, the grant revoked, and the rows *)
(* of the channel go only with the team that was checked.                  *)
AskDisconnect(o) ==
  /\ owner[o] = Idle /\ link # Apart /\ owner' = [owner EXCEPT ![o] = [at |-> "erase", link |-> link]]
  /\ UNCHANGED <<link, listed, run, staged, funds, links, adds, runs>>
Erase(o) ==
  /\ owner[o].at = "erase" /\ Rest(o)
  /\ IF owner[o].link.team = link.team
       THEN link' = Apart /\ listed' = {} /\ staged' = [c \in Positions |-> None]
       ELSE UNCHANGED <<link, listed, staged>>
  /\ UNCHANGED <<run, funds, links, adds, runs>>
(* upsertChannelConnection: another team's channel is left alone; a team   *)
(* that connects its own again hands over the token and keeps the rows.    *)
Connect(team) ==
  /\ link.team \in {None, team} /\ links < MaxLinks /\ links' = links + 1
  /\ link' = [team |-> team, token |-> links + 1]
  /\ UNCHANGED <<listed, owner, run, staged, funds, adds, runs>>

-----------------------------------------------------------------------------
(* One run. *)

Fresh == {c \in Positions : staged[c] = None}
Writers == {Author[c] : c \in Fresh}
Go(at) == run' = [run EXCEPT !.at = at]

(* A proof says who holds the handle of a row; a row without one could not *)
(* be resolved.  What resolves is asked of YouTube, which may fail.        *)
Proof(r, holder) == [id |-> r.id, handle |-> r.handle, holder |-> holder]
ResolvedAfresh(known, open) ==
  {known \cup {Proof(r, Holder[r.handle]) : r \in done} : done \in SUBSET open}

(* loadProtectedAuthors: the handles of the batch's authors are looked up  *)
(* first; when all are known, a handle that none of them has is nobody's   *)
(* who matters here, and when some are not, the rest is resolved.          *)
Matched(found) == {Proof(r, Holder[r.handle]) : r \in {s \in listed : Holder[s.handle] \in found}}
Absent == {Proof(r, None) : r \in {s \in listed : Holder[s.handle] \notin Writers}}
Load ==
  /\ run = Idle /\ link # Apart /\ Fresh # {} /\ runs < MaxRuns /\ runs' = runs + 1
  /\ \E found \in SUBSET Writers :
       \E proofs \in IF found = Writers THEN {Matched(found) \cup Absent}
                     ELSE ResolvedAfresh(Matched(found), {r \in listed : Holder[r.handle] \notin found}) :
         run' = [at |-> "score", link |-> link, proofs |-> proofs, rows |-> listed, verdict |-> <<>>]
  /\ UNCHANGED <<link, listed, owner, staged, funds, links, adds>>

(* protectedDecision, by a list and what is known of it. *)
Known(r, proofs) == \E p \in proofs : p.id = r.id /\ p.handle = r.handle
Protects(c, rows, proofs) == \E p \in proofs : p.holder = Author[c] /\ \E r \in rows : r.id = p.id
UnresolvedNever(rows, proofs) == FALSE                      \* a mutant
Unresolved(rows, proofs) == \E r \in rows : ~Known(r, proofs)
Verdict(act, by, billed) == [act |-> act, by |-> by, billed |-> billed]
Guarded(c, rows, proofs) ==
  IF Protects(c, rows, proofs) THEN {Verdict("approve", "allowlist", FALSE)}
  ELSE IF Unresolved(rows, proofs) THEN {Verdict("queue", "none", FALSE)} ELSE {}

(* aiDecision: the guard against injected instructions, the safety score,  *)
(* and the tone where it is asked for; a failure is for a human to judge.  *)
(* To enforce is to hold, reject, delete or ban: they are not told apart.  *)
ByAI ==
  {Verdict("queue", "none", TRUE)}                                     \* it failed
    \cup {Verdict(act, "ai", TRUE) : act \in {"approve", "queue", "enforce"}}

(* decide, for all comments at once: the credits are claimed in the order  *)
(* of the batch before anything is awaited.  A comment no credit is left   *)
(* for is deferred; without the videos' details no comment is scored.      *)
Ruled == {Verdict("enforce", "rule", FALSE)}
Decided(c, matched, scored, budget) ==
  LET guarded == Guarded(c, run.rows, run.proofs)
      before == {d \in scored : d < c}
  IN IF guarded # {} THEN guarded
     ELSE IF c \in matched THEN Ruled
     ELSE IF c \notin scored THEN {Verdict("queue", "none", FALSE)}
     ELSE IF Cardinality(before) < budget THEN ByAI ELSE {None}
Score ==
  /\ run.at = "score"
  /\ \E matched \in SUBSET Fresh, informed \in BOOLEAN :
       LET scored == {c \in Fresh \ matched : informed /\ Guarded(c, run.rows, run.proofs) = {}}
           Options == [c \in Fresh |-> Decided(c, matched, scored, funds)]
       IN \E verdict \in [Fresh -> UNION {Options[c] : c \in Fresh}] :
            /\ \A c \in Fresh : verdict[c] \in Options[c]
            /\ run' = [run EXCEPT !.at = "snapshot", !.verdict = verdict]
  /\ UNCHANGED <<link, listed, owner, staged, funds, links, adds, runs>>

(* stageDecisions: what is new on the list is resolved, the list is read   *)
(* again with the channel locked, and protection has the last word.        *)
Snapshot ==
  /\ run.at = "snapshot"
  /\ \E proofs \in ResolvedAfresh(run.proofs, {r \in listed : ~Known(r, run.proofs)}) :
       run' = [run EXCEPT !.at = "stage", !.proofs = proofs]
  /\ UNCHANGED <<link, listed, owner, staged, funds, links, adds, runs>>
Final(c) ==
  LET scored == run.verdict[c]
      guarded == Guarded(c, listed, run.proofs)
  IN IF guarded # {} THEN [(CHOOSE v \in guarded : TRUE) EXCEPT !.billed = scored.billed]
     ELSE IF scored.by = "allowlist" THEN Verdict("queue", "none", FALSE)
     ELSE scored
Staging == {c \in DOMAIN run.verdict : run.verdict[c] # None}
Stage ==
  /\ run.at = "stage" /\ run.link = link /\ run' = Idle
  /\ staged' = [c \in Positions |-> IF c \in Staging THEN Final(c) ELSE staged[c]]
  /\ funds' = funds - Cardinality({c \in Staging : run.verdict[c].billed})
  /\ UNCHANGED <<link, listed, owner, links, adds, runs>>
Stop ==      \* the channel changed hands, or the deadline is spent
  /\ run # Idle /\ run' = Idle
  /\ UNCHANGED <<link, listed, owner, staged, funds, links, adds, runs>>

Next ==
  \/ \E o \in Owners : \/ (\E h \in Handles : AskHandle(o, h)) \/ ResolveHandle(o) \/ StoreHandle(o)
                       \/ AskDisconnect(o) \/ Erase(o)
  \/ \E r \in listed : RemoveHandle(r)
  \/ \E t \in Teams : Connect(t)
  \/ Load \/ Score \/ Snapshot \/ Stage \/ Stop

Spec == Init /\ [][Next]_vars

-----------------------------------------------------------------------------
(* Properties. *)

(* When verdicts are stored, an author whose handle is listed at that very *)
(* moment is approved or left to a human, whatever was listed, resolved    *)
(* and decided while the batch was scored; and nobody is approved for a    *)
(* handle that is not listed any more, or was listed by another team.      *)
Listed(c) == \E r \in listed : Holder[r.handle] = Author[c] /\ r.team = link.team
ProtectionExact ==
  [][\A c \in Positions : staged[c] = None /\ staged'[c] # None =>
       /\ Listed(c) => staged'[c].act = "queue" \/ staged'[c].by = "allowlist"
       /\ staged'[c].by = "allowlist" => Listed(c)]_vars

(* However requests overlap and the channel changes hands, the list holds  *)
(* no handle twice, no more than it may, and none that another team asked  *)
(* for.                                                                    *)
HandlesKept ==
  /\ Cardinality(listed) <= Cap
  /\ \A r, s \in listed : r.handle = s.handle => r = s
  /\ \A r \in listed : r.team = link.team
=============================================================================
