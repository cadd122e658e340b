-------------------------- MODULE ModerationProofs --------------------------
(***************************************************************************)
(* Theorems about the verdicts on a batch while owners protect and give up *)
(* authors and connect the channel anew: for any authors, handles, teams,  *)
(* requests and batches.                                                   *)
(***************************************************************************)
EXTENDS Moderation, FiniteSetTheorems, TLAPS

LEMMA JudgeOrRest == [Next]_vars => Judge \/ UNCHANGED judging
BY DEF Next, vars, Enforce, Rule

LEMMA FiniteToo == \A set : (V!IsFiniteSet(set) <=> IsFiniteSet(set)) /\ V!Cardinality(set) = Cardinality(set)
<1>1. ASSUME NEW set PROVE V!IsFiniteSet(set) <=> IsFiniteSet(set)
  BY Zenon DEF V!IsFiniteSet, IsFiniteSet
<1>2. ASSUME NEW set PROVE V!Cardinality(set) = Cardinality(set)
  BY Zenon DEF V!Cardinality, Cardinality
<1> QED BY <1>1, <1>2

-----------------------------------------------------------------------------
(* The list.  Rows are told apart by an id that is never given twice, and  *)
(* a list is its team's: a channel that is nobody's has none, and whoever  *)
(* adds a row holds the very connection it is added for.                   *)
Link == [team : Teams \cup {None}, token : Nat]
Listing == [id : Nat, handle : Handles, team : Teams]
Editing == {V!Idle} \cup [at : {"resolve", "store"}, handle : Handles, same : SUBSET Listing, link : Link]
                    \cup [at : {"erase"}, link : Link]

ListInv ==
  /\ tie \in Link /\ ties \in Nat /\ adds \in Nat /\ tie.token <= ties
  /\ tie.team = None => tie = V!Apart /\ listed = {}
  /\ listed \subseteq Listing /\ IsFiniteSet(listed) /\ Cardinality(listed) <= Cap
  /\ \A r \in listed : r.id < adds /\ r.team = tie.team
  /\ \A r, s \in listed : r.id = s.id \/ r.handle = s.handle => r = s
  /\ editor \in [Requests -> Editing]
  /\ \A o \in Requests : editor[o] # V!Idle => editor[o].link.team \in Teams

LEMMA ListConstants ==
  ConstantsOK => None \notin Teams /\ None \notin Authors /\ Cap \in Nat \ {0} /\ V!Apart \in Link /\ V!Apart.team = None
BY DEF ConstantsOK, V!ConstantsOK, V!Apart, Link

(* An owner's request moves on, and the list stays.                        *)
LEMMA EditorMoves ==
  ASSUME ConstantsOK, ListInv, NEW o \in Requests, NEW q \in Editing, editor' = [editor EXCEPT ![o] = q],
         q # V!Idle => q.link.team \in Teams, UNCHANGED <<tie, ties, listed>>, adds' \in Nat, adds' >= adds
  PROVE  ListInv'
<1>1. editor' \in [Requests -> Editing] /\ \A x \in Requests : editor'[x] = IF x = o THEN q ELSE editor[x]
  BY DEF ListInv
<1>2. \A x \in Requests : editor'[x] # V!Idle => editor'[x].link.team \in Teams
  BY <1>1 DEF ListInv
<1>3. \A r \in listed : r.id \in Nat /\ r.id < adds
  BY DEF ListInv, Listing
<1> QED BY <1>1, <1>2, <1>3 DEF ListInv

LEMMA EditorRests ==
  ASSUME ConstantsOK, ListInv, NEW o \in Requests, editor' = [editor EXCEPT ![o] = V!Idle],
         UNCHANGED <<tie, ties, listed>>, adds' \in Nat, adds' >= adds
  PROVE  ListInv'
<1> DEFINE q == V!Idle
<1>1. q \in Editing /\ (q # V!Idle => q.link.team \in Teams) /\ editor' = [editor EXCEPT ![o] = q]
  BY DEF Editing
<1> HIDE DEF q
<1> QED BY <1>1, EditorMoves

LEMMA ListStarts == ConstantsOK /\ Init => ListInv
<1> SUFFICES ASSUME ConstantsOK, Init PROVE ListInv
  OBVIOUS
<1>1. /\ \E team \in Teams : tie = [team |-> team, token |-> 1]
      /\ listed = {} /\ editor = [o \in Requests |-> V!Idle] /\ ties = 1 /\ adds = 0
  BY DEF Init, V!Init
<1>2. Cardinality({}) = 0 /\ IsFiniteSet({})
  BY FS_EmptySet
<1>3. \A o \in Requests : editor[o] = V!Idle
  BY <1>1
<1>4. editor \in [Requests -> Editing]
  BY <1>1 DEF Editing
<1>5. tie \in Link /\ tie.team \in Teams /\ tie.token = 1
  BY <1>1 DEF Link
<1> QED BY <1>1, <1>2, <1>3, <1>4, <1>5, ListConstants DEF ListInv

LEMMA Storing ==
  ASSUME ConstantsOK, ListInv, NEW o \in Requests, V!StoreHandle(o)
  PROVE  ListInv'
<1> DEFINE q == editor[o]
           row == [id |-> adds, handle |-> q.handle, team |-> q.link.team]
<1>1. q \in Editing /\ q # V!Idle /\ q.link.team \in Teams /\ q.handle \in Handles
  <2>1. q \in Editing /\ q.at = "store"
    BY DEF V!StoreHandle, ListInv
  <2>2. q # V!Idle
    BY <2>1 DEF V!Idle
  <2> QED BY <2>1, <2>2 DEF Editing, ListInv
<1>2. /\ editor' = [editor EXCEPT ![o] = V!Idle] /\ UNCHANGED <<tie, ties>> /\ adds' = adds + 1
      /\ adds \in Nat /\ V!Idle \in Editing
  BY DEF V!StoreHandle, V!Rest, ListInv, Editing
<1>3. CASE ~V!Storable(o)
  <2>1. listed' = listed
    BY <1>3 DEF V!StoreHandle
  <2>2. adds' \in Nat /\ adds' >= adds
    BY <1>2
  <2> QED BY <1>2, <2>1, <2>2, EditorRests
<1>4. CASE V!Storable(o)
  <2>1. listed' = listed \cup {row} /\ row \in Listing /\ row.id = adds /\ row.handle = q.handle /\ row.team = q.link.team
    BY <1>1, <1>2, <1>4 DEF V!StoreHandle, Listing
  <2>2. q.link = tie /\ (\A r \in listed : r.handle # q.handle) /\ Cardinality(listed) < Cap
    BY <1>4, FiniteToo DEF V!Storable, V!SameLink, V!RowOf
  <2>3. IsFiniteSet(listed) /\ Cardinality(listed) \in Nat
    BY FS_CardinalityType DEF ListInv
  <2>4. IsFiniteSet(listed') /\ Cardinality(listed') <= Cap
    <3>1. Cardinality(listed') \in {Cardinality(listed), Cardinality(listed) + 1} /\ IsFiniteSet(listed')
      BY <2>1, <2>3, FS_AddElement
    <3> QED BY <2>2, <2>3, <3>1, ListConstants
  <2> HIDE DEF row, q
  <2>5. \A r \in listed : r.id \in Nat /\ r.id < adds /\ r.team = tie.team
    BY DEF ListInv, Listing
  <2>6. \A r \in listed' : r.id < adds' /\ r.team = tie'.team
    BY <1>2, <2>1, <2>2, <2>5
  <2>7. \A r, s \in listed' : r.id = s.id \/ r.handle = s.handle => r = s
    BY <1>2, <2>1, <2>2, <2>5 DEF ListInv
  <2>8. /\ editor' \in [Requests -> Editing]
        /\ \A x \in Requests : editor'[x] # V!Idle => editor'[x].link.team \in Teams
    BY <1>2 DEF ListInv
  <2>9. tie.team \in Teams
    BY <1>1, <2>2
  <2> QED BY <1>2, <2>1, <2>4, <2>6, <2>7, <2>8, <2>9, ListConstants DEF ListInv
<1> QED BY <1>3, <1>4

LEMMA Asking ==
  ASSUME ConstantsOK, ListInv, NEW o \in Requests,
         (\E h \in Handles : V!AskHandle(o, h)) \/ V!ResolveHandle(o) \/ V!AskDisconnect(o)
  PROVE  ListInv'
<1>1. tie \in Link /\ (tie # V!Apart => tie.team \in Teams) /\ V!Idle \in Editing
  BY DEF ListInv, Link, Editing
<1>2. ASSUME NEW h \in Handles, V!AskHandle(o, h) PROVE ListInv'
  <2> DEFINE q == [at |-> "resolve", handle |-> h, same |-> V!RowOf(h), link |-> tie]
  <2>1. V!RowOf(h) \subseteq Listing
    BY DEF V!RowOf, ListInv
  <2>2. q \in Editing /\ q.link = tie
    BY <1>1, <2>1 DEF Editing
  <2>3. /\ editor' = [editor EXCEPT ![o] = q] /\ tie # V!Apart
        /\ UNCHANGED <<tie, ties, listed>> /\ adds' = adds + 1 /\ adds \in Nat
    BY <1>2 DEF V!AskHandle, ListInv
  <2>4. q.link.team \in Teams /\ adds' \in Nat /\ adds' >= adds
    BY <1>1, <2>2, <2>3
  <2> HIDE DEF q
  <2> QED BY <2>2, <2>3, <2>4, EditorMoves
<1>3. CASE V!ResolveHandle(o)
  <2> DEFINE q == [editor[o] EXCEPT !.at = "store"]
  <2>1. editor[o].at = "resolve" /\ editor[o] \in Editing /\ UNCHANGED <<tie, ties, listed, adds>> /\ adds \in Nat
    BY <1>3 DEF V!ResolveHandle, ListInv
  <2>2. editor[o] # V!Idle /\ q \in Editing /\ q.link = editor[o].link
    BY <2>1 DEF Editing, V!Idle
  <2>3. q.link.team \in Teams
    BY <2>2 DEF ListInv
  <2>4. editor' = [editor EXCEPT ![o] = q] \/ editor' = [editor EXCEPT ![o] = V!Idle]
    BY <1>3 DEF V!ResolveHandle, V!Rest
  <2> HIDE DEF q
  <2> QED BY <1>1, <2>1, <2>2, <2>3, <2>4, EditorMoves
<1>4. CASE V!AskDisconnect(o)
  <2> DEFINE q == [at |-> "erase", link |-> tie]
  <2>1. q \in Editing /\ q.link = tie
    BY <1>1 DEF Editing
  <2>2. editor' = [editor EXCEPT ![o] = q] /\ tie # V!Apart /\ UNCHANGED <<tie, ties, listed, adds>> /\ adds \in Nat
    BY <1>4 DEF V!AskDisconnect, ListInv
  <2>3. q.link.team \in Teams /\ adds' \in Nat /\ adds' >= adds
    BY <1>1, <2>1, <2>2
  <2> HIDE DEF q
  <2> QED BY <2>1, <2>2, <2>3, EditorMoves
<1> QED BY <1>2, <1>3, <1>4

LEMMA Linking ==
  ASSUME ConstantsOK, ListInv,
         (\E o \in Requests : V!Erase(o)) \/ (\E r \in listed : V!RemoveHandle(r)) \/ (\E t \in Teams : V!Connect(t))
  PROVE  ListInv'
<1>1. V!Idle \in Editing /\ Cardinality({}) = 0 /\ IsFiniteSet({})
  BY FS_EmptySet DEF Editing
<1>2. ASSUME NEW o \in Requests, V!Erase(o) PROVE ListInv'
  <2>1. editor' = [editor EXCEPT ![o] = V!Idle] /\ UNCHANGED <<ties, adds>> /\ adds \in Nat /\ ties \in Nat
    BY <1>2 DEF V!Erase, V!Rest, ListInv
  <2>2. CASE UNCHANGED <<tie, listed>>
    <3>1. adds' \in Nat /\ adds' >= adds
      BY <2>1
    <3> QED BY <2>1, <2>2, <3>1, EditorRests
  <2>3. CASE tie' = V!Apart /\ listed' = {}
    <3>1. /\ editor' \in [Requests -> Editing]
          /\ \A x \in Requests : editor'[x] # V!Idle => editor'[x].link.team \in Teams
      BY <1>1, <2>1 DEF ListInv
    <3>2. tie' \in Link /\ tie'.token <= ties'
      BY <2>1, <2>3, ListConstants DEF V!Apart
    <3> QED BY <1>1, <2>1, <2>3, <3>1, <3>2, ListConstants DEF ListInv
  <2> QED BY <1>2, <2>2, <2>3 DEF V!Erase
<1>3. ASSUME NEW r \in listed, V!RemoveHandle(r) PROVE ListInv'
  <2>1. listed' = listed \ {r} /\ UNCHANGED <<tie, ties, adds, editor>>
    BY <1>3 DEF V!RemoveHandle
  <2>2. IsFiniteSet(listed') /\ Cardinality(listed') <= Cap
    <3>1. IsFiniteSet(listed') /\ Cardinality(listed') = Cardinality(listed) - 1 /\ Cardinality(listed) \in Nat
      BY <2>1, FS_RemoveElement, FS_CardinalityType DEF ListInv
    <3> QED BY <3>1, ListConstants DEF ListInv
  <2> QED BY <2>1, <2>2 DEF ListInv
<1>4. ASSUME NEW t \in Teams, V!Connect(t) PROVE ListInv'
  <2>1. tie' = [team |-> t, token |-> ties + 1] /\ ties' = ties + 1 /\ tie.team \in {None, t} /\ UNCHANGED <<listed, adds, editor>>
    BY <1>4 DEF V!Connect
  <2>2. tie' \in Link /\ tie'.team = t /\ tie'.token = ties' /\ ties' \in Nat /\ t # None
    BY <2>1, ListConstants DEF Link, ListInv
  <2>3. \A r \in listed : r.team = t
    BY <2>1 DEF ListInv
  <2> QED BY <2>1, <2>2, <2>3 DEF ListInv
<1> QED BY <1>2, <1>3, <1>4

LEMMA ListInvariance == ConstantsOK /\ ListInv /\ [Next]_vars => ListInv'
<1> SUFFICES ASSUME ConstantsOK, ListInv, [Next]_vars PROVE ListInv'
  OBVIOUS
<1>1. CASE UNCHANGED judging
  BY <1>1 DEF judging, ListInv
<1>2. CASE Judge
  <2>1. CASE V!Load \/ V!Score \/ V!Snapshot \/ V!Stage \/ V!Stop
    <3>1. UNCHANGED <<tie, ties, listed, adds, editor>>
      BY <2>1 DEF V!Load, V!Score, V!Snapshot, V!Stage, V!Stop
    <3> QED BY <3>1 DEF ListInv
  <2>2. ASSUME NEW o \in Requests, V!StoreHandle(o) PROVE ListInv'
    BY <2>2, Storing
  <2>3. ASSUME NEW o \in Requests, (\E h \in Handles : V!AskHandle(o, h)) \/ V!ResolveHandle(o) \/ V!AskDisconnect(o)
        PROVE  ListInv'
    BY <2>3, Asking
  <2>4. CASE (\E o \in Requests : V!Erase(o)) \/ (\E r \in listed : V!RemoveHandle(r)) \/ (\E t \in Teams : V!Connect(t))
    BY <2>4, Linking
  <2> QED BY <1>2, <2>1, <2>2, <2>3, <2>4 DEF Judge, V!Next
<1> QED BY <1>1, <1>2, JudgeOrRest

(* However requests overlap and the channel changes hands, the list holds  *)
(* no handle twice, no more than it may, and none that another team asked  *)
(* for (channelHandles of allowlist.ts).                                   *)
THEOREM SpecImpliesHandlesKept == Spec => []HandlesKept
<1>1. ListInv => HandlesKept
  BY FiniteToo DEF ListInv, HandlesKept, V!HandlesKept
<1> QED BY <1>1, ConstantsOK, ListStarts, ListInvariance, PTL DEF Spec

-----------------------------------------------------------------------------
(* The batch.  A proof is about a row whose id no other row will bear, and *)
(* while the connection is the one the run began with, a proof that names  *)
(* nobody is about a handle that no author of a comment without a verdict  *)
(* has: comments only lose their verdicts together with the connection.    *)
Answer == {None} \cup [act : {"approve", "queue", "enforce"}, by : {"allowlist", "none", "ai", "rule"}, billed : BOOLEAN]
Proving == [id : Nat, handle : Handles, holder : Authors \cup {None}]
Batch == [at : {"score", "snapshot", "stage"}, link : Link, proofs : SUBSET Proving, rows : SUBSET Listing,
          verdict : UNION {[some -> Answer] : some \in SUBSET V!Positions}]
Waiting(stamps) == {c \in V!Positions : stamps[c] = None}
ProofOK(p, list, top) == p.id < top /\ \A r \in list : r.id = p.id => r.handle = p.handle
Faithful(p, stamps) == \/ p.holder = Holder[p.handle]
                       \/ p.holder = None /\ \A c \in Waiting(stamps) : Author[c] # Holder[p.handle]
BatchOK(b, now, top, count, list, stamps) ==
  b # V!Idle => /\ b.link.team \in Teams /\ b.link.token <= top
                /\ \A p \in b.proofs : ProofOK(p, list, count)
                /\ b.link = now => \A p \in b.proofs : Faithful(p, stamps)
BatchInv ==
  /\ batch \in Batch \cup {V!Idle} /\ DOMAIN staged = V!Positions
  /\ BatchOK(batch, tie, ties, adds, listed, staged)

LEMMA BatchStarts == ConstantsOK /\ Init => BatchInv
BY DEF Init, V!Init, BatchInv, BatchOK

LEMMA BatchFields ==
  ASSUME batch \in Batch
  PROVE  /\ batch # V!Idle /\ batch.link \in Link /\ batch.proofs \subseteq Proving /\ batch.rows \subseteq Listing
         /\ \A at \in {"score", "snapshot", "stage"} : [batch EXCEPT !.at = at] \in Batch
BY DEF Batch, V!Idle

(* What owners do while a batch is judged.                                 *)
LEMMA BatchStays ==
  ASSUME ConstantsOK, ListInv, BatchInv, UNCHANGED batch,
         ties' \in Nat, ties' >= ties, adds' \in Nat, adds' >= adds,
         \A r \in listed' : r \in listed \/ r.id >= adds,
         \/ tie' = tie /\ staged' = staged
         \/ /\ tie'.team \notin Teams \/ tie'.token > ties
            /\ DOMAIN staged' = V!Positions
  PROVE  BatchInv'
<1>1. CASE batch = V!Idle
  BY <1>1 DEF BatchInv, BatchOK
<1>2. CASE batch \in Batch
  <2>1. batch # V!Idle /\ batch.link \in Link /\ batch.proofs \subseteq Proving
    BY <1>2, BatchFields
  <2>2. batch.link.team \in Teams /\ batch.link.token \in Nat /\ batch.link.token <= ties /\ ties \in Nat
    BY <2>1 DEF BatchInv, BatchOK, Link, ListInv
  <2>3. ASSUME NEW p \in batch.proofs PROVE ProofOK(p, listed', adds')
    <3>1. p.id \in Nat /\ adds \in Nat /\ ProofOK(p, listed, adds)
      BY <2>1 DEF Proving, BatchInv, BatchOK, ListInv
    <3>2. p.id < adds'
      BY <3>1 DEF ProofOK
    <3>3. ASSUME NEW r \in listed', r.id = p.id PROVE r.handle = p.handle
      <4>1. r \in listed
        BY <3>1, <3>3 DEF ProofOK
      <4> QED BY <3>1, <3>3, <4>1 DEF ProofOK
    <3> QED BY <3>2, <3>3 DEF ProofOK
  <2>4. batch.link = tie' => tie' = tie /\ staged' = staged
    BY <2>2
  <2>5. batch.link.token <= ties'
    BY <2>2
  <2>6. batch.link = tie' => \A p \in batch.proofs : Faithful(p, staged')
    BY <2>1, <2>4 DEF BatchInv, BatchOK
  <2> QED BY <1>2, <2>1, <2>2, <2>3, <2>4, <2>5, <2>6 DEF BatchInv, BatchOK
<1> QED BY <1>1, <1>2 DEF BatchInv

(* A row may be added to what is known of a batch.                         *)
LEMMA Proven ==
  ASSUME ConstantsOK, ListInv, NEW r \in listed, NEW holder \in {None, Holder[r.handle]}
  PROVE  LET p == V!Proof(r, holder)
         IN /\ p \in Proving /\ ProofOK(p, listed, adds) /\ p.holder = holder /\ p.handle = r.handle
            /\ holder = Holder[r.handle] => \A stamps : Faithful(p, stamps)
<1> DEFINE p == V!Proof(r, holder)
<1>1. r \in Listing /\ r.id < adds /\ \A s \in listed : s.id = r.id => s = r
  BY DEF ListInv
<1>2. r.id \in Nat /\ r.handle \in Handles /\ Holder[r.handle] \in Authors \cup {None}
  BY <1>1 DEF Listing, ConstantsOK, V!ConstantsOK
<1>3. p = [id |-> r.id, handle |-> r.handle, holder |-> holder]
  BY DEF V!Proof
<1>4. p \in Proving /\ p.id = r.id /\ p.handle = r.handle /\ p.holder = holder
  BY <1>2, <1>3 DEF Proving
<1> HIDE DEF p
<1>5. ProofOK(p, listed, adds)
  BY <1>1, <1>4 DEF ProofOK
<1>6. holder = Holder[r.handle] => \A stamps : Faithful(p, stamps)
  BY <1>4 DEF Faithful
<1> QED BY <1>4, <1>5, <1>6 DEF p

LEMMA Afresh ==
  ASSUME ConstantsOK, ListInv, NEW known, NEW open, open \subseteq listed, NEW proofs \in V!ResolvedAfresh(known, open)
  PROVE  \A p \in proofs : p \in known \/ (p \in Proving /\ ProofOK(p, listed, adds) /\ \A stamps : Faithful(p, stamps))
<1>1. PICK done \in SUBSET open : proofs = known \cup {V!Proof(r, Holder[r.handle]) : r \in done}
  BY DEF V!ResolvedAfresh
<1>2. ASSUME NEW p \in proofs, p \notin known
      PROVE  p \in Proving /\ ProofOK(p, listed, adds) /\ \A stamps : Faithful(p, stamps)
  <2>1. PICK r \in done : p = V!Proof(r, Holder[r.handle])
    BY <1>1, <1>2
  <2>2. r \in listed
    BY <1>1, <2>1
  <2> DEFINE holder == Holder[r.handle]
  <2>3. holder \in {None, Holder[r.handle]} /\ p = V!Proof(r, holder) /\ holder = Holder[r.handle]
    BY <2>1
  <2> HIDE DEF holder
  <2> QED BY <2>2, <2>3, Proven
<1> QED BY <1>2

LEMMA Loading ==
  ASSUME ConstantsOK, ListInv, BatchInv, V!Load
  PROVE  BatchInv'
<1>1. PICK found \in SUBSET V!Writers :
        \E proofs \in IF found = V!Writers THEN {V!Matched(found) \cup V!Absent}
                     ELSE V!ResolvedAfresh(V!Matched(found), {r \in listed : Holder[r.handle] \notin found}) :
          batch' = [at |-> "score", link |-> tie, proofs |-> proofs, rows |-> listed, verdict |-> <<>>]
  BY DEF V!Load
<1>2. PICK proofs \in IF found = V!Writers THEN {V!Matched(found) \cup V!Absent}
                     ELSE V!ResolvedAfresh(V!Matched(found), {r \in listed : Holder[r.handle] \notin found}) :
          batch' = [at |-> "score", link |-> tie, proofs |-> proofs, rows |-> listed, verdict |-> <<>>]
  BY <1>1
<1>3. /\ UNCHANGED <<tie, ties, adds, listed, staged>> /\ tie # V!Apart
      /\ tie \in Link /\ tie.token <= ties /\ tie.team \in Teams /\ listed \subseteq Listing
  BY DEF V!Load, ListInv, Link
<1>4. ASSUME NEW p \in V!Matched(found) PROVE p \in Proving /\ ProofOK(p, listed, adds) /\ Faithful(p, staged)
  <2>1. PICK r \in listed : p = V!Proof(r, Holder[r.handle])
    BY <1>4 DEF V!Matched
  <2> DEFINE holder == Holder[r.handle]
  <2>2. holder \in {None, Holder[r.handle]} /\ p = V!Proof(r, holder) /\ holder = Holder[r.handle]
    BY <2>1
  <2> HIDE DEF holder
  <2> QED BY <2>2, Proven
<1>5. ASSUME NEW p \in V!Absent PROVE p \in Proving /\ ProofOK(p, listed, adds) /\ Faithful(p, staged)
  <2>1. PICK r \in listed : p = V!Proof(r, None) /\ Holder[r.handle] \notin V!Writers
    BY <1>5 DEF V!Absent
  <2>2. p \in Proving /\ ProofOK(p, listed, adds) /\ p.holder = None /\ p.handle = r.handle
    BY <2>1, Proven
  <2>3. \A c \in Waiting(staged) : Author[c] # Holder[r.handle]
    BY <2>1 DEF V!Writers, V!Fresh, Waiting
  <2> QED BY <2>2, <2>3 DEF Faithful
<1>6. ASSUME NEW p \in proofs PROVE p \in Proving /\ ProofOK(p, listed, adds) /\ Faithful(p, staged)
  <2>1. CASE found = V!Writers
    <3>1. p \in V!Matched(found) \/ p \in V!Absent
      BY <1>2, <1>6, <2>1
    <3> QED BY <1>4, <1>5, <3>1
  <2>2. CASE found # V!Writers
    <3> DEFINE known == V!Matched(found)
               open == {r \in listed : Holder[r.handle] \notin found}
    <3>1. proofs \in V!ResolvedAfresh(known, open) /\ open \subseteq listed
      BY <1>2, <2>2
    <3>2. known = V!Matched(found)
      OBVIOUS
    <3> HIDE DEF known, open
    <3> QED BY <1>4, <1>6, <3>1, <3>2, Afresh
  <2> QED BY <2>1, <2>2
<1>7. batch' \in Batch
  <2>1. <<>> \in [{} -> Answer]
    OBVIOUS
  <2>2. <<>> \in UNION {[some -> Answer] : some \in SUBSET V!Positions}
    BY <2>1
  <2> QED BY <1>2, <1>3, <1>6, <2>2 DEF Batch
<1>8. batch'.link = tie /\ batch'.proofs = proofs
  BY <1>2
<1> QED BY <1>3, <1>6, <1>7, <1>8 DEF BatchInv, BatchOK

LEMMA Answers ==
  /\ None \in Answer
  /\ \A act \in {"approve", "queue", "enforce"}, by \in {"allowlist", "none", "ai", "rule"}, billed \in BOOLEAN :
       V!Verdict(act, by, billed) \in Answer
BY DEF V!Verdict, Answer

LEMMA Guards ==
  \A c, rows, proofs :
    \/ V!Guarded(c, rows, proofs) = {}
    \/ V!Guarded(c, rows, proofs) = {V!Verdict("approve", "allowlist", FALSE)}
    \/ V!Guarded(c, rows, proofs) = {V!Verdict("queue", "none", FALSE)}
BY DEF V!Guarded

LEMMA Scoring ==
  ASSUME ConstantsOK, ListInv, BatchInv, V!Score
  PROVE  BatchInv'
<1>1. PICK verdict : /\ verdict \in UNION {[some -> Answer] : some \in SUBSET V!Positions}
                     /\ batch' = [batch EXCEPT !.at = "snapshot", !.verdict = verdict]
  <2>1. PICK matched \in SUBSET V!Fresh, informed \in BOOLEAN :
          LET scored == {c \in V!Fresh \ matched : informed /\ V!Guarded(c, batch.rows, batch.proofs) = {}}
              Options == [c \in V!Fresh |-> V!Decided(c, matched, scored, funds)]
          IN \E verdict \in [V!Fresh -> UNION {Options[c] : c \in V!Fresh}] :
               /\ \A c \in V!Fresh : verdict[c] \in Options[c]
               /\ batch' = [batch EXCEPT !.at = "snapshot", !.verdict = verdict]
    BY DEF V!Score
  <2> DEFINE scored == {c \in V!Fresh \ matched : informed /\ V!Guarded(c, batch.rows, batch.proofs) = {}}
             Options == [c \in V!Fresh |-> V!Decided(c, matched, scored, funds)]
  <2>2. PICK verdict \in [V!Fresh -> UNION {Options[c] : c \in V!Fresh}] :
               /\ \A c \in V!Fresh : verdict[c] \in Options[c]
               /\ batch' = [batch EXCEPT !.at = "snapshot", !.verdict = verdict]
    BY <2>1
  <2>3. \A c : V!Guarded(c, batch.rows, batch.proofs) \subseteq Answer
    <3>1. V!Verdict("approve", "allowlist", FALSE) \in Answer /\ V!Verdict("queue", "none", FALSE) \in Answer
      BY Answers
    <3> QED BY <3>1, Guards
  <2>4. V!Ruled \subseteq Answer /\ V!ByAI \subseteq Answer /\ V!Verdict("queue", "none", FALSE) \in Answer /\ None \in Answer
    <3>1. V!Verdict("enforce", "rule", FALSE) \in Answer /\ V!Verdict("queue", "none", TRUE) \in Answer
      BY Answers
    <3>2. \A act \in {"approve", "queue", "enforce"} : V!Verdict(act, "ai", TRUE) \in Answer
      BY Answers
    <3>3. V!Verdict("queue", "none", FALSE) \in Answer /\ None \in Answer
      BY Answers
    <3> QED BY <3>1, <3>2, <3>3 DEF V!Ruled, V!ByAI
  <2>5. \A c \in V!Fresh : Options[c] \subseteq Answer
    BY <2>3, <2>4 DEF V!Decided
  <2> HIDE DEF Options
  <2>6. verdict \in [V!Fresh -> Answer] /\ V!Fresh \in SUBSET V!Positions
    BY <2>2, <2>5 DEF V!Fresh
  <2> QED BY <2>2, <2>6
<1>2. batch \in Batch /\ UNCHANGED <<tie, ties, adds, listed, staged>>
  BY DEF V!Score, BatchInv, V!Idle
<1>3. batch' \in Batch /\ batch'.link = batch.link /\ batch'.proofs = batch.proofs
  BY <1>1, <1>2 DEF Batch
<1>4. batch # V!Idle
  BY <1>2, BatchFields
<1> QED BY <1>2, <1>3, <1>4 DEF BatchInv, BatchOK

LEMMA Snapshooting ==
  ASSUME ConstantsOK, ListInv, BatchInv, V!Snapshot
  PROVE  BatchInv'
<1> DEFINE known == batch.proofs
           open == {r \in listed : ~V!Known(r, batch.proofs)}
<1>1. PICK proofs \in V!ResolvedAfresh(known, open) : batch' = [batch EXCEPT !.at = "stage", !.proofs = proofs]
  BY DEF V!Snapshot
<1>2. batch \in Batch /\ UNCHANGED <<tie, ties, adds, listed, staged>>
  BY DEF V!Snapshot, BatchInv, V!Idle
<1>3. batch # V!Idle /\ open \subseteq listed /\ known \subseteq Proving /\ known = batch.proofs
  BY <1>2, BatchFields
<1> HIDE DEF known, open
<1>4. \A p \in proofs : p \in known \/ (p \in Proving /\ ProofOK(p, listed, adds) /\ \A stamps : Faithful(p, stamps))
  BY <1>1, <1>3, Afresh
<1>5. proofs \subseteq Proving
  BY <1>3, <1>4
<1>6. batch' \in Batch /\ batch'.link = batch.link /\ batch'.proofs = proofs
  BY <1>1, <1>2, <1>5 DEF Batch
<1> QED BY <1>2, <1>3, <1>4, <1>6 DEF BatchInv, BatchOK

LEMMA BatchInvariance == ConstantsOK /\ ListInv /\ BatchInv /\ [Next]_vars => BatchInv'
<1> SUFFICES ASSUME ConstantsOK, ListInv, BatchInv, [Next]_vars PROVE BatchInv'
  OBVIOUS
<1>1. CASE UNCHANGED judging
  BY <1>1 DEF judging, BatchInv
<1>2. CASE Judge
  <2>0. ties \in Nat /\ adds \in Nat /\ DOMAIN staged = V!Positions
    BY DEF ListInv, BatchInv
  <2>1. CASE V!Load \/ V!Score \/ V!Snapshot
    BY <2>1, Loading, Scoring, Snapshooting
  <2>2. CASE V!Stage \/ V!Stop
    <3>1. batch' = V!Idle /\ DOMAIN staged' = V!Positions
      BY <2>0, <2>2 DEF V!Stage, V!Stop
    <3> QED BY <3>1 DEF BatchInv, BatchOK
  <2>3. ASSUME NEW o \in Requests, (\E h \in Handles : V!AskHandle(o, h)) \/ V!ResolveHandle(o) \/ V!AskDisconnect(o)
        PROVE  BatchInv'
    <3>1. UNCHANGED <<batch, tie, ties, listed, staged>> /\ (adds' = adds + 1 \/ adds' = adds)
      BY <2>3 DEF V!AskHandle, V!ResolveHandle, V!AskDisconnect
    <3>2. adds' \in Nat /\ adds' >= adds /\ ties' \in Nat /\ ties' >= ties
      BY <2>0, <3>1
    <3> QED BY <3>1, <3>2, BatchStays
  <2>4. ASSUME NEW o \in Requests, V!StoreHandle(o) PROVE BatchInv'
    <3>1. UNCHANGED <<batch, tie, ties, staged>> /\ adds' = adds + 1
      BY <2>4 DEF V!StoreHandle
    <3>2. adds' \in Nat /\ adds' >= adds /\ ties' \in Nat /\ ties' >= ties
      BY <2>0, <3>1
    <3>3. \A r \in listed' : r \in listed \/ r.id >= adds
      <4>1. CASE listed' = listed
        BY <4>1
      <4>2. CASE listed' = listed \cup {[id |-> adds, handle |-> editor[o].handle, team |-> editor[o].link.team]}
        BY <2>0, <4>2
      <4> QED BY <2>4, <4>1, <4>2 DEF V!StoreHandle
    <3> QED BY <3>1, <3>2, <3>3, BatchStays
  <2>5. ASSUME NEW o \in Requests, V!Erase(o) PROVE BatchInv'
    <3>1. UNCHANGED <<batch, ties, adds>> /\ adds' >= adds /\ ties' >= ties
      BY <2>0, <2>5 DEF V!Erase
    <3>2. CASE UNCHANGED <<tie, listed, staged>>
      BY <2>0, <3>1, <3>2, BatchStays
    <3>3. CASE tie' = V!Apart /\ listed' = {} /\ staged' = [c \in V!Positions |-> None]
      <4>1. tie'.team \notin Teams /\ DOMAIN staged' = V!Positions
        BY <3>3, ListConstants
      <4> QED BY <2>0, <3>1, <3>3, <4>1, BatchStays
    <3> QED BY <2>5, <3>2, <3>3 DEF V!Erase
  <2>6. ASSUME NEW r \in listed, V!RemoveHandle(r) PROVE BatchInv'
    <3>1. UNCHANGED <<batch, tie, ties, adds, staged>> /\ adds' >= adds /\ ties' >= ties /\ listed' \subseteq listed
      BY <2>0, <2>6 DEF V!RemoveHandle
    <3> QED BY <2>0, <3>1, BatchStays
  <2>7. ASSUME NEW t \in Teams, V!Connect(t) PROVE BatchInv'
    <3>1. UNCHANGED <<batch, adds, staged, listed>> /\ ties' = ties + 1 /\ tie' = [team |-> t, token |-> ties + 1]
      BY <2>7 DEF V!Connect
    <3>2. adds' >= adds /\ ties' \in Nat /\ ties' >= ties /\ tie'.token > ties /\ DOMAIN staged' = V!Positions
      BY <2>0, <3>1
    <3> QED BY <2>0, <3>1, <3>2, BatchStays
  <2> QED BY <1>2, <2>1, <2>2, <2>3, <2>4, <2>5, <2>6, <2>7 DEF Judge, V!Next
<1> QED BY <1>1, <1>2, JudgeOrRest

-----------------------------------------------------------------------------
(* What is stored.                                                         *)
Heeds(c) == /\ V!Listed(c) => staged'[c].act = "queue" \/ staged'[c].by = "allowlist"
            /\ staged'[c].by = "allowlist" => V!Listed(c)

LEMMA LastWord ==
  ASSUME ConstantsOK, ListInv, BatchInv, V!Stage, NEW c \in V!Positions, staged[c] = None, staged'[c] # None
  PROVE  Heeds(c)
<1> DEFINE known == batch.proofs
<1>1. /\ batch \in Batch /\ batch.link = tie /\ staged'[c] = V!Final(c)
  <2>1. batch.at = "stage" /\ batch.link = tie
    BY DEF V!Stage
  <2>2. batch # V!Idle
    BY <2>1 DEF V!Idle
  <2>3. staged'[c] = IF c \in V!Staging THEN V!Final(c) ELSE staged[c]
    BY DEF V!Stage
  <2> QED BY <2>1, <2>2, <2>3 DEF BatchInv
<1>2. \A p \in known : p \in Proving /\ ProofOK(p, listed, adds) /\ Faithful(p, staged)
  BY <1>1, BatchFields DEF BatchInv, BatchOK
<1>3. c \in Waiting(staged) /\ Author[c] \in Authors /\ None \notin Authors
  BY DEF Waiting, ConstantsOK, V!ConstantsOK
<1>4. CASE V!Protects(c, listed, known)
  <2> DEFINE v == V!Verdict("approve", "allowlist", FALSE)
  <2>1. V!Guarded(c, listed, known) = {v} /\ (CHOOSE w \in {v} : TRUE) = v
    BY <1>4 DEF V!Guarded
  <2>2. staged'[c].by = "allowlist"
    <3>1. staged'[c] = [v EXCEPT !.billed = batch.verdict[c].billed]
      BY <1>1, <2>1 DEF V!Final
    <3> QED BY <3>1 DEF V!Verdict
  <2>3. PICK p \in known, r \in listed : p.holder = Author[c] /\ r.id = p.id
    BY <1>4 DEF V!Protects
  <2>4. r.handle = p.handle /\ Holder[p.handle] = Author[c]
    BY <1>2, <1>3, <2>3 DEF ProofOK, Faithful
  <2>5. r.team = tie.team
    BY DEF ListInv
  <2>6. V!Listed(c)
    BY <2>4, <2>5 DEF V!Listed
  <2> QED BY <2>2, <2>6 DEF Heeds
<1>5. CASE ~V!Protects(c, listed, known) /\ V!Unresolved(listed, known)
  <2> DEFINE v == V!Verdict("queue", "none", FALSE)
  <2>1. V!Guarded(c, listed, known) = {v} /\ (CHOOSE w \in {v} : TRUE) = v
    BY <1>5 DEF V!Guarded
  <2>2. staged'[c].by = "none" /\ staged'[c].act = "queue"
    <3>1. staged'[c] = [v EXCEPT !.billed = batch.verdict[c].billed]
      BY <1>1, <2>1 DEF V!Final
    <3> QED BY <3>1 DEF V!Verdict
  <2> QED BY <2>2 DEF Heeds
<1>6. CASE ~V!Protects(c, listed, known) /\ ~V!Unresolved(listed, known)
  <2>1. ~V!Listed(c)
    <3> SUFFICES ASSUME NEW r \in listed, Holder[r.handle] = Author[c] PROVE FALSE
      BY DEF V!Listed
    <3>1. PICK p \in known : p.id = r.id /\ p.handle = r.handle
      BY <1>6 DEF V!Unresolved, V!Known
    <3>2. p.holder = Author[c]
      BY <1>2, <1>3, <3>1 DEF Faithful
    <3> QED BY <1>6, <3>1, <3>2 DEF V!Protects
  <2>2. V!Guarded(c, listed, known) = {}
    BY <1>6 DEF V!Guarded
  <2>3. staged'[c].by # "allowlist"
    BY <1>1, <2>2 DEF V!Final, V!Verdict
  <2> QED BY <2>1, <2>3 DEF Heeds
<1> QED BY <1>4, <1>5, <1>6

(* When verdicts are stored, an author whose handle is listed at that very *)
(* moment is approved or left to a human, and nobody is approved for a     *)
(* handle that is not listed any more or was listed by another team,       *)
(* whatever was listed, resolved and decided while the batch was scored    *)
(* (stageDecisions, loadProtectedAuthors).                                 *)
THEOREM SpecImpliesProtectionExact == Spec => ProtectionExact
<1> DEFINE Exact == \A c \in V!Positions : staged[c] = None /\ staged'[c] # None => Heeds(c)
<1>1. ConstantsOK /\ ListInv /\ BatchInv /\ [Next]_vars => [Exact]_(V!vars)
  <2> SUFFICES ASSUME ConstantsOK, ListInv, BatchInv, [Next]_vars PROVE [Exact]_(V!vars)
    OBVIOUS
  <2>1. CASE UNCHANGED judging
    BY <2>1 DEF judging, V!vars
  <2>2. CASE Judge
    <3>1. CASE V!Stage
      BY <3>1, LastWord
    <3>2. CASE V!Load \/ V!Score \/ V!Snapshot \/ V!Stop
      BY <3>2 DEF V!Load, V!Score, V!Snapshot, V!Stop
    <3>3. CASE \/ \E o \in Requests : (\E h \in Handles : V!AskHandle(o, h)) \/ V!ResolveHandle(o)
                                      \/ V!StoreHandle(o) \/ V!AskDisconnect(o)
               \/ \E r \in listed : V!RemoveHandle(r)
               \/ \E t \in Teams : V!Connect(t)
      BY <3>3 DEF V!AskHandle, V!ResolveHandle, V!StoreHandle, V!AskDisconnect, V!RemoveHandle, V!Connect
    <3>4. ASSUME NEW o \in Requests, V!Erase(o) PROVE Exact
      BY <3>4 DEF V!Erase
    <3> QED BY <2>2, <3>1, <3>2, <3>3, <3>4 DEF Judge, V!Next
  <2> QED BY <2>1, <2>2, JudgeOrRest
<1>2. [][Exact]_(V!vars) => ProtectionExact
  <2>1. Exact => \A c \in V!Positions : staged[c] = None /\ staged'[c] # None =>
                   /\ V!Listed(c) => staged'[c].act = "queue" \/ staged'[c].by = "allowlist"
                   /\ staged'[c].by = "allowlist" => V!Listed(c)
    BY DEF Heeds
  <2> QED BY <2>1, PTL DEF ProtectionExact, V!ProtectionExact
<1>3. ConstantsOK /\ ListInv /\ BatchInv /\ [Next]_vars => ListInv' /\ BatchInv'
  BY ListInvariance, BatchInvariance
<1>4. ConstantsOK /\ Init => ListInv /\ BatchInv
  BY ListStarts, BatchStarts
<1> QED BY <1>1, <1>2, <1>3, <1>4, ConstantsOK, PTL DEF Spec
=============================================================================
