--------------------------- MODULE ServicesProofs ---------------------------
(***************************************************************************)
(* Theorems about the machines of Services, for any comments, runs, funds, *)
(* pages, accounts, teams, requests, payments and workers.  First what is  *)
(* done for a channel: a scan or a preview that ends has been over its     *)
(* whole window, the cursor passes no comment that was not staged, a scan  *)
(* of the feedback tells each comment once, and no verdict or digest is    *)
(* free or paid for twice.  Then the services: no account is erased        *)
(* unwarned, no mail is sent twice or lost, a traversal misses no older    *)
(* account, no team is left without an owner, and no approved payment      *)
(* without an answer.                                                      *)
(***************************************************************************)
EXTENDS Services, Sequences, FiniteSetTheorems, WellFoundedInduction, TLAPS

-----------------------------------------------------------------------------
(* A step is of one machine; the variables of the others stay.             *)
LEMMA TrialOrRest == [Next]_vars => Try \/ UNCHANGED trial
BY DEF Next, vars, Team, Retain, Scan, Post, Tell, Digest, Mercado, Group, Browse

LEMMA ScanOrRest == [Next]_vars => Scan \/ UNCHANGED scan
BY DEF Next, vars, Team, Retain, Post, Tell, Digest, Mercado, Group, Browse, Try

LEMMA DigestOrRest == [Next]_vars => Digest \/ UNCHANGED digest
BY DEF Next, vars, Team, Retain, Scan, Post, Tell, Mercado, Group, Browse, Try

\* A non-empty set of naturals has a least element.
NatLess == {p \in Nat \X Nat : p[1] < p[2]}
LEMMA NatLessWellFounded == IsWellFoundedOn(NatLess, Nat)
BY NatLessThanWellFounded, Zenon DEF OpToRel, NatLess

LEMMA Least ==
  ASSUME NEW set, set \subseteq Nat, set # {}
  PROVE  \E k \in set : \A n \in set : k <= n
<1>1. PICK k \in set : \A n \in set : ~(<<n, k>> \in NatLess)
  BY NatLessWellFounded, WFMin
<1>2. ASSUME NEW n \in set PROVE k <= n
  <2>1. k \in Nat /\ n \in Nat /\ <<n, k>> \notin NatLess
    BY <1>1
  <2> QED BY <2>1 DEF NatLess
<1> QED BY <1>2

-----------------------------------------------------------------------------
(* Pages.  A page is the newest comments that are listed after its token.  *)
PageIn(listed) == {c \in listed : Cardinality({d \in listed : d > c}) < PageSize}

LEMMA PageUpward ==
  ASSUME ConstantsOK, NEW top \in Nat, NEW listed, listed \subseteq 1..top,
         NEW c \in PageIn(listed), NEW d \in listed, d >= c
  PROVE  d \in PageIn(listed)
<1> DEFINE newer(x) == {y \in listed : y > x}
<1>1. IsFiniteSet(newer(c)) /\ newer(c) \subseteq 1..top /\ c \in listed
  <2>1. IsFiniteSet(1..top) /\ newer(c) \in SUBSET (1..top)
    <3>1. IsFiniteSet(1..top)
      BY FS_Interval
    <3> QED BY <3>1
  <2> QED BY <2>1, FS_Subset DEF PageIn
<1>2. newer(d) \in SUBSET newer(c)
  <2>1. \A y \in listed : y > d => y > c
    BY <1>1
  <2> QED BY <2>1
<1>3. Cardinality(newer(d)) <= Cardinality(newer(c)) /\ IsFiniteSet(newer(d))
  BY <1>1, <1>2, FS_Subset
<1>4. Cardinality(newer(d)) \in Nat /\ Cardinality(newer(c)) \in Nat
  BY <1>1, <1>3, FS_CardinalityType
<1>5. Cardinality(newer(c)) < PageSize /\ PageSize \in Nat
  BY DEF PageIn, ConstantsOK, P!ConstantsOK
<1>6. Cardinality(newer(d)) < PageSize
  BY <1>3, <1>4, <1>5
<1> QED BY <1>6 DEF PageIn

LEMMA Greatest ==
  ASSUME NEW top \in Nat, NEW set, set \subseteq 1..top, set # {}
  PROVE  \E c \in set : \A d \in set : d <= c
<1> DEFINE gap == {n \in Nat : top - n \in set}
<1>1. PICK c \in set : TRUE
  OBVIOUS
<1>2. top - c \in gap
  BY <1>1
<1>3. PICK n \in gap : \A k \in gap : n <= k
  BY <1>2, Least
<1>4. ASSUME NEW d \in set PROVE d <= top - n
  <2>1. top - d \in Nat /\ top - (top - d) = d /\ d \in Nat
    BY <1>4
  <2>2. n <= top - d /\ n \in Nat
    BY <1>3, <2>1
  <2> QED BY <2>1, <2>2
<1>5. top - n \in set
  BY <1>3
<1> QED BY <1>4, <1>5

LEMMA PageNonEmpty ==
  ASSUME ConstantsOK, NEW top \in Nat, NEW listed, listed \subseteq 1..top, listed # {}
  PROVE  \E c \in PageIn(listed) : \A d \in listed : d <= c
<1>1. PageSize \in Nat \ {0}
  BY DEF ConstantsOK, P!ConstantsOK
<1>2. PICK c \in listed : \A d \in listed : d <= c
  BY Greatest
<1>3. {d \in listed : d > c} = {}
  <2>1. \A d \in listed : ~(d > c)
    BY <1>2
  <2> QED BY <2>1
<1>4. Cardinality({d \in listed : d > c}) < PageSize
  BY <1>1, <1>3, FS_EmptySet
<1> QED BY <1>2, <1>4 DEF PageIn

LEMMA FiniteAsWell == \A set : (P!IsFiniteSet(set) <=> IsFiniteSet(set)) /\ P!Cardinality(set) = Cardinality(set)
<1>1. ASSUME NEW set PROVE P!IsFiniteSet(set) <=> IsFiniteSet(set)
  BY Zenon DEF P!IsFiniteSet, IsFiniteSet
<1>2. ASSUME NEW set PROVE P!Cardinality(set) = Cardinality(set)
  BY Zenon DEF P!Cardinality, Cardinality
<1> QED BY <1>1, <1>2

-----------------------------------------------------------------------------
(* Previews.  What was audited from an instant on: of the comments from    *)
(* the token on, or of all of them.                                        *)
Audited(from, token, seen) == \A c \in 1..Horizon : c >= from /\ c >= token => c \in seen
AuditedAll(from, seen) == from..Horizon \subseteq seen

LEMMA PreviewPages == \A token : P!PageOf(token) = PageIn(P!Listed(token)) /\ P!Listed(token) \subseteq 1..Horizon
BY Zenon, FiniteAsWell DEF P!PageOf, PageIn, P!Listed, P!Comments

LEMMA LeastIsLeast ==
  ASSUME NEW set, set \subseteq Nat, set # {}
  PROVE  P!Min(set) \in set /\ \A c \in set : P!Min(set) <= c
BY Least DEF P!Min

(* The page that is not the last leaves off at its oldest comment, ...     *)
LEMMA PageContinues ==
  ASSUME ConstantsOK, NEW token \in Nat \cup {None}, NEW from \in Nat, NEW seen,
         token # None => Audited(from, token, seen),
         NEW page, page = {c \in P!PageOf(token) : c >= from}, page = P!PageOf(token),
         P!Listed(token) # P!PageOf(token)
  PROVE  P!Min(page) \in Nat /\ Audited(from, P!Min(page), seen \cup page)
<1>0. Horizon \in Nat /\ PageIn(P!Listed(token)) \subseteq P!Listed(token)
  BY DEF ConstantsOK, P!ConstantsOK, PageIn
<1>1. P!PageOf(token) \subseteq P!Listed(token) /\ P!Listed(token) \subseteq Nat
  BY <1>0, PreviewPages
<1>2. page # {} /\ page \subseteq Nat
  BY <1>0, <1>1, PageNonEmpty, PreviewPages
<1>3. P!Min(page) \in page
  BY <1>2, LeastIsLeast
<1>4. ASSUME NEW c \in 1..Horizon, c >= from, c >= P!Min(page) PROVE c \in seen \cup page
  <2>1. CASE c \in P!Listed(token)
    BY <1>0, <1>3, <1>4, <2>1, PageUpward, PreviewPages
  <2>2. CASE c \notin P!Listed(token)
    BY <1>4, <2>2 DEF P!Listed, P!Comments, Audited
  <2> QED BY <2>1, <2>2
<1> QED BY <1>2, <1>3, <1>4 DEF Audited

(* ... and the last reaches the beginning of the window.                   *)
LEMMA PageCompletes ==
  ASSUME ConstantsOK, NEW token \in Nat \cup {None}, NEW from \in Nat \ {0}, NEW seen,
         token # None => Audited(from, token, seen),
         NEW page, page = {c \in P!PageOf(token) : c >= from},
         page # P!PageOf(token) \/ P!Listed(token) = P!PageOf(token)
  PROVE  AuditedAll(from, seen \cup page)
<1>1. P!PageOf(token) \subseteq P!Listed(token) /\ P!Listed(token) \subseteq 1..Horizon /\ Horizon \in Nat
  BY Zenon DEF P!PageOf, P!Listed, P!Comments, ConstantsOK, P!ConstantsOK
<1>2. ASSUME NEW c \in from..Horizon PROVE c \in seen \cup page
  <2>1. c \in 1..Horizon /\ c >= from
    BY <1>1, <1>2
  <2>2. CASE c \notin P!Listed(token)
    BY <2>1, <2>2 DEF P!Listed, P!Comments, Audited
  <2>3. CASE c \in P!Listed(token) /\ P!Listed(token) = P!PageOf(token)
    BY <2>1, <2>3
  <2>4. CASE c \in P!Listed(token) /\ page # P!PageOf(token)
    <3>1. PICK d \in P!PageOf(token) : ~(d >= from)
      BY <2>4
    <3>2. c >= d
      BY <1>1, <2>1, <3>1
    <3> QED BY <1>1, <2>1, <2>4, <3>1, <3>2, PageUpward, PreviewPages
  <2> QED BY <2>2, <2>3, <2>4
<1> QED BY <1>2 DEF AuditedAll

(* Whoever goes on with the row's own preview goes on with its window, and *)
(* from a comment that everything newer was audited of.  A job of a row    *)
(* that is gone is harmless: it has another boundary, or crosses.          *)
Window == [from : {1, 2}, stamp : Nat]
Place == Nat \cup {None}
Running == [at : {"load", "audit", "save"}, by : {"request", "cron"}, claim : Nat, loaded : Place,
            boundary : Window, token : Place, page : SUBSET (1..Horizon),
            end : {"none", "more", "complete", "partial"}]
Shelf == [born : Nat, live : BOOLEAN, active : BOOLEAN, used : BOOLEAN,
          boundary : Window \cup {None}, token : Place]
TrialTyped ==
  /\ shelf \in Shelf /\ audits \subseteq 1..Horizon /\ crossed \in BOOLEAN
  /\ preview \in [state : {"none", "going", "ended"}, from : {1, 2}]
  /\ job \in [Workers -> Running \cup {P!Idle}]

Alive(r) == r # P!Idle
PlacesOK(r, born) ==
  Alive(r) => /\ r.claim <= born
              /\ r.at # "load" => r.loaded \in Nat /\ r.claim <= r.loaded /\ r.loaded <= born
              /\ r.at = "save" => r.end # "none"
              /\ r.at = "save" /\ r.end = "more" => P!Min(r.page) \in Nat
Reached(from, token, seen) == token # None => Audited(from, token, seen)
JobOK(r, from, seen) ==   \* of a job on the row it claimed
  /\ r.boundary.from = from
  /\ r.at # "save" => Reached(from, r.token, seen)
  /\ r.at = "save" /\ r.end = "complete" => AuditedAll(from, seen)
  /\ r.at = "save" /\ r.end = "more" => Audited(from, P!Min(r.page), seen)
ShelfOK(s, from, seen) == s.boundary # None => s.boundary.from = from /\ Reached(from, s.token, seen)
AnswerOK(p, seen) == p.state = "ended" => AuditedAll(p.from, seen)

TrialInv ==
  /\ TrialTyped
  /\ \A j \in Workers : PlacesOK(job[j], shelf.born)
  /\ latch # None => latch \in Workers /\ shelf.live /\ Alive(job[latch]) /\ job[latch].claim = shelf.born
  /\ ~shelf.live => preview = P!NoPreview
  /\ ~crossed => /\ ~shelf.used => shelf.boundary = None
                 /\ \A j \in Workers : Alive(job[j]) /\ job[j].claim = shelf.born => shelf.used
                 /\ AnswerOK(preview, audits)
                 /\ shelf.live => ShelfOK(shelf, preview.from, audits)
                 /\ shelf.live => \A j \in Workers : Alive(job[j]) /\ job[j].claim = shelf.born =>
                                    JobOK(job[j], preview.from, audits)

LEMMA IdleApart == P!Idle \notin Running
BY DEF P!Idle, Running

(* More audits, or fewer claims on a row, leave what is known of a job.    *)
LEMMA AuditsGrow ==
  ASSUME NEW from, NEW seen, NEW more, seen \subseteq more
  PROVE  /\ \A r : JobOK(r, from, seen) => JobOK(r, from, more)
         /\ \A s : ShelfOK(s, from, seen) => ShelfOK(s, from, more)
         /\ \A p : AnswerOK(p, seen) => AnswerOK(p, more)
BY DEF JobOK, ShelfOK, AnswerOK, Reached, Audited, AuditedAll

(* A job j moves on under the row as it is: what remains to be shown.      *)
LEMMA JobMoves ==
  ASSUME ConstantsOK, TrialInv, NEW j \in Workers, NEW t \in Running \cup {P!Idle},
         job' = [job EXCEPT ![j] = t], UNCHANGED <<shelf, preview, crossed>>,
         PlacesOK(t, shelf.born),
         Alive(t) => Alive(job[j]) /\ t.claim = job[j].claim,
         latch' = latch \/ latch' = None,
         latch' = j => Alive(t),
         audits \subseteq audits', audits' \subseteq 1..Horizon,
         ~crossed /\ shelf.live /\ Alive(t) /\ t.claim = shelf.born => JobOK(t, preview.from, audits')
  PROVE  TrialInv'
<1>1. TrialTyped' /\ job'[j] = t /\ \A k \in Workers \ {j} : job'[k] = job[k]
  BY DEF TrialInv, TrialTyped
<1>2. \A k \in Workers : PlacesOK(job[k], shelf.born)' /\ (Alive(job[k]) /\ job[k].claim = shelf.born /\ ~crossed => shelf.used)'
  <2> SUFFICES ASSUME NEW k \in Workers
               PROVE  PlacesOK(job[k], shelf.born)' /\ (Alive(job[k]) /\ job[k].claim = shelf.born /\ ~crossed => shelf.used)'
    OBVIOUS
  <2>1. CASE k = j
    BY <1>1, <2>1 DEF TrialInv, Alive, PlacesOK
  <2>2. CASE k # j
    BY <1>1, <2>2 DEF TrialInv, Alive, PlacesOK
  <2> QED BY <2>1, <2>2
<1>3. latch' # None => latch' \in Workers /\ shelf'.live /\ Alive(job'[latch']) /\ job'[latch'].claim = shelf'.born
  BY <1>1 DEF TrialInv, Alive
<1>4. ~crossed' => /\ ~shelf'.used => shelf'.boundary = None
                   /\ AnswerOK(preview', audits')
                   /\ shelf'.live => ShelfOK(shelf', preview'.from, audits')
  BY AuditsGrow DEF TrialInv
<1>5. ASSUME ~crossed, shelf.live, NEW k \in Workers, Alive(job'[k]), job'[k].claim = shelf.born
      PROVE  JobOK(job'[k], preview.from, audits')
  <2>1. CASE k = j
    BY <1>1, <1>5, <2>1
  <2>2. CASE k # j
    BY <1>1, <1>5, <2>2, AuditsGrow DEF TrialInv
  <2> QED BY <2>1, <2>2
<1> HIDE DEF JobOK, ShelfOK, AnswerOK
<1> QED BY <1>1, <1>2, <1>3, <1>4, <1>5 DEF TrialInv, Alive

LEMMA OwnerStep ==
  ASSUME ConstantsOK, TrialInv, P!SetPaused \/ P!Disconnect \/ P!Connect \/ P!Lapse
  PROVE  TrialInv'
<1> USE DEF TrialTyped, Shelf, Window, Place
<1>1. CASE P!SetPaused
  <2>1. /\ shelf' = [shelf EXCEPT !.active = ~@] /\ UNCHANGED <<latch, job, audits, preview, crossed>>
    BY <1>1 DEF P!SetPaused
  <2>2. /\ shelf' \in Shelf /\ shelf'.live = shelf.live /\ shelf'.born = shelf.born /\ shelf'.used = shelf.used
        /\ shelf'.boundary = shelf.boundary /\ shelf'.token = shelf.token
    BY <2>1 DEF TrialInv
  <2> QED BY <2>1, <2>2 DEF TrialInv, ShelfOK, PlacesOK
<1>2. CASE P!Disconnect
  <2>1. /\ shelf' = [shelf EXCEPT !.live = FALSE] /\ latch' = None /\ audits' = {} /\ preview' = P!NoPreview
        /\ UNCHANGED <<job, crossed>>
    BY <1>2 DEF P!Disconnect
  <2>2. /\ shelf' \in Shelf /\ shelf'.live = FALSE /\ shelf'.born = shelf.born /\ shelf'.used = shelf.used
        /\ shelf'.boundary = shelf.boundary
    BY <2>1 DEF TrialInv
  <2> QED BY <2>1, <2>2 DEF TrialInv, PlacesOK, AnswerOK, P!NoPreview
<1>3. CASE P!Connect
  <2>1. /\ shelf' = P!Fresh(shelf.born + 1) /\ ~shelf.live /\ UNCHANGED <<latch, job, audits, preview, crossed>>
    BY <1>3 DEF P!Connect
  <2>2. /\ shelf' \in Shelf /\ shelf'.born = shelf.born + 1 /\ shelf'.boundary = None /\ shelf.born \in Nat
    BY <2>1 DEF TrialInv, P!Fresh
  <2>3. \A k \in Workers : Alive(job[k]) => job[k].claim \in Nat /\ job[k].claim < shelf'.born
    BY <2>2 DEF TrialInv, PlacesOK, Alive, Running
  <2>4. \A k \in Workers : PlacesOK(job[k], shelf.born)'
    BY <2>1, <2>2, <2>3 DEF TrialInv, PlacesOK, Alive, Running
  <2>5. latch = None /\ preview = P!NoPreview
    BY <2>1 DEF TrialInv
  <2> QED BY <2>1, <2>2, <2>3, <2>4, <2>5 DEF TrialInv, AnswerOK, ShelfOK, P!NoPreview, Alive
<1>4. CASE P!Lapse
  BY <1>4 DEF P!Lapse, TrialInv
<1> QED BY <1>1, <1>2, <1>3, <1>4

LEMMA ClaimStep ==
  ASSUME ConstantsOK, TrialInv, NEW j \in Workers, P!ClaimDryRun(j) \/ P!ClaimDrain(j)
  PROVE  TrialInv'
<1> USE DEF TrialTyped
<1>1. job[j] = P!Idle /\ latch = None /\ shelf.live
  BY DEF TrialInv, P!ClaimDryRun, P!ClaimDrain, P!Claimable, P!At, Running, P!Idle
<1>2. shelf.born \in Nat /\ shelf \in Shelf /\ None \notin Workers
  BY DEF TrialInv, Shelf, ConstantsOK, P!ConstantsOK
<1>a. CASE P!ClaimDryRun(j)
  <2>1. PICK w \in P!Windows(shelf.born) :
          /\ job' = [job EXCEPT ![j] = [at |-> "load", by |-> "request", claim |-> shelf.born,
                       loaded |-> None, boundary |-> w, token |-> None, page |-> {}, end |-> "none"]]
          /\ preview' = [state |-> "going", from |-> w.from]
    BY <1>a DEF P!ClaimDryRun
  <2> DEFINE t == [at |-> "load", by |-> "request", claim |-> shelf.born,
                   loaded |-> None, boundary |-> w, token |-> None, page |-> {}, end |-> "none"]
  <2>2. w \in Window
    BY <1>2 DEF P!Windows, P!AllTime, P!Months, Window
  <2>3. t \in Running
    BY <1>2, <2>2 DEF Running, Place
  <2>4. shelf' = [shelf EXCEPT !.used = TRUE] /\ latch' = j /\ ~shelf.used /\ UNCHANGED <<audits, crossed>>
    BY <1>a DEF P!ClaimDryRun
  <2>5. shelf' \in Shelf /\ shelf'.boundary = shelf.boundary /\ shelf'.born = shelf.born /\ shelf'.live /\ shelf'.used
    BY <1>1, <1>2, <2>4 DEF Shelf, TrialInv
  <2> HIDE DEF t
  <2>6. job' = [job EXCEPT ![j] = t] /\ t.claim = shelf.born /\ t.at = "load" /\ t.boundary = w /\ t.token = None
    BY <2>1 DEF t
  <2>7. job'[j] = t /\ job' \in [Workers -> Running \cup {P!Idle}] /\ \A k \in Workers \ {j} : job'[k] = job[k]
    BY <2>3, <2>6 DEF TrialInv
  <2>8. \A k \in Workers : ~crossed /\ Alive(job'[k]) /\ job'[k].claim = shelf.born => k = j
    BY <2>4, <2>7 DEF TrialInv
  <2>9. \A k \in Workers : PlacesOK(job[k], shelf.born)'
    BY <1>2, <2>5, <2>6, <2>7 DEF TrialInv, PlacesOK
  <2>10. Alive(t)
    BY <2>3, IdleApart DEF Alive
  <2>11. preview' \in [state : {"none", "going", "ended"}, from : {1, 2}] /\ preview'.state = "going" /\ preview'.from = w.from
    BY <2>1, <2>2 DEF Window
  <2>12. JobOK(t, preview'.from, audits)
    BY <2>6, <2>11 DEF JobOK, Reached
  <2> QED BY <2>4, <2>5, <2>6, <2>7, <2>8, <2>9, <2>10, <2>11, <2>12 DEF TrialInv, AnswerOK, ShelfOK
<1>b. CASE P!ClaimDrain(j)
  <2> DEFINE t == [at |-> "load", by |-> "cron", claim |-> shelf.born, loaded |-> None,
                   boundary |-> shelf.boundary, token |-> shelf.token, page |-> {}, end |-> "none"]
  <2>1. job' = [job EXCEPT ![j] = t] /\ latch' = j /\ shelf.boundary # None /\ UNCHANGED <<shelf, audits, preview, crossed>>
    BY <1>b DEF P!ClaimDrain
  <2>2. t \in Running
    BY <1>2, <2>1 DEF Running, Place, Shelf
  <2>3. t.claim = shelf.born /\ t.at = "load" /\ t.boundary = shelf.boundary /\ t.token = shelf.token /\ (~crossed => shelf.used)
    BY <2>1 DEF TrialInv
  <2> HIDE DEF t
  <2>4. job'[j] = t /\ job' \in [Workers -> Running \cup {P!Idle}] /\ \A k \in Workers \ {j} : job'[k] = job[k]
    BY <2>1, <2>2 DEF TrialInv
  <2>5. \A k \in Workers : PlacesOK(job[k], shelf.born)'
    BY <1>2, <2>1, <2>3, <2>4 DEF TrialInv, PlacesOK
  <2>6. Alive(t)
    BY <2>2, IdleApart DEF Alive
  <2>7. ~crossed => JobOK(t, preview.from, audits)
    BY <1>1, <2>1, <2>3 DEF JobOK, TrialInv, ShelfOK
  <2> HIDE DEF JobOK
  <2> QED BY <1>1, <2>1, <2>3, <2>4, <2>5, <2>6, <2>7 DEF TrialInv
<1> QED BY <1>a, <1>b

LEMMA RunningStep ==
  ASSUME ConstantsOK, TrialInv, NEW j \in Workers,
         P!Load(j) \/ P!Refuse(j) \/ P!Partial(j) \/ P!Fail(j)
  PROVE  TrialInv'
<1> DEFINE r == job[j]
<1>1. /\ r \in Running \cup {P!Idle} /\ None \notin Workers /\ audits \subseteq 1..Horizon
      /\ shelf.born \in Nat /\ PlacesOK(r, shelf.born)
  BY DEF TrialInv, TrialTyped, ConstantsOK, P!ConstantsOK, Shelf
<1>2. r # P!Idle
  BY DEF P!Load, P!Refuse, P!Partial, P!Fail, P!At, P!Idle
<1>3. r \in Running /\ Alive(r)
  BY <1>1, <1>2 DEF Alive
<1>4. ~crossed /\ shelf.live /\ r.claim = shelf.born => JobOK(r, preview.from, audits)
  BY <1>3 DEF TrialInv
<1>5. P!Idle \in Running \cup {P!Idle} /\ ~Alive(P!Idle)
  BY DEF Alive
<1>a. CASE P!Load(j)
  <2> DEFINE t == [r EXCEPT !.at = "audit", !.loaded = shelf.born]
  <2>1. job' = [job EXCEPT ![j] = t] /\ UNCHANGED <<shelf, latch, audits, preview, crossed>> /\ r.at = "load"
    BY <1>a DEF P!Load, P!At
  <2>2. t \in Running /\ t.claim = r.claim /\ t.at = "audit" /\ t.loaded = shelf.born /\ t.boundary = r.boundary /\ t.token = r.token
    BY <1>1, <1>3 DEF Running, Place
  <2> HIDE DEF t
  <2>3. PlacesOK(t, shelf.born) /\ Alive(t)
    BY <1>1, <1>3, <2>2, IdleApart DEF PlacesOK, Alive, Running
  <2>4. ~crossed /\ shelf.live /\ t.claim = shelf.born => JobOK(t, preview.from, audits)
    BY <1>4, <2>1, <2>2 DEF JobOK
  <2> QED BY <1>1, <1>3, <2>1, <2>2, <2>3, <2>4, JobMoves
<1>b. CASE P!Partial(j)
  <2> DEFINE t == [r EXCEPT !.at = "save", !.end = "partial"]
  <2>1. job' = [job EXCEPT ![j] = t] /\ UNCHANGED <<shelf, latch, audits, preview, crossed>> /\ r.at = "audit"
    BY <1>b DEF P!Partial, P!At
  <2>2. t \in Running /\ t.claim = r.claim /\ t.at = "save" /\ t.loaded = r.loaded /\ t.boundary = r.boundary /\ t.end = "partial"
    BY <1>1, <1>3 DEF Running, Place
  <2> HIDE DEF t
  <2>3. PlacesOK(t, shelf.born) /\ Alive(t)
    BY <1>1, <1>3, <2>1, <2>2, IdleApart DEF PlacesOK, Alive, Running
  <2>4. ~crossed /\ shelf.live /\ t.claim = shelf.born => JobOK(t, preview.from, audits)
    BY <1>4, <2>1, <2>2 DEF JobOK
  <2> QED BY <1>1, <1>3, <2>1, <2>2, <2>3, <2>4, JobMoves
<1>c. CASE P!Refuse(j) \/ P!Fail(j)
  <2>1. /\ job' = [job EXCEPT ![j] = P!Idle] /\ latch' = IF latch = j THEN None ELSE latch
        /\ UNCHANGED <<shelf, audits, preview, crossed>>
    BY <1>c DEF P!Refuse, P!Fail, P!End
  <2>2. PlacesOK(P!Idle, shelf.born)
    BY <1>5 DEF PlacesOK
  <2>3. (latch' = latch \/ latch' = None) /\ latch' # j
    BY <1>1, <2>1
  <2> QED BY <1>1, <1>5, <2>1, <2>2, <2>3, JobMoves
<1> QED BY <1>a, <1>b, <1>c

LEMMA AuditStep ==
  ASSUME ConstantsOK, TrialInv, NEW j \in Workers, P!Audit(j)
  PROVE  TrialInv'
<1> DEFINE r == job[j]
           page == {c \in P!PageOf(r.token) : c >= r.boundary.from}
           ended == page # P!PageOf(r.token) \/ P!Listed(r.token) = P!PageOf(r.token)
           t == [r EXCEPT !.at = "save", !.page = page, !.end = IF ended THEN "complete" ELSE "more"]
<1>1. /\ r \in Running \cup {P!Idle} /\ None \notin Workers /\ audits \subseteq 1..Horizon
      /\ shelf.born \in Nat /\ PlacesOK(r, shelf.born)
  BY DEF TrialInv, TrialTyped, ConstantsOK, P!ConstantsOK, Shelf
<1>2. /\ r.at = "audit" /\ audits' = audits \cup page /\ job' = [job EXCEPT ![j] = t]
      /\ UNCHANGED <<shelf, latch, preview, crossed>>
  BY Zenon DEF P!Audit, P!At
<1>3. r \in Running /\ Alive(r)
  BY <1>1, <1>2 DEF Alive, P!Idle
<1>4. ~crossed /\ shelf.live /\ r.claim = shelf.born => JobOK(r, preview.from, audits)
  BY <1>3 DEF TrialInv
<1>5. page \subseteq 1..Horizon /\ r.token \in Place /\ r.boundary.from \in {1, 2}
  BY Zenon, <1>3 DEF P!PageOf, P!Listed, P!Comments, Running, Window
<1> HIDE DEF page
<1>6. /\ t \in Running /\ t.claim = r.claim /\ t.at = "save" /\ t.loaded = r.loaded /\ t.boundary = r.boundary
      /\ t.page = page /\ t.end = IF ended THEN "complete" ELSE "more"
  BY <1>3, <1>5 DEF Running
<1>7. PlacesOK(t, shelf.born) /\ Alive(t)
  <2>1. ~ended => P!Min(page) \in Nat
    <3>1. r.token # None => Audited(r.boundary.from, r.token, 1..Horizon)
      BY DEF Audited
    <3> QED BY <1>5, <3>1, PageContinues DEF page, Place
  <2> HIDE DEF ended, t
  <2> QED BY <1>1, <1>2, <1>3, <1>6, <2>1, IdleApart DEF PlacesOK, Alive, Running
<1>8. ASSUME ~crossed, shelf.live, r.claim = shelf.born PROVE JobOK(t, preview.from, audits')
  <2>1. r.boundary.from = preview.from /\ (r.token # None => Audited(preview.from, r.token, audits))
    BY <1>2, <1>4, <1>8 DEF JobOK, Reached
  <2>2. page = {c \in P!PageOf(r.token) : c >= preview.from} /\ preview.from \in Nat \ {0} /\ r.token \in Nat \cup {None}
    BY <1>5, <2>1 DEF page, Place
  <2>3. ended => AuditedAll(preview.from, audits')
    BY <1>2, <2>1, <2>2, PageCompletes
  <2>4. ~ended => Audited(preview.from, P!Min(page), audits')
    BY <1>2, <2>1, <2>2, PageContinues
  <2> HIDE DEF ended, t
  <2> QED BY <1>6, <2>1, <2>3, <2>4 DEF JobOK
<1>9. audits \subseteq audits' /\ audits' \subseteq 1..Horizon
  BY <1>1, <1>2, <1>5
<1> HIDE DEF t, r
<1>10. ~crossed /\ shelf.live /\ Alive(t) /\ t.claim = shelf.born => JobOK(t, preview.from, audits')
  BY <1>6, <1>8
<1>11. latch' = latch /\ (latch' = j => Alive(t)) /\ Alive(job[j]) /\ t.claim = job[j].claim
  BY <1>2, <1>3, <1>6, <1>7 DEF r
<1> QED BY <1>2, <1>6, <1>7, <1>9, <1>10, <1>11, JobMoves

(* What a page leaves for the next, written into the row of its claim.     *)
LEMMA RestIsReached ==
  ASSUME TrialInv, NEW j \in Workers, job[j].at = "save", job[j] \in Running
  PROVE  /\ P!Rest(j).boundary \in Window \cup {None} /\ P!Rest(j).token \in Place
         /\ ~crossed /\ shelf.live /\ job[j].claim = shelf.born =>
              /\ P!Rest(j).boundary # None =>
                   P!Rest(j).boundary.from = preview.from /\ Reached(preview.from, P!Rest(j).token, audits)
              /\ job[j].end = "complete" => AuditedAll(preview.from, audits)
<1> DEFINE r == job[j]
<1>1. ~crossed /\ shelf.live /\ r.claim = shelf.born => JobOK(r, preview.from, audits)
  BY IdleApart DEF TrialInv, Alive
<1>2. r.boundary \in Window /\ r.end # "none" /\ (r.end = "more" => P!Min(r.page) \in Nat)
  BY IdleApart DEF Running, TrialInv, PlacesOK, Alive
<1>3. CASE r.end = "complete"
  <2>1. P!Rest(j) = [boundary |-> None, token |-> None]
    BY <1>3 DEF P!Rest
  <2> QED BY <1>1, <1>3, <2>1 DEF JobOK, Place
<1>4. CASE r.end = "more"
  <2>1. P!Rest(j) = [boundary |-> r.boundary, token |-> P!Min(r.page)]
    BY <1>4 DEF P!Rest
  <2> QED BY <1>1, <1>2, <1>4, <2>1 DEF JobOK, Place, Reached
<1>5. CASE r.end = "partial"
  <2>1. P!Rest(j) = [boundary |-> r.boundary, token |-> None]
    BY <1>5 DEF P!Rest
  <2> QED BY <1>1, <1>2, <1>5, <2>1 DEF JobOK, Place, Reached
<1>6. r.end \in {"complete", "more", "partial"}
  BY <1>2 DEF Running
<1> QED BY <1>3, <1>4, <1>5, <1>6

(* A job ends, and writes what it leaves if the row is still its own. *)
LEMMA SaveStep ==
  ASSUME ConstantsOK, TrialInv, NEW j \in Workers, P!SavePreview(j) \/ P!SaveDrain(j)
  PROVE  TrialInv'
<1> DEFINE r == job[j]
<1>1. /\ r \in Running \cup {P!Idle} /\ None \notin Workers /\ audits \subseteq 1..Horizon
      /\ shelf.born \in Nat /\ shelf \in Shelf /\ PlacesOK(r, shelf.born)
  BY DEF TrialInv, TrialTyped, ConstantsOK, P!ConstantsOK, Shelf
<1>2. r.at = "save" /\ job' = [job EXCEPT ![j] = P!Idle] /\ latch' = (IF latch = j THEN None ELSE latch) /\ audits' = audits
  BY DEF P!SavePreview, P!SaveDrain, P!At, P!End
<1>3. r \in Running /\ Alive(r)
  BY <1>1, <1>2 DEF Alive, P!Idle
<1>4. (latch' = latch \/ latch' = None) /\ latch' # j
  BY <1>1, <1>2
<1>5. ~Alive(P!Idle) /\ P!Idle \in Running \cup {P!Idle} /\ PlacesOK(P!Idle, shelf.born)
  BY DEF Alive, PlacesOK
<1>a. ASSUME UNCHANGED <<shelf, preview, crossed>> PROVE TrialInv'
  BY <1>a, <1>1, <1>2, <1>3, <1>4, <1>5, JobMoves
<1>b. ASSUME shelf.live, P!Write(j), P!Ended(j), crossed' \in BOOLEAN,
             ~crossed' => ~crossed /\ r.claim = shelf.born
      PROVE  TrialInv'
  <2>1. /\ shelf' \in Shelf /\ shelf'.live = shelf.live /\ shelf'.born = shelf.born /\ shelf'.used = shelf.used
        /\ shelf'.boundary = P!Rest(j).boundary /\ shelf'.token = P!Rest(j).token
    BY <1>b, <1>1, <1>2, <1>3, RestIsReached DEF P!Write, Shelf
  <2>2. /\ preview' \in [state : {"none", "going", "ended"}, from : {1, 2}] /\ preview'.from = preview.from
        /\ preview' = preview \/ (r.end = "complete" /\ preview'.state = "ended")
    BY <1>b DEF P!Ended, TrialInv, TrialTyped
  <2>3. /\ job'[j] = P!Idle /\ job' \in [Workers -> Running \cup {P!Idle}]
        /\ \A k \in Workers \ {j} : job'[k] = job[k]
    BY <1>2 DEF TrialInv, TrialTyped
  <2>4. \A k \in Workers : PlacesOK(job'[k], shelf'.born)
    BY <1>5, <2>1, <2>3 DEF TrialInv
  <2>5. \A k \in Workers : Alive(job'[k]) => job'[k] = job[k]
    BY <1>5, <2>3
  <2>6. ~crossed' => shelf'.used
    BY <1>b, <1>3, <2>1 DEF TrialInv
  <2>7. latch' # None => latch' \in Workers /\ Alive(job'[latch']) /\ job'[latch'].claim = shelf'.born
    BY <1>4, <2>1, <2>3 DEF TrialInv
  <2>8. ASSUME ~crossed'
        PROVE  /\ AnswerOK(preview', audits') /\ ShelfOK(shelf', preview'.from, audits')
               /\ \A k \in Workers : Alive(job'[k]) /\ job'[k].claim = shelf'.born => JobOK(job'[k], preview'.from, audits')
    <3>1. ~crossed /\ r.claim = shelf.born
      BY <1>b, <2>8
    <3>2. AnswerOK(preview', audits')
      BY <1>b, <1>2, <1>3, <2>2, <3>1, RestIsReached DEF AnswerOK, TrialInv
    <3>3. ShelfOK(shelf', preview'.from, audits')
      BY <1>b, <1>2, <1>3, <2>1, <2>2, <3>1, RestIsReached DEF ShelfOK
    <3> QED BY <1>b, <1>2, <2>1, <2>2, <2>5, <3>1, <3>2, <3>3 DEF TrialInv
  <2> QED BY <1>b, <1>1, <1>2, <2>1, <2>2, <2>3, <2>4, <2>6, <2>7, <2>8 DEF TrialInv, TrialTyped
<1>c. CASE P!SavePreview(j)
  <2>1. CASE P!Ours(j)
    <3>1. latch = j /\ shelf.live /\ r.claim = shelf.born /\ crossed \in BOOLEAN
      BY <1>1, <1>3, <2>1 DEF P!Ours, TrialInv, TrialTyped
    <3> QED BY <1>b, <1>c, <2>1, <3>1 DEF P!SavePreview
  <2>2. CASE ~P!Ours(j)
    BY <1>a, <1>c, <2>2 DEF P!SavePreview
  <2> QED BY <2>1, <2>2
<1>d. CASE P!SaveDrain(j)
  <2>1. CASE r.end # "partial" /\ P!SameWindow(j)
    <3>1. /\ shelf.live /\ P!Write(j) /\ P!Ended(j) /\ shelf.boundary = r.boundary
          /\ crossed' = (crossed \/ (shelf.born # r.claim /\ shelf.boundary = r.boundary))
      BY <1>d, <2>1 DEF P!SaveDrain, P!SameWindow
    <3>2. crossed' \in BOOLEAN /\ (~crossed' => ~crossed /\ r.claim = shelf.born)
      BY <3>1
    <3> QED BY <1>b, <3>1, <3>2
  <2>2. CASE ~(r.end # "partial" /\ P!SameWindow(j))
    BY <1>a, <1>d, <2>2 DEF P!SaveDrain
  <2> QED BY <2>1, <2>2
<1> QED BY <1>c, <1>d

LEMMA TrialInvariance == Spec => []TrialInv
<1> USE ConstantsOK
<1>1. Init => TrialInv
  <2> SUFFICES ASSUME Init PROVE TrialInv
    OBVIOUS
  <2>1. P!Init
    BY DEF Init
  <2>2. shelf = P!Fresh(1) /\ shelf \in Shelf /\ shelf.boundary = None
    BY <2>1 DEF P!Init, P!Fresh, Shelf, Place
  <2>3. \A j \in Workers : job[j] = P!Idle
    BY <2>1 DEF P!Init
  <2>4. TrialTyped
    BY <2>1, <2>2 DEF P!Init, TrialTyped, P!NoPreview
  <2> QED BY <2>1, <2>2, <2>3, <2>4 DEF P!Init, TrialInv, PlacesOK, Alive, AnswerOK, ShelfOK, P!NoPreview
<1>2. ASSUME TrialInv, [Next]_vars PROVE TrialInv'
  <2>1. ASSUME UNCHANGED trial PROVE TrialInv'
    BY <1>2, <2>1 DEF TrialInv, TrialTyped, PlacesOK, JobOK, ShelfOK, AnswerOK, trial
  <2>2. CASE Try
    BY <1>2, <2>2, OwnerStep, ClaimStep, RunningStep, AuditStep, SaveStep DEF Try, P!Next
  <2> QED BY <1>2, <2>1, <2>2, TrialOrRest
<1> QED BY <1>1, <1>2, PTL DEF Spec

(* However previews and runs of the cron overlap, outlive their lease or   *)
(* die, and the channel is paused, erased and connected anew: a preview    *)
(* that is reported over has audited its whole window (dryRun.ts, the      *)
(* drain of the cron), unless an older row's drain crossed it.             *)
THEOREM SpecImpliesPreviewCovers == Spec => []PreviewCovers
<1>1. TrialInv => PreviewCovers
  BY DEF TrialInv, PreviewCovers, P!PreviewCovers, AnswerOK, AuditedAll
<1> QED BY <1>1, TrialInvariance, PTL

-----------------------------------------------------------------------------
(* Scans.  A checkpoint speaks of comments behind it: those under its      *)
(* cursor, and those a scan that is under way has already been over.       *)
ScanPlace == Nat \cup {None}
Checkpoint == [cursor : Nat, token : ScanPlace, scanCursor : ScanPlace, boundary : ScanPlace, scan : S!Scans]
Pass == [at : {"idle", "load", "fetch", "decide", "stage", "persist"}, read : Checkpoint,
         page : SUBSET (1..Horizon), more : BOOLEAN, decided : SUBSET (1..Horizon),
         seen : SUBSET (1..Horizon), parked : BOOLEAN]
ScanTyped ==
  /\ now \in 0..Horizon /\ floor \in Nat /\ scans \in S!Scans /\ channel \in Checkpoint
  /\ visit \in [1..Horizon -> S!Scans \cup {None}] /\ visited \in [S!Scans -> SUBSET (1..Horizon)]
  /\ run \in [Workers -> Pass]

(* What has been staged: the rows, and for a rescan its own comments.      *)
Behind(k, c, rows, seen) == c \in rows /\ (k.scan # S!Live => c \in seen[k.scan])
CheckOK(k, n, rows, seen) ==
  /\ k.token = None <=> k.scanCursor = None
  /\ k.token # None => \A c \in 1..Horizon : k.token <= c /\ c <= k.scanCursor => Behind(k, c, rows, seen)
  /\ k.cursor <= n /\ (k.token # None => k.token <= n /\ k.scanCursor <= n)
  /\ IF k.scan = S!Live THEN k.boundary = None ELSE k.boundary = k.cursor /\ k.cursor \in 1..Horizon
Under(n, low, rows) == \A c \in 1..Horizon : low <= c /\ c < n => c \in rows

(* A page has whatever lies between its ends, from the cursor on.          *)
Beneath(q, c) == IF q.read.token = None THEN \E d \in q.page : c <= d ELSE c < q.read.token
PageOK(q, n) ==
  /\ q.page \subseteq 1..n /\ \A c \in q.page : q.read.cursor <= c
  /\ q.more => q.page # {}
  /\ q.read.scan # S!Live /\ q.read.token = None => q.page # {}
  /\ \A c \in 1..Horizon : /\ Beneath(q, c) /\ q.read.cursor <= c
                           /\ q.more => \E d \in q.page : d <= c
                           => c \in q.page
StagingOK(q, rows, seen) ==
  /\ q.at = "stage" => /\ q.seen \subseteq rows
                       /\ ~q.parked => \A c \in q.page : \/ c \in q.decided \cup q.seen
                                                         \/ Behind(q.read, c, rows, seen)
  /\ q.at = "persist" /\ ~q.parked => \A c \in q.page : Behind(q.read, c, rows, seen)
Loaded(q) == q.at \in {"fetch", "decide", "stage", "persist"}
PassOK(q, n, rows, seen) ==
  Loaded(q) => /\ CheckOK(q.read, n, rows, seen)
               /\ q.at # "fetch" => PageOK(q, n)
               /\ StagingOK(q, rows, seen)
SameOK(q, k, low, rows) ==   \* of a pass over the scan that is under way
  Loaded(q) /\ q.read.scan = k.scan => q.read.boundary = k.boundary /\ Under(q.read.cursor, low, rows)

(* A rescan began at the newest comment, above any cursor that was read    *)
(* before it.                                                              *)
Reaches(q, n) == IF q.read.scanCursor # None THEN n <= q.read.scanCursor
                 ELSE q.at # "fetch" => \E c \in q.page : n <= c
Above(q, k, n) == Loaded(q) /\ q.read.scan = k.scan => Reaches(q, n)
Older(q) == Loaded(q) /\ q.read.scan = S!Live
RescanAbove ==
  channel.scan # S!Live =>
    \A r \in Workers : Older(run[r]) =>
      /\ channel.scanCursor # None => run[r].read.cursor <= channel.scanCursor
      /\ \A x \in Workers : Above(run[x], channel, run[r].read.cursor)

ScanInv ==
  /\ ScanTyped /\ CheckOK(channel, now, S!Stored, visited) /\ Under(channel.cursor, floor, S!Stored)
  /\ floor <= now /\ channel.scan <= scans
  /\ channel.scan # S!Live => floor = channel.cursor
  /\ claimed \subseteq S!Stored
  /\ \A c \in 1..Horizon : visit[c] # None => c \in visited[visit[c]]
  /\ \A r \in Workers : /\ PassOK(run[r], now, S!Stored, visited)
                        /\ SameOK(run[r], channel, floor, S!Stored)
                        /\ Loaded(run[r]) => run[r].read.scan <= scans
  /\ RescanAbove

LEMMA FiniteToo == \A set : (S!IsFiniteSet(set) <=> IsFiniteSet(set)) /\ S!Cardinality(set) = Cardinality(set)
<1>1. ASSUME NEW set PROVE S!IsFiniteSet(set) <=> IsFiniteSet(set)
  BY Zenon DEF S!IsFiniteSet, IsFiniteSet
<1>2. ASSUME NEW set PROVE S!Cardinality(set) = Cardinality(set)
  BY Zenon DEF S!Cardinality, Cardinality
<1> QED BY <1>1, <1>2

LEMMA ScanPages == \A token : S!PageOf(token) = PageIn(S!Listed(token)) /\ S!Listed(token) \subseteq 1..now
BY Zenon, FiniteToo DEF S!PageOf, PageIn, S!Listed

(* Rows, scans and comments only grow. *)
LEMMA Growth ==
  ASSUME NEW n \in Nat, NEW n2 \in Nat, n <= n2, NEW rows, NEW rows2, rows \subseteq rows2,
         NEW seen, NEW seen2, \A s \in S!Scans : seen[s] \subseteq seen2[s]
  PROVE  /\ \A k \in Checkpoint : CheckOK(k, n, rows, seen) => CheckOK(k, n2, rows2, seen2)
         /\ \A m, low : Under(m, low, rows) => Under(m, low, rows2)
         /\ \A q \in Pass : PassOK(q, n, rows, seen) => PassOK(q, n2, rows2, seen2)
         /\ \A q, k, low : SameOK(q, k, low, rows) => SameOK(q, k, low, rows2)
<1>1. \A k \in Checkpoint : \A c : Behind(k, c, rows, seen) => Behind(k, c, rows2, seen2)
  BY DEF Behind, Checkpoint
<1>2. ASSUME NEW k \in Checkpoint, CheckOK(k, n, rows, seen) PROVE CheckOK(k, n2, rows2, seen2)
  <2>1. k.cursor \in Nat /\ (k.token # None => k.token \in Nat) /\ (k.scanCursor # None => k.scanCursor \in Nat)
    BY DEF Checkpoint, ScanPlace
  <2> QED BY <1>1, <1>2, <2>1 DEF CheckOK
<1>3. \A m, low : Under(m, low, rows) => Under(m, low, rows2)
  BY DEF Under
<1>4. ASSUME NEW q \in Pass, PassOK(q, n, rows, seen) PROVE PassOK(q, n2, rows2, seen2)
  <2>1. q.read \in Checkpoint
    BY DEF Pass
  <2>2. PageOK(q, n) => PageOK(q, n2)
    BY DEF PageOK
  <2>3. StagingOK(q, rows, seen) => StagingOK(q, rows2, seen2)
    BY <1>1, <2>1 DEF StagingOK
  <2> QED BY <1>2, <1>4, <2>1, <2>2, <2>3 DEF PassOK
<1>5. \A q, k, low : SameOK(q, k, low, rows) => SameOK(q, k, low, rows2)
  BY <1>3 DEF SameOK
<1> QED BY <1>2, <1>3, <1>4, <1>5

(* A run moves on, over the same checkpoint: what remains to be shown.     *)
LEMMA RunMoves ==
  ASSUME ConstantsOK, ScanInv, NEW r \in Workers, NEW t \in Pass, run' = [run EXCEPT ![r] = t],
         UNCHANGED <<now, channel, floor, scans>>,
         visit' \in [1..Horizon -> S!Scans \cup {None}], visited' \in [S!Scans -> SUBSET (1..Horizon)],
         S!Stored \subseteq S!Stored', \A s \in S!Scans : visited[s] \subseteq visited'[s],
         claimed' \subseteq S!Stored', \A c \in 1..Horizon : visit'[c] # None => c \in visited'[visit'[c]],
         PassOK(t, now, S!Stored', visited'), SameOK(t, channel, floor, S!Stored'),
         Loaded(t) => t.read.scan <= scans,
         channel.scan # S!Live =>
           /\ Older(t) => Older(run[r]) /\ t.read.cursor = run[r].read.cursor
           /\ \A o \in Workers : Older(run[o]) => Above(t, channel, run[o].read.cursor)
  PROVE  ScanInv'
<1>1. ScanTyped' /\ run'[r] = t /\ \A x \in Workers \ {r} : run'[x] = run[x]
  BY DEF ScanInv, ScanTyped
<1>2. now \in Nat /\ channel \in Checkpoint /\ \A x \in Workers : run[x] \in Pass
  BY DEF ScanInv, ScanTyped, ConstantsOK, S!ConstantsOK
<1>0. /\ \A k \in Checkpoint : CheckOK(k, now, S!Stored, visited) => CheckOK(k, now, S!Stored', visited')
      /\ \A m, low : Under(m, low, S!Stored) => Under(m, low, S!Stored')
      /\ \A q \in Pass : PassOK(q, now, S!Stored, visited) => PassOK(q, now, S!Stored', visited')
      /\ \A q, k, low : SameOK(q, k, low, S!Stored) => SameOK(q, k, low, S!Stored')
  <2>1. now <= now /\ now \in Nat
    BY <1>2
  <2> HIDE DEF CheckOK, Under, PassOK, SameOK
  <2> QED BY <2>1, Growth, ZenonT(60)
<1>3. CheckOK(channel, now, S!Stored', visited') /\ Under(channel.cursor, floor, S!Stored')
  BY <1>0, <1>2 DEF ScanInv
<1>4. ASSUME NEW x \in Workers
      PROVE  /\ PassOK(run'[x], now, S!Stored', visited') /\ SameOK(run'[x], channel, floor, S!Stored')
             /\ Loaded(run'[x]) => run'[x].read.scan <= scans
  <2>1. CASE x = r
    BY <1>1, <2>1
  <2>2. CASE x # r
    <3>1. run'[x] = run[x] /\ run[x] \in Pass
      BY <1>1, <1>2, <2>2
    <3>2. PassOK(run[x], now, S!Stored, visited) /\ SameOK(run[x], channel, floor, S!Stored)
          /\ (Loaded(run[x]) => run[x].read.scan <= scans)
      BY DEF ScanInv
    <3> HIDE DEF PassOK, SameOK, Loaded
    <3> QED BY <1>0, <3>1, <3>2
  <2> QED BY <2>1, <2>2
<1>5. RescanAbove'
  <2> SUFFICES ASSUME channel.scan # S!Live, NEW o \in Workers, Older(run'[o])
               PROVE  /\ channel.scanCursor # None => run'[o].read.cursor <= channel.scanCursor
                      /\ \A x \in Workers : Above(run'[x], channel, run'[o].read.cursor)
    BY DEF RescanAbove
  <2>1. Older(run[o]) /\ run'[o].read.cursor = run[o].read.cursor
    BY <1>1
  <2>2. /\ channel.scanCursor # None => run[o].read.cursor <= channel.scanCursor
        /\ \A x \in Workers : Above(run[x], channel, run[o].read.cursor)
    BY <2>1 DEF ScanInv, RescanAbove
  <2>3. ASSUME NEW x \in Workers PROVE Above(run'[x], channel, run'[o].read.cursor)
    <3>1. CASE x = r
      BY <1>1, <2>1, <3>1
    <3>2. CASE x # r
      BY <1>1, <2>1, <2>2, <3>2
    <3> QED BY <3>1, <3>2
  <2> QED BY <2>1, <2>2, <2>3
<1> HIDE DEF CheckOK, Under, PassOK, SameOK, RescanAbove, Loaded
<1> QED BY <1>1, <1>3, <1>4, <1>5 DEF ScanInv

LEMMA RestingPass == S!Idle \in Pass /\ ~Loaded(S!Idle)
BY ConstantsOK DEF S!Idle, S!Fresh, Pass, Checkpoint, ScanPlace, S!Scans, S!Live, Loaded, S!ConstantsOK

(* A run that leaves touches nothing. *)
LEMMA RunLeaves ==
  ASSUME ConstantsOK, ScanInv, NEW r \in Workers, S!Start(r) \/ S!StageAborts(r) \/ S!Leave(r) \/ S!Crash(r)
  PROVE  ScanInv'
<1>1. run[r] \in Pass
  BY DEF ScanInv, ScanTyped
<1>2. \E t \in Pass : ~Loaded(t) /\ run' = [run EXCEPT ![r] = t]
  <2>1. CASE S!Start(r)
    <3>1. run' = [run EXCEPT ![r] = [run[r] EXCEPT !.at = "load"]]
      BY <2>1 DEF S!Start, S!Go
    <3>2. [run[r] EXCEPT !.at = "load"] \in Pass /\ ~Loaded([run[r] EXCEPT !.at = "load"])
      BY <1>1 DEF Pass, Loaded
    <3> QED BY <3>1, <3>2
  <2>2. CASE S!StageAborts(r) \/ S!Leave(r) \/ S!Crash(r)
    <3>1. run' = [run EXCEPT ![r] = S!Idle]
      BY <2>2 DEF S!StageAborts, S!Leave, S!Crash, S!End
    <3> QED BY <3>1, RestingPass
  <2> QED BY <2>1, <2>2
<1>3. UNCHANGED <<now, channel, floor, scans, visit, visited, claimed>>
  BY DEF S!Start, S!StageAborts, S!Leave, S!Crash, S!rows, S!history, S!counts
<1>4. PICK t \in Pass : ~Loaded(t) /\ run' = [run EXCEPT ![r] = t]
  BY <1>2
<1>5. S!Stored' = S!Stored
  BY <1>3 DEF S!Stored
<1>6. /\ PassOK(t, now, S!Stored', visited') /\ SameOK(t, channel, floor, S!Stored') /\ ~Older(t)
      /\ \A n : Above(t, channel, n)
  BY <1>4 DEF PassOK, SameOK, Older, Above
<1>7. /\ visit' \in [1..Horizon -> S!Scans \cup {None}] /\ visited' \in [S!Scans -> SUBSET (1..Horizon)]
      /\ claimed' \subseteq S!Stored' /\ \A c \in 1..Horizon : visit'[c] # None => c \in visited'[visit'[c]]
  BY <1>3, <1>5 DEF ScanInv, ScanTyped
<1> HIDE DEF PassOK, SameOK, Loaded, Older, Above
<1> QED BY <1>3, <1>4, <1>5, <1>6, <1>7, RunMoves

LEMMA LoadStep ==
  ASSUME ConstantsOK, ScanInv, NEW r \in Workers, S!Load(r)
  PROVE  ScanInv'
<1> DEFINE t == [run[r] EXCEPT !.at = "fetch", !.read = channel]
<1>1. /\ run' = [run EXCEPT ![r] = t] /\ UNCHANGED <<now, channel, floor, scans, visit, visited, claimed>>
      /\ run[r] \in Pass /\ channel \in Checkpoint
  BY DEF S!Load, ScanInv, ScanTyped, S!rows, S!history, S!counts
<1>2. t \in Pass /\ t.at = "fetch" /\ t.read = channel
  BY <1>1 DEF Pass
<1> HIDE DEF t
<1>3. S!Stored' = S!Stored
  BY <1>1 DEF S!Stored
<1>4. PassOK(t, now, S!Stored', visited') /\ SameOK(t, channel, floor, S!Stored') /\ t.read.scan <= scans
  BY <1>1, <1>2, <1>3 DEF PassOK, SameOK, StagingOK, ScanInv
<1>5. channel.scan # S!Live => ~Older(t) /\ \A o \in Workers : Older(run[o]) => Above(t, channel, run[o].read.cursor)
  BY <1>2 DEF Older, Above, Reaches, ScanInv, RescanAbove
<1>6. /\ visit' \in [1..Horizon -> S!Scans \cup {None}] /\ visited' \in [S!Scans -> SUBSET (1..Horizon)]
      /\ claimed' \subseteq S!Stored' /\ \A c \in 1..Horizon : visit'[c] # None => c \in visited'[visit'[c]]
  BY <1>1, <1>3 DEF ScanInv, ScanTyped
<1> HIDE DEF PassOK, SameOK, Loaded, Older, Above
<1> QED BY <1>1, <1>2, <1>3, <1>4, <1>5, <1>6, RunMoves

(* The first page of a rescan holds the newest comment.                    *)
LEMMA FetchStep ==
  ASSUME ConstantsOK, ScanInv, NEW r \in Workers, S!Fetch(r)
  PROVE  ScanInv'
<1> DEFINE in == run[r].read
           listed == S!Listed(in.token)
           shown == S!PageOf(in.token)
           page == {c \in shown : c >= in.cursor}
           more == page = shown /\ listed # shown
           t == [run[r] EXCEPT !.at = "decide", !.page = page, !.more = more]
<1>1. /\ run' = [run EXCEPT ![r] = t] /\ UNCHANGED <<now, channel, floor, scans, visit, visited, claimed>>
      /\ run[r] \in Pass /\ in \in Checkpoint /\ run[r].at = "fetch"
  BY Zenon DEF S!Fetch, S!At, ScanInv, ScanTyped, S!rows, S!history, S!counts, Pass
<1>2. /\ now \in 0..Horizon /\ now \in Nat /\ Horizon \in Nat /\ None \notin Nat
      /\ in.token \in Nat \cup {None} /\ in.cursor \in Nat
  BY <1>1 DEF ScanInv, ScanTyped, ConstantsOK, S!ConstantsOK, R!ConstantsOK, Checkpoint, ScanPlace
<1>3. shown = PageIn(listed) /\ shown \subseteq listed /\ listed \subseteq 1..now
  <2>1. shown = PageIn(listed) /\ listed \subseteq 1..now
    BY ScanPages
  <2> QED BY <2>1 DEF PageIn
<1>4. /\ \A c : c \in page <=> c \in shown /\ c >= in.cursor
      /\ \A c : c \in listed <=> c \in 1..now /\ (in.token = None \/ c < in.token)
      /\ more <=> page = shown /\ listed # shown
      /\ page \subseteq shown /\ page \subseteq Nat /\ shown \subseteq Nat /\ listed \subseteq Nat
  <2>1. \A c : c \in listed <=> c \in 1..now /\ (in.token = None \/ c < in.token)
    BY DEF S!Listed
  <2>2. shown \subseteq Nat /\ listed \subseteq Nat
    BY <1>3
  <2> HIDE DEF shown, listed
  <2> QED BY <2>1, <2>2
<1> HIDE DEF page, more, shown, listed
<1>5. CheckOK(in, now, S!Stored, visited) /\ SameOK(run[r], channel, floor, S!Stored) /\ in.scan <= scans
  BY <1>1 DEF ScanInv, PassOK, Loaded
<1>0. listed # {} => \E c \in shown : \A d \in listed : d <= c
  <2>1. listed # {} => \E c \in PageIn(listed) : \A d \in listed : d <= c
    BY <1>2, <1>3, PageNonEmpty
  <2> QED BY <1>3, <2>1
<1>6. in.scan # S!Live /\ in.token = None => \E c \in page : now <= c
  <2> SUFFICES ASSUME in.scan # S!Live, in.token = None PROVE \E c \in page : now <= c
    OBVIOUS
  <2>1. in.cursor \in 1..Horizon /\ in.cursor <= now
    BY <1>5 DEF CheckOK
  <2>2. now \in listed
    BY <1>2, <1>3, <1>4, <2>1
  <2>3. PICK c \in shown : \A d \in listed : d <= c
    BY <1>0, <2>2
  <2>4. c >= in.cursor /\ now <= c
    BY <1>2, <1>3, <1>4, <2>1, <2>2, <2>3
  <2> QED BY <1>4, <2>3, <2>4
<1>7. more => page # {}
  BY <1>0, <1>3, <1>4
<1>8. ASSUME NEW c \in 1..Horizon, c >= in.cursor, more => \E d \in page : d <= c,
             IF in.token = None THEN \E d \in page : c <= d ELSE c < in.token
      PROVE  c \in page
  <2>1. c \in listed
    <3>1. CASE in.token = None
      BY <1>2, <1>3, <1>4, <1>8, <3>1
    <3>2. CASE in.token # None
      <4>1. in.token \in Nat /\ in.token <= now /\ c < in.token
        BY <1>2, <1>5, <1>8, <3>2 DEF CheckOK
      <4> QED BY <1>2, <1>4, <4>1
    <3> QED BY <3>1, <3>2
  <2>2. ASSUME NEW d \in shown, d <= c PROVE c \in shown
    <3>1. c \in Nat /\ d \in Nat /\ now \in Nat
      BY <1>2, <1>3, <1>4
    <3> QED BY <1>3, <2>1, <2>2, <3>1, PageUpward
  <2>3. CASE more
    BY <1>2, <1>3, <1>4, <1>8, <2>2, <2>3
  <2>4. CASE listed = shown
    BY <1>4, <1>8, <2>1, <2>4
  <2>5. CASE page # shown
    <3>1. PICK d \in shown : ~(d >= in.cursor)
      BY <1>4, <2>5
    <3>2. d <= c
      BY <1>2, <1>3, <1>4, <1>8, <3>1
    <3>3. c \in shown
      BY <2>2, <3>1, <3>2
    <3> QED BY <1>4, <1>8, <3>3
  <2> QED BY <1>4, <2>3, <2>4, <2>5
<1>9. /\ t \in Pass /\ t.at = "decide" /\ t.read = in /\ t.page = page /\ t.more = more
      /\ page \subseteq 1..now
  <2>1. page \in SUBSET (1..Horizon) /\ page \subseteq 1..now
    BY <1>2, <1>3, <1>4
  <2>2. more \in BOOLEAN
    BY DEF more
  <2> QED BY <1>1, <2>1, <2>2 DEF Pass
<1>10. \A c \in page : in.cursor <= c
  BY <1>2, <1>4
<1> HIDE DEF t
<1>11. PageOK(t, now)
  <2>1. in.scan # S!Live /\ in.token = None => page # {}
    BY <1>6
  <2> QED BY <1>2, <1>7, <1>8, <1>9, <1>10, <2>1 DEF PageOK, Beneath
<1>12. S!Stored' = S!Stored
  BY <1>1 DEF S!Stored
<1>13. PassOK(t, now, S!Stored', visited') /\ SameOK(t, channel, floor, S!Stored') /\ t.read.scan <= scans
  BY <1>1, <1>5, <1>9, <1>11, <1>12 DEF PassOK, SameOK, StagingOK, Loaded
<1>14. ASSUME channel.scan # S!Live, NEW o \in Workers, Older(run[o]) PROVE Above(t, channel, run[o].read.cursor)
  <2> DEFINE n == run[o].read.cursor
  <2>1. n \in Nat /\ n <= now
    <3>1. run[o] \in Pass /\ PassOK(run[o], now, S!Stored, visited) /\ Loaded(run[o])
      BY <1>14 DEF ScanInv, ScanTyped, Older
    <3> QED BY <3>1 DEF Pass, Checkpoint, PassOK, CheckOK
  <2> HIDE DEF n
  <2>2. CASE in.scanCursor # None
    <3>1. Above(run[r], channel, n)
      BY <1>14 DEF ScanInv, RescanAbove, n
    <3> QED BY <1>1, <1>9, <2>2, <3>1 DEF Above, Reaches, Loaded, n
  <2>3. CASE in.scanCursor = None /\ in.scan = channel.scan
    <3>1. PICK c \in page : now <= c
      BY <1>5, <1>6, <1>14, <2>3 DEF CheckOK
    <3>2. n <= c
      BY <1>2, <1>9, <2>1, <3>1
    <3> QED BY <1>9, <2>3, <3>2 DEF Above, Reaches, n
  <2>4. CASE in.scan # channel.scan
    BY <1>9, <2>4 DEF Above
  <2> QED BY <2>2, <2>3, <2>4
<1>15. channel.scan # S!Live => (Older(t) => Older(run[r]) /\ t.read.cursor = run[r].read.cursor)
  BY <1>1, <1>9 DEF Older, Loaded
<1>16. /\ visit' \in [1..Horizon -> S!Scans \cup {None}] /\ visited' \in [S!Scans -> SUBSET (1..Horizon)]
      /\ claimed' \subseteq S!Stored' /\ \A c \in 1..Horizon : visit'[c] # None => c \in visited'[visit'[c]]
  BY <1>1, <1>12 DEF ScanInv, ScanTyped
<1> HIDE DEF PassOK, SameOK, Loaded, Older, Above
<1> QED BY <1>1, <1>9, <1>12, <1>13, <1>14, <1>15, <1>16, RunMoves

(* A page is decided whole unless it is parked: what is skipped is staged, *)
(* or in a human's hands.                                                  *)
LEMMA DecideStep ==
  ASSUME ConstantsOK, ScanInv, NEW r \in Workers, S!Decide(r)
  PROVE  ScanInv'
<1> DEFINE q == run[r]
           fresh == q.page \ S!Skipped(r)
           ai == fresh \cap NeedsAI
<1>1. PICK scored \in SUBSET ai, lost \in SUBSET fresh :
        run' = [run EXCEPT ![r] = [q EXCEPT !.at = "stage", !.parked = lost # {} \/ scored # ai,
                  !.decided = ((fresh \ NeedsAI) \cup scored) \ lost, !.seen = q.page \cap claimed]]
  BY Zenon DEF S!Decide
<1>2. /\ UNCHANGED <<now, channel, floor, scans, visit, visited, claimed>>
      /\ q \in Pass /\ q.at = "decide" /\ q.read \in Checkpoint
  BY DEF S!Decide, S!At, ScanInv, ScanTyped, S!rows, S!history, Pass
<1> DEFINE parked == lost # {} \/ scored # ai
           decided == ((fresh \ NeedsAI) \cup scored) \ lost
           t == [q EXCEPT !.at = "stage", !.parked = parked, !.decided = decided, !.seen = q.page \cap claimed]
<1>3. /\ decided \subseteq q.page /\ parked \in BOOLEAN /\ q.page \subseteq 1..Horizon
      /\ ~parked => decided = fresh
  BY <1>2 DEF Pass
<1>4. run' = [run EXCEPT ![r] = t]
  BY <1>1
<1> HIDE DEF parked, decided
<1>5. /\ t \in Pass /\ t.at = "stage" /\ t.read = q.read /\ t.page = q.page /\ t.more = q.more
      /\ t.parked = parked /\ t.decided = decided /\ t.seen = q.page \cap claimed
  <2>1. decided \in SUBSET (1..Horizon) /\ q.page \cap claimed \in SUBSET (1..Horizon)
    BY <1>3
  <2> QED BY <1>2, <1>3, <2>1 DEF Pass
<1> HIDE DEF t
<1>6. PassOK(q, now, S!Stored, visited) /\ SameOK(q, channel, floor, S!Stored) /\ Loaded(q) /\ q.read.scan <= scans
      /\ claimed \subseteq S!Stored
  BY <1>2 DEF ScanInv, Loaded
<1>7. S!Stored' = S!Stored
  BY <1>2 DEF S!Stored
<1>8. ASSUME NEW c \in q.page, ~parked PROVE c \in decided \cup t.seen \/ Behind(q.read, c, S!Stored, visited)
  <2>1. CASE c \notin S!Skipped(r)
    BY <1>3, <1>8, <2>1
  <2>2. CASE c \in S!Skipped(r) /\ S!Rescan(r)
    <3>1. visit[c] = q.read.scan \/ c \in claimed
      BY <2>2 DEF S!Skipped
    <3>2. CASE c \in claimed
      BY <1>5, <1>8, <3>2
    <3>3. CASE visit[c] = q.read.scan
      <4>1. c \in 1..Horizon /\ q.read.scan \in Nat /\ None \notin Nat
        BY <1>2, <1>3, <1>8 DEF Checkpoint, S!Scans, S!Live, ConstantsOK, S!ConstantsOK, R!ConstantsOK
      <4>2. c \in S!Stored /\ c \in visited[q.read.scan]
        BY Zenon, <3>3, <4>1 DEF S!Stored, S!Comments, ScanInv
      <4> QED BY <4>2 DEF Behind
    <3> QED BY <3>1, <3>2, <3>3
  <2>3. CASE c \in S!Skipped(r) /\ ~S!Rescan(r)
    BY <2>3 DEF S!Skipped, S!Rescan, Behind
  <2> QED BY <2>1, <2>2, <2>3
<1>9. PassOK(t, now, S!Stored', visited') /\ SameOK(t, channel, floor, S!Stored') /\ t.read.scan <= scans
  <2>1. PageOK(t, now)
    BY <1>2, <1>5, <1>6 DEF PassOK, PageOK, Beneath
  <2>2. StagingOK(t, S!Stored', visited')
    BY <1>2, <1>5, <1>6, <1>7, <1>8 DEF StagingOK
  <2> QED BY <1>2, <1>5, <1>6, <1>7, <2>1, <2>2 DEF PassOK, SameOK, Loaded
<1>10. channel.scan # S!Live =>
         /\ Older(t) => Older(run[r]) /\ t.read.cursor = run[r].read.cursor
         /\ \A o \in Workers : Older(run[o]) => Above(t, channel, run[o].read.cursor)
  BY <1>2, <1>5, <1>6 DEF Older, Above, Reaches, Loaded, ScanInv, RescanAbove
<1>11. /\ visit' \in [1..Horizon -> S!Scans \cup {None}] /\ visited' \in [S!Scans -> SUBSET (1..Horizon)]
       /\ claimed' \subseteq S!Stored' /\ \A c \in 1..Horizon : visit'[c] # None => c \in visited'[visit'[c]]
  BY SMTT(60), <1>2, <1>7 DEF ScanInv, ScanTyped
<1> HIDE DEF PassOK, SameOK, Loaded, Older, Above
<1> QED BY <1>2, <1>4, <1>5, <1>7, <1>9, <1>10, <1>11, RunMoves

(* The transaction: what is decided gets its row, and a rescan marks what  *)
(* a human took meanwhile as gone by.                                      *)
LEMMA StageStep ==
  ASSUME ConstantsOK, ScanInv, NEW r \in Workers, S!Stage(r)
  PROVE  ScanInv'
<1> DEFINE q == run[r]
           scope == q.read.scan
           marked == S!Kept(r) \cup IF S!Rescan(r) THEN (q.decided \cup q.seen) \cap claimed ELSE {}
           t == [q EXCEPT !.at = "persist"]
<1>1. /\ run' = [run EXCEPT ![r] = t] /\ UNCHANGED <<now, channel, floor, scans, claimed>>
      /\ q \in Pass /\ q.at = "stage" /\ q.read \in Checkpoint /\ scope \in S!Scans
      /\ visit' = [c \in 1..Horizon |-> IF c \in marked THEN scope ELSE visit[c]]
      /\ visited' = [visited EXCEPT ![scope] = @ \cup marked \cup q.seen]
  BY DEF S!Stage, S!At, S!Go, ScanInv, ScanTyped, S!counts, Pass, Checkpoint, S!Scope, S!Comments
<1>2. /\ marked \subseteq 1..Horizon /\ q.seen \subseteq 1..Horizon
      /\ q.decided \cup q.seen \subseteq marked \cup q.seen
      /\ q.decided \subseteq marked /\ scope \in Nat /\ None \notin Nat
  <2>1. q.decided \subseteq 1..Horizon /\ q.seen \subseteq 1..Horizon
    BY <1>1 DEF Pass
  <2>2. scope \in Nat /\ None \notin Nat
    BY <1>1 DEF S!Scans, S!Live, ConstantsOK, S!ConstantsOK, R!ConstantsOK
  <2> QED BY <2>1, <2>2 DEF S!Kept
<1> HIDE DEF marked
<1>3. t \in Pass /\ t.at = "persist" /\ t.read = q.read /\ t.page = q.page /\ t.more = q.more /\ t.parked = q.parked
  BY <1>1 DEF Pass
<1> HIDE DEF t
<1>4. S!Stored' = S!Stored \cup marked
  <2>1. \A c \in 1..Horizon : visit'[c] # None <=> visit[c] # None \/ c \in marked
    BY <1>1, <1>2
  <2> QED BY <1>2, <2>1 DEF S!Stored, S!Comments
<1>5. PassOK(q, now, S!Stored, visited) /\ SameOK(q, channel, floor, S!Stored) /\ Loaded(q) /\ q.read.scan <= scans
      /\ claimed \subseteq S!Stored
  BY <1>1 DEF ScanInv, Loaded
<1>6. /\ visited' \in [S!Scans -> SUBSET (1..Horizon)] /\ visited'[scope] = visited[scope] \cup marked \cup q.seen
      /\ \A s \in S!Scans : visited[s] \subseteq visited'[s]
  BY <1>1, <1>2 DEF ScanInv, ScanTyped
<1>7. /\ visit' \in [1..Horizon -> S!Scans \cup {None}] /\ claimed' \subseteq S!Stored'
      /\ \A c \in 1..Horizon : visit'[c] # None => c \in visited'[visit'[c]]
  <2>1. visit' \in [1..Horizon -> S!Scans \cup {None}] /\ claimed' \subseteq S!Stored'
    BY <1>1, <1>4, <1>5 DEF ScanInv, ScanTyped
  <2>2. ASSUME NEW c \in 1..Horizon, visit'[c] # None PROVE c \in visited'[visit'[c]]
    <3>1. CASE c \in marked
      BY <1>1, <1>6, <3>1
    <3>2. CASE c \notin marked
      <4>1. visit'[c] = visit[c] /\ visit[c] \in S!Scans /\ c \in visited[visit[c]]
        BY <1>1, <2>2, <3>2 DEF ScanInv, ScanTyped
      <4> QED BY <1>6, <4>1
    <3> QED BY <3>1, <3>2
  <2> QED BY <2>1, <2>2
<1>8. \A c : Behind(q.read, c, S!Stored, visited) => Behind(q.read, c, S!Stored', visited')
  BY <1>1, <1>4, <1>6 DEF Behind
<1>9. ASSUME ~q.parked, NEW c \in q.page PROVE Behind(q.read, c, S!Stored', visited')
  <2>1. q.seen \subseteq S!Stored /\ (c \in q.decided \cup q.seen \/ Behind(q.read, c, S!Stored, visited))
    BY <1>1, <1>5, <1>9 DEF PassOK, StagingOK
  <2> QED BY <1>2, <1>4, <1>6, <1>8, <2>1 DEF Behind
<1>10. PassOK(t, now, S!Stored', visited') /\ SameOK(t, channel, floor, S!Stored') /\ t.read.scan <= scans
  <2>1. PageOK(t, now)
    BY <1>1, <1>3, <1>5 DEF PassOK, PageOK, Beneath
  <2>2. StagingOK(t, S!Stored', visited')
    BY <1>3, <1>9 DEF StagingOK
  <2>3. CheckOK(t.read, now, S!Stored', visited')
    <3>1. CheckOK(q.read, now, S!Stored, visited)
      BY <1>5 DEF PassOK
    <3> QED BY <1>3, <1>8, <3>1 DEF CheckOK
  <2>4. SameOK(t, channel, floor, S!Stored')
    BY <1>3, <1>4, <1>5 DEF SameOK, Loaded, Under
  <2> QED BY <1>3, <1>5, <2>1, <2>2, <2>3, <2>4 DEF PassOK
<1>11. channel.scan # S!Live =>
         /\ Older(t) => Older(run[r]) /\ t.read.cursor = run[r].read.cursor
         /\ \A o \in Workers : Older(run[o]) => Above(t, channel, run[o].read.cursor)
  BY <1>1, <1>3, <1>5 DEF Older, Above, Reaches, Loaded, ScanInv, RescanAbove
<1>12. S!Stored \subseteq S!Stored'
  BY <1>4
<1> HIDE DEF PassOK, SameOK, Loaded, Older, Above
<1> QED BY <1>1, <1>3, <1>6, <1>7, <1>10, <1>11, <1>12, RunMoves

(* What the last page of a scan has been over, when it was not parked.     *)
LEMMA PagesReach ==
  ASSUME ConstantsOK, ScanInv, NEW r \in Workers, S!Persist(r)
  PROVE  /\ run[r].more => run[r].page # {} /\ S!Min(run[r].page) \in run[r].page
         /\ run[r].page # {} => S!Max(run[r].page) \in run[r].page /\ \A c \in run[r].page : c <= S!Max(run[r].page)
         /\ S!ScanCursor(r) \in Nat /\ S!ScanCursor(r) <= now
         /\ \A c \in 1..Horizon : /\ run[r].read.cursor <= c /\ (c < S!ScanCursor(r) \/ (run[r].read.scan # S!Live /\ c = S!ScanCursor(r)))
                                  /\ run[r].more => S!Min(run[r].page) <= c
                                  => Behind(run[r].read, c, S!Stored, visited)
         /\ run[r].more => \A c \in 1..Horizon : S!Min(run[r].page) <= c /\ c <= S!ScanCursor(r) => Behind(run[r].read, c, S!Stored, visited)
<1> DEFINE q == run[r]
<1>1. /\ q \in Pass /\ q.at = "persist" /\ ~q.parked /\ q.read \in Checkpoint /\ q.page \subseteq 1..Horizon
      /\ CheckOK(q.read, now, S!Stored, visited) /\ PageOK(q, now) /\ StagingOK(q, S!Stored, visited)
  BY DEF S!Persist, S!At, S!Parked, ScanInv, ScanTyped, Pass, PassOK, Loaded
<1>2. /\ now \in Nat /\ Horizon \in Nat /\ None \notin Nat /\ q.read.cursor \in Nat /\ q.read.token \in Nat \cup {None}
      /\ q.read.scanCursor \in Nat \cup {None} /\ q.more \in BOOLEAN
  BY <1>1 DEF ScanInv, ScanTyped, ConstantsOK, S!ConstantsOK, R!ConstantsOK, Checkpoint, ScanPlace, Pass
<1>3. q.page # {} => S!Max(q.page) \in q.page /\ \A c \in q.page : c <= S!Max(q.page)
  <2>1. q.page # {} => \E c \in q.page : \A d \in q.page : d <= c
    BY <1>1, <1>2, Greatest
  <2> QED BY <2>1 DEF S!Max
<1>4. q.page # {} => S!Min(q.page) \in q.page /\ \A c \in q.page : S!Min(q.page) <= c
  <2>1. q.page # {} => \E c \in q.page : \A d \in q.page : c <= d
    BY <1>1, Least
  <2> QED BY <2>1 DEF S!Min
<1>5. q.more => q.page # {}
  BY <1>1 DEF PageOK
<1> DEFINE top == S!Max(q.page)
           low == S!Min(q.page)
           reach == S!ScanCursor(r)
<1>6. reach = IF q.read.scanCursor = None THEN (IF q.page = {} THEN q.read.cursor ELSE top) ELSE q.read.scanCursor
  BY DEF S!ScanCursor, S!Newest
<1> HIDE DEF top, low, reach
<1>7. /\ \A c \in q.page : c \in 1..now /\ q.read.cursor <= c /\ Behind(q.read, c, S!Stored, visited)
      /\ \A c \in 1..Horizon : Beneath(q, c) /\ q.read.cursor <= c /\ (q.more => \E d \in q.page : d <= c) => c \in q.page
  BY <1>1 DEF PageOK, StagingOK
<1>8. /\ q.page # {} => top \in q.page /\ (\A c \in q.page : c <= top)
      /\ q.page # {} => low \in q.page /\ (\A c \in q.page : low <= c)
  BY <1>3, <1>4 DEF top, low
<1>9. reach \in Nat /\ reach <= now
  <2>1. q.read.cursor <= now /\ (q.read.scanCursor # None => q.read.scanCursor <= now)
    BY <1>1 DEF CheckOK
  <2>2. q.page # {} => top \in Nat /\ top <= now
    BY <1>2, <1>7, <1>8
  <2> QED BY <1>2, <1>6, <2>1, <2>2
<1>10. ASSUME NEW c \in 1..Horizon, q.read.cursor <= c, q.more => low <= c, c <= reach,
              c < reach \/ q.read.scan # S!Live \/ q.more
       PROVE  Behind(q.read, c, S!Stored, visited)
  <2>1. q.more => \E d \in q.page : d <= c
    BY <1>5, <1>8, <1>10
  <2>2. CASE q.read.token = None
    <3>1. q.read.scanCursor = None
      BY <1>1, <2>2 DEF CheckOK
    <3>2. q.page # {}
      <4>1. q.page = {} => reach = q.read.cursor
        BY <1>6, <3>1
      <4>2. q.page = {} => ~q.more /\ q.read.scan = S!Live
        BY <1>1, <2>2 DEF PageOK
      <4> QED BY <1>2, <1>9, <1>10, <4>1, <4>2
    <3>3. Beneath(q, c)
      BY <1>6, <1>8, <1>10, <2>2, <3>1, <3>2 DEF Beneath
    <3> QED BY <1>7, <1>10, <2>1, <3>3
  <2>3. CASE q.read.token # None /\ c < q.read.token
    BY <1>7, <1>10, <2>1, <2>3 DEF Beneath
  <2>4. CASE q.read.token # None /\ ~(c < q.read.token)
    <3>1. q.read.scanCursor # None /\ reach = q.read.scanCursor /\ q.read.token <= c
      BY <1>1, <1>2, <1>6, <2>4 DEF CheckOK
    <3> QED BY <1>1, <1>10, <2>4, <3>1 DEF CheckOK
  <2> QED BY <2>2, <2>3, <2>4
<1>11. ASSUME q.more, NEW c \in 1..Horizon, low <= c PROVE q.read.cursor <= c
  <2>1. q.read.cursor <= low /\ low \in Nat
    BY <1>1, <1>5, <1>7, <1>8, <1>11
  <2> QED BY <1>2, <1>11, <2>1
<1>12. \A c \in 1..Horizon : c < reach \/ c = reach => c <= reach
  BY <1>9
<1> QED
  <2>1. /\ reach \in Nat /\ reach <= now
        /\ \A c \in 1..Horizon : /\ q.read.cursor <= c /\ (c < reach \/ (q.read.scan # S!Live /\ c = reach))
                                 /\ q.more => low <= c
                                 => Behind(q.read, c, S!Stored, visited)
        /\ q.more => \A c \in 1..Horizon : low <= c /\ c <= reach => Behind(q.read, c, S!Stored, visited)
    BY <1>9, <1>10, <1>11, <1>12
  <2> QED BY <1>3, <1>4, <1>5, <2>1 DEF reach, low

(* The checkpoint moves on, and only that of the scan that was read.       *)
LEMMA PersistStep ==
  ASSUME ConstantsOK, ScanInv, NEW r \in Workers, S!Persist(r)
  PROVE  ScanInv'
<1> DEFINE q == run[r]
           reach == S!ScanCursor(r)
           low == S!Min(q.page)
<1>1. /\ run' = [run EXCEPT ![r] = S!Idle] /\ UNCHANGED <<now, floor, scans, visit, visited, claimed>>
      /\ q \in Pass /\ q.at = "persist" /\ channel.scan = q.read.scan /\ channel.boundary = q.read.boundary
      /\ channel' = IF q.more THEN [channel EXCEPT !.token = low, !.scanCursor = reach]
                               ELSE [S!Fresh EXCEPT !.cursor = reach]
  BY DEF S!Persist, S!At, S!End, S!SameScan, S!rows, S!history, S!counts, ScanInv, ScanTyped
<1>2. /\ now \in Nat /\ Horizon \in Nat /\ First \in Nat /\ None \notin Nat /\ channel \in Checkpoint /\ S!Live \in S!Scans
      /\ floor \in Nat /\ floor <= now
      /\ CheckOK(channel, now, S!Stored, visited) /\ Under(channel.cursor, floor, S!Stored)
      /\ q.read \in Checkpoint /\ CheckOK(q.read, now, S!Stored, visited) /\ SameOK(q, channel, floor, S!Stored)
      /\ q.page \subseteq 1..now /\ q.more \in BOOLEAN
  BY <1>1 DEF ScanInv, ScanTyped, ConstantsOK, S!ConstantsOK, R!ConstantsOK, S!Scans, S!Live, PassOK, Loaded, Pass, PageOK
<1>3. /\ q.more => q.page # {} /\ low \in q.page
      /\ q.page # {} => S!Max(q.page) \in q.page /\ \A c \in q.page : c <= S!Max(q.page)
      /\ reach \in Nat /\ reach <= now
      /\ \A c \in 1..Horizon : /\ q.read.cursor <= c /\ (c < reach \/ (q.read.scan # S!Live /\ c = reach))
                               /\ q.more => low <= c
                               => Behind(q.read, c, S!Stored, visited)
      /\ q.more => \A c \in 1..Horizon : low <= c /\ c <= reach => Behind(q.read, c, S!Stored, visited)
  BY PagesReach
<1>4. channel.scan # S!Live => \A o \in Workers : Older(run[o]) => run[o].read.cursor <= reach
  <2> SUFFICES ASSUME channel.scan # S!Live, NEW o \in Workers, Older(run[o]) PROVE run[o].read.cursor <= reach
    OBVIOUS
  <2> DEFINE n == run[o].read.cursor
  <2>1. n \in Nat /\ Reaches(q, n)
    <3>1. run[o] \in Pass
      BY DEF ScanInv, ScanTyped
    <3>2. Above(q, channel, n)
      BY DEF ScanInv, RescanAbove
    <3> QED BY <1>1, <3>1, <3>2 DEF Pass, Checkpoint, Above, Loaded
  <2> HIDE DEF n
  <2>2. CASE q.read.scanCursor # None
    BY <2>1, <2>2 DEF Reaches, S!ScanCursor, n
  <2>3. CASE q.read.scanCursor = None
    <3>1. PICK c \in q.page : n <= c
      BY <1>1, <2>1, <2>3 DEF Reaches
    <3>2. reach = S!Max(q.page) /\ c <= reach /\ c \in Nat
      BY <1>2, <1>3, <2>3, <3>1 DEF S!ScanCursor, S!Newest
    <3> QED BY <1>3, <2>1, <3>1, <3>2 DEF n
  <2> QED BY <2>2, <2>3
<1>5. S!Stored' = S!Stored
  BY <1>1 DEF S!Stored
<1> HIDE DEF reach, low
<1>6. /\ run'[r] = S!Idle /\ run' \in [Workers -> Pass]
      /\ \A x \in Workers : Loaded(run'[x]) => x # r /\ run'[x] = run[x]
  BY <1>1, RestingPass DEF ScanInv, ScanTyped
<1>7. /\ visit' \in [1..Horizon -> S!Scans \cup {None}] /\ visited' \in [S!Scans -> SUBSET (1..Horizon)]
      /\ claimed' \subseteq S!Stored' /\ \A c \in 1..Horizon : visit'[c] # None => c \in visited'[visit'[c]]
      /\ now' \in 0..Horizon /\ floor' \in Nat /\ scans' \in S!Scans
  BY <1>1, <1>5 DEF ScanInv, ScanTyped
<1>8. ASSUME channel' \in Checkpoint, CheckOK(channel', now, S!Stored, visited), Under(channel'.cursor, floor, S!Stored),
             channel'.scan # S!Live => floor = channel'.cursor, channel'.scan <= scans,
             \A x \in Workers : SameOK(run[x], channel', floor, S!Stored), RescanAbove'
      PROVE  ScanInv'
  <2>1. ASSUME NEW x \in Workers
        PROVE  /\ PassOK(run'[x], now, S!Stored, visited) /\ SameOK(run'[x], channel', floor, S!Stored)
               /\ Loaded(run'[x]) => run'[x].read.scan <= scans
    <3>1. CASE Loaded(run'[x])
      BY <1>6, <1>8, <3>1 DEF ScanInv
    <3>2. CASE ~Loaded(run'[x])
      BY <3>2 DEF PassOK, SameOK
    <3> QED BY <3>1, <3>2
  <2> HIDE DEF CheckOK, Under, PassOK, SameOK, RescanAbove, Loaded
  <2> QED BY <1>1, <1>2, <1>5, <1>6, <1>7, <1>8, <2>1 DEF ScanInv, ScanTyped
<1>9. CASE q.more
  <2>1. channel' = [channel EXCEPT !.token = low, !.scanCursor = reach] /\ low \in Nat /\ low <= now
    BY <1>1, <1>2, <1>3, <1>9
  <2>2. /\ channel' \in Checkpoint /\ channel'.token = low /\ channel'.scanCursor = reach /\ channel'.scan = channel.scan
        /\ channel'.boundary = channel.boundary /\ channel'.cursor = channel.cursor
    BY <1>2, <1>3, <2>1 DEF Checkpoint, ScanPlace
  <2>3. CheckOK(channel', now, S!Stored, visited)
    <3>1. \A c \in 1..Horizon : low <= c /\ c <= reach => Behind(channel', c, S!Stored, visited)
      BY <1>1, <1>3, <1>9, <2>2 DEF Behind
    <3> QED BY <1>2, <1>3, <2>1, <2>2, <3>1 DEF CheckOK
  <2>4. \A x \in Workers : SameOK(run[x], channel', floor, S!Stored)
    BY <2>2 DEF SameOK, ScanInv
  <2>5. RescanAbove'
    <3> SUFFICES ASSUME channel'.scan # S!Live, NEW o \in Workers, Older(run'[o])
                 PROVE  /\ channel'.scanCursor # None => run'[o].read.cursor <= channel'.scanCursor
                        /\ \A x \in Workers : Above(run'[x], channel', run'[o].read.cursor)
      BY DEF RescanAbove
    <3>1. Older(run[o]) /\ run'[o] = run[o] /\ channel.scan # S!Live
      BY <1>6, <2>2 DEF Older
    <3>2. \A x \in Workers : Above(run[x], channel, run[o].read.cursor)
      BY <3>1 DEF ScanInv, RescanAbove
    <3>3. \A x \in Workers : Above(run'[x], channel', run[o].read.cursor)
      BY <1>6, <2>2, <3>2 DEF Above
    <3> QED BY <1>4, <2>2, <3>1, <3>3
  <2>6. Under(channel'.cursor, floor, S!Stored) /\ channel'.scan <= scans /\ (channel'.scan # S!Live => floor = channel'.cursor)
    BY <1>2, <2>2 DEF ScanInv
  <2> QED BY <1>8, <2>2, <2>3, <2>4, <2>5, <2>6
<1>10. CASE ~q.more
  <2>1. channel' = [S!Fresh EXCEPT !.cursor = reach]
    BY <1>1, <1>10
  <2>2. /\ channel' \in Checkpoint /\ channel'.token = None /\ channel'.scanCursor = None /\ channel'.scan = S!Live
        /\ channel'.boundary = None /\ channel'.cursor = reach
    BY <1>2, <1>3, <2>1 DEF Checkpoint, ScanPlace, S!Fresh
  <2>3. CheckOK(channel', now, S!Stored, visited)
    BY <1>3, <2>2 DEF CheckOK
  <2>4. Under(reach, floor, S!Stored)
    <3>1. Under(q.read.cursor, floor, S!Stored) /\ q.read.cursor \in Nat
      BY <1>1, <1>2 DEF SameOK, Loaded, Checkpoint
    <3> QED BY <1>2, <1>3, <1>10, <3>1 DEF Under, Behind
  <2>5. ASSUME NEW x \in Workers PROVE SameOK(run[x], channel', floor, S!Stored)
    <3> SUFFICES ASSUME Loaded(run[x]), run[x].read.scan = S!Live
                 PROVE  run[x].read.boundary = None /\ Under(run[x].read.cursor, floor, S!Stored)
      BY <2>2 DEF SameOK
    <3>1. run[x].read.boundary = None
      BY DEF ScanInv, PassOK, CheckOK
    <3>2. channel.scan = S!Live => Under(run[x].read.cursor, floor, S!Stored)
      BY DEF ScanInv, SameOK
    <3>3. ASSUME channel.scan # S!Live PROVE Under(run[x].read.cursor, floor, S!Stored)
      <4>1. run[x].read.cursor <= reach /\ run[x].read.cursor \in Nat
        BY <1>4, <3>3 DEF Older, ScanInv, ScanTyped, Pass, Checkpoint
      <4> QED BY <1>3, <2>4, <4>1 DEF Under
    <3> QED BY <3>1, <3>2, <3>3
  <2>6. RescanAbove'
    BY <2>2 DEF RescanAbove
  <2>7. channel'.scan <= scans
    <3>1. scans \in Nat
      BY DEF ScanInv, ScanTyped, S!Scans, S!Live, ConstantsOK, S!ConstantsOK
    <3> QED BY <2>2, <3>1 DEF S!Live
  <2> QED BY <1>8, <2>2, <2>3, <2>4, <2>5, <2>6, <2>7
<1> QED BY <1>2, <1>9, <1>10

(* analyzeHistory plants a rescan under the passes that are on their way.  *)
LEMMA RescanStep ==
  ASSUME ConstantsOK, ScanInv, NEW b \in 1..Horizon, S!AnalyzeHistory(b)
  PROVE  ScanInv'
<1>1. /\ channel' = [cursor |-> b, token |-> None, scanCursor |-> None, boundary |-> b, scan |-> scans + 1]
      /\ floor' = b /\ scans' = scans + 1 /\ scans < MaxScans /\ b <= now
      /\ UNCHANGED <<now, visit, claimed, run, visited>>
  BY DEF S!AnalyzeHistory, S!rows
<1>2. /\ scans \in Nat /\ scans + 1 \in S!Scans /\ scans + 1 # S!Live /\ None \notin Nat
      /\ S!Stored' = S!Stored /\ Horizon \in Nat
  BY <1>1 DEF ScanInv, ScanTyped, S!Scans, S!Live, ConstantsOK, S!ConstantsOK, R!ConstantsOK, S!Stored
<1>3. /\ channel' \in Checkpoint /\ channel'.token = None /\ channel'.scanCursor = None /\ channel'.scan = scans + 1
      /\ channel'.boundary = b /\ channel'.cursor = b
  BY <1>1, <1>2 DEF Checkpoint, ScanPlace
<1>4. ScanTyped' /\ CheckOK(channel', now, S!Stored, visited) /\ Under(channel'.cursor, floor', S!Stored)
  BY <1>1, <1>2, <1>3 DEF ScanInv, ScanTyped, CheckOK, Under
<1>5. ASSUME NEW x \in Workers, Loaded(run[x]) PROVE run[x].read.scan # channel'.scan /\ run[x].read.scan <= scans'
  <2>1. run[x].read.scan \in Nat /\ run[x].read.scan <= scans
    BY <1>5 DEF ScanInv, ScanTyped, Pass, Checkpoint, S!Scans, S!Live
  <2> QED BY <1>1, <1>2, <1>3, <2>1
<1>6. \A x \in Workers : /\ PassOK(run[x], now, S!Stored, visited) /\ SameOK(run[x], channel', floor', S!Stored)
                         /\ Loaded(run[x]) => run[x].read.scan <= scans'
  BY <1>5 DEF ScanInv, SameOK
<1>7. RescanAbove'
  <2>1. \A x \in Workers : \A n : Above(run[x], channel', n)
    BY <1>5 DEF Above
  <2> QED BY <1>1, <1>3, <2>1 DEF RescanAbove
<1>8. /\ claimed' \subseteq S!Stored /\ \A c \in 1..Horizon : visit'[c] # None => c \in visited'[visit'[c]]
      /\ floor' <= now' /\ channel'.scan <= scans' /\ floor' = channel'.cursor
  BY <1>1, <1>2, <1>3 DEF ScanInv
<1> HIDE DEF CheckOK, Under, PassOK, SameOK, RescanAbove, Loaded, ScanTyped
<1> QED BY <1>1, <1>2, <1>4, <1>6, <1>7, <1>8 DEF ScanInv

LEMMA PeopleStep ==
  ASSUME ConstantsOK, ScanInv, S!Publish \/ S!TopUp \/ S!Lapse \/ \E c \in S!Comments : S!Claim(c) \/ S!Unclaim(c)
  PROVE  ScanInv'
<1>1. /\ UNCHANGED <<channel, visit, run, floor, visited, scans>> /\ S!Stored' = S!Stored
      /\ now' \in 0..Horizon /\ now \in Nat /\ now' \in Nat /\ now <= now' /\ claimed' \subseteq S!Stored
  BY DEF S!Publish, S!TopUp, S!Lapse, S!Claim, S!Unclaim, S!rows, S!history, S!counts, S!Stored,
         ScanInv, ScanTyped, ConstantsOK, S!ConstantsOK
<1>2. ScanTyped' /\ (floor <= now => floor <= now') /\ channel \in Checkpoint /\ \A x \in Workers : run[x] \in Pass
  BY <1>1 DEF ScanInv, ScanTyped
<1>3. /\ \A k \in Checkpoint : CheckOK(k, now, S!Stored, visited) => CheckOK(k, now', S!Stored, visited)
      /\ \A q \in Pass : PassOK(q, now, S!Stored, visited) => PassOK(q, now', S!Stored, visited)
  BY <1>1, Growth
<1>4. RescanAbove'
  BY <1>1 DEF ScanInv, RescanAbove
<1> HIDE DEF CheckOK, Under, PassOK, SameOK, RescanAbove, Loaded, ScanTyped
<1> QED BY <1>1, <1>2, <1>3, <1>4 DEF ScanInv

LEMMA ScanInvariance == Spec => []ScanInv
<1> USE ConstantsOK
<1>1. Init => ScanInv
  <2> SUFFICES ASSUME Init PROVE ScanInv
    OBVIOUS
  <2>1. S!Init
    BY DEF Init
  <2>2. /\ First \in 0..Horizon /\ Horizon \in Nat /\ MaxScans \in Nat /\ None \notin Nat
    BY DEF ConstantsOK, S!ConstantsOK, R!ConstantsOK
  <2>3. channel = S!Fresh /\ channel \in Checkpoint /\ channel.scan = S!Live /\ channel.token = None /\ channel.scanCursor = None
        /\ channel.cursor = First /\ channel.boundary = None
    BY <2>1, <2>2 DEF S!Init, S!Fresh, Checkpoint, ScanPlace, S!Scans, S!Live
  <2>4. S!Stored = {} /\ \A c \in 1..Horizon : visit[c] = None
    BY <2>1 DEF S!Init, S!Stored, S!Comments
  <2>5. \A r \in Workers : run[r] = S!Idle
    BY <2>1 DEF S!Init
  <2>6. ScanTyped
    BY <2>1, <2>2, <2>3, RestingPass DEF S!Init, ScanTyped, S!Scans, S!Live, S!Comments
  <2>7. \A r \in Workers : ~Loaded(run[r])
    BY <2>5, RestingPass
  <2>8. CheckOK(channel, now, S!Stored, visited) /\ Under(channel.cursor, floor, S!Stored) /\ floor <= now
        /\ channel.scan <= scans /\ claimed \subseteq S!Stored
    BY <2>1, <2>2, <2>3, <2>4 DEF S!Init, CheckOK, Under, S!Live
  <2> HIDE DEF ScanTyped, CheckOK, Under, Loaded
  <2> QED BY <2>3, <2>4, <2>6, <2>7, <2>8 DEF ScanInv, PassOK, SameOK, RescanAbove
<1>2. ASSUME ScanInv, [Next]_vars PROVE ScanInv'
  <2>1. ASSUME UNCHANGED scan PROVE ScanInv'
    BY ZenonT(60), <1>2, <2>1 DEF ScanInv, ScanTyped, CheckOK, Under, PassOK, SameOK, StagingOK, RescanAbove, S!Stored, scan
  <2>2. CASE Scan
    BY <1>2, <2>2, RunLeaves, LoadStep, FetchStep, DecideStep, StageStep, PersistStep, RescanStep, PeopleStep
       DEF Scan, S!Next, S!Comments
  <2> QED BY <1>2, <2>1, <2>2, ScanOrRest
<1> QED BY <1>1, <1>2, PTL DEF Spec

(* Whatever runs overlap, park, crash or lose their lease: the cursor has  *)
(* passed no comment that was not staged (runChannel, persistResults).     *)
THEOREM SpecImpliesNothingSkipped == Spec => []S!NothingSkipped
<1>1. ScanInv => S!NothingSkipped
  BY DEF ScanInv, S!NothingSkipped, Under, S!Comments
<1> QED BY <1>1, ScanInvariance, PTL

(* A rescan that ends has been over its whole window (history_boundary).   *)
THEOREM SpecImpliesRescanCovers == Spec => RescanCovers
<1> USE ConstantsOK
<1> DEFINE Done == \A s \in S!Scans : S!Completes(s) => channel.boundary..(channel'.cursor) \subseteq visited[s]
<1>1. ASSUME ScanInv, [Next]_vars PROVE [Done]_(S!vars)
  <2> SUFFICES ASSUME NEW s \in S!Scans, S!Completes(s)
               PROVE  channel.boundary..(channel'.cursor) \subseteq visited[s]
    OBVIOUS
  <2>1. channel.scan = s /\ s # S!Live /\ channel'.scan = S!Live
    BY DEF S!Completes
  <2>2. Scan
    BY SMTT(60), <1>1, <2>1, ScanOrRest DEF scan
  <2>3. PICK r \in Workers : S!Persist(r)
    <3>1. ASSUME NEW b, S!AnalyzeHistory(b) PROVE channel'.scan # S!Live
      BY <1>1, <3>1 DEF S!AnalyzeHistory, ScanInv, ScanTyped, S!Scans, S!Live, S!ConstantsOK, ConstantsOK
    <3> QED BY ZenonT(30), <2>1, <2>2, <3>1 DEF Scan, S!Next, S!Publish, S!TopUp, S!Lapse, S!Claim, S!Unclaim, S!Start, S!Load, S!Fetch,
                   S!Decide, S!Stage, S!StageAborts, S!Leave, S!Crash
  <2> DEFINE q == run[r]
             reach == S!ScanCursor(r)
  <2>4. /\ channel.scan = q.read.scan /\ channel.boundary = q.read.boundary
        /\ channel' = IF q.more THEN [channel EXCEPT !.token = S!Min(q.page), !.scanCursor = reach]
                                 ELSE [S!Fresh EXCEPT !.cursor = reach]
        /\ q \in Pass /\ q.at = "persist" /\ channel \in Checkpoint
    BY <1>1, <2>3 DEF S!Persist, S!At, S!SameScan, ScanInv, ScanTyped
  <2>5. /\ reach \in Nat /\ reach <= now
        /\ \A c \in 1..Horizon : /\ q.read.cursor <= c /\ (c < reach \/ (q.read.scan # S!Live /\ c = reach))
                                 /\ q.more => S!Min(q.page) <= c
                                 => Behind(q.read, c, S!Stored, visited)
    BY <1>1, <2>3, PagesReach
  <2> HIDE DEF reach
  <2>6. ~q.more
    BY <2>1, <2>4 DEF Checkpoint
  <2>7. channel'.cursor = reach
    BY <2>4, <2>6 DEF S!Fresh
  <2>8. CheckOK(q.read, now, S!Stored, visited) /\ now \in 0..Horizon /\ Horizon \in Nat
    BY <1>1, <2>4 DEF ScanInv, ScanTyped, PassOK, Loaded, ConstantsOK, S!ConstantsOK
  <2>9. q.read.boundary = q.read.cursor /\ q.read.cursor \in 1..Horizon
    BY <2>1, <2>4, <2>8 DEF CheckOK
  <2>10. ASSUME NEW c \in q.read.cursor..reach PROVE c \in visited[s]
    <3>1. c \in 1..Horizon /\ q.read.cursor <= c /\ (c < reach \/ c = reach)
      BY <2>5, <2>8, <2>9, <2>10
    <3> QED BY <2>1, <2>4, <2>5, <2>6, <3>1 DEF Behind
  <2> QED BY <2>4, <2>7, <2>9, <2>10
<1>2. ScanInv /\ [Next]_vars => [Done]_(S!vars)
  BY <1>1
<1> HIDE DEF Done
<1>3. Spec => [][Done]_(S!vars)
  BY <1>2, ScanInvariance, PTL DEF Spec
<1> QED BY <1>3 DEF RescanCovers, S!RescanCovers, Done

-----------------------------------------------------------------------------
(* Money.  What is charged for a batch is one credit for each comment that *)
(* the scope has not paid for yet.                                         *)
LEMMA Charging ==
  ASSUME NEW paid, IsFiniteSet(paid), NEW book, IsFiniteSet(book), NEW scope,
         \A c \in paid : <<c, scope>> \notin book
  PROVE  /\ IsFiniteSet(book \cup {<<c, scope>> : c \in paid})
         /\ Cardinality(book \cup {<<c, scope>> : c \in paid}) = Cardinality(book) + Cardinality(paid)
<1> DEFINE bill == {<<c, scope>> : c \in paid}
           f == [c \in paid |-> <<c, scope>>]
<1>1. f \in Surjection(paid, bill)
  BY DEF Surjection
<1>2. f \in Injection(paid, bill)
  BY <1>1 DEF Injection, IsInjective, Surjection
<1> HIDE DEF bill, f
<1>3. IsFiniteSet(bill) /\ Cardinality(bill) = Cardinality(paid)
  BY <1>1, <1>2, FS_Surjection
<1>4. book \cap bill = {}
  BY DEF bill
<1>5. Cardinality(book) \in Nat /\ Cardinality(bill) \in Nat /\ Cardinality(book \cap bill) = 0
  BY <1>3, <1>4, FS_CardinalityType, FS_EmptySet
<1>6. IsFiniteSet(book \cup bill) /\ Cardinality(book \cup bill) = Cardinality(book) + Cardinality(bill) - Cardinality(book \cap bill)
  BY <1>3, FS_Union
<1> QED BY <1>3, <1>5, <1>6 DEF bill

LEMMA AllAffordable ==
  ASSUME NEW set, set \subseteq Nat, IsFiniteSet(set), NEW funds \in Nat, Cardinality(set) <= funds
  PROVE  {c \in set : Cardinality({d \in set : d < c}) < funds} = set
<1>1. ASSUME NEW c \in set PROVE Cardinality({d \in set : d < c}) < funds
  <2> DEFINE older == {d \in set : d < c}
             others == set \ {c}
  <2>1. \A d \in set : d < c => d # c
    OBVIOUS
  <2>2. older \in SUBSET others
    BY <2>1
  <2>3. IsFiniteSet(others) /\ Cardinality(others) = Cardinality(set) - 1
    BY FS_RemoveElement
  <2> HIDE DEF older, others
  <2>4. Cardinality(older) <= Cardinality(others) /\ IsFiniteSet(older)
    BY <2>2, <2>3, FS_Subset
  <2>5. Cardinality(older) \in Nat /\ Cardinality(others) \in Nat /\ Cardinality(set) \in Nat
    BY <2>3, <2>4, FS_CardinalityType
  <2>6. Cardinality(older) < funds
    BY <2>3, <2>4, <2>5
  <2> QED BY <2>6 DEF older
<1> QED BY <1>1

ScanMoney ==
  /\ balance \in Nat /\ spent \in Nat /\ IsFiniteSet(charged)
  /\ balance + Cardinality(charged) = 1 + spent
  /\ \A c \in S!Stored \cap NeedsAI : \E s \in S!Scans : <<c, s>> \in charged

LEMMA ScanPays ==
  ASSUME ConstantsOK, ScanInv, ScanMoney, NEW r \in Workers, S!Stage(r)
  PROVE  ScanMoney'
<1> DEFINE q == run[r]
           scope == q.read.scan
           owing == S!Owing(r)
           marked == S!Kept(r) \cup IF S!Rescan(r) THEN (q.decided \cup q.seen) \cap claimed ELSE {}
           paid == {c \in owing : S!Cardinality({d \in owing : d < c}) < balance}
<1>1. /\ q \in Pass /\ scope \in S!Scans /\ Cardinality(owing) <= balance
      /\ visit' = [c \in 1..Horizon |-> IF c \in marked THEN scope ELSE visit[c]]
      /\ charged' = charged \cup {<<c, scope>> : c \in paid}
      /\ balance' = balance - Cardinality(paid) /\ spent' = spent
  BY FiniteToo DEF S!Stage, ScanInv, ScanTyped, S!Affordable, S!counts, Pass, Checkpoint, S!Scope, S!Comments
<1>2. owing = {c \in S!Kept(r) \cap NeedsAI : <<c, scope>> \notin charged}
  BY DEF S!Owing, S!Scope
<1>3. owing \in SUBSET (1..Horizon) /\ owing \subseteq Nat
  <2>1. q.decided \subseteq 1..Horizon /\ S!Kept(r) \subseteq q.decided
    BY <1>1 DEF Pass, S!Kept
  <2> QED BY <1>2, <2>1
<1>4. IsFiniteSet(owing)
  <2>1. IsFiniteSet(1..Horizon)
    BY FS_Interval DEF ConstantsOK, S!ConstantsOK
  <2> QED BY <1>3, <2>1, FS_Subset
<1> HIDE DEF owing, marked
<1>5. paid = owing
  <2>1. {c \in owing : Cardinality({d \in owing : d < c}) < balance} = owing
    BY <1>1, <1>3, <1>4, AllAffordable DEF ScanMoney
  <2> QED BY <2>1, FiniteToo
<1> HIDE DEF paid
<1>6. /\ IsFiniteSet(charged') /\ Cardinality(charged') = Cardinality(charged) + Cardinality(owing)
  <2>1. charged' = charged \cup {<<c, scope>> : c \in owing}
    BY <1>1, <1>5
  <2>2. IsFiniteSet(charged) /\ \A c \in owing : <<c, scope>> \notin charged
    BY <1>2 DEF ScanMoney
  <2>3. /\ IsFiniteSet(charged \cup {<<c, scope>> : c \in owing})
        /\ Cardinality(charged \cup {<<c, scope>> : c \in owing}) = Cardinality(charged) + Cardinality(owing)
    BY <1>4, <2>2, Charging
  <2> QED BY <2>1, <2>3
<1>7. Cardinality(owing) \in Nat /\ Cardinality(charged) \in Nat
  BY <1>4, FS_CardinalityType DEF ScanMoney
<1>8. balance' \in Nat /\ spent' \in Nat /\ balance' + Cardinality(charged') = 1 + spent'
  BY <1>1, <1>5, <1>6, <1>7 DEF ScanMoney
<1>9. ASSUME NEW c \in S!Stored', c \in NeedsAI PROVE \E s \in S!Scans : <<c, s>> \in charged'
  <2>1. CASE c \in S!Stored
    BY <1>1, <1>9, <2>1 DEF ScanMoney
  <2>2. CASE c \notin S!Stored
    <3>1. c \in marked
      BY <1>1, <2>2 DEF S!Stored, S!Comments
    <3>2. c \in S!Kept(r)
      BY <2>2, <3>1 DEF marked, ScanInv
    <3>3. <<c, scope>> \in charged \/ c \in owing
      BY <1>2, <1>9, <3>2
    <3> QED BY <1>1, <1>5, <3>3
  <2> QED BY <2>1, <2>2
<1> QED BY <1>6, <1>8, <1>9 DEF ScanMoney

LEMMA ScanMoneyInvariance == Spec => []ScanMoney
<1> USE ConstantsOK
<1>1. Init => ScanMoney
  <2> SUFFICES ASSUME Init PROVE ScanMoney
    OBVIOUS
  <2>1. balance = 1 /\ spent = 0 /\ charged = {} /\ S!Stored = {}
    BY DEF Init, S!Init, S!Stored, S!Comments
  <2> QED BY <2>1, FS_EmptySet DEF ScanMoney
<1>2. ASSUME ScanInv, ScanMoney, [Next]_vars PROVE ScanMoney'
  <2>1. ASSUME UNCHANGED <<visit, charged, balance, spent>> PROVE ScanMoney'
    BY <1>2, <2>1 DEF ScanMoney, S!Stored
  <2>2. ASSUME S!TopUp PROVE ScanMoney'
    <3>1. /\ spent' = spent + 1 /\ balance' = balance + 1 /\ UNCHANGED <<visit, charged>> /\ S!Stored' = S!Stored
      BY <2>2 DEF S!TopUp, S!rows, S!Stored
    <3>2. Cardinality(charged) \in Nat
      BY <1>2, FS_CardinalityType DEF ScanMoney
    <3>3. \A c \in S!Stored \cap NeedsAI : \E s \in S!Scans : <<c, s>> \in charged
      BY <1>2 DEF ScanMoney
    <3>4. balance \in Nat /\ spent \in Nat /\ IsFiniteSet(charged) /\ balance + Cardinality(charged) = 1 + spent
      BY <1>2 DEF ScanMoney
    <3>5. balance' \in Nat /\ spent' \in Nat /\ balance' + Cardinality(charged) = 1 + spent'
      BY <3>1, <3>2, <3>4
    <3> QED BY <3>1, <3>3, <3>4, <3>5 DEF ScanMoney
  <2>3. ASSUME Scan, ~S!TopUp, ~\E r \in Workers : S!Stage(r) PROVE ScanMoney'
    <3>1. UNCHANGED <<visit, charged, balance, spent>>
      BY ZenonT(30), <2>3 DEF Scan, S!Next, S!Publish, S!Lapse, S!Claim, S!Unclaim, S!AnalyzeHistory, S!Start, S!Load, S!Fetch, S!Decide,
         S!StageAborts, S!Persist, S!Leave, S!Crash, S!rows, S!money, S!history, S!counts
    <3> QED BY SMTT(60), <2>1, <3>1
  <2>4. ASSUME UNCHANGED scan PROVE ScanMoney'
    BY <2>1, <2>4 DEF scan
  <2>5. ASSUME NEW r \in Workers, S!Stage(r) PROVE ScanMoney'
    BY <1>2, <2>5, ScanPays
  <2>6. Scan \/ UNCHANGED scan
    BY <1>2, ScanOrRest
  <2> HIDE DEF ScanMoney
  <2> QED BY <2>2, <2>3, <2>4, <2>5, <2>6
<1> QED BY <1>1, <1>2, ScanInvariance, PTL DEF Spec

(* No verdict of the AI is staged free, and none is paid for twice         *)
(* (stageDecisions, chargeComments).                                       *)
THEOREM SpecImpliesEveryVerdictPaid == Spec => []S!EveryVerdictPaid
<1>1. ScanMoney => S!EveryVerdictPaid
  BY FiniteToo DEF ScanMoney, S!EveryVerdictPaid
<1> QED BY <1>1, ScanMoneyInvariance, PTL

-----------------------------------------------------------------------------
(* Digests.  A scan is over when the checkpoint names another, and only    *)
(* the newest is ever under way.  What was told of a scan that is under    *)
(* way is what its rows say, and all of it from the token on.              *)
Spot == 1..Last \cup {None}
Ask == [boundary : Spot, token : Spot, scan : F!Scopes]
Digesting == [at : {"select", "fetch", "charge", "write", "advance"}, check : Ask,
              lease : Workers \cup {None}, next : Spot, batch : SUBSET (1..Last)]
DigestTyped ==
  /\ watched \in [on : BOOLEAN, check : Ask] /\ hold.by \in Workers \cup {None} /\ stored \subseteq 1..Last
  /\ windows \in F!Scopes /\ window \in [F!Scopes -> Spot]
  /\ told \in [1..Last -> [F!Scopes -> 0..2]] /\ covered \in [1..Last -> F!Scopes \cup {None}]
  /\ digester \in [Workers -> {F!Idle, [at |-> "load"]} \cup Digesting]

Later(token, now2) == IF now2 = None THEN token = None ELSE token = None \/ token >= now2
BatchOK(q, news) ==   \* news: what was told, by comment and scan
  /\ \A c \in q.batch : news[c][q.check.scan] = 0
  /\ q.next # None /\ q.check.token # None => q.next < q.check.token
  /\ \A c \in 1..Last : c >= q.check.boundary /\ (q.next = None \/ c >= q.next)
                        => c \in q.batch \/ news[c][q.check.scan] = 1
DigesterOK(q, k, top, starts, news) ==   \* k: the checkpoint, starts: where each scan begins
  q \in Digesting =>
    /\ q.check.scan = F!Plain => q.at \in {"select", "charge", "write"}
    /\ q.check.scan # F!Plain =>
         /\ q.at # "select" /\ q.check.scan <= top /\ q.check.boundary = starts[q.check.scan]
         /\ q.at = "advance" => q.batch = {}
         /\ q.check.scan = k.scan => Later(q.check.token, k.token)
         /\ q.check = k /\ q.at # "fetch" => BatchOK(q, news)
AskOK(k, top, starts, news, mark) ==
  IF k.scan = F!Plain THEN k.boundary = None /\ k.token = None
  ELSE /\ k.scan = top /\ k.boundary = starts[k.scan]
       /\ \A c \in 1..Last : news[c][k.scan] = 1 <=> mark[c] = k.scan
       /\ k.token # None => \A c \in 1..Last : c >= k.token /\ c >= k.boundary => news[c][k.scan] = 1

DigestInv ==
  /\ DigestTyped /\ AskOK(watched.check, windows, window, told, covered)
  /\ \A s \in 1..windows : /\ window[s] \in 1..Last
                           /\ s # watched.check.scan => \A c \in 1..Last : c >= window[s] => told[c][s] = 1
  /\ \A s \in 1..MaxScans, c \in 1..Last : told[c][s] <= 1 /\ (s > windows => told[c][s] = 0)
  /\ \A c \in 1..Last : covered[c] # None => covered[c] <= windows
  /\ \A r \in Workers : DigesterOK(digester[r], watched.check, windows, window, told)

LEMMA DigestBounds == ConstantsOK => Last \in Nat /\ MaxScans \in Nat /\ PageSize \in Nat /\ None \notin Nat /\ F!Plain = 0 /\ F!Scopes = 0..MaxScans
BY DEF ConstantsOK, F!ConstantsOK, R!ConstantsOK, F!Plain, F!Scopes

(* A run moves on and the checkpoint stays; stored comments may be told.   *)
LEMMA DigesterMoves ==
  ASSUME ConstantsOK, DigestInv, NEW r \in Workers,
         NEW t \in {F!Idle, [at |-> "load"]} \cup Digesting, digester' = [digester EXCEPT ![r] = t],
         UNCHANGED <<window, windows, covered>>, watched' \in [on : BOOLEAN, check : Ask], watched'.check = watched.check,
         hold'.by \in Workers \cup {None}, stored' \subseteq 1..Last,
         told' \in [1..Last -> [F!Scopes -> 0..2]], \A c \in 1..Last, s \in 1..MaxScans : told'[c][s] = told[c][s],
         DigesterOK(t, watched.check, windows, window, told)
  PROVE  DigestInv'
<1>1. DigestTyped' /\ digester'[r] = t /\ \A x \in Workers \ {r} : digester'[x] = digester[x]
  BY DEF DigestInv, DigestTyped
<1>2. /\ windows \in 0..MaxScans /\ MaxScans \in Nat /\ F!Plain = 0 /\ F!Scopes = 0..MaxScans /\ None \notin Nat
      /\ watched.check \in Ask
  BY DigestBounds DEF DigestInv, DigestTyped
<1>3. AskOK(watched'.check, windows', window', told', covered')
  <2>1. AskOK(watched.check, windows, window, told, covered)
    BY DEF DigestInv
  <2> QED BY <1>2, <2>1 DEF AskOK, Ask
<1>4. /\ \A s \in 1..windows' : /\ window'[s] \in 1..Last
                                /\ s # watched'.check.scan => \A c \in 1..Last : c >= window'[s] => told'[c][s] = 1
      /\ \A s \in 1..MaxScans, c \in 1..Last : told'[c][s] <= 1 /\ (s > windows' => told'[c][s] = 0)
      /\ \A c \in 1..Last : covered'[c] # None => covered'[c] <= windows'
  BY <1>2 DEF DigestInv
<1>5. \A q : DigesterOK(q, watched.check, windows, window, told) => DigesterOK(q, watched'.check, windows', window', told')
  BY <1>2 DEF DigesterOK, Digesting, Ask, BatchOK
<1>6. \A x \in Workers : DigesterOK(digester'[x], watched'.check, windows', window', told')
  BY <1>1, <1>5 DEF DigestInv
<1> HIDE DEF AskOK, DigesterOK, DigestTyped
<1> QED BY <1>1, <1>3, <1>4, <1>6 DEF DigestInv

LEMMA DigesterRests == \A k, top, starts, news : DigesterOK(F!Idle, k, top, starts, news) /\ DigesterOK([at |-> "load"], k, top, starts, news)
BY DEF DigesterOK, F!Idle, Digesting

LEMMA LeastOfTwo == \A n \in 0..2 : F!Min({n + 1, 2}) \in 0..2 /\ (n = 0 => F!Min({n + 1, 2}) = 1)
<1> SUFFICES ASSUME NEW n \in 0..2 PROVE F!Min({n + 1, 2}) \in 0..2 /\ (n = 0 => F!Min({n + 1, 2}) = 1)
  OBVIOUS
<1>1. \E k \in {n + 1, 2} : \A m \in {n + 1, 2} : k <= m
  BY Least
<1>2. F!Min({n + 1, 2}) \in {n + 1, 2} /\ \A m \in {n + 1, 2} : F!Min({n + 1, 2}) <= m
  BY <1>1 DEF F!Min
<1> QED BY <1>2

LEMMA OneMarked ==
  ASSUME NEW n, NEW f \in [0..n -> 0..2], NEW x \in 0..n
  PROVE  /\ [f EXCEPT ![x] = 1] \in [0..n -> 0..2]
         /\ \A s \in 0..n : [f EXCEPT ![x] = 1][s] = IF s = x THEN 1 ELSE f[s]
<1>1. DOMAIN f = 0..n /\ 1 \in 0..2
  OBVIOUS
<1>2. \A s \in 0..n : [f EXCEPT ![x] = 1][s] = IF s = x THEN 1 ELSE f[s]
  BY <1>1
<1>3. [f EXCEPT ![x] = 1] \in [0..n -> 0..2]
  BY <1>1
<1> QED BY <1>2, <1>3

LEMMA DigestPeopleStep ==
  ASSUME ConstantsOK, DigestInv, F!Toggle \/ F!TopUp \/ F!Lapse \/ \E c \in F!Comments : F!StoreComment(c)
  PROVE  DigestInv'
<1>1. /\ UNCHANGED <<digester, window, windows, covered, told>> /\ watched'.check = watched.check
      /\ watched' \in [on : BOOLEAN, check : Ask] /\ hold'.by \in Workers \cup {None} /\ stored' \subseteq 1..Last
  <2>1. CASE F!Toggle
    BY <2>1 DEF F!Toggle, F!rows, F!money, DigestInv, DigestTyped
  <2>2. CASE F!Lapse
    BY <2>2 DEF F!Lapse, F!rows, F!money, DigestInv, DigestTyped
  <2>3. CASE F!TopUp \/ \E c \in F!Comments : F!StoreComment(c)
    BY <2>3 DEF F!TopUp, F!StoreComment, F!rows, F!counts, F!Comments, DigestInv, DigestTyped
  <2> QED BY <2>1, <2>2, <2>3
<1>2. DigestTyped'
  BY <1>1 DEF DigestInv, DigestTyped
<1> HIDE DEF DigestTyped
<1> QED BY <1>1, <1>2 DEF DigestInv

(* analyzeHistory: every earlier scan is over by now, and the new one has  *)
(* told nothing.                                                           *)
LEMMA DigestScanStep ==
  ASSUME ConstantsOK, DigestInv, NEW b \in 1..Last, F!AnalyzeHistory(b)
  PROVE  DigestInv'
<1>1. /\ watched.check.boundary = None /\ windows < MaxScans /\ windows' = windows + 1
      /\ watched' = [watched EXCEPT !.check = [boundary |-> b, token |-> None, scan |-> windows + 1]]
      /\ window' = [window EXCEPT ![windows + 1] = b] /\ UNCHANGED <<hold, stored, covered, told, digester>>
  BY DEF F!AnalyzeHistory, F!rows
<1>2. /\ windows \in 0..MaxScans /\ MaxScans \in Nat /\ F!Plain = 0 /\ F!Scopes = 0..MaxScans /\ None \notin Nat
      /\ watched.check \in Ask /\ window \in [0..MaxScans -> Spot]
  BY DigestBounds DEF DigestInv, DigestTyped
<1>3. watched.check.scan = 0
  <2>1. watched.check.scan # 0 => watched.check.boundary \in 1..Last
    BY <1>2 DEF DigestInv, AskOK, Ask
  <2> QED BY <1>1, <1>2, <2>1, DigestBounds
<1>4. /\ watched' \in [on : BOOLEAN, check : Ask] /\ watched'.check.boundary = b /\ watched'.check.token = None
      /\ watched'.check.scan = windows + 1
  BY <1>1, <1>2 DEF DigestInv, DigestTyped, Ask, Spot
<1>5. /\ window'[windows + 1] = b /\ window' \in [0..MaxScans -> Spot]
      /\ \A s \in 1..windows : window'[s] = window[s]
  BY <1>1, <1>2 DEF Spot
<1>6. DigestTyped'
  BY <1>1, <1>2, <1>4, <1>5 DEF DigestInv, DigestTyped
<1>7. AskOK(watched'.check, windows', window', told', covered')
  <2>1. \A c \in 1..Last : told[c][windows + 1] = 0 /\ covered[c] # windows + 1
    <3> SUFFICES ASSUME NEW c \in 1..Last PROVE told[c][windows + 1] = 0 /\ covered[c] # windows + 1
      OBVIOUS
    <3>1. windows + 1 \in 1..MaxScans /\ windows + 1 > windows
      BY <1>1, <1>2
    <3>2. covered[c] # None => covered[c] <= windows /\ covered[c] \in Nat
      BY <1>2 DEF DigestInv, DigestTyped
    <3>3. covered[c] # windows + 1
      BY <1>2, <3>2
    <3>4. told[c][windows + 1] = 0
      BY <3>1 DEF DigestInv
    <3> QED BY <3>3, <3>4
  <2> QED BY <1>1, <1>2, <1>4, <1>5, <2>1 DEF AskOK
<1>8. \A s \in 1..windows' : /\ window'[s] \in 1..Last
                             /\ s # watched'.check.scan => \A c \in 1..Last : c >= window'[s] => told'[c][s] = 1
  <2> SUFFICES ASSUME NEW s \in 1..windows'
               PROVE  /\ window'[s] \in 1..Last
                      /\ s # windows + 1 => \A c \in 1..Last : c >= window'[s] => told[c][s] = 1
    BY <1>1, <1>4
  <2>1. s \in 1..windows \/ s = windows + 1
    BY <1>1, <1>2
  <2>2. CASE s = windows + 1
    BY <1>5, <2>2
  <2>3. CASE s \in 1..windows
    BY <1>2, <1>3, <1>5, <2>3 DEF DigestInv
  <2> QED BY <2>1, <2>2, <2>3
<1>9. /\ \A s \in 1..MaxScans, c \in 1..Last : told'[c][s] <= 1 /\ (s > windows' => told'[c][s] = 0)
      /\ \A c \in 1..Last : covered'[c] # None => covered'[c] <= windows'
  BY <1>1, <1>2 DEF DigestInv, DigestTyped
<1>10. ASSUME NEW x \in Workers PROVE DigesterOK(digester'[x], watched'.check, windows', window', told')
  <2> DEFINE q == digester[x]
  <2>1. DigesterOK(q, watched.check, windows, window, told) /\ digester'[x] = q
    BY <1>1 DEF DigestInv
  <2> SUFFICES ASSUME q \in Digesting PROVE DigesterOK(q, watched'.check, windows', window', told)
    BY <1>1, <2>1 DEF DigesterOK
  <2>2. q.check \in Ask /\ q.check.scan \in 0..MaxScans
    BY <1>2 DEF Digesting, Ask
  <2> HIDE DEF q
  <2>3. CASE q.check.scan = F!Plain
    BY <2>1, <2>3 DEF DigesterOK
  <2>4. CASE q.check.scan # F!Plain
    <3>1. /\ q.at # "select" /\ q.check.scan <= windows /\ q.check.boundary = window[q.check.scan]
          /\ q.at = "advance" => q.batch = {}
      BY <2>1, <2>4 DEF DigesterOK
    <3>2. q.check.scan \in 1..windows
      BY <1>2, <2>2, <2>4, <3>1
    <3>3. q.check.scan # watched'.check.scan /\ q.check # watched'.check /\ window'[q.check.scan] = window[q.check.scan]
      BY <1>2, <1>4, <1>5, <3>2
    <3> QED BY <1>1, <1>2, <2>4, <3>1, <3>2, <3>3 DEF DigesterOK
  <2> QED BY <2>3, <2>4
<1> HIDE DEF AskOK, DigesterOK, DigestTyped
<1> QED BY <1>6, <1>7, <1>8, <1>9, <1>10 DEF DigestInv

(* Runs that begin or that end, in whatever way. *)
LEMMA DigestEnds ==
  ASSUME ConstantsOK, DigestInv, NEW r \in Workers,
         F!Claim(r) \/ F!Shortfall(r) \/ F!Outdated(r) \/ F!Fail(r) \/ F!Crash(r)
  PROVE  DigestInv'
<1>1. /\ UNCHANGED <<watched, window, windows, stored, covered, told>> /\ hold'.by \in Workers \cup {None}
      /\ digester' = [digester EXCEPT ![r] = F!Idle] \/ digester' = [digester EXCEPT ![r] = [at |-> "load"]]
  BY DEF F!Claim, F!Shortfall, F!Outdated, F!Fail, F!Crash, F!Stop, F!End, F!rows, F!counts, DigestInv, DigestTyped
<1>2. /\ watched' \in [on : BOOLEAN, check : Ask] /\ stored' \subseteq 1..Last /\ told' \in [1..Last -> [F!Scopes -> 0..2]]
  BY <1>1 DEF DigestInv, DigestTyped
<1> QED BY <1>1, <1>2, DigesterRests, DigesterMoves

LEMMA DigestLoadStep ==
  ASSUME ConstantsOK, DigestInv, NEW r \in Workers, F!Load(r)
  PROVE  DigestInv'
<1>1. UNCHANGED <<watched, window, windows, stored, covered, told>>
  BY DEF F!Load, F!rows, F!counts
<1>2. /\ watched' \in [on : BOOLEAN, check : Ask] /\ stored' \subseteq 1..Last /\ told' \in [1..Last -> [F!Scopes -> 0..2]]
      /\ watched.check \in Ask /\ hold.by \in Workers \cup {None}
  BY <1>1 DEF DigestInv, DigestTyped
<1>3. CASE F!End(r)
  <2>1. digester' = [digester EXCEPT ![r] = F!Idle] /\ hold'.by \in Workers \cup {None}
    BY <1>2, <1>3 DEF F!End
  <2> QED BY <1>1, <1>2, <2>1, DigesterRests, DigesterMoves
<1>4. CASE ~F!End(r)
  <2> DEFINE t == [at |-> IF watched.check.boundary = None THEN "select" ELSE "fetch",
                   check |-> watched.check, lease |-> hold.by, next |-> None, batch |-> {}]
  <2>1. digester' = [digester EXCEPT ![r] = t] /\ hold'.by \in Workers \cup {None}
    BY <1>2, <1>4 DEF F!Load
  <2>2. t \in Digesting
    BY <1>2 DEF Digesting, Spot
  <2>3. DigesterOK(t, watched.check, windows, window, told)
    <3>1. /\ watched.check.scan = F!Plain => watched.check.boundary = None
          /\ watched.check.scan # F!Plain => /\ watched.check.boundary # None /\ watched.check.scan = windows
                                             /\ watched.check.boundary = window[watched.check.scan]
      <4>1. watched.check.scan # F!Plain => watched.check.scan = windows /\ watched.check.boundary = window[watched.check.scan]
        BY DEF DigestInv, AskOK
      <4>2. watched.check.scan # F!Plain => watched.check.scan \in 1..windows
        BY <1>2, <4>1, DigestBounds DEF Ask
      <4>3. watched.check.scan # F!Plain => watched.check.boundary \in 1..Last
        BY <4>1, <4>2 DEF DigestInv
      <4> QED BY <4>1, <4>3, DigestBounds DEF DigestInv, AskOK
    <3>2. windows \in Nat /\ watched.check.scan \in Nat
      BY <1>2, DigestBounds DEF Ask, DigestInv, DigestTyped
    <3>3. watched.check.token \in Spot /\ \A n \in 1..Last : n >= n
      BY <1>2 DEF Ask
    <3> QED BY <3>1, <3>2, <3>3 DEF DigesterOK, Later, Spot
  <2> HIDE DEF t
  <2> QED BY <1>1, <1>2, <2>1, <2>2, <2>3, DigesterMoves
<1> QED BY <1>3, <1>4

LEMMA DigestSelectStored ==
  ASSUME ConstantsOK, DigestInv, NEW r \in Workers, F!SelectStored(r)
  PROVE  DigestInv'
<1>1. UNCHANGED <<watched, window, windows, stored, covered, told>> /\ digester[r].at = "select"
  BY DEF F!SelectStored, F!At, F!rows, F!counts
<1>2. /\ watched' \in [on : BOOLEAN, check : Ask] /\ stored' \subseteq 1..Last /\ told' \in [1..Last -> [F!Scopes -> 0..2]]
      /\ hold.by \in Workers \cup {None}
      /\ digester[r] \in Digesting /\ DigesterOK(digester[r], watched.check, windows, window, told)
  BY <1>1 DEF DigestInv, DigestTyped, F!Idle
<1>3. CASE F!End(r)
  <2>1. digester' = [digester EXCEPT ![r] = F!Idle] /\ hold'.by \in Workers \cup {None}
    BY <1>2, <1>3 DEF F!End
  <2> QED BY <1>1, <1>2, <2>1, DigesterRests, DigesterMoves
<1>4. CASE ~F!End(r)
  <2> DEFINE pending == {c \in F!PendingStored : F!Cardinality({d \in F!PendingStored : d < c}) < PageSize}
             t == [digester[r] EXCEPT !.batch = pending, !.at = "charge"]
  <2>1. digester' = [digester EXCEPT ![r] = t] /\ hold' = hold
    BY <1>4 DEF F!SelectStored
  <2>2. pending \in SUBSET (1..Last)
    BY Zenon DEF F!PendingStored, DigestInv, DigestTyped
  <2> HIDE DEF pending
  <2>3. t \in Digesting /\ t.check = digester[r].check /\ t.at = "charge"
    BY <1>2, <2>2 DEF Digesting
  <2>4. DigesterOK(t, watched.check, windows, window, told)
    BY <1>1, <1>2, <2>3 DEF DigesterOK
  <2> HIDE DEF t
  <2> QED BY <1>1, <1>2, <2>1, <2>3, <2>4, DigesterMoves
<1> QED BY <1>3, <1>4

LEMMA DigestChargeStep ==
  ASSUME ConstantsOK, DigestInv, NEW r \in Workers, F!Charge(r)
  PROVE  DigestInv'
<1> DEFINE t == [digester[r] EXCEPT !.at = "write"]
<1>1. UNCHANGED <<watched, hold, window, windows, stored, covered, told>> /\ digester[r].at = "charge" /\ digester' = [digester EXCEPT ![r] = t]
  BY DEF F!Charge, F!At, F!Go, F!rows, F!counts
<1>2. /\ watched' \in [on : BOOLEAN, check : Ask] /\ stored' \subseteq 1..Last /\ told' \in [1..Last -> [F!Scopes -> 0..2]]
      /\ hold'.by \in Workers \cup {None}
      /\ digester[r] \in Digesting /\ DigesterOK(digester[r], watched.check, windows, window, told)
  BY <1>1 DEF DigestInv, DigestTyped, F!Idle
<1>3. t \in Digesting /\ t.check = digester[r].check /\ t.at = "write" /\ t.batch = digester[r].batch /\ t.next = digester[r].next
  BY <1>2 DEF Digesting
<1> HIDE DEF t
<1>4. DigesterOK(t, watched.check, windows, window, told)
  BY <1>1, <1>2, <1>3 DEF DigesterOK, BatchOK
<1> QED BY <1>1, <1>2, <1>3, <1>4, DigesterMoves

(* A digest of stored comments is outside any scan. *)
LEMMA DigestStoredStep ==
  ASSUME ConstantsOK, DigestInv, NEW r \in Workers, F!WriteStored(r)
  PROVE  DigestInv'
<1>1. /\ UNCHANGED <<watched, window, windows, stored, covered>> /\ digester[r].at = "write" /\ F!Scope(r) = F!Plain
      /\ digester' = [digester EXCEPT ![r] = F!Idle] /\ hold'.by \in Workers \cup {None} /\ F!Named(r)
  BY DEF F!WriteStored, F!At, F!End, F!counts, DigestInv, DigestTyped
<1>2. /\ watched' \in [on : BOOLEAN, check : Ask] /\ stored' \subseteq 1..Last
  BY <1>1 DEF DigestInv, DigestTyped
<1>3. told' \in [1..Last -> [F!Scopes -> 0..2]] /\ \A c \in 1..Last, s \in 1..MaxScans : told'[c][s] = told[c][s]
  <2>1. told' = [c \in 1..Last |-> IF c \in digester[r].batch THEN [told[c] EXCEPT ![F!Plain] = F!Min({@ + 1, 2})] ELSE told[c]]
    BY <1>1 DEF F!Named, F!Comments
  <2>2. \A n \in 0..2 : F!Min({n + 1, 2}) \in 0..2
    BY LeastOfTwo
  <2>3. told \in [1..Last -> [0..MaxScans -> 0..2]] /\ F!Plain = 0 /\ 0 \in 0..MaxScans /\ F!Scopes = 0..MaxScans
    BY DigestBounds DEF DigestInv, DigestTyped
  <2>4. ASSUME NEW c \in 1..Last
        PROVE  told'[c] \in [0..MaxScans -> 0..2] /\ \A s \in 1..MaxScans : told'[c][s] = told[c][s]
    <3>1. told[c] \in [0..MaxScans -> 0..2] /\ F!Min({told[c][0] + 1, 2}) \in 0..2
      BY <2>2, <2>3
    <3>2. told'[c] = (IF c \in digester[r].batch THEN [told[c] EXCEPT ![0] = F!Min({told[c][0] + 1, 2})] ELSE told[c])
      BY <2>1, <2>3
    <3>3. [told[c] EXCEPT ![0] = F!Min({told[c][0] + 1, 2})] \in [0..MaxScans -> 0..2]
      BY <3>1
    <3>4. \A s \in 1..MaxScans : [told[c] EXCEPT ![0] = F!Min({told[c][0] + 1, 2})][s] = told[c][s]
      BY <3>1
    <3> QED BY <3>1, <3>2, <3>3, <3>4
  <2>5. told' = [c \in 1..Last |-> told'[c]]
    BY <2>1
  <2> QED BY <2>3, <2>4, <2>5
<1> QED BY <1>1, <1>2, <1>3, DigesterRests, DigesterMoves

LEMMA DigestCounts == \A set : F!Cardinality(set) = Cardinality(set)
<1>1. ASSUME NEW set PROVE F!Cardinality(set) = Cardinality(set)
  BY Zenon DEF F!Cardinality, Cardinality
<1> QED BY <1>1

LEMMA DigestPages ==
  \A token : /\ F!PageAfter(token) = PageIn(F!Under(token)) /\ F!Under(token) \subseteq 1..Last
             /\ \A c : c \in F!Under(token) <=> c \in 1..Last /\ (token = None \/ c < token)
BY Zenon, DigestCounts DEF F!PageAfter, PageIn, F!Under, F!Comments

(* A page of a scan: what it still has to tell, and where it leaves off.   *)
LEMMA DigestSelectHistory ==
  ASSUME ConstantsOK, DigestInv, NEW r \in Workers, F!SelectHistory(r)
  PROVE  DigestInv'
<1> DEFINE q == digester[r]
           k == q.check
           under == F!Under(k.token)
           shown == F!PageAfter(k.token)
           inside == F!InWindow(k)
           more == F!More(k)
<1>1. PICK page \in F!Served(k) :
        digester' = [digester EXCEPT ![r] = [q EXCEPT !.batch = page \ F!Covered(k, page),
                        !.next = IF more THEN F!Min(inside) ELSE None,
                        !.at = IF page \ F!Covered(k, page) = {} THEN "advance" ELSE "charge"]]
  BY Zenon DEF F!SelectHistory
<1> DEFINE fresh == page \ F!Covered(k, page)
           next == IF more THEN F!Min(inside) ELSE None
           at == IF fresh = {} THEN "advance" ELSE "charge"
           t == [q EXCEPT !.batch = fresh, !.next = next, !.at = at]
<1>2. /\ UNCHANGED <<watched, hold, window, windows, stored, covered, told>> /\ q.at = "fetch"
      /\ q \in Digesting /\ k \in Ask /\ DigesterOK(q, watched.check, windows, window, told)
  <2>1. UNCHANGED <<watched, hold, window, windows, stored, covered, told>> /\ q.at = "fetch"
    BY DEF F!SelectHistory, F!At, F!rows, F!counts
  <2> QED BY <2>1 DEF DigestInv, DigestTyped, F!Idle, Digesting
<1>3. /\ watched' \in [on : BOOLEAN, check : Ask] /\ stored' \subseteq 1..Last /\ told' \in [1..Last -> [F!Scopes -> 0..2]]
      /\ hold'.by \in Workers \cup {None} /\ watched.check \in Ask
  BY <1>2 DEF DigestInv, DigestTyped
<1>4. /\ k.scan # F!Plain /\ k.scan \in 1..windows /\ k.boundary = window[k.scan] /\ k.boundary \in 1..Last
      /\ k.token \in 1..Last \cup {None} /\ Last \in Nat /\ None \notin Nat
      /\ k.scan = watched.check.scan => Later(k.token, watched.check.token)
  <2>1. /\ k.scan # F!Plain /\ k.scan <= windows /\ k.boundary = window[k.scan]
        /\ k.scan = watched.check.scan => Later(k.token, watched.check.token)
    BY <1>2 DEF DigesterOK
  <2>2. k.scan \in 1..windows
    BY <1>2, <2>1, DigestBounds DEF Ask, DigestInv, DigestTyped
  <2> QED BY <1>2, <2>1, <2>2, DigestBounds DEF DigestInv, Ask, Spot
<1>5. /\ shown = PageIn(under) /\ shown \subseteq under /\ under \subseteq 1..Last
      /\ \A c : c \in under <=> c \in 1..Last /\ (k.token = None \/ c < k.token)
      /\ \A c : c \in inside <=> c \in shown /\ c >= k.boundary
      /\ more <=> inside = shown /\ shown # under
  <2>1. shown = PageIn(under) /\ under \subseteq 1..Last /\ \A c : c \in under <=> c \in 1..Last /\ (k.token = None \/ c < k.token)
    BY DigestPages
  <2>2. shown \subseteq under
    BY <2>1 DEF PageIn
  <2>3. more <=> inside = shown /\ shown # under
    BY DEF F!More
  <2>4. \A c : c \in inside <=> c \in shown /\ c >= k.boundary
    BY DEF F!InWindow
  <2> HIDE DEF under, shown, inside, more
  <2> QED BY <2>1, <2>2, <2>3, <2>4
<1>6. page = inside \/ (k.token # None /\ page = inside \cup {k.token})
  BY <1>4 DEF F!Served
<1>7. \A c : c \in fresh <=> c \in page /\ covered[c] # k.scan
  BY DEF F!Covered
<1> HIDE DEF under, shown, inside, more, fresh
<1>8. inside \subseteq 1..Last /\ page \subseteq 1..Last /\ fresh \subseteq 1..Last
  BY <1>4, <1>5, <1>6, <1>7
<1>9. more => next \in inside /\ \A c \in inside : next <= c
  <2>1. ASSUME more PROVE next \in inside /\ \A c \in inside : next <= c
    <3>1. under # {}
      BY <1>5, <2>1
    <3>2. inside # {} /\ inside \subseteq Nat
      BY <1>4, <1>5, <1>8, <2>1, <3>1, PageNonEmpty
    <3>3. \E c \in inside : \A d \in inside : c <= d
      BY <3>2, Least
    <3> QED BY <2>1, <3>3 DEF F!Min
  <2> QED BY <2>1
<1>10. next \in Spot /\ (next = None <=> ~more)
  <2>1. CASE more
    <3>1. next \in inside /\ inside \subseteq 1..Last /\ None \notin Nat
      BY <1>4, <1>8, <1>9, <2>1
    <3> HIDE DEF next
    <3> QED BY <2>1, <3>1 DEF Spot
  <2>2. CASE ~more
    BY <2>2 DEF Spot
  <2> QED BY <2>1, <2>2
<1> HIDE DEF next
<1>11. /\ t \in Digesting /\ t.check = k /\ t.batch = fresh /\ t.next = next /\ t.at = at
       /\ at \in {"advance", "charge"} /\ (at = "advance" => fresh = {})
  <2>1. at \in {"select", "fetch", "charge", "write", "advance"} /\ fresh \in SUBSET (1..Last)
    BY <1>8
  <2>2. t \in Digesting
    BY Zenon, <1>2, <1>10, <2>1 DEF Digesting
  <2> QED BY Zenon, <1>2, <2>2 DEF Digesting
<1>12. digester' = [digester EXCEPT ![r] = t]
  BY <1>1 DEF fresh, next
<1> HIDE DEF t, at
<1>13. ASSUME k = watched.check PROVE BatchOK(t, told)
  <2>1. /\ \A c \in 1..Last : told[c][k.scan] = 1 <=> covered[c] = k.scan
        /\ k.token # None => \A c \in 1..Last : c >= k.token /\ c >= k.boundary => told[c][k.scan] = 1
    BY <1>4, <1>13 DEF DigestInv, AskOK
  <2>2. \A c \in 1..Last : told[c][k.scan] \in {0, 1}
    <3>1. k.scan \in 1..MaxScans
      BY <1>2, <1>4, DigestBounds DEF Ask
    <3>2. \A c \in 1..Last : told[c][k.scan] <= 1 /\ told[c][k.scan] \in 0..2
      BY <3>1, DigestBounds DEF DigestInv, DigestTyped
    <3> QED BY <3>2
  <2>3. \A c \in fresh : told[c][k.scan] = 0
    BY <1>7, <1>8, <2>1, <2>2
  <2>4. next # None /\ k.token # None => next < k.token
    BY <1>4, <1>5, <1>9, <1>10
  <2>5. ASSUME NEW c \in 1..Last, c >= k.boundary, next = None \/ c >= next PROVE c \in fresh \/ told[c][k.scan] = 1
    <3>1. CASE c \notin under
      <4>1. k.token # None /\ c >= k.token
        BY <1>4, <1>5, <3>1
      <4> QED BY <2>1, <2>5, <4>1
    <3>2. CASE c \in under
      <4>1. ASSUME NEW d \in shown, c >= d PROVE c \in shown
        BY <1>4, <1>5, <3>2, <4>1, PageUpward
      <4>2. c \in shown
        <5>1. CASE more
          BY <1>5, <1>9, <1>10, <2>5, <4>1, <5>1
        <5>2. CASE shown = under
          BY <3>2, <5>2
        <5>3. CASE inside # shown
          <6>1. PICK d \in shown : ~(d >= k.boundary)
            BY <1>5, <5>3
          <6>2. c >= d
            BY <1>4, <1>5, <2>5, <6>1
          <6> QED BY <4>1, <6>1, <6>2
        <5> QED BY <1>5, <5>1, <5>2, <5>3
      <4>3. c \in page
        BY <1>5, <1>6, <2>5, <4>2
      <4> QED BY <1>7, <2>1, <4>3
    <3> QED BY <3>1, <3>2
  <2> QED BY <1>11, <2>3, <2>4, <2>5 DEF BatchOK
<1>14. DigesterOK(t, watched.check, windows, window, told)
  <2>1. k.scan <= windows
    BY <1>2, <1>4 DEF DigesterOK
  <2> QED BY <1>4, <1>11, <1>13, <2>1 DEF DigesterOK
<1> QED BY Zenon, <1>2, <1>3, <1>11, <1>12, <1>14, DigesterMoves

(* The checkpoint leaves the page behind, and what it had is told.  A run  *)
(* that read it earlier can no longer own it.                              *)
LEMMA DigestAdvances ==
  ASSUME ConstantsOK, DigestInv, NEW r \in Workers, digester[r] \in Digesting,
         digester[r].at \in {"write", "advance"}, digester[r].check = watched.check, watched.check.scan # F!Plain,
         digester' = [digester EXCEPT ![r] = F!Idle], UNCHANGED <<window, windows, stored>>, hold'.by \in Workers \cup {None},
         watched' = [watched EXCEPT !.check = F!Moved(r)],
         covered' = [c \in 1..Last |-> IF c \in digester[r].batch THEN watched.check.scan ELSE covered[c]],
         told' \in [1..Last -> [F!Scopes -> 0..2]],
         \A c \in 1..Last, s \in F!Scopes :
           told'[c][s] = IF c \in digester[r].batch /\ s = watched.check.scan THEN 1 ELSE told[c][s]
  PROVE  DigestInv'
<1> DEFINE q == digester[r]
           k == watched.check
           scan0 == k.scan
           k2 == watched'.check
<1>1. /\ windows \in 0..MaxScans /\ MaxScans \in Nat /\ F!Plain = 0 /\ F!Scopes = 0..MaxScans /\ None \notin Nat
      /\ k \in Ask /\ window \in [0..MaxScans -> Spot] /\ Last \in Nat
  BY DigestBounds DEF DigestInv, DigestTyped
<1>2. /\ scan0 = windows /\ scan0 \in 1..MaxScans /\ scan0 \in 1..windows /\ k.boundary = window[scan0] /\ k.boundary \in 1..Last
      /\ \A c \in 1..Last : told[c][scan0] = 1 <=> covered[c] = scan0
      /\ k.token # None => \A c \in 1..Last : c >= k.token /\ c >= k.boundary => told[c][scan0] = 1
  <2>1. /\ scan0 = windows /\ k.boundary = window[scan0]
        /\ \A c \in 1..Last : told[c][scan0] = 1 <=> covered[c] = scan0
        /\ k.token # None => \A c \in 1..Last : c >= k.token /\ c >= k.boundary => told[c][scan0] = 1
    BY DEF DigestInv, AskOK
  <2>2. scan0 \in 1..MaxScans /\ scan0 \in 1..windows
    BY <1>1, <2>1 DEF Ask
  <2>3. window[scan0] \in 1..Last
    BY <2>2 DEF DigestInv
  <2> QED BY <2>1, <2>2, <2>3
<1>3. q.batch \subseteq 1..Last /\ q.next \in Spot /\ k.token \in Spot
  BY <1>1 DEF Digesting, Ask
<1>4. BatchOK(q, told)
  BY DEF DigestInv, DigesterOK
<1>5. /\ q.next # None /\ k.token # None => q.next < k.token
      /\ \A c \in 1..Last : c >= k.boundary /\ (q.next = None \/ c >= q.next) => told'[c][scan0] = 1
  BY <1>1, <1>2, <1>4 DEF BatchOK
<1>6. /\ \A c \in 1..Last : \A s \in 0..MaxScans : told[c][s] = 1 => told'[c][s] = 1
      /\ \A c \in 1..Last : \A s \in 0..MaxScans : s # scan0 => told'[c][s] = told[c][s]
      /\ \A c \in 1..Last : told'[c][scan0] = 1 <=> covered'[c] = scan0
  BY ZenonT(60), <1>1, <1>2
<1>7. k2 = F!Moved(r) /\ watched'.on \in BOOLEAN
  BY DEF DigestInv, DigestTyped
<1>8. q.next = None => k2 = F!Unasked
  BY <1>7 DEF F!Moved
<1>9. q.next # None => /\ k2 \in Ask /\ k2.token = q.next /\ k2.boundary = k.boundary /\ k2.scan = scan0
  <2>1. q.next # None => k2 = [k EXCEPT !.token = q.next]
    BY <1>7 DEF F!Moved
  <2>2. /\ [k EXCEPT !.token = q.next] \in Ask /\ [k EXCEPT !.token = q.next].token = q.next
        /\ [k EXCEPT !.token = q.next].boundary = k.boundary /\ [k EXCEPT !.token = q.next].scan = scan0
    BY <1>1, <1>3 DEF Ask
  <2> HIDE DEF k, k2, scan0
  <2> QED BY <2>1, <2>2
<1>10. F!Unasked \in Ask /\ F!Unasked.scan = 0 /\ F!Unasked.boundary = None /\ F!Unasked.token = None
  BY <1>1 DEF F!Unasked, Ask, Spot
<1>11. k2 \in Ask
  BY <1>8, <1>9, <1>10
<1>12. DigestTyped'
  <2>1. watched' \in [on : BOOLEAN, check : Ask]
    BY <1>7, <1>11 DEF DigestInv, DigestTyped
  <2>2. covered' \in [1..Last -> F!Scopes \cup {None}]
    BY <1>1 DEF Ask, DigestInv, DigestTyped
  <2> QED BY <2>1, <2>2 DEF DigestInv, DigestTyped
<1>13. AskOK(k2, windows, window, told', covered')
  <2>1. CASE q.next = None
    BY <1>1, <1>8, <1>10, <2>1 DEF AskOK
  <2>2. CASE q.next # None
    BY <1>1, <1>2, <1>5, <1>6, <1>9, <2>2 DEF AskOK
  <2> QED BY <2>1, <2>2
<1>14. \A s \in 1..windows : /\ window[s] \in 1..Last
                             /\ s # k2.scan => \A c \in 1..Last : c >= window[s] => told'[c][s] = 1
  <2> SUFFICES ASSUME NEW s \in 1..windows, s # k2.scan, NEW c \in 1..Last, c >= window[s] PROVE told'[c][s] = 1
    BY DEF DigestInv
  <2>1. CASE s # scan0
    <3>1. told[c][s] = 1 /\ s \in 0..MaxScans
      BY <1>1, <2>1 DEF DigestInv
    <3> QED BY <1>6, <3>1
  <2>2. CASE s = scan0
    BY <1>2, <1>5, <1>9, <2>2
  <2> QED BY <2>1, <2>2
<1>15. /\ \A s \in 1..MaxScans, c \in 1..Last : told'[c][s] <= 1 /\ (s > windows => told'[c][s] = 0)
       /\ \A c \in 1..Last : covered'[c] # None => covered'[c] <= windows
  <2>1. ASSUME NEW s \in 1..MaxScans, NEW c \in 1..Last PROVE told'[c][s] <= 1 /\ (s > windows => told'[c][s] = 0)
    <3>1. told[c][s] <= 1 /\ (s > windows => told[c][s] = 0)
      BY DEF DigestInv
    <3>2. told'[c][s] = told[c][s] \/ (told'[c][s] = 1 /\ s = windows)
      <4>1. s \in F!Scopes
        BY <1>1
      <4>2. told'[c][s] = IF c \in digester[r].batch /\ s = watched.check.scan THEN 1 ELSE told[c][s]
        BY <4>1
      <4> QED BY <1>2, <4>2
    <3> QED BY <1>1, <3>1, <3>2
  <2>2. ASSUME NEW c \in 1..Last, covered'[c] # None PROVE covered'[c] <= windows
    <3>1. covered'[c] = covered[c] \/ covered'[c] = windows
      BY <1>2
    <3> QED BY <1>1, <2>2, <3>1 DEF DigestInv
  <2> QED BY <2>1, <2>2
<1>16. ASSUME NEW x \in Workers PROVE DigesterOK(digester'[x], k2, windows, window, told')
  <2>1. CASE x = r
    <3>1. digester'[x] = F!Idle
      BY <2>1 DEF DigestInv, DigestTyped
    <3> QED BY <3>1, DigesterRests
  <2>2. CASE x # r
    <3> DEFINE p == digester[x]
    <3>1. digester'[x] = p /\ DigesterOK(p, k, windows, window, told)
      BY <2>2 DEF DigestInv, DigestTyped
    <3> SUFFICES ASSUME p \in Digesting PROVE DigesterOK(p, k2, windows, window, told')
      BY <3>1 DEF DigesterOK
    <3>2. p.check \in Ask
      BY DEF Digesting
    <3> HIDE DEF p, k, k2
    <3>3. p.check.scan # F!Plain /\ p.check.scan = k2.scan => Later(p.check.token, k2.token) /\ p.check.token # k2.token
      <4> SUFFICES ASSUME p.check.scan # F!Plain, p.check.scan = k2.scan
                   PROVE  Later(p.check.token, k2.token) /\ p.check.token # k2.token
        OBVIOUS
      <4>1. q.next # None /\ k2.scan = k.scan /\ k2.token = q.next
        BY <1>1, <1>8, <1>9, <1>10 DEF k
      <4>2. Later(p.check.token, k.token)
        BY <3>1, <4>1 DEF DigesterOK
      <4>3. q.next \in 1..Last /\ (k.token # None => q.next < k.token)
        BY <1>3, <1>5, <4>1 DEF Spot, k
      <4>4. p.check.token \in 1..Last \cup {None} /\ k.token \in 1..Last \cup {None}
        BY <1>3, <3>2 DEF Ask, Spot, k
      <4> QED BY <1>1, <4>1, <4>2, <4>3, <4>4 DEF Later
    <3> QED BY <3>1, <3>3 DEF DigesterOK
  <2> QED BY <2>1, <2>2
<1> HIDE DEF AskOK, DigesterOK, DigestTyped
<1> QED BY <1>12, <1>13, <1>14, <1>15, <1>16 DEF DigestInv

LEMMA DigestHistoryStep ==
  ASSUME ConstantsOK, DigestInv, NEW r \in Workers, F!Advance(r) \/ F!WriteHistory(r)
  PROVE  DigestInv'
<1>1. /\ digester' = [digester EXCEPT ![r] = F!Idle] /\ UNCHANGED <<window, windows, stored>> /\ hold'.by \in Workers \cup {None}
      /\ watched' = [watched EXCEPT !.check = F!Moved(r)] /\ digester[r].check = watched.check
      /\ digester[r].at \in {"write", "advance"} /\ (F!WriteHistory(r) => digester[r].check.scan # F!Plain)
  BY DEF F!Advance, F!WriteHistory, F!At, F!End, F!Moves, F!Current, F!Scope, F!rows, F!counts, DigestInv, DigestTyped
<1>2. digester[r] \in Digesting /\ DigesterOK(digester[r], watched.check, windows, window, told)
  BY <1>1 DEF DigestInv, DigestTyped, F!Idle
<1>3. /\ told \in [1..Last -> [F!Scopes -> 0..2]] /\ covered \in [1..Last -> F!Scopes \cup {None}] /\ F!Plain = 0
      /\ F!Scopes = 0..MaxScans /\ digester[r].batch \subseteq 1..Last /\ watched.check.scan \in F!Scopes
  BY <1>2, DigestBounds DEF DigestInv, DigestTyped, Digesting, Ask
<1>4. CASE F!Advance(r)
  <2>1. digester[r].at = "advance" /\ UNCHANGED <<covered, told>>
    BY <1>4 DEF F!Advance, F!At, F!rows
  <2>2. digester[r].batch = {} /\ watched.check.scan # F!Plain
    BY <1>1, <1>2, <2>1 DEF DigesterOK
  <2>3. covered' = [c \in 1..Last |-> IF c \in digester[r].batch THEN watched.check.scan ELSE covered[c]]
    BY <1>3, <2>1, <2>2
  <2> QED BY <1>1, <1>2, <1>3, <2>1, <2>2, <2>3, DigestAdvances
<1>5. CASE F!WriteHistory(r)
  <2>1. /\ covered' = [c \in 1..Last |-> IF c \in digester[r].batch THEN watched.check.scan ELSE covered[c]]
        /\ told' = [c \in 1..Last |-> IF c \in digester[r].batch
                      THEN [told[c] EXCEPT ![watched.check.scan] = F!Min({@ + 1, 2})] ELSE told[c]]
        /\ digester[r].at = "write" /\ watched.check.scan # F!Plain
    BY <1>1, <1>5 DEF F!WriteHistory, F!Named, F!Scope, F!Comments, F!At
  <2>2. \A c \in digester[r].batch : told[c][watched.check.scan] = 0
    BY <1>1, <1>2, <2>1 DEF DigesterOK, BatchOK
  <2>3. ASSUME NEW c \in 1..Last
        PROVE  /\ told'[c] \in [0..MaxScans -> 0..2]
               /\ \A s \in 0..MaxScans :
                    told'[c][s] = IF c \in digester[r].batch /\ s = watched.check.scan THEN 1 ELSE told[c][s]
    <3>1. told[c] \in [0..MaxScans -> 0..2] /\ watched.check.scan \in 0..MaxScans
      BY <1>3
    <3>2. CASE c \notin digester[r].batch
      <4>1. told'[c] = told[c]
        BY <2>1, <3>2
      <4> QED BY <3>1, <3>2, <4>1
    <3>3. CASE c \in digester[r].batch
      <4>1. F!Min({told[c][watched.check.scan] + 1, 2}) = 1
        BY <2>2, <3>3, LeastOfTwo
      <4>2. told'[c] = [told[c] EXCEPT ![watched.check.scan] = 1]
        BY <2>1, <3>3, <4>1
      <4>3. /\ [told[c] EXCEPT ![watched.check.scan] = 1] \in [0..MaxScans -> 0..2]
            /\ \A s \in 0..MaxScans : [told[c] EXCEPT ![watched.check.scan] = 1][s] = IF s = watched.check.scan THEN 1 ELSE told[c][s]
        BY <3>1, OneMarked
      <4> QED BY <3>3, <4>2, <4>3
    <3> QED BY <3>2, <3>3
  <2>4. told' = [c \in 1..Last |-> told'[c]]
    BY <2>1
  <2>5. told' \in [1..Last -> [F!Scopes -> 0..2]]
    BY <1>3, <2>3, <2>4
  <2> QED BY <1>1, <1>2, <1>3, <2>1, <2>3, <2>5, DigestAdvances
<1> QED BY <1>4, <1>5

LEMMA DigestInvariance == Spec => []DigestInv
<1> USE ConstantsOK
<1>1. Init => DigestInv
  <2> SUFFICES ASSUME Init PROVE DigestInv
    OBVIOUS
  <2>1. F!Init
    BY DEF Init
  <2>2. watched.check = F!Unasked /\ F!Unasked \in Ask /\ F!Unasked.scan = 0 /\ F!Unasked.boundary = None /\ F!Unasked.token = None
    BY <2>1, DigestBounds DEF F!Init, F!Unasked, Ask, Spot
  <2>3. \A r \in Workers : digester[r] = F!Idle
    BY <2>1 DEF F!Init
  <2>4. DigestTyped
    BY <2>1, <2>2, DigestBounds DEF F!Init, DigestTyped, F!Comments, Spot
  <2>5. AskOK(watched.check, windows, window, told, covered)
    BY <2>2, DigestBounds DEF AskOK
  <2>6. /\ windows = 0 /\ \A c \in 1..Last : covered[c] = None /\ \A s \in F!Scopes : told[c][s] = 0
    BY <2>1 DEF F!Init, F!Comments
  <2> HIDE DEF AskOK, DigestTyped
  <2> QED BY <2>3, <2>4, <2>5, <2>6, DigesterRests, DigestBounds DEF DigestInv
<1>2. ASSUME DigestInv, [Next]_vars PROVE DigestInv'
  <2>1. ASSUME UNCHANGED digest PROVE DigestInv'
    BY <1>2, <2>1 DEF DigestInv, DigestTyped, digest
  <2>2. CASE Digest
    <3>1. F!Next /\ F!Comments = 1..Last
      BY <2>2 DEF Digest, F!Comments
    <3> QED BY <1>2, <3>1, DigestPeopleStep, DigestScanStep, DigestEnds, DigestLoadStep, DigestSelectStored, DigestSelectHistory,
               DigestChargeStep, DigestStoredStep, DigestHistoryStep DEF F!Next
  <2> QED BY <1>2, <2>1, <2>2, DigestOrRest
<1> QED BY <1>1, <1>2, PTL DEF Spec

(* However runs overlap, lose their lease, crash or find the channel off:  *)
(* a scan of the feedback tells every comment of its window, and each in   *)
(* one digest (advanceFeedbackHistory, writeDigestRun).                    *)
THEOREM SpecImpliesScanDigestsEach == Spec => []F!ScanDigestsEach
<1>1. ConstantsOK /\ DigestInv => F!ScanDigestsEach
  <2> SUFFICES ASSUME ConstantsOK, DigestInv, NEW s \in 1..windows, NEW c \in 1..Last
               PROVE  told[c][s] <= 1 /\ (F!Over(s) /\ c >= window[s] => told[c][s] = 1)
    BY DEF F!ScanDigestsEach, F!Comments
  <2>1. s \in 1..MaxScans
    BY DigestBounds DEF DigestInv, DigestTyped
  <2> QED BY <2>1 DEF DigestInv, F!Over
<1> QED BY <1>1, ConstantsOK, DigestInvariance, PTL

DigestMoney ==   \* what a run writes, and what was told, is charged
  /\ purse \in Nat /\ refills \in Nat /\ IsFiniteSet(scoped)
  /\ purse + Cardinality(scoped) = Funds + refills
  /\ \A c \in 1..Last, s \in F!Scopes : told[c][s] > 0 => <<c, s>> \in scoped
  /\ \A r \in Workers : digester[r] \in Digesting /\ digester[r].at = "write"
                        => \A c \in digester[r].batch : <<c, digester[r].check.scan>> \in scoped

LEMMA DigestPays ==
  ASSUME ConstantsOK, DigestInv, DigestMoney, NEW r \in Workers, F!Charge(r)
  PROVE  DigestMoney'
<1> DEFINE q == digester[r]
           scope == q.check.scan
           owing == F!Owing(r)
           paid == {c \in owing : F!Cardinality({d \in owing : d < c}) < purse}
           t == [q EXCEPT !.at = "write"]
<1>1. /\ q.at = "charge" /\ q \in Digesting /\ scope \in F!Scopes /\ Cardinality(owing) <= purse
      /\ scoped' = scoped \cup {<<c, scope>> : c \in paid} /\ UNCHANGED <<refills, told>>
      /\ purse' = purse - Cardinality(paid) /\ digester' = [digester EXCEPT ![r] = t]
  <2>1. q.at = "charge"
    BY DEF F!Charge, F!At
  <2>2. q \in Digesting
    BY <2>1 DEF DigestInv, DigestTyped, F!Idle
  <2> QED BY <2>1, <2>2, DigestCounts DEF F!Charge, F!Affordable, F!Go, F!rows, F!counts, F!Scope, Digesting, Ask
<1>2. \A c : c \in owing <=> c \in q.batch /\ <<c, scope>> \notin scoped
  BY DEF F!Owing, F!Scope
<1>3. owing \in SUBSET (1..Last) /\ owing \subseteq Nat /\ IsFiniteSet(owing)
  <2>1. q.batch \subseteq 1..Last /\ Last \in Nat
    BY <1>1, DigestBounds DEF Digesting
  <2>2. owing \in SUBSET (1..Last)
    BY <1>2, <2>1
  <2>3. IsFiniteSet(1..Last)
    BY <2>1, FS_Interval
  <2> QED BY <2>1, <2>2, <2>3, FS_Subset
<1> HIDE DEF owing
<1>4. paid = owing
  <2>1. {c \in owing : Cardinality({d \in owing : d < c}) < purse} = owing
    BY <1>1, <1>3, AllAffordable DEF DigestMoney
  <2> QED BY <2>1, DigestCounts
<1> HIDE DEF paid
<1>5. /\ IsFiniteSet(scoped') /\ Cardinality(scoped') = Cardinality(scoped) + Cardinality(owing)
  <2>1. scoped' = scoped \cup {<<c, scope>> : c \in owing}
    BY <1>1, <1>4
  <2>2. IsFiniteSet(scoped) /\ \A c \in owing : <<c, scope>> \notin scoped
    BY <1>2 DEF DigestMoney
  <2>3. /\ IsFiniteSet(scoped \cup {<<c, scope>> : c \in owing})
        /\ Cardinality(scoped \cup {<<c, scope>> : c \in owing}) = Cardinality(scoped) + Cardinality(owing)
    BY ZenonT(60), <1>3, <2>2, Charging
  <2> QED BY <2>1, <2>3
<1>6. Cardinality(owing) \in Nat /\ Cardinality(scoped) \in Nat /\ Funds \in Nat
  BY <1>3, FS_CardinalityType DEF DigestMoney, ConstantsOK, F!ConstantsOK
<1>7. purse' \in Nat /\ refills' \in Nat /\ purse' + Cardinality(scoped') = Funds + refills'
  BY <1>1, <1>4, <1>5, <1>6 DEF DigestMoney
<1>8. scoped \subseteq scoped' /\ \A c \in q.batch : <<c, scope>> \in scoped'
  BY <1>1, <1>2, <1>4
<1>9. ASSUME NEW x \in Workers, digester'[x] \in Digesting, digester'[x].at = "write"
      PROVE  \A c \in digester'[x].batch : <<c, digester'[x].check.scan>> \in scoped'
  <2>1. CASE x = r
    <3>1. digester'[x] = t /\ t.batch = q.batch /\ t.check = q.check
      BY <1>1, <2>1 DEF DigestInv, DigestTyped, Digesting
    <3> QED BY <1>8, <3>1
  <2>2. CASE x # r
    <3>1. digester'[x] = digester[x]
      BY <1>1, <2>2 DEF DigestInv, DigestTyped
    <3> QED BY <1>8, <1>9, <3>1 DEF DigestMoney
  <2> QED BY <2>1, <2>2
<1>10. \A c \in 1..Last, s \in F!Scopes : told'[c][s] > 0 => <<c, s>> \in scoped'
  BY <1>1, <1>8 DEF DigestMoney
<1> QED BY <1>5, <1>7, <1>9, <1>10 DEF DigestMoney

LEMMA DigestTells ==
  ASSUME ConstantsOK, DigestInv, DigestMoney, NEW r \in Workers, F!WriteHistory(r) \/ F!WriteStored(r)
  PROVE  DigestMoney'
<1>1. /\ digester[r].at = "write" /\ UNCHANGED <<scoped, purse, refills>> /\ F!Named(r)
      /\ digester' = [digester EXCEPT ![r] = F!Idle]
  BY DEF F!WriteHistory, F!WriteStored, F!At, F!End, F!money, F!counts
<1>2. digester[r] \in Digesting /\ digester[r].check.scan \in F!Scopes /\ digester[r].batch \subseteq 1..Last
  <2>1. digester[r] \in Digesting
    BY <1>1 DEF DigestInv, DigestTyped, F!Idle
  <2> QED BY <2>1 DEF Digesting, Ask
<1>3. \A c \in digester[r].batch : <<c, digester[r].check.scan>> \in scoped
  BY <1>1, <1>2 DEF DigestMoney
<1>4. ASSUME NEW c \in 1..Last, NEW s \in F!Scopes, told'[c][s] > 0 PROVE <<c, s>> \in scoped
  <2>1. told[c] \in [F!Scopes -> 0..2]
    BY DEF DigestInv, DigestTyped
  <2>2. told'[c] = IF c \in digester[r].batch
                   THEN [told[c] EXCEPT ![digester[r].check.scan] = F!Min({told[c][digester[r].check.scan] + 1, 2})] ELSE told[c]
    BY <1>1 DEF F!Named, F!Scope, F!Comments
  <2>3. CASE c \in digester[r].batch /\ s = digester[r].check.scan
    BY <1>3, <2>3
  <2>4. CASE ~(c \in digester[r].batch /\ s = digester[r].check.scan)
    <3>1. told'[c][s] = told[c][s]
      BY <2>1, <2>2, <2>4
    <3> QED BY <1>4, <3>1 DEF DigestMoney
  <2> QED BY <2>3, <2>4
<1>5. ASSUME NEW x \in Workers, digester'[x] \in Digesting, digester'[x].at = "write" PROVE digester'[x] = digester[x]
  <2>1. x # r
    BY <1>1, <1>5 DEF DigestInv, DigestTyped, F!Idle
  <2> QED BY <1>1, <2>1 DEF DigestInv, DigestTyped
<1> QED BY <1>1, <1>4, <1>5 DEF DigestMoney

(* The other steps of the machine charge nothing and bring no run to the   *)
(* point of writing.                                                       *)
LEMMA DigestFree ==
  ASSUME ConstantsOK, DigestInv, F!Next, ~F!TopUp,
         \A r \in Workers : ~F!Charge(r) /\ ~F!WriteHistory(r) /\ ~F!WriteStored(r)
  PROVE  /\ UNCHANGED <<scoped, purse, refills, told>>
         /\ \A x \in Workers : digester'[x] = digester[x] \/ digester'[x] \notin Digesting \/ digester'[x].at # "write"
<1>1. digester \in [Workers -> {F!Idle, [at |-> "load"]} \cup Digesting]
  BY DEF DigestInv, DigestTyped
<1>2. \A t \in {F!Idle, [at |-> "load"]} : t \notin Digesting \/ t.at # "write"
  BY DEF F!Idle
<1>3. ASSUME NEW r \in Workers, UNCHANGED <<scoped, purse, refills, told>>, NEW t, digester' = [digester EXCEPT ![r] = t],
             t \notin Digesting \/ t.at # "write"
      PROVE  /\ UNCHANGED <<scoped, purse, refills, told>>
             /\ \A x \in Workers : digester'[x] = digester[x] \/ digester'[x] \notin Digesting \/ digester'[x].at # "write"
  <2>1. \A x \in Workers : digester'[x] = IF x = r THEN t ELSE digester[x]
    BY <1>1, <1>3
  <2> QED BY <1>3, <2>1
<1>4. CASE F!Toggle \/ F!Lapse \/ \E c \in F!Comments : F!AnalyzeHistory(c) \/ F!StoreComment(c)
  BY <1>4 DEF F!Toggle, F!Lapse, F!AnalyzeHistory, F!StoreComment, F!rows, F!money, F!counts
<1>5. ASSUME NEW r \in Workers,
             F!Claim(r) \/ F!Shortfall(r) \/ F!Advance(r) \/ F!Outdated(r) \/ F!Fail(r) \/ F!Crash(r)
      PROVE  UNCHANGED <<scoped, purse, refills, told>> /\ \E t \in {F!Idle, [at |-> "load"]} : digester' = [digester EXCEPT ![r] = t]
  BY <1>5 DEF F!Claim, F!Shortfall, F!Advance, F!Outdated, F!Fail, F!Crash, F!Stop, F!End, F!rows, F!money, F!counts
<1>6. ASSUME NEW r \in Workers, F!Load(r)
      PROVE  /\ UNCHANGED <<scoped, purse, refills, told>>
             /\ \E t : digester' = [digester EXCEPT ![r] = t] /\ (t \in {F!Idle, [at |-> "load"]} \/ t.at # "write")
  <2>1. UNCHANGED <<scoped, purse, refills, told>>
    BY <1>6 DEF F!Load, F!rows, F!money, F!counts
  <2>2. CASE F!End(r)
    BY <2>1, <2>2 DEF F!End
  <2>3. CASE ~F!End(r)
    <3> DEFINE t == [at |-> IF watched.check.boundary = None THEN "select" ELSE "fetch",
                     check |-> watched.check, lease |-> hold.by, next |-> None, batch |-> {}]
    <3>1. digester' = [digester EXCEPT ![r] = t]
      BY <1>6, <2>3 DEF F!Load
    <3>2. t.at # "write"
      OBVIOUS
    <3> QED BY <2>1, <3>1, <3>2
  <2> QED BY <2>2, <2>3
<1>7. ASSUME NEW r \in Workers, F!SelectHistory(r)
      PROVE  UNCHANGED <<scoped, purse, refills, told>> /\ \E t : digester' = [digester EXCEPT ![r] = t] /\ t.at # "write"
  <2>1. UNCHANGED <<scoped, purse, refills, told>> /\ digester[r].at = "fetch"
    BY <1>7 DEF F!SelectHistory, F!At, F!rows, F!money, F!counts
  <2>2. digester[r] \in Digesting
    BY SMTT(60), <1>1, <2>1 DEF F!Idle
  <2> DEFINE fresh(page) == page \ F!Covered(digester[r].check, page)
             next == IF F!More(digester[r].check) THEN F!Min(F!InWindow(digester[r].check)) ELSE None
             after(page) == IF fresh(page) = {} THEN "advance" ELSE "charge"
  <2>3. PICK page \in F!Served(digester[r].check) :
          digester' = [digester EXCEPT ![r] = [digester[r] EXCEPT !.batch = fresh(page), !.next = next, !.at = after(page)]]
    BY Zenon, <1>7 DEF F!SelectHistory
  <2>4. after(page) # "write"
    OBVIOUS
  <2> HIDE DEF fresh, next, after
  <2>5. [digester[r] EXCEPT !.batch = fresh(page), !.next = next, !.at = after(page)].at = after(page)
    BY <2>2 DEF Digesting
  <2> QED BY <2>1, <2>3, <2>4, <2>5
<1>8. ASSUME NEW r \in Workers, F!SelectStored(r)
      PROVE  UNCHANGED <<scoped, purse, refills, told>> /\ \E t : digester' = [digester EXCEPT ![r] = t] /\ (t = F!Idle \/ t.at # "write")
  <2>1. UNCHANGED <<scoped, purse, refills, told>> /\ digester[r].at = "select"
    BY <1>8 DEF F!SelectStored, F!At, F!rows, F!money, F!counts
  <2>2. digester[r] \in Digesting
    BY <1>1, <2>1 DEF F!Idle
  <2>3. CASE F!End(r)
    BY <2>1, <2>3 DEF F!End
  <2>4. CASE ~F!End(r)
    <3> DEFINE batch == {c \in F!PendingStored : F!Cardinality({d \in F!PendingStored : d < c}) < PageSize}
    <3>1. digester' = [digester EXCEPT ![r] = [digester[r] EXCEPT !.batch = batch, !.at = "charge"]]
      BY <1>8, <2>4 DEF F!SelectStored
    <3> HIDE DEF batch
    <3>2. [digester[r] EXCEPT !.batch = batch, !.at = "charge"].at = "charge"
      BY <2>2 DEF Digesting
    <3> QED BY <2>1, <3>1, <3>2
  <2> QED BY <2>3, <2>4
<1>9. CASE \E r \in Workers : \/ F!Claim(r) \/ F!Shortfall(r) \/ F!Advance(r) \/ F!Outdated(r) \/ F!Fail(r) \/ F!Crash(r)
                              \/ F!Load(r) \/ F!SelectHistory(r) \/ F!SelectStored(r)
  BY <1>2, <1>3, <1>5, <1>6, <1>7, <1>8, <1>9
<1> QED BY <1>4, <1>9 DEF F!Next

LEMMA DigestMoneyInvariance == Spec => []DigestMoney
<1> USE ConstantsOK
<1>1. Init => DigestMoney
  <2> SUFFICES ASSUME Init PROVE DigestMoney
    OBVIOUS
  <2>1. F!Init /\ Funds \in Nat
    BY DEF Init, ConstantsOK, F!ConstantsOK
  <2>2. purse = Funds /\ refills = 0 /\ scoped = {} /\ \A r \in Workers : digester[r] = F!Idle
    BY <2>1 DEF F!Init
  <2>3. \A c \in 1..Last, s \in F!Scopes : told[c][s] = 0
    BY <2>1 DEF F!Init, F!Comments
  <2> QED BY <2>1, <2>2, <2>3, FS_EmptySet DEF DigestMoney, F!Idle
<1>2. ASSUME DigestInv, DigestMoney, [Next]_vars PROVE DigestMoney'
  <2>1. ASSUME UNCHANGED <<scoped, purse, refills, told>>,
               \A x \in Workers : digester'[x] = digester[x] \/ digester'[x] \notin Digesting \/ digester'[x].at # "write"
        PROVE  DigestMoney'
    BY <1>2, <2>1 DEF DigestMoney
  <2>2. ASSUME F!TopUp PROVE DigestMoney'
    <3>1. refills' = refills + 1 /\ purse' = purse + 1 /\ UNCHANGED <<scoped, told, digester>>
      BY <2>2 DEF F!TopUp, F!rows
    <3>2. Cardinality(scoped) \in Nat /\ Funds \in Nat
      BY <1>2, FS_CardinalityType DEF DigestMoney, ConstantsOK, F!ConstantsOK
    <3>3. purse' \in Nat /\ refills' \in Nat /\ purse' + Cardinality(scoped') = Funds + refills'
      BY <1>2, <3>1, <3>2 DEF DigestMoney
    <3> QED BY <1>2, <3>1, <3>3 DEF DigestMoney
  <2>3. ASSUME NEW r \in Workers, F!Charge(r) \/ F!WriteHistory(r) \/ F!WriteStored(r) PROVE DigestMoney'
    BY <1>2, <2>3, DigestPays, DigestTells
  <2>4. ASSUME Digest, ~F!TopUp, \A r \in Workers : ~F!Charge(r) /\ ~F!WriteHistory(r) /\ ~F!WriteStored(r) PROVE DigestMoney'
    <3>1. F!Next
      BY <2>4 DEF Digest
    <3> QED BY <1>2, <2>1, <2>4, <3>1, DigestFree
  <2>5. ASSUME UNCHANGED digest PROVE DigestMoney'
    BY <2>1, <2>5 DEF digest
  <2>6. Digest \/ UNCHANGED digest
    BY <1>2, DigestOrRest
  <2> HIDE DEF DigestMoney
  <2> QED BY <2>2, <2>3, <2>4, <2>5, <2>6
<1> QED BY <1>1, <1>2, DigestInvariance, PTL DEF Spec

(* No comment is named by a digest unpaid, and none is paid for twice in a *)
(* scope (chargeFeedbackBatch).                                            *)
THEOREM SpecImpliesDigestsPaid == Spec => []F!DigestsPaid
<1>1. DigestMoney => F!DigestsPaid
  BY DigestCounts DEF DigestMoney, F!DigestsPaid, F!Comments
<1> QED BY <1>1, DigestMoneyInvariance, PTL

(* What a pass over a channel and a digest of its feedback promise: the    *)
(* cursor skips nothing, a scan tells each comment once, and each is paid  *)
(* for once (runChannel, stageDecisions, generateFeedbackDigest).          *)
THEOREM SpecImpliesChannelKept == Spec => []ChannelKept
BY SpecImpliesNothingSkipped, SpecImpliesEveryVerdictPaid, SpecImpliesScanDigestsEach, SpecImpliesDigestsPaid, PTL DEF ChannelKept

-----------------------------------------------------------------------------
(* Retention.  A countdown bears a warning when the warning came after it  *)
(* began; then a mail was delivered a notice period after it began.        *)
Instant == Nat \cup {None}
Countdown == [since : Instant, notified : Instant, warned : Instant]
Places == {"idle", "evaluate", "warn", "verify", "send", "mark",
           "look", "claim", "recheck", "erase", "restore"}
RetentionTyped ==
  /\ clock \in Nat /\ mailed \in Nat /\ mailed <= clock /\ row \in Countdown
  /\ sweeper \in [Workers -> [at : Places, read : Countdown, now : Nat]]

Bears(r) == r.since # None /\ r.warned # None /\ r.warned >= r.since
WarnedOK(r, m) == Bears(r) => m >= r.since + Notice
WarningOK(s, m, c) ==   \* a warning that is being delivered
  /\ s.at \in {"warn", "verify", "send", "mark"} =>
       s.read.since # None /\ s.now >= s.read.since + Notice /\ s.now <= c
  /\ s.at = "mark" => m >= s.now
DeletionOK(s, c) ==     \* and an account that is being erased
  s.at \in {"look", "claim", "recheck", "erase", "restore"} =>
    Bears(s.read) /\ c >= s.read.since + Grace
SweepOK(s, m, c) == WarnedOK(s.read, m) /\ WarningOK(s, m, c) /\ DeletionOK(s, c)
RetentionInv ==
  RetentionTyped /\ WarnedOK(row, mailed) /\ \A w \in Workers : SweepOK(sweeper[w], mailed, clock)

USE DEF R!Clean, R!Idle

(* What a step of one sweeper leaves alone, and what it must show.         *)
LEMMA SweepKept ==
  ASSUME ConstantsOK, RetentionInv, NEW w \in Workers,
         NEW t \in [at : Places, read : Countdown, now : Nat], sweeper' = [sweeper EXCEPT ![w] = t],
         clock' \in Nat, clock' >= clock, mailed' \in Nat, mailed' >= mailed, mailed' <= clock',
         row' \in Countdown, WarnedOK(row', mailed'), SweepOK(t, mailed', clock')
  PROVE  RetentionInv'
<1>1. RetentionTyped' /\ sweeper'[w] = t
  BY DEF RetentionInv, RetentionTyped
<1>2. ASSUME NEW v \in Workers, v # w PROVE SweepOK(sweeper'[v], mailed', clock')
  <2>1. sweeper'[v] = sweeper[v] /\ sweeper[v] \in [at : Places, read : Countdown, now : Nat]
    BY <1>2 DEF RetentionInv, RetentionTyped
  <2>2. Notice \in Nat /\ Grace \in Nat /\ None \notin Nat
    BY ConstantsOK DEF R!ConstantsOK
  <2> QED BY <2>1, <2>2 DEF RetentionInv, RetentionTyped, SweepOK, WarnedOK, Bears, WarningOK, DeletionOK,
             Countdown, Instant
<1> QED BY <1>1, <1>2 DEF RetentionInv

(* Each step of an evaluation, one by one. *)
LEMMA SweepStep ==
  ASSUME ConstantsOK, RetentionInv, NEW w \in Workers, R!Step(w)
  PROVE  RetentionInv'
<1> DEFINE s == sweeper[w]
<1>1. Notice \in Nat /\ Grace \in Nat /\ None \notin Nat
  BY ConstantsOK DEF R!ConstantsOK
<1>2. s \in [at : Places, read : Countdown, now : Nat] /\ SweepOK(s, mailed, clock) /\ WarnedOK(row, mailed)
      /\ row \in Countdown /\ clock \in Nat /\ mailed \in Nat /\ mailed <= clock
  BY DEF RetentionInv, RetentionTyped
<1>5. \A x \in Places : [s EXCEPT !.at = x] \in [at : Places, read : Countdown, now : Nat]
  BY <1>2
<1>6. R!Idle \in [at : Places, read : Countdown, now : Nat] /\ ~Bears(R!Clean)
  BY DEF Places, Countdown, Instant, Bears
<1> USE DEF Places, WarnedOK, WarningOK, DeletionOK, SweepOK, Bears, Countdown, Instant,
            R!At, R!Go, R!Rest, R!Kept, R!Read, R!Now, R!SameSince, R!Age
<1>a. CASE R!Sweep(w)
  <2> DEFINE t == [at |-> "evaluate", read |-> row, now |-> 0]
  <2>1. sweeper' = [sweeper EXCEPT ![w] = t] /\ UNCHANGED <<row, clock, mailed>>
    BY <1>a DEF R!Sweep
  <2>2. t \in [at : Places, read : Countdown, now : Nat]
    BY <1>2
  <2>3. /\ row' \in Countdown /\ clock' \in Nat /\ clock' >= clock
        /\ mailed' \in Nat /\ mailed' >= mailed /\ mailed' <= clock'
        /\ WarnedOK(row', mailed') /\ SweepOK(t, mailed', clock')
    BY <1>2, <2>1
  <2> HIDE DEF t, SweepOK, WarnedOK, Countdown, Places
  <2> QED BY SweepKept, <2>1, <2>2, <2>3
<1>b. CASE R!Evaluate(w)
  BY SMTT(60), <1>b, <1>1, <1>2, SweepKept, <1>5, <1>6 DEF R!Evaluate, R!ClearsAs, R!Stamps, R!Restamps, R!NeverWarned, R!NoticeDue
<1>c. CASE R!ClaimWarning(w)
  BY <1>c, <1>1, <1>2, SweepKept, <1>5, <1>6 DEF R!ClaimWarning
<1>d. CASE R!Verify(w)
  BY <1>d, <1>1, <1>2, SweepKept, <1>5, <1>6 DEF R!Verify, R!ClearsAs
<1>e. CASE R!Send(w)
  <2> DEFINE t == [s EXCEPT !.at = "mark"]
  <2>1. sweeper' = [sweeper EXCEPT ![w] = t] /\ UNCHANGED <<row, clock>> /\ mailed' = clock
    BY <1>e DEF R!Send
  <2>2. t \in [at : Places, read : Countdown, now : Nat] /\ t.read = s.read /\ t.now = s.now /\ t.at = "mark"
    BY <1>2
  <2>3. s.at = "send"
    BY <1>e DEF R!Send
  <2> HIDE DEF t
  <2>4. /\ row' \in Countdown /\ clock' \in Nat /\ clock' >= clock
        /\ mailed' \in Nat /\ mailed' >= mailed /\ mailed' <= clock'
        /\ WarnedOK(row', mailed') /\ SweepOK(t, mailed', clock')
    BY <1>1, <1>2, <2>1, <2>2, <2>3
  <2> HIDE DEF SweepOK, WarnedOK, Countdown, Places
  <2> QED BY SweepKept, <2>1, <2>2, <2>4
<1>f. CASE R!MarkWarned(w)
  <2>1. sweeper' = [sweeper EXCEPT ![w] = R!Idle] /\ UNCHANGED <<clock, mailed>> /\ s.at = "mark"
    BY <1>f DEF R!MarkWarned
  <2>2. \/ row' = row
        \/ row.since = s.read.since /\ row' = [row EXCEPT !.warned = s.now]
    BY <1>f DEF R!MarkWarned, R!StillClaimed
  <2>3. row' \in Countdown /\ WarnedOK(row', mailed')
    BY <1>1, <1>2, <2>1, <2>2
  <2>4. /\ clock' \in Nat /\ clock' >= clock
        /\ mailed' \in Nat /\ mailed' >= mailed /\ mailed' <= clock'
        /\ SweepOK(R!Idle, mailed', clock')
    BY <1>2, <1>6, <2>1
  <2> HIDE DEF SweepOK, WarnedOK, Countdown, Places
  <2> QED BY SweepKept, <1>6, <2>1, <2>3, <2>4
<1>g. CASE R!ReleaseWarning(w)
  <2>1. sweeper' = [sweeper EXCEPT ![w] = R!Idle] /\ UNCHANGED clock /\ mailed' \in {mailed, clock}
    BY <1>g DEF R!ReleaseWarning
  <2>2. row' = row \/ row' = [row EXCEPT !.notified = s.read.notified]
    BY <1>g DEF R!ReleaseWarning
  <2>3. row' \in Countdown /\ WarnedOK(row', mailed')
    BY <1>1, <1>2, <2>1, <2>2
  <2>4. /\ clock' \in Nat /\ clock' >= clock
        /\ mailed' \in Nat /\ mailed' >= mailed /\ mailed' <= clock'
        /\ SweepOK(R!Idle, mailed', clock')
    BY <1>2, <1>6, <2>1
  <2> HIDE DEF SweepOK, WarnedOK, Countdown, Places
  <2> QED BY SweepKept, <1>6, <2>1, <2>3, <2>4
<1>h. CASE R!LookForPayment(w)
  BY <1>h, <1>1, <1>2, SweepKept, <1>5, <1>6 DEF R!LookForPayment
<1>i. CASE R!ClaimDeletion(w)
  BY <1>i, <1>1, <1>2, SweepKept, <1>5, <1>6 DEF R!ClaimDeletion
<1>j. CASE R!RecheckFunding(w)
  BY <1>j, <1>1, <1>2, SweepKept, <1>5, <1>6 DEF R!RecheckFunding
<1>k. CASE R!Erase(w) \/ R!Abort(w)
  BY <1>k, <1>1, <1>2, SweepKept, <1>5, <1>6 DEF R!Erase, R!Abort
<1>l. CASE R!Restore(w) \/ R!Crash(w)
  BY <1>l, <1>1, <1>2, SweepKept, <1>5, <1>6 DEF R!Restore, R!Crash
<1> QED BY <1>a, <1>b, <1>c, <1>d, <1>e, <1>f, <1>g, <1>h, <1>i, <1>j, <1>k, <1>l DEF R!Step

LEMMA RetentionInvariance == Spec => []RetentionInv
<1> USE ConstantsOK
<1>1. Init => RetentionInv
  BY DEF Init, R!Init, RetentionInv, RetentionTyped, Places, Countdown, Instant, R!ConstantsOK,
         SweepOK, WarnedOK, Bears, WarningOK, DeletionOK
<1>2. ASSUME RetentionInv, [Next]_vars PROVE RetentionInv'
  <2>1. UNCHANGED <<clock, row, sweeper, mailed>> => RetentionInv'
    BY <1>2 DEF RetentionInv, RetentionTyped
  <2>2. ASSUME Retain PROVE RetentionInv'
    BY <1>2, <2>1, <2>2, SweepStep DEF Retain, R!Next, R!RunOut, R!OpenCheckout, R!Pay, R!Still
  <2> QED BY <1>2, <2>1, <2>2 DEF Next, vars, retention, Team, Scan, Post, Tell, Digest, Mercado, Group, Browse, Try
<1> QED BY <1>1, <1>2, PTL DEF Spec

(* zeroCredits.ts erases an account only when a warning of the countdown   *)
(* that ran out was delivered a notice period after it began, and a grace  *)
(* has passed since: for any sweepers that overlap, any notice and grace.  *)
THEOREM SpecImpliesNeverErasedUnwarned == Spec => NeverErasedUnwarned
<1>1. ASSUME RetentionInv, NEW w \in Workers, [Next]_vars, R!Erasing(w)
      PROVE  mailed >= R!Read(w).since + Notice /\ clock >= R!Read(w).since + Grace
  BY <1>1 DEF RetentionInv, SweepOK, WarnedOK, DeletionOK, R!Erasing, R!Read
<1>2. RetentionInv /\ [Next]_vars =>
        [\A w \in Workers : R!Erasing(w) =>
           /\ mailed >= R!Read(w).since + Notice /\ clock >= R!Read(w).since + Grace]_(R!vars)
  BY <1>1
<1> QED BY <1>2, RetentionInvariance, PTL DEF Spec, NeverErasedUnwarned, R!NeverErasedUnwarned

-----------------------------------------------------------------------------
(* Contact.  A copy of a notice that a claim still entitles to: one to be  *)
(* sent, or one that failed and whose claim will be given back.  A row     *)
(* that can be claimed again entitles to one more.                         *)
Mine(t, q) == t.on = q /\ t.token = request[q].token
Entitled(q) == {m \in Workers : \/ teller[m].at = "notify" /\ teller[m].on = q
                                \/ teller[m].at = "giveBack" /\ Mine(teller[m], q)}
Claimable(q) == \/ request[q].due = "now"
                \/ request[q].due = "later" /\ \A m \in Workers : ~Mine(teller[m], q)
Copies(q) == notices[q] + Cardinality(Entitled(q)) + (IF Claimable(q) THEN 1 ELSE 0)
Rows == [status : {"pending", "expired", "verified", "told"},
         due : {"never", "now", "later"}, token : Nat \cup {None}]
Tellers == {C!Idle} \cup [at : {"notify", "acknowledge", "giveBack"}, on : Requests, token : Nat]

ContactTyped ==
  /\ request \in [Requests -> Rows] /\ teller \in [Workers -> Tellers]
  /\ tellings \in Nat /\ mishaps \in Nat /\ notices \in [Requests -> Nat]
NoticeOK(q) ==
  /\ request[q].status \in {"pending", "expired"} =>
       notices[q] = 0 /\ \A m \in Workers : teller[m].on # q
  /\ request[q].status # "verified" => request[q].due = "never" /\ request[q].token = None
  /\ request[q].status = "verified" => request[q].due # "never"
  /\ request[q].status = "told" => notices[q] >= 1
  /\ IsFiniteSet(Entitled(q)) /\ Copies(q) <= 1 + mishaps
ContactInv ==
  /\ ContactTyped /\ \A q \in Requests : NoticeOK(q)
  /\ \A m \in Workers : /\ teller[m] # C!Idle => teller[m].token <= tellings
                        /\ teller[m].at = "acknowledge" => notices[teller[m].on] >= 1

(* How many copies a set of claims may still stand for.                     *)
LEMMA Counting ==
  ASSUME NEW A, IsFiniteSet(A)
  PROVE  /\ Cardinality(A) \in Nat
         /\ \A more \in SUBSET A : IsFiniteSet(more) /\ Cardinality(more) <= Cardinality(A)
         /\ \A x, more : more \subseteq A \cup {x} => IsFiniteSet(more) /\ Cardinality(more) <= Cardinality(A) + 1
         /\ \A x \in A : \A more \in SUBSET (A \ {x}) :
              IsFiniteSet(more) /\ Cardinality(more) + 1 <= Cardinality(A)
<1>1. Cardinality(A) \in Nat /\ \A more \in SUBSET A : IsFiniteSet(more) /\ Cardinality(more) <= Cardinality(A)
  BY FS_Subset, FS_CardinalityType
<1>2. ASSUME NEW x, NEW more, more \subseteq A \cup {x}
      PROVE  IsFiniteSet(more) /\ Cardinality(more) <= Cardinality(A) + 1
  <2>1. IsFiniteSet(A \cup {x}) /\ Cardinality(A \cup {x}) <= Cardinality(A) + 1
    BY <1>1, FS_AddElement
  <2> QED BY <1>1, <1>2, <2>1, FS_Subset, FS_CardinalityType
<1>3. ASSUME NEW x \in A, NEW more \in SUBSET (A \ {x})
      PROVE  IsFiniteSet(more) /\ Cardinality(more) + 1 <= Cardinality(A)
  <2>1. IsFiniteSet(A \ {x}) /\ Cardinality(A \ {x}) = Cardinality(A) - 1
    BY FS_RemoveElement
  <2> QED BY <1>1, <1>3, <2>1, FS_Subset, FS_CardinalityType
<1> QED BY <1>1, <1>2, <1>3

USE DEF C!Idle, C!Untold

LEMMA Types ==
  ASSUME ConstantsOK, ContactTyped
  PROVE  /\ None \notin Nat /\ None \notin Requests
         /\ \A q \in Requests : notices[q] \in Nat /\ request[q] \in Rows
         /\ \A m \in Workers :
              /\ teller[m] = C!Idle \/ teller[m] \in [at : {"notify", "acknowledge", "giveBack"},
                                                    on : Requests, token : Nat]
              /\ teller[m].at = "idle" => teller[m] = C!Idle
BY DEF ConstantsOK, C!ConstantsOK, ContactTyped, Tellers

(* A row whose claims, copies and mishaps are as before is as before.      *)
LEMMA RowStays ==
  ASSUME ConstantsOK, ContactInv, ContactTyped', NEW q \in Requests, request'[q] = request[q],
         notices'[q] = notices[q], mishaps' >= mishaps,
         \A m \in Workers : teller'[m] = teller[m] \/ (teller'[m].on # q /\ teller[m].on # q)
  PROVE  NoticeOK(q)'
<1>1. Entitled(q)' = Entitled(q) /\ Claimable(q)' = Claimable(q)
  BY DEF Entitled, Claimable, Mine
<1>2. Copies(q)' = Copies(q)
  BY <1>1 DEF Copies
<1>3. Cardinality(Entitled(q)) \in Nat /\ notices[q] \in Nat /\ mishaps \in Nat /\ mishaps' \in Nat
  BY FS_CardinalityType DEF ContactInv, NoticeOK, ContactTyped
<1>4. Copies(q) \in Nat
  BY <1>3 DEF Copies
<1>5. NoticeOK(q)
  BY DEF ContactInv
<1> QED BY <1>1, <1>2, <1>3, <1>4, <1>5 DEF NoticeOK

(* The steps that only people and clocks take. *)
LEMMA ContactRowStep ==
  ASSUME ConstantsOK, ContactInv, NEW q \in Requests,
         C!Expire(q) \/ C!Submit(q) \/ C!Verify(q) \/ C!RetryDue(q)
  PROVE  ContactInv'
<1> USE Types DEF ContactInv
<1>1. /\ teller' = teller /\ tellings' = tellings /\ notices' = notices
      /\ mishaps' = mishaps \/ mishaps' = mishaps + 1
      /\ \E r : request' = [request EXCEPT ![q] = r]
      /\ request'[q] \in Rows /\ request'[q].token = request[q].token
  BY DEF C!Expire, C!Submit, C!Verify, C!RetryDue, C!Fault, C!Sure, ContactTyped, Rows
<1>2. ContactTyped' /\ \A p \in Requests \ {q} : request'[p] = request[p]
  BY <1>1 DEF ContactTyped
<1>3. \A p \in Requests \ {q} : NoticeOK(p)'
  BY <1>1, <1>2, RowStays DEF ContactTyped
<1>4. NoticeOK(q) /\ Entitled(q)' = Entitled(q) /\ Cardinality(Entitled(q)) \in Nat
      /\ notices[q] \in Nat /\ mishaps \in Nat
  <2>1. NoticeOK(q) /\ IsFiniteSet(Entitled(q)) /\ mishaps \in Nat
    BY DEF NoticeOK, ContactTyped
  <2>2. Entitled(q)' = Entitled(q)
    BY <1>1 DEF Entitled, Mine
  <2> QED BY <2>1, <2>2, FS_CardinalityType
<1>5. CASE C!Expire(q) \/ C!Submit(q)
  <2>1. request'[q].status \in {"pending", "expired"} /\ request[q].status \in {"pending", "expired"}
        /\ request'[q].due = request[q].due /\ mishaps' = mishaps
    BY <1>5 DEF C!Expire, C!Submit, ContactTyped, Rows
  <2>2. ~Claimable(q)' /\ ~Claimable(q)
    BY <1>4, <2>1 DEF NoticeOK, Claimable
  <2> QED BY <1>1, <1>2, <1>3, <1>4, <2>1, <2>2 DEF NoticeOK, Copies
<1>6. CASE C!Verify(q)
  <2>1. request'[q].status = "verified" /\ request[q].status = "pending"
        /\ request'[q].due = "now" /\ mishaps' = mishaps
    BY <1>6 DEF C!Verify, ContactTyped, Rows
  <2>2. Entitled(q) = {} /\ Cardinality({}) = 0 /\ notices[q] = 0
    BY <1>4, <2>1, FS_EmptySet DEF NoticeOK, Entitled, Mine
  <2>3. Copies(q)' \in 0..1 /\ IsFiniteSet(Entitled(q)')
    BY <1>1, <1>4, <2>2 DEF Copies, NoticeOK
  <2>4. NoticeOK(q)'
    BY <1>4, <2>1, <2>3 DEF NoticeOK
  <2> QED BY <1>1, <1>2, <1>3, <2>4
<1>7. CASE C!RetryDue(q)
  <2>1. request'[q].status = request[q].status /\ request[q].due = "later" /\ request'[q].due = "now"
        /\ IF \E m \in Workers : Mine(teller[m], q) THEN mishaps' = mishaps + 1 ELSE mishaps' = mishaps
    BY <1>7 DEF C!RetryDue, C!Fault, C!Sure, C!ClaimIsMine, ContactTyped, Rows, Mine
  <2>2. request[q].status = "verified" /\ Claimable(q)'
        /\ (mishaps' = mishaps => Claimable(q))
    BY <1>4, <2>1 DEF NoticeOK, Claimable
  <2> QED BY <1>1, <1>2, <1>3, <1>4, <2>1, <2>2 DEF NoticeOK, Copies
<1> QED BY <1>5, <1>6, <1>7

(* The steps of one mailer m, on the row q of its claim: the other rows    *)
(* stay as they are, and so do the other mailers.                          *)
LEMMA TellerMoves ==
  ASSUME ConstantsOK, ContactInv, NEW m \in Workers, NEW q \in Requests,
         NEW t \in Tellers, teller' = [teller EXCEPT ![m] = t],
         teller[m].on \in {None, q}, t.on \in {None, q},
         NEW r \in Rows, request' = [request EXCEPT ![q] = r],
         NEW n \in Nat, notices' = [notices EXCEPT ![q] = n], n >= notices[q],
         mishaps' \in Nat, mishaps' >= mishaps, tellings' \in Nat, tellings' >= tellings,
         t # C!Idle => t.token <= tellings',
         t.at = "acknowledge" => n >= 1,
         NoticeOK(q)'
  PROVE  ContactInv'
<1> USE Types DEF ContactInv
<1>1. ContactTyped' /\ teller'[m] = t /\ \A k \in Workers \ {m} : teller'[k] = teller[k]
  BY DEF ContactTyped
<1>2. \A p \in Requests \ {q} : NoticeOK(p)'
  <2> SUFFICES ASSUME NEW p \in Requests \ {q} PROVE NoticeOK(p)'
    OBVIOUS
  <2>1. request'[p] = request[p] /\ notices'[p] = notices[p]
        /\ \A k \in Workers : teller'[k] = teller[k] \/ (teller'[k].on # p /\ teller[k].on # p)
    BY <1>1 DEF ContactTyped
  <2> QED BY <1>1, <2>1, RowStays
<1>3. \A k \in Workers : /\ teller'[k] # C!Idle => teller'[k].token <= tellings'
                         /\ teller'[k].at = "acknowledge" => notices'[teller'[k].on] >= 1
  <2> SUFFICES ASSUME NEW k \in Workers
               PROVE  /\ teller'[k] # C!Idle => teller'[k].token <= tellings'
                      /\ teller'[k].at = "acknowledge" => notices'[teller'[k].on] >= 1
    OBVIOUS
  <2>1. notices'[q] = n /\ \A p \in Requests : notices'[p] \in Nat /\ notices'[p] >= notices[p]
    BY DEF ContactTyped
  <2>2. CASE k = m
    <3>1. t.at = "acknowledge" => t.on = q
      BY DEF Tellers
    <3> QED BY <1>1, <2>1, <2>2, <3>1
  <2>3. CASE k # m
    <3>1. teller'[k] = teller[k] /\ tellings \in Nat
      BY <1>1, <2>3 DEF ContactTyped
    <3>2. teller[k] # C!Idle => teller[k].token \in Nat /\ teller[k].on \in Requests
      BY DEF ContactTyped
    <3>3. teller[k].at = "acknowledge" => teller[k] # C!Idle
      OBVIOUS
    <3> QED BY <2>1, <3>1, <3>2, <3>3 DEF ContactTyped
  <2> QED BY <2>2, <2>3
<1> QED BY <1>1, <1>2, <1>3

(* A mailer takes a row. *)
LEMMA ContactClaimStep ==
  ASSUME ConstantsOK, ContactInv, NEW m \in Workers, NEW p \in Requests, C!ClaimNotice(m, p)
  PROVE  ContactInv'
<1> USE Types DEF ContactInv
<1>a. tellings \in Nat /\ mishaps \in Nat /\ NoticeOK(p) /\ IsFiniteSet(Entitled(p))
  BY DEF ContactTyped, NoticeOK
<1>b. \A t \in Tellers : teller' = [teller EXCEPT ![m] = t] =>
        teller'[m] = t /\ \A k \in Workers \ {m} : teller'[k] = teller[k]
  BY DEF ContactTyped
<1> DEFINE t == [at |-> "notify", on |-> p, token |-> tellings + 1]
           r == [request[p] EXCEPT !.due = "later", !.token = tellings + 1]
<1>1. /\ request[p].status = "verified" /\ request[p].due = "now" /\ teller[m] = C!Idle
      /\ tellings' = tellings + 1 /\ teller' = [teller EXCEPT ![m] = t]
      /\ request' = [request EXCEPT ![p] = r] /\ UNCHANGED <<mishaps, notices>>
  BY DEF C!ClaimNotice, C!TakenFor
<1>0. request[p] \in Rows /\ tellings + 1 \in Nat
  BY <1>a
<1>2. t \in Tellers /\ t.token = tellings + 1 /\ t.on = p /\ t.at = "notify"
      /\ r \in Rows /\ r.status = "verified" /\ r.due = "later" /\ r.token = tellings + 1
  BY <1>0, <1>1 DEF Tellers, Rows
<1> HIDE DEF t, r
<1>3. request'[p] = r /\ teller'[m] = t /\ \A k \in Workers \ {m} : teller'[k] = teller[k]
  BY <1>b, <1>1, <1>2 DEF ContactTyped
<1>4. ~Claimable(p)' /\ Claimable(p)
  BY <1>1, <1>2, <1>3 DEF Claimable, Mine
<1>5. Entitled(p)' \subseteq Entitled(p) \cup {m}
  <2> SUFFICES ASSUME NEW k \in Entitled(p)', k # m PROVE k \in Entitled(p)
    OBVIOUS
  <2>1. k \in Workers /\ teller'[k] = teller[k]
    BY <1>3 DEF Entitled
  <2>2. teller[k].at = "giveBack" => teller[k].token \in Nat /\ teller[k].token <= tellings
    BY <2>1
  <2>3. ~(teller[k].at = "giveBack" /\ teller[k].token = tellings + 1)
    BY <1>a, <2>2
  <2> QED BY <1>2, <1>3, <2>1, <2>3 DEF Entitled, Mine
<1>6. IsFiniteSet(Entitled(p)') /\ Cardinality(Entitled(p)') <= Cardinality(Entitled(p)) + 1
      /\ Cardinality(Entitled(p)') \in Nat /\ Cardinality(Entitled(p)) \in Nat
  BY <1>a, <1>5, Counting, FS_CardinalityType
<1>7. notices'[p] = notices[p] /\ notices[p] \in Nat /\ Copies(p)' <= Copies(p) /\ Copies(p)' \in Nat /\ Copies(p) \in Nat
  BY <1>1, <1>4, <1>6 DEF Copies
<1>8. NoticeOK(p)'
  BY <1>a, <1>1, <1>2, <1>3, <1>6, <1>7 DEF NoticeOK
<1>9. [notices EXCEPT ![p] = notices[p]] = notices
  BY DEF ContactTyped
<1>10. teller[m].on = None /\ notices' = [notices EXCEPT ![p] = notices[p]] /\ notices[p] >= notices[p]
       /\ mishaps' \in Nat /\ mishaps' >= mishaps /\ tellings' \in Nat /\ tellings' >= tellings
       /\ t.token <= tellings' /\ notices[p] \in Nat
  BY <1>a, <1>1, <1>2, <1>7, <1>9
<1> QED BY <1>1, <1>2, <1>8, <1>10, TellerMoves

(* A mailer goes on with the row it took. *)
LEMMA ContactServeStep ==
  ASSUME ConstantsOK, ContactInv, NEW m \in Workers, NEW q \in Requests, teller[m].on = q,
         C!Notify(m) \/ C!NotifyFails(m) \/ C!Acknowledge(m) \/ C!GiveBack(m) \/ C!Crash(m)
  PROVE  ContactInv'
<1> USE Types DEF ContactInv
<1> DEFINE E == Entitled(q)
<1>1. tellings \in Nat /\ mishaps \in Nat /\ NoticeOK(q) /\ IsFiniteSet(E)
  BY DEF ContactTyped, NoticeOK
<1>2. /\ teller[m] \in [at : {"notify", "acknowledge", "giveBack"}, on : Requests, token : Nat]
      /\ teller[m].token <= tellings
      /\ request[q] \in Rows /\ notices[q] \in Nat
      /\ request[q].status \notin {"pending", "expired"}
  BY <1>1 DEF NoticeOK, Rows
<1>3. Mine(teller[m], q) => request[q].status = "verified"
  BY <1>1, <1>2 DEF Mine, NoticeOK
<1>4. \A t \in Tellers : teller' = [teller EXCEPT ![m] = t] =>
        teller'[m] = t /\ \A k \in Workers \ {m} : teller'[k] = teller[k]
  BY DEF ContactTyped
<1>5. [request EXCEPT ![q] = request[q]] = request /\ [notices EXCEPT ![q] = notices[q]] = notices
  BY DEF ContactTyped
<1>6. Cardinality(E) \in Nat /\ Copies(q) <= 1 + mishaps /\ Copies(q) \in Nat
  BY <1>1, <1>2, Counting DEF NoticeOK, Copies
<1>7. ASSUME NEW t \in Tellers, teller' = [teller EXCEPT ![m] = t], t.on \in {None, q},
             NEW n \in Nat, notices' = [notices EXCEPT ![q] = n], n >= notices[q],
             request' = request, mishaps' \in Nat, mishaps' >= mishaps, tellings' = tellings,
             t # C!Idle => t.token = teller[m].token,
             t.at = "acknowledge" => n >= 1,
             Copies(q)' <= 1 + mishaps', Entitled(q)' \subseteq E
      PROVE  ContactInv'
  <2>1. notices'[q] = n /\ IsFiniteSet(Entitled(q)')
    BY <1>1, <1>7, Counting DEF ContactTyped
  <2>2. NoticeOK(q)'
    BY <1>1, <1>2, <1>7, <2>1 DEF NoticeOK
  <2>3. /\ request' = [request EXCEPT ![q] = request[q]] /\ request[q] \in Rows
        /\ tellings' \in Nat /\ tellings' >= tellings /\ (t # C!Idle => t.token <= tellings')
    BY <1>1, <1>2, <1>5, <1>7
  <2> QED BY <1>7, <2>2, <2>3, TellerMoves, ZenonT(60)
<1>9. CASE C!Notify(m)
  <2> DEFINE t == [teller[m] EXCEPT !.at = "acknowledge"]
  <2>1. teller[m].at = "notify" /\ teller' = [teller EXCEPT ![m] = t] /\ UNCHANGED <<request, tellings, mishaps>>
        /\ notices' = [notices EXCEPT ![q] = notices[q] + 1]
    BY <1>9 DEF C!Notify, C!At, C!Go
  <2>2. teller[m] # C!Idle
    BY <2>1
  <2>3. t \in Tellers /\ t.on = q /\ t.token = teller[m].token /\ t.at = "acknowledge"
    BY <1>2, <2>2 DEF Tellers
  <2> HIDE DEF t
  <2>4. teller'[m] = t /\ \A k \in Workers \ {m} : teller'[k] = teller[k]
    BY <1>4, <2>1, <2>3
  <2>5. m \in E /\ Entitled(q)' \subseteq E \ {m} /\ Claimable(q)' = Claimable(q)
    BY <2>1, <2>3, <2>4 DEF Entitled, Claimable, Mine
  <2>6. Cardinality(Entitled(q)') + 1 <= Cardinality(E) /\ Cardinality(Entitled(q)') \in Nat
    BY <1>1, <1>2, <2>2, <2>5, Counting, FS_CardinalityType
  <2>7. notices'[q] = notices[q] + 1
    BY <1>2, <2>1, <2>2 DEF ContactTyped
  <2>8. Copies(q)' <= 1 + mishaps'
    BY <1>1, <1>2, <1>6, <2>1, <2>2, <2>5, <2>6, <2>7 DEF Copies
  <2>9. notices[q] + 1 \in Nat /\ notices[q] + 1 >= notices[q] /\ notices[q] + 1 >= 1
    BY <1>2
  <2>10. Entitled(q)' \subseteq E /\ mishaps' \in Nat /\ mishaps' >= mishaps
    BY <1>1, <2>1, <2>5
  <2> QED BY <1>7, <2>1, <2>3, <2>8, <2>9, <2>10
<1>10. CASE C!NotifyFails(m)
  <2> DEFINE t == [teller[m] EXCEPT !.at = "giveBack"]
  <2>1. teller[m].at = "notify" /\ teller' = [teller EXCEPT ![m] = t] /\ UNCHANGED <<request, tellings>>
        /\ mishaps' = mishaps + 1
    BY <1>10 DEF C!NotifyFails, C!At, C!Go, C!Fault
  <2>2. PICK x \in {0, 1} : notices' = [notices EXCEPT ![q] = notices[q] + x]
    BY <1>10 DEF C!NotifyFails
  <2>3. teller[m] # C!Idle
    BY <2>1
  <2>4. t \in Tellers /\ t.on = q /\ t.token = teller[m].token /\ t.at = "giveBack"
    BY <1>2, <2>3 DEF Tellers
  <2> HIDE DEF t
  <2>5. teller'[m] = t /\ \A k \in Workers \ {m} : teller'[k] = teller[k]
    BY <1>4, <2>1, <2>4
  <2>6. Entitled(q)' \subseteq E /\ Claimable(q)' = Claimable(q)
    BY <2>1, <2>4, <2>5 DEF Entitled, Claimable, Mine
  <2>7. Cardinality(Entitled(q)') <= Cardinality(E) /\ Cardinality(Entitled(q)') \in Nat
    BY <1>1, <1>2, <2>3, <2>6, Counting, FS_CardinalityType
  <2>8. notices'[q] = notices[q] + x
    BY <1>2, <2>2, <2>3 DEF ContactTyped
  <2>9. Copies(q)' <= 1 + mishaps'
    BY <1>1, <1>2, <1>6, <2>1, <2>2, <2>3, <2>6, <2>7, <2>8 DEF Copies
  <2>10. notices[q] + x \in Nat /\ notices[q] + x >= notices[q] /\ mishaps' \in Nat /\ mishaps' >= mishaps
    BY <1>1, <1>2, <2>1
  <2> QED BY <1>1, <1>7, <2>1, <2>2, <2>4, <2>6, <2>9, <2>10
<1>8. ASSUME teller' = [teller EXCEPT ![m] = C!Idle], UNCHANGED <<request, tellings, notices>>,
             \/ ~Mine(teller[m], q) /\ mishaps' = mishaps
             \/ mishaps' = mishaps + 1
      PROVE  ContactInv'
  <2>1. C!Idle \in Tellers /\ teller'[m] = C!Idle /\ \A k \in Workers \ {m} : teller'[k] = teller[k]
    BY <1>4, <1>8 DEF Tellers
  <2>2. Entitled(q)' \subseteq E /\ (Claimable(q)' => Claimable(q) \/ Mine(teller[m], q))
    BY <1>8, <2>1 DEF Entitled, Claimable, Mine
  <2>3. Cardinality(Entitled(q)') <= Cardinality(E) /\ Cardinality(Entitled(q)') \in Nat
    BY <1>1, <2>2, Counting, FS_CardinalityType
  <2>4. Copies(q)' <= 1 + mishaps'
    BY <1>1, <1>2, <1>6, <1>8, <2>2, <2>3 DEF Copies
  <2>5. mishaps' \in Nat /\ mishaps' >= mishaps /\ notices[q] >= notices[q]
        /\ notices' = [notices EXCEPT ![q] = notices[q]]
    BY <1>1, <1>2, <1>5, <1>8
  <2> QED BY <1>2, <1>7, <1>8, <2>1, <2>2, <2>4, <2>5
<1>11. CASE C!Crash(m)
  BY <1>8, <1>11 DEF C!Crash, C!Fault, C!Rest
<1>12. CASE C!Acknowledge(m)
  <2>1. /\ teller[m].at = "acknowledge" /\ teller' = [teller EXCEPT ![m] = C!Idle]
        /\ UNCHANGED <<tellings, mishaps, notices>>
        /\ request' = IF Mine(teller[m], q) THEN [request EXCEPT ![q] = C!Told] ELSE request
    BY <1>12 DEF C!Acknowledge, C!At, C!Rest, C!ClaimIsMine, Mine
  <2>2. CASE ~Mine(teller[m], q)
    BY <1>8, <2>1, <2>2
  <2>3. CASE Mine(teller[m], q)
    <3>1. C!Told \in Rows /\ C!Idle \in Tellers /\ request'[q] = C!Told
          /\ teller'[m] = C!Idle /\ \A k \in Workers \ {m} : teller'[k] = teller[k]
      BY <1>4, <2>1, <2>3 DEF Rows, Tellers, C!Told, ContactTyped
    <3>2. C!Told.status = "told" /\ C!Told.due = "never" /\ C!Told.token = None
      BY DEF C!Told
    <3>3. \A k \in Workers : teller[k].at = "giveBack" => teller[k].token # None
      OBVIOUS
    <3>4. Entitled(q)' \subseteq E /\ ~Claimable(q)'
      BY <3>1, <3>2, <3>3 DEF Entitled, Claimable, Mine
    <3>5. Cardinality(Entitled(q)') <= Cardinality(E) /\ Cardinality(Entitled(q)') \in Nat /\ IsFiniteSet(Entitled(q)')
      BY <1>1, <3>4, Counting, FS_CardinalityType
    <3>6. notices[q] >= 1 /\ notices'[q] = notices[q]
      BY <2>1
    <3>7. Copies(q)' <= 1 + mishaps'
      BY <1>1, <1>2, <1>6, <2>1, <3>4, <3>5, <3>6 DEF Copies
    <3>8. NoticeOK(q)'
      BY <1>1, <2>1, <3>1, <3>2, <3>5, <3>6, <3>7 DEF NoticeOK
    <3>9. notices' = [notices EXCEPT ![q] = notices[q]] /\ notices[q] >= notices[q]
          /\ request' = [request EXCEPT ![q] = C!Told]
          /\ mishaps' \in Nat /\ mishaps' >= mishaps /\ tellings' \in Nat /\ tellings' >= tellings
      BY <1>1, <1>2, <1>5, <2>1, <2>3
    <3> QED BY <1>2, <2>1, <3>1, <3>8, <3>9, TellerMoves, ZenonT(60)
  <2> QED BY <2>2, <2>3
<1>13. CASE C!GiveBack(m)
  <2> DEFINE r == [request[q] EXCEPT !.due = "later", !.token = None]
  <2>1. /\ teller[m].at = "giveBack" /\ teller' = [teller EXCEPT ![m] = C!Idle]
        /\ UNCHANGED <<tellings, mishaps, notices>>
        /\ request' = IF Mine(teller[m], q) THEN [request EXCEPT ![q] = r] ELSE request
    BY <1>13 DEF C!GiveBack, C!At, C!Rest, C!ClaimIsMine, Mine
  <2>2. CASE ~Mine(teller[m], q)
    BY <1>8, <2>1, <2>2
  <2>3. CASE Mine(teller[m], q)
    <3>1. r \in Rows /\ r.status = "verified" /\ r.due = "later" /\ r.token = None
      BY <1>2, <1>3, <2>3 DEF Rows
    <3> HIDE DEF r
    <3>2. C!Idle \in Tellers /\ request'[q] = r
          /\ teller'[m] = C!Idle /\ \A k \in Workers \ {m} : teller'[k] = teller[k]
      BY <1>4, <2>1, <2>3 DEF Tellers, ContactTyped
    <3>3. \A k \in Workers : teller[k].at = "giveBack" => teller[k].token # None
      OBVIOUS
    <3>4. m \in E /\ Entitled(q)' \subseteq E \ {m}
      BY <2>1, <2>3, <3>1, <3>2, <3>3 DEF Entitled, Mine
    <3>5. Cardinality(Entitled(q)') + 1 <= Cardinality(E) /\ Cardinality(Entitled(q)') \in Nat /\ IsFiniteSet(Entitled(q)')
      BY <1>1, <3>4, Counting, FS_CardinalityType
    <3>6. Copies(q)' <= 1 + mishaps'
      BY <1>1, <1>2, <1>6, <2>1, <3>5 DEF Copies
    <3>7. NoticeOK(q)'
      BY <1>1, <2>1, <3>1, <3>2, <3>5, <3>6 DEF NoticeOK
    <3>8. notices' = [notices EXCEPT ![q] = notices[q]] /\ notices[q] >= notices[q]
          /\ request' = [request EXCEPT ![q] = r]
          /\ mishaps' \in Nat /\ mishaps' >= mishaps /\ tellings' \in Nat /\ tellings' >= tellings
      BY <1>1, <1>2, <1>5, <2>1, <2>3
    <3>9. teller[m].on \in {None, q} /\ C!Idle.on \in {None, q} /\ C!Idle.at # "acknowledge"
      OBVIOUS
    <3> HIDE DEF C!Idle
    <3> QED BY <1>2, <2>1, <3>1, <3>2, <3>7, <3>8, <3>9, TellerMoves, ZenonT(60)
  <2> QED BY <2>2, <2>3
<1> QED BY <1>9, <1>10, <1>11, <1>12, <1>13

LEMMA ContactInvariance == Spec => []ContactInv
<1> USE ConstantsOK
<1>1. Init => ContactInv
  <2> SUFFICES ASSUME Init PROVE ContactInv
    OBVIOUS
  <2>1. ContactTyped /\ C!Init
    BY DEF Init, C!Init, ContactTyped, Rows, Tellers
  <2>2. ASSUME NEW q \in Requests PROVE NoticeOK(q)
    <3>1. Entitled(q) = {} /\ Cardinality({}) = 0 /\ IsFiniteSet({})
      BY <2>1, FS_EmptySet DEF C!Init, Entitled, Mine
    <3>2. ~Claimable(q) /\ notices[q] = 0 /\ mishaps = 0 /\ request[q] = C!Untold
      BY <2>1 DEF C!Init, Claimable
    <3>3. \A m \in Workers : teller[m].on # q
      BY <2>1, Types DEF C!Init
    <3> QED BY <3>1, <3>2, <3>3 DEF NoticeOK, Copies
  <2> QED BY <2>1, <2>2 DEF ContactInv, C!Init
<1>2. ASSUME ContactInv, [Next]_vars PROVE ContactInv'
  <2>1. ASSUME UNCHANGED contact PROVE ContactInv'
    <3>1. ContactTyped' /\ \A q \in Requests : NoticeOK(q)'
      BY <1>2, <2>1, RowStays DEF ContactInv, ContactTyped, contact
    <3> QED BY <1>2, <2>1, <3>1 DEF ContactInv, contact
  <2>2. ASSUME Tell PROVE ContactInv'
    <3>1. C!Next
      BY <2>2 DEF Tell
    <3>2. CASE \E q \in Requests : C!Expire(q) \/ C!Submit(q) \/ C!Verify(q) \/ C!RetryDue(q)
      BY <1>2, <3>2, ContactRowStep
    <3>3. ASSUME NEW m \in Workers, NEW q \in Requests, C!ClaimNotice(m, q) PROVE ContactInv'
      BY <1>2, <3>3, ContactClaimStep
    <3>4. ASSUME NEW m \in Workers,
                 C!Notify(m) \/ C!NotifyFails(m) \/ C!Acknowledge(m) \/ C!GiveBack(m) \/ C!Crash(m)
          PROVE  ContactInv'
      <4>1. teller[m] # C!Idle
        BY <3>4 DEF C!Notify, C!NotifyFails, C!Acknowledge, C!GiveBack, C!Crash, C!At
      <4>2. teller[m].on \in Requests
        BY <1>2, <4>1, Types DEF ContactInv
      <4> QED BY <1>2, <3>4, <4>2, ContactServeStep
    <3> QED BY <3>1, <3>2, <3>3, <3>4 DEF C!Next
  <2> QED BY <1>2, <2>1, <2>2 DEF Next, vars, Team, Retain, Scan, Post, Digest, Mercado, Group, Browse, Try
<1> QED BY <1>1, <1>2, PTL DEF Spec

-----------------------------------------------------------------------------
(* Delivery.  Whoever is about to submit, or has submitted, a welcome is   *)
(* alone with its row, and the row is past every claim.                    *)
Tried == {"permanent", "retryable", "outage"}
Submitting == {"send", "accepted", "unknown"} \cup Tried
Waiting == {"unsent", "queued", "retry", "claimed"}
Past == {"flight", "ambiguous", "gone"}
Row == [state : Waiting \cup Past \cup {"accepted", "failed", "suppressed"},
        token : Nat \cup {None}, leased : BOOLEAN, tries : Nat]

Stages == {"idle", "prepare", "start", "inspect", "pass", "release"} \cup Submitting
Mailer == [at : Stages, on : 1..LastUser \cup {None}, token : Nat \cup {None}, tries : Nat, last : BOOLEAN]
WelcomeTyped ==
  /\ tokens \in Nat /\ welcome \in [1..LastUser -> Row] /\ welcomes \in [1..LastUser -> Nat]
  /\ mailer \in [Workers -> Mailer]
MailerOK(r) ==
  /\ r.at \in {"prepare", "start"} \cup Submitting => r.on \in 1..LastUser
  /\ r.at \in Submitting => welcome[r.on].state \in Past
  /\ r.at \in {"send"} \cup Tried => welcomes[r.on] = 0
WelcomeOK(u) == welcomes[u] <= 1 /\ (welcome[u].state \in Waiting => welcomes[u] = 0)
WelcomeInv ==
  /\ WelcomeTyped
  /\ \A u \in 1..LastUser : WelcomeOK(u)
  /\ \A m \in Workers : MailerOK(mailer[m])
  /\ \A m, n \in Workers :
       mailer[m].at \in Submitting /\ mailer[n].at \in Submitting /\ mailer[m].on = mailer[n].on => m = n

USE DEF D!Idle, D!Unsent

LEMMA StageKept ==
  ASSUME NEW r \in Mailer, NEW x \in Stages
  PROVE  LET t == [r EXCEPT !.at = x] IN
         t \in Mailer /\ t.at = x /\ t.on = r.on /\ t.token = r.token /\ t.tries = r.tries
BY DEF Mailer

LEMMA StageTaken ==
  ASSUME NEW r \in Mailer, NEW x \in Stages, NEW u \in 1..LastUser \cup {None}, NEW k \in Nat
  PROVE  LET t == [r EXCEPT !.at = x, !.on = u, !.token = k] IN t \in Mailer /\ t.at = x /\ t.on = u
BY DEF Mailer

LEMMA StagePassed ==
  ASSUME NEW r \in Mailer, NEW x \in Stages, NEW u \in 1..LastUser \cup {None}, NEW k \in Nat, NEW l \in BOOLEAN
  PROVE  LET t == [r EXCEPT !.token = k, !.at = x, !.on = u, !.last = l]
             v == [r EXCEPT !.at = x, !.last = l]
         IN t \in Mailer /\ t.at = x /\ v \in Mailer /\ v.at = x
BY DEF Mailer

Moves(m) == mailer' \in [Workers -> Mailer] /\ \A k \in Workers \ {m} : mailer'[k] = mailer[k]
LEMMA MailerSet ==
  ASSUME WelcomeTyped, NEW m \in Workers, NEW t \in Mailer, mailer' = [mailer EXCEPT ![m] = t]
  PROVE  Moves(m) /\ mailer'[m] = t
BY DEF Moves, WelcomeTyped

(* A mailer moves on, to another stage of the same welcome or elsewhere,   *)
(* and the rows that are past every claim stay so.                         *)
LEMMA MailerMoves ==
  ASSUME WelcomeInv, NEW m \in Workers, Moves(m),
         welcome' \in [1..LastUser -> Row], welcomes' \in [1..LastUser -> Nat], tokens' \in Nat,
         \A u \in 1..LastUser : WelcomeOK(u)',
         \A u \in 1..LastUser : (\E k \in Workers \ {m} : mailer[k].at \in Submitting /\ mailer[k].on = u) =>
            welcome'[u].state \in Past /\ welcomes'[u] = welcomes[u],
         mailer'[m].at \in {"prepare", "start"} \cup Submitting => mailer'[m].on \in 1..LastUser,
         mailer'[m].at \in Submitting =>
            /\ welcome'[mailer'[m].on].state \in Past
            /\ \A k \in Workers \ {m} : mailer[k].at \in Submitting => mailer[k].on # mailer'[m].on,
         mailer'[m].at \in {"send"} \cup Tried => welcomes'[mailer'[m].on] = 0
  PROVE  WelcomeInv'
<1>1. mailer' \in [Workers -> Mailer] /\ \A k \in Workers \ {m} : mailer'[k] = mailer[k]
  BY DEF Moves
<1>2. WelcomeTyped'
  BY <1>1 DEF WelcomeInv, WelcomeTyped
<1>3. MailerOK(mailer[m])'
  BY <1>1 DEF MailerOK
<1>4. \A k \in Workers \ {m} : MailerOK(mailer[k])'
  BY <1>1 DEF MailerOK, WelcomeInv, Submitting, Tried
<1>5. \A k, n \in Workers :
        mailer'[k].at \in Submitting /\ mailer'[n].at \in Submitting /\ mailer'[k].on = mailer'[n].on => k = n
  BY <1>1 DEF WelcomeInv
<1> QED BY <1>1, <1>2, <1>3, <1>4, <1>5 DEF WelcomeInv

(* ... as when it writes the row of the welcome it alone may write, *)
LEMMA MailerPuts ==
  ASSUME WelcomeInv, NEW m \in Workers, Moves(m), tokens' \in Nat,
         NEW u \in 1..LastUser,
         welcome' \in [1..LastUser -> Row], welcomes' \in [1..LastUser -> Nat],
         welcomes'[u] <= 1, welcome'[u].state \in Waiting => welcomes'[u] = 0,
         \A v \in 1..LastUser \ {u} : welcome'[v] = welcome[v] /\ welcomes'[v] = welcomes[v],
         \A k \in Workers \ {m} : mailer[k].at \in Submitting => mailer[k].on # u,
         mailer'[m].at \in {"prepare", "start"} => mailer'[m].on \in 1..LastUser,
         mailer'[m].at \in Submitting => mailer'[m].on = u /\ welcome'[u].state \in Past,
         mailer'[m].at \in {"send"} \cup Tried => welcomes'[u] = 0
  PROVE  WelcomeInv'
<1>1. /\ \A v \in 1..LastUser : WelcomeOK(v)
      /\ \A k \in Workers : MailerOK(mailer[k])
  BY DEF WelcomeInv
<1>2. \A v \in 1..LastUser : WelcomeOK(v)'
  BY <1>1 DEF WelcomeOK
<1>3. ASSUME NEW v \in 1..LastUser, NEW k \in Workers \ {m}, mailer[k].at \in Submitting, mailer[k].on = v
      PROVE  welcome'[v].state \in Past /\ welcomes'[v] = welcomes[v]
  <2>1. v # u /\ MailerOK(mailer[k])
    BY <1>1, <1>3
  <2> QED BY <1>3, <2>1 DEF MailerOK
<1>4. {"send"} \cup Tried \subseteq Submitting
  BY DEF Submitting
<1>5. /\ mailer'[m].at \in {"prepare", "start"} \cup Submitting => mailer'[m].on \in 1..LastUser
      /\ mailer'[m].at \in Submitting =>
           /\ welcome'[mailer'[m].on].state \in Past
           /\ \A k \in Workers \ {m} : mailer[k].at \in Submitting => mailer[k].on # mailer'[m].on
      /\ mailer'[m].at \in {"send"} \cup Tried => welcomes'[mailer'[m].on] = 0
  BY <1>4
<1> QED BY <1>2, <1>3, <1>5, MailerMoves

(* ... or when it leaves every row as it is and submits nothing. *)
LEMMA MailerLeaves ==
  ASSUME WelcomeInv, NEW m \in Workers, Moves(m), tokens' \in Nat,
         UNCHANGED <<welcome, welcomes>>, mailer'[m].at \notin Submitting,
         mailer'[m].at \in {"prepare", "start"} => mailer'[m].on \in 1..LastUser
  PROVE  WelcomeInv'
<1>1. /\ welcome \in [1..LastUser -> Row] /\ welcomes \in [1..LastUser -> Nat]
      /\ \A v \in 1..LastUser : WelcomeOK(v)'
      /\ \A k \in Workers : MailerOK(mailer[k])
  BY DEF WelcomeInv, WelcomeTyped, WelcomeOK
<1>2. \A v \in 1..LastUser : (\E k \in Workers \ {m} : mailer[k].at \in Submitting /\ mailer[k].on = v) =>
            welcome'[v].state \in Past /\ welcomes'[v] = welcomes[v]
  BY <1>1 DEF MailerOK
<1>3. mailer'[m].at \notin {"send"} \cup Tried
  BY DEF Submitting
<1> QED BY <1>1, <1>2, <1>3, MailerMoves

(* Rows that move by themselves: a signup, an erased account, a recovery.  *)
LEMMA WelcomeRowStep ==
  ASSUME ConstantsOK, WelcomeInv,
         \/ D!ThrottleEnds \/ D!TraversalEnds
         \/ \E u \in D!Users : D!SignUp(u) \/ D!Erase(u) \/ D!LeaseEnds(u) \/ D!Recover(u)
  PROVE  WelcomeInv'
<1>1. mailer' = mailer /\ tokens' = tokens /\ welcomes' = welcomes /\ welcome \in [1..LastUser -> Row]
  BY Zenon DEF WelcomeInv, WelcomeTyped, D!ThrottleEnds, D!TraversalEnds, D!history, D!SignUp, D!Erase, D!LeaseEnds, D!Recover
<1>2. ASSUME NEW u \in 1..LastUser, NEW x \in Row, welcome' = [welcome EXCEPT ![u] = x],
             x.state \in Waiting => welcome[u].state \in Waiting,
             welcome[u].state \in Past => x.state \in Past
      PROVE  WelcomeInv'
  <2>1. /\ welcome' \in [1..LastUser -> Row]
        /\ \A v \in 1..LastUser : /\ welcome'[v].state \in Waiting => welcome[v].state \in Waiting
                                  /\ welcome[v].state \in Past => welcome'[v].state \in Past
    BY <1>1, <1>2
  <2>2. WelcomeTyped'
    BY <1>1, <2>1 DEF WelcomeInv, WelcomeTyped
  <2>3. ASSUME NEW v \in 1..LastUser PROVE WelcomeOK(v)'
    <3>1. WelcomeOK(v)
      BY DEF WelcomeInv
    <3> QED BY <1>1, <2>1, <3>1 DEF WelcomeOK, Waiting
  <2>4. ASSUME NEW k \in Workers PROVE MailerOK(mailer[k])'
    <3>1. MailerOK(mailer[k])
      BY DEF WelcomeInv
    <3> QED BY <1>1, <2>1, <3>1 DEF MailerOK, Submitting, Tried, Past
  <2> QED BY <1>1, <2>2, <2>3, <2>4 DEF WelcomeInv
<1>3. \A u \in 1..LastUser :
        /\ welcome[u] \in Row
        /\ \A z, k, l : /\ [welcome[u] EXCEPT !.state = z].state = z
                        /\ [welcome[u] EXCEPT !.state = z, !.token = k].state = z
                        /\ [welcome[u] EXCEPT !.leased = l].state = welcome[u].state
  BY <1>1 DEF Row
<1>4. CASE D!ThrottleEnds \/ D!TraversalEnds
  <2>1. welcome' = welcome
    BY <1>4 DEF D!ThrottleEnds, D!TraversalEnds
  <2> QED BY <1>1, <2>1 DEF WelcomeInv, WelcomeTyped, WelcomeOK, MailerOK
<1>5. ASSUME NEW u \in 1..LastUser, D!SignUp(u) PROVE WelcomeInv'
  <2> DEFINE x == IF welcome[u].state = "unsent" THEN [welcome[u] EXCEPT !.state = "queued"] ELSE welcome[u]
  <2>1. welcome' = [welcome EXCEPT ![u] = x]
    BY <1>1, <1>5 DEF D!SignUp, D!Enqueued
  <2>2. x \in Row /\ (x.state \in Waiting => welcome[u].state \in Waiting)
        /\ (welcome[u].state \in Past => x.state \in Past)
    BY <1>3 DEF Row, Waiting, Past
  <2> HIDE DEF x
  <2> QED BY <1>2, <2>1, <2>2
<1>6. ASSUME NEW u \in 1..LastUser, D!Erase(u) PROVE WelcomeInv'
  <2> DEFINE x == [D!Unsent EXCEPT !.state = "gone"]
  <2>1. welcome' = [welcome EXCEPT ![u] = x]
    BY <1>6 DEF D!Erase
  <2>2. x \in Row /\ x.state \notin Waiting /\ x.state \in Past
    BY DEF Row, Waiting, Past
  <2> HIDE DEF x
  <2> QED BY <1>2, <2>1, <2>2
<1>7. ASSUME NEW u \in 1..LastUser, D!LeaseEnds(u) PROVE WelcomeInv'
  <2> DEFINE x == [welcome[u] EXCEPT !.leased = FALSE]
  <2>1. welcome' = [welcome EXCEPT ![u] = x]
    BY <1>7 DEF D!LeaseEnds
  <2>2. x \in Row /\ x.state = welcome[u].state
    BY <1>3 DEF Row
  <2> HIDE DEF x
  <2> QED BY <1>2, <2>1, <2>2
<1>8. ASSUME NEW u \in 1..LastUser, D!Recover(u) PROVE WelcomeInv'
  <2> DEFINE x == [welcome[u] EXCEPT !.state = D!Recovered(u), !.token = None]
  <2>1. welcome' = [welcome EXCEPT ![u] = x] /\ welcome[u].state \in {"claimed", "flight"}
    BY Zenon, <1>8 DEF D!Recover
  <2>2. x \in Row /\ (x.state \in Waiting => welcome[u].state \in Waiting)
        /\ (welcome[u].state \in Past => x.state \in Past)
    <3> DEFINE y == D!Recovered(u)
    <3>1. y \in {"queued", "ambiguous"} /\ (y = "queued" => welcome[u].state = "claimed")
      BY DEF D!Recovered
    <3>2. x = [welcome[u] EXCEPT !.state = y, !.token = None]
      OBVIOUS
    <3> HIDE DEF x, y
    <3>3. y \in Waiting \cup Past \cup {"accepted", "failed", "suppressed"}
      BY <3>1 DEF Waiting, Past
    <3>4. welcome[u] \in Row
      BY <1>3
    <3>5. x \in Row /\ x.state = y
      BY <3>2, <3>3, <3>4 DEF Row
    <3> QED BY <2>1, <3>1, <3>5 DEF Waiting, Past
  <2> HIDE DEF x
  <2> QED BY <1>2, <2>1, <2>2
<1> QED BY <1>4, <1>5, <1>6, <1>7, <1>8 DEF D!Users

(* One mailer's step on a welcome. *)
LEMMA WelcomeMailerStep ==
  ASSUME ConstantsOK, WelcomeInv, NEW m \in Workers,
         \/ \E u \in D!Users : D!ClaimWelcome(m, u)
         \/ D!Prepare(m) \/ D!StartSubmission(m) \/ D!Send(m) \/ D!Refused(m) \/ D!Unknown(m) \/ D!Record(m)
  PROVE  WelcomeInv'
<1> DEFINE r == mailer[m]
<1>1. r \in Mailer /\ MailerOK(r) /\ tokens \in Nat /\ welcome \in [1..LastUser -> Row] /\ WelcomeTyped
      /\ welcomes \in [1..LastUser -> Nat] /\ \A u \in 1..LastUser : WelcomeOK(u)
  BY DEF WelcomeInv, WelcomeTyped
<1>2. \A k \in Workers : mailer[k].at \in Submitting =>
        mailer[k].on \in 1..LastUser /\ welcome[mailer[k].on].state \in Past
  BY DEF WelcomeInv, MailerOK
<1>3. r.at \in Submitting => \A k \in Workers \ {m} : mailer[k].at \in Submitting => mailer[k].on # r.on
  BY DEF WelcomeInv
<1>4. D!Idle \in Mailer /\ D!Idle.at \notin {"prepare", "start"} \cup Submitting
  BY DEF Mailer, Stages, Submitting, Tried
<1>5. {"idle", "prepare", "start"} \cup Submitting \subseteq Stages
  BY DEF Stages
<1>6. ASSUME NEW u \in D!Users, D!ClaimWelcome(m, u) PROVE WelcomeInv'
  <2> DEFINE t == [D!Idle EXCEPT !.at = "prepare", !.on = u, !.token = tokens + 1]
             x == [welcome[u] EXCEPT !.state = "claimed", !.token = tokens + 1, !.leased = TRUE]
  <2>1. /\ mailer' = [mailer EXCEPT ![m] = t] /\ tokens' = tokens + 1 /\ welcomes' = welcomes
        /\ welcome' = [welcome EXCEPT ![u] = x]
        /\ welcome[u].state \in {"queued", "retry"} /\ u \in 1..LastUser
    BY Zenon, <1>6 DEF D!ClaimWelcome, D!Take, D!Due, D!history, D!Users
  <2>2. t \in Mailer /\ t.at = "prepare" /\ t.on = u
    <3>1. "prepare" \in Stages /\ tokens + 1 \in Nat /\ u \in 1..LastUser \cup {None}
      BY <1>1, <1>5, <2>1
    <3>2. ASSUME NEW i \in Mailer, NEW k \in Nat
          PROVE  LET v == [i EXCEPT !.at = "prepare", !.on = u, !.token = k]
                 IN v \in Mailer /\ v.at = "prepare" /\ v.on = u
      BY <3>1 DEF Mailer
    <3> HIDE DEF D!Idle
    <3> QED BY Zenon, <1>4, <3>1, <3>2
  <2>3. welcome[u] \in Row /\ tokens + 1 \in Nat /\ welcome[u].state \in Waiting
    BY <1>1, <2>1 DEF Waiting
  <2>4. x \in Row
    BY <2>3 DEF Row, Waiting
  <2> HIDE DEF t, x
  <2>5. /\ welcome' \in [1..LastUser -> Row] /\ welcomes' \in [1..LastUser -> Nat] /\ tokens' \in Nat
        /\ \A v \in 1..LastUser \ {u} : welcome'[v] = welcome[v] /\ welcomes'[v] = welcomes[v]
        /\ welcomes'[u] <= 1 /\ (welcome'[u].state \in Waiting => welcomes'[u] = 0)
    BY <1>1, <2>1, <2>3, <2>4 DEF WelcomeOK
  <2>6. \A k \in Workers \ {m} : mailer[k].at \in Submitting => mailer[k].on # u
    BY <1>2, <2>1 DEF Past
  <2>7. Moves(m) /\ mailer'[m] = t
    BY <1>1, <2>1, <2>2, MailerSet
  <2>8. mailer'[m].at \notin Submitting /\ mailer'[m].at \notin {"send"} \cup Tried /\ mailer'[m].on \in 1..LastUser
    BY <2>1, <2>2, <2>7 DEF Submitting, Tried
  <2> QED BY <2>1, <2>5, <2>6, <2>7, <2>8, MailerPuts
<1>7. CASE D!Prepare(m)
  <2> DEFINE t == [r EXCEPT !.at = "start", !.tries = welcome[r.on].tries]
  <2>1. /\ r.at = "prepare" /\ r.on \in 1..LastUser /\ welcomes' = welcomes /\ tokens' \in Nat
        /\ welcome[r.on] \in Row
    BY <1>1, <1>7 DEF D!Prepare, D!At, D!history, MailerOK
  <2>2. CASE mailer' = [mailer EXCEPT ![m] = D!Idle] /\ welcome' = welcome
    <3> HIDE DEF D!Idle
    <3>1. Moves(m) /\ mailer'[m] = D!Idle
      BY <1>1, <1>4, <2>2, MailerSet
    <3> QED BY <1>4, <2>1, <2>2, <3>1, MailerLeaves
  <2>3. CASE mailer' = [mailer EXCEPT ![m] = t] /\ welcome' = welcome
    <3>1. t \in Mailer /\ t.at = "start" /\ t.on = r.on
      BY <1>1, <1>5, <2>1 DEF Mailer, Row
    <3>2. t.at \notin Submitting
      BY <3>1 DEF Submitting, Tried
    <3> HIDE DEF t
    <3>3. Moves(m) /\ mailer'[m] = t
      BY <1>1, <2>3, <3>1, MailerSet
    <3> QED BY <2>1, <2>3, <3>1, <3>2, <3>3, MailerLeaves
  <2>4. ASSUME NEW to \in {"suppressed", "queued"}, welcome[r.on].state = "claimed",
               D!Put(m, to), mailer' = [mailer EXCEPT ![m] = D!Idle]
        PROVE  WelcomeInv'
    <3> DEFINE x == [welcome[r.on] EXCEPT !.state = to, !.token = None, !.leased = FALSE]
    <3>1. welcome' = [welcome EXCEPT ![r.on] = x]
      BY <2>4 DEF D!Put
    <3>2. x \in Row
      BY <2>1 DEF Row, Waiting
    <3> HIDE DEF x
    <3>3. /\ welcome' \in [1..LastUser -> Row] /\ welcomes' \in [1..LastUser -> Nat]
          /\ \A v \in 1..LastUser \ {r.on} : welcome'[v] = welcome[v] /\ welcomes'[v] = welcomes[v]
          /\ welcomes'[r.on] <= 1 /\ (welcome'[r.on].state \in Waiting => welcomes'[r.on] = 0)
      BY <1>1, <2>1, <2>4, <3>1, <3>2 DEF WelcomeOK, Waiting
    <3>4. \A k \in Workers \ {m} : mailer[k].at \in Submitting => mailer[k].on # r.on
      BY <1>2, <2>4 DEF Past
    <3>5. D!Idle.at \notin {"prepare", "start"} /\ D!Idle.at \notin Submitting /\ D!Idle.at \notin {"send"} \cup Tried
      BY <1>4 DEF Submitting
    <3> HIDE DEF D!Idle
    <3>6. Moves(m) /\ mailer'[m] = D!Idle
      BY <1>1, <1>4, <2>4, MailerSet
    <3> QED BY <2>1, <3>3, <3>4, <3>5, <3>6, MailerPuts
  <2>5. \/ mailer' = [mailer EXCEPT ![m] = D!Idle] /\ welcome' = welcome
        \/ mailer' = [mailer EXCEPT ![m] = t] /\ welcome' = welcome
        \/ \E to \in {"suppressed", "queued"} :
              welcome[r.on].state = "claimed" /\ D!Put(m, to) /\ mailer' = [mailer EXCEPT ![m] = D!Idle]
    <3> HIDE DEF D!Idle
    <3> QED BY <1>7, <1>1 DEF D!Prepare, D!Rest, D!Row, WelcomeInv, WelcomeTyped
  <2> QED BY <2>2, <2>3, <2>4, <2>5
<1>8. CASE D!StartSubmission(m)
  <2> DEFINE t == [r EXCEPT !.at = "send"]
             again == welcome[r.on].tries + 1
             x == [welcome[r.on] EXCEPT !.state = "flight", !.tries = again]
  <2>1. r.at = "start" /\ r.on \in 1..LastUser /\ welcomes' = welcomes /\ tokens' \in Nat /\ welcome[r.on] \in Row
    BY <1>1, <1>8 DEF D!StartSubmission, D!At, D!history, MailerOK
  <2>2. CASE mailer' = [mailer EXCEPT ![m] = D!Idle] /\ welcome' = welcome
    <3> HIDE DEF D!Idle
    <3>1. Moves(m) /\ mailer'[m] = D!Idle
      BY <1>1, <1>4, <2>2, MailerSet
    <3> QED BY <1>4, <2>1, <2>2, <3>1, MailerLeaves
  <2>3. CASE mailer' = [mailer EXCEPT ![m] = t] /\ welcome' = [welcome EXCEPT ![r.on] = x]
             /\ welcome[r.on].state = "claimed"
    <3>1. t \in Mailer /\ t.at = "send" /\ t.on = r.on
      BY <1>1, <1>5, <2>1 DEF Mailer, Submitting
    <3>2. x \in Row /\ x.state = "flight"
      <4>1. "flight" \in Waiting \cup Past \cup {"accepted", "failed", "suppressed"}
        BY DEF Past
      <4>2. ASSUME NEW y \in Row, NEW n \in Nat
            PROVE  LET z == [y EXCEPT !.state = "flight", !.tries = n] IN z \in Row /\ z.state = "flight"
        BY <4>1 DEF Row
      <4>3. again \in Nat
        BY <2>1 DEF Row
      <4> HIDE DEF again
      <4> QED BY Zenon, <2>1, <4>2, <4>3
    <3> HIDE DEF t, x
    <3>3. Moves(m) /\ mailer'[m] = t
      BY <1>1, <2>3, <3>1, MailerSet
    <3>4. /\ welcome' \in [1..LastUser -> Row] /\ welcomes' \in [1..LastUser -> Nat]
          /\ \A v \in 1..LastUser \ {r.on} : welcome'[v] = welcome[v] /\ welcomes'[v] = welcomes[v]
          /\ welcomes'[r.on] = 0 /\ welcome'[r.on].state \in Past
      BY <1>1, <2>1, <2>3, <3>2 DEF WelcomeOK, Waiting, Past
    <3>5. \A k \in Workers \ {m} : mailer[k].at \in Submitting => mailer[k].on # r.on
      BY <1>2, <2>3 DEF Past
    <3>6. mailer'[m].at \notin {"prepare", "start"} /\ welcomes'[r.on] <= 1
      BY <3>1, <3>3, <3>4
    <3> QED BY <2>1, <3>1, <3>3, <3>4, <3>5, <3>6, MailerPuts
  <2>4. CASE D!Startable(m)
    <3>1. mailer' = [mailer EXCEPT ![m] = t]
      BY <1>8, <2>4 DEF D!StartSubmission, D!Go
    <3>2. welcome' = [welcome EXCEPT ![r.on] = x]
      BY <1>8, <2>4 DEF D!StartSubmission, D!Row
    <3>3. welcome[r.on].state = "claimed"
      BY <2>4 DEF D!Startable, D!Row
    <3> QED BY <2>3, <3>1, <3>2, <3>3
  <2>5. CASE ~D!Startable(m)
    BY <1>8, <2>2, <2>5 DEF D!StartSubmission, D!Rest
  <2> QED BY <2>4, <2>5
(* A submission and its outcome: the row is past every claim, and ours. *)
<1>9. ASSUME NEW x \in Submitting, NEW n \in Nat, r.at = "send",
             mailer' = [mailer EXCEPT ![m] = [r EXCEPT !.at = x]],
             welcomes' = [welcomes EXCEPT ![r.on] = n], UNCHANGED <<welcome, tokens>>,
             n <= 1, x \in {"send"} \cup Tried => n = 0
      PROVE  WelcomeInv'
  <2> DEFINE t == [r EXCEPT !.at = x]
  <2>1. r.at \in Submitting /\ r.on \in 1..LastUser /\ welcome[r.on].state \in Past
    BY <1>1, <1>9 DEF MailerOK, Submitting
  <2>2. t \in Mailer /\ t.at = x /\ t.on = r.on
    BY <1>1, <1>5, <1>9 DEF Mailer
  <2>3. mailer' = [mailer EXCEPT ![m] = t]
    BY <1>9
  <2> HIDE DEF t
  <2>4. Moves(m) /\ mailer'[m] = t
    BY <1>1, <2>2, <2>3, MailerSet
  <2>5. /\ welcome' \in [1..LastUser -> Row] /\ welcomes' \in [1..LastUser -> Nat] /\ tokens' \in Nat
        /\ \A v \in 1..LastUser \ {r.on} : welcome'[v] = welcome[v] /\ welcomes'[v] = welcomes[v]
        /\ welcomes'[r.on] = n /\ welcome'[r.on].state \in Past
    BY <1>1, <1>9, <2>1
  <2>6. (welcome'[r.on].state \in Waiting => welcomes'[r.on] = 0) /\ mailer'[m].at \notin {"prepare", "start"}
    BY <1>9, <2>2, <2>4, <2>5 DEF Waiting, Past, Submitting, Tried
  <2> QED BY <1>3, <1>9, <2>1, <2>2, <2>4, <2>5, <2>6, MailerPuts
<1>10. CASE D!Send(m) \/ D!Refused(m) \/ D!Unknown(m)
  <2>1. r.at = "send" /\ UNCHANGED <<welcome, tokens>>
    BY <1>10 DEF D!Send, D!Refused, D!Unknown, D!At, D!tables
  <2>2. r.on \in 1..LastUser /\ welcomes[r.on] = 0
    BY <1>1, <2>1 DEF MailerOK, Submitting
  <2>3. \E x \in Submitting, n \in {0, 1} :
          /\ mailer' = [mailer EXCEPT ![m] = [r EXCEPT !.at = x]]
          /\ welcomes' = [welcomes EXCEPT ![r.on] = n] /\ (x \in {"send"} \cup Tried => n = 0)
    <3>1. CASE D!Send(m)
      <4>1. "accepted" \in Submitting /\ "accepted" \notin {"send"} \cup Tried
        BY DEF Submitting, Tried
      <4>2. mailer' = [mailer EXCEPT ![m] = [r EXCEPT !.at = "accepted"]]
        BY <3>1 DEF D!Send, D!Go
      <4>3. welcomes' = [welcomes EXCEPT ![r.on] = 1]
        BY <1>1, <2>2, <3>1 DEF D!Send
      <4> QED BY <4>1, <4>2, <4>3
    <3>2. CASE D!Refused(m)
      <4>1. Tried \subseteq Submitting /\ welcomes = [welcomes EXCEPT ![r.on] = 0]
        BY <1>1, <2>2 DEF Submitting
      <4> QED BY <1>1, <2>2, <3>2, <4>1 DEF D!Refused, D!Go, D!history, WelcomeTyped, Tried
    <3>3. CASE D!Unknown(m)
      <4>1. "unknown" \in Submitting /\ "unknown" \notin {"send"} \cup Tried
        BY DEF Submitting, Tried
      <4>2. mailer' = [mailer EXCEPT ![m] = [r EXCEPT !.at = "unknown"]]
        BY <3>3 DEF D!Unknown, D!Go
      <4>3. PICK n \in {0, 1} : welcomes' = [welcomes EXCEPT ![r.on] = welcomes[r.on] + n]
        BY <3>3 DEF D!Unknown
      <4>5. welcomes[r.on] + n = n
        BY <2>2
      <4> QED BY <4>1, <4>2, <4>3, <4>5
    <3> QED BY <1>10, <3>1, <3>2, <3>3
  <2>4. \A n \in {0, 1} : n \in Nat /\ n <= 1
    OBVIOUS
  <2> HIDE DEF r
  <2> QED BY <1>9, <2>1, <2>3, <2>4
<1>11. CASE D!Record(m)
  <2> DEFINE x == [state |-> D!Verdict(m), token |-> None, leased |-> FALSE,
                   tries |-> IF D!At(m, "outage") THEN r.tries ELSE welcome[r.on].tries]
  <2>1. r.at \in {"accepted", "unknown"} \cup Tried /\ mailer' = [mailer EXCEPT ![m] = D!Idle]
        /\ UNCHANGED <<welcomes, tokens>>
    BY <1>11 DEF D!Record, D!Rest, D!history, Tried
  <2>2. r.at \in Submitting /\ r.on \in 1..LastUser /\ welcome[r.on] \in Row /\ WelcomeOK(r.on)
    BY <1>1, <2>1 DEF MailerOK, Submitting
  <2>3. Moves(m) /\ mailer'[m] = D!Idle
    BY <1>1, <1>4, <2>1, MailerSet
  <2>4. CASE welcome' = welcome
    <3> HIDE DEF D!Idle
    <3> QED BY <1>1, <1>4, <2>1, <2>3, <2>4, MailerLeaves
  <2>5. CASE welcome' = [welcome EXCEPT ![r.on] = x]
    <3>1. D!Verdict(m) \in {"accepted", "ambiguous", "failed", "retry", "queued"}
          /\ (D!Verdict(m) \in {"retry", "queued"} => r.at \in Tried)
      BY <2>1 DEF D!Verdict, D!At, Tried
    <3>2. r.tries \in Nat /\ welcome[r.on].tries \in Nat
      BY <1>1, <2>2 DEF Mailer, Row
    <3>3. x \in Row /\ x.state = D!Verdict(m)
      BY <3>1, <3>2 DEF Row, Waiting, Past
    <3> HIDE DEF x
    <3>4. D!Verdict(m) \in Waiting => welcomes[r.on] = 0
      BY <1>1, <3>1 DEF Waiting, MailerOK
    <3>5. /\ welcome' \in [1..LastUser -> Row] /\ welcomes' \in [1..LastUser -> Nat] /\ tokens' \in Nat
          /\ \A v \in 1..LastUser \ {r.on} : welcome'[v] = welcome[v] /\ welcomes'[v] = welcomes[v]
          /\ welcomes'[r.on] <= 1 /\ (welcome'[r.on].state \in Waiting => welcomes'[r.on] = 0)
      BY <1>1, <2>1, <2>2, <2>5, <3>3, <3>4 DEF WelcomeOK
    <3>6. D!Idle.at \notin {"prepare", "start"} /\ D!Idle.at \notin Submitting /\ D!Idle.at \notin {"send"} \cup Tried
      BY <1>4 DEF Submitting
    <3> HIDE DEF D!Idle
    <3> QED BY <1>3, <2>2, <2>3, <3>5, <3>6, MailerPuts
  <2> QED BY <1>11, <2>4, <2>5 DEF D!Record
<1> QED BY <1>6, <1>7, <1>8, <1>10, <1>11

(* One step of the traversal of older accounts, or a mailer that dies.     *)
LEMMA WelcomeTraversalStep ==
  ASSUME ConstantsOK, WelcomeInv, NEW m \in Workers,
         \/ D!ClaimDiscovery(m) \/ D!Inspect(m) \/ D!InspectFails(m)
         \/ D!PassOver(m) \/ D!ReleaseDiscovery(m) \/ D!Crash(m)
  PROVE  WelcomeInv'
<1> DEFINE r == mailer[m]
<1>1. r \in Mailer /\ tokens \in Nat /\ welcome \in [1..LastUser -> Row] /\ WelcomeTyped
      /\ welcomes \in [1..LastUser -> Nat] /\ \A u \in 1..LastUser : WelcomeOK(u)
  BY DEF WelcomeInv, WelcomeTyped
<1>2. D!Idle \in Mailer /\ D!Idle.at \notin {"prepare", "start"} \cup Submitting
  BY DEF Mailer, Stages, Submitting, Tried
<1>3. {"idle", "inspect", "pass", "release"} \subseteq Stages
      /\ {"inspect", "pass", "release"} \cap ({"prepare", "start"} \cup Submitting) = {}
  BY DEF Stages, Submitting, Tried
(* Elsewhere, with every row as it is. *)
<1>4. ASSUME NEW t \in Mailer, mailer' = [mailer EXCEPT ![m] = t], welcome' = welcome, welcomes' = welcomes,
             tokens' \in Nat, t.at \notin {"prepare", "start"} \cup Submitting
      PROVE  WelcomeInv'
  <2>1. Moves(m) /\ mailer'[m] = t
    BY <1>1, <1>4, MailerSet
  <2> QED BY <1>4, <2>1, MailerLeaves
<1>5. CASE D!ClaimDiscovery(m)
  <2>1. PICK page \in SUBSET (1..LastUser) :
          mailer' = [mailer EXCEPT ![m] = [D!Idle EXCEPT !.token = tokens + 1,
                       !.at = IF page = {} THEN "release" ELSE "inspect",
                       !.on = IF page = {} THEN None ELSE D!Min(page), !.last = page = {}]]
    <3> HIDE DEF D!Idle
    <3> QED BY Zenon, <1>5 DEF D!ClaimDiscovery, D!Existing, D!Users
  <2>2. page # {} => D!Min(page) \in page
    <3> SUFFICES ASSUME page # {} PROVE D!Min(page) \in page
      OBVIOUS
    <3>1. page \subseteq Nat
      BY ConstantsOK DEF D!ConstantsOK
    <3>2. PICK k \in page : \A n \in page : k <= n
      BY <3>1, Least
    <3> QED BY <3>2 DEF D!Min
  <2> DEFINE on == IF page = {} THEN None ELSE D!Min(page)
             at == IF page = {} THEN "release" ELSE "inspect"
             last == page = {}
             t == [D!Idle EXCEPT !.token = tokens + 1, !.at = at, !.on = on, !.last = last]
  <2>3. on \in 1..LastUser \cup {None} /\ at \in {"inspect", "release"}
    BY <2>2
  <2>4. t \in Mailer /\ t.at = at
    <3>1. at \in Stages
      BY <1>3, <2>3
    <3>2. tokens + 1 \in Nat /\ last \in BOOLEAN
      BY <1>1
    <3> HIDE DEF D!Idle, on, at, last
    <3> QED BY <1>2, <2>3, <3>1, <3>2 DEF Mailer
  <2>5. mailer' = [mailer EXCEPT ![m] = t]
    BY <2>1
  <2> HIDE DEF t
  <2>6. t.at \notin {"prepare", "start"} \cup Submitting
    BY <1>3, <2>3, <2>4
  <2>7. welcome' = welcome /\ welcomes' = welcomes /\ tokens' \in Nat
    BY <1>1, <1>5 DEF D!ClaimDiscovery
  <2> QED BY Zenon, <1>4, <2>4, <2>5, <2>6, <2>7
(* To another stage of the same errand. *)
<1>6. ASSUME NEW x \in {"pass", "release"}, NEW l \in BOOLEAN, welcome' = welcome, welcomes' = welcomes, tokens' = tokens,
             \/ mailer' = [mailer EXCEPT ![m] = [r EXCEPT !.at = x]]
             \/ mailer' = [mailer EXCEPT ![m] = [r EXCEPT !.at = x, !.last = l]]
      PROVE  WelcomeInv'
  <2>1. ASSUME NEW t, t = [r EXCEPT !.at = x] \/ t = [r EXCEPT !.at = x, !.last = l]
        PROVE  t \in Mailer /\ t.at = x
    BY <1>1, <1>3, <2>1 DEF Mailer
  <2>2. PICK t \in Mailer : mailer' = [mailer EXCEPT ![m] = t] /\ t.at = x
    BY <1>6, <2>1
  <2> QED BY <1>1, <1>3, <1>4, <1>6, <2>2
<1>7. CASE D!InspectFails(m)
  BY ZenonT(30), <1>6, <1>7 DEF D!InspectFails, D!Go, D!tables, D!history
<1>8. CASE D!PassOver(m)
  <2>1. welcome' = welcome /\ welcomes' = welcomes /\ tokens' = tokens
    BY <1>8 DEF D!PassOver
  <2>2. \E l \in BOOLEAN : \/ mailer' = [mailer EXCEPT ![m] = [r EXCEPT !.at = "release"]]
                           \/ mailer' = [mailer EXCEPT ![m] = [r EXCEPT !.at = "release", !.last = l]]
    BY Zenon, <1>8 DEF D!PassOver, D!Go, D!Finishes
  <2> QED BY Zenon, <1>6, <2>1, <2>2
<1>9. CASE D!ReleaseDiscovery(m) \/ D!Crash(m)
  <2>1. mailer' = [mailer EXCEPT ![m] = D!Idle] /\ welcome' = welcome /\ welcomes' = welcomes /\ tokens' = tokens
    BY <1>9 DEF D!ReleaseDiscovery, D!Crash, D!Rest, D!tables, D!history
  <2> HIDE DEF D!Idle
  <2> QED BY <1>1, <1>2, <1>4, <2>1
<1>10. CASE D!Inspect(m)
  <2>1. tokens' = tokens /\ welcomes' = welcomes
    BY <1>10 DEF D!Inspect, D!history
  <2>2. PICK l \in BOOLEAN : \/ mailer' = [mailer EXCEPT ![m] = [r EXCEPT !.at = "release"]]
                             \/ mailer' = [mailer EXCEPT ![m] = [r EXCEPT !.at = "release", !.last = l]]
    BY Zenon, <1>10 DEF D!Inspect, D!Go, D!Finishes
  <2>3. \/ welcome' = welcome
        \/ r.on \in 1..LastUser /\ welcome[r.on].state = "unsent"
           /\ welcome' = [welcome EXCEPT ![r.on].state = "queued"]
    <3>1. welcome' = welcome \/ (welcome[r.on].state = "unsent" /\ welcome' = [welcome EXCEPT ![r.on].state = "queued"])
      BY <1>10 DEF D!Inspect, D!Enqueued
    <3>2. r.on \notin 1..LastUser => [welcome EXCEPT ![r.on].state = "queued"] = welcome
      BY <1>1
    <3> QED BY <3>1, <3>2
  <2>4. CASE welcome' = welcome
    BY ZenonT(30), <1>6, <2>1, <2>2, <2>4
  <2>5. CASE r.on \in 1..LastUser /\ welcome[r.on].state = "unsent"
             /\ welcome' = [welcome EXCEPT ![r.on].state = "queued"]
    <3>1. ASSUME NEW t, t = [r EXCEPT !.at = "release"] \/ t = [r EXCEPT !.at = "release", !.last = l]
          PROVE  t \in Mailer /\ t.at = "release"
      BY <1>1, <1>3, <3>1 DEF Mailer
    <3>2. PICK t \in Mailer : mailer' = [mailer EXCEPT ![m] = t] /\ t.at = "release"
      BY <2>2, <3>1
    <3>3. Moves(m) /\ mailer'[m] = t
      BY <1>1, <3>2, MailerSet
    <3>4. welcome[r.on] \in Row
      BY <1>1, <2>5
    <3>5. [welcome[r.on] EXCEPT !.state = "queued"] \in Row
      BY <3>4 DEF Row, Waiting
    <3>6. welcomes[r.on] = 0
      BY <1>1, <2>5 DEF WelcomeOK, Waiting
    <3>7. /\ welcome' \in [1..LastUser -> Row] /\ welcomes' \in [1..LastUser -> Nat] /\ tokens' \in Nat
          /\ \A v \in 1..LastUser \ {r.on} : welcome'[v] = welcome[v] /\ welcomes'[v] = welcomes[v]
          /\ welcomes'[r.on] <= 1 /\ (welcome'[r.on].state \in Waiting => welcomes'[r.on] = 0)
      BY <1>1, <2>1, <2>5, <3>5, <3>6
    <3>8. \A k \in Workers \ {m} : mailer[k].at \in Submitting => mailer[k].on # r.on
      BY <2>5 DEF WelcomeInv, MailerOK, Past
    <3>9. mailer'[m].at \notin {"prepare", "start"} \cup Submitting /\ mailer'[m].at \notin {"send"} \cup Tried
      BY <1>3, <3>2, <3>3 DEF Submitting
    <3> QED BY <2>5, <3>3, <3>7, <3>8, <3>9, MailerPuts
  <2> QED BY <2>3, <2>4, <2>5
<1> QED BY <1>5, <1>7, <1>8, <1>9, <1>10

LEMMA WelcomeInvariance == Spec => []WelcomeInv
<1> USE ConstantsOK
<1>1. Init => WelcomeInv
  <2> SUFFICES ASSUME Init PROVE WelcomeInv
    OBVIOUS
  <2>1. D!Init /\ D!Idle \in Mailer /\ D!Unsent \in Row
    BY DEF Init, Mailer, Row, Stages, Waiting
  <2>2. WelcomeTyped
    <3> HIDE DEF D!Idle, D!Unsent
    <3> QED BY <2>1 DEF D!Init, D!Users, WelcomeTyped
  <2>3. \A u \in 1..LastUser : WelcomeOK(u)
    BY <2>1 DEF D!Init, D!Users, WelcomeOK
  <2>4. \A m \in Workers : mailer[m].at = "idle"
    BY <2>1 DEF D!Init
  <2>5. "idle" \notin {"prepare", "start"} \cup Submitting /\ "idle" \notin {"send"} \cup Tried
    BY DEF Submitting, Tried
  <2> QED BY <2>2, <2>3, <2>4, <2>5 DEF WelcomeInv, MailerOK
<1>2. ASSUME WelcomeInv, [Next]_vars PROVE WelcomeInv'
  <2>1. ASSUME UNCHANGED post PROVE WelcomeInv'
    BY <1>2, <2>1 DEF WelcomeInv, WelcomeTyped, WelcomeOK, MailerOK, post
  <2>2. ASSUME Post PROVE WelcomeInv'
    <3>1. D!Next
      BY <2>2 DEF Post
    <3>2. CASE \/ D!ThrottleEnds \/ D!TraversalEnds
               \/ \E u \in D!Users : D!SignUp(u) \/ D!Erase(u) \/ D!LeaseEnds(u) \/ D!Recover(u)
      BY <1>2, <3>2, WelcomeRowStep
    <3>3. ASSUME NEW m \in Workers,
                 \/ \E u \in D!Users : D!ClaimWelcome(m, u)
                 \/ D!Prepare(m) \/ D!StartSubmission(m) \/ D!Send(m) \/ D!Refused(m) \/ D!Unknown(m) \/ D!Record(m)
          PROVE  WelcomeInv'
      BY <1>2, <3>3, WelcomeMailerStep
    <3>4. ASSUME NEW m \in Workers,
                 \/ D!ClaimDiscovery(m) \/ D!Inspect(m) \/ D!InspectFails(m)
                 \/ D!PassOver(m) \/ D!ReleaseDiscovery(m) \/ D!Crash(m)
          PROVE  WelcomeInv'
      BY <1>2, <3>4, WelcomeTraversalStep
    <3> QED BY <3>1, <3>2, <3>3, <3>4 DEF D!Next
  <2> QED BY <1>2, <2>1, <2>2 DEF Next, vars, Team, Retain, Scan, Tell, Digest, Mercado, Group, Browse, Try
<1> QED BY <1>1, <1>2, PTL DEF Spec

(* Whatever dies, is answered late or runs twice, no account is welcomed   *)
(* twice and none that may still be taken up was; and a contact notice     *)
(* goes out at most once more than there were failures, and is recorded    *)
(* as sent only when it was (welcomeEmail.ts, contact outbox).             *)
THEOREM SpecImpliesMailKept == Spec => []MailKept
<1>1. WelcomeInv => D!OneWelcome
  BY DEF WelcomeInv, WelcomeOK, D!OneWelcome, D!Users, Waiting
<1>2. ContactInv => C!NoticeKept
  <2> SUFFICES ASSUME ContactInv PROVE C!NoticeKept
    OBVIOUS
  <2>1. \A q \in Requests : NoticeOK(q) /\ Cardinality(Entitled(q)) \in Nat /\ notices[q] \in Nat
    BY FS_CardinalityType DEF ContactInv, NoticeOK, ContactTyped
  <2> QED BY <2>1 DEF C!NoticeKept, NoticeOK, Copies, ContactInv, ContactTyped
<1> QED BY <1>1, <1>2, WelcomeInvariance, ContactInvariance, PTL DEF MailKept

-----------------------------------------------------------------------------
(* Tenancy.  Who asks for what, as it was read; and an open link has a     *)
(* team to lead to.                                                        *)
Errand == {"setrole", "remove", "leave", "create", "accept", "switch", "invite", "signin"}
AskedOK(q) ==
  /\ q.kind \in Errand => q.user \in People /\ q.token \in Tokens
  /\ q.kind \in {"setrole", "remove"} => q.target \in People
  /\ q.kind = "setrole" => q.role \in T!Ranks \ {T!Outside}
  /\ q.kind = "remove" => q.read \in T!Member..T!Admin
  /\ q.kind \in {"accept", "invite"} => q.link \in Links /\ q.role \in T!Ranks
VisitorsOK == visitor = [r \in Workers |-> visitor[r]] /\ \A r \in Workers : AskedOK(visitor[r])
Seat == [user : People \cup {None}, team : BOOLEAN]
SessionsOK == session \in [Tokens -> Seat] /\ \A t \in Tokens : session[t].user = None => ~session[t].team
LinkRow == [state : {"none", "open", "accepted", "gone"}, role : T!Ranks, by : People \cup {None}]
TeamTyped ==
  /\ seat \in [People -> T!Ranks] /\ place \in [People -> Nat] /\ overtaken \in BOOLEAN
  /\ link \in [Links -> LinkRow]
LinksLive == \A i \in Links : link[i].state = "open" /\ ~overtaken => T!Members # {}
TeamInv == TeamTyped /\ VisitorsOK /\ SessionsOK /\ TeamKeepsOwner /\ LinksLive

(* Sessions stay sessions of somebody, or nobody's and nowhere. *)
LEMMA SessionsKept ==
  ASSUME ConstantsOK, SessionsOK,
         \/ session' = session
         \/ \E t \in Tokens, u \in People, b \in BOOLEAN : session' = [session EXCEPT ![t] = [user |-> u, team |-> b]]
         \/ \E ts : session' = T!Dropped(ts)
         \/ \E k \in Tokens, t \in Tokens, u \in People :
              session' = [T!Dropped({k}) EXCEPT ![t] = [user |-> u, team |-> TRUE]]
         \/ \E t \in Tokens : session' = T!Repaired(t)
         \/ \E k \in Tokens : session' = [session EXCEPT ![k].team = FALSE]
         \/ \E u \in People, b \in BOOLEAN :
              session' = [t \in Tokens |-> IF session[t].user = u THEN T!NoSession
                                           ELSE [session[t] EXCEPT !.team = @ /\ b]]
  PROVE  SessionsOK'
<1>1. None \notin People
  BY DEF ConstantsOK, T!ConstantsOK
<1>2. T!NoSession \in Seat /\ T!NoSession.user = None /\ ~T!NoSession.team
  BY DEF T!NoSession, Seat
<1>3. \A u \in People, b \in BOOLEAN : [user |-> u, team |-> b] \in Seat /\ [user |-> u, team |-> b].user # None
  BY <1>1 DEF Seat
<1>4. \A s \in Seat, b \in BOOLEAN :
        /\ [s EXCEPT !.team = b] \in Seat /\ [s EXCEPT !.team = b].user = s.user /\ [s EXCEPT !.team = b].team = b
  BY DEF Seat
<1>5. \A t \in Tokens : session[t] \in Seat /\ session[t].team \in BOOLEAN
  BY DEF SessionsOK, Seat
<1> HIDE DEF T!NoSession
<1>6. CASE session' = session
  BY <1>6 DEF SessionsOK
<1>7. ASSUME NEW t \in Tokens, NEW u \in People, NEW b \in BOOLEAN,
             session' = [session EXCEPT ![t] = [user |-> u, team |-> b]]
      PROVE  SessionsOK'
  <2> DEFINE s == [user |-> u, team |-> b]
  <2>1. s \in Seat /\ s.user # None /\ session' = [session EXCEPT ![t] = s]
    BY <1>3, <1>7
  <2> HIDE DEF s
  <2> QED BY <2>1 DEF SessionsOK
<1>8. ASSUME NEW ts PROVE /\ T!Dropped(ts) \in [Tokens -> Seat]
                          /\ \A t \in Tokens : T!Dropped(ts)[t].user = None => ~T!Dropped(ts)[t].team
  BY <1>2, <1>5 DEF T!Dropped, SessionsOK
<1>9. ASSUME NEW ts, session' = T!Dropped(ts) PROVE SessionsOK'
  BY <1>8, <1>9 DEF SessionsOK
<1>10. ASSUME NEW k \in Tokens, NEW t \in Tokens, NEW u \in People,
              session' = [T!Dropped({k}) EXCEPT ![t] = [user |-> u, team |-> TRUE]]
       PROVE  SessionsOK'
  <2> DEFINE s == [user |-> u, team |-> TRUE]
             d == T!Dropped({k})
  <2>1. s \in Seat /\ s.user # None /\ session' = [d EXCEPT ![t] = s]
    BY <1>3, <1>10
  <2>2. d \in [Tokens -> Seat] /\ \A v \in Tokens : d[v].user = None => ~d[v].team
    BY <1>8
  <2> HIDE DEF s, d
  <2> QED BY <2>1, <2>2 DEF SessionsOK
<1>11. ASSUME NEW t \in Tokens, NEW b \in BOOLEAN, session' = [session EXCEPT ![t].team = b],
              b => session[t].team
       PROVE  SessionsOK'
  <2> DEFINE s == [session[t] EXCEPT !.team = b]
  <2>1. s \in Seat /\ s.user = session[t].user /\ s.team = b /\ session' = [session EXCEPT ![t] = s]
    BY <1>4, <1>5, <1>11
  <2> HIDE DEF s
  <2> QED BY <1>11, <2>1 DEF SessionsOK
<1>12. ASSUME NEW t \in Tokens, session' = T!Repaired(t) PROVE SessionsOK'
  <2> DEFINE b == T!ActsInTeam(t)
  <2>1. b \in BOOLEAN /\ (b => session[t].team) /\ session' = [session EXCEPT ![t].team = b]
    BY <1>5, <1>12 DEF T!ActsInTeam, T!Repaired
  <2> HIDE DEF b
  <2> QED BY <1>11, <2>1
<1>13. ASSUME NEW k \in Tokens, session' = [session EXCEPT ![k].team = FALSE] PROVE SessionsOK'
  BY <1>11, <1>13
<1>14. ASSUME NEW u \in People, NEW b \in BOOLEAN,
              session' = [t \in Tokens |-> IF session[t].user = u THEN T!NoSession
                                           ELSE [session[t] EXCEPT !.team = @ /\ b]]
       PROVE  SessionsOK'
  <2>1. ASSUME NEW t \in Tokens
        PROVE  session'[t] \in Seat /\ (session'[t].user = None => ~session'[t].team)
    <3> DEFINE c == session[t].team /\ b
               s == [session[t] EXCEPT !.team = c]
    <3>1. c \in BOOLEAN /\ (c => session[t].team)
      BY <1>5
    <3>2. session'[t] = IF session[t].user = u THEN T!NoSession ELSE s
      BY <1>14
    <3> HIDE DEF c
    <3>3. s \in Seat /\ s.user = session[t].user /\ s.team = c
      BY <1>4, <1>5, <3>1
    <3> HIDE DEF s
    <3> QED BY <1>2, <3>1, <3>2, <3>3 DEF SessionsOK
  <2> QED BY <1>14, <2>1 DEF SessionsOK
<1> QED BY <1>6, <1>7, <1>9, <1>10, <1>12, <1>13, <1>14

(* What is asked for stays as it was read, or is asked anew. *)
LEMMA VisitorsKept ==
  ASSUME VisitorsOK,
         \/ visitor' = visitor
         \/ \E r \in Workers : visitor' = [visitor EXCEPT ![r] = T!Idle]
         \/ \E r \in Workers : \E q : AskedOK(q) /\ visitor' = [visitor EXCEPT ![r] = q]
  PROVE  VisitorsOK'
<1>1. AskedOK(T!Idle)
  BY DEF AskedOK, Errand, T!Idle
<1>2. ASSUME NEW r \in Workers, NEW q, AskedOK(q), visitor' = [visitor EXCEPT ![r] = q] PROVE VisitorsOK'
  <2>1. \A k \in Workers : visitor'[k] = IF k = r THEN q ELSE visitor[k]
    BY <1>2 DEF VisitorsOK
  <2>2. \A k \in Workers : AskedOK(visitor'[k])
    BY <1>2, <2>1 DEF VisitorsOK
  <2>3. visitor' = [k \in Workers |-> visitor'[k]]
    BY <1>2, <2>1 DEF VisitorsOK
  <2> QED BY <2>2, <2>3 DEF VisitorsOK
<1>3. CASE visitor' = visitor
  BY <1>3 DEF VisitorsOK
<1> QED BY <1>1, <1>2, <1>3

LEMMA VisitorStep == ASSUME ConstantsOK, TeamInv, T!Next PROVE VisitorsOK'
<1>1. VisitorsOK /\ None \notin People
  BY DEF TeamInv, ConstantsOK, T!ConstantsOK
<1>2. ASSUME NEW r \in Workers, T!Free(r) PROVE VisitorsOK'
  BY <1>1, <1>2, VisitorsKept DEF T!Free
<1>3. ASSUME NEW r \in Workers, NEW u \in People, NEW t \in Tokens, T!LookUp(r, u, t) PROVE VisitorsOK'
  <2> DEFINE q == [kind |-> "signin", user |-> u, token |-> t]
  <2>1. AskedOK(q)
    BY DEF AskedOK, Errand
  <2>2. visitor' = [visitor EXCEPT ![r] = q]
    BY <1>3 DEF T!LookUp
  <2> HIDE DEF q
  <2> QED BY <1>1, <2>1, <2>2, VisitorsKept
<1>4. ASSUME NEW r \in Workers, NEW t \in Tokens, NEW v \in People, NEW k \in T!Ranks, NEW i \in Links,
             NEW kind \in T!InTeam \cup T!Elsewhere, T!Begin(r, t, kind, v, k, i)
      PROVE  VisitorsOK'
  <2> DEFINE u == session[t].user
             q == [kind |-> kind, user |-> u, token |-> t, target |-> v, role |-> k, link |-> i, read |-> seat[v]]
  <2>1. u \in People
    <3>1. session[t] \in Seat /\ session[t] # T!NoSession /\ (session[t].user = None => ~session[t].team)
      BY <1>4 DEF T!Begin, T!Resolves, TeamInv, SessionsOK
    <3> QED BY <3>1 DEF Seat, T!NoSession
  <2>2. T!Admits(kind, u, v, k, i)
    BY <1>4 DEF T!Begin
  <2>3. kind = "setrole" => k \in T!Ranks \ {T!Outside}
    BY <2>2 DEF T!Admits, T!Member, T!Owner, T!Outside, T!Ranks
  <2>4. kind = "remove" => seat[v] \in T!Member..T!Admin
    BY <2>2 DEF T!Admits
  <2> HIDE DEF u
  <2>5. AskedOK(q)
    BY <2>1, <2>3, <2>4 DEF AskedOK
  <2>6. visitor' = [visitor EXCEPT ![r] = q]
    BY <1>4 DEF T!Begin, u
  <2> HIDE DEF q
  <2> QED BY <1>1, <2>5, <2>6, VisitorsKept
<1>5. visitor' = visitor => VisitorsOK'
  BY <1>1, VisitorsKept
<1>6. ASSUME NEW u \in People, T!Erase(u) \/ \E t \in Tokens : T!SignUp(u, t) PROVE VisitorsOK'
  BY <1>5, <1>6 DEF T!Erase, T!SignUp
<1>7. ASSUME \/ \E t \in Tokens : T!DestroySession(t)
             \/ \E i \in Links : T!RevokeInvite(i)
      PROVE  VisitorsOK'
  BY <1>5, <1>7 DEF T!DestroySession, T!RevokeInvite
<1>8. ASSUME NEW r \in Workers,
             \/ T!CreateSession(r) \/ T!SetRole(r) \/ T!RemoveMember(r) \/ T!LeaveOrg(r)
             \/ T!CreateOrg(r) \/ T!CreateInvite(r) \/ T!Die(r)
             \/ \E t \in Tokens : T!AcceptInvite(r, t) \/ T!SwitchActiveOrg(r, t)
      PROVE  VisitorsOK'
  <2>1. T!Free(r)
    BY <1>8 DEF T!CreateSession, T!SetRole, T!RemoveMember, T!LeaveOrg, T!CreateOrg, T!CreateInvite, T!Die,
                T!AcceptInvite, T!SwitchActiveOrg, T!At
  <2> QED BY <1>2, <2>1
<1> QED BY <1>3, <1>4, <1>6, <1>7, <1>8 DEF T!Next

LEMMA SessionStep == ASSUME ConstantsOK, TeamInv, T!Next PROVE SessionsOK'
<1>1. SessionsOK /\ VisitorsOK
  BY DEF TeamInv
<1>2. session' = session => SessionsOK'
  BY <1>1, SessionsKept
<1>3. ASSUME NEW t \in Tokens, NEW u \in People, NEW b \in BOOLEAN, T!Put(t, u, b) PROVE SessionsOK'
  BY <1>1, <1>3, SessionsKept DEF T!Put
<1>4. ASSUME NEW ts, session' = T!Dropped(ts) PROVE SessionsOK'
  BY <1>1, <1>4, SessionsKept
<1>5. ASSUME NEW u \in People, NEW t \in Tokens, T!SignUp(u, t) \/ \E r \in Workers : T!LookUp(r, u, t)
      PROVE  SessionsOK'
  BY <1>2, <1>3, <1>5 DEF T!SignUp, T!LookUp
<1>6. ASSUME NEW u \in People, T!Erase(u) PROVE SessionsOK'
  <2> DEFINE b == T!Others(u) # {}
  <2>1. b \in BOOLEAN /\ session' = [t \in Tokens |-> IF session[t].user = u THEN T!NoSession
                                                     ELSE [session[t] EXCEPT !.team = @ /\ b]]
    BY <1>6 DEF T!Erase
  <2> HIDE DEF b
  <2> QED BY <1>1, <2>1, SessionsKept
<1>7. ASSUME NEW t \in Tokens, T!DestroySession(t) PROVE SessionsOK'
  BY <1>4, <1>7 DEF T!DestroySession
<1>8. ASSUME NEW i \in Links, T!RevokeInvite(i) PROVE SessionsOK'
  BY <1>2, <1>8 DEF T!RevokeInvite
<1>9. ASSUME NEW r \in Workers, NEW t \in Tokens, NEW v \in People, NEW k \in T!Ranks, NEW i \in Links,
             NEW kind \in T!InTeam \cup T!Elsewhere, T!Begin(r, t, kind, v, k, i)
      PROVE  SessionsOK'
  <2>1. session' = T!Repaired(t)
    BY <1>9 DEF T!Begin
  <2> QED BY <1>1, <2>1, SessionsKept
<1>10. ASSUME NEW r \in Workers,
              \/ T!CreateSession(r) \/ T!SetRole(r) \/ T!RemoveMember(r) \/ T!LeaveOrg(r)
              \/ T!CreateOrg(r) \/ T!CreateInvite(r) \/ T!Die(r)
              \/ \E t \in Tokens : T!AcceptInvite(r, t) \/ T!SwitchActiveOrg(r, t)
       PROVE  SessionsOK'
  <2> DEFINE q == visitor[r]
  <2>1. q.kind \in Errand => q.user \in People /\ q.token \in Tokens
    BY <1>1 DEF VisitorsOK, AskedOK
  <2>2. CASE T!CreateSession(r)
    BY <1>3, <2>1, <2>2 DEF T!CreateSession, Errand
  <2>3. CASE T!SetRole(r)
    BY <1>2, <1>4, <2>3 DEF T!SetRole
  <2>4. CASE T!RemoveMember(r) \/ T!CreateOrg(r) \/ T!CreateInvite(r) \/ T!Die(r)
    BY <1>2, <2>4 DEF T!RemoveMember, T!CreateOrg, T!CreateInvite, T!Die
  <2>5. CASE T!LeaveOrg(r)
    <3>1. session' = session \/ session' = [session EXCEPT ![q.token].team = FALSE]
      BY <2>5 DEF T!LeaveOrg
    <3>2. q.token \in Tokens
      BY <2>1, <2>5 DEF T!LeaveOrg, T!At, Errand
    <3> QED BY <1>1, <3>1, <3>2, SessionsKept
  <2>6. ASSUME NEW t \in Tokens, T!AcceptInvite(r, t) \/ T!SwitchActiveOrg(r, t) PROVE SessionsOK'
    <3>1. session' = session \/ session' = [T!Dropped({q.token}) EXCEPT ![t] = [user |-> q.user, team |-> TRUE]]
      BY <2>6 DEF T!AcceptInvite, T!SwitchActiveOrg
    <3>2. q.token \in Tokens /\ q.user \in People
      BY <2>1, <2>6 DEF T!AcceptInvite, T!SwitchActiveOrg, T!At, Errand
    <3> QED BY <1>1, <3>1, <3>2, SessionsKept
  <2> QED BY <1>10, <2>2, <2>3, <2>4, <2>5, <2>6
<1> QED BY <1>5, <1>6, <1>7, <1>8, <1>9, <1>10 DEF T!Next

(* Tenancy's finite sets are the finite sets. *)
LEMMA FiniteAlike == \A set : (T!IsFiniteSet(set) <=> IsFiniteSet(set)) /\ T!Cardinality(set) = Cardinality(set)
<1>1. ASSUME NEW set PROVE T!IsFiniteSet(set) <=> IsFiniteSet(set)
  BY Zenon DEF T!IsFiniteSet, IsFiniteSet
<1>2. ASSUME NEW set PROVE T!Cardinality(set) = Cardinality(set)
  BY Zenon DEF T!Cardinality, Cardinality
<1> QED BY <1>1, <1>2

(* Somebody is given a rank, or none. *)
LEMMA WithoutTyped ==
  ASSUME TeamTyped, NEW u \in People
  PROVE  T!Without(u) \in [People -> Nat]
<1>1. \A v \in People : place[v] \in Nat
  BY DEF TeamTyped
<1>2. ASSUME NEW v \in People, place[u] \in 1..(place[v] - 1) PROVE place[v] - 1 \in Nat
  BY <1>1, <1>2
<1> QED BY <1>1, <1>2 DEF T!Without

LEMMA SeatedTyped ==
  ASSUME ConstantsOK, TeamTyped, NEW u \in People, NEW k \in T!Ranks, T!Seated(u, k)
  PROVE  /\ seat' \in [People -> T!Ranks] /\ seat'[u] = k /\ \A v \in People \ {u} : seat'[v] = seat[v]
         /\ place' \in [People -> Nat]
<1>1. seat' \in [People -> T!Ranks] /\ seat'[u] = k /\ \A v \in People \ {u} : seat'[v] = seat[v]
  BY DEF T!Seated, TeamTyped
<1>2. Cardinality(T!Members) + 1 \in Nat
  <2>1. T!Members \subseteq People /\ IsFiniteSet(People)
    BY FiniteAlike DEF ConstantsOK, T!ConstantsOK, T!Members
  <2> QED BY <2>1, FS_Subset, FS_CardinalityType
<1>3. place' \in [People -> Nat]
  <2> DEFINE n == Cardinality(T!Members) + 1
  <2>1. place' = IF k = T!Outside THEN T!Without(u)
                 ELSE IF seat[u] = T!Outside THEN [place EXCEPT ![u] = n] ELSE place
    BY FiniteAlike DEF T!Seated
  <2> HIDE DEF n
  <2> QED BY <1>2, <2>1, WithoutTyped DEF TeamTyped, n
<1> QED BY <1>1, <1>3

(* Two owners, and one of them is another. *)
LEMMA SparedOwner ==
  ASSUME ConstantsOK, NEW u \in People, T!Spare
  PROVE  \E v \in T!Owners : v # u
<1> SUFFICES ASSUME T!Owners \subseteq {u} PROVE FALSE
  OBVIOUS
<1>1. IsFiniteSet({u}) /\ Cardinality({u}) = 1
  BY FS_Singleton
<1>2. Cardinality(T!Owners) <= 1 /\ Cardinality(T!Owners) \in Nat
  BY <1>1, FS_Subset, FS_CardinalityType
<1>3. Cardinality(T!Owners) > 1
  BY FiniteAlike DEF T!Spare
<1> QED BY <1>2, <1>3

(* A step keeps an owner if it leaves one where there were members, makes  *)
(* one where it seats the first, and opens no link to an empty team.       *)
LEMMA TeamKept ==
  ASSUME TeamInv, TeamTyped', overtaken => overtaken',
         T!Members # {} /\ ~overtaken' => T!Owners' # {},
         T!Members' # {} /\ ~overtaken' => T!Members # {} \/ T!Owners' # {},
         \A i \in Links : link'[i].state = "open" => link[i].state = "open" \/ T!Members' # {}
  PROVE  TeamKeepsOwner' /\ LinksLive'
<1>1. T!Owners' \subseteq T!Members'
  BY DEF T!Owners, T!Members, T!Owner, T!Outside
<1>2. TeamKeepsOwner'
  BY DEF TeamKeepsOwner, T!TeamKeepsOwner
<1>3. LinksLive'
  BY <1>1 DEF LinksLive, TeamInv
<1> QED BY <1>2, <1>3

LEMMA SeatStep ==
  ASSUME ConstantsOK, TeamInv, NEW r \in Workers,
         \/ T!SetRole(r) \/ T!RemoveMember(r) \/ T!LeaveOrg(r) \/ T!CreateOrg(r)
         \/ \E t \in Tokens : T!AcceptInvite(r, t)
  PROVE  TeamTyped' /\ TeamKeepsOwner' /\ LinksLive'
<1> DEFINE q == visitor[r]
<1>1. TeamTyped /\ AskedOK(q) /\ overtaken \in BOOLEAN /\ (T!Members # {} /\ ~overtaken => T!Owners # {})
  BY DEF TeamInv, TeamTyped, VisitorsOK, TeamKeepsOwner, T!TeamKeepsOwner
<1>2. T!Outside = 0 /\ T!Member = 1 /\ T!Admin = 2 /\ T!Owner = 3 /\ T!Ranks = 0..3
  BY DEF T!Outside, T!Member, T!Admin, T!Owner, T!Ranks
(* With the seats as they are. *)
<1>3. ASSUME seat' = seat, place' = place, link' = link, overtaken' = overtaken
      PROVE  TeamTyped' /\ TeamKeepsOwner' /\ LinksLive'
  BY <1>1, <1>3 DEF TeamInv, TeamTyped, TeamKeepsOwner, T!TeamKeepsOwner, LinksLive, T!Members, T!Owners
(* With one seat changed: an owner is left, or made. *)
<1>4. ASSUME NEW u \in People, NEW k \in T!Ranks, T!Seated(u, k), link' = link, overtaken' \in BOOLEAN, overtaken => overtaken',
             T!Members # {} /\ ~overtaken' => k = 3 \/ \E v \in T!Owners : v # u,
             T!Members = {} /\ k # 0 /\ ~overtaken' => k = 3
      PROVE  TeamTyped' /\ TeamKeepsOwner' /\ LinksLive'
  <2>1. /\ seat' \in [People -> T!Ranks] /\ seat'[u] = k /\ \A v \in People \ {u} : seat'[v] = seat[v]
        /\ place' \in [People -> Nat]
    BY <1>1, <1>4, SeatedTyped
  <2>2. TeamTyped'
    BY <1>1, <1>4, <2>1 DEF TeamTyped
  <2>3. T!Members # {} /\ ~overtaken' => T!Owners' # {}
    BY <1>2, <1>4, <2>1 DEF T!Owners
  <2>4. T!Members' # {} /\ ~overtaken' => T!Members # {} \/ T!Owners' # {}
    BY <1>2, <1>4, <2>1 DEF T!Owners, T!Members
  <2> QED BY <1>4, <2>2, <2>3, <2>4, TeamKept
<1>5. \A u \in People : seat[u] # 0 => T!Members # {}
  BY <1>2 DEF T!Members
<1>6. ASSUME NEW u \in People, T!Members # {} /\ ~overtaken => T!Owners # {}, seat[u] # 3, T!Members # {}, ~overtaken
      PROVE  \E v \in T!Owners : v # u
  BY <1>2, <1>6 DEF T!Owners
<1>7. CASE T!SetRole(r)
  <2>1. q.kind = "setrole" /\ link' = link
    BY <1>7 DEF T!SetRole, T!At
  <2>2. q.target \in People /\ q.role \in T!Ranks /\ q.role # 0
    BY <1>1, <1>2, <2>1 DEF AskedOK
  <2>3. CASE seat[q.target] # T!Outside /\ T!Demotable(r)
    <3>1. T!Seated(q.target, q.role) /\ T!Overtakes(r)
      BY <1>7, <2>3 DEF T!SetRole
    <3>2. overtaken' = (overtaken \/ (seat[q.target] = 3 /\ q.read # 3))
      BY <1>2, <3>1 DEF T!Overtakes
    <3>3. T!Members # {}
      BY <1>2, <1>5, <2>2, <2>3
    <3>4. q.read = 3 /\ q.role # 3 => \E v \in T!Owners : v # q.target
      BY <1>2, <2>2, <2>3, SparedOwner DEF T!Demotable
    <3>5. ~overtaken' => q.role = 3 \/ \E v \in T!Owners : v # q.target
      BY <1>1, <1>6, <2>2, <3>2, <3>3, <3>4
    <3> QED BY <1>1, <1>4, <2>1, <2>2, <3>1, <3>2, <3>3, <3>5
  <2>4. CASE ~(seat[q.target] # T!Outside /\ T!Demotable(r))
    BY <1>3, <1>7, <2>1, <2>4 DEF T!SetRole
  <2> QED BY <2>3, <2>4
<1>8. CASE T!RemoveMember(r)
  <2>1. q.kind = "remove" /\ T!Seated(q.target, T!Outside) /\ T!Overtakes(r) /\ link' = link
    BY <1>8 DEF T!RemoveMember, T!At
  <2>2. q.target \in People /\ q.read \in 1..2 /\ 0 \in T!Ranks
    BY <1>1, <1>2, <2>1 DEF AskedOK
  <2>3. overtaken' = (overtaken \/ seat[q.target] = 3)
    BY <1>2, <2>1, <2>2 DEF T!Overtakes
  <2>4. T!Members # {} /\ ~overtaken' => \E v \in T!Owners : v # q.target
    BY <1>1, <1>6, <2>2, <2>3
  <2> QED BY <1>1, <1>2, <1>4, <2>1, <2>2, <2>3, <2>4
<1>9. CASE T!LeaveOrg(r)
  <2>1. q.kind = "leave" /\ link' = link /\ overtaken' = overtaken
    BY <1>9 DEF T!LeaveOrg, T!At
  <2>2. q.user \in People /\ 0 \in T!Ranks
    BY <1>1, <1>2, <2>1 DEF AskedOK, Errand
  <2>3. CASE T!MayLeave(r)
    <3>1. T!Seated(q.user, 0)
      BY <1>2, <1>9, <2>3 DEF T!LeaveOrg
    <3>2. T!Members # {} /\ (seat[q.user] # 3 \/ T!Spare)
      BY <1>2, <2>3 DEF T!MayLeave
    <3>3. ~overtaken => \E v \in T!Owners : v # q.user
      BY <1>1, <1>6, <2>2, <3>2, SparedOwner
    <3> QED BY <1>1, <1>4, <2>1, <2>2, <3>1, <3>2, <3>3
  <2>4. CASE ~T!MayLeave(r)
    BY <1>3, <1>9, <2>1, <2>4 DEF T!LeaveOrg
  <2> QED BY <2>3, <2>4
<1>10. CASE T!CreateOrg(r)
  <2>1. q.kind = "create" /\ T!Seated(q.user, 3) /\ link' = link
        /\ overtaken' = (overtaken \/ holder[q.user] = "erased")
    BY <1>2, <1>10 DEF T!CreateOrg, T!At
  <2>2. q.user \in People /\ 3 \in T!Ranks
    BY <1>1, <1>2, <2>1 DEF AskedOK, Errand
  <2> QED BY <1>1, <1>4, <2>1, <2>2
<1>11. ASSUME NEW t \in Tokens, T!AcceptInvite(r, t) PROVE TeamTyped' /\ TeamKeepsOwner' /\ LinksLive'
  <2>1. q.kind = "accept" /\ overtaken' = overtaken
    BY <1>11 DEF T!AcceptInvite, T!At
  <2>2. q.user \in People /\ q.link \in Links /\ q.role \in T!Ranks
    BY <1>1, <2>1 DEF AskedOK, Errand
  <2>3. CASE T!Claimable(q.link) /\ T!Rotates(q)
    <3> DEFINE k == IF seat[q.user] = T!Outside THEN q.role ELSE seat[q.user]
               x == [link[q.link] EXCEPT !.state = "accepted"]
    <3>1. T!Seated(q.user, k) /\ link' = [link EXCEPT ![q.link] = x] /\ link[q.link].state = "open"
      BY <1>11, <2>3 DEF T!AcceptInvite, T!Claimable
    <3>2. k \in T!Ranks /\ (seat[q.user] # 0 => k = seat[q.user])
      BY <1>1, <1>2, <2>2 DEF TeamTyped
    <3>3. link[q.link] \in LinkRow
      BY <1>1, <2>2 DEF TeamTyped
    <3>4. x \in LinkRow /\ x.state = "accepted"
      BY <3>3 DEF LinkRow
    <3> HIDE DEF k, x
    <3>5. link' \in [Links -> LinkRow] /\ \A i \in Links : link'[i].state = "open" => link[i].state = "open"
      BY <1>1, <2>2, <3>1, <3>4 DEF TeamTyped
    <3>6. /\ seat' \in [People -> T!Ranks] /\ seat'[q.user] = k /\ \A v \in People \ {q.user} : seat'[v] = seat[v]
          /\ place' \in [People -> Nat]
      BY <1>1, <2>2, <3>1, <3>2, SeatedTyped
    <3>7. TeamTyped'
      BY <1>1, <2>1, <3>5, <3>6 DEF TeamTyped
    <3>8. ~overtaken => T!Owners # {}
      BY <1>1, <2>2, <3>1 DEF TeamInv, LinksLive
    <3>9. T!Owners # {} => T!Owners' # {}
      BY <1>2, <2>2, <3>2, <3>6 DEF T!Owners
    <3> QED BY <2>1, <3>5, <3>7, <3>8, <3>9, TeamKept
  <2>4. CASE ~(T!Claimable(q.link) /\ T!Rotates(q))
    BY <1>3, <1>11, <2>1, <2>4 DEF T!AcceptInvite
  <2> QED BY <2>3, <2>4
<1> QED BY <1>7, <1>8, <1>9, <1>10, <1>11

(* The first by age of some people is one of them. *)
LEMMA OldestIsOne ==
  ASSUME TeamTyped, NEW some, some \subseteq People, some # {}
  PROVE  T!Oldest(some) \in some
<1>1. \A v \in some : place[v] \in Nat
  BY DEF TeamTyped
<1>2. {place[v] : v \in some} \subseteq Nat /\ {place[v] : v \in some} # {}
  BY <1>1
<1>3. PICK k \in {place[v] : v \in some} : \A n \in {place[v] : v \in some} : k <= n
  BY <1>2, Least
<1>4. \E v \in some : \A w \in some : place[v] <= place[w]
  BY <1>3
<1> QED BY <1>4 DEF T!Oldest

(* An account is erased: a last owner hands over, or the team goes. *)
LEMMA EraseStep ==
  ASSUME ConstantsOK, TeamInv, NEW u \in People, T!Erase(u)
  PROVE  TeamTyped' /\ TeamKeepsOwner' /\ LinksLive'
<1>1. TeamTyped /\ (T!Members # {} /\ ~overtaken => T!Owners # {}) /\ overtaken' = overtaken
  BY DEF TeamInv, TeamKeepsOwner, T!TeamKeepsOwner, T!Erase
<1>2. T!Outside = 0 /\ T!Owner = 3 /\ T!Ranks = 0..3
  BY DEF T!Outside, T!Owner, T!Ranks
<1> DEFINE heir == T!Successor(u)
<1>3. T!Others(u) # {} => heir \in T!Others(u)
  <2> DEFINE admins == {v \in T!Others(u) : seat[v] = T!Admin}
             some == IF admins # {} THEN admins ELSE T!Others(u)
  <2>1. heir = T!Oldest(some)
    BY DEF T!Successor
  <2>2. T!Others(u) # {} => some # {} /\ some \subseteq T!Others(u) /\ some \subseteq People
    BY DEF T!Others, T!Members
  <2> QED BY <1>1, <2>1, <2>2, OldestIsOne
<1> HIDE DEF heir
<1>4. /\ seat' = [v \in People |-> IF v = u THEN 0
                                   ELSE IF T!Succession(u) /\ v = heir THEN 3 ELSE seat[v]]
      /\ place' = T!Without(u)
      /\ link' = [i \in Links |-> IF link[i].by = u \/ (u \in T!Members /\ T!Others(u) = {})
                                  THEN [link[i] EXCEPT !.state = "gone"] ELSE link[i]]
  BY <1>2 DEF T!Erase, heir
<1>5. /\ \A i \in Links : link'[i] \in LinkRow
      /\ \A i \in Links : link'[i].state = "open" =>
           link[i].state = "open" /\ ~(u \in T!Members /\ T!Others(u) = {})
  <2>1. ASSUME NEW i \in Links
        PROVE  /\ [link[i] EXCEPT !.state = "gone"] \in LinkRow /\ link[i] \in LinkRow
               /\ [link[i] EXCEPT !.state = "gone"].state = "gone"
    BY <1>1 DEF TeamTyped, LinkRow
  <2> QED BY <1>4, <2>1
<1>6. seat' \in [People -> T!Ranks] /\ seat \in [People -> T!Ranks]
  BY <1>1, <1>2, <1>4 DEF TeamTyped
<1>7. TeamTyped'
  BY <1>1, <1>4, <1>5, <1>6, WithoutTyped DEF TeamTyped
<1>8. T!Others(u) = {v \in People : v # u /\ seat[v] # 0} /\ T!Owners = {v \in People : seat[v] = 3}
      /\ T!Members = {v \in People : seat[v] # 0}
      /\ T!Owners' = {v \in People : seat'[v] = 3} /\ T!Members' = {v \in People : seat'[v] # 0}
  BY <1>2 DEF T!Others, T!Members, T!Owners
<1>9. T!Members' = T!Others(u)
  <2>1. T!Succession(u) => heir \in People /\ heir # u /\ seat[heir] # 0
    BY <1>3, <1>8 DEF T!Succession
  <2>2. \A v \in People : seat'[v] # 0 <=> (v # u /\ seat[v] # 0)
    BY <1>4, <2>1
  <2> QED BY <1>8, <2>2
<1>10. T!Others(u) # {} /\ ~overtaken => T!Owners' # {}
  <2> SUFFICES ASSUME T!Others(u) # {}, ~overtaken PROVE T!Owners' # {}
    OBVIOUS
  <2>1. PICK v \in T!Owners : TRUE
    BY <1>1, <1>8
  <2>2. CASE T!Succession(u)
    <3>1. heir \in People /\ heir # u /\ seat'[heir] = 3
      BY <1>3, <1>4, <1>8, <2>2
    <3> QED BY <1>8, <3>1
  <2>3. CASE ~T!Succession(u)
    <3>1. \E w \in T!Owners : w # u
      <4>1. CASE v # u
        BY <4>1
      <4>2. CASE v = u
        <5>1. T!OwnersBut(u) # {}
          BY <1>2, <1>8, <2>1, <2>3, <4>2 DEF T!Succession
        <5> QED BY <5>1 DEF T!OwnersBut
      <4> QED BY <4>1, <4>2
    <3> QED BY <1>4, <1>8, <2>3, <3>1
  <2> QED BY <2>2, <2>3
<1>11. TeamKeepsOwner'
  BY <1>1, <1>9, <1>10 DEF TeamKeepsOwner, T!TeamKeepsOwner
<1>12. LinksLive'
  <2> SUFFICES ASSUME NEW i \in Links, link'[i].state = "open", ~overtaken PROVE T!Members' # {}
    BY <1>1 DEF LinksLive
  <2>1. T!Members # {} /\ ~(u \in T!Members /\ T!Others(u) = {})
    BY <1>5 DEF TeamInv, LinksLive
  <2> QED BY <1>8, <1>9, <2>1
<1> QED BY <1>7, <1>11, <1>12

LEMMA TeamInvariance == Spec => []TeamInv
<1> USE ConstantsOK
<1>1. Init => TeamInv
  <2> SUFFICES ASSUME Init PROVE TeamInv
    OBVIOUS
  <2>1. T!Init /\ None \notin People
    BY DEF Init, ConstantsOK, T!ConstantsOK
  <2>2. seat = [u \in People |-> IF u \in T!Founders THEN 3 ELSE 0]
    BY <2>1 DEF T!Init, T!Owner, T!Outside
  <2>3. place \in [People -> Nat]
    <3>1. ASSUME NEW u \in T!Founders PROVE (CHOOSE n \in 1..Len(Founding) : Founding[n] = u) \in Nat
      <4>1. PICK n \in 1..Len(Founding) : Founding[n] = u
        BY <3>1 DEF T!Founders
      <4> QED BY <4>1
    <3> QED BY <2>1, <3>1 DEF T!Init
  <2>4. link \in [Links -> LinkRow] /\ \A i \in Links : link[i].state = "none"
    BY <2>1 DEF T!Init, T!NoLink, LinkRow, T!Ranks, T!Outside, T!Owner
  <2>5. TeamTyped
    <3>1. T!Ranks = 0..3 /\ overtaken = FALSE
      BY <2>1 DEF T!Init, T!Ranks, T!Outside, T!Owner
    <3>2. seat \in [People -> T!Ranks]
      BY <2>2, <3>1
    <3> QED BY <2>3, <2>4, <3>1, <3>2 DEF TeamTyped
  <2>6. VisitorsOK
    BY <2>1 DEF T!Init, VisitorsOK, AskedOK, Errand, T!Idle
  <2>7. SessionsOK
    BY Zenon, <2>1 DEF T!Init, SessionsOK, Seat, ConstantsOK, T!ConstantsOK
  <2>8. TeamKeepsOwner
    BY <2>2 DEF TeamKeepsOwner, T!TeamKeepsOwner, T!Members, T!Owners, T!Outside, T!Owner
  <2>9. LinksLive
    BY <2>4 DEF LinksLive
  <2> QED BY <2>5, <2>6, <2>7, <2>8, <2>9 DEF TeamInv
<1>2. ASSUME TeamInv, [Next]_vars PROVE TeamInv'
  <2>1. ASSUME UNCHANGED <<seat, place, link, overtaken>>
        PROVE  TeamTyped' /\ TeamKeepsOwner' /\ LinksLive'
    BY <1>2, <2>1 DEF TeamInv, TeamTyped, TeamKeepsOwner, T!TeamKeepsOwner, LinksLive, T!Members, T!Owners
  <2>2. ASSUME UNCHANGED team PROVE TeamInv'
    <3>1. VisitorsOK' /\ SessionsOK'
      BY <1>2, <2>2 DEF TeamInv, VisitorsOK, SessionsOK, team
    <3> QED BY <2>1, <2>2, <3>1 DEF TeamInv, team
  <2>3. ASSUME Team PROVE TeamInv'
    <3>1. T!Next
      BY <2>3 DEF Team
    <3>2. VisitorsOK' /\ SessionsOK'
      BY <1>2, <3>1, VisitorStep, SessionStep
    <3>3. ASSUME NEW u \in People, NEW t \in Tokens,
                 T!SignUp(u, t) \/ \E r \in Workers : T!LookUp(r, u, t)
          PROVE  UNCHANGED <<seat, place, link, overtaken>>
      BY <3>3 DEF T!SignUp, T!LookUp
    <3>4. ASSUME NEW r \in Workers,
                 T!CreateSession(r) \/ T!Die(r) \/ \E t \in Tokens : T!SwitchActiveOrg(r, t)
          PROVE  UNCHANGED <<seat, place, link, overtaken>>
      BY <3>4 DEF T!CreateSession, T!Die, T!SwitchActiveOrg
    <3>5. ASSUME NEW r \in Workers, NEW t \in Tokens, NEW v \in People, NEW k \in T!Ranks, NEW i \in Links,
                 NEW kind \in T!InTeam \cup T!Elsewhere, T!Begin(r, t, kind, v, k, i)
          PROVE  UNCHANGED <<seat, place, link, overtaken>>
      BY <3>5 DEF T!Begin
    <3>6. ASSUME NEW t \in Tokens, T!DestroySession(t) PROVE UNCHANGED <<seat, place, link, overtaken>>
      BY <3>6 DEF T!DestroySession
    (* Links come and go; only where there is a team do they come. *)
    <3>7. ASSUME NEW i \in Links, NEW x \in LinkRow, link' = [link EXCEPT ![i] = x],
                 x.state = "open" => T!Members # {}, UNCHANGED <<seat, place, overtaken>>
          PROVE  TeamTyped' /\ TeamKeepsOwner' /\ LinksLive'
      <4>1. /\ link' \in [Links -> LinkRow]
            /\ \A j \in Links : link'[j].state = "open" => link[j].state = "open" \/ T!Members # {}
        BY <1>2, <3>7 DEF TeamInv, TeamTyped
      <4>2. T!Members' = T!Members /\ T!Owners' = T!Owners
        BY <3>7 DEF T!Members, T!Owners
      <4> QED BY <1>2, <3>7, <4>1, <4>2 DEF TeamInv, TeamTyped, TeamKeepsOwner, T!TeamKeepsOwner, LinksLive
    <3>8. ASSUME NEW i \in Links, T!RevokeInvite(i) PROVE TeamTyped' /\ TeamKeepsOwner' /\ LinksLive'
      <4> DEFINE x == [link[i] EXCEPT !.state = "gone"]
      <4>1. link[i] \in LinkRow /\ link' = [link EXCEPT ![i] = x] /\ UNCHANGED <<seat, place, overtaken>>
        BY <1>2, <3>8 DEF T!RevokeInvite, TeamInv, TeamTyped
      <4>2. x \in LinkRow /\ x.state = "gone"
        BY <4>1 DEF LinkRow
      <4> HIDE DEF x
      <4> QED BY <3>7, <4>1, <4>2
    <3>9. ASSUME NEW r \in Workers, T!CreateInvite(r) PROVE TeamTyped' /\ TeamKeepsOwner' /\ LinksLive'
      <4> DEFINE q == visitor[r]
                 x == [state |-> "open", role |-> q.role, by |-> q.user]
      <4>1. UNCHANGED <<seat, place, overtaken>> /\ q.kind = "invite" /\ AskedOK(q)
        BY <1>2, <3>9 DEF T!CreateInvite, T!At, TeamInv, VisitorsOK
      <4>2. CASE T!Members # {} /\ link' = [link EXCEPT ![q.link] = x]
        <5>1. q.user \in People /\ q.link \in Links /\ q.role \in T!Ranks
          BY <4>1 DEF AskedOK, Errand
        <5>2. x \in LinkRow
          BY <5>1 DEF LinkRow
        <5> HIDE DEF x
        <5> QED BY <3>7, <4>1, <4>2, <5>1, <5>2
      <4>3. CASE link' = link
        BY <2>1, <4>1, <4>3
      <4> QED BY <3>9, <4>2, <4>3 DEF T!CreateInvite
    <3>10. TeamTyped' /\ TeamKeepsOwner' /\ LinksLive'
      BY <1>2, <2>1, <3>1, <3>3, <3>4, <3>5, <3>6, <3>8, <3>9, SeatStep, EraseStep DEF T!Next
    <3> QED BY <3>2, <3>10 DEF TeamInv
  <2> QED BY <1>2, <2>2, <2>3 DEF Next, vars, Retain, Scan, Post, Tell, Digest, Mercado, Group, Browse, Try
<1> QED BY <1>1, <1>2, PTL DEF Spec

(* However changes of role, removals, departures, invitations and erased   *)
(* accounts overlap, a team that has members has an owner, unless a write  *)
(* fell on an owner it had read with a lower role, or for a tombstone      *)
(* (org.ts, invites.ts, deletion.ts).                                      *)
THEOREM SpecImpliesTeamKeepsOwner == Spec => []TeamKeepsOwner
<1>1. TeamInv => TeamKeepsOwner
  BY DEF TeamInv
<1> QED BY <1>1, TeamInvariance, PTL

-----------------------------------------------------------------------------
(* Mercado Pago.  A payment is gone when its money is on the way back; a   *)
(* handler may have read it before.                                        *)
USE DEF M!NoRefund, M!Part, M!All

Gone(x) == x.status \in {"refunded", "charged_back"}
Amounts == {0, 1, 2}
Sum == [status : {"none", "approved", "refunded", "charged_back"}, refunded : Amounts]
Preference == [status : {"none", "creating", "open", "fulfilled"} \cup M!Terminal, open : BOOLEAN,
               payment : Payments \cup {None}, refunded : Amounts]
Reading == [at : {"read", "fulfil", "observe", "reverse", "manual"}, of : Payments,
            notice : M!Notices \cup {None}, seen : Sum]
Told == due \cup accepted
MercadoTyped ==
  /\ payment \in [Payments -> Sum] /\ attempt \in [Attempts -> Preference]
  /\ handler \in [Workers -> Reading \cup {M!Idle}]
  /\ Told \subseteq Payments \X M!Notices

Withdraws == {"refunded", "charged_back"}
(* What is told of a payment has happened, ... *)
ToldTrue ==
  \A x \in Payments : /\ payment[x].status = "approved" => payment[x].refunded # 2
                      /\ payment[x].status = "none" => payment[x] = M!Unpaid
                      /\ \A n \in M!Notices : <<x, n>> \in Told => payment[x].status # "none"
                      /\ \A n \in Withdraws : <<x, n>> \in Told => Gone(payment[x])
(* ... a handler read the payment no earlier than it was told, ... *)
ReadingOK(r) ==
  /\ r.seen.status # "none" /\ payment[r.of].status # "none" /\ (r.seen.status = "approved" => r.seen.refunded # 2)
  /\ Gone(r.seen) => Gone(payment[r.of])
  /\ r.notice \in Withdraws => Gone(r.seen)
  /\ r.at \in {"fulfil", "manual"} => ~Gone(r.seen)
  /\ r.at = "reverse" => Gone(r.seen)
ReadingsOK == \A w \in Workers : handler[w] # M!Idle => ReadingOK(handler[w])
(* ... and a checkout that one payment has is closed to the others. *)
CheckoutOK(a) ==
  /\ attempt[a].status \in M!Terminal \cup {"fulfilled"} => attempt[a].payment # None
  /\ attempt[a].payment # None => attempt[a].open
  /\ attempt[a].open => attempt[a].status # "none"
  /\ attempt[a].status = "fulfilled" => attempt[a].payment \in granted
  /\ attempt[a].status \in M!Reversal => Gone(payment[attempt[a].payment])
CheckoutsOK ==
  /\ \A x \in Payments : payment[x].status # "none" => attempt[Pays[x]].open /\ attempt[Pays[x]].status # "none"
  /\ \A a \in Attempts : CheckoutOK(a)
Lost(x) == attempt[Pays[x]].payment \notin {None, x}
Closed(x) == Lost(x) \/ (attempt[Pays[x]].payment = x /\ attempt[Pays[x]].status \in M!Terminal)
WithdrawnOK ==
  \A x \in Payments : (\E n \in Withdraws : <<x, n>> \in accepted) => x \notin granted \ reversed /\ Closed(x)
CreditsCount ==
  /\ IsFiniteSet(granted) /\ reversed \subseteq granted /\ sum \in Int
  /\ sum + Cardinality(reversed) = Cardinality(granted)
MercadoInv ==
  /\ MercadoTyped /\ ToldTrue /\ ReadingsOK /\ CheckoutsOK /\ WithdrawnOK /\ CreditsCount
  /\ M!BuyerHonoured

(* A payment that somebody else moves.                                     *)
Settles(x, y) ==   \* what may happen to a payment
  /\ x.status # "none" => y.status # "none" /\ (~(x.status = "approved" /\ x.refunded = 0) =>
                                                ~(y.status = "approved" /\ y.refunded = 0))
  /\ Gone(x) => Gone(y)
  /\ y.status = "approved" => y.refunded # 2
LEMMA PaymentMoves ==
  ASSUME ConstantsOK, MercadoInv, NEW x \in Payments, NEW y \in Sum, NEW n \in M!Notices,
         payment' = [payment EXCEPT ![x] = y], Settles(payment[x], y), y.status # "none",
         n \in Withdraws => Gone(y), attempt[Pays[x]].open, attempt[Pays[x]].status # "none",
         due' = due \cup {<<x, n>>}, UNCHANGED <<attempt, granted, reversed, sum, handler, accepted>>
  PROVE  MercadoInv'
<1> USE DEF MercadoInv
<1>1. /\ payment'[x] = y /\ \A z \in Payments \ {x} : payment'[z] = payment[z]
      /\ Told' = Told \cup {<<x, n>>}
  BY DEF MercadoTyped, Told
<1>2. MercadoTyped'
  BY <1>1 DEF MercadoTyped
<1>3. \A z \in Payments : Settles(payment[z], payment'[z])
  BY <1>1 DEF Settles, ToldTrue
<1>4. ToldTrue'
  BY <1>1, <1>3 DEF ToldTrue, Settles
<1>5. ReadingsOK'
  <2>1. \A w \in Workers : handler[w] # M!Idle => handler[w].of \in Payments
    BY DEF MercadoTyped, Reading
  <2> HIDE DEF M!Idle
  <2> QED BY <1>3, <2>1 DEF ReadingsOK, ReadingOK, Settles
<1>6. CheckoutsOK'
  <2>1. \A a \in Attempts : attempt[a].payment \in Payments \cup {None}
    BY DEF MercadoTyped, Preference
  <2>2. \A a \in Attempts : CheckoutOK(a)'
    BY <1>3, <2>1 DEF CheckoutsOK, CheckoutOK, Settles, M!Terminal
  <2> QED BY <1>1, <2>2 DEF CheckoutsOK
<1>7. WithdrawnOK' /\ CreditsCount'
  BY DEF WithdrawnOK, Closed, Lost, CreditsCount
<1>8. M!BuyerHonoured'
  <2>1. \A z \in Payments : <<z, "approved">> \in accepted => payment[z].status # "none"
    BY DEF ToldTrue, Told, M!Notices
  <2> QED BY <1>3, <2>1 DEF M!BuyerHonoured, Settles
<1> QED BY <1>2, <1>4, <1>5, <1>6, <1>7, <1>8

Honoured(x) ==
  \/ x \in granted \/ payment[x].status # "approved" \/ payment[x].refunded # 0
  \/ attempt[Pays[x]].payment = x /\ attempt[Pays[x]].status = "manual_refund_required"
  \/ Lost(x)

(* A row keeps the payment it has, and its end.                            *)
LEMMA RowWritten ==
  ASSUME ConstantsOK, MercadoInv, NEW a \in Attempts, NEW y \in Preference, attempt' = [attempt EXCEPT ![a] = y],
         payment' = payment, granted \subseteq granted',
         y.payment = attempt[a].payment \/ attempt[a].payment = None,
         attempt[a].open => y.open, y.status # "none",
         attempt[a].payment # None /\ attempt[a].status \in M!Terminal => y.status \in M!Terminal,
         y.status \in M!Terminal \cup {"fulfilled"} => y.payment # None,
         y.payment # None => y.open,
         y.status = "fulfilled" => y.payment \in granted',
         y.status \in M!Reversal => Gone(payment[y.payment])
  PROVE  /\ attempt' \in [Attempts -> Preference] /\ CheckoutsOK'
         /\ \A x \in Payments : Closed(x) => Closed(x)'
         /\ \A x \in Payments : Honoured(x) => Honoured(x)'
<1> USE DEF MercadoInv
<1>1. Pays \in [Payments -> Attempts] /\ None \notin Payments
  BY DEF ConstantsOK, M!ConstantsOK
<1>2. attempt' \in [Attempts -> Preference] /\ attempt'[a] = y /\ \A b \in Attempts \ {a} : attempt'[b] = attempt[b]
  BY DEF MercadoTyped
<1> HIDE DEF Preference
<1>3. \A b \in Attempts : CheckoutOK(b)'
  BY <1>2 DEF CheckoutsOK, CheckoutOK
<1>4. CheckoutsOK'
  BY <1>1, <1>2, <1>3 DEF CheckoutsOK
<1>5. \A x \in Payments : Closed(x) => Closed(x)'
  BY <1>1, <1>2 DEF Closed, Lost
<1>6. \A x \in Payments : Honoured(x) => Honoured(x)'
  BY <1>1, <1>2 DEF Honoured, Lost, M!Terminal, M!Reversal, Gone
<1> QED BY <1>2, <1>4, <1>5, <1>6

LEMMA HandlerTurns ==
  ASSUME MercadoInv, NEW w \in Workers, NEW r, handler' = [handler EXCEPT ![w] = r], payment' = payment,
         r = M!Idle \/ (r \in Reading /\ ReadingOK(r))
  PROVE  handler' \in [Workers -> Reading \cup {M!Idle}] /\ ReadingsOK'
<1>1. handler' \in [Workers -> Reading \cup {M!Idle}]
  BY DEF MercadoInv, MercadoTyped
<1>2. handler'[w] = r /\ \A v \in Workers \ {w} : handler'[v] = handler[v]
  BY DEF MercadoInv, MercadoTyped
<1> HIDE DEF Reading, M!Idle
<1> QED BY <1>1, <1>2 DEF MercadoInv, ReadingsOK, ReadingOK

(* A handler goes on, or gives up, and nothing else happens.               *)
LEMMA OnlyHandler ==
  ASSUME MercadoInv, handler' \in [Workers -> Reading \cup {M!Idle}], ReadingsOK',
         UNCHANGED <<payment, due, accepted, attempt, granted, reversed, sum>>
  PROVE  MercadoInv'
<1> USE DEF MercadoInv
<1>1. MercadoTyped'
  BY DEF MercadoTyped, Told
<1>2. ToldTrue' /\ CheckoutsOK' /\ WithdrawnOK' /\ CreditsCount' /\ M!BuyerHonoured'
  BY DEF ToldTrue, Told, CheckoutsOK, CheckoutOK, WithdrawnOK, Closed, Lost, CreditsCount, M!BuyerHonoured
<1> QED BY <1>1, <1>2

(* A checkout moves on; no credits are booked and nothing is accepted.     *)
LEMMA OnlyCheckout ==
  ASSUME MercadoInv, attempt' \in [Attempts -> Preference], CheckoutsOK',
         \A x \in Payments : Closed(x) => Closed(x)',
         \A x \in Payments : Honoured(x) => Honoured(x)',
         handler' \in [Workers -> Reading \cup {M!Idle}], ReadingsOK',
         UNCHANGED <<payment, due, accepted, granted, reversed, sum>>
  PROVE  MercadoInv'
<1> USE DEF MercadoInv
<1>1. MercadoTyped'
  BY DEF MercadoTyped, Told
<1>2. ToldTrue' /\ CreditsCount'
  BY DEF ToldTrue, Told, CreditsCount
<1>3. WithdrawnOK'
  BY DEF WithdrawnOK
<1>4. M!BuyerHonoured'
  BY DEF M!BuyerHonoured, Honoured, Lost
<1> QED BY <1>1, <1>2, <1>3, <1>4

(* A notification is accepted: what it was about is dealt with.            *)
LEMMA Accepting ==
  ASSUME ConstantsOK, MercadoInv, NEW w \in Workers, handler[w] # M!Idle, M!Accept(w),
         NEW x \in Payments, handler[w].of = x,
         attempt' \in [Attempts -> Preference], CheckoutsOK',
         \A z \in Payments : Closed(z) => Closed(z)',
         \A z \in Payments : Honoured(z) => Honoured(z)',
         CreditsCount',
         \A z \in Payments : z \in granted' \ reversed' => z \in granted \ reversed \/ ~Closed(z),
         handler[w].notice = "approved" => Honoured(x)',
         handler[w].notice \in Withdraws => x \notin granted' \ reversed' /\ Closed(x)'
  PROVE  MercadoInv'
<1> USE DEF MercadoInv
<1> DEFINE n == handler[w].notice
<1>1. payment' = payment
  BY DEF M!Accept
<1>2. /\ handler' = [handler EXCEPT ![w] = M!Idle]
      /\ Told' \subseteq Told /\ accepted' \subseteq accepted \cup {<<x, n>>}
  BY DEF M!Accept, M!Leave, Told
<1>3. handler' \in [Workers -> Reading \cup {M!Idle}] /\ ReadingsOK'
  BY <1>1, <1>2, HandlerTurns
<1>4. MercadoTyped'
  <2> HIDE DEF Preference, Reading, Sum, M!Idle
  <2> QED BY <1>1, <1>2, <1>3 DEF MercadoTyped
<1>5. ToldTrue'
  BY <1>1, <1>2 DEF ToldTrue, Gone
<1>6. WithdrawnOK'
  <2> HIDE DEF n
  <2>1. ASSUME NEW z \in Payments, NEW m \in Withdraws, <<z, m>> \in accepted'
        PROVE  <<z, m>> \in accepted \/ (z = x /\ n \in Withdraws)
    BY <1>2, <2>1
  <2>2. ASSUME NEW z \in Payments, NEW m \in Withdraws, <<z, m>> \in accepted'
        PROVE  z \notin granted' \ reversed' /\ Closed(z)'
    <3>1. CASE <<z, m>> \in accepted
      BY <2>2, <3>1 DEF WithdrawnOK
    <3>2. CASE z = x /\ n \in Withdraws
      BY <3>2 DEF n
    <3> QED BY <2>1, <2>2, <3>1, <3>2
  <2> QED BY <2>2 DEF WithdrawnOK
<1>7. M!BuyerHonoured'
  <2>1. ASSUME NEW z \in Payments, <<z, "approved">> \in accepted' PROVE Honoured(z)'
    <3>1. CASE <<z, "approved">> \in accepted
      BY <3>1 DEF M!BuyerHonoured, Honoured, Lost
    <3>2. CASE z = x /\ n = "approved"
      BY <3>2
    <3> QED BY <1>2, <2>1, <3>1, <3>2
  <2> QED BY <2>1 DEF M!BuyerHonoured, Honoured, Lost
<1> QED BY <1>3, <1>4, <1>5, <1>6, <1>7

(* The steps of one handler. *)
LEMMA HandlerStep ==
  ASSUME ConstantsOK, MercadoInv, NEW w \in Workers, UNCHANGED <<payment>>,
         NEW r \in Reading, handler[w] = r, NEW x \in Payments, r.of = x, NEW a, Pays[x] = a,
         \/ M!ReadAttempt(w) \/ M!ObservePart(w) \/ M!Grant(w) \/ M!Ungrantable(w)
         \/ M!Overtaken(w) \/ M!RecordManual(w) \/ M!Reverse(w)
  PROVE  MercadoInv'
<1> USE DEF MercadoInv
<1>1. r # M!Idle
  BY DEF Reading, M!Idle
<1>2. ReadingOK(r)
  BY <1>1 DEF ReadingsOK
<1>3. a \in Attempts /\ attempt[a] \in Preference /\ None \notin Payments /\ attempt[a].open /\ attempt[a].status # "none"
  BY <1>2 DEF ConstantsOK, M!ConstantsOK, MercadoTyped, CheckoutsOK, ReadingOK
<1>4. M!Row(w) = attempt[a] /\ (M!Free(w) <=> attempt[a].payment \in {None, x})
  BY DEF M!Row, M!Free
<1>5. M!Taken(w) <=> x \in granted \ reversed
  BY DEF M!Taken
<1>6. \A b \in Attempts : CheckoutOK(b)
  BY DEF CheckoutsOK
<1>7. ASSUME NEW at \in {"fulfil", "observe", "reverse", "manual"}, M!Go(w, at), UNCHANGED <<due, accepted, attempt, granted, reversed, sum>>,
             at = "reverse" => Gone(r.seen), at \in {"fulfil", "manual"} => ~Gone(r.seen)
      PROVE  MercadoInv'
  <2> DEFINE t == [r EXCEPT !.at = at]
  <2>1. handler' = [handler EXCEPT ![w] = t]
    BY <1>7 DEF M!Go
  <2>2. t \in Reading /\ ReadingOK(t)
    BY <1>2, <1>7 DEF Reading, ReadingOK
  <2> HIDE DEF t
  <2> QED BY <1>7, <2>1, <2>2, HandlerTurns, OnlyHandler
<1>8. ASSUME M!Leave(w) PROVE handler' \in [Workers -> Reading \cup {M!Idle}] /\ ReadingsOK'
  BY <1>8, HandlerTurns DEF M!Leave
<1>9. ASSUME NEW y \in Preference, attempt' = [attempt EXCEPT ![a] = y], granted \subseteq granted',
             y.payment = attempt[a].payment \/ attempt[a].payment = None, y.open, y.status # "none",
             attempt[a].payment # None /\ attempt[a].status \in M!Terminal => y.status \in M!Terminal,
             y.status \in M!Terminal \cup {"fulfilled"} => y.payment # None,
             y.status = "fulfilled" => y.payment \in granted',
             y.status \in M!Reversal => Gone(payment[y.payment])
      PROVE  /\ attempt' \in [Attempts -> Preference] /\ CheckoutsOK'
             /\ \A z \in Payments : Closed(z) => Closed(z)'
             /\ \A z \in Payments : Honoured(z) => Honoured(z)'
  BY <1>3, <1>9, RowWritten
<1>10. ASSUME UNCHANGED attempt, granted \subseteq granted'
      PROVE  /\ attempt' \in [Attempts -> Preference] /\ CheckoutsOK'
             /\ \A z \in Payments : Closed(z) => Closed(z)'
             /\ \A z \in Payments : Honoured(z) => Honoured(z)'
  BY <1>10 DEF MercadoTyped, CheckoutsOK, CheckoutOK, Closed, Lost, Honoured
<1>11. CASE M!ReadAttempt(w)
  <2>1. CASE M!Leave(w)
    BY <1>8, <1>11, <2>1, OnlyHandler DEF M!ReadAttempt, M!provider, M!books
  <2>2. CASE M!Go(w, M!Way(r.seen))
    <3>1. r.seen \in Sum /\ r.seen.status # "none" /\ (r.seen.status = "approved" => r.seen.refunded # 2)
      BY <1>2 DEF Reading, ReadingOK
    <3>2. PICK at \in {"fulfil", "observe", "reverse"} :
            at = M!Way(r.seen) /\ (at = "reverse" => Gone(r.seen)) /\ (at = "fulfil" => ~Gone(r.seen))
      BY <3>1 DEF M!Way, Gone, Sum, Amounts
    <3> QED BY <1>7, <1>11, <2>2, <3>2 DEF M!ReadAttempt, M!provider, M!books
  <2> QED BY <1>11, <2>1, <2>2 DEF M!ReadAttempt
<1>12. CASE M!Ungrantable(w)
  BY <1>2, <1>7, <1>12 DEF M!Ungrantable, M!At, ReadingOK, M!provider, M!books
<1>13. CASE M!ObservePart(w)
  <2>1. CASE UNCHANGED attempt
    BY <1>8, <1>13, <2>1, OnlyHandler DEF M!ObservePart, M!provider, M!books
  <2>2. CASE ~UNCHANGED attempt
    <3> DEFINE y == [attempt[a] EXCEPT !.refunded = 1, !.payment = x]
    <3>1. attempt' = [attempt EXCEPT ![a] = y] /\ attempt[a].payment \in {None, x}
      BY <1>3, <1>4, <1>13, <2>2 DEF M!ObservePart
    <3>2. y \in Preference /\ y.payment = x /\ y.open /\ y.status = attempt[a].status
      BY <1>2, <1>3 DEF Preference, Amounts
    <3>3. y.status \in M!Reversal \cup {"fulfilled"} => y.payment = attempt[a].payment
      BY <1>3, <1>6, <3>1, <3>2 DEF CheckoutOK, M!Terminal
    <3> HIDE DEF y
    <3>4. granted' = granted
      BY <1>13 DEF M!ObservePart, M!books
    <3>5. y.status = "fulfilled" => y.payment \in granted'
      BY <1>3, <1>6, <3>2, <3>3, <3>4 DEF CheckoutOK
    <3>6. y.status \in M!Reversal => Gone(payment[y.payment])
      BY <1>3, <1>6, <3>2, <3>3 DEF CheckoutOK
    <3>7. /\ attempt' \in [Attempts -> Preference] /\ CheckoutsOK'
          /\ \A z \in Payments : Closed(z) => Closed(z)'
          /\ \A z \in Payments : Honoured(z) => Honoured(z)'
      BY <1>2, <1>3, <1>9, <3>1, <3>2, <3>4, <3>5, <3>6
    <3> QED BY <1>8, <1>13, <3>7, OnlyCheckout DEF M!ObservePart, M!provider, M!books
  <2> QED BY <2>1, <2>2
<1>14. CASE M!Grant(w)
  <2> DEFINE y == [attempt[a] EXCEPT !.status = "fulfilled", !.payment = x]
  <2>1. /\ attempt' = [attempt EXCEPT ![a] = y] /\ attempt[a].payment \in {None, x}
        /\ attempt[a].status \notin M!Terminal /\ granted' = granted \cup {x} /\ reversed' = reversed
        /\ sum' = (IF x \in granted THEN sum ELSE sum + 1) /\ M!Accept(w) /\ r.at = "fulfil"
    BY <1>4, <1>14 DEF M!Grant, M!Claimable, M!Mark, M!At
  <2>2. y \in Preference /\ y.payment = x /\ y.open /\ y.status = "fulfilled"
    BY <1>2, <1>3 DEF Preference
  <2> HIDE DEF y
  <2>3. /\ attempt' \in [Attempts -> Preference] /\ CheckoutsOK'
        /\ \A z \in Payments : Closed(z) => Closed(z)'
        /\ \A z \in Payments : Honoured(z) => Honoured(z)'
    BY <1>2, <1>3, <1>9, <2>1, <2>2 DEF M!Terminal, M!Reversal
  <2>4. CreditsCount'
    <3>1. IsFiniteSet(granted) /\ Cardinality(granted) \in Nat /\ Cardinality(reversed) \in Nat
      BY FS_CardinalityType, FS_Subset DEF CreditsCount
    <3>2. CASE x \in granted
      <4>1. granted' = granted
        BY <2>1, <3>2
      <4> QED BY <2>1, <3>2, <4>1 DEF CreditsCount
    <3>3. CASE x \notin granted
      <4>1. IsFiniteSet(granted') /\ Cardinality(granted') = Cardinality(granted) + 1
        BY <2>1, <3>1, <3>3, FS_AddElement
      <4> QED BY <2>1, <3>1, <3>3, <4>1 DEF CreditsCount
    <3> QED BY <3>2, <3>3
  <2>5. ~Closed(x)
    BY <1>3, <2>1 DEF Closed, Lost
  <2>6. Honoured(x)'
    BY <2>1 DEF Honoured
  <2>7. r.notice \notin Withdraws
    BY <1>2, <2>1 DEF ReadingOK
  <2> QED BY <1>1, <1>2, <2>1, <2>3, <2>4, <2>5, <2>6, <2>7, Accepting
<1>15. CASE M!Overtaken(w)
  <2>1. UNCHANGED <<attempt, granted, reversed, sum>>
    BY <1>15 DEF M!Overtaken, M!books
  <2>2. CASE M!Accept(w) /\ attempt[a].payment = x /\ attempt[a].status \in M!Terminal
    <3>1. CreditsCount'
      BY <2>1 DEF CreditsCount
    <3>2. r.notice \notin Withdraws
      BY <1>2, <1>15 DEF ReadingOK, M!Overtaken, M!At
    <3>3. Honoured(x)
      BY <1>3, <1>6, <2>2 DEF CheckoutOK, Honoured, M!Terminal, M!Reversal, Gone
    <3> QED BY <1>1, <1>2, <1>10, <2>1, <2>2, <3>1, <3>2, <3>3, Accepting
  <2>3. CASE M!Leave(w) /\ UNCHANGED M!provider
    BY <1>8, <2>1, <2>3, OnlyHandler DEF M!provider
  <2> QED BY <1>4, <1>15, <2>2, <2>3 DEF M!Overtaken
<1>16. CASE M!RecordManual(w)
  <2>1. M!Accept(w) /\ UNCHANGED <<granted, reversed, sum>> /\ r.at = "manual"
    BY <1>16 DEF M!RecordManual, M!books, M!At
  <2>2. CreditsCount' /\ r.notice \notin Withdraws
    BY <1>2, <2>1 DEF CreditsCount, ReadingOK
  <2>3. CASE UNCHANGED attempt /\ ~(M!Free(w) /\ M!Row(w).status \notin M!Terminal \cup {"fulfilled"})
    <3>1. Honoured(x)
      BY <1>3, <1>4, <1>6, <2>3 DEF CheckoutOK, Honoured, Lost, M!Terminal, M!Reversal, Gone
    <3> QED BY <1>1, <1>2, <1>10, <2>1, <2>2, <2>3, <3>1, Accepting
  <2>4. CASE M!Mark(w, "manual_refund_required") /\ M!Free(w) /\ M!Row(w).status \notin M!Terminal \cup {"fulfilled"}
    <3> DEFINE y == [attempt[a] EXCEPT !.status = "manual_refund_required", !.payment = x]
    <3>1. attempt' = [attempt EXCEPT ![a] = y] /\ attempt[a].payment \in {None, x}
      BY <1>3, <1>4, <2>4 DEF M!Mark
    <3>2. y \in Preference /\ y.payment = x /\ y.open /\ y.status = "manual_refund_required"
      BY <1>2, <1>3 DEF Preference, M!Terminal
    <3> HIDE DEF y
    <3>3. /\ attempt' \in [Attempts -> Preference] /\ CheckoutsOK'
          /\ \A z \in Payments : Closed(z) => Closed(z)'
          /\ \A z \in Payments : Honoured(z) => Honoured(z)'
      BY <1>2, <1>3, <1>9, <2>1, <3>1, <3>2 DEF M!Terminal, M!Reversal
    <3>4. Honoured(x)'
      <4>1. attempt'[a] = y
        BY <1>3, <3>1 DEF MercadoTyped
      <4> QED BY <3>2, <4>1 DEF Honoured
    <3> QED BY <1>1, <1>2, <2>1, <2>2, <3>3, <3>4, Accepting
  <2> QED BY <1>16, <2>3, <2>4 DEF M!RecordManual
<1>17. CASE M!Reverse(w)
  <2>1. /\ M!Accept(w) /\ r.at = "reverse" /\ granted' = granted
        /\ reversed' = IF x \in granted \ reversed THEN reversed \cup {x} ELSE reversed
        /\ sum' = IF x \in granted \ reversed THEN sum - 1 ELSE sum
    BY <1>5, <1>17 DEF M!Reverse, M!At
  <2>2. Gone(payment[x])
    BY <1>2, <2>1 DEF ReadingOK
  <2>3. CreditsCount'
    <3>1. /\ IsFiniteSet(reversed) /\ Cardinality(granted) \in Nat /\ Cardinality(reversed) \in Nat
      BY FS_CardinalityType, FS_Subset DEF CreditsCount
    <3>2. CASE x \in granted \ reversed
      <4>1. Cardinality(reversed') = Cardinality(reversed) + 1
        BY <2>1, <3>1, <3>2, FS_AddElement
      <4> QED BY <2>1, <3>1, <3>2, <4>1 DEF CreditsCount
    <3>3. CASE x \notin granted \ reversed
      BY <2>1, <3>3 DEF CreditsCount
    <3> QED BY <3>2, <3>3
  <2>4. Honoured(x)'
    BY <2>2 DEF Honoured, Gone
  <2>5. \A z \in Payments : z \in granted' \ reversed' => z \in granted \ reversed /\ z # x
    BY <2>1
  <2>6. CASE ~M!Free(w)
    <3>1. UNCHANGED attempt /\ Closed(x)'
      BY <1>4, <1>17, <2>6 DEF M!Reverse, Closed, Lost
    <3> QED BY <1>1, <1>2, <1>10, <2>1, <2>3, <2>4, <2>5, <3>1, Accepting
  <2>7. CASE M!Free(w)
    <3> DEFINE y == [attempt[a] EXCEPT !.status = IF r.seen.status = "refunded" THEN "refunded" ELSE "disputed",
                       !.payment = x, !.refunded = IF r.seen.status = "refunded" THEN 2 ELSE attempt[a].refunded]
    <3>1. attempt' = [attempt EXCEPT ![a] = y] /\ attempt[a].payment \in {None, x}
      BY <1>3, <1>4, <1>17, <2>7 DEF M!Reverse
    <3>2. y \in Preference /\ y.payment = x /\ y.open /\ y.status \in M!Reversal
      BY <1>2, <1>3 DEF Preference, Amounts, M!Terminal, M!Reversal
    <3> HIDE DEF y
    <3>3. /\ attempt' \in [Attempts -> Preference] /\ CheckoutsOK'
          /\ \A z \in Payments : Closed(z) => Closed(z)'
          /\ \A z \in Payments : Honoured(z) => Honoured(z)'
      BY <1>2, <1>3, <1>9, <2>1, <2>2, <3>1, <3>2 DEF M!Terminal, M!Reversal
    <3>4. Closed(x)'
      <4>1. attempt'[a] = y
        BY <1>3, <3>1 DEF MercadoTyped
      <4> QED BY <3>2, <4>1 DEF Closed, M!Terminal
    <3> QED BY <1>1, <1>2, <2>1, <2>3, <2>4, <2>5, <3>3, <3>4, Accepting
  <2> QED BY <2>6, <2>7
<1> QED BY <1>11, <1>12, <1>13, <1>14, <1>15, <1>16, <1>17

LEMMA MercadoStep ==
  ASSUME ConstantsOK, MercadoInv, M!Next
  PROVE  MercadoInv'
<1> USE DEF MercadoInv
<1>1. /\ Pays \in [Payments -> Attempts] /\ None \notin Payments /\ None \notin M!Notices
      /\ \A x \in Payments : payment[x] \in Sum
      /\ \A a \in Attempts : attempt[a] \in Preference /\ CheckoutOK(a)
  BY DEF ConstantsOK, M!ConstantsOK, MercadoTyped, CheckoutsOK
<1>2. ASSUME NEW a \in Attempts, M!Plant(a) \/ M!SavePreference(a) PROVE MercadoInv'
  <2> DEFINE y == IF M!Plant(a) THEN [attempt[a] EXCEPT !.status = "creating"]
                  ELSE [attempt[a] EXCEPT !.status = "open", !.open = TRUE]
  <2>1. /\ attempt' = [attempt EXCEPT ![a] = y] /\ attempt[a].payment = None
        /\ UNCHANGED <<payment, due, accepted, granted, reversed, sum, handler>>
    BY <1>1, <1>2 DEF M!Plant, M!SavePreference, CheckoutOK, M!provider, M!books
  <2>2. y \in Preference /\ y.payment = None /\ y.status \in {"creating", "open"} /\ (attempt[a].open => y.open)
    BY <1>1, <2>1 DEF Preference
  <2> HIDE DEF y
  <2>3. /\ attempt' \in [Attempts -> Preference] /\ CheckoutsOK'
        /\ \A x \in Payments : Closed(x) => Closed(x)'
        /\ \A x \in Payments : Honoured(x) => Honoured(x)'
    BY <2>1, <2>2, RowWritten DEF M!Terminal, M!Reversal
  <2>4. handler' \in [Workers -> Reading \cup {M!Idle}] /\ ReadingsOK'
    BY <2>1 DEF MercadoTyped, ReadingsOK, ReadingOK
  <2> QED BY <2>1, <2>3, <2>4, OnlyCheckout
<1>3. ASSUME NEW x \in Payments, M!Approve(x) \/ M!RefundPart(x) \/ M!RefundAll(x) \/ M!ChargeBack(x)
      PROVE  MercadoInv'
  <2>1. PICK y \in Sum, n \in M!Notices :
          /\ payment' = [payment EXCEPT ![x] = y] /\ due' = due \cup {<<x, n>>}
          /\ Settles(payment[x], y) /\ y.status # "none" /\ (n \in Withdraws => Gone(y))
    <3>1. ASSUME NEW y \in Sum, NEW n \in M!Notices, M!Becomes(x, y.status, y.refunded, n), Settles(payment[x], y),
                 y.status # "none", n \in Withdraws => Gone(y)
          PROVE  \E z \in Sum, m \in M!Notices :
                   /\ payment' = [payment EXCEPT ![x] = z] /\ due' = due \cup {<<x, m>>}
                   /\ Settles(payment[x], z) /\ z.status # "none" /\ (m \in Withdraws => Gone(z))
      <4>1. y = [status |-> y.status, refunded |-> y.refunded]
        BY DEF Sum
      <4> QED BY <3>1, <4>1 DEF M!Becomes
    <3>2. CASE M!Approve(x)
      <4> DEFINE y == [status |-> "approved", refunded |-> 0]
      <4>1. y \in Sum /\ Settles(payment[x], y) /\ "approved" \in M!Notices \ Withdraws
        BY <3>2 DEF M!Approve, M!Unpaid, Settles, Sum, Amounts, Gone, M!Notices, Withdraws
      <4> QED BY <3>1, <3>2, <4>1 DEF M!Approve
    <3>3. CASE M!RefundPart(x)
      <4> DEFINE y == [status |-> "approved", refunded |-> 1]
      <4>1. y \in Sum /\ Settles(payment[x], y) /\ "partial" \in M!Notices \ Withdraws
        BY <3>3 DEF M!RefundPart, Settles, Sum, Amounts, Gone, M!Notices, Withdraws
      <4> QED BY <3>1, <3>3, <4>1 DEF M!RefundPart
    <3>4. CASE M!RefundAll(x)
      <4> DEFINE y == [status |-> "refunded", refunded |-> 2]
      <4>1. y \in Sum /\ Settles(payment[x], y) /\ "refunded" \in M!Notices /\ Gone(y)
        BY <3>4 DEF M!RefundAll, Settles, Sum, Amounts, Gone, M!Notices
      <4> QED BY <3>1, <3>4, <4>1 DEF M!RefundAll
    <3>5. CASE M!ChargeBack(x)
      <4> DEFINE y == [status |-> "charged_back", refunded |-> payment[x].refunded]
      <4>1. y \in Sum /\ Settles(payment[x], y) /\ "charged_back" \in M!Notices /\ Gone(y)
        BY <1>1, <3>5 DEF M!ChargeBack, Settles, Sum, Amounts, Gone, M!Notices
      <4> QED BY <3>1, <3>5, <4>1 DEF M!ChargeBack
    <3> QED BY <1>3, <3>2, <3>3, <3>4, <3>5
  <2>2. UNCHANGED <<attempt, granted, reversed, sum, handler, accepted>>
    BY <1>3 DEF M!Approve, M!RefundPart, M!RefundAll, M!ChargeBack, M!Becomes, M!books
  <2>3. attempt[Pays[x]].open /\ attempt[Pays[x]].status # "none"
    <3>1. attempt[Pays[x]].open \/ payment[x].status # "none"
      BY <1>3 DEF M!Approve, M!RefundPart, M!RefundAll, M!ChargeBack
    <3> QED BY <1>1, <3>1 DEF CheckoutsOK, CheckoutOK
  <2> QED BY <2>1, <2>2, <2>3, PaymentMoves
<1>4. CASE M!PlanChanges \/ M!Resume
  <2>1. UNCHANGED <<payment, due, accepted, attempt, granted, reversed, sum, handler>>
    BY <1>4 DEF M!PlanChanges, M!Resume, M!provider, M!books
  <2>2. handler' \in [Workers -> Reading \cup {M!Idle}] /\ ReadingsOK'
    BY <2>1 DEF MercadoTyped, ReadingsOK, ReadingOK
  <2> QED BY <2>1, <2>2, OnlyHandler
<1>5. ASSUME NEW w \in Workers, NEW x \in Payments, NEW n \in M!Notices \cup {None}, M!Retrieve(w, x, n),
             n \in M!Notices => <<x, n>> \in Told
      PROVE  MercadoInv'
  <2> DEFINE r == [at |-> "read", of |-> x, notice |-> n, seen |-> payment[x]]
  <2>1. handler' = [handler EXCEPT ![w] = r] /\ UNCHANGED <<payment, due, accepted, attempt, granted, reversed, sum>>
    BY <1>5 DEF M!Retrieve, M!provider, M!books
  <2>2. payment[x].status # "none"
    BY <1>5 DEF M!Retrieve, ToldTrue
  <2>3. n \in Withdraws => n \in M!Notices
    BY DEF M!Notices, Withdraws
  <2>4. r \in Reading /\ ReadingOK(r)
    BY <1>1, <1>5, <2>2, <2>3 DEF Reading, ReadingOK, ToldTrue
  <2> HIDE DEF r
  <2> QED BY <2>1, <2>4, HandlerTurns, OnlyHandler
<1>6. ASSUME NEW w \in Workers, M!Deliver(w) PROVE MercadoInv'
  <2>1. PICK n \in due : M!Retrieve(w, n[1], n[2])
    BY <1>6 DEF M!Deliver
  <2>2. n[1] \in Payments /\ n[2] \in M!Notices /\ <<n[1], n[2]>> \in Told
    BY DEF MercadoTyped, Told
  <2> QED BY <1>5, <2>1, <2>2
<1>7. ASSUME NEW w \in Workers, NEW a \in Attempts, M!VisitSuccess(w, a) PROVE MercadoInv'
  <2>1. attempt[a].payment \in Payments
    BY <1>1, <1>7 DEF M!VisitSuccess, Preference
  <2> QED BY <1>1, <1>5, <1>7, <2>1 DEF M!VisitSuccess
<1>8. ASSUME NEW w \in Workers, M!Crash(w) PROVE MercadoInv'
  BY <1>8, HandlerTurns, OnlyHandler DEF M!Crash, M!Leave, M!provider, M!books
<1>9. ASSUME NEW w \in Workers,
             \/ M!ReadAttempt(w) \/ M!ObservePart(w) \/ M!Grant(w) \/ M!Ungrantable(w)
             \/ M!Overtaken(w) \/ M!RecordManual(w) \/ M!Reverse(w)
      PROVE  MercadoInv'
  <2>1. handler[w].at \in {"read", "fulfil", "observe", "reverse", "manual"} /\ UNCHANGED payment
    BY Zenon, <1>9 DEF M!ReadAttempt, M!ObservePart, M!Grant, M!Ungrantable, M!Overtaken, M!RecordManual, M!Reverse,
               M!At, M!Accept, M!provider
  <2>2. handler[w] \in Reading
    BY <2>1 DEF MercadoTyped, M!Idle
  <2>3. handler[w].of \in Payments
    BY <2>2 DEF Reading
  <2> QED BY <1>9, <2>1, <2>2, <2>3, HandlerStep
<1> QED BY <1>2, <1>3, <1>4, <1>6, <1>7, <1>8, <1>9 DEF M!Next

LEMMA MercadoInvariance == Spec => []MercadoInv
<1> USE ConstantsOK
<1>1. Init => MercadoInv
  <2> SUFFICES ASSUME Init PROVE MercadoInv
    OBVIOUS
  <2>1. M!Init
    BY DEF Init
  <2>2. MercadoTyped
    <3>1. M!Unpaid \in Sum /\ M!Absent \in Preference
      BY DEF M!Unpaid, M!Absent, Sum, Preference, Amounts
    <3> HIDE DEF Sum, Preference
    <3> QED BY <2>1, <3>1 DEF M!Init, MercadoTyped, Told
  <2>3. ToldTrue /\ ReadingsOK /\ CheckoutsOK /\ WithdrawnOK /\ M!BuyerHonoured
    BY <2>1 DEF M!Init, ToldTrue, Told, ReadingsOK, CheckoutsOK, CheckoutOK, WithdrawnOK, M!BuyerHonoured,
               M!Absent, M!Unpaid, M!Terminal, M!Reversal, ConstantsOK, M!ConstantsOK
  <2>4. CreditsCount
    BY <2>1, FS_EmptySet DEF M!Init, CreditsCount
  <2> QED BY <2>2, <2>3, <2>4 DEF MercadoInv
<1>2. ASSUME MercadoInv, [Next]_vars PROVE MercadoInv'
  <2>1. ASSUME UNCHANGED mercado PROVE MercadoInv'
    <3>1. UNCHANGED <<payment, due, accepted, attempt, granted, reversed, sum, handler>>
      BY <2>1 DEF mercado
    <3>2. handler' \in [Workers -> Reading \cup {M!Idle}] /\ ReadingsOK'
      BY <1>2, <3>1 DEF MercadoInv, MercadoTyped, ReadingsOK, ReadingOK
    <3> QED BY <1>2, <3>1, <3>2, OnlyHandler
  <2>2. ASSUME Mercado PROVE MercadoInv'
    BY <1>2, <2>2, MercadoStep DEF Mercado
  <2> QED BY <1>2, <2>1, <2>2 DEF Next, vars, Team, Retain, Scan, Post, Tell, Digest, Group, Browse, Try
<1> QED BY <1>1, <1>2, PTL DEF Spec

(* However handlers of the webhook and the success page overlap, and in    *)
(* whatever state each finds the payment: an approval that was accepted    *)
(* was granted, went back, or waits for a human, and a payment that went   *)
(* back leaves no credits and is taken back once (mercadopago/webhooks.ts).*)
THEOREM SpecImpliesMercadoKept == Spec => []MercadoKept
<1>1. MercadoInv => MercadoKept
  <2> SUFFICES ASSUME MercadoInv PROVE MercadoKept
    OBVIOUS
  <2>1. \A set : M!Cardinality(set) = Cardinality(set)
    BY Zenon DEF M!Cardinality, Cardinality
  <2>2. "refunded" \in Withdraws /\ "charged_back" \in Withdraws
    BY DEF Withdraws
  <2> QED BY <2>1, <2>2 DEF MercadoInv, CreditsCount, WithdrawnOK, MercadoKept, M!ReversalsTaken
<1> QED BY <1>1, MercadoInvariance, PTL

-----------------------------------------------------------------------------
(* The traversal of older accounts.  Who holds it has met every account    *)
(* before the one it is at, and all of them when it releases it as done.   *)
Traversing == {"inspect", "pass", "release"}
Enrolled(u) == account[u] = "live" /\ u \notin failed => welcome[u].state # "unsent"
Discovery == [after : 0..LastUser, end : 1..LastUser \cup {None}, token : Nat \cup {None}, leased : BOOLEAN]
TravelOK(r) ==
  r.at \in Traversing =>
    /\ r.token \in Nat /\ r.token <= tokens
    /\ r.at \in {"inspect", "pass"} => ~r.last
    /\ r.token = discovery.token =>
         /\ discovery.end # None
         /\ r.at \in {"inspect", "pass"} =>
              r.on \in 1..LastUser /\ \A u \in 1..LastUser : u < r.on => Enrolled(u)
         /\ r.at = "release" /\ r.last =>
              \A u \in 1..LastUser : u <= discovery.end => Enrolled(u)
TravelInv ==
  /\ account \in [1..LastUser -> {"absent", "live", "erased"}] /\ discovery \in Discovery
  /\ discovery.token # None => discovery.token <= tokens
  /\ discovery.end # None => \A u \in 1..LastUser : u <= discovery.after => Enrolled(u)
  /\ \A m \in Workers : TravelOK(mailer[m])
  /\ \A m, n \in Workers :
       mailer[m].at \in Traversing /\ mailer[n].at \in Traversing
       /\ mailer[m].token = mailer[n].token => m = n

LEMMA TravelStays ==
  ASSUME ConstantsOK, WelcomeInv, TravelInv,
         account' \in [1..LastUser -> {"absent", "live", "erased"}], discovery' \in Discovery,
         discovery'.after = discovery.after, discovery'.end = discovery.end, discovery'.token = discovery.token,
         tokens' \in Nat, tokens' >= tokens,
         \A u \in 1..LastUser : Enrolled(u) => Enrolled(u)',
         \A m \in Workers : mailer'[m] = mailer[m] \/ mailer'[m].at \notin Traversing
  PROVE  TravelInv'
<1>1. tokens \in Nat /\ None \notin Nat /\ discovery.token \in Nat \cup {None}
  BY DEF ConstantsOK, D!ConstantsOK, WelcomeInv, WelcomeTyped, TravelInv, Discovery
<1>2. \A m \in Workers : TravelOK(mailer[m])'
  BY <1>1 DEF TravelInv, TravelOK
<1>3. discovery'.token # None => discovery'.token <= tokens'
  BY <1>1 DEF TravelInv
<1>4. discovery'.end # None => \A u \in 1..LastUser : u <= discovery'.after => Enrolled(u)'
  BY DEF TravelInv
<1>5. \A m, n \in Workers :
        mailer'[m].at \in Traversing /\ mailer'[n].at \in Traversing
        /\ mailer'[m].token = mailer'[n].token => m = n
  <2>1. \A m, n \in Workers :
          mailer[m].at \in Traversing /\ mailer[n].at \in Traversing
          /\ mailer[m].token = mailer[n].token => m = n
    BY DEF TravelInv
  <2> SUFFICES ASSUME NEW m \in Workers, NEW n \in Workers,
                      mailer'[m].at \in Traversing, mailer'[n].at \in Traversing,
                      mailer'[m].token = mailer'[n].token
               PROVE  m = n
    OBVIOUS
  <2>2. mailer'[m] = mailer[m] /\ mailer'[n] = mailer[n]
    BY Zenon
  <2> QED BY <2>1, <2>2
<1> QED BY <1>2, <1>3, <1>4, <1>5 DEF TravelInv

(* Nobody who had a welcome, in whatever state, is without one again.      *)
LEMMA RowsStay ==
  ASSUME ConstantsOK, WelcomeInv, TravelInv,
         \/ D!ThrottleEnds \/ D!TraversalEnds
         \/ \E u \in D!Users : D!SignUp(u) \/ D!Erase(u) \/ D!LeaseEnds(u) \/ D!Recover(u)
  PROVE  TravelInv'
<1>1. /\ account \in [1..LastUser -> {"absent", "live", "erased"}] /\ discovery \in Discovery
      /\ welcome \in [1..LastUser -> Row] /\ tokens \in Nat
  BY DEF WelcomeInv, WelcomeTyped, TravelInv
<1>2. UNCHANGED <<mailer, tokens, failed>>
  BY ZenonT(30) DEF D!ThrottleEnds, D!TraversalEnds, D!history, D!SignUp, D!Erase, D!LeaseEnds, D!Recover
<1>3. /\ discovery' \in Discovery
      /\ discovery'.after = discovery.after /\ discovery'.end = discovery.end /\ discovery'.token = discovery.token
  BY Zenon, <1>1 DEF D!ThrottleEnds, D!TraversalEnds, D!SignUp, D!Erase, D!LeaseEnds, D!Recover, Discovery
<1>4. /\ account' \in [1..LastUser -> {"absent", "live", "erased"}]
      /\ \A v \in 1..LastUser : Enrolled(v) => Enrolled(v)'
  <2>1. CASE D!ThrottleEnds \/ D!TraversalEnds
    BY <1>1, <1>2, <2>1 DEF D!ThrottleEnds, D!TraversalEnds, Enrolled
  <2>2. ASSUME NEW u \in 1..LastUser, D!SignUp(u)
        PROVE  /\ account' \in [1..LastUser -> {"absent", "live", "erased"}]
               /\ \A v \in 1..LastUser : Enrolled(v) => Enrolled(v)'
    <3>1. /\ account' = [account EXCEPT ![u] = "live"]
          /\ \/ welcome' = welcome /\ welcome[u].state # "unsent"
             \/ welcome' = [welcome EXCEPT ![u].state = "queued"]
      BY <2>2 DEF D!SignUp, D!Enqueued
    <3>2. welcome'[u].state # "unsent" /\ \A v \in 1..LastUser \ {u} : welcome'[v] = welcome[v]
      BY <1>1, <3>1 DEF Row
    <3> QED BY <1>1, <1>2, <3>1, <3>2 DEF Enrolled
  <2>3. ASSUME NEW u \in 1..LastUser, D!Erase(u)
        PROVE  /\ account' \in [1..LastUser -> {"absent", "live", "erased"}]
               /\ \A v \in 1..LastUser : Enrolled(v) => Enrolled(v)'
    BY <1>1, <1>2, <2>3 DEF D!Erase, Enrolled
  <2>4. ASSUME NEW u \in 1..LastUser, D!LeaseEnds(u) \/ D!Recover(u)
        PROVE  /\ account' \in [1..LastUser -> {"absent", "live", "erased"}]
               /\ \A v \in 1..LastUser : Enrolled(v) => Enrolled(v)'
    <3>1. account' = account /\ \A v \in 1..LastUser \ {u} : welcome'[v] = welcome[v]
      BY Zenon, <1>1, <2>4 DEF D!LeaseEnds, D!Recover
    <3>2. welcome'[u].state = welcome[u].state \/ welcome'[u].state # "unsent"
      <4> DEFINE x == IF D!LeaseEnds(u) THEN [welcome[u] EXCEPT !.leased = FALSE]
                      ELSE [welcome[u] EXCEPT !.state = D!Recovered(u), !.token = None]
      <4>1. welcome' = [welcome EXCEPT ![u] = x]
        BY Zenon, <2>4 DEF D!LeaseEnds, D!Recover
      <4>2. x.state = welcome[u].state \/ x.state # "unsent"
        BY <1>1 DEF D!Recovered, Row
      <4> HIDE DEF x
      <4> QED BY <1>1, <4>1, <4>2
    <3> QED BY <1>1, <1>2, <3>1, <3>2 DEF Enrolled
  <2> QED BY <2>1, <2>2, <2>3, <2>4 DEF D!Users
<1> QED BY <1>1, <1>2, <1>3, <1>4, TravelStays

LEMMA ErrandsStay ==
  ASSUME ConstantsOK, WelcomeInv, TravelInv, NEW m \in Workers,
         \/ \E u \in D!Users : D!ClaimWelcome(m, u)
         \/ D!Prepare(m) \/ D!StartSubmission(m) \/ D!Send(m) \/ D!Refused(m) \/ D!Unknown(m) \/ D!Record(m)
         \/ D!Crash(m)
  PROVE  TravelInv'
<1>1. /\ account \in [1..LastUser -> {"absent", "live", "erased"}] /\ discovery \in Discovery
      /\ welcome \in [1..LastUser -> Row] /\ tokens \in Nat /\ mailer \in [Workers -> Mailer]
  BY DEF WelcomeInv, WelcomeTyped, TravelInv
<1>2. UNCHANGED <<account, discovery, failed>>
  BY Zenon DEF D!ClaimWelcome, D!Prepare, D!StartSubmission, D!Send, D!Refused, D!Unknown, D!Record, D!Crash,
         D!history, D!tables
<1>3. tokens' \in Nat /\ tokens' >= tokens
  <2>1. tokens' = tokens \/ tokens' = tokens + 1
    BY Zenon DEF D!ClaimWelcome, D!Take, D!Prepare, D!StartSubmission, D!Send, D!Refused, D!Unknown, D!Record, D!Crash
  <2> QED BY <1>1, <2>1
<1>4. \A k \in Workers : mailer'[k] = mailer[k] \/ mailer'[k].at \notin Traversing
  <2>1. PICK t : mailer' = [mailer EXCEPT ![m] = t] /\ t.at \notin Traversing
    <3>1. CASE \E u \in D!Users : D!ClaimWelcome(m, u)
      <4>1. PICK u \in D!Users : mailer' = [mailer EXCEPT ![m] =
                [D!Idle EXCEPT !.at = "prepare", !.on = u, !.token = tokens + 1]]
        BY Zenon, <3>1 DEF D!ClaimWelcome, D!Take
      <4> DEFINE t == [D!Idle EXCEPT !.at = "prepare", !.on = u, !.token = tokens + 1]
      <4>2. t.at = "prepare"
        OBVIOUS
      <4> HIDE DEF t
      <4>3. mailer' = [mailer EXCEPT ![m] = t]
        BY <4>1 DEF t
      <4> QED BY <4>2, <4>3 DEF Traversing
    <3>2. ASSUME NEW x, D!Go(m, x), x \notin Traversing
          PROVE  \E t : mailer' = [mailer EXCEPT ![m] = t] /\ t.at \notin Traversing
      <4> DEFINE t == [mailer[m] EXCEPT !.at = x]
      <4>1. mailer' = [mailer EXCEPT ![m] = t] /\ t.at = x
        BY <1>1, <3>2 DEF D!Go, Mailer
      <4> QED BY <3>2, <4>1
    <3>3. CASE D!Rest(m)
      <4>1. D!Idle.at = "idle" /\ mailer' = [mailer EXCEPT ![m] = D!Idle]
        BY <3>3 DEF D!Rest
      <4> HIDE DEF D!Idle
      <4> QED BY <4>1 DEF Traversing
    <3>4. CASE D!Prepare(m) /\ ~D!Rest(m)
      <4> DEFINE t == [mailer[m] EXCEPT !.at = "start", !.tries = D!Row(m).tries]
      <4>1. mailer' = [mailer EXCEPT ![m] = t]
        BY <3>4 DEF D!Prepare
      <4>2. t.at = "start"
        BY <1>1 DEF Mailer
      <4> QED BY <4>1, <4>2 DEF Traversing
    <3>5. CASE D!StartSubmission(m)
      BY <3>2, <3>3, <3>5 DEF D!StartSubmission, Traversing
    <3>6. CASE D!Send(m) \/ D!Refused(m) \/ D!Unknown(m)
      BY <3>2, <3>6 DEF D!Send, D!Refused, D!Unknown, Traversing
    <3>7. CASE D!Record(m) \/ D!Crash(m)
      BY <3>3, <3>7 DEF D!Record, D!Crash
    <3> QED BY <3>1, <3>3, <3>4, <3>5, <3>6, <3>7
  <2> QED BY <1>1, <2>1
<1>5. \A v \in 1..LastUser : welcome[v].state # "unsent" => welcome'[v].state # "unsent"
  <2>1. ASSUME NEW u, NEW x, x.state # "unsent", welcome' = [welcome EXCEPT ![u] = x]
        PROVE  \A v \in 1..LastUser : welcome[v].state # "unsent" => welcome'[v].state # "unsent"
    BY <1>1, <2>1
  <2>2. ASSUME NEW u \in 1..LastUser, D!ClaimWelcome(m, u)
        PROVE  \A v \in 1..LastUser : welcome[v].state # "unsent" => welcome'[v].state # "unsent"
    BY ZenonT(30), <1>1, <2>2 DEF D!ClaimWelcome, Row
  <2>3. CASE D!Prepare(m)
    <3>1. ASSUME NEW to \in {"suppressed", "queued"}, D!Put(m, to)
          PROVE  \A v \in 1..LastUser : welcome[v].state # "unsent" => welcome'[v].state # "unsent"
      BY <1>1, <3>1 DEF D!Put, Row
    <3> QED BY <2>3, <3>1 DEF D!Prepare
  <2>4. CASE D!StartSubmission(m)
    <3>1. CASE D!Startable(m)
      <4> DEFINE x == [welcome[mailer[m].on] EXCEPT !.state = "flight", !.tries = welcome[mailer[m].on].tries + 1]
      <4>1. welcome' = [welcome EXCEPT ![mailer[m].on] = x]
        BY <2>4, <3>1 DEF D!StartSubmission, D!Row
      <4>2. mailer[m].on \in 1..LastUser => x.state = "flight"
        BY <1>1 DEF Row
      <4> HIDE DEF x
      <4> QED BY <1>1, <4>1, <4>2
    <3> QED BY <2>4, <3>1 DEF D!StartSubmission
  <2>5. CASE D!Record(m)
    BY <1>1, <2>1, <2>5 DEF D!Record, D!Verdict, D!At
  <2>6. CASE D!Send(m) \/ D!Refused(m) \/ D!Unknown(m) \/ D!Crash(m)
    BY <2>6 DEF D!Send, D!Refused, D!Unknown, D!Crash, D!tables
  <2> QED BY <2>2, <2>3, <2>4, <2>5, <2>6 DEF D!Users
<1>6. \A v \in 1..LastUser : Enrolled(v) => Enrolled(v)'
  BY <1>2, <1>5 DEF Enrolled
<1> QED BY <1>1, <1>2, <1>3, <1>4, <1>6, TravelStays

(* Whoever takes a step of the traversal leaves the others where they are. *)
LEMMA TravelMoves ==
  ASSUME ConstantsOK, WelcomeInv, TravelInv, NEW m \in Workers, NEW t,
         mailer' = [mailer EXCEPT ![m] = t], account' = account, tokens' = tokens, discovery' \in Discovery,
         \/ discovery'.token = None
         \/ discovery'.token = discovery.token /\ discovery'.end = discovery.end,
         \A u \in 1..LastUser : Enrolled(u) => Enrolled(u)',
         discovery'.end # None => \A u \in 1..LastUser : u <= discovery'.after => Enrolled(u)',
         t.at \in Traversing => mailer[m].at \in Traversing /\ t.token = mailer[m].token,
         TravelOK(t)'
  PROVE  TravelInv'
<1>1. /\ tokens \in Nat /\ None \notin Nat /\ mailer \in [Workers -> Mailer]
      /\ \A k \in Workers : TravelOK(mailer[k])
      /\ \A k, n \in Workers : mailer[k].at \in Traversing /\ mailer[n].at \in Traversing
                               /\ mailer[k].token = mailer[n].token => k = n
  BY DEF ConstantsOK, D!ConstantsOK, WelcomeInv, WelcomeTyped, TravelInv
<1>2. mailer'[m] = t /\ \A k \in Workers \ {m} : mailer'[k] = mailer[k]
  BY <1>1
<1>3. ASSUME NEW k \in Workers \ {m} PROVE TravelOK(mailer[k])'
  <2>1. TravelOK(mailer[k]) /\ mailer'[k] = mailer[k]
    BY <1>1, <1>2
  <2> QED BY <1>1, <2>1 DEF TravelOK
<1>4. TravelOK(mailer[m])'
  BY <1>2 DEF TravelOK
<1>5. ASSUME NEW k \in Workers, NEW n \in Workers, mailer'[k].at \in Traversing, mailer'[n].at \in Traversing,
             mailer'[k].token = mailer'[n].token
      PROVE  k = n
  <2>1. \A x \in Workers : mailer'[x].at \in Traversing =>
          mailer[x].at \in Traversing /\ mailer'[x].token = mailer[x].token
    BY <1>2
  <2> QED BY <1>1, <1>5, <2>1
<1>6. discovery'.token # None => discovery'.token <= tokens'
  BY DEF TravelInv
<1>7. account' \in [1..LastUser -> {"absent", "live", "erased"}]
  BY DEF TravelInv
<1>8. \A k \in Workers : TravelOK(mailer[k])'
  BY <1>3, <1>4
<1>9. \A k, n \in Workers :
        mailer'[k].at \in Traversing /\ mailer'[n].at \in Traversing
        /\ mailer'[k].token = mailer'[n].token => k = n
  BY <1>5
<1> QED BY <1>6, <1>7, <1>8, <1>9 DEF TravelInv

LEMMA MeetsAccount ==
  ASSUME ConstantsOK, WelcomeInv, TravelInv, NEW m \in Workers,
         D!InspectFails(m) \/ D!Inspect(m) \/ D!PassOver(m) \/ D!ReleaseDiscovery(m)
  PROVE  TravelInv'
<1> DEFINE r == mailer[m]
<1>1. /\ r \in Mailer /\ TravelOK(r) /\ None \notin Nat /\ LastUser \in Nat
      /\ discovery \in Discovery /\ welcome \in [1..LastUser -> Row]
      /\ discovery.end # None => \A u \in 1..LastUser : u <= discovery.after => Enrolled(u)
  BY DEF ConstantsOK, D!ConstantsOK, WelcomeInv, WelcomeTyped, TravelInv
<1>2. account' = account /\ tokens' = tokens
  BY DEF D!InspectFails, D!Inspect, D!PassOver, D!ReleaseDiscovery, D!tables
(* Nothing is written: the errand goes on, and does not count as done. *)
<1>3. ASSUME NEW x \in {"pass", "release"}, r.at \in {"inspect", "pass"}, D!Go(m, x),
             UNCHANGED <<discovery, welcome, failed>>
      PROVE  TravelInv'
  <2>1. PICK t : /\ mailer' = [mailer EXCEPT ![m] = t] /\ t.at = x
                 /\ t.token = r.token /\ t.on = r.on /\ t.last = r.last
    <3> DEFINE t == [r EXCEPT !.at = x]
    <3>1. mailer' = [mailer EXCEPT ![m] = t]
      BY <1>3 DEF D!Go
    <3>2. t.at = x /\ t.token = r.token /\ t.on = r.on /\ t.last = r.last
      BY <1>1 DEF Mailer
    <3> HIDE DEF t
    <3> QED BY <3>1, <3>2
  <2>2. \A u \in 1..LastUser : Enrolled(u) <=> Enrolled(u)'
    BY <1>2, <1>3 DEF Enrolled
  <2>3. r.at \in Traversing /\ t.at \in {"pass", "release"} /\ t.at \in Traversing
    BY <1>3, <2>1 DEF Traversing
  <2>4. TravelOK(t)'
    BY <1>1, <1>2, <1>3, <2>1, <2>2, <2>3 DEF TravelOK
  <2> QED BY <1>1, <1>2, <1>3, <2>1, <2>2, <2>3, <2>4, TravelMoves
(* The account is written, and with it how far the traversal has come. *)
<1>4. ASSUME r.at \in {"inspect", "pass"}, r.token = discovery.token, mailer' = [mailer EXCEPT ![m] = D!Finishes(m)],
             discovery' = [discovery EXCEPT !.after = r.on],
             \A u \in 1..LastUser : Enrolled(u) => Enrolled(u)',
             \A u \in 1..LastUser : u = r.on => Enrolled(u)'
      PROVE  TravelInv'
  <2>1. /\ r.at \in Traversing /\ discovery.end # None /\ r.on \in 1..LastUser
        /\ \A u \in 1..LastUser : u < r.on => Enrolled(u)
    BY <1>1, <1>4 DEF TravelOK, Traversing
  <2>2. ASSUME NEW u \in 1..LastUser, u <= r.on PROVE Enrolled(u)'
    <3>1. u < r.on \/ u = r.on
      BY <1>1, <2>1, <2>2
    <3> QED BY <1>4, <2>1, <3>1
  <2>3. /\ discovery' \in Discovery /\ discovery'.after = r.on
        /\ discovery'.token = discovery.token /\ discovery'.end = discovery.end
    BY <1>1, <1>4, <2>1 DEF Discovery
  <2>4. PICK t : /\ mailer' = [mailer EXCEPT ![m] = t] /\ t.at = "release" /\ t.token = r.token
                 /\ t.last => r.on = discovery.end
    <3> DEFINE t == D!Finishes(m)
    <3>1. t.at = "release" /\ t.token = r.token /\ (t.last => r.on = discovery.end)
      BY <1>1 DEF Mailer, D!Finishes
    <3> HIDE DEF t
    <3>2. mailer' = [mailer EXCEPT ![m] = t]
      BY <1>4 DEF t
    <3> QED BY <3>1, <3>2
  <2>5. r.token \in Nat /\ r.token <= tokens
    BY <1>1, <2>1 DEF TravelOK
  <2>6. TravelOK(t)'
    BY <1>2, <2>1, <2>2, <2>3, <2>4, <2>5 DEF TravelOK
  <2> QED BY <1>2, <1>4, <2>1, <2>2, <2>3, <2>4, <2>6, TravelMoves
<1>5. CASE D!InspectFails(m)
  BY <1>3, <1>5 DEF D!InspectFails, D!At, D!tables, D!history
<1>6. CASE D!Inspect(m)
  <2>1. CASE D!Holds(m) /\ discovery.leased
    <3>1. welcome' = IF account[r.on] = "live" THEN D!Enqueued(r.on, welcome) ELSE welcome
      BY <1>6, <2>1 DEF D!Inspect
    <3>2. ASSUME NEW v \in 1..LastUser
          PROVE  /\ welcome[v].state # "unsent" => welcome'[v].state # "unsent"
                 /\ v = r.on /\ account[v] = "live" => welcome'[v].state # "unsent"
      BY <1>1, <3>1, <3>2 DEF D!Enqueued, Row
    <3>3. failed' = failed
      BY <1>6 DEF D!Inspect, D!history
    <3>4. \A u \in 1..LastUser : Enrolled(u) => Enrolled(u)'
      BY <1>2, <3>2, <3>3 DEF Enrolled
    <3>5. \A u \in 1..LastUser : u = r.on => Enrolled(u)'
      BY <1>2, <3>2, <3>3 DEF Enrolled
    <3> QED BY <1>4, <1>6, <2>1, <3>4, <3>5 DEF D!Inspect, D!At, D!Holds
  <2>2. CASE ~(D!Holds(m) /\ discovery.leased)
    BY <1>3, <1>6, <2>2 DEF D!Inspect, D!At, D!history
  <2> QED BY <2>1, <2>2
<1>7. CASE D!PassOver(m)
  <2>1. CASE D!Holds(m)
    <3>1. failed' = failed \cup {r.on} /\ welcome' = welcome
      BY <1>7, <2>1 DEF D!PassOver
    <3>2. /\ \A u \in 1..LastUser : Enrolled(u) => Enrolled(u)'
          /\ \A u \in 1..LastUser : u = r.on => Enrolled(u)'
      BY <1>2, <3>1 DEF Enrolled
    <3> QED BY <1>4, <1>7, <2>1, <3>2 DEF D!PassOver, D!At, D!Holds
  <2>2. CASE ~D!Holds(m)
    BY <1>3, <1>7, <2>2 DEF D!PassOver, D!At
  <2> QED BY <2>1, <2>2
<1>8. CASE D!ReleaseDiscovery(m)
  <2>1. UNCHANGED <<welcome, failed>>
    BY <1>8 DEF D!ReleaseDiscovery, D!history
  <2>2. mailer' = [mailer EXCEPT ![m] = D!Idle] /\ D!Idle.at \notin Traversing
    BY <1>8 DEF D!ReleaseDiscovery, D!Rest, Traversing
  <2>3. \A u \in 1..LastUser : Enrolled(u) => Enrolled(u)'
    BY <1>2, <2>1 DEF Enrolled
  <2>4. TravelOK(D!Idle)'
    BY DEF TravelOK, Traversing
  <2>5. /\ discovery' \in Discovery
        /\ discovery'.token = None \/ (discovery'.token = discovery.token /\ discovery'.end = discovery.end)
        /\ discovery'.end = None \/ (discovery'.end = discovery.end /\ discovery'.after = discovery.after)
    <3>1. CASE discovery' = discovery
      BY <1>1, <3>1
    <3>2. CASE discovery' = D!Free
      BY <1>1, <3>2 DEF D!Free, Discovery
    <3>3. CASE discovery' = [discovery EXCEPT !.token = None, !.leased = FALSE]
      BY <1>1, <3>3 DEF Discovery
    <3> QED BY <1>8, <3>1, <3>2, <3>3 DEF D!ReleaseDiscovery
  <2>6. discovery'.end # None => \A u \in 1..LastUser : u <= discovery'.after => Enrolled(u)'
    BY <1>1, <2>3, <2>5
  <2> HIDE DEF D!Idle
  <2> QED BY <1>2, <2>2, <2>3, <2>4, <2>5, <2>6, TravelMoves
<1> QED BY <1>5, <1>6, <1>7, <1>8

(* A traversal is begun, or taken on where the last one left it. *)
LEMMA GreatestAccount ==
  ASSUME LastUser \in Nat, D!Existing # {}
  PROVE  D!Max(D!Existing) \in D!Existing
<1> DEFINE gap == {n \in Nat : LastUser - n \in D!Existing}
<1>1. D!Existing \subseteq 1..LastUser
  BY DEF D!Existing, D!Users
<1>2. PICK u \in D!Existing : TRUE
  OBVIOUS
<1>3. LastUser - u \in Nat /\ LastUser - (LastUser - u) = u
  BY <1>1, <1>2
<1>4. gap # {} /\ gap \subseteq Nat
  BY <1>2, <1>3
<1>5. PICK n \in gap : \A k \in gap : n <= k
  BY <1>4, Least
<1>6. LastUser - n \in D!Existing /\ n \in Nat
  BY <1>5
<1>7. ASSUME NEW v \in D!Existing PROVE v <= LastUser - n
  <2>1. LastUser - v \in Nat /\ LastUser - (LastUser - v) = v /\ v \in Nat
    BY <1>1, <1>7
  <2>2. n <= LastUser - v
    BY <1>5, <2>1
  <2> QED BY <1>6, <2>1, <2>2
<1>8. \E x \in D!Existing : \A v \in D!Existing : x >= v
  <2>1. \A v \in D!Existing : LastUser - n >= v
    BY <1>1, <1>6, <1>7
  <2> QED BY <1>6, <2>1
<1> QED BY <1>8 DEF D!Max

LEMMA TraversalTaken ==
  ASSUME ConstantsOK, WelcomeInv, TravelInv, NEW m \in Workers, D!ClaimDiscovery(m)
  PROVE  TravelInv' /\ discovery'.end # None
<1> DEFINE d == IF discovery.end = None THEN [D!Free EXCEPT !.end = D!Max(D!Existing)] ELSE discovery
           page == {u \in D!Existing : u > d.after /\ u <= d.end}
<1>1. /\ tokens \in Nat /\ None \notin Nat /\ LastUser \in Nat /\ mailer \in [Workers -> Mailer]
      /\ discovery \in Discovery /\ account \in [1..LastUser -> {"absent", "live", "erased"}]
      /\ discovery.end # None => \A u \in 1..LastUser : u <= discovery.after => Enrolled(u)
      /\ \A k \in Workers : TravelOK(mailer[k])
      /\ \A k, n \in Workers :
           mailer[k].at \in Traversing /\ mailer[n].at \in Traversing /\ mailer[k].token = mailer[n].token => k = n
  BY DEF ConstantsOK, D!ConstantsOK, WelcomeInv, WelcomeTyped, TravelInv
<1>2. /\ tokens' = tokens + 1 /\ account' = account /\ welcome' = welcome /\ D!Existing # {}
      /\ failed' = IF discovery.end = None THEN {} ELSE failed
  BY DEF D!ClaimDiscovery
<1>3. /\ d \in Discovery /\ d.end # None
      /\ \A u \in 1..LastUser : u <= d.after => Enrolled(u)'
  <2>1. CASE discovery.end = None
    <3>1. D!Max(D!Existing) \in 1..LastUser
      BY <1>1, <1>2, GreatestAccount DEF D!Existing, D!Users
    <3>2. PICK x \in 1..LastUser : d = [after |-> 0, end |-> x, token |-> None, leased |-> FALSE]
      BY Zenon, <2>1, <3>1 DEF D!Free
    <3>3. d.after = 0 /\ d.end = x /\ d \in Discovery
      <4> HIDE DEF d
      <4> QED BY <1>1, <3>2 DEF Discovery
    <3> HIDE DEF d
    <3> QED BY <1>1, <3>3
  <2>2. CASE discovery.end # None
    BY <1>1, <1>2, <2>2 DEF Enrolled
  <2> QED BY <2>1, <2>2
<1>4. discovery' = [d EXCEPT !.token = tokens + 1, !.leased = TRUE]
  BY <1>2 DEF D!ClaimDiscovery
<1>5. /\ discovery' \in Discovery /\ discovery'.token = tokens + 1
      /\ discovery'.after = d.after /\ discovery'.end = d.end
  <2> HIDE DEF d
  <2>1. /\ discovery'.token = tokens + 1 /\ discovery'.leased = TRUE
        /\ discovery'.after = d.after /\ discovery'.end = d.end
    BY <1>3, <1>4 DEF Discovery
  <2>2. discovery' = [after |-> d.after, end |-> d.end, token |-> tokens + 1, leased |-> TRUE]
    BY <1>3, <1>4 DEF Discovery
  <2>3. d.after \in 0..LastUser /\ d.end \in 1..LastUser \cup {None} /\ tokens + 1 \in Nat
    BY <1>1, <1>3 DEF Discovery
  <2> QED BY <2>1, <2>2, <2>3 DEF Discovery
(* Everybody before the account it starts at is enrolled, or not there. *)
<1>6. \A u \in 1..LastUser : u \notin D!Existing => Enrolled(u)'
  BY <1>2 DEF D!Existing, D!Users, Enrolled
<1>7. PICK t : /\ mailer' = [mailer EXCEPT ![m] = t] /\ t.token = tokens + 1
               /\ \/ t.at = "release" /\ \A u \in 1..LastUser : u <= d.end => Enrolled(u)'
                  \/ /\ t.at = "inspect" /\ t.last = FALSE /\ t.on \in 1..LastUser
                     /\ \A u \in 1..LastUser : u < t.on => Enrolled(u)'
  <2> DEFINE t == [D!Idle EXCEPT !.token = tokens + 1, !.at = IF page = {} THEN "release" ELSE "inspect",
                     !.on = IF page = {} THEN None ELSE D!Min(page), !.last = page = {}]
  <2>1. mailer' = [mailer EXCEPT ![m] = t]
    BY <1>2 DEF D!ClaimDiscovery
  <2>2. /\ t.token = tokens + 1 /\ t.at = IF page = {} THEN "release" ELSE "inspect"
        /\ t.on = IF page = {} THEN None ELSE D!Min(page)
        /\ page # {} => t.last = FALSE
    <3> HIDE DEF page
    <3> QED OBVIOUS
  <2>3. CASE page = {}
    <3>1. ASSUME NEW u \in 1..LastUser, u <= d.end PROVE Enrolled(u)'
      <4>1. u <= d.after \/ u > d.after
        BY <1>3, <3>1 DEF Discovery
      <4>2. u > d.after => u \notin D!Existing
        BY <2>3, <3>1
      <4> QED BY <1>3, <1>6, <4>1, <4>2
    <3> HIDE DEF t, page
    <3> QED BY <2>1, <2>2, <2>3, <3>1
  <2>4. CASE page # {}
    <3>1. page \subseteq 1..LastUser
      BY DEF D!Existing, D!Users
    <3>2. PICK k \in page : \A n \in page : k <= n
      <4> HIDE DEF page
      <4>1. page \subseteq Nat
        BY <1>1, <3>1
      <4> QED BY <2>4, <4>1, Least
    <3>3. D!Min(page) \in page /\ \A n \in page : D!Min(page) <= n
      <4> HIDE DEF page
      <4> QED BY <3>2 DEF D!Min
    <3>4. PICK x \in page : x = D!Min(page) /\ (\A n \in page : x <= n)
      BY Zenon, <3>3
    <3>5. x \in 1..LastUser /\ x <= d.end
      BY Zenon, <3>1, <3>4
    <3>6. ASSUME NEW u \in 1..LastUser, u < x PROVE Enrolled(u)'
      <4>1. u <= d.after \/ u > d.after
        BY <1>3, <3>6 DEF Discovery
      <4>2. d.end \in 1..LastUser
        BY <1>3 DEF Discovery
      <4>3. u \notin page /\ u <= d.end
        <5> HIDE DEF page, d
        <5> QED BY <3>4, <3>5, <3>6, <4>2
      <4>4. u > d.after => u \notin D!Existing
        BY <4>3
      <4> QED BY <1>3, <1>6, <4>1, <4>4
    <3> HIDE DEF t, page
    <3> QED BY <2>1, <2>2, <2>4, <3>4, <3>5, <3>6
  <2> QED BY <2>3, <2>4
<1> HIDE DEF d, page
<1>8. mailer'[m] = t /\ \A k \in Workers \ {m} : mailer'[k] = mailer[k]
  BY <1>1, <1>7
<1>9. tokens + 1 \in Nat /\ tokens + 1 <= tokens' /\ tokens' \in Nat
  BY <1>1, <1>2
<1>10. TravelOK(mailer[m])'
  BY <1>3, <1>5, <1>7, <1>8, <1>9 DEF TravelOK
<1>11. ASSUME NEW k \in Workers \ {m}, mailer[k].at \in Traversing
       PROVE  mailer[k].token \in Nat /\ mailer[k].token <= tokens
  BY <1>1, <1>11 DEF TravelOK
<1>12. ASSUME NEW k \in Workers \ {m} PROVE TravelOK(mailer[k])'
  <2>1. TravelOK(mailer[k]) /\ mailer'[k] = mailer[k]
    BY <1>1, <1>8
  <2> QED BY <1>1, <1>2, <1>5, <1>11, <2>1 DEF TravelOK
<1>13. ASSUME NEW k \in Workers, NEW n \in Workers, mailer'[k].at \in Traversing, mailer'[n].at \in Traversing,
              mailer'[k].token = mailer'[n].token
       PROVE  k = n
  <2>1. \A x \in Workers \ {m} : mailer'[x].at \in Traversing => mailer'[x].token # tokens + 1
    BY <1>1, <1>8, <1>11
  <2>2. k = m <=> n = m
    BY <1>7, <1>8, <1>13, <2>1
  <2> QED BY <1>1, <1>8, <1>13, <2>2
<1>14. \A k \in Workers : TravelOK(mailer[k])'
  BY <1>10, <1>12
<1>15. \A k, n \in Workers :
         mailer'[k].at \in Traversing /\ mailer'[n].at \in Traversing /\ mailer'[k].token = mailer'[n].token => k = n
  BY <1>13
<1>16. \A u \in 1..LastUser : u <= discovery'.after => Enrolled(u)'
  BY <1>3, <1>5
<1>17. discovery'.token <= tokens' /\ account' \in [1..LastUser -> {"absent", "live", "erased"}]
  BY <1>1, <1>2, <1>5, <1>9
<1> QED BY <1>3, <1>5, <1>14, <1>15, <1>16, <1>17 DEF TravelInv

LEMMA TravelStep ==
  ASSUME ConstantsOK, WelcomeInv, TravelInv, D!Next
  PROVE  /\ TravelInv'
         /\ discovery.end # None /\ discovery'.end = None =>
              \A u \in 1..discovery.end : account[u] = "live" /\ u \notin failed => welcome[u].state # "unsent"
<1> DEFINE Kept == discovery.end # None /\ discovery'.end = None =>
              \A u \in 1..discovery.end : account[u] = "live" /\ u \notin failed => welcome[u].state # "unsent"
<1>1. discovery \in Discovery /\ LastUser \in Nat /\ \A m \in Workers : TravelOK(mailer[m])
  BY DEF TravelInv, ConstantsOK, D!ConstantsOK
<1>2. CASE \/ D!ThrottleEnds \/ D!TraversalEnds
           \/ \E u \in D!Users : D!SignUp(u) \/ D!Erase(u) \/ D!LeaseEnds(u) \/ D!Recover(u)
  <2>1. discovery'.end = discovery.end
    BY Zenon, <1>1, <1>2 DEF D!ThrottleEnds, D!TraversalEnds, D!SignUp, D!Erase, D!LeaseEnds, D!Recover, Discovery
  <2> QED BY <1>2, <2>1, RowsStay
<1>3. ASSUME NEW m \in Workers,
             \/ \E u \in D!Users : D!ClaimWelcome(m, u)
             \/ D!Prepare(m) \/ D!StartSubmission(m) \/ D!Send(m) \/ D!Refused(m) \/ D!Unknown(m) \/ D!Record(m)
             \/ D!Crash(m)
      PROVE  TravelInv' /\ Kept
  <2>1. discovery' = discovery
    BY Zenon, <1>3 DEF D!ClaimWelcome, D!Prepare, D!StartSubmission, D!Send, D!Refused, D!Unknown, D!Record, D!Crash,
                D!tables
  <2> QED BY <1>3, <2>1, ErrandsStay
<1>4. ASSUME NEW m \in Workers, D!ClaimDiscovery(m) PROVE TravelInv' /\ Kept
  BY <1>4, TraversalTaken
<1>5. ASSUME NEW m \in Workers, D!InspectFails(m) \/ D!Inspect(m) \/ D!PassOver(m)
      PROVE  TravelInv' /\ Kept
  <2>1. discovery'.end = discovery.end
    BY <1>1, <1>5 DEF D!InspectFails, D!Inspect, D!PassOver, D!tables, Discovery
  <2> QED BY <1>5, <2>1, MeetsAccount
<1>6. ASSUME NEW m \in Workers, D!ReleaseDiscovery(m) PROVE TravelInv' /\ Kept
  <2>1. TravelInv'
    BY <1>6, MeetsAccount
  <2>2. ASSUME discovery.end # None, discovery'.end = None
        PROVE  \A u \in 1..LastUser : u <= discovery.end => Enrolled(u)
    <3>1. mailer[m].at = "release" /\ discovery.token = mailer[m].token /\ mailer[m].last
      BY <1>1, <1>6, <2>2 DEF D!ReleaseDiscovery, D!At, D!Holds, Discovery
    <3> QED BY <1>1, <3>1 DEF TravelOK, Traversing
  <2>3. discovery.end # None => 1..discovery.end \subseteq 1..LastUser
    BY <1>1 DEF Discovery
  <2> QED BY <2>1, <2>2, <2>3 DEF Enrolled
<1> QED BY <1>2, <1>3, <1>4, <1>5, <1>6 DEF D!Next

LEMMA TravelInvariance == Spec => []TravelInv
<1> USE ConstantsOK
<1>1. Init => TravelInv
  <2> SUFFICES ASSUME Init PROVE TravelInv
    OBVIOUS
  <2>1. D!Init /\ None \notin Nat /\ LastUser \in Nat
    BY DEF Init, D!ConstantsOK
  <2>2. discovery = [after |-> 0, end |-> None, token |-> None, leased |-> FALSE] /\ discovery \in Discovery
    BY <2>1 DEF D!Init, D!Free, Discovery
  <2>3. account \in [1..LastUser -> {"absent", "live", "erased"}]
    BY <2>1 DEF D!Init, D!Users
  <2>4. \A m \in Workers : mailer[m].at \notin Traversing
    BY <2>1 DEF D!Init, Traversing
  <2> QED BY <2>2, <2>3, <2>4 DEF TravelInv, TravelOK
<1>2. ASSUME WelcomeInv, TravelInv, [Next]_vars PROVE TravelInv'
  <2>1. ASSUME UNCHANGED post PROVE TravelInv'
    BY <1>2, <2>1 DEF TravelInv, TravelOK, Enrolled, post
  <2>2. CASE Post
    BY <1>2, <2>2, TravelStep DEF Post
  <2> QED BY <1>2, <2>1, <2>2 DEF Next, vars, Team, Retain, Scan, Tell, Digest, Mercado, Group, Browse, Try
<1> QED BY <1>1, <1>2, WelcomeInvariance, PTL DEF Spec

(* However traversals overlap, lose their lease, die or pass over accounts *)
(* they fail on, one that ends has enrolled every account there was when   *)
(* it began, save those (welcomeBackfill.ts enrollWelcomeCandidates).      *)
THEOREM SpecImpliesTraversalCovers == Spec => TraversalCovers
<1> USE ConstantsOK
<1>1. ASSUME WelcomeInv, TravelInv, [Next]_vars
      PROVE  [discovery.end # None /\ discovery'.end = None =>
                \A u \in 1..discovery.end :
                   account[u] = "live" /\ u \notin failed => welcome[u].state # "unsent"]_(D!vars)
  <2>1. CASE UNCHANGED post
    BY <2>1 DEF post
  <2>2. CASE Post
    BY <1>1, <2>2, TravelStep DEF Post
  <2> QED BY <1>1, <2>1, <2>2 DEF Next, vars, Team, Retain, Scan, Tell, Digest, Mercado, Group, Browse, Try
<1> QED BY <1>1, WelcomeInvariance, TravelInvariance, PTL DEF Spec, TraversalCovers, D!TraversalCovers
=============================================================================
