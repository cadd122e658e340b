------------------------------- MODULE Themes -------------------------------
(***************************************************************************)
(* How a digest counts recurring feedback: each comment of a batch is      *)
(* classified (feedback.ts), a model merges the claims of one category     *)
(* into themes (feedbackCluster.ts), and what then carries the same claim  *)
(* is one group, a finding when it is large enough (feedbackGroup.js).     *)
(* The model's answer is not trusted: a theme that mixes what it may not,  *)
(* a comment two themes claim, or a wording shared by themes that have     *)
(* nothing in common falls back to the claims as they were classified.     *)
(*                                                                         *)
(* A claim stands for its grouping key, which is what normalizeClaimKey    *)
(* leaves of it; Empty is the key of a claim that says nothing.            *)
(***************************************************************************)
EXTENDS Naturals, Sequences, FiniteSets, FiniteSetsExt, SequencesExt

CONSTANTS Keys, Empty, None,
          Size,         \* DIGEST_COMMENT_CAP: a bound
          MaxThemes,    \* themes of an answer: a bound
          Threshold     \* channels.feedback_threshold

ConstantsOK ==
  Empty \in Keys /\ Size \in Nat /\ MaxThemes \in Nat /\ Threshold \in Nat \ {0}

VARIABLES claim,      \* the classified claims, in the order of the batch
          asked,      \* the theme pass is over
          themes,     \* history: the themes of the answer
          assigned,   \* the claim each comment is counted under, and its source
          degraded    \* reduced grouping coverage is reported

vars == <<claim, asked, themes, assigned, degraded>>

Original(rows) == [i \in DOMAIN rows |-> [key |-> rows[i], from |-> "original"]]

Init == claim = <<>> /\ asked = FALSE /\ themes = <<>> /\ assigned = <<>> /\ degraded = FALSE

-----------------------------------------------------------------------------
(* applyThemes: the themes that can be used, and the one each comment is   *)
(* in; a comment that several claim is in none.                            *)

Theme == [label : Keys, members : SUBSET DOMAIN claim]
Usable(t) == t.label # Empty \/ \A i \in t.members : claim[i] = Empty
Claiming(ts, i) == {n \in DOMAIN ts : Usable(ts[n]) /\ i \in ts[n].members}
ThemeOf(ts) == [i \in DOMAIN claim |->
  IF Cardinality(Claiming(ts, i)) = 1 THEN Min(Claiming(ts, i)) ELSE None]

(* unionLinkedThemes: themes that hold the same claim are one, by a        *)
(* disjoint-set forest over the positions of the themes.                   *)
FindRoot(parent, n) ==
  LET up[m \in DOMAIN parent] == IF parent[m] = m THEN m ELSE up[parent[m]] IN up[n]
UnionLinkedThemes(ts, of) ==
  LET Covered(i) == of[i] # None /\ claim[i] # Empty
      Lead(i) == of[Min({j \in 1..i : Covered(j) /\ claim[j] = claim[i]})]
      Union(parent, i) ==
        IF Covered(i) THEN [parent EXCEPT ![FindRoot(parent, Lead(i))] = FindRoot(parent, of[i])]
        ELSE parent
  IN FoldLeftDomain(Union, [n \in DOMAIN ts |-> n], claim)

(* reconcileThemes: a component is worded as the theme of its first        *)
(* comment; two components of one wording keep their original claims.      *)
CollideNever(label, c, d) == FALSE                          \* a mutant
Collide(label, c, d) == c # d /\ label[c] = label[d] /\ label[c] # Empty
Reconciled(ts) ==
  LET of == ThemeOf(ts)
      parent == UnionLinkedThemes(ts, of)
      Component(i) == FindRoot(parent, of[i])
      Held == {i \in DOMAIN claim : of[i] # None}
      Components == {Component(i) : i \in Held}
      label == [c \in Components |-> ts[of[Min({i \in Held : Component(i) = c})]].label]
      Lost == {c \in Components : \E d \in Components : Collide(label, c, d)}
      Kept(i) == i \in Held /\ Component(i) \notin Lost
  IN [to |-> [i \in DOMAIN claim |-> IF Kept(i) THEN [key |-> label[Component(i)], from |-> "theme"]
                                     ELSE Original(claim)[i]],
      issues |-> \/ Lost # {} \/ Held # DOMAIN claim
                \/ \E n \in DOMAIN ts : ~Usable(ts[n]) \/ ts[n].members = {}]

-----------------------------------------------------------------------------
(* classifyBatch: a comment that fails is left out of the batch. *)
Classify(key) ==
  /\ ~asked /\ Len(claim) < Size /\ claim' = Append(claim, key)
  /\ assigned' = Original(claim') /\ UNCHANGED <<asked, themes, degraded>>

(* clusterClaims.  Too few claims to merge, or to make a finding, are not  *)
(* sent.  `odd' is a theme that is no theme, or names a comment twice or   *)
(* one that was not sent; what is left of it is used.                      *)
Sent == Len(claim) >= 2 /\ Len(claim) >= Threshold
Answer(ts, odd) ==
  LET answer == Reconciled(ts)
  IN /\ asked' = TRUE /\ themes' = ts
     /\ assigned' = answer.to /\ degraded' = (answer.issues \/ odd)
     /\ UNCHANGED claim
Respond == ~asked /\ Sent /\
  \E n \in 0..MaxThemes : \E ts \in [1..n -> Theme], odd \in BOOLEAN : Answer(ts, odd)
Refuse ==                   \* the provider fails, or its answer is malformed
  /\ ~asked /\ Sent /\ asked' = TRUE /\ degraded' = TRUE
  /\ UNCHANGED <<claim, themes, assigned>>
PassThrough == ~asked /\ ~Sent /\ asked' = TRUE /\ UNCHANGED <<claim, themes, assigned, degraded>>

Next ==
  \/ \E key \in Keys : Classify(key)
  \/ Respond \/ Refuse \/ PassThrough

Spec == Init /\ [][Next]_vars

-----------------------------------------------------------------------------
(* Properties.  groupFeedback counts comments under one claim and source.  *)

Together(i, j) == assigned[i] = assigned[j] /\ assigned[i].key # Empty

(* What the answer says belongs together: the same theme, or the same      *)
(* claim, and so on from comment to comment.                               *)
Related(i, j) ==
  LET in == [n \in DOMAIN claim |-> Claiming(themes, n)]
      Near(a, b) == /\ Cardinality(in[a]) = 1 /\ Cardinality(in[b]) = 1
                    /\ in[a] = in[b] \/ (claim[a] = claim[b] /\ claim[a] # Empty)
      reach[k \in Nat] == IF k = 0 THEN {i} ELSE {b \in DOMAIN claim : \E a \in reach[k - 1] : a = b \/ Near(a, b)}
  IN j \in reach[Len(claim)]

(* Whatever the model answers, no finding counts comments together that    *)
(* neither make the same claim nor belong to the same feedback by the      *)
(* answer's own account; no comment that says something is lost to a       *)
(* wording that says nothing; and unless the reduced coverage is reported, *)
(* everything that belongs together is counted together.                   *)
RecurrenceTrue ==
  \A i, j \in DOMAIN claim :
    /\ Together(i, j) => claim[i] = claim[j] \/ Related(i, j)
    /\ claim[i] # Empty => assigned[i].key # Empty
    /\ asked /\ ~degraded /\ claim[i] # Empty /\ (claim[i] = claim[j] \/ Related(i, j)) => Together(i, j)
=============================================================================
