------------------------------- MODULE Rules -------------------------------
(***************************************************************************)
(* A channel's own rules: server/rules.ts and the rules page.  An owner    *)
(* types a regular expression, which is vetted before it is stored, since  *)
(* the analyser that looks for exponential patterns cannot see two equal   *)
(* alternatives of one group; stored rules are tried longest first.        *)
(*                                                                         *)
(* A pattern is a sequence of signs: those the scanner tells apart, one    *)
(* for the prefix of a group (as ?: or ?=), and "1" for every other        *)
(* character, which after a backslash is a back reference.  Whether a      *)
(* pattern occurs in a text is left open.                                  *)
(***************************************************************************)
EXTENDS Integers, FiniteSets, FiniteSetsExt, Sequences, SequencesExt

CONSTANTS MaxLength,        \* of a pattern: a bound
          MaxRules          \* stored at once: a bound

ConstantsOK == MaxLength \in Nat \ {0} /\ MaxRules \in Nat

VARIABLES pattern,   \* what the owner types
          rules      \* the channel's rules, as stored

vars == <<pattern, rules>>

Signs == {"(", ")", "|", "\\", "[", "]", "prefix", "1"}
Types == {"keyword", "regex", "user"}

Init == pattern = <<>> /\ rules = <<>>

-----------------------------------------------------------------------------
(* The scanner: what a character is, after what came before. *)

ScanAction(sign, s) ==
  IF s.escaped THEN "escape-end"
  ELSE CASE sign = "\\" -> "escape"
         [] sign = "[" -> "class-open"
         [] sign = "]" -> "class-close"
         [] OTHER -> IF s.inClass THEN "class-body"
                     ELSE CASE sign = "(" -> "group-open"
                            [] sign = ")" -> "group-close"
                            [] sign = "|" -> "split"
                            [] OTHER -> "ordinary"
Outside == [escaped |-> FALSE, inClass |-> FALSE]
Scanned(s, action) ==
  [s EXCEPT !.escaped = action = "escape",
            !.inClass = IF action = "class-open" THEN TRUE
                        ELSE IF action = "class-close" THEN FALSE ELSE @]

(* Two equal alternatives at the top level of a group's body. *)
DuplicateAlternation(body) ==
  LET Cut(s, i) ==
        LET alternative == SubSeq(body, s.start, i - 1)
        IN [s EXCEPT !.found = @ \/ alternative \in s.alternatives,
                     !.alternatives = @ \cup {alternative}, !.start = i + 1]
      Step(s, i) ==
        LET action == ScanAction(body[i], s.scan)
            moved == [s EXCEPT !.scan = Scanned(@, action),
                               !.depth = CASE action = "group-open" -> @ + 1
                                           [] action = "group-close" -> @ - 1
                                           [] OTHER -> @]
        IN IF action = "split" /\ s.depth = 0 THEN Cut(moved, i) ELSE moved
      first == [scan |-> Outside, depth |-> 0, start |-> 1, alternatives |-> {}, found |-> FALSE]
  IN Cut(FoldLeftDomain(Step, first, body), Len(body) + 1).found

(* The pattern, sign by sign: every group that closes is looked into, its  *)
(* prefix stripped; a back reference is one outside classes only.          *)
KeepPrefix(body) == body                                      \* a mutant
Stripped(body) == IF body # <<>> /\ Head(body) = "prefix" THEN Tail(body) ELSE body
UnsafeSyntax(p) ==
  LET Step(s, i) ==
        LET action == ScanAction(p[i], s.scan)
            moved == [s EXCEPT !.scan = Scanned(@, action)]
        IN CASE action = "escape-end" -> [moved EXCEPT !.found = @ \/ (~s.scan.inClass /\ p[i] = "1")]
             [] action = "group-open" -> [moved EXCEPT !.starts = Append(@, i)]
             [] action = "group-close" /\ s.starts # <<>> ->
                  [moved EXCEPT !.starts = Front(@),
                     !.found = @ \/ DuplicateAlternation(Stripped(SubSeq(p, Last(s.starts) + 1, i - 1)))]
             [] OTHER -> moved
  IN FoldLeftDomain(Step, [scan |-> Outside, starts |-> <<>>, found |-> FALSE], p).found

-----------------------------------------------------------------------------
(* What a pattern is, by position: no scan. *)

Escaped(p, i) ==       \* an odd run of backslashes before it
  \E k \in 1..(i - 1) : /\ (i - k) % 2 = 1 /\ \A m \in k..(i - 1) : p[m] = "\\"
                        /\ k = 1 \/ p[k - 1] # "\\"
InClass(p, i) ==
  \E j \in 1..(i - 1) : /\ p[j] = "[" /\ ~Escaped(p, j)
                        /\ \A k \in (j + 1)..(i - 1) : p[k] = "]" => Escaped(p, k)
Places(p, sign) == {i \in DOMAIN p : p[i] = sign /\ ~Escaped(p, i) /\ ~InClass(p, i)}
Depth(p, i) == Cardinality({o \in Places(p, "(") : o < i}) - Cardinality({c \in Places(p, ")") : c < i})
(* The group that opens at o is o with the first closing place that brings *)
(* the depth back.                                                         *)
Closing(p, o) == {c \in Places(p, ")") : c > o /\ Depth(p, c + 1) = Depth(p, o)}
(* new RegExp does not throw. *)
Compiles(p) ==
  /\ Cardinality(Places(p, "(")) = Cardinality(Places(p, ")"))
  /\ \A c \in Places(p, ")") : Depth(p, c) > 0
  /\ ~InClass(p, Len(p) + 1) /\ ~Escaped(p, Len(p) + 1)

(* Where an alternative of the group may be cut off: its ends and the bars *)
(* directly in it.                                                         *)
Cuts(p, o) ==
  LET c == Min(Closing(p, o))
  IN {IF o + 1 \in DOMAIN p /\ p[o + 1] = "prefix" THEN o + 1 ELSE o, c}
       \cup {b \in Places(p, "|") : o < b /\ b < c /\ Depth(p, b) = Depth(p, o) + 1}
Alternatives(p, o) ==
  {ends \in Cuts(p, o) \X Cuts(p, o) :
     ends[1] < ends[2] /\ \A x \in Cuts(p, o) : ~(ends[1] < x /\ x < ends[2])}
Ambiguous(p) ==
  \E o \in Places(p, "(") : \E x, y \in Alternatives(p, o) :
    x # y /\ SubSeq(p, x[1] + 1, x[2] - 1) = SubSeq(p, y[1] + 1, y[2] - 1)
BackReferring(p) == \E i \in DOMAIN p : p[i] = "1" /\ Escaped(p, i) /\ ~InClass(p, i)

-----------------------------------------------------------------------------
(* The rules page. *)

(* A character that may still become a pattern that compiles. *)
Fits(p) ==
  /\ \A c \in Places(p, ")") : Depth(p, c) > 0
  /\ \A i \in DOMAIN p : p[i] = "prefix" => i > 1 /\ i - 1 \in Places(p, "(")
  /\ Len(p) + Depth(p, Len(p) + 1) <= MaxLength
Type(sign) ==
  /\ rules = <<>> /\ Fits(Append(pattern, sign))
  /\ pattern' = Append(pattern, sign) /\ UNCHANGED rules

(* validateRule, then the insert; the analyser may refuse any pattern.     *)
UnsafeRegex(p) == IF UnsafeSyntax(p) THEN {TRUE} ELSE BOOLEAN
Store(type, size) == rules' = Append(rules, [type |-> type, size |-> size])
AddTyped ==
  /\ pattern # <<>> /\ Len(rules) < MaxRules /\ pattern' = <<>>
  /\ \/ /\ Compiles(pattern) /\ FALSE \in UnsafeRegex(pattern) /\ Store("regex", Len(pattern))
     \/ /\ (~Compiles(pattern) \/ TRUE \in UnsafeRegex(pattern)) /\ UNCHANGED rules
AddOther(type, size) ==
  /\ pattern = <<>> /\ Len(rules) < MaxRules /\ Store(type, size) /\ UNCHANGED pattern
RemoveRule(n) ==
  /\ n \in DOMAIN rules /\ rules' = RemoveAt(rules, n) /\ UNCHANGED pattern

(* prepareRules sorts by length, stably; matchPreparedRule takes the first *)
(* of the prepared rules that matches.                                     *)
ShorterBefore(rs, m, n) == rs[m].size < rs[n].size \/ (rs[m].size = rs[n].size /\ m < n)  \* a mutant
LongerBefore(rs, m, n) == rs[m].size > rs[n].size \/ (rs[m].size = rs[n].size /\ m < n)
PrepareRules(rs) == SetToSortSeq(DOMAIN rs, LAMBDA m, n : LongerBefore(rs, m, n))
MatchPreparedRule(rs, matching) ==
  LET prepared == PrepareRules(rs)
      k == SelectInSeq(prepared, LAMBDA n : n \in matching)
  IN IF k = 0 THEN 0 ELSE prepared[k]

Next ==
  \/ \E sign \in Signs : Type(sign)
  \/ AddTyped
  \/ \E type \in Types, size \in 1..MaxRules : AddOther(type, size)
  \/ \E n \in 1..MaxRules : RemoveRule(n)

Spec == Init /\ [][Next]_vars

-----------------------------------------------------------------------------
(* Properties. *)

(* The one-pass scanner finds exactly the patterns with a back reference,  *)
(* or with two equal alternatives in one group, however they nest, escape  *)
(* or hide their bars and parentheses in classes.                          *)
SyntaxExact ==
  Compiles(pattern) => (UnsafeSyntax(pattern) <=> Ambiguous(pattern) \/ BackReferring(pattern))

(* The verdict is that of a longest matching rule, the first stored of     *)
(* those; and there is one if any rule matches.                            *)
MostSpecificWins ==
  \A matching \in SUBSET (DOMAIN rules) :
    LET n == MatchPreparedRule(rules, matching)
    IN IF matching = {} THEN n = 0
       ELSE /\ n \in matching
            /\ \A m \in matching : \/ rules[m].size < rules[n].size
                                   \/ rules[m].size = rules[n].size /\ m >= n

RulesExact == SyntaxExact /\ MostSpecificWins
=============================================================================
