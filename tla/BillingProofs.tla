---------------------------- MODULE BillingProofs ----------------------------
(***************************************************************************)
(* Theorems about the machines of Billing, for any tabs, handlers and      *)
(* sweeps, cards, sessions, keys and refunds.                              *)
(***************************************************************************)
EXTENDS Billing, FiniteSetTheorems, TLAPS

-----------------------------------------------------------------------------
(* A step is of one machine; the variables of the others stay.             *)
LEMMA BuyOrRest == [Next]_vars => Buy \/ UNCHANGED checkouts
BY DEF Next, vars, TopUp, SyncCards, Revoke

LEMMA RevokeOrRest == [Next]_vars => Revoke \/ UNCHANGED pauses
BY DEF Next, vars, TopUp, SyncCards, Buy

LEMMA SyncOrRest == [Next]_vars => SyncCards \/ UNCHANGED cards
BY DEF Next, vars, TopUp, Buy, Revoke

-----------------------------------------------------------------------------
(* Checkouts.  A link that was shown and can still be paid, or is, is the  *)
(* row's.  Whoever has read the row's key has read its session, or will be *)
(* answered with it; a tab replaces a session only when it has expired.    *)
Sold == 1..MaxSessions
Rows == [status : {"absent"} \cup K!Statuses, key : 1..MaxKeys \cup {None}, session : Sold \cup {None}]
Buying == {"plan", "customer", "mint", "claim", "create", "save"}
Pressing == [at : {"idle", "resolve", "replace"} \cup Buying, read : Rows,
             customer : {1, 2, None}, session : Sold \cup {None}]
CheckoutTyped ==
  /\ session \in [Sold -> [status : {"none", "open", "paid", "settling", "failed", "expired"}, customer : {1, 2, None}]]
  /\ answer \in [1..MaxKeys -> Sold \cup {None}] /\ keys \in 0..MaxKeys
  /\ attempt \in Rows /\ customer \in {1, 2, None} /\ customers \in 0..2
  /\ tab \in [Workers -> Pressing] /\ crossed \in BOOLEAN
  /\ shown \subseteq Sold /\ news \subseteq Sold /\ granted \subseteq Sold

TabReads(q, top, ses, given) ==
  /\ q.at # "idle" => q.read.key \in 1..top
  /\ q.read.session # None => q.read.session \in given
  /\ q.at \in Buying => q.read.session = None
  /\ q.at = "replace" => q.read.session # None /\ ses[q.read.session].status = "expired"
TabBuys(q, cust, ans) ==
  /\ q.at = "claim" => q.customer # None
  /\ q.at = "create" => cust # None /\ q.customer = cust
  /\ q.at = "save" => q.session # None /\ ans[q.read.key] = q.session
TabAgrees(q, row, ans) ==
  q.at # "idle" /\ q.read.key = row.key =>
    IF q.read.session # None THEN row.session = q.read.session
    ELSE row.session # None => ans[row.key] = row.session

RowOK(row, top, ses, given, done) ==
  /\ IF row = K!Absent THEN top = 0 ELSE top # 0 /\ row.key = top
  /\ row.status = "absent" => row.session = None
  /\ row.session # None => row.session \in given
  /\ row.status = "fulfilled" => row.session \in done
  /\ row.status = "expired" => row.session # None /\ ses[row.session].status \in {"failed", "expired"}
Payable == {"open", "paid", "settling"}
RowLeads(row, ses, given) == \A s \in given : ses[s].status \in Payable => row.session = s
SoldOK(ses, ans, given, heard, done, cust) ==
  /\ \A k \in 1..MaxKeys : ans[k] # None => ses[ans[k]].status # "none"
  /\ \A s \in Sold : /\ ses[s].status \in {"paid", "settling"} => s \in given
                     /\ s \in given => ses[s].status # "none"
                     /\ s \in heard => ses[s].status \in {"failed", "expired"}
                     /\ s \in done => ses[s].status = "paid"
                     /\ ses[s].customer \in {None, cust}

CheckoutInv ==
  /\ CheckoutTyped /\ RowOK(attempt, keys, session, shown, granted)
  /\ SoldOK(session, answer, shown, news, granted, customer)
  /\ crossed \/ RowLeads(attempt, session, shown)
  /\ \A t \in Workers : /\ TabReads(tab[t], keys, session, shown) /\ TabBuys(tab[t], customer, answer)
                        /\ crossed \/ TabAgrees(tab[t], attempt, answer)

LEMMA BuyingConstants == ConstantsOK => /\ None \notin Nat /\ MaxKeys \in Nat \ {0} /\ MaxSessions \in Nat
                                        /\ K!Sessions = Sold /\ Sold \subseteq Nat \ {0} /\ None \notin Sold /\ K!Absent.key = None
BY DEF ConstantsOK, K!ConstantsOK, K!Sessions, Sold, K!Absent

LEMMA RestingTab ==
  ASSUME ConstantsOK
  PROVE  /\ K!Idle \in Pressing
         /\ \A top, ses, given, cust, ans, row : TabReads(K!Idle, top, ses, given) /\ TabBuys(K!Idle, cust, ans) /\ TabAgrees(K!Idle, row, ans)
<1>1. K!Absent \in Rows /\ K!Absent.session = None
  BY DEF K!Absent, Rows
<1> QED BY <1>1 DEF K!Idle, Pressing, TabReads, TabBuys, TabAgrees, Buying

(* A tab moves on, and Stripe and the rows stay.                           *)
LEMMA TabMoves ==
  ASSUME ConstantsOK, CheckoutInv, NEW t \in Workers, NEW q \in Pressing, tab' = [tab EXCEPT ![t] = q],
         UNCHANGED <<session, answer, attempt, customer, news, granted, keys, crossed, shown>>, customers' \in 0..2,
         TabReads(q, keys, session, shown), TabBuys(q, customer, answer), crossed \/ TabAgrees(q, attempt, answer)
  PROVE  CheckoutInv'
<1>1. \A x \in Workers : tab'[x] = IF x = t THEN q ELSE tab[x]
  BY DEF CheckoutInv, CheckoutTyped
<1>2. CheckoutTyped'
  BY DEF CheckoutInv, CheckoutTyped
<1>3. \A x \in Workers : /\ TabReads(tab'[x], keys', session', shown') /\ TabBuys(tab'[x], customer', answer')
                         /\ crossed' \/ TabAgrees(tab'[x], attempt', answer')
  <2> HIDE DEF TabReads, TabBuys, TabAgrees
  <2> QED BY <1>1 DEF CheckoutInv
<1> HIDE DEF CheckoutTyped, TabReads, TabBuys, TabAgrees, RowOK, SoldOK, RowLeads
<1> QED BY <1>2, <1>3 DEF CheckoutInv

LEMMA ResolveStep ==
  ASSUME ConstantsOK, CheckoutInv, NEW t \in Workers, K!Resolve(t)
  PROVE  CheckoutInv'
<1>1. /\ tab[t] \in Pressing /\ TabReads(tab[t], keys, session, shown) /\ tab[t].at = "resolve" /\ customers \in 0..2
      /\ crossed \/ TabAgrees(tab[t], attempt, answer)
  BY DEF K!Resolve, K!At, CheckoutInv, CheckoutTyped
<1>2. UNCHANGED <<session, answer, attempt, customer, news, granted, keys, crossed, shown, customers>>
  BY <1>1 DEF K!Resolve, K!stripe, K!Read, TabReads
<1>3. CASE tab' = [tab EXCEPT ![t] = K!Idle]
  BY <1>1, <1>2, <1>3, RestingTab, TabMoves
<1>4. CASE tab[t].read.session = None /\ tab' = [tab EXCEPT ![t].at = "plan"]
  <2> DEFINE q == [tab[t] EXCEPT !.at = "plan"]
  <2>1. q \in Pressing /\ q.at = "plan" /\ q.read = tab[t].read /\ tab' = [tab EXCEPT ![t] = q]
    BY <1>1, <1>4 DEF Pressing, Buying
  <2> HIDE DEF q
  <2>2. TabReads(q, keys, session, shown) /\ TabBuys(q, customer, answer) /\ (crossed \/ TabAgrees(q, attempt, answer))
    BY <1>1, <1>4, <2>1 DEF TabReads, TabBuys, TabAgrees, Buying
  <2> QED BY <1>1, <1>2, <2>1, <2>2, TabMoves
<1>5. CASE /\ tab[t].read.session # None /\ session[tab[t].read.session].status = "expired"
           /\ tab' = [tab EXCEPT ![t].at = "replace"]
  <2> DEFINE q == [tab[t] EXCEPT !.at = "replace"]
  <2>1. q \in Pressing /\ q.at = "replace" /\ q.read = tab[t].read /\ tab' = [tab EXCEPT ![t] = q]
    BY <1>1, <1>5 DEF Pressing, Buying
  <2> HIDE DEF q
  <2>2. TabReads(q, keys, session, shown) /\ TabBuys(q, customer, answer) /\ (crossed \/ TabAgrees(q, attempt, answer))
    BY <1>1, <1>5, <2>1 DEF TabReads, TabBuys, TabAgrees, Buying
  <2> QED BY <1>1, <1>2, <2>1, <2>2, TabMoves
<1>6. \/ tab' = [tab EXCEPT ![t] = K!Idle]
      \/ tab[t].read.session = None /\ tab' = [tab EXCEPT ![t].at = "plan"]
      \/ /\ tab[t].read.session # None /\ session[tab[t].read.session].status = "expired"
         /\ tab' = [tab EXCEPT ![t].at = "replace"]
  <2>1. CASE tab[t].read.status = "fulfilled"
    BY <2>1 DEF K!Resolve, K!Read, K!Rest
  <2>2. CASE tab[t].read.status # "fulfilled" /\ tab[t].read.session = None
    BY <2>2 DEF K!Resolve, K!Read, K!Go
  <2>3. CASE tab[t].read.status # "fulfilled" /\ tab[t].read.session # None
    BY <2>3 DEF K!Resolve, K!Read, K!Go, K!Rest
  <2> QED BY <2>1, <2>2, <2>3
<1> QED BY <1>3, <1>4, <1>5, <1>6

LEMMA ChecksStep ==
  ASSUME ConstantsOK, CheckoutInv, NEW t \in Workers,
         K!PlanAvailable(t) \/ K!PlanRefused(t) \/ K!Crash(t) \/ K!ReadCustomer(t) \/ K!MintCustomer(t)
  PROVE  CheckoutInv'
<1>1. /\ tab[t] \in Pressing /\ TabReads(tab[t], keys, session, shown) /\ customers \in 0..2 /\ customer \in {1, 2, None}
      /\ crossed \/ TabAgrees(tab[t], attempt, answer)
  BY DEF CheckoutInv, CheckoutTyped
<1>2. UNCHANGED <<session, answer, attempt, customer, news, granted, keys, crossed, shown>> /\ customers' \in 0..2
  BY <1>1 DEF K!PlanAvailable, K!PlanRefused, K!Crash, K!ReadCustomer, K!MintCustomer, K!stripe
<1>3. CASE tab' = [tab EXCEPT ![t] = K!Idle]
  BY <1>1, <1>2, <1>3, RestingTab, TabMoves
<1>4. ASSUME NEW at \in {"customer", "mint", "claim", "create"}, NEW c \in {1, 2, None}, tab[t].at \in Buying,
             tab' = [tab EXCEPT ![t] = [tab[t] EXCEPT !.at = at, !.customer = c]],
             at = "claim" => c # None, at = "create" => customer # None /\ c = customer
      PROVE  CheckoutInv'
  <2> DEFINE q == [tab[t] EXCEPT !.at = at, !.customer = c]
  <2>1. q \in Pressing /\ q.at = at /\ q.read = tab[t].read /\ q.customer = c
    BY <1>1, <1>4 DEF Pressing, Buying
  <2> HIDE DEF q
  <2>2. TabReads(q, keys, session, shown) /\ TabBuys(q, customer, answer) /\ (crossed \/ TabAgrees(q, attempt, answer))
    BY <1>1, <1>4, <2>1 DEF TabReads, TabBuys, TabAgrees, Buying
  <2> QED BY <1>1, <1>2, <1>4, <2>1, <2>2, TabMoves DEF q
<1>5. CASE K!PlanRefused(t) \/ K!Crash(t)
  BY <1>3, <1>5 DEF K!PlanRefused, K!Crash, K!Rest
<1>6. CASE K!PlanAvailable(t)
  <2>1. tab[t].at \in Buying /\ tab' = [tab EXCEPT ![t].at = "customer"]
    BY <1>6 DEF K!PlanAvailable, K!At, K!Go, Buying
  <2>2. tab[t].customer \in {1, 2, None} /\ [tab[t] EXCEPT !.at = "customer"] = [tab[t] EXCEPT !.at = "customer", !.customer = tab[t].customer]
    BY <1>1 DEF Pressing
  <2> QED BY <1>4, <2>1, <2>2
<1>7. CASE K!ReadCustomer(t)
  <2>1. tab[t].at \in Buying /\ tab' = [tab EXCEPT ![t] = [tab[t] EXCEPT !.at = IF customer = None THEN "mint" ELSE "create", !.customer = customer]]
    BY <1>7 DEF K!ReadCustomer, K!At, Buying
  <2> QED BY <1>1, <1>4, <2>1
<1>8. CASE K!MintCustomer(t)
  <2>1. PICK c \in 1..2 : tab[t].at \in Buying /\ tab' = [tab EXCEPT ![t] = [tab[t] EXCEPT !.at = "claim", !.customer = c]]
    BY <1>8 DEF K!MintCustomer, K!At, Buying
  <2>2. c \in {1, 2, None} /\ c # None
    BY BuyingConstants
  <2> QED BY <1>4, <2>1, <2>2
<1> QED BY <1>5, <1>6, <1>7, <1>8

(* loadOrCreateCheckoutAttempt: the first tab mints the first key.         *)
LEMMA CheckoutLoadStep ==
  ASSUME ConstantsOK, CheckoutInv, NEW t \in Workers, K!Load(t)
  PROVE  CheckoutInv'
<1> DEFINE q == [K!Idle EXCEPT !.at = "resolve", !.read = attempt']
<1>1. /\ UNCHANGED <<session, answer, customers, news, customer, shown, granted, crossed>>
      /\ tab' = [tab EXCEPT ![t] = q]
      /\ \/ attempt = K!Absent /\ keys' = keys + 1 /\ attempt' = [status |-> "pending", key |-> keys + 1, session |-> None]
         \/ attempt # K!Absent /\ UNCHANGED <<keys, attempt>>
  BY DEF K!Load, K!stripe
<1>2. /\ attempt' \in Rows /\ RowOK(attempt', keys', session, shown, granted) /\ attempt'.key \in 1..keys' /\ keys <= keys' /\ keys' \in 0..MaxKeys
      /\ crossed \/ RowLeads(attempt', session, shown)
  <2>1. CASE attempt = K!Absent
    <3>1. keys = 0 /\ keys' = 1 /\ attempt' = [status |-> "pending", key |-> 1, session |-> None] /\ attempt.session = None
      BY <1>1, <2>1 DEF CheckoutInv, RowOK, K!Absent
    <3>2. 1 \in 1..MaxKeys /\ 1 \in 0..MaxKeys /\ 1 # None
      BY BuyingConstants
    <3>3. attempt' \in Rows
      BY <3>1, <3>2 DEF Rows, K!Statuses
    <3>4. crossed \/ RowLeads(attempt', session, shown)
      BY <3>1 DEF CheckoutInv, RowLeads
    <3>5. attempt' # K!Absent
      BY <3>1 DEF K!Absent
    <3> QED BY <3>1, <3>2, <3>3, <3>4, <3>5 DEF RowOK
  <2>2. CASE attempt # K!Absent
    <3>1. attempt.key = keys /\ keys # 0 /\ keys \in 0..MaxKeys /\ MaxKeys \in Nat
      BY <2>2, BuyingConstants DEF CheckoutInv, CheckoutTyped, RowOK
    <3> QED BY <1>1, <2>2, <3>1 DEF CheckoutInv, CheckoutTyped
  <2> QED BY <2>1, <2>2
<1>3. q \in Pressing /\ q.at = "resolve" /\ q.read = attempt'
  BY <1>2, BuyingConstants DEF K!Idle, Pressing
<1>4. \A x \in Workers : tab'[x] = IF x = t THEN q ELSE tab[x]
  BY <1>1 DEF CheckoutInv, CheckoutTyped
<1> HIDE DEF q
<1>5. CheckoutTyped'
  BY <1>1, <1>2, <1>3 DEF CheckoutInv, CheckoutTyped
<1>6. TabReads(q, keys', session, shown) /\ TabBuys(q, customer, answer) /\ TabAgrees(q, attempt', answer)
  BY <1>2, <1>3 DEF TabReads, TabBuys, TabAgrees, RowOK, Buying
<1>9. \A x \in Workers : TabReads(tab[x], keys', session, shown)
  BY <1>2, BuyingConstants DEF CheckoutInv, CheckoutTyped, TabReads
<1>7. ASSUME NEW x \in Workers, x # t PROVE crossed \/ TabAgrees(tab[x], attempt', answer)
  <2>1. CASE attempt = K!Absent
    <3>1. tab[x].at = "idle"
      BY <2>1 DEF CheckoutInv, RowOK, TabReads
    <3> QED BY <3>1 DEF TabAgrees
  <2>2. CASE attempt # K!Absent
    BY <1>1, <2>2 DEF CheckoutInv
  <2> QED BY <2>1, <2>2
<1>8. \A x \in Workers : /\ TabReads(tab'[x], keys', session', shown') /\ TabBuys(tab'[x], customer', answer')
                         /\ crossed' \/ TabAgrees(tab'[x], attempt', answer')
  <2> HIDE DEF TabReads, TabBuys, TabAgrees
  <2> QED BY <1>1, <1>4, <1>6, <1>7, <1>9 DEF CheckoutInv
<1> HIDE DEF CheckoutTyped, TabReads, TabBuys, TabAgrees, RowOK, SoldOK, RowLeads
<1> QED BY <1>1, <1>2, <1>5, <1>8 DEF CheckoutInv

(* saveCheckoutAttempt of another key: the expired session is the row's.   *)
LEMMA CheckoutReplaceStep ==
  ASSUME ConstantsOK, CheckoutInv, NEW t \in Workers, K!Replace(t)
  PROVE  CheckoutInv'
<1> DEFINE q == [tab[t] EXCEPT !.at = "plan", !.read = attempt']
<1>1. /\ UNCHANGED <<session, answer, customers, news, customer, shown, granted>> /\ tab[t].at = "replace"
      /\ tab' = [tab EXCEPT ![t] = q] /\ keys < MaxKeys /\ keys' = keys + 1
      /\ attempt' = [tab[t].read EXCEPT !.status = "pending", !.session = None, !.key = keys + 1]
      /\ crossed' = (crossed \/ attempt.key # tab[t].read.key)
  BY DEF K!Replace, K!KeyOf, K!Read, K!At, K!Overwrites, K!stripe
<1>2. /\ tab[t] \in Pressing /\ tab[t].read \in Rows /\ tab[t].read.session # None
      /\ session[tab[t].read.session].status = "expired" /\ tab[t].read.key # None
      /\ keys \in 0..MaxKeys /\ MaxKeys \in Nat /\ None \notin Nat
  BY <1>1, BuyingConstants DEF CheckoutInv, CheckoutTyped, TabReads, Pressing
<1>3. /\ attempt' \in Rows /\ keys + 1 \in 1..MaxKeys
      /\ attempt'.status = "pending" /\ attempt'.key = keys + 1 /\ attempt'.session = None
  <2>1. keys + 1 \in 1..MaxKeys
    BY <1>1, <1>2
  <2>2. ASSUME NEW x \in Rows, NEW k \in 1..MaxKeys
        PROVE  LET y == [x EXCEPT !.status = "pending", !.session = None, !.key = k]
               IN  y \in Rows /\ y.status = "pending" /\ y.key = k /\ y.session = None
    BY DEF Rows, K!Statuses
  <2> QED BY ZenonT(60), <1>1, <1>2, <2>1, <2>2
<1>4. attempt' # K!Absent /\ RowOK(attempt', keys', session, shown, granted)
  <2>1. attempt' # K!Absent
    BY <1>3 DEF K!Absent
  <2>2. keys' = keys + 1 /\ keys' # 0
    BY <1>1, <1>2
  <2> QED BY <1>3, <2>1, <2>2 DEF RowOK
<1>5. crossed' \/ RowLeads(attempt', session, shown)
  <2> SUFFICES ASSUME ~crossed' PROVE RowLeads(attempt', session, shown)
    OBVIOUS
  <2>1. ~crossed /\ attempt.key = tab[t].read.key /\ crossed \in BOOLEAN
    BY <1>1 DEF CheckoutInv, CheckoutTyped
  <2>2. attempt.session = tab[t].read.session
    BY <1>1, <1>2, <2>1 DEF CheckoutInv, TabAgrees
  <2>3. RowLeads(attempt, session, shown)
    BY <2>1 DEF CheckoutInv
  <2> QED BY <1>2, <2>2, <2>3 DEF RowLeads, Payable
<1>6. q \in Pressing /\ q.at = "plan" /\ q.read = attempt'
  BY <1>2, <1>3 DEF Pressing, Buying
<1>7. \A x \in Workers : tab'[x] = IF x = t THEN q ELSE tab[x]
  BY <1>1 DEF CheckoutInv, CheckoutTyped
<1> HIDE DEF q
<1>8. CheckoutTyped'
  BY <1>1, <1>2, <1>3, <1>6 DEF CheckoutInv, CheckoutTyped
<1>9. TabReads(q, keys', session, shown) /\ TabBuys(q, customer, answer) /\ TabAgrees(q, attempt', answer)
  BY <1>1, <1>2, <1>3, <1>6 DEF TabReads, TabBuys, TabAgrees, Buying
<1>10. \A x \in Workers : TabReads(tab[x], keys', session, shown) /\ TabAgrees(tab[x], attempt', answer)
  <2>1. ASSUME NEW x \in Workers PROVE TabReads(tab[x], keys', session, shown) /\ (tab[x].at # "idle" => tab[x].read.key # attempt'.key)
    BY <1>1, <1>2, <1>3 DEF CheckoutInv, TabReads
  <2> QED BY <2>1 DEF TabAgrees
<1>11. \A x \in Workers : /\ TabReads(tab'[x], keys', session', shown') /\ TabBuys(tab'[x], customer', answer')
                          /\ crossed' \/ TabAgrees(tab'[x], attempt', answer')
  <2> HIDE DEF TabReads, TabBuys, TabAgrees
  <2> QED BY <1>1, <1>7, <1>9, <1>10 DEF CheckoutInv
<1> HIDE DEF CheckoutTyped, TabReads, TabBuys, TabAgrees, RowOK, SoldOK, RowLeads
<1> QED BY <1>1, <1>4, <1>5, <1>8, <1>11 DEF CheckoutInv

(* claimStripeCustomer: the first tab names the customer, for all.         *)
LEMMA CheckoutClaimStep ==
  ASSUME ConstantsOK, CheckoutInv, NEW t \in Workers, K!ClaimCustomer(t)
  PROVE  CheckoutInv'
<1> DEFINE q == [tab[t] EXCEPT !.at = "create", !.customer = customer']
<1>1. /\ UNCHANGED <<session, answer, customers, news, attempt, shown, granted, keys, crossed>> /\ tab[t].at = "claim"
      /\ tab' = [tab EXCEPT ![t] = q] /\ customer' = IF customer = None THEN tab[t].customer ELSE customer
  BY DEF K!ClaimCustomer, K!Winner, K!At, K!stripe
<1>2. /\ tab[t] \in Pressing /\ tab[t].customer # None /\ tab[t].read.session = None /\ tab[t].customer \in {1, 2, None}
      /\ customer \in {1, 2, None} /\ tab[t].read.key \in 1..keys
  BY <1>1 DEF CheckoutInv, CheckoutTyped, TabReads, TabBuys, Pressing, Buying
<1>3. customer' \in {1, 2, None} /\ customer' # None /\ (customer # None => customer' = customer)
  BY <1>1, <1>2
<1>4. q \in Pressing /\ q.at = "create" /\ q.read = tab[t].read /\ q.customer = customer'
  BY <1>2, <1>3 DEF Pressing, Buying
<1>5. \A x \in Workers : tab'[x] = IF x = t THEN q ELSE tab[x]
  BY <1>1 DEF CheckoutInv, CheckoutTyped
<1> HIDE DEF q
<1>6. CheckoutTyped'
  BY <1>1, <1>3, <1>4 DEF CheckoutInv, CheckoutTyped
<1>7. /\ TabReads(q, keys, session, shown) /\ TabBuys(q, customer', answer) /\ (crossed \/ TabAgrees(q, attempt, answer))
  <2>1. crossed \/ TabAgrees(tab[t], attempt, answer)
    BY DEF CheckoutInv
  <2> QED BY <1>1, <1>2, <1>3, <1>4, <2>1 DEF TabReads, TabBuys, TabAgrees, Buying
<1>8. \A x \in Workers : TabBuys(tab[x], customer', answer)
  BY <1>3 DEF CheckoutInv, TabBuys
<1>9. SoldOK(session, answer, shown, news, granted, customer')
  BY <1>3 DEF CheckoutInv, SoldOK
<1>10. \A x \in Workers : /\ TabReads(tab'[x], keys', session', shown') /\ TabBuys(tab'[x], customer', answer')
                          /\ crossed' \/ TabAgrees(tab'[x], attempt', answer')
  <2> HIDE DEF TabReads, TabBuys, TabAgrees
  <2> QED BY <1>1, <1>5, <1>7, <1>8 DEF CheckoutInv
<1> HIDE DEF CheckoutTyped, TabReads, TabBuys, TabAgrees, RowOK, SoldOK, RowLeads
<1> QED BY <1>1, <1>6, <1>9, <1>10 DEF CheckoutInv

(* createCheckoutAttempt: a forgotten key has no payable session, so what  *)
(* is made under it is the only one.                                       *)
LEMMA CheckoutCreateStep ==
  ASSUME ConstantsOK, CheckoutInv, NEW t \in Workers, K!Create(t)
  PROVE  CheckoutInv'
<1> DEFINE k == tab[t].read.key
           after(s) == [tab[t] EXCEPT !.at = "save", !.session = s]
<1>1. UNCHANGED <<customers, news, attempt, customer, shown, granted, keys, crossed>> /\ tab[t].at = "create"
  BY DEF K!Create, K!At
<1>2. /\ tab[t] \in Pressing /\ k \in 1..MaxKeys /\ tab[t].read.session = None /\ k \in 1..keys
      /\ customer # None /\ tab[t].customer = customer /\ customer \in {1, 2, None}
      /\ answer[k] \in Sold \cup {None} /\ customers \in 0..2
  <2>1. tab[t] \in Pressing /\ k \in 1..keys /\ tab[t].read.session = None /\ customer # None /\ tab[t].customer = customer
    BY <1>1 DEF CheckoutInv, CheckoutTyped, TabReads, TabBuys, Buying
  <2>2. k \in 1..MaxKeys
    BY <2>1, BuyingConstants DEF CheckoutInv, CheckoutTyped
  <2> QED BY <2>1, <2>2 DEF CheckoutInv, CheckoutTyped
<1>3. \A s \in Sold : after(s) \in Pressing /\ after(s).at = "save" /\ after(s).read = tab[t].read /\ after(s).session = s
  BY <1>2 DEF Pressing, Buying
<1>4. crossed \/ TabAgrees(tab[t], attempt, answer)
  BY DEF CheckoutInv
<1>5. CASE answer[k] # None
  <2>1. answer[k] \in Sold /\ tab' = [tab EXCEPT ![t] = after(answer[k])] /\ UNCHANGED <<session, answer>>
    BY <1>2, <1>5 DEF K!Create, K!Read
  <2>2. PICK s \in Sold : s = answer[k] /\ tab' = [tab EXCEPT ![t] = after(s)]
    BY <2>1
  <2> DEFINE q == after(s)
  <2>3. q \in Pressing /\ q.at = "save" /\ q.read = tab[t].read /\ q.session = s
    BY <1>3
  <2> HIDE DEF q
  <2>4. TabReads(q, keys, session, shown) /\ TabBuys(q, customer, answer) /\ (crossed \/ TabAgrees(q, attempt, answer))
    BY <1>1, <1>2, <1>4, <1>5, <2>2, <2>3 DEF TabReads, TabBuys, TabAgrees, Buying
  <2>5. tab' = [tab EXCEPT ![t] = q]
    BY <2>2 DEF q
  <2> QED BY <1>1, <1>2, <2>1, <2>3, <2>4, <2>5, TabMoves
<1>6. CASE answer[k] = None
  <2>1. PICK s \in Sold :
          /\ session[s].status = "none" /\ answer' = [answer EXCEPT ![k] = s] /\ tab' = [tab EXCEPT ![t] = after(s)]
          /\ session' = [session EXCEPT ![s] = [status |-> "open", customer |-> tab[t].customer]]
    <3>1. PICK s \in K!Unused :
            /\ session' = [session EXCEPT ![s] = [status |-> "open", customer |-> tab[t].customer]]
            /\ answer' = [answer EXCEPT ![k] = s] /\ tab' = [tab EXCEPT ![t].at = "save", ![t].session = s]
      BY <1>6 DEF K!Create, K!Read
    <3>2. s \in Sold /\ session[s].status = "none"
      BY BuyingConstants DEF K!Unused
    <3>3. tab' = [tab EXCEPT ![t] = after(s)]
      BY <3>1
    <3> QED BY <3>1, <3>2, <3>3
  <2> DEFINE q == after(s)
  <2>2. q \in Pressing /\ q.at = "save" /\ q.read = tab[t].read /\ q.session = s /\ tab' = [tab EXCEPT ![t] = q] /\ s # None
    BY <1>3, <2>1, BuyingConstants
  <2> HIDE DEF q
  <2>3. /\ session \in [Sold -> [status : {"none", "open", "paid", "settling", "failed", "expired"}, customer : {1, 2, None}]]
        /\ answer \in [1..MaxKeys -> Sold \cup {None}]
    BY DEF CheckoutInv, CheckoutTyped
  <2>4. /\ \A r \in Sold : session'[r] = IF r = s THEN [status |-> "open", customer |-> customer] ELSE session[r]
        /\ \A j \in 1..MaxKeys : answer'[j] = IF j = k THEN s ELSE answer[j]
        /\ session' \in [Sold -> [status : {"none", "open", "paid", "settling", "failed", "expired"}, customer : {1, 2, None}]]
        /\ answer' \in [1..MaxKeys -> Sold \cup {None}]
    BY <1>2, <2>1, <2>3
  <2>5. CheckoutTyped'
    BY <1>1, <2>2, <2>4 DEF CheckoutInv, CheckoutTyped
  <2>6. SoldOK(session, answer, shown, news, granted, customer)
    BY DEF CheckoutInv
  <2>7. s \notin shown /\ s \notin news /\ s \notin granted
    BY <2>1, <2>6 DEF SoldOK
  <2>8. SoldOK(session', answer', shown, news, granted, customer)
    <3>1. \A j \in 1..MaxKeys : answer'[j] # None => session'[answer'[j]].status # "none"
      BY <2>3, <2>4, <2>6 DEF SoldOK
    <3>2. \A r \in Sold : /\ session'[r].status \in {"paid", "settling"} => r \in shown
                          /\ r \in shown => session'[r].status # "none"
                          /\ r \in news => session'[r].status \in {"failed", "expired"}
                          /\ r \in granted => session'[r].status = "paid"
                          /\ session'[r].customer \in {None, customer}
      BY <2>4, <2>6, <2>7 DEF SoldOK
    <3> QED BY <3>1, <3>2 DEF SoldOK
  <2>9. crossed \/ RowLeads(attempt, session', shown)
    BY <2>4, <2>7 DEF CheckoutInv, CheckoutTyped, RowLeads
  <2>10. RowOK(attempt, keys, session', shown, granted)
    BY <2>1, <2>4 DEF CheckoutInv, CheckoutTyped, RowOK, Rows
  <2>11. \A x \in Workers : tab'[x] = IF x = t THEN q ELSE tab[x]
    BY <2>2 DEF CheckoutInv, CheckoutTyped
  <2>12. TabReads(q, keys, session', shown) /\ TabBuys(q, customer, answer') /\ (crossed \/ TabAgrees(q, attempt, answer'))
    <3>1. TabReads(q, keys, session', shown) /\ TabBuys(q, customer, answer')
      BY <1>2, <2>2, <2>4 DEF TabReads, TabBuys, Buying
    <3>2. ASSUME ~crossed PROVE TabAgrees(q, attempt, answer')
      BY <1>1, <1>2, <1>4, <1>6, <2>2, <3>2 DEF TabAgrees
    <3> QED BY <3>1, <3>2
  <2>13. ASSUME NEW x \in Workers
         PROVE  TabReads(tab[x], keys, session', shown) /\ TabBuys(tab[x], customer, answer') /\ (crossed \/ TabAgrees(tab[x], attempt, answer'))
    <3>1. /\ TabReads(tab[x], keys, session, shown) /\ TabBuys(tab[x], customer, answer)
          /\ (crossed \/ TabAgrees(tab[x], attempt, answer)) /\ tab[x] \in Pressing
      BY DEF CheckoutInv, CheckoutTyped
    <3>2. tab[x].read \in Rows /\ attempt \in Rows /\ MaxKeys \in Nat /\ keys \in 0..MaxKeys
      BY <3>1, BuyingConstants DEF Pressing, CheckoutInv, CheckoutTyped
    <3>3. TabReads(tab[x], keys, session', shown)
      BY <2>1, <2>4, <3>1, <3>2 DEF TabReads, Rows
    <3>4. TabBuys(tab[x], customer, answer')
      <4>1. ASSUME tab[x].at = "save" PROVE answer'[tab[x].read.key] = tab[x].session
        <5>1. tab[x].read.key \in 1..MaxKeys /\ answer[tab[x].read.key] = tab[x].session /\ tab[x].session # None
          BY <3>1, <3>2, <4>1 DEF TabReads, TabBuys
        <5> QED BY <1>6, <2>4, <5>1
      <4> QED BY <3>1, <4>1 DEF TabBuys
    <3>5. ASSUME ~crossed PROVE TabAgrees(tab[x], attempt, answer')
      <4> SUFFICES ASSUME tab[x].at # "idle", tab[x].read.key = attempt.key, tab[x].read.session = None, attempt.session # None
                   PROVE  answer'[attempt.key] = attempt.session
        BY <3>1, <3>5 DEF TabAgrees
      <4>1. answer[attempt.key] = attempt.session /\ attempt.key \in 1..MaxKeys
        BY <3>1, <3>2, <3>5 DEF TabAgrees, TabReads
      <4> QED BY <1>6, <2>4, <4>1
    <3> QED BY <3>3, <3>4, <3>5
  <2>14. \A x \in Workers : /\ TabReads(tab'[x], keys', session', shown') /\ TabBuys(tab'[x], customer', answer')
                            /\ crossed' \/ TabAgrees(tab'[x], attempt', answer')
    <3> HIDE DEF TabReads, TabBuys, TabAgrees
    <3> QED BY <1>1, <2>11, <2>12, <2>13
  <2> HIDE DEF CheckoutTyped, TabReads, TabBuys, TabAgrees, RowOK, SoldOK, RowLeads
  <2> QED BY <1>1, <2>5, <2>8, <2>9, <2>10, <2>14 DEF CheckoutInv
<1> QED BY <1>5, <1>6

(* The row names the session, unless it has another key by now.            *)
LEMMA CheckoutSaveStep ==
  ASSUME ConstantsOK, CheckoutInv, NEW t \in Workers, K!Save(t)
  PROVE  CheckoutInv'
<1> DEFINE s == tab[t].session
<1>1. /\ UNCHANGED <<session, answer, customers, news, customer, granted, keys>> /\ tab[t].at = "save"
      /\ tab' = [tab EXCEPT ![t] = K!Idle] /\ shown' = shown \cup {s}
      /\ attempt' = [attempt EXCEPT !.status = "open", !.session = s]
      /\ crossed' = (crossed \/ attempt.key # tab[t].read.key)
  BY DEF K!Save, K!Overwrites, K!Read, K!At, K!Rest, K!stripe
<1>2. /\ s \in Sold /\ tab[t].read.session = None /\ tab[t].read.key \in 1..keys /\ answer[tab[t].read.key] = s
      /\ attempt \in Rows /\ keys \in 0..MaxKeys /\ MaxKeys \in Nat /\ None \notin Sold
  BY <1>1, BuyingConstants DEF CheckoutInv, CheckoutTyped, TabReads, TabBuys, Buying, Pressing
<1>3. /\ attempt' \in Rows /\ attempt'.status = "open" /\ attempt'.session = s /\ attempt'.key = attempt.key
  <2>1. ASSUME NEW x \in Rows, NEW y \in Sold
        PROVE  LET z == [x EXCEPT !.status = "open", !.session = y]
               IN  z \in Rows /\ z.status = "open" /\ z.session = y /\ z.key = x.key
    BY DEF Rows, K!Statuses
  <2> QED BY <1>1, <1>2, <2>1
<1>4. keys # 0 /\ attempt # K!Absent /\ attempt.key = keys /\ session[s].status # "none"
  <2>1. keys # 0
    BY <1>2
  <2>2. session[s].status # "none"
    BY <1>2 DEF CheckoutInv, SoldOK
  <2> QED BY <2>1, <2>2 DEF CheckoutInv, RowOK
<1>5. \A x \in Workers : tab'[x] = IF x = t THEN K!Idle ELSE tab[x]
  BY <1>1 DEF CheckoutInv, CheckoutTyped
<1>6. CheckoutTyped'
  <2>1. crossed' \in BOOLEAN /\ K!Idle \in Pressing
    BY <1>1, RestingTab
  <2> QED BY <1>1, <1>2, <1>3, <2>1 DEF CheckoutInv, CheckoutTyped
<1>7. RowOK(attempt', keys, session, shown', granted)
  <2>1. attempt' # K!Absent /\ s \in shown'
    BY <1>1, <1>3 DEF K!Absent
  <2> QED BY <1>3, <1>4, <2>1 DEF RowOK
<1>8. SoldOK(session, answer, shown', news, granted, customer)
  BY <1>1, <1>4 DEF CheckoutInv, SoldOK
<1>9. ASSUME ~crossed' PROVE ~crossed /\ attempt.key = tab[t].read.key /\ (attempt.session # None => attempt.session = s)
  <2>1. ~crossed /\ attempt.key = tab[t].read.key
    BY <1>1, <1>9 DEF CheckoutInv, CheckoutTyped
  <2> QED BY <1>1, <1>2, <2>1 DEF CheckoutInv, TabAgrees
<1>10. ASSUME ~crossed' PROVE RowLeads(attempt', session, shown')
  <2>1. \A r \in shown : session[r].status \in Payable => attempt.session = r
    BY <1>9, <1>10 DEF CheckoutInv, RowLeads
  <2>2. \A r \in shown : r # None
    BY <1>2 DEF CheckoutInv, CheckoutTyped
  <2> QED BY <1>1, <1>3, <1>9, <1>10, <2>1, <2>2 DEF RowLeads
<1>11. ASSUME NEW x \in Workers PROVE TabReads(tab[x], keys, session, shown')
  BY <1>1 DEF CheckoutInv, TabReads
<1>12. ASSUME NEW x \in Workers, ~crossed' PROVE TabAgrees(tab[x], attempt', answer)
  <2> SUFFICES ASSUME tab[x].at # "idle", tab[x].read.key = attempt.key
               PROVE  IF tab[x].read.session # None THEN s = tab[x].read.session ELSE answer[attempt.key] = s
    BY <1>3 DEF TabAgrees
  <2>1. TabAgrees(tab[x], attempt, answer)
    BY <1>9, <1>12 DEF CheckoutInv
  <2> QED BY <1>2, <1>9, <1>12, <2>1 DEF TabAgrees
<1>13. \A x \in Workers : /\ TabReads(tab'[x], keys', session', shown') /\ TabBuys(tab'[x], customer', answer')
                          /\ crossed' \/ TabAgrees(tab'[x], attempt', answer')
  <2> HIDE DEF TabReads, TabBuys, TabAgrees
  <2> QED BY <1>1, <1>5, <1>11, <1>12, RestingTab DEF CheckoutInv
<1> HIDE DEF CheckoutTyped, TabReads, TabBuys, TabAgrees, RowOK, SoldOK, RowLeads
<1> QED BY <1>1, <1>6, <1>7, <1>8, <1>10, <1>13 DEF CheckoutInv

(* At Stripe, and what is heard from there.  A session only moves towards  *)
(* its end.                                                                *)
Ahead(from, to) == \/ from = to
                   \/ from = "open" /\ to \in {"paid", "settling", "expired"}
                   \/ from = "settling" /\ to \in {"paid", "failed"}
LEMMA CheckoutStripeStep ==
  ASSUME ConstantsOK, CheckoutInv, NEW s \in Sold,
         (\E status \in {"paid", "settling", "failed"} : K!Pay(s, status) \/ K!Settle(s, status)) \/ K!Expire(s)
  PROVE  CheckoutInv'
<1>1. PICK to \in {"paid", "settling", "failed", "expired"} :
        /\ session' = [session EXCEPT ![s].status = to] /\ Ahead(session[s].status, to)
        /\ to \in {"paid", "settling"} => s \in shown
        /\ news' = (IF to \in {"failed", "expired"} THEN news \cup {s} ELSE news)
        /\ session[s].status \in {"open", "settling"}
        /\ UNCHANGED <<answer, customers, attempt, customer, tab, shown, granted, keys, crossed>>
  <2>1. session[s].status = "settling" => s \in shown
    BY DEF CheckoutInv, SoldOK
  <2>2. ASSUME NEW status \in {"paid", "settling", "failed"}, K!Pay(s, status) PROVE
        /\ session' = [session EXCEPT ![s].status = status] /\ Ahead(session[s].status, status) /\ status # "failed" /\ s \in shown
        /\ news' = news /\ session[s].status = "open"
        /\ UNCHANGED <<answer, customers, attempt, customer, tab, shown, granted, keys, crossed>>
    BY <2>2 DEF K!Pay, K!Become, K!Outside, Ahead
  <2>3. ASSUME NEW status \in {"paid", "settling", "failed"}, K!Settle(s, status) PROVE
        /\ session' = [session EXCEPT ![s].status = status] /\ Ahead(session[s].status, status) /\ status # "settling"
        /\ news' = (IF status = "failed" THEN news \cup {s} ELSE news) /\ session[s].status = "settling"
        /\ UNCHANGED <<answer, customers, attempt, customer, tab, shown, granted, keys, crossed>>
    BY <2>3 DEF K!Settle, K!Become, K!Outside, Ahead
  <2>4. ASSUME K!Expire(s) PROVE
        /\ session' = [session EXCEPT ![s].status = "expired"] /\ Ahead(session[s].status, "expired")
        /\ news' = news \cup {s} /\ session[s].status = "open"
        /\ UNCHANGED <<answer, customers, attempt, customer, tab, shown, granted, keys, crossed>>
    BY <2>4 DEF K!Expire, K!Become, K!Outside, Ahead
  <2> HIDE DEF Ahead
  <2> QED BY <2>1, <2>2, <2>3, <2>4
<1>2. session \in [Sold -> [status : {"none", "open", "paid", "settling", "failed", "expired"}, customer : {1, 2, None}]]
  BY DEF CheckoutInv, CheckoutTyped
<1>3. /\ \A r \in Sold : session'[r].customer = session[r].customer /\ session'[r].status = (IF r = s THEN to ELSE session[r].status)
      /\ session' \in [Sold -> [status : {"none", "open", "paid", "settling", "failed", "expired"}, customer : {1, 2, None}]]
  <2>1. ASSUME NEW x \in [status : {"none", "open", "paid", "settling", "failed", "expired"}, customer : {1, 2, None}]
        PROVE  LET y == [x EXCEPT !.status = to]
               IN  /\ y \in [status : {"none", "open", "paid", "settling", "failed", "expired"}, customer : {1, 2, None}]
                   /\ y.status = to /\ y.customer = x.customer
    OBVIOUS
  <2>2. session' = [session EXCEPT ![s] = [session[s] EXCEPT !.status = to]]
    BY <1>1
  <2>3. \A r \in Sold : session'[r] = IF r = s THEN [session[s] EXCEPT !.status = to] ELSE session[r]
    BY <1>2, <2>2
  <2>4. session' = [r \in Sold |-> session'[r]]
    BY <1>2, <2>2
  <2> QED BY <1>2, <2>1, <2>3, <2>4
<1>4. CheckoutTyped'
  BY <1>1, <1>3 DEF CheckoutInv, CheckoutTyped
<1>5. SoldOK(session', answer, shown, news', granted, customer)
  <2>1. SoldOK(session, answer, shown, news, granted, customer) /\ \A k \in 1..MaxKeys : answer[k] \in Sold \cup {None}
    BY DEF CheckoutInv, CheckoutTyped
  <2>2. \A k \in 1..MaxKeys : answer[k] # None => session'[answer[k]].status # "none"
    BY <1>1, <1>3, <2>1 DEF SoldOK
  <2>3. \A r \in Sold : /\ session'[r].status \in {"paid", "settling"} => r \in shown
                        /\ r \in shown => session'[r].status # "none"
                        /\ r \in news' => session'[r].status \in {"failed", "expired"}
                        /\ r \in granted => session'[r].status = "paid"
                        /\ session'[r].customer \in {None, customer}
    BY <1>1, <1>3, <2>1 DEF SoldOK, Ahead
  <2> QED BY <2>2, <2>3 DEF SoldOK
<1>6. RowOK(attempt, keys, session', shown, granted)
  <2>1. attempt \in Rows /\ RowOK(attempt, keys, session, shown, granted)
    BY DEF CheckoutInv, CheckoutTyped
  <2> QED BY <1>1, <1>3, <2>1 DEF RowOK, Rows
<1>7. crossed \/ RowLeads(attempt, session', shown)
  BY <1>1, <1>3 DEF CheckoutInv, CheckoutTyped, RowLeads, Payable
<1>8. ASSUME NEW x \in Workers PROVE TabReads(tab[x], keys, session', shown)
  <2>1. TabReads(tab[x], keys, session, shown) /\ tab[x].read.session \in Sold \cup {None}
    BY DEF CheckoutInv, CheckoutTyped, Pressing, Rows
  <2> QED BY <1>1, <1>3, <2>1 DEF TabReads
<1> HIDE DEF CheckoutTyped, TabReads, TabBuys, TabAgrees, RowOK, SoldOK, RowLeads
<1> QED BY <1>1, <1>4, <1>5, <1>6, <1>7, <1>8 DEF CheckoutInv

LEMMA CheckoutForgetStep ==
  ASSUME ConstantsOK, CheckoutInv, NEW k \in 1..MaxKeys, K!Forget(k)
  PROVE  CheckoutInv'
<1>1. /\ UNCHANGED <<session, customers, news, attempt, customer, tab, shown, granted, keys, crossed>>
      /\ answer' = [answer EXCEPT ![k] = None] /\ \A t \in Workers : tab[t].at = "idle"
  BY DEF K!Forget, K!At
<1>2. CheckoutTyped'
  BY <1>1 DEF CheckoutInv, CheckoutTyped
<1>3. SoldOK(session, answer', shown, news, granted, customer)
  BY <1>1 DEF CheckoutInv, CheckoutTyped, SoldOK
<1>4. \A t \in Workers : TabBuys(tab[t], customer, answer') /\ TabAgrees(tab[t], attempt, answer')
  BY <1>1 DEF TabBuys, TabAgrees
<1> HIDE DEF CheckoutTyped, TabReads, TabBuys, TabAgrees, RowOK, SoldOK, RowLeads
<1> QED BY <1>1, <1>2, <1>3, <1>4 DEF CheckoutInv

LEMMA CheckoutHearStep ==
  ASSUME ConstantsOK, CheckoutInv, NEW s \in Sold,
         K!HearOver(s) \/ K!Fulfil(s) \/ K!MarkFulfilled(s) \/ K!RefundFails(s)
  PROVE  CheckoutInv'
<1>1. /\ UNCHANGED <<session, answer, customers, customer, tab, shown, keys, crossed>> /\ news' \subseteq news
      /\ granted' = granted \/ (granted' = granted \cup {s} /\ session[s].status = "paid")
      /\ \/ UNCHANGED attempt
         \/ /\ attempt.session = s /\ attempt.status # "absent"
            /\ \E to \in {"expired", "fulfilled", "manual"} :
                 /\ attempt' = [attempt EXCEPT !.status = to]
                 /\ to = "expired" => s \in news
                 /\ to = "fulfilled" => s \in granted
  <2>1. CASE K!HearOver(s)
    BY <2>1 DEF K!HearOver, K!Row, K!Names, K!Unfinished
  <2>2. CASE K!Fulfil(s)
    BY <2>2 DEF K!Fulfil, K!stripe
  <2>3. CASE K!MarkFulfilled(s)
    BY <2>3 DEF K!MarkFulfilled, K!Row, K!Names, K!Statuses, K!stripe
  <2>4. CASE K!RefundFails(s)
    BY <2>4 DEF K!RefundFails, K!Row, K!Names, K!Statuses, K!stripe
  <2> QED BY <2>1, <2>2, <2>3, <2>4
<1>2. attempt \in Rows /\ RowOK(attempt, keys, session, shown, granted) /\ SoldOK(session, answer, shown, news, granted, customer)
  BY DEF CheckoutInv, CheckoutTyped
<1>3. attempt' \in Rows /\ attempt'.session = attempt.session /\ attempt'.key = attempt.key
  BY <1>1, <1>2 DEF Rows, K!Statuses
<1>4. RowOK(attempt', keys, session, shown, granted')
  <2>1. CASE UNCHANGED attempt
    BY <1>1, <1>2, <2>1 DEF RowOK
  <2>2. CASE ~UNCHANGED attempt
    <3>1. PICK to \in {"expired", "fulfilled", "manual"} :
            /\ attempt' = [attempt EXCEPT !.status = to] /\ attempt.session = s /\ attempt.status # "absent"
            /\ to = "expired" => s \in news
            /\ to = "fulfilled" => s \in granted
      BY <1>1, <2>2
    <3>2. attempt'.status = to /\ attempt # K!Absent
      BY <1>2, <3>1 DEF Rows, K!Absent
    <3>3. attempt' # K!Absent
      BY <3>2 DEF K!Absent
    <3>4. s \in news => session[s].status \in {"failed", "expired"}
      BY <1>2 DEF SoldOK
    <3>5. s # None
      BY BuyingConstants
    <3> QED BY <1>1, <1>2, <1>3, <3>1, <3>2, <3>3, <3>4, <3>5 DEF RowOK
  <2> QED BY <2>1, <2>2
<1>5. CheckoutTyped'
  BY <1>1, <1>3 DEF CheckoutInv, CheckoutTyped
<1>6. SoldOK(session, answer, shown, news', granted', customer)
  BY <1>1, <1>2 DEF SoldOK
<1>7. /\ crossed \/ RowLeads(attempt', session, shown)
      /\ \A t \in Workers : crossed \/ TabAgrees(tab[t], attempt', answer)
  BY <1>3 DEF CheckoutInv, RowLeads, TabAgrees
<1> HIDE DEF CheckoutTyped, TabReads, TabBuys, TabAgrees, RowOK, SoldOK, RowLeads
<1> QED BY <1>1, <1>4, <1>5, <1>6, <1>7 DEF CheckoutInv

LEMMA CheckoutInvariance == Spec => []CheckoutInv
<1> USE ConstantsOK
<1>1. Init => CheckoutInv
  <2> SUFFICES ASSUME Init PROVE CheckoutInv
    OBVIOUS
  <2>1. /\ session = [s \in Sold |-> [status |-> "none", customer |-> None]] /\ answer = [k \in 1..MaxKeys |-> None]
        /\ customers = 0 /\ attempt = K!Absent /\ customer = None /\ tab = [t \in Workers |-> K!Idle]
        /\ shown = {} /\ news = {} /\ granted = {} /\ keys = 0 /\ crossed = FALSE
    BY BuyingConstants DEF Init, K!Init
  <2>2. K!Absent \in Rows /\ K!Absent.session = None /\ K!Absent.status = "absent"
    BY DEF K!Absent, Rows
  <2>3. CheckoutTyped
    <3>1. 0 \in 0..MaxKeys /\ 0 \in 0..2 /\ FALSE \in BOOLEAN
      BY BuyingConstants
    <3>2. /\ session \in [Sold -> [status : {"none", "open", "paid", "settling", "failed", "expired"}, customer : {1, 2, None}]]
          /\ answer \in [1..MaxKeys -> Sold \cup {None}] /\ tab \in [Workers -> Pressing]
      BY <2>1, RestingTab
    <3> QED BY <2>1, <2>2, <3>1, <3>2 DEF CheckoutTyped
  <2>4. RowOK(attempt, keys, session, shown, granted)
    BY <2>1, <2>2 DEF RowOK
  <2>5. SoldOK(session, answer, shown, news, granted, customer) /\ RowLeads(attempt, session, shown)
    BY <2>1 DEF SoldOK, RowLeads
  <2> HIDE DEF CheckoutTyped, TabReads, TabBuys, TabAgrees, RowOK, SoldOK, RowLeads
  <2> QED BY <2>1, <2>3, <2>4, <2>5, RestingTab DEF CheckoutInv
<1>2. ASSUME CheckoutInv, [Next]_vars PROVE CheckoutInv'
  <2>1. ASSUME UNCHANGED checkouts PROVE CheckoutInv'
    BY <1>2, <2>1 DEF CheckoutInv, CheckoutTyped, checkouts
  <2>2. ASSUME Buy PROVE CheckoutInv'
    <3>1. K!Next
      BY <2>2 DEF Buy
    <3> QED BY <1>2, <3>1, BuyingConstants, ResolveStep, ChecksStep, CheckoutLoadStep, CheckoutReplaceStep, CheckoutClaimStep,
               CheckoutCreateStep, CheckoutSaveStep, CheckoutStripeStep, CheckoutForgetStep, CheckoutHearStep DEF K!Next
  <2> QED BY <1>2, <2>1, <2>2, BuyOrRest
<1> QED BY <1>1, <1>2, PTL DEF Spec

(* However often the button is pressed, in however many tabs, and whatever *)
(* dies: an attempt is paid at most once, it shields the account while it  *)
(* can be paid or has to be honoured, and every session is for the         *)
(* organization's customer (createCheckoutAttempt, claimStripeCustomer).   *)
THEOREM SpecImpliesCheckoutsKept == Spec => []CheckoutsKept
<1>1. ASSUME ConstantsOK, CheckoutInv PROVE CheckoutsKept
  <2>1. K!PaidOnce
    <3> SUFFICES ASSUME ~crossed PROVE K!Cardinality({s \in Sold : K!Taken(s)}) <= 1
      BY <1>1, BuyingConstants DEF K!PaidOnce
    <3> DEFINE taken == {s \in Sold : K!Taken(s)}
    <3>1. \A s \in taken : s = attempt.session
      BY <1>1, BuyingConstants DEF CheckoutInv, SoldOK, RowLeads, Payable, K!Taken
    <3>2. taken \in SUBSET {attempt.session}
      BY <3>1
    <3> HIDE DEF taken
    <3>3. IsFiniteSet({attempt.session}) /\ Cardinality({attempt.session}) = 1
      BY FS_Singleton
    <3>4. IsFiniteSet(taken) /\ Cardinality(taken) <= 1
      BY <3>2, <3>3, FS_Subset
    <3>5. K!Cardinality(taken) = Cardinality(taken)
      BY Zenon DEF K!Cardinality, Cardinality
    <3> QED BY <3>4, <3>5 DEF taken
  <2>2. K!ShieldHeld
    <3> SUFFICES ASSUME NEW s \in Sold, K!Owed(s), ~crossed PROVE attempt.status \in K!Shields
      BY <1>1, BuyingConstants DEF K!ShieldHeld
    <3>1. /\ s \in shown /\ session[s].status \in Payable /\ attempt \in Rows /\ RowLeads(attempt, session, shown)
          /\ RowOK(attempt, keys, session, shown, granted) /\ (s \in granted => session[s].status = "paid") /\ s # None
          /\ (session[s].status = "paid" => s \notin granted)
      BY <1>1, BuyingConstants DEF CheckoutInv, CheckoutTyped, SoldOK, K!Owed, K!Taken, Payable
    <3>2. attempt.session = s
      BY <3>1 DEF RowLeads
    <3> QED BY <3>1, <3>2 DEF RowOK, Rows, K!Shields, K!Statuses, Payable
  <2>3. K!OneCustomer
    BY <1>1, BuyingConstants DEF CheckoutInv, SoldOK, K!OneCustomer
  <2> QED BY <2>1, <2>2, <2>3 DEF CheckoutsKept, K!CheckoutsKept
<1> QED BY <1>1, ConstantsOK, CheckoutInvariance, PTL

-----------------------------------------------------------------------------
(* Refunds.  What matters is the last refund: its event is to come, or it  *)
(* was observed, with the whole sum; and an observation that an owner was  *)
(* found for has paused every consent of before, and every form that has   *)
(* not shown the pause.                                                    *)
Mandate == [enabled : BOOLEAN, consent : Nat, version : Nat]
Page == [step : {"closed", "shown", "write"}, version : Nat, read : Nat, enabled : BOOLEAN, consent : Nat]
Refunding == [step : {"idle", "find", "observe", "reverse"}, event : Nat, sum : Nat, found : BOOLEAN]
Observation == [sum : Nat, at : Nat, by : BOOLEAN]
Wish == [on : BOOLEAN, at : Nat, seen : Nat]

OwnerOK(o, p, w, rs, t) ==
  /\ o \in Mandate /\ p \in Page /\ w \in Wish /\ o.consent <= t /\ w.at = o.consent
  /\ o.enabled => w.on /\ w.seen = o.version
  /\ w.on => o.enabled \/ \E r \in rs : r >= o.consent
  /\ p.step # "closed" => p.version <= o.version
  /\ p.step = "write" => /\ p.read = p.version /\ o.consent <= p.consent /\ p.consent <= t
                         /\ o.enabled => p.enabled

Pulled(o, q, rs) ==     \* q is o, or o after refunds no earlier than its consent
  /\ q \in Mandate /\ q.consent = o.consent /\ q.version >= o.version
  /\ q = o \/ (~q.enabled /\ \E r \in rs : r >= o.consent)

Final(l, rs) == l \in rs /\ \A r \in rs : r <= l
SeenAt(obs, l) == obs # None /\ obs.at = l
Lagging(o, p, l) ==     \* consented before l, or about to
  \/ o.enabled /\ o.consent <= l
  \/ p.step = "write" /\ ~p.enabled /\ p.read = o.version /\ p.consent <= l
ObservedOK(obs, o, p, l) == SeenAt(obs, l) /\ obs.by => ~Lagging(o, p, l)
HookOK(q, rs, total, lk) ==
  /\ q.step # "idle" => q.event \in rs /\ q.sum <= total
  /\ lk /\ q.step = "observe" => q.found
HookLast(q, l, obs, total) ==
  q.step # "idle" /\ q.event = l => q.sum = total /\ (q.step = "reverse" => SeenAt(obs, l))

RefundTyped ==
  /\ now \in Nat /\ returned \in Nat /\ returns \subseteq 0..now /\ told \subseteq returns
  /\ refunder \in [Workers -> Refunding] /\ (pending # None => pending \in returns)
  /\ observed # None => observed \in Observation /\ observed.sum <= returned /\ observed.at \in returns
  /\ linked => bought \in {"credits", "period"} /\ ~R!Unclaimed(observed)
RefundInv ==
  /\ RefundTyped /\ OwnerOK(mandate, page, wish, returns, now)
  /\ returns # {} => \E l \in returns : Final(l, returns)
  /\ \A h \in Workers : HookOK(refunder[h], returns, returned, linked)
  /\ \A l \in returns : Final(l, returns) =>
       /\ l \in told \/ SeenAt(observed, l)
       /\ ObservedOK(observed, mandate, page, l)
       /\ \A h \in Workers : HookLast(refunder[h], l, observed, returned)

LEMMA RefundConstants == ConstantsOK => None \notin Observation /\ Parts \in Nat \ {0}
BY DEF ConstantsOK, R!ConstantsOK, Observation

LEMMA PausePulls ==
  ASSUME NEW o \in Mandate, NEW rs \in SUBSET Nat, NEW at \in rs, NEW advance \in BOOLEAN
  PROVE  LET q == R!Pause(o, at, advance)
         IN /\ Pulled(o, q, rs) /\ (q.enabled => o.consent > at)
            /\ advance /\ o.consent <= at => q.version = o.version + 1
<1>1. ASSUME NEW v \in Nat
      PROVE LET q == [o EXCEPT !.enabled = FALSE, !.version = v]
            IN q \in Mandate /\ q.consent = o.consent /\ q.version = v /\ ~q.enabled
  BY DEF Mandate
<1>2. o.version \in Nat /\ o.consent \in Nat /\ at \in Nat
  BY DEF Mandate
<1>3. CASE o.consent > at
  BY <1>2, <1>3 DEF R!Pause, R!Authorized, Pulled
<1>4. CASE ~(o.consent > at)
  <2> DEFINE v == R!Version(o, advance)
             q == [o EXCEPT !.enabled = FALSE, !.version = v]
  <2>1. v \in Nat /\ v >= o.version /\ (advance => v = o.version + 1)
    BY <1>2 DEF R!Version
  <2>2. R!Pause(o, at, advance) = q
    BY <1>4 DEF R!Pause, R!Authorized
  <2>3. at >= o.consent
    BY <1>2, <1>4
  <2> HIDE DEF v
  <2>4. q \in Mandate /\ q.consent = o.consent /\ q.version = v /\ ~q.enabled
    BY <1>1, <2>1
  <2> HIDE DEF q
  <2> QED BY <2>1, <2>2, <2>3, <2>4 DEF Pulled
<1> QED BY <1>3, <1>4

LEMMA PullsCompose ==
  ASSUME NEW o \in Mandate, NEW q, NEW x, NEW rs, Pulled(o, q, rs), Pulled(q, x, rs)
  PROVE  Pulled(o, x, rs)
BY DEF Pulled, Mandate

LEMMA PulledByPulls ==
  ASSUME ConstantsOK, NEW o \in Mandate, NEW rs \in SUBSET Nat, NEW obs,
         obs # None => obs \in Observation /\ obs.at \in rs
  PROVE  Pulled(o, R!PulledBy(o, obs), rs)
<1>1. CASE R!Unclaimed(obs)
  BY <1>1, PausePulls DEF R!Unclaimed, R!PulledBy
<1>2. CASE ~R!Unclaimed(obs)
  BY <1>2 DEF R!PulledBy, Pulled, Mandate
<1> QED BY <1>1, <1>2

(* A pause leaves the owner's state sound and nothing newly lagging.       *)
LEMMA PulledOwner ==
  ASSUME NEW o, NEW q, NEW p, NEW w, NEW rs, NEW t \in Nat, OwnerOK(o, p, w, rs, t), Pulled(o, q, rs)
  PROVE  OwnerOK(q, p, w, rs, t) /\ \A l \in Nat : Lagging(q, p, l) => Lagging(o, p, l)
<1>1. o.consent \in Nat /\ o.version \in Nat /\ q.version \in Nat /\ p.version \in Nat /\ p.read \in Nat /\ p.consent \in Nat
  BY DEF OwnerOK, Pulled, Mandate, Page
<1>2. OwnerOK(q, p, w, rs, t)
  BY <1>1 DEF OwnerOK, Pulled
<1>3. \A l \in Nat : Lagging(q, p, l) => Lagging(o, p, l)
  BY <1>1 DEF OwnerOK, Pulled, Lagging
<1> QED BY <1>2, <1>3

(* An observation pulls top-up out of any consent it is later than.        *)
LEMMA ClaimCatches ==
  ASSUME ConstantsOK, NEW o, NEW p, NEW w, NEW rs \in SUBSET Nat, NEW t \in Nat, OwnerOK(o, p, w, rs, t),
         NEW obs, obs # None => obs \in Observation /\ obs.at \in rs,
         NEW l \in rs, ObservedOK(obs, o, p, l)
  PROVE  ObservedOK(R!Claimed(obs), R!PulledBy(o, obs), p, l)
<1>1. CASE R!Unclaimed(obs)
  <2>1. o \in Mandate /\ obs \in Observation /\ obs.at \in rs /\ obs.at \in Nat
    BY <1>1 DEF OwnerOK, R!Unclaimed
  <2>2. R!Claimed(obs).at = obs.at
    BY <1>1, <2>1 DEF R!Claimed, Observation
  <2>3. ASSUME obs.at = l PROVE ~Lagging(R!PulledBy(o, obs), p, l)
    <3> DEFINE q == R!Pause(o, l, TRUE)
    <3>1. /\ Pulled(o, q, rs) /\ (q.enabled => o.consent > l)
          /\ o.consent <= l => q.version = o.version + 1
      BY <2>1, PausePulls
    <3>2. R!PulledBy(o, obs) = q
      BY <1>1, <2>3 DEF R!PulledBy
    <3> HIDE DEF q
    <3>3. o.consent \in Nat /\ o.version \in Nat /\ p.version \in Nat /\ p.consent \in Nat /\ q.consent = o.consent /\ l \in Nat
      BY <3>1 DEF OwnerOK, Pulled, Mandate, Page
    <3>4. p.step = "write" => p.read = p.version /\ p.version <= o.version /\ o.consent <= p.consent
      BY DEF OwnerOK
    <3> QED BY <3>1, <3>2, <3>3, <3>4 DEF Lagging
  <2> QED BY <2>2, <2>3 DEF ObservedOK, SeenAt
<1>2. CASE ~R!Unclaimed(obs)
  BY <1>2 DEF R!Claimed, R!PulledBy
<1> QED BY <1>1, <1>2

(* The steps that pause: a grant, a drain and a handler of a refund.       *)
Known(obs) == obs # None => obs \in Observation /\ obs.sum <= returned /\ obs.at \in returns
Pausing ==
  /\ UNCHANGED <<now, bought, linked, returned, returns, page, wish>>
  /\ Pulled(mandate, mandate', returns) /\ Known(observed') /\ (linked => ~R!Unclaimed(observed'))
  /\ pending' # None => pending' \in returns
  /\ \A l \in returns : Final(l, returns) => ObservedOK(observed', mandate', page, l)
Hooking ==
  /\ refunder' \in [Workers -> Refunding] /\ told' \subseteq told
  /\ \A h \in Workers : HookOK(refunder'[h], returns, returned, linked)
  /\ \A l \in returns : Final(l, returns) =>
       /\ SeenAt(observed, l) => SeenAt(observed', l)
       /\ l \in told => l \in told' \/ SeenAt(observed, l)
       /\ \A h \in Workers : HookLast(refunder'[h], l, observed', returned)

LEMMA PausingKeeps == ASSUME ConstantsOK, RefundInv, Pausing, Hooking PROVE RefundInv'
<1>1. /\ UNCHANGED <<now, bought, linked, returned, returns, page, wish>> /\ Pulled(mandate, mandate', returns)
      /\ Known(observed') /\ (linked => ~R!Unclaimed(observed')) /\ (pending' # None => pending' \in returns)
      /\ refunder' \in [Workers -> Refunding] /\ told' \subseteq told
  BY DEF Pausing, Hooking
<1>2. OwnerOK(mandate', page, wish, returns, now)
  BY <1>1, PulledOwner DEF RefundInv, RefundTyped
<1>3. RefundTyped'
  BY <1>1 DEF RefundInv, RefundTyped, R!Unclaimed, Known
<1>4. ASSUME NEW l \in returns, Final(l, returns)
      PROVE  /\ l \in told' \/ SeenAt(observed', l)
             /\ ObservedOK(observed', mandate', page, l)
             /\ \A h \in Workers : HookLast(refunder'[h], l, observed', returned)
  BY <1>4 DEF RefundInv, Pausing, Hooking
<1>5. (returns # {} => \E l \in returns : Final(l, returns)) /\ \A h \in Workers : HookOK(refunder'[h], returns, returned, linked)
  BY DEF RefundInv, Hooking
<1> QED BY <1>1, <1>2, <1>3, <1>4, <1>5 DEF RefundInv

LEMMA ClaimedKnown ==
  ASSUME ConstantsOK, NEW obs, Known(obs)
  PROVE  /\ Known(R!Claimed(obs)) /\ ~R!Unclaimed(R!Claimed(obs))
         /\ \A l \in returns : SeenAt(obs, l) => SeenAt(R!Claimed(obs), l)
<1>1. CASE R!Unclaimed(obs)
  <2>1. obs \in Observation /\ R!Claimed(obs) = [obs EXCEPT !.by = TRUE]
    BY <1>1 DEF Known, R!Unclaimed, R!Claimed
  <2>2. LET c == R!Claimed(obs) IN c \in Observation /\ c.sum = obs.sum /\ c.at = obs.at /\ c.by
    BY <2>1 DEF Observation
  <2>3. obs.sum <= returned /\ obs.at \in returns
    BY <1>1 DEF Known, R!Unclaimed
  <2> QED BY <2>2, <2>3, RefundConstants DEF Known, R!Unclaimed, SeenAt
<1>2. CASE ~R!Unclaimed(obs)
  BY <1>2 DEF R!Claimed
<1> QED BY <1>1, <1>2

LEMMA GrantStep ==
  ASSUME ConstantsOK, RefundInv, R!GrantPeriod \/ R!GrantCredits \/ R!Drain
  PROVE  RefundInv'
<1> DEFINE late == IF pending # None THEN R!Pause(mandate, pending, TRUE) ELSE mandate
<1>1. /\ UNCHANGED <<now, bought, linked, returned, returns, page, wish, told, refunder>>
      /\ pending' # None => pending' = pending
      /\ \/ UNCHANGED observed /\ mandate' \in {mandate, late}
         \/ observed' = R!Claimed(observed) /\ \E o \in {mandate, late} : mandate' = R!PulledBy(o, observed)
  <2>1. CASE R!GrantPeriod
    BY <2>1 DEF R!GrantPeriod, R!owner
  <2>2. CASE R!GrantCredits
    BY <2>2 DEF R!GrantCredits, R!owner
  <2>3. CASE R!Drain
    BY <2>3 DEF R!Drain, R!owner
  <2> QED BY <2>1, <2>2, <2>3
<1>2. /\ mandate \in Mandate /\ returns \in SUBSET Nat /\ now \in Nat /\ Known(observed) /\ (pending # None => pending \in returns)
      /\ OwnerOK(mandate, page, wish, returns, now) /\ (linked => ~R!Unclaimed(observed))
  BY DEF RefundInv, RefundTyped, OwnerOK, Known
<1>3. Pulled(mandate, mandate, returns)
  BY <1>2 DEF Pulled, Mandate
<1>4. Pulled(mandate, late, returns)
  BY <1>2, <1>3, PausePulls
<1> HIDE DEF late
<1>5. ASSUME NEW o \in {mandate, late}
      PROVE  /\ Pulled(mandate, o, returns) /\ OwnerOK(o, page, wish, returns, now)
             /\ \A l \in returns : ObservedOK(observed, mandate, page, l) => ObservedOK(observed, o, page, l)
  <2>1. Pulled(mandate, o, returns)
    BY <1>3, <1>4
  <2>2. OwnerOK(o, page, wish, returns, now) /\ \A l \in returns : Lagging(o, page, l) => Lagging(mandate, page, l)
    BY <1>2, <2>1, PulledOwner
  <2> QED BY <2>1, <2>2 DEF ObservedOK
<1>6. ASSUME NEW o \in {mandate, late}
      PROVE  /\ Pulled(mandate, R!PulledBy(o, observed), returns)
             /\ \A l \in returns : ObservedOK(observed, mandate, page, l) =>
                  ObservedOK(R!Claimed(observed), R!PulledBy(o, observed), page, l)
  <2>1. o \in Mandate /\ Pulled(mandate, o, returns) /\ OwnerOK(o, page, wish, returns, now)
    BY <1>5 DEF Pulled
  <2>2. Pulled(mandate, R!PulledBy(o, observed), returns)
    BY <1>2, <2>1, PulledByPulls, PullsCompose DEF Known
  <2>3. \A l \in returns : ObservedOK(observed, o, page, l) => ObservedOK(R!Claimed(observed), R!PulledBy(o, observed), page, l)
    BY <1>2, <2>1, ClaimCatches DEF Known
  <2> QED BY <1>5, <2>2, <2>3
<1>7. /\ Known(R!Claimed(observed)) /\ ~R!Unclaimed(R!Claimed(observed))
      /\ \A l \in returns : SeenAt(observed, l) => SeenAt(R!Claimed(observed), l)
  BY <1>2, ClaimedKnown
<1>8. Known(observed') /\ (linked => ~R!Unclaimed(observed')) /\ \A l \in returns : SeenAt(observed, l) => SeenAt(observed', l)
  BY <1>1, <1>2, <1>7
<1>9. Pulled(mandate, mandate', returns) /\ \A l \in returns : ObservedOK(observed, mandate, page, l) => ObservedOK(observed', mandate', page, l)
  BY <1>1, <1>5, <1>6
<1>10. \A l \in returns : Final(l, returns) => ObservedOK(observed, mandate, page, l)
  BY DEF RefundInv
<1>11. Pausing
  BY <1>1, <1>2, <1>8, <1>9, <1>10 DEF Pausing
<1>12. Hooking
  <2>1. \A l \in returns : Final(l, returns) => \A h \in Workers : HookLast(refunder[h], l, observed, returned)
    BY DEF RefundInv
  <2>2. \A l \in returns : Final(l, returns) => \A h \in Workers : HookLast(refunder[h], l, observed', returned)
    BY <1>8, <2>1 DEF HookLast
  <2>3. refunder \in [Workers -> Refunding] /\ \A h \in Workers : HookOK(refunder[h], returns, returned, linked)
    BY DEF RefundInv, RefundTyped
  <2> QED BY <1>1, <1>8, <2>2, <2>3 DEF Hooking
<1> QED BY <1>11, <1>12, PausingKeeps

(* A handler of a refund.                                                  *)
LEMMA HookMoves ==
  ASSUME ConstantsOK, RefundInv, NEW h \in Workers, NEW q \in Refunding, UNCHANGED told,
         UNCHANGED <<now, returned, returns, bought, linked, pending, mandate, page, wish, observed>>,
         refunder' = [refunder EXCEPT ![h] = q], HookOK(q, returns, returned, linked),
         \A l \in returns : Final(l, returns) => HookLast(q, l, observed, returned)
  PROVE  RefundInv'
<1>1. refunder' \in [Workers -> Refunding] /\ \A x \in Workers : refunder'[x] = IF x = h THEN q ELSE refunder[x]
  BY DEF RefundInv, RefundTyped
<1>2. \A x \in Workers : /\ HookOK(refunder'[x], returns, returned, linked)
                         /\ \A l \in returns : Final(l, returns) => HookLast(refunder'[x], l, observed, returned)
  BY <1>1 DEF RefundInv
<1>3. RefundTyped'
  BY <1>1 DEF RefundInv, RefundTyped, R!Unclaimed
<1> QED BY <1>2, <1>3 DEF RefundInv

LEMMA RefundIdle == R!Idle \in Refunding /\ R!Idle.step = "idle"
BY DEF R!Idle, Refunding

LEMMA HookStep ==
  ASSUME ConstantsOK, RefundInv, NEW h \in Workers, R!Take(h) \/ R!FindOwner(h) \/ R!Fail(h)
  PROVE  RefundInv'
<1>1. /\ UNCHANGED <<now, returned, returns, bought, linked, pending, mandate, page, wish, observed, told>>
      /\ refunder \in [Workers -> Refunding] /\ returned \in Nat /\ told \subseteq returns /\ returns \subseteq Nat
  <2>1. UNCHANGED <<now, returned, returns, bought, linked, pending, mandate, page, wish, observed, told>>
    BY DEF R!Take, R!FindOwner, R!Fail, R!owner, R!purchase
  <2> QED BY <2>1 DEF RefundInv, RefundTyped
<1>2. CASE R!Take(h)
  <2>1. PICK e \in told : refunder' = [refunder EXCEPT ![h] = [step |-> "find", event |-> e, sum |-> returned, found |-> FALSE]]
    BY <1>2 DEF R!Take
  <2> DEFINE q == [step |-> "find", event |-> e, sum |-> returned, found |-> FALSE]
  <2>2. /\ q \in Refunding /\ HookOK(q, returns, returned, linked)
        /\ \A l \in returns : HookLast(q, l, observed, returned)
    BY <1>1 DEF Refunding, HookOK, HookLast
  <2> HIDE DEF q
  <2> QED BY <1>1, <2>1, <2>2, HookMoves DEF q
<1>3. CASE R!FindOwner(h)
  <2> DEFINE q == [refunder[h] EXCEPT !.step = "observe", !.found = settled \/ R!OfCheckout \/ R!OfInvoice]
             yes == settled \/ R!OfCheckout \/ R!OfInvoice
  <2>1. yes \in BOOLEAN /\ (linked => yes)
    BY DEF R!OfCheckout, R!OfInvoice, RefundInv, RefundTyped
  <2>2. refunder' = [refunder EXCEPT ![h] = q] /\ refunder[h].step = "find"
    BY <1>1, <1>3 DEF R!FindOwner
  <2>3. HookOK(refunder[h], returns, returned, linked) /\ \A l \in returns : Final(l, returns) => HookLast(refunder[h], l, observed, returned)
    BY DEF RefundInv
  <2>4. refunder[h] \in Refunding
    BY <1>1
  <2>5. q \in Refunding /\ q.step = "observe" /\ q.found = yes /\ q.event = refunder[h].event /\ q.sum = refunder[h].sum
    BY <2>1, <2>4 DEF Refunding
  <2> HIDE DEF q, yes
  <2>6. HookOK(q, returns, returned, linked) /\ \A l \in returns : Final(l, returns) => HookLast(q, l, observed, returned)
    BY <2>1, <2>2, <2>3, <2>5 DEF HookOK, HookLast
  <2> QED BY <1>1, <2>2, <2>5, <2>6, HookMoves
<1>4. CASE R!Fail(h)
  <2>1. refunder' = [refunder EXCEPT ![h] = R!Idle]
    BY <1>4 DEF R!Fail, R!Rest
  <2>2. HookOK(R!Idle, returns, returned, linked) /\ \A l \in returns : HookLast(R!Idle, l, observed, returned)
    BY RefundIdle DEF HookOK, HookLast
  <2> QED BY <1>1, <2>1, <2>2, RefundIdle, HookMoves
<1> QED BY <1>2, <1>3, <1>4

(* What a handler records: of the last refund, its instant.                *)
LEMMA RecordedKnown ==
  ASSUME ConstantsOK, NEW obs, Known(obs), NEW sum \in Nat, NEW at \in returns, returns \subseteq Nat, returned \in Nat,
         sum <= returned
  PROVE  LET c == R!Recorded(obs, sum, at)
         IN /\ c \in Observation /\ Known(c) /\ (R!Unclaimed(c) \/ c = obs)
            /\ \A l \in returns : Final(l, returns) =>
                 (SeenAt(obs, l) => c.at = l) /\ (at = l /\ sum = returned => c.at = l)
<1>1. \A x \in returns : [sum |-> sum, at |-> x, by |-> FALSE] \in Observation
  BY DEF Observation
<1>2. at \in Nat /\ \A x \in returns : [sum |-> sum, at |-> x, by |-> FALSE] # None
  BY <1>1, RefundConstants
<1>3. CASE obs = None
  BY <1>1, <1>2, <1>3 DEF R!Recorded, Known, R!Unclaimed, SeenAt
<1>4. CASE obs # None
  <2>1. obs \in Observation /\ obs.sum <= returned /\ obs.at \in returns /\ obs.sum \in Nat /\ obs.at \in Nat /\ obs.by \in BOOLEAN
    BY <1>4 DEF Known, Observation
  <2>2. CASE R!Newer(obs, sum, at)
    <3> DEFINE x == IF obs.at < at THEN at ELSE obs.at
               c == [sum |-> sum, at |-> x, by |-> FALSE]
    <3>1. R!Recorded(obs, sum, at) = c
      BY <1>4, <2>2 DEF R!Recorded
    <3>2. x \in returns /\ at <= x /\ obs.at <= x /\ x \in {at, obs.at}
      BY <1>2, <2>1
    <3>3. c.sum = sum /\ c.at = x /\ c.by = FALSE /\ c \in Observation /\ c # None
      BY <1>1, <1>2, <3>2
    <3>4. \A l \in returns : Final(l, returns) => (at = l => x = l) /\ (obs.at = l => x = l)
      BY <1>2, <2>1, <3>2 DEF Final
    <3> HIDE DEF x, c
    <3>5. Known(c) /\ R!Unclaimed(c)
      BY <3>2, <3>3 DEF Known, R!Unclaimed
    <3> QED BY <3>1, <3>2, <3>3, <3>4, <3>5 DEF SeenAt
  <2>3. CASE ~R!Newer(obs, sum, at)
    <3>1. R!Recorded(obs, sum, at) = obs
      BY <1>4, <2>3 DEF R!Recorded
    <3>2. sum <= obs.sum /\ (sum = obs.sum => at <= obs.at)
      BY <1>2, <2>1, <2>3 DEF R!Newer
    <3> QED BY <1>2, <1>4, <2>1, <3>1, <3>2 DEF SeenAt, Final
  <2> QED BY <2>2, <2>3
<1> QED BY <1>3, <1>4

LEMMA RefundedStep == ASSUME ConstantsOK, RefundInv, NEW h \in Workers, R!PauseRefunded(h) PROVE RefundInv'
<1> DEFINE at == refunder[h].event
           c == R!Recorded(observed, refunder[h].sum, at)
           early == IF at < c.at THEN R!Pause(mandate, at, FALSE) ELSE mandate
<1>1. /\ UNCHANGED <<now, bought, linked, returned, returns, page, wish, told, pending>>
      /\ refunder' = [refunder EXCEPT ![h].step = "reverse"] /\ refunder[h].step = "observe"
  BY DEF R!PauseRefunded, R!owner, R!purchase, R!Go
<1>2. /\ refunder[h] \in Refunding /\ refunder \in [Workers -> Refunding] /\ mandate \in Mandate /\ returns \in SUBSET Nat
      /\ now \in Nat /\ returned \in Nat /\ Known(observed) /\ (pending # None => pending \in returns)
      /\ OwnerOK(mandate, page, wish, returns, now)
  BY DEF RefundInv, RefundTyped, OwnerOK, Known
<1>3. /\ \A x \in Workers : HookOK(refunder[x], returns, returned, linked)
      /\ \A l \in returns : Final(l, returns) =>
           /\ ObservedOK(observed, mandate, page, l)
           /\ \A x \in Workers : HookLast(refunder[x], l, observed, returned)
  BY DEF RefundInv
<1>4. at \in returns /\ refunder[h].sum <= returned /\ refunder[h].sum \in Nat /\ (linked => refunder[h].found)
  BY <1>1, <1>2, <1>3 DEF HookOK, Refunding
<1>5. /\ c \in Observation /\ Known(c) /\ (R!Unclaimed(c) \/ c = observed)
      /\ \A l \in returns : Final(l, returns) =>
           (SeenAt(observed, l) => c.at = l) /\ (at = l /\ refunder[h].sum = returned => c.at = l)
  <2> DEFINE sum == refunder[h].sum
  <2>1. returns \subseteq Nat /\ returned \in Nat /\ at \in returns /\ sum \in Nat /\ sum <= returned /\ Known(observed)
    BY <1>2, <1>4
  <2> HIDE DEF at, sum
  <2> QED BY <2>1, RecordedKnown DEF sum
<1>6. Pulled(mandate, mandate, returns) /\ Pulled(mandate, early, returns)
  <2>1. Pulled(mandate, mandate, returns)
    BY <1>2 DEF Pulled, Mandate
  <2>2. Pulled(mandate, R!Pause(mandate, at, FALSE), returns)
    BY <1>2, <1>4, PausePulls
  <2> QED BY <2>1, <2>2
<1>7. \/ refunder[h].found /\ observed' = R!Claimed(c) /\ mandate' = R!PulledBy(early, c)
      \/ ~refunder[h].found /\ observed' = c /\ mandate' = mandate
  BY DEF R!PauseRefunded, R!Observe
<1> HIDE DEF c, early
<1>8. ASSUME NEW l \in returns, Final(l, returns), NEW o, Pulled(mandate, o, returns)
      PROVE  ObservedOK(c, o, page, l)
  <2>1. CASE R!Unclaimed(c)
    BY <2>1 DEF ObservedOK, R!Unclaimed
  <2>2. CASE c = observed
    <3>1. ObservedOK(observed, mandate, page, l)
      BY <1>3, <1>8
    <3>2. l \in Nat /\ (Lagging(o, page, l) => Lagging(mandate, page, l))
      BY <1>2, <1>8, PulledOwner
    <3> QED BY <2>2, <3>1, <3>2 DEF ObservedOK
  <2> QED BY <1>5, <2>1, <2>2
<1>9. Known(observed') /\ (linked => ~R!Unclaimed(observed')) /\ \A l \in returns : c.at = l => SeenAt(observed', l)
  <2>1. c # None /\ \A l \in returns : c.at = l => SeenAt(c, l)
    BY <1>5, RefundConstants DEF SeenAt
  <2> QED BY <1>4, <1>5, <1>7, <2>1, ClaimedKnown
<1>10. Pulled(mandate, mandate', returns) /\ \A l \in returns : Final(l, returns) => ObservedOK(observed', mandate', page, l)
  <2>1. CASE refunder[h].found
    <3>1. early \in Mandate /\ OwnerOK(early, page, wish, returns, now)
      BY <1>2, <1>6, PulledOwner DEF Pulled
    <3>2. Pulled(mandate, R!PulledBy(early, c), returns)
      BY <1>2, <1>5, <1>6, <3>1, PulledByPulls, PullsCompose DEF Known
    <3>3. \A l \in returns : Final(l, returns) => ObservedOK(R!Claimed(c), R!PulledBy(early, c), page, l)
      BY <1>2, <1>5, <1>6, <1>8, <3>1, ClaimCatches DEF Known
    <3> QED BY <1>7, <2>1, <3>2, <3>3
  <2>2. CASE ~refunder[h].found
    BY <1>6, <1>7, <1>8, <2>2
  <2> QED BY <2>1, <2>2
<1>11. Pausing
  BY <1>1, <1>2, <1>9, <1>10 DEF Pausing
<1>12. Hooking
  <2> DEFINE q == refunder'[h]
  <2>1. /\ refunder' \in [Workers -> Refunding] /\ \A x \in Workers \ {h} : refunder'[x] = refunder[x]
        /\ q.event = at /\ q.sum = refunder[h].sum /\ q.step = "reverse"
    BY <1>1, <1>2 DEF Refunding
  <2>2. \A l \in returns : Final(l, returns) /\ SeenAt(observed, l) => SeenAt(observed', l)
    BY <1>5, <1>9
  <2> HIDE DEF at
  <2>3. HookOK(q, returns, returned, linked)
    BY <1>4, <2>1 DEF HookOK
  <2>4. ASSUME NEW l \in returns, Final(l, returns) PROVE HookLast(q, l, observed', returned)
    <3>1. at = l => refunder[h].sum = returned
      BY <1>1, <1>3, <2>4 DEF HookLast, at
    <3> QED BY <1>5, <1>9, <2>1, <2>4, <3>1 DEF HookLast
  <2>5. ASSUME NEW l \in returns, Final(l, returns), NEW x \in Workers \ {h} PROVE HookLast(refunder'[x], l, observed', returned)
    BY <1>3, <2>1, <2>2, <2>5 DEF HookLast
  <2> HIDE DEF q
  <2> QED BY <1>1, <1>3, <2>1, <2>2, <2>3, <2>4, <2>5 DEF Hooking, q
<1> QED BY <1>11, <1>12, PausingKeeps

LEMMA ReverseStep == ASSUME ConstantsOK, RefundInv, NEW h \in Workers, R!Reverse(h) PROVE RefundInv'
<1> DEFINE at == refunder[h].event
<1>1. /\ UNCHANGED <<now, bought, linked, returned, returns, page, wish, observed>>
      /\ refunder' = [refunder EXCEPT ![h] = R!Idle] /\ refunder[h].step = "reverse" /\ told' = told \ {at}
      /\ pending' \in {pending, at} /\ mandate' \in {mandate, R!Pause(mandate, at, TRUE)}
  BY DEF R!Reverse, R!owner, R!Rest
<1>2. /\ refunder[h] \in Refunding /\ refunder \in [Workers -> Refunding] /\ mandate \in Mandate /\ returns \in SUBSET Nat
      /\ now \in Nat /\ returned \in Nat /\ Known(observed) /\ (pending # None => pending \in returns) /\ (linked => ~R!Unclaimed(observed))
      /\ OwnerOK(mandate, page, wish, returns, now)
  BY DEF RefundInv, RefundTyped, OwnerOK, Known
<1>3. /\ \A x \in Workers : HookOK(refunder[x], returns, returned, linked)
      /\ \A l \in returns : Final(l, returns) =>
           /\ ObservedOK(observed, mandate, page, l)
           /\ \A x \in Workers : HookLast(refunder[x], l, observed, returned)
  BY DEF RefundInv
<1>4. at \in returns
  BY <1>1, <1>3 DEF HookOK
<1>5. Pulled(mandate, mandate', returns)
  <2>1. Pulled(mandate, mandate, returns)
    BY <1>2 DEF Pulled, Mandate
  <2>2. Pulled(mandate, R!Pause(mandate, at, TRUE), returns)
    BY <1>2, <1>4, PausePulls
  <2> QED BY <1>1, <2>1, <2>2
<1>6. ASSUME NEW l \in returns, Final(l, returns) PROVE ObservedOK(observed', mandate', page, l)
  <2>1. ObservedOK(observed, mandate, page, l)
    BY <1>3, <1>6
  <2>2. l \in Nat /\ (Lagging(mandate', page, l) => Lagging(mandate, page, l))
    BY <1>2, <1>5, PulledOwner
  <2> QED BY <1>1, <2>1, <2>2 DEF ObservedOK
<1>7. Pausing
  BY <1>1, <1>2, <1>4, <1>5, <1>6 DEF Pausing
<1>8. Hooking
  <2>1. /\ refunder' \in [Workers -> Refunding] /\ \A x \in Workers : refunder'[x] = IF x = h THEN R!Idle ELSE refunder[x]
    BY <1>1, <1>2, RefundIdle
  <2>2. \A x \in Workers : HookOK(refunder'[x], returns, returned, linked)
    BY <1>3, <2>1, RefundIdle DEF HookOK
  <2>3. ASSUME NEW l \in returns, Final(l, returns), NEW x \in Workers PROVE HookLast(refunder'[x], l, observed', returned)
    BY <1>1, <1>3, <2>1, <2>3, RefundIdle DEF HookLast
  <2>4. ASSUME NEW l \in returns, Final(l, returns), l \in told PROVE l \in told' \/ SeenAt(observed, l)
    BY <1>1, <1>3, <2>4 DEF HookLast
  <2> QED BY <1>1, <2>1, <2>2, <2>3, <2>4 DEF Hooking
<1> QED BY <1>7, <1>8, PausingKeeps

(* The owner's form.                                                       *)
LEMMA OwnerKeeps ==
  ASSUME ConstantsOK, RefundInv, UNCHANGED <<returned, returns, told, refunder, pending, observed, bought, linked>>,
         now' \in Nat, now <= now', OwnerOK(mandate', page', wish', returns, now'),
         \A l \in returns : l <= now => (Lagging(mandate', page', l) => Lagging(mandate, page, l))
  PROVE  RefundInv'
<1>1. returns \subseteq 0..now /\ now \in Nat
  BY DEF RefundInv, RefundTyped
<1>2. returns \subseteq 0..now' /\ \A l \in returns : Lagging(mandate', page', l) => Lagging(mandate, page, l)
  BY <1>1
<1>3. RefundTyped'
  BY <1>2 DEF RefundInv, RefundTyped, R!Unclaimed
<1>4. \A l \in returns : Final(l, returns) => ObservedOK(observed, mandate', page', l)
  BY <1>2 DEF RefundInv, ObservedOK
<1> QED BY <1>3, <1>4 DEF RefundInv

LEMMA OwnerStep ==
  ASSUME ConstantsOK, RefundInv, R!LoadPage \/ R!Submit \/ R!WriteForm \/ R!Disable
  PROVE  RefundInv'
<1>1. /\ now \in Nat /\ returns \subseteq 0..now /\ OwnerOK(mandate, page, wish, returns, now)
      /\ mandate \in Mandate /\ page \in Page /\ wish \in Wish
  BY DEF RefundInv, RefundTyped, OwnerOK
<1>2. /\ mandate.consent \in Nat /\ mandate.version \in Nat /\ mandate.enabled \in BOOLEAN
      /\ page.version \in Nat /\ page.read \in Nat /\ page.consent \in Nat /\ page.enabled \in BOOLEAN
  BY <1>1 DEF Mandate, Page
<1>3. CASE R!LoadPage
  <2>1. /\ UNCHANGED <<now, mandate, wish, returned, returns, told, refunder, pending, observed, bought, linked>>
        /\ page' = [page EXCEPT !.step = "shown", !.version = mandate.version]
    BY <1>3 DEF R!LoadPage, R!purchase
  <2>2. page' \in Page /\ page'.step = "shown" /\ page'.version = mandate.version
    BY <1>1, <1>2, <2>1 DEF Page
  <2>3. OwnerOK(mandate', page', wish', returns, now')
    BY <1>1, <1>2, <2>1, <2>2 DEF OwnerOK
  <2>4. \A l \in returns : Lagging(mandate', page', l) => Lagging(mandate, page, l)
    BY <2>1, <2>2 DEF Lagging
  <2> QED BY <1>1, <2>1, <2>3, <2>4, OwnerKeeps
<1>4. CASE R!Submit
  <2>1. PICK date \in {now'} \cup IF mandate.enabled THEN {mandate.consent} ELSE {} :
        /\ UNCHANGED <<mandate, wish, returned, returns, told, refunder, pending, observed, bought, linked>>
        /\ now' = now + 1 /\ page.step = "shown"
        /\ \/ page' = R!Closed
           \/ /\ ~R!Stale
              /\ page' = [page EXCEPT !.step = "write", !.read = mandate.version, !.enabled = mandate.enabled, !.consent = date]
    BY <1>4 DEF R!Submit, R!purchase, R!Later
  <2>2. CASE page' = R!Closed
    <3>1. page' \in Page /\ page'.step = "closed"
      BY <2>2 DEF R!Closed, Page
    <3>2. OwnerOK(mandate', page', wish', returns, now')
      BY <1>1, <1>2, <2>1, <3>1 DEF OwnerOK
    <3>3. \A l \in returns : Lagging(mandate', page', l) => Lagging(mandate, page, l)
      BY <2>1, <3>1 DEF Lagging
    <3> QED BY <1>1, <2>1, <3>2, <3>3, OwnerKeeps
  <2>3. CASE page' # R!Closed
    <3>1. mandate.version = page.version
      BY <1>1, <1>2, <2>1, <2>3 DEF R!Stale, OwnerOK
    <3>2. /\ date \in Nat /\ now' \in Nat /\ mandate.consent <= date /\ date <= now'
          /\ date = now' \/ mandate.enabled
      BY <1>1, <1>2, <2>1 DEF OwnerOK
    <3>3. /\ page' \in Page /\ page'.step = "write" /\ page'.version = page.version /\ page'.read = mandate.version
          /\ page'.enabled = mandate.enabled /\ page'.consent = date
      BY <1>1, <1>2, <2>1, <2>3, <3>2 DEF Page
    <3>4. OwnerOK(mandate', page', wish', returns, now')
      BY <1>1, <1>2, <2>1, <3>1, <3>2, <3>3 DEF OwnerOK
    <3>5. \A l \in returns : l <= now => (Lagging(mandate', page', l) => Lagging(mandate, page, l))
      BY <1>1, <1>2, <2>1, <3>2, <3>3 DEF Lagging
    <3> QED BY <1>1, <2>1, <3>4, <3>5, OwnerKeeps
  <2> QED BY <2>2, <2>3
<1>5. CASE R!WriteForm
  <2>1. /\ UNCHANGED <<now, returned, returns, told, refunder, pending, observed, bought, linked>>
        /\ page.step = "write" /\ page' = R!Closed
        /\ \/ UNCHANGED <<mandate, wish>>
           \/ /\ mandate.enabled = page.enabled /\ mandate.version = page.read
              /\ mandate' = [mandate EXCEPT !.enabled = TRUE, !.consent = page.consent]
              /\ wish' = [on |-> TRUE, at |-> page.consent, seen |-> page.version]
    BY <1>5 DEF R!WriteForm, R!purchase, R!Unchanged
  <2>2. page' \in Page /\ page'.step = "closed"
    BY <2>1 DEF R!Closed, Page
  <2>3. CASE UNCHANGED <<mandate, wish>>
    <3>1. OwnerOK(mandate', page', wish', returns, now')
      BY <1>1, <1>2, <2>1, <2>2, <2>3 DEF OwnerOK
    <3>2. \A l \in returns : Lagging(mandate', page', l) => Lagging(mandate, page, l)
      BY <2>2, <2>3 DEF Lagging
    <3> QED BY <1>1, <2>1, <3>1, <3>2, OwnerKeeps
  <2>4. CASE ~UNCHANGED <<mandate, wish>>
    <3>1. /\ page.read = page.version /\ mandate.consent <= page.consent /\ page.consent <= now
      BY <1>1, <2>1 DEF OwnerOK
    <3>2. /\ mandate.enabled = page.enabled /\ mandate.version = page.read
          /\ mandate' = [mandate EXCEPT !.enabled = TRUE, !.consent = page.consent]
          /\ wish' = [on |-> TRUE, at |-> page.consent, seen |-> page.version]
      BY <2>1, <2>4
    <3>3. /\ mandate' \in Mandate /\ mandate'.enabled /\ mandate'.version = mandate.version /\ mandate'.consent = page.consent
          /\ wish' \in Wish /\ wish'.on /\ wish'.at = page.consent /\ wish'.seen = page.version
      BY <1>1, <1>2, <3>1, <3>2 DEF Mandate, Wish
    <3>4. OwnerOK(mandate', page', wish', returns, now')
      BY <1>1, <1>2, <2>1, <2>2, <3>1, <3>2, <3>3 DEF OwnerOK
    <3>5. \A l \in returns : Lagging(mandate', page', l) => Lagging(mandate, page, l)
      BY <1>1, <1>2, <2>1, <2>2, <3>1, <3>2, <3>3 DEF Lagging
    <3> QED BY <1>1, <2>1, <3>4, <3>5, OwnerKeeps
  <2> QED BY <2>3, <2>4
<1>6. CASE R!Disable
  <2>1. /\ UNCHANGED <<now, page, returned, returns, told, refunder, pending, observed, bought, linked>> /\ mandate.enabled
        /\ mandate' = [mandate EXCEPT !.enabled = FALSE] /\ wish' = [wish EXCEPT !.on = FALSE]
    BY <1>6 DEF R!Disable, R!purchase
  <2>2. /\ mandate' \in Mandate /\ ~mandate'.enabled /\ mandate'.version = mandate.version /\ mandate'.consent = mandate.consent
        /\ wish' \in Wish /\ ~wish'.on /\ wish'.at = wish.at
    BY <1>1, <2>1 DEF Mandate, Wish
  <2>3. OwnerOK(mandate', page', wish', returns, now')
    BY <1>1, <1>2, <2>1, <2>2 DEF OwnerOK
  <2>4. \A l \in returns : Lagging(mandate', page', l) => Lagging(mandate, page, l)
    BY <2>1, <2>2 DEF Lagging
  <2>5. now' \in Nat /\ now <= now'
    BY <1>1, <2>1
  <2> QED BY <2>1, <2>3, <2>4, <2>5, OwnerKeeps
<1> QED BY <1>3, <1>4, <1>5, <1>6

(* A refund: nothing knows of it yet.                                      *)
LEMMA RefundStep == ASSUME ConstantsOK, RefundInv, R!Refund PROVE RefundInv'
<1>1. /\ UNCHANGED <<mandate, page, wish, refunder, pending, observed, bought, linked>> /\ now' = now + 1
      /\ returns' = returns \cup {now'} /\ told' = told \cup {now'}
      /\ \E sum \in (returned + 1)..Parts : returned' = sum
  BY DEF R!Refund, R!owner, R!purchase, R!Later
<1>2. /\ now \in Nat /\ returned \in Nat /\ returns \subseteq 0..now /\ told \subseteq returns
      /\ OwnerOK(mandate, page, wish, returns, now) /\ mandate.consent \in Nat /\ page.consent \in Nat /\ mandate.enabled \in BOOLEAN
      /\ refunder \in [Workers -> Refunding] /\ \A h \in Workers : HookOK(refunder[h], returns, returned, linked)
  BY DEF RefundInv, RefundTyped, OwnerOK, Mandate, Page
<1>3. /\ now' \in Nat /\ now < now' /\ returns' \subseteq 0..now' /\ told' \subseteq returns' /\ returns \subseteq returns'
      /\ returned' \in Nat /\ returned <= returned' /\ now' \notin returns
  BY <1>1, <1>2, RefundConstants
<1>4. RefundTyped'
  <2>1. observed # None => observed.sum <= returned' /\ observed.at \in returns'
    BY <1>2, <1>3 DEF RefundInv, RefundTyped, Observation
  <2> QED BY <1>1, <1>3, <2>1 DEF RefundInv, RefundTyped, R!Unclaimed
<1>5. OwnerOK(mandate, page, wish, returns', now')
  BY <1>2, <1>3 DEF OwnerOK
<1>6. Final(now', returns') /\ \A l \in returns' : Final(l, returns') => l = now'
  BY <1>1, <1>2, <1>3 DEF Final
<1>7. \A h \in Workers : HookOK(refunder[h], returns', returned', linked) /\ HookLast(refunder[h], now', observed, returned')
  <2> SUFFICES ASSUME NEW h \in Workers
               PROVE HookOK(refunder[h], returns', returned', linked) /\ HookLast(refunder[h], now', observed, returned')
    OBVIOUS
  <2>1. refunder[h].sum \in Nat /\ HookOK(refunder[h], returns, returned, linked)
    BY <1>2 DEF Refunding
  <2>2. refunder[h].sum <= returned => refunder[h].sum <= returned'
    BY <1>2, <1>3, <2>1
  <2>3. HookOK(refunder[h], returns', returned', linked)
    BY <1>3, <2>1, <2>2 DEF HookOK
  <2>4. HookLast(refunder[h], now', observed, returned')
    BY <1>3, <2>1 DEF HookOK, HookLast
  <2> QED BY <2>3, <2>4
<1>8. ~SeenAt(observed, now')
  BY <1>3 DEF RefundInv, RefundTyped, SeenAt
<1> QED BY <1>1, <1>4, <1>5, <1>6, <1>7, <1>8 DEF RefundInv, ObservedOK

LEMMA RefundInvariance == Spec => []RefundInv
<1> USE ConstantsOK
<1>1. Init => RefundInv
  <2> SUFFICES ASSUME Init PROVE RefundInv
    OBVIOUS
  <2>1. /\ now = 1 /\ bought \in {"credits", "period"} /\ returned = 0 /\ returns = {} /\ told = {} /\ observed = None /\ pending = None
        /\ mandate = [enabled |-> TRUE, consent |-> 1, version |-> 0] /\ refunder = [h \in Workers |-> R!Idle]
        /\ page = R!Closed /\ wish = [on |-> TRUE, at |-> 1, seen |-> 0]
    BY DEF Init, R!Init
  <2>2. RefundTyped
    BY <2>1, RefundIdle DEF RefundTyped, R!Unclaimed
  <2>3. OwnerOK(mandate, page, wish, returns, now)
    BY <2>1 DEF OwnerOK, Mandate, Page, Wish, R!Closed
  <2>4. \A h \in Workers : HookOK(refunder[h], returns, returned, linked)
    BY <2>1, RefundIdle DEF HookOK
  <2> QED BY <2>1, <2>2, <2>3, <2>4 DEF RefundInv
<1>2. ASSUME RefundInv, [Next]_vars PROVE RefundInv'
  <2>1. ASSUME UNCHANGED pauses PROVE RefundInv'
    BY <1>2, <2>1 DEF RefundInv, RefundTyped, R!Unclaimed, pauses
  <2>2. ASSUME Revoke PROVE RefundInv'
    <3>1. R!Next
      BY <2>2 DEF Revoke
    <3> QED BY <1>2, <3>1, RefundStep, GrantStep, HookStep, RefundedStep, ReverseStep, OwnerStep DEF R!Next
  <2> QED BY <1>2, <2>1, <2>2, RevokeOrRest
<1> QED BY <1>1, <1>2, PTL DEF Spec

(* Whatever order events, grants and forms come in: once every refund was  *)
(* heard of, top-up is enabled exactly if the owner last wished it and no  *)
(* refund came after that consent; and whoever enabled it was shown the    *)
(* last pause (pauseForObservedStripeRefund, applyAutoTopupEnable).        *)
THEOREM SpecImpliesMandateKept == Spec => []MandateKept
<1>1. ASSUME ConstantsOK, RefundInv PROVE MandateKept
  <2>1. /\ OwnerOK(mandate, page, wish, returns, now) /\ mandate.consent \in Nat /\ wish.at = mandate.consent
        /\ mandate.enabled \in BOOLEAN /\ wish.on \in BOOLEAN /\ returns \subseteq Nat
    BY <1>1 DEF RefundInv, RefundTyped, OwnerOK, Mandate, Wish
  <2>2. mandate.enabled => wish.on /\ wish.seen = mandate.version
    BY <2>1 DEF OwnerOK
  <2>3. ASSUME R!Heard, R!Known, mandate.enabled, NEW r \in returns PROVE r < wish.at
    <3>1. PICK l \in returns : Final(l, returns)
      BY <1>1, <2>3 DEF RefundInv
    <3>2. SeenAt(observed, l) /\ ObservedOK(observed, mandate, page, l)
      BY <1>1, <2>3, <3>1 DEF RefundInv, R!Heard
    <3>3. ~R!Unclaimed(observed)
      BY <1>1, <2>3 DEF RefundInv, RefundTyped, R!Known
    <3>4. ~Lagging(mandate, page, l)
      BY <3>2, <3>3 DEF ObservedOK, SeenAt, R!Unclaimed
    <3> QED BY <2>1, <2>3, <3>1, <3>4 DEF Lagging, Final
  <2>4. ASSUME wish.on, \A r \in returns : r < wish.at PROVE mandate.enabled
    BY <2>1, <2>4 DEF OwnerOK
  <2> QED BY <2>2, <2>3, <2>4 DEF MandateKept, R!MandateKept
<1> QED BY <1>1, RefundInvariance, ConstantsOK, PTL

-----------------------------------------------------------------------------
(* Cards.  The copy is the default or the subscription's card, or someone  *)
(* carries it there: the event of the default's last change, of second d,  *)
(* or the end of a hosted checkout.                                        *)
Charge == BankCards \cup {None}
Notice == [kind : {"updated", "detached", "checkout", "hosted", "subscription"}, card : Charge, second : Nat]
Reading == {"apply", "fetch", "reconcile"}
Storing == {"prior", "off", "store"}
Handling == [at : {"idle", "clear", "card"} \cup Reading \cup Storing, event : Notice \cup {None}, read : Charge, value : Charge]

NoticeOK(e, t, d, purse, sub) ==
  /\ e \in Notice /\ e.second <= t
  /\ e.kind = "updated" => e.second <= d
  /\ e.kind \in {"detached", "checkout"} => e.card # None
  /\ e.kind = "detached" => e.card \notin purse
  /\ e.kind \in {"hosted", "subscription"} => e.card = sub /\ sub # None
HandlingOK(q, t, d, purse, sub) ==
  /\ q.at # "idle" => NoticeOK(q.event, t, d, purse, sub)
  /\ q.at \in Storing => q.event.kind = "checkout"
  /\ q.at \in Reading => q.event.kind = "updated"
  /\ q.at = "clear" => q.event.kind = "detached"
  /\ q.at = "card" => q.event.kind \in {"hosted", "subscription"}
  /\ q.at = "apply" => q.value = q.event.card

Mark(def, d) == [kind |-> "updated", card |-> def, second |-> d]
Carries(q, def, d) == q.event = Mark(def, d) /\ q.at \in Reading /\ (q.at = "reconcile" => q.value = def)
Carried(ev, hd, def, d) == Mark(def, d) \in ev \/ \E h \in Workers : Carries(hd[h], def, d)
Hosts(q) == q.at = "card" /\ q.event.kind = "hosted"
Hosted(ev, hd) == (\E e \in ev : e.kind = "hosted") \/ \E h \in Workers : Hosts(hd[h])
Misleads(q, def, d) ==     \* would store something else than the default
  \/ q.at \in Storing /\ q.event.card # def
  \/ q.at = "apply" /\ q.event.second = d /\ q.value # def
  \/ q.at = "reconcile" /\ q.value # def
CopyOK(ev, hd, def, sub, ptr, cur, d) ==
  /\ cur < d => Carried(ev, hd, def, d)
  /\ \A h \in Workers : Misleads(hd[h], def, d) => Carried(ev, hd, def, d)
  /\ ptr \notin {def, sub} => Carried(ev, hd, def, d) \/ Hosted(ev, hd)
  /\ \A h \in Workers : hd[h].at \in Reading => hd[h].read = ptr

ConsentOK(hd, on, ptr, given, late) ==
  on /\ ~late => /\ given \in {None, ptr}
                 /\ \A h \in Workers : hd[h].at = "store" => ptr \in {None, hd[h].event.card}

CardTyped ==
  /\ second \in Nat /\ wallet \subseteq BankCards /\ default \in wallet \cup {None} /\ subscribed \in wallet \cup {None}
  /\ pointer \in Charge /\ cursor \in Nat /\ enabled \in BOOLEAN /\ consented \in Charge
  /\ handler \in [Workers -> Handling] /\ overtaken \in BOOLEAN /\ raced \in BOOLEAN
  /\ form \in {"none", "on", "off"}
DatesOK(d) ==
  /\ cursor <= d /\ d <= second
  /\ \A e \in events : NoticeOK(e, second, d, wallet, subscribed)
  /\ \A h \in Workers : HandlingOK(handler[h], second, d, wallet, subscribed)
CardInv ==
  /\ CardTyped /\ ConsentOK(handler, enabled, pointer, consented, overtaken)
  /\ \E d \in Nat : DatesOK(d) /\ (raced \/ CopyOK(events, handler, default, subscribed, pointer, cursor, d))

LEMMA CardConstants == ConstantsOK => None \notin BankCards
BY DEF ConstantsOK, C!ConstantsOK

LEMMA RestingHandler == C!Idle \in Handling /\ C!Idle.at = "idle"
BY DEF C!Idle, Handling, Charge

LEMMA NoticeStays ==
  ASSUME NEW e, NEW t \in Nat, NEW d \in Nat, NEW purse, NEW sub, NoticeOK(e, t, d, purse, sub),
         NEW u \in Nat, NEW f \in Nat, NEW rest, NEW own, t <= u, d <= f, rest \subseteq purse, own = sub \/ sub = None
  PROVE  NoticeOK(e, u, f, rest, own)
BY DEF NoticeOK, Notice

LEMMA HandlingStays ==
  ASSUME NEW q, NEW t \in Nat, NEW d \in Nat, NEW purse, NEW sub, HandlingOK(q, t, d, purse, sub),
         NEW u \in Nat, NEW f \in Nat, NEW rest, NEW own, t <= u, d <= f, rest \subseteq purse, own = sub \/ sub = None
  PROVE  HandlingOK(q, u, f, rest, own)
BY NoticeStays DEF HandlingOK

LEMMA CarriedStays ==
  ASSUME NEW hd \in [Workers -> Handling], NEW h \in Workers, NEW q \in Handling, NEW ev, NEW ev2, NEW def, NEW d,
         Carried(ev, hd, def, d),
         Mark(def, d) \in ev \/ Carries(hd[h], def, d) => Mark(def, d) \in ev2 \/ Carries(q, def, d)
  PROVE  Carried(ev2, [hd EXCEPT ![h] = q], def, d)
BY DEF Carried

(* What happens at Stripe, the default aside.                              *)
LEMMA StripeKeeps ==
  ASSUME ConstantsOK, CardInv, UNCHANGED <<default, handler, pointer, cursor, raced>>,
         ConsentOK(handler, enabled, pointer, consented, overtaken)', CardTyped',
         second <= second', wallet' \subseteq wallet, events \subseteq events',
         \A e \in events' \ events : e.kind # "updated" /\ \A d \in Nat : NoticeOK(e, second', d, wallet', subscribed'),
         subscribed' = subscribed \/ (subscribed = None /\ \E e \in events' : e.kind = "hosted")
  PROVE  CardInv'
<1>1. PICK d \in Nat : DatesOK(d) /\ (raced \/ CopyOK(events, handler, default, subscribed, pointer, cursor, d))
  BY DEF CardInv
<1>2. second \in Nat /\ second' \in Nat /\ cursor \in Nat
  BY DEF CardInv, CardTyped
<1>3. DatesOK(d)'
  <2>1. \A e \in events' : NoticeOK(e, second', d, wallet', subscribed')
    BY <1>1, <1>2, NoticeStays DEF DatesOK
  <2>2. \A h \in Workers : HandlingOK(handler[h], second', d, wallet', subscribed')
    BY <1>1, <1>2, HandlingStays DEF DatesOK
  <2>3. cursor <= d /\ d <= second'
    BY <1>1, <1>2 DEF DatesOK
  <2> QED BY <2>1, <2>2, <2>3 DEF DatesOK
<1>4. raced \/ CopyOK(events', handler, default, subscribed', pointer, cursor, d)
  <2>1. Carried(events, handler, default, d) => Carried(events', handler, default, d)
    BY DEF Carried
  <2>2. Hosted(events, handler) => Hosted(events', handler)
    BY DEF Hosted
  <2>3. subscribed' # subscribed => Hosted(events', handler)
    BY DEF Hosted
  <2> QED BY <1>1, <2>1, <2>2, <2>3 DEF CopyOK
<1>5. CopyOK(events, handler, default, subscribed, pointer, cursor, d)' <=> CopyOK(events', handler, default, subscribed', pointer, cursor, d)
  BY DEF CopyOK, Carried, Hosted
<1> QED BY <1>1, <1>3, <1>4, <1>5 DEF CardInv

(* The default changes: an event of now carries it.                        *)
LEMMA DefaultKeeps ==
  ASSUME ConstantsOK, CardInv, CardTyped', ConsentOK(handler, enabled, pointer, consented, overtaken)',
         UNCHANGED <<second, subscribed, pointer, cursor, raced>>, wallet' \subseteq wallet,
         Mark(default', second) \in events',
         \A e \in events' \ events : NoticeOK(e, second, second, wallet', subscribed),
         \A h \in Workers : handler'[h] = handler[h] \/ (handler'[h].at \in Storing /\ HandlingOK(handler'[h], second, second, wallet', subscribed))
  PROVE  CardInv'
<1>1. PICK d \in Nat : DatesOK(d) /\ (raced \/ CopyOK(events, handler, default, subscribed, pointer, cursor, d))
  BY DEF CardInv
<1>2. second \in Nat /\ cursor \in Nat /\ cursor <= second /\ d <= second
  BY <1>1 DEF CardInv, CardTyped, DatesOK
<1>3. \A e \in events' : NoticeOK(e, second, second, wallet', subscribed)
  BY <1>1, <1>2, NoticeStays DEF DatesOK
<1>4. \A h \in Workers : HandlingOK(handler'[h], second, second, wallet', subscribed)
  BY <1>1, <1>2, HandlingStays DEF DatesOK
<1>5. DatesOK(second)'
  BY <1>2, <1>3, <1>4 DEF DatesOK
<1>6. raced \/ \A h \in Workers : handler'[h].at \in Reading => handler'[h].read = pointer
  BY <1>1 DEF CopyOK, Reading, Storing
<1>7. raced \/ CopyOK(events', handler', default', subscribed, pointer, cursor, second)
  BY <1>6 DEF CopyOK, Carried
<1>8. CopyOK(events', handler', default', subscribed, pointer, cursor, second) => CopyOK(events, handler, default, subscribed, pointer, cursor, second)'
  BY DEF CopyOK, Carried, Hosted
<1> QED BY <1>2, <1>5, <1>7, <1>8 DEF CardInv

(* A handler goes on, and writes nothing of the row but the switch.        *)
LEMMA TurnKeeps ==
  ASSUME ConstantsOK, CardInv, NEW h \in Workers, NEW q \in Handling, NEW d \in Nat, DatesOK(d),
         raced \/ CopyOK(events, handler, default, subscribed, pointer, cursor, d),
         UNCHANGED <<second, wallet, default, subscribed, pointer, cursor, raced, form>>, enabled' \in BOOLEAN,
         UNCHANGED <<consented, overtaken>>, handler' = [handler EXCEPT ![h] = q],
         enabled' => enabled, q.at = "store" /\ enabled' => pointer \in {None, q.event.card},
         HandlingOK(q, second, d, wallet, subscribed), \A e \in events' \ events : NoticeOK(e, second, d, wallet, subscribed),
         Mark(default, d) \in events \/ Carries(handler[h], default, d) => Mark(default, d) \in events' \/ Carries(q, default, d),
         \A e \in events : e.kind = "hosted" => e \in events' \/ Hosts(q),
         Hosts(handler[h]) => Hosts(q) \/ \E e \in events' : e.kind = "hosted",
         Misleads(q, default, d) => Misleads(handler[h], default, d) \/ cursor < d \/ Carried(events, handler, default, d),
         q.at \in Reading => q.read = pointer \/ (handler[h].at \in Reading /\ q.read = handler[h].read)
  PROVE  CardInv'
<1>1. /\ handler \in [Workers -> Handling] /\ handler' \in [Workers -> Handling]
      /\ \A x \in Workers : handler'[x] = IF x = h THEN q ELSE handler[x]
  BY DEF CardInv, CardTyped
<1>2. CardTyped'
  BY <1>1 DEF CardInv, CardTyped
<1>3. ConsentOK(handler', enabled', pointer, consented, overtaken)
  BY <1>1 DEF CardInv, ConsentOK
<1>4. (\A e \in events' : NoticeOK(e, second, d, wallet, subscribed)) /\ \A x \in Workers : HandlingOK(handler'[x], second, d, wallet, subscribed)
  BY <1>1 DEF DatesOK
<1>5. DatesOK(d)'
  BY <1>4 DEF DatesOK
<1>6. Carried(events, handler, default, d) => Carried(events', handler', default, d)
  BY <1>1, CarriedStays
<1>7. Hosted(events, handler) => Hosted(events', handler')
  BY <1>1 DEF Hosted
<1>8. raced \/ CopyOK(events', handler', default, subscribed, pointer, cursor, d)
  BY <1>1, <1>6, <1>7 DEF CopyOK
<1>9. /\ CopyOK(events', handler', default, subscribed, pointer, cursor, d) => CopyOK(events, handler, default, subscribed, pointer, cursor, d)'
      /\ ConsentOK(handler', enabled', pointer, consented, overtaken) => ConsentOK(handler, enabled, pointer, consented, overtaken)'
  BY DEF CopyOK, Carried, Hosted, ConsentOK
<1> QED BY <1>2, <1>3, <1>5, <1>8, <1>9 DEF CardInv

(* A handler writes the row: alone, or the writes have crossed.            *)
LEMMA WriteKeeps ==
  ASSUME ConstantsOK, CardInv, NEW h \in Workers, NEW d \in Nat, DatesOK(d),
         raced \/ CopyOK(events, handler, default, subscribed, pointer, cursor, d),
         UNCHANGED <<second, wallet, default, subscribed, events, form>>, pointer' \in Charge, cursor' \in 0..d,
         enabled' \in BOOLEAN, consented' \in Charge, overtaken' \in BOOLEAN, handler' = [handler EXCEPT ![h] = C!Idle], C!Cross(h),
         ConsentOK(handler', enabled', pointer', consented', overtaken'), handler[h].at # "idle",
         Carries(handler[h], default, d) /\ ~raced => cursor' = d /\ pointer' = default,
         raced \/ pointer' = pointer \/ pointer' \in {default, subscribed} \/ pointer \notin {default, subscribed} \/ Misleads(handler[h], default, d) \/ cursor < d,
         cursor' < d => cursor < d, Hosts(handler[h]) => pointer' = subscribed
  PROVE  CardInv'
<1>1. /\ handler \in [Workers -> Handling] /\ handler' \in [Workers -> Handling] /\ handler'[h] = C!Idle
      /\ \A g \in Workers \ {h} : handler'[g] = handler[g]
      /\ raced \in BOOLEAN /\ raced' \in BOOLEAN
  BY RestingHandler DEF CardInv, CardTyped, C!Cross
<1>2. CardTyped'
  BY <1>1 DEF CardInv, CardTyped
<1>3. DatesOK(d)'
  <2>1. \A x \in Workers : HandlingOK(handler'[x], second, d, wallet, subscribed)
    BY <1>1, RestingHandler DEF DatesOK, HandlingOK, Storing, Reading
  <2> QED BY <2>1 DEF DatesOK
<1>4. ASSUME ~raced' PROVE CopyOK(events, handler', default, subscribed, pointer', cursor', d)
  <2>1. ~raced /\ \A g \in Workers \ {h} : handler[g].at \notin Reading \cup Storing
    BY <1>1, <1>4 DEF C!Cross, C!Between, Reading, Storing
  <2>2. \A g \in Workers : handler'[g].at \notin Reading \cup Storing
    BY <1>1, <2>1, RestingHandler DEF Reading, Storing
  <2>3. CopyOK(events, handler, default, subscribed, pointer, cursor, d)
    BY <2>1
  <2>4. Carried(events, handler, default, d) => Mark(default, d) \in events \/ Carries(handler[h], default, d)
    BY <2>1 DEF Carried, Carries
  <2>5. Mark(default, d) \in events => Carried(events, handler', default, d)
    BY DEF Carried
  <2>6. cursor' < d => Carried(events, handler', default, d)
    BY <2>1, <2>3, <2>4, <2>5 DEF CopyOK
  <2>7. \A g \in Workers : ~Misleads(handler'[g], default, d)
    BY <2>2 DEF Misleads, Reading, Storing
  <2>8. Hosted(events, handler) => Hosted(events, handler') \/ pointer' = subscribed
    BY <1>1 DEF Hosted
  <2>9. pointer' \notin {default, subscribed} => Carried(events, handler', default, d) \/ Hosted(events, handler')
    BY <2>1, <2>3, <2>4, <2>5, <2>8 DEF CopyOK
  <2> QED BY <2>2, <2>6, <2>7, <2>9 DEF CopyOK
<1>5. /\ CopyOK(events, handler', default, subscribed, pointer', cursor', d) => CopyOK(events, handler, default, subscribed, pointer, cursor, d)'
      /\ ConsentOK(handler', enabled', pointer', consented', overtaken') => ConsentOK(handler, enabled, pointer, consented, overtaken)'
  BY DEF CopyOK, Carried, Hosted, ConsentOK
<1> QED BY <1>1, <1>2, <1>3, <1>4, <1>5 DEF CardInv

LEMMA CardWriteStep ==
  ASSUME ConstantsOK, CardInv, NEW h \in Workers, C!SaveCard(h) \/ C!WriteDefault(h) \/ C!ClearCard(h) \/ C!SyncCard(h)
  PROVE  CardInv'
<1>1. PICK d \in Nat : DatesOK(d) /\ (raced \/ CopyOK(events, handler, default, subscribed, pointer, cursor, d))
  BY DEF CardInv
<1> DEFINE q == handler[h]
<1>2. /\ UNCHANGED <<second, wallet, default, subscribed, events, form>> /\ handler' = [handler EXCEPT ![h] = C!Idle] /\ C!Cross(h)
      /\ q.at # "idle"
  <2>1. CASE C!SaveCard(h)
    BY <2>1 DEF C!SaveCard, C!Apart, C!owner, C!stripe, C!Rest, C!At
  <2>2. CASE C!WriteDefault(h)
    BY <2>2 DEF C!WriteDefault, C!Apart, C!owner, C!stripe, C!Rest
  <2>3. CASE C!ClearCard(h)
    BY <2>3 DEF C!ClearCard, C!Apart, C!owner, C!stripe, C!Rest, C!At
  <2>4. CASE C!SyncCard(h)
    BY <2>4 DEF C!SyncCard, C!Apart, C!owner, C!stripe, C!Rest, C!At
  <2> QED BY <2>1, <2>2, <2>3, <2>4
<1>3. /\ q \in Handling /\ handler \in [Workers -> Handling] /\ pointer \in Charge /\ cursor \in Nat /\ enabled \in BOOLEAN
      /\ consented \in Charge /\ overtaken \in BOOLEAN /\ cursor <= d
      /\ HandlingOK(q, second, d, wallet, subscribed) /\ ConsentOK(handler, enabled, pointer, consented, overtaken)
      /\ default \in wallet \cup {None} /\ subscribed \in wallet \cup {None}
  BY <1>1 DEF CardInv, CardTyped, DatesOK
<1>4. /\ NoticeOK(q.event, second, d, wallet, subscribed) /\ q.event \in Notice /\ q.event.card \in Charge /\ q.event.second \in Nat
      /\ q.value \in Charge /\ q.read \in Charge
  BY <1>2, <1>3 DEF HandlingOK, NoticeOK, Notice, Handling
<1>5. \A g \in Workers : handler'[g].at = "store" => g # h /\ handler'[g] = handler[g]
  BY <1>2, <1>3, RestingHandler
<1>6. CASE C!SaveCard(h)
  <2>1. /\ q.at = "store" /\ pointer' = q.event.card /\ UNCHANGED <<cursor, enabled>>
        /\ consented' = IF enabled /\ consented = None THEN q.event.card ELSE consented
        /\ overtaken' = (overtaken \/ C!Storing # {h})
    BY <1>6 DEF C!SaveCard, C!At, C!Event
  <2>2. q.event.kind = "checkout" /\ ~Carries(q, default, d) /\ ~Hosts(q)
    BY <1>3, <2>1 DEF HandlingOK, Storing, Carries, Reading, Hosts
  <2>3. ConsentOK(handler', enabled', pointer', consented', overtaken')
    <3> SUFFICES ASSUME enabled, ~overtaken'
                 PROVE /\ consented' \in {None, pointer'}
                       /\ \A g \in Workers : handler'[g].at = "store" => pointer' \in {None, handler'[g].event.card}
      BY <2>1 DEF ConsentOK
    <3>1. ~overtaken /\ C!Storing = {h}
      BY <1>3, <2>1
    <3>2. \A g \in Workers : handler[g].at = "store" => g = h
      BY <3>1 DEF C!Storing
    <3>3. consented \in {None, pointer} /\ pointer \in {None, q.event.card}
      BY <1>3, <2>1, <3>1 DEF ConsentOK
    <3> QED BY <1>5, <2>1, <3>2, <3>3
  <2>4. pointer' = default \/ Misleads(q, default, d)
    BY <2>1 DEF Misleads, Storing
  <2> HIDE DEF q
  <2>5. pointer' \in Charge /\ cursor' \in 0..d /\ enabled' \in BOOLEAN /\ consented' \in Charge /\ overtaken' \in BOOLEAN
    BY <1>3, <1>4, <2>1
  <2> QED BY <1>1, <1>2, <1>3, <2>1, <2>2, <2>3, <2>4, <2>5, WriteKeeps DEF q
<1>7. CASE C!WriteDefault(h)
  <2>1. /\ q.at \in {"apply", "reconcile"} /\ cursor' = q.event.second /\ UNCHANGED <<consented, overtaken>>
        /\ IF q.value = q.read THEN UNCHANGED <<pointer, enabled>> ELSE pointer' = q.value /\ enabled' = FALSE
        /\ IF q.at = "reconcile" THEN cursor <= q.event.second ELSE cursor < q.event.second
    BY <1>7 DEF C!WriteDefault, C!Reaches, C!Event, C!Move, C!Appliable, C!At
  <2>2. q.event.kind = "updated" /\ q.event.second <= d /\ ~Hosts(q) /\ (q.at = "apply" => q.value = q.event.card)
    BY <1>3, <1>4, <2>1 DEF HandlingOK, NoticeOK, Reading, Hosts
  <2>3. ConsentOK(handler', enabled', pointer', consented', overtaken')
    BY <1>3, <1>5, <2>1 DEF ConsentOK
  <2>4. raced \/ pointer' = q.value
    BY <1>1, <2>1 DEF CopyOK, Reading
  <2>5. Carries(q, default, d) => q.event.second = d /\ q.value = default
    BY <2>1, <2>2 DEF Carries, Mark
  <2>6. q.value = default \/ Misleads(q, default, d) \/ cursor < d
    <3>1. q.event.second = d \/ q.event.second < d
      BY <1>4, <2>2
    <3> QED BY <1>3, <1>4, <2>1, <3>1 DEF Misleads
  <2>7. cursor' < d => cursor < d
    BY <1>3, <1>4, <2>1
  <2>8. pointer' \in Charge /\ cursor' \in 0..d /\ enabled' \in BOOLEAN /\ consented' \in Charge /\ overtaken' \in BOOLEAN
    <3>1. cursor' \in 0..d
      BY <1>3, <1>4, <2>1, <2>2
    <3>2. pointer' \in Charge /\ consented' \in Charge /\ overtaken' \in BOOLEAN
      BY <1>3, <1>4, <2>1, <2>2
    <3>3. enabled' \in BOOLEAN
      BY <1>3, <1>4, <2>1, <2>2
    <3> QED BY <3>1, <3>2, <3>3
  <2> HIDE DEF q
  <2> QED BY <1>1, <1>2, <1>3, <2>1, <2>2, <2>3, <2>4, <2>5, <2>6, <2>7, <2>8, WriteKeeps DEF q
<1>8. CASE C!ClearCard(h)
  <2>1. /\ q.at = "clear" /\ UNCHANGED <<cursor, consented, overtaken>>
        /\ IF pointer = q.event.card THEN pointer' = None /\ enabled' = FALSE ELSE UNCHANGED <<pointer, enabled>>
    BY <1>8 DEF C!ClearCard, C!At, C!Event
  <2>2. q.event.card # None /\ q.event.card \notin wallet /\ ~Carries(q, default, d) /\ ~Hosts(q)
    BY <1>3, <1>4, <2>1 DEF HandlingOK, NoticeOK, Carries, Reading, Hosts
  <2>3. ConsentOK(handler', enabled', pointer', consented', overtaken')
    BY <1>3, <1>5, <2>1 DEF ConsentOK
  <2>4. pointer' = pointer \/ pointer \notin {default, subscribed}
    BY <1>3, <2>1, <2>2
  <2>5. pointer' \in Charge /\ cursor' \in 0..d /\ enabled' \in BOOLEAN /\ consented' \in Charge /\ overtaken' \in BOOLEAN
    <3>1. cursor' \in 0..d
      BY <1>3, <2>1
    <3>2. pointer' \in Charge /\ consented' \in Charge /\ overtaken' \in BOOLEAN
      BY <1>3, <2>1 DEF Charge
    <3>3. enabled' \in BOOLEAN
      BY <1>3, <2>1
    <3> QED BY <3>1, <3>2, <3>3
  <2> HIDE DEF q
  <2> QED BY <1>1, <1>2, <1>3, <2>1, <2>2, <2>3, <2>4, <2>5, WriteKeeps DEF q
<1>9. CASE C!SyncCard(h)
  <2>1. /\ q.at = "card" /\ UNCHANGED <<cursor, consented, overtaken>>
        /\ \/ pointer' = q.event.card /\ enabled' \in {enabled, FALSE} /\ (pointer' = pointer \/ enabled' = FALSE)
           \/ UNCHANGED <<pointer, enabled>> /\ q.event.kind # "hosted"
    BY <1>9 DEF C!SyncCard, C!At, C!Event, C!Move, C!InTime
  <2>2. q.event.card = subscribed /\ ~Carries(q, default, d)
    BY <1>3, <1>4, <2>1 DEF HandlingOK, NoticeOK, Carries, Reading
  <2>3. ConsentOK(handler', enabled', pointer', consented', overtaken')
    BY <1>3, <1>5, <2>1 DEF ConsentOK
  <2>4. pointer' = subscribed \/ (pointer' = pointer /\ ~Hosts(q))
    BY <2>1, <2>2 DEF Hosts
  <2>5. pointer' \in Charge /\ cursor' \in 0..d /\ enabled' \in BOOLEAN /\ consented' \in Charge /\ overtaken' \in BOOLEAN
    <3>1. cursor' \in 0..d
      BY <1>3, <1>4, <2>1
    <3>2. pointer' \in Charge /\ consented' \in Charge /\ overtaken' \in BOOLEAN
      BY <1>3, <1>4, <2>1
    <3>3. enabled' \in BOOLEAN
      BY <1>3, <1>4, <2>1
    <3> QED BY <3>1, <3>2, <3>3
  <2> HIDE DEF q
  <2> QED BY <1>1, <1>2, <1>3, <2>1, <2>2, <2>3, <2>4, <2>5, WriteKeeps DEF q
<1> QED BY <1>6, <1>7, <1>8, <1>9

LEMMA SwitchStep == ASSUME ConstantsOK, CardInv, C!OpenForm \/ C!Enable \/ C!Disable PROVE CardInv'
<1>1. UNCHANGED <<second, wallet, default, subscribed, events, pointer, cursor, handler, raced>>
  BY DEF C!OpenForm, C!Enable, C!Disable, C!stripe, C!row
<1>2. /\ pointer \in Charge /\ enabled \in BOOLEAN /\ consented \in Charge /\ overtaken \in BOOLEAN /\ form \in {"none", "on", "off"}
      /\ ConsentOK(handler, enabled, pointer, consented, overtaken)
  BY DEF CardInv, CardTyped
<1>3. /\ form' \in {"none", "on", "off"} /\ enabled' \in BOOLEAN /\ consented' \in Charge /\ overtaken' \in BOOLEAN
      /\ ConsentOK(handler, enabled', pointer, consented', overtaken')
  <2>1. CASE C!OpenForm
    BY <1>2, <2>1 DEF C!OpenForm, C!row
  <2>2. CASE C!Enable
    <3>1. /\ form' = "none" /\ form # "none"
          /\ \/ UNCHANGED <<enabled, consented, overtaken>>
             \/ form = "on" /\ enabled /\ enabled' = TRUE /\ UNCHANGED <<consented, overtaken>>
             \/ form = "off" /\ enabled' = TRUE /\ consented' = pointer /\ overtaken' = (C!Storing # {})
      BY <1>2, <2>2 DEF C!Enable
    <3>2. ~(C!Storing # {}) => \A g \in Workers : handler[g].at # "store"
      BY DEF C!Storing
    <3>3. CASE UNCHANGED <<enabled, consented, overtaken>>
      BY <1>2, <3>1, <3>3
    <3>4. CASE enabled /\ enabled' = TRUE /\ UNCHANGED <<consented, overtaken>>
      BY <1>2, <3>1, <3>4 DEF ConsentOK
    <3>5. CASE enabled' = TRUE /\ consented' = pointer /\ overtaken' = (C!Storing # {})
      <4>1. overtaken' \in BOOLEAN /\ enabled' \in BOOLEAN /\ consented' \in Charge
        BY <1>2, <3>5
      <4>2. ~overtaken' => \A g \in Workers : handler[g].at # "store"
        BY <3>2, <3>5
      <4>3. ConsentOK(handler, enabled', pointer, consented', overtaken')
        BY <3>5, <4>2 DEF ConsentOK
      <4> QED BY <3>1, <4>1, <4>3
    <3> QED BY <3>1, <3>3, <3>4, <3>5
  <2>3. CASE C!Disable
    BY <1>2, <2>3 DEF C!Disable, C!owner, ConsentOK
  <2> QED BY <2>1, <2>2, <2>3
<1>4. CardTyped'
  BY <1>1, <1>3 DEF CardInv, CardTyped
<1>5. /\ \A d \in Nat : DatesOK(d) => DatesOK(d)'
      /\ \A d \in Nat : CopyOK(events, handler, default, subscribed, pointer, cursor, d) =>
           CopyOK(events, handler, default, subscribed, pointer, cursor, d)'
      /\ ConsentOK(handler, enabled', pointer, consented', overtaken') => ConsentOK(handler, enabled, pointer, consented, overtaken)'
  BY <1>1 DEF DatesOK, CopyOK, Carried, Hosted, ConsentOK
<1> QED BY <1>1, <1>3, <1>4, <1>5 DEF CardInv

(* At Stripe.                                                              *)
LEMMA SentOK ==
  ASSUME CardInv, NEW kind \in {"updated", "detached", "checkout", "hosted", "subscription"}, NEW c \in Charge
  PROVE  LET e == C!Sent(kind, c)
         IN /\ e \in Notice /\ e.kind = kind /\ e.card = c /\ e.second = second
            /\ kind = "updated" => e = Mark(c, second)
BY DEF CardInv, CardTyped, C!Sent, Notice, Mark

LEMMA CardStripeStep ==
  ASSUME ConstantsOK, CardInv, C!Tick \/ \E c \in BankCards : C!ChooseDefault(c) \/ C!Remove(c) \/ C!Pay(c) \/ C!Subscribe(c)
  PROVE  CardInv'
<1>1. UNCHANGED <<pointer, cursor, enabled, form, handler, consented, overtaken, raced>>
  BY DEF C!Tick, C!ChooseDefault, C!Remove, C!Pay, C!Subscribe, C!Beside, C!row, C!owner
<1>2. /\ second \in Nat /\ wallet \subseteq BankCards /\ default \in wallet \cup {None} /\ subscribed \in wallet \cup {None}
      /\ None \notin BankCards
  BY CardConstants DEF CardInv, CardTyped
<1>3. ConsentOK(handler, enabled, pointer, consented, overtaken)'
  BY <1>1 DEF CardInv, ConsentOK
<1>4. CASE C!Tick
  <2>1. second' = second + 1 /\ UNCHANGED <<wallet, default, subscribed, events>>
    BY <1>4 DEF C!Tick
  <2>2. CardTyped' /\ second <= second'
    BY <1>1, <1>2, <2>1 DEF CardInv, CardTyped
  <2> QED BY <1>1, <1>3, <2>1, <2>2, StripeKeeps
<1>5. ASSUME NEW c \in BankCards, C!ChooseDefault(c) PROVE CardInv'
  <2>1. /\ default' = c /\ c \in wallet /\ events' = events \cup {C!Sent("updated", c)} /\ UNCHANGED <<second, wallet, subscribed>>
    BY <1>5 DEF C!ChooseDefault
  <2>2. LET e == C!Sent("updated", c) IN NoticeOK(e, second, second, wallet', subscribed) /\ e = Mark(default', second)
    BY <1>2, <2>1, SentOK DEF NoticeOK, Charge
  <2>3. CardTyped'
    BY <1>1, <1>2, <2>1 DEF CardInv, CardTyped
  <2> QED BY <1>1, <1>3, <2>1, <2>2, <2>3, DefaultKeeps
<1>6. ASSUME NEW c \in BankCards, C!Remove(c) PROVE CardInv'
  <2>1. /\ c \in wallet \ {subscribed} /\ wallet' = wallet \ {c} /\ UNCHANGED <<second, subscribed>>
        /\ default' = IF default = c THEN None ELSE default
        /\ events' = events \cup {C!Sent("detached", c)} \cup (IF default = c THEN {C!Sent("updated", None)} ELSE {})
    BY <1>6 DEF C!Remove
  <2>2. LET e == C!Sent("detached", c)
        IN e.kind = "detached" /\ \A d \in Nat : NoticeOK(e, second, d, wallet', subscribed)
    BY <1>2, <2>1, SentOK DEF NoticeOK, Charge
  <2>3. LET e == C!Sent("updated", None) IN NoticeOK(e, second, second, wallet', subscribed) /\ e = Mark(None, second)
    BY <1>2, <2>1, SentOK DEF NoticeOK, Charge
  <2>4. CardTyped' /\ wallet' \subseteq wallet
    BY <1>1, <1>2, <2>1 DEF CardInv, CardTyped
  <2>5. CASE default = c
    BY <1>1, <1>2, <1>3, <2>1, <2>2, <2>3, <2>4, <2>5, DefaultKeeps
  <2>6. CASE default # c
    BY <1>1, <1>2, <1>3, <2>1, <2>2, <2>4, <2>6, StripeKeeps
  <2> QED BY <2>5, <2>6
<1>7. ASSUME NEW c \in BankCards, C!Pay(c) PROVE CardInv'
  <2>1. events' = events \cup {C!Sent("checkout", c)} /\ UNCHANGED <<second, wallet, default, subscribed>>
    BY <1>7 DEF C!Pay
  <2>2. LET e == C!Sent("checkout", c)
        IN e.kind = "checkout" /\ \A d \in Nat : NoticeOK(e, second, d, wallet', subscribed)
    BY <1>2, <2>1, SentOK DEF NoticeOK, Charge
  <2>3. CardTyped'
    BY <1>1, <1>2, <2>1 DEF CardInv, CardTyped
  <2> QED BY <1>1, <1>2, <1>3, <2>1, <2>2, <2>3, StripeKeeps
<1>8. ASSUME NEW c \in BankCards, C!Subscribe(c) PROVE CardInv'
  <2>1. /\ c \in wallet /\ subscribed = None /\ subscribed' = c /\ UNCHANGED <<second, wallet, default>>
        /\ events' = events \cup {C!Sent("hosted", c), C!Sent("subscription", c)}
    BY <1>8 DEF C!Subscribe
  <2>2. LET e == C!Sent("hosted", c)
        IN e.kind = "hosted" /\ \A d \in Nat : NoticeOK(e, second, d, wallet', subscribed')
    BY <1>2, <2>1, SentOK DEF NoticeOK, Charge
  <2>3. LET e == C!Sent("subscription", c)
        IN e.kind = "subscription" /\ \A d \in Nat : NoticeOK(e, second, d, wallet', subscribed')
    BY <1>2, <2>1, SentOK DEF NoticeOK, Charge
  <2>4. CardTyped'
    BY <1>1, <1>2, <2>1 DEF CardInv, CardTyped
  <2> QED BY <1>1, <1>2, <1>3, <2>1, <2>2, <2>3, <2>4, StripeKeeps
<1> QED BY <1>4, <1>5, <1>6, <1>7, <1>8

(* Handlers.                                                               *)
LEMMA BeginOK ==
  ASSUME NEW at \in {"clear", "card"} \cup Reading \cup Storing, NEW e \in Notice
  PROVE  LET q == [C!Idle EXCEPT !.at = at, !.event = e] IN q \in Handling /\ q.at = at /\ q.event = e
BY DEF C!Idle, Handling, Charge

LEMMA GoOK ==
  ASSUME NEW o \in Handling, NEW at \in {"clear", "card"} \cup Reading \cup Storing
  PROVE  LET q == [o EXCEPT !.at = at]
         IN q \in Handling /\ q.at = at /\ q.event = o.event /\ q.value = o.value /\ q.read = o.read
BY DEF Handling

(* An event of no change of the default is taken: by nobody, or by h.      *)
LEMMA TakeKeeps ==
  ASSUME ConstantsOK, CardInv, NEW h \in Workers, NEW e \in events, handler[h].at = "idle", e.kind # "updated",
         UNCHANGED <<second, wallet, default, subscribed, pointer, cursor, raced, form, enabled, consented, overtaken>>,
         events' = events \ {e},
         \/ UNCHANGED handler /\ e.kind # "hosted"
         \/ \E at \in {"prior", "clear", "card"} :
              /\ handler' = [handler EXCEPT ![h] = [C!Idle EXCEPT !.at = at, !.event = e]]
              /\ at = "prior" => e.kind = "checkout" /\ e.card = default
              /\ at = "clear" => e.kind = "detached"
              /\ at = "card" => e.kind \in {"hosted", "subscription"}
  PROVE  CardInv'
<1>1. PICK d \in Nat : DatesOK(d) /\ (raced \/ CopyOK(events, handler, default, subscribed, pointer, cursor, d))
  BY DEF CardInv
<1>2. /\ handler \in [Workers -> Handling] /\ enabled \in BOOLEAN /\ HandlingOK(handler[h], second, d, wallet, subscribed)
      /\ NoticeOK(e, second, d, wallet, subscribed) /\ e \in Notice
  BY <1>1 DEF CardInv, CardTyped, DatesOK, NoticeOK
<1>3. e # Mark(default, d) /\ ~Carries(handler[h], default, d) /\ ~Hosts(handler[h])
  BY DEF Mark, Carries, Hosts, Reading
<1>4. CASE UNCHANGED handler /\ e.kind # "hosted"
  <2>1. handler' = [handler EXCEPT ![h] = handler[h]] /\ handler[h] \in Handling
    BY <1>2, <1>4
  <2> DEFINE q == handler[h]
  <2>2. q.at = "idle"
    OBVIOUS
  <2> HIDE DEF q
  <2>3. q.at \notin Reading \cup Storing /\ ~Misleads(q, default, d)
    BY <2>2 DEF Misleads, Reading, Storing
  <2> QED BY <1>1, <1>2, <1>3, <1>4, <2>1, <2>2, <2>3, TurnKeeps DEF q
<1>5. ASSUME NEW at \in {"prior", "clear", "card"},
             handler' = [handler EXCEPT ![h] = [C!Idle EXCEPT !.at = at, !.event = e]],
             at = "prior" => e.kind = "checkout" /\ e.card = default,
             at = "clear" => e.kind = "detached",
             at = "card" => e.kind \in {"hosted", "subscription"}
      PROVE  CardInv'
  <2> DEFINE q == [C!Idle EXCEPT !.at = at, !.event = e]
  <2>1. q \in Handling /\ q.at = at /\ q.event = e
    BY <1>2, BeginOK DEF Storing
  <2>2. handler' = [handler EXCEPT ![h] = q]
    BY <1>5
  <2> HIDE DEF q
  <2>3. HandlingOK(q, second, d, wallet, subscribed)
    BY <1>2, <1>5, <2>1 DEF HandlingOK, Reading, Storing
  <2>4. ~Misleads(q, default, d) /\ q.at \notin Reading
    BY <1>5, <2>1 DEF Misleads, Reading, Storing
  <2>5. e.kind = "hosted" => Hosts(q)
    BY <1>5, <2>1 DEF Hosts
  <2> QED BY <1>1, <1>2, <1>3, <1>5, <2>1, <2>2, <2>3, <2>4, <2>5, TurnKeeps
<1> QED BY <1>4, <1>5

LEMMA CardTakeStep ==
  ASSUME ConstantsOK, CardInv, NEW h \in Workers, NEW e \in events,
         C!MakeDefault(h, e) \/ C!Refused(h, e) \/ C!LookUpCard(h, e) \/ C!Snapshot(h, e) \/ C!AskCard(h, e)
  PROVE  CardInv'
<1>1. /\ handler[h].at = "idle" /\ e.kind \in {"checkout", "detached", "subscription", "hosted"}
      /\ UNCHANGED <<second, wallet, subscribed, pointer, cursor, raced, form, enabled, consented, overtaken>>
  <2>1. CASE C!MakeDefault(h, e)
    BY <2>1 DEF C!MakeDefault, C!Take, C!At, C!row, C!owner
  <2>2. CASE C!Refused(h, e)
    BY <2>2 DEF C!Refused, C!Take, C!At, C!row, C!owner, C!Alone, C!stripe
  <2>3. CASE C!LookUpCard(h, e)
    BY <2>3 DEF C!LookUpCard, C!Take, C!At, C!row, C!owner, C!Alone, C!stripe
  <2>4. CASE C!Snapshot(h, e)
    BY <2>4 DEF C!Snapshot, C!Take, C!At, C!row, C!owner, C!Alone, C!stripe
  <2>5. CASE C!AskCard(h, e)
    BY <2>5 DEF C!AskCard, C!Take, C!At, C!row, C!owner, C!Alone, C!stripe
  <2> QED BY <2>1, <2>2, <2>3, <2>4, <2>5
<1>2. CASE C!MakeDefault(h, e)
  <2>1. /\ e.kind = "checkout" /\ e.card \in wallet /\ default' = e.card
        /\ handler' = [handler EXCEPT ![h] = [C!Idle EXCEPT !.at = "prior", !.event = e]]
        /\ events' = (events \ {e}) \cup (IF default = e.card THEN {} ELSE {C!Sent("updated", e.card)})
    BY <1>2 DEF C!MakeDefault, C!Take, C!Begin
  <2>2. CASE default = e.card
    <3>1. events' = events \ {e} /\ UNCHANGED default
      BY <2>1, <2>2
    <3> QED BY <1>1, <2>1, <2>2, <3>1, TakeKeeps
  <2>3. CASE default # e.card
    <3>1. /\ handler \in [Workers -> Handling] /\ second \in Nat /\ wallet \subseteq BankCards /\ e.card # None
          /\ ConsentOK(handler, enabled, pointer, consented, overtaken)
      BY <2>1, CardConstants DEF CardInv, CardTyped
    <3>2. PICK d \in Nat : DatesOK(d)
      BY DEF CardInv
    <3>3. e \in Notice /\ NoticeOK(e, second, second, wallet, subscribed)
      BY <1>1, <3>2 DEF DatesOK, NoticeOK
    <3> DEFINE q == [C!Idle EXCEPT !.at = "prior", !.event = e]
    <3>4. q \in Handling /\ q.at = "prior" /\ q.event = e
      BY <3>3, BeginOK DEF Storing
    <3>5. handler' = [handler EXCEPT ![h] = q]
      BY <2>1
    <3> HIDE DEF q
    <3>6. HandlingOK(q, second, second, wallet', subscribed) /\ q.at \in Storing
      BY <1>1, <2>1, <3>3, <3>4 DEF HandlingOK, Reading, Storing
    <3>7. /\ handler' \in [Workers -> Handling]
          /\ \A x \in Workers : handler'[x] = handler[x] \/ (handler'[x] = q /\ handler'[x].at = "prior")
      BY <3>1, <3>4, <3>5
    <3>8. LET n == C!Sent("updated", e.card) IN NoticeOK(n, second, second, wallet', subscribed) /\ n = Mark(default', second)
      BY <1>1, <2>1, <3>1, SentOK DEF NoticeOK, Charge
    <3>9. CardTyped'
      BY <1>1, <2>1, <3>7 DEF CardInv, CardTyped
    <3>10. ConsentOK(handler', enabled, pointer, consented, overtaken)
      BY <3>1, <3>7 DEF ConsentOK
    <3>11. ConsentOK(handler, enabled, pointer, consented, overtaken)'
      BY SMTT(60), <1>1, <3>10 DEF ConsentOK
    <3> QED BY <1>1, <2>1, <2>3, <3>6, <3>7, <3>8, <3>9, <3>11, DefaultKeeps
  <2> QED BY <2>2, <2>3
<1>3. CASE C!Refused(h, e)
  BY ZenonT(60), <1>1, <1>3, TakeKeeps DEF C!Refused, C!Take, C!Done, C!Alone, C!stripe
<1>4. CASE C!LookUpCard(h, e)
  BY ZenonT(60), <1>1, <1>4, TakeKeeps DEF C!LookUpCard, C!Take, C!Done, C!Alone, C!stripe, C!Begin
<1>5. CASE C!Snapshot(h, e)
  BY <1>1, <1>5, TakeKeeps DEF C!Snapshot, C!Take, C!Done, C!Alone, C!stripe, C!Begin
<1>6. CASE C!AskCard(h, e)
  BY <1>1, <1>6, TakeKeeps DEF C!AskCard, C!Take, C!Done, C!Alone, C!stripe, C!Begin
<1> QED BY <1>2, <1>3, <1>4, <1>5, <1>6

LEMMA CardReadStep == ASSUME ConstantsOK, CardInv, NEW h \in Workers, NEW e \in events, C!ReadOrg(h, e) PROVE CardInv'
<1>1. PICK d \in Nat : DatesOK(d) /\ (raced \/ CopyOK(events, handler, default, subscribed, pointer, cursor, d))
  BY DEF CardInv
<1>2. /\ handler[h].at = "idle" /\ e.kind = "updated" /\ events' = events \ {e}
      /\ UNCHANGED <<second, wallet, default, subscribed, pointer, cursor, raced, form, enabled, consented, overtaken>>
  BY DEF C!ReadOrg, C!Take, C!Done, C!At, C!Alone, C!stripe, C!row, C!owner
<1>3. /\ NoticeOK(e, second, d, wallet, subscribed) /\ e \in Notice /\ e.second \in Nat /\ e.card \in Charge /\ e.second <= d
      /\ cursor \in Nat /\ pointer \in Charge /\ enabled \in BOOLEAN /\ cursor <= d
  BY <1>1, <1>2 DEF CardInv, CardTyped, DatesOK, NoticeOK, Notice
<1> DEFINE to == IF e.second = cursor THEN "fetch" ELSE "apply"
           o == [at |-> to, event |-> e, read |-> pointer, value |-> e.card]
           q == IF e.second < cursor THEN C!Idle ELSE o
<1>4. handler' = [handler EXCEPT ![h] = q]
  BY DEF C!ReadOrg
<1>5. o \in Handling
  BY <1>3 DEF Handling, Reading
<1>6. /\ q \in Handling
      /\ \/ q.at = "idle" /\ e.second < cursor
         \/ q.at = "fetch" /\ q.event = e /\ q.read = pointer
         \/ q.at = "apply" /\ q.event = e /\ q.read = pointer /\ q.value = e.card /\ e.second # cursor /\ cursor <= e.second
  BY <1>3, <1>5, RestingHandler
<1> HIDE DEF q
<1>7. HandlingOK(q, second, d, wallet, subscribed) /\ q.at # "store" /\ (q.at \in Reading => q.read = pointer)
  BY <1>2, <1>3, <1>6 DEF HandlingOK, Reading, Storing
<1>8. e = Mark(default, d) => Carries(q, default, d)
  BY <1>3, <1>6 DEF Carries, Mark, Reading
<1>9. Misleads(q, default, d) => cursor < d
  BY <1>3, <1>6 DEF Misleads, Storing
<1>10. ~Carries(handler[h], default, d) /\ ~Hosts(handler[h])
  BY <1>2 DEF Carries, Hosts, Reading
<1> QED BY <1>1, <1>2, <1>3, <1>4, <1>6, <1>7, <1>8, <1>9, <1>10, TurnKeeps

LEMMA CardTurnStep ==
  ASSUME ConstantsOK, CardInv, NEW h \in Workers,
         C!Fail(h) \/ C!ReadPrior(h) \/ C!TurnOff(h) \/ C!FetchLive(h) \/ C!LoseRace(h)
  PROVE  CardInv'
<1>1. PICK d \in Nat : DatesOK(d) /\ (raced \/ CopyOK(events, handler, default, subscribed, pointer, cursor, d))
  BY DEF CardInv
<1> DEFINE o == handler[h]
<1>2. UNCHANGED <<second, wallet, default, subscribed, pointer, cursor, raced, form, consented, overtaken>> /\ o.at # "idle"
  <2>1. CASE C!Fail(h)
    BY <2>1 DEF C!Fail, C!row, C!owner, C!stripe, C!At
  <2>2. CASE C!ReadPrior(h)
    BY <2>2 DEF C!ReadPrior, C!row, C!owner, C!stripe, C!Alone, C!At
  <2>3. CASE C!TurnOff(h)
    BY <2>3 DEF C!TurnOff, C!owner, C!stripe, C!Alone, C!At
  <2>4. CASE C!FetchLive(h)
    BY <2>4 DEF C!FetchLive, C!row, C!owner, C!stripe, C!Alone, C!At
  <2>5. CASE C!LoseRace(h)
    BY <2>5 DEF C!LoseRace, C!row, C!owner, C!stripe, C!Alone
  <2> QED BY <2>1, <2>2, <2>3, <2>4, <2>5
<1>3. /\ o \in Handling /\ HandlingOK(o, second, d, wallet, subscribed) /\ NoticeOK(o.event, second, d, wallet, subscribed)
      /\ enabled \in BOOLEAN /\ cursor \in Nat /\ cursor <= d /\ default \in Charge
  BY <1>1, <1>2 DEF CardInv, CardTyped, DatesOK, HandlingOK, Charge
<1>4. o.event \in Notice /\ o.event.second \in Nat /\ o.event.second <= second
  BY <1>3 DEF NoticeOK, Notice
<1>5. CASE C!Fail(h)
  <2>1. events' = events \cup {o.event} /\ handler' = [handler EXCEPT ![h] = C!Idle] /\ UNCHANGED enabled
    BY <1>5 DEF C!Fail, C!Rest, C!Event, C!row
  <2>2. /\ C!Idle.at \notin Reading \cup Storing /\ ~Misleads(C!Idle, default, d)
        /\ HandlingOK(C!Idle, second, d, wallet, subscribed)
    BY RestingHandler DEF Misleads, HandlingOK, Reading, Storing
  <2>3. Carries(o, default, d) => Mark(default, d) \in events'
    BY <2>1 DEF Carries
  <2>4. Hosts(o) => \E e \in events' : e.kind = "hosted"
    BY <2>1 DEF Hosts
  <2> HIDE DEF o
  <2> QED BY <1>1, <1>2, <1>3, <2>1, <2>2, <2>3, <2>4, RestingHandler, TurnKeeps DEF o, Storing
<1>6. CASE C!ReadPrior(h) \/ C!TurnOff(h)
  <2>1. PICK at \in {"off", "store"} :
          /\ handler' = [handler EXCEPT ![h].at = at] /\ o.at \in Storing /\ UNCHANGED events
          /\ enabled' \in {enabled, FALSE} /\ (at = "store" /\ enabled' => pointer \in {None, o.event.card})
    <3>1. CASE C!ReadPrior(h)
      BY <3>1 DEF C!ReadPrior, C!Go, C!At, C!Uncovered, C!Event, C!row, Storing
    <3>2. CASE C!TurnOff(h)
      BY <3>2 DEF C!TurnOff, C!Go, C!At, Storing
    <3> QED BY <1>6, <3>1, <3>2
  <2> DEFINE q == [o EXCEPT !.at = at]
  <2>2. handler' = [handler EXCEPT ![h] = q]
    BY <2>1
  <2>3. q \in Handling /\ q.at = at /\ q.event = o.event
    BY <1>3, GoOK DEF Storing
  <2> HIDE DEF q
  <2>4. /\ HandlingOK(q, second, d, wallet, subscribed) /\ q.at \notin Reading
        /\ (Misleads(q, default, d) => Misleads(o, default, d)) /\ ~Carries(o, default, d) /\ ~Hosts(o)
    BY <1>3, <2>1, <2>3 DEF HandlingOK, Misleads, Carries, Hosts, Reading, Storing
  <2>5. enabled' \in BOOLEAN /\ (enabled' => enabled)
    <3>1. CASE enabled' = enabled
      BY <1>3, <3>1
    <3>2. CASE enabled' = FALSE
      BY <3>2
    <3> QED BY <2>1, <3>1, <3>2
  <2> HIDE DEF o
  <2> QED BY <1>1, <1>2, <2>1, <2>2, <2>3, <2>4, <2>5, TurnKeeps DEF o
<1>7. CASE C!FetchLive(h)
  <2>1. /\ handler' = [handler EXCEPT ![h].at = "reconcile", ![h].value = default] /\ o.at = "fetch" /\ UNCHANGED <<events, enabled>>
    BY <1>7 DEF C!FetchLive, C!At, C!row
  <2> DEFINE q == [o EXCEPT !.at = "reconcile", !.value = default]
  <2>2. handler' = [handler EXCEPT ![h] = q]
    BY <1>3, <2>1 DEF CardInv, CardTyped
  <2>3. q \in Handling /\ q.at = "reconcile" /\ q.event = o.event /\ q.value = default /\ q.read = o.read
    BY <1>3 DEF Handling, Reading
  <2> HIDE DEF q
  <2>4. /\ HandlingOK(q, second, d, wallet, subscribed) /\ o.at \in Reading /\ ~Misleads(q, default, d)
        /\ (Carries(o, default, d) => Carries(q, default, d)) /\ ~Hosts(o)
    BY <1>3, <2>1, <2>3 DEF HandlingOK, Misleads, Carries, Hosts, Reading, Storing
  <2> HIDE DEF o
  <2> QED BY <1>1, <1>2, <1>3, <2>1, <2>2, <2>3, <2>4, TurnKeeps DEF o
<1>8. CASE C!LoseRace(h)
  <2>1. /\ o.at \in {"apply", "reconcile"} /\ UNCHANGED <<events, enabled>>
        /\ IF o.at = "reconcile" THEN ~(cursor <= o.event.second) ELSE ~(cursor < o.event.second)
        /\ handler' = IF o.at = "apply" /\ cursor = o.event.second THEN [handler EXCEPT ![h].at = "fetch"]
                      ELSE [handler EXCEPT ![h] = C!Idle]
    BY <1>8 DEF C!LoseRace, C!Appliable, C!At, C!Go, C!Rest, C!Event, C!row
  <2>2. o.at \in Reading /\ ~Hosts(o) /\ o.event.kind = "updated"
    BY <1>3, <2>1 DEF Reading, Hosts, HandlingOK
  <2>3. CASE o.at = "apply" /\ cursor = o.event.second
    <3> DEFINE q == [o EXCEPT !.at = "fetch"]
    <3>1. handler' = [handler EXCEPT ![h] = q]
      BY <2>1, <2>3
    <3>2. q \in Handling /\ q.at = "fetch" /\ q.event = o.event /\ q.read = o.read
      BY <1>3, GoOK DEF Reading
    <3> HIDE DEF q
    <3>3. /\ HandlingOK(q, second, d, wallet, subscribed) /\ ~Misleads(q, default, d)
          /\ (Carries(o, default, d) => Carries(q, default, d))
      BY <1>3, <2>2, <3>2 DEF HandlingOK, Misleads, Carries, Reading, Storing
    <3> HIDE DEF o
    <3> QED BY <1>1, <1>2, <1>3, <2>1, <2>2, <3>1, <3>2, <3>3, TurnKeeps DEF o
  <2>4. CASE ~(o.at = "apply" /\ cursor = o.event.second)
    <3>1. ~Carries(o, default, d)
      BY <1>3, <1>4, <2>1, <2>4 DEF Carries, Mark
    <3>2. /\ C!Idle.at \notin Reading \cup Storing /\ ~Misleads(C!Idle, default, d)
          /\ HandlingOK(C!Idle, second, d, wallet, subscribed)
      BY RestingHandler DEF Misleads, HandlingOK, Reading, Storing
    <3> HIDE DEF o
    <3> QED BY <1>1, <1>2, <1>3, <2>1, <2>2, <2>4, <3>1, <3>2, RestingHandler, TurnKeeps DEF o, Storing
  <2> QED BY <2>3, <2>4
<1> QED BY <1>5, <1>6, <1>7, <1>8

LEMMA CardInvariance == Spec => []CardInv
<1> USE ConstantsOK
<1>1. Init => CardInv
  <2> SUFFICES ASSUME Init PROVE CardInv
    OBVIOUS
  <2>1. /\ second = 1 /\ wallet = BankCards /\ default = None /\ subscribed = None /\ events = {} /\ pointer = None /\ cursor = 0
        /\ enabled = FALSE /\ form = "none" /\ handler = [h \in Workers |-> C!Idle] /\ consented = None /\ overtaken = FALSE /\ raced = FALSE
    BY DEF Init, C!Init
  <2>2. CardTyped
    BY <2>1, RestingHandler DEF CardTyped, Charge
  <2>3. ConsentOK(handler, enabled, pointer, consented, overtaken)
    BY <2>1 DEF ConsentOK
  <2>4. \A h \in Workers : handler[h] = C!Idle /\ handler[h].at = "idle"
    BY <2>1, RestingHandler
  <2>5. DatesOK(0)
    BY <2>1, <2>4 DEF DatesOK, HandlingOK, Reading, Storing
  <2>6. CopyOK(events, handler, default, subscribed, pointer, cursor, 0)
    BY <2>1, <2>4 DEF CopyOK, Misleads, Reading, Storing
  <2> QED BY <2>2, <2>3, <2>5, <2>6 DEF CardInv
<1>2. ASSUME CardInv, [Next]_vars PROVE CardInv'
  <2>1. ASSUME UNCHANGED cards PROVE CardInv'
    <3>1. UNCHANGED <<second, wallet, default, subscribed, events, pointer, cursor, enabled, form, handler, consented, overtaken, raced>>
      BY <2>1 DEF cards
    <3> QED BY <1>2, <3>1 DEF CardInv, CardTyped, ConsentOK, DatesOK, CopyOK, Carried, Hosted
  <2>2. ASSUME SyncCards PROVE CardInv'
    <3>1. C!Next
      BY <2>2 DEF SyncCards
    <3> QED BY <1>2, <3>1, SwitchStep, CardStripeStep, CardTakeStep, CardReadStep, CardTurnStep, CardWriteStep DEF C!Next
  <2> QED BY <1>2, <2>1, <2>2, SyncOrRest
<1> QED BY <1>1, <1>2, PTL DEF Spec

(* Whichever events move the copy of the card, and however late: while     *)
(* auto top-up is on it charges a card its owner agreed to, and once every *)
(* event was handled the copy is the customer's default card or the        *)
(* subscription's, unless two handlers were at the row at a time           *)
(* (savePaymentMethod, handleCustomerUpdated, applySubscriptionDefaultPm). *)
THEOREM SpecImpliesCardKept == Spec => []CardKept
<1>1. ASSUME ConstantsOK, CardInv PROVE CardKept
  <2>1. C!ConsentCoversCard
    BY <1>1 DEF CardInv, ConsentOK, C!ConsentCoversCard
  <2>2. ASSUME C!Quiet, ~raced PROVE pointer \in {default, subscribed}
    <3>1. PICK d \in Nat : CopyOK(events, handler, default, subscribed, pointer, cursor, d)
      BY <1>1, <2>2 DEF CardInv
    <3>2. events = {} /\ \A h \in Workers : handler[h].at = "idle"
      BY <2>2 DEF C!Quiet, C!At
    <3>3. ~Carried(events, handler, default, d) /\ ~Hosted(events, handler)
      BY <3>2 DEF Carried, Carries, Hosted, Hosts, Reading
    <3> QED BY <3>1, <3>3 DEF CopyOK
  <2> QED BY <2>1, <2>2 DEF CardKept, C!CopySettles
<1> QED BY <1>1, CardInvariance, ConstantsOK, PTL
=============================================================================
