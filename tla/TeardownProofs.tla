--------------------------- MODULE TeardownProofs ---------------------------
(***************************************************************************)
(* Theorems about Teardown, for any number of accounts, organisations,     *)
(* channels and overlapping drains: no erased account is forgotten at      *)
(* Stripe or Google, and no customer is deleted before its last automatic  *)
(* payment is settled.                                                     *)
(***************************************************************************)
EXTENDS Teardown, TLAPS

-----------------------------------------------------------------------------
(* The inductive invariant.                                                *)
OrgStep == {"cancel", "check", "del", "unlist", "unscrub", "scrub"}
Job == {Idle} \cup [at : OrgStep, on : Orgs] \cup [at : {"revoke", "ungrant"}, on : Grants]
Visit == {Idle} \cup [at : {"create", "store"}, on : Orgs, by : Users]
                \cup [at : {"upsert", "disconnect"}, on : Channels, by : Users]
Customer == Users \cup {None, "clean", "deleted"}

TypeOK ==
  /\ account \in [Users -> {"live", "erased"}] /\ members \in [Orgs -> SUBSET Users]
  /\ customer \in [Orgs -> Customer] /\ stored \subseteq Orgs
  /\ topup \subseteq Orgs /\ recovery \in [Orgs -> {"none", "open", "resolved"}]
  /\ grant \in [Grants -> {"none", "live", "revoked"}]
  /\ token \in [Channels -> Users \cup {None}]
  /\ deletionBox \subseteq Orgs /\ scrubBox \subseteq Orgs /\ grantBox \subseteq Grants
  /\ worker \in [Workers -> Job] /\ visit \in Visit

(* An erased account is nobody's member, and a visit's user was a member.  *)
Membership ==
  /\ \A u \in Users, o \in Orgs : Gone(u) => u \notin members[o]
  /\ visit.at \in {"create", "store"} => Gone(visit.by) \/ visit.by \in members[visit.on]
  /\ visit.at = "upsert" => Gone(visit.by) \/ visit.by \in members[HomeOf[visit.on]]

(* Rows are for customers that are stored, deletions for organisations     *)
(* that are gone: they never come back.                                    *)
Rows ==
  /\ deletionBox \cup scrubBox \subseteq stored
  /\ \A o \in deletionBox : ~Alive(o)
  /\ \A o \in stored : customer[o] # None
  /\ visit.at = "store" => customer[visit.on] # None
JobOK(w) ==
  LET o == worker[w].on IN
  /\ worker[w].at \in OrgStep => o \in stored
  /\ worker[w].at \in {"cancel", "check", "del", "unlist"} => ~Alive(o)
  /\ worker[w].at = "del" => recovery[o] # "open"
  /\ worker[w].at = "unlist" => customer[o] = "deleted"
  /\ worker[w].at = "unscrub" => customer[o] \in {"clean", "deleted"}
Jobs == \A w \in Workers : JobOK(w)

(* Where a customer that is not stored yet, and the e-mail of one that is, *)
(* are accounted for.                                                      *)
Storing(o) == visit.at = "store" /\ visit.on = o
CustomersKept ==
  \A o \in Orgs :
    /\ customer[o] \in Users \cup {"clean"} => o \in late \cup stored \/ Storing(o)
    /\ o \in stored /\ ~Alive(o) => o \in deletionBox \/ customer[o] = "deleted"
MailsKept ==
  \A o \in Orgs : customer[o] \in Users =>
    \/ o \in late
    \/ Storing(o) /\ visit.by = customer[o]
    \/ o \in stored /\ (customer[o] \in members[o] \/ o \in scrubBox \cup deletionBox)

(* A grant that is live is in use, on its way in, or queued; one that is   *)
(* queued is never given again.                                            *)
Connecting(g) == visit.at = "upsert" /\ visit.on = g[1] /\ visit.by = g[2]
GrantsKept ==
  \A g \in Grants : grant[g] = "live" =>
    g \in late \cup grantBox \/ token[g[1]] = g[2] \/ Connecting(g)
TokensLive == \A c \in Channels : token[c] \in Users /\ Gone(token[c]) => <<c, token[c]>> \in late
Queued(g) == g \in grantBox \/ \E w \in Workers : /\ worker[w].at \in {"revoke", "ungrant"}
                                                  /\ worker[w].on = g
Spent == /\ \A g \in Grants : Queued(g) => g[2] \notin members[HomeOf[g[1]]]
         /\ \A w \in Workers : worker[w].at = "ungrant" => grant[worker[w].on] # "live"

Inv ==
  /\ TypeOK /\ Membership /\ Rows /\ Jobs
  /\ CustomersKept /\ MailsKept
  /\ GrantsKept /\ TokensLive /\ Spent

-----------------------------------------------------------------------------
(* Who changes what.                                                       *)
Serve(w) == \/ \E g \in Grants : ServeGrant(w, g)
            \/ \E o \in Orgs : ServeDeletion(w, o) \/ ServeScrub(w, o)
Drains(w) == Step(w) \/ Fail(w) \/ Serve(w)
Requests ==
  \/ CreateCustomer \/ StoreCustomer \/ UpsertChannelConnection \/ DeleteChannelRecords \/ Abandon
  \/ \E u \in Users : \/ \E o \in Orgs : OpenCheckout(u, o)
                      \/ \E c \in Channels : Connect(u, c) \/ Disconnect(u, c)
Payments == \E o \in Orgs : StartTopup(o) \/ EndTopup(o) \/ Recover(o)

LEMMA Steps ==
  ASSUME [Next]_vars
  PROVE  \/ UNCHANGED vars \/ Requests \/ Payments
         \/ \E u \in Users : Erase(u)
         \/ \E w \in Workers : Drains(w)
BY DEF Next, Requests, Payments, Drains, Serve

LEMMA DrainsFrame ==
  ASSUME NEW w \in Workers, Drains(w)
  PROVE  UNCHANGED <<accounts, stored, token, visit, late>>
<1>1. CASE Step(w)
  BY <1>1 DEF Step, CancelSubscriptions, CheckRecovery, DeleteCustomer, Unlist, Unscrub, Scrub,
              Revoke, Ungrant, Sparing
<1>2. CASE Fail(w) \/ Serve(w)
  BY <1>2 DEF Fail, Serve, ServeGrant, ServeDeletion, ServeScrub, Pick, Sparing
<1> QED BY <1>1, <1>2 DEF Drains

(* What a drain's step does to a customer, a grant, a row and its worker.  *)
Ends(w, o) == \/ Busy(w, "del") /\ worker[w].on = o
Cleans(w, o) == Busy(w, "scrub") /\ worker[w].on = o /\ customer[o] \in Users
CustomerMoves(w) ==
  /\ customer' \in [Orgs -> Customer]
  /\ \A o \in Orgs : \/ customer'[o] = customer[o]
                     \/ customer'[o] = "deleted" /\ Ends(w, o)
                     \/ customer'[o] = "clean" /\ Cleans(w, o)
GrantMoves(w) ==
  /\ grant' \in [Grants -> {"none", "live", "revoked"}]
  /\ \A g \in Grants : grant'[g] = grant[g] \/ grant'[g] = "revoked"
BoxMoves(w) ==
  /\ deletionBox' \in {deletionBox, deletionBox \ {worker[w].on}}
  /\ deletionBox' # deletionBox => Busy(w, "unlist")
  /\ scrubBox' \in {scrubBox, scrubBox \ {worker[w].on}}
  /\ scrubBox' # scrubBox => Busy(w, "unscrub")
  /\ grantBox' \in {grantBox, grantBox \ {worker[w].on}}
  /\ grantBox' # grantBox => Busy(w, "ungrant")
JobMoves(w) ==
  \E job \in Job :
    /\ worker' = [worker EXCEPT ![w] = job]
    /\ \/ job = Idle
       \/ /\ job.at = "cancel" /\ job.on \in deletionBox
       \/ /\ job.at = "scrub" /\ job.on \in scrubBox
       \/ /\ job.at = "revoke" /\ job.on \in grantBox
       \/ /\ job.on = worker[w].on
          /\ \/ job.at = "check" /\ Busy(w, "cancel")
             \/ job.at = "del" /\ Busy(w, "check") /\ recovery[job.on] # "open"
             \/ job.at = "unlist" /\ Busy(w, "del") /\ customer'[job.on] = "deleted"
             \/ job.at = "unscrub" /\ Busy(w, "unlist")
             \/ job.at = "unscrub" /\ Busy(w, "scrub") /\ customer'[job.on] \notin Users
             \/ job.at = "ungrant" /\ Busy(w, "revoke") /\ grant'[job.on] = "revoked"

LEMMA JobType ==
  ASSUME TypeOK, NEW w \in Workers
  PROVE  /\ worker[w].at \in OrgStep => worker[w] = [at |-> worker[w].at, on |-> worker[w].on]
                                        /\ worker[w].on \in Orgs
         /\ worker[w].at \in {"revoke", "ungrant"}
              => worker[w] = [at |-> worker[w].at, on |-> worker[w].on]
                 /\ worker[w].on \in Grants
         /\ worker[w].at \in OrgStep \cup {"revoke", "ungrant", "idle"}
BY DEF TypeOK, Job, Idle, OrgStep

LEMMA Goes ==
  ASSUME TypeOK, NEW w \in Workers,
         NEW from \in OrgStep, Busy(w, from), NEW to \in OrgStep, Go(w, to)
  PROVE  /\ [at |-> to, on |-> worker[w].on] \in Job
         /\ worker' = [worker EXCEPT ![w] = [at |-> to, on |-> worker[w].on]]
<1>1. worker[w] = [at |-> from, on |-> worker[w].on] /\ worker[w].on \in Orgs
  BY JobType DEF Busy
<1>2. [worker[w] EXCEPT !.at = to] = [at |-> to, on |-> worker[w].on]
  BY <1>1
<1>3. worker' = [worker EXCEPT ![w] = [worker[w] EXCEPT !.at = to]]
  BY DEF Go, TypeOK
<1> QED BY <1>1, <1>2, <1>3 DEF Job

LEMMA DrainEffect ==
  ASSUME TypeOK, NEW w \in Workers, Drains(w)
  PROVE  CustomerMoves(w) /\ GrantMoves(w) /\ BoxMoves(w) /\ JobMoves(w)
<1> USE DEF Sparing, boxes
<1>1. Idle \in Job
  BY DEF Job
<1>2. UNCHANGED customer => CustomerMoves(w)
  BY DEF CustomerMoves, TypeOK
<1>3. UNCHANGED grant => GrantMoves(w)
  BY DEF GrantMoves, TypeOK
<1>4. UNCHANGED boxes => BoxMoves(w)
  BY DEF BoxMoves
<1>5. Rest(w) => JobMoves(w)
  BY <1>1 DEF Rest, JobMoves
<1>6. CASE Serve(w)
  <2>1. PICK kind, x : /\ Pick(w, kind, x)
                       /\ \/ kind = "cancel" /\ x \in deletionBox
                          \/ kind = "scrub" /\ x \in scrubBox
                          \/ kind = "revoke" /\ x \in grantBox
    BY <1>6 DEF Serve, ServeGrant, ServeDeletion, ServeScrub
  <2>2. [at |-> kind, on |-> x] \in Job
    <3>1. CASE x \in Orgs /\ kind \in OrgStep
      BY <3>1 DEF Job
    <3>2. CASE x \in Grants /\ kind = "revoke"
      BY <3>2 DEF Job
    <3> QED BY <2>1, <3>1, <3>2 DEF TypeOK, OrgStep
  <2>3. JobMoves(w)
    BY <2>1, <2>2 DEF Pick, JobMoves
  <2> QED BY <1>2, <1>3, <1>4, <2>1, <2>3 DEF Pick
<1>7. CASE CancelSubscriptions(w)
  <2>1. Go(w, "check") => JobMoves(w)
    BY <1>7, Goes DEF CancelSubscriptions, JobMoves, OrgStep
  <2> QED BY <1>2, <1>3, <1>4, <1>5, <1>7, <2>1 DEF CancelSubscriptions
<1>8. CASE CheckRecovery(w)
  <2>1. Go(w, "del") /\ ~Deferred(worker[w].on) => JobMoves(w)
    BY <1>8, Goes DEF CheckRecovery, JobMoves, OrgStep, Deferred
  <2> QED BY <1>2, <1>3, <1>4, <1>5, <1>8, <2>1 DEF CheckRecovery
<1>9. CASE DeleteCustomer(w)
  <2>1. worker[w].on \in Orgs
    BY <1>9, JobType DEF DeleteCustomer, Busy, OrgStep
  <2>2. CustomerMoves(w) /\ customer'[worker[w].on] = "deleted"
    BY <1>9, <2>1 DEF DeleteCustomer, CustomerMoves, TypeOK, Ends, Customer
  <2> DEFINE job == [at |-> "unlist", on |-> worker[w].on]
  <2>3. /\ job \in Job /\ worker' = [worker EXCEPT ![w] = job] /\ Busy(w, "del")
        /\ job.at = "unlist" /\ job.on = worker[w].on
    BY <1>9, Goes DEF DeleteCustomer, OrgStep
  <2> HIDE DEF job
  <2>4. JobMoves(w)
    BY <2>2, <2>3 DEF JobMoves
  <2> QED BY <1>3, <1>4, <1>9, <2>2, <2>4 DEF DeleteCustomer
<1>10. CASE Unlist(w)
  <2>1. JobMoves(w)
    BY <1>10, Goes DEF Unlist, JobMoves, OrgStep
  <2> QED BY <1>2, <1>3, <1>10, <2>1 DEF Unlist, BoxMoves
<1>11. CASE Unscrub(w)
  BY <1>2, <1>3, <1>5, <1>11 DEF Unscrub, BoxMoves
<1>12. CASE Scrub(w)
  <2>1. worker[w].on \in Orgs
    BY <1>12, JobType DEF Scrub, Busy, OrgStep
  <2>2. CustomerMoves(w) /\ customer'[worker[w].on] \notin Users
    BY <1>12, <2>1, ConstantsOK DEF Scrub, CustomerMoves, TypeOK, Cleans, Customer
  <2> DEFINE job == [at |-> "unscrub", on |-> worker[w].on]
  <2>3. /\ job \in Job /\ worker' = [worker EXCEPT ![w] = job] /\ Busy(w, "scrub")
        /\ job.at = "unscrub" /\ job.on = worker[w].on
    BY <1>12, Goes DEF Scrub, OrgStep
  <2> HIDE DEF job
  <2>4. JobMoves(w)
    BY <2>2, <2>3 DEF JobMoves
  <2> QED BY <1>3, <1>4, <1>12, <2>2, <2>4 DEF Scrub
<1>13. CASE Revoke(w)
  <2>1. worker[w].on \in Grants /\ worker[w] = [at |-> "revoke", on |-> worker[w].on]
    BY <1>13, JobType DEF Revoke, Busy
  <2>2. GrantMoves(w) /\ grant'[worker[w].on] = "revoked"
    BY <1>13, <2>1 DEF Revoke, GrantMoves, TypeOK
  <2>3. Go(w, "ungrant") => JobMoves(w)
    <3>1. [worker[w] EXCEPT !.at = "ungrant"] = [at |-> "ungrant", on |-> worker[w].on]
          /\ [at |-> "ungrant", on |-> worker[w].on] \in Job
      BY <2>1 DEF Job
    <3>2. Go(w, "ungrant")
            => worker' = [worker EXCEPT ![w] = [worker[w] EXCEPT !.at = "ungrant"]]
      BY DEF Go, TypeOK
    <3> QED BY <1>13, <2>2, <3>1, <3>2 DEF Revoke, JobMoves
  <2> QED BY <1>2, <1>4, <1>5, <1>13, <2>2, <2>3 DEF Revoke
<1>14. CASE Ungrant(w)
  BY <1>2, <1>3, <1>5, <1>14 DEF Ungrant, BoxMoves
<1>15. CASE Fail(w)
  <2>1. PICK done \in BOOLEAN :
       /\ customer' = IF done /\ Busy(w, "del") THEN [customer EXCEPT ![worker[w].on] = "deleted"]
                      ELSE IF done /\ Busy(w, "scrub") /\ customer[worker[w].on] \in Users
                        THEN [customer EXCEPT ![worker[w].on] = "clean"] ELSE customer
       /\ grant' = IF done /\ Busy(w, "revoke") THEN [grant EXCEPT ![worker[w].on] = "revoked"] ELSE grant
    BY <1>15 DEF Fail
  <2>2. CustomerMoves(w)
    BY <2>1 DEF CustomerMoves, TypeOK, Ends, Cleans, Customer
  <2>3. GrantMoves(w)
    BY <2>1 DEF GrantMoves, TypeOK
  <2>4. UNCHANGED boxes
    BY <1>15 DEF Fail, Forgotten
  <2> QED BY <1>4, <1>5, <1>15, <2>2, <2>3, <2>4 DEF Fail
<1> QED BY <1>6, <1>7, <1>8, <1>9, <1>10, <1>11, <1>12, <1>13, <1>14, <1>15 DEF Drains, Step

-----------------------------------------------------------------------------
(* Types.                                                                  *)
LEMMA VisitType ==
  ASSUME TypeOK
  PROVE  /\ visit.at \in {"create", "store"} => visit.on \in Orgs /\ visit.by \in Users
         /\ visit.at \in {"upsert", "disconnect"} => visit.on \in Channels /\ visit.by \in Users
         /\ visit = Idle \/ visit.at \in {"create", "store", "upsert", "disconnect"}
         /\ Idle.at = "idle"
BY DEF TypeOK, Visit, Idle

LEMMA Pairs ==
  /\ \A g \in Grants : g = <<g[1], g[2]>> /\ g[1] \in Channels /\ g[2] \in Users
  /\ \A c \in Channels, u \in Users :
       <<c, u>> \in Grants /\ <<c, u>>[1] = c /\ <<c, u>>[2] = u
BY DEF Grants

LEMMA RequestsType ==
  ASSUME TypeOK, Requests
  PROVE  TypeOK'
<1> USE DEF accounts, boxes, Enter
<1>1. \A u \in Users : None # u
  BY ConstantsOK
<1>2. CASE CreateCustomer
  <2>1. visit = [at |-> "create", on |-> visit.on, by |-> visit.by]
    BY <1>2 DEF CreateCustomer, TypeOK, Visit, Idle
  <2>2. [visit EXCEPT !.at = "store"] = [at |-> "store", on |-> visit.on, by |-> visit.by]
    BY <2>1
  <2>3. visit' \in Visit
    BY <1>2, <2>2, VisitType DEF CreateCustomer, Visit
  <2>4. customer' \in [Orgs -> Customer]
    BY <1>2, VisitType DEF CreateCustomer, TypeOK, Customer
  <2> QED BY <1>2, <2>3, <2>4 DEF CreateCustomer, TypeOK
<1>3. CASE StoreCustomer
  BY <1>3, VisitType DEF StoreCustomer, TypeOK, Visit
<1>4. CASE UpsertChannelConnection
  BY <1>4, VisitType DEF UpsertChannelConnection, TypeOK, Visit
<1>5. CASE DeleteChannelRecords
  BY <1>5, VisitType DEF DeleteChannelRecords, TypeOK, Visit
<1>6. CASE Abandon
  BY <1>6 DEF Abandon, TypeOK, Visit
<1>7. ASSUME NEW u \in Users, NEW o \in Orgs, OpenCheckout(u, o) PROVE TypeOK'
  BY <1>7 DEF OpenCheckout, TypeOK, Visit
<1>8. ASSUME NEW u \in Users, NEW c \in Channels, Connect(u, c) PROVE TypeOK'
  BY <1>8 DEF Connect, TypeOK, Visit
<1>9. ASSUME NEW u \in Users, NEW c \in Channels, Disconnect(u, c) PROVE TypeOK'
  BY <1>9 DEF Disconnect, TypeOK, Visit
<1> QED BY <1>2, <1>3, <1>4, <1>5, <1>6, <1>7, <1>8, <1>9 DEF Requests

LEMMA EraseType ==
  ASSUME TypeOK, NEW u \in Users, Erase(u)
  PROVE  TypeOK'
<1>1. Captured(u) \subseteq Channels /\ \A c \in Captured(u) : <<c, token[c]>> \in Grants
  BY DEF Captured, Grants
<1>2. grantBox' \subseteq Grants
  BY <1>1 DEF Erase, TypeOK
<1>3. recovery' \in [Orgs -> {"none", "open", "resolved"}]
  BY DEF Erase, TypeOK
<1>4. members' \in [Orgs -> SUBSET Users] /\ account' \in [Users -> {"live", "erased"}]
  BY DEF Erase, TypeOK
<1>5. token' \in [Channels -> Users \cup {None}]
  BY DEF Erase, TypeOK
<1> QED BY <1>2, <1>3, <1>4, <1>5 DEF Erase, TypeOK

LEMMA TypeStep ==
  ASSUME TypeOK, [Next]_vars
  PROVE  TypeOK'
<1>1. CASE UNCHANGED vars
  BY <1>1 DEF vars, accounts, boxes, TypeOK
<1>2. CASE Payments
  BY <1>2 DEF Payments, StartTopup, EndTopup, Recover, boxes, TypeOK
<1>3. ASSUME NEW w \in Workers, Drains(w) PROVE TypeOK'
  <2>1. UNCHANGED <<account, members, topup, recovery, stored, token, visit, late>>
    BY <1>3, DrainsFrame DEF accounts
  <2>2. worker' \in [Workers -> Job]
    BY <1>3, DrainEffect DEF JobMoves, TypeOK
  <2>3. deletionBox' \subseteq Orgs /\ scrubBox' \subseteq Orgs /\ grantBox' \subseteq Grants
    BY <1>3, DrainEffect DEF BoxMoves, TypeOK
  <2> QED BY <1>3, <2>1, <2>2, <2>3, DrainEffect DEF CustomerMoves, GrantMoves, TypeOK
<1> QED BY <1>1, <1>2, <1>3, Steps, RequestsType, EraseType

-----------------------------------------------------------------------------
(* Members and rows.                                                       *)
LEMMA AccountsFrame ==
  ASSUME [Next]_vars
  PROVE  \/ UNCHANGED <<account, members>> \/ \E u \in Users : Erase(u)
<1>1. CASE Requests
  BY <1>1 DEF Requests, CreateCustomer, StoreCustomer, UpsertChannelConnection,
              DeleteChannelRecords, Abandon, OpenCheckout, Connect, Disconnect, accounts
<1>2. CASE Payments
  BY <1>2 DEF Payments, StartTopup, EndTopup, Recover
<1>3. CASE \E w \in Workers : Drains(w)
  BY <1>3, DrainsFrame DEF accounts
<1> QED BY <1>1, <1>2, <1>3, Steps DEF vars, accounts

LEMMA MembersShrink ==
  ASSUME TypeOK, [Next]_vars
  PROVE  /\ \A o \in Orgs : members'[o] \subseteq members[o]
         /\ \A o \in Orgs : ~Alive(o) => ~Alive(o)'
         /\ \A u \in Users : Gone(u) => Gone(u)'
         /\ \A u \in Users, o \in Orgs : u \in members[o] => u \in members'[o] \/ Gone(u)'
<1>1. CASE UNCHANGED <<account, members>>
  BY <1>1 DEF Alive, Gone
<1>2. ASSUME NEW v \in Users, Erase(v)
      PROVE  /\ \A o \in Orgs : members'[o] = members[o] \ {v}
             /\ account' = [account EXCEPT ![v] = "erased"]
  BY <1>2 DEF Erase
<1>3. CASE \E v \in Users : Erase(v)
  BY <1>2, <1>3 DEF Alive, Gone, TypeOK
<1> QED BY <1>1, <1>3, AccountsFrame

LEMMA MembershipStep ==
  ASSUME TypeOK, Membership, [Next]_vars
  PROVE  Membership'
<1>1. \A u \in Users, o \in Orgs : Gone(u)' => u \notin members'[o]
  <2>1. CASE UNCHANGED <<account, members>>
    BY <2>1 DEF Membership, Gone
  <2>2. CASE \E v \in Users : Erase(v)
    BY <2>2 DEF Membership, Gone, Erase, TypeOK
  <2> QED BY <2>1, <2>2, AccountsFrame
<1>2. CASE visit' = visit
  <2>1. /\ visit.at \in {"create", "store"} => visit.on \in Orgs /\ visit.by \in Users
        /\ visit.at = "upsert" => HomeOf[visit.on] \in Orgs /\ visit.by \in Users
    BY VisitType, ConstantsOK
  <2> QED BY <1>1, <1>2, <2>1, MembersShrink DEF Membership, Gone
<1>3. ASSUME visit' # visit, Requests
      PROVE  /\ members' = members /\ account' = account
             /\ \/ visit' = Idle
                \/ CreateCustomer
                \/ \E u \in Users, o \in Orgs : u \in members[o] /\ Enter("create", u, o)
                \/ \E u \in Users, c \in Channels :
                     u \in members[HomeOf[c]] /\ (Enter("upsert", u, c) \/ Disconnect(u, c))
  BY <1>3 DEF Requests, CreateCustomer, StoreCustomer, UpsertChannelConnection,
              DeleteChannelRecords, Abandon, OpenCheckout, Connect, Disconnect, accounts
<1>4. CASE visit' # visit /\ CreateCustomer
  <2>1. visit' = [visit EXCEPT !.at = "store"] /\ visit.at = "create"
    BY <1>4 DEF CreateCustomer
  <2>2. visit = [at |-> "create", on |-> visit.on, by |-> visit.by]
    BY <2>1 DEF TypeOK, Visit, Idle
  <2>3. visit' = [at |-> "store", on |-> visit.on, by |-> visit.by]
    BY <2>1, <2>2
  <2> QED BY <1>1, <1>4, <2>1, <2>3 DEF Membership, Gone, CreateCustomer, accounts
<1>5. ASSUME visit' # visit, visit' = Idle PROVE Membership'
  BY <1>1, <1>5 DEF Membership, Idle
<1>6. ASSUME visit' # visit, members' = members,
             \/ \E u \in Users, o \in Orgs : u \in members[o] /\ Enter("create", u, o)
             \/ \E u \in Users, c \in Channels :
                  u \in members[HomeOf[c]] /\ (Enter("upsert", u, c) \/ Disconnect(u, c))
      PROVE  Membership'
  <2>1. CASE \E u \in Users, o \in Orgs : u \in members[o] /\ Enter("create", u, o)
    <3>1. PICK u \in Users, o \in Orgs :
            u \in members'[o] /\ visit' = [at |-> "create", on |-> o, by |-> u]
      BY <1>6, <2>1 DEF Enter
    <3>2. visit'.at = "create" /\ visit'.on = o /\ visit'.by = u
      BY <3>1
    <3> QED BY <1>1, <3>1, <3>2 DEF Membership
  <2>2. CASE \E u \in Users, c \in Channels :
               u \in members[HomeOf[c]] /\ (Enter("upsert", u, c) \/ Disconnect(u, c))
    <3>1. PICK u \in Users, c \in Channels, at \in {"upsert", "disconnect"} :
            u \in members'[HomeOf[c]] /\ visit' = [at |-> at, on |-> c, by |-> u]
      BY <1>6, <2>2 DEF Enter, Disconnect
    <3>2. visit'.at = at /\ visit'.on = c /\ visit'.by = u
      BY <3>1
    <3> QED BY <1>1, <3>1, <3>2 DEF Membership
  <2> QED BY <1>6, <2>1, <2>2
<1>7. ASSUME visit' # visit PROVE Requests
  <2>1. CASE \E u \in Users : Erase(u)
    BY <1>7, <2>1 DEF Erase
  <2>2. CASE Payments
    BY <1>7, <2>2 DEF Payments, StartTopup, EndTopup, Recover
  <2>3. CASE \E w \in Workers : Drains(w)
    BY <1>7, <2>3, DrainsFrame
  <2> QED BY <1>7, <2>1, <2>2, <2>3, Steps DEF vars
<1> QED BY <1>2, <1>3, <1>4, <1>5, <1>6, <1>7

-----------------------------------------------------------------------------
(* What the requests change of a customer, a grant and a token.            *)
LEMMA StoredFrame ==
  ASSUME [Next]_vars
  PROVE  /\ UNCHANGED stored \/ StoreCustomer
         /\ UNCHANGED late \/ StoreCustomer \/ UpsertChannelConnection
              \/ DeleteChannelRecords \/ Abandon
         /\ UNCHANGED visit \/ Requests
         /\ UNCHANGED customer \/ CreateCustomer \/ \E w \in Workers : Drains(w)
         /\ UNCHANGED boxes \/ (\E u \in Users : Erase(u)) \/ \E w \in Workers : Drains(w)
         /\ UNCHANGED worker \/ \E w \in Workers : Drains(w)
         /\ UNCHANGED token \/ UpsertChannelConnection \/ DeleteChannelRecords
              \/ \E u \in Users : Erase(u)
         /\ UNCHANGED grant \/ (\E u \in Users, c \in Channels : Connect(u, c) \/ Disconnect(u, c))
              \/ \E w \in Workers : Drains(w)
<1>1. CASE UNCHANGED vars
  BY <1>1 DEF vars, boxes
<1>2. CASE Requests
  BY <1>2 DEF Requests, CreateCustomer, StoreCustomer, UpsertChannelConnection,
              DeleteChannelRecords, Abandon, OpenCheckout, Connect, Disconnect
<1>3. CASE Payments
  BY <1>3 DEF Payments, StartTopup, EndTopup, Recover
<1>4. CASE \E u \in Users : Erase(u)
  BY <1>4 DEF Erase
<1>5. CASE \E w \in Workers : Drains(w)
  BY <1>5, DrainsFrame
<1> QED BY <1>1, <1>2, <1>3, <1>4, <1>5, Steps

(* Nothing a provider lost comes back to be named.                         *)
LEMMA CustomerStays ==
  ASSUME TypeOK, [Next]_vars, NEW o \in Orgs
  PROVE  /\ customer[o] # None => customer'[o] # None
         /\ customer[o] = "deleted" => customer'[o] = "deleted"
         /\ customer[o] \in {"clean", "deleted"} => customer'[o] \in {"clean", "deleted"}
<1>1. CASE UNCHANGED customer
  BY <1>1
<1>2. CASE CreateCustomer
  BY <1>2, ConstantsOK DEF CreateCustomer, TypeOK
<1>3. CASE \E w \in Workers : Drains(w)
  BY <1>3, DrainEffect, ConstantsOK DEF CustomerMoves, Cleans
<1> QED BY <1>1, <1>2, <1>3, StoredFrame

LEMMA StoredGrows ==
  ASSUME [Next]_vars
  PROVE  stored \subseteq stored' /\ late \subseteq late'
BY StoredFrame DEF StoreCustomer, UpsertChannelConnection, DeleteChannelRecords, Abandon

LEMMA RowsStep ==
  ASSUME TypeOK, Membership, Rows, Jobs, CustomersKept, [Next]_vars
  PROVE  Rows'
<1>1. /\ deletionBox' \cup scrubBox' \subseteq stored'
      /\ \A o \in deletionBox' : ~Alive(o)'
  <2>1. CASE UNCHANGED boxes
    BY <2>1, StoredGrows, MembersShrink DEF boxes, Rows, TypeOK
  <2>2. ASSUME NEW u \in Users, Erase(u)
        PROVE  /\ deletionBox' \cup scrubBox' \subseteq stored'
               /\ \A o \in deletionBox' : ~Alive(o)'
    BY <2>2, MembersShrink DEF Erase, Rows, TypeOK, Surviving, Dissolved, Alive
  <2>3. ASSUME NEW w \in Workers, Drains(w)
        PROVE  /\ deletionBox' \cup scrubBox' \subseteq stored'
               /\ \A o \in deletionBox' : ~Alive(o)'
    BY <2>3, DrainEffect, DrainsFrame, MembersShrink DEF BoxMoves, Rows, TypeOK
  <2> QED BY <2>1, <2>2, <2>3, StoredFrame
<1>2. \A o \in stored' : customer'[o] # None
  <2>1. CASE UNCHANGED stored
    BY <2>1, CustomerStays DEF Rows, TypeOK
  <2>2. CASE StoreCustomer
    BY <2>2, CustomerStays DEF StoreCustomer, Rows, TypeOK
  <2> QED BY <2>1, <2>2, StoredFrame
<1>3. visit'.at = "store" => customer'[visit'.on] # None
  <2>1. CASE UNCHANGED visit
    BY <2>1, VisitType, CustomerStays DEF Rows
  <2>2. CASE CreateCustomer
    <3>1. visit.on \in Orgs /\ visit.by \in Users /\ visit'.on = visit.on
      BY <2>2, VisitType DEF CreateCustomer, TypeOK, Visit, Idle
    <3> QED BY <2>2, <3>1, ConstantsOK DEF CreateCustomer, TypeOK
  <2>3. CASE Requests /\ ~CreateCustomer
    <3>1. \/ visit' = Idle
          \/ \E kind \in {"create", "upsert", "disconnect"} : \E on, u :
               visit' = [at |-> kind, on |-> on, by |-> u]
      BY <2>3 DEF Requests, StoreCustomer, UpsertChannelConnection, DeleteChannelRecords,
                  Abandon, OpenCheckout, Connect, Disconnect, Enter
    <3>2. visit'.at # "store"
      BY <3>1 DEF Idle
    <3> QED BY <3>2
  <2> QED BY <2>1, <2>2, <2>3, StoredFrame
<1> QED BY <1>1, <1>2, <1>3 DEF Rows

LEMMA RecoverySettled ==
  ASSUME TypeOK, [Next]_vars, NEW o \in Orgs, ~Alive(o), recovery[o] # "open"
  PROVE  recovery'[o] # "open"
<1>1. CASE Requests
  BY <1>1 DEF Requests, CreateCustomer, StoreCustomer, UpsertChannelConnection,
              DeleteChannelRecords, Abandon, OpenCheckout, Connect, Disconnect, accounts
<1>2. CASE Payments
  BY <1>2 DEF Payments, StartTopup, EndTopup, Recover, TypeOK
<1>3. ASSUME NEW u \in Users, Erase(u) PROVE recovery'[o] # "open"
  <2>1. o \notin Dissolved(u)
    BY DEF Dissolved, Alive
  <2> QED BY <1>3, <2>1 DEF Erase
<1>4. CASE \E w \in Workers : Drains(w)
  BY <1>4, DrainsFrame DEF accounts
<1> QED BY <1>1, <1>2, <1>3, <1>4, Steps DEF vars, accounts

LEMMA JobsStep ==
  ASSUME TypeOK, Rows, Jobs, [Next]_vars
  PROVE  Jobs'
<1> SUFFICES ASSUME NEW v \in Workers PROVE JobOK(v)'
  BY DEF Jobs
<1> DEFINE o == worker[v].on
<1>1. worker[v].at \in OrgStep => o \in Orgs
  BY JobType
<1>2. JobOK(v)
  BY DEF Jobs
<1>3. CASE worker'[v] = worker[v]
  <2>1. worker[v].at \in OrgStep => o \in stored'
    BY <1>2, StoredGrows DEF JobOK
  <2>2. worker[v].at \in {"cancel", "check", "del", "unlist"} => ~Alive(o) /\ members'[o] = {}
    BY <1>1, <1>2, MembersShrink DEF JobOK, OrgStep, Alive
  <2>3. worker[v].at = "del" => recovery'[o] # "open"
    BY <1>1, <1>2, <2>2, RecoverySettled DEF JobOK, OrgStep
  <2>4. /\ worker[v].at = "unlist" => customer'[o] = "deleted"
        /\ worker[v].at = "unscrub" => customer'[o] \in {"clean", "deleted"}
    BY <1>1, <1>2, CustomerStays DEF JobOK, OrgStep
  <2> QED BY <1>3, <2>1, <2>2, <2>3, <2>4 DEF JobOK, Alive
<1>4. ASSUME NEW w \in Workers, Drains(w), worker'[v] # worker[v]
      PROVE  v = w /\ JobMoves(v) /\ CustomerMoves(v) /\ UNCHANGED <<members, recovery, stored>>
  BY <1>4, DrainEffect, DrainsFrame DEF JobMoves, TypeOK, accounts
<1>5. ASSUME JobMoves(v), CustomerMoves(v), UNCHANGED <<members, recovery, stored>>
      PROVE  JobOK(v)'
  <2>1. PICK job \in Job : worker' = [worker EXCEPT ![v] = job] /\
          \/ job = Idle
          \/ job.at = "cancel" /\ job.on \in deletionBox
          \/ job.at = "scrub" /\ job.on \in scrubBox
          \/ job.at = "revoke" /\ job.on \in grantBox
          \/ /\ job.on = worker[v].on
             /\ \/ job.at = "check" /\ Busy(v, "cancel")
                \/ job.at = "del" /\ Busy(v, "check") /\ recovery[job.on] # "open"
                \/ job.at = "unlist" /\ Busy(v, "del") /\ customer'[job.on] = "deleted"
                \/ job.at = "unscrub" /\ Busy(v, "unlist")
                \/ job.at = "unscrub" /\ Busy(v, "scrub") /\ customer'[job.on] \notin Users
                \/ job.at = "ungrant" /\ Busy(v, "revoke") /\ grant'[job.on] = "revoked"
    BY <1>5 DEF JobMoves
  <2>2. worker'[v] = job
    BY <2>1 DEF TypeOK
  <2>3. CASE job = Idle
    BY <2>2, <2>3 DEF Idle, OrgStep, JobOK
  <2>4. CASE job.at = "cancel" /\ job.on \in deletionBox
    <3>1. job.on \in stored' /\ members'[job.on] = {}
      BY <1>5, <2>4 DEF Rows, Alive
    <3> QED BY <2>2, <2>4, <3>1 DEF JobOK, Alive
  <2>5. CASE job.at = "scrub" /\ job.on \in scrubBox
    BY <1>5, <2>2, <2>5 DEF Rows, JobOK
  <2>6. CASE job.at \in {"revoke", "ungrant"}
    BY <2>2, <2>6 DEF OrgStep, JobOK
  <2>7. CASE \/ job.at = "check" /\ Busy(v, "cancel") /\ job.on = o
             \/ job.at = "del" /\ Busy(v, "check") /\ recovery[job.on] # "open" /\ job.on = o
             \/ job.at = "unlist" /\ Busy(v, "del") /\ customer'[job.on] = "deleted" /\ job.on = o
    <3>1. o \in stored' /\ members'[o] = {} /\ recovery' = recovery
      BY <1>2, <1>5, <2>7 DEF Busy, JobOK, OrgStep, Alive
    <3> HIDE DEF o
    <3> QED BY <2>2, <2>7, <3>1 DEF JobOK, Alive
  <2>8. CASE job.at = "unscrub" /\ Busy(v, "unlist") /\ job.on = o
    <3>1. o \in stored' /\ customer'[o] = "deleted"
      BY <1>1, <1>2, <1>5, <2>8, CustomerStays DEF Busy, JobOK, OrgStep
    <3> QED BY <2>2, <2>8, <3>1 DEF JobOK
  <2>9. CASE job.at = "unscrub" /\ Busy(v, "scrub") /\ customer'[job.on] \notin Users /\ job.on = o
    <3>1. o \in stored /\ o \in Orgs /\ customer[o] # None
      BY <1>1, <1>2, <2>9 DEF Busy, JobOK, OrgStep, Rows
    <3>2. customer'[o] \in {"clean", "deleted"}
      BY <1>5, <2>9, <3>1, CustomerStays DEF CustomerMoves, Customer
    <3> QED BY <1>5, <2>2, <2>9, <3>1, <3>2 DEF JobOK
  <2> QED BY <2>1, <2>3, <2>4, <2>5, <2>6, <2>7, <2>8, <2>9
<1>6. CASE UNCHANGED worker
  BY <1>3, <1>6
<1> QED BY <1>3, <1>4, <1>5, <1>6, StoredFrame

-----------------------------------------------------------------------------
(* Customers and e-mails.                                                  *)
LEMMA VisitMoves ==
  ASSUME [Next]_vars, visit' # visit
  PROVE  \/ visit = Idle \/ CreateCustomer \/ StoreCustomer \/ UpsertChannelConnection
         \/ DeleteChannelRecords \/ Abandon
<1>1. Requests
  BY StoredFrame
<1> QED BY <1>1 DEF Requests, OpenCheckout, Connect, Disconnect, Enter

(* A customer that is being stored ends up stored for someone, or late.    *)
LEMMA StoringEnds ==
  ASSUME TypeOK, Membership, [Next]_vars, NEW o \in Orgs, Storing(o), ~Storing(o)' \/ visit' # visit
  PROVE  \/ o \in late'
         \/ /\ o \in stored' /\ UNCHANGED accounts /\ ~Gone(visit.by)
            /\ visit.by \in members[o]
<1>1. visit' # visit
  BY DEF Storing
<1>2. visit.at = "store" /\ visit.on = o /\ visit # Idle /\ visit.by \in Users
  BY VisitType DEF Storing
<1>3. CASE StoreCustomer
  <2>1. CASE Gone(visit.by)
    BY <1>2, <1>3, <2>1 DEF StoreCustomer, Outlived, Gone
  <2>2. CASE ~Gone(visit.by)
    BY <1>2, <1>3, <2>2 DEF StoreCustomer, Membership, Alive
  <2> QED BY <2>1, <2>2
<1>4. CASE Abandon
  BY <1>2, <1>4 DEF Abandon
<1> QED BY <1>1, <1>2, <1>3, <1>4, VisitMoves
      DEF CreateCustomer, UpsertChannelConnection, DeleteChannelRecords

(* A row goes only when what it stands for is done.                        *)
LEMMA BoxesKept ==
  ASSUME TypeOK, Jobs, [Next]_vars, NEW o \in Orgs
  PROVE  /\ o \in deletionBox => o \in deletionBox' \/ customer[o] = "deleted"
         /\ o \in scrubBox => o \in scrubBox' \/ customer[o] \in {"clean", "deleted"}
<1>1. CASE UNCHANGED boxes
  BY <1>1 DEF boxes
<1>2. CASE \E u \in Users : Erase(u)
  BY <1>2 DEF Erase
<1>3. ASSUME NEW w \in Workers, Drains(w)
      PROVE  /\ o \in deletionBox => o \in deletionBox' \/ customer[o] = "deleted"
             /\ o \in scrubBox => o \in scrubBox' \/ customer[o] \in {"clean", "deleted"}
  BY <1>3, DrainEffect DEF BoxMoves, Busy, Jobs, JobOK
<1> QED BY <1>1, <1>2, <1>3, StoredFrame

(* A customer is named by what it was, or by the checkout that creates it. *)
LEMMA CustomerMoved ==
  ASSUME TypeOK, [Next]_vars, NEW o \in Orgs, customer'[o] \in Users \cup {"clean"}
  PROVE  \/ customer'[o] = customer[o]
         \/ customer[o] \in Users /\ customer'[o] = "clean"
         \/ CreateCustomer /\ Storing(o)' /\ visit'.by = customer'[o]
<1>1. CASE CreateCustomer
  <2>1. visit' = [at |-> "store", on |-> visit.on, by |-> visit.by]
    <3>1. visit = [at |-> "create", on |-> visit.on, by |-> visit.by]
      BY <1>1 DEF CreateCustomer, TypeOK, Visit, Idle
    <3> QED BY <1>1, <3>1 DEF CreateCustomer
  <2>2. visit'.at = "store" /\ visit'.on = visit.on /\ visit'.by = visit.by
    BY <2>1
  <2> QED BY <1>1, <2>2 DEF CreateCustomer, TypeOK, Storing
<1>2. ASSUME NEW w \in Workers, Drains(w)
      PROVE  \/ customer'[o] = customer[o]
             \/ customer[o] \in Users /\ customer'[o] = "clean"
  BY <1>2, DrainEffect, ConstantsOK DEF CustomerMoves, Cleans
<1> QED BY <1>1, <1>2, StoredFrame

LEMMA CustomersStep ==
  ASSUME TypeOK, Membership, Jobs, CustomersKept, [Next]_vars
  PROVE  CustomersKept'
<1> SUFFICES ASSUME NEW o \in Orgs
             PROVE  /\ customer'[o] \in Users \cup {"clean"} => o \in late' \cup stored' \/ Storing(o)'
                    /\ o \in stored' /\ ~Alive(o)' => o \in deletionBox' \/ customer'[o] = "deleted"
  BY DEF CustomersKept
<1>1. ASSUME customer'[o] \in Users \cup {"clean"}
      PROVE  o \in late' \cup stored' \/ Storing(o)'
  <2>1. CASE CreateCustomer /\ Storing(o)'
    BY <2>1
  <2>2. CASE customer[o] \in Users \cup {"clean"}
    BY <2>2, StoringEnds, StoredGrows DEF CustomersKept
  <2> QED BY <1>1, <2>1, <2>2, CustomerMoved
<1>2. ASSUME o \in stored', ~Alive(o)'
      PROVE  o \in deletionBox' \/ customer'[o] = "deleted"
  <2>1. CASE o \notin stored
    <3>1. StoreCustomer
      BY <1>2, <2>1, StoredFrame
    <3> QED BY <1>2, <2>1, <3>1 DEF StoreCustomer, accounts, Alive
  <2>2. CASE o \in stored /\ ~Alive(o)
    BY <2>2, BoxesKept, CustomerStays DEF CustomersKept
  <2>3. CASE o \in stored /\ Alive(o)
    <3>1. PICK u \in Users : Erase(u)
      BY <1>2, <2>3, AccountsFrame DEF Alive
    <3>2. o \in Dissolved(u)
      BY <1>2, <2>3, <3>1 DEF Erase, Alive, Dissolved
    <3> QED BY <2>3, <3>1, <3>2 DEF Erase
  <2> QED BY <2>1, <2>2, <2>3
<1> QED BY <1>1, <1>2

LEMMA MailsStep ==
  ASSUME TypeOK, Membership, Jobs, MailsKept, [Next]_vars
  PROVE  MailsKept'
<1> SUFFICES ASSUME NEW o \in Orgs, customer'[o] \in Users
             PROVE  \/ o \in late'
                    \/ Storing(o)' /\ visit'.by = customer'[o]
                    \/ /\ o \in stored'
                       /\ customer'[o] \in members'[o] \/ o \in scrubBox' \cup deletionBox'
  BY DEF MailsKept
<1>1. CASE CreateCustomer /\ Storing(o)' /\ visit'.by = customer'[o]
  BY <1>1
<1>2. CASE customer'[o] = customer[o]
  <2>1. CASE o \in late
    BY <2>1, StoredGrows
  <2>2. CASE Storing(o) /\ visit.by = customer[o]
    BY <1>2, <2>2, StoringEnds DEF accounts
  <2>3. CASE o \in stored /\ customer[o] \in members[o]
    <3>1. CASE UNCHANGED members
      BY <1>2, <2>3, <3>1, StoredGrows
    <3>2. ASSUME NEW u \in Users, Erase(u)
          PROVE  customer[o] \in members'[o] \/ o \in scrubBox' \cup deletionBox'
      BY <2>3, <3>2 DEF Erase, Surviving, Dissolved
    <3> QED BY <1>2, <2>3, <3>1, <3>2, StoredGrows, AccountsFrame
  <2>4. CASE o \in stored /\ o \in scrubBox \cup deletionBox
    BY <1>2, <2>4, BoxesKept, StoredGrows, ConstantsOK
  <2> QED BY <1>2, <2>1, <2>2, <2>3, <2>4 DEF MailsKept
<1> QED BY <1>1, <1>2, CustomerMoved, ConstantsOK

-----------------------------------------------------------------------------
(* Grants and tokens.                                                      *)

(* A grant is given only by a member who connects the channel.             *)
LEMMA GrantGiven ==
  ASSUME TypeOK, [Next]_vars, NEW g \in Grants, grant'[g] = "live", grant[g] # "live"
  PROVE  \E u \in Users, c \in Channels : Connect(u, c) /\ g = <<c, u>>
<1>1. ASSUME NEW w \in Workers, Drains(w) PROVE FALSE
  BY <1>1, DrainEffect DEF GrantMoves
<1>2. ASSUME NEW u \in Users, NEW c \in Channels, Disconnect(u, c) PROVE FALSE
  BY <1>2 DEF Disconnect, TypeOK
<1>3. ASSUME NEW u \in Users, NEW c \in Channels, Connect(u, c) PROVE g = <<c, u>>
  BY <1>3 DEF Connect, TypeOK
<1> QED BY <1>1, <1>2, <1>3, StoredFrame

LEMMA ConnectingEnds ==
  ASSUME TypeOK, [Next]_vars, NEW g \in Grants, Connecting(g)
  PROVE  Connecting(g)' \/ token'[g[1]] = g[2] \/ g \in late'
<1>1. visit.at = "upsert" /\ visit # Idle /\ <<visit.on, visit.by>> = g
  BY VisitType, Pairs DEF Connecting
<1>2. CASE visit' = visit
  BY <1>2 DEF Connecting
<1>3. CASE UpsertChannelConnection
  <2>1. visit.on \in Channels
    BY <1>1, VisitType
  <2>2. CASE Alive(HomeOf[visit.on])
    <3>1. token' = [token EXCEPT ![visit.on] = visit.by]
      BY <1>3, <2>2 DEF UpsertChannelConnection
    <3> QED BY <2>1, <3>1 DEF Connecting, TypeOK
  <2>3. CASE ~Alive(HomeOf[visit.on])
    BY <1>1, <1>3, <2>3 DEF UpsertChannelConnection
  <2> QED BY <2>2, <2>3
<1>4. CASE Abandon
  <2>1. late' = late \cup {<<visit.on, visit.by>>}
    BY <1>1, <1>4 DEF Abandon
  <2> QED BY <1>1, <2>1
<1> QED BY <1>1, <1>2, <1>3, <1>4, VisitMoves
      DEF CreateCustomer, StoreCustomer, DeleteChannelRecords

(* A token in use goes to the outbox, or is lost to a request's overwrite. *)
LEMMA TokenKept ==
  ASSUME TypeOK, [Next]_vars, NEW g \in Grants, token[g[1]] = g[2]
  PROVE  token'[g[1]] = g[2] \/ g \in late' \cup grantBox'
<1>1. g[1] \in Channels /\ g[2] \in Users /\ g = <<g[1], g[2]>>
  BY Pairs
<1>2. CASE UNCHANGED token
  BY <1>2
<1>3. CASE UpsertChannelConnection
  <2>1. visit.on \in Channels
    BY <1>3, VisitType DEF UpsertChannelConnection
  <2>2. CASE Alive(HomeOf[visit.on])
    <3>1. /\ token' = [token EXCEPT ![visit.on] = visit.by]
          /\ token[visit.on] \in Users \ {visit.by} => <<visit.on, token[visit.on]>> \in late'
      BY <1>3, <2>2 DEF UpsertChannelConnection
    <3> QED BY <1>1, <2>1, <3>1 DEF TypeOK
  <2>3. CASE ~Alive(HomeOf[visit.on])
    BY <1>3, <2>3 DEF UpsertChannelConnection
  <2> QED BY <2>2, <2>3
<1>4. CASE DeleteChannelRecords
  <2>1. visit.on \in Channels
    BY <1>4, VisitType DEF DeleteChannelRecords
  <2>2. CASE g[1] = visit.on
    <3>1. late' = late \cup {<<visit.on, token[visit.on]>>}
      BY <1>1, <1>4, <2>2 DEF DeleteChannelRecords
    <3> QED BY <1>1, <2>2, <3>1
  <2>3. CASE g[1] # visit.on
    BY <1>1, <1>4, <2>1, <2>3 DEF DeleteChannelRecords, TypeOK
  <2> QED BY <2>2, <2>3
<1>5. ASSUME NEW u \in Users, Erase(u) PROVE token'[g[1]] = g[2] \/ g \in grantBox'
  BY <1>1, <1>5 DEF Erase
<1> QED BY <1>2, <1>3, <1>4, <1>5, StoredFrame

LEMMA GrantsStep ==
  ASSUME TypeOK, GrantsKept, Spent, [Next]_vars
  PROVE  GrantsKept'
<1> SUFFICES ASSUME NEW g \in Grants, grant'[g] = "live"
             PROVE  g \in late' \cup grantBox' \/ token'[g[1]] = g[2] \/ Connecting(g)'
  BY DEF GrantsKept
<1>1. CASE grant[g] # "live"
  <2>1. PICK u \in Users, c \in Channels : Connect(u, c) /\ g = <<c, u>>
    BY <1>1, GrantGiven
  <2>2. visit' = [at |-> "upsert", on |-> c, by |-> u]
    BY <2>1 DEF Connect, Enter
  <2>3. visit'.at = "upsert" /\ visit'.on = g[1] /\ visit'.by = g[2]
    BY <2>1, <2>2
  <2> QED BY <2>3 DEF Connecting
<1>2. CASE grant[g] = "live" /\ g \in grantBox
  <2>1. ASSUME NEW w \in Workers, Drains(w) PROVE g \in grantBox'
    BY <1>2, <2>1, DrainEffect DEF BoxMoves, Busy, Spent
  <2> QED BY <1>2, <2>1, StoredFrame DEF boxes, Erase
<1>3. CASE grant[g] = "live" /\ (g \in late \/ token[g[1]] = g[2] \/ Connecting(g))
  BY <1>3, StoredGrows, TokenKept, ConnectingEnds
<1> QED BY <1>1, <1>2, <1>3 DEF GrantsKept

LEMMA TokensStep ==
  ASSUME TypeOK, TokensLive, [Next]_vars
  PROVE  TokensLive'
<1> SUFFICES ASSUME NEW c \in Channels, token'[c] \in Users, account'[token'[c]] = "erased"
             PROVE  <<c, token'[c]>> \in late'
  BY DEF TokensLive, Gone
<1>1. CASE token'[c] = token[c] /\ Gone(token[c])
  BY <1>1, StoredGrows DEF TokensLive
<1>2. CASE token'[c] = token[c] /\ ~Gone(token[c])
  <2>1. PICK u \in Users : Erase(u)
    BY <1>2, AccountsFrame DEF Gone
  <2>2. token[c] = u
    BY <1>2, <2>1 DEF Erase, Gone, TypeOK
  <2>3. token'[c] = None
    BY <2>1, <2>2 DEF Erase, Captured
  <2> QED BY <2>3, ConstantsOK
<1>3. CASE token'[c] # token[c]
  <2>1. CASE UpsertChannelConnection
    <3>1. visit.on = c /\ token'[c] = visit.by /\ UNCHANGED account
      BY <1>3, <2>1 DEF UpsertChannelConnection, TypeOK, accounts
    <3>2. Outlived
      BY <3>1 DEF Gone, Outlived
    <3>3. <<c, visit.by>> \in late'
      BY <2>1, <3>1, <3>2 DEF UpsertChannelConnection
    <3> QED BY <3>1, <3>3
  <2>2. CASE DeleteChannelRecords \/ \E u \in Users : Erase(u)
    <3>1. token'[c] = None
      BY <1>3, <2>2 DEF DeleteChannelRecords, Erase, TypeOK
    <3> QED BY <3>1, ConstantsOK
  <2> QED BY <1>3, <2>1, <2>2, StoredFrame
<1> QED BY <1>1, <1>2, <1>3

LEMMA QueuedStep ==
  ASSUME TypeOK, [Next]_vars, NEW g \in Grants, Queued(g)'
  PROVE  Queued(g) \/ g[2] \notin members'[HomeOf[g[1]]]
<1>1. CASE UNCHANGED <<boxes, worker>>
  BY <1>1 DEF boxes, Queued
<1>2. ASSUME NEW u \in Users, Erase(u) PROVE Queued(g) \/ g[2] \notin members'[HomeOf[g[1]]]
  <2>1. worker' = worker /\ grantBox' = grantBox \cup {<<c, token[c]>> : c \in Captured(u)}
        /\ members' = [o \in Orgs |-> members[o] \ {u}]
    BY <1>2 DEF Erase
  <2>2. CASE g \in grantBox' \ grantBox
    <3>1. PICK c \in Captured(u) : g = <<c, token[c]>>
      BY <2>1, <2>2
    <3>2. g[1] = c /\ g[2] = token[c] /\ HomeOf[c] \in Orgs /\ c \in Channels
      BY <3>1, ConstantsOK DEF Captured
    <3> QED BY <2>1, <3>2 DEF Captured, Dissolved
  <2> QED BY <2>1, <2>2 DEF Queued
<1>3. ASSUME NEW w \in Workers, Drains(w) PROVE Queued(g)
  <2>1. CASE g \in grantBox'
    BY <1>3, <2>1, DrainEffect DEF BoxMoves, Queued
  <2>2. ASSUME NEW v \in Workers, worker'[v].at \in {"revoke", "ungrant"}, worker'[v].on = g
        PROVE  Queued(g)
    <3>1. CASE worker'[v] = worker[v]
      BY <2>2, <3>1 DEF Queued
    <3>2. CASE worker'[v] # worker[v]
      <4>1. JobMoves(w) /\ v = w
        BY <1>3, <3>2, DrainEffect DEF JobMoves, TypeOK
      <4>2. PICK job \in Job :
              /\ worker'[w] = job
              /\ \/ job = Idle
                 \/ job.at \in OrgStep
                 \/ job.at = "revoke" /\ job.on \in grantBox
                 \/ job.at = "ungrant" /\ job.on = worker[w].on /\ Busy(w, "revoke")
        BY <4>1 DEF JobMoves, TypeOK, OrgStep
      <4> QED BY <2>2, <4>1, <4>2 DEF Idle, OrgStep, Queued, Busy
    <3> QED BY <3>1, <3>2
  <2> QED BY <1>3, <2>1, <2>2 DEF Queued
<1> QED BY <1>1, <1>2, <1>3, StoredFrame

LEMMA SpentStep ==
  ASSUME TypeOK, Spent, [Next]_vars
  PROVE  Spent'
<1>1. \A g \in Grants : Queued(g)' => g[2] \notin members'[HomeOf[g[1]]]
  <2> SUFFICES ASSUME NEW g \in Grants, Queued(g)' PROVE g[2] \notin members'[HomeOf[g[1]]]
    OBVIOUS
  <2>1. HomeOf[g[1]] \in Orgs
    BY Pairs, ConstantsOK
  <2> QED BY <2>1, QueuedStep, MembersShrink DEF Spent
<1>2. ASSUME NEW v \in Workers, worker'[v].at = "ungrant"
      PROVE  grant'[worker'[v].on] # "live"
  <2>1. CASE worker'[v] = worker[v]
    <3> DEFINE g == worker[v].on
    <3>1. g \in Grants /\ Queued(g) /\ grant[g] # "live"
      BY <1>2, <2>1, JobType DEF Queued, Spent
    <3>2. grant'[g] = "live" => \E u \in Users, c \in Channels : Connect(u, c) /\ g = <<c, u>>
      BY <3>1, GrantGiven
    <3> HIDE DEF g
    <3>3. g[2] \notin members[HomeOf[g[1]]]
      BY <3>1 DEF Spent
    <3>4. ASSUME NEW u \in Users, NEW c \in Channels, Connect(u, c), g = <<c, u>> PROVE FALSE
      BY <3>3, <3>4 DEF Connect
    <3> QED BY <2>1, <3>2, <3>4 DEF g
  <2>2. CASE worker'[v] # worker[v]
    <3>1. PICK w \in Workers : Drains(w)
      BY <2>2, StoredFrame
    <3>2. JobMoves(w) /\ v = w
      BY <2>2, <3>1, DrainEffect DEF JobMoves, TypeOK
    <3>3. PICK job \in Job :
            /\ worker'[w] = job
            /\ \/ job = Idle
               \/ job.at \in OrgStep \cup {"revoke"}
               \/ job.at = "ungrant" /\ grant'[job.on] = "revoked"
      BY <3>2 DEF JobMoves, TypeOK, OrgStep
    <3> QED BY <1>2, <3>2, <3>3 DEF Idle, OrgStep
  <2> QED BY <2>1, <2>2
<1> QED BY <1>1, <1>2 DEF Spent

-----------------------------------------------------------------------------
(* The theorems.                                                           *)
LEMMA InitInv ==
  ASSUME Init
  PROVE  Inv
<1> USE DEF Init
<1>1. TypeOK
  BY ConstantsOK DEF TypeOK, Job, Visit, Customer
<1>2. Membership /\ Rows /\ CustomersKept /\ MailsKept /\ GrantsKept /\ TokensLive
  BY ConstantsOK DEF Membership, Rows, CustomersKept, MailsKept, GrantsKept, TokensLive, Gone, Idle
<1>3. Jobs /\ Spent
  BY DEF Jobs, JobOK, Spent, Queued, Idle, OrgStep
<1> QED BY <1>1, <1>2, <1>3 DEF Inv

LEMMA NextInv ==
  ASSUME Inv, [Next]_vars
  PROVE  Inv'
BY TypeStep, MembershipStep, RowsStep, JobsStep, CustomersStep, MailsStep, GrantsStep,
   TokensStep, SpentStep DEF Inv

THEOREM Invariance == Spec => []Inv
BY InitInv, NextInv, PTL DEF Spec

(* In every reachable state with no request under way, each customer of a  *)
(* dissolved organisation, each e-mail of a member who left and each live  *)
(* grant of an erased account has its row in an outbox of deletion.ts.     *)
THEOREM SpecImpliesNothingForgotten == Spec => []NothingForgotten
<1>1. ASSUME Inv, visit = Idle
      PROVE  /\ HeldCustomers \subseteq deletionBox
             /\ HeldMails \subseteq scrubBox \cup deletionBox
             /\ HeldGrants \subseteq grantBox
  <2>1. visit.at \notin {"store", "upsert"}
    BY <1>1 DEF Idle
  <2>2. HeldCustomers \subseteq deletionBox
    BY <1>1, <2>1, ConstantsOK DEF Inv, CustomersKept, HeldCustomers, Storing
  <2>3. HeldMails \subseteq scrubBox \cup deletionBox
    BY <1>1, <2>1 DEF Inv, MailsKept, HeldMails, Storing, Membership
  <2>4. HeldGrants \subseteq grantBox
    BY <1>1, <2>1, Pairs DEF Inv, GrantsKept, TokensLive, HeldGrants, Connecting
  <2> QED BY <2>2, <2>3, <2>4
<1>2. Inv => NothingForgotten
  BY <1>1 DEF NothingForgotten
<1> QED BY <1>2, Invariance, PTL

(* deleteStripeCustomer deletes no customer whose recovery is still open,  *)
(* through any interleaving of drains, payments and erasures: an           *)
(* organisation that is gone opens no recovery after the one it left with. *)
THEOREM SpecImpliesPaymentSettledFirst == Spec => PaymentSettledFirst
<1>1. ASSUME Inv, [Next]_vars, NEW o \in Orgs, customer[o] # "deleted", customer'[o] = "deleted"
      PROVE  recovery[o] # "open"
  <2>1. CASE CreateCustomer
    <3>1. visit.by # "deleted"
      BY <1>1, <2>1, VisitType, ConstantsOK DEF Inv, CreateCustomer
    <3> QED BY <1>1, <2>1, <3>1 DEF CreateCustomer, Inv, TypeOK
  <2>2. ASSUME NEW w \in Workers, Drains(w) PROVE recovery[o] # "open"
    BY <1>1, <2>2, DrainEffect DEF CustomerMoves, Ends, Busy, Inv, Jobs, JobOK
  <2> QED BY <1>1, <2>1, <2>2, StoredFrame
<1>2. Inv /\ [Next]_vars
        => [\A o \in Orgs : customer[o] # "deleted" /\ customer'[o] = "deleted" => recovery[o] # "open"]_vars
  BY <1>1
<1> QED BY <1>2, Invariance, PTL DEF Spec, PaymentSettledFirst
=============================================================================
