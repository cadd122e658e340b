------------------------------- MODULE Tenancy -------------------------------
(***************************************************************************)
(* Accounts, sessions and one shared team: org.ts, session.ts, the sign-in *)
(* callback, the consent form, the team pages and what deleteUserRecords   *)
(* does to memberships.                                                    *)
(*                                                                         *)
(* A request resolves its session, reads what it decides on and writes,    *)
(* one step each, so other requests run between its reading and its        *)
(* writing.  A conditional write checks its condition as it writes.  Every *)
(* account also has a personal team, which is its oldest and has no other  *)
(* member: a session that acts nowhere else acts there, and it is left     *)
(* out.  Role names are ranks: 0 outside the team, then member, admin and  *)
(* owner.                                                                  *)
(***************************************************************************)
EXTENDS Naturals, Sequences, FiniteSets

CONSTANTS Users, Tokens, Links, Requests, None,
          Founding,     \* the owners the team starts with, oldest first
          FirstSession, \* and the session each of them has
          MaxActs       \* what people ask for: a bound

ConstantsOK ==
  /\ IsFiniteSet(Users) /\ Founding \in Seq(Users) /\ MaxActs \in Nat /\ None \notin Users
  /\ FirstSession \in [Tokens -> Users \cup {None}]

Outside == 0
Member == 1
Admin == 2
Owner == 3
Ranks == Outside..Owner

VARIABLES account,      \* users: google_sub is free, live or a tombstone
          seat,         \* memberships.role in the team
          place,        \* memberships.created_at: the first member has 1
          session,      \* sessions: the user, and if it acts in the team
          link,         \* invites: the role and the creator, and if accepted
          request,      \* the requests that run
          spent,
          admitted,     \* history: who accepted each link
          overtaken     \* history: a write fell on an owner, or an account, it
                        \* had not read as one, or as a tombstone

vars == <<account, seat, place, session, link, request, spent, admitted, overtaken>>

NoSession == [user |-> None, team |-> FALSE]
NoLink == [state |-> "none", role |-> Outside, by |-> None]
Idle == [kind |-> "idle", token |-> None]

(* The behaviours start in a team that was made, joined and switched to. *)
Founders == {Founding[n] : n \in 1..Len(Founding)}
Init ==
  /\ account = [u \in Users |-> IF u \in Founders THEN "live" ELSE "absent"]
  /\ seat = [u \in Users |-> IF u \in Founders THEN Owner ELSE Outside]
  /\ place = [u \in Users |-> IF u \in Founders THEN CHOOSE n \in 1..Len(Founding) : Founding[n] = u ELSE 0]
  /\ session = [t \in Tokens |-> [user |-> FirstSession[t], team |-> FirstSession[t] # None]]
  /\ link = [i \in Links |-> NoLink] /\ request = [r \in Requests |-> Idle]
  /\ spent = 0 /\ admitted = [i \in Links |-> {}] /\ overtaken = FALSE

Members == {u \in Users : seat[u] # Outside}
Owners == {v \in Users : seat[v] = Owner}
OwnersBut(u) == Owners \ {u}
Fresh(t) == session[t] = NoSession /\ \A r \in Requests : request[r].token # t
Act == spent < MaxActs /\ spent' = spent + 1
Put(t, u, team) == session' = [session EXCEPT ![t] = [user |-> u, team |-> team]]
Dropped(ts) == [t \in Tokens |-> IF t \in ts THEN NoSession ELSE session[t]]
TokensOf(u) == {t \in Tokens : session[t].user = u}

-----------------------------------------------------------------------------
(* Accounts and sessions. *)

(* The consent form for a new identity: user, personal team, consent and   *)
(* first session in one transaction.  A second form of the same identity   *)
(* finds the user and only signs it in.                                    *)
SignUp(u, t) ==
  /\ Act /\ account[u] # "erased" /\ Fresh(t)
  /\ account' = [account EXCEPT ![u] = "live"] /\ Put(t, u, FALSE)
  /\ UNCHANGED <<seat, place, link, request, admitted, overtaken>>

(* The callback reads the user and later creates the session, which the    *)
(* foreign key allows for a tombstone too.                                 *)
LookUp(r, u, t) ==
  /\ Act /\ request[r] = Idle /\ account[u] = "live" /\ Fresh(t)
  /\ request' = [request EXCEPT ![r] = [kind |-> "signin", user |-> u, token |-> t]]
  /\ UNCHANGED <<account, seat, place, session, link, admitted, overtaken>>

Free(r) == request' = [request EXCEPT ![r] = Idle]
CreateSession(r) ==
  /\ request[r].kind = "signin" /\ Put(request[r].token, request[r].user, FALSE) /\ Free(r)
  /\ UNCHANGED <<account, seat, place, link, spent, admitted, overtaken>>

(* Signing out, or running out, deletes the row; so does the resolution of *)
(* a session whose account is a tombstone.                                 *)
DestroySession(t) ==
  /\ Act /\ session[t] # NoSession /\ session' = Dropped({t})
  /\ UNCHANGED <<account, seat, place, link, request, admitted, overtaken>>

(* What a session resolves to: the team only while it names the team and   *)
(* the membership exists; otherwise the row is repaired.                   *)
Resolves(t) == session[t] # NoSession /\ account[session[t].user] = "live"
ActsInTeam(t) == session[t].team /\ seat[session[t].user] # Outside
Repaired(t) == [session EXCEPT ![t].team = ActsInTeam(t)]

-----------------------------------------------------------------------------
(* A request: the session, the role of the caller and, for a target, its   *)
(* role, all read before the write.                                        *)

Needs(kind) == CASE kind = "setrole" -> Owner
                 [] kind \in {"remove", "invite"} -> Admin
                 [] OTHER -> Outside
InTeam == {"setrole", "remove", "invite", "leave"}
Elsewhere == {"accept", "create", "switch"}

(* Which targets and roles each operation admits, by what it reads. *)
Admits(kind, u, v, k, i) ==
  CASE kind = "setrole" -> seat[v] # Outside /\ k \in Member..Owner
    [] kind = "remove"  -> v # u /\ seat[v] \in Member..Admin /\ k = Outside
                             /\ (seat[v] = Admin => seat[u] = Owner)
    [] kind = "invite"  -> v = u /\ k \in Member..Admin /\ link[i].state = "none"
    [] kind = "accept"  -> v = u /\ k = link[i].role /\ link[i].state = "open"
    [] kind = "leave"   -> v = u /\ k = Outside
    [] kind = "create"  -> v = u /\ k = Outside /\ Members = {}
    [] kind = "switch"  -> v = u /\ k = Outside /\ seat[u] # Outside

Begin(r, t, kind, v, k, i) ==
  LET u == session[t].user IN
  /\ Act /\ request[r] = Idle /\ Resolves(t)
  /\ (kind \in InTeam => ActsInTeam(t)) /\ seat[u] >= Needs(kind)
  /\ Admits(kind, u, v, k, i)
  /\ request' = [request EXCEPT ![r] = [kind |-> kind, user |-> u, token |-> t, target |-> v,
                                        role |-> k, link |-> i, read |-> seat[v]]]
  /\ session' = Repaired(t)
  /\ UNCHANGED <<account, seat, place, link, admitted, overtaken>>

At(r, kind) == request[r].kind = kind /\ Free(r)
Without(u) == [v \in Users |-> IF v = u THEN 0
                              ELSE IF place[u] \in 1..(place[v] - 1) THEN place[v] - 1 ELSE place[v]]
Seated(u, k) ==
  /\ seat' = [seat EXCEPT ![u] = k]
  /\ place' = IF k = Outside THEN Without(u)
              ELSE IF seat[u] = Outside THEN [place EXCEPT ![u] = Cardinality(Members) + 1] ELSE place
Overtakes(r) == overtaken' = (overtaken \/ (seat[request[r].target] = Owner /\ request[r].read # Owner))

(* If the target was an owner when it was read, the write lands while the  *)
(* team has another.  A change of role ends the sessions of the target.    *)
Spare == Cardinality(Owners) > 1
Demotable(r) == (request[r].read = Owner /\ request[r].role # Owner) => Spare
SetRole(r) ==
  LET q == request[r] IN
  /\ At(r, "setrole")
  /\ IF seat[q.target] # Outside /\ Demotable(r)
       THEN /\ Seated(q.target, q.role) /\ Overtakes(r)
            /\ session' = IF q.read # q.role THEN Dropped(TokensOf(q.target)) ELSE session
       ELSE UNCHANGED <<seat, place, session, overtaken>>
  /\ UNCHANGED <<account, link, spent, admitted>>

RemoveMember(r) ==
  /\ At(r, "remove") /\ Seated(request[r].target, Outside) /\ Overtakes(r)
  /\ UNCHANGED <<account, session, link, spent, admitted>>

(* The last owner stays while others do; so does a sole member.  The       *)
(* delete tests the role as it is by then.                                 *)
MayLeaveAsRead(r) == Members \ {request[r].user} # {}   \* a mutant
MayLeave(r) ==
  LET u == request[r].user IN
  /\ Members \ {u} # {} /\ (request[r].read = Owner => OwnersBut(u) # {})
  /\ seat[u] \in {Member, Admin} \/ (seat[u] = Owner /\ Spare)
LeaveOrg(r) ==
  LET q == request[r] IN
  /\ At(r, "leave")
  /\ IF MayLeave(r)
       THEN /\ Seated(q.user, Outside)
            /\ session' = IF session[q.token].user = q.user
                            THEN [session EXCEPT ![q.token].team = FALSE] ELSE session
       ELSE UNCHANGED <<seat, place, session>>
  /\ UNCHANGED <<account, link, spent, admitted, overtaken>>

(* A team made by a request of a live account; its insert fails for no     *)
(* tombstone, so it may come after the account is gone.                    *)
CreateOrg(r) ==
  /\ At(r, "create") /\ Members = {} /\ Seated(request[r].user, Owner)
  /\ overtaken' = (overtaken \/ account[request[r].user] = "erased")
  /\ UNCHANGED <<account, session, link, spent, admitted>>

CreateInvite(r) ==
  LET q == request[r] IN
  /\ At(r, "invite")
  /\ link' = IF Members # {} /\ link[q.link].state = "none"
               THEN [link EXCEPT ![q.link] = [state |-> "open", role |-> q.role, by |-> q.user]] ELSE link
  /\ UNCHANGED <<account, seat, place, session, spent, admitted, overtaken>>

(* An admin withdraws a link; its seven days end the same way. *)
RevokeInvite(i) ==
  /\ Act /\ link[i].state = "open"
  /\ link' = [link EXCEPT ![i].state = "gone"]
  /\ UNCHANGED <<account, seat, place, session, request, admitted, overtaken>>

(* The claim burns the link if nobody did, the membership is added if      *)
(* missing, and the session is rotated: a session that is gone, or belongs *)
(* to somebody else, rolls the whole acceptance back.                      *)
ClaimableTwice(i) == link[i].state # "gone"   \* a mutant
Claimable(i) == link[i].state = "open"
RotatesAnyway(q) == TRUE   \* a mutant
Rotates(q) == session[q.token].user = q.user
AcceptInvite(r, t) ==
  LET q == request[r] IN
  /\ At(r, "accept") /\ Fresh(t)
  /\ IF Claimable(q.link) /\ Rotates(q)
       THEN /\ link' = [link EXCEPT ![q.link].state = "accepted"]
            /\ Seated(q.user, IF seat[q.user] = Outside THEN q.role ELSE seat[q.user])
            /\ admitted' = [admitted EXCEPT ![q.link] = @ \cup {q.user}]
            /\ session' = [Dropped({q.token}) EXCEPT ![t] = [user |-> q.user, team |-> TRUE]]
       ELSE UNCHANGED <<link, seat, place, admitted, session>>
  /\ UNCHANGED <<account, spent, overtaken>>

SwitchActiveOrg(r, t) ==
  LET q == request[r] IN
  /\ At(r, "switch") /\ Fresh(t)
  /\ session' = IF Rotates(q) THEN [Dropped({q.token}) EXCEPT ![t] = [user |-> q.user, team |-> TRUE]]
                              ELSE session
  /\ UNCHANGED <<account, seat, place, link, spent, admitted, overtaken>>

(* The reply never comes: the process died, or the database refused. *)
Die(r) ==
  /\ request[r] # Idle /\ Free(r)
  /\ UNCHANGED <<account, seat, place, session, link, spent, admitted, overtaken>>

-----------------------------------------------------------------------------
(* deleteUserRecords in one transaction: a team without other members goes *)
(* with its links; a last owner hands over to the oldest admin, else the   *)
(* oldest member; sessions, the links it made and the membership go.       *)

Oldest(P) == CHOOSE v \in P : \A w \in P : place[v] <= place[w]
Others(u) == Members \ {u}
Successor(u) == LET admins == {v \in Others(u) : seat[v] = Admin}
                IN Oldest(IF admins # {} THEN admins ELSE Others(u))
Succession(u) == seat[u] = Owner /\ Others(u) # {} /\ OwnersBut(u) = {}

Erase(u) ==
  /\ Act /\ account[u] = "live" /\ account' = [account EXCEPT ![u] = "erased"]
  /\ seat' = [v \in Users |-> IF v = u THEN Outside
                              ELSE IF Succession(u) /\ v = Successor(u) THEN Owner ELSE seat[v]]
  /\ place' = Without(u)
  /\ session' = [t \in Tokens |-> IF session[t].user = u THEN NoSession
                 ELSE [session[t] EXCEPT !.team = @ /\ Others(u) # {}]]
  /\ link' = [i \in Links |-> IF link[i].by = u \/ (u \in Members /\ Others(u) = {})
                                THEN [link[i] EXCEPT !.state = "gone"] ELSE link[i]]
  /\ UNCHANGED <<request, admitted, overtaken>>

-----------------------------------------------------------------------------
Next ==
  \/ \E u \in Users : Erase(u) \/ (\E t \in Tokens : SignUp(u, t) \/ \E r \in Requests : LookUp(r, u, t))
  \/ \E t \in Tokens : DestroySession(t)
  \/ \E i \in Links : RevokeInvite(i)
  \/ \E r \in Requests, t \in Tokens, v \in Users, k \in Ranks, i \in Links,
        kind \in InTeam \cup Elsewhere :
          Begin(r, t, kind, v, k, i)
  \/ \E r \in Requests :
        \/ CreateSession(r) \/ SetRole(r) \/ RemoveMember(r) \/ LeaveOrg(r)
        \/ CreateOrg(r) \/ CreateInvite(r) \/ Die(r)
        \/ \E t \in Tokens : AcceptInvite(r, t) \/ SwitchActiveOrg(r, t)

Spec == Init /\ [][Next]_vars

-----------------------------------------------------------------------------
(* Properties. *)

(* Shapes; the members have the places from the first on, one each. *)
TypeOK ==
  /\ account \in [Users -> {"absent", "live", "erased"}] /\ seat \in [Users -> Ranks]
  /\ place \in [Users -> Nat] /\ {place[u] : u \in Members} = 1..Cardinality(Members)
  /\ \A u \in Users : place[u] = 0 <=> u \notin Members
  /\ session \in [Tokens -> [user : Users \cup {None}, team : BOOLEAN]]
  /\ link \in [Links -> [state : {"none", "open", "accepted", "gone"}, role : Ranks, by : Users \cup {None}]]

(* Leaving, being demoted, being removed and erasing an account never      *)
(* leave members without an owner, however the requests overlap, as long   *)
(* as no request writes over an owner it read with a lower role.           *)
TeamKeepsOwner == Members # {} /\ ~overtaken => Owners # {}

(* The comments of setMemberRole and leaveOrg: concurrent demotions and    *)
(* leaves can never strand the team ownerless.                             *)
NeverOwnerless == Members # {} => Owners # {}

(* A link serves one person, whoever opens it at the same time: even who   *)
(* is a member already uses it up.                                         *)
LinkUsedOnce == \A i \in Links : Cardinality(admitted[i]) <= 1

(* A tombstone belongs to no team, whatever was running when its account   *)
(* was erased (a team made by such a request excepted).                    *)
ErasedHoldNothing == \A u \in Users : account[u] = "erased" /\ ~overtaken => seat[u] = Outside
=============================================================================
