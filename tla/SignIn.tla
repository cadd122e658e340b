------------------------------- MODULE SignIn -------------------------------
(***************************************************************************)
(* One browser that several people use: how they sign in and accept the    *)
(* terms (api/auth/google/login, consent), and how they connect a channel  *)
(* (api/auth/google, connect-channel). A flow is named by its OAuth state. *)
(* What a request has to remember is kept in three cookies that hold       *)
(* lists; a request reads them as they were when it was sent, and what its *)
(* answer sets replaces the whole cookie, whatever other tabs did          *)
(* meanwhile.                                                              *)
(***************************************************************************)
EXTENDS Integers, FiniteSets, Sequences

CONSTANTS Users, Tabs, None,
          Pending,                                 \* entries a cookie keeps
          MaxFlows, MaxTurns, MaxFaults   \* bounds

ConstantsOK == None \notin Users \cup Nat /\ Pending \in Nat \ {0} /\ MaxFlows \in Nat

VARIABLES jar,                    \* the browser's cookies
          flow, tab,              \* Google's side of each flow; the request of each tab
          account, accepted,      \* users: the current account of each person; consents
          holder,                 \* channels: who connected each, in which flow
          begun, erasures, versions, faults,   \* totals
          stage, entered, exposed,             \* history: how far a flow is, see below
          signups

vars == <<jar, flow, tab, account, accepted, holder, begun, erasures, versions, faults,
          stage, entered, exposed, signups>>

Flows == 1..MaxFlows
Accounts == Users \X (1..MaxTurns + 1)    \* a person who was erased may sign up again
Unborn == [kind |-> None, starter |-> None, who |-> None, code |-> FALSE]
Idle == [at |-> "idle", flow |-> None, jar |-> None, user |-> None]
Init ==
  /\ jar = [states |-> <<>>, parked |-> <<>>, picks |-> <<>>, session |-> None]
  /\ flow = [f \in Flows |-> Unborn] /\ tab = [t \in Tabs |-> Idle]
  /\ account = [u \in Users |-> 0] /\ accepted = {} /\ holder = [u \in Users |-> None]
  /\ begun = 0 /\ erasures = 0 /\ versions = 1 /\ faults = 0
  /\ stage = [f \in Flows |-> "new"] /\ entered = [l \in {"states", "parked", "picks"} |-> {}]
  /\ exposed = {} /\ signups = [a \in Accounts |-> 0]

-----------------------------------------------------------------------------
Exists(u) == account[u] > 0
AccountOf(u) == <<u, account[u]>>
Lives(a) == a # None /\ account[a[1]] = a[2]
SignedIn == IF Lives(jar.session) THEN jar.session ELSE None   \* getSessionUser

(* The lists: storePendingStates, parkPendingConsent, parkPendingChannelPick. *)
Newest(s) == SubSeq(s, IF Len(s) > Pending THEN Len(s) - Pending + 1 ELSE 1, Len(s))
Without(s, f) == SelectSeq(s, LAMBDA e : e.flow # f)
WithAlone(s, f, a) == <<[flow |-> f, account |-> a]>>   \* a mutant
With(s, f, a) == Newest(Append(Without(s, f), [flow |-> f, account |-> a]))
Entries(s, f) == {e \in {s[i] : i \in DOMAIN s} : e.flow = f}

-----------------------------------------------------------------------------
(* A tab sends a request with the cookies of that moment.                  *)
At(t, at) == tab[t].at = at
Flow(t) == tab[t].flow
User(t) == tab[t].user
Sent(t) == tab[t].jar
Sends(t, at, f) ==
  /\ At(t, "idle")
  /\ tab' = [tab EXCEPT ![t] = [at |-> at, flow |-> f, jar |-> jar, user |-> SignedIn]]
Server == UNCHANGED <<account, accepted, holder, signups>>
Around == UNCHANGED <<jar, erasures, versions, faults, stage, entered, exposed>> /\ Server

Start(t, kind) ==
  /\ begun < MaxFlows /\ begun' = begun + 1 /\ Sends(t, kind, begun + 1)
  /\ flow' = [flow EXCEPT ![begun + 1].kind = kind,
                          ![begun + 1].starter = IF kind = "connect" THEN SignedIn ELSE None]
  /\ Around
AtGoogle(f, u) ==    \* the person picks an account there
  /\ stage[f] = "states" /\ flow[f].who = None
  /\ flow' = [flow EXCEPT ![f].who = u, ![f].code = TRUE]
  /\ UNCHANGED <<tab, begun>> /\ Around
Return(t, f) == /\ flow[f].code /\ Sends(t, "callback", f)
                /\ UNCHANGED <<flow, begun>> /\ Around
Accept(t, f) == /\ stage[f] = "parked" /\ Sends(t, "consent", f)
                /\ UNCHANGED <<flow, begun>> /\ Around
AcceptAgain(t) == /\ SignedIn # None /\ Sends(t, "again", None)   \* the layout's redirect
                  /\ UNCHANGED <<flow, begun>> /\ Around
PickOne(t, f) == /\ stage[f] = "picks" /\ Sends(t, "pick", f)
                 /\ UNCHANGED <<flow, begun>> /\ Around
SignOut(t) == /\ SignedIn # None /\ Sends(t, "signout", None)
              /\ UNCHANGED <<flow, begun>> /\ Around

-----------------------------------------------------------------------------
(* The answers. `Set' is what the answer does to the browser's cookies; an *)
(* answer may be lost on its way.                                          *)
Rest(t) == tab' = [tab EXCEPT ![t] = Idle]
Set(new) == \/ jar' = new /\ UNCHANGED faults
            \/ jar' = jar /\ faults < MaxFaults /\ faults' = faults + 1
Others(t) == {u \in Tabs \ {t} : ~At(u, "idle")}
Enters(t, f, list) ==
  /\ stage' = [stage EXCEPT ![f] = IF jar' = jar THEN "over" ELSE list]
  /\ entered' = IF list \in DOMAIN entered THEN [entered EXCEPT ![list] = @ \cup {f}] ELSE entered
  /\ exposed' = IF Others(t) = {} THEN exposed ELSE exposed \cup {f}
Stays == UNCHANGED <<stage, entered, exposed>>
Totals == UNCHANGED <<begun, erasures, versions>>
States(t) == Without(Sent(t).states, Flow(t))
Exchanged(f) == flow' = [flow EXCEPT ![f].code = FALSE]    \* exchangeGoogleCode: a code is used once

Begins(t) ==
  /\ tab[t].at \in {"login", "connect"}
  /\ Set([jar EXCEPT !.states = With(Sent(t).states, Flow(t), flow[Flow(t)].starter)])
  /\ Enters(t, Flow(t), "states") /\ Rest(t) /\ UNCHANGED flow /\ Server /\ Totals

Login(t) == At(t, "callback") /\ flow[Flow(t)].kind = "login" /\ Entries(Sent(t).states, Flow(t)) # {}
Who(t) == flow[Flow(t)].who
AcceptedNow(u) == <<AccountOf(u), versions>> \in accepted    \* hasCurrentConsent
Park(t) ==      \* the login callback: someone new, or terms that changed
  /\ Login(t) /\ flow[Flow(t)].code /\ Exchanged(Flow(t))
  /\ ~(Exists(Who(t)) /\ AcceptedNow(Who(t)))
  /\ Set([jar EXCEPT !.states = States(t),
            !.parked = With(Sent(t).parked, Flow(t), IF Exists(Who(t)) THEN AccountOf(Who(t)) ELSE None)])
  /\ Enters(t, Flow(t), "parked") /\ Rest(t) /\ Server /\ Totals
Enter(t) ==     \* the login callback: a session
  /\ Login(t) /\ flow[Flow(t)].code /\ Exchanged(Flow(t))
  /\ Exists(Who(t)) /\ AcceptedNow(Who(t))
  /\ Set([jar EXCEPT !.states = States(t), !.session = AccountOf(Who(t))])
  /\ Enters(t, Flow(t), "over") /\ Rest(t) /\ Server /\ Totals

Linked(t) == At(t, "callback") /\ flow[Flow(t)].kind = "connect"
StarterAny(t) == User(t) # None   \* a mutant
Starter(t) == User(t) # None /\ flow[Flow(t)].starter = User(t)   \* the state itself names them
Free(c, a) == holder[c] = None \/ holder[c].by = a
Attach(t) ==    \* upsertChannelConnection; a conflict leaves the row alone
  holder' = IF Free(Who(t), User(t)) THEN [holder EXCEPT ![Who(t)] = [by |-> User(t), flow |-> Flow(t)]]
            ELSE holder
Connect(t) ==   \* the channel callback: one channel
  /\ Linked(t) /\ Starter(t) /\ flow[Flow(t)].code /\ Exchanged(Flow(t)) /\ Attach(t)
  /\ Set([jar EXCEPT !.states = States(t)]) /\ Enters(t, Flow(t), "over")
  /\ Rest(t) /\ UNCHANGED <<account, accepted, signups>> /\ Totals
ParkPick(t) ==  \* the channel callback: several
  /\ Linked(t) /\ Starter(t) /\ flow[Flow(t)].code /\ Exchanged(Flow(t))
  /\ Set([jar EXCEPT !.states = States(t), !.picks = With(Sent(t).picks, Flow(t), User(t))])
  /\ Enters(t, Flow(t), "picks") /\ Rest(t) /\ Server /\ Totals

PickedByAny(t) == User(t) # None /\ Entries(Sent(t).picks, Flow(t)) # {}   \* a mutant
Picked(t) == User(t) # None /\ \E e \in Entries(Sent(t).picks, Flow(t)) : e.account = User(t)
Pick(t) ==      \* connect-channel
  /\ At(t, "pick") /\ Picked(t) /\ Attach(t)
  /\ IF Free(Who(t), User(t))
     THEN Set([jar EXCEPT !.picks = Without(Sent(t).picks, Flow(t))]) /\ Enters(t, Flow(t), "over")
     ELSE UNCHANGED <<jar, faults>> /\ Stays
  /\ Rest(t) /\ UNCHANGED <<flow, account, accepted, signups>> /\ Totals

Offered(t) == Entries(Sent(t).parked, Flow(t))
ForAnother(t, e) == User(t) # None /\ (e.account = None \/ e.account # User(t))   \* parkedForAnotherUser
EnrolledAlways(t) == TRUE    \* a mutant
Enrolled(t) == ~Exists(Who(t))
SignsUp(t) ==   \* consent, for someone new: the account, or the one another tab just made
  /\ account' = IF Exists(Who(t)) THEN account ELSE [account EXCEPT ![Who(t)] = erasures + 1]
  /\ signups' = IF Enrolled(t) THEN [signups EXCEPT ![<<Who(t), account'[Who(t)]>>] = @ + 1] ELSE signups
  /\ accepted' = accepted \cup {<<<<Who(t), account'[Who(t)]>>, versions>>}
Consent(t) ==
  /\ At(t, "consent") /\ \E e \in Offered(t) :
       /\ ~ForAnother(t, e)
       /\ IF e.account = None THEN SignsUp(t)
          ELSE accepted' = accepted \cup {<<e.account, versions>>} /\ UNCHANGED <<account, signups>>
       /\ Set([jar EXCEPT !.parked = Without(Sent(t).parked, Flow(t)),
                 !.session = IF e.account = None THEN <<Who(t), account'[Who(t)]>> ELSE e.account])
  /\ Enters(t, Flow(t), "over") /\ Rest(t) /\ UNCHANGED <<flow, holder>> /\ Totals
Reaccept(t) ==  \* no flow of theirs: the signed-in user accepts the new terms
  /\ At(t, "again") \/ (At(t, "consent") /\ Offered(t) = {})
  /\ User(t) # None /\ accepted' = accepted \cup {<<User(t), versions>>}
  /\ Rest(t) /\ UNCHANGED <<jar, flow, faults, account, holder, signups>> /\ Stays /\ Totals
Leave(t) ==     \* logout
  /\ At(t, "signout") /\ jar' = [jar EXCEPT !.session = None] /\ Rest(t) /\ UNCHANGED <<flow, faults>>
  /\ Server /\ Stays /\ Totals
Refused(t) ==   \* an error page: nothing is written
  /\ ~At(t, "idle") /\ ~At(t, "again") /\ ~At(t, "signout") /\ tab[t].at \notin {"login", "connect"}
  /\ CASE At(t, "callback") -> ~flow[Flow(t)].code \/ ~(Login(t) \/ (Linked(t) /\ Starter(t)))
       [] At(t, "pick") -> ~Picked(t)
       [] At(t, "consent") -> (Offered(t) = {} => User(t) = None) /\ \A e \in Offered(t) : ForAnother(t, e)
  /\ Rest(t) /\ UNCHANGED <<jar, flow, faults>> /\ Server /\ Stays /\ Totals

Fail(t) ==      \* Google or the database does not answer; the code may be spent
  /\ ~At(t, "idle") /\ faults < MaxFaults /\ faults' = faults + 1 /\ Rest(t)
  /\ flow' \in {flow} \cup (IF At(t, "callback") THEN {[flow EXCEPT ![Flow(t)].code = FALSE]} ELSE {})
  /\ UNCHANGED jar /\ Server /\ Stays /\ Totals

-----------------------------------------------------------------------------
Turn == erasures + versions <= MaxTurns
Erase(u) ==      \* deleteUserRecords: sessions die, channels go
  /\ Exists(u) /\ Turn /\ erasures' = erasures + 1
  /\ holder' = [c \in Users |-> IF holder[c] # None /\ holder[c].by = AccountOf(u) THEN None ELSE holder[c]]
  /\ account' = [account EXCEPT ![u] = 0]
  /\ UNCHANGED <<jar, flow, tab, accepted, begun, versions, faults, signups>> /\ Stays
Bump ==          \* a deployment with new terms
  /\ Turn /\ versions' = versions + 1
  /\ UNCHANGED <<jar, flow, tab, begun, erasures, faults>> /\ Server /\ Stays

Next ==
  \/ \E t \in Tabs :
       \/ \E kind \in {"login", "connect"} : Start(t, kind)
       \/ \E f \in Flows : Return(t, f) \/ Accept(t, f) \/ PickOne(t, f)
       \/ AcceptAgain(t) \/ SignOut(t) \/ Begins(t) \/ Park(t) \/ Enter(t) \/ Connect(t) \/ ParkPick(t)
       \/ Pick(t) \/ Consent(t) \/ Reaccept(t) \/ Leave(t) \/ Refused(t) \/ Fail(t)
  \/ \E u \in Users : Erase(u) \/ \E f \in Flows : AtGoogle(f, u)
  \/ Bump

Spec == Init /\ [][Next]_vars

-----------------------------------------------------------------------------
(* Tabs keep out of each other's way: a flow that is under way is where    *)
(* its next request looks for it, unless later flows crowded it out or     *)
(* another tab's request was on its way when it was written down.          *)
Crowded(f, list) == Cardinality(entered[list] \ {f}) >= Pending
FlowsKept ==
  \A f \in Flows \ exposed : \A list \in DOMAIN entered :
    stage[f] = list /\ ~Crowded(f, list) => Entries(jar[list], f) # {}

(* Whoever sits at the browser when Google answers, or when a channel is   *)
(* picked: a grant is only ever stored for the account that asked for it.  *)
GrantOfStarter == \A c \in Users : holder[c] # None => flow[holder[c].flow].starter = holder[c].by

(* However often a form is sent: an account signs up once, and a session   *)
(* is of an account that has accepted some version of the terms.           *)
SignedUpOnce == \A a \in Accounts : signups[a] = IF \E v \in 1..versions : <<a, v>> \in accepted THEN 1 ELSE 0
SessionsAccepted == jar.session # None => \E v \in 1..versions : <<jar.session, v>> \in accepted
AccountsFormed == SignedUpOnce /\ SessionsAccepted
=============================================================================
