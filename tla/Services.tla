------------------------------ MODULE Services ------------------------------
(***************************************************************************)
(* Ten services over one database whose machines share no state: who      *)
(* belongs to a team (Tenancy), how people sign in and connect channels    *)
(* from one browser (SignIn), when an unfunded account is erased           *)
(* (Retention), how a channel is scanned (ScanRun), previewed (Preview)    *)
(* and its feedback reported (DigestJob) and counted (Themes), how an      *)
(* account is welcomed (Delivery) and a contact request told (Contact) by  *)
(* mail, and how credits are bought through Mercado Pago (MercadoPago).    *)
(* No step of one reads or writes what another holds, so a behaviour of    *)
(* all of them projects to a behaviour of each, and it is enough to        *)
(* explore one at a time: the specification is their sum, and `machine'    *)
(* names the one that runs.                                                *)
(***************************************************************************)
EXTENDS Naturals

CONSTANTS None, MaxFaults,
          Workers,   \* requests, sweeps, runs and mailers that overlap
          People, Tokens, Links, Founding, FirstSession, MaxActs,
          Orgs, Notice, Grace, MaxClock, MaxMoney,
          Horizon, First, NeedsAI, PageSize, MaxScans, MaxTopups, MaxClaims,
          LastUser, Requests, Signups, MaxTries, MaxTokens,
          Last, Funds, MaxToggles,
          Attempts, Payments, Pays, MaxSettlements, MaxPlanChanges, MaxResumes,
          Keys, Empty, Size, MaxThemes, Threshold,
          Visitors, Pending, MaxFlows, MaxTurns,
          MaxRows

VARIABLES
  machine,
  holder, seat, place, session, link, visitor, acts, admitted, overtaken,   \* Tenancy
  clock, row, live, org, paying, moves, sweeper, mailed,                     \* Retention
  now, channel, lease, visit, claimed, charged, balance, run, floor,         \* ScanRun
  visited, spent, scans, claims, scanFaults,
  account, welcome, throttled, discovery, mailer, tokens, faults,            \* Delivery
  welcomes, failed,
  request, teller, tellings, mishaps, notices,                               \* Contact
  watched, hold, stored, digested, covered, scoped, purse, told, stopped,    \* DigestJob
  digester, window, windows, refills, toggles, upsets,
  payment, due, attempt, granted, reversed, sum, plan, topup, answered,      \* MercadoPago
  handler, accepted, settlements, changes, resumes,
  claim, asked, themes, assigned, degraded,                                  \* Themes
  jar, flow, tab, member, agreed, grant, begun, erasures, versions, losses,  \* SignIn
  stage, entered, exposed, signups,
  shelf, latch, job, audits, preview, crossed, pauses, slips                 \* Preview

team == <<holder, seat, place, session, link, visitor, acts, admitted, overtaken>>
retention == <<clock, row, live, org, paying, moves, sweeper, mailed>>
scan == <<now, channel, lease, visit, claimed, charged, balance, run, floor,
          visited, spent, scans, claims, scanFaults>>
post == <<account, welcome, throttled, discovery, mailer, tokens, faults, welcomes, failed>>
contact == <<request, teller, tellings, mishaps, notices>>
digest == <<watched, hold, stored, digested, covered, scoped, purse, told, stopped,
            digester, window, windows, refills, toggles, upsets>>
mercado == <<payment, due, attempt, granted, reversed, sum, plan, topup, answered,
             handler, accepted, settlements, changes, resumes>>
grouping == <<claim, asked, themes, assigned, degraded>>
browser == <<jar, flow, tab, member, agreed, grant, begun, erasures, versions, losses,
             stage, entered, exposed, signups>>
trial == <<shelf, latch, job, audits, preview, crossed, pauses, slips>>
vars == <<machine, team, retention, scan, post, contact, digest, mercado, grouping, browser, trial>>

T == INSTANCE Tenancy WITH Users <- People, Requests <- Workers, account <- holder,
                           request <- visitor, spent <- acts
R == INSTANCE Retention WITH Sweepers <- Workers
S == INSTANCE ScanRun WITH Runs <- Workers, faults <- scanFaults
D == INSTANCE Delivery WITH Mailers <- Workers
C == INSTANCE Contact WITH Mailers <- Workers, mailer <- teller, tokens <- tellings, faults <- mishaps
F == INSTANCE DigestJob WITH Runs <- Workers, channel <- watched, lease <- hold, history <- covered,
                             charged <- scoped, balance <- purse, run <- digester,
                             scans <- windows, topups <- refills, faults <- upsets
M == INSTANCE MercadoPago WITH Handlers <- Workers, MaxMoves <- MaxSettlements, moves <- settlements
G == INSTANCE Themes
B == INSTANCE SignIn WITH Users <- Visitors, Tabs <- Workers, account <- member, accepted <- agreed,
                          holder <- grant, faults <- losses
P == INSTANCE Preview WITH Jobs <- Workers, row <- shelf, lease <- latch, toggles <- pauses, faults <- slips

ASSUME ConstantsOK == /\ T!ConstantsOK /\ R!ConstantsOK /\ S!ConstantsOK
                      /\ D!ConstantsOK /\ F!ConstantsOK /\ M!ConstantsOK
                      /\ G!ConstantsOK /\ C!ConstantsOK /\ B!ConstantsOK
                      /\ P!ConstantsOK

Machines == {"team", "retention", "scan", "post", "contact",
             "digest", "mercado", "grouping", "browser", "trial"}
Init ==   \* where the others begin is of no account
  /\ machine \in Machines
  /\ T!Init /\ R!Init /\ S!Init /\ D!Init /\ C!Init /\ F!Init /\ M!Init /\ G!Init /\ B!Init /\ P!Init
  /\ machine # "retention" => org = [o \in Orgs |-> "funded"]

Team ==
  /\ machine = "team" /\ T!Next
  /\ UNCHANGED <<machine, retention, scan, post, contact, digest, mercado, grouping, browser, trial>>
Retain ==
  /\ machine = "retention" /\ R!Next
  /\ UNCHANGED <<machine, team, scan, post, contact, digest, mercado, grouping, browser, trial>>
Scan ==
  /\ machine = "scan" /\ S!Next
  /\ UNCHANGED <<machine, team, retention, post, contact, digest, mercado, grouping, browser, trial>>
Post ==
  /\ machine = "post" /\ D!Next
  /\ UNCHANGED <<machine, team, retention, scan, contact, digest, mercado, grouping, browser, trial>>
Tell ==
  /\ machine = "contact" /\ C!Next
  /\ UNCHANGED <<machine, team, retention, scan, post, digest, mercado, grouping, browser, trial>>
Digest ==
  /\ machine = "digest" /\ F!Next
  /\ UNCHANGED <<machine, team, retention, scan, post, contact, mercado, grouping, browser, trial>>
Mercado ==
  /\ machine = "mercado" /\ M!Next
  /\ UNCHANGED <<machine, team, retention, scan, post, contact, digest, grouping, browser, trial>>
Group ==
  /\ machine = "grouping" /\ G!Next
  /\ UNCHANGED <<machine, team, retention, scan, post, contact, digest, mercado, browser, trial>>
Browse ==
  /\ machine = "browser" /\ B!Next
  /\ UNCHANGED <<machine, team, retention, scan, post, contact, digest, mercado, grouping, trial>>
Try ==
  /\ machine = "trial" /\ P!Next
  /\ UNCHANGED <<machine, team, retention, scan, post, contact, digest, mercado, grouping, browser>>
Next == Team \/ Retain \/ Scan \/ Post \/ Tell \/ Digest \/ Mercado \/ Group \/ Browse \/ Try

Spec == Init /\ [][Next]_vars

-----------------------------------------------------------------------------
(* The properties of the ten modules, under a name each or with what       *)
(* they are about: a pass over a channel, the mail, one browser's sign-ins. *)
TeamKeepsOwner == T!TeamKeepsOwner
NeverErasedUnwarned == R!NeverErasedUnwarned
ChannelKept == /\ S!NothingSkipped /\ S!EveryVerdictPaid
               /\ F!ScanDigestsEach /\ F!DigestsPaid
RecurrenceTrue == G!RecurrenceTrue
RescanCovers == S!RescanCovers
PreviewCovers == P!PreviewCovers
MailKept == D!OneWelcome /\ C!NoticeKept
TraversalCovers == D!TraversalCovers
MercadoKept == M!BuyerHonoured /\ M!ReversalsTaken
SignInKept == B!FlowsKept /\ B!AccountsFormed /\ B!GrantOfStarter
=============================================================================
