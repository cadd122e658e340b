------------------------------- MODULE Billing -------------------------------
(***************************************************************************)
(* Four parts of billing whose machines share no state: the charges of     *)
(* auto top-up (AutoTopup), the card they are made to (Cards), the refunds *)
(* that revoke its mandate (RefundPause) and the purchases a buyer makes   *)
(* (Checkouts). What one does to another's columns is an act of the        *)
(* environment there, so they are explored one at a time.                  *)
(***************************************************************************)
EXTENDS Naturals

CONSTANTS None, Workers,   \* sweeps, handlers of events, tabs
          BankCards, MaxFaults,
          StaleAfter, MaxAttempts, MaxDays, MaxActs, MaxLoad,
          MaxSecond, MaxChanges, MaxConsents,
          MaxKeys, MaxSessions,
          Parts, MaxTime

VARIABLES
  machine,
  org, low, minted, pi, hook, credit, recovery, runner, today, refunds, agreed,
  overlooked, acts, faults,
  second, wallet, default, subscribed, events, pointer, cursor, subCursor, enabled, form,
  handler, changes, consents, slips, consented, overtaken, raced,
  session, answer, customers, attempt, customer, tab, shown, news, granted, keys, mishaps, crossed,
  now, bought, linked, returned, returns, told, settled, reversed, observed, pending, mandate,
  refunder, page, trips, wish

topup == <<org, low, minted, pi, hook, credit, recovery, runner, today, refunds, agreed,
           overlooked, acts, faults>>
cards == <<second, wallet, default, subscribed, events, pointer, cursor, subCursor, enabled, form,
           handler, changes, consents, slips, consented, overtaken, raced>>
checkouts == <<session, answer, customers, attempt, customer, tab, shown, news, granted,
               keys, mishaps, crossed>>
pauses == <<now, bought, linked, returned, returns, told, settled, reversed, observed, pending,
            mandate, refunder, page, trips, wish>>
vars == <<machine, topup, cards, checkouts, pauses>>

A == INSTANCE AutoTopup WITH Runners <- Workers
C == INSTANCE Cards WITH Handlers <- Workers, Cards <- BankCards, faults <- slips, crossed <- raced
K == INSTANCE Checkouts WITH Tabs <- Workers, faults <- mishaps
R == INSTANCE RefundPause WITH Hooks <- Workers, refunded <- returned, refunds <- returns,
       news <- told, granted <- settled, org <- mandate, hook <- refunder, form <- page,
       faults <- trips

ASSUME ConstantsOK == A!ConstantsOK /\ C!ConstantsOK /\ K!ConstantsOK /\ R!ConstantsOK

Init ==
  /\ machine \in {"topup", "cards", "checkouts", "pauses"}
  /\ A!Init /\ C!Init /\ K!Init /\ R!Init
  /\ machine # "pauses" => linked /\ bought = "credits"

TopUp == machine = "topup" /\ A!Next /\ UNCHANGED <<machine, cards, checkouts, pauses>>
SyncCards == machine = "cards" /\ C!Next /\ UNCHANGED <<machine, topup, checkouts, pauses>>
Buy == machine = "checkouts" /\ K!Next /\ UNCHANGED <<machine, topup, cards, pauses>>
Revoke == machine = "pauses" /\ R!Next /\ UNCHANGED <<machine, topup, cards, checkouts>>
Next == TopUp \/ SyncCards \/ Buy \/ Revoke

Spec == Init /\ [][Next]_vars

-----------------------------------------------------------------------------
(* The properties of the four modules, under one name each.                *)
TopupsKept == A!PaymentsAnswered /\ A!RefundStopsCharges
CardKept == C!ConsentCoversCard /\ C!CopySettles
CheckoutsKept == K!CheckoutsKept
MandateKept == R!MandateKept
=============================================================================
