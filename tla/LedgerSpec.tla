----------------------------- MODULE LedgerSpec -----------------------------
(***************************************************************************)
(* What the credit ledger of one organisation promises, whatever order     *)
(* Stripe's events arrive in and however often a handler runs: the credits *)
(* of a payment are granted once, withdrawn once however often it is       *)
(* disputed, given back only after that and at most once for each dispute, *)
(* and taken at most once when it is refunded; moderation spends only      *)
(* credits that are there.                                                 *)
(***************************************************************************)
EXTENDS Integers

CONSTANTS Charges,    \* the payments that buy credits
          Credits,    \* what each of them buys
          Disputes, ChargeOf  \* the disputes and the charge of each

VARIABLES standing,   \* where the grant of each charge stands
          given,      \* the disputes for which the credits were given back
          returned,   \* the charges whose refund was taken from the balance
          balance     \* organizations.creditsRemaining

vars == <<standing, given, returned, balance>>

Init ==
  /\ standing = [c \in Charges |-> "none"]
  /\ given = {} /\ returned = {}
  /\ balance = 0

(* The charge's grant goes from one standing to the next, by its amount.   *)
Passes(c, from, to, amount) ==
  /\ standing[c] = from
  /\ standing' = [standing EXCEPT ![c] = to]
  /\ balance' = balance + amount
  /\ UNCHANGED <<given, returned>>

Grant(c)    == Passes(c, "none", "granted", Credits)
Withdraw(c) == Passes(c, "granted", "withdrawn", -Credits)

(* Each dispute of a charge that is won gives the grant back by itself.    *)
GiveBack(d) ==
  /\ standing[ChargeOf[d]] \in {"withdrawn", "restored"}
  /\ d \notin given
  /\ given' = given \cup {d}
  /\ standing' = [standing EXCEPT ![ChargeOf[d]] = "restored"]
  /\ balance' = balance + Credits
  /\ UNCHANGED returned

(* A refund takes what is left of the grant and never leaves a debt.       *)
Return(c) ==
  /\ standing[c] # "none"
  /\ c \notin returned
  /\ returned' = returned \cup {c}
  /\ balance' = IF balance > Credits THEN balance - Credits ELSE 0
  /\ UNCHANGED <<standing, given>>

Spend ==
  /\ \E n \in 1..balance : balance' = balance - n
  /\ UNCHANGED <<standing, given, returned>>

Next ==
  \/ \E c \in Charges : Grant(c) \/ Withdraw(c) \/ Return(c)
  \/ \E d \in Disputes : GiveBack(d)
  \/ Spend

Spec == Init /\ [][Next]_vars
=============================================================================
