---------------------------- MODULE UsageLedger ----------------------------
(***************************************************************************)
(* What usage billing promises about a user's balance, without tables,     *)
(* transactions or caches: a request has one bill, which is written once   *)
(* together with the charge and stands for ever, and the balance is what   *)
(* bills and changes from elsewhere have made of it.                       *)
(***************************************************************************)
EXTENDS Integers

CONSTANTS Keys, Payloads, Cost, Opening, None

VARIABLES
    bill,      \* the usage a key was charged for
    balance,
    changes    \* credits and refunds so far

account == <<bill, balance, changes>>

LedgerInit ==
    /\ bill = [k \in Keys |-> None]
    /\ balance = Opening
    /\ changes = 0

Charge(k, p) ==
    /\ bill[k] = None
    /\ bill' = [bill EXCEPT ![k] = p]
    /\ balance' = balance - Cost[p]
    /\ UNCHANGED changes

Adjust(amount) ==
    /\ balance' = balance + amount
    /\ changes' = changes + 1
    /\ UNCHANGED bill

LedgerNext ==
    \/ \E k \in Keys, p \in Payloads : Charge(k, p)
    \/ \E amount \in {1, -1} : Adjust(amount)

LedgerSpec == LedgerInit /\ [][LedgerNext]_account
=============================================================================
