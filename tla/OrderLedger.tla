---------------------------- MODULE OrderLedger ----------------------------
(***************************************************************************)
(* What the payment system promises about every order, without saying how: *)
(* it is paid for, then what it buys is given, once, and only after that   *)
(* is it reported as done.  None of the three is ever taken back.          *)
(***************************************************************************)
EXTENDS Naturals

CONSTANT Orders

VARIABLES
    paid,    \* the orders the provider holds the payment of
    given,   \* how often the user was given what an order buys
    done     \* the orders reported as completed

ledger == <<paid, given, done>>

LedgerInit ==
    /\ paid = {}
    /\ given = [o \in Orders |-> 0]
    /\ done = {}

Pay(o) ==
    /\ o \notin paid
    /\ paid' = paid \cup {o}
    /\ UNCHANGED <<given, done>>

Give(o) ==
    /\ o \in paid /\ given[o] = 0
    /\ given' = [given EXCEPT ![o] = 1]
    /\ UNCHANGED <<paid, done>>

Close(o) ==
    /\ given[o] = 1 /\ o \notin done
    /\ done' = done \cup {o}
    /\ UNCHANGED <<paid, given>>

LedgerNext == \E o \in Orders : Pay(o) \/ Give(o) \/ Close(o)

LedgerSpec == LedgerInit /\ [][LedgerNext]_ledger
=============================================================================
