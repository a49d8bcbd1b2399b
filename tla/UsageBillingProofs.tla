------------------------- MODULE UsageBillingProofs -------------------------
(***************************************************************************)
(* Proofs about UsageBilling, for every set of requests, keys and usages   *)
(* and any number of credits and refunds.                                  *)
(*                                                                         *)
(* ChargedAsRecorded is not inductive: that a commit charges for the first *)
(* time rests on BillingInv, which says what the row lock of the INSERT    *)
(* and the check of the archive have established by then.                  *)
(***************************************************************************)
EXTENDS UsageBilling, TLAPS

-----------------------------------------------------------------------------
(* Types *)

\* Nothing is recorded and nobody is at work at first.
LEMMA BillingInit == Init => TypeOK /\ BillingInv /\ ChargedAsRecorded
<1> SUFFICES ASSUME Init PROVE TypeOK /\ BillingInv /\ ChargedAsRecorded
  OBVIOUS
<1>1. stored \in Int /\ cached \in Int \cup {None} /\ loads \in [Requests -> Int \cup {None}]
  BY BoundAssumption DEF Init
<1>2. TypeOK
  BY <1>1 DEF Init, TypeOK, Steps
<1>3. BillingInv
  BY DEF Init, BillingInv, Writing, Charging, At
<1>4. ChargedAsRecorded
  BY NoneAssumption DEF Init, ChargedAsRecorded
<1> QED BY <1>2, <1>3, <1>4

\* Ending a transaction frees its key and forgets its request.
LEMMA RollbackType ==
  ASSUME TypeOK, NEW q \in Requests, Rollback(q)
  PROVE  /\ writer' \in [Keys -> Requests \cup {None}]
         /\ pc' \in [Requests -> Steps]
         /\ key' \in [Requests -> Keys \cup {None}]
         /\ payload' \in [Requests -> Payloads \cup {None}]
BY DEF TypeOK, Rollback, Finish, Goto, Steps, Writing

\* Every step keeps the types.
LEMMA TypeStep ==
  ASSUME TypeOK, BillingInv, [Next]_vars
  PROVE  TypeOK'
<1> USE NoneAssumption, CostAssumption DEF TypeOK, At, Goto, Finish, tables, cache, request
<1>1. CASE UNCHANGED vars
  BY <1>1 DEF vars
<1>2. ASSUME NEW q \in Requests, GetUserBalance(q) PROVE TypeOK'
  BY <1>2 DEF GetUserBalance, Judge, Steps
<1>3. ASSUME NEW q \in Requests, Load(q) PROVE TypeOK'
  BY <1>3 DEF Load, Judge, Steps
<1>4. ASSUME NEW q \in Requests, SetUserBalance(q) PROVE TypeOK'
  BY ZenonT(40), <1>4 DEF SetUserBalance
<1>5. ASSUME NEW q \in Requests, NEW k \in Keys, NEW p \in Payloads, Serve(q, k, p)
      PROVE  TypeOK'
  <2>1. pc' \in [Requests -> Steps]
    BY <1>5 DEF Serve, Steps
  <2>2. \/ key' = [key EXCEPT ![q] = k] /\ payload' = [payload EXCEPT ![q] = p]
        \/ key' = key /\ payload' = payload
    BY <1>5 DEF Serve
  <2>3. key' \in [Requests -> Keys \cup {None}]
    BY <2>2
  <2>4. payload' \in [Requests -> Payloads \cup {None}]
    BY <2>2
  <2> QED BY <1>5, <2>1, <2>3, <2>4 DEF Serve
<1>6. ASSUME NEW q \in Requests, Insert(q) PROVE TypeOK'
  <2>1. pc' \in [Requests -> Steps]
    BY <1>6 DEF Insert, Steps
  <2>2. writer' \in [Keys -> Requests \cup {None}]
    BY <1>6 DEF Insert
  <2> QED BY <1>6, <2>1, <2>2 DEF Insert
<1>7. ASSUME NEW q \in Requests, CompareFingerprint(q) PROVE TypeOK'
  BY <1>7 DEF CompareFingerprint, Steps
<1>8. ASSUME NEW q \in Requests, CheckArchive(q) PROVE TypeOK'
  BY <1>8, RollbackType DEF CheckArchive, AfterArchive, Steps
<1>9. ASSUME NEW q \in Requests, Commit(q) PROVE TypeOK'
  <2>1. key[q] \in Keys /\ payload[q] \in Payloads
    BY <1>9 DEF Commit, BillingInv, Charging, Writing
  <2>2. charged' \in [Keys -> [Payloads -> Nat]]
    BY <1>9, <2>1 DEF Commit
  <2>3. dedup' \in [Keys -> Payloads \cup {None}] /\ stored' \in Int
    BY <1>9, <2>1 DEF Commit
  <2>4. /\ writer' \in [Keys -> Requests \cup {None}] /\ pc' \in [Requests -> Steps]
        /\ key' \in [Requests -> Keys \cup {None}]
        /\ payload' \in [Requests -> Payloads \cup {None}]
    BY <1>9, RollbackType DEF Commit, Steps
  <2> QED BY <1>9, <2>2, <2>3, <2>4 DEF Commit
<1>10. ASSUME NEW q \in Requests, CommitFails(q) PROVE TypeOK'
  BY <1>10, RollbackType DEF CommitFails
<1>11. ASSUME NEW q \in Requests, DeductUserBalance(q) PROVE TypeOK'
  <2>1. payload[q] \in Payloads
    BY <1>11 DEF DeductUserBalance, BillingInv, Charging
  <2>2. cached' \in Int \cup {None} /\ expiring' \in BOOLEAN
    <3>1. cached' \in Int \cup {None}
      BY <1>11, <2>1 DEF DeductUserBalance
    <3>2. expiring' \in BOOLEAN
      BY Zenon, <1>11 DEF DeductUserBalance, DeductionExpires
    <3> QED BY <3>1, <3>2
  <2>3. /\ pc' \in [Requests -> Steps] /\ key' \in [Requests -> Keys \cup {None}]
        /\ payload' \in [Requests -> Payloads \cup {None}]
    BY <1>11 DEF DeductUserBalance, Steps
  <2> QED BY <1>11, <2>2, <2>3 DEF DeductUserBalance
<1>12. ASSUME NEW q \in Requests, Crash(q) PROVE TypeOK'
  BY <1>12, RollbackType DEF Crash
<1>13. ASSUME NEW k \in Keys, Cleanup(k) PROVE TypeOK'
  BY <1>13 DEF Cleanup, Archived
<1>14. CASE Credit \/ Refund
  <2>1. stored' \in Int /\ deletions' \in Nat /\ changes' \in Nat
    BY <1>14 DEF Credit, Refund
  <2> QED BY <1>14, <2>1 DEF Credit, Refund
<1>15. CASE InvalidateUserBalance \/ CacheExpires
  <2>1. cached' \in Int \cup {None} /\ expiring' \in BOOLEAN /\ deletions' \in Nat
    <3>1. cached' \in Int \cup {None} /\ deletions' \in Nat
      BY <1>15 DEF InvalidateUserBalance, CacheExpires
    <3>2. expiring' \in BOOLEAN
      BY Zenon, <1>15 DEF InvalidateUserBalance, CacheExpires
    <3> QED BY <3>1, <3>2
  <2> QED BY <1>15, <2>1 DEF InvalidateUserBalance, CacheExpires
<1> QED BY ONLY [Next]_vars, <1>1, <1>2, <1>3, <1>4, <1>5, <1>6, <1>7, <1>8, <1>9, <1>10,
                <1>11, <1>12, <1>13, <1>14, <1>15 DEF Next, Step

-----------------------------------------------------------------------------
(* One transaction at a time works on a key *)

\* Ending a transaction takes nothing from the others.
LEMMA RollbackInv ==
  ASSUME TypeOK, BillingInv, NEW q \in Requests, Rollback(q), UNCHANGED archive,
         \/ UNCHANGED dedup
         \/ /\ At(q, "commit")
            /\ dedup' = [dedup EXCEPT ![key[q]] = payload[q]]
  PROVE  BillingInv'
<1>1. \A k \in Keys : writer'[k] # None => writer'[k] # q /\ writer'[k] = writer[k]
  BY NoneAssumption DEF TypeOK, Rollback
<1>2. \A k \in Keys : writer[k] # None /\ writer[k] # q => writer'[k] = writer[k]
  BY DEF TypeOK, Rollback
<1>3. \A v \in Requests : pc'[v] \in Charging =>
        v # q /\ pc'[v] = pc[v] /\ key'[v] = key[v] /\ payload'[v] = payload[v]
  BY DEF TypeOK, Rollback, Finish, Goto, Charging, Writing
<1>4. \A v \in Requests : v # q =>
        pc'[v] = pc[v] /\ key'[v] = key[v] /\ payload'[v] = payload[v]
  BY DEF TypeOK, Rollback, Finish, Goto
<1>5. \A k \in Keys : writer'[k] # None => dedup'[k] = None
  BY <1>1 DEF TypeOK, BillingInv, At, Writing
<1>6. \A k \in Keys : dedup'[k] = None \/ archive'[k] = None
  BY DEF TypeOK, BillingInv, At, Writing
<1>7. \A k \in Keys : writer'[k] # None => pc'[writer'[k]] \in Writing /\ key'[writer'[k]] = k
  BY <1>1, <1>4 DEF TypeOK, BillingInv
<1>8. \A v \in Requests : pc'[v] \in Writing => writer'[key'[v]] = v
  BY <1>2, <1>3, NoneAssumption DEF TypeOK, BillingInv, Charging, Writing
<1>9. \A v \in Requests : At(v, "commit")' => archive'[key'[v]] = None
  BY <1>3 DEF BillingInv, At, Charging, Writing
<1> QED BY <1>3, <1>5, <1>6, <1>7, <1>8, <1>9 DEF BillingInv

\* Every step keeps what ChargedAsRecorded rests on.
LEMMA BillingInvStep ==
  ASSUME TypeOK, BillingInv, [Next]_vars
  PROVE  BillingInv'
<1> USE NoneAssumption DEF TypeOK, At, Goto, Finish, tables, cache, request, Charging, Writing
<1>1. CASE UNCHANGED vars
  BY <1>1 DEF vars, BillingInv
<1>2. ASSUME NEW q \in Requests, GetUserBalance(q) PROVE BillingInv'
  BY <1>2 DEF GetUserBalance, Judge, BillingInv
<1>3. ASSUME NEW q \in Requests, Load(q) PROVE BillingInv'
  BY <1>3 DEF Load, Judge, BillingInv
<1>4. ASSUME NEW q \in Requests, SetUserBalance(q) PROVE BillingInv'
  BY <1>4 DEF SetUserBalance, BillingInv
<1>5. ASSUME NEW q \in Requests, NEW k \in Keys, NEW p \in Payloads, Serve(q, k, p)
      PROVE  BillingInv'
  <2>1. \A v \in Requests : v # q => pc'[v] = pc[v] /\ key'[v] = key[v] /\ payload'[v] = payload[v]
    <3>1. CASE Goto(q, "insert") /\ key' = [key EXCEPT ![q] = k] /\ payload' = [payload EXCEPT ![q] = p]
      BY <3>1
    <3>2. CASE Goto(q, "idle") /\ key' = key /\ payload' = payload
      BY <3>2
    <3> QED BY ONLY <1>5, <3>1, <3>2 DEF Serve, request
  <2>2. pc[q] \notin Charging /\ pc'[q] \notin Writing
    BY <1>5 DEF Serve
  <2>3. pc'[q] \in Charging => key'[q] # None /\ payload'[q] # None
    BY <1>5 DEF Serve
  <2> QED BY <1>5, <2>1, <2>2, <2>3 DEF Serve, BillingInv
<1>6. ASSUME NEW q \in Requests, Insert(q) PROVE BillingInv'
  <2>1. CASE dedup[key[q]] = None /\ writer' = [writer EXCEPT ![key[q]] = q] /\ Goto(q, "archive")
    BY <1>6, <2>1 DEF Insert, Insertable, BillingInv
  <2>2. CASE Goto(q, "conflict") /\ UNCHANGED writer
    BY <1>6, <2>2 DEF Insert, BillingInv
  <2> QED BY ONLY <1>6, <2>1, <2>2 DEF Insert
<1>7. ASSUME NEW q \in Requests, CompareFingerprint(q) PROVE BillingInv'
  BY <1>7 DEF CompareFingerprint, BillingInv
<1>8. ASSUME NEW q \in Requests, CheckArchive(q) PROVE BillingInv'
  <2>1. CASE archive[key[q]] = None /\ Goto(q, "commit") /\ UNCHANGED <<writer, request>>
    BY <1>8, <2>1 DEF CheckArchive, BillingInv
  <2>2. CASE Rollback(q)
    BY ONLY TypeOK, BillingInv, <1>8, <2>2, RollbackInv DEF CheckArchive
  <2> QED BY ONLY <1>8, <2>1, <2>2 DEF CheckArchive, AfterArchive
<1>9. ASSUME NEW q \in Requests, Commit(q) PROVE BillingInv'
  <2>1. CASE /\ Goto(q, "deduct") /\ UNCHANGED request
             /\ writer' = [k \in Keys |-> IF writer[k] = q THEN None ELSE writer[k]]
    <3>1. key[q] \in Keys /\ payload[q] \in Payloads
      BY <1>9 DEF Commit, BillingInv
    <3>2. \A k \in Keys : dedup'[k] = IF k = key[q] THEN payload[q] ELSE dedup[k]
      BY <1>9, <3>1 DEF Commit
    <3>3. \A v \in Requests : v # q => pc'[v] = pc[v]
      BY <2>1
    <3>4. pc'[q] = "deduct" /\ key' = key /\ payload' = payload /\ archive' = archive
      BY <1>9, <2>1 DEF Commit
    <3>5. \A v \in Requests : pc'[v] \in Writing => v # q /\ writer'[key'[v]] = v
      BY <2>1, <3>3, <3>4 DEF BillingInv
    <3>6. \A k \in Keys : writer'[k] # None => /\ writer'[k] = writer[k] /\ writer[k] # q
                                              /\ k # key[q]
      BY <1>9, <2>1 DEF Commit, BillingInv
    <3>7. \A k \in Keys : writer'[k] # None => /\ pc'[writer'[k]] \in Writing
                                              /\ key'[writer'[k]] = k /\ dedup'[k] = None
      BY <3>2, <3>3, <3>4, <3>6 DEF BillingInv
    <3>8. \A k \in Keys : dedup'[k] = None \/ archive'[k] = None
      BY <1>9, <3>2, <3>4 DEF Commit, BillingInv
    <3>9. \A v \in Requests : pc'[v] \in Charging => key'[v] # None /\ payload'[v] # None
      BY <3>1, <3>3, <3>4 DEF BillingInv
    <3>10. \A v \in Requests : At(v, "commit")' => archive'[key'[v]] = None
      BY <3>3, <3>4 DEF BillingInv
    <3> QED BY ONLY <3>5, <3>7, <3>8, <3>9, <3>10 DEF BillingInv
  <2>2. CASE Rollback(q)
    BY ONLY TypeOK, BillingInv, <1>9, <2>2, RollbackInv DEF Commit
  <2> QED BY ONLY <1>9, <2>1, <2>2 DEF Commit
<1>10. ASSUME NEW q \in Requests, CommitFails(q) PROVE BillingInv'
  BY ONLY TypeOK, BillingInv, <1>10, RollbackInv DEF CommitFails
<1>11. ASSUME NEW q \in Requests, DeductUserBalance(q) PROVE BillingInv'
  BY <1>11 DEF DeductUserBalance, BillingInv
<1>12. ASSUME NEW q \in Requests, Crash(q) PROVE BillingInv'
  BY ONLY TypeOK, BillingInv, <1>12, RollbackInv DEF Crash
<1>13. ASSUME NEW k \in Keys, Cleanup(k) PROVE BillingInv'
  BY <1>13 DEF Cleanup, Archived, BillingInv
<1>14. CASE Credit \/ InvalidateUserBalance \/ Refund \/ CacheExpires
  BY <1>14 DEF Credit, InvalidateUserBalance, Refund, CacheExpires, BillingInv
<1> QED BY ONLY [Next]_vars, <1>1, <1>2, <1>3, <1>4, <1>5, <1>6, <1>7, <1>8, <1>9, <1>10,
                <1>11, <1>12, <1>13, <1>14 DEF Next, Step

-----------------------------------------------------------------------------
(* Charges and records *)

\* A commit charges a key that was recorded nowhere, the cleanup moves its record,
\* and no other step charges or records anything.
LEMMA ChargeStep ==
  ASSUME TypeOK, BillingInv, ChargedAsRecorded, [Next]_vars
  PROVE  ChargedAsRecorded'
<1> USE DEF ChargedAsRecorded, tables, cache
<1>1. ASSUME NEW q \in Requests, Commit(q) PROVE ChargedAsRecorded'
  <2>1. /\ key[q] \in Keys /\ payload[q] \in Payloads
        /\ dedup[key[q]] = None /\ archive[key[q]] = None
    BY <1>1, NoneAssumption DEF Commit, TypeOK, BillingInv, Charging, Writing, At
  <2>2. ASSUME NEW k \in Keys, NEW p \in Payloads
        PROVE  charged'[k][p] = IF p \in {dedup'[k], archive'[k]} THEN 1 ELSE 0
    <3>1. CASE k = key[q]
      <4>1. charged[k][p] = 0
        BY <2>1, <3>1, NoneAssumption
      <4>2. dedup'[k] = payload[q] /\ archive'[k] = None
        BY <1>1, <2>1, <3>1 DEF Commit, TypeOK
      <4>3. charged'[k][p] = IF p = payload[q] THEN 1 ELSE 0
        BY <1>1, <2>1, <3>1, <4>1 DEF Commit, TypeOK
      <4> QED BY <4>2, <4>3, NoneAssumption
    <3>2. CASE k # key[q]
      <4>1. charged'[k][p] = charged[k][p] /\ dedup'[k] = dedup[k] /\ archive'[k] = archive[k]
        BY <1>1, <2>1, <3>2 DEF Commit, TypeOK
      <4> QED BY <4>1
    <3> QED BY <3>1, <3>2
  <2> QED BY <2>2
<1>2. ASSUME NEW k \in Keys, Cleanup(k) PROVE ChargedAsRecorded'
  <2>1. archive[k] = None /\ archive' = [archive EXCEPT ![k] = dedup[k]]
    BY <1>2 DEF Cleanup, Archived, TypeOK, BillingInv
  <2> QED BY <1>2, <2>1, NoneAssumption DEF Cleanup, TypeOK
<1>3. CASE UNCHANGED <<dedup, archive, charged>>
  BY <1>3
<1>4. ASSUME NEW q \in Requests, Step(q), ~Commit(q) PROVE UNCHANGED <<dedup, archive, charged>>
  BY <1>4 DEF Step, GetUserBalance, Load, SetUserBalance, Serve, Insert, CompareFingerprint,
              CheckArchive, CommitFails, DeductUserBalance, Crash
<1>5. CASE Credit \/ InvalidateUserBalance \/ Refund \/ CacheExpires
  BY <1>3, <1>5 DEF Credit, InvalidateUserBalance, Refund, CacheExpires
<1>6. CASE UNCHANGED vars
  BY <1>3, <1>6 DEF vars
<1> QED BY ONLY [Next]_vars, <1>1, <1>2, <1>3, <1>4, <1>5, <1>6 DEF Next

-----------------------------------------------------------------------------
(* The ledger *)

\* A step of the ledger, or one the ledger does not see.
LedgerStep == [Ledger!LedgerNext]_(Ledger!account)
Bill == [k \in Keys |-> IF dedup[k] # None THEN dedup[k] ELSE archive[k]]

\* A commit is the ledger's charge, credits and refunds its changes, and the cleanup
\* moves a bill without altering it.
LEMMA LedgerImplementedStep ==
  ASSUME TypeOK, BillingInv, [Next]_vars
  PROVE  LedgerStep
<1> USE DEF LedgerStep, Ledger!account, tables, cache
<1>1. ASSUME NEW q \in Requests, Commit(q) PROVE LedgerStep
  <2>1. /\ key[q] \in Keys /\ payload[q] \in Payloads
        /\ dedup[key[q]] = None /\ archive[key[q]] = None
    BY <1>1, NoneAssumption DEF Commit, TypeOK, BillingInv, Charging, Writing, At
  <2>2. PICK k \in Keys, p \in Payloads : k = key[q] /\ p = payload[q]
    BY <2>1
  <2>3. Bill[k] = None /\ Bill' = [Bill EXCEPT ![k] = p]
    BY <1>1, <2>1, <2>2, NoneAssumption DEF Commit, TypeOK, Bill
  <2>4. Ledger!Charge(k, p)
    BY <1>1, <2>2, <2>3 DEF Commit, Bill, Ledger!Charge
  <2> QED BY <2>4 DEF Ledger!LedgerNext
<1>2. ASSUME NEW k \in Keys, Cleanup(k) PROVE LedgerStep
  <2>1. archive[k] = None /\ archive' = [archive EXCEPT ![k] = dedup[k]]
    BY <1>2 DEF Cleanup, Archived, TypeOK, BillingInv
  <2>2. Bill' = Bill
    BY <1>2, <2>1, NoneAssumption DEF Cleanup, TypeOK, Bill
  <2> QED BY <1>2, <2>2 DEF Cleanup, Bill
<1>3. CASE UNCHANGED <<dedup, archive, stored, changes>>
  BY ONLY <1>3 DEF LedgerStep, Ledger!account
<1>4. ASSUME NEW q \in Requests, Step(q), ~Commit(q)
      PROVE  UNCHANGED <<dedup, archive, stored, changes>>
  BY <1>4 DEF Step, GetUserBalance, Load, SetUserBalance, Serve, Insert, CompareFingerprint,
              CheckArchive, CommitFails, DeductUserBalance, Crash
<1>5. CASE Credit \/ Refund
  <2>1. \/ stored' = stored + 1 \/ stored' = stored + (-1)
    BY <1>5 DEF Credit, Refund, TypeOK
  <2>2. changes' = changes + 1 /\ UNCHANGED <<dedup, archive>>
    BY <1>5 DEF Credit, Refund
  <2>3. Ledger!Adjust(1) \/ Ledger!Adjust(-1)
    BY <2>1, <2>2 DEF Ledger!Adjust
  <2> QED BY <2>3 DEF Ledger!LedgerNext
<1>6. CASE InvalidateUserBalance \/ CacheExpires
  BY <1>3, <1>6 DEF InvalidateUserBalance, CacheExpires
<1>7. CASE UNCHANGED vars
  BY <1>3, <1>7 DEF vars
<1> QED BY ONLY [Next]_vars, <1>1, <1>2, <1>3, <1>4, <1>5, <1>6, <1>7 DEF Next

-----------------------------------------------------------------------------
(* Theorems *)

\* Types hold, and with them what is known of open transactions.
LEMMA BillingInvariant == Spec => [](TypeOK /\ BillingInv)
<1>1. TypeOK /\ BillingInv /\ [Next]_vars => (TypeOK /\ BillingInv)'
  BY TypeStep, BillingInvStep
<1> QED BY <1>1, BillingInit, PTL DEF Spec

\* Every variable keeps its type: a charge always has a key and a usage.
THEOREM TypeCorrect == Spec => []TypeOK
BY BillingInvariant, PTL

\* usageBillingRepository.Apply charges the usage a key is recorded with once, and
\* no other usage under that key, however often it is sent and however the
\* cleanup moves its record between the two tables.
THEOREM Charges == Spec => []ChargedAsRecorded
<1>1. TypeOK /\ BillingInv /\ ChargedAsRecorded /\ [Next]_vars => ChargedAsRecorded'
  BY ChargeStep
<1> QED BY <1>1, BillingInit, BillingInvariant, PTL DEF Spec

\* usageBillingRepository.Apply and CleanupUsageBillingDedup implement the ledger: the
\* stored balance is what bills and other changes have made of it, and a bill stands.
THEOREM LedgerImplemented == Spec => ImplementsLedger
<1>1. Init => Ledger!LedgerInit
  BY DEF Init, Ledger!LedgerInit
<1>2. TypeOK /\ BillingInv /\ [Next]_vars => [Ledger!LedgerNext]_(Ledger!account)
  BY LedgerImplementedStep DEF LedgerStep
<1> QED BY <1>1, <1>2, BillingInvariant, PTL DEF Spec, ImplementsLedger, Ledger!LedgerSpec
=============================================================================
