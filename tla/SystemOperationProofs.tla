------------------------ MODULE SystemOperationProofs ------------------------
(***************************************************************************)
(* Proofs about SystemOperation, for every set of keys and every number of *)
(* requests.                                                               *)
(*                                                                         *)
(* RecordInv says that the record of a request that executes is as the     *)
(* request left it when it claimed it; EffectInv, that the record of an    *)
(* effect is there while the effect must not be repeated; LeaseInv, that   *)
(* a lease of the lock which can be renewed has not ended.                 *)
(***************************************************************************)
EXTENDS SystemOperation, TLAPS

\* What the times must be: a claim takes less time than a lease and an execution, and a
\* request less than the life of its record.
Timely ==
    /\ ClaimTime < Lease
    /\ ClaimTime < MinRun
    /\ RunTime < TTL

\* The bounds are numbers.
LEMMA Times ==
  /\ Lease \in Nat /\ TTL \in Nat /\ Backoff \in Nat /\ ClaimTime \in Nat /\ MinRun \in Nat
  /\ RunTime \in Nat /\ Lease > 0 /\ TTL > 0
BY TimeAssumption

-----------------------------------------------------------------------------
(* Types *)

\* The table is empty, and no request has begun, at first.
LEMMA SystemInit == Init => TypeOK /\ RequestInv /\ RecordInv /\ EffectInv /\ LeaseInv
<1> SUFFICES ASSUME Init PROVE TypeOK /\ RequestInv /\ RecordInv /\ EffectInv /\ LeaseInv
  OBVIOUS
<1>1. renewing \in [Workers -> BOOLEAN]
  BY Zenon DEF Init
<1>2. Nothing \in [id: Ids, status: Status]
  BY DEF Nothing, Ids, Status
<1>3. TypeOK
  BY <1>1, <1>2 DEF Init, TypeOK, Steps, Ids
<1>4. \A w \in Workers : pc[w] = "idle" /\ ~Executing(w) /\ ~renewing[w]
  BY DEF Init, Executing, Locks
<1>5. RequestInv
  BY <1>4 DEF Init, RequestInv, At, Claims
<1>6. RecordInv
  BY <1>4 DEF RecordInv, OneExecutor
<1>7. EffectInv
  BY <1>4 DEF Init, EffectInv, AtMostOnce
<1>8. LeaseInv
  BY <1>4 DEF LeaseInv
<1> QED BY <1>3, <1>5, <1>6, <1>7, <1>8

\* A row that is not missing is a record.
LEMMA RowType ==
  ASSUME TypeOK, NEW k \in Keys \cup {LockKey}, row[k] # None
  PROVE  /\ row[k] \in Rows
         /\ row[k].id \in Nat /\ row[k].status \in Status
         /\ row[k].locked_until \in Nat /\ row[k].expires_at \in Nat
BY DEF TypeOK, Rows, Ids

\* What the statements against the table do to a row, and to the others.
LEMMA Statements ==
  ASSUME TypeOK, NEW k \in Keys \cup {LockKey}, NEW now \in Nat
  PROVE  /\ \A f \in Keys \cup Payloads : Insert(k, f, now) =>
              /\ row' \in [Keys \cup {LockKey} -> Rows \cup {None}] /\ nextId' \in Ids \ {0}
              /\ row[k] = None /\ row'[k] # None /\ row'[k].status = "PROCESSING"
              /\ row'[k].locked_until = now + Lease /\ row'[k].expires_at = now + TTL
              /\ \A j \in Keys \cup {LockKey} : j # k => row'[j] = row[j]
         /\ row[k] # None /\ Reclaim(k, now) =>
              /\ row' \in [Keys \cup {LockKey} -> Rows \cup {None}] /\ nextId' \in Ids \ {0}
              /\ row'[k] # None /\ row'[k].status = "PROCESSING"
              /\ row'[k].locked_until = now + Lease /\ row'[k].expires_at = now + TTL
              /\ \A j \in Keys \cup {LockKey} : j # k => row'[j] = row[j]
         /\ \A id \in Ids, status \in Status, locked \in Nat, expires \in Nat :
              Finish(k, id, status, locked, expires) =>
                /\ row' \in [Keys \cup {LockKey} -> Rows \cup {None}]
                /\ \/ row'[k] = row[k] /\ ~Found(k, id)
                   \/ row'[k] # None /\ row'[k].status = status /\ row'[k].expires_at = expires
                /\ \A j \in Keys \cup {LockKey} : j # k => row'[j] = row[j]
<1>1. row \in [Keys \cup {LockKey} -> Rows \cup {None}] /\ nextId \in Nat /\ nextId # 0
  BY DEF TypeOK, Ids
<1>2. ASSUME NEW f \in Keys \cup Payloads, Insert(k, f, now)
      PROVE  /\ row' \in [Keys \cup {LockKey} -> Rows \cup {None}] /\ nextId' \in Ids \ {0}
             /\ row[k] = None /\ row'[k] # None /\ row'[k].status = "PROCESSING"
             /\ row'[k].locked_until = now + Lease /\ row'[k].expires_at = now + TTL
             /\ \A j \in Keys \cup {LockKey} : j # k => row'[j] = row[j]
  <2> DEFINE r == [id |-> nextId, fingerprint |-> f, status |-> "PROCESSING",
                   locked_until |-> now + Lease, expires_at |-> now + TTL]
  <2>1. r \in Rows
    BY <1>1, Times DEF Rows, Ids, Status
  <2>2. r.status = "PROCESSING" /\ r.locked_until = now + Lease /\ r.expires_at = now + TTL
    OBVIOUS
  <2>3. row' = [row EXCEPT ![k] = r] /\ nextId' = nextId + 1 /\ row[k] = None
    BY <1>2 DEF Insert
  <2> HIDE DEF r
  <2> QED BY <1>1, <2>1, <2>2, <2>3, RowAssumption DEF Ids
<1>3. ASSUME row[k] # None, Reclaim(k, now)
      PROVE  /\ row' \in [Keys \cup {LockKey} -> Rows \cup {None}] /\ nextId' \in Ids \ {0}
             /\ row'[k] # None /\ row'[k].status = "PROCESSING"
             /\ row'[k].locked_until = now + Lease /\ row'[k].expires_at = now + TTL
             /\ \A j \in Keys \cup {LockKey} : j # k => row'[j] = row[j]
  <2> DEFINE r == [row[k] EXCEPT !.status = "PROCESSING", !.locked_until = now + Lease,
                                 !.expires_at = now + TTL]
  <2>1. row[k] \in Rows
    BY <1>3, RowType
  <2>2. /\ r \in Rows
        /\ r.status = "PROCESSING" /\ r.locked_until = now + Lease /\ r.expires_at = now + TTL
    <3>1. now + Lease \in Nat /\ now + TTL \in Nat /\ "PROCESSING" \in Status
      BY Times DEF Status
    <3> QED BY ONLY <2>1, <3>1 DEF Rows
  <2>3. row' = [row EXCEPT ![k] = r] /\ nextId' = nextId
    <3>1. k \in DOMAIN row
      BY <1>1
    <3> QED BY <1>3, <3>1 DEF Reclaim
  <2> HIDE DEF r
  <2> QED BY <1>1, <2>2, <2>3, RowAssumption DEF Ids
<1>4. ASSUME NEW id \in Ids, NEW status \in Status, NEW locked \in Nat, NEW expires \in Nat,
             Finish(k, id, status, locked, expires)
      PROVE  /\ row' \in [Keys \cup {LockKey} -> Rows \cup {None}]
             /\ \/ row'[k] = row[k] /\ ~Found(k, id)
                \/ row'[k] # None /\ row'[k].status = status /\ row'[k].expires_at = expires
             /\ \A j \in Keys \cup {LockKey} : j # k => row'[j] = row[j]
  <2> DEFINE r == [row[k] EXCEPT !.status = status, !.locked_until = locked,
                                 !.expires_at = expires]
  <2>1. CASE Found(k, id)
    <3>1. row[k] \in Rows
      BY <2>1, RowType DEF Found
    <3>2. r \in Rows /\ r.status = status /\ r.expires_at = expires
      BY <3>1 DEF Rows
    <3>3. row' = [row EXCEPT ![k] = r]
      BY <1>1, <1>4, <2>1 DEF Finish
    <3> HIDE DEF r
    <3> QED BY <1>1, <3>2, <3>3, RowAssumption
  <2>2. CASE ~Found(k, id)
    BY <1>1, <1>4, <2>2 DEF Finish
  <2> QED BY <2>1, <2>2
<1> QED BY <1>2, <1>3, <1>4

\* A request's step leaves the clock and the other requests alone.
LEMMA StepFrame ==
  ASSUME TypeOK, NEW w \in Workers, Step(w)
  PROVE  /\ clock' = clock
         /\ \A v \in Workers : v # w =>
              /\ pc'[v] = pc[v] /\ key'[v] = key[v] /\ payload'[v] = payload[v]
              /\ start'[v] = start[v] /\ seen'[v] = seen[v] /\ recId'[v] = recId[v]
              /\ claimed'[v] = claimed[v] /\ lstart'[v] = lstart[v] /\ lockId'[v] = lockId[v]
              /\ renewing'[v] = renewing[v] /\ outcome'[v] = outcome[v]
<1> USE DEF TypeOK, table, request, lock, ghost, Goto, Leave, Answer, Claim, Look, ByStatus,
            Fail, Acquired
<1>1. CASE CreateProcessing(w)
  BY <1>1 DEF CreateProcessing
<1>2. CASE GetExisting(w)
  BY <1>2 DEF GetExisting
<1>3. CASE ReclaimExpired(w)
  BY <1>3 DEF ReclaimExpired
<1>4. CASE GetLatest(w)
  BY <1>4 DEF GetLatest
<1>5. CASE ReclaimFailed(w)
  BY <1>5 DEF ReclaimFailed
<1>6. CASE AcquireNew(w)
  BY <1>6 DEF AcquireNew
<1>7. CASE AcquireRead(w)
  BY <1>7 DEF AcquireRead
<1>8. CASE AcquireReclaim(w)
  BY <1>8 DEF AcquireReclaim
<1>9. CASE Release(w)
  BY <1>9 DEF Release
<1>10. CASE MarkFinished(w)
  BY <1>10 DEF MarkFinished
<1>11. CASE Renew(w)
  BY <1>11 DEF Renew
<1>12. CASE Crash(w)
  BY <1>12 DEF Crash
<1>13. ASSUME NEW result \in {"ok", "failed"}, Run(w, result)
       PROVE  /\ clock' = clock
              /\ \A v \in Workers : v # w =>
                   /\ pc'[v] = pc[v] /\ key'[v] = key[v] /\ payload'[v] = payload[v]
                   /\ start'[v] = start[v] /\ seen'[v] = seen[v] /\ recId'[v] = recId[v]
                   /\ claimed'[v] = claimed[v] /\ lstart'[v] = lstart[v] /\ lockId'[v] = lockId[v]
                   /\ renewing'[v] = renewing[v] /\ outcome'[v] = outcome[v]
  BY <1>13 DEF Run
<1>14. ASSUME NEW k \in Keys, NEW p \in Payloads, Begin(w, k, p)
       PROVE  /\ clock' = clock
              /\ \A v \in Workers : v # w =>
                   /\ pc'[v] = pc[v] /\ key'[v] = key[v] /\ payload'[v] = payload[v]
                   /\ start'[v] = start[v] /\ seen'[v] = seen[v] /\ recId'[v] = recId[v]
                   /\ claimed'[v] = claimed[v] /\ lstart'[v] = lstart[v] /\ lockId'[v] = lockId[v]
                   /\ renewing'[v] = renewing[v] /\ outcome'[v] = outcome[v]
  BY <1>14 DEF Begin
<1> QED BY ONLY Step(w), <1>1, <1>2, <1>3, <1>4, <1>5, <1>6, <1>7, <1>8, <1>9, <1>10, <1>11, <1>12,
                <1>13, <1>14 DEF Step

\* A request's step keeps the types of what it keeps for itself.
LEMMA LocalTypes ==
  ASSUME TypeOK, RequestInv, NEW w \in Workers, Step(w)
  PROVE  /\ clock' \in Nat /\ faults' \in Nat
         /\ pc' \in [Workers -> Steps] /\ key' \in [Workers -> Keys \cup {None}]
         /\ payload' \in [Workers -> Payloads \cup {None}] /\ start' \in [Workers -> Nat]
         /\ recId' \in [Workers -> Ids] /\ claimed' \in [Workers -> Nat]
         /\ lstart' \in [Workers -> Nat] /\ lockId' \in [Workers -> Ids]
         /\ outcome' \in [Workers -> {"none", "ok", "failed"}]
         /\ seen' \in [Workers -> [id: Ids, status: Status]]
         /\ renewing' \in [Workers -> BOOLEAN]
         /\ valid' \in [Keys -> Nat]
<1> USE DEF TypeOK, table, request, lock, ghost, Goto, Leave, Answer, Claim, Look, ByStatus,
            Fail, Acquired, Step, CreateProcessing, GetExisting, ReclaimExpired, GetLatest,
            ReclaimFailed, AcquireNew, AcquireRead, AcquireReclaim, Release, MarkFinished, Renew,
            Crash, Run, Begin
<1>1. clock' \in Nat
  OBVIOUS
<1>2. faults' \in Nat
  BY DEF Fault
<1>3. pc' \in [Workers -> Steps]
  BY DEF Steps, Claims, Locks
<1>4. key' \in [Workers -> Keys \cup {None}]
  BY ZenonT(40)
<1>5. payload' \in [Workers -> Payloads \cup {None}]
  BY ZenonT(40)
<1>6. start' \in [Workers -> Nat]
  OBVIOUS
<1>7. claimed' \in [Workers -> Nat]
  OBVIOUS
<1>8. lstart' \in [Workers -> Nat]
  <2>1. lstart' = lstart \/ \E t \in {0, clock} : lstart' = [lstart EXCEPT ![w] = t]
    OBVIOUS
  <2> QED BY ONLY TypeOK, <2>1 DEF TypeOK
<1>9. outcome' \in [Workers -> {"none", "ok", "failed"}]
  <2>1. outcome' = outcome \/ \E o \in {"none", "ok", "failed"} : outcome' = [outcome EXCEPT ![w] = o]
    OBVIOUS
  <2> QED BY <2>1
<1>10. renewing' \in [Workers -> BOOLEAN]
  <2>1. \/ renewing' = renewing
        \/ renewing' = [renewing EXCEPT ![w] = TRUE]
        \/ renewing' = [renewing EXCEPT ![w] = FALSE]
    OBVIOUS
  <2> QED BY Zenon, <2>1
<1>11. \A id \in {nextId, seen[w].id} : id \in Ids
  BY DEF Ids
<1>12. recId' \in [Workers -> Ids] /\ lockId' \in [Workers -> Ids]
  <2>1. recId' = recId \/ \E id \in {0, nextId, seen[w].id} : recId' = [recId EXCEPT ![w] = id]
    OBVIOUS
  <2>2. lockId' = lockId \/ \E id \in {0, nextId, seen[w].id} : lockId' = [lockId EXCEPT ![w] = id]
    OBVIOUS
  <2>3. 0 \in Ids
    BY DEF Ids
  <2>4. recId \in [Workers -> Ids] /\ lockId \in [Workers -> Ids]
    OBVIOUS
  <2> QED BY ONLY <1>11, <2>1, <2>2, <2>3, <2>4
<1>13. seen' \in [Workers -> [id: Ids, status: Status]]
  <2>1. Nothing \in [id: Ids, status: Status]
    BY DEF Nothing, Ids, Status
  <2>2. \/ seen' = seen
        \/ seen' = [seen EXCEPT ![w] = Nothing]
        \/ \E k \in {key[w], LockKey} :
             /\ row[k] # None /\ k \in Keys \cup {LockKey}
             /\ seen' = [seen EXCEPT ![w] = [id |-> row[k].id, status |-> row[k].status]]
    BY DEF Usable, RequestInv, At
  <2>3. ASSUME NEW k \in Keys \cup {LockKey}, row[k] # None,
               seen' = [seen EXCEPT ![w] = [id |-> row[k].id, status |-> row[k].status]]
        PROVE  seen' \in [Workers -> [id: Ids, status: Status]]
    <3>1. [id |-> row[k].id, status |-> row[k].status] \in [id: Ids, status: Status]
      BY <2>3, RowType DEF Ids
    <3> QED BY <2>3, <3>1
  <2>4. seen \in [Workers -> [id: Ids, status: Status]] /\ key[w] \in Keys \cup {None}
    OBVIOUS
  <2>5. ASSUME seen' = seen \/ seen' = [seen EXCEPT ![w] = Nothing]
        PROVE  seen' \in [Workers -> [id: Ids, status: Status]]
    BY ONLY <2>1, <2>4, <2>5
  <2> QED BY ONLY <2>2, <2>3, <2>5
<1>14. valid' \in [Keys -> Nat]
  <2>1. valid' = valid \/ valid' = [valid EXCEPT ![key[w]] = start[w] + TTL]
    OBVIOUS
  <2> QED BY <2>1, Times
<1> QED BY <1>1, <1>2, <1>3, <1>4, <1>5, <1>6, <1>7, <1>8, <1>9, <1>10, <1>12, <1>13, <1>14

\* Every step keeps the types.
LEMMA TypeStep ==
  ASSUME TypeOK, RequestInv, [Next]_vars
  PROVE  TypeOK'
<1>1. ASSUME NEW w \in Workers, Step(w) PROVE TypeOK'
  <2> DEFINE Table == row \in [Keys \cup {LockKey} -> Rows \cup {None}] /\ nextId \in Ids \ {0}
  <2>1. Table
    BY DEF TypeOK
  <2>2. /\ pc[w] # "idle" => key[w] \in Keys /\ payload[w] \in Payloads
        /\ start[w] \in Nat /\ lstart[w] \in Nat /\ clock \in Nat
        /\ clock + Lease \in Nat /\ clock + TTL \in Nat /\ clock + Backoff \in Nat
        /\ start[w] + TTL \in Nat
        /\ lockId[w] \in Ids /\ recId[w] \in Ids /\ FinishStatus(w) \in Status
        /\ LockKey \in Keys \cup {LockKey} /\ 0 \in Nat
    BY Times DEF TypeOK, RequestInv, At, FinishStatus, Status
  <2>3. Table'
    <3>1. CASE CreateProcessing(w)
      <4>1. pc[w] # "idle"
        BY <3>1 DEF CreateProcessing, At
      <4>2. Insert(key[w], payload[w], start[w]) \/ UNCHANGED table
        BY <3>1 DEF CreateProcessing
      <4> QED BY <2>1, <2>2, <4>1, <4>2, Statements DEF table
    <3>2. CASE ReclaimExpired(w) \/ ReclaimFailed(w)
      <4>1. pc[w] # "idle"
        BY <3>2 DEF ReclaimExpired, ReclaimFailed, At
      <4>2. (row[key[w]] # None /\ Reclaim(key[w], start[w])) \/ UNCHANGED table
        BY <3>2 DEF ReclaimExpired, ReclaimFailed, Reclaimable, Found, Answer
      <4> QED BY <2>1, <2>2, <4>1, <4>2, Statements DEF table
    <3>3. CASE MarkFinished(w)
      <4>1. pc[w] # "idle" /\ nextId' = nextId
        BY <3>3 DEF MarkFinished, At
      <4> DEFINE locked == IF outcome[w] = "ok" THEN Unlocked ELSE clock + Backoff
      <4>2. Finish(key[w], recId[w], FinishStatus(w), locked, start[w] + TTL) \/ UNCHANGED row
        BY <3>3 DEF MarkFinished
      <4>3. locked \in Nat
        BY <2>2 DEF Unlocked
      <4> HIDE DEF locked
      <4> QED BY <2>1, <2>2, <4>1, <4>2, <4>3, Statements
    <3>4. CASE AcquireNew(w)
      <4>1. pc[w] # "idle"
        BY <3>4 DEF AcquireNew, At
      <4>2. Insert(LockKey, key[w], clock) \/ UNCHANGED table
        BY <3>4 DEF AcquireNew
      <4> QED BY <2>1, <2>2, <4>1, <4>2, Statements DEF table
    <3>5. CASE AcquireReclaim(w)
      <4>1. (row[LockKey] # None /\ Reclaim(LockKey, lstart[w])) \/ UNCHANGED table
        BY <3>5 DEF AcquireReclaim, Reclaimable, Found
      <4> QED BY <2>1, <2>2, <4>1, Statements DEF table
    <3>6. CASE Renew(w)
      <4> DEFINE r == [row[LockKey] EXCEPT !.locked_until = clock + Lease,
                                           !.expires_at = clock + TTL]
      <4>1. nextId' = nextId
        BY <3>6 DEF Renew
      <4>2. \/ row[LockKey] # None /\ row' = [row EXCEPT ![LockKey] = r]
            \/ row' = row
        BY <2>1, <3>6 DEF Renew, Renewable, Found
      <4>3. row[LockKey] # None => r \in Rows
        <5>1. row[LockKey] # None => row[LockKey] \in Rows
          BY RowType
        <5> QED BY <2>2, <5>1 DEF Rows
      <4> HIDE DEF r
      <4> QED BY <2>1, <4>1, <4>2, <4>3
    <3>7. CASE Release(w)
      <4> DEFINE locked == IF outcome[w] = "ok" THEN Unlocked ELSE clock
      <4>1. nextId' = nextId
        BY <3>7 DEF Release
      <4>2. Finish(LockKey, lockId[w], FinishStatus(w), locked, clock + TTL) \/ UNCHANGED row
        BY <3>7 DEF Release
      <4>3. locked \in Nat
        BY <2>2 DEF Unlocked
      <4> HIDE DEF locked
      <4> QED BY <2>1, <2>2, <4>1, <4>2, <4>3, Statements
    <3>8. CASE \/ GetExisting(w) \/ GetLatest(w) \/ AcquireRead(w) \/ Crash(w)
               \/ \E result \in {"ok", "failed"} : Run(w, result)
               \/ \E k \in Keys, p \in Payloads : Begin(w, k, p)
      <4>1. UNCHANGED table
        BY <3>8 DEF GetExisting, GetLatest, AcquireRead, Crash, Run, Begin, ByStatus, Answer, Look
      <4> QED BY <2>1, <4>1 DEF table
    <3> QED BY ONLY <1>1, <3>1, <3>2, <3>3, <3>4, <3>5, <3>6, <3>7, <3>8 DEF Step
  <2> QED BY <1>1, <2>3, LocalTypes DEF TypeOK
<1>2. ASSUME NEW k \in Keys \cup {LockKey}, Cleanup(k) PROVE TypeOK'
  BY <1>2 DEF Cleanup, TypeOK, request, lock, ghost
<1>3. CASE Tick
  BY <1>3 DEF Tick, TypeOK, table, request, lock, ghost
<1>4. CASE UNCHANGED vars
  BY <1>4 DEF vars, TypeOK, table, request, lock, ghost
<1> QED BY <1>1, <1>2, <1>3, <1>4 DEF Next

\* Every step keeps what is known of a request.
LEMMA RequestStep ==
  ASSUME TypeOK, TypeOK', RequestInv, [Next]_vars
  PROVE  RequestInv'
<1> DEFINE Part(w) ==
             /\ ~At(w, "idle") =>
                  /\ key[w] \in Keys /\ payload[w] \in Payloads
                  /\ start[w] <= clock /\ clock <= start[w] + RunTime
             /\ pc[w] \in Claims => clock <= start[w] + ClaimTime
             /\ pc[w] \in {"lread", "lreclaim"} => lstart[w] <= clock /\ clock <= lstart[w] + ClaimTime
             /\ At(w, "retake") => seen[w].status = "FAILED_RETRYABLE"
             /\ Executing(w) => claimed[w] <= clock /\ claimed[w] <= start[w] + ClaimTime
             /\ pc[w] \notin {"release", "mark"} => outcome[w] = "none"
<1>1. \A w \in Workers : Part(w)
  BY DEF RequestInv
<1>2. ASSUME \A w \in Workers : Part(w)' PROVE RequestInv'
  BY <1>2 DEF RequestInv
<1> USE DEF Claims, Locks, Executing, At, Goto, table, request, lock, ghost
<1>3. ASSUME NEW w \in Workers, Step(w) PROVE RequestInv'
  <2>1. \A v \in Workers : v # w => Part(v)'
    BY <1>1, <1>3, StepFrame
  <2>2. /\ clock \in Nat /\ clock' = clock /\ start[w] \in Nat /\ start'[w] \in Nat
        /\ lstart[w] \in Nat /\ lstart'[w] \in Nat /\ claimed[w] \in Nat /\ claimed'[w] \in Nat
        /\ ClaimTime \in Nat /\ RunTime \in Nat
    BY <1>3, StepFrame, Times DEF TypeOK
  <2>3. Part(w)
    BY <1>1
  <2>4. ASSUME pc'[w] = "idle" /\ outcome'[w] = "none" PROVE Part(w)'
    BY <2>4
  <2>5. ASSUME NEW id, Claim(w, id), pc[w] \in Claims, clock' = clock PROVE Part(w)'
    <3>1. pc'[w] \in {"lcreate", "run"} /\ claimed'[w] = clock
      BY <2>5 DEF Claim, TypeOK
    <3>2. UNCHANGED <<key, payload, start, outcome>>
      BY <2>5 DEF Claim
    <3> QED BY <2>2, <2>3, <2>5, <3>1, <3>2
  <2>6. ASSUME ByStatus(w, row[key[w]]), pc[w] \in Claims PROVE Part(w)'
    <3>1. CASE Answer(w)
      BY <2>4, <3>1 DEF Answer, Leave, TypeOK
    <3>2. CASE Look(w, "retake") /\ row[key[w]].status = "FAILED_RETRYABLE"
      <4>1. pc'[w] = "retake" /\ seen'[w].status = "FAILED_RETRYABLE"
        BY <3>2 DEF Look, TypeOK
      <4>2. UNCHANGED <<key, payload, start, outcome>>
        BY <3>2 DEF Look
      <4> QED BY <2>2, <2>3, <2>6, <4>1, <4>2
    <3> QED BY <2>6, <3>1, <3>2 DEF ByStatus
  <2>7. ASSUME CreateProcessing(w) PROVE Part(w)'
    <3>1. CASE Claim(w, nextId)
      BY <2>2, <2>5, <2>7, <3>1 DEF CreateProcessing
    <3>2. CASE ~Claim(w, nextId)
      <4>1. pc[w] = "create" /\ pc'[w] = "read" /\ UNCHANGED <<key, payload, start, outcome>>
        BY <2>7, <3>2 DEF CreateProcessing, TypeOK
      <4> QED BY <2>2, <2>3, <4>1
    <3> QED BY <3>1, <3>2
  <2>8. ASSUME GetExisting(w) PROVE Part(w)'
    <3>1. CASE Answer(w)
      BY <2>4, <3>1 DEF Answer, Leave, TypeOK
    <3>2. CASE Look(w, "reclaim")
      <4>1. pc[w] = "read" /\ pc'[w] = "reclaim" /\ UNCHANGED <<key, payload, start, outcome>>
        BY <2>8, <3>2 DEF GetExisting, Look, TypeOK
      <4> QED BY <2>2, <2>3, <4>1
    <3>3. CASE ByStatus(w, row[key[w]])
      BY <2>6, <2>8, <3>3 DEF GetExisting
    <3> QED BY <2>8, <3>1, <3>2, <3>3 DEF GetExisting
  <2>9. ASSUME ReclaimExpired(w) PROVE Part(w)'
    <3>1. CASE Claim(w, seen[w].id)
      BY <2>2, <2>5, <2>9, <3>1 DEF ReclaimExpired
    <3>2. CASE ~Claim(w, seen[w].id)
      <4>1. pc[w] = "reclaim" /\ pc'[w] = "reread" /\ UNCHANGED <<key, payload, start, outcome>>
        BY <2>9, <3>2 DEF ReclaimExpired, TypeOK
      <4> QED BY <2>2, <2>3, <4>1
    <3> QED BY <3>1, <3>2
  <2>10. ASSUME GetLatest(w) PROVE Part(w)'
    <3>1. CASE Answer(w)
      BY <2>4, <3>1 DEF Answer, Leave, TypeOK
    <3>2. CASE ByStatus(w, row[key[w]])
      BY <2>6, <2>10, <3>2 DEF GetLatest
    <3> QED BY <2>10, <3>1, <3>2 DEF GetLatest
  <2>11. ASSUME ReclaimFailed(w) PROVE Part(w)'
    <3>1. CASE Claim(w, seen[w].id)
      BY <2>2, <2>5, <2>11, <3>1 DEF ReclaimFailed
    <3>2. CASE Answer(w)
      BY <2>4, <3>2 DEF Answer, Leave, TypeOK
    <3> QED BY <2>11, <3>1, <3>2 DEF ReclaimFailed
  <2>12. ASSUME AcquireNew(w) \/ AcquireRead(w) \/ AcquireReclaim(w) PROVE Part(w)'
    <3>1. pc[w] \in Locks /\ UNCHANGED <<key, payload, start, claimed>>
      BY <2>12 DEF AcquireNew, AcquireRead, AcquireReclaim
    <3>2. \/ pc'[w] = "lread" /\ lstart'[w] = clock /\ outcome' = outcome
          \/ pc[w] = "lread" /\ pc'[w] = "lreclaim" /\ lstart' = lstart /\ outcome' = outcome
          \/ pc'[w] = "run" /\ outcome' = outcome
          \/ pc'[w] = "mark"
      BY <2>12 DEF AcquireNew, AcquireRead, AcquireReclaim, Acquired, Fail, TypeOK
    <3> QED BY <2>2, <2>3, <3>1, <3>2
  <2>13. ASSUME Renew(w) PROVE Part(w)'
    BY <2>2, <2>3, <2>13 DEF Renew
  <2>14. ASSUME Release(w) \/ \E result \in {"ok", "failed"} : Run(w, result) PROVE Part(w)'
    <3>1. /\ pc[w] \in {"run", "release"} /\ pc'[w] \in {"release", "mark"}
          /\ UNCHANGED <<key, payload, start, claimed>>
      BY <2>14 DEF Release, Run, TypeOK
    <3> QED BY <2>2, <2>3, <3>1
  <2>15. ASSUME MarkFinished(w) \/ Crash(w) PROVE Part(w)'
    BY <2>4, <2>15 DEF MarkFinished, Crash, Leave, TypeOK
  <2>16. ASSUME NEW k \in Keys, NEW p \in Payloads, Begin(w, k, p) PROVE Part(w)'
    <3>1. /\ pc'[w] = "create" /\ key'[w] = k /\ payload'[w] = p /\ start'[w] = clock
          /\ pc[w] = "idle" /\ outcome' = outcome
      BY <2>16 DEF Begin, TypeOK
    <3> QED BY <2>2, <2>3, <3>1
  <2>17. Part(w)'
    BY ONLY <1>3, <2>7, <2>8, <2>9, <2>10, <2>11, <2>12, <2>13, <2>14, <2>15, <2>16 DEF Step
  <2> QED BY <1>2, <2>1, <2>17
<1>4. ASSUME NEW k \in Keys \cup {LockKey}, Cleanup(k) PROVE RequestInv'
  BY <1>1, <1>2, <1>4 DEF Cleanup
<1>5. CASE Tick
  <2>1. /\ clock \in Nat /\ clock' = clock + 1 /\ ClaimTime \in Nat /\ RunTime \in Nat
        /\ UNCHANGED <<pc, key, payload, start, claimed, seen, lstart, outcome>>
        /\ \A w \in Workers : /\ pc[w] \in Claims => clock < start[w] + ClaimTime
                              /\ pc[w] \in {"lread", "lreclaim"} => clock < lstart[w] + ClaimTime
                              /\ ~At(w, "idle") => clock < start[w] + RunTime
    BY <1>5, Times DEF Tick, TypeOK
  <2>2. ASSUME NEW w \in Workers PROVE Part(w)'
    <3>1. Part(w) /\ start[w] \in Nat /\ lstart[w] \in Nat /\ claimed[w] \in Nat
      BY <1>1 DEF TypeOK
    <3> QED BY <2>1, <3>1
  <2> QED BY <1>2, <2>2
<1>6. CASE UNCHANGED vars
  BY <1>1, <1>2, <1>6 DEF vars
<1> QED BY ONLY [Next]_vars, <1>3, <1>4, <1>5, <1>6 DEF Next

-----------------------------------------------------------------------------
(* What a step of a request means to the records of the keys *)

Same(w) == key'[w] = key[w] /\ start'[w] = start[w]

\* it changes no record and claims none
Quiet(w) ==
    /\ \A k \in Keys : row'[k] = row[k]
    /\ valid' = valid
    /\ Executing(w)' => /\ Executing(w) /\ Same(w) /\ claimed'[w] = claimed[w]
                        /\ outcome[w] = "ok" => outcome'[w] = "ok"
    /\ At(w, "reclaim")' => At(w, "reclaim") /\ Same(w)

\* it finds an expired record
Finds(w) ==
    /\ \A k \in Keys : row'[k] = row[k]
    /\ valid' = valid
    /\ pc'[w] = "reclaim" /\ Same(w)
    /\ row[key[w]].expires_at <= start[w]

\* it claims one
Takes(w) ==
    LET k == key[w] IN
    /\ valid' = valid
    /\ pc[w] \in Claims /\ Executing(w)' /\ pc'[w] # "reclaim"
    /\ Same(w) /\ claimed'[w] = clock
    /\ \A j \in Keys : j # k => row'[j] = row[j]
    /\ row'[k] # None /\ row'[k].status = "PROCESSING"
    /\ row'[k].locked_until = start[w] + Lease /\ row'[k].expires_at = start[w] + TTL
    /\ \/ row[k] = None
       \/ row[k].status = "FAILED_RETRYABLE"
       \/ At(w, "reclaim") /\ row[k].locked_until <= start[w]

\* its function succeeds
Succeeds(w) ==
    /\ \A k \in Keys : row'[k] = row[k]
    /\ valid' = [valid EXCEPT ![key[w]] = start[w] + TTL]
    /\ pc[w] = "run" /\ pc'[w] # "reclaim" /\ Same(w) /\ claimed'[w] = claimed[w]
    /\ outcome'[w] = "ok" /\ clock >= claimed[w] + MinRun

\* it marks its record
Marks(w) ==
    LET k == key[w] IN
    /\ valid' = valid
    /\ pc[w] = "mark" /\ pc'[w] = "idle"
    /\ \A j \in Keys : j # k => row'[j] = row[j]
    /\ \/ row'[k] = row[k]
       \/ /\ row'[k] # None /\ row'[k].expires_at = start[w] + TTL
          /\ row'[k].status = FinishStatus(w)

\* Every step of a request is of one of these kinds.
LEMMA StepKinds ==
  ASSUME TypeOK, RequestInv, NEW w \in Workers, Step(w)
  PROVE  Quiet(w) \/ Finds(w) \/ Takes(w) \/ Succeeds(w) \/ Marks(w)
<1> USE DEF Goto, At, table, request, lock, ghost
<1>1. LockKey \notin Keys /\ start[w] \in Nat /\ clock \in Nat /\ lstart[w] \in Nat
      /\ (pc[w] # "idle" => key[w] \in Keys /\ payload[w] \in Payloads)
  BY KeyAssumption DEF TypeOK, RequestInv
<1>2. ASSUME Leave(w), UNCHANGED valid, \A k \in Keys : row'[k] = row[k] PROVE Quiet(w)
  <2>1. pc'[w] = "idle"
    BY <1>2 DEF Leave, TypeOK
  <2> QED BY <1>2, <2>1 DEF Quiet, Executing, Locks
<1>3. ASSUME Look(w, "retake") PROVE Quiet(w)
  <2>1. pc'[w] = "retake" /\ UNCHANGED <<row, valid>>
    BY <1>3 DEF Look, TypeOK
  <2> QED BY <2>1 DEF Quiet, Executing, Locks
<1>4. ASSUME ByStatus(w, row[key[w]]) PROVE Quiet(w)
  BY <1>2, <1>3, <1>4 DEF ByStatus, Answer
<1>5. ASSUME NEW id, Claim(w, id), pc[w] \in Claims,
             \/ Insert(key[w], payload[w], start[w])
             \/ /\ Reclaim(key[w], start[w]) /\ Reclaimable(key[w], seen[w], start[w])
                /\ At(w, "retake") \/ At(w, "reclaim")
      PROVE  Takes(w)
  <2>1. /\ valid' = valid /\ Same(w) /\ claimed'[w] = clock
        /\ pc'[w] \in {"lcreate", "run"}
    BY <1>5 DEF Claim, Same, TypeOK
  <2>2. key[w] \in Keys /\ payload[w] \in Payloads
    BY <1>1, <1>5 DEF Claims
  <2>3. CASE Insert(key[w], payload[w], start[w])
    <3>1. /\ row[key[w]] = None /\ row'[key[w]] # None /\ row'[key[w]].status = "PROCESSING"
          /\ row'[key[w]].locked_until = start[w] + Lease
          /\ row'[key[w]].expires_at = start[w] + TTL
          /\ \A j \in Keys : j # key[w] => row'[j] = row[j]
      BY <1>1, <2>2, <2>3, Statements
    <3> QED BY <1>5, <2>1, <3>1 DEF Takes, Executing, Locks
  <2>4. CASE /\ Reclaim(key[w], start[w]) /\ Reclaimable(key[w], seen[w], start[w])
             /\ At(w, "retake") \/ At(w, "reclaim")
    <3>1. /\ row'[key[w]] # None /\ row'[key[w]].status = "PROCESSING"
          /\ row'[key[w]].locked_until = start[w] + Lease
          /\ row'[key[w]].expires_at = start[w] + TTL
          /\ \A j \in Keys : j # key[w] => row'[j] = row[j]
      BY <1>1, <2>2, <2>4, Statements DEF Reclaimable, Found
    <3>2. \/ row[key[w]].status = "FAILED_RETRYABLE"
          \/ At(w, "reclaim") /\ row[key[w]].locked_until <= start[w]
      BY <2>4 DEF Reclaimable, RequestInv
    <3> QED BY <1>5, <2>1, <3>1, <3>2 DEF Takes, Executing, Locks
  <2> QED BY <1>5, <2>3, <2>4
<1>6. CASE CreateProcessing(w)
  <2>1. CASE Insert(key[w], payload[w], start[w]) /\ Claim(w, nextId)
    BY <1>5, <1>6, <2>1 DEF CreateProcessing, Claims
  <2>2. CASE pc' = [pc EXCEPT ![w] = "read"] /\ UNCHANGED <<row, valid>>
    <3>1. pc'[w] = "read"
      BY <2>2 DEF TypeOK
    <3> QED BY <2>2, <3>1 DEF Quiet, Executing, Locks
  <2> QED BY <1>6, <2>1, <2>2 DEF CreateProcessing
<1>7. CASE GetExisting(w)
  <2>1. CASE Answer(w)
    BY <1>2, <2>1 DEF Answer
  <2>2. CASE Expired(row[key[w]], start[w]) /\ Look(w, "reclaim")
    <3>1. pc'[w] = "reclaim" /\ UNCHANGED <<row, valid, key, start>>
      BY <2>2 DEF Look, TypeOK
    <3> QED BY <2>2, <3>1 DEF Finds, Same, Expired
  <2>3. CASE ByStatus(w, row[key[w]])
    BY <1>4, <2>3
  <2> QED BY <1>7, <2>1, <2>2, <2>3 DEF GetExisting
<1>8. CASE ReclaimExpired(w)
  <2>1. CASE /\ Reclaimable(key[w], seen[w], start[w]) /\ Reclaim(key[w], start[w])
             /\ Claim(w, seen[w].id)
    BY <1>5, <1>8, <2>1 DEF ReclaimExpired, Claims
  <2>2. CASE pc' = [pc EXCEPT ![w] = "reread"] /\ UNCHANGED <<row, valid>>
    <3>1. pc'[w] = "reread"
      BY <2>2 DEF TypeOK
    <3> QED BY <2>2, <3>1 DEF Quiet, Executing, Locks
  <2> QED BY <1>8, <2>1, <2>2 DEF ReclaimExpired
<1>9. CASE GetLatest(w)
  BY <1>2, <1>4, <1>9 DEF GetLatest, Answer
<1>10. CASE ReclaimFailed(w)
  <2>1. CASE /\ Reclaimable(key[w], seen[w], start[w]) /\ Reclaim(key[w], start[w])
             /\ Claim(w, seen[w].id)
    BY <1>5, <1>10, <2>1 DEF ReclaimFailed, Claims
  <2>2. CASE Answer(w)
    BY <1>2, <2>2 DEF Answer
  <2> QED BY <1>10, <2>1, <2>2 DEF ReclaimFailed
<1>11. CASE AcquireNew(w) \/ AcquireRead(w) \/ AcquireReclaim(w)
  <2>1. pc[w] \in Locks /\ UNCHANGED <<key, start, claimed, valid>>
    BY <1>11 DEF AcquireNew, AcquireRead, AcquireReclaim, Locks
  <2>2. pc'[w] \in {"lread", "lreclaim", "run", "mark"}
    BY <1>11 DEF AcquireNew, AcquireRead, AcquireReclaim, Fail, Acquired, TypeOK
  <2>3. outcome[w] = "none"
    BY <2>1 DEF RequestInv, Locks
  <2>4. \A k \in Keys : row'[k] = row[k]
    <3>1. CASE AcquireNew(w)
      <4>1. key[w] \in Keys
        BY <1>1, <3>1 DEF AcquireNew
      <4>2. Insert(LockKey, key[w], clock) \/ row' = row
        BY <3>1 DEF AcquireNew
      <4> QED BY <1>1, <4>1, <4>2, Statements
    <3>2. CASE AcquireRead(w)
      BY <3>2 DEF AcquireRead
    <3>3. CASE AcquireReclaim(w)
      <4>1. (row[LockKey] # None /\ Reclaim(LockKey, lstart[w])) \/ row' = row
        BY <3>3 DEF AcquireReclaim, Reclaimable, Found
      <4> QED BY <1>1, <4>1, Statements
    <3> QED BY <1>11, <3>1, <3>2, <3>3
  <2> QED BY <2>1, <2>2, <2>3, <2>4 DEF Quiet, Executing, Locks, Same
<1>12. CASE Renew(w)
  <2>1. UNCHANGED <<pc, key, start, claimed, outcome, valid>>
    BY <1>12 DEF Renew
  <2>2. \A k \in Keys : row'[k] = row[k]
    BY <1>1, <1>12 DEF Renew, TypeOK
  <2> QED BY <2>1, <2>2 DEF Quiet, Executing, Same
<1>13. CASE Release(w)
  <2>1. pc[w] = "release" /\ pc'[w] = "mark" /\ UNCHANGED <<key, start, claimed, outcome, valid>>
    BY <1>13 DEF Release, TypeOK
  <2>2. \A k \in Keys : row'[k] = row[k]
    <3> DEFINE locked == IF outcome[w] = "ok" THEN Unlocked ELSE clock
    <3>1. Finish(LockKey, lockId[w], FinishStatus(w), locked, clock + TTL) \/ row' = row
      BY <1>13 DEF Release
    <3>2. /\ locked \in Nat /\ clock + TTL \in Nat /\ lockId[w] \in Ids
          /\ FinishStatus(w) \in Status
      BY <1>1, Times DEF Unlocked, TypeOK, FinishStatus, Status
    <3> HIDE DEF locked
    <3> QED BY <1>1, <3>1, <3>2, Statements
  <2> QED BY <2>1, <2>2 DEF Quiet, Executing, Same
<1>14. ASSUME NEW result \in {"ok", "failed"}, Run(w, result) PROVE Quiet(w) \/ Succeeds(w)
  <2>1. /\ pc[w] = "run" /\ pc'[w] \in {"release", "mark"} /\ outcome'[w] = result
        /\ UNCHANGED <<row, key, start, claimed>> /\ clock >= claimed[w] + MinRun
    BY <1>14 DEF Run, TypeOK
  <2>2. CASE result = "ok"
    BY <1>14, <2>1, <2>2 DEF Succeeds, Run, Same
  <2>3. CASE result = "failed"
    <3>1. valid' = valid /\ outcome[w] = "none"
      BY <1>14, <2>1, <2>3 DEF Run, RequestInv
    <3> QED BY <2>1, <3>1 DEF Quiet, Executing, Same
  <2> QED BY <2>2, <2>3
<1>15. CASE Crash(w)
  BY <1>2, <1>15 DEF Crash
<1>16. CASE MarkFinished(w)
  <2>1. pc[w] = "mark" /\ pc'[w] = "idle" /\ valid' = valid /\ key[w] \in Keys
    BY <1>1, <1>16 DEF MarkFinished, Leave, TypeOK
  <2> DEFINE locked == IF outcome[w] = "ok" THEN Unlocked ELSE clock + Backoff
  <2>2. Finish(key[w], recId[w], FinishStatus(w), locked, start[w] + TTL) \/ row' = row
    BY <1>16 DEF MarkFinished
  <2>3. /\ locked \in Nat /\ start[w] + TTL \in Nat /\ recId[w] \in Ids
        /\ FinishStatus(w) \in Status
    BY <1>1, Times DEF Unlocked, TypeOK, FinishStatus, Status
  <2> HIDE DEF locked
  <2> QED BY <1>1, <2>1, <2>2, <2>3, Statements DEF Marks
<1>17. ASSUME NEW k \in Keys, NEW p \in Payloads, Begin(w, k, p) PROVE Quiet(w)
  <2>1. pc'[w] = "create" /\ UNCHANGED <<row, valid>>
    BY <1>17 DEF Begin, TypeOK
  <2> QED BY <2>1 DEF Quiet, Executing, Locks
<1> QED BY ONLY Step(w), <1>6, <1>7, <1>8, <1>9, <1>10, <1>11, <1>12, <1>13, <1>14, <1>15, <1>16,
                <1>17 DEF Step

-----------------------------------------------------------------------------
(* One executor of a key, and its effect once *)

\* What is known of the record of a request that executes.
Own(w) == Executing(w) =>
    /\ row[key[w]] # None
    /\ row[key[w]].status = "PROCESSING"
    /\ row[key[w]].locked_until = start[w] + Lease
    /\ row[key[w]].expires_at = start[w] + TTL
    /\ \A v \in Workers : At(v, "reclaim") /\ key[v] = key[w] => start[v] <= claimed[w]

\* What is known of the record of an effect.
Guarded(k) == valid[k] > clock =>
    /\ row[k] # None
    /\ row[k].status # "FAILED_RETRYABLE"
    /\ valid[k] <= row[k].expires_at
    /\ \A v \in Workers : At(v, "reclaim") => key[v] # k

\* What is known of a request that executes and of the last effect of its key.
Once(w) == Executing(w) => valid[key[w]] <= claimed[w] \/ outcome[w] = "ok"

\* The invariants are their parts.
LEMMA Parts ==
  /\ RecordInv <=> OneExecutor /\ \A w \in Workers : Own(w)
  /\ EffectInv <=> (\A w \in Workers : Once(w)) /\ \A k \in Keys : Guarded(k)
BY DEF RecordInv, EffectInv, AtMostOnce, Own, Once, Guarded

\* ... in the next state, too.
LEMMA PartsNext ==
  /\ OneExecutor' /\ (\A w \in Workers : Own(w)') => RecordInv'
  /\ (\A w \in Workers : Once(w)') /\ (\A k \in Keys : Guarded(k)') => EffectInv'
BY DEF RecordInv, EffectInv, AtMostOnce, Own, Once, Guarded

\* Numbers and keys of a request that executes, or reclaims.
LEMMA Busy ==
  ASSUME TypeOK, RequestInv, NEW w \in Workers
  PROVE  /\ clock \in Nat /\ start[w] \in Nat /\ claimed[w] \in Nat
         /\ Executing(w) \/ At(w, "reclaim") =>
              key[w] \in Keys /\ start[w] <= clock /\ clock <= start[w] + RunTime
         /\ At(w, "reclaim") => clock <= start[w] + ClaimTime
         /\ Executing(w) => claimed[w] <= clock /\ claimed[w] <= start[w] + ClaimTime
BY DEF TypeOK, RequestInv, Executing, Locks, Claims, At

\* A quiet step keeps both.
LEMMA QuietStep ==
  ASSUME TypeOK, RequestInv, RecordInv, EffectInv, NEW w \in Workers, Step(w), Quiet(w)
  PROVE  RecordInv' /\ EffectInv'
<1>1. /\ clock' = clock /\ valid' = valid
      /\ \A v \in Workers : v # w =>
           /\ pc'[v] = pc[v] /\ key'[v] = key[v] /\ start'[v] = start[v]
           /\ claimed'[v] = claimed[v] /\ outcome'[v] = outcome[v]
  BY StepFrame DEF Quiet
<1>2. \A v \in Workers : Executing(v)' =>
        /\ Executing(v) /\ key'[v] = key[v] /\ start'[v] = start[v] /\ claimed'[v] = claimed[v]
        /\ outcome[v] = "ok" => outcome'[v] = "ok"
        /\ key[v] \in Keys /\ row'[key[v]] = row[key[v]]
  <2>1. \A v \in Workers : Executing(v)' =>
          /\ Executing(v) /\ key'[v] = key[v] /\ start'[v] = start[v] /\ claimed'[v] = claimed[v]
          /\ outcome[v] = "ok" => outcome'[v] = "ok"
    BY <1>1 DEF Quiet, Same, Executing
  <2> QED BY <2>1, Busy DEF Quiet
<1>3. \A v \in Workers : At(v, "reclaim")' =>
        At(v, "reclaim") /\ key'[v] = key[v] /\ start'[v] = start[v]
  BY <1>1 DEF Quiet, Same, At
<1>4. OneExecutor'
  BY <1>2 DEF OneExecutor, RecordInv
<1>5. \A v \in Workers : Own(v)'
  BY <1>2, <1>3, Parts DEF Own
<1>6. \A v \in Workers : Once(v)'
  BY <1>1, <1>2, Parts DEF Once
<1>7. \A k \in Keys : Guarded(k)'
  BY <1>1, <1>3, Parts DEF Guarded, Quiet
<1> QED BY <1>4, <1>5, <1>6, <1>7, PartsNext

\* A record that is found expired is not one of a request that executes, nor of an effect.
LEMMA FindsStep ==
  ASSUME Timely, TypeOK, RequestInv, RequestInv', TypeOK', RecordInv, EffectInv,
         NEW w \in Workers, Step(w), Finds(w)
  PROVE  RecordInv' /\ EffectInv'
<1>1. /\ clock' = clock /\ valid' = valid
      /\ \A v \in Workers : v # w =>
           /\ pc'[v] = pc[v] /\ key'[v] = key[v] /\ start'[v] = start[v]
           /\ claimed'[v] = claimed[v] /\ outcome'[v] = outcome[v]
  BY StepFrame DEF Finds
<1>2. /\ pc'[w] = "reclaim" /\ key'[w] = key[w] /\ start'[w] = start[w]
      /\ row[key[w]].expires_at <= start[w] /\ key[w] \in Keys /\ start[w] <= clock
      /\ start[w] \in Nat /\ clock \in Nat
      /\ ~Executing(w)'
  <2>1. pc'[w] = "reclaim"
    BY DEF Finds
  <2>2. At(w, "reclaim")' /\ ~Executing(w)'
    BY <2>1 DEF At, Executing, Locks
  <2>3. key'[w] \in Keys /\ start'[w] <= clock'
    BY <2>2 DEF RequestInv, At
  <2> QED BY <1>1, <2>1, <2>2, <2>3, Busy DEF Finds, Same
<1>3. \A v \in Workers : Executing(v)' =>
        /\ v # w /\ Executing(v) /\ key'[v] = key[v] /\ start'[v] = start[v]
        /\ claimed'[v] = claimed[v] /\ outcome'[v] = outcome[v]
        /\ key[v] \in Keys /\ row'[key[v]] = row[key[v]]
  <2>1. \A v \in Workers : Executing(v)' =>
          /\ v # w /\ Executing(v) /\ key'[v] = key[v] /\ start'[v] = start[v]
          /\ claimed'[v] = claimed[v] /\ outcome'[v] = outcome[v]
    BY <1>1, <1>2 DEF Executing
  <2> QED BY <2>1, Busy DEF Finds
<1>4. ASSUME NEW v \in Workers, Executing(v) PROVE key[v] # key[w]
  <2>1. clock <= start[v] + RunTime /\ start[v] \in Nat
    BY <1>4, Busy
  <2>2. row[key[v]].expires_at = start[v] + TTL
    BY <1>4, Parts DEF Own
  <2> QED BY <1>2, <2>1, <2>2, Times DEF Timely
<1>5. OneExecutor'
  BY <1>3 DEF OneExecutor, RecordInv
<1>6. \A v \in Workers : At(v, "reclaim")' =>
        v = w \/ (At(v, "reclaim") /\ key'[v] = key[v] /\ start'[v] = start[v])
  BY <1>1 DEF At
<1>7. \A v \in Workers : Own(v)'
  BY <1>2, <1>3, <1>4, <1>6, Parts DEF Own
<1>8. \A v \in Workers : Once(v)'
  BY <1>1, <1>3, Parts DEF Once
<1>9. ASSUME NEW k \in Keys, valid[k] > clock
      PROVE  /\ row[k] # None /\ row[k].status # "FAILED_RETRYABLE"
             /\ valid[k] <= row[k].expires_at
             /\ \A v \in Workers : At(v, "reclaim")' => key'[v] # k
  <2>1. /\ row[k] # None /\ row[k].status # "FAILED_RETRYABLE"
        /\ valid[k] <= row[k].expires_at
        /\ \A v \in Workers : At(v, "reclaim") => key[v] # k
    BY <1>9, Parts DEF Guarded
  <2>2. row[k].expires_at \in Nat /\ valid[k] \in Nat
    BY <2>1, RowType DEF TypeOK
  <2>3. key[w] # k
    BY <1>2, <1>9, <2>1, <2>2
  <2> QED BY <1>2, <1>6, <2>1, <2>3
<1>10. \A k \in Keys : Guarded(k)'
  BY <1>1, <1>9 DEF Guarded, Finds
<1> QED BY <1>5, <1>7, <1>8, <1>10, PartsNext

\* A record that can be claimed is nobody's, and that of no effect.
LEMMA TakesStep ==
  ASSUME Timely, TypeOK, RequestInv, RecordInv, EffectInv, NEW w \in Workers, Step(w), Takes(w)
  PROVE  RecordInv' /\ EffectInv'
<1> DEFINE k == key[w]
<1>1. /\ clock' = clock /\ valid' = valid
      /\ \A v \in Workers : v # w =>
           /\ pc'[v] = pc[v] /\ key'[v] = key[v] /\ start'[v] = start[v]
           /\ claimed'[v] = claimed[v] /\ outcome'[v] = outcome[v]
  BY StepFrame DEF Takes
<1>2. /\ k \in Keys /\ key'[w] = k /\ start'[w] = start[w] /\ claimed'[w] = clock
      /\ Executing(w)' /\ ~At(w, "reclaim")' /\ ~Executing(w)
      /\ \A j \in Keys : j # k => row'[j] = row[j]
      /\ row'[k] # None /\ row'[k].status = "PROCESSING"
      /\ row'[k].locked_until = start[w] + Lease /\ row'[k].expires_at = start[w] + TTL
  <2>1. pc[w] \in Claims /\ pc[w] # "idle"
    BY DEF Takes, Claims
  <2>2. k \in Keys
    BY <2>1 DEF RequestInv, At
  <2>3. ~Executing(w)
    BY <2>1 DEF Executing, Locks, Claims
  <2> QED BY <2>2, <2>3 DEF Takes, Same, At
<1>3. \/ row[k] = None
      \/ row[k].status = "FAILED_RETRYABLE"
      \/ At(w, "reclaim") /\ row[k].locked_until <= start[w]
  BY DEF Takes
<1>4. ASSUME NEW v \in Workers, Executing(v) PROVE key[v] # k
  <2>1. SUFFICES ASSUME key[v] = k PROVE FALSE
    OBVIOUS
  <2>2. /\ row[k] # None /\ row[k].status = "PROCESSING"
        /\ row[k].locked_until = start[v] + Lease
        /\ At(w, "reclaim") => start[w] <= claimed[v]
    BY <1>4, <2>1, Parts DEF Own
  <2>3. /\ claimed[v] <= start[v] + ClaimTime /\ start[v] \in Nat /\ claimed[v] \in Nat
        /\ start[w] \in Nat
    BY <1>4, Busy
  <2>4. At(w, "reclaim") /\ start[v] + Lease <= start[w]
    BY <1>3, <2>2
  <2> QED BY <2>2, <2>3, <2>4, Times DEF Timely
<1>5. ~(valid[k] > clock)
  <2>1. SUFFICES ASSUME valid[k] > clock PROVE FALSE
    OBVIOUS
  <2>2. row[k] # None /\ row[k].status # "FAILED_RETRYABLE" /\ ~At(w, "reclaim")
    BY <1>2, <2>1, Parts DEF Guarded
  <2> QED BY <1>3, <2>2
<1>6. \A v \in Workers : v # w =>
        /\ Executing(v)' => /\ Executing(v) /\ key[v] \in Keys /\ key[v] # k
                            /\ row'[key[v]] = row[key[v]]
        /\ At(v, "reclaim")' => At(v, "reclaim")
  <2>1. \A v \in Workers : v # w =>
          (Executing(v)' => Executing(v)) /\ (At(v, "reclaim")' => At(v, "reclaim"))
    BY <1>1 DEF Executing, At
  <2> QED BY <1>2, <1>4, <2>1, Busy
<1>7. OneExecutor'
  BY <1>1, <1>2, <1>6 DEF OneExecutor, RecordInv
<1>8. Own(w)'
  <2>1. \A v \in Workers : At(v, "reclaim")' => start'[v] <= clock
    BY <1>1, <1>2, <1>6, Busy
  <2> QED BY <1>2, <2>1 DEF Own
<1>9. \A v \in Workers : v # w => Own(v)'
  BY <1>1, <1>2, <1>6, Parts DEF Own
<1>10. Once(w)'
  <2>1. valid[k] \in Nat /\ clock \in Nat
    BY <1>2 DEF TypeOK
  <2> QED BY <1>1, <1>2, <1>5, <2>1 DEF Once
<1>11. \A v \in Workers : v # w => Once(v)'
  BY <1>1, <1>6, Parts DEF Once
<1>12. ASSUME NEW j \in Keys PROVE Guarded(j)'
  <2>1. CASE j = k
    BY <1>1, <1>5, <2>1 DEF Guarded
  <2>2. CASE j # k
    BY <1>1, <1>2, <1>6, <2>2, Parts DEF Guarded
  <2> QED BY <2>1, <2>2
<1> QED BY <1>7, <1>8, <1>9, <1>10, <1>11, <1>12, PartsNext

\* When a function succeeds, those who read its record before it was claimed have given up.
LEMMA SucceedsStep ==
  ASSUME Timely, TypeOK, TypeOK', RequestInv, RecordInv, EffectInv,
         NEW w \in Workers, Step(w), Succeeds(w)
  PROVE  RecordInv' /\ EffectInv'
<1> DEFINE k == key[w]
<1>1. /\ clock' = clock
      /\ \A v \in Workers : v # w =>
           /\ pc'[v] = pc[v] /\ key'[v] = key[v] /\ start'[v] = start[v]
           /\ claimed'[v] = claimed[v] /\ outcome'[v] = outcome[v]
  BY StepFrame
<1>2. /\ Executing(w) /\ k \in Keys /\ key'[w] = k /\ start'[w] = start[w]
      /\ claimed'[w] = claimed[w] /\ outcome'[w] = "ok" /\ ~At(w, "reclaim")'
      /\ \A j \in Keys : row'[j] = row[j]
      /\ clock >= claimed[w] + MinRun /\ valid' = [valid EXCEPT ![k] = start[w] + TTL]
  <2>1. Executing(w)
    BY DEF Succeeds, Executing
  <2> QED BY <2>1, Busy DEF Succeeds, Same, At
<1>3. \A v \in Workers :
        /\ Executing(v)' => Executing(v)
        /\ Executing(v) => key[v] \in Keys /\ (v # w => key[v] # k)
        /\ At(v, "reclaim")' => v # w /\ At(v, "reclaim")
        /\ key'[v] = key[v] /\ start'[v] = start[v] /\ claimed'[v] = claimed[v]
  <2>1. \A v \in Workers :
          /\ Executing(v)' => Executing(v)
          /\ At(v, "reclaim")' => v # w /\ At(v, "reclaim")
    BY <1>1, <1>2 DEF Executing, At
  <2>2. \A v \in Workers : Executing(v) => key[v] \in Keys /\ (v # w => key[v] # k)
    BY <1>2, Busy DEF RecordInv, OneExecutor
  <2> QED BY <1>1, <1>2, <2>1, <2>2
<1>4. ASSUME NEW v \in Workers, At(v, "reclaim") PROVE key[v] # k
  <2>1. SUFFICES ASSUME key[v] = k PROVE FALSE
    OBVIOUS
  <2>2. start[v] <= claimed[w]
    BY <1>2, <1>4, <2>1, Parts DEF Own
  <2>3. clock <= start[v] + ClaimTime /\ start[v] \in Nat /\ claimed[w] \in Nat /\ clock \in Nat
    BY <1>4, Busy
  <2> QED BY <1>2, <2>2, <2>3, Times DEF Timely
<1>5. OneExecutor'
  BY <1>3 DEF OneExecutor, RecordInv
<1>6. \A v \in Workers : Own(v)'
  BY <1>2, <1>3, Parts DEF Own
<1>7. \A j \in Keys : j # k => valid'[j] = valid[j]
  BY <1>2 DEF TypeOK
<1>8. ASSUME NEW v \in Workers PROVE Once(v)'
  <2>1. CASE v = w
    BY <1>2, <2>1 DEF Once
  <2>2. CASE v # w
    BY <1>1, <1>3, <1>7, <2>2, Parts DEF Once
  <2> QED BY <2>1, <2>2
<1>9. ASSUME NEW j \in Keys PROVE Guarded(j)'
  <2>1. CASE j = k
    <3>1. valid'[k] = start[w] + TTL /\ start[w] + TTL \in Nat
      BY <1>2, Times DEF TypeOK
    <3>2. row[k] # None /\ row[k].status = "PROCESSING" /\ row[k].expires_at = start[w] + TTL
      BY <1>2, Parts DEF Own
    <3> QED BY <1>2, <1>3, <1>4, <2>1, <3>1, <3>2 DEF Guarded
  <2>2. CASE j # k
    BY <1>1, <1>2, <1>3, <1>7, <2>2, Parts DEF Guarded
  <2> QED BY <2>1, <2>2
<1> QED BY <1>5, <1>6, <1>8, <1>9, PartsNext

\* The request that ends marks a record no other executes.
LEMMA MarksStep ==
  ASSUME TypeOK, RequestInv, RecordInv, EffectInv, NEW w \in Workers, Step(w), Marks(w)
  PROVE  RecordInv' /\ EffectInv'
<1> DEFINE k == key[w]
<1>1. /\ clock' = clock /\ valid' = valid
      /\ \A v \in Workers : v # w =>
           /\ pc'[v] = pc[v] /\ key'[v] = key[v] /\ start'[v] = start[v]
           /\ claimed'[v] = claimed[v] /\ outcome'[v] = outcome[v]
  BY StepFrame DEF Marks
<1>2. /\ Executing(w) /\ k \in Keys /\ ~Executing(w)' /\ ~At(w, "reclaim")'
      /\ \A j \in Keys : j # k => row'[j] = row[j]
  <2>1. Executing(w) /\ ~Executing(w)' /\ ~At(w, "reclaim")'
    BY DEF Marks, Executing, Locks, At
  <2> QED BY <2>1, Busy DEF Marks
<1>3. \A v \in Workers :
        /\ Executing(v)' => /\ v # w /\ Executing(v) /\ key[v] \in Keys
                            /\ row'[key[v]] = row[key[v]]
        /\ At(v, "reclaim")' => v # w /\ At(v, "reclaim")
  <2>1. \A v \in Workers :
          /\ Executing(v)' => v # w /\ Executing(v)
          /\ At(v, "reclaim")' => v # w /\ At(v, "reclaim")
    BY <1>1, <1>2 DEF Executing, At
  <2>2. \A v \in Workers : v # w /\ Executing(v) => key[v] \in Keys /\ key[v] # k
    BY <1>2, Busy DEF RecordInv, OneExecutor
  <2> QED BY <1>2, <2>1, <2>2
<1>4. OneExecutor'
  BY <1>1, <1>3 DEF OneExecutor, RecordInv
<1>5. \A v \in Workers : Own(v)'
  BY <1>1, <1>3, Parts DEF Own
<1>6. \A v \in Workers : Once(v)'
  BY <1>1, <1>3, Parts DEF Once
<1>7. ASSUME NEW j \in Keys PROVE Guarded(j)'
  <2>1. CASE j # k \/ row'[k] = row[k]
    <3>1. row'[j] = row[j]
      BY <1>2, <2>1
    <3> QED BY <1>1, <1>3, <3>1, Parts DEF Guarded
  <2>2. CASE j = k /\ row'[k] # None /\ row'[k].expires_at = start[w] + TTL
             /\ row'[k].status = FinishStatus(w)
    <3>1. SUFFICES ASSUME valid[k] > clock
                   PROVE  /\ row'[k].status # "FAILED_RETRYABLE"
                          /\ valid[k] <= row'[k].expires_at
                          /\ \A v \in Workers : At(v, "reclaim")' => key'[v] # k
      BY <1>1, <2>2 DEF Guarded
    <3>2. valid[k] <= row[k].expires_at /\ \A v \in Workers : At(v, "reclaim") => key[v] # k
      BY <1>2, <3>1, Parts DEF Guarded
    <3>3. row[k].expires_at = start[w] + TTL
      BY <1>2, Parts DEF Own
    <3>4. outcome[w] = "ok"
      <4>1. valid[k] <= claimed[w] \/ outcome[w] = "ok"
        BY <1>2, Parts DEF Once
      <4>2. claimed[w] <= clock /\ claimed[w] \in Nat /\ clock \in Nat /\ valid[k] \in Nat
        BY <1>2, Busy DEF TypeOK
      <4> QED BY <3>1, <4>1, <4>2
    <3> QED BY <1>1, <1>3, <2>2, <3>2, <3>3, <3>4 DEF FinishStatus
  <2> QED BY <2>1, <2>2 DEF Marks
<1> QED BY <1>4, <1>5, <1>6, <1>7, PartsNext

\* Every step keeps both: cleanup deletes what has expired.
LEMMA RecordStep ==
  ASSUME Timely, TypeOK, TypeOK', RequestInv, RequestInv', RecordInv, EffectInv, [Next]_vars
  PROVE  RecordInv' /\ EffectInv'
<1> DEFINE Frame == UNCHANGED <<pc, key, start, claimed, outcome, valid>>
           Kept(j) == row'[j] = row[j] \/ (row[j] # None /\ row[j].expires_at <= clock)
<1>1. ASSUME NEW w \in Workers, Step(w) PROVE RecordInv' /\ EffectInv'
  BY <1>1, StepKinds, QuietStep, FindsStep, TakesStep, SucceedsStep, MarksStep
<1>2. ASSUME Frame, clock <= clock', \A j \in Keys : Kept(j)
      PROVE  RecordInv' /\ EffectInv'
  <2>1. clock \in Nat /\ clock' \in Nat
    BY DEF TypeOK
  <2>2. \A v \in Workers : (Executing(v)' <=> Executing(v)) /\ (At(v, "reclaim")' <=> At(v, "reclaim"))
    BY <1>2 DEF Executing, At
  <2>3. ASSUME NEW v \in Workers, Executing(v) PROVE row'[key[v]] = row[key[v]]
    <3>1. row[key[v]].expires_at = start[v] + TTL
      BY <2>3, Parts DEF Own
    <3>2. key[v] \in Keys /\ start[v] \in Nat /\ clock <= start[v] + RunTime
      BY <2>3, Busy
    <3> QED BY <1>2, <2>1, <3>1, <3>2, Times DEF Timely
  <2>4. OneExecutor'
    BY <1>2, <2>2 DEF OneExecutor, RecordInv
  <2>5. \A v \in Workers : Own(v)'
    BY <1>2, <2>2, <2>3, Parts DEF Own
  <2>6. \A v \in Workers : Once(v)'
    BY <1>2, <2>2, Parts DEF Once
  <2>7. ASSUME NEW j \in Keys PROVE Guarded(j)'
    <3>1. SUFFICES ASSUME valid[j] > clock'
                   PROVE  /\ row'[j] # None /\ row'[j].status # "FAILED_RETRYABLE"
                          /\ valid[j] <= row'[j].expires_at
                          /\ \A v \in Workers : At(v, "reclaim")' => key'[v] # j
      BY <1>2 DEF Guarded
    <3>2. valid[j] \in Nat /\ valid[j] > clock
      BY <1>2, <2>1, <3>1 DEF TypeOK
    <3>3. /\ row[j] # None /\ row[j].status # "FAILED_RETRYABLE"
          /\ valid[j] <= row[j].expires_at
          /\ \A v \in Workers : At(v, "reclaim") => key[v] # j
      BY <3>2, Parts DEF Guarded
    <3>4. row[j].expires_at \in Nat
      BY <3>3, RowType
    <3>5. row'[j] = row[j]
      BY <1>2, <2>1, <3>2, <3>3, <3>4
    <3> QED BY <1>2, <2>2, <3>3, <3>5
  <2> QED BY <2>4, <2>5, <2>6, <2>7, PartsNext
<1>3. clock \in Nat /\ clock <= clock
  BY DEF TypeOK
<1> HIDE DEF Frame, Kept
<1>4. ASSUME NEW k \in Keys \cup {LockKey}, Cleanup(k) PROVE RecordInv' /\ EffectInv'
  <2>1. \A j \in Keys : Kept(j)
    <3>1. row' = [row EXCEPT ![k] = None] /\ row[k] # None /\ row[k].expires_at <= clock
      BY <1>4 DEF Cleanup
    <3> QED BY <3>1 DEF TypeOK, Kept
  <2>2. Frame /\ clock' = clock
    BY <1>4 DEF Cleanup, request, ghost, Frame
  <2>3. clock <= clock'
    BY <1>3, <2>2
  <2> QED BY ONLY <1>2, <2>1, <2>2, <2>3
<1>5. CASE Tick
  <2>1. Frame /\ UNCHANGED row /\ clock' = clock + 1
    BY <1>5 DEF Tick, table, request, ghost, Frame
  <2>2. clock <= clock'
    BY <1>3, <2>1
  <2>3. \A j \in Keys : Kept(j)
    BY <2>1 DEF Kept
  <2> QED BY ONLY <1>2, <2>1, <2>2, <2>3
<1>6. CASE UNCHANGED vars
  <2>1. Frame /\ UNCHANGED <<row, clock>>
    BY <1>6 DEF vars, table, request, ghost, Frame
  <2>2. clock <= clock'
    BY <1>3, <2>1
  <2>3. \A j \in Keys : Kept(j)
    BY <2>1 DEF Kept
  <2> QED BY ONLY <1>2, <2>1, <2>2, <2>3
<1> QED BY <1>1, <1>4, <1>5, <1>6 DEF Next

-----------------------------------------------------------------------------
(* The lease of the lock *)

\* Every step keeps a lease that can be renewed in the future.
LEMMA LeaseStep ==
  ASSUME Timely, TypeOK, TypeOK', RequestInv, LeaseInv, [Next]_vars
  PROVE  LeaseInv'
<1> DEFINE Live(w) == renewing[w] /\ Renewable(w) => row[LockKey].locked_until > clock
           lrow == row[LockKey]
<1>1. \A w \in Workers : Live(w)
  BY DEF LeaseInv
<1>2. ASSUME \A w \in Workers : Live(w)' PROVE LeaseInv'
  BY <1>2 DEF LeaseInv
<1>3. clock \in Nat /\ LockKey \notin Keys /\ LockKey \in Keys \cup {LockKey}
      /\ \A w \in Workers : lstart[w] \in Nat
  BY KeyAssumption DEF TypeOK
\* the row stays, and so does who may renew it
<1>4. ASSUME row'[LockKey] = row[LockKey], clock' = clock,
             \A v \in Workers : renewing'[v] /\ Renewable(v)' => renewing[v] /\ Renewable(v)
      PROVE  LeaseInv'
  BY <1>1, <1>2, <1>4
\* the lease is a new one
<1>5. ASSUME row'[LockKey].locked_until > clock, clock' = clock PROVE LeaseInv'
  BY <1>2, <1>5
\* nobody can renew it
<1>6. ASSUME row'[LockKey] = None \/ row'[LockKey].status # "PROCESSING" PROVE LeaseInv'
  BY <1>2, <1>6 DEF Renewable, Found
<1>7. ASSUME NEW w \in Workers, Step(w) PROVE LeaseInv'
  <2>1. /\ clock' = clock
        /\ \A v \in Workers : v # w =>
             key'[v] = key[v] /\ lockId'[v] = lockId[v] /\ renewing'[v] = renewing[v]
    BY <1>7, StepFrame
  <2>2. ASSUME row'[LockKey] = row[LockKey],
               renewing'[w] /\ Renewable(w)' => renewing[w] /\ Renewable(w)
        PROVE  LeaseInv'
    BY <1>4, <2>1, <2>2 DEF Renewable, Found
  <2>3. ASSUME row'[LockKey] = row[LockKey], renewing'[w] => renewing[w],
               key'[w] = None \/ (key'[w] = key[w] /\ lockId'[w] = lockId[w])
        PROVE  LeaseInv'
    <3>1. CASE key'[w] = None
      <4>1. row[LockKey] # None => row[LockKey].fingerprint # None
        BY <1>3, RowType, KeyAssumption DEF Rows
      <4>2. ~Renewable(w)'
        BY <2>3, <3>1, <4>1 DEF Renewable, Found
      <4> QED BY <2>2, <2>3, <4>2
    <3>2. CASE key'[w] = key[w] /\ lockId'[w] = lockId[w]
      BY <2>2, <2>3, <3>2 DEF Renewable, Found
    <3> QED BY <2>3, <3>1, <3>2
  <2>4. ASSUME Leave(w), row'[LockKey] = row[LockKey], renewing'[w] => renewing[w] PROVE LeaseInv'
    <3>1. key'[w] = None
      BY <2>4 DEF Leave, TypeOK
    <3> QED BY <2>3, <2>4, <3>1
  <2>5. CASE CreateProcessing(w)
    <3>1. UNCHANGED <<key, lock>>
      BY <2>5 DEF CreateProcessing, Claim, request
    <3>2. row'[LockKey] = row[LockKey]
      <4>1. key[w] \in Keys /\ payload[w] \in Payloads /\ start[w] \in Nat
        BY <2>5 DEF CreateProcessing, RequestInv, At, TypeOK
      <4>2. Insert(key[w], payload[w], start[w]) \/ UNCHANGED table
        BY <2>5 DEF CreateProcessing
      <4> QED BY <1>3, <4>1, <4>2, Statements DEF table
    <3> QED BY <2>3, <3>1, <3>2 DEF lock
  <2>6. CASE GetExisting(w) \/ GetLatest(w)
    <3>1. CASE Answer(w)
      BY <2>4, <3>1 DEF Answer, table
    <3>2. CASE ~Answer(w)
      <4>1. UNCHANGED <<table, key, lock>>
        BY <2>6, <3>2 DEF GetExisting, GetLatest, ByStatus, Look, request
      <4> QED BY <2>3, <4>1 DEF lock, table
    <3> QED BY <3>1, <3>2
  <2>7. CASE ReclaimExpired(w) \/ ReclaimFailed(w)
    <3>1. CASE Answer(w)
      BY <2>4, <3>1 DEF Answer, table
    <3>2. CASE ~Answer(w)
      <4>1. UNCHANGED <<key, lock>>
        BY <2>7, <3>2 DEF ReclaimExpired, ReclaimFailed, Claim, request
      <4>2. row'[LockKey] = row[LockKey]
        <5>1. key[w] \in Keys /\ start[w] \in Nat
          BY <2>7 DEF ReclaimExpired, ReclaimFailed, RequestInv, At, TypeOK
        <5>2. (row[key[w]] # None /\ Reclaim(key[w], start[w])) \/ UNCHANGED table
          BY <2>7, <3>2 DEF ReclaimExpired, ReclaimFailed, Reclaimable, Found
        <5> QED BY <1>3, <5>1, <5>2, Statements DEF table
      <4> QED BY <2>3, <4>1, <4>2 DEF lock
    <3> QED BY <3>1, <3>2
  <2>8. CASE AcquireNew(w)
    <3>1. CASE Insert(LockKey, key[w], clock)
      <4>1. key[w] \in Keys
        BY <2>8 DEF AcquireNew, RequestInv, At
      <4>2. row'[LockKey].locked_until = clock + Lease
        BY <1>3, <3>1, <4>1, Statements
      <4> QED BY <1>3, <1>5, <2>1, <4>2, Times
    <3>2. CASE ~Insert(LockKey, key[w], clock)
      <4>1. UNCHANGED <<table, key, lockId, renewing>>
        BY <2>8, <3>2 DEF AcquireNew, request
      <4> QED BY <2>3, <4>1 DEF table
    <3> QED BY <3>1, <3>2
  <2>9. CASE AcquireRead(w)
    <3>1. UNCHANGED <<table, key, lockId, renewing>>
      BY <2>9 DEF AcquireRead, request
    <3> QED BY <2>3, <3>1 DEF table
  <2>10. CASE AcquireReclaim(w)
    <3>1. CASE row[LockKey] # None /\ Reclaim(LockKey, lstart[w])
      <4>1. row'[LockKey].locked_until = lstart[w] + Lease
        BY <1>3, <3>1, Statements
      <4>2. clock <= lstart[w] + ClaimTime
        BY <2>10 DEF AcquireReclaim, RequestInv, At
      <4>3. row'[LockKey].locked_until > clock
        BY <1>3, <4>1, <4>2, Times DEF Timely
      <4> QED BY <1>5, <2>1, <4>3
    <3>2. CASE ~(row[LockKey] # None /\ Reclaim(LockKey, lstart[w]))
      <4>1. UNCHANGED <<table, key, lockId, renewing>>
        BY <2>10, <3>2 DEF AcquireReclaim, Reclaimable, Found, request
      <4> QED BY <2>3, <4>1 DEF table
    <3> QED BY <3>1, <3>2
  <2>11. CASE Renew(w)
    <3>1. CASE Renewable(w)
      <4>1. /\ row[LockKey] # None
            /\ row' = [row EXCEPT ![LockKey].locked_until = clock + Lease,
                                  ![LockKey].expires_at = clock + TTL]
        BY <2>11, <3>1 DEF Renew, Renewable, Found
      <4>2. row[LockKey] \in Rows
        BY <1>3, <4>1, RowType
      <4>3. row'[LockKey].locked_until = clock + Lease
        BY <1>3, <4>1, <4>2 DEF Rows, TypeOK
      <4> QED BY <1>3, <1>5, <2>1, <4>3, Times
    <3>2. CASE ~Renewable(w)
      <4>1. row' = row /\ UNCHANGED <<key, lockId>> /\ ~renewing'[w]
        BY <2>11, <3>2 DEF Renew, TypeOK, request
      <4> QED BY <2>3, <4>1
    <3> QED BY <3>1, <3>2
  <2>12. CASE Release(w)
    <3>1. UNCHANGED <<key, lockId>> /\ ~renewing'[w]
      BY <2>12 DEF Release, TypeOK, request
    <3> DEFINE locked == IF outcome[w] = "ok" THEN Unlocked ELSE clock
    <3>2. Finish(LockKey, lockId[w], FinishStatus(w), locked, clock + TTL) \/ row' = row
      BY <2>12 DEF Release
    <3>3. /\ locked \in Nat /\ clock + TTL \in Nat /\ lockId[w] \in Ids
          /\ FinishStatus(w) \in Status /\ FinishStatus(w) # "PROCESSING"
      BY <1>3, Times DEF Unlocked, TypeOK, FinishStatus, Status
    <3> HIDE DEF locked
    <3>4. row'[LockKey] = row[LockKey] \/ row'[LockKey].status # "PROCESSING"
      BY <1>3, <3>2, <3>3, Statements
    <3> QED BY <1>6, <2>3, <3>1, <3>4
  <2>13. CASE MarkFinished(w)
    <3>1. Leave(w) /\ renewing' = renewing /\ key[w] \in Keys
      BY <2>13 DEF MarkFinished, RequestInv, At
    <3> DEFINE locked == IF outcome[w] = "ok" THEN Unlocked ELSE clock + Backoff
    <3>2. Finish(key[w], recId[w], FinishStatus(w), locked, start[w] + TTL) \/ row' = row
      BY <2>13 DEF MarkFinished
    <3>3. /\ locked \in Nat /\ start[w] + TTL \in Nat /\ recId[w] \in Ids
          /\ FinishStatus(w) \in Status
      BY <1>3, Times DEF Unlocked, TypeOK, FinishStatus, Status
    <3> HIDE DEF locked
    <3>4. row'[LockKey] = row[LockKey]
      BY <1>3, <3>1, <3>2, <3>3, Statements
    <3> QED BY <2>4, <3>1, <3>4
  <2>14. CASE Crash(w)
    <3>1. Leave(w) /\ row' = row /\ ~renewing'[w]
      BY <2>14 DEF Crash, table, TypeOK
    <3> QED BY <2>4, <3>1
  <2>15. ASSUME NEW result \in {"ok", "failed"}, Run(w, result) PROVE LeaseInv'
    <3>1. UNCHANGED <<table, key, lock>>
      BY <2>15 DEF Run, request
    <3> QED BY <2>3, <3>1 DEF lock, table
  <2>16. ASSUME NEW k \in Keys, NEW p \in Payloads, Begin(w, k, p) PROVE LeaseInv'
    <3>1. row' = row /\ renewing' = renewing /\ ~renewing[w]
      BY <2>16 DEF Begin, table, lock
    <3> QED BY <2>2, <3>1
  <2> QED BY ONLY <1>7, <2>5, <2>6, <2>7, <2>8, <2>9, <2>10, <2>11, <2>12, <2>13, <2>14, <2>15,
                  <2>16 DEF Step
<1>8. ASSUME NEW k \in Keys \cup {LockKey}, Cleanup(k) PROVE LeaseInv'
  <2>1. row' = [row EXCEPT ![k] = None] /\ clock' = clock /\ UNCHANGED <<key, lockId, renewing>>
    BY <1>8 DEF Cleanup, request, lock
  <2>2. row'[LockKey] = row[LockKey] \/ row'[LockKey] = None
    BY <1>3, <2>1 DEF TypeOK
  <2> QED BY <1>4, <1>6, <2>1, <2>2 DEF Renewable, Found
<1>9. CASE Tick
  <2>1. UNCHANGED <<row, key, lockId, renewing>> /\ clock' = clock + 1
    BY <1>9 DEF Tick, table, request, lock
  <2>2. \A w \in Workers : renewing[w] /\ Renewable(w) => row[LockKey].locked_until > clock + 1
    BY <1>9 DEF Tick
  <2> QED BY <1>2, <2>1, <2>2 DEF Renewable, Found
<1>10. CASE UNCHANGED vars
  BY <1>4, <1>10 DEF vars, table, request, lock, Renewable, Found
<1> QED BY ONLY [Next]_vars, <1>7, <1>8, <1>9, <1>10 DEF Next

\* Nobody begins to operate while another one's lease lasts.
LEMMA LeaseExcludes ==
  ASSUME TypeOK, RequestInv, LeaseInv, [Next]_vars,
         NEW v \in Workers, NEW w \in Workers, v # w,
         Operating(w), renewing[w], Renewable(w), Operating(v)'
  PROVE  Operating(v)
<1>1. /\ row[LockKey] # None /\ row[LockKey].locked_until > clock
      /\ row[LockKey].locked_until \in Nat /\ clock \in Nat
  <2>1. LockKey \in Keys \cup {LockKey} /\ row[LockKey] # None
    BY DEF Renewable, Found
  <2> QED BY <2>1, RowType DEF LeaseInv, TypeOK
<1>2. CASE pc'[v] = pc[v] /\ key'[v] = key[v]
  BY <1>2 DEF Operating
<1>3. CASE Step(v)
  <2>1. SUFFICES ASSUME ~Operating(v) PROVE FALSE
    OBVIOUS
  <2>2. pc'[v] \in {"run", "release"} /\ key'[v] \in SystemKeys
    BY DEF Operating
  <2>3. ~AcquireNew(v)
    BY <1>1, <2>2 DEF AcquireNew, Insert, Goto, TypeOK
  <2>4. ~AcquireReclaim(v)
    <3>1. SUFFICES ASSUME AcquireReclaim(v) PROVE FALSE
      OBVIOUS
    <3>2. CASE Reclaimable(LockKey, seen[v], lstart[v])
      <4>1. lstart[v] <= clock /\ lstart[v] \in Nat
        BY <3>1 DEF AcquireReclaim, RequestInv, At, TypeOK
      <4> QED BY <1>1, <3>2, <4>1 DEF Reclaimable
    <3>3. CASE Fail(v)
      BY <2>2, <3>3 DEF Fail, Goto, TypeOK
    <3> QED BY <3>1, <3>2, <3>3 DEF AcquireReclaim
  <2>5. ~AcquireRead(v)
    BY <2>2 DEF AcquireRead, Fail, Goto, TypeOK
  <2>6. ~CreateProcessing(v) /\ ~ReclaimExpired(v) /\ ~ReclaimFailed(v)
    BY <2>2 DEF CreateProcessing, ReclaimExpired, ReclaimFailed, Claim, Answer, Leave, Goto,
                TypeOK, request
  <2>7. ~GetExisting(v) /\ ~GetLatest(v)
    BY <2>2 DEF GetExisting, GetLatest, ByStatus, Look, Answer, Leave, Goto, TypeOK
  <2>8. ~Release(v) /\ ~MarkFinished(v) /\ ~Crash(v)
    BY <2>2 DEF Release, MarkFinished, Crash, Leave, Goto, TypeOK
  <2>9. ~Renew(v)
    BY <2>1, <2>2 DEF Renew, Operating, request
  <2>10. \A result \in {"ok", "failed"} : ~Run(v, result)
    BY <2>1, <2>2 DEF Run, Operating, At, request
  <2>11. \A k \in Keys, p \in Payloads : ~Begin(v, k, p)
    BY <2>2 DEF Begin, Goto, TypeOK
  <2> QED BY ONLY <1>3, <2>3, <2>4, <2>5, <2>6, <2>7, <2>8, <2>9, <2>10, <2>11 DEF Step
<1>4. ASSUME NEW u \in Workers, u # v, Step(u) PROVE pc'[v] = pc[v] /\ key'[v] = key[v]
  BY <1>4, StepFrame
<1>5. ASSUME \/ \E k \in Keys \cup {LockKey} : Cleanup(k)
             \/ Tick \/ UNCHANGED vars
      PROVE  pc'[v] = pc[v] /\ key'[v] = key[v]
  BY <1>5 DEF Cleanup, Tick, vars, request
<1> QED BY ONLY [Next]_vars, <1>2, <1>3, <1>4, <1>5 DEF Next

-----------------------------------------------------------------------------

\* The parts of the invariant hold together.
LEMMA SystemInvariant ==
  ASSUME Timely
  PROVE  Spec => [](TypeOK /\ RequestInv /\ RecordInv /\ EffectInv /\ LeaseInv)
<1> DEFINE IInv == TypeOK /\ RequestInv /\ RecordInv /\ EffectInv /\ LeaseInv
<1>1. Init => IInv
  BY SystemInit
<1>2. IInv /\ [Next]_vars => IInv'
  <2> SUFFICES ASSUME TypeOK, RequestInv, RecordInv, EffectInv, LeaseInv, [Next]_vars
               PROVE  IInv'
    OBVIOUS
  <2>1. TypeOK'
    BY TypeStep
  <2>2. RequestInv'
    BY <2>1, RequestStep
  <2>3. RecordInv' /\ EffectInv'
    BY <2>1, <2>2, RecordStep
  <2>4. LeaseInv'
    BY <2>1, LeaseStep
  <2> QED BY <2>1, <2>2, <2>3, <2>4
<1> HIDE DEF IInv
<1>3. Spec => []IInv
  BY <1>1, <1>2, PTL DEF Spec
<1> QED BY <1>3 DEF IInv

\* The table and the requests have their types, whatever the times (idempotency_repo.go).
THEOREM TypeCorrect == Spec => []TypeOK
<1> DEFINE IInv == TypeOK /\ RequestInv
<1>1. Init => IInv
  BY SystemInit
<1>2. IInv /\ [Next]_vars => IInv'
  BY TypeStep, RequestStep
<1>3. IInv => TypeOK
  OBVIOUS
<1> HIDE DEF IInv
<1> QED BY <1>1, <1>2, <1>3, PTL DEF Spec

\* Requests with the same key are not executed side by side (Execute).
THEOREM OneExecutes ==
  ASSUME Timely
  PROVE  Spec => []OneExecutor
<1>1. RecordInv => OneExecutor
  BY DEF RecordInv
<1> QED BY <1>1, SystemInvariant, PTL

\* An effect is not repeated while its record should live (Execute).
THEOREM ExecutesOnce ==
  ASSUME Timely
  PROVE  Spec => []AtMostOnce
<1>1. EffectInv => AtMostOnce
  BY DEF EffectInv
<1> QED BY <1>1, SystemInvariant, PTL

\* A lease that renewLoop can renew keeps the lock from the others (Acquire).
THEOREM LeaseIsExclusive ==
  ASSUME Timely
  PROVE  Spec => RenewedLeaseExcludes
<1> DEFINE Excluded == \A v, w \in Workers :
                      /\ v # w
                      /\ Operating(w) /\ renewing[w] /\ Renewable(w)
                      /\ Operating(v)'
                      => Operating(v)
<1>1. TypeOK /\ RequestInv /\ LeaseInv /\ [Next]_vars => Excluded
  BY LeaseExcludes
<1>2. TypeOK /\ RequestInv /\ LeaseInv /\ [Next]_vars => [Excluded]_vars
  BY <1>1
<1> HIDE DEF Excluded
<1>3. Spec => [][Excluded]_vars
  BY <1>2, SystemInvariant, PTL DEF Spec
<1> QED BY <1>3 DEF Excluded, RenewedLeaseExcludes
====
