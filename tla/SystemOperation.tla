-------------------------- MODULE SystemOperation --------------------------
(***************************************************************************)
(* Administrative requests with an Idempotency-Key, and the global lock    *)
(* under which those that update, roll back or restart the system run:     *)
(* backend/internal/service/idempotency.go,                                *)
(* system_operation_lock_service.go, repository/idempotency_repo.go.       *)
(*                                                                         *)
(* Both keep their state in one table, idempotency_records: a row per key, *)
(* and one row for the lock.  A worker is one request; a statement against *)
(* the table is one step.  Time is an integer; a request compares rows     *)
(* with the time it read when it began, as the code does.                  *)
(***************************************************************************)
EXTENDS Naturals

CONSTANTS
    Keys,         \* idempotency keys of one scope
    SystemKeys,   \* those of requests that take the system operation lock
    LockKey,      \* the row of the lock
    Payloads,     \* what a request asks for, as its fingerprint tells apart
    Workers,
    None,         \* no row, no key, no payload
    Lease,        \* IdempotencyConfig.ProcessingTimeout, the lock's lease too
    TTL,          \* the life of a record
    Backoff,      \* IdempotencyConfig.FailedRetryBackoff
    ClaimTime,    \* the longest time from reading the clock to a claim
    MinRun,       \* the shortest time from a claim to the end of its execution
    RunTime,      \* the longest time from the start of a request to its end
    MaxTime,      \* bound: the last instant
    MaxFaults     \* bound: writes that fail and requests cut off

ASSUME KeyAssumption ==
    /\ SystemKeys \subseteq Keys
    /\ LockKey \notin Keys
    /\ None \notin Keys \cup Payloads \cup {LockKey}
ASSUME TimeAssumption ==
    /\ {Lease, TTL, Backoff, ClaimTime, MinRun, RunTime, MaxTime, MaxFaults} \subseteq Nat
    /\ Lease > 0 /\ TTL > 0

VARIABLES
    row,        \* idempotency_records, by key
    nextId,     \* its id sequence
    clock,
    pc, key, payload,
    start,      \* the time the request read when it began
    seen,       \* id and status of the row it read
    recId,      \* the id of the row it claimed
    claimed,    \* when it did
    lstart,     \* the time Acquire read when it began
    lockId,     \* the id of the lock's row it acquired
    renewing,   \* renewLoop is running
    outcome,    \* what the executed function returned
    valid,      \* until when the last effect of a key must not be repeated
    faults

table == <<row, nextId>>
request == <<key, payload, start, recId, claimed>>
lock == <<lstart, lockId, renewing>>
ghost == <<valid, faults>>
vars == <<table, clock, pc, request, seen, lock, outcome, ghost>>

Claims == {"create", "read", "reclaim", "reread", "retake"}
Locks == {"lcreate", "lread", "lreclaim"}
Steps == {"idle", "run", "release", "mark"} \cup Claims \cup Locks
Status == {"PROCESSING", "SUCCEEDED", "FAILED_RETRYABLE"}
Ids == Nat
Unlocked == 0   \* locked_until IS NULL: not after any time

Rows == [id: Ids, fingerprint: Keys \cup Payloads, status: Status,
         locked_until: Nat, expires_at: Nat]
Nothing == [id |-> 0, status |-> "PROCESSING"]

ASSUME RowAssumption == None \notin Rows

TypeOK ==
    /\ row \in [Keys \cup {LockKey} -> Rows \cup {None}]
    /\ nextId \in Ids \ {0}
    /\ clock \in Nat
    /\ pc \in [Workers -> Steps]
    /\ key \in [Workers -> Keys \cup {None}]
    /\ payload \in [Workers -> Payloads \cup {None}]
    /\ start \in [Workers -> Nat]
    /\ seen \in [Workers -> [id: Ids, status: Status]]
    /\ recId \in [Workers -> Ids]
    /\ claimed \in [Workers -> Nat]
    /\ lstart \in [Workers -> Nat]
    /\ lockId \in [Workers -> Ids]
    /\ renewing \in [Workers -> BOOLEAN]
    /\ outcome \in [Workers -> {"none", "ok", "failed"}]
    /\ valid \in [Keys -> Nat]
    /\ faults \in Nat

Init ==
    /\ row = [k \in Keys \cup {LockKey} |-> None]
    /\ nextId = 1
    /\ clock = 1
    /\ pc = [w \in Workers |-> "idle"]
    /\ key = [w \in Workers |-> None]
    /\ payload = [w \in Workers |-> None]
    /\ start = [w \in Workers |-> 0]
    /\ seen = [w \in Workers |-> Nothing]
    /\ recId = [w \in Workers |-> 0]
    /\ claimed = [w \in Workers |-> 0]
    /\ lstart = [w \in Workers |-> 0]
    /\ lockId = [w \in Workers |-> 0]
    /\ renewing = [w \in Workers |-> FALSE]
    /\ outcome = [w \in Workers |-> "none"]
    /\ valid = [k \in Keys |-> 0]
    /\ faults = 0

At(w, step) == pc[w] = step
Goto(w, step) == pc' = [pc EXCEPT ![w] = step]

\* a request from its claim to the write that ends it
Executing(w) == pc[w] \in Locks \cup {"run", "release", "mark"}
\* a system operation that believes it holds the lock
Operating(w) == pc[w] \in {"run", "release"} /\ key[w] \in SystemKeys

-----------------------------------------------------------------------------
(* The table: repository/idempotency_repo.go *)

\* CreateProcessing: INSERT ... ON CONFLICT DO NOTHING
Insert(k, fingerprint, now) ==
    /\ row[k] = None
    /\ row' = [row EXCEPT ![k] =
                 [id |-> nextId, fingerprint |-> fingerprint, status |-> "PROCESSING",
                  locked_until |-> now + Lease, expires_at |-> now + TTL]]
    /\ nextId' = nextId + 1

\* the row an UPDATE ... WHERE id = ... finds
Found(k, id) == row[k] # None /\ row[k].id = id

\* mutant: a reclaim does not look at the lease
ReclaimableAnyLease(k, s, now) == Found(k, s.id) /\ row[k].status = s.status

\* the WHERE clause of TryReclaim
Reclaimable(k, s, now) ==
    /\ Found(k, s.id)
    /\ row[k].status = s.status
    /\ row[k].locked_until <= now

\* TryReclaim; the fingerprint stays
Reclaim(k, now) ==
    /\ row' = [row EXCEPT ![k].status = "PROCESSING",
                          ![k].locked_until = now + Lease,
                          ![k].expires_at = now + TTL]
    /\ UNCHANGED nextId

\* MarkSucceeded and MarkFailedRetryable: by id, whoever holds the row
Finish(k, id, status, locked, expires) ==
    row' = IF Found(k, id)
             THEN [row EXCEPT ![k].status = status, ![k].locked_until = locked,
                              ![k].expires_at = expires]
             ELSE row

\* a write that fails, or whose caller is gone: the context of the request is
\* cancelled when its client disconnects
Fault == faults < MaxFaults /\ faults' = faults + 1

-----------------------------------------------------------------------------
(* IdempotencyCoordinator.Execute *)

Leave(w) ==
    /\ Goto(w, "idle")
    /\ key' = [key EXCEPT ![w] = None]
    /\ payload' = [payload EXCEPT ![w] = None]
    /\ start' = [start EXCEPT ![w] = 0]
    /\ recId' = [recId EXCEPT ![w] = 0]
    /\ claimed' = [claimed EXCEPT ![w] = 0]
    /\ seen' = [seen EXCEPT ![w] = Nothing]
    /\ lstart' = [lstart EXCEPT ![w] = 0]
    /\ lockId' = [lockId EXCEPT ![w] = 0]
    /\ outcome' = [outcome EXCEPT ![w] = "none"]

\* a replay, a conflict or an error that leaves the table alone
Answer(w) == Leave(w) /\ UNCHANGED <<table, renewing, ghost>>

Begin(w, k, p) ==
    /\ At(w, "idle") /\ ~renewing[w]
    /\ Goto(w, "create")
    /\ key' = [key EXCEPT ![w] = k]
    /\ payload' = [payload EXCEPT ![w] = p]
    /\ start' = [start EXCEPT ![w] = clock]
    /\ UNCHANGED <<table, clock, recId, claimed, seen, lock, outcome, ghost>>

\* the request owns the record: its function is called
Claim(w, id) ==
    /\ Goto(w, IF key[w] \in SystemKeys THEN "lcreate" ELSE "run")
    /\ recId' = [recId EXCEPT ![w] = id]
    /\ claimed' = [claimed EXCEPT ![w] = clock]
    /\ seen' = [seen EXCEPT ![w] = Nothing]
    /\ UNCHANGED <<key, payload, start, lock, outcome, ghost>>

CreateProcessing(w) ==
    /\ At(w, "create")
    /\ \/ Insert(key[w], payload[w], start[w]) /\ Claim(w, nextId)
       \/ /\ row[key[w]] # None
          /\ Goto(w, "read")
          /\ UNCHANGED <<table, request, seen, lock, outcome, ghost>>
    /\ UNCHANGED clock

Look(w, step) ==
    /\ Goto(w, step)
    /\ seen' = [seen EXCEPT ![w] = [id |-> row[key[w]].id, status |-> row[key[w]].status]]
    /\ UNCHANGED <<table, request, lock, outcome, ghost>>

\* the answer to a record that is not reclaimed as expired
ByStatus(w, r) ==
    \/ /\ \/ r.status \in {"SUCCEEDED", "PROCESSING"}   \* replayed; in progress
          \/ r.status = "FAILED_RETRYABLE" /\ r.locked_until > start[w]   \* backoff
       /\ Answer(w)
    \/ /\ r.status = "FAILED_RETRYABLE" /\ r.locked_until <= start[w]
       /\ Look(w, "retake")

\* mutant: a record counts as expired when its lease is over
ExpiredWithLease(r, now) == r.locked_until <= now

Expired(r, now) == r.expires_at <= now

Usable(w) == row[key[w]] # None /\ row[key[w]].fingerprint = payload[w]

GetExisting(w) ==
    /\ At(w, "read")
    /\ \/ ~Usable(w) /\ Answer(w)
       \/ Usable(w) /\ Expired(row[key[w]], start[w]) /\ Look(w, "reclaim")
       \/ Usable(w) /\ ~Expired(row[key[w]], start[w]) /\ ByStatus(w, row[key[w]])
    /\ UNCHANGED clock

ReclaimExpired(w) ==
    /\ At(w, "reclaim")
    /\ \/ /\ Reclaimable(key[w], seen[w], start[w])
          /\ Reclaim(key[w], start[w])
          /\ Claim(w, seen[w].id)
       \/ /\ ~Reclaimable(key[w], seen[w], start[w])
          /\ Goto(w, "reread")
          /\ UNCHANGED <<table, request, seen, lock, outcome, ghost>>
    /\ UNCHANGED clock

GetLatest(w) ==
    /\ At(w, "reread")
    /\ \/ ~Usable(w) /\ Answer(w)
       \/ Usable(w) /\ ByStatus(w, row[key[w]])
    /\ UNCHANGED clock

ReclaimFailed(w) ==
    /\ At(w, "retake")
    /\ \/ /\ Reclaimable(key[w], seen[w], start[w])
          /\ Reclaim(key[w], start[w])
          /\ Claim(w, seen[w].id)
       \/ ~Reclaimable(key[w], seen[w], start[w]) /\ Answer(w)
    /\ UNCHANGED clock

\* mutant: a finished execution can always be retried
FinishStatusRetryable(w) == "FAILED_RETRYABLE"

\* mutant: a status the code that reads it does not know
FinishStatusMisspelt(w) == IF outcome[w] = "ok" THEN "SUCCESS" ELSE "FAILED_RETRYABLE"

FinishStatus(w) == IF outcome[w] = "ok" THEN "SUCCEEDED" ELSE "FAILED_RETRYABLE"

\* MarkSucceeded or MarkFailedRetryable of the request's record
MarkFinished(w) ==
    /\ At(w, "mark")
    /\ Leave(w)
    /\ \/ /\ Finish(key[w], recId[w], FinishStatus(w),
                    IF outcome[w] = "ok" THEN Unlocked ELSE clock + Backoff,
                    start[w] + TTL)
          /\ UNCHANGED faults
       \/ Fault /\ UNCHANGED row
    /\ UNCHANGED <<nextId, clock, renewing, valid>>

-----------------------------------------------------------------------------
(* SystemOperationLockService.  buildSystemOperationID derives the id of an *)
(* operation from its idempotency key: here it is the key.                  *)

Fail(w) ==
    /\ Goto(w, "mark")
    /\ outcome' = [outcome EXCEPT ![w] = "failed"]
    /\ lstart' = [lstart EXCEPT ![w] = 0]

Acquired(w, id) ==
    /\ Goto(w, "run")
    /\ lockId' = [lockId EXCEPT ![w] = id]
    /\ renewing' = [renewing EXCEPT ![w] = TRUE]
    /\ seen' = [seen EXCEPT ![w] = Nothing]
    /\ lstart' = [lstart EXCEPT ![w] = 0]
    /\ UNCHANGED outcome

AcquireNew(w) ==
    /\ At(w, "lcreate")
    /\ \/ Insert(LockKey, key[w], clock) /\ Acquired(w, nextId)
       \/ /\ row[LockKey] # None
          /\ Goto(w, "lread")
          /\ lstart' = [lstart EXCEPT ![w] = clock]
          /\ UNCHANGED <<table, seen, outcome, lockId, renewing>>
    /\ UNCHANGED <<clock, request, ghost>>

Held(w) ==
    /\ row[LockKey] # None
    /\ row[LockKey].status = "PROCESSING"
    /\ row[LockKey].locked_until > lstart[w]

AcquireRead(w) ==
    /\ At(w, "lread")
    /\ \/ /\ (row[LockKey] # None => Held(w))
          /\ Fail(w) /\ UNCHANGED seen
       \/ /\ row[LockKey] # None /\ ~Held(w)
          /\ Goto(w, "lreclaim")
          /\ seen' = [seen EXCEPT ![w] = [id |-> row[LockKey].id, status |-> row[LockKey].status]]
          /\ UNCHANGED <<outcome, lstart>>
    /\ UNCHANGED <<table, clock, request, lockId, renewing, ghost>>

AcquireReclaim(w) ==
    /\ At(w, "lreclaim")
    /\ \/ /\ Reclaimable(LockKey, seen[w], lstart[w])
          /\ Reclaim(LockKey, lstart[w])
          /\ Acquired(w, seen[w].id)
       \/ /\ ~Reclaimable(LockKey, seen[w], lstart[w])
          /\ Fail(w)
          /\ UNCHANGED <<table, seen, lockId, renewing>>
    /\ UNCHANGED <<clock, request, ghost>>

\* the WHERE clause of ExtendProcessingLock
Renewable(w) ==
    /\ Found(LockKey, lockId[w])
    /\ row[LockKey].status = "PROCESSING"
    /\ row[LockKey].fingerprint = key[w]

Renew(w) ==
    /\ renewing[w]
    /\ \/ /\ Renewable(w)
          /\ row[LockKey].locked_until < clock + Lease
          /\ row' = [row EXCEPT ![LockKey].locked_until = clock + Lease,
                                ![LockKey].expires_at = clock + TTL]
          /\ UNCHANGED renewing
       \/ /\ ~Renewable(w)   \* "ownership_lost"
          /\ renewing' = [renewing EXCEPT ![w] = FALSE]
          /\ UNCHANGED row
    /\ UNCHANGED <<nextId, clock, pc, request, seen, lstart, lockId, outcome, ghost>>

\* the executed function returns; a system operation then releases the lock
Run(w, result) ==
    /\ At(w, "run")
    /\ clock >= claimed[w] + MinRun
    /\ Goto(w, IF key[w] \in SystemKeys THEN "release" ELSE "mark")
    /\ outcome' = [outcome EXCEPT ![w] = result]
    /\ valid' = IF result = "ok" THEN [valid EXCEPT ![key[w]] = start[w] + TTL] ELSE valid
    /\ UNCHANGED <<table, clock, request, seen, lock, faults>>

Release(w) ==
    /\ At(w, "release")
    /\ Goto(w, "mark")
    /\ renewing' = [renewing EXCEPT ![w] = FALSE]
    /\ \/ /\ Finish(LockKey, lockId[w], FinishStatus(w),
                    IF outcome[w] = "ok" THEN Unlocked ELSE clock, clock + TTL)
          /\ UNCHANGED faults
       \/ Fault /\ UNCHANGED row
    /\ UNCHANGED <<nextId, clock, request, seen, lstart, lockId, outcome, valid>>

-----------------------------------------------------------------------------
(* The rest of the world *)

\* cleanupOnce: DeleteExpired
Cleanup(k) ==
    /\ row[k] # None
    /\ row[k].expires_at <= clock
    /\ row' = [row EXCEPT ![k] = None]
    /\ UNCHANGED <<nextId, clock, pc, request, seen, lock, outcome, ghost>>

\* the process of a request stops
Crash(w) ==
    /\ ~At(w, "idle")
    /\ Fault
    /\ Leave(w)
    /\ renewing' = [renewing EXCEPT ![w] = FALSE]
    /\ UNCHANGED <<table, clock, valid>>

\* Time passes.  A request claims its record, and the lock, within ClaimTime of
\* the time it compares with, and ends within RunTime of its start;
\* renewLoop, which runs three times per lease, renews what it can in time.
Tick ==
    /\ clock < MaxTime
    /\ clock' = clock + 1
    /\ \A w \in Workers :
         /\ pc[w] \in Claims => clock < start[w] + ClaimTime
         /\ pc[w] \in {"lread", "lreclaim"} => clock < lstart[w] + ClaimTime
         /\ ~At(w, "idle") => clock < start[w] + RunTime
         /\ renewing[w] /\ Renewable(w) => row[LockKey].locked_until > clock + 1
    /\ UNCHANGED <<table, pc, request, seen, lock, outcome, ghost>>

Step(w) ==
    \/ CreateProcessing(w) \/ GetExisting(w) \/ ReclaimExpired(w)
    \/ GetLatest(w) \/ ReclaimFailed(w)
    \/ AcquireNew(w) \/ AcquireRead(w) \/ AcquireReclaim(w)
    \/ Release(w) \/ MarkFinished(w) \/ Renew(w) \/ Crash(w)
    \/ \E result \in {"ok", "failed"} : Run(w, result)
    \/ \E k \in Keys, p \in Payloads : Begin(w, k, p)

Next ==
    \/ \E w \in Workers : Step(w)
    \/ \E k \in Keys \cup {LockKey} : Cleanup(k)
    \/ Tick

Spec == Init /\ [][Next]_vars

-----------------------------------------------------------------------------

\* Two requests with the same key are never executed side by side: the insert,
\* both reclaims and the writes by id of idempotency.go together let one claim
\* in at a time, although a reclaim decides by what the request read before.
OneExecutor ==
    \A v, w \in Workers :
        v # w /\ Executing(v) /\ Executing(w) => key[v] # key[w]

\* An effect is not repeated while its record should live: a request takes a key
\* only after the end of the last effect's time to live, whether that effect was
\* recorded, failed to be recorded, or its process stopped before it was.
AtMostOnce ==
    \A w \in Workers :
        Executing(w) => valid[key[w]] <= claimed[w] \/ outcome[w] = "ok"

\* No operation gets the lock while another one holds a lease that renewLoop
\* can renew: what Acquire read before may be old, and so may the time it has.
RenewedLeaseExcludes ==
    [][\A v, w \in Workers :
         /\ v # w
         /\ Operating(w) /\ renewing[w] /\ Renewable(w)
         /\ Operating(v)'
         => Operating(v)]_vars

\* What these rest on, when claims are faster than leases and executions, and those
\* end before their records do.  A request knows what it asks for, ...
RequestInv == \A w \in Workers :
    /\ ~At(w, "idle") =>
         /\ key[w] \in Keys /\ payload[w] \in Payloads
         /\ start[w] <= clock /\ clock <= start[w] + RunTime
    /\ pc[w] \in Claims => clock <= start[w] + ClaimTime
    /\ pc[w] \in {"lread", "lreclaim"} => lstart[w] <= clock /\ clock <= lstart[w] + ClaimTime
    /\ At(w, "retake") => seen[w].status = "FAILED_RETRYABLE"
    /\ Executing(w) => claimed[w] <= clock /\ claimed[w] <= start[w] + ClaimTime
    /\ pc[w] \notin {"release", "mark"} => outcome[w] = "none"

\* ... the record of one that executes is its own, and who reads it meanwhile has
\* begun before, ...
RecordInv ==
    /\ OneExecutor
    /\ \A w \in Workers : Executing(w) =>
         /\ row[key[w]] # None
         /\ row[key[w]].status = "PROCESSING"
         /\ row[key[w]].locked_until = start[w] + Lease
         /\ row[key[w]].expires_at = start[w] + TTL
         /\ \A v \in Workers : At(v, "reclaim") /\ key[v] = key[w] => start[v] <= claimed[w]

\* ... nobody may take over the record of an effect that must not be repeated, ...
EffectInv ==
    /\ AtMostOnce
    /\ \A k \in Keys : valid[k] > clock =>
         /\ row[k] # None
         /\ row[k].status # "FAILED_RETRYABLE"
         /\ valid[k] <= row[k].expires_at
         /\ \A v \in Workers : At(v, "reclaim") => key[v] # k

\* ... and a lease that can be renewed has not ended.
LeaseInv == \A w \in Workers :
    renewing[w] /\ Renewable(w) => row[LockKey].locked_until > clock

\* system_operation_lock_service.go:20, "another system operation is in
\* progress", answers a second operation: there is one at a time.
OneOperation ==
    \A v, w \in Workers : Operating(v) /\ Operating(w) => v = w
=============================================================================
