---------------------------- MODULE UsageBilling ----------------------------
(***************************************************************************)
(* What the usage of a gateway request costs one user, and the cached      *)
(* balance that admits the next request:                                   *)
(* backend/internal/repository/usage_billing_repo.go,                      *)
(* dashboard_aggregation_repo.go, billing_cache.go and                     *)
(* service/gateway_billing.go, billing_cache_service.go.                   *)
(*                                                                         *)
(* A charge is one transaction, keyed by the id of its request, which a    *)
(* client may send again.  Every call may fail and every process may stop. *)
(***************************************************************************)
EXTENDS Integers

CONSTANTS
    Requests,
    Keys,         \* request_id and api_key_id
    Payloads,     \* usages, as request_fingerprint tells them apart
    Cost,         \* BalanceCost of a usage
    Opening,      \* the user's balance
    None,
    MaxChanges    \* bound: credits and refunds

ASSUME NoneAssumption == None \notin Requests \cup Keys \cup Payloads \cup Int
ASSUME CostAssumption == Cost \in [Payloads -> Nat \ {0}]
ASSUME BoundAssumption == Opening \in Nat /\ MaxChanges \in Nat

VARIABLES
    dedup,      \* usage_billing_dedup: the fingerprint of a key
    archive,    \* usage_billing_dedup_archive
    writer,     \* whose transaction has inserted the key
    stored,     \* users.balance
    cached,     \* the balance in Redis
    expiring,   \* and whether it has a time to live
    loads,      \* cacheWriteSetBalance tasks
    deletions,  \* InvalidateUserBalance calls under way
    pc, key, payload,
    charged,    \* how often a usage was charged under a key
    changes

tables == <<dedup, archive, writer>>
cache == <<cached, expiring, loads, deletions>>
request == <<key, payload>>
vars == <<tables, stored, cache, pc, request, charged, changes>>

Steps == {"idle", "load", "serve", "insert", "conflict", "archive", "commit", "deduct"}
\* in its transaction a request holds the key it inserted
Writing == {"archive", "commit"}

TypeOK ==
    /\ dedup \in [Keys -> Payloads \cup {None}]
    /\ archive \in [Keys -> Payloads \cup {None}]
    /\ writer \in [Keys -> Requests \cup {None}]
    /\ stored \in Int
    /\ cached \in Int \cup {None}
    /\ expiring \in BOOLEAN
    /\ loads \in [Requests -> Int \cup {None}]
    /\ deletions \in Nat
    /\ pc \in [Requests -> Steps]
    /\ key \in [Requests -> Keys \cup {None}]
    /\ payload \in [Requests -> Payloads \cup {None}]
    /\ charged \in [Keys -> [Payloads -> Nat]]
    /\ changes \in Nat

Init ==
    /\ dedup = [k \in Keys |-> None]
    /\ archive = [k \in Keys |-> None]
    /\ writer = [k \in Keys |-> None]
    /\ stored = Opening
    /\ cached = None /\ expiring = FALSE
    /\ loads = [q \in Requests |-> None]
    /\ deletions = 0
    /\ pc = [q \in Requests |-> "idle"]
    /\ key = [q \in Requests |-> None]
    /\ payload = [q \in Requests |-> None]
    /\ charged = [k \in Keys |-> [p \in Payloads |-> 0]]
    /\ changes = 0

At(q, step) == pc[q] = step
Goto(q, step) == pc' = [pc EXCEPT ![q] = step]

Finish(q) ==
    /\ Goto(q, "idle")
    /\ key' = [key EXCEPT ![q] = None]
    /\ payload' = [payload EXCEPT ![q] = None]

-----------------------------------------------------------------------------
(* BillingCacheService.checkBalanceEligibility *)

\* the balance the request is judged by
Judge(q, balance) == Goto(q, IF balance > 0 THEN "serve" ELSE "idle")

GetUserBalance(q) ==
    /\ At(q, "idle")
    /\ \/ cached # None /\ Judge(q, cached)
       \/ Goto(q, "load")   \* a miss, or Redis fails
    /\ UNCHANGED <<tables, stored, cache, request, charged, changes>>

\* getUserBalanceFromDB; a full queue drops the task
Load(q) ==
    /\ At(q, "load")
    /\ Judge(q, stored)
    /\ \/ loads[q] = None /\ loads' = [loads EXCEPT ![q] = stored]
       \/ UNCHANGED loads
    /\ UNCHANGED <<tables, stored, cached, expiring, deletions, request, charged, changes>>

SetUserBalance(q) ==
    /\ loads[q] # None
    /\ loads' = [loads EXCEPT ![q] = None]
    /\ \/ cached' = loads[q] /\ expiring' = TRUE
       \/ UNCHANGED <<cached, expiring>>
    /\ UNCHANGED <<tables, stored, deletions, pc, request, charged, changes>>

-----------------------------------------------------------------------------
(* usageBillingRepository.Apply *)

\* the upstream has answered: its usage is recorded, or there is none
Serve(q, k, p) ==
    /\ At(q, "serve")
    /\ \/ /\ Goto(q, "insert")
          /\ key' = [key EXCEPT ![q] = k]
          /\ payload' = [payload EXCEPT ![q] = p]
       \/ Goto(q, "idle") /\ UNCHANGED request
    /\ UNCHANGED <<tables, stored, cache, charged, changes>>

\* mutant: the key is looked up, and inserted with the charge
InsertableUnlocked(k) == TRUE

\* an INSERT waits for the transaction that has inserted the key
Insertable(k) == writer[k] = None

\* claimUsageBillingKey: INSERT ... ON CONFLICT DO NOTHING
Insert(q) ==
    /\ At(q, "insert")
    /\ Insertable(key[q])
    /\ \/ /\ dedup[key[q]] = None
          /\ writer' = [writer EXCEPT ![key[q]] = q]
          /\ Goto(q, "archive")
       \/ /\ dedup[key[q]] # None
          /\ Goto(q, "conflict")
          /\ UNCHANGED writer
    /\ UNCHANGED <<dedup, archive, stored, cache, request, charged, changes>>

\* the fingerprint of the row it met: the same usage, another one, or no row any
\* more; it is an error or not, and never charged
CompareFingerprint(q) ==
    /\ At(q, "conflict")
    /\ Finish(q)
    /\ UNCHANGED <<tables, stored, cache, charged, changes>>

Rollback(q) ==
    /\ writer' = [k \in Keys |-> IF writer[k] = q THEN None ELSE writer[k]]
    /\ Finish(q)

\* mutant: a step nothing follows
AfterArchiveMisspelt(q) == "apply"

AfterArchive(q) == "commit"

CheckArchive(q) ==
    /\ At(q, "archive")
    /\ \/ /\ archive[key[q]] = None
          /\ Goto(q, AfterArchive(q))
          /\ UNCHANGED <<writer, request>>
       \/ Rollback(q)   \* charged before, or the call fails
    /\ UNCHANGED <<dedup, archive, stored, cache, charged, changes>>

\* applyUsageBillingEffects and the commit, which may succeed without an answer
Commit(q) ==
    /\ At(q, "commit")
    /\ dedup' = [dedup EXCEPT ![key[q]] = payload[q]]
    /\ stored' = stored - Cost[payload[q]]
    /\ charged' = [charged EXCEPT ![key[q]][payload[q]] = @ + 1]
    /\ \/ /\ Goto(q, "deduct")
          /\ writer' = [k \in Keys |-> IF writer[k] = q THEN None ELSE writer[k]]
          /\ UNCHANGED request
       \/ Rollback(q)
    /\ UNCHANGED <<archive, cache, changes>>

CommitFails(q) ==
    /\ At(q, "commit")
    /\ Rollback(q)
    /\ UNCHANGED <<dedup, archive, stored, cache, charged, changes>>

\* mutant: SET clears the time to live
DeductionExpiresNever == FALSE

\* EXPIRE after SET, in deductBalanceScript
DeductionExpires == TRUE

\* finalizePostUsageBilling: deductBalanceScript changes an entry that is there
DeductUserBalance(q) ==
    /\ At(q, "deduct")
    /\ \/ /\ cached # None
          /\ cached' = cached - Cost[payload[q]]
          /\ expiring' = DeductionExpires
       \/ UNCHANGED <<cached, expiring>>
    /\ Finish(q)
    /\ UNCHANGED <<tables, stored, loads, deletions, charged, changes>>

-----------------------------------------------------------------------------
(* The rest of the world *)

\* mutant: rows are deleted when they are old, and nothing is archived
ArchivedNothing(k) == archive

Archived(k) == [archive EXCEPT ![k] = IF @ = None THEN dedup[k] ELSE @]

\* CleanupUsageBillingDedup: one statement
Cleanup(k) ==
    /\ dedup[k] # None
    /\ archive' = Archived(k)
    /\ dedup' = [dedup EXCEPT ![k] = None]
    /\ UNCHANGED <<writer, stored, cache, pc, request, charged, changes>>

\* a redeemed code, an administrator's change: the cached entry is deleted later,
\* if at all
Credit ==
    /\ changes < MaxChanges
    /\ changes' = changes + 1
    /\ stored' = stored + 1
    /\ \/ deletions' = deletions + 1
       \/ UNCHANGED deletions
    /\ UNCHANGED <<tables, cached, expiring, loads, pc, request, charged>>

InvalidateUserBalance ==
    /\ deletions > 0
    /\ deletions' = deletions - 1
    /\ cached' = None /\ expiring' = FALSE
    /\ UNCHANGED <<tables, stored, loads, pc, request, charged, changes>>

\* ExecuteRefund takes the balance and leaves the cache
Refund ==
    /\ changes < MaxChanges
    /\ changes' = changes + 1
    /\ stored' = stored - 1
    /\ UNCHANGED <<tables, cache, pc, request, charged>>

CacheExpires ==
    /\ cached # None /\ expiring
    /\ cached' = None /\ expiring' = FALSE
    /\ UNCHANGED <<tables, stored, loads, deletions, pc, request, charged, changes>>

\* the process stops, with the request's task in its queue
Crash(q) ==
    /\ Rollback(q)
    /\ loads' = [loads EXCEPT ![q] = None]
    /\ UNCHANGED <<dedup, archive, stored, cached, expiring, deletions, charged, changes>>

Step(q) ==
    \/ GetUserBalance(q) \/ Load(q) \/ SetUserBalance(q)
    \/ Insert(q) \/ CompareFingerprint(q) \/ CheckArchive(q)
    \/ Commit(q) \/ CommitFails(q) \/ DeductUserBalance(q) \/ Crash(q)
    \/ \E k \in Keys, p \in Payloads : Serve(q, k, p)

Next ==
    \/ \E q \in Requests : Step(q)
    \/ \E k \in Keys : Cleanup(k)
    \/ Credit \/ InvalidateUserBalance \/ Refund \/ CacheExpires

Spec == Init /\ [][Next]_vars

\* the workers of the queue go on, and Redis expires what has a time to live
Fairness ==
    /\ \A q \in Requests : WF_vars(SetUserBalance(q)) /\ WF_vars(DeductUserBalance(q))
    /\ WF_vars(CacheExpires)

FairSpec == Spec /\ Fairness

-----------------------------------------------------------------------------

\* What a key is recorded to have paid for was charged once, and nothing else
\* was: retries, a second usage under the same key, a commit without an answer,
\* and the move of the record to the archive between two statements of
\* claimUsageBillingKey charge nothing twice and record nothing that was free.
ChargedAsRecorded ==
    \A k \in Keys, p \in Payloads :
        charged[k][p] = IF p \in {dedup[k], archive[k]} THEN 1 ELSE 0

\* ChargedAsRecorded rests on this: a charge knows its key and usage, the open
\* transaction on a key is the one whose request works on it, its key is recorded
\* nowhere by the time it charges, and no key is recorded twice.
Charging == Writing \cup {"insert", "conflict", "deduct"}

BillingInv ==
    /\ \A q \in Requests : pc[q] \in Charging => key[q] # None /\ payload[q] # None
    /\ \A k \in Keys : writer[k] # None => /\ pc[writer[k]] \in Writing
                                         /\ key[writer[k]] = k
                                         /\ dedup[k] = None
    /\ \A q \in Requests : pc[q] \in Writing => writer[key[q]] = q
    /\ \A q \in Requests : At(q, "commit") => archive[key[q]] = None
    /\ \A k \in Keys : dedup[k] = None \/ archive[k] = None

\* The two tables and their transactions implement the ledger: the bill of a key is
\* in one of them, the move between them changes nothing, and a charge takes its
\* cost from the stored balance and writes its bill in one step, or does neither.
Ledger == INSTANCE UsageLedger WITH
    bill    <- [k \in Keys |-> IF dedup[k] # None THEN dedup[k] ELSE archive[k]],
    balance <- stored

ImplementsLedger == Ledger!LedgerSpec

\* The balance that admits requests ends as the stored one, or is read again:
\* whatever order loads, deductions and deletions of the entry take effect in,
\* and although a refund never deletes it.
CacheConverges == <>[](cached \in {None, stored})
=============================================================================
