------------------------- MODULE SchedulerSnapshot -------------------------
(***************************************************************************)
(* The accounts the scheduler chooses from, as it caches them in Redis:    *)
(* backend/internal/service/scheduler_snapshot_service.go,                 *)
(* repository/scheduler_cache.go, scheduler_outbox_repo.go and             *)
(* account_scheduler_cache.go.                                             *)
(*                                                                         *)
(* A change to an account writes the database, then an event to the        *)
(* outbox, then the cached account.  A poller takes the events and rebuilds *)
(* the snapshot of a bucket (a group's list of schedulable accounts); a    *)
(* worker rebuilds it now and then; a request that finds no snapshot       *)
(* rebuilds it too, without the bucket's lock.  Every call to the database *)
(* or to Redis is a step, but taking the lock is one with the read that    *)
(* follows, and releasing it with the call before.                         *)
(*                                                                         *)
(* A snapshot is represented by the state of the database it was read      *)
(* from, and versions by their order: versions holds the writers whose     *)
(* version is above the active one, in that order.                         *)
(***************************************************************************)
EXTENDS Naturals, Sequences, SequencesExt

CONSTANTS
    Accounts,
    Updaters,     \* requests and jobs that change accounts
    Pollers,      \* runOutboxWorker, one per process
    Rebuilders,   \* runFullRebuildWorker, one per process
    Requests,     \* ListSchedulableAccounts
    None,         \* not cached
    MaxVersion,   \* bound: changes of one account
    MaxUsed,      \* bound: events that only say when accounts were used
    MaxFaults     \* bound: calls that fail and processes that stop

ASSUME BoundAssumption == {MaxVersion, MaxUsed, MaxFaults} \subseteq Nat
ASSUME ProcessAssumption ==
    /\ Updaters \cap (Pollers \cup Rebuilders \cup Requests) = {}
    /\ Pollers \cap (Rebuilders \cup Requests) = {}
    /\ Rebuilders \cap Requests = {}

Writers == Pollers \cup Rebuilders \cup Requests
Processes == Updaters \cup Writers

VARIABLES
    db,         \* the accounts table
    outbox,     \* scheduler_outbox, ids are positions
    watermark,
    cached,     \* sched:acc and sched:meta of an account
    active,     \* the active snapshot, None before the first
    versions,
    lock,       \* sched:lock of the bucket exists
    pc,
    subject,    \* the account an updater or poller works on
    row,        \* what it read of that account
    batch,      \* ids of the events a poller has still to handle
    last,       \* the id it will set as watermark
    rebuilt,    \* the bucket is among those seen in this batch
    loaded,     \* what a writer read from the database
    handled,    \* the newest version a poller has stored, for the properties
    missed,     \* ids not committed when a higher one was listed
    faults

redis == <<cached, active, versions, lock>>
progress == <<watermark, handled, missed>>
polling == <<batch, last, rebuilt>>
local == <<subject, row, loaded>>
vars == <<db, outbox, progress, redis, pc, local, polling, faults>>

Statuses == {"active", "off", "deleted"}
Rows == [version: Nat, status: Statuses]

ASSUME NoneAssumption == None \notin Rows

Events == [account: Accounts, kind: {"changed", "used"}, version: Nat, committed: BOOLEAN]
Steps == {"idle", "enqueue", "sync", "drop", "store", "commit",
          "next", "set", "stamp",
          "lock", "load", "version", "accounts", "activate"}

Types ==
    /\ db \in [Accounts -> Rows]
    /\ outbox \in Seq(Events)
    /\ watermark \in Nat
    /\ cached \in [Accounts -> Rows \cup {None}]
    /\ active \in [Accounts -> Rows] \cup {None}
    /\ lock \in BOOLEAN
    /\ pc \in [Processes -> Steps]
    /\ subject \in [Updaters \cup Pollers -> Accounts \cup {None}]
    /\ row \in [Updaters \cup Pollers -> Rows \cup {None}]
    /\ batch \in [Pollers -> SUBSET Nat]
    /\ last \in [Pollers -> Nat]
    /\ rebuilt \in [Pollers -> BOOLEAN]
    /\ loaded \in [Writers -> [Accounts -> Rows] \cup {None}]
    /\ handled \in [Accounts -> Nat]
    /\ missed \subseteq Nat
    /\ faults \in Nat

TypeOK == Types /\ versions \in Seq(Writers)

Start == [a \in Accounts |-> [version |-> 0, status |-> "active"]]

Init ==
    /\ db = Start
    /\ outbox = <<>>
    /\ watermark = 0
    /\ cached = [a \in Accounts |-> None]
    /\ active = None
    /\ versions = <<>>
    /\ lock = FALSE
    /\ pc = [p \in Processes |-> "idle"]
    /\ subject = [p \in Updaters \cup Pollers |-> None]
    /\ row = [p \in Updaters \cup Pollers |-> None]
    /\ batch = [p \in Pollers |-> {}]
    /\ last = [p \in Pollers |-> 0]
    /\ rebuilt = [p \in Pollers |-> FALSE]
    /\ loaded = [w \in Writers |-> None]
    /\ handled = [a \in Accounts |-> 0]
    /\ missed = {}
    /\ faults = 0

At(p, step) == pc[p] = step
Goto(p, step) == pc' = [pc EXCEPT ![p] = step]
Fault == faults < MaxFaults /\ faults' = faults + 1

\* accounts a query for schedulable ones returns
Schedulable(table) == {a \in Accounts : table[a].status = "active"}

\* what GetSnapshot lists
List == IF active = None THEN {} ELSE Schedulable(active)

\* a row as the account cache keeps it
Cacheable(r) == IF r.status = "deleted" THEN None ELSE r

-----------------------------------------------------------------------------
(* Changes to accounts: the repository of accounts *)

Free(u) ==
    /\ subject' = [subject EXCEPT ![u] = None]
    /\ row' = [row EXCEPT ![u] = None]

\* a transaction holds the account's row
InTransaction(a) == \E u \in Updaters : At(u, "commit") /\ subject[u] = a

Bump(a, status) ==
    /\ db[a].version < MaxVersion
    /\ db[a].status # "deleted"
    /\ ~InTransaction(a)
    /\ db' = [db EXCEPT ![a] = [version |-> @.version + 1, status |-> status]]

\* the UPDATE of Update, SetError, SetRateLimited, SetOverloaded, Delete, ...
Change(u, a, status) ==
    /\ At(u, "idle")
    /\ status # db[a].status
    /\ Bump(a, status)
    /\ Goto(u, "enqueue")
    /\ subject' = [subject EXCEPT ![u] = a]
    /\ UNCHANGED <<outbox, progress, redis, row, loaded, polling, faults>>

Insert(a, kind, version, committed) ==
    outbox' = Append(outbox, [account |-> a, kind |-> kind, version |-> version,
                              committed |-> committed])

\* The WHERE clause of enqueueSchedulerOutbox: an event of the account that is
\* no older than schedulerOutboxDedupWindow.  Ages are left out.
MayBeRecent(a) == \E i \in DOMAIN outbox :
    outbox[i].account = a /\ outbox[i].kind = "changed" /\ outbox[i].committed

\* enqueueSchedulerOutbox: a failure is logged.  Some changes do not store the
\* account.
Enqueue(u) ==
    LET a == subject[u] IN
    /\ At(u, "enqueue")
    /\ \/ Insert(a, "changed", db[a].version, TRUE) /\ UNCHANGED faults
       \/ MayBeRecent(a) /\ UNCHANGED <<outbox, faults>>
       \/ Fault /\ UNCHANGED outbox
    /\ \/ Goto(u, IF db[a].status = "deleted" THEN "drop" ELSE "sync") /\ UNCHANGED <<subject, row>>
       \/ db[a].status # "deleted" /\ Goto(u, "idle") /\ Free(u)
    /\ UNCHANGED <<db, progress, redis, loaded, polling>>

\* syncSchedulerAccountSnapshot
SyncRead(u) ==
    /\ At(u, "sync")
    /\ \/ Cacheable(db[subject[u]]) # None
          /\ row' = [row EXCEPT ![u] = db[subject[u]]]
          /\ Goto(u, "store") /\ UNCHANGED <<subject, faults>>
       \/ Cacheable(db[subject[u]]) = None /\ Free(u) /\ Goto(u, "idle") /\ UNCHANGED faults
       \/ Fault /\ Free(u) /\ Goto(u, "idle")
    /\ UNCHANGED <<db, outbox, progress, redis, loaded, polling>>

\* SetAccount, or deleteSchedulerAccountSnapshot
Sync(u) ==
    /\ pc[u] \in {"store", "drop"}
    /\ \/ cached' = [cached EXCEPT ![subject[u]] = row[u]] /\ UNCHANGED faults
       \/ Fault /\ UNCHANGED cached
    /\ Free(u) /\ Goto(u, "idle")
    /\ UNCHANGED <<db, outbox, progress, active, versions, lock, loaded, polling>>

\* incrementUsageBillingAccountQuota: the event is part of the transaction,
\* which others see when it commits
InsertInTx(u, a) ==
    /\ At(u, "idle")
    /\ ~InTransaction(a)
    /\ db[a].version < MaxVersion /\ db[a].status # "deleted"
    /\ Insert(a, "changed", db[a].version + 1, FALSE)
    /\ Goto(u, "commit")
    /\ subject' = [subject EXCEPT ![u] = a]
    /\ UNCHANGED <<db, progress, redis, row, loaded, polling, faults>>

Commit(u) ==
    LET a == subject[u] IN
    /\ At(u, "commit")
    /\ db' = [db EXCEPT ![a].version = @ + 1]
    /\ outbox' = [i \in DOMAIN outbox |->
                    IF outbox[i].account = a THEN [outbox[i] EXCEPT !.committed = TRUE]
                    ELSE outbox[i]]
    /\ Free(u) /\ Goto(u, "idle")
    /\ UNCHANGED <<progress, redis, loaded, polling, faults>>

\* BatchUpdateLastUsed
Used(a) ==
    /\ Len(SelectSeq(outbox, LAMBDA e : e.kind = "used")) < MaxUsed
    /\ Insert(a, "used", 0, TRUE)
    /\ UNCHANGED <<db, progress, redis, pc, local, polling, faults>>

-----------------------------------------------------------------------------
(* pollOutbox *)

Listed == {i \in DOMAIN outbox : i > watermark /\ outbox[i].committed}

\* mutant: the watermark is set to MaxID
MaxId == Len(outbox)

LastId == Max(Listed)

ListAfter(p) ==
    /\ At(p, "idle")
    /\ Listed # {}
    /\ batch' = [batch EXCEPT ![p] = Listed]
    /\ last' = [last EXCEPT ![p] = LastId]
    /\ rebuilt' = [rebuilt EXCEPT ![p] = FALSE]
    /\ missed' = missed \cup {i \in 1..Max(Listed) : ~outbox[i].committed}
    /\ Goto(p, "next")
    /\ UNCHANGED <<db, outbox, watermark, handled, redis, local, faults>>

EndBatch(p) ==
    /\ batch' = [batch EXCEPT ![p] = {}]
    /\ last' = [last EXCEPT ![p] = 0]
    /\ rebuilt' = [rebuilt EXCEPT ![p] = FALSE]

\* the first read of a handler: the account in the database, or for
\* UpdateLastUsed in the cache
Handle(p) ==
    LET i == Min(batch[p])
        e == outbox[i]
        value == IF e.kind = "changed" THEN db[e.account] ELSE cached[e.account]
    IN
    /\ At(p, "next") /\ batch[p] # {}
    /\ batch' = [batch EXCEPT ![p] = @ \ {i}]
    /\ subject' = [subject EXCEPT ![p] = e.account]
    /\ row' = [row EXCEPT ![p] = value]
    /\ Goto(p, IF e.kind = "changed" THEN "set" ELSE "stamp")
    /\ UNCHANGED <<db, outbox, progress, redis, loaded, last, rebuilt, faults>>

\* SetOutboxWatermark, to the last of the batch
SetWatermark(p) ==
    /\ At(p, "next") /\ batch[p] = {}
    /\ \/ watermark' = last[p] /\ UNCHANGED faults
       \/ Fault /\ UNCHANGED watermark
    /\ EndBatch(p) /\ Free(p) /\ Goto(p, "idle")
    /\ UNCHANGED <<db, outbox, handled, missed, redis, loaded>>

\* UpdateLastUsed writes back the account it read
Stamp(p) ==
    /\ At(p, "stamp")
    /\ cached' = IF row[p] = None THEN cached ELSE [cached EXCEPT ![subject[p]] = row[p]]
    /\ Free(p) /\ Goto(p, "next")
    /\ UNCHANGED <<db, outbox, progress, active, versions, lock, loaded, polling, faults>>

\* handleAccountEvent: SetAccount or DeleteAccount, then the rebuild unless the
\* bucket was seen in this batch
SetAccount(p) ==
    LET a == subject[p] IN
    /\ At(p, "set")
    /\ cached' = [cached EXCEPT ![a] = Cacheable(row[p])]
    /\ handled' = [handled EXCEPT ![a] = Max({@, row[p].version})]
    /\ rebuilt' = [rebuilt EXCEPT ![p] = TRUE]
    /\ Free(p) /\ Goto(p, IF rebuilt[p] THEN "next" ELSE "lock")
    /\ UNCHANGED <<db, outbox, watermark, missed, active, versions, lock, loaded, batch, last, faults>>

-----------------------------------------------------------------------------
(* rebuildBucket, and the fallback of ListSchedulableAccounts *)

\* mutant: a step that does not exist
AfterMisspelt(w) == IF w \in Pollers THEN "nxt" ELSE "idle"

\* the step after a rebuild
After(w) == IF w \in Pollers THEN "next" ELSE "idle"

\* TryLockBucket, then loadAccountsFromDB.  A rebuild that finds the bucket
\* locked counts as done.  The ticker of runFullRebuildWorker starts one.
LockAndLoad(w) ==
    /\ IF w \in Pollers THEN At(w, "lock") ELSE w \in Rebuilders /\ At(w, "idle")
    /\ \/ /\ ~lock /\ lock' = TRUE
          /\ loaded' = [loaded EXCEPT ![w] = db]
          /\ Goto(w, "version")
       \/ /\ lock
          /\ Goto(w, After(w))
          /\ UNCHANGED <<lock, loaded>>
    /\ UNCHANGED <<db, outbox, progress, cached, active, versions, subject, row, polling, faults>>

\* GetSnapshot finds no list, or not all its accounts
Miss ==
    \/ List = {}
    \/ \E a \in List : cached[a] = None

Fallback(q) ==
    /\ At(q, "idle")
    /\ \/ Miss /\ UNCHANGED faults
       \/ Fault
    /\ Goto(q, "load")
    /\ UNCHANGED <<db, outbox, progress, redis, local, polling>>

Load(q) ==
    /\ At(q, "load")
    /\ loaded' = [loaded EXCEPT ![q] = db]
    /\ Goto(q, "version")
    /\ UNCHANGED <<db, outbox, progress, redis, subject, row, polling, faults>>

\* mutant: the list is activated and its accounts are not written
AfterVersionActivate == "activate"

AfterVersion == "accounts"

\* SetSnapshot: INCR, writeAccounts, activateSnapshotScript
Version(w) ==
    /\ At(w, "version")
    /\ versions' = Append(versions, w)
    /\ Goto(w, AfterVersion)
    /\ UNCHANGED <<db, outbox, progress, cached, active, lock, local, polling, faults>>

WriteAccounts(w) ==
    /\ At(w, "accounts")
    /\ cached' = [a \in Accounts |-> IF a \in Schedulable(loaded[w]) THEN loaded[w][a] ELSE cached[a]]
    /\ Goto(w, "activate")
    /\ UNCHANGED <<db, outbox, progress, active, versions, lock, local, polling, faults>>

\* the writer's version is below the active one when another overtook it
Overtaken(w) == w \notin Range(versions)

Place(w) == CHOOSE i \in DOMAIN versions : versions[i] = w

Above(w) == SubSeq(versions, Place(w) + 1, Len(versions))

\* UnlockBucket, whoever holds the lock; a request has none
Release(w) == lock' = (lock /\ w \in Requests)

Activate(w) ==
    /\ At(w, "activate")
    /\ \/ ~Overtaken(w) /\ active' = loaded[w] /\ versions' = Above(w)
       \/ Overtaken(w) /\ UNCHANGED <<active, versions>>
    /\ loaded' = [loaded EXCEPT ![w] = None]
    /\ \/ Release(w) /\ UNCHANGED faults
       \/ w \notin Requests /\ Fault /\ UNCHANGED lock
    /\ Goto(w, After(w))
    /\ UNCHANGED <<db, outbox, progress, cached, subject, row, polling>>

\* mutant: the lock has no time to live
NeverExpires == FALSE

Expires == lock

LockExpires ==
    /\ Expires
    /\ lock' = FALSE
    /\ UNCHANGED <<db, outbox, progress, cached, active, versions, pc, local, polling, faults>>

GiveUp(w) ==
    /\ loaded' = [loaded EXCEPT ![w] = None]
    /\ versions' = IF Overtaken(w) THEN versions ELSE RemoveAt(versions, Place(w))
    /\ IF w \in Pollers THEN EndBatch(w) /\ Free(w) ELSE UNCHANGED <<polling, subject, row>>

Rebuilding(w) == pc[w] \in {"version", "accounts", "activate"}

\* A call of a writer fails: pollOutbox returns and will list the batch again
Fail(w) ==
    /\ ~At(w, "idle")
    /\ Fault
    /\ GiveUp(w) /\ Goto(w, "idle")
    /\ IF Rebuilding(w) THEN Release(w) ELSE UNCHANGED lock
    /\ UNCHANGED <<db, outbox, progress, cached, active>>

\* The process of a writer stops: the lock stays
Crash(w) ==
    /\ ~At(w, "idle")
    /\ Fault
    /\ GiveUp(w) /\ Goto(w, "idle")
    /\ UNCHANGED <<db, outbox, progress, cached, active, lock>>

-----------------------------------------------------------------------------

Update(u) ==
    \/ Enqueue(u) \/ SyncRead(u) \/ Sync(u) \/ Commit(u)

Rebuild(w) ==
    \/ LockAndLoad(w) \/ Version(w) \/ WriteAccounts(w) \/ Activate(w)

Poll(p) == ListAfter(p) \/ Handle(p) \/ SetWatermark(p) \/ Stamp(p) \/ SetAccount(p)

Next ==
    \/ \E u \in Updaters : Update(u)
    \/ \E u \in Updaters, a \in Accounts : InsertInTx(u, a)
    \/ \E u \in Updaters, a \in Accounts, s \in Statuses : Change(u, a, s)
    \/ \E a \in Accounts : Used(a)
    \/ \E p \in Pollers : Poll(p)
    \/ \E q \in Requests : Fallback(q) \/ Load(q)
    \/ \E w \in Writers : Rebuild(w) \/ Fail(w) \/ Crash(w)
    \/ LockExpires

Spec == Init /\ [][Next]_vars

\* Tickers run every worker again, contexts and sockets have timeouts, and the
\* lock has a time to live.
Fairness ==
    /\ \A u \in Updaters : WF_vars(Update(u))
    /\ \A p \in Pollers : WF_vars(Poll(p) \/ Rebuild(p))
    /\ \A r \in Rebuilders : WF_vars(Rebuild(r))
    /\ \A q \in Requests : WF_vars(Load(q) \/ Rebuild(q))
    /\ WF_vars(LockExpires)

FairSpec == Spec /\ Fairness

-----------------------------------------------------------------------------

\* Whatever the order of the writers, an account a request finds in the active
\* list is cached, unless it has been deleted: SetSnapshot stores the accounts
\* before it activates the list, and no one takes a live account out again.
ListedIsCached ==
    \A a \in List : cached[a] = None => db[a].status = "deleted"

\* The watermark passes an event only when a poller stored the account as it was
\* at the event or later, although handlers fail, pollers stop in the middle of a
\* batch and another process's poller sets the watermark back: all but the
\* events that committed after a higher one had been listed.
HandledBeforeWatermark ==
    \A i \in DOMAIN outbox :
        i <= watermark /\ outbox[i].kind = "changed" /\ i \notin missed
            => handled[outbox[i].account] >= outbox[i].version

\* What ListedIsCached and HandledBeforeWatermark rest on: who works on an account
\* knows it, a writer has its snapshot, ...
Loaded == {"version", "accounts", "activate"}

WorkInv ==
    /\ \A u \in Updaters :
         pc[u] \in {"enqueue", "sync", "store", "drop", "commit"} => subject[u] \in Accounts
    /\ \A p \in Pollers : pc[p] \in {"set", "stamp"} => subject[p] \in Accounts
    /\ \A p \in Pollers : pc[p] = "set" => row[p] \in Rows
    /\ \A w \in Writers : pc[w] \in Loaded => loaded[w] \in [Accounts -> Rows]

\* ... what is about to be written or activated takes no live account out of the
\* cache, ...
Deleted(a) == db[a].status = "deleted"

CachedInv ==
    /\ ListedIsCached
    /\ \A w \in Writers : At(w, "activate") =>
         \A a \in Schedulable(loaded[w]) : cached[a] = None => Deleted(a)
    /\ \A p \in Pollers :
         At(p, "set") /\ row[p].status = "deleted" => Deleted(subject[p])
    /\ \A u \in Updaters :
         /\ At(u, "store") => row[u] # None
         /\ At(u, "drop") => Deleted(subject[u])

\* ... and a poller stores the account of every event of its batch as it was then
\* or later before it sets the watermark.
Due(i) == outbox[i].kind = "changed" /\ i \notin missed
Stored(i) == handled[outbox[i].account] >= outbox[i].version
Storing(p, i) ==
    At(p, "set") /\ subject[p] = outbox[i].account /\ row[p].version >= outbox[i].version

HandledInv ==
    /\ HandledBeforeWatermark
    /\ watermark <= Len(outbox)
    /\ \A i \in DOMAIN outbox : outbox[i].kind = "changed" =>
         outbox[i].version <= db[outbox[i].account].version + (IF outbox[i].committed THEN 0 ELSE 1)
    /\ \A p \in Pollers :
         /\ last[p] <= Len(outbox)
         /\ \A i \in batch[p] : i \in DOMAIN outbox /\ outbox[i].committed
         /\ \A i \in DOMAIN outbox :
              i <= last[p] /\ Due(i) => i \in batch[p] \/ Stored(i) \/ Storing(p, i)

\* A version above the active one is that of a writer between INCR and the
\* activation, and a writer has one of them.
OnePlace ==
    /\ \A i \in DOMAIN versions : pc[versions[i]] \in {"accounts", "activate"}
    /\ \A i, j \in DOMAIN versions : versions[i] = versions[j] => i = j

\* When the accounts stop changing the list becomes the schedulable accounts as
\* they are, and stays so: the periodic rebuild makes up for events that were not
\* inserted, were missed, or were handled while the bucket was locked, and for
\* older snapshots that got a newer version.
SnapshotConverges ==
    <>[](/\ List = Schedulable(db)
         /\ \A a \in Schedulable(db) : cached[a] = db[a])

\* account_scheduler_cache.go:17-22: the cached account makes sure that sticky
\* sessions soon see the latest state and avoid unavailable accounts.
AccountConverges ==
    <>[](\A a \in Accounts : cached[a] \in {None, db[a]})
=============================================================================
