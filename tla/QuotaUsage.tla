----------------------------- MODULE QuotaUsage -----------------------------
(***************************************************************************)
(* How much of the quota of one user on one platform is used: the entry in *)
(* Redis that admits requests, and the row in the database, written by     *)
(* each request or by the flusher:                                         *)
(* backend/internal/service/billing_cache_service.go,                      *)
(* gateway_billing_platform_quota.go, user_platform_quota_flusher.go and   *)
(* repository/billing_cache.go, user_platform_quota_repo.go.               *)
(*                                                                         *)
(* Usage counts within a window (here a day, numbered); a request costs    *)
(* one; the row exists and has a limit.  A row is created without windows. *)
(* Of the week and the month it is kept whether they have begun.           *)
(***************************************************************************)
EXTENDS Integers, FiniteSets

CONSTANTS
    Requests,
    None,
    Limit,      \* DailyLimitUSD
    MayFail,    \* calls fail and processes stop
    MaxServed,  \* bound: requests that are answered
    MaxDays,    \* bound: the last window
    MaxResets   \* bound: resets by an administrator

ASSUME RequestAssumption == IsFiniteSet(Requests)
ASSUME BoundAssumption ==
    /\ {Limit, MaxServed, MaxDays, MaxResets} \subseteq Nat
    /\ MaxDays > 0
    /\ MayFail \in BOOLEAN

Days == 1..MaxDays
NoWindow == 0   \* a window start that is NULL
Usages == [usage: Nat, window: Days \cup {NoWindow}, others: BOOLEAN]

ASSUME NoneAssumption == None \notin Requests \cup Usages

VARIABLES
    flusher,    \* UserPlatformQuotaFlusherEnabled
    now,        \* the current window
    entry,      \* in Redis
    dirty,      \* the key is in the dirty set
    row,        \* in the database
    pc,
    read,       \* what the request read, or will write to Redis
    stamp,      \* the window in which IncrementUsageWithReset was called
    counted,    \* the windows in which the request was counted
    flush,      \* where the flusher is
    snapshot,   \* the entry it read
    resetting,  \* resets that have not deleted the entry yet
    spent,      \* what was counted in a window
    grown,      \* the entry was increased since it was set
    lost,       \* a failure took the key from the flusher since
    served, resets

redis == <<entry, dirty>>
request == <<pc, read, stamp, counted>>
flushing == <<flush, snapshot>>
ghost == <<spent, grown, lost>>
bounds == <<served, resets>>
vars == <<flusher, now, redis, row, request, flushing, resetting, ghost, bounds>>

Steps == {"idle", "load", "set", "serve", "incr", "stamp", "persist"}

TypeOK ==
    /\ flusher \in BOOLEAN
    /\ now \in Days
    /\ entry \in Usages \cup {None}
    /\ dirty \in BOOLEAN
    /\ row \in Usages
    /\ pc \in [Requests -> Steps]
    /\ read \in [Requests -> Usages \cup {None}]
    /\ stamp \in [Requests -> Days \cup {None}]
    /\ counted \in [Requests -> SUBSET Days]
    /\ flush \in {"idle", "read", "write", "readd"}
    /\ snapshot \in Usages \cup {None}
    /\ resetting \in Nat
    /\ spent \in [Days -> Nat]
    /\ grown \in BOOLEAN /\ lost \in BOOLEAN
    /\ served \in Nat /\ resets \in Nat

\* BulkInsertInitial, insertLimitsRow
NewRow == [usage |-> 0, window |-> NoWindow, others |-> FALSE]

Init ==
    /\ flusher \in BOOLEAN
    /\ now = 1
    /\ entry = None /\ dirty = FALSE
    /\ row \in {NewRow, [usage |-> 0, window |-> 1, others |-> TRUE]}
    /\ pc = [q \in Requests |-> "idle"]
    /\ read = [q \in Requests |-> None]
    /\ stamp = [q \in Requests |-> None]
    /\ counted = [q \in Requests |-> {}]
    /\ flush = "idle" /\ snapshot = None
    /\ resetting = 0
    /\ spent = [d \in Days |-> 0]
    /\ grown = FALSE /\ lost = FALSE
    /\ served = 0 /\ resets = 0

At(q, step) == pc[q] = step
Goto(q, step) == pc' = [pc EXCEPT ![q] = step]

\* quotaWindowExpired
Expired(u) == u.window = NoWindow \/ u.window < now
Used(u) == IF Expired(u) THEN 0 ELSE u.usage
Admit(q, u) == Goto(q, IF Used(u) < Limit THEN "serve" ELSE "idle")

-----------------------------------------------------------------------------
(* checkUserPlatformQuotaEligibility *)

Refreshed(u) == [usage |-> Used(u), window |-> now, others |-> TRUE]

\* a hit; if this window has ended, or the week or the month, the entry is written anew
Hit(q) ==
    /\ At(q, "idle") /\ entry # None
    /\ \/ ~Expired(entry) /\ entry.others /\ Admit(q, entry) /\ UNCHANGED read
       \/ /\ read' = [read EXCEPT ![q] = Refreshed(entry)]
          /\ Goto(q, "set")
    /\ UNCHANGED <<flusher, now, redis, row, stamp, counted, flushing, resetting, ghost, bounds>>

\* a miss; or Redis fails, and the row admits the request or not, if it is read
Miss(q) ==
    /\ At(q, "idle")
    /\ \/ entry = None /\ Goto(q, "load")
       \/ MayFail /\ Admit(q, row)
       \/ MayFail /\ Goto(q, "serve")
    /\ UNCHANGED <<flusher, now, redis, row, read, stamp, counted, flushing, resetting, ghost, bounds>>

\* GetByUserPlatform; its usage counts if its window does, its window is kept
Load(q) ==
    /\ At(q, "load")
    /\ \/ /\ read' = [read EXCEPT ![q] = [row EXCEPT !.usage = Used(row)]]
          /\ Goto(q, "set")
       \/ MayFail /\ Goto(q, "serve") /\ UNCHANGED read   \* fail-open
    /\ UNCHANGED <<flusher, now, redis, row, stamp, counted, flushing, resetting, ghost, bounds>>

\* SetUserPlatformQuotaCache, and the decision
Set(q) ==
    /\ At(q, "set")
    /\ \/ entry' = read[q] /\ grown' = FALSE
       \/ MayFail /\ UNCHANGED <<entry, grown>>
    /\ Goto(q, IF read[q].usage < Limit THEN "serve" ELSE "idle")
    /\ read' = [read EXCEPT ![q] = None]
    /\ UNCHANGED <<flusher, now, dirty, row, stamp, counted, flushing, resetting,
                   spent, lost, bounds>>

-----------------------------------------------------------------------------
(* persistUserPlatformQuotaUsage *)

\* mutant: the database is written first
FollowingDatabaseFirst == [serve |-> "stamp", incr |-> "idle", persist |-> "incr"]

\* mutant: a step nothing follows
FollowingMisspelt == [serve |-> "incr", incr |-> "stamps", persist |-> "idle"]

Following == [serve |-> "incr", incr |-> "stamp", persist |-> "idle"]

Advance(q, step) ==
    /\ Goto(q, step)
    /\ counted' = [counted EXCEPT ![q] = IF step = "idle" THEN {} ELSE @]

\* the request counts in the current window, and goes on
Count(q, step) ==
    /\ Goto(q, step)
    /\ counted' = [counted EXCEPT ![q] = IF step = "idle" THEN {} ELSE @ \cup {now}]
    /\ spent' = IF now \in counted[q] THEN spent ELSE [spent EXCEPT ![now] = @ + 1]

\* the upstream has answered; or it has not, and nothing is due
Serve(q) ==
    /\ At(q, "serve")
    /\ \/ /\ served < MaxServed
          /\ served' = served + 1
          /\ Goto(q, Following.serve)
       \/ Goto(q, "idle") /\ UNCHANGED served
    /\ UNCHANGED <<flusher, now, redis, row, read, stamp, counted, flushing, resetting, ghost, resets>>

\* IncrUserPlatformQuotaUsageCache: one script, which increases what is there
IncrUsageCache(q) ==
    /\ At(q, "incr")
    /\ \/ /\ entry # None
          /\ entry' = [entry EXCEPT !.usage = @ + 1]
          /\ dirty' = (dirty \/ flusher)
          /\ grown' = TRUE
          /\ lost' = FALSE
       \/ (entry = None \/ MayFail) /\ UNCHANGED <<entry, dirty, grown, lost>>
    /\ Count(q, IF flusher THEN "idle" ELSE Following.incr)
    /\ UNCHANGED <<flusher, now, row, read, stamp, flushing, resetting, bounds>>

\* the call of IncrementUsageWithReset, with the time of the call
Stamp(q) ==
    /\ At(q, "stamp")
    /\ stamp' = [stamp EXCEPT ![q] = now]
    /\ Count(q, "persist")
    /\ UNCHANGED <<flusher, now, redis, row, read, flushing, resetting, grown, lost, bounds>>

\* its transaction; maybeReset
IncrementUsageWithReset(q) ==
    /\ At(q, "persist")
    /\ \/ row' = [usage |-> IF row.window = stamp[q] THEN row.usage + 1 ELSE 1,
                  window |-> stamp[q], others |-> TRUE]
       \/ MayFail /\ UNCHANGED row
    /\ Advance(q, Following.persist)
    /\ stamp' = [stamp EXCEPT ![q] = None]
    /\ UNCHANGED <<flusher, now, redis, read, flushing, resetting, ghost, bounds>>

-----------------------------------------------------------------------------
(* UserPlatformQuotaUsageFlusher: flushOneBatch *)

\* mutant: the key leaves the dirty set once its usage is stored
DirtyAfterWrite(step) == dirty /\ step # "write"

\* the key leaves the dirty set before its usage is read
DirtyAfter(step) == dirty /\ step # "pop"

PopDirty ==
    /\ flusher /\ dirty
    /\ flush = "idle"
    /\ flush' = "read"
    /\ dirty' = DirtyAfter("pop")
    /\ UNCHANGED <<flusher, now, entry, row, request, snapshot, resetting, ghost, bounds>>

Whole(u) == u.window # NoWindow /\ u.others

\* an entry that has expired or lacks a window is skipped, its key dirty no more
Flushable == entry # None /\ Whole(entry)

BatchGet ==
    /\ flush = "read"
    /\ \/ /\ Flushable
          /\ snapshot' = entry /\ flush' = "write"
       \/ /\ ~Flushable
          /\ flush' = "idle" /\ UNCHANGED snapshot
       \/ MayFail /\ flush' = "readd" /\ UNCHANGED snapshot
    /\ UNCHANGED <<flusher, now, redis, row, request, resetting, ghost, bounds>>

\* absolute values, whatever the row holds
BatchSnapshotUsage ==
    /\ flush = "write"
    /\ \/ /\ row' = snapshot
          /\ dirty' = DirtyAfter("write")
          /\ flush' = "idle"
       \/ MayFail /\ flush' = "readd" /\ UNCHANGED <<row, dirty>>
    /\ snapshot' = None
    /\ UNCHANGED <<flusher, now, entry, request, resetting, ghost, bounds>>

ReaddOrCountLost ==
    /\ flush = "readd"
    /\ \/ dirty' = TRUE /\ UNCHANGED lost
       \/ lost' = TRUE /\ UNCHANGED dirty
    /\ flush' = "idle"
    /\ UNCHANGED <<flusher, now, entry, row, request, snapshot, resetting, spent, grown, bounds>>

-----------------------------------------------------------------------------
(* The rest of the world *)

\* ResetUserPlatformQuotaWindow: the row, then the entry; the others by more calls
Reset ==
    /\ resets < MaxResets
    /\ resets' = resets + 1
    /\ \/ row' = [row EXCEPT !.usage = 0, !.window = now] /\ lost' = TRUE
       \/ row' = [row EXCEPT !.others = TRUE] /\ UNCHANGED lost
    /\ resetting' = resetting + 1
    /\ UNCHANGED <<flusher, now, redis, request, flushing, spent, grown, served>>

DeleteCache ==
    /\ resetting > 0
    /\ resetting' = resetting - 1
    /\ \/ entry' = None /\ grown' = FALSE
       \/ MayFail /\ UNCHANGED <<entry, grown>>
    /\ UNCHANGED <<flusher, now, dirty, row, request, flushing, spent, lost, bounds>>

EntryExpires ==
    /\ entry # None
    /\ entry' = None /\ grown' = FALSE
    /\ UNCHANGED <<flusher, now, dirty, row, request, flushing, resetting, spent, lost, bounds>>

\* a process stops: the one of a request, the one of the flusher
Crash(q) ==
    /\ MayFail
    /\ Advance(q, "idle")
    /\ read' = [read EXCEPT ![q] = None]
    /\ stamp' = [stamp EXCEPT ![q] = None]
    /\ UNCHANGED <<flusher, now, redis, row, flushing, resetting, ghost, bounds>>

FlusherCrash ==
    /\ MayFail
    /\ flush # "idle"
    /\ flush' = "idle" /\ snapshot' = None
    /\ lost' = TRUE
    /\ UNCHANGED <<flusher, now, redis, row, request, resetting, spent, grown, bounds>>

Midnight ==
    /\ now < MaxDays
    /\ now' = now + 1
    /\ UNCHANGED <<flusher, redis, row, request, flushing, resetting, ghost, bounds>>

Step(q) ==
    \/ Hit(q) \/ Miss(q) \/ Load(q) \/ Set(q) \/ Serve(q)
    \/ IncrUsageCache(q) \/ Stamp(q) \/ IncrementUsageWithReset(q) \/ Crash(q)

Next ==
    \/ \E q \in Requests : Step(q)
    \/ PopDirty \/ BatchGet \/ BatchSnapshotUsage \/ ReaddOrCountLost \/ FlusherCrash
    \/ Reset \/ DeleteCache \/ EntryExpires \/ Midnight

Spec == Init /\ [][Next]_vars

-----------------------------------------------------------------------------

\* Neither the entry nor the row of the current window shows more than was used
\* in it: a user is not refused for usage of yesterday, or for a request that
\* counted in the row before the entry was loaded from it and then once more.
NeverOvercounted ==
    \A u \in {entry, row} : u # None /\ u.window = now => u.usage <= spent[now]

\* NeverOvercounted rests on this: what is held anywhere, to be written to the
\* entry or the row later, is no more than was used, and neither is the row
\* with the requests that will still increase it.
Unpersisted == {"stamp", "persist"}
Within(u) == u # None => u.window <= now /\ (u.window = now => u.usage <= spent[now])
RowUsage == IF row.window = now THEN row.usage ELSE 0
Pending == {q \in Requests : pc[q] \in Unpersisted /\ now \in counted[q]}

HeldInv ==
    /\ Within(entry) /\ Within(row) /\ Within(snapshot)
    /\ \A q \in Requests : Within(read[q])
    /\ flush = "write" => snapshot # None
    /\ flush # "idle" => flusher

RequestInv ==
    \A q \in Requests :
        /\ counted[q] \subseteq 1..now
        /\ pc[q] \notin Unpersisted => counted[q] = {}
        /\ pc[q] = "persist" => stamp[q] \in counted[q]
        /\ flusher => pc[q] \notin Unpersisted

RoomInv == RowUsage + Cardinality(Pending) <= spent[now]

CountInv == HeldInv /\ RequestInv /\ RoomInv

Mirrored == dirty \/ flush # "idle" \/ lost \/ row = entry

\* user_platform_quota_flusher.go:113: with the flusher, usage added to the entry
\* is on its way to the row, or there, unless a failure took the key out of the
\* dirty set, and then the next request brings it back.  Not so for an entry
\* that lacks a window, whose key flushOneBatch drops (153-155).
MirroredUnlessLost == flusher /\ grown => Mirrored

\* What the code keeps of it: once a check has given the entry all its windows, no
\* usage leaves the flusher's sight but by a failure.
MirroredWithWindow == flusher /\ grown => Mirrored \/ ~Whole(entry)

\* MirroredWithWindow rests on this: a snapshot that is about to be written is the
\* entry, or the key is dirty again.
MirrorInv ==
    /\ MirroredWithWindow
    /\ grown => entry # None
    /\ flusher /\ grown /\ flush = "write" => dirty \/ lost \/ snapshot = entry
    /\ flusher => \A q \in Requests : pc[q] \notin Unpersisted

\* billing_cache_service.go:678, the usage that exceeds the limit is at most that
\* of the requests in flight: each was admitted below the limit.
OverspendBounded == spent[now] <= Limit - 1 + Cardinality(Requests)
=============================================================================
