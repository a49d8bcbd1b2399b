---------------------------- MODULE OAuthRefresh ----------------------------
(***************************************************************************)
(* The tokens of one OAuth account of OpenAI, refreshed by the background  *)
(* loop and by requests: backend/internal/service/oauth_refresh_api.go,    *)
(* token_refresh_service.go, openai_token_provider.go and                  *)
(* token_cache_invalidator.go.                                             *)
(*                                                                         *)
(* Credentials are numbered in the order the provider issued them.  The    *)
(* provider accepts the newest refresh token only, and accepts it once: a  *)
(* number that is issued and not stored can never be had again.            *)
(***************************************************************************)
EXTENDS Naturals

CONSTANTS
    Refreshers,   \* refreshLoop of TokenRefreshService, one per process
    Requests,     \* OpenAITokenProvider.GetAccessToken
    Processes,
    None,
    Unreliable,   \* steps whose call may fail
    Refusals,     \* how the provider answers to a token that was spent
    LockMayFail,  \* the lock in Redis may fail or end early with several processes
    MaxIssued,    \* bound: refreshes
    MaxFaults     \* bound: calls that fail and processes that stop

Workers == Refreshers \cup Requests

ASSUME WorkerAssumption ==
    /\ Refreshers \cap Requests = {}
    /\ None \notin Workers \cup Nat
ASSUME RefusalAssumption ==
    Refusals \subseteq {"invalid_grant", "refresh_token_reused"}
ASSUME BoundAssumption ==
    /\ MaxIssued \in Nat /\ MaxFaults \in Nat
    /\ LockMayFail \in BOOLEAN

VARIABLES
    host,       \* the process of a worker
    stored,     \* the credentials in the account's row
    status,     \* accounts.status
    issued,     \* the provider's newest
    due,        \* up to which credentials are in the refresh window
    cache,      \* the access token in Redis
    slock,      \* oauth:refresh_lock exists
    local,      \* localLocks
    pc,
    account,    \* the account the caller passed
    fresh,      \* freshAccount
    shared,     \* the workers whose freshAccount is the caller's account
    owner,      \* the deferred call will delete the lock
    result,     \* of RefreshIfNeeded
    faults

row == <<stored, status>>
world == <<issued, due, cache>>
locks == <<slock, local, owner>>
vars == <<host, row, world, locks, pc, account, fresh, shared, result, faults>>

Steps == {"idle", "get", "local", "lock", "reread", "refresh", "recover", "persist",
          "unlock", "error", "invalidate", "wait", "version", "cache"}
Results == {"none", "refreshed", "current", "held", "failed", "refused"}

TypeOK ==
    /\ host \in [Workers -> Processes]
    /\ stored \in Nat
    /\ status \in {"active", "error"}
    /\ issued \in Nat
    /\ due \in Nat
    /\ cache \in Nat \cup {None}
    /\ slock \in BOOLEAN
    /\ local \in [Processes -> Workers \cup {None}]
    /\ pc \in [Workers -> Steps]
    /\ account \in [Workers -> Nat]
    /\ fresh \in [Workers -> Nat]
    /\ shared \subseteq Workers
    /\ owner \in [Workers -> BOOLEAN]
    /\ result \in [Workers -> Results]
    /\ faults \in Nat

Init ==
    /\ host \in [Workers -> Processes]
    /\ stored = 1 /\ status = "active"
    /\ issued = 1 /\ due = 0
    /\ cache = None
    /\ slock = FALSE
    /\ local = [p \in Processes |-> None]
    /\ pc = [w \in Workers |-> "idle"]
    /\ account = [w \in Workers |-> 0]
    /\ fresh = [w \in Workers |-> 0]
    /\ shared = {}
    /\ owner = [w \in Workers |-> FALSE]
    /\ result = [w \in Workers |-> "none"]
    /\ faults = 0

At(w, step) == pc[w] = step
Goto(w, step) == pc' = [pc EXCEPT ![w] = step]
Fault == faults < MaxFaults /\ faults' = faults + 1
Fails(w) == pc[w] \in Unreliable /\ Fault

\* NeedsRefresh
Needs(credentials) == credentials <= due

\* One process has its own mutex; more of them depend on the lock in Redis.
SharedLockFails == LockMayFail \/ \A v, w \in Workers : host[v] = host[w]

\* nobody will store the refresh token the provider would accept
Lost == stored # issued /\ \A w \in Workers : ~At(w, "persist")

Finish(w) ==
    /\ Goto(w, "idle")
    /\ account' = [account EXCEPT ![w] = 0]
    /\ fresh' = [fresh EXCEPT ![w] = 0]
    /\ result' = [result EXCEPT ![w] = "none"]

-----------------------------------------------------------------------------
(* RefreshIfNeeded *)

LockLocal(w) ==
    /\ At(w, "local")
    /\ local[host[w]] = None
    /\ local' = [local EXCEPT ![host[w]] = w]
    /\ Goto(w, "lock")
    /\ UNCHANGED <<host, shared, row, world, slock, owner, account, fresh, result, faults>>

Conclude(w, res) ==
    /\ result' = [result EXCEPT ![w] = res]
    /\ Goto(w, "unlock")

\* AcquireRefreshLock; an error is logged and the refresh goes on without it
AcquireRefreshLock(w) ==
    /\ At(w, "lock")
    /\ \/ /\ ~slock /\ slock' = TRUE
          /\ owner' = [owner EXCEPT ![w] = TRUE]
          /\ Goto(w, "reread")
          /\ UNCHANGED <<result, faults>>
       \/ /\ slock
          /\ Conclude(w, "held")
          /\ UNCHANGED <<slock, owner, faults>>
       \/ /\ SharedLockFails /\ Fails(w)
          /\ Goto(w, "reread")
          /\ UNCHANGED <<slock, owner, result>>
    /\ UNCHANGED <<host, shared, row, world, local, account, fresh>>

\* GetByID, or the account of the caller when that fails; then NeedsRefresh
GetByID(w) ==
    /\ At(w, "reread")
    /\ \/ fresh' = [fresh EXCEPT ![w] = stored] /\ UNCHANGED <<shared, faults>>
       \/ /\ fresh' = [fresh EXCEPT ![w] = account[w]]
          /\ shared' = shared \cup {w}
          /\ Fails(w)
    /\ IF Needs(fresh'[w]) THEN Goto(w, "refresh") /\ UNCHANGED result
                           ELSE Conclude(w, "current")
    /\ UNCHANGED <<host, row, world, locks, account>>

\* executor.Refresh; a call that fails may have spent the token.  Only an
\* invalid_grant counts as a race.
Refresh(w) ==
    /\ At(w, "refresh")
    /\ \/ /\ fresh[w] = issued
          /\ issued' = issued + 1
          /\ fresh' = [fresh EXCEPT ![w] = issued + 1]
          /\ Goto(w, "persist")
          /\ UNCHANGED <<result, faults>>
       \/ /\ fresh[w] # issued
          /\ \/ "invalid_grant" \in Refusals /\ Goto(w, "recover") /\ UNCHANGED result
             \/ "refresh_token_reused" \in Refusals /\ Conclude(w, "refused")
          /\ UNCHANGED <<issued, fresh, faults>>
       \/ /\ Fails(w)
          /\ issued' = issued \/ (fresh[w] = issued /\ issued' = issued + 1)
          /\ Conclude(w, "failed")
          /\ UNCHANGED fresh
    /\ UNCHANGED <<host, shared, row, due, cache, locks, account>>

\* mutant: an invalid_grant is never another worker's success
NewerNever(w) == FALSE

Newer(w) == stored # fresh[w]

\* tryRecoverFromRefreshRace
TryRecover(w) ==
    /\ At(w, "recover")
    /\ \/ /\ Newer(w)
          /\ fresh' = [fresh EXCEPT ![w] = stored]
          /\ Conclude(w, "current")
          /\ UNCHANGED faults
       \/ ~Newer(w) /\ Conclude(w, "refused") /\ UNCHANGED <<fresh, faults>>
       \/ Fails(w) /\ Conclude(w, "refused") /\ UNCHANGED fresh
    /\ UNCHANGED <<host, shared, row, world, locks, account>>

\* persistAccountCredentials: the row is overwritten, whatever it holds; before that
\* freshAccount, and with it an account that is the caller's, whether the row is or not
Persist(w) ==
    /\ At(w, "persist")
    /\ \/ stored' = fresh[w] /\ Conclude(w, "refreshed") /\ UNCHANGED faults
       \/ Fails(w) /\ Conclude(w, "failed") /\ UNCHANGED stored
    /\ account' = [account EXCEPT ![w] = IF w \in shared THEN fresh[w] ELSE @]
    /\ UNCHANGED <<host, shared, status, world, locks, fresh>>

\* mutant: a step that does not exist
AfterRefreshMisspelt(w) == {"done"}

\* What refreshWithRetry, and GetAccessToken, do with a result.  A failure is
\* repeated, or the last of its attempts: the account is set aside for a while.
AfterRefresh(w) ==
    CASE result[w] = "held" -> IF w \in Requests THEN {"wait"} ELSE {"idle"}
      [] result[w] = "current" -> IF w \in Requests THEN {"version"} ELSE {"idle"}
      [] result[w] = "refreshed" -> IF w \in Requests THEN {"version"} ELSE {"invalidate"}
      [] result[w] = "failed" -> IF w \in Requests THEN {"version"} ELSE {"local", "idle"}
      [] OTHER -> IF w \in Requests THEN {"version"} ELSE {"error"}

\* the deferred calls: whoever's the lock is by now, it is deleted
Unlock(w) ==
    /\ At(w, "unlock")
    /\ \/ slock' = (slock /\ ~owner[w]) /\ UNCHANGED faults
       \/ owner[w] /\ Fails(w) /\ UNCHANGED slock
    /\ owner' = [owner EXCEPT ![w] = FALSE]
    /\ local' = [local EXCEPT ![host[w]] = None]
    /\ \E step \in AfterRefresh(w) : Goto(w, step)
    /\ account' = [account EXCEPT ![w] =
                     IF result[w] \in {"refreshed", "current"} THEN fresh[w] ELSE @]
    /\ fresh' = [fresh EXCEPT ![w] = 0]
    /\ shared' = shared \ {w}
    /\ result' = [result EXCEPT ![w] = "none"]
    /\ UNCHANGED <<host, row, world>>

-----------------------------------------------------------------------------
(* TokenRefreshService *)

\* processRefresh finds the account active and due
ListActive(r) ==
    /\ At(r, "idle")
    /\ status = "active"
    /\ Needs(stored)
    /\ account' = [account EXCEPT ![r] = stored]
    /\ Goto(r, "local")
    /\ UNCHANGED <<host, shared, row, world, locks, fresh, result, faults>>

\* a refusal is not repeated: the account is disabled
SetError(r) ==
    /\ At(r, "error")
    /\ \/ status' = "error" /\ UNCHANGED faults
       \/ Fails(r) /\ UNCHANGED status
    /\ Finish(r)
    /\ UNCHANGED <<host, shared, stored, world, locks>>

\* postRefreshActions
InvalidateToken(r) ==
    /\ At(r, "invalidate")
    /\ \/ cache' = None /\ UNCHANGED faults
       \/ Fails(r) /\ UNCHANGED cache
    /\ Finish(r)
    /\ UNCHANGED <<host, shared, row, issued, due, locks>>

-----------------------------------------------------------------------------
(* GetAccessToken *)

\* The account comes from the scheduler's cache and may be old.
Begin(q, g) ==
    /\ At(q, "idle")
    /\ g <= stored
    /\ account' = [account EXCEPT ![q] = g]
    /\ Goto(q, "get")
    /\ UNCHANGED <<host, shared, row, world, locks, fresh, result, faults>>

GetAccessToken(q) ==
    /\ At(q, "get")
    /\ \/ cache # None /\ Finish(q) /\ UNCHANGED faults
       \/ /\ (cache = None /\ UNCHANGED faults) \/ Fails(q)
          /\ Goto(q, IF Needs(account[q]) THEN "local" ELSE "version")
          /\ UNCHANGED <<account, fresh, result>>
    /\ UNCHANGED <<host, shared, row, world, locks>>

\* waitForTokenAfterLockRace
Wait(q) ==
    /\ At(q, "wait")
    /\ \/ cache # None /\ Finish(q)
       \/ Goto(q, "version") /\ UNCHANGED <<account, fresh, result>>
    /\ UNCHANGED <<host, shared, row, world, locks, faults>>

\* mutant: an account is never too old to be cached
StaleNever(q) == FALSE

Stale(q) == stored > account[q]

\* The token of a newer account is used and not cached.
CheckTokenVersion(q) ==
    /\ At(q, "version")
    /\ \/ Stale(q) /\ Finish(q) /\ UNCHANGED faults
       \/ /\ (~Stale(q) /\ UNCHANGED faults) \/ Fails(q)
          /\ Goto(q, "cache")
          /\ UNCHANGED <<account, fresh, result>>
    /\ UNCHANGED <<host, shared, row, world, locks>>

SetAccessToken(q) ==
    /\ At(q, "cache")
    /\ \/ cache' = account[q] /\ UNCHANGED faults
       \/ Fails(q) /\ UNCHANGED cache
    /\ Finish(q)
    /\ UNCHANGED <<host, shared, row, issued, due, locks>>

-----------------------------------------------------------------------------
(* The rest of the world *)

\* the stored credentials come into the refresh window
Age ==
    /\ due < stored
    /\ stored < MaxIssued
    /\ due' = stored
    /\ UNCHANGED <<host, shared, row, issued, cache, locks, pc, account, fresh, result, faults>>

\* a cached token lives no longer than the token
CacheExpires ==
    /\ cache # None
    /\ cache' = None
    /\ UNCHANGED <<host, shared, row, issued, due, locks, pc, account, fresh, result, faults>>

\* mutant: the lock has no time to live
LivesForEver == FALSE

HasLifetime == slock

\* the lock of a process that stopped ends, or that of a refresh longer than it
LockExpires ==
    /\ HasLifetime
    /\ SharedLockFails \/ \A w \in Workers : ~owner[w]
    /\ slock' = FALSE
    /\ UNCHANGED <<host, shared, row, world, local, owner, pc, account, fresh, result, faults>>

Crash(p) ==
    LET lives(w) == host[w] # p IN
    /\ Fault
    /\ \E w \in Workers : ~lives(w) /\ ~At(w, "idle")
    /\ local' = [local EXCEPT ![p] = None]
    /\ pc' = [w \in Workers |-> IF lives(w) THEN pc[w] ELSE "idle"]
    /\ account' = [w \in Workers |-> IF lives(w) THEN account[w] ELSE 0]
    /\ fresh' = [w \in Workers |-> IF lives(w) THEN fresh[w] ELSE 0]
    /\ result' = [w \in Workers |-> IF lives(w) THEN result[w] ELSE "none"]
    /\ owner' = [w \in Workers |-> lives(w) /\ owner[w]]
    /\ shared' = {w \in shared : lives(w)}
    /\ UNCHANGED <<host, row, world, slock>>

-----------------------------------------------------------------------------

RefreshIfNeeded(w) ==
    \/ LockLocal(w) \/ AcquireRefreshLock(w) \/ GetByID(w) \/ Refresh(w)
    \/ TryRecover(w) \/ Persist(w) \/ Unlock(w)

Loop(r) == ListActive(r) \/ SetError(r) \/ InvalidateToken(r) \/ RefreshIfNeeded(r)

Serve(q) ==
    \/ GetAccessToken(q) \/ Wait(q) \/ CheckTokenVersion(q) \/ SetAccessToken(q)
    \/ RefreshIfNeeded(q)

Next ==
    \/ \E r \in Refreshers : Loop(r)
    \/ \E q \in Requests : Serve(q)
    \/ \E q \in Requests, g \in 0..MaxIssued : Begin(q, g)
    \/ \E p \in Processes : Crash(p)
    \/ Age \/ CacheExpires \/ LockExpires

Spec == Init /\ [][Next]_vars

\* The loop's ticker fires again, a request that has begun goes on, and what has
\* a time to live ends.
Fairness ==
    /\ \A r \in Refreshers : WF_vars(Loop(r))
    /\ \A q \in Requests : WF_vars(Serve(q))
    /\ WF_vars(CacheExpires)
    /\ WF_vars(LockExpires)

FairSpec == Spec /\ Fairness

-----------------------------------------------------------------------------

\* A race of refreshes does not disable an account: it is disabled only when nobody
\* will store the refresh token the provider would accept, however stale the account
\* a caller passed or a failed read left in use.
DisabledOnlyIfLost == status = "error" => Lost

\* What DisabledOnlyIfLost rests on, when the lock in Redis does not fail: one worker
\* at a time is between the locks, ...
Critical == {"reread", "refresh", "recover", "persist"}

LockInv ==
    /\ \A w \in Workers : pc[w] \in Critical \cup {"lock", "unlock"} => local[host[w]] = w
    /\ \A w \in Workers : SharedLockFails \/
         /\ pc[w] \in Critical => owner[w]
         /\ owner[w] => slock
         /\ \A v \in Workers : owner[v] /\ owner[w] => v = w

\* ... and it refreshes credentials that are stored or older, even if its caller was
\* left with newer ones.
CredentialInv ==
    /\ due <= stored /\ stored <= issued
    /\ \A w \in Workers :
         /\ pc[w] \in {"refresh", "recover"} => fresh[w] <= stored
         /\ At(w, "recover") => fresh[w] # issued
         /\ At(w, "persist") => fresh[w] = issued
         /\ At(w, "unlock") <=> result[w] # "none"
         /\ result[w] = "refused" \/ At(w, "error") => Lost
    /\ DisabledOnlyIfLost

\* Credentials that come into the refresh window are replaced, unless what should
\* replace them is lost: the locks of stopped processes and refreshes that failed
\* stand in nobody's way for ever.
Renewed == Needs(stored) ~> ~Needs(stored) \/ Lost

\* After the last refresh an older token leaves the cache for good, although
\* requests go on with accounts from before it.
CacheCatchesUp == <>[](cache \in {None, stored})

\* oauth_refresh_api.go:130-131, an invalid_grant may mean that another worker has
\* spent the token: an account another worker is about to renew is not disabled.
RaceIsRecovered ==
    status = "error" => \A w \in Workers : ~At(w, "persist")
=============================================================================
