------------------------- MODULE OAuthRefreshProofs -------------------------
(***************************************************************************)
(* Proofs about OAuthRefresh, for every number of processes, loops and     *)
(* requests.                                                               *)
(*                                                                         *)
(* LockInv says that one worker at a time reads, refreshes and stores the  *)
(* credentials; then a token the provider refuses, and which is still the  *)
(* stored one, is a token nobody has replaced, and that stays so.          *)
(***************************************************************************)
EXTENDS OAuthRefresh, TLAPS

\* What the code relies on and does not ensure: the lock in Redis, the read after an
\* invalid_grant, and a provider that answers with it.
Reliable ==
    /\ ~LockMayFail
    /\ "recover" \notin Unreliable
    /\ "refresh_token_reused" \notin Refusals

-----------------------------------------------------------------------------
(* Types *)

\* The types hold at first.
LEMMA TypeInit == Init => TypeOK
<1> SUFFICES ASSUME Init PROVE TypeOK
  OBVIOUS
<1>1. slock \in BOOLEAN /\ owner \in [Workers -> BOOLEAN]
  BY Zenon DEF Init
<1> QED BY <1>1 DEF Init, TypeOK, Steps, Results

\* What a worker does between its locks keeps the types.
LEMMA RefreshTypes ==
  ASSUME TypeOK, NEW w \in Workers, RefreshIfNeeded(w)
  PROVE  TypeOK'
<1> USE DEF TypeOK, row, world, locks, At, Goto, Conclude
<1>1. CASE LockLocal(w)
  <2>1. pc' \in [Workers -> Steps]
    BY <1>1 DEF LockLocal, Steps
  <2> QED BY <1>1, <2>1 DEF LockLocal
<1>2. CASE AcquireRefreshLock(w)
  <2>1. pc' \in [Workers -> Steps] /\ result' \in [Workers -> Results]
    BY <1>2 DEF AcquireRefreshLock, Steps, Results
  <2>2. slock' \in BOOLEAN /\ owner' \in [Workers -> BOOLEAN]
    BY Zenon, <1>2 DEF AcquireRefreshLock
  <2>3. faults' \in Nat
    BY <1>2 DEF AcquireRefreshLock, Fails, Fault
  <2> QED BY <1>2, <2>1, <2>2, <2>3 DEF AcquireRefreshLock
<1>3. CASE GetByID(w)
  <2>1. pc' \in [Workers -> Steps] /\ result' \in [Workers -> Results]
    BY <1>3 DEF GetByID, Steps, Results
  <2>2. fresh' \in [Workers -> Nat] /\ faults' \in Nat
    BY <1>3 DEF GetByID, Fails, Fault
  <2> QED BY <1>3, <2>1, <2>2 DEF GetByID
<1>4. CASE Refresh(w)
  <2>1. pc' \in [Workers -> Steps] /\ result' \in [Workers -> Results]
    BY <1>4 DEF Refresh, Steps, Results
  <2>2. issued' \in Nat /\ fresh' \in [Workers -> Nat] /\ faults' \in Nat
    BY <1>4 DEF Refresh, Fails, Fault
  <2> QED BY <1>4, <2>1, <2>2 DEF Refresh
<1>5. CASE TryRecover(w)
  <2>1. pc' \in [Workers -> Steps] /\ result' \in [Workers -> Results]
    BY <1>5 DEF TryRecover, Steps, Results
  <2>2. fresh' \in [Workers -> Nat] /\ faults' \in Nat
    BY <1>5 DEF TryRecover, Fails, Fault
  <2> QED BY <1>5, <2>1, <2>2 DEF TryRecover
<1>6. CASE Persist(w)
  <2>1. pc' \in [Workers -> Steps] /\ result' \in [Workers -> Results]
    BY <1>6 DEF Persist, Steps, Results
  <2>2. stored' \in Nat /\ faults' \in Nat
    BY <1>6 DEF Persist, Fails, Fault
  <2> QED BY <1>6, <2>1, <2>2 DEF Persist
<1>7. CASE Unlock(w)
  <2>1. AfterRefresh(w) \subseteq Steps
    BY DEF AfterRefresh, Steps
  <2>2. pc' \in [Workers -> Steps]
    BY <1>7, <2>1 DEF Unlock
  <2>3. slock' \in BOOLEAN /\ owner' \in [Workers -> BOOLEAN]
    BY Zenon, <1>7 DEF Unlock
  <2>4. /\ account' \in [Workers -> Nat] /\ fresh' \in [Workers -> Nat]
        /\ result' \in [Workers -> Results]
    BY <1>7 DEF Unlock, Results
  <2>5. local' \in [Processes -> Workers \cup {None}] /\ faults' \in Nat
    BY <1>7 DEF Unlock, Fails, Fault
  <2> QED BY <1>7, <2>2, <2>3, <2>4, <2>5 DEF Unlock
<1> QED BY ONLY RefreshIfNeeded(w), <1>1, <1>2, <1>3, <1>4, <1>5, <1>6, <1>7 DEF RefreshIfNeeded

\* So does what it does before and after.
LEMMA AroundTypes ==
  ASSUME TypeOK, NEW w \in Workers,
         \/ ListActive(w) \/ SetError(w) \/ InvalidateToken(w)
         \/ GetAccessToken(w) \/ Wait(w) \/ CheckTokenVersion(w) \/ SetAccessToken(w)
         \/ \E g \in 0..MaxIssued : Begin(w, g)
  PROVE  TypeOK'
<1> USE DEF TypeOK, row, world, locks, At, Goto
<1>1. pc' \in [Workers -> Steps]
  BY DEF ListActive, SetError, InvalidateToken, GetAccessToken, Wait, CheckTokenVersion,
         SetAccessToken, Begin, Finish, Steps
<1>2. account' \in [Workers -> Nat]
  BY DEF ListActive, SetError, InvalidateToken, GetAccessToken, Wait, CheckTokenVersion,
         SetAccessToken, Begin, Finish
<1>3. fresh' \in [Workers -> Nat] /\ result' \in [Workers -> Results]
  BY DEF ListActive, SetError, InvalidateToken, GetAccessToken, Wait, CheckTokenVersion,
         SetAccessToken, Begin, Finish, Results
<1>4. cache' \in Nat \cup {None} /\ status' \in {"active", "error"}
  BY DEF ListActive, SetError, InvalidateToken, GetAccessToken, Wait, CheckTokenVersion,
         SetAccessToken, Begin
<1>5. faults' \in Nat
  BY DEF ListActive, SetError, InvalidateToken, GetAccessToken, Wait, CheckTokenVersion,
         SetAccessToken, Begin, Fails, Fault
<1>6. UNCHANGED <<host, shared, stored, issued, due, slock, local, owner>>
  BY DEF ListActive, SetError, InvalidateToken, GetAccessToken, Wait, CheckTokenVersion,
         SetAccessToken, Begin
<1> QED BY <1>1, <1>2, <1>3, <1>4, <1>5, <1>6

\* And so does the rest of the world.
LEMMA WorldTypes ==
  ASSUME TypeOK,
         Age \/ CacheExpires \/ LockExpires \/ (\E p \in Processes : Crash(p)) \/ UNCHANGED vars
  PROVE  TypeOK'
<1> USE DEF TypeOK, row, world, locks
<1>1. CASE Age \/ CacheExpires \/ UNCHANGED vars
  BY <1>1 DEF Age, CacheExpires, vars
<1>2. CASE LockExpires
  <2>1. slock' \in BOOLEAN
    BY Zenon, <1>2 DEF LockExpires
  <2> QED BY <1>2, <2>1 DEF LockExpires
<1>3. ASSUME NEW p \in Processes, Crash(p) PROVE TypeOK'
  <2>1. owner' \in [Workers -> BOOLEAN]
    BY Zenon, <1>3 DEF Crash
  <2>2. pc' \in [Workers -> Steps] /\ result' \in [Workers -> Results]
    BY <1>3 DEF Crash, Steps, Results
  <2>3. account' \in [Workers -> Nat] /\ fresh' \in [Workers -> Nat]
    BY <1>3 DEF Crash
  <2>4. faults' \in Nat /\ local' \in [Processes -> Workers \cup {None}]
    BY <1>3 DEF Crash, Fault
  <2> QED BY <1>3, <2>1, <2>2, <2>3, <2>4 DEF Crash
<1> QED BY <1>1, <1>2, <1>3

\* The steps of a specification of workers and the rest of the world.
LEMMA Cases ==
  ASSUME [Next]_vars
  PROVE  \/ \E w \in Workers : RefreshIfNeeded(w)
         \/ \E w \in Workers :
              \/ ListActive(w) \/ SetError(w) \/ InvalidateToken(w)
              \/ GetAccessToken(w) \/ Wait(w) \/ CheckTokenVersion(w) \/ SetAccessToken(w)
              \/ \E g \in 0..MaxIssued : Begin(w, g)
         \/ Age \/ CacheExpires \/ LockExpires \/ (\E p \in Processes : Crash(p))
         \/ UNCHANGED vars
<1>1. \A r \in Refreshers : r \in Workers
  BY DEF Workers
<1>2. \A q \in Requests : q \in Workers
  BY DEF Workers
<1> QED BY ONLY [Next]_vars, <1>1, <1>2, Zenon DEF Next, Loop, Serve

\* Every step keeps the types.
LEMMA TypeStep == TypeOK /\ [Next]_vars => TypeOK'
BY Cases, RefreshTypes, AroundTypes, WorldTypes

\* The variables have their types (oauth_refresh_api.go and its callers).
THEOREM TypeCorrect == Spec => []TypeOK
BY TypeInit, TypeStep, PTL DEF Spec

-----------------------------------------------------------------------------
(* One worker at a time *)

\* No one works, and nothing is lost, at first.
LEMMA InvInit == Init => LockInv /\ CredentialInv
BY WorkerAssumption DEF Init, LockInv, CredentialInv, Critical, DisabledOnlyIfLost, At

\* Two workers between the locks are one.
LEMMA Exclusive ==
  ASSUME TypeOK, LockInv, ~LockMayFail, NEW v \in Workers, NEW w \in Workers,
         pc[v] \in Critical, pc[w] \in Critical
  PROVE  v = w
<1>1. CASE SharedLockFails
  <2>1. host[v] = host[w]
    BY <1>1 DEF SharedLockFails
  <2> QED BY <2>1 DEF LockInv
<1>2. CASE ~SharedLockFails
  BY <1>2 DEF LockInv
<1> QED BY <1>1, <1>2

\* A worker takes both locks and gives them back.
LEMMA LockRefresh ==
  ASSUME TypeOK, LockInv, NEW w \in Workers, RefreshIfNeeded(w)
  PROVE  LockInv'
<1> USE WorkerAssumption DEF TypeOK, row, world, locks, At, Goto, Conclude
<1>1. host' = host /\ (SharedLockFails' <=> SharedLockFails)
  BY DEF RefreshIfNeeded, LockLocal, AcquireRefreshLock, GetByID, Refresh, TryRecover, Persist,
         Unlock, SharedLockFails
<1>2. \A v \in Workers : v # w => pc'[v] = pc[v]
  BY DEF RefreshIfNeeded, LockLocal, AcquireRefreshLock, GetByID, Refresh, TryRecover, Persist,
         Unlock
<1>3. CASE LockLocal(w)
  <2>1. pc'[w] = "lock" /\ local' = [local EXCEPT ![host[w]] = w] /\ local[host[w]] = None
    BY <1>3 DEF LockLocal
  <2>2. slock' = slock /\ owner' = owner
    BY <1>3 DEF LockLocal
  <2> QED BY <1>1, <1>2, <2>1, <2>2 DEF LockInv, Critical
<1>4. CASE AcquireRefreshLock(w)
  <2>1. pc[w] = "lock" /\ pc'[w] \in {"reread", "unlock"} /\ local' = local
    BY <1>4 DEF AcquireRefreshLock
  <2>2. \A v \in Workers : pc'[v] \in Critical \cup {"lock", "unlock"} => local'[host'[v]] = v
    BY <1>1, <1>2, <2>1 DEF LockInv, Critical
  <2>3. ASSUME NEW v \in Workers, ~SharedLockFails
        PROVE  /\ pc'[v] \in Critical => owner'[v]
               /\ owner'[v] => slock'
               /\ \A u \in Workers : owner'[u] /\ owner'[v] => u = v
    <3>1. CASE ~slock /\ slock' = TRUE /\ owner' = [owner EXCEPT ![w] = TRUE]
      BY <1>2, <2>3, <3>1 DEF LockInv
    <3>2. CASE slock' = slock /\ owner' = owner /\ pc'[w] = "unlock"
      BY <1>2, <2>3, <3>2 DEF LockInv, Critical
    <3> QED BY <1>4, <2>3, <3>1, <3>2 DEF AcquireRefreshLock
  <2> QED BY <1>1, <2>2, <2>3 DEF LockInv
<1>5. CASE GetByID(w) \/ Refresh(w) \/ TryRecover(w) \/ Persist(w)
  <2>1. pc[w] \in Critical /\ pc'[w] \in Critical \cup {"unlock"}
    BY <1>5 DEF GetByID, Refresh, TryRecover, Persist, Critical
  <2>2. local' = local /\ slock' = slock /\ owner' = owner
    BY <1>5 DEF GetByID, Refresh, TryRecover, Persist
  <2> QED BY <1>1, <1>2, <2>1, <2>2 DEF LockInv
<1>6. CASE Unlock(w)
  <2>1. /\ pc[w] = "unlock" /\ pc'[w] \notin Critical \cup {"lock", "unlock"}
        /\ local' = [local EXCEPT ![host[w]] = None]
    BY <1>6 DEF Unlock, AfterRefresh, Critical
  <2>2. owner' = [owner EXCEPT ![w] = FALSE] /\ (slock' = (slock /\ ~owner[w]) \/ slock' = slock)
    BY <1>6 DEF Unlock
  <2>3. \A v \in Workers : pc'[v] \in Critical \cup {"lock", "unlock"} => local'[host'[v]] = v
    BY <1>1, <1>2, <2>1 DEF LockInv
  <2>4. ASSUME NEW v \in Workers, ~SharedLockFails
        PROVE  /\ pc'[v] \in Critical => owner'[v]
               /\ owner'[v] => slock'
               /\ \A u \in Workers : owner'[u] /\ owner'[v] => u = v
    BY <1>2, <2>1, <2>2, <2>4 DEF LockInv
  <2> QED BY <1>1, <2>3, <2>4 DEF LockInv
<1> QED BY ONLY RefreshIfNeeded(w), <1>3, <1>4, <1>5, <1>6 DEF RefreshIfNeeded

\* Before and after it holds neither.
LEMMA LockAround ==
  ASSUME TypeOK, LockInv, NEW w \in Workers,
         \/ ListActive(w) \/ SetError(w) \/ InvalidateToken(w)
         \/ GetAccessToken(w) \/ Wait(w) \/ CheckTokenVersion(w) \/ SetAccessToken(w)
         \/ \E g \in 0..MaxIssued : Begin(w, g)
  PROVE  LockInv'
<1> USE DEF TypeOK, row, world, locks, At, Goto
<1>1. UNCHANGED <<host, slock, local, owner>>
  BY DEF ListActive, SetError, InvalidateToken, GetAccessToken, Wait, CheckTokenVersion,
         SetAccessToken, Begin
<1>2. \A v \in Workers : v # w => pc'[v] = pc[v]
  BY DEF ListActive, SetError, InvalidateToken, GetAccessToken, Wait, CheckTokenVersion,
         SetAccessToken, Begin, Finish
<1>3. pc'[w] \notin Critical \cup {"lock", "unlock"}
  BY DEF ListActive, SetError, InvalidateToken, GetAccessToken, Wait, CheckTokenVersion,
         SetAccessToken, Begin, Finish, Critical
<1> QED BY <1>1, <1>2, <1>3 DEF LockInv, SharedLockFails

\* A process that stops leaves the lock in Redis, which ends when nobody owns it.
LEMMA LockWorld ==
  ASSUME TypeOK, LockInv,
         Age \/ CacheExpires \/ LockExpires \/ (\E p \in Processes : Crash(p)) \/ UNCHANGED vars
  PROVE  LockInv'
<1> USE DEF TypeOK, row, world, locks
<1>1. CASE Age \/ CacheExpires \/ UNCHANGED vars
  <2>1. UNCHANGED <<host, slock, local, owner, pc>>
    BY <1>1 DEF Age, CacheExpires, vars
  <2> QED BY <2>1 DEF LockInv, SharedLockFails
<1>2. CASE LockExpires
  <2>1. UNCHANGED <<host, local, owner, pc>> /\ (SharedLockFails \/ \A w \in Workers : ~owner[w])
    BY <1>2 DEF LockExpires
  <2> QED BY <2>1 DEF LockInv, SharedLockFails
<1>3. ASSUME NEW p \in Processes, Crash(p) PROVE LockInv'
  <2>1. /\ host' = host /\ slock' = slock /\ local' = [local EXCEPT ![p] = None]
        /\ \A w \in Workers : host[w] # p => pc'[w] = pc[w] /\ owner'[w] = owner[w]
        /\ \A w \in Workers : host[w] = p => pc'[w] = "idle" /\ ~owner'[w]
    BY <1>3 DEF Crash
  <2>2. SharedLockFails' <=> SharedLockFails
    BY <2>1 DEF SharedLockFails
  <2> QED BY <2>1, <2>2 DEF LockInv, Critical
<1> QED BY <1>1, <1>2, <1>3

\* Every step keeps the locks.
LEMMA LockInvStep == TypeOK /\ LockInv /\ [Next]_vars => LockInv'
BY Cases, LockRefresh, LockAround, LockWorld

-----------------------------------------------------------------------------
(* An account is disabled when its token is lost *)

\* What is lost stays lost: nobody has a token the provider would accept, so none is issued.
LEMMA LostStays ==
  ASSUME TypeOK, CredentialInv, Lost, [Next]_vars
  PROVE  Lost'
<1> USE DEF TypeOK, row, world, locks, At, Goto, Conclude, Lost
<1>1. ASSUME NEW w \in Workers, RefreshIfNeeded(w) PROVE Lost'
  <2>1. CASE Refresh(w)
    <3>1. fresh[w] # issued
      BY <2>1 DEF Refresh, CredentialInv
    <3> QED BY <2>1, <3>1 DEF Refresh
  <2>2. CASE LockLocal(w) \/ AcquireRefreshLock(w) \/ GetByID(w) \/ TryRecover(w)
    BY <2>2 DEF LockLocal, AcquireRefreshLock, GetByID, TryRecover
  <2>3. CASE Persist(w)
    BY <2>3 DEF Persist
  <2>4. CASE Unlock(w)
    BY <2>4 DEF Unlock, AfterRefresh
  <2> QED BY ONLY <1>1, <2>1, <2>2, <2>3, <2>4 DEF RefreshIfNeeded
<1>2. ASSUME NEW w \in Workers,
             \/ ListActive(w) \/ SetError(w) \/ InvalidateToken(w)
             \/ GetAccessToken(w) \/ Wait(w) \/ CheckTokenVersion(w) \/ SetAccessToken(w)
             \/ \E g \in 0..MaxIssued : Begin(w, g)
      PROVE  Lost'
  BY <1>2 DEF ListActive, SetError, InvalidateToken, GetAccessToken, Wait, CheckTokenVersion,
              SetAccessToken, Begin, Finish
<1>3. CASE Age \/ CacheExpires \/ LockExpires \/ UNCHANGED vars
  BY <1>3 DEF Age, CacheExpires, LockExpires, vars
<1>4. ASSUME NEW p \in Processes, Crash(p) PROVE Lost'
  BY <1>4 DEF Crash
<1> QED BY Cases, <1>1, <1>2, <1>3, <1>4

\* The conjuncts of CredentialInv about one worker.
Holds(w) ==
  /\ pc[w] \in {"refresh", "recover"} => fresh[w] <= stored
  /\ At(w, "recover") => fresh[w] # issued
  /\ At(w, "persist") => fresh[w] = issued
  /\ At(w, "unlock") <=> result[w] # "none"
  /\ result[w] = "refused" \/ At(w, "error") => Lost

\* A worker that stays as it is keeps its conjuncts, when nothing is issued while it
\* persists or tries to recover.
LEMMA HoldsFrame ==
  ASSUME TypeOK, TypeOK', CredentialInv, Lost => Lost', NEW v \in Workers,
         stored <= stored', issued <= issued', pc[v] \in Critical => issued' = issued,
         pc'[v] = pc[v], fresh'[v] = fresh[v], result'[v] = result[v]
  PROVE  Holds(v)'
<1>1. Holds(v)
  BY DEF CredentialInv, Holds
<1>2. /\ fresh[v] \in Nat /\ stored \in Nat /\ stored' \in Nat
      /\ issued \in Nat /\ issued' \in Nat
  BY DEF TypeOK
<1> QED BY <1>1, <1>2 DEF Holds, At, Critical

\* One worker's step keeps the conjuncts of all, if it keeps its own.
LEMMA CredentialKept ==
  ASSUME TypeOK, TypeOK', CredentialInv, Lost => Lost', due' <= stored', stored' <= issued',
         DisabledOnlyIfLost',
         \A w \in Workers : Holds(w)'
  PROVE  CredentialInv'
BY DEF CredentialInv, Holds

\* What is done between the locks keeps them.
LEMMA CredentialRefresh ==
  ASSUME Reliable, TypeOK, TypeOK', LockInv, CredentialInv, Lost => Lost',
         NEW w \in Workers, RefreshIfNeeded(w)
  PROVE  CredentialInv'
<1> USE DEF row, world, locks, Goto, Conclude
<1>1. /\ \A v \in Workers : account[v] \in Nat /\ fresh[v] \in Nat
      /\ due \in Nat /\ stored \in Nat /\ issued \in Nat /\ due <= stored /\ stored <= issued
      /\ Holds(w)
  BY DEF TypeOK, CredentialInv, Holds
<1>2. /\ due' = due
      /\ \A v \in Workers : v # w => /\ pc'[v] = pc[v] /\ fresh'[v] = fresh[v]
                                     /\ result'[v] = result[v]
  BY DEF RefreshIfNeeded, LockLocal, AcquireRefreshLock, GetByID, Refresh, TryRecover, Persist,
         Unlock, TypeOK
<1>3. ASSUME stored <= stored', issued <= issued', stored' <= issued',
             issued' = issued \/ pc[w] \in Critical, status' = status, Holds(w)'
      PROVE  CredentialInv'
  <2>1. \A v \in Workers : v # w /\ pc[v] \in Critical => issued' = issued
    BY <1>3, Exclusive DEF Reliable
  <2>2. \A v \in Workers : v # w => Holds(v)'
    BY <1>2, <1>3, <2>1, HoldsFrame
  <2>3. DisabledOnlyIfLost'
    BY <1>3 DEF CredentialInv, DisabledOnlyIfLost
  <2>4. due' <= stored'
    BY <1>1, <1>2, <1>3 DEF TypeOK
  <2> QED BY <1>3, <2>2, <2>3, <2>4, CredentialKept
<1>4. CASE LockLocal(w)
  <2>1. UNCHANGED <<stored, issued, status>>
    BY <1>4 DEF LockLocal
  <2>2. Holds(w)'
    BY <1>1, <1>4, <2>1 DEF LockLocal, Holds, At, TypeOK, Lost
  <2> QED BY <1>1, <1>3, <2>1, <2>2
<1>5. CASE AcquireRefreshLock(w)
  <2>1. UNCHANGED <<stored, issued, status>>
    BY <1>5 DEF AcquireRefreshLock
  <2>2. /\ \/ pc'[w] = "reread" /\ result' = result
           \/ pc'[w] = "unlock" /\ result'[w] = "held"
        /\ fresh' = fresh
        /\ pc[w] = "lock"
    BY <1>5 DEF AcquireRefreshLock, TypeOK, At
  <2>3. Holds(w)'
    BY <1>1, <2>1, <2>2 DEF Holds, At
  <2> QED BY <1>1, <1>3, <2>1, <2>3
<1>6. CASE GetByID(w)
  <2>1. UNCHANGED <<stored, issued, status, account>>
    BY <1>6 DEF GetByID
  <2>2. fresh'[w] \in Nat
    BY <1>1, <1>6 DEF GetByID, TypeOK
  <2>3. \/ pc'[w] = "refresh" /\ result' = result /\ fresh'[w] <= due
        \/ pc'[w] = "unlock" /\ result'[w] = "current"
    BY <1>6 DEF GetByID, TypeOK, Needs
  <2>4. pc[w] = "reread"
    BY <1>6 DEF GetByID, At
  <2>5. Holds(w)'
    BY <1>1, <2>1, <2>2, <2>3, <2>4 DEF Holds, At
  <2> QED BY <1>1, <1>3, <2>1, <2>5
<1>7. CASE Refresh(w)
  <2>1. pc[w] = "refresh" /\ UNCHANGED <<stored, status, account>>
    BY <1>7 DEF Refresh, At
  <2>2. issued' \in Nat /\ issued <= issued'
    BY <1>1, <1>7 DEF Refresh
  <2>3. \/ pc'[w] = "persist" /\ fresh'[w] = issued' /\ result' = result
        \/ pc'[w] = "recover" /\ fresh' = fresh /\ fresh[w] # issued /\ issued' = issued
           /\ result' = result
        \/ pc'[w] = "unlock" /\ result'[w] = "failed"
    BY <1>7 DEF Refresh, Reliable, TypeOK
  <2>4. result[w] = "none"
    BY <1>1, <2>1 DEF Holds, At
  <2>5. Holds(w)'
    BY <1>1, <2>1, <2>2, <2>3, <2>4 DEF Holds, At
  <2> QED BY <1>1, <1>3, <2>1, <2>2, <2>5 DEF Critical
<1>8. CASE TryRecover(w)
  <2>1. pc[w] = "recover" /\ UNCHANGED <<stored, issued, status, account>>
    BY <1>8 DEF TryRecover, At
  <2>2. ~Fails(w)
    BY <2>1 DEF Fails, Reliable
  <2>3. \/ pc'[w] = "unlock" /\ result'[w] = "current" /\ fresh'[w] = stored
        \/ pc'[w] = "unlock" /\ result'[w] = "refused" /\ fresh' = fresh /\ stored = fresh[w]
    BY <1>8, <2>2 DEF TryRecover, Newer, TypeOK
  <2>4. stored = fresh[w] => Lost'
    <3>1. \A v \in Workers : pc[v] = "persist" => v = w
      BY <2>1, Exclusive DEF Critical, Reliable
    <3>2. stored = fresh[w] => stored # issued
      BY <1>1, <2>1 DEF Holds, At
    <3> QED BY <1>2, <2>1, <2>3, <3>1, <3>2 DEF Lost, At
  <2>5. Holds(w)'
    BY <1>1, <2>1, <2>3, <2>4 DEF Holds, At
  <2> QED BY <1>1, <1>3, <2>1, <2>5
<1>9. CASE Persist(w)
  <2>1. pc[w] = "persist" /\ UNCHANGED <<issued, status, fresh>>
    BY <1>9 DEF Persist, At
  <2>2. fresh[w] = issued
    BY <1>1, <2>1 DEF Holds, At
  <2>3. \/ pc'[w] = "unlock" /\ result'[w] = "refreshed" /\ stored' = fresh[w]
        \/ pc'[w] = "unlock" /\ result'[w] = "failed" /\ stored' = stored
    BY <1>9 DEF Persist, TypeOK
  <2>4. Holds(w)'
    BY <1>1, <2>1, <2>2, <2>3 DEF Holds, At
  <2> QED BY <1>1, <1>3, <2>1, <2>2, <2>3, <2>4
<1>10. CASE Unlock(w)
  <2>1. pc[w] = "unlock" /\ UNCHANGED <<stored, issued, status>>
    BY <1>10 DEF Unlock, At
  <2>2. fresh'[w] = 0 /\ result'[w] = "none" /\ pc'[w] \in AfterRefresh(w)
    BY <1>10 DEF Unlock, TypeOK
  <2>4. pc'[w] = "error" => result[w] = "refused"
    BY <1>1, <2>1, <2>2 DEF AfterRefresh, Holds, At, TypeOK, Results
  <2>5. pc'[w] \notin {"refresh", "recover", "persist", "unlock"}
    BY <2>2 DEF AfterRefresh
  <2>6. Holds(w)'
    BY <1>1, <2>1, <2>2, <2>4, <2>5 DEF Holds, At
  <2> QED BY <1>1, <1>3, <2>1, <2>6
<1> QED BY ONLY RefreshIfNeeded(w), <1>4, <1>5, <1>6, <1>7, <1>8, <1>9, <1>10 DEF RefreshIfNeeded

\* So does what is done before and after: only a lost token disables the account.
LEMMA CredentialAround ==
  ASSUME TypeOK, TypeOK', CredentialInv, Lost => Lost', NEW w \in Workers,
         \/ ListActive(w) \/ SetError(w) \/ InvalidateToken(w)
         \/ GetAccessToken(w) \/ Wait(w) \/ CheckTokenVersion(w) \/ SetAccessToken(w)
         \/ \E g \in 0..MaxIssued : Begin(w, g)
  PROVE  CredentialInv'
<1> USE DEF row, world, locks, Goto
<1>1. stored \in Nat /\ issued \in Nat /\ due <= stored /\ stored <= issued /\ Holds(w)
  BY DEF TypeOK, CredentialInv, Holds
<1>2. UNCHANGED <<due, stored, issued>>
  BY DEF ListActive, SetError, InvalidateToken, GetAccessToken, Wait, CheckTokenVersion,
         SetAccessToken, Begin
<1>3. \A v \in Workers : v # w => /\ pc'[v] = pc[v] /\ fresh'[v] = fresh[v]
                                  /\ result'[v] = result[v]
  BY DEF ListActive, SetError, InvalidateToken, GetAccessToken, Wait, CheckTokenVersion,
         SetAccessToken, Begin, Finish, TypeOK
<1>4. /\ pc'[w] \notin {"refresh", "recover", "persist", "unlock", "error"}
      /\ pc[w] # "unlock"
      /\ result'[w] = "none" \/ (fresh'[w] = fresh[w] /\ result'[w] = result[w])
  <2>1. pc'[w] \notin {"refresh", "recover", "persist", "unlock", "error"}
    BY DEF ListActive, SetError, InvalidateToken, GetAccessToken, Wait, CheckTokenVersion,
           SetAccessToken, Begin, Finish, TypeOK
  <2>2. result'[w] = "none" \/ (fresh'[w] = fresh[w] /\ result'[w] = result[w])
    BY DEF ListActive, SetError, InvalidateToken, GetAccessToken, Wait, CheckTokenVersion,
           SetAccessToken, Begin, Finish, TypeOK
  <2>3. pc[w] # "unlock"
    BY DEF ListActive, SetError, InvalidateToken, GetAccessToken, Wait, CheckTokenVersion,
           SetAccessToken, Begin, At
  <2> QED BY <2>1, <2>2, <2>3
<1>5. Holds(w)'
  BY <1>1, <1>2, <1>4 DEF Holds, At
<1>6. \A v \in Workers : v # w => Holds(v)'
  BY <1>1, <1>2, <1>3, HoldsFrame
<1>7. DisabledOnlyIfLost'
  <2>1. CASE status' = status
    BY <2>1 DEF CredentialInv, DisabledOnlyIfLost
  <2>2. CASE SetError(w)
    BY <1>1, <2>2 DEF SetError, Holds, DisabledOnlyIfLost
  <2> QED BY <2>1, <2>2 DEF ListActive, InvalidateToken, GetAccessToken, Wait, CheckTokenVersion,
                            SetAccessToken, Begin
<1> QED BY <1>1, <1>2, <1>5, <1>6, <1>7, CredentialKept

\* So does the rest of the world: a process that stops may lose a token.
LEMMA CredentialWorld ==
  ASSUME TypeOK, TypeOK', CredentialInv, Lost => Lost',
         Age \/ CacheExpires \/ LockExpires \/ (\E p \in Processes : Crash(p)) \/ UNCHANGED vars
  PROVE  CredentialInv'
<1> USE DEF row, world, locks
<1>1. stored \in Nat /\ issued \in Nat /\ due <= stored /\ stored <= issued
  BY DEF TypeOK, CredentialInv
<1>2. UNCHANGED <<stored, issued, status>> /\ due' \in {due, stored}
  BY DEF Age, CacheExpires, LockExpires, Crash, vars
<1>3. DisabledOnlyIfLost'
  BY <1>2 DEF CredentialInv, DisabledOnlyIfLost
<1>4. ASSUME NEW v \in Workers PROVE Holds(v)'
  <2>1. CASE pc'[v] = pc[v] /\ fresh'[v] = fresh[v] /\ result'[v] = result[v]
    BY <1>1, <1>2, <2>1, HoldsFrame
  <2>2. CASE pc'[v] = "idle" /\ result'[v] = "none"
    BY <1>1, <1>2, <2>2 DEF Holds, At
  <2> QED BY <2>1, <2>2 DEF Age, CacheExpires, LockExpires, Crash, vars
<1> QED BY <1>1, <1>2, <1>3, <1>4, CredentialKept

\* The parts of the invariant hold together.
LEMMA OAuthInvariant ==
  ASSUME Reliable
  PROVE  Spec => [](TypeOK /\ LockInv /\ CredentialInv)
<1> DEFINE IInv == TypeOK /\ LockInv /\ CredentialInv
<1>1. Init => IInv
  BY TypeInit, InvInit
<1>2. IInv /\ [Next]_vars => IInv'
  <2> SUFFICES ASSUME TypeOK, LockInv, CredentialInv, [Next]_vars PROVE IInv'
    OBVIOUS
  <2>1. TypeOK' /\ LockInv' /\ (Lost => Lost')
    BY TypeStep, LockInvStep, LostStays
  <2>2. CredentialInv'
    BY <2>1, Cases, CredentialRefresh, CredentialAround, CredentialWorld
  <2> QED BY <2>1, <2>2
<1> HIDE DEF IInv
<1>3. Spec => []IInv
  BY <1>1, <1>2, PTL DEF Spec
<1> QED BY <1>3 DEF IInv

\* A race of refreshes does not disable an account, whatever the number of processes and
\* requests and however stale what they hold (RefreshIfNeeded, refreshWithRetry).
THEOREM DisablesOnlyLost ==
  ASSUME Reliable
  PROVE  Spec => []DisabledOnlyIfLost
<1>1. CredentialInv => DisabledOnlyIfLost
  BY DEF CredentialInv
<1> QED BY <1>1, OAuthInvariant, PTL
====
