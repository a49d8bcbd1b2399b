---------------------- MODULE SchedulerSnapshotProofs ----------------------
(***************************************************************************)
(* Proofs about SchedulerSnapshot, for every set of accounts and every     *)
(* number of updaters, pollers, rebuilders and requests.                   *)
(*                                                                         *)
(* A property of the steps in Redis rests on what each process has read    *)
(* before: WorkInv types it, CachedInv says that nothing takes a live      *)
(* account out of the cache, HandledInv follows an event from the batch of *)
(* a poller into the cache.  The order of versions is not needed for       *)
(* either, so its type is proved apart from the other ones.                *)
(***************************************************************************)
EXTENDS SchedulerSnapshot, SequenceTheorems, WellFoundedInduction, TLAPS

-----------------------------------------------------------------------------
(* Least and greatest numbers *)

\* A set of natural numbers that is not empty has a least one.
LEMMA LeastNat ==
  ASSUME NEW S \in SUBSET Nat, S # {}
  PROVE  \E x \in S : \A y \in S : x <= y
<1>1. PICK x \in S : \A y \in S : ~(<<y, x>> \in OpToRel(<, Nat))
  BY NatLessThanWellFounded, WFMin
<1>2. \A y \in S : ~(y < x)
  BY <1>1 DEF OpToRel
<1> QED BY <1>2

\* Min is the least one.
LEMMA MinNat ==
  ASSUME NEW S \in SUBSET Nat, S # {}
  PROVE  Min(S) \in S
<1>1. PICK x \in S : \A y \in S : x <= y
  BY LeastNat
<1> QED BY <1>1 DEF Min

\* Max of a bounded set is the greatest one.
LEMMA MaxNat ==
  ASSUME NEW n \in Nat, NEW S \in SUBSET (0..n), S # {}
  PROVE  Max(S) \in S /\ \A y \in S : y <= Max(S)
<1> DEFINE T == {n - x : x \in S}
<1>1. T \in SUBSET Nat /\ T # {}
  <2>1. \A x \in S : n - x \in Nat
    OBVIOUS
  <2>2. T # {}
    OBVIOUS
  <2> QED BY <2>1, <2>2
<1>2. PICK m \in T : \A y \in T : m <= y
  BY <1>1, LeastNat
<1>3. PICK x \in S : m = n - x
  BY <1>2
<1>4. \A y \in S : x >= y
  <2>1. ASSUME NEW y \in S PROVE x >= y
    <3>1. n - x <= n - y
      BY <1>2, <1>3
    <3> QED BY <3>1
  <2> QED BY <2>1
<1> QED BY <1>4 DEF Max

\* What SetAccount records as handled does not decrease.
LEMMA MaxPair ==
  ASSUME NEW i \in Nat, NEW j \in Nat
  PROVE  Max({i, j}) \in Nat /\ Max({i, j}) >= i /\ Max({i, j}) >= j
<1>1. CASE i <= j
  <2>1. i \in 0..j /\ j \in 0..j
    BY <1>1
  <2>2. {i, j} \in SUBSET (0..j) /\ {i, j} # {}
    BY <2>1
  <2>3. Max({i, j}) \in {i, j} /\ \A y \in {i, j} : y <= Max({i, j})
    BY <2>2, MaxNat
  <2> QED BY <2>3
<1>2. CASE j <= i
  <2>1. i \in 0..i /\ j \in 0..i
    BY <1>2
  <2>2. {i, j} \in SUBSET (0..i) /\ {i, j} # {}
    BY <2>1
  <2>3. Max({i, j}) \in {i, j} /\ \A y \in {i, j} : y <= Max({i, j})
    BY <2>2, MaxNat
  <2> QED BY <2>3
<1> QED BY <1>1, <1>2

-----------------------------------------------------------------------------
(* The outbox *)

\* An inserted event is the last one.
LEMMA InsertOutbox ==
  ASSUME outbox \in Seq(Events), NEW a \in Accounts, NEW kind \in {"changed", "used"},
         NEW version \in Nat, NEW committed \in BOOLEAN, Insert(a, kind, version, committed)
  PROVE  /\ outbox' \in Seq(Events)
         /\ Len(outbox) \in Nat /\ Len(outbox') = Len(outbox) + 1
         /\ DOMAIN outbox = 1..Len(outbox) /\ DOMAIN outbox' = 1..Len(outbox')
         /\ \A i \in DOMAIN outbox : outbox'[i] = outbox[i]
         /\ outbox'[Len(outbox')].account = a
         /\ outbox'[Len(outbox')].kind = kind
         /\ outbox'[Len(outbox')].version = version
         /\ outbox'[Len(outbox')].committed = committed
<1> DEFINE e == [account |-> a, kind |-> kind, version |-> version, committed |-> committed]
<1>1. e \in Events
  BY DEF Events
<1>2. /\ e.account = a /\ e.kind = kind /\ e.version = version /\ e.committed = committed
  OBVIOUS
<1>3. outbox' = Append(outbox, e)
  BY DEF Insert
<1> HIDE DEF e
<1>4. outbox' \in Seq(Events) /\ Len(outbox') = Len(outbox) + 1 /\ Len(outbox) \in Nat
  BY <1>1, <1>3
<1>5. \A i \in 1..Len(outbox) : outbox'[i] = outbox[i]
  BY <1>1, <1>3
<1>6. outbox'[Len(outbox')] = e
  BY <1>1, <1>3, <1>4
<1>7. DOMAIN outbox = 1..Len(outbox) /\ DOMAIN outbox' = 1..Len(outbox')
  BY <1>4
<1> QED BY ONLY <1>2, <1>4, <1>5, <1>6, <1>7

\* A commit makes the events of its account visible, and changes nothing else.
LEMMA CommitOutbox ==
  ASSUME outbox \in Seq(Events), NEW u \in Updaters, Commit(u)
  PROVE  /\ outbox' \in Seq(Events)
         /\ Len(outbox') = Len(outbox) /\ DOMAIN outbox' = DOMAIN outbox
         /\ \A i \in DOMAIN outbox :
              /\ outbox'[i].account = outbox[i].account
              /\ outbox'[i].kind = outbox[i].kind
              /\ outbox'[i].version = outbox[i].version
              /\ outbox[i].committed => outbox'[i].committed
              /\ outbox[i].account # subject[u] => outbox'[i].committed = outbox[i].committed
<1> DEFINE n == Len(outbox)
           e(i) == IF outbox[i].account = subject[u]
                     THEN [outbox[i] EXCEPT !.committed = TRUE] ELSE outbox[i]
<1>1. n \in Nat /\ DOMAIN outbox = 1..n
  OBVIOUS
<1>2. \A i \in 1..n : outbox[i] \in Events
  OBVIOUS
<1>3. \A i \in 1..n : e(i) \in Events
  BY <1>2 DEF Events
<1>4. outbox' = [i \in 1..n |-> e(i)]
  BY <1>1 DEF Commit
<1>5. \A i \in 1..n : /\ e(i).account = outbox[i].account
                      /\ e(i).kind = outbox[i].kind
                      /\ e(i).version = outbox[i].version
                      /\ outbox[i].committed => e(i).committed
                      /\ outbox[i].account # subject[u] => e(i).committed = outbox[i].committed
  BY <1>2 DEF Events
<1> HIDE DEF e
<1>6. outbox' \in Seq(Events)
  BY <1>1, <1>3, <1>4, IsASeq
<1>7. Len(outbox') = n /\ DOMAIN outbox' = 1..n
  BY <1>1, <1>4, <1>6
<1> QED BY <1>1, <1>4, <1>5, <1>6, <1>7

-----------------------------------------------------------------------------
(* Types *)

\* Nothing is cached, and no event is there, at first.
LEMMA SchedulerInit == Init => Types /\ WorkInv /\ CachedInv /\ HandledInv
<1> SUFFICES ASSUME Init PROVE Types /\ WorkInv /\ CachedInv /\ HandledInv
  OBVIOUS
<1>1. lock \in BOOLEAN /\ rebuilt \in [Pollers -> BOOLEAN]
  BY Zenon DEF Init
<1>2. Start \in [Accounts -> Rows]
  BY DEF Start, Rows, Statuses
<1>3. outbox \in Seq(Events) /\ Len(outbox) = 0 /\ DOMAIN outbox = {}
  BY DEF Init
<1>4. Types
  BY <1>1, <1>2, <1>3 DEF Init, Types, Steps
<1>5. WorkInv
  BY DEF Init, WorkInv, Loaded, Writers, Processes
<1>6. CachedInv
  BY DEF Init, CachedInv, ListedIsCached, List, At, Writers, Processes
<1>7. HandledInv
  BY <1>3 DEF Init, HandledInv, HandledBeforeWatermark
<1> QED BY <1>4, <1>5, <1>6, <1>7

\* The processes are of the kinds they are, and no process is of two kinds.
LEMMA Kinds ==
  /\ Updaters \subseteq Processes /\ Pollers \subseteq Writers /\ Writers \subseteq Processes
  /\ Rebuilders \subseteq Writers /\ Requests \subseteq Writers
  /\ \A u \in Updaters : u \notin Writers /\ u \notin Pollers
  /\ \A q \in Requests : q \notin Pollers
  /\ \A r \in Rebuilders : r \notin Pollers
BY ProcessAssumption DEF Writers, Processes

\* What an updater does keeps the types.
LEMMA UpdateTypes ==
  ASSUME Types, WorkInv, NEW u \in Updaters,
         \/ Update(u)
         \/ \E a \in Accounts : InsertInTx(u, a)
         \/ \E a \in Accounts, s \in Statuses : Change(u, a, s)
  PROVE  Types'
<1> USE Kinds DEF Types, redis, progress, polling, local, At, Goto, Free
<1>1. CASE Enqueue(u)
  <2>1. subject[u] \in Accounts
    BY <1>1 DEF Enqueue, WorkInv
  <2>2. \A a \in Accounts : db[a].version \in Nat
    BY DEF Rows
  <2>3. outbox' \in Seq(Events)
    BY <1>1, <2>1, <2>2, InsertOutbox DEF Enqueue
  <2>4. pc' \in [Processes -> Steps]
    BY ZenonT(60), <1>1 DEF Enqueue, Steps
  <2>5. /\ subject' \in [Updaters \cup Pollers -> Accounts \cup {None}]
        /\ row' \in [Updaters \cup Pollers -> Rows \cup {None}]
    BY <1>1 DEF Enqueue
  <2>6. faults' \in Nat
    <3>1. faults' = faults \/ faults' = faults + 1
      BY <1>1 DEF Enqueue, Fault
    <3> QED BY <3>1
  <2> QED BY <1>1, <2>3, <2>4, <2>5, <2>6 DEF Enqueue
<1>2. CASE SyncRead(u)
  <2>1. subject[u] \in Accounts
    BY <1>2 DEF SyncRead, WorkInv
  <2>2. pc' \in [Processes -> Steps]
    BY <1>2 DEF SyncRead, Steps
  <2>3. /\ subject' \in [Updaters \cup Pollers -> Accounts \cup {None}]
        /\ row' \in [Updaters \cup Pollers -> Rows \cup {None}]
    BY <1>2, <2>1 DEF SyncRead
  <2>4. faults' \in Nat
    BY <1>2 DEF SyncRead, Fault
  <2> QED BY <1>2, <2>2, <2>3, <2>4 DEF SyncRead
<1>3. CASE Sync(u)
  <2>1. cached' \in [Accounts -> Rows \cup {None}]
    BY <1>3 DEF Sync
  <2>2. pc' \in [Processes -> Steps]
    BY <1>3 DEF Sync, Steps
  <2>3. /\ subject' \in [Updaters \cup Pollers -> Accounts \cup {None}]
        /\ row' \in [Updaters \cup Pollers -> Rows \cup {None}]
    BY <1>3 DEF Sync
  <2>4. faults' \in Nat
    BY <1>3 DEF Sync, Fault
  <2> QED BY <1>3, <2>1, <2>2, <2>3, <2>4 DEF Sync
<1>4. CASE Commit(u)
  <2>1. subject[u] \in Accounts
    BY <1>4 DEF Commit, WorkInv
  <2>2. db' \in [Accounts -> Rows]
    <3> DEFINE r == [db[subject[u]] EXCEPT !.version = @ + 1]
    <3>1. r \in Rows
      <4>1. db[subject[u]] \in Rows
        BY <2>1
      <4> QED BY ONLY <4>1 DEF Rows
    <3>2. db' = [db EXCEPT ![subject[u]] = r]
      BY <1>4 DEF Commit
    <3> HIDE DEF r
    <3> QED BY <2>1, <3>1, <3>2
  <2>3. outbox' \in Seq(Events)
    BY <1>4, CommitOutbox
  <2>4. pc' \in [Processes -> Steps]
    BY <1>4 DEF Commit, Steps
  <2>5. /\ subject' \in [Updaters \cup Pollers -> Accounts \cup {None}]
        /\ row' \in [Updaters \cup Pollers -> Rows \cup {None}]
    BY <1>4 DEF Commit
  <2> QED BY <1>4, <2>2, <2>3, <2>4, <2>5 DEF Commit
<1>5. ASSUME NEW a \in Accounts, InsertInTx(u, a) PROVE Types'
  <2>1. db[a].version + 1 \in Nat
    BY DEF Rows
  <2>2. outbox' \in Seq(Events)
    BY <1>5, <2>1, InsertOutbox DEF InsertInTx
  <2>3. pc' \in [Processes -> Steps] /\ subject' \in [Updaters \cup Pollers -> Accounts \cup {None}]
    BY <1>5 DEF InsertInTx, Steps
  <2> QED BY <1>5, <2>2, <2>3 DEF InsertInTx
<1>6. ASSUME NEW a \in Accounts, NEW s \in Statuses, Change(u, a, s) PROVE Types'
  <2>1. db' \in [Accounts -> Rows]
    BY <1>6 DEF Change, Bump, Rows
  <2>2. pc' \in [Processes -> Steps] /\ subject' \in [Updaters \cup Pollers -> Accounts \cup {None}]
    BY <1>6 DEF Change, Steps
  <2> QED BY <1>6, <2>1, <2>2 DEF Change
<1> QED BY ONLY <1>1, <1>2, <1>3, <1>4, <1>5, <1>6,
           \/ Update(u)
           \/ \E a \in Accounts : InsertInTx(u, a)
           \/ \E a \in Accounts, s \in Statuses : Change(u, a, s) DEF Update

\* Some event is listed, and they are all in the outbox.
LEMMA ListedIds ==
  ASSUME Types, Listed # {}
  PROVE  /\ Listed \subseteq DOMAIN outbox /\ Listed \in SUBSET Nat
         /\ Max(Listed) \in Nat /\ Max(Listed) <= Len(outbox)
         /\ \A i \in Listed : i <= Max(Listed)
<1>1. Len(outbox) \in Nat /\ DOMAIN outbox = 1..Len(outbox)
  BY DEF Types
<1>2. Listed \subseteq DOMAIN outbox /\ Listed \in SUBSET (0..Len(outbox))
  BY <1>1 DEF Listed
<1>3. Max(Listed) \in Listed /\ \A i \in Listed : i <= Max(Listed)
  BY <1>1, <1>2, MaxNat
<1> QED BY <1>1, <1>2, <1>3

\* The next event of a batch is one of the outbox, which others can see.
LEMMA NextEvent ==
  ASSUME Types, HandledInv, NEW p \in Pollers, batch[p] # {}
  PROVE  /\ Min(batch[p]) \in batch[p]
         /\ Min(batch[p]) \in DOMAIN outbox
         /\ outbox[Min(batch[p])] \in Events
         /\ outbox[Min(batch[p])].committed
<1>1. Min(batch[p]) \in batch[p]
  BY MinNat DEF Types
<1> QED BY <1>1, ElementOfSeq DEF HandledInv, Types

\* What a poller does keeps the types.
LEMMA PollTypes ==
  ASSUME Types, WorkInv, HandledInv, NEW p \in Pollers, Poll(p)
  PROVE  Types'
<1> USE Kinds DEF Types, redis, progress, polling, local, At, Goto, Free, EndBatch
<1>1. CASE ListAfter(p)
  <2>1. Max(Listed) \in Nat /\ Listed \in SUBSET Nat
    BY <1>1, ListedIds DEF ListAfter
  <2>2. batch' \in [Pollers -> SUBSET Nat] /\ last' \in [Pollers -> Nat]
    BY <1>1, <2>1 DEF ListAfter, LastId
  <2>3. missed' \subseteq Nat
    <3>1. missed' = missed \cup {i \in 1..Max(Listed) : ~outbox[i].committed}
      BY <1>1 DEF ListAfter
    <3>2. 1..Max(Listed) \subseteq Nat
      BY <2>1
    <3> QED BY <3>1, <3>2
  <2>4. rebuilt' \in [Pollers -> BOOLEAN]
    BY Zenon, <1>1 DEF ListAfter
  <2>5. pc' \in [Processes -> Steps]
    BY <1>1 DEF ListAfter, Steps
  <2> QED BY <1>1, <2>2, <2>3, <2>4, <2>5 DEF ListAfter
<1>2. CASE Handle(p)
  <2>1. outbox[Min(batch[p])].account \in Accounts
    BY <1>2, NextEvent DEF Handle, Events
  <2>2. subject' \in [Updaters \cup Pollers -> Accounts \cup {None}]
    BY <1>2, <2>1 DEF Handle
  <2>3. row' \in [Updaters \cup Pollers -> Rows \cup {None}]
    BY <1>2, <2>1 DEF Handle
  <2>4. batch' \in [Pollers -> SUBSET Nat]
    BY <1>2 DEF Handle
  <2>5. pc' \in [Processes -> Steps]
    BY <1>2 DEF Handle, Steps
  <2> QED BY <1>2, <2>2, <2>3, <2>4, <2>5 DEF Handle
<1>3. CASE SetWatermark(p)
  <2>1. watermark' \in Nat /\ faults' \in Nat
    BY <1>3 DEF SetWatermark, Fault
  <2>2. batch' \in [Pollers -> SUBSET Nat] /\ last' \in [Pollers -> Nat]
    BY <1>3 DEF SetWatermark
  <2>3. rebuilt' \in [Pollers -> BOOLEAN]
    BY Zenon, <1>3 DEF SetWatermark
  <2>4. pc' \in [Processes -> Steps]
    BY <1>3 DEF SetWatermark, Steps
  <2>5. /\ subject' \in [Updaters \cup Pollers -> Accounts \cup {None}]
        /\ row' \in [Updaters \cup Pollers -> Rows \cup {None}]
    BY <1>3 DEF SetWatermark
  <2> QED BY <1>3, <2>1, <2>2, <2>3, <2>4, <2>5 DEF SetWatermark
<1>4. CASE Stamp(p)
  <2>1. cached' \in [Accounts -> Rows \cup {None}]
    BY <1>4 DEF Stamp
  <2>2. pc' \in [Processes -> Steps]
    BY <1>4 DEF Stamp, Steps
  <2>3. /\ subject' \in [Updaters \cup Pollers -> Accounts \cup {None}]
        /\ row' \in [Updaters \cup Pollers -> Rows \cup {None}]
    BY <1>4 DEF Stamp
  <2> QED BY <1>4, <2>1, <2>2, <2>3 DEF Stamp
<1>5. CASE SetAccount(p)
  <2>1. subject[p] \in Accounts /\ row[p] \in Rows
    BY <1>5 DEF SetAccount, WorkInv
  <2>2. Cacheable(row[p]) \in Rows \cup {None}
    BY <2>1 DEF Cacheable
  <2>3. cached' \in [Accounts -> Rows \cup {None}]
    BY <1>5, <2>1, <2>2 DEF SetAccount
  <2>4. Max({handled[subject[p]], row[p].version}) \in Nat
    BY <2>1, MaxPair DEF Rows
  <2>5. handled' \in [Accounts -> Nat]
    BY <1>5, <2>4 DEF SetAccount
  <2>6. rebuilt' \in [Pollers -> BOOLEAN]
    BY Zenon, <1>5 DEF SetAccount
  <2>7. pc' \in [Processes -> Steps]
    BY <1>5 DEF SetAccount, Steps
  <2>8. /\ subject' \in [Updaters \cup Pollers -> Accounts \cup {None}]
        /\ row' \in [Updaters \cup Pollers -> Rows \cup {None}]
    BY <1>5 DEF SetAccount
  <2> QED BY <1>5, <2>3, <2>5, <2>6, <2>7, <2>8 DEF SetAccount
<1> QED BY ONLY Poll(p), <1>1, <1>2, <1>3, <1>4, <1>5 DEF Poll

\* A rebuild keeps the types, and so does one that fails.
LEMMA RebuildTypes ==
  ASSUME Types, WorkInv, NEW w \in Writers,
         Rebuild(w) \/ Fail(w) \/ Crash(w) \/ (w \in Requests /\ (Fallback(w) \/ Load(w)))
  PROVE  Types'
<1> USE Kinds DEF Types, redis, progress, polling, local, At, Goto, Free, EndBatch
<1>1. CASE LockAndLoad(w)
  <2>1. lock' \in BOOLEAN
    BY Zenon, <1>1 DEF LockAndLoad
  <2>2. pc' \in [Processes -> Steps] /\ loaded' \in [Writers -> [Accounts -> Rows] \cup {None}]
    <3>1. loaded' = loaded \/ loaded' = [loaded EXCEPT ![w] = db]
      BY <1>1 DEF LockAndLoad
    <3>2. pc' \in [Processes -> Steps]
      BY <1>1 DEF LockAndLoad, After, Steps
    <3> QED BY ZenonT(60), <3>1, <3>2
  <2> QED BY <1>1, <2>1, <2>2 DEF LockAndLoad
<1>2. CASE Version(w)
  BY <1>2 DEF Version, AfterVersion, Steps
<1>3. CASE WriteAccounts(w)
  <2>1. loaded[w] \in [Accounts -> Rows]
    BY <1>3 DEF WriteAccounts, WorkInv, Loaded
  <2>2. cached' \in [Accounts -> Rows \cup {None}]
    BY <1>3, <2>1 DEF WriteAccounts
  <2>3. pc' \in [Processes -> Steps]
    BY <1>3 DEF WriteAccounts, Steps
  <2> QED BY <1>3, <2>2, <2>3 DEF WriteAccounts
<1>4. CASE Activate(w)
  <2>1. lock' \in BOOLEAN
    BY Zenon, <1>4 DEF Activate, Release
  <2>2. active' \in [Accounts -> Rows] \cup {None}
    BY <1>4 DEF Activate
  <2>3. pc' \in [Processes -> Steps] /\ loaded' \in [Writers -> [Accounts -> Rows] \cup {None}]
    BY <1>4 DEF Activate, After, Steps
  <2>4. faults' \in Nat
    BY <1>4 DEF Activate, Fault
  <2> QED BY <1>4, <2>1, <2>2, <2>3, <2>4 DEF Activate
<1>5. CASE Fail(w) \/ Crash(w)
  <2>1. lock' \in BOOLEAN
    BY Zenon, <1>5 DEF Fail, Crash, Release
  <2>2. rebuilt' \in [Pollers -> BOOLEAN]
    BY Zenon, <1>5 DEF Fail, Crash, GiveUp
  <2>3. /\ subject' \in [Updaters \cup Pollers -> Accounts \cup {None}]
        /\ row' \in [Updaters \cup Pollers -> Rows \cup {None}]
    BY ZenonT(60), <1>5 DEF Fail, Crash, GiveUp
  <2>4. batch' \in [Pollers -> SUBSET Nat] /\ last' \in [Pollers -> Nat]
    <3>1. \/ batch' = batch /\ last' = last
          \/ batch' = [batch EXCEPT ![w] = {}] /\ last' = [last EXCEPT ![w] = 0]
      <4>1. GiveUp(w)
        BY ONLY <1>5 DEF Fail, Crash
      <4> QED BY ONLY <4>1 DEF GiveUp, EndBatch, polling
    <3>2. batch' \in [Pollers -> SUBSET Nat]
      BY <3>1
    <3>3. last' \in [Pollers -> Nat]
      BY <3>1
    <3> QED BY <3>2, <3>3
  <2>5. pc' \in [Processes -> Steps] /\ loaded' \in [Writers -> [Accounts -> Rows] \cup {None}]
    BY <1>5 DEF Fail, Crash, GiveUp, Steps
  <2>6. faults' \in Nat
    BY <1>5 DEF Fail, Crash, Fault
  <2> QED BY <1>5, <2>1, <2>2, <2>3, <2>4, <2>5, <2>6 DEF Fail, Crash
<1>6. CASE w \in Requests /\ (Fallback(w) \/ Load(w))
  <2>1. pc' \in [Processes -> Steps] /\ loaded' \in [Writers -> [Accounts -> Rows] \cup {None}]
    <3>1. loaded' = loaded \/ loaded' = [loaded EXCEPT ![w] = db]
      BY <1>6 DEF Fallback, Load
    <3>2. pc' = [pc EXCEPT ![w] = "load"] \/ pc' = [pc EXCEPT ![w] = "version"]
      BY <1>6 DEF Fallback, Load
    <3>3. pc' \in [Processes -> Steps]
      BY <3>2 DEF Steps
    <3> QED BY ZenonT(60), <3>1, <3>3
  <2>2. faults' \in Nat
    BY <1>6 DEF Fallback, Load, Fault
  <2> QED BY <1>6, <2>1, <2>2 DEF Fallback, Load
<1> QED BY ONLY <1>1, <1>2, <1>3, <1>4, <1>5, <1>6,
           Rebuild(w) \/ Fail(w) \/ Crash(w) \/ (w \in Requests /\ (Fallback(w) \/ Load(w)))
        DEF Rebuild

\* Every step keeps the types.
LEMMA TypeStep ==
  ASSUME Types, WorkInv, HandledInv, [Next]_vars
  PROVE  Types'
<1>1. CASE UNCHANGED vars
  BY <1>1 DEF vars, Types, redis, progress, polling, local
<1>2. ASSUME NEW a \in Accounts, Used(a) PROVE Types'
  <2>1. outbox' \in Seq(Events)
    BY <1>2, InsertOutbox DEF Types, Used
  <2> QED BY <1>2, <2>1 DEF Types, Used, redis, progress, polling, local
<1>3. CASE LockExpires
  <2>1. lock' \in BOOLEAN
    BY Zenon, <1>3 DEF LockExpires
  <2> QED BY <1>3, <2>1 DEF Types, LockExpires, redis, progress, polling, local
<1>4. ASSUME NEW q \in Requests, Fallback(q) \/ Load(q) PROVE Types'
  BY <1>4, Kinds, RebuildTypes
<1>5. ASSUME NEW w \in Writers, Rebuild(w) \/ Fail(w) \/ Crash(w) PROVE Types'
  BY <1>5, RebuildTypes
<1>6. ASSUME NEW p \in Pollers, Poll(p) PROVE Types'
  BY <1>6, PollTypes
<1>7. ASSUME NEW u \in Updaters, \/ Update(u)
                                 \/ \E a \in Accounts : InsertInTx(u, a)
                                 \/ \E a \in Accounts, s \in Statuses : Change(u, a, s)
      PROVE  Types'
  BY <1>7, UpdateTypes
<1> QED BY ONLY [Next]_vars, <1>1, <1>2, <1>3, <1>4, <1>5, <1>6, <1>7 DEF Next

\* A writer that was not overtaken has a place among the versions.
LEMMA PlaceInVersions ==
  ASSUME versions \in Seq(Writers), NEW w \in Writers, ~Overtaken(w)
  PROVE  Place(w) \in 1..Len(versions) /\ versions[Place(w)] = w
<1>1. DOMAIN versions = 1..Len(versions)
  OBVIOUS
<1>2. \E i \in DOMAIN versions : versions[i] = w
  BY DEF Overtaken, Range
<1> QED BY <1>1, <1>2 DEF Place

\* The versions are those of writers: a new one is the last, an activation leaves
\* those above it, and a writer that gives up takes its own out.
LEMMA VersionsStep ==
  ASSUME versions \in Seq(Writers), [Next]_vars
  PROVE  versions' \in Seq(Writers)
<1>1. CASE UNCHANGED versions
  BY <1>1
<1>2. ASSUME NEW w \in Writers, Version(w) PROVE versions' \in Seq(Writers)
  BY <1>2 DEF Version
<1>3. ASSUME NEW w \in Writers, Activate(w) PROVE versions' \in Seq(Writers)
  <2>1. CASE Overtaken(w)
    BY <1>3, <2>1 DEF Activate
  <2>2. CASE ~Overtaken(w)
    <3>1. Place(w) \in 1..Len(versions)
      BY <2>2, PlaceInVersions
    <3>2. versions' = SubSeq(versions, Place(w) + 1, Len(versions))
      BY <1>3, <2>2 DEF Activate, Above
    <3> QED BY <3>1, <3>2
  <2> QED BY <2>1, <2>2
<1>4. ASSUME NEW w \in Writers, GiveUp(w) PROVE versions' \in Seq(Writers)
  <2>1. CASE Overtaken(w)
    BY <1>4, <2>1 DEF GiveUp
  <2>2. CASE ~Overtaken(w)
    <3>1. Place(w) \in 1..Len(versions)
      BY <2>2, PlaceInVersions
    <3>2. versions' = SubSeq(versions, 1, Place(w) - 1) \o SubSeq(versions, Place(w) + 1, Len(versions))
      BY <1>4, <2>2 DEF GiveUp, RemoveAt
    <3> QED BY <3>1, <3>2
  <2> QED BY <2>1, <2>2
<1>5. \/ UNCHANGED versions
      \/ \E w \in Writers : Version(w) \/ Activate(w) \/ GiveUp(w)
  <2>1. CASE UNCHANGED vars
    BY <2>1 DEF vars, redis
  <2>2. ASSUME NEW w \in Writers, Rebuild(w) \/ Fail(w) \/ Crash(w)
        PROVE UNCHANGED versions \/ Version(w) \/ Activate(w) \/ GiveUp(w)
    BY <2>2 DEF Rebuild, LockAndLoad, WriteAccounts, Fail, Crash
  <2>3. ASSUME NEW p \in Pollers, Poll(p) PROVE UNCHANGED versions
    BY <2>3 DEF Poll, ListAfter, Handle, SetWatermark, Stamp, SetAccount, redis
  <2>4. ASSUME NEW u \in Updaters, Update(u) PROVE UNCHANGED versions
    BY <2>4 DEF Update, Enqueue, SyncRead, Sync, Commit, redis
  <2> QED BY ONLY [Next]_vars, <2>1, <2>2, <2>3, <2>4
          DEF Next, InsertInTx, Change, Used, Fallback, Load, LockExpires, redis
<1> QED BY <1>1, <1>2, <1>3, <1>4, <1>5

\* What is left of a sequence before and after a place.
LEMMA AroundPlace ==
  ASSUME NEW S, NEW s \in Seq(S), NEW k \in 1..Len(s)
  PROVE  /\ SubSeq(s, 1, k - 1) \in Seq(S) /\ Len(SubSeq(s, 1, k - 1)) = k - 1
         /\ \A i \in 1..(k - 1) : SubSeq(s, 1, k - 1)[i] = s[i]
         /\ SubSeq(s, k + 1, Len(s)) \in Seq(S) /\ Len(SubSeq(s, k + 1, Len(s))) = Len(s) - k
         /\ \A i \in 1..(Len(s) - k) : SubSeq(s, k + 1, Len(s))[i] = s[k + i]
<1>1. Len(s) \in Nat /\ \A i \in 1..Len(s) : s[i] \in S
  OBVIOUS
<1>2. /\ SubSeq(s, 1, k - 1) \in Seq(S)
      /\ Len(SubSeq(s, 1, k - 1)) = IF 1 <= k - 1 THEN k - 1 - 1 + 1 ELSE 0
      /\ \A i \in 1..(k - 1 - 1 + 1) : SubSeq(s, 1, k - 1)[i] = s[1 + i - 1]
  <2>1. \A i \in 1..(k - 1) : s[i] \in S
    BY <1>1
  <2> QED BY <2>1, <1>1, SubSeqProperties
<1>3. /\ SubSeq(s, k + 1, Len(s)) \in Seq(S)
      /\ Len(SubSeq(s, k + 1, Len(s))) = IF k + 1 <= Len(s) THEN Len(s) - (k + 1) + 1 ELSE 0
      /\ \A i \in 1..(Len(s) - (k + 1) + 1) : SubSeq(s, k + 1, Len(s))[i] = s[k + 1 + i - 1]
  <2>1. \A i \in (k + 1)..Len(s) : s[i] \in S
    BY <1>1
  <2> QED BY <2>1, <1>1, SubSeqProperties
<1>4. k - 1 - 1 + 1 = k - 1 /\ Len(s) - (k + 1) + 1 = Len(s) - k /\ k \in Nat
  BY <1>1
<1>5. \A i \in Nat : 1 + i - 1 = i /\ k + 1 + i - 1 = k + i
  BY <1>4
<1> DEFINE A == SubSeq(s, 1, k - 1)
           B == SubSeq(s, k + 1, Len(s))
<1>6. A \in Seq(S) /\ Len(A) = (IF 1 <= k - 1 THEN k - 1 ELSE 0) /\ \A i \in 1..(k - 1) : A[i] = s[i]
  BY <1>2, <1>4, <1>5
<1>7. B \in Seq(S) /\ Len(B) = (IF k + 1 <= Len(s) THEN Len(s) - k ELSE 0)
  BY <1>3, <1>4
<1>8. \A i \in 1..(Len(s) - k) : B[i] = s[k + i]
  BY <1>3, <1>4, <1>5
<1> HIDE DEF A, B
<1>9. Len(A) = k - 1 /\ Len(B) = Len(s) - k
  BY <1>1, <1>6, <1>7
<1> QED BY ONLY <1>6, <1>7, <1>8, <1>9 DEF A, B

\* Every step keeps the places.
LEMMA OnePlaceStep ==
  ASSUME Types, versions \in Seq(Writers), OnePlace, [Next]_vars
  PROVE  OnePlace'
<1>1. DOMAIN versions = 1..Len(versions) /\ Len(versions) \in Nat /\ pc \in [Processes -> Steps]
  BY DEF Types
<1>2. \A i \in 1..Len(versions) : versions[i] \in Writers
  BY <1>1
<1> DEFINE Writing(s) == s \in {"accounts", "activate"}
<1>3. ASSUME UNCHANGED versions, \A v \in Writers : Writing(pc[v]) => Writing(pc'[v])
      PROVE  OnePlace'
  BY ONLY <1>1, <1>2, <1>3, OnePlace DEF OnePlace
<1>4. ASSUME NEW w \in Writers, Version(w) PROVE OnePlace'
  <2>1. versions' = Append(versions, w) /\ pc[w] = "version" /\ pc' = [pc EXCEPT ![w] = "accounts"]
    BY <1>4 DEF Version, At, Goto, AfterVersion
  <2>2. /\ DOMAIN versions' = 1..(Len(versions) + 1)
        /\ versions'[Len(versions) + 1] = w
        /\ \A i \in 1..Len(versions) : versions'[i] = versions[i]
    BY ONLY <2>1, versions \in Seq(Writers), w \in Writers
  <2>3. \A i \in 1..Len(versions) : versions[i] # w /\ Writing(pc'[versions[i]])
    BY ONLY <1>1, <1>2, <2>1, OnePlace, Kinds DEF OnePlace
  <2>4. pc'[w] = "accounts"
    BY <1>1, <2>1, Kinds
  <2>5. \A i \in DOMAIN versions' : Writing(pc'[versions'[i]])
    BY ONLY <1>1, <2>2, <2>3, <2>4
  <2>6. \A i, j \in DOMAIN versions' : versions'[i] = versions'[j] => i = j
    BY ONLY <1>1, <2>2, <2>3, OnePlace DEF OnePlace
  <2> QED BY ONLY <2>5, <2>6 DEF OnePlace
<1>5. ASSUME NEW w \in Writers, Activate(w) \/ (GiveUp(w) /\ Goto(w, "idle")) PROVE OnePlace'
  <2>1. \A v \in Writers \ {w} : pc'[v] = pc[v]
    BY <1>1, <1>5, Kinds DEF Activate, Goto
  <2>2. CASE Overtaken(w)
    <3>1. \A i \in 1..Len(versions) : versions[i] # w
      BY <1>1, <2>2 DEF Overtaken, Range
    <3>2. UNCHANGED versions
      BY ONLY <1>5, <2>2 DEF Activate, GiveUp
    <3> QED BY ONLY <1>1, <1>2, <2>1, <3>1, <3>2, OnePlace DEF OnePlace
  <2>3. CASE ~Overtaken(w)
    <3> DEFINE k == Place(w)
    <3>1. k \in 1..Len(versions) /\ versions[k] = w
      BY <2>3, PlaceInVersions
    <3>2. \A i \in 1..Len(versions) : i # k => versions[i] \in Writers \ {w}
      BY ONLY <1>1, <1>2, <3>1, OnePlace DEF OnePlace
    <3> HIDE DEF k
    <3>3. CASE versions' = SubSeq(versions, k + 1, Len(versions))
      <4> DEFINE S == 1..(Len(versions) - k)
                 f == [i \in S |-> k + i]
      <4>1. DOMAIN versions' = S /\ \A i \in S : versions'[i] = versions[k + i]
        BY ONLY <1>1, <3>1, <3>3, versions \in Seq(Writers), AroundPlace
      <4>2. /\ S \subseteq Nat
            /\ \A i \in S : f[i] \in 1..Len(versions) /\ f[i] # k
            /\ \A i, j \in S : f[i] = f[j] => i = j
        BY ONLY <1>1, <3>1
      <4>3. \A i \in S : versions'[i] = versions[f[i]]
        BY ONLY <4>1
      <4> HIDE DEF S, f
      <4>4. \A i \in S : Writing(pc'[versions'[i]])
        BY ONLY <1>1, <2>1, <3>2, <4>2, <4>3, OnePlace DEF OnePlace
      <4>5. ASSUME NEW i \in S, NEW j \in S, versions'[i] = versions'[j] PROVE i = j
        <5>1. f[i] = f[j]
          BY ONLY <1>1, <4>2, <4>3, <4>5, OnePlace DEF OnePlace
        <5> QED BY ONLY <4>2, <5>1
      <4> QED BY ONLY <4>1, <4>4, <4>5 DEF OnePlace
    <3>4. CASE versions' = RemoveAt(versions, k)
      <4> DEFINE A == SubSeq(versions, 1, k - 1)
                 B == SubSeq(versions, k + 1, Len(versions))
                 S == 1..(Len(versions) - 1)
                 f == [i \in S |-> IF i < k THEN i ELSE i + 1]
      <4>1. A \in Seq(Writers) /\ Len(A) = k - 1 /\ \A i \in 1..(k - 1) : A[i] = versions[i]
        BY ONLY <1>1, <3>1, versions \in Seq(Writers), AroundPlace
      <4>2. /\ B \in Seq(Writers) /\ Len(B) = Len(versions) - k
            /\ \A i \in 1..(Len(versions) - k) : B[i] = versions[k + i]
        BY ONLY <1>1, <3>1, versions \in Seq(Writers), AroundPlace
      <4>3. versions' = A \o B
        BY ONLY <3>4 DEF RemoveAt
      <4> HIDE DEF A, B
      <4>4. Len(versions') = Len(A) + Len(B) /\ versions' \in Seq(Writers)
        BY ONLY <4>1, <4>2, <4>3, ConcatProperties
      <4>5. DOMAIN versions' = S
        BY ONLY <1>1, <3>1, <4>1, <4>2, <4>4
      <4>6. \A i \in S : versions'[i] = IF i <= Len(A) THEN A[i] ELSE B[i - Len(A)]
        BY ONLY <1>1, <3>1, <4>1, <4>2, <4>3
      <4>7. \A i \in S : versions'[i] = versions[f[i]]
        <5>1. ASSUME NEW i \in S, i < k PROVE versions'[i] = versions[f[i]]
          BY ONLY <1>1, <3>1, <4>1, <4>6, <5>1
        <5>2. ASSUME NEW i \in S, ~(i < k) PROVE versions'[i] = versions[f[i]]
          <6>1. i - Len(A) \in 1..(Len(versions) - k) /\ k + (i - Len(A)) = i + 1 /\ ~(i <= Len(A))
            BY ONLY <1>1, <3>1, <4>1, <5>2
          <6> QED BY ONLY <4>2, <4>6, <5>2, <6>1
        <5> QED BY ONLY <5>1, <5>2
      <4>8. /\ S \subseteq Nat
            /\ \A i \in S : f[i] \in 1..Len(versions) /\ f[i] # k
            /\ \A i, j \in S : f[i] = f[j] => i = j
        BY ONLY <1>1, <3>1
      <4> HIDE DEF S, f
      <4>9. \A i \in S : Writing(pc'[versions'[i]])
        BY ONLY <1>1, <2>1, <3>2, <4>7, <4>8, OnePlace DEF OnePlace
      <4>10. ASSUME NEW i \in S, NEW j \in S, versions'[i] = versions'[j] PROVE i = j
        <5>1. f[i] = f[j]
          BY ONLY <1>1, <4>7, <4>8, <4>10, OnePlace DEF OnePlace
        <5> QED BY ONLY <4>8, <5>1
      <4> QED BY ONLY <4>5, <4>9, <4>10 DEF OnePlace
    <3> QED BY ONLY <1>5, <2>3, <3>3, <3>4 DEF Activate, GiveUp, Above, k
  <2> QED BY <2>2, <2>3
<1>6. ASSUME NEW w \in Writers, \/ LockAndLoad(w) \/ WriteAccounts(w)
                                \/ (w \in Requests /\ (Fallback(w) \/ Load(w)))
      PROVE  OnePlace'
  BY <1>1, <1>3, <1>6, Kinds DEF LockAndLoad, WriteAccounts, Fallback, Load, At, Goto, After, redis
<1>7. ASSUME NEW p \in Pollers, Poll(p) PROVE OnePlace'
  BY <1>1, <1>3, <1>7, Kinds
     DEF Poll, ListAfter, Handle, SetWatermark, Stamp, SetAccount, At, Goto, redis
<1>8. ASSUME NEW u \in Updaters, \/ Update(u)
                                 \/ \E a \in Accounts : InsertInTx(u, a)
                                 \/ \E a \in Accounts, s \in Statuses : Change(u, a, s)
      PROVE  OnePlace'
  BY <1>1, <1>3, <1>8, Kinds
     DEF Update, Enqueue, SyncRead, Sync, Commit, InsertInTx, Change, Goto, redis
<1>9. CASE UNCHANGED vars \/ (\E a \in Accounts : Used(a)) \/ LockExpires
  BY <1>3, <1>9 DEF vars, Used, LockExpires, redis
<1>10. ASSUME NEW w \in Writers, Rebuild(w) \/ Fail(w) \/ Crash(w) PROVE OnePlace'
  BY ONLY <1>4, <1>5, <1>6, <1>10 DEF Rebuild, Fail, Crash
<1>11. ASSUME NEW q \in Requests, Fallback(q) \/ Load(q) PROVE OnePlace'
  BY ONLY <1>6, <1>11, Kinds
<1> QED BY ONLY [Next]_vars, <1>7, <1>8, <1>9, <1>10, <1>11 DEF Next

-----------------------------------------------------------------------------
(* What each process works on *)

\* Every step keeps what is known of it.
LEMMA WorkInvStep ==
  ASSUME Types, WorkInv, HandledInv, [Next]_vars
  PROVE  WorkInv'
<1> USE Kinds DEF Types, WorkInv, Loaded, redis, progress, polling, local, At, Goto, Free, EndBatch
<1>1. CASE UNCHANGED <<pc, local>>
  BY <1>1
<1>2. ASSUME NEW u \in Updaters, NEW a \in Accounts, InsertInTx(u, a) PROVE WorkInv'
  BY <1>2 DEF InsertInTx
<1>3. ASSUME NEW u \in Updaters, NEW a \in Accounts, NEW s \in Statuses, Change(u, a, s)
      PROVE  WorkInv'
  BY <1>3 DEF Change
<1>4. ASSUME NEW u \in Updaters, Update(u) PROVE WorkInv'
  <2>1. /\ \A p \in Processes : p # u => pc'[p] = pc[p]
        /\ \A p \in Updaters \cup Pollers : p # u => subject'[p] = subject[p] /\ row'[p] = row[p]
        /\ loaded' = loaded
    <3>1. CASE Enqueue(u)
      BY <3>1 DEF Enqueue
    <3>2. CASE SyncRead(u)
      BY <3>2 DEF SyncRead
    <3>3. CASE Sync(u)
      BY <3>3 DEF Sync
    <3>4. CASE Commit(u)
      BY <3>4 DEF Commit
    <3> QED BY ONLY <1>4, <3>1, <3>2, <3>3, <3>4 DEF Update
  <2>2. pc'[u] = "idle" \/ (subject' = subject /\ pc[u] \in {"enqueue", "sync"})
    <3>1. CASE Enqueue(u)
      BY <3>1 DEF Enqueue
    <3>2. CASE SyncRead(u)
      BY <3>2 DEF SyncRead
    <3>3. CASE Sync(u) \/ Commit(u)
      BY <3>3 DEF Sync, Commit
    <3> QED BY ONLY <1>4, <3>1, <3>2, <3>3 DEF Update
  <2> QED BY <2>1, <2>2
<1>5. ASSUME NEW a \in Accounts, Used(a) PROVE WorkInv'
  BY <1>1, <1>5 DEF Used
<1>6. ASSUME NEW p \in Pollers, ListAfter(p) \/ SetWatermark(p) \/ Stamp(p) \/ SetAccount(p)
      PROVE  WorkInv'
  <2>1. /\ \A v \in Processes : v # p => pc'[v] = pc[v]
        /\ \A v \in Updaters \cup Pollers : v # p => subject'[v] = subject[v] /\ row'[v] = row[v]
        /\ loaded' = loaded
    BY <1>6 DEF ListAfter, SetWatermark, Stamp, SetAccount
  <2>2. pc'[p] \in {"next", "idle", "lock"}
    BY <1>6 DEF ListAfter, SetWatermark, Stamp, SetAccount
  <2> QED BY <2>1, <2>2
<1>7. ASSUME NEW p \in Pollers, Handle(p) PROVE WorkInv'
  <2> DEFINE e == outbox[Min(batch[p])]
  <2>1. e \in Events
    BY <1>7, NextEvent DEF Handle
  <2>2. e.account \in Accounts /\ e.kind \in {"changed", "used"}
    BY <2>1 DEF Events
  <2>3. subject' = [subject EXCEPT ![p] = e.account]
    BY <1>7 DEF Handle
  <2>4. row' = [row EXCEPT ![p] = IF e.kind = "changed" THEN db[e.account] ELSE cached[e.account]]
    BY <1>7 DEF Handle
  <2>5. pc' = [pc EXCEPT ![p] = IF e.kind = "changed" THEN "set" ELSE "stamp"]
    BY <1>7 DEF Handle
  <2>6. loaded' = loaded
    BY <1>7 DEF Handle
  <2> HIDE DEF e
  <2> QED BY <2>2, <2>3, <2>4, <2>5, <2>6
<1>8. ASSUME NEW w \in Writers,
             LockAndLoad(w) \/ Version(w) \/ WriteAccounts(w) \/ Activate(w)
             \/ (w \in Requests /\ (Fallback(w) \/ Load(w)))
      PROVE  WorkInv'
  <2>1. /\ \A v \in Processes : v # w => pc'[v] = pc[v]
        /\ \A v \in Writers : v # w => loaded'[v] = loaded[v]
        /\ subject' = subject /\ row' = row
    BY <1>8 DEF LockAndLoad, Version, WriteAccounts, Activate, Fallback, Load
  <2>2. \/ pc'[w] \in {"idle", "next", "load"}
        \/ pc'[w] \in Loaded /\ loaded'[w] = db
        \/ pc'[w] \in Loaded /\ pc[w] \in Loaded /\ loaded' = loaded
    BY <1>8 DEF LockAndLoad, Version, WriteAccounts, Activate, Fallback, Load, After, AfterVersion
  <2> QED BY <2>1, <2>2
<1>9. ASSUME NEW w \in Writers, Fail(w) \/ Crash(w) PROVE WorkInv'
  <2>1. /\ \A v \in Processes : v # w => pc'[v] = pc[v]
        /\ \A v \in Writers : v # w => loaded'[v] = loaded[v]
        /\ \A v \in Updaters \cup Pollers : v # w => subject'[v] = subject[v] /\ row'[v] = row[v]
    BY <1>9 DEF Fail, Crash, GiveUp
  <2>2. pc'[w] = "idle"
    BY <1>9 DEF Fail, Crash, GiveUp
  <2> QED BY <2>1, <2>2
<1>10. CASE LockExpires
  BY <1>1, <1>10 DEF LockExpires
<1>11. CASE UNCHANGED vars
  BY <1>1, <1>11 DEF vars
<1>12. \A q \in Requests : Fallback(q) \/ Load(q) => WorkInv'
  BY <1>8, Kinds
<1>13. \A w \in Writers : Rebuild(w) => WorkInv'
  BY <1>8 DEF Rebuild
<1>14. \A p \in Pollers : Poll(p) => WorkInv'
  BY <1>6, <1>7 DEF Poll
<1> QED BY ONLY [Next]_vars, <1>2, <1>3, <1>4, <1>5, <1>9, <1>10, <1>11, <1>12, <1>13, <1>14
        DEF Next

-----------------------------------------------------------------------------
(* Listed accounts are cached *)

\* A deleted account stays deleted.
LEMMA DeletedStays ==
  ASSUME Types, WorkInv, [Next]_vars, NEW a \in Accounts, Deleted(a)
  PROVE  Deleted(a)'
<1>1. CASE UNCHANGED db
  BY <1>1 DEF Deleted
<1>2. ASSUME NEW u \in Updaters, Commit(u) PROVE Deleted(a)'
  <2>1. db[a] \in Rows /\ db' = [db EXCEPT ![subject[u]].version = @ + 1]
    BY <1>2 DEF Commit, Types
  <2> QED BY <2>1 DEF Deleted, Types, Rows
<1>3. ASSUME NEW u \in Updaters, NEW b \in Accounts, NEW s \in Statuses, Change(u, b, s)
      PROVE  Deleted(a)'
  <2>1. b # a
    BY <1>3 DEF Change, Bump, Deleted
  <2> QED BY <1>3, <2>1 DEF Change, Bump, Deleted, Types
<1>4. ASSUME NEW u \in Updaters, Update(u) PROVE Commit(u) \/ UNCHANGED db
  BY <1>4 DEF Update, Enqueue, SyncRead, Sync
<1>5. ASSUME NEW u \in Updaters, NEW b \in Accounts, InsertInTx(u, b) PROVE UNCHANGED db
  BY <1>5 DEF InsertInTx
<1>6. ASSUME NEW p \in Pollers, Poll(p) PROVE UNCHANGED db
  BY <1>6 DEF Poll, ListAfter, Handle, SetWatermark, Stamp, SetAccount
<1>7. ASSUME NEW w \in Writers, Rebuild(w) \/ Fail(w) \/ Crash(w) PROVE UNCHANGED db
  BY <1>7 DEF Rebuild, LockAndLoad, Version, WriteAccounts, Activate, Fail, Crash
<1>8. ASSUME NEW q \in Requests, Fallback(q) \/ Load(q) PROVE UNCHANGED db
  BY <1>8 DEF Fallback, Load
<1>9. ASSUME NEW b \in Accounts, Used(b) PROVE UNCHANGED db
  BY <1>9 DEF Used
<1>10. CASE LockExpires \/ UNCHANGED vars
  BY <1>1, <1>10 DEF LockExpires, vars
<1> QED BY ONLY [Next]_vars, <1>1, <1>2, <1>3, <1>4, <1>5, <1>6, <1>7, <1>8, <1>9, <1>10 DEF Next

\* Only a deleted account is taken out of the cache.
LEMMA CacheKept ==
  ASSUME Types, WorkInv, CachedInv, [Next]_vars, NEW a \in Accounts, cached'[a] = None
  PROVE  cached[a] = None \/ Deleted(a)
<1> USE NoneAssumption, Kinds DEF Types, redis, progress, polling, local, At, Goto
<1>1. ASSUME NEW u \in Updaters, Sync(u) PROVE cached[a] = None \/ Deleted(a)
  BY <1>1 DEF Sync, CachedInv, WorkInv
<1>2. ASSUME NEW p \in Pollers, Stamp(p) PROVE cached[a] = None \/ Deleted(a)
  BY <1>2 DEF Stamp
<1>3. ASSUME NEW p \in Pollers, SetAccount(p) PROVE cached[a] = None \/ Deleted(a)
  BY <1>3 DEF SetAccount, Cacheable, CachedInv, WorkInv
<1>4. ASSUME NEW w \in Writers, WriteAccounts(w) PROVE cached[a] = None \/ Deleted(a)
  BY <1>4 DEF WriteAccounts, WorkInv, Loaded
<1>5. CASE UNCHANGED cached
  BY <1>5
<1>6. ASSUME NEW u \in Updaters, Update(u) PROVE Sync(u) \/ UNCHANGED cached
  BY <1>6 DEF Update, Enqueue, SyncRead, Commit
<1>7. ASSUME NEW u \in Updaters, NEW b \in Accounts,
             InsertInTx(u, b) \/ \E s \in Statuses : Change(u, b, s)
      PROVE  UNCHANGED cached
  BY <1>7 DEF InsertInTx, Change
<1>8. ASSUME NEW p \in Pollers, Poll(p) PROVE Stamp(p) \/ SetAccount(p) \/ UNCHANGED cached
  BY <1>8 DEF Poll, ListAfter, Handle, SetWatermark
<1>9. ASSUME NEW w \in Writers, Rebuild(w) \/ Fail(w) \/ Crash(w)
      PROVE  WriteAccounts(w) \/ UNCHANGED cached
  BY <1>9 DEF Rebuild, LockAndLoad, Version, Activate, Fail, Crash
<1>10. ASSUME NEW q \in Requests, Fallback(q) \/ Load(q) PROVE UNCHANGED cached
  BY <1>10 DEF Fallback, Load
<1>11. ASSUME NEW b \in Accounts, Used(b) PROVE UNCHANGED cached
  BY <1>11 DEF Used
<1>12. CASE LockExpires \/ UNCHANGED vars
  BY <1>5, <1>12 DEF LockExpires, vars
<1> QED BY ONLY [Next]_vars, <1>1, <1>2, <1>3, <1>4, <1>5, <1>6, <1>7, <1>8, <1>9, <1>10, <1>11,
                <1>12 DEF Next

\* The list is what it was, or what a writer whose accounts are cached has read.
LEMMA ListStep ==
  ASSUME Types, WorkInv, CachedInv, [Next]_vars
  PROVE  ListedIsCached'
<1> USE DEF Types, redis, progress, polling, local, At, Goto
<1>1. ASSUME UNCHANGED active PROVE ListedIsCached'
  <2>1. List' = List /\ List \subseteq Accounts
    BY <1>1 DEF List, Schedulable
  <2>2. \A a \in List : cached'[a] = None => Deleted(a)'
    BY <2>1, CacheKept, DeletedStays DEF CachedInv, ListedIsCached, Deleted
  <2> QED BY <2>1, <2>2 DEF ListedIsCached, Deleted
<1>2. ASSUME NEW w \in Writers, At(w, "activate"), active' = loaded[w] PROVE ListedIsCached'
  <2>1. List' \subseteq Schedulable(loaded[w]) /\ List' \subseteq Accounts
    BY <1>2 DEF List, Schedulable
  <2>2. \A a \in List' : cached'[a] = None => Deleted(a)'
    BY <1>2, <2>1, CacheKept, DeletedStays DEF CachedInv
  <2> QED BY <2>2 DEF ListedIsCached, Deleted
<1>3. ASSUME NEW w \in Writers, Rebuild(w)
      PROVE  UNCHANGED active \/ (At(w, "activate") /\ active' = loaded[w])
  BY <1>3 DEF Rebuild, LockAndLoad, Version, WriteAccounts, Activate
<1>4. ASSUME NEW w \in Writers, Fail(w) \/ Crash(w) PROVE UNCHANGED active
  BY <1>4 DEF Fail, Crash
<1>5. ASSUME NEW u \in Updaters, Update(u) PROVE UNCHANGED active
  BY <1>5 DEF Update, Enqueue, SyncRead, Sync, Commit
<1>6. ASSUME NEW u \in Updaters, NEW b \in Accounts,
             InsertInTx(u, b) \/ \E s \in Statuses : Change(u, b, s)
      PROVE  UNCHANGED active
  BY <1>6 DEF InsertInTx, Change
<1>7. ASSUME NEW p \in Pollers, Poll(p) PROVE UNCHANGED active
  BY <1>7 DEF Poll, ListAfter, Handle, SetWatermark, Stamp, SetAccount
<1>8. ASSUME NEW q \in Requests, Fallback(q) \/ Load(q) PROVE UNCHANGED active
  BY <1>8 DEF Fallback, Load
<1>9. ASSUME NEW b \in Accounts, Used(b) PROVE UNCHANGED active
  BY <1>9 DEF Used
<1>10. CASE LockExpires \/ UNCHANGED vars
  BY <1>1, <1>10 DEF LockExpires, vars
<1> QED BY ONLY [Next]_vars, <1>1, <1>2, <1>3, <1>4, <1>5, <1>6, <1>7, <1>8, <1>9, <1>10 DEF Next

\* Every step keeps what the list rests on.
LEMMA CachedInvStep ==
  ASSUME Types, Types', WorkInv, WorkInv', CachedInv, HandledInv, [Next]_vars
  PROVE  CachedInv'
<1> USE NoneAssumption, Kinds DEF Types, redis, progress, polling, local, At, Goto, Free, EndBatch
<1>1. ListedIsCached'
  BY ListStep
<1>2. \A a \in Accounts : Deleted(a) => Deleted(a)'
  BY DeletedStays
<1>3. \A a \in Accounts : cached'[a] = None => cached[a] = None \/ Deleted(a)'
  BY <1>2, CacheKept
<1> DEFINE Activating == \A w \in Writers : At(w, "activate") =>
                           \A a \in Schedulable(loaded[w]) : cached[a] = None => Deleted(a)
           Setting == \A p \in Pollers :
                        At(p, "set") /\ row[p].status = "deleted" => Deleted(subject[p])
           Updating == \A u \in Updaters : /\ At(u, "store") => row[u] # None
                                           /\ At(u, "drop") => Deleted(subject[u])
<1>4. Activating /\ Setting /\ Updating
  BY DEF CachedInv
<1>5. ASSUME \A w \in Writers : pc'[w] = "activate" => pc[w] = "activate" /\ loaded'[w] = loaded[w]
      PROVE  Activating'
  <2>1. \A w \in Writers : pc'[w] = "activate" => loaded[w] \in [Accounts -> Rows]
    BY <1>5 DEF WorkInv, Loaded
  <2>2. \A w \in Writers : pc'[w] = "activate" => Schedulable(loaded[w]) \subseteq Accounts
    BY DEF Schedulable
  <2> QED BY <1>2, <1>3, <1>4, <1>5, <2>2 DEF Schedulable
<1>6. ASSUME \A p \in Pollers : pc'[p] = "set" =>
               pc[p] = "set" /\ row'[p] = row[p] /\ subject'[p] = subject[p]
      PROVE  Setting'
  BY <1>2, <1>4, <1>6 DEF WorkInv
<1>7. ASSUME \A u \in Updaters : pc'[u] \in {"store", "drop"} =>
               pc'[u] = pc[u] /\ row'[u] = row[u] /\ subject'[u] = subject[u]
      PROVE  Updating'
  BY <1>2, <1>4, <1>7 DEF WorkInv
<1>8. ASSUME UNCHANGED <<pc, loaded, row, subject>> PROVE CachedInv'
  <2>1. Activating'
    BY <1>5, <1>8
  <2>2. Setting'
    BY <1>6, <1>8
  <2>3. Updating'
    BY <1>7, <1>8
  <2> QED BY <1>1, <2>1, <2>2, <2>3 DEF CachedInv
<1>9. ASSUME NEW u \in Updaters, Update(u) PROVE CachedInv'
  <2>1. /\ loaded' = loaded
        /\ \A v \in Processes : v # u => pc'[v] = pc[v]
        /\ \A v \in Updaters \cup Pollers : v # u => row'[v] = row[v] /\ subject'[v] = subject[v]
    BY <1>9 DEF Update, Enqueue, SyncRead, Sync, Commit
  <2>2. Activating'
    BY <1>5, <2>1
  <2>3. Setting'
    BY <1>6, <2>1
  <2>8. ASSUME /\ pc'[u] = "store" => row'[u] # None
               /\ pc'[u] = "drop" => Deleted(subject[u])'
        PROVE  Updating'
    <3>1. \A v \in Updaters : v # u =>
            /\ pc'[v] = "store" => row'[v] # None
            /\ pc'[v] = "drop" => subject'[v] \in Accounts /\ subject'[v] = subject[v]
                                  /\ Deleted(subject[v])
      BY <1>4, <2>1 DEF WorkInv
    <3>2. \A v \in Updaters : v # u /\ pc'[v] = "drop" => Deleted(subject[v])'
      BY <1>2, <3>1 DEF Deleted
    <3> QED BY <2>8, <3>1, <3>2
  <2>4. CASE Enqueue(u)
    <3>1. subject[u] \in Accounts /\ UNCHANGED db
      BY <2>4 DEF Enqueue, WorkInv
    <3>2. \/ pc'[u] \in {"idle", "sync"}
          \/ pc'[u] = "drop" /\ subject' = subject /\ Deleted(subject[u])
      BY <2>4 DEF Enqueue, Deleted
    <3>3. /\ pc'[u] = "store" => row'[u] # None
          /\ pc'[u] = "drop" => Deleted(subject[u])'
      BY <3>1, <3>2 DEF Deleted
    <3>4. Updating'
      BY <2>8, <3>3
    <3> QED BY <1>1, <2>2, <2>3, <3>4 DEF CachedInv
  <2>5. CASE SyncRead(u)
    <3>1. subject[u] \in Accounts
      BY <2>5 DEF SyncRead, WorkInv
    <3>2. \/ pc'[u] = "idle"
          \/ pc'[u] = "store" /\ row'[u] = db[subject[u]]
      BY <2>5 DEF SyncRead
    <3>3. /\ pc'[u] = "store" => row'[u] # None
          /\ pc'[u] # "drop"
      BY <3>1, <3>2
    <3>4. Updating'
      BY <2>8, <3>3
    <3> QED BY <1>1, <2>2, <2>3, <3>4 DEF CachedInv
  <2>6. CASE Sync(u) \/ Commit(u)
    <3>1. pc'[u] = "idle"
      BY <2>6 DEF Sync, Commit
    <3>2. Updating'
      BY <1>7, <2>1, <3>1
    <3> QED BY <1>1, <2>2, <2>3, <3>2 DEF CachedInv
  <2> QED BY ONLY <1>9, <2>4, <2>5, <2>6 DEF Update
<1>10. ASSUME NEW u \in Updaters, NEW b \in Accounts,
              InsertInTx(u, b) \/ \E s \in Statuses : Change(u, b, s)
       PROVE  CachedInv'
  <2>1. /\ loaded' = loaded /\ row' = row
        /\ \A v \in Processes : v # u => pc'[v] = pc[v]
        /\ \A v \in Updaters \cup Pollers : v # u => subject'[v] = subject[v]
    BY <1>10 DEF InsertInTx, Change
  <2>2. pc'[u] \in {"enqueue", "commit"}
    BY <1>10 DEF InsertInTx, Change
  <2>3. Activating'
    BY <1>5, <2>1
  <2>4. Setting'
    BY <1>6, <2>1
  <2>5. Updating'
    BY <1>7, <2>1, <2>2
  <2> QED BY <1>1, <2>3, <2>4, <2>5 DEF CachedInv
<1>11. ASSUME NEW p \in Pollers, Poll(p) PROVE CachedInv'
  <2>1. /\ loaded' = loaded
        /\ \A v \in Processes : v # p => pc'[v] = pc[v]
        /\ \A v \in Updaters \cup Pollers : v # p => row'[v] = row[v] /\ subject'[v] = subject[v]
    BY <1>11 DEF Poll, ListAfter, Handle, SetWatermark, Stamp, SetAccount
  <2>2. pc'[p] # "activate"
    BY <1>11 DEF Poll, ListAfter, Handle, SetWatermark, Stamp, SetAccount
  <2>3. Activating'
    BY <1>5, <2>1, <2>2
  <2>4. Updating'
    BY <1>7, <2>1
  <2>5. CASE Handle(p)
    <3> DEFINE e == outbox[Min(batch[p])]
    <3>1. e.account \in Accounts
      BY <2>5, NextEvent DEF Handle, Events
    <3>2. subject'[p] = e.account /\ UNCHANGED db
      BY <2>5 DEF Handle
    <3>3. pc'[p] = "set" => row'[p] = db[e.account]
      BY <2>5 DEF Handle
    <3> HIDE DEF e
    <3>4. pc'[p] = "set" /\ row'[p].status = "deleted" => Deleted(subject[p])'
      BY <3>1, <3>2, <3>3 DEF Deleted
    <3>5. Setting'
      BY <1>2, <1>4, <2>1, <3>4 DEF WorkInv
    <3> QED BY <1>1, <2>3, <2>4, <3>5 DEF CachedInv
  <2>6. CASE ListAfter(p) \/ SetWatermark(p) \/ Stamp(p) \/ SetAccount(p)
    <3>1. pc'[p] # "set"
      BY <2>6 DEF ListAfter, SetWatermark, Stamp, SetAccount
    <3>2. Setting'
      BY <1>6, <2>1, <3>1
    <3> QED BY <1>1, <2>3, <2>4, <3>2 DEF CachedInv
  <2> QED BY ONLY <1>11, <2>5, <2>6 DEF Poll
<1>12. ASSUME NEW w \in Writers,
              Rebuild(w) \/ Fail(w) \/ Crash(w) \/ (w \in Requests /\ (Fallback(w) \/ Load(w)))
       PROVE  CachedInv'
  <2>1. /\ \A v \in Processes : v # w => pc'[v] = pc[v]
        /\ \A v \in Writers : v # w => loaded'[v] = loaded[v]
        /\ \A v \in Updaters \cup Pollers : v # w => row'[v] = row[v] /\ subject'[v] = subject[v]
    BY <1>12 DEF Rebuild, LockAndLoad, Version, WriteAccounts, Activate, Fail, Crash, GiveUp,
                 Fallback, Load
  <2>2. pc'[w] # "set"
    BY <1>12 DEF Rebuild, LockAndLoad, Version, WriteAccounts, Activate, Fail, Crash, GiveUp,
                 Fallback, Load, After, AfterVersion
  <2>3. Setting'
    BY <1>6, <2>1, <2>2
  <2>4. Updating'
    BY <1>7, <2>1
  <2>5. CASE WriteAccounts(w)
    <3>1. loaded[w] \in [Accounts -> Rows] /\ loaded' = loaded
      BY <2>5 DEF WriteAccounts, WorkInv, Loaded
    <3>2. \A a \in Schedulable(loaded[w]) : cached'[a] # None
      BY <2>5, <3>1 DEF WriteAccounts, Schedulable
    <3>3. \A v \in Writers : v # w /\ pc'[v] = "activate" =>
            \A a \in Schedulable(loaded'[v]) : cached'[a] = None => Deleted(a)'
      BY <1>2, <1>3, <1>4, <2>1 DEF Schedulable
    <3>4. Activating'
      BY <3>1, <3>2, <3>3 DEF Schedulable
    <3> QED BY <1>1, <2>3, <2>4, <3>4 DEF CachedInv
  <2>6. CASE ~WriteAccounts(w)
    <3>1. pc'[w] # "activate"
      BY <1>12, <2>6 DEF Rebuild, LockAndLoad, Version, Activate, Fail, Crash, Fallback, Load,
                         After, AfterVersion
    <3>2. Activating'
      BY <1>5, <2>1, <3>1
    <3> QED BY <1>1, <2>3, <2>4, <3>2 DEF CachedInv
  <2> QED BY <2>5, <2>6
<1>13. ASSUME NEW b \in Accounts, Used(b) PROVE CachedInv'
  BY <1>8, <1>13 DEF Used
<1>14. CASE LockExpires \/ UNCHANGED vars
  BY <1>8, <1>14 DEF LockExpires, vars
<1>15. \A q \in Requests : Fallback(q) \/ Load(q) => CachedInv'
  BY <1>12, Kinds
<1> QED BY ONLY [Next]_vars, <1>9, <1>10, <1>11, <1>12, <1>13, <1>14, <1>15 DEF Next

-----------------------------------------------------------------------------
(* Events reach the cache before the watermark passes them *)

\* A step that leaves the outbox and the batches alone keeps what is known of them.
LEMMA HandledFrame ==
  ASSUME Types, Types', HandledInv, UNCHANGED <<outbox, watermark, missed, handled, batch, last>>,
         \A a \in Accounts : db'[a].version >= db[a].version,
         \A p \in Pollers : pc[p] = "set" =>
           pc'[p] = "set" /\ subject'[p] = subject[p] /\ row'[p] = row[p]
  PROVE  HandledInv'
<1>1. \A i \in DOMAIN outbox : outbox[i] \in Events
  BY ElementOfSeq DEF Types
<1>2. \A a \in Accounts : db[a].version \in Nat /\ db'[a].version \in Nat
  BY DEF Types, Rows
<1>3. \A i \in DOMAIN outbox : outbox[i].kind = "changed" =>
        outbox[i].version <= db'[outbox[i].account].version
                             + (IF outbox[i].committed THEN 0 ELSE 1)
  BY <1>1, <1>2 DEF HandledInv, Events
<1>4. HandledBeforeWatermark'
  BY DEF HandledInv, HandledBeforeWatermark
<1>5. \A p \in Pollers, i \in DOMAIN outbox : Storing(p, i) => Storing(p, i)'
  BY DEF Storing, At
<1> QED BY <1>3, <1>4, <1>5 DEF HandledInv, Due, Stored

\* An event that is inserted is above the watermark and in nobody's batch.
LEMMA HandledInsert ==
  ASSUME Types, HandledInv, UNCHANGED <<db, watermark, missed, handled, batch, last>>,
         NEW a \in Accounts, NEW kind \in {"changed", "used"}, NEW version \in Nat,
         NEW committed \in BOOLEAN, Insert(a, kind, version, committed),
         kind = "changed" => version <= db[a].version + (IF committed THEN 0 ELSE 1),
         \A p \in Pollers : pc[p] = "set" =>
           pc'[p] = "set" /\ subject'[p] = subject[p] /\ row'[p] = row[p]
  PROVE  HandledInv'
<1> DEFINE n == Len(outbox) + 1
<1>1. /\ Len(outbox) \in Nat /\ Len(outbox') = n /\ DOMAIN outbox = 1..Len(outbox)
      /\ DOMAIN outbox' = 1..n /\ n \in DOMAIN outbox'
      /\ \A i \in DOMAIN outbox : outbox'[i] = outbox[i]
      /\ outbox'[n].account = a /\ outbox'[n].kind = kind /\ outbox'[n].version = version
      /\ outbox'[n].committed = committed
  BY InsertOutbox DEF Types
<1>2. \A i \in DOMAIN outbox' : i = n \/ i \in DOMAIN outbox
  BY <1>1
<1>3. watermark \in Nat /\ watermark < n /\ \A p \in Pollers : last[p] \in Nat /\ last[p] < n
  BY <1>1 DEF HandledInv, Types
<1>4. HandledBeforeWatermark'
  BY <1>1, <1>2, <1>3 DEF HandledInv, HandledBeforeWatermark
<1>5. \A i \in DOMAIN outbox' : outbox'[i].kind = "changed" =>
        outbox'[i].version <= db'[outbox'[i].account].version
                              + (IF outbox'[i].committed THEN 0 ELSE 1)
  BY <1>1, <1>2 DEF HandledInv
<1>6. \A p \in Pollers, i \in DOMAIN outbox :
        (Storing(p, i) => Storing(p, i)') /\ (Stored(i) => Stored(i)') /\ (Due(i)' => Due(i))
  BY <1>1 DEF Storing, Stored, Due, At
<1>7. ASSUME NEW p \in Pollers
      PROVE  /\ last'[p] <= Len(outbox')
             /\ \A i \in batch'[p] : i \in DOMAIN outbox' /\ outbox'[i].committed
             /\ \A i \in DOMAIN outbox' :
                  i <= last'[p] /\ Due(i)' => i \in batch'[p] \/ Stored(i)' \/ Storing(p, i)'
  <2>1. last'[p] <= Len(outbox')
    BY <1>1, <1>3
  <2>2. \A i \in batch'[p] : i \in DOMAIN outbox' /\ outbox'[i].committed
    BY <1>1 DEF HandledInv
  <2>3. ASSUME NEW i \in DOMAIN outbox', i <= last'[p], Due(i)'
        PROVE  i \in batch'[p] \/ Stored(i)' \/ Storing(p, i)'
    <3>1. i \in DOMAIN outbox
      BY <1>1, <1>2, <1>3, <2>3
    <3> QED BY <1>6, <2>3, <3>1 DEF HandledInv
  <2> QED BY <2>1, <2>2, <2>3
<1>8. watermark' <= Len(outbox')
  BY <1>1, <1>3
<1> QED BY <1>4, <1>5, <1>7, <1>8 DEF HandledInv

\* A poller that ends its batch, whether it has set the watermark or not, leaves the
\* others to theirs.
LEMMA HandledEnd ==
  ASSUME Types, HandledInv, NEW p \in Pollers,
         UNCHANGED <<db, outbox, missed, handled>>,
         watermark' = watermark \/ (watermark' = last[p] /\ batch[p] = {} /\ pc[p] # "set"),
         batch' = [batch EXCEPT ![p] = {}], last' = [last EXCEPT ![p] = 0],
         subject' = [subject EXCEPT ![p] = None], row' = [row EXCEPT ![p] = None],
         \A q \in Pollers : q # p => pc'[q] = pc[q]
  PROVE  HandledInv'
<1>1. Len(outbox) \in Nat /\ DOMAIN outbox = 1..Len(outbox)
  BY DEF Types
<1>2. HandledBeforeWatermark'
  <2>1. CASE watermark' = watermark
    BY <2>1 DEF HandledInv, HandledBeforeWatermark
  <2>2. CASE watermark' = last[p] /\ batch[p] = {} /\ pc[p] # "set"
    <3>1. \A i \in DOMAIN outbox : i <= last[p] /\ Due(i) => Stored(i)
      BY <2>2 DEF HandledInv, Storing, At
    <3> QED BY <2>2, <3>1 DEF HandledBeforeWatermark, Due, Stored
  <2> QED BY <2>1, <2>2
<1>3. watermark' <= Len(outbox')
  BY DEF HandledInv
<1>4. ASSUME NEW q \in Pollers
      PROVE  /\ last'[q] <= Len(outbox')
             /\ \A i \in batch'[q] : i \in DOMAIN outbox' /\ outbox'[i].committed
             /\ \A i \in DOMAIN outbox' :
                  i <= last'[q] /\ Due(i)' => i \in batch'[q] \/ Stored(i)' \/ Storing(q, i)'
  <2>1. CASE q = p
    <3>1. last'[q] = 0 /\ batch'[q] = {}
      BY <2>1 DEF Types
    <3> QED BY <1>1, <3>1
  <2>2. CASE q # p
    <3>1. /\ last'[q] = last[q] /\ batch'[q] = batch[q] /\ pc'[q] = pc[q]
          /\ subject'[q] = subject[q] /\ row'[q] = row[q]
      BY <2>2 DEF Types
    <3>2. \A i \in DOMAIN outbox : Storing(q, i)' <=> Storing(q, i)
      BY <3>1 DEF Storing, At
    <3> QED BY <3>1, <3>2 DEF HandledInv, Due, Stored
  <2> QED BY <2>1, <2>2
<1> QED BY <1>2, <1>3, <1>4 DEF HandledInv

\* A committed change is at most one version above what it was when its events were
\* inserted.
LEMMA HandledCommit ==
  ASSUME Types, Types', WorkInv, HandledInv, NEW u \in Updaters, Commit(u)
  PROVE  HandledInv'
<1> DEFINE a == subject[u]
<1>1. /\ a \in Accounts
      /\ UNCHANGED <<watermark, missed, handled, batch, last>>
      /\ db' = [db EXCEPT ![a].version = @ + 1]
      /\ \A p \in Pollers : pc'[p] = pc[p] /\ subject'[p] = subject[p] /\ row'[p] = row[p]
  BY Kinds DEF Types, WorkInv, Commit, At, Goto, Free, progress, polling
<1> HIDE DEF a
<1>2. /\ Len(outbox') = Len(outbox) /\ DOMAIN outbox' = DOMAIN outbox
      /\ \A i \in DOMAIN outbox :
           /\ outbox'[i].account = outbox[i].account
           /\ outbox'[i].kind = outbox[i].kind
           /\ outbox'[i].version = outbox[i].version
           /\ outbox[i].committed => outbox'[i].committed
           /\ outbox[i].account # a => outbox'[i].committed = outbox[i].committed
  BY CommitOutbox DEF Types, a
<1>3. \A i \in DOMAIN outbox : outbox[i].account \in Accounts /\ outbox[i].version \in Nat
  <2>1. \A i \in DOMAIN outbox : outbox[i] \in Events
    BY ElementOfSeq DEF Types
  <2> QED BY <2>1 DEF Events
<1>4. \A b \in Accounts : db[b].version \in Nat
  BY DEF Types, Rows
<1>5. \A b \in Accounts : db'[b].version = IF b = a THEN db[b].version + 1 ELSE db[b].version
  BY <1>1 DEF Types, Rows
<1>6. ASSUME NEW i \in DOMAIN outbox, outbox[i].kind = "changed"
      PROVE  outbox'[i].version <= db'[outbox'[i].account].version
                                   + (IF outbox'[i].committed THEN 0 ELSE 1)
  <2>1. outbox[i].version <= db[outbox[i].account].version + (IF outbox[i].committed THEN 0 ELSE 1)
    BY <1>6 DEF HandledInv
  <2>2. CASE outbox[i].account = a
    <3>1. db'[outbox'[i].account].version = db[a].version + 1
      BY <1>1, <1>2, <1>5, <2>2
    <3>2. db[a].version \in Nat /\ outbox[i].version \in Nat /\ outbox'[i].version = outbox[i].version
      BY <1>1, <1>2, <1>3, <1>4
    <3>3. outbox[i].version <= db[a].version + 1
      BY <2>1, <2>2, <3>2
    <3> QED BY <3>1, <3>2, <3>3
  <2>3. CASE outbox[i].account # a
    BY <1>2, <1>3, <1>4, <1>5, <2>1, <2>3
  <2> QED BY <2>2, <2>3
<1>7. HandledBeforeWatermark'
  BY <1>1, <1>2 DEF HandledInv, HandledBeforeWatermark
<1>8. \A p \in Pollers, i \in DOMAIN outbox :
        (Storing(p, i) => Storing(p, i)') /\ (Stored(i) => Stored(i)') /\ (Due(i)' => Due(i))
  BY <1>1, <1>2 DEF Storing, Stored, Due, At
<1>9. ASSUME NEW p \in Pollers
      PROVE  /\ last'[p] <= Len(outbox')
             /\ \A i \in batch'[p] : i \in DOMAIN outbox' /\ outbox'[i].committed
             /\ \A i \in DOMAIN outbox' :
                  i <= last'[p] /\ Due(i)' => i \in batch'[p] \/ Stored(i)' \/ Storing(p, i)'
  BY <1>1, <1>2, <1>8 DEF HandledInv
<1> QED BY <1>1, <1>2, <1>6, <1>7, <1>9 DEF HandledInv

\* What an updater does keeps what is known of the events.
LEMMA HandledUpdate ==
  ASSUME Types, Types', WorkInv, HandledInv, NEW u \in Updaters,
         \/ Update(u)
         \/ \E a \in Accounts : InsertInTx(u, a)
         \/ \E a \in Accounts, s \in Statuses : Change(u, a, s)
  PROVE  HandledInv'
<1> USE Kinds DEF progress, polling, local, At, Goto, Free
<1>1. \A a \in Accounts : db[a].version \in Nat
  BY DEF Types, Rows
<1>2. CASE Enqueue(u)
  <2>1. subject[u] \in Accounts
    BY <1>2 DEF Enqueue, WorkInv
  <2>2. /\ UNCHANGED <<db, watermark, missed, handled, batch, last>>
        /\ \A p \in Pollers : pc'[p] = pc[p] /\ subject'[p] = subject[p] /\ row'[p] = row[p]
    BY <1>2 DEF Enqueue, Types
  <2>3. CASE outbox' = outbox
    BY <1>1, <2>2, <2>3, HandledFrame
  <2>4. CASE Insert(subject[u], "changed", db[subject[u]].version, TRUE)
    <3>1. /\ db[subject[u]].version \in Nat /\ "changed" \in {"changed", "used"} /\ TRUE \in BOOLEAN
          /\ db[subject[u]].version <= db[subject[u]].version + (IF TRUE THEN 0 ELSE 1)
      BY <1>1, <2>1
    <3> HIDE DEF progress, polling, local, At, Goto, Free
    <3> QED BY ONLY Types, HandledInv, <2>1, <2>2, <2>4, <3>1, HandledInsert
  <2> QED BY <1>2, <2>3, <2>4 DEF Enqueue
<1>3. CASE SyncRead(u) \/ Sync(u)
  <2>1. UNCHANGED <<db, outbox, watermark, missed, handled, batch, last>>
    BY <1>3 DEF SyncRead, Sync
  <2>2. \A p \in Pollers : pc'[p] = pc[p] /\ subject'[p] = subject[p] /\ row'[p] = row[p]
    BY <1>3 DEF SyncRead, Sync, Types
  <2> QED BY <1>1, <2>1, <2>2, HandledFrame
<1>4. CASE Commit(u)
  BY <1>4, HandledCommit
<1>5. ASSUME NEW a \in Accounts, InsertInTx(u, a) PROVE HandledInv'
  <2>1. /\ UNCHANGED <<db, watermark, missed, handled, batch, last>>
        /\ \A p \in Pollers : pc'[p] = pc[p] /\ subject'[p] = subject[p] /\ row'[p] = row[p]
    BY <1>5 DEF InsertInTx, Types
  <2>2. Insert(a, "changed", db[a].version + 1, FALSE)
    BY <1>5 DEF InsertInTx
  <2>3. /\ "changed" \in {"changed", "used"} /\ FALSE \in BOOLEAN
        /\ db[a].version + 1 \in Nat
        /\ db[a].version + 1 <= db[a].version + (IF FALSE THEN 0 ELSE 1)
    BY <1>1
  <2> QED BY ONLY Types, HandledInv, a \in Accounts, <2>1, <2>2, <2>3, HandledInsert
<1>6. ASSUME NEW a \in Accounts, NEW s \in Statuses, Change(u, a, s) PROVE HandledInv'
  <2>1. /\ UNCHANGED <<outbox, watermark, missed, handled, batch, last>>
        /\ \A p \in Pollers : pc'[p] = pc[p] /\ subject'[p] = subject[p] /\ row'[p] = row[p]
    BY <1>6 DEF Change, Types
  <2>2. db' = [db EXCEPT ![a] = [version |-> db[a].version + 1, status |-> s]]
    BY <1>6 DEF Change, Bump
  <2>3. \A b \in Accounts : db'[b].version >= db[b].version
    BY <1>1, <2>2 DEF Types
  <2> QED BY <2>1, <2>3, HandledFrame
<1> QED BY ONLY <1>2, <1>3, <1>4, <1>5, <1>6,
           \/ Update(u)
           \/ \E a \in Accounts : InsertInTx(u, a)
           \/ \E a \in Accounts, s \in Statuses : Change(u, a, s) DEF Update

\* What a rebuild does, or a writer that fails, keeps it: an interrupted batch is
\* listed again.
LEMMA HandledRebuild ==
  ASSUME Types, Types', HandledInv, NEW w \in Writers,
         Rebuild(w) \/ Fail(w) \/ Crash(w) \/ (w \in Requests /\ (Fallback(w) \/ Load(w)))
  PROVE  HandledInv'
<1> USE Kinds DEF progress, polling, local, At, Goto, Free
<1>1. \A a \in Accounts : db[a].version \in Nat
  BY DEF Types, Rows
<1>2. CASE Rebuild(w) \/ (w \in Requests /\ (Fallback(w) \/ Load(w)))
  <2>1. UNCHANGED <<db, outbox, watermark, missed, handled, batch, last, subject, row>>
    BY <1>2 DEF Rebuild, LockAndLoad, Version, WriteAccounts, Activate, Fallback, Load
  <2>2. pc[w] # "set" /\ \A p \in Processes : p # w => pc'[p] = pc[p]
    BY <1>2 DEF Rebuild, LockAndLoad, Version, WriteAccounts, Activate, Fallback, Load, Types
  <2> QED BY <1>1, <2>1, <2>2, HandledFrame
<1>3. CASE Fail(w) \/ Crash(w)
  <2>1. /\ UNCHANGED <<db, outbox, watermark, missed, handled>>
        /\ \A p \in Processes : p # w => pc'[p] = pc[p]
    BY <1>3 DEF Fail, Crash, Types
  <2>2. CASE w \notin Pollers
    <3>1. UNCHANGED <<batch, last, subject, row>>
      BY <1>3, <2>2 DEF Fail, Crash, GiveUp
    <3> QED BY <1>1, <2>1, <2>2, <3>1, HandledFrame
  <2>3. CASE w \in Pollers
    <3>1. batch' = [batch EXCEPT ![w] = {}] /\ last' = [last EXCEPT ![w] = 0]
      BY <1>3, <2>3 DEF Fail, Crash, GiveUp, EndBatch
    <3>2. /\ subject' = [subject EXCEPT ![w] = None]
          /\ row' = [row EXCEPT ![w] = None]
      BY <1>3, <2>3 DEF Fail, Crash, GiveUp
    <3> QED BY <2>1, <2>3, <3>1, <3>2, HandledEnd
  <2> QED BY <2>2, <2>3
<1> QED BY ONLY <1>2, <1>3,
           Rebuild(w) \/ Fail(w) \/ Crash(w) \/ (w \in Requests /\ (Fallback(w) \/ Load(w)))

\* What a poller does keeps it: a batch is all that is listed, an event leaves it to be
\* stored, and the watermark is set when none is left.
LEMMA HandledPoll ==
  ASSUME Types, Types', WorkInv, HandledInv, NEW p \in Pollers, Poll(p)
  PROVE  HandledInv'
<1> USE Kinds DEF progress, polling, local, At, Goto, Free
<1>1. Len(outbox) \in Nat /\ DOMAIN outbox = 1..Len(outbox)
  BY DEF Types
<1>2. \A i \in DOMAIN outbox : outbox[i] \in Events
  BY ElementOfSeq DEF Types
<1>3. \A i \in DOMAIN outbox : outbox[i].account \in Accounts /\ outbox[i].version \in Nat
  BY <1>2 DEF Events
<1>4. \A a \in Accounts : db[a].version \in Nat
  BY DEF Types, Rows
<1>5. CASE ListAfter(p)
  <2>1. /\ UNCHANGED <<db, outbox, watermark, handled, subject, row>>
        /\ batch' = [batch EXCEPT ![p] = Listed] /\ last' = [last EXCEPT ![p] = Max(Listed)]
        /\ missed' = missed \cup {i \in 1..Max(Listed) : ~outbox[i].committed}
        /\ \A q \in Pollers : q # p => pc'[q] = pc[q]
    BY <1>5 DEF ListAfter, LastId, Types
  <2>2. /\ Listed \subseteq DOMAIN outbox
        /\ Max(Listed) \in Nat /\ Max(Listed) <= Len(outbox)
    BY <1>5, ListedIds DEF ListAfter
  <2>3. HandledBeforeWatermark'
    BY <2>1 DEF HandledInv, HandledBeforeWatermark
  <2>4. \A i \in DOMAIN outbox : Due(i)' => Due(i)
    BY <2>1 DEF Due
  <2>5. ASSUME NEW i \in DOMAIN outbox, i <= Max(Listed), Due(i)'
        PROVE  i \in Listed \/ Stored(i)'
    <3>1. outbox[i].committed
      BY <1>1, <2>1, <2>2, <2>5 DEF Due
    <3>2. CASE i > watermark
      BY <3>1, <3>2 DEF Listed
    <3>3. CASE ~(i > watermark)
      <4>1. i <= watermark
        BY <1>1, <3>3 DEF Types
      <4> QED BY <2>1, <2>4, <2>5, <4>1 DEF HandledInv, HandledBeforeWatermark, Due, Stored
    <3> QED BY <3>2, <3>3
  <2>6. ASSUME NEW q \in Pollers
        PROVE  /\ last'[q] <= Len(outbox')
               /\ \A i \in batch'[q] : i \in DOMAIN outbox' /\ outbox'[i].committed
               /\ \A i \in DOMAIN outbox' :
                    i <= last'[q] /\ Due(i)' => i \in batch'[q] \/ Stored(i)' \/ Storing(q, i)'
    <3>1. CASE q = p
      <4>1. last'[q] = Max(Listed) /\ batch'[q] = Listed
        BY <2>1, <3>1 DEF Types
      <4> QED BY <2>1, <2>2, <2>5, <4>1 DEF Listed
    <3>2. CASE q # p
      <4>1. /\ last'[q] = last[q] /\ batch'[q] = batch[q]
            /\ \A i \in DOMAIN outbox :
                 (Storing(q, i) => Storing(q, i)') /\ (Stored(i) => Stored(i)')
        BY <2>1, <3>2 DEF Types, Storing, Stored
      <4> QED BY <2>1, <2>4, <4>1 DEF HandledInv
    <3> QED BY <3>1, <3>2
  <2> QED BY <2>1, <2>3, <2>6 DEF HandledInv
<1>6. CASE Handle(p)
  <2>0. PICK i : i = Min(batch[p])
    OBVIOUS
  <2> DEFINE a == outbox[i].account
             changed == outbox[i].kind = "changed"
  <2>1. i \in batch[p] /\ i \in DOMAIN outbox /\ outbox[i].committed
    BY <1>6, <2>0, NextEvent DEF Handle
  <2>2. /\ UNCHANGED <<db, outbox, watermark, missed, handled, last>>
        /\ batch' = [batch EXCEPT ![p] = @ \ {i}]
        /\ subject' = [subject EXCEPT ![p] = a]
        /\ row' = [row EXCEPT ![p] = IF changed THEN db[a] ELSE cached[a]]
        /\ pc' = [pc EXCEPT ![p] = IF changed THEN "set" ELSE "stamp"]
        /\ pc[p] = "next"
    BY <1>6, <2>0 DEF Handle
  <2>3. a \in Accounts
    BY <1>3, <2>1
  <2>4. Due(i) => Storing(p, i)'
    <3>1. changed => outbox[i].version <= db[a].version
      BY <1>3, <1>4, <2>1, <2>3 DEF HandledInv
    <3>2. changed => subject'[p] = a /\ row'[p] = db[a] /\ pc'[p] = "set"
      BY <2>2 DEF Types
    <3>3. outbox[i].version \in Nat /\ db[a].version \in Nat /\ outbox' = outbox
      BY <1>3, <1>4, <2>1, <2>2, <2>3
    <3>4. changed => row'[p].version >= outbox[i].version
      BY <3>1, <3>2, <3>3
    <3> QED BY <3>2, <3>3, <3>4 DEF Due, Storing
  <2>5. HandledBeforeWatermark'
    BY <2>2 DEF HandledInv, HandledBeforeWatermark
  <2>6. ASSUME NEW q \in Pollers
        PROVE  /\ last'[q] <= Len(outbox')
               /\ \A j \in batch'[q] : j \in DOMAIN outbox' /\ outbox'[j].committed
               /\ \A j \in DOMAIN outbox' :
                    j <= last'[q] /\ Due(j)' => j \in batch'[q] \/ Stored(j)' \/ Storing(q, j)'
    <3>1. CASE q = p
      <4>1. last'[q] = last[q] /\ batch'[q] = batch[q] \ {i}
        BY <2>2, <3>1 DEF Types
      <4>2. \A j \in DOMAIN outbox : ~Storing(q, j)
        BY <2>2, <3>1 DEF Storing
      <4> QED BY <2>2, <2>4, <3>1, <4>1, <4>2 DEF HandledInv, Due, Stored
    <3>2. CASE q # p
      <4>1. /\ last'[q] = last[q] /\ batch'[q] = batch[q] /\ pc'[q] = pc[q]
            /\ subject'[q] = subject[q] /\ row'[q] = row[q]
        BY <2>2, <3>2 DEF Types
      <4>2. \A j \in DOMAIN outbox : Storing(q, j)' <=> Storing(q, j)
        BY <2>2, <4>1 DEF Storing
      <4> QED BY <2>2, <4>1, <4>2 DEF HandledInv, Due, Stored
    <3> QED BY <3>1, <3>2
  <2>7. \A j \in DOMAIN outbox' : outbox'[j].kind = "changed" =>
          outbox'[j].version <= db'[outbox'[j].account].version
                                + (IF outbox'[j].committed THEN 0 ELSE 1)
    BY <2>2 DEF HandledInv
  <2>8. watermark' <= Len(outbox')
    BY <2>2 DEF HandledInv
  <2> QED BY ONLY <2>5, <2>6, <2>7, <2>8 DEF HandledInv
<1>7. CASE SetWatermark(p)
  <2>1. /\ UNCHANGED <<db, outbox, missed, handled>>
        /\ watermark' = watermark \/ (watermark' = last[p] /\ batch[p] = {} /\ pc[p] # "set")
        /\ batch' = [batch EXCEPT ![p] = {}] /\ last' = [last EXCEPT ![p] = 0]
        /\ subject' = [subject EXCEPT ![p] = None] /\ row' = [row EXCEPT ![p] = None]
    BY <1>7 DEF SetWatermark, EndBatch
  <2>2. \A q \in Pollers : q # p => pc'[q] = pc[q]
    BY <1>7 DEF SetWatermark, Types
  <2> QED BY <2>1, <2>2, HandledEnd
<1>8. CASE Stamp(p)
  <2>1. UNCHANGED <<db, outbox, watermark, missed, handled, batch, last>>
    BY <1>8 DEF Stamp
  <2>2. \A q \in Pollers : pc[q] = "set" =>
          pc'[q] = pc[q] /\ subject'[q] = subject[q] /\ row'[q] = row[q]
    BY <1>8 DEF Stamp, Types
  <2> QED BY <1>4, <2>1, <2>2, HandledFrame
<1>9. CASE SetAccount(p)
  <2> DEFINE a == subject[p]
             m == Max({handled[a], row[p].version})
  <2>1. a \in Accounts /\ row[p] \in Rows /\ handled[a] \in Nat /\ row[p].version \in Nat
    BY <1>9 DEF SetAccount, WorkInv, Types, Rows
  <2>2. m \in Nat /\ m >= handled[a] /\ m >= row[p].version
    BY <2>1, MaxPair
  <2>3. /\ UNCHANGED <<db, outbox, watermark, missed, batch, last>>
        /\ handled' = [handled EXCEPT ![a] = m]
        /\ subject' = [subject EXCEPT ![p] = None] /\ row' = [row EXCEPT ![p] = None]
        /\ \A q \in Pollers : q # p => pc'[q] = pc[q]
    BY <1>9 DEF SetAccount, Types
  <2> HIDE DEF m
  <2>4. \A b \in Accounts : handled[b] \in Nat /\ handled'[b] \in Nat /\ handled'[b] >= handled[b]
    BY <2>1, <2>2, <2>3 DEF Types
  <2>5. \A i \in DOMAIN outbox : Stored(i) => Stored(i)'
    BY <1>3, <2>3, <2>4 DEF Stored
  <2>6. \A i \in DOMAIN outbox : Storing(p, i) => Stored(i)'
    BY <1>3, <2>1, <2>2, <2>3 DEF Storing, Stored, Types
  <2>7. HandledBeforeWatermark'
    <3>1. \A i \in DOMAIN outbox : i <= watermark /\ Due(i) => Stored(i)
      BY DEF HandledInv, HandledBeforeWatermark, Due, Stored
    <3>2. \A i \in DOMAIN outbox : i <= watermark' /\ Due(i)' => Stored(i)'
      BY <2>3, <2>5, <3>1 DEF Due
    <3> QED BY <2>3, <3>2 DEF HandledBeforeWatermark, Due, Stored
  <2>8. ASSUME NEW q \in Pollers
        PROVE  /\ last'[q] <= Len(outbox')
               /\ \A i \in batch'[q] : i \in DOMAIN outbox' /\ outbox'[i].committed
               /\ \A i \in DOMAIN outbox' :
                    i <= last'[q] /\ Due(i)' => i \in batch'[q] \/ Stored(i)' \/ Storing(q, i)'
    <3>1. \A i \in DOMAIN outbox : Storing(q, i) => Storing(q, i)' \/ Stored(i)'
      BY <2>3, <2>6 DEF Storing, Types
    <3> QED BY <2>3, <2>5, <3>1 DEF HandledInv, Due
  <2>9. \A i \in DOMAIN outbox' : outbox'[i].kind = "changed" =>
          outbox'[i].version <= db'[outbox'[i].account].version
                                + (IF outbox'[i].committed THEN 0 ELSE 1)
    BY <2>3 DEF HandledInv
  <2>10. watermark' <= Len(outbox')
    BY <2>3 DEF HandledInv
  <2> QED BY ONLY <2>7, <2>8, <2>9, <2>10 DEF HandledInv
<1> QED BY ONLY Poll(p), <1>5, <1>6, <1>7, <1>8, <1>9 DEF Poll

\* Every step keeps what is known of the events.
LEMMA HandledInvStep ==
  ASSUME Types, Types', WorkInv, HandledInv, [Next]_vars
  PROVE  HandledInv'
<1>1. \A a \in Accounts : db[a].version \in Nat
  BY DEF Types, Rows
<1>2. CASE LockExpires \/ UNCHANGED vars
  <2>1. UNCHANGED <<db, outbox, watermark, missed, handled, batch, last, pc, subject, row>>
    BY <1>2 DEF LockExpires, vars, progress, polling, local
  <2> QED BY <1>1, <2>1, HandledFrame
<1>3. ASSUME NEW a \in Accounts, Used(a) PROVE HandledInv'
  <2>1. UNCHANGED <<db, watermark, missed, handled, batch, last, pc, subject, row>>
    BY <1>3 DEF Used, progress, polling, local
  <2>2. Insert(a, "used", 0, TRUE) /\ "used" \in {"changed", "used"} /\ 0 \in Nat /\ TRUE \in BOOLEAN
    BY <1>3 DEF Used
  <2> QED BY ONLY Types, HandledInv, <2>1, <2>2, a \in Accounts, "used" # "changed", HandledInsert
<1>4. ASSUME NEW q \in Requests, Fallback(q) \/ Load(q) PROVE HandledInv'
  BY <1>4, Kinds, HandledRebuild
<1>5. ASSUME NEW w \in Writers, Rebuild(w) \/ Fail(w) \/ Crash(w) PROVE HandledInv'
  BY <1>5, HandledRebuild
<1>6. ASSUME NEW p \in Pollers, Poll(p) PROVE HandledInv'
  BY <1>6, HandledPoll
<1>7. ASSUME NEW u \in Updaters, \/ Update(u)
                                 \/ \E a \in Accounts : InsertInTx(u, a)
                                 \/ \E a \in Accounts, s \in Statuses : Change(u, a, s)
      PROVE  HandledInv'
  BY <1>7, HandledUpdate
<1> QED BY ONLY [Next]_vars, <1>2, <1>3, <1>4, <1>5, <1>6, <1>7 DEF Next

-----------------------------------------------------------------------------

\* The parts of the invariant hold together.
LEMMA SchedulerInvariant == Spec => [](Types /\ WorkInv /\ CachedInv /\ HandledInv)
<1> DEFINE IInv == Types /\ WorkInv /\ CachedInv /\ HandledInv
<1>1. Init => IInv
  BY SchedulerInit
<1>2. IInv /\ [Next]_vars => IInv'
  <2> SUFFICES ASSUME Types, WorkInv, CachedInv, HandledInv, [Next]_vars
               PROVE  IInv'
    OBVIOUS
  <2>1. Types'
    BY TypeStep
  <2>2. WorkInv'
    BY WorkInvStep
  <2>3. CachedInv'
    BY <2>1, <2>2, CachedInvStep
  <2>4. HandledInv'
    BY <2>1, HandledInvStep
  <2> QED BY <2>1, <2>2, <2>3, <2>4
<1> HIDE DEF IInv
<1>3. Spec => []IInv
  BY <1>1, <1>2, PTL DEF Spec
<1> QED BY <1>3 DEF IInv

\* Every step keeps the types: a list is a state of the accounts, a batch a set of ids,
\* and the versions above the active one are those of writers.
THEOREM TypeCorrect == Spec => []TypeOK
<1>1. Init => versions \in Seq(Writers)
  BY DEF Init
<1>2. versions \in Seq(Writers) /\ [Next]_vars => (versions \in Seq(Writers))'
  BY VersionsStep
<1>3. Spec => [](versions \in Seq(Writers))
  BY <1>1, <1>2, PTL DEF Spec
<1> QED BY <1>3, SchedulerInvariant, PTL DEF TypeOK

\* A version above the active one is its writer's only one, and its writer will either
\* activate it or take it out (SetSnapshot): Place names the version it means.
THEOREM PlaceIsUnique == Spec => []OnePlace
<1>1. Init => OnePlace
  BY DEF Init, OnePlace
<1>2. TypeOK /\ Types /\ OnePlace /\ [Next]_vars => OnePlace'
  BY OnePlaceStep DEF TypeOK
<1> QED BY <1>1, <1>2, TypeCorrect, SchedulerInvariant, PTL DEF Spec

\* Whatever the order of snapshots and of changes, the accounts a request finds in the
\* active list are cached (SetSnapshot, handleAccountEvent, syncSchedulerAccountSnapshot).
THEOREM ListsCached == Spec => []ListedIsCached
<1>1. CachedInv => ListedIsCached
  BY DEF CachedInv
<1> QED BY <1>1, SchedulerInvariant, PTL

\* The watermark passes an event only when its account has been stored as it was then or
\* later, unless it committed after a higher one was listed (pollOutbox).
THEOREM HandlesBefore == Spec => []HandledBeforeWatermark
<1>1. HandledInv => HandledBeforeWatermark
  BY DEF HandledInv
<1> QED BY <1>1, SchedulerInvariant, PTL

====
