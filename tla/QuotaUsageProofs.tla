-------------------------- MODULE QuotaUsageProofs --------------------------
(***************************************************************************)
(* Proofs about QuotaUsage, for every finite set of requests, every limit  *)
(* and any number of days and resets.                                      *)
(*                                                                         *)
(* NeverOvercounted needs to know of everything that will reach the entry  *)
(* or the row later (CountInv): what requests have read, what the flusher  *)
(* has, and how many requests still increase the row.  MirroredWithWindow  *)
(* needs the flusher's snapshot (MirrorInv).                               *)
(***************************************************************************)
EXTENDS QuotaUsage, FiniteSetTheorems, TLAPS

-----------------------------------------------------------------------------
(* Types *)

\* A new window, an increment and a database row are usages.
LEMMA UsageType ==
  ASSUME NEW u \in Usages
  PROVE  /\ u.usage \in Nat /\ u.window \in Nat /\ u # None
         /\ \A n \in Nat : /\ [u EXCEPT !.usage = n] \in Usages
                          /\ [u EXCEPT !.usage = n].usage = n
                          /\ [u EXCEPT !.usage = n].window = u.window
<1>1. u.usage \in Nat /\ u.window \in Days \cup {NoWindow} /\ u # None
  BY NoneAssumption DEF Usages
<1>2. u.window \in Nat
  BY <1>1 DEF Days, NoWindow
<1>3. \A n \in Nat : [u EXCEPT !.usage = n] \in Usages
  BY DEF Usages
<1>4. \A n \in Nat : /\ [u EXCEPT !.usage = n].usage = n
                    /\ [u EXCEPT !.usage = n].window = u.window
  BY DEF Usages
<1> QED BY <1>1, <1>2, <1>3, <1>4

\* What has the three parts of a usage is one.
LEMMA WindowType ==
  ASSUME NEW n \in Nat, NEW d \in Days \cup {NoWindow}, NEW b \in BOOLEAN
  PROVE  [usage |-> n, window |-> d, others |-> b] \in Usages
BY DEF Usages

\* So is one of which a window was reset.
LEMMA ResetType ==
  ASSUME NEW u \in Usages, NEW d \in Days
  PROVE  /\ [u EXCEPT !.usage = 0, !.window = d] \in Usages
         /\ [u EXCEPT !.usage = 0, !.window = d].usage = 0
         /\ [u EXCEPT !.usage = 0, !.window = d].window = d
         /\ [u EXCEPT !.others = TRUE] \in Usages
         /\ [u EXCEPT !.others = TRUE].usage = u.usage
         /\ [u EXCEPT !.others = TRUE].window = u.window
         /\ u.others => [u EXCEPT !.others = TRUE] = u
<1>1. [u EXCEPT !.usage = 0, !.window = d] \in Usages
  BY DEF Usages
<1>2. /\ [u EXCEPT !.usage = 0, !.window = d].usage = 0
      /\ [u EXCEPT !.usage = 0, !.window = d].window = d
  BY DEF Usages
<1>3. [u EXCEPT !.others = TRUE] \in Usages
  BY DEF Usages
<1>4. /\ [u EXCEPT !.others = TRUE].usage = u.usage
      /\ [u EXCEPT !.others = TRUE].window = u.window
  BY DEF Usages
<1>5. u.others => [u EXCEPT !.others = TRUE] = u
  <2>1. u = [usage |-> u.usage, window |-> u.window, others |-> u.others]
    BY DEF Usages
  <2>2. u.others => u.others = TRUE
    BY Zenon DEF Usages
  <2> QED BY <2>1, <2>2
<1> QED BY <1>1, <1>2, <1>3, <1>4, <1>5

\* Nothing is used at first.
LEMMA QuotaInit == Init => TypeOK /\ CountInv /\ MirrorInv
<1> SUFFICES ASSUME Init PROVE TypeOK /\ CountInv /\ MirrorInv
  OBVIOUS
<1>1. 1 \in Days
  BY BoundAssumption DEF Days
<1>2. flusher \in BOOLEAN /\ dirty \in BOOLEAN /\ grown \in BOOLEAN /\ lost \in BOOLEAN
  BY Zenon DEF Init
<1>3. TypeOK
  <2>1. NewRow \in Usages /\ [usage |-> 0, window |-> 1, others |-> TRUE] \in Usages
    BY <1>1, WindowType DEF NewRow
  <2>2. row \in Usages
    BY <2>1 DEF Init
  <2> QED BY <1>1, <1>2, <2>2 DEF Init, TypeOK, Steps
<1>4. Pending = {} /\ Cardinality(Pending) = 0
  BY FS_EmptySet DEF Init, Pending, Unpersisted
<1>5. CountInv
  BY <1>1, <1>4 DEF Init, NewRow, NoWindow, CountInv, HeldInv, RequestInv, RoomInv, Within,
                    RowUsage, Unpersisted
<1>6. MirrorInv
  BY DEF Init, MirrorInv, MirroredWithWindow, Unpersisted
<1> QED BY <1>3, <1>5, <1>6

\* Where a request goes next is a step, and so is what it counts.
LEMMA CountType ==
  ASSUME TypeOK, NEW q \in Requests, NEW step \in Steps, Count(q, step)
  PROVE  /\ pc' \in [Requests -> Steps]
         /\ counted' \in [Requests -> SUBSET Days]
         /\ spent' \in [Days -> Nat]
BY DEF TypeOK, Count, Goto

\* A reset row is empty and of today, or as it was.
LEMMA ResetRow ==
  ASSUME TypeOK, Reset
  PROVE  /\ row' \in Usages
         /\ \/ row'.window = now /\ row'.usage = 0
            \/ row'.window = row.window /\ row'.usage = row.usage
<1>1. row \in Usages /\ now \in Days
  BY DEF TypeOK
<1>2. CASE row' = [row EXCEPT !.usage = 0, !.window = now]
  <2>1. row' \in Usages /\ row'.window = now /\ row'.usage = 0
    BY ONLY <1>1, <1>2, ResetType
  <2> QED BY <2>1
<1>3. CASE row' = [row EXCEPT !.others = TRUE]
  <2>1. row' \in Usages /\ row'.window = row.window /\ row'.usage = row.usage
    BY ONLY <1>1, <1>3, ResetType
  <2> QED BY <2>1
<1> QED BY Zenon, <1>2, <1>3 DEF Reset

\* Every step keeps the types.
LEMMA TypeStep ==
  ASSUME TypeOK, CountInv, [Next]_vars
  PROVE  TypeOK'
<1> USE DEF TypeOK, At, Goto, Admit, redis, request, flushing, ghost, bounds
<1>1. CASE UNCHANGED vars
  BY <1>1 DEF vars
<1>2. ASSUME NEW q \in Requests, Hit(q) PROVE TypeOK'
  <2>1. Refreshed(entry) \in Usages
    <3>1. Used(entry) \in Nat
      BY <1>2, UsageType DEF Hit, Used
    <3> QED BY <3>1, WindowType DEF Refreshed
  <2>2. pc' \in [Requests -> Steps]
    BY <1>2 DEF Hit, Steps
  <2>3. read' \in [Requests -> Usages \cup {None}]
    BY <1>2, <2>1 DEF Hit
  <2> QED BY <1>2, <2>2, <2>3 DEF Hit
<1>3. ASSUME NEW q \in Requests, Miss(q) PROVE TypeOK'
  <2>1. pc' \in [Requests -> Steps]
    BY <1>3 DEF Miss, Steps
  <2> QED BY <1>3, <2>1 DEF Miss
<1>4. ASSUME NEW q \in Requests, Load(q) PROVE TypeOK'
  <2>1. Used(row) \in Nat
    BY UsageType DEF Used
  <2>2. [row EXCEPT !.usage = Used(row)] \in Usages
    BY <2>1, UsageType
  <2>3. pc' \in [Requests -> Steps]
    BY <1>4 DEF Load, Steps
  <2>4. read' \in [Requests -> Usages \cup {None}]
    BY <1>4, <2>2 DEF Load
  <2> QED BY <1>4, <2>3, <2>4 DEF Load
<1>5. ASSUME NEW q \in Requests, Set(q) PROVE TypeOK'
  <2>1. pc' \in [Requests -> Steps] /\ read' \in [Requests -> Usages \cup {None}]
    BY <1>5 DEF Set, Steps
  <2>2. entry' \in Usages \cup {None}
    BY <1>5 DEF Set
  <2>3. grown' \in BOOLEAN
    BY Zenon, <1>5 DEF Set
  <2> QED BY <1>5, <2>1, <2>2, <2>3 DEF Set
<1>6. ASSUME NEW q \in Requests, Serve(q) PROVE TypeOK'
  <2>1. pc' \in [Requests -> Steps]
    BY <1>6 DEF Serve, Steps, Following
  <2>2. served' \in Nat
    BY <1>6 DEF Serve
  <2> QED BY <1>6, <2>1, <2>2 DEF Serve
<1>7. ASSUME NEW q \in Requests, IncrUsageCache(q) PROVE TypeOK'
  <2>1. (IF flusher THEN "idle" ELSE Following.incr) \in Steps
    BY DEF Following, Steps
  <2>2. /\ pc' \in [Requests -> Steps]
        /\ counted' \in [Requests -> SUBSET Days]
        /\ spent' \in [Days -> Nat]
    BY ONLY TypeOK, <1>7, <2>1, CountType DEF IncrUsageCache
  <2>3. entry' \in Usages \cup {None}
    <3>1. entry # None => entry.usage + 1 \in Nat
      BY UsageType
    <3> QED BY <1>7, <3>1, UsageType DEF IncrUsageCache
  <2>4. dirty' \in BOOLEAN /\ grown' \in BOOLEAN /\ lost' \in BOOLEAN
    BY Zenon, <1>7 DEF IncrUsageCache
  <2> QED BY <1>7, <2>2, <2>3, <2>4 DEF IncrUsageCache
<1>8. ASSUME NEW q \in Requests, Stamp(q) PROVE TypeOK'
  <2>1. "persist" \in Steps
    BY DEF Steps
  <2>2. /\ pc' \in [Requests -> Steps]
        /\ counted' \in [Requests -> SUBSET Days]
        /\ spent' \in [Days -> Nat]
    BY ONLY TypeOK, <1>8, <2>1, CountType DEF Stamp
  <2> QED BY <1>8, <2>2 DEF Stamp
<1>9. ASSUME NEW q \in Requests, IncrementUsageWithReset(q) PROVE TypeOK'
  <2>0. stamp[q] \in Days
    BY <1>9 DEF IncrementUsageWithReset, CountInv, RequestInv, Days
  <2>1. row' \in Usages
    <3>1. (IF row.window = stamp[q] THEN row.usage + 1 ELSE 1) \in Nat
      BY UsageType
    <3> QED BY <1>9, <2>0, <3>1, WindowType DEF IncrementUsageWithReset
  <2>2. pc' \in [Requests -> Steps] /\ counted' \in [Requests -> SUBSET Days]
    BY <1>9 DEF IncrementUsageWithReset, Advance, Following, Steps
  <2>3. stamp' \in [Requests -> Days \cup {None}]
    BY <1>9 DEF IncrementUsageWithReset
  <2> QED BY <1>9, <2>1, <2>2, <2>3 DEF IncrementUsageWithReset
<1>10. ASSUME NEW q \in Requests, Crash(q) PROVE TypeOK'
  <2>1. pc' \in [Requests -> Steps] /\ counted' \in [Requests -> SUBSET Days]
    BY <1>10 DEF Crash, Advance, Steps
  <2>2. stamp' \in [Requests -> Days \cup {None}] /\ read' \in [Requests -> Usages \cup {None}]
    BY <1>10 DEF Crash
  <2> QED BY <1>10, <2>1, <2>2 DEF Crash
<1>11. CASE PopDirty \/ BatchGet \/ BatchSnapshotUsage \/ ReaddOrCountLost \/ FlusherCrash
  <2>1. dirty' \in BOOLEAN /\ lost' \in BOOLEAN
    BY Zenon, <1>11 DEF PopDirty, BatchGet, BatchSnapshotUsage, ReaddOrCountLost, FlusherCrash,
                        DirtyAfter
  <2>2. CASE PopDirty
    BY <2>1, <2>2 DEF PopDirty
  <2>3. CASE BatchGet
    BY <2>1, <2>3 DEF BatchGet
  <2>4. CASE BatchSnapshotUsage
    <3>1. row' \in Usages
      BY <2>4 DEF BatchSnapshotUsage, CountInv, HeldInv
    <3> QED BY <2>1, <2>4, <3>1 DEF BatchSnapshotUsage
  <2>5. CASE ReaddOrCountLost
    BY <2>1, <2>5 DEF ReaddOrCountLost
  <2>6. CASE FlusherCrash
    BY <2>1, <2>6 DEF FlusherCrash
  <2> QED BY ONLY <1>11, <2>2, <2>3, <2>4, <2>5, <2>6
<1>12. CASE Reset
  <2>1. row' \in Usages
    BY <1>12, ResetRow
  <2>2. lost' \in BOOLEAN
    BY Zenon, <1>12 DEF Reset
  <2> QED BY <1>12, <2>1, <2>2 DEF Reset
<1>13. CASE DeleteCache \/ EntryExpires
  <2>1. grown' \in BOOLEAN
    BY Zenon, <1>13 DEF DeleteCache, EntryExpires
  <2> QED BY <1>13, <2>1 DEF DeleteCache, EntryExpires
<1>14. CASE Midnight
  BY <1>14, BoundAssumption DEF Midnight, Days
<1> QED BY ONLY [Next]_vars, <1>1, <1>2, <1>3, <1>4, <1>5, <1>6, <1>7, <1>8, <1>9, <1>10,
                <1>11, <1>12, <1>13, <1>14 DEF Next, Step

-----------------------------------------------------------------------------
(* Nothing is counted twice *)

\* The requests that will still increase the row are counted in a natural number.
LEMMA PendingFinite ==
  /\ IsFiniteSet(Pending) /\ Cardinality(Pending) \in Nat
  /\ IsFiniteSet(Pending') /\ Cardinality(Pending') \in Nat
BY RequestAssumption, FS_Subset, FS_CardinalityType DEF Pending

\* The requests a step leaves alone are pending as they were.
LEMMA PendingStep ==
  ASSUME UNCHANGED now, NEW q \in Requests,
         \A v \in Requests : v # q => pc'[v] = pc[v] /\ counted'[v] = counted[v]
  PROVE  /\ q \notin Pending' => Pending' = Pending \ {q}
         /\ q \in Pending' => Pending' = Pending \cup {q}
BY DEF Pending

\* How many they are then.
LEMMA PendingCount ==
  ASSUME UNCHANGED now, NEW q \in Requests,
         \A v \in Requests : v # q => pc'[v] = pc[v] /\ counted'[v] = counted[v]
  PROVE  Cardinality(Pending') =
           Cardinality(Pending) + (IF q \in Pending' THEN 1 ELSE 0)
                                - (IF q \in Pending THEN 1 ELSE 0)
<1>1. CASE q \in Pending'
  <2>1. Pending' = Pending \cup {q}
    BY <1>1, PendingStep
  <2> QED BY <1>1, <2>1, PendingFinite, FS_AddElement
<1>2. CASE q \notin Pending'
  <2>1. Pending' = Pending \ {q}
    BY <1>2, PendingStep
  <2> QED BY <1>2, <2>1, PendingFinite, FS_RemoveElement
<1> QED BY <1>1, <1>2

\* A request is counted in windows that have begun, until its usage is stored.
LEMMA RequestInvStep ==
  ASSUME TypeOK, RequestInv, [Next]_vars
  PROVE  RequestInv'
<1> USE DEF TypeOK, RequestInv, At, Goto, Admit, Unpersisted, redis, request, flushing, ghost,
            bounds
<1>1. CASE UNCHANGED <<now, flusher, request>>
  BY <1>1
<1>2. ASSUME NEW q \in Requests, Hit(q) \/ Miss(q) \/ Load(q) \/ Set(q) \/ Serve(q)
      PROVE  RequestInv'
  <2>1. \A v \in Requests : v # q => pc'[v] = pc[v]
    BY <1>2 DEF Hit, Miss, Load, Set, Serve
  <2>2. pc[q] \notin Unpersisted /\ pc'[q] \notin Unpersisted
    BY <1>2 DEF Hit, Miss, Load, Set, Serve, Following
  <2>3. UNCHANGED <<flusher, now, counted, stamp>>
    BY <1>2 DEF Hit, Miss, Load, Set, Serve
  <2> QED BY <2>1, <2>2, <2>3
<1>3. ASSUME NEW q \in Requests, IncrUsageCache(q) PROVE RequestInv'
  <2>1. \A v \in Requests : v # q => pc'[v] = pc[v] /\ counted'[v] = counted[v]
    BY <1>3 DEF IncrUsageCache, Count
  <2>2. UNCHANGED <<flusher, now, stamp>>
    BY <1>3 DEF IncrUsageCache
  <2>3. CASE flusher
    BY <1>3, <2>1, <2>2, <2>3 DEF IncrUsageCache, Count
  <2>4. CASE ~flusher
    <3>1. pc'[q] = "stamp" /\ counted'[q] = {now}
      BY <1>3, <2>4 DEF IncrUsageCache, Count, Following
    <3> QED BY <2>1, <2>2, <2>4, <3>1 DEF Days
  <2> QED BY <2>3, <2>4
<1>4. ASSUME NEW q \in Requests, Stamp(q) PROVE RequestInv'
  <2>1. \A v \in Requests : v # q => /\ pc'[v] = pc[v] /\ counted'[v] = counted[v]
                                     /\ stamp'[v] = stamp[v]
    BY <1>4 DEF Stamp, Count
  <2>2. UNCHANGED <<flusher, now>> /\ ~flusher
    BY <1>4 DEF Stamp
  <2>3. pc'[q] = "persist" /\ counted'[q] = counted[q] \cup {now} /\ stamp'[q] = now
    BY <1>4 DEF Stamp, Count
  <2> QED BY <2>1, <2>2, <2>3 DEF Days
<1>5. ASSUME NEW q \in Requests, IncrementUsageWithReset(q) \/ Crash(q) PROVE RequestInv'
  <2>1. \A v \in Requests : v # q => /\ pc'[v] = pc[v] /\ counted'[v] = counted[v]
                                     /\ stamp'[v] = stamp[v]
    BY <1>5 DEF IncrementUsageWithReset, Crash, Advance
  <2>2. UNCHANGED <<flusher, now>> /\ pc'[q] = "idle" /\ counted'[q] = {}
    BY <1>5 DEF IncrementUsageWithReset, Crash, Advance, Following
  <2> QED BY <2>1, <2>2
<1>6. CASE PopDirty \/ BatchGet \/ BatchSnapshotUsage \/ ReaddOrCountLost \/ FlusherCrash
  BY <1>1, <1>6 DEF PopDirty, BatchGet, BatchSnapshotUsage, ReaddOrCountLost, FlusherCrash
<1>7. CASE Reset \/ DeleteCache \/ EntryExpires
  BY <1>1, <1>7 DEF Reset, DeleteCache, EntryExpires
<1>8. CASE Midnight
  BY <1>8 DEF Midnight, Days
<1>9. CASE UNCHANGED vars
  BY <1>1, <1>9 DEF vars
<1> QED BY ONLY [Next]_vars, <1>2, <1>3, <1>4, <1>5, <1>6, <1>7, <1>8, <1>9 DEF Next, Step

\* What is held fits as long as the window and what is spent in it only grow.
LEMMA WithinStays ==
  ASSUME NEW u, UNCHANGED now, Within(u), now \in Days, spent \in [Days -> Nat],
         spent' \in [Days -> Nat], spent'[now] >= spent[now], u \in Usages \cup {None}
  PROVE  u # None => u.window <= now' /\ (u.window = now' => u.usage <= spent'[now'])
BY UsageType DEF Within

\* What requests and the flusher hold, and what they write, is no more than is spent.
LEMMA HeldInvStep ==
  ASSUME TypeOK, TypeOK', HeldInv, RequestInv, RoomInv, [Next]_vars
  PROVE  HeldInv'
<1> USE DEF TypeOK, HeldInv, Within, At, redis, request, flushing, ghost, bounds
<1>0. now \in Nat /\ now' \in Nat
  BY DEF Days
<1>1. CASE UNCHANGED <<flusher, now, entry, row, read, flushing, spent>>
  BY <1>1
<1>2. ASSUME NEW q \in Requests, Hit(q) PROVE HeldInv'
  <2>1. Refreshed(entry).usage = Used(entry) /\ Refreshed(entry).window = now
    BY DEF Refreshed
  <2>4. Used(entry) <= spent[now]
    <3>1. entry.usage \in Nat /\ entry.window \in Nat /\ entry.window <= now
      BY <1>2, UsageType DEF Hit
    <3>2. spent[now] \in Nat
      OBVIOUS
    <3> QED BY <1>0, <1>2, <3>1, <3>2 DEF Hit, Used, Expired
  <2>2. \A v \in Requests : read'[v] = read[v] \/ read'[v] = Refreshed(entry)
    BY <1>2 DEF Hit
  <2>3. \A v \in Requests : Within(read[v])'
    <3>1. now' = now /\ spent' = spent /\ spent[now] \in Nat
      BY <1>2 DEF Hit
    <3> QED BY ONLY <1>0, <2>1, <2>2, <2>4, <3>1, HeldInv DEF HeldInv, Within
  <2> QED BY <1>2, <2>3 DEF Hit
<1>3. ASSUME NEW q \in Requests, Load(q) PROVE HeldInv'
  <2> DEFINE u == [row EXCEPT !.usage = Used(row)]
  <2>1. Used(row) \in Nat /\ Used(row) <= row.usage
    BY UsageType DEF Used
  <2>2. u.window = row.window /\ u.usage <= row.usage /\ u \in Usages /\ row # None
    BY <2>1, UsageType
  <2>3. \A v \in Requests : read'[v] = read[v] \/ read'[v] = u
    BY <1>3 DEF Load
  <2> HIDE DEF u
  <2>4. row.window <= now /\ (row.window = now => row.usage <= spent[now])
    BY <2>2
  <2>5. u.window <= now /\ (u.window = now => u.usage <= spent[now])
    BY <1>0, <2>2, <2>4, UsageType
  <2>6. \A v \in Requests : Within(read[v])'
    BY <1>3, <2>3, <2>5 DEF Load
  <2> QED BY <1>3, <2>6 DEF Load
<1>4. ASSUME NEW q \in Requests, Set(q) PROVE HeldInv'
  <2>1. \A v \in Requests : read'[v] = read[v] \/ read'[v] = None
    BY <1>4 DEF Set
  <2>2. entry' = entry \/ entry' = read[q]
    BY <1>4 DEF Set
  <2> QED BY <1>4, <2>1, <2>2 DEF Set
<1>5. ASSUME NEW q \in Requests, IncrUsageCache(q) PROVE HeldInv'
  <2>1. counted[q] = {}
    BY <1>5 DEF IncrUsageCache, RequestInv, Unpersisted
  <2>2. spent'[now] = spent[now] + 1
    BY <1>5, <2>1 DEF IncrUsageCache, Count
  <2>3. \/ entry' = entry
        \/ /\ entry' # None /\ entry # None
           /\ entry'.window = entry.window /\ entry'.usage = entry.usage + 1
    <3>1. CASE entry # None /\ entry' = [entry EXCEPT !.usage = @ + 1]
      <4>1. entry \in Usages /\ entry.usage + 1 \in Nat
        BY <3>1, UsageType
      <4>2. entry'.window = entry.window /\ entry'.usage = entry.usage + 1 /\ entry' \in Usages
        BY <3>1, <4>1, UsageType
      <4>3. entry' # None
        BY ONLY <4>2, NoneAssumption
      <4> QED BY ONLY <3>1, <4>2, <4>3
    <3> QED BY ONLY <1>5, <3>1 DEF IncrUsageCache
  <2>4. Within(entry)'
    <3>1. UNCHANGED now
      BY <1>5 DEF IncrUsageCache
    <3>2. entry # None => entry.usage \in Nat
      BY UsageType
    <3> QED BY <2>2, <2>3, <3>1, <3>2
  <2>5. Within(row)' /\ Within(snapshot)' /\ \A v \in Requests : Within(read[v])'
    BY <1>5, <2>2, WithinStays DEF IncrUsageCache
  <2> QED BY <1>5, <2>4, <2>5 DEF IncrUsageCache
<1>6. ASSUME NEW q \in Requests, Stamp(q) PROVE HeldInv'
  <2>1. spent'[now] >= spent[now]
    BY <1>6 DEF Stamp, Count
  <2>2. /\ Within(entry)' /\ Within(row)' /\ Within(snapshot)'
        /\ \A v \in Requests : Within(read[v])'
    BY <1>6, <2>1, WithinStays DEF Stamp
  <2> QED BY <1>6, <2>2 DEF Stamp
<1>7. ASSUME NEW q \in Requests, IncrementUsageWithReset(q) PROVE HeldInv'
  <2>1. stamp[q] \in counted[q] /\ stamp[q] <= now /\ stamp[q] \in Days
    BY <1>7 DEF IncrementUsageWithReset, RequestInv, Days
  <2>2. CASE row' = [usage |-> IF row.window = stamp[q] THEN row.usage + 1 ELSE 1,
                     window |-> stamp[q], others |-> TRUE]
    <3>1. row'.window = stamp[q] /\ row'.usage = IF row.window = stamp[q] THEN row.usage + 1 ELSE 1
      BY <2>2
    <3>2. stamp[q] = now => q \in Pending
      BY <1>7, <2>1 DEF IncrementUsageWithReset, Pending, Unpersisted
    <3>3. stamp[q] = now => Cardinality(Pending) >= 1
      BY <3>2, PendingFinite, FS_EmptySet
    <3>4. row.usage \in Nat /\ spent[now] \in Nat
      BY UsageType
    <3>5. stamp[q] = now => row'.usage <= spent[now]
      BY <3>1, <3>3, <3>4, PendingFinite DEF RoomInv, RowUsage
    <3>6. Within(row)'
      BY <1>7, <2>1, <3>1, <3>5 DEF IncrementUsageWithReset
    <3> QED BY <1>7, <3>6 DEF IncrementUsageWithReset
  <2>3. CASE UNCHANGED row
    BY <1>7, <2>3 DEF IncrementUsageWithReset
  <2> QED BY ONLY <1>7, <2>2, <2>3 DEF IncrementUsageWithReset
<1>8. ASSUME NEW q \in Requests, Crash(q) PROVE HeldInv'
  <2>1. \A v \in Requests : read'[v] = read[v] \/ read'[v] = None
    BY <1>8 DEF Crash
  <2> QED BY <1>8, <2>1 DEF Crash
<1>9. ASSUME NEW q \in Requests, Miss(q) \/ Serve(q) PROVE HeldInv'
  BY <1>1, <1>9 DEF Miss, Serve
<1>10. CASE PopDirty
  BY <1>10 DEF PopDirty
<1>11. CASE BatchGet
  BY <1>11 DEF BatchGet, Flushable
<1>12. CASE BatchSnapshotUsage
  BY <1>12 DEF BatchSnapshotUsage
<1>13. CASE ReaddOrCountLost \/ FlusherCrash
  BY <1>13 DEF ReaddOrCountLost, FlusherCrash
<1>14. CASE Reset
  <2>1. row'.window <= now /\ (row'.window = now => row'.usage <= spent[now])
    <3>1. spent[now] \in Nat /\ row # None
      BY UsageType
    <3> QED BY <1>0, <1>14, <3>1, ResetRow
  <2> QED BY <1>14, <2>1 DEF Reset
<1>15. CASE DeleteCache \/ EntryExpires
  BY <1>15 DEF DeleteCache, EntryExpires
<1>16. CASE Midnight
  <2>1. \A u \in Usages \cup {None} : Within(u) => (u # None => u.window < now')
    BY <1>0, <1>16, UsageType DEF Midnight, Days
  <2>2. \A u \in Usages \cup {None} : Within(u) => (u # None => u.window <= now' /\ u.window # now')
    <3>1. \A n, m \in Nat : n < m => n <= m /\ n # m
      OBVIOUS
    <3>2. \A u \in Usages : u.window \in Nat
      BY SMTT(30), UsageType DEF Days
    <3> QED BY ONLY <1>0, <2>1, <3>1, <3>2
  <2> QED BY <1>16, <2>2 DEF Midnight
<1>17. CASE UNCHANGED vars
  BY <1>1, <1>17 DEF vars
<1> QED BY ONLY [Next]_vars, <1>2, <1>3, <1>4, <1>5, <1>6, <1>7, <1>8, <1>9, <1>10, <1>11,
                <1>12, <1>13, <1>14, <1>15, <1>16, <1>17 DEF Next, Step

\* The row has room for the requests that will still increase it.
LEMMA RoomInvStep ==
  ASSUME TypeOK, TypeOK', HeldInv, HeldInv', RequestInv, RequestInv', RoomInv, [Next]_vars
  PROVE  RoomInv'
<1> USE DEF redis, request, flushing, ghost, bounds, At
<1>0. /\ RowUsage \in Nat /\ RowUsage' \in Nat
      /\ spent[now] \in Nat /\ spent'[now'] \in Nat
  BY UsageType DEF TypeOK, RowUsage
<1>1. CASE UNCHANGED <<now, row, spent, pc, counted>>
  BY <1>1 DEF RoomInv, RowUsage, Pending
<1>2. ASSUME NEW q \in Requests, UNCHANGED <<now, row, spent>>, pc'[q] \notin Unpersisted,
             \A v \in Requests : v # q => pc'[v] = pc[v] /\ counted'[v] = counted[v]
      PROVE  RoomInv'
  <2>1. q \notin Pending'
    BY <1>2 DEF Pending
  <2>2. Cardinality(Pending') <= Cardinality(Pending)
    BY <1>2, <2>1, PendingCount, PendingFinite
  <2> QED BY <1>0, <1>2, <2>2, PendingFinite DEF RoomInv, RowUsage
<1>3. ASSUME NEW q \in Requests, Hit(q) \/ Miss(q) \/ Load(q) \/ Set(q) \/ Serve(q) \/ Crash(q)
      PROVE  RoomInv'
  <2>1. UNCHANGED <<now, row, spent>>
    BY <1>3 DEF Hit, Miss, Load, Set, Serve, Crash
  <2>2. pc'[q] \notin Unpersisted
    BY <1>3 DEF Hit, Miss, Load, Set, Serve, Crash, Advance, Admit, Goto, Following,
                Unpersisted, TypeOK
  <2>3. \A v \in Requests : v # q => pc'[v] = pc[v] /\ counted'[v] = counted[v]
    BY <1>3 DEF Hit, Miss, Load, Set, Serve, Crash, Advance, Admit, Goto, TypeOK
  <2> QED BY <1>2, <2>1, <2>2, <2>3
<1>4. ASSUME NEW q \in Requests, IncrUsageCache(q) PROVE RoomInv'
  <2>1. UNCHANGED <<now, row>>
    BY <1>4 DEF IncrUsageCache
  <2>2. \A v \in Requests : v # q => pc'[v] = pc[v] /\ counted'[v] = counted[v]
    BY <1>4 DEF IncrUsageCache, Count, Goto, TypeOK
  <2>3. counted[q] = {}
    BY <1>4 DEF IncrUsageCache, RequestInv, Unpersisted
  <2>4. spent'[now] = spent[now] + 1
    BY <1>4, <2>3 DEF IncrUsageCache, Count, TypeOK
  <2>5. Cardinality(Pending') <= Cardinality(Pending) + 1
    BY <2>1, <2>2, PendingCount, PendingFinite
  <2> QED BY <1>0, <2>1, <2>4, <2>5, PendingFinite DEF RoomInv, RowUsage
<1>5. ASSUME NEW q \in Requests, Stamp(q) PROVE RoomInv'
  <2>1. UNCHANGED <<now, row>>
    BY <1>5 DEF Stamp
  <2>2. \A v \in Requests : v # q => pc'[v] = pc[v] /\ counted'[v] = counted[v]
    BY <1>5 DEF Stamp, Count, Goto, TypeOK
  <2>3. CASE now \in counted[q]
    <3>1. q \in Pending /\ spent' = spent
      BY <1>5, <2>3 DEF Stamp, Count, Pending, Unpersisted
    <3>2. Cardinality(Pending') <= Cardinality(Pending)
      BY <2>1, <2>2, <3>1, PendingCount, PendingFinite
    <3> QED BY <1>0, <2>1, <3>1, <3>2, PendingFinite DEF RoomInv, RowUsage
  <2>4. CASE now \notin counted[q]
    <3>1. spent'[now] = spent[now] + 1
      BY <1>5, <2>4 DEF Stamp, Count, TypeOK
    <3>2. Cardinality(Pending') <= Cardinality(Pending) + 1
      BY <2>1, <2>2, PendingCount, PendingFinite
    <3> QED BY <1>0, <2>1, <3>1, <3>2, PendingFinite DEF RoomInv, RowUsage
  <2> QED BY <2>3, <2>4
<1>6. ASSUME NEW q \in Requests, IncrementUsageWithReset(q) PROVE RoomInv'
  <2>1. UNCHANGED <<now, spent>> /\ pc'[q] \notin Unpersisted
    BY <1>6 DEF IncrementUsageWithReset, Advance, Goto, Following, Unpersisted, TypeOK
  <2>2. \A v \in Requests : v # q => pc'[v] = pc[v] /\ counted'[v] = counted[v]
    BY <1>6 DEF IncrementUsageWithReset, Advance, Goto, TypeOK
  <2>3. CASE UNCHANGED row
    BY <1>2, <2>1, <2>2, <2>3
  <2>4. CASE row' = [usage |-> IF row.window = stamp[q] THEN row.usage + 1 ELSE 1,
                     window |-> stamp[q], others |-> TRUE]
    <3>1. /\ row'.window = stamp[q]
          /\ row'.usage = IF row.window = stamp[q] THEN row.usage + 1 ELSE 1
      BY <2>4
    <3>2. q \notin Pending'
      BY <2>1 DEF Pending
    <3>3. CASE stamp[q] = now
      <4>1. q \in Pending
        BY <1>6, <3>3 DEF IncrementUsageWithReset, RequestInv, Pending, Unpersisted
      <4>2. Cardinality(Pending') = Cardinality(Pending) - 1
        BY <2>1, <2>2, <3>2, <4>1, PendingCount, PendingFinite
      <4>3. RowUsage' = RowUsage + 1
        BY <2>1, <3>1, <3>3, UsageType DEF RowUsage, TypeOK
      <4> QED BY <1>0, <2>1, <4>2, <4>3, PendingFinite DEF RoomInv
    <3>4. CASE stamp[q] # now
      <4>1. Cardinality(Pending') <= Cardinality(Pending)
        BY <2>1, <2>2, <3>2, PendingCount, PendingFinite
      <4>2. RowUsage' = 0
        BY <2>1, <3>1, <3>4 DEF RowUsage
      <4> QED BY <1>0, <2>1, <4>1, <4>2, PendingFinite DEF RoomInv
    <3> QED BY <3>3, <3>4
  <2> QED BY ONLY <1>6, <2>3, <2>4 DEF IncrementUsageWithReset
<1>7. ASSUME UNCHANGED <<now, spent, pc, counted>>, RowUsage' <= RowUsage PROVE RoomInv'
  <2>1. Pending' = Pending
    BY <1>7 DEF Pending
  <2> QED BY <1>0, <1>7, <2>1, PendingFinite DEF RoomInv
<1>8. CASE PopDirty \/ BatchGet \/ ReaddOrCountLost \/ FlusherCrash
  BY <1>1, <1>8 DEF PopDirty, BatchGet, ReaddOrCountLost, FlusherCrash
<1>9. CASE BatchSnapshotUsage
  <2>1. flusher /\ UNCHANGED <<flusher, now, spent, pc, counted>>
    BY <1>9 DEF BatchSnapshotUsage, HeldInv
  <2>2. Pending' = {}
    BY <2>1 DEF Pending, RequestInv
  <2>3. RowUsage' <= spent'[now']
    BY <1>0, UsageType DEF RowUsage, HeldInv, Within, TypeOK
  <2> QED BY <1>0, <2>2, <2>3, FS_EmptySet DEF RoomInv
<1>10. CASE Reset
  <2>1. RowUsage' = 0 \/ RowUsage' = RowUsage
    BY <1>10, ResetRow DEF Reset, RowUsage
  <2> QED BY <1>0, <1>7, <1>10, <2>1 DEF Reset
<1>11. CASE DeleteCache \/ EntryExpires
  BY <1>1, <1>11 DEF DeleteCache, EntryExpires
<1>12. CASE Midnight
  <2>1. now \in Nat /\ now' = now + 1
    BY <1>12 DEF Midnight, TypeOK, Days
  <2>2. \A q \in Requests : now' \notin counted'[q]
    BY <1>12, <2>1 DEF Midnight, RequestInv
  <2>3. Pending' = {}
    BY <2>2 DEF Pending
  <2>4. row' = row /\ row.window <= now /\ row.window \in Nat
    BY <1>12, UsageType DEF Midnight, TypeOK, HeldInv, Within, Days
  <2>5. RowUsage' = 0
    BY <2>1, <2>4 DEF RowUsage
  <2> QED BY <1>0, <2>3, <2>5, FS_EmptySet DEF RoomInv
<1>13. CASE UNCHANGED vars
  BY <1>1, <1>13 DEF vars
<1> QED BY ONLY [Next]_vars, <1>3, <1>4, <1>5, <1>6, <1>8, <1>9, <1>10, <1>11, <1>12, <1>13
        DEF Next, Step

-----------------------------------------------------------------------------
(* The row mirrors the entry *)

\* A snapshot that was overtaken leaves the key dirty.
LEMMA MirrorInvStep ==
  ASSUME TypeOK, MirrorInv, RequestInv', HeldInv, [Next]_vars
  PROVE  MirrorInv'
<1> USE DEF MirrorInv, MirroredWithWindow, Mirrored, Whole, At, redis, request, flushing, ghost, bounds
<1>0. flusher' => \A q \in Requests : pc'[q] \notin Unpersisted
  BY DEF RequestInv
<1>1. CASE UNCHANGED <<flusher, redis, row, flushing, grown, lost>>
  BY <1>0, <1>1
<1>2. ASSUME NEW q \in Requests,
             Hit(q) \/ Miss(q) \/ Load(q) \/ Serve(q) \/ Stamp(q) \/ Crash(q)
      PROVE  MirrorInv'
  BY <1>1, <1>2 DEF Hit, Miss, Load, Serve, Stamp, Crash
<1>3. ASSUME NEW q \in Requests, Set(q) PROVE MirrorInv'
  BY <1>0, <1>3 DEF Set
<1>4. ASSUME NEW q \in Requests, IncrUsageCache(q) PROVE MirrorInv'
  <2>1. CASE UNCHANGED <<entry, dirty, grown, lost>>
    BY <1>1, <1>4, <2>1 DEF IncrUsageCache
  <2>2. CASE /\ entry # None /\ entry' = [entry EXCEPT !.usage = @ + 1]
             /\ dirty' = (dirty \/ flusher)
    <3>1. entry' # None
      <4>1. entry \in Usages
        BY <2>2 DEF TypeOK
      <4>2. entry.usage + 1 \in Nat
        BY <4>1, UsageType
      <4>3. entry' \in Usages
        BY <2>2, <4>1, <4>2, UsageType
      <4> QED BY <4>3, NoneAssumption
    <3> QED BY <1>0, <1>4, <2>2, <3>1 DEF IncrUsageCache
  <2> QED BY ONLY <1>4, <2>1, <2>2 DEF IncrUsageCache
<1>5. ASSUME NEW q \in Requests, IncrementUsageWithReset(q) PROVE MirrorInv'
  <2>1. ~flusher /\ UNCHANGED <<flusher, entry, grown>>
    BY <1>5 DEF IncrementUsageWithReset, Unpersisted
  <2> QED BY <1>0, <2>1
<1>6. CASE PopDirty
  BY <1>0, <1>6 DEF PopDirty
<1>7. CASE BatchGet
  BY <1>0, <1>7 DEF BatchGet, Flushable
<1>8. CASE BatchSnapshotUsage
  BY <1>0, <1>8 DEF BatchSnapshotUsage, DirtyAfter
<1>9. CASE ReaddOrCountLost \/ FlusherCrash
  BY <1>0, <1>9 DEF ReaddOrCountLost, FlusherCrash
<1>10. CASE Reset
  <2>1. CASE lost'
    BY <1>0, <1>10, <2>1 DEF Reset
  <2>2. CASE row' = [row EXCEPT !.others = TRUE] /\ lost' = lost
    <3>1. row.others => row' = row
      BY <2>2, ResetType DEF TypeOK
    <3> QED BY <1>0, <1>10, <2>2, <3>1 DEF Reset
  <2> QED BY <1>10, <2>1, <2>2 DEF Reset
<1>11. CASE DeleteCache \/ EntryExpires
  BY <1>0, <1>11 DEF DeleteCache, EntryExpires
<1>12. CASE Midnight
  BY <1>1, <1>12 DEF Midnight
<1>13. CASE UNCHANGED vars
  BY <1>1, <1>13 DEF vars
<1> QED BY ONLY [Next]_vars, <1>2, <1>3, <1>4, <1>5, <1>6, <1>7, <1>8, <1>9, <1>10, <1>11,
                <1>12, <1>13 DEF Next, Step

-----------------------------------------------------------------------------
(* Theorems *)

\* Types hold, and so does what is known of usage on its way.
LEMMA CountInvariant == Spec => [](TypeOK /\ CountInv)
<1>1. TypeOK /\ CountInv /\ [Next]_vars => (TypeOK /\ CountInv)'
  BY TypeStep, HeldInvStep, RequestInvStep, RoomInvStep DEF CountInv
<1> QED BY <1>1, QuotaInit, PTL DEF Spec

\* Every variable keeps its type: the row is a usage, whatever the flusher has read
\* and whatever a delayed request writes.
THEOREM TypeCorrect == Spec => []TypeOK
BY CountInvariant, PTL

\* Neither the entry nor the row counts a request twice in the current window,
\* whoever loads, resets, increases or flushes them meanwhile.
THEOREM CountsOnce == Spec => []NeverOvercounted
<1>1. TypeOK /\ CountInv => NeverOvercounted
  BY DEF CountInv, HeldInv, Within, NeverOvercounted
<1> QED BY <1>1, CountInvariant, PTL

\* With the flusher, usage in an entry that has all its windows is in the row, on its
\* way there, or known to have been lost.
THEOREM Mirrors == Spec => []MirroredWithWindow
<1>1. TypeOK /\ CountInv /\ CountInv' /\ MirrorInv /\ [Next]_vars => MirrorInv'
  BY MirrorInvStep DEF CountInv
<1>2. MirrorInv => MirroredWithWindow
  BY DEF MirrorInv
<1> QED BY <1>1, <1>2, QuotaInit, CountInvariant, PTL DEF Spec
=============================================================================
