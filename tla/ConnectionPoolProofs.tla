------------------------ MODULE ConnectionPoolProofs ------------------------
(***************************************************************************)
(* Safety of the connection pool for every number of repositories, entries,*)
(* connections and concurrent calls: first the connections of each entry,  *)
(* then the databases that entries on one path share, whose reference      *)
(* counts are exact (CacheInv) and which stay open under the calls that    *)
(* hold a connection (HeldInv).                                            *)
(***************************************************************************)
EXTENDS ConnectionPool, FiniteSetTheorems, TLAPS

(***************************************************************************)
(* The inductive invariant.  TypeOK is not inductive by itself: what        *)
(* checkin puts back must be a connection, which is a fact about the call.  *)
(***************************************************************************)

\* What a call refers to in each of its states.
CallShape ==
  \A q \in Queries :
    /\ call[q] = "idle" => onEntry[q] = None /\ onConn[q] = None
    /\ call[q] = "waiting" => onEntry[q] \in Entries /\ onConn[q] = None
    /\ call[q] \in Holding \cup {"abandoned"} =>
         onEntry[q] \in Entries /\ onConn[q] \in Conns

\* The queue of an entry holds calls that wait on it.
QueueShape ==
  \A e \in Entries : \A i \in 1 .. Len(waiters[e]) :
    call[waiters[e][i]] = "waiting" /\ onEntry[waiters[e][i]] = e

\* An entry is registered or being initialised for one repository id only, and
\* an entry with calls that is not registered has been closed.
EntryShape ==
  /\ \A r, s \in Repos : pool[r] # None /\ pool[r] = pool[s] => r = s
  /\ \A r, s \in Repos : init[r].entry # None /\ init[r].entry = init[s].entry => r = s
  /\ \A r, s \in Repos : pool[r] # None => pool[r] # init[s].entry
  /\ \A r \in Repos : init[r].pc # "none" => pool[r] = None
  /\ \A r \in Repos : init[r].pc = "fts" <=> init[r].entry # None
  /\ \A r \in Repos : pool[r] # None => ~closed[pool[r]]
  /\ \A r \in Repos : init[r].entry # None =>
       /\ ~closed[init[r].entry]
       /\ available[init[r].entry] = Conns
       /\ checkedOut[init[r].entry] = 0
       /\ \A q \in Queries : onEntry[q] # init[r].entry
  /\ \A q \in Queries : onEntry[q] # None =>
       \/ Pooled(onEntry[q])
       \/ closed[onEntry[q]] /\ available[onEntry[q]] = {}

IInv == /\ TypeOK /\ CallShape /\ QueueShape /\ EntryShape
        /\ Conservation /\ ExclusiveCheckout
        /\ NoIdleConnWhileWaiting /\ NoConnLeak

(***************************************************************************)
(* Operators.                                                              *)
(***************************************************************************)

\* splice(idx, 1) removes one caller and keeps the others.
LEMMA SpliceType ==
  ASSUME NEW S, NEW s \in Seq(S), NEW i \in 1 .. Len(s)
  PROVE  /\ Splice(s, i) \in Seq(S)
         /\ Len(Splice(s, i)) = Len(s) - 1
         /\ \A j \in 1 .. Len(s) - 1 :
              Splice(s, i)[j] = IF j < i THEN s[j] ELSE s[j + 1]
<1>1. Len(s) - 1 \in Nat
  OBVIOUS
<1>2. \A j \in 1 .. Len(s) - 1 : (IF j < i THEN s[j] ELSE s[j + 1]) \in S
  OBVIOUS
<1>3. Splice(s, i) \in [1 .. Len(s) - 1 -> S]
  BY <1>2 DEF Splice
<1>4. QED
  BY <1>1, <1>3 DEF Splice

\* Closing a set of entries keeps the types.
LEMMA CloseType ==
  ASSUME TypeOK, NEW R \in SUBSET Repos
  PROVE  /\ PoolWithout(R) \in [Repos -> Entries \cup {None}]
         /\ ClosedWith(R) \in [Entries -> BOOLEAN]
         /\ AvailableWithout(R) \in [Entries -> SUBSET Conns]
         /\ OpenConnsWithout(R) \subseteq Entries \X Conns
         /\ OpenDbsWithout(R) \subseteq Dbs
         /\ CacheWithout(R) \in [Paths -> SharedDbs]
<1> USE DEF TypeOK
<1>1. \A p \in Paths : Releases(R, p) \in Nat
  <2> SUFFICES ASSUME NEW p \in Paths PROVE Releases(R, p) \in Nat
    OBVIOUS
  <2>1. {r \in R : LbugPath[r] = p} \in SUBSET Repos
    OBVIOUS
  <2>2. QED
    BY <2>1, PathAssumption, FS_Subset, FS_CardinalityType DEF Releases
<1>2. NotCached \in SharedDbs
  BY DEF NotCached, SharedDb, SharedDbs
<1>3. ASSUME NEW p \in Paths
      PROVE  SharedDb(dbCache[p].db, dbCache[p].refCount - Releases(R, p),
                      dbCache[p].ftsLoaded) \in SharedDbs
  BY <1>1 DEF SharedDb, SharedDbs
<1>4. CacheWithout(R) \in [Paths -> SharedDbs]
  BY <1>2, <1>3 DEF CacheWithout
<1>5. QED
  BY <1>4 DEF PoolWithout, ClosedWith, AvailableWithout, OpenConnsWithout, OpenDbsWithout

\* The records the initialisation steps write are well typed.
LEMMA InitRecType ==
  /\ NoInit \in InitRecs
  /\ InitAt("stat", 0, None) \in InitRecs
  /\ InitAt("open", 1, None) \in InitRecs
  /\ InitAt("reopen", 0, None) \in InitRecs
  /\ \A e \in Entries : InitAt("fts", 0, e) \in InitRecs
  /\ \A n \in 0 .. LockRetryAttempts : n < LockRetryAttempts =>
       InitAt("delay", n, None) \in InitRecs /\ InitAt("open", n + 1, None) \in InitRecs
BY BoundAssumption DEF NoInit, InitAt, InitRecs

\* The eviction victims are a set of repository ids.
LEMMA VictimsType == Victims \subseteq SUBSET Registered /\ Registered \subseteq Repos
BY DEF Victims, Oldest, Evictable, Registered

(***************************************************************************)
(* Types.                                                                  *)
(***************************************************************************)

\* Every step keeps the types.
LEMMA TypeStep ==
  ASSUME TypeOK, CallShape, [Next]_vars
  PROVE  TypeOK'
<1> USE PathAssumption, BoundAssumption, InitRecType DEF TypeOK
<1>1. ASSUME NEW r \in Repos, Touch(r) PROVE TypeOK'
  BY <1>1 DEF Touch, queryVars
<1>2. ASSUME NEW r \in Repos, InitCall(r) PROVE TypeOK'
  BY <1>2 DEF InitCall, InitAt, queryVars, entryVars
<1>3. ASSUME NEW r \in Repos, InitThrows(r) PROVE TypeOK'
  BY <1>3 DEF InitThrows, InitAt, NoInit, queryVars, entryVars
<1>4. ASSUME NEW r \in Repos, StatThenOpen(r) PROVE TypeOK'
  <2>1. PICK R \in SUBSET Repos : CloseRepos(R)
    BY <1>4, VictimsType DEF StatThenOpen
  <2>2. init' = [init EXCEPT ![r] = InitAt("open", 1, None)]
    BY <1>4 DEF StatThenOpen
  <2>3. init' \in [Repos -> InitRecs]
    BY <2>2
  <2>4. \A s \in Repos : init'[s].pc = "delay" => init'[s].attempt < LockRetryAttempts
    BY <2>2 DEF InitAt
  <2>5. QED
    BY <1>4, <2>1, <2>3, <2>4, CloseType DEF StatThenOpen, CloseRepos, queryVars
<1>5. ASSUME NEW R \in SUBSET Repos, NEW e \in Entries, NEW d \in Dbs,
             BuildEntry(R, e, d)
      PROVE  /\ dbOf' \in [Entries -> Dbs \cup {None}]
             /\ available' \in [Entries -> SUBSET Conns]
             /\ checkedOut' \in [Entries -> Int]
             /\ waiters' \in [Entries -> Seq(Queries)]
             /\ closed' \in [Entries -> BOOLEAN]
             /\ age' \in [Entries -> 0 .. MaxAge]
             /\ openConns' \subseteq Entries \X Conns
  <2> USE <1>5, CloseType DEF BuildEntry
  <2>1. available' \in [Entries -> SUBSET Conns] /\ closed' \in [Entries -> BOOLEAN]
    OBVIOUS
  <2>2. openConns' \subseteq Entries \X Conns
    OBVIOUS
  <2>3. waiters' \in [Entries -> Seq(Queries)]
    OBVIOUS
  <2>4. QED
    BY <2>1, <2>2, <2>3
<1>6. ASSUME NEW R \in SUBSET Repos, NEW r \in Repos, NEW e \in Entries,
             Register(R, r, e) \/ AwaitFts(R, r, e)
      PROVE  /\ pool' \in [Repos -> Entries \cup {None}]
             /\ init' \in [Repos -> InitRecs]
             /\ \A s \in Repos : init'[s].pc = "delay"
                                => init'[s].attempt < LockRetryAttempts
  <2>1. CASE Register(R, r, e)
    BY <2>1, CloseType DEF Register, NoInit, InitAt
  <2>2. CASE AwaitFts(R, r, e)
    BY <2>2, CloseType DEF AwaitFts, InitAt
  <2>3. QED
    BY <1>6, <2>1, <2>2
<1>7. ASSUME NEW r \in Repos, StatThenShare(r) PROVE TypeOK'
  <2>1. PICK R \in SUBSET Repos, e \in Entries : TakeReference(r, R, e)
    BY <1>7, VictimsType DEF StatThenShare
  <2> DEFINE shared == CacheWithout(R)[LbugPath[r]]
  <2>2. shared \in SharedDbs /\ shared.db # None
    BY <2>1, CloseType DEF TakeReference
  <2>3. shared.db \in Dbs /\ SharedDb(shared.db, shared.refCount + 1, shared.ftsLoaded) \in SharedDbs
    BY <2>2 DEF SharedDb, SharedDbs
  <2>4. dbCache' \in [Paths -> SharedDbs]
    BY <2>1, <2>3, CloseType DEF TakeReference
  <2>5. openDbs' \subseteq Dbs
    BY <2>1, CloseType DEF TakeReference
  <2>6. BuildEntry(R, e, shared.db)
    BY <2>1 DEF TakeReference
  <2>7. Register(R, r, e) \/ AwaitFts(R, r, e)
    BY <2>1 DEF TakeReference
  <2>8. UNCHANGED queryVars
    BY <1>7 DEF StatThenShare
  <2> HIDE DEF shared
  <2>9. QED
    BY <1>5, <1>6, <2>3, <2>4, <2>5, <2>6, <2>7, <2>8 DEF queryVars
<1>8. ASSUME NEW r \in Repos, OpenSucceeds(r) PROVE TypeOK'
  <2>1. PICK d \in Dbs, e \in Entries :
          /\ openDbs' = openDbs \cup {d}
          /\ dbCache' = [dbCache EXCEPT ![LbugPath[r]] = SharedDb(d, 1, FALSE)]
          /\ BuildEntry({}, e, d)
          /\ AwaitFts({}, r, e)
    BY <1>8 DEF OpenSucceeds
  <2>2. SharedDb(d, 1, FALSE) \in SharedDbs
    BY DEF SharedDb, SharedDbs
  <2>3. dbCache' \in [Paths -> SharedDbs] /\ openDbs' \subseteq Dbs
    BY <2>1, <2>2
  <2>4. UNCHANGED queryVars
    BY <1>8 DEF OpenSucceeds
  <2>5. {} \in SUBSET Repos
    OBVIOUS
  <2>6. QED
    BY <1>5, <1>6, <2>1, <2>3, <2>4, <2>5 DEF queryVars
<1>9. ASSUME NEW r \in Repos,
             OpenFindsCorruptWal(r) \/ OpenFindsLock(r) \/ RetryOpen(r)
      PROVE  TypeOK'
  <2>1. init[r].attempt \in 0 .. LockRetryAttempts
    BY DEF InitRecs
  <2>2. CASE OpenFindsCorruptWal(r)
    BY <2>2 DEF OpenFindsCorruptWal, InitAt, queryVars, entryVars
  <2>3. CASE OpenFindsLock(r)
    BY <2>1, <2>3 DEF OpenFindsLock, InitAt, queryVars, entryVars
  <2>4. CASE RetryOpen(r)
    BY <2>1, <2>4 DEF RetryOpen, InitAt, queryVars, entryVars
  <2>5. QED
    BY <1>9, <2>2, <2>3, <2>4
<1>10. ASSUME NEW r \in Repos, FtsAnswers(r) PROVE TypeOK'
  <2>1. dbCache[LbugPath[r]] \in SharedDbs
    OBVIOUS
  <2>2. \A ok \in BOOLEAN :
          SharedDb(dbCache[LbugPath[r]].db, dbCache[LbugPath[r]].refCount, ok) \in SharedDbs
    BY <2>1 DEF SharedDb, SharedDbs
  <2>3. dbCache' \in [Paths -> SharedDbs]
    BY <1>10, <2>2 DEF FtsAnswers
  <2>4. init[r].entry \in Entries \cup {None}
    BY DEF InitRecs
  <2>5. pool' \in [Repos -> Entries \cup {None}] /\ age' \in [Entries -> 0 .. MaxAge]
    <3>1. pool' = [pool EXCEPT ![r] = init[r].entry]
      BY <1>10 DEF FtsAnswers
    <3>2. age' = [age EXCEPT ![init[r].entry] = 0]
      BY <1>10 DEF FtsAnswers
    <3>3. 0 \in 0 .. MaxAge
      OBVIOUS
    <3>4. ASSUME NEW e PROVE [age EXCEPT ![e] = 0] \in [Entries -> 0 .. MaxAge]
      BY <3>3
    <3>5. QED
      BY <2>4, <3>1, <3>2, <3>4
  <2>6. init' \in [Repos -> InitRecs]
    BY <1>10 DEF FtsAnswers
  <2>7. \A s \in Repos : init'[s].pc = "delay" => init'[s].attempt < LockRetryAttempts
    BY <1>10 DEF FtsAnswers, NoInit, InitAt
  <2>8. QED
    BY <1>10, <2>3, <2>5, <2>6, <2>7 DEF FtsAnswers, queryVars
<1>11. ASSUME NEW q \in Queries, CheckoutFast(q) PROVE TypeOK'
  BY <1>11 DEF CheckoutFast, Registered, FirstStage, CallStates, Holding
<1>12. ASSUME NEW q \in Queries, CheckoutWaits(q) PROVE TypeOK'
  BY <1>12 DEF CheckoutWaits, Registered, CallStates
<1>13. ASSUME NEW q \in Queries, NEW then \in {"idle", "abandoned"},
              call[q] \in Holding, Checkin(q, then)
       PROVE  TypeOK'
  <2>1. onEntry[q] \in Entries /\ onConn[q] \in Conns
    BY <1>13 DEF CallShape
  <2>2. UNCHANGED <<pool, dbOf, closed, age, dbCache, openDbs, init>>
    BY <1>13 DEF Checkin
  <2>3. /\ onEntry' \in [Queries -> Entries \cup {None}]
        /\ onConn' \in [Queries -> Conns \cup {None}]
    BY <1>13, <2>1 DEF Checkin
  <2>4. call' \in [Queries -> CallStates]
    BY <1>13 DEF Checkin, CallStates, Holding, FirstStage
  <2>5. openConns' \subseteq Entries \X Conns
    BY <1>13 DEF Checkin, CheckinClosed, CheckinPutBack
  <2>6. checkedOut' \in [Entries -> Int]
    BY <1>13, <2>1 DEF Checkin, CheckinClosed, CheckinPutBack
  <2>7. available[onEntry[q]] \cup {onConn[q]} \in SUBSET Conns
    BY <2>1
  <2>8. available' \in [Entries -> SUBSET Conns]
    BY <1>13, <2>1, <2>7 DEF Checkin, CheckinClosed, CheckinPutBack
  <2>9. waiters[onEntry[q]] # <<>> => Tail(waiters[onEntry[q]]) \in Seq(Queries)
    BY <2>1
  <2>10. waiters' \in [Entries -> Seq(Queries)]
    BY <1>13, <2>1, <2>9 DEF Checkin, CheckinClosed, CheckinPutBack
  <2>11. QED
    BY <2>2, <2>3, <2>4, <2>5, <2>6, <2>8, <2>10
<1>14. ASSUME NEW q \in Queries, Advance(q) \/ AbandonedEnds(q) PROVE TypeOK'
  BY <1>14 DEF Advance, AbandonedEnds, entryVars, FirstStage, CallStates, Holding
<1>15. ASSUME NEW q \in Queries, WaiterTimesOut(q) PROVE TypeOK'
  <2>1. PICK i \in 1 .. Len(waiters[onEntry[q]]) :
          waiters' = [waiters EXCEPT ![onEntry[q]] = Splice(@, i)]
    BY <1>15 DEF WaiterTimesOut
  <2>2. onEntry[q] \in Entries => Splice(waiters[onEntry[q]], i) \in Seq(Queries)
    BY SpliceType
  <2>3. waiters' \in [Entries -> Seq(Queries)]
    BY <2>1, <2>2
  <2>4. QED
    BY <1>15, <2>3 DEF WaiterTimesOut, CallStates
<1>16. ASSUME NEW R \in SUBSET Repos, Unregister(R) PROVE TypeOK'
  BY <1>16, CloseType DEF Unregister, CloseRepos, queryVars
<1>17. ASSUME Tick PROVE TypeOK'
  BY <1>17 DEF Tick, queryVars
<1>18. CASE UNCHANGED vars
  BY <1>18 DEF vars, entryVars, queryVars
<1>19. CASE Next
  BY <1>19, <1>1, <1>2, <1>3, <1>4, <1>7, <1>8, <1>9, <1>10, <1>11, <1>12, <1>13,
     <1>14, <1>15, <1>16, <1>17
     DEF Next, InitStep, QueryStep, Return, QueryTimesOut, CloseLbug, CloseAll,
         IdleSweep, Registered, FirstStage, Holding
<1>20. QED
  BY <1>18, <1>19

(***************************************************************************)
(* The rest of the inductive invariant, one lemma per kind of step.        *)
(***************************************************************************)

Shape == CallShape /\ QueueShape /\ EntryShape
Promise == Conservation /\ ExclusiveCheckout /\ NoIdleConnWhileWaiting /\ NoConnLeak

\* A caller that stays queued where it was keeps its promise.
LEMMA StillQueued ==
  ASSUME Promise,
         \A s \in Queries, x \in Entries : call'[s] = "waiting" /\ onEntry'[s] = x =>
           /\ call[s] = "waiting" /\ onEntry[s] = x /\ waiters'[x] = waiters[x]
           /\ Pooled(x)' => Pooled(x) /\ available'[x] = available[x]
  PROVE  NoIdleConnWhileWaiting'
<1> SUFFICES ASSUME NEW s \in Queries, NEW x \in Entries,
                    call'[s] = "waiting", onEntry'[s] = x
             PROVE  (Pooled(x)' => available'[x] = {}) /\ QueuedOnce(s, x)'
  BY DEF NoIdleConnWhileWaiting
<1>1. (Pooled(x) => available[x] = {}) /\ QueuedOnce(s, x)
  BY DEF Promise, NoIdleConnWhileWaiting
<1>2. waiters'[x] = waiters[x] /\ (Pooled(x)' => Pooled(x) /\ available'[x] = available[x])
  OBVIOUS
<1>3. QueuedOnce(s, x)'
  BY <1>1, <1>2 DEF QueuedOnce
<1>4. QED
  BY <1>1, <1>2, <1>3

\* A step that moves no connection, call or entry keeps everything.
LEMMA QuietStep ==
  ASSUME TypeOK, Shape, Promise,
         UNCHANGED <<pool, available, checkedOut, waiters, closed, openConns, queryVars>>,
         \A r \in Repos : /\ init'[r].entry = init[r].entry
                          /\ init'[r].pc = "fts" <=> init[r].pc = "fts"
                          /\ init'[r].pc # "none" => pool[r] = None
  PROVE  Shape' /\ Promise'
<1>1. \A e \in Entries : /\ Pooled(e)' <=> Pooled(e)
                         /\ Initialising(e)' <=> Initialising(e)
                         /\ Referenced(e)' <=> Referenced(e)
  BY DEF Pooled, Initialising, Referenced, queryVars
<1>2. CallShape' /\ QueueShape'
  BY DEF Shape, CallShape, QueueShape, queryVars
<1>3. EntryShape'
  <2>1. \A q \in Queries : onEntry[q] # None => onEntry[q] \in Entries
    BY DEF TypeOK
  <2>2. QED
    BY <1>1, <2>1 DEF Shape, EntryShape, queryVars
<1>4. Conservation'
  BY <1>1 DEF Promise, Conservation
<1>5. ExclusiveCheckout'
  BY DEF Promise, ExclusiveCheckout, HeldBy, queryVars
<1>6. NoIdleConnWhileWaiting'
  BY <1>1 DEF Promise, NoIdleConnWhileWaiting, QueuedOnce, queryVars
<1>7. NoConnLeak'
  <2>1. \A q \in Queries, e \in Entries, c \in Conns : HeldBy(q, e, c)' <=> HeldBy(q, e, c)
    BY DEF HeldBy, queryVars
  <2>2. QED
    BY <1>1, <2>1 DEF Promise, NoConnLeak
<1>8. QED
  BY <1>2, <1>3, <1>4, <1>5, <1>6, <1>7 DEF Shape, Promise

\* Closing a set of registered ids keeps the invariant: the entries leave the
\* map, and what their calls hold stays open until they check it in.
LEMMA CloseStep ==
  ASSUME TypeOK, TypeOK', Shape, Promise, NEW R \in SUBSET Registered,
         pool' = PoolWithout(R), closed' = ClosedWith(R),
         available' = AvailableWithout(R), openConns' = OpenConnsWithout(R),
         UNCHANGED <<checkedOut, waiters, queryVars>>,
         \A r \in Repos : /\ init'[r].entry = init[r].entry
                          /\ init'[r].pc = "fts" <=> init[r].pc = "fts"
                          /\ init'[r].pc # "none" => pool[r] = None
  PROVE  Shape' /\ Promise'
<1> USE NoneAssumption
<1>1. \A r \in Repos : pool'[r] = IF r \in R THEN None ELSE pool[r]
  BY DEF PoolWithout
<1>2. \A r \in Repos : pool[r] # None => (pool[r] \in EntriesOf(R) <=> r \in R)
  BY DEF EntriesOf, Registered, Shape, EntryShape
<1>3. \A e \in Entries : /\ closed'[e] <=> closed[e] \/ e \in EntriesOf(R)
                         /\ available'[e] = IF e \in EntriesOf(R) THEN {} ELSE available[e]
                         /\ waiters'[e] = waiters[e] /\ checkedOut'[e] = checkedOut[e]
  BY DEF ClosedWith, AvailableWithout
<1>4. EntriesOf(R) \subseteq Entries
  BY DEF EntriesOf, Registered, TypeOK
<1>5. \A e \in Entries : /\ Pooled(e)' <=> Pooled(e) /\ e \notin EntriesOf(R)
                         /\ Initialising(e)' <=> Initialising(e)
  BY <1>1, <1>2 DEF Pooled, Initialising
<1>6. \A e \in Entries : e \in EntriesOf(R) => ~Initialising(e) /\ Pooled(e)
  BY DEF EntriesOf, Registered, Initialising, Pooled, Shape, EntryShape
<1>7. \A q \in Queries : call'[q] = call[q] /\ onEntry'[q] = onEntry[q] /\ onConn'[q] = onConn[q]
  BY DEF queryVars
<1>8. CallShape' /\ QueueShape'
  BY <1>3, <1>7 DEF Shape, CallShape, QueueShape, queryVars, TypeOK
<1>9. EntryShape'
  <2>1. /\ \A r, s \in Repos : pool'[r] # None /\ pool'[r] = pool'[s] => r = s
        /\ \A r, s \in Repos : pool'[r] # None => pool'[r] # init'[s].entry
        /\ \A r \in Repos : init'[r].pc # "none" => pool'[r] = None
        /\ \A r \in Repos : init'[r].pc = "fts" <=> init'[r].entry # None
    BY <1>1 DEF Shape, EntryShape
  <2>2. \A r, s \in Repos : init'[r].entry # None /\ init'[r].entry = init'[s].entry => r = s
    BY DEF Shape, EntryShape
  <2>3. \A r \in Repos : pool'[r] # None => ~closed'[pool'[r]]
    BY <1>1, <1>2, <1>3 DEF Shape, EntryShape, TypeOK
  <2>4. ASSUME NEW r \in Repos, init'[r].entry # None
        PROVE  /\ ~closed'[init'[r].entry]
               /\ available'[init'[r].entry] = Conns
               /\ checkedOut'[init'[r].entry] = 0
               /\ \A q \in Queries : onEntry'[q] # init'[r].entry
    <3>1. init'[r].entry = init[r].entry /\ init[r].entry \in Entries
      BY <2>4 DEF TypeOK, InitRecs
    <3>2. init[r].entry \notin EntriesOf(R)
      BY <1>6, <3>1 DEF Initialising
    <3>3. QED
      BY <1>3, <1>7, <3>1, <3>2, <2>4 DEF Shape, EntryShape
  <2>5. ASSUME NEW q \in Queries, onEntry'[q] # None
        PROVE  Pooled(onEntry[q])' \/ (closed'[onEntry'[q]] /\ available'[onEntry'[q]] = {})
    <3>1. PICK e \in Entries : onEntry[q] = e /\ onEntry'[q] = e
      BY <1>7, <2>5 DEF TypeOK
    <3>2. Pooled(e) \/ (closed[e] /\ available[e] = {})
      BY <3>1, <2>5 DEF Shape, EntryShape
    <3>3. Pooled(e)' \/ (closed'[e] /\ available'[e] = {})
      BY <1>3, <1>5, <3>2
    <3>4. QED
      BY <3>1, <3>3 DEF Pooled
  <2>6. QED
    BY <2>1, <2>2, <2>3, <2>4, <2>5 DEF EntryShape
<1>10. Conservation'
  BY <1>3, <1>5 DEF Promise, Conservation
<1>11. ExclusiveCheckout'
  <2>1. \A q \in Queries : call[q] \in Holding => onEntry[q] \in Entries
    BY DEF Shape, CallShape
  <2>2. QED
    BY <1>3, <1>7, <2>1 DEF Promise, ExclusiveCheckout, HeldBy
<1>12. NoIdleConnWhileWaiting'
  BY <1>3, <1>5, <1>7 DEF Promise, NoIdleConnWhileWaiting, QueuedOnce
<1>13. NoConnLeak'
  <2>1. \A q \in Queries, e \in Entries, c \in Conns : HeldBy(q, e, c)' <=> HeldBy(q, e, c)
    BY <1>7 DEF HeldBy
  <2>2. ASSUME NEW e \in Entries, NEW c \in Conns
        PROVE  <<e, c>> \in openConns' <=> (Referenced(e)' /\ c \in available'[e])
                                           \/ \E q \in Queries : HeldBy(q, e, c)'
    <3>1. CASE e \in EntriesOf(R)
      <4>1. <<e, c>> \in openConns' <=> <<e, c>> \in openConns /\ c \notin available[e]
        BY <3>1 DEF OpenConnsWithout
      <4>2. \A q \in Queries : HeldBy(q, e, c) => c \notin available[e]
        BY DEF HeldBy, Promise, ExclusiveCheckout
      <4>3. QED
        BY <1>3, <2>1, <3>1, <4>1, <4>2 DEF Promise, NoConnLeak
    <3>2. CASE e \notin EntriesOf(R)
      <4>1. <<e, c>> \in openConns' <=> <<e, c>> \in openConns
        BY <3>2 DEF OpenConnsWithout
      <4>2. Referenced(e)' <=> Referenced(e)
        BY <1>5, <1>7, <3>2 DEF Referenced
      <4>3. QED
        BY <1>3, <2>1, <3>2, <4>1, <4>2 DEF Promise, NoConnLeak
    <3>3. QED
      BY <3>1, <3>2
  <2>3. QED
    BY <2>2 DEF NoConnLeak
<1>14. QED
  BY <1>8, <1>9, <1>10, <1>11, <1>12, <1>13 DEF Shape, Promise

\* Filling a fresh entry for r, while victims R are evicted.
LEMMA BuildStep ==
  ASSUME TypeOK, TypeOK', Shape, Promise, NEW R \in SUBSET Registered,
         NEW r \in Repos, init[r].pc \in {"stat", "open", "reopen"},
         NEW e \in Entries, NEW d \in Dbs,
         BuildEntry(R, e, d), Register(R, r, e) \/ AwaitFts(R, r, e),
         UNCHANGED queryVars
  PROVE  Shape' /\ Promise'
<1> USE NoneAssumption, ConnAssumption
<1>1. pool[r] = None /\ init[r].entry = None /\ r \notin R
  BY DEF Shape, EntryShape, Registered
<1>2. \/ /\ \A s \in Repos : pool'[s] = IF s = r THEN e ELSE IF s \in R THEN None ELSE pool[s]
         /\ \A s \in Repos : init'[s] = IF s = r THEN NoInit ELSE init[s]
      \/ /\ \A s \in Repos : pool'[s] = IF s \in R THEN None ELSE pool[s]
         /\ \A s \in Repos : init'[s] = IF s = r THEN InitAt("fts", 0, e) ELSE init[s]
  BY DEF Register, AwaitFts, PoolWithout, TypeOK
<1>3. \A s \in Repos : pool[s] # None => (pool[s] \in EntriesOf(R) <=> s \in R)
  BY DEF EntriesOf, Registered, Shape, EntryShape
<1>4. EntriesOf(R) \subseteq Entries
  BY DEF EntriesOf, Registered, TypeOK
<1>5. /\ \A s \in Repos : pool[s] # e /\ init[s].entry # e
      /\ \A q \in Queries : onEntry[q] # e
  BY DEF BuildEntry, Referenced, Pooled, Initialising
<1>6. e \notin EntriesOf(R) /\ e # None
  BY <1>5 DEF EntriesOf, Registered
<1>7. \A x \in Entries :
        /\ closed'[x] <=> x # e /\ (closed[x] \/ x \in EntriesOf(R))
        /\ available'[x] = IF x = e THEN Conns ELSE IF x \in EntriesOf(R) THEN {} ELSE available[x]
        /\ waiters'[x] = IF x = e THEN <<>> ELSE waiters[x]
        /\ checkedOut'[x] = IF x = e THEN 0 ELSE checkedOut[x]
  BY DEF BuildEntry, ClosedWith, AvailableWithout, TypeOK
<1>8. \A x \in Entries : x # e => /\ Pooled(x)' <=> Pooled(x) /\ x \notin EntriesOf(R)
                                  /\ Initialising(x)' <=> Initialising(x)
  <2>1. NoInit.entry = None /\ InitAt("fts", 0, e).entry = e
    BY DEF NoInit, InitAt
  <2>2. ASSUME NEW x \in Entries, x # e PROVE Initialising(x)' <=> Initialising(x)
    BY <1>1, <1>2, <2>1, <2>2 DEF Initialising
  <2>3. ASSUME NEW x \in Entries, x # e PROVE Pooled(x)' <=> Pooled(x) /\ x \notin EntriesOf(R)
    BY <1>1, <1>2, <1>3, <2>3 DEF Pooled
  <2>4. QED
    BY <2>2, <2>3
<1>9. \A x \in Entries : x \in EntriesOf(R) => ~Initialising(x) /\ Pooled(x)
  BY DEF EntriesOf, Registered, Initialising, Pooled, Shape, EntryShape
<1>10. \A q \in Queries : call'[q] = call[q] /\ onEntry'[q] = onEntry[q] /\ onConn'[q] = onConn[q]
  BY DEF queryVars
<1>11. CallShape'
  BY <1>10 DEF Shape, CallShape
<1>12. QueueShape'
  <2>1. ASSUME NEW x \in Entries, NEW i \in 1 .. Len(waiters'[x])
        PROVE  call'[waiters'[x][i]] = "waiting" /\ onEntry'[waiters'[x][i]] = x
    <3>1. x # e
      BY <1>7, <2>1
    <3>2. waiters'[x] = waiters[x]
      BY <1>7, <3>1
    <3>3. QED
      BY <3>2, <2>1 DEF Shape, QueueShape, queryVars
  <2>2. QED
    BY <2>1 DEF QueueShape
<1>13. EntryShape'
  <2>1. NoInit.entry = None /\ NoInit.pc = "none"
    BY DEF NoInit, InitAt
  <2>2. InitAt("fts", 0, e).entry = e /\ InitAt("fts", 0, e).pc = "fts"
    BY DEF InitAt
  <2>3. \A s, t \in Repos : pool'[s] # None /\ pool'[s] = pool'[t] => s = t
    BY <1>2, <1>5, <1>6 DEF Shape, EntryShape
  <2>4. \A s, t \in Repos : init'[s].entry # None /\ init'[s].entry = init'[t].entry => s = t
    BY <1>2, <1>5, <2>1, <2>2 DEF Shape, EntryShape
  <2>5. \A s, t \in Repos : pool'[s] # None => pool'[s] # init'[t].entry
    BY <1>2, <1>5, <1>6, <2>1, <2>2 DEF Shape, EntryShape
  <2>6. \A s \in Repos : init'[s].pc # "none" => pool'[s] = None
    BY <1>1, <1>2, <2>1, <2>2 DEF Shape, EntryShape
  <2>7. \A s \in Repos : init'[s].pc = "fts" <=> init'[s].entry # None
    BY <1>2, <1>6, <2>1, <2>2 DEF Shape, EntryShape
  <2>8. ASSUME NEW s \in Repos, pool'[s] # None PROVE ~closed'[pool'[s]]
    <3>1. CASE pool'[s] = e
      BY <1>7, <3>1
    <3>2. CASE pool'[s] # e
      <4>1. pool'[s] = pool[s] /\ s \notin R /\ pool[s] \in Entries
        BY <1>2, <2>8, <3>2 DEF TypeOK
      <4>2. QED
        BY <1>3, <1>7, <2>8, <3>2, <4>1 DEF Shape, EntryShape
    <3>3. QED
      BY <3>1, <3>2
  <2>9. ASSUME NEW s \in Repos, init'[s].entry # None
        PROVE  /\ ~closed'[init'[s].entry]
               /\ available'[init'[s].entry] = Conns
               /\ checkedOut'[init'[s].entry] = 0
               /\ \A q \in Queries : onEntry'[q] # init'[s].entry
    <3>1. CASE init'[s].entry = e
      BY <1>5, <1>7, <1>10, <3>1
    <3>2. CASE init'[s].entry # e
      <4>1. init'[s].entry = init[s].entry /\ init[s].entry \in Entries
        BY <1>2, <2>1, <2>2, <2>9, <3>2 DEF TypeOK, InitRecs
      <4>2. init[s].entry \notin EntriesOf(R)
        BY <1>9, <4>1 DEF Initialising
      <4>3. QED
        BY <1>7, <1>10, <2>9, <3>2, <4>1, <4>2 DEF Shape, EntryShape
    <3>3. QED
      BY <3>1, <3>2
  <2>10. ASSUME NEW q \in Queries, onEntry'[q] # None
        PROVE  Pooled(onEntry[q])' \/ (closed'[onEntry'[q]] /\ available'[onEntry'[q]] = {})
    <3>1. PICK x \in Entries : onEntry[q] = x /\ onEntry'[q] = x
      BY <1>10, <2>10 DEF TypeOK
    <3>2. x # e
      BY <1>5, <3>1
    <3>3. Pooled(x) \/ (closed[x] /\ available[x] = {})
      BY <3>1, <2>10 DEF Shape, EntryShape
    <3>4. Pooled(x)' \/ (closed'[x] /\ available'[x] = {})
      BY <1>7, <1>8, <3>2, <3>3
    <3>5. QED
      BY <3>1, <3>4 DEF Pooled
  <2>11. QED
    BY <2>3, <2>4, <2>5, <2>6, <2>7, <2>8, <2>9, <2>10 DEF EntryShape
<1>14. Conservation'
  <2>1. Cardinality(Conns) \in Nat
    BY FS_CardinalityType
  <2>2. QED
    BY <1>7, <1>8, <2>1 DEF Promise, Conservation
<1>15. ExclusiveCheckout'
  <2>1. \A q \in Queries : call[q] \in Holding => onEntry[q] \in Entries
    BY DEF Shape, CallShape
  <2>2. QED
    BY <1>5, <1>7, <1>10, <2>1 DEF Promise, ExclusiveCheckout, HeldBy
<1>16. NoIdleConnWhileWaiting'
  <2>1. ASSUME NEW s \in Queries, NEW x \in Entries, call'[s] = "waiting", onEntry'[s] = x
        PROVE  /\ call[s] = "waiting" /\ onEntry[s] = x /\ waiters'[x] = waiters[x]
               /\ Pooled(x)' => Pooled(x) /\ available'[x] = available[x]
    <3>1. call[s] = "waiting" /\ onEntry[s] = x /\ x # e
      BY <1>5, <1>10, <2>1
    <3>2. QED
      BY <1>7, <1>8, <3>1
  <2>2. QED
    BY <2>1, StillQueued
<1>17. NoConnLeak'
  <2>1. \A q \in Queries, x \in Entries, c \in Conns : HeldBy(q, x, c)' <=> HeldBy(q, x, c)
    BY <1>10 DEF HeldBy
  <2>2. openConns' = OpenConnsWithout(R) \cup ({e} \X Conns)
    BY DEF BuildEntry
  <2>3. ASSUME NEW x \in Entries, NEW c \in Conns
        PROVE  <<x, c>> \in openConns' <=> (Referenced(x)' /\ c \in available'[x])
                                           \/ \E q \in Queries : HeldBy(q, x, c)'
    <3>1. CASE x = e
      <4>1. Referenced(e)'
        BY <1>1, <1>2 DEF Referenced, Pooled, Initialising, InitAt
      <4>2. QED
        BY <1>7, <2>2, <3>1, <4>1
    <3>2. CASE x \in EntriesOf(R)
      <4>1. <<x, c>> \in openConns' <=> <<x, c>> \in openConns /\ c \notin available[x]
        BY <1>6, <2>2, <3>2 DEF OpenConnsWithout
      <4>2. \A q \in Queries : HeldBy(q, x, c) => c \notin available[x]
        BY DEF HeldBy, Promise, ExclusiveCheckout
      <4>3. QED
        BY <1>6, <1>7, <2>1, <3>2, <4>1, <4>2 DEF Promise, NoConnLeak
    <3>3. CASE x # e /\ x \notin EntriesOf(R)
      <4>1. <<x, c>> \in openConns' <=> <<x, c>> \in openConns
        BY <2>2, <3>3 DEF OpenConnsWithout
      <4>2. Referenced(x)' <=> Referenced(x)
        BY <1>8, <1>10, <3>3 DEF Referenced
      <4>3. QED
        BY <1>7, <2>1, <3>3, <4>1, <4>2 DEF Promise, NoConnLeak
    <3>4. QED
      BY <3>1, <3>2, <3>3
  <2>4. QED
    BY <2>3 DEF NoConnLeak
<1>18. QED
  BY <1>11, <1>12, <1>13, <1>14, <1>15, <1>16, <1>17 DEF Shape, Promise

\* Registering the entry that was being initialised.
LEMMA FtsStep ==
  ASSUME TypeOK, TypeOK', Shape, Promise, NEW r \in Repos, FtsAnswers(r)
  PROVE  Shape' /\ Promise'
<1> USE NoneAssumption, ConnAssumption
<1> DEFINE e == init[r].entry
<1>1. e # None /\ pool[r] = None /\ init[r].pc = "fts"
  BY DEF FtsAnswers, Shape, EntryShape
<1>2. e \in Entries
  BY <1>1 DEF TypeOK, InitRecs
<1> HIDE DEF e
<1>3. /\ \A s \in Repos : pool'[s] = IF s = r THEN e ELSE pool[s]
      /\ \A s \in Repos : init'[s] = IF s = r THEN NoInit ELSE init[s]
  BY DEF FtsAnswers, TypeOK, e
<1>4. UNCHANGED <<available, checkedOut, waiters, closed, openConns, call, onEntry, onConn>>
  BY DEF FtsAnswers, queryVars
<1>5. NoInit.entry = None /\ NoInit.pc = "none"
  BY DEF NoInit, InitAt
<1>6. /\ ~closed[e] /\ available[e] = Conns /\ checkedOut[e] = 0
      /\ \A q \in Queries : onEntry[q] # e
      /\ \A s \in Repos : pool[s] # e
      /\ \A s \in Repos : init[s].entry = e => s = r
  BY <1>1 DEF Shape, EntryShape, e
<1>7. \A x \in Entries : /\ Pooled(x)' <=> Pooled(x) \/ x = e
                         /\ Referenced(x)' <=> Referenced(x)
  <2>1. \A x \in Entries : Pooled(x)' <=> Pooled(x) \/ x = e
    BY <1>1, <1>3 DEF Pooled
  <2>2. \A x \in Entries : Initialising(x)' <=> Initialising(x) /\ x # e
    BY <1>3, <1>5, <1>6 DEF Initialising, e
  <2>3. Initialising(e)
    BY DEF Initialising, e
  <2>4. QED
    BY <1>4, <2>1, <2>2, <2>3 DEF Referenced
<1>8. CallShape' /\ QueueShape'
  BY <1>4 DEF Shape, CallShape, QueueShape
<1>9. EntryShape'
  <2>1. \A s, t \in Repos : pool'[s] # None /\ pool'[s] = pool'[t] => s = t
    BY <1>3, <1>6 DEF Shape, EntryShape
  <2>2. \A s, t \in Repos : init'[s].entry # None /\ init'[s].entry = init'[t].entry => s = t
    BY <1>3, <1>5 DEF Shape, EntryShape
  <2>3. \A s, t \in Repos : pool'[s] # None => pool'[s] # init'[t].entry
    BY <1>3, <1>5, <1>6 DEF Shape, EntryShape
  <2>4. \A s \in Repos : init'[s].pc # "none" => pool'[s] = None
    BY <1>3, <1>5 DEF Shape, EntryShape
  <2>5. \A s \in Repos : init'[s].pc = "fts" <=> init'[s].entry # None
    BY <1>3, <1>5 DEF Shape, EntryShape
  <2>6. \A s \in Repos : pool'[s] # None => ~closed'[pool'[s]]
    BY <1>3, <1>4, <1>6 DEF Shape, EntryShape
  <2>7. \A s \in Repos : init'[s].entry # None =>
          /\ ~closed'[init'[s].entry]
          /\ available'[init'[s].entry] = Conns
          /\ checkedOut'[init'[s].entry] = 0
          /\ \A q \in Queries : onEntry'[q] # init'[s].entry
    BY <1>3, <1>4, <1>5 DEF Shape, EntryShape
  <2>8. ASSUME NEW q \in Queries, onEntry'[q] # None
        PROVE  Pooled(onEntry[q])' \/ (closed'[onEntry'[q]] /\ available'[onEntry'[q]] = {})
    <3>1. PICK x \in Entries : onEntry[q] = x /\ onEntry'[q] = x
      BY <1>4, <2>8 DEF TypeOK
    <3>2. Pooled(x) \/ (closed[x] /\ available[x] = {})
      BY <3>1, <2>8 DEF Shape, EntryShape
    <3>3. Pooled(x)' \/ (closed'[x] /\ available'[x] = {})
      BY <1>4, <1>7, <3>2
    <3>4. QED
      BY <3>1, <3>3 DEF Pooled
  <2>9. QED
    BY <2>1, <2>2, <2>3, <2>4, <2>5, <2>6, <2>7, <2>8 DEF EntryShape
<1>10. Conservation'
  <2>1. Cardinality(Conns) \in Nat
    BY FS_CardinalityType
  <2>2. QED
    BY <1>4, <1>6, <1>7, <2>1 DEF Promise, Conservation
<1>11. ExclusiveCheckout'
  BY <1>4 DEF Promise, ExclusiveCheckout, HeldBy
<1>12. NoIdleConnWhileWaiting'
  <2>1. ASSUME NEW s \in Queries, NEW x \in Entries, call'[s] = "waiting", onEntry'[s] = x
        PROVE  /\ call[s] = "waiting" /\ onEntry[s] = x /\ waiters'[x] = waiters[x]
               /\ Pooled(x)' => Pooled(x) /\ available'[x] = available[x]
    <3>1. call[s] = "waiting" /\ onEntry[s] = x /\ x # e
      BY <1>4, <1>6, <2>1
    <3>2. QED
      BY <1>4, <1>7, <3>1
  <2>2. QED
    BY <2>1, StillQueued
<1>13. NoConnLeak'
  <2>1. \A q \in Queries, x \in Entries, c \in Conns : HeldBy(q, x, c)' <=> HeldBy(q, x, c)
    BY <1>4 DEF HeldBy
  <2>2. QED
    BY <1>4, <1>7, <2>1 DEF Promise, NoConnLeak
<1>14. QED
  BY <1>8, <1>9, <1>10, <1>11, <1>12, <1>13 DEF Shape, Promise

\* A step of one call keeps the entries' shape when the entry it leaves or
\* joins is registered or was closed before.
LEMMA CallEntryShape ==
  ASSUME TypeOK, TypeOK', Shape, NEW q \in Queries,
         UNCHANGED <<pool, init, closed>>,
         \A s \in Queries : onEntry'[s] \in {onEntry[s], None} \/ (s = q /\ Pooled(onEntry'[s])),
         \A x \in Entries : closed[x] => available'[x] = available[x],
         \A x \in Entries : Initialising(x) =>
           available'[x] = available[x] /\ checkedOut'[x] = checkedOut[x]
  PROVE  EntryShape'
<1> USE NoneAssumption
<1>1. ASSUME NEW s \in Repos, init'[s].entry # None
      PROVE  /\ ~closed'[init'[s].entry]
             /\ available'[init'[s].entry] = Conns
             /\ checkedOut'[init'[s].entry] = 0
             /\ \A t \in Queries : onEntry'[t] # init'[s].entry
  <2>1. init[s].entry \in Entries /\ Initialising(init[s].entry) /\ ~Pooled(init[s].entry)
    BY <1>1 DEF TypeOK, InitRecs, Initialising, Pooled, Shape, EntryShape
  <2>2. \A t \in Queries : onEntry'[t] # init[s].entry
    BY <1>1, <2>1 DEF Shape, EntryShape
  <2>3. QED
    BY <1>1, <2>1, <2>2 DEF Shape, EntryShape
<1>2. ASSUME NEW s \in Queries, onEntry'[s] # None
      PROVE  Pooled(onEntry[s])' \/ (closed'[onEntry'[s]] /\ available'[onEntry'[s]] = {})
  <2>1. PICK x \in Entries : onEntry'[s] = x
    BY <1>2 DEF TypeOK
  <2>2. Pooled(x) \/ (closed[x] /\ available[x] = {})
    BY <1>2, <2>1 DEF Shape, EntryShape
  <2>3. QED
    BY <2>1, <2>2 DEF Pooled
<1>3. QED
  BY <1>1, <1>2 DEF Shape, EntryShape

\* Taking an available connection.
LEMMA CheckoutFastStep ==
  ASSUME TypeOK, TypeOK', Shape, Promise, NEW q \in Queries, CheckoutFast(q)
  PROVE  Shape' /\ Promise'
<1> USE NoneAssumption, ConnAssumption
<1>1. PICK r \in Registered, stage \in FirstStage, c \in Conns :
        /\ c \in available[pool[r]]
        /\ available' = [available EXCEPT ![pool[r]] = @ \ {c}]
        /\ onConn' = [onConn EXCEPT ![q] = c]
        /\ checkedOut' = [checkedOut EXCEPT ![pool[r]] = @ + 1]
        /\ onEntry' = [onEntry EXCEPT ![q] = pool[r]]
        /\ call' = [call EXCEPT ![q] = stage]
  BY DEF CheckoutFast, Registered, TypeOK
<1> DEFINE e == pool[r]
<1>2. r \in Repos /\ e \in Entries /\ e # None /\ c \in Conns /\ stage \in Holding
  BY <1>1 DEF Registered, TypeOK, FirstStage, Holding
<1>3. call[q] = "idle" /\ onEntry[q] = None /\ onConn[q] = None
  BY DEF CheckoutFast, Shape, CallShape
<1>4. UNCHANGED <<pool, waiters, closed, openConns, init>>
  BY DEF CheckoutFast
<1>5. Pooled(e) /\ ~closed[e] /\ ~Initialising(e)
  BY <1>1, <1>2 DEF Pooled, Initialising, Shape, EntryShape, Registered
<1> HIDE DEF e
<1>6. /\ \A x \in Entries : /\ available'[x] = IF x = e THEN available[e] \ {c} ELSE available[x]
                            /\ checkedOut'[x] = IF x = e THEN checkedOut[e] + 1 ELSE checkedOut[x]
      /\ \A s \in Queries : /\ call'[s] = IF s = q THEN stage ELSE call[s]
                            /\ onEntry'[s] = IF s = q THEN e ELSE onEntry[s]
                            /\ onConn'[s] = IF s = q THEN c ELSE onConn[s]
  BY <1>1, <1>2 DEF TypeOK, e
<1>7. c \in available[e]
  BY <1>1 DEF e
<1>8. CallShape' /\ QueueShape'
  <2>1. CallShape'
    BY <1>2, <1>6 DEF Shape, CallShape, Holding
  <2>2. \A x \in Entries : \A i \in 1 .. Len(waiters[x]) : waiters[x][i] \in Queries
    BY DEF TypeOK
  <2>3. QueueShape'
    BY <1>3, <1>4, <1>6, <2>2 DEF Shape, QueueShape
  <2>4. QED
    BY <2>1, <2>3
<1>9. EntryShape'
  BY <1>4, <1>5, <1>6, CallEntryShape
<1>10. \A x \in Entries : Pooled(x)' <=> Pooled(x)
  BY <1>4 DEF Pooled
<1>11. Conservation'
  <2>1. IsFiniteSet(available[e])
    BY <1>2, FS_Subset DEF TypeOK
  <2>2. Cardinality(available[e] \ {c}) = Cardinality(available[e]) - 1
    BY <1>7, <2>1, FS_RemoveElement
  <2>3. Cardinality(available[e]) \in Nat
    BY <2>1, FS_CardinalityType
  <2>4. checkedOut[e] + Cardinality(available[e]) = Cardinality(Conns)
    BY <1>2, <1>5 DEF Promise, Conservation
  <2>5. checkedOut[e] \in Int
    BY <1>2 DEF TypeOK
  <2>6. checkedOut[e] + 1 + (Cardinality(available[e]) - 1) = Cardinality(Conns)
    BY <2>3, <2>4, <2>5
  <2>7. QED
    BY <1>6, <1>10, <2>2, <2>6 DEF Promise, Conservation
<1>12. ExclusiveCheckout'
  <2>1. \A s \in Queries : call[s] \in Holding => onEntry[s] \in Entries
    BY DEF Shape, CallShape
  <2>2. \A s \in Queries \ {q} : call[s] \in Holding => ~(onEntry[s] = e /\ onConn[s] = c)
    BY <1>7 DEF Promise, ExclusiveCheckout
  <2>3. QED
    BY <1>2, <1>6, <2>1, <2>2 DEF Promise, ExclusiveCheckout, HeldBy
<1>13. NoIdleConnWhileWaiting'
  <2>1. \A s \in Queries : call'[s] = "waiting" => s # q /\ call[s] = "waiting"
    BY <1>2, <1>6 DEF Holding
  <2>2. \A s \in Queries : call'[s] = "waiting" => onEntry[s] # e /\ onEntry'[s] = onEntry[s]
    BY <1>2, <1>5, <1>6, <1>7, <2>1 DEF Promise, NoIdleConnWhileWaiting
  <2>3. QED
    BY <1>4, <1>6, <1>10, <2>1, <2>2, StillQueued
<1>14. NoConnLeak'
  <2>1. \A x \in Entries, k \in Conns :
          (\E s \in Queries : HeldBy(s, x, k)') <=>
             (x = e /\ k = c) \/ \E s \in Queries : HeldBy(s, x, k)
    BY <1>2, <1>3, <1>6 DEF HeldBy, Holding
  <2>2. \A x \in Entries : Referenced(x) <=> Referenced(x)'
    BY <1>3, <1>4, <1>5, <1>6 DEF Referenced, Pooled, Initialising
  <2>3. Referenced(e)
    BY <1>5 DEF Referenced
  <2>4. ASSUME NEW x \in Entries, NEW k \in Conns
        PROVE  <<x, k>> \in openConns' <=> (Referenced(x)' /\ k \in available'[x])
                                           \/ \E s \in Queries : HeldBy(s, x, k)'
    BY <1>4, <1>6, <1>7, <2>1, <2>2, <2>3, <2>4 DEF Promise, NoConnLeak
  <2>5. QED
    BY <2>4 DEF NoConnLeak
<1>15. QED
  BY <1>8, <1>9, <1>11, <1>12, <1>13, <1>14 DEF Shape, Promise

\* Joining the queue.
LEMMA CheckoutWaitsStep ==
  ASSUME TypeOK, TypeOK', Shape, Promise, NEW q \in Queries, CheckoutWaits(q)
  PROVE  Shape' /\ Promise'
<1> USE NoneAssumption
<1>1. PICK r \in Registered :
        /\ available[pool[r]] = {}
        /\ waiters' = [waiters EXCEPT ![pool[r]] = Append(@, q)]
        /\ onEntry' = [onEntry EXCEPT ![q] = pool[r]]
  BY DEF CheckoutWaits
<1> DEFINE e == pool[r]
<1>2. r \in Repos /\ e \in Entries /\ e # None
  BY <1>1 DEF Registered, TypeOK
<1>3. call[q] = "idle" /\ onEntry[q] = None /\ onConn[q] = None
  BY DEF CheckoutWaits, Shape, CallShape
<1>4. UNCHANGED <<pool, available, checkedOut, closed, openConns, init, onConn>>
  BY DEF CheckoutWaits
<1>5. Pooled(e) /\ ~closed[e] /\ ~Initialising(e) /\ available[e] = {}
  BY <1>1, <1>2 DEF Pooled, Initialising, Shape, EntryShape, Registered
<1> HIDE DEF e
<1>6. /\ \A x \in Entries : waiters'[x] = IF x = e THEN Append(waiters[e], q) ELSE waiters[x]
      /\ \A s \in Queries : /\ call'[s] = IF s = q THEN "waiting" ELSE call[s]
                            /\ onEntry'[s] = IF s = q THEN e ELSE onEntry[s]
  BY <1>1, <1>2 DEF TypeOK, e, CheckoutWaits
<1>7. /\ \A x \in Entries : waiters[x] \in Seq(Queries)
      /\ \A x \in Entries : \A i \in 1 .. Len(waiters[x]) :
           waiters[x][i] \in Queries /\ waiters[x][i] # q
  BY <1>3 DEF TypeOK, Shape, QueueShape
<1>8. /\ Len(Append(waiters[e], q)) = Len(waiters[e]) + 1
      /\ \A i \in 1 .. Len(waiters[e]) + 1 :
           Append(waiters[e], q)[i] = IF i <= Len(waiters[e]) THEN waiters[e][i] ELSE q
  BY <1>2, <1>7
<1>9. CallShape'
  BY <1>2, <1>3, <1>4, <1>6 DEF Shape, CallShape, Holding
<1>10. QueueShape'
  <2>1. ASSUME NEW x \in Entries, NEW i \in 1 .. Len(waiters'[x])
        PROVE  call'[waiters'[x][i]] = "waiting" /\ onEntry'[waiters'[x][i]] = x
    <3>1. CASE x # e
      BY <1>6, <1>7, <2>1, <3>1 DEF Shape, QueueShape
    <3>2. CASE x = e
      <4>1. waiters'[e] = Append(waiters[e], q) /\ Len(waiters[e]) \in Nat
        <5>1. waiters'[e] = Append(waiters[e], q)
          BY <1>2, <1>6
        <5>2. Len(waiters[e]) \in Nat
          BY <1>2, <1>7
        <5>3. QED
          BY <5>1, <5>2
      <4>2. waiters'[x][i] = IF i <= Len(waiters[e]) THEN waiters[e][i] ELSE q
        BY <1>8, <2>1, <3>2, <4>1
      <4>3. i <= Len(waiters[e]) => i \in 1 .. Len(waiters[e])
        BY <2>1, <3>2, <4>1
      <4>4. QED
        BY <1>2, <1>6, <1>7, <3>2, <4>2, <4>3 DEF Shape, QueueShape
    <3>3. QED
      BY <3>1, <3>2
  <2>2. QED
    BY <2>1 DEF QueueShape
<1>11. EntryShape'
  BY <1>4, <1>5, <1>6, CallEntryShape
<1>12. \A x \in Entries : Pooled(x)' <=> Pooled(x)
  BY <1>4 DEF Pooled
<1>13. Conservation'
  BY <1>4, <1>12 DEF Promise, Conservation
<1>14. \A s \in Queries : /\ call'[s] \in Holding => s # q
                          /\ s # q => call'[s] = call[s] /\ onEntry'[s] = onEntry[s]
                          /\ call[s] \in Holding => s # q
  BY <1>3, <1>6 DEF Holding
<1>15. ExclusiveCheckout'
  BY <1>4, <1>14 DEF Promise, ExclusiveCheckout, HeldBy
<1>16. NoIdleConnWhileWaiting'
  <2> SUFFICES ASSUME NEW s \in Queries, NEW x \in Entries,
                      call'[s] = "waiting", onEntry'[s] = x
               PROVE  (Pooled(x)' => available'[x] = {}) /\ QueuedOnce(s, x)'
    BY DEF NoIdleConnWhileWaiting
  <2>1. Len(waiters[e]) \in Nat /\ Len(waiters[x]) \in Nat
    BY <1>2, <1>7
  <2>2. CASE s = q
    <3>1. x = e /\ waiters'[e] = Append(waiters[e], q)
      BY <1>2, <1>6, <2>2
    <3>2. Len(waiters'[e]) = Len(waiters[e]) + 1 /\ waiters'[e][Len(waiters[e]) + 1] = q
      BY <1>8, <2>1, <3>1
    <3>3. \A j \in 1 .. Len(waiters'[e]) : waiters'[e][j] = q => j = Len(waiters[e]) + 1
      BY <1>2, <1>7, <1>8, <2>1, <3>1
    <3>4. Len(waiters[e]) + 1 \in 1 .. Len(waiters'[e])
      BY <2>1, <3>2
    <3>5. QED
      BY <1>4, <1>5, <2>2, <3>1, <3>2, <3>3, <3>4 DEF QueuedOnce
  <2>3. CASE s # q
    <3>1. call[s] = "waiting" /\ onEntry[s] = x
      BY <1>6, <2>3
    <3>2. (Pooled(x) => available[x] = {}) /\ QueuedOnce(s, x)
      BY <3>1 DEF Promise, NoIdleConnWhileWaiting
    <3>3. CASE x # e
      BY <1>4, <1>6, <1>12, <3>2, <3>3 DEF QueuedOnce
    <3>4. CASE x = e
      <4>1. PICK i \in 1 .. Len(waiters[e]) :
              waiters[e][i] = s /\ \A j \in 1 .. Len(waiters[e]) : waiters[e][j] = s => j = i
        BY <3>2, <3>4 DEF QueuedOnce
      <4>2. waiters'[e] = Append(waiters[e], q)
        BY <1>2, <1>6
      <4>3. i \in 1 .. Len(waiters'[e]) /\ waiters'[e][i] = s
        BY <1>8, <2>1, <4>1, <4>2
      <4>4. \A j \in 1 .. Len(waiters'[e]) : waiters'[e][j] = s => j = i
        BY <1>8, <2>1, <2>3, <4>1, <4>2
      <4>5. QED
        BY <1>4, <1>5, <3>4, <4>3, <4>4 DEF QueuedOnce
    <3>5. QED
      BY <3>3, <3>4
  <2>4. QED
    BY <2>2, <2>3
<1>17. NoConnLeak'
  <2>1. \A x \in Entries, k \in Conns, s \in Queries : HeldBy(s, x, k)' <=> HeldBy(s, x, k)
    BY <1>4, <1>14 DEF HeldBy
  <2>2. \A x \in Entries : Referenced(x) <=> Referenced(x)'
    BY <1>3, <1>4, <1>5, <1>6 DEF Referenced, Pooled, Initialising
  <2>3. QED
    BY <1>4, <2>1, <2>2 DEF Promise, NoConnLeak
<1>18. QED
  BY <1>9, <1>10, <1>11, <1>13, <1>15, <1>16, <1>17 DEF Shape, Promise

\* What holds of a call that is about to check its connection in.
LEMMA HolderFacts ==
  ASSUME TypeOK, Shape, Promise, NEW q \in Queries, call[q] \in Holding
  PROVE  /\ onEntry[q] \in Entries /\ onConn[q] \in Conns
         /\ onConn[q] \notin available[onEntry[q]]
         /\ ~Initialising(onEntry[q])
         /\ ~closed[onEntry[q]] => Pooled(onEntry[q])
         /\ closed[onEntry[q]] => ~Pooled(onEntry[q]) /\ available[onEntry[q]] = {}
         /\ \A s \in Queries \ {q} : ~HeldBy(s, onEntry[q], onConn[q])
         /\ <<onEntry[q], onConn[q]>> \in openConns
<1> USE NoneAssumption
<1>1. onEntry[q] \in Entries /\ onConn[q] \in Conns
  BY DEF Shape, CallShape
<1>2. /\ onConn[q] \notin available[onEntry[q]]
      /\ \A s \in Queries \ {q} : ~HeldBy(s, onEntry[q], onConn[q])
  BY DEF Promise, ExclusiveCheckout
<1>3. ~Initialising(onEntry[q])
  BY <1>1 DEF Shape, EntryShape, Initialising
<1>4. closed[onEntry[q]] => ~Pooled(onEntry[q])
  BY <1>1 DEF Shape, EntryShape, Pooled
<1>5. Pooled(onEntry[q]) \/ (closed[onEntry[q]] /\ available[onEntry[q]] = {})
  BY <1>1 DEF Shape, EntryShape
<1>6. HeldBy(q, onEntry[q], onConn[q])
  BY DEF HeldBy
<1>7. <<onEntry[q], onConn[q]>> \in openConns
  BY <1>1, <1>6 DEF Promise, NoConnLeak
<1>8. QED
  BY <1>1, <1>2, <1>3, <1>4, <1>5, <1>7

\* checkin on a closed entry.
LEMMA CheckinClosedStep ==
  ASSUME TypeOK, TypeOK', Shape, Promise, NEW q \in Queries, call[q] \in Holding,
         NEW then \in {"idle", "abandoned"},
         CheckinClosed(q),
         UNCHANGED <<pool, closed, init>>,
         \A s \in Queries \ {q} :
           call'[s] = call[s] /\ onEntry'[s] = onEntry[s] /\ onConn'[s] = onConn[s],
         call'[q] = then,
         then = "idle" => onEntry'[q] = None /\ onConn'[q] = None,
         then = "abandoned" => onEntry'[q] = onEntry[q] /\ onConn'[q] = onConn[q]
  PROVE  Shape' /\ Promise'
<1> USE NoneAssumption
<1> DEFINE e == onEntry[q]
           c == onConn[q]
<1>1. /\ e \in Entries /\ c \in Conns /\ c \notin available[e]
      /\ ~Initialising(e) /\ closed[e] /\ ~Pooled(e) /\ available[e] = {}
      /\ \A s \in Queries \ {q} : ~HeldBy(s, e, c)
  BY HolderFacts DEF CheckinClosed
<1>2. UNCHANGED <<pool, closed, init, available, checkedOut, waiters>>
  BY DEF CheckinClosed
<1>3. openConns' = openConns \ {<<e, c>>}
  BY DEF CheckinClosed
<1>4. then # "waiting" /\ then \notin Holding /\ call[q] # "waiting" /\ call[q] # "idle"
  BY DEF Holding
<1>5. CallShape'
  <2>1. then \in Holding \cup {"abandoned"} => then = "abandoned"
    BY <1>4
  <2> HIDE DEF e, c
  <2>2. ASSUME NEW s \in Queries, s # q
        PROVE  /\ call'[s] = "idle" => onEntry'[s] = None /\ onConn'[s] = None
               /\ call'[s] = "waiting" => onEntry'[s] \in Entries /\ onConn'[s] = None
               /\ call'[s] \in Holding \cup {"abandoned"} =>
                    onEntry'[s] \in Entries /\ onConn'[s] \in Conns
    BY <2>2 DEF Shape, CallShape
  <2>3. QED
    BY <1>1, <1>4, <2>1, <2>2 DEF CallShape, e, c
<1>6. QueueShape'
  <2>1. \A x \in Entries : \A i \in 1 .. Len(waiters[x]) :
          waiters[x][i] \in Queries /\ waiters[x][i] # q
    BY <1>4 DEF TypeOK, Shape, QueueShape
  <2>2. QED
    BY <1>2, <2>1 DEF Shape, QueueShape
<1>7. EntryShape'
  <2>1. \A s \in Queries : onEntry'[s] \in {onEntry[s], None}
    OBVIOUS
  <2>2. QED
    BY <1>2, <2>1, CallEntryShape
<1>8. \A x \in Entries : (Pooled(x)' <=> Pooled(x)) /\ (Initialising(x)' <=> Initialising(x))
  BY <1>2 DEF Pooled, Initialising
<1>9. Conservation'
  BY <1>2, <1>8 DEF Promise, Conservation
<1>10. ExclusiveCheckout'
  BY <1>2, <1>4 DEF Promise, ExclusiveCheckout, HeldBy
<1>11. NoIdleConnWhileWaiting'
  BY <1>2, <1>4, <1>8, StillQueued
<1>12. NoConnLeak'
  <2> HIDE DEF e, c
  <2>1. ASSUME NEW x \in Entries, NEW k \in Conns
        PROVE  <<x, k>> \in openConns' <=> (Referenced(x)' /\ k \in available'[x])
                                           \/ \E s \in Queries : HeldBy(s, x, k)'
    <3>1. \A s \in Queries \ {q} : HeldBy(s, x, k)' <=> HeldBy(s, x, k)
      BY DEF HeldBy
    <3>2. ~HeldBy(q, x, k)' /\ (HeldBy(q, x, k) <=> x = e /\ k = c)
      BY <1>4 DEF HeldBy, e, c
    <3>3. <<x, k>> \in openConns <=> (Referenced(x) /\ k \in available[x])
                                     \/ \E s \in Queries : HeldBy(s, x, k)
      BY DEF Promise, NoConnLeak
    <3>4. CASE x = e
      BY <1>1, <1>2, <1>3, <3>1, <3>2, <3>3, <3>4
    <3>5. CASE x # e
      <4>1. Referenced(x)' <=> Referenced(x)
        BY <1>8, <3>5 DEF Referenced, e
      <4>2. QED
        BY <1>2, <1>3, <3>1, <3>2, <3>3, <3>5, <4>1
    <3>6. QED
      BY <3>4, <3>5
  <2>2. QED
    BY <2>1 DEF NoConnLeak
<1>13. QED
  BY <1>5, <1>6, <1>7, <1>9, <1>10, <1>11, <1>12 DEF Shape, Promise

\* checkin with nobody waiting.
LEMMA CheckinPutBackStep ==
  ASSUME TypeOK, TypeOK', Shape, Promise, NEW q \in Queries, call[q] \in Holding,
         NEW then \in {"idle", "abandoned"},
         CheckinPutBack(q),
         UNCHANGED <<pool, closed, init>>,
         \A s \in Queries \ {q} :
           call'[s] = call[s] /\ onEntry'[s] = onEntry[s] /\ onConn'[s] = onConn[s],
         call'[q] = then,
         then = "idle" => onEntry'[q] = None /\ onConn'[q] = None,
         then = "abandoned" => onEntry'[q] = onEntry[q] /\ onConn'[q] = onConn[q]
  PROVE  Shape' /\ Promise'
<1> USE NoneAssumption
<1> DEFINE e == onEntry[q]
           c == onConn[q]
<1>1. /\ e \in Entries /\ c \in Conns /\ c \notin available[e]
      /\ ~Initialising(e) /\ ~closed[e] /\ Pooled(e) /\ waiters[e] = <<>>
      /\ \A s \in Queries \ {q} : ~HeldBy(s, e, c)
      /\ <<e, c>> \in openConns
  BY HolderFacts DEF CheckinPutBack
<1>2. UNCHANGED <<pool, closed, init, openConns, waiters>>
  BY DEF CheckinPutBack
<1>3. \A x \in Entries :
        /\ available'[x] = IF x = e THEN available[e] \cup {c} ELSE available[x]
        /\ checkedOut'[x] = IF x = e THEN checkedOut[e] - 1 ELSE checkedOut[x]
  BY DEF CheckinPutBack, TypeOK
<1>4. then # "waiting" /\ then \notin Holding /\ call[q] # "waiting" /\ call[q] # "idle"
  BY DEF Holding
<1>5. CallShape'
  <2>1. then \in Holding \cup {"abandoned"} => then = "abandoned"
    BY <1>4
  <2> HIDE DEF e, c
  <2>2. ASSUME NEW s \in Queries, s # q
        PROVE  /\ call'[s] = "idle" => onEntry'[s] = None /\ onConn'[s] = None
               /\ call'[s] = "waiting" => onEntry'[s] \in Entries /\ onConn'[s] = None
               /\ call'[s] \in Holding \cup {"abandoned"} =>
                    onEntry'[s] \in Entries /\ onConn'[s] \in Conns
    BY <2>2 DEF Shape, CallShape
  <2>3. QED
    BY <1>1, <1>4, <2>1, <2>2 DEF CallShape, e, c
<1>6. QueueShape'
  <2>1. \A x \in Entries : \A i \in 1 .. Len(waiters[x]) :
          waiters[x][i] \in Queries /\ waiters[x][i] # q
    BY <1>4 DEF TypeOK, Shape, QueueShape
  <2>2. QED
    BY <1>2, <2>1 DEF Shape, QueueShape
<1> HIDE DEF e, c
<1>7. EntryShape'
  <2>1. \A s \in Queries : onEntry'[s] \in {onEntry[s], None}
    OBVIOUS
  <2>2. \A x \in Entries : closed[x] \/ Initialising(x) => x # e
    BY <1>1
  <2>3. QED
    BY <1>2, <1>3, <2>1, <2>2, CallEntryShape
<1>8. \A x \in Entries : (Pooled(x)' <=> Pooled(x)) /\ (Initialising(x)' <=> Initialising(x))
  BY <1>2 DEF Pooled, Initialising
<1>9. Conservation'
  <2>1. IsFiniteSet(available[e])
    BY <1>1, ConnAssumption, FS_Subset DEF TypeOK
  <2>2. Cardinality(available[e] \cup {c}) = Cardinality(available[e]) + 1
    BY <1>1, <2>1, FS_AddElement
  <2>3. Cardinality(available[e]) \in Nat
    BY <2>1, FS_CardinalityType
  <2>4. checkedOut[e] + Cardinality(available[e]) = Cardinality(Conns)
    BY <1>1 DEF Promise, Conservation
  <2>5. checkedOut[e] \in Int
    BY <1>1 DEF TypeOK
  <2>6. checkedOut[e] - 1 + (Cardinality(available[e]) + 1) = Cardinality(Conns)
    BY <2>3, <2>4, <2>5
  <2>7. QED
    BY <1>3, <1>8, <2>2, <2>6 DEF Promise, Conservation
<1>10. ExclusiveCheckout'
  <2>1. \A s \in Queries : call[s] \in Holding => onEntry[s] \in Entries
    BY DEF Shape, CallShape
  <2>2. \A s \in Queries \ {q} : call[s] \in Holding => ~(onEntry[s] = e /\ onConn[s] = c)
    BY <1>1 DEF HeldBy
  <2>3. QED
    BY <1>3, <1>4, <2>1, <2>2 DEF Promise, ExclusiveCheckout, HeldBy
<1>11. NoIdleConnWhileWaiting'
  <2>1. ASSUME NEW s \in Queries, NEW x \in Entries, call'[s] = "waiting", onEntry'[s] = x
        PROVE  /\ call[s] = "waiting" /\ onEntry[s] = x /\ waiters'[x] = waiters[x]
               /\ Pooled(x)' => Pooled(x) /\ available'[x] = available[x]
    <3>1. call[s] = "waiting" /\ onEntry[s] = x
      BY <1>4, <2>1
    <3>2. QueuedOnce(s, x)
      BY <3>1 DEF Promise, NoIdleConnWhileWaiting
    <3>3. x # e
      BY <1>1, <3>2 DEF QueuedOnce
    <3>4. QED
      BY <1>2, <1>3, <1>8, <3>1, <3>3
  <2>2. QED
    BY <2>1, StillQueued
<1>12. NoConnLeak'
  <2>1. ASSUME NEW x \in Entries, NEW k \in Conns
        PROVE  <<x, k>> \in openConns' <=> (Referenced(x)' /\ k \in available'[x])
                                           \/ \E s \in Queries : HeldBy(s, x, k)'
    <3>1. \A s \in Queries \ {q} : HeldBy(s, x, k)' <=> HeldBy(s, x, k)
      BY DEF HeldBy
    <3>2. ~HeldBy(q, x, k)' /\ (HeldBy(q, x, k) <=> x = e /\ k = c)
      BY <1>4 DEF HeldBy, e, c
    <3>3. <<x, k>> \in openConns <=> (Referenced(x) /\ k \in available[x])
                                     \/ \E s \in Queries : HeldBy(s, x, k)
      BY DEF Promise, NoConnLeak
    <3>4. CASE x = e
      <4>1. Referenced(x) /\ Referenced(x)'
        BY <1>1, <1>8, <3>4 DEF Referenced
      <4>2. QED
        BY <1>1, <1>2, <1>3, <3>1, <3>2, <3>3, <3>4, <4>1
    <3>5. CASE x # e
      <4>1. Referenced(x)' <=> Referenced(x)
        BY <1>8, <3>5 DEF Referenced, e
      <4>2. QED
        BY <1>2, <1>3, <3>1, <3>2, <3>3, <3>5, <4>1
    <3>6. QED
      BY <3>4, <3>5
  <2>2. QED
    BY <2>1 DEF NoConnLeak
<1>13. QED
  BY <1>5, <1>6, <1>7, <1>9, <1>10, <1>11, <1>12 DEF Shape, Promise

\* checkin handing the connection to the first waiter.
LEMMA HandOverStep ==
  ASSUME TypeOK, TypeOK', Shape, Promise, NEW q \in Queries, call[q] \in Holding,
         NEW then \in {"idle", "abandoned"}, NEW stage \in FirstStage,
         ~closed[onEntry[q]], waiters[onEntry[q]] # <<>>,
         NEW w \in Queries, w # q, w = Head(waiters[onEntry[q]]),
         UNCHANGED <<pool, closed, init, available, checkedOut, openConns>>,
         \A x \in Entries : waiters'[x] =
           IF x = onEntry[q] THEN Tail(waiters[onEntry[q]]) ELSE waiters[x],
         \A s \in Queries \ {q, w} :
           call'[s] = call[s] /\ onEntry'[s] = onEntry[s] /\ onConn'[s] = onConn[s],
         call'[w] = stage, onEntry'[w] = onEntry[w], onConn'[w] = onConn[q],
         call'[q] = then,
         then = "idle" => onEntry'[q] = None /\ onConn'[q] = None,
         then = "abandoned" => onEntry'[q] = onEntry[q] /\ onConn'[q] = onConn[q]
  PROVE  Shape' /\ Promise'
<1> USE NoneAssumption
<1>1. PICK e \in Entries, c \in Conns :
        /\ e = onEntry[q] /\ c = onConn[q] /\ c \notin available[e]
        /\ ~Initialising(e) /\ ~closed[e] /\ Pooled(e)
        /\ \A s \in Queries \ {q} : ~HeldBy(s, e, c)
        /\ <<e, c>> \in openConns
  BY HolderFacts
<1>2. /\ then # "waiting" /\ then \notin Holding /\ call[q] # "waiting" /\ call[q] # "idle"
      /\ stage \in Holding /\ stage # "waiting" /\ stage # "idle"
  BY DEF Holding, FirstStage
<1>3. waiters[e] \in Seq(Queries) /\ waiters[e] # <<>> /\ Len(waiters[e]) \in Nat
  BY <1>1 DEF TypeOK
<1>4. w = waiters[e][1] /\ 1 \in 1 .. Len(waiters[e])
  BY <1>1, <1>3
<1>5. call[w] = "waiting" /\ onEntry[w] = e
  BY <1>4 DEF Shape, QueueShape
<1>6. /\ Len(Tail(waiters[e])) = Len(waiters[e]) - 1
      /\ \A i \in 1 .. Len(waiters[e]) - 1 : Tail(waiters[e])[i] = waiters[e][i + 1]
  BY <1>3
<1>7. \A x \in Entries : waiters'[x] = IF x = e THEN Tail(waiters[e]) ELSE waiters[x]
  BY <1>1
<1>8. /\ call'[w] = stage /\ onEntry'[w] = e /\ onConn'[w] = c
      /\ onEntry'[q] \in {e, None} /\ onConn'[q] \in {c, None}
  BY <1>1, <1>5
<1>9. QueuedOnce(w, e)
  BY <1>5 DEF Promise, NoIdleConnWhileWaiting
<1>10. \A i \in 1 .. Len(waiters[e]) - 1 : i + 1 \in 1 .. Len(waiters[e]) /\ waiters[e][i + 1] # w
  BY <1>3, <1>4, <1>9 DEF QueuedOnce
<1>11. CallShape'
  <2>1. ASSUME NEW s \in Queries
        PROVE  /\ call'[s] = "idle" => onEntry'[s] = None /\ onConn'[s] = None
               /\ call'[s] = "waiting" => onEntry'[s] \in Entries /\ onConn'[s] = None
               /\ call'[s] \in Holding \cup {"abandoned"} =>
                    onEntry'[s] \in Entries /\ onConn'[s] \in Conns
    <3>1. CASE s = w
      BY <1>1, <1>2, <1>8, <3>1
    <3>2. CASE s = q
      BY <1>1, <1>2, <3>2
    <3>3. CASE s # w /\ s # q
      <4>1. call'[s] = call[s] /\ onEntry'[s] = onEntry[s] /\ onConn'[s] = onConn[s]
        BY <3>3
      <4>2. QED
        BY <4>1 DEF Shape, CallShape
    <3>4. QED
      BY <3>1, <3>2, <3>3
  <2>2. QED
    BY <2>1 DEF CallShape
<1>12. \A x \in Entries : \A i \in 1 .. Len(waiters[x]) :
         /\ waiters[x][i] \in Queries /\ waiters[x][i] # q
         /\ call[waiters[x][i]] = "waiting" /\ onEntry[waiters[x][i]] = x
  BY <1>2 DEF TypeOK, Shape, QueueShape
<1>13. QueueShape'
  <2>1. ASSUME NEW x \in Entries, NEW i \in 1 .. Len(waiters'[x])
        PROVE  call'[waiters'[x][i]] = "waiting" /\ onEntry'[waiters'[x][i]] = x
    <3>1. CASE x # e
      <4>1. waiters'[x] = waiters[x] /\ waiters[x][i] # w
        BY <1>5, <1>7, <1>12, <2>1, <3>1
      <4>2. QED
        BY <1>12, <2>1, <4>1
    <3>2. CASE x = e
      <4>1. i \in 1 .. Len(waiters[e]) - 1 /\ waiters'[x][i] = waiters[e][i + 1]
        BY <1>6, <1>7, <2>1, <3>2
      <4>2. QED
        BY <1>10, <1>12, <3>2, <4>1
    <3>3. QED
      BY <3>1, <3>2
  <2>2. QED
    BY <2>1 DEF QueueShape
<1>14. EntryShape'
  <2>1. \A s \in Queries : onEntry'[s] \in {onEntry[s], None}
    BY <1>1, <1>5, <1>8
  <2>2. QED
    BY <2>1, CallEntryShape
<1>15. \A x \in Entries : (Pooled(x)' <=> Pooled(x)) /\ (Initialising(x)' <=> Initialising(x))
  BY DEF Pooled, Initialising
<1>16. Conservation'
  BY <1>15 DEF Promise, Conservation
<1>17. \A s \in Queries, x \in Entries, k \in Conns :
         HeldBy(s, x, k)' <=> \/ s = w /\ x = e /\ k = c
                              \/ s # w /\ s # q /\ HeldBy(s, x, k)
  BY <1>2, <1>5, <1>8 DEF HeldBy
<1>18. ExclusiveCheckout'
  <2>1. ASSUME NEW s \in Queries, call'[s] \in Holding,
               NEW t \in Queries, t # s, call'[t] \in Holding, onEntry'[t] = onEntry'[s]
        PROVE  onConn'[t] # onConn'[s]
    <3>1. s # q /\ t # q
      BY <1>2, <2>1
    <3>2. CASE s = w \/ t = w
      <4>1. PICK u \in Queries : u \in {s, t} /\ u # w
        BY <2>1, <3>2
      <4>2. call[u] \in Holding /\ onEntry[u] = e
        BY <1>8, <2>1, <3>1, <3>2, <4>1
      <4>3. onConn[u] # c /\ onConn'[u] = onConn[u]
        BY <1>1, <3>1, <4>1, <4>2 DEF HeldBy
      <4>4. QED
        BY <1>8, <3>2, <4>1, <4>3
    <3>3. CASE s # w /\ t # w
      BY <2>1, <3>1, <3>3 DEF Promise, ExclusiveCheckout, HeldBy
    <3>4. QED
      BY <3>2, <3>3
  <2>2. ASSUME NEW s \in Queries, call'[s] \in Holding
        PROVE  onConn'[s] \notin available[onEntry'[s]]
    <3>1. CASE s = w
      BY <1>1, <1>8, <3>1
    <3>2. CASE s # w
      BY <1>2, <2>2, <3>2 DEF Promise, ExclusiveCheckout
    <3>3. QED
      BY <3>1, <3>2
  <2>3. QED
    BY <2>1, <2>2 DEF ExclusiveCheckout, HeldBy
<1>19. NoIdleConnWhileWaiting'
  <2> SUFFICES ASSUME NEW s \in Queries, NEW x \in Entries,
                      call'[s] = "waiting", onEntry'[s] = x
               PROVE  (Pooled(x)' => available'[x] = {}) /\ QueuedOnce(s, x)'
    BY DEF NoIdleConnWhileWaiting
  <2>1. s # w /\ s # q /\ call[s] = "waiting" /\ onEntry[s] = x
    BY <1>2
  <2>2. (Pooled(x) => available[x] = {}) /\ QueuedOnce(s, x)
    BY <2>1 DEF Promise, NoIdleConnWhileWaiting
  <2>3. QueuedOnce(s, x)'
    <3>1. CASE x # e
      <4>1. waiters'[x] = waiters[x]
        BY <1>7, <3>1
      <4>2. QED
        BY ONLY <2>2, <4>1 DEF QueuedOnce
    <3>2. CASE x = e
      <4>1. PICK i \in 1 .. Len(waiters[e]) :
              waiters[e][i] = s /\ \A j \in 1 .. Len(waiters[e]) : waiters[e][j] = s => j = i
        BY <2>2, <3>2 DEF QueuedOnce
      <4>2. i # 1
        BY <1>4, <2>1, <4>1
      <4>3. waiters'[x] = Tail(waiters[e])
        BY <1>7, <3>2
      <4>4. i - 1 \in 1 .. Len(waiters'[x]) /\ waiters'[x][i - 1] = s
        <5>1. i - 1 \in 1 .. Len(waiters[e]) - 1 /\ i - 1 + 1 = i
          BY <1>3, <4>1, <4>2
        <5>2. QED
          BY <1>6, <4>1, <4>3, <5>1
      <4>5. \A j \in 1 .. Len(waiters'[x]) : waiters'[x][j] = s => j = i - 1
        <5>1. ASSUME NEW j \in 1 .. Len(waiters'[x]), waiters'[x][j] = s PROVE j = i - 1
          <6>1. j \in 1 .. Len(waiters[e]) - 1 /\ waiters[e][j + 1] = s
            BY <1>6, <4>3, <5>1
          <6>2. j + 1 = i
            BY <1>10, <4>1, <6>1
          <6>3. QED
            BY <6>1, <6>2
        <5>2. QED
          BY <5>1
      <4>6. QED
        BY <4>4, <4>5 DEF QueuedOnce
    <3>3. QED
      BY <3>1, <3>2
  <2>4. QED
    BY <1>15, <2>2, <2>3
<1>20. NoConnLeak'
  <2>1. ASSUME NEW x \in Entries, NEW k \in Conns
        PROVE  <<x, k>> \in openConns' <=> (Referenced(x)' /\ k \in available'[x])
                                           \/ \E s \in Queries : HeldBy(s, x, k)'
    <3>1. <<x, k>> \in openConns <=> (Referenced(x) /\ k \in available[x])
                                     \/ \E s \in Queries : HeldBy(s, x, k)
      BY DEF Promise, NoConnLeak
    <3>2. (\E s \in Queries : HeldBy(s, x, k)') <=> \E s \in Queries : HeldBy(s, x, k)
      <4>1. HeldBy(q, x, k) <=> x = e /\ k = c
        BY <1>1 DEF HeldBy
      <4>2. ~HeldBy(w, x, k)
        BY <1>5 DEF HeldBy, Holding
      <4>3. QED
        BY <1>17, <4>1, <4>2
    <3>3. Referenced(x)' <=> Referenced(x)
      <4>1. CASE x = e
        BY <1>1, <1>15, <4>1 DEF Referenced
      <4>2. CASE x # e
        <5>1. x # None
          OBVIOUS
        <5>2. \A s \in Queries \ {q, w} : onEntry'[s] = onEntry[s]
          OBVIOUS
        <5>3. \A s \in Queries : onEntry'[s] = x <=> onEntry[s] = x
          BY ONLY <1>1, <1>5, <1>8, <4>2, <5>1, <5>2
        <5>4. QED
          BY <1>15, <5>3 DEF Referenced
      <4>3. QED
        BY <4>1, <4>2
    <3>4. QED
      BY <3>1, <3>2, <3>3
  <2>2. QED
    BY <2>1 DEF NoConnLeak
<1>21. QED
  BY <1>11, <1>13, <1>14, <1>16, <1>18, <1>19, <1>20 DEF Shape, Promise

\* The three outcomes of checkin.
LEMMA CheckinStep ==
  ASSUME TypeOK, TypeOK', Shape, Promise, NEW q \in Queries, call[q] \in Holding,
         NEW then \in {"idle", "abandoned"}, Checkin(q, then)
  PROVE  Shape' /\ Promise'
<1> DEFINE entryAfter == IF then = "idle" THEN None ELSE onEntry[q]
           connAfter == IF then = "idle" THEN None ELSE onConn[q]
<1>1. UNCHANGED <<pool, closed, init>>
  BY DEF Checkin
<1>2. onEntry[q] \in Entries
  BY HolderFacts
<1>3. CASE /\ CheckinClosed(q) \/ CheckinPutBack(q)
           /\ call' = [call EXCEPT ![q] = then]
           /\ onEntry' = [onEntry EXCEPT ![q] = entryAfter]
           /\ onConn' = [onConn EXCEPT ![q] = connAfter]
  <2>1. /\ \A s \in Queries \ {q} :
             call'[s] = call[s] /\ onEntry'[s] = onEntry[s] /\ onConn'[s] = onConn[s]
        /\ call'[q] = then /\ onEntry'[q] = entryAfter /\ onConn'[q] = connAfter
    BY <1>3 DEF TypeOK
  <2>2. CASE CheckinClosed(q)
    BY <1>1, <2>1, <2>2, CheckinClosedStep
  <2>3. CASE CheckinPutBack(q)
    BY <1>1, <2>1, <2>3, CheckinPutBackStep
  <2>4. QED
    BY <1>3, <2>2, <2>3
<1>4. CASE /\ ~closed[onEntry[q]] /\ waiters[onEntry[q]] # <<>>
           /\ waiters' = [waiters EXCEPT ![onEntry[q]] = Tail(@)]
           /\ \E stage \in FirstStage :
                call' = [call EXCEPT ![q] = then,
                                     ![Head(waiters[onEntry[q]])] = stage]
           /\ onEntry' = [onEntry EXCEPT ![q] = entryAfter]
           /\ onConn' = [onConn EXCEPT ![q] = connAfter,
                                       ![Head(waiters[onEntry[q]])] = onConn[q]]
           /\ UNCHANGED <<available, checkedOut, openConns>>
  <2>1. PICK w \in Queries : w = Head(waiters[onEntry[q]])
    BY <1>2, <1>4 DEF TypeOK
  <2>2. call[w] = "waiting" /\ w # q
    <3>1. /\ w = waiters[onEntry[q]][1]
          /\ 1 \in 1 .. Len(waiters[onEntry[q]])
      BY <1>2, <1>4, <2>1 DEF TypeOK
    <3>2. call[w] = "waiting"
      BY <1>2, <3>1 DEF Shape, QueueShape
    <3>3. QED
      BY <3>2 DEF Holding
  <2>3. PICK stage \in FirstStage : call' = [call EXCEPT ![q] = then, ![w] = stage]
    BY <1>4, <2>1
  <2>4. \A x \in Entries : waiters'[x] =
          IF x = onEntry[q] THEN Tail(waiters[onEntry[q]]) ELSE waiters[x]
    BY <1>4 DEF TypeOK
  <2>5. onConn' = [onConn EXCEPT ![q] = connAfter, ![w] = onConn[q]]
    BY <1>4, <2>1
  <2> HIDE DEF entryAfter, connAfter
  <2>6. /\ \A s \in Queries \ {q, w} :
             call'[s] = call[s] /\ onEntry'[s] = onEntry[s] /\ onConn'[s] = onConn[s]
        /\ call'[w] = stage /\ onEntry'[w] = onEntry[w] /\ onConn'[w] = onConn[q]
        /\ call'[q] = then /\ onEntry'[q] = entryAfter /\ onConn'[q] = connAfter
    BY <1>4, <2>2, <2>3, <2>5 DEF TypeOK
  <2>7. /\ then = "idle" => onEntry'[q] = None /\ onConn'[q] = None
        /\ then = "abandoned" => onEntry'[q] = onEntry[q] /\ onConn'[q] = onConn[q]
    BY <2>6 DEF entryAfter, connAfter
  <2>8. UNCHANGED <<pool, closed, init, available, checkedOut, openConns>>
    BY <1>1, <1>4
  <2>9. QED
    BY <1>4, <2>1, <2>2, <2>4, <2>6, <2>7, <2>8, HandOverStep
<1>5. QED
  BY <1>3, <1>4 DEF Checkin

\* The next native operation of a call, and the end of an abandoned one.
LEMMA NativeStep ==
  ASSUME TypeOK, TypeOK', Shape, Promise, NEW q \in Queries,
         Advance(q) \/ AbandonedEnds(q)
  PROVE  Shape' /\ Promise'
<1> USE NoneAssumption
<1>1. UNCHANGED <<pool, available, checkedOut, waiters, closed, openConns, init>>
  BY DEF Advance, AbandonedEnds, entryVars
<1>2. \A s \in Queries \ {q} :
        call'[s] = call[s] /\ onEntry'[s] = onEntry[s] /\ onConn'[s] = onConn[s]
  BY DEF Advance, AbandonedEnds, TypeOK
<1>3. \/ /\ call[q] \in Holding /\ call'[q] \in Holding
         /\ onEntry'[q] = onEntry[q] /\ onConn'[q] = onConn[q]
      \/ /\ call[q] = "abandoned" /\ call'[q] = "idle"
         /\ onEntry'[q] = None /\ onConn'[q] = None
  BY DEF Advance, AbandonedEnds, TypeOK, FirstStage, Holding
<1>4. call[q] # "waiting" /\ call'[q] # "waiting"
  BY <1>3 DEF Holding
<1>5. "idle" \notin Holding \cup {"abandoned"} /\ "abandoned" \notin Holding
      /\ "waiting" \notin Holding
  BY DEF Holding
<1>6. CallShape'
  <2>1. ASSUME NEW s \in Queries
        PROVE  /\ call'[s] = "idle" => onEntry'[s] = None /\ onConn'[s] = None
               /\ call'[s] = "waiting" => onEntry'[s] \in Entries /\ onConn'[s] = None
               /\ call'[s] \in Holding \cup {"abandoned"} =>
                    onEntry'[s] \in Entries /\ onConn'[s] \in Conns
    <3>1. CASE s = q
      BY <1>3, <1>4, <1>5, <3>1 DEF Shape, CallShape
    <3>2. CASE s # q
      BY <1>2, <3>2 DEF Shape, CallShape
    <3>3. QED
      BY <3>1, <3>2
  <2>2. QED
    BY <2>1 DEF CallShape
<1>7. QueueShape'
  <2>1. \A x \in Entries : \A i \in 1 .. Len(waiters[x]) :
          waiters[x][i] \in Queries \ {q}
    BY <1>4 DEF TypeOK, Shape, QueueShape
  <2>2. QED
    BY <1>1, <1>2, <2>1 DEF Shape, QueueShape
<1>8. EntryShape'
  <2>1. \A s \in Queries : onEntry'[s] \in {onEntry[s], None}
    BY <1>2, <1>3
  <2>2. QED
    BY <1>1, <2>1, CallEntryShape
<1>9. \A x \in Entries : (Pooled(x)' <=> Pooled(x)) /\ (Initialising(x)' <=> Initialising(x))
  BY <1>1 DEF Pooled, Initialising
<1>10. Conservation'
  BY <1>1, <1>9 DEF Promise, Conservation
<1>11. \A s \in Queries, x \in Entries, k \in Conns : HeldBy(s, x, k)' <=> HeldBy(s, x, k)
  <2>1. \A x \in Entries, k \in Conns : HeldBy(q, x, k)' <=> HeldBy(q, x, k)
    BY <1>3, <1>5 DEF HeldBy
  <2>2. QED
    BY <1>2, <2>1 DEF HeldBy
<1>12. \A s \in Queries : call'[s] \in Holding =>
         call[s] \in Holding /\ onEntry'[s] = onEntry[s] /\ onConn'[s] = onConn[s]
  BY <1>2, <1>3, <1>5
<1>13. ExclusiveCheckout'
  BY <1>1, <1>12 DEF Promise, ExclusiveCheckout, HeldBy
<1>14. NoIdleConnWhileWaiting'
  BY <1>1, <1>2, <1>4, <1>9, StillQueued
<1>15. NoConnLeak'
  <2>1. ASSUME NEW x \in Entries, NEW k \in Conns
        PROVE  <<x, k>> \in openConns' <=> (Referenced(x)' /\ k \in available'[x])
                                           \/ \E s \in Queries : HeldBy(s, x, k)'
    <3>1. <<x, k>> \in openConns <=> (Referenced(x) /\ k \in available[x])
                                     \/ \E s \in Queries : HeldBy(s, x, k)
      BY DEF Promise, NoConnLeak
    <3>2. Referenced(x)' => Referenced(x)
      BY <1>2, <1>3, <1>9 DEF Referenced
    <3>3. Referenced(x) /\ ~Referenced(x)' => available[x] = {}
      BY <1>9 DEF Referenced, Shape, EntryShape
    <3>4. QED
      BY <1>1, <1>11, <3>1, <3>2, <3>3
  <2>2. QED
    BY <2>1 DEF NoConnLeak
<1>16. QED
  BY <1>6, <1>7, <1>8, <1>10, <1>13, <1>14, <1>15 DEF Shape, Promise

\* The waiter timer: the call leaves the queue, the others keep their order.
LEMMA WaiterTimeoutStep ==
  ASSUME TypeOK, TypeOK', Shape, Promise, NEW q \in Queries, WaiterTimesOut(q)
  PROVE  Shape' /\ Promise'
<1> USE NoneAssumption
<1>1. PICK e \in Entries : e = onEntry[q]
  BY DEF WaiterTimesOut, Shape, CallShape
<1>2. PICK i \in 1 .. Len(waiters[e]) :
        /\ waiters[e][i] = q
        /\ waiters' = [waiters EXCEPT ![e] = Splice(@, i)]
  BY <1>1 DEF WaiterTimesOut
<1>3. UNCHANGED <<pool, available, checkedOut, closed, openConns, init, onConn>>
  BY DEF WaiterTimesOut
<1>4. /\ call[q] = "waiting" /\ call'[q] = "idle" /\ onEntry'[q] = None
      /\ \A s \in Queries \ {q} : call'[s] = call[s] /\ onEntry'[s] = onEntry[s]
  BY DEF WaiterTimesOut, TypeOK
<1>5. \A x \in Entries : waiters'[x] = IF x = e THEN Splice(waiters[e], i) ELSE waiters[x]
  BY <1>2 DEF TypeOK
<1>6. waiters[e] \in Seq(Queries) /\ Len(waiters[e]) \in Nat
  BY DEF TypeOK
<1>7. /\ Len(Splice(waiters[e], i)) = Len(waiters[e]) - 1
      /\ \A j \in 1 .. Len(waiters[e]) - 1 :
           Splice(waiters[e], i)[j] = IF j < i THEN waiters[e][j] ELSE waiters[e][j + 1]
  BY <1>6, SpliceType
<1>8. QueuedOnce(q, e)
  BY <1>1, <1>4 DEF Promise, NoIdleConnWhileWaiting
<1>9. \A j \in 1 .. Len(waiters[e]) : waiters[e][j] = q <=> j = i
  BY <1>2, <1>8 DEF QueuedOnce
<1>10. "waiting" \notin Holding /\ "idle" \notin Holding
  BY DEF Holding
<1>11. CallShape'
  <2>1. ASSUME NEW s \in Queries
        PROVE  /\ call'[s] = "idle" => onEntry'[s] = None /\ onConn'[s] = None
               /\ call'[s] = "waiting" => onEntry'[s] \in Entries /\ onConn'[s] = None
               /\ call'[s] \in Holding \cup {"abandoned"} =>
                    onEntry'[s] \in Entries /\ onConn'[s] \in Conns
    <3>1. CASE s = q
      BY <1>3, <1>4, <1>10, <3>1 DEF Shape, CallShape
    <3>2. CASE s # q
      BY <1>3, <1>4, <3>2 DEF Shape, CallShape
    <3>3. QED
      BY <3>1, <3>2
  <2>2. QED
    BY <2>1 DEF CallShape
<1>12. \A x \in Entries : \A j \in 1 .. Len(waiters[x]) :
         /\ waiters[x][j] \in Queries
         /\ call[waiters[x][j]] = "waiting" /\ onEntry[waiters[x][j]] = x
  BY DEF TypeOK, Shape, QueueShape
<1>13. QueueShape'
  <2>1. ASSUME NEW x \in Entries, NEW j \in 1 .. Len(waiters'[x])
        PROVE  call'[waiters'[x][j]] = "waiting" /\ onEntry'[waiters'[x][j]] = x
    <3>1. CASE x # e
      <4>1. waiters'[x] = waiters[x]
        BY <1>5, <3>1
      <4>2. waiters[x][j] \in Queries \ {q} /\ call[waiters[x][j]] = "waiting"
            /\ onEntry[waiters[x][j]] = x
        BY <1>1, <1>12, <2>1, <3>1, <4>1
      <4>3. QED
        BY <1>4, <4>1, <4>2
    <3>2. CASE x = e
      <4>1. j \in 1 .. Len(waiters[e]) - 1 /\ waiters'[x] = Splice(waiters[e], i)
        BY <1>5, <1>7, <2>1, <3>2
      <4>2. PICK k \in 1 .. Len(waiters[e]) : waiters'[x][j] = waiters[e][k] /\ k # i
        <5>1. CASE j < i
          BY <1>6, <1>7, <4>1, <5>1
        <5>2. CASE ~(j < i)
          <6>1. j + 1 \in 1 .. Len(waiters[e]) /\ j + 1 # i
            BY <1>6, <4>1, <5>2
          <6>2. QED
            BY <1>7, <4>1, <5>2, <6>1
        <5>3. QED
          BY <5>1, <5>2
      <4>3. waiters[e][k] \in Queries \ {q}
        BY <1>9, <1>12, <4>2
      <4>4. QED
        BY <1>4, <1>12, <3>2, <4>2, <4>3
    <3>3. QED
      BY <3>1, <3>2
  <2>2. QED
    BY <2>1 DEF QueueShape
<1>14. EntryShape'
  <2>1. \A s \in Queries : onEntry'[s] \in {onEntry[s], None}
    BY <1>4
  <2>2. QED
    BY <1>3, <2>1, CallEntryShape
<1>15. \A x \in Entries : (Pooled(x)' <=> Pooled(x)) /\ (Initialising(x)' <=> Initialising(x))
  BY <1>3 DEF Pooled, Initialising
<1>16. Conservation'
  BY <1>3, <1>15 DEF Promise, Conservation
<1>17. \A s \in Queries : /\ call'[s] \in Holding <=> call[s] \in Holding
                          /\ call[s] \in Holding => onEntry'[s] = onEntry[s]
  BY <1>4, <1>10
<1>18. ExclusiveCheckout'
  BY <1>3, <1>17 DEF Promise, ExclusiveCheckout, HeldBy
<1>19. NoIdleConnWhileWaiting'
  <2> SUFFICES ASSUME NEW s \in Queries, NEW x \in Entries,
                      call'[s] = "waiting", onEntry'[s] = x
               PROVE  (Pooled(x)' => available'[x] = {}) /\ QueuedOnce(s, x)'
    BY DEF NoIdleConnWhileWaiting
  <2>1. s # q /\ call[s] = "waiting" /\ onEntry[s] = x
    BY <1>4
  <2>2. (Pooled(x) => available[x] = {}) /\ QueuedOnce(s, x)
    BY <2>1 DEF Promise, NoIdleConnWhileWaiting
  <2>3. CASE x # e
    <3>1. waiters'[x] = waiters[x]
      BY <1>5, <2>3
    <3>2. QueuedOnce(s, x)'
      BY ONLY <2>2, <3>1 DEF QueuedOnce
    <3>3. QED
      BY <1>3, <1>15, <2>2, <3>2
  <2>4. CASE x = e
    <3>1. PICK k \in 1 .. Len(waiters[e]) :
            waiters[e][k] = s /\ \A j \in 1 .. Len(waiters[e]) : waiters[e][j] = s => j = k
      BY <2>2, <2>4 DEF QueuedOnce
    <3>2. k # i
      BY <1>2, <2>1, <3>1
    <3> DEFINE n == IF k < i THEN k ELSE k - 1
    <3>3. waiters'[x] = Splice(waiters[e], i)
      BY <1>5, <2>4
    <3>4. n \in 1 .. Len(waiters[e]) - 1 /\ (n < i => n = k) /\ (~(n < i) => n + 1 = k)
      BY <1>6, <3>1, <3>2
    <3>5. Splice(waiters[e], i)[n] = s
      BY <1>7, <3>1, <3>4
    <3>6. ASSUME NEW j \in 1 .. Len(waiters[e]) - 1, Splice(waiters[e], i)[j] = s
          PROVE  j = n
      <4>1. CASE j < i
        <5>1. j \in 1 .. Len(waiters[e]) /\ waiters[e][j] = s
          BY <1>6, <1>7, <3>6, <4>1
        <5>2. QED
          BY <3>1, <4>1, <5>1
      <4>2. CASE ~(j < i)
        <5>1. j + 1 \in 1 .. Len(waiters[e]) /\ waiters[e][j + 1] = s
          BY <1>6, <1>7, <3>6, <4>2
        <5>2. j + 1 = k
          BY <3>1, <5>1
        <5>3. QED
          BY <3>4, <4>2, <5>2
      <4>3. QED
        BY <4>1, <4>2
    <3> HIDE DEF n
    <3>7. QueuedOnce(s, x)'
      BY <1>7, <3>3, <3>4, <3>5, <3>6 DEF QueuedOnce
    <3>8. QED
      BY <1>3, <1>15, <2>2, <3>7
  <2>5. QED
    BY <2>3, <2>4
<1>20. NoConnLeak'
  <2>1. ASSUME NEW x \in Entries, NEW c \in Conns
        PROVE  <<x, c>> \in openConns' <=> (Referenced(x)' /\ c \in available'[x])
                                           \/ \E s \in Queries : HeldBy(s, x, c)'
    <3>1. <<x, c>> \in openConns <=> (Referenced(x) /\ c \in available[x])
                                     \/ \E s \in Queries : HeldBy(s, x, c)
      BY DEF Promise, NoConnLeak
    <3>2. \A s \in Queries : HeldBy(s, x, c)' <=> HeldBy(s, x, c)
      BY <1>3, <1>17 DEF HeldBy
    <3>3. Referenced(x)' => Referenced(x)
      BY <1>4, <1>15 DEF Referenced
    <3>4. Referenced(x) /\ ~Referenced(x)' => available[x] = {}
      BY <1>15 DEF Referenced, Shape, EntryShape
    <3>5. QED
      BY <1>3, <3>1, <3>2, <3>3, <3>4
  <2>2. QED
    BY <2>1 DEF NoConnLeak
<1>21. QED
  BY <1>11, <1>13, <1>14, <1>16, <1>18, <1>19, <1>20 DEF Shape, Promise

(***************************************************************************)
(* The invariant is inductive.                                             *)
(***************************************************************************)

\* The empty pool satisfies the invariant.
LEMMA InitInv == Init => IInv
<1> SUFFICES ASSUME Init PROVE IInv
  OBVIOUS
<1> USE NoneAssumption, BoundAssumption, PathAssumption, ConnAssumption
<1>1. NoInit.pc = "none" /\ NoInit.entry = None /\ NoInit \in InitRecs
  BY InitRecType DEF NoInit, InitAt
<1>2. NotCached \in SharedDbs
  BY DEF NotCached, SharedDb, SharedDbs
<1>3. TypeOK
  <2>1. waiters \in [Entries -> Seq(Queries)]
    BY DEF Init
  <2>2. /\ pool \in [Repos -> Entries \cup {None}]
        /\ init \in [Repos -> InitRecs]
        /\ \A r \in Repos : init[r].pc = "delay" => init[r].attempt < LockRetryAttempts
    BY <1>1 DEF Init
  <2>3. /\ call \in [Queries -> CallStates]
        /\ onEntry \in [Queries -> Entries \cup {None}]
        /\ onConn \in [Queries -> Conns \cup {None}]
    BY DEF Init, CallStates
  <2>4. /\ dbOf \in [Entries -> Dbs \cup {None}]
        /\ available \in [Entries -> SUBSET Conns]
        /\ checkedOut \in [Entries -> Int]
        /\ closed \in [Entries -> BOOLEAN]
        /\ age \in [Entries -> 0 .. MaxAge]
    BY DEF Init
  <2>5. dbCache \in [Paths -> SharedDbs] /\ openDbs \subseteq Dbs
        /\ openConns \subseteq Entries \X Conns
    BY <1>2 DEF Init
  <2>6. QED
    BY <2>1, <2>2, <2>3, <2>4, <2>5 DEF TypeOK
<1>4. CallShape /\ QueueShape
  BY DEF Init, CallShape, QueueShape, Holding
<1>5. EntryShape
  BY <1>1 DEF Init, EntryShape
<1>6. Conservation /\ ExclusiveCheckout /\ NoIdleConnWhileWaiting /\ NoConnLeak
  BY DEF Init, Conservation, ExclusiveCheckout, NoIdleConnWhileWaiting, NoConnLeak,
         Pooled, HeldBy, Holding
<1>7. QED
  BY <1>3, <1>4, <1>5, <1>6 DEF IInv

\* Every step of the initialisation of a repository id keeps the invariant.
LEMMA InitStepInv ==
  ASSUME TypeOK, TypeOK', Shape, Promise, NEW r \in Repos, InitStep(r)
  PROVE  Shape' /\ Promise'
<1> USE NoneAssumption
<1>1. /\ NoInit.entry = None /\ NoInit.pc = "none"
      /\ \A pc, n, e : InitAt(pc, n, e).entry = e /\ InitAt(pc, n, e).pc = pc
  BY DEF NoInit, InitAt
<1>2. init[r].pc # "fts" => init[r].entry = None
  BY DEF Shape, EntryShape
<1>3. init[r].pc # "none" => pool[r] = None
  BY DEF Shape, EntryShape
<1>4. \A s \in Repos : init[s].pc # "none" => pool[s] = None
  BY DEF Shape, EntryShape
<1>5. CASE InitThrows(r) \/ OpenFindsCorruptWal(r) \/ OpenFindsLock(r) \/ RetryOpen(r)
  <2>1. PICK i : /\ init' = [init EXCEPT ![r] = i]
                 /\ i.entry = None /\ i.pc # "fts"
    BY <1>1, <1>5 DEF InitThrows, OpenFindsCorruptWal, OpenFindsLock, RetryOpen
  <2>2. init[r].pc \in {"stat", "open", "reopen", "delay"}
    BY <1>5 DEF InitThrows, OpenFindsCorruptWal, OpenFindsLock, RetryOpen
  <2>3. \A s \in Repos : init'[s] = IF s = r THEN i ELSE init[s]
    BY <2>1 DEF TypeOK
  <2>4. UNCHANGED <<pool, available, checkedOut, waiters, closed, openConns, queryVars>>
    BY <1>5 DEF InitThrows, OpenFindsCorruptWal, OpenFindsLock, RetryOpen, entryVars
  <2>5. \A s \in Repos : /\ init'[s].entry = init[s].entry
                         /\ init'[s].pc = "fts" <=> init[s].pc = "fts"
                         /\ init'[s].pc # "none" => pool[s] = None
    BY <1>2, <1>3, <1>4, <2>1, <2>2, <2>3
  <2>6. QED
    BY <2>4, <2>5, QuietStep
<1>6. CASE StatThenOpen(r)
  <2>1. PICK R \in SUBSET Registered : CloseRepos(R)
    BY <1>6, VictimsType DEF StatThenOpen
  <2>2. init' = [init EXCEPT ![r] = InitAt("open", 1, None)] /\ init[r].pc = "stat"
    BY <1>6 DEF StatThenOpen
  <2>3. \A s \in Repos : init'[s] = IF s = r THEN InitAt("open", 1, None) ELSE init[s]
    BY <2>2 DEF TypeOK
  <2>4. \A s \in Repos : /\ init'[s].entry = init[s].entry
                         /\ init'[s].pc = "fts" <=> init[s].pc = "fts"
                         /\ init'[s].pc # "none" => pool[s] = None
    BY <1>1, <1>2, <1>3, <1>4, <2>2, <2>3
  <2>5. UNCHANGED <<checkedOut, waiters, queryVars>>
    BY <1>6 DEF StatThenOpen
  <2>6. QED
    BY <2>1, <2>4, <2>5, CloseStep DEF CloseRepos
<1>7. CASE StatThenShare(r)
  <2>1. PICK R \in SUBSET Registered, e \in Entries : TakeReference(r, R, e)
    BY <1>7, VictimsType DEF StatThenShare
  <2> DEFINE d == CacheWithout(R)[LbugPath[r]].db
  <2>2. d \in Dbs
    <3>1. R \in SUBSET Repos
      BY VictimsType
    <3>2. CacheWithout(R)[LbugPath[r]] \in SharedDbs
      BY <3>1, CloseType, PathAssumption
    <3>3. d # None
      BY <2>1 DEF TakeReference
    <3>4. QED
      BY <3>2, <3>3 DEF SharedDbs
  <2>3. BuildEntry(R, e, d) /\ (Register(R, r, e) \/ AwaitFts(R, r, e))
    BY <2>1 DEF TakeReference
  <2>4. UNCHANGED queryVars /\ init[r].pc \in {"stat", "open", "reopen"}
    BY <1>7 DEF StatThenShare
  <2> HIDE DEF d
  <2>5. QED
    BY <2>2, <2>3, <2>4, BuildStep
<1>8. CASE OpenSucceeds(r)
  <2>1. PICK d \in Dbs, e \in Entries : BuildEntry({}, e, d) /\ AwaitFts({}, r, e)
    BY <1>8 DEF OpenSucceeds
  <2>2. UNCHANGED queryVars /\ init[r].pc \in {"stat", "open", "reopen"}
    BY <1>8 DEF OpenSucceeds
  <2>3. {} \in SUBSET Registered
    OBVIOUS
  <2>4. QED
    BY <2>1, <2>2, <2>3, BuildStep
<1>9. CASE FtsAnswers(r)
  BY <1>9, FtsStep
<1>10. QED
  BY <1>5, <1>6, <1>7, <1>8, <1>9 DEF InitStep

\* Every step keeps the invariant.
LEMMA NextInv == IInv /\ [Next]_vars => IInv'
<1> SUFFICES ASSUME IInv, [Next]_vars PROVE IInv'
  OBVIOUS
<1>1. TypeOK /\ Shape /\ Promise
  BY DEF IInv, Shape, Promise
<1>2. TypeOK'
  BY TypeStep DEF IInv
<1>3. \A s \in Repos : init[s].pc # "none" => pool[s] = None
  BY <1>1 DEF Shape, EntryShape
<1>4. ASSUME NEW r \in Repos, Touch(r) PROVE Shape' /\ Promise'
  BY <1>1, <1>3, <1>4, QuietStep DEF Touch
<1>5. ASSUME NEW r \in Repos, InitCall(r) PROVE Shape' /\ Promise'
  <2>1. init[r].entry = None /\ pool[r] = None /\ init[r].pc = "none"
    BY <1>1, <1>5 DEF InitCall, Shape, EntryShape
  <2>2. /\ InitAt("stat", 0, None).entry = None /\ InitAt("stat", 0, None).pc = "stat"
    BY DEF InitAt
  <2>3. \A s \in Repos : init'[s] = IF s = r THEN InitAt("stat", 0, None) ELSE init[s]
    BY <1>1, <1>5 DEF InitCall, TypeOK
  <2>4. UNCHANGED <<pool, available, checkedOut, waiters, closed, openConns, queryVars>>
    BY <1>5 DEF InitCall, entryVars
  <2>5. QED
    BY <1>1, <1>3, <2>1, <2>2, <2>3, <2>4, QuietStep
<1>6. ASSUME NEW r \in Repos, InitStep(r) PROVE Shape' /\ Promise'
  BY <1>1, <1>2, <1>6, InitStepInv
<1>7. ASSUME NEW R \in SUBSET Registered, Unregister(R) PROVE Shape' /\ Promise'
  BY <1>1, <1>2, <1>3, <1>7, CloseStep DEF Unregister, CloseRepos
<1>8. ASSUME NEW q \in Queries, QueryStep(q) PROVE Shape' /\ Promise'
  <2>1. CASE CheckoutFast(q)
    BY <1>1, <1>2, <2>1, CheckoutFastStep
  <2>2. CASE CheckoutWaits(q)
    BY <1>1, <1>2, <2>2, CheckoutWaitsStep
  <2>3. CASE Advance(q) \/ AbandonedEnds(q)
    BY <1>1, <1>2, <2>3, NativeStep
  <2>4. CASE Return(q)
    BY <1>1, <1>2, <2>4, CheckinStep DEF Return
  <2>5. CASE QueryTimesOut(q)
    BY <1>1, <1>2, <2>5, CheckinStep DEF QueryTimesOut, FirstStage, Holding
  <2>6. CASE WaiterTimesOut(q)
    BY <1>1, <1>2, <2>6, WaiterTimeoutStep
  <2>7. QED
    BY <1>8, <2>1, <2>2, <2>3, <2>4, <2>5, <2>6 DEF QueryStep
<1>9. ASSUME Tick PROVE Shape' /\ Promise'
  BY <1>1, <1>3, <1>9, QuietStep DEF Tick
<1>10. ASSUME UNCHANGED vars PROVE Shape' /\ Promise'
  BY <1>1, <1>3, <1>10, QuietStep DEF vars, entryVars
<1>11. Shape' /\ Promise'
  BY <1>4, <1>5, <1>6, <1>7, <1>8, <1>9, <1>10
     DEF Next, CloseLbug, CloseAll, IdleSweep
<1>12. QED
  BY <1>2, <1>11 DEF IInv, Shape, Promise

\* The inductive invariant holds in every reachable state.
THEOREM PoolInvariant == Spec => []IInv
<1>1. Init => IInv
  BY InitInv
<1>2. IInv /\ [Next]_vars => IInv'
  BY NextInv
<1>3. QED
  BY <1>1, <1>2, PTL DEF Spec

(***************************************************************************)
(* What the pool promises, for every number of repository ids, entries,    *)
(* connections and concurrent calls.                                       *)
(***************************************************************************)

\* Every variable keeps its type; in particular the lock retries stay within
\* LOCK_RETRY_ATTEMPTS.
THEOREM PoolTypeCorrect == Spec => []TypeOK
<1>1. IInv => TypeOK
  BY DEF IInv
<1>2. QED
  BY <1>1, PoolInvariant, PTL

\* checkout's integrity error is never thrown: a registered entry accounts for
\* all its connections.
THEOREM PoolConservation == Spec => []Conservation
<1>1. IInv => Conservation
  BY DEF IInv
<1>2. QED
  BY <1>1, PoolInvariant, PTL

\* checkout and checkin give a connection to one call at a time.
THEOREM PoolExclusive == Spec => []ExclusiveCheckout
<1>1. IInv => ExclusiveCheckout
  BY DEF IInv
<1>2. QED
  BY <1>1, PoolInvariant, PTL

\* No lost wake-up: no connection lies idle while a caller is queued.
THEOREM NoLostWakeup == Spec => []NoIdleConnWhileWaiting
<1>1. IInv => NoIdleConnWhileWaiting
  BY DEF IInv
<1>2. QED
  BY <1>1, PoolInvariant, PTL

\* Native connections neither leak nor outlive their close.
THEOREM PoolNoLeak == Spec => []NoConnLeak
<1>1. IInv => NoConnLeak
  BY DEF IInv
<1>2. QED
  BY <1>1, PoolInvariant, PTL

(***************************************************************************)
(* The shared databases, when initialisations of one path do not overlap.  *)
(***************************************************************************)

\* The repository ids that count on the database of a path.
Holders(p) == {r \in Repos : LbugPath[r] = p /\ (pool[r] # None \/ init[r].pc = "fts")}

\* Those of them that the closing of R gives up.
Gone(R, p) == {r \in R : LbugPath[r] = p}

\* RefCountExact, strengthened: a path has one initialisation at a time, which
\* opens it only while nobody counts on it; whoever counts on a path has entries
\* on its cached database, and no two paths share one.
CacheInv ==
  /\ RefCountExact
  /\ \A r, s \in Repos :
       LbugPath[r] = LbugPath[s] /\ init[r].pc # "none" /\ init[s].pc # "none" => r = s
  /\ \A p \in Paths : Holders(p) # {} => dbCache[p].db # None
  /\ \A p, o \in Paths : dbCache[p].db # None /\ dbCache[p].db = dbCache[o].db => p = o
  /\ \A r \in Repos : pool[r] # None => dbOf[pool[r]] = dbCache[LbugPath[r]].db
  /\ \A r \in Repos : init[r].pc = "fts" => dbOf[init[r].entry] = dbCache[LbugPath[r]].db
  /\ \A r \in Repos : init[r].pc \in {"open", "reopen", "delay"} =>
       dbCache[LbugPath[r]].db = None

LEMMA HoldersFinite ==
  \A p : IsFiniteSet(Holders(p)) /\ Cardinality(Holders(p)) \in Nat
BY PathAssumption, FS_Subset, FS_CardinalityType DEF Holders

\* Closing the entries of R gives up as many references as it should, and closes
\* a database exactly when nobody counts on its path any more.
LEMMA CloseCache ==
  ASSUME IInv, CacheInv, NEW R \in SUBSET Registered
  PROVE  /\ \A p \in Paths :
              /\ CacheWithout(R)[p].db \in {dbCache[p].db, None}
              /\ CacheWithout(R)[p].db # None =>
                   CacheWithout(R)[p].refCount = Cardinality(Holders(p) \ Gone(R, p))
              /\ Holders(p) \ Gone(R, p) # {} => CacheWithout(R)[p].db # None
         /\ OpenDbsWithout(R) = {CacheWithout(R)[p].db : p \in Paths} \ {None}
<1>1. ASSUME NEW p \in Paths
      PROVE  /\ IsFiniteSet(Holders(p)) /\ Gone(R, p) \subseteq Holders(p)
             /\ Releases(R, p) = Cardinality(Gone(R, p)) /\ Releases(R, p) \in Nat
             /\ Cardinality(Holders(p)) \in Nat
             /\ Cardinality(Holders(p) \ Gone(R, p)) = Cardinality(Holders(p)) - Releases(R, p)
             /\ Cardinality(Holders(p)) = Releases(R, p) => Holders(p) = Gone(R, p)
             /\ Releases(R, p) <= Cardinality(Holders(p))
  <2>1. Gone(R, p) \subseteq Holders(p)
    BY DEF Gone, Holders, Registered
  <2>2. IsFiniteSet(Holders(p)) /\ Cardinality(Holders(p)) \in Nat
    BY HoldersFinite
  <2>3. Holders(p) \cap Gone(R, p) = Gone(R, p)
    BY <2>1
  <2>4. Releases(R, p) = Cardinality(Gone(R, p))
    BY DEF Releases, Gone
  <2>5. IsFiniteSet(Gone(R, p)) /\ Cardinality(Gone(R, p)) \in Nat
    BY <2>1, <2>2, FS_Subset, FS_CardinalityType
  <2>6. Cardinality(Holders(p) \ Gone(R, p)) = Cardinality(Holders(p)) - Cardinality(Gone(R, p))
    BY <2>2, <2>3, FS_Difference
  <2>7. /\ Cardinality(Gone(R, p)) <= Cardinality(Holders(p))
        /\ Cardinality(Holders(p)) = Cardinality(Gone(R, p)) => Holders(p) = Gone(R, p)
    BY <2>1, <2>2, FS_Subset
  <2>8. QED
    BY <2>1, <2>2, <2>4, <2>5, <2>6, <2>7
<1>2. NotCached.db = None
  BY DEF NotCached, SharedDb
<1>3. ASSUME NEW p \in Paths
      PROVE  CacheWithout(R)[p].db =
               IF dbCache[p].db = None \/ LastRelease(R, p) THEN None ELSE dbCache[p].db
  BY <1>2 DEF CacheWithout, SharedDb
<1>4. ASSUME NEW p \in Paths, CacheWithout(R)[p].db # None
      PROVE  CacheWithout(R)[p].refCount = Cardinality(Holders(p) \ Gone(R, p))
  <2>1. dbCache[p].db # None /\ ~LastRelease(R, p)
    BY <1>3, <1>4
  <2>2. CacheWithout(R)[p].refCount = dbCache[p].refCount - Releases(R, p)
    BY <2>1 DEF CacheWithout, SharedDb
  <2>3. dbCache[p].refCount = Cardinality(Holders(p))
    BY <2>1 DEF CacheInv, RefCountExact, Holders
  <2>4. QED
    BY <1>1, <2>2, <2>3
<1>5. ASSUME NEW p \in Paths, Holders(p) \ Gone(R, p) # {}
      PROVE  CacheWithout(R)[p].db # None
  <2>1. dbCache[p].db # None
    BY <1>5 DEF CacheInv
  <2>2. dbCache[p].refCount = Cardinality(Holders(p))
    BY <2>1 DEF CacheInv, RefCountExact, Holders
  <2> DEFINE held == Cardinality(Holders(p))
             gone == Releases(R, p)
  <2>3. held \in Nat /\ gone \in Nat /\ gone <= held /\ held # gone
    BY <1>1, <1>5
  <2>4. LastRelease(R, p) => held <= gone
    BY <2>2 DEF LastRelease
  <2> HIDE DEF held, gone
  <2>5. ~LastRelease(R, p)
    BY <2>3, <2>4
  <2>6. QED
    BY <1>3, <2>1, <2>5
<1>6. OpenDbsWithout(R) = {CacheWithout(R)[p].db : p \in Paths} \ {None}
  <2>1. openDbs = {dbCache[p].db : p \in Paths} \ {None}
    BY DEF CacheInv, RefCountExact
  <2>2. \A p, o \in Paths : dbCache[p].db # None /\ dbCache[p].db = dbCache[o].db => p = o
    BY DEF CacheInv
  <2>3. ASSUME NEW d \in OpenDbsWithout(R)
        PROVE  d \in {CacheWithout(R)[p].db : p \in Paths} \ {None}
    <3>1. PICK p \in Paths : d = dbCache[p].db /\ d # None
      BY <2>1, <2>3 DEF OpenDbsWithout
    <3>2. ~LastRelease(R, p)
      BY <2>3, <3>1 DEF OpenDbsWithout
    <3>3. CacheWithout(R)[p].db = d
      BY <1>3, <3>1, <3>2
    <3>4. QED
      BY <3>1, <3>3
  <2>4. ASSUME NEW d \in {CacheWithout(R)[p].db : p \in Paths} \ {None}
        PROVE  d \in OpenDbsWithout(R)
    <3>1. PICK p \in Paths : d = CacheWithout(R)[p].db /\ d # None
      BY <2>4
    <3>2. dbCache[p].db = d /\ ~LastRelease(R, p)
      BY <1>3, <3>1
    <3>3. \A o \in Paths : LastRelease(R, o) => dbCache[o].db # d
      BY <2>2, <3>1, <3>2
    <3>4. QED
      BY <2>1, <3>1, <3>2, <3>3 DEF OpenDbsWithout
  <2>5. QED
    BY <2>3, <2>4
<1>7. QED
  BY <1>3, <1>4, <1>5, <1>6

\* What the invariant says of the cache, in terms of the holders of a path.
LEMMA CacheFacts ==
  ASSUME IInv, CacheInv
  PROVE  /\ \A p \in Paths : dbCache[p].db # None =>
               dbCache[p].refCount = Cardinality(Holders(p))
         /\ openDbs = {dbCache[p].db : p \in Paths} \ {None}
         /\ \A r \in Repos : /\ LbugPath[r] \in Paths
                             /\ pool[r] # None => r \in Holders(LbugPath[r])
                             /\ init[r].pc = "fts" => r \in Holders(LbugPath[r])
                             /\ r \in Holders(LbugPath[r]) => dbCache[LbugPath[r]].db # None
BY PathAssumption DEF CacheInv, RefCountExact, Holders

\* A step that leaves the map, the cache and the databases alone.
LEMMA CacheQuiet ==
  ASSUME IInv, CacheInv, UNCHANGED <<pool, dbOf, dbCache, openDbs>>,
         \A r \in Repos :
           /\ init'[r].pc = "fts" <=> init[r].pc = "fts"
           /\ init'[r].entry = init[r].entry
           /\ init'[r].pc # "none" => init[r].pc # "none"
           /\ init'[r].pc \in {"open", "reopen", "delay"} =>
                init[r].pc \in {"open", "reopen", "delay"}
  PROVE  CacheInv'
<1>1. \A p : Holders(p)' = Holders(p)
  BY DEF Holders
<1>2. RefCountExact'
  <2>1. \A p \in Paths : dbCache'[p].db # None => dbCache'[p].refCount = Cardinality(Holders(p)')
    BY <1>1, CacheFacts
  <2>2. openDbs' = {dbCache'[p].db : p \in Paths} \ {None}
    BY CacheFacts
  <2>3. QED
    BY <2>1, <2>2 DEF RefCountExact, Holders
<1>3. QED
  BY <1>1, <1>2 DEF CacheInv

\* The closing of registered entries, and of the databases that nobody counts on.
LEMMA CloseCacheStep ==
  ASSUME IInv, CacheInv, NEW R \in SUBSET Registered, CloseRepos(R), UNCHANGED dbOf,
         \A r \in Repos :
           /\ init'[r].pc = "fts" <=> init[r].pc = "fts"
           /\ init'[r].entry = init[r].entry
           /\ init'[r].pc # "none" => init[r].pc # "none"
           /\ init'[r].pc \in {"open", "reopen", "delay"} =>
                \/ init[r].pc \in {"open", "reopen", "delay"}
                \/ CacheWithout(R)[LbugPath[r]].db = None
  PROVE  CacheInv'
<1>1. \A s \in Repos : pool'[s] = IF s \in R THEN None ELSE pool[s]
  BY DEF CloseRepos, PoolWithout
<1>2. \A s \in Repos : init[s].pc = "fts" => s \notin R
  BY DEF IInv, EntryShape, Registered
<1>3. \A p : Holders(p)' = Holders(p) \ Gone(R, p)
  BY <1>1, <1>2 DEF Holders, Gone
<1>4. dbCache' = CacheWithout(R) /\ openDbs' = OpenDbsWithout(R)
  BY DEF CloseRepos
<1>5. RefCountExact'
  <2>1. \A p \in Paths : dbCache'[p].db # None => dbCache'[p].refCount = Cardinality(Holders(p)')
    BY <1>3, <1>4, CloseCache
  <2>2. openDbs' = {dbCache'[p].db : p \in Paths} \ {None}
    BY <1>4, CloseCache
  <2>3. QED
    BY <2>1, <2>2 DEF RefCountExact, Holders
<1>6. \A p \in Paths : Holders(p)' # {} => dbCache'[p].db # None
  BY <1>3, <1>4, CloseCache
<1>7. \A p \in Paths : dbCache'[p].db \in {dbCache[p].db, None}
  BY <1>4, CloseCache
<1>8. \A p, o \in Paths : dbCache'[p].db # None /\ dbCache'[p].db = dbCache'[o].db => p = o
  BY <1>7 DEF CacheInv
<1>9. ASSUME NEW r \in Repos, pool'[r] # None \/ init'[r].pc = "fts"
      PROVE  dbCache'[LbugPath[r]].db = dbCache[LbugPath[r]].db
  <2>1. LbugPath[r] \in Paths /\ r \in Holders(LbugPath[r])'
    BY <1>9, PathAssumption DEF Holders
  <2>2. QED
    BY <1>6, <1>7, <2>1
<1>10. \A r \in Repos : pool'[r] # None => dbOf'[pool'[r]] = dbCache'[LbugPath[r]].db
  BY <1>1, <1>9 DEF CacheInv
<1>11. \A r \in Repos : init'[r].pc = "fts" => dbOf'[init'[r].entry] = dbCache'[LbugPath[r]].db
  BY <1>9 DEF CacheInv
<1>12. \A r \in Repos : init'[r].pc \in {"open", "reopen", "delay"} => dbCache'[LbugPath[r]].db = None
  BY <1>4, <1>7, PathAssumption DEF CacheInv
<1>13. QED
  BY <1>5, <1>6, <1>8, <1>10, <1>11, <1>12 DEF CacheInv

\* A new entry e on database d for r, in the terms of the invariant: the entries of
\* R have left the map, nobody else's entry or database is touched, and r is a
\* new holder of its path.
Built(R, r, e, d) ==
  /\ \A s \in Repos : s # r => /\ pool'[s] = IF s \in R THEN None ELSE pool[s]
                               /\ init'[s] = init[s]
  /\ \/ pool'[r] = e /\ init'[r].pc = "none"
     \/ pool'[r] = None /\ init'[r].pc = "fts" /\ init'[r].entry = e
  /\ dbOf'[e] = d
  /\ \A s \in Repos : pool[s] # None => pool[s] # e /\ dbOf'[pool[s]] = dbOf[pool[s]]
  /\ \A s \in Repos : init[s].pc = "fts" => dbOf'[init[s].entry] = dbOf[init[s].entry]
  /\ r \notin R /\ (\A p : r \notin Holders(p))
  /\ \A p : Holders(p)' = (Holders(p) \ Gone(R, p))
                             \cup (IF LbugPath[r] = p THEN {r} ELSE {})

\* The new entry of an initialisation is nobody's yet.
LEMMA BuildCache ==
  ASSUME IInv, CacheInv, NEW R \in SUBSET Registered, NEW r \in Repos,
         init[r].pc \in {"stat", "open", "reopen"}, NEW e \in Entries, NEW d,
         BuildEntry(R, e, d), Register(R, r, e) \/ AwaitFts(R, r, e)
  PROVE  Built(R, r, e, d)
<1> USE NoneAssumption
<1>0. TypeOK /\ EntryShape
  BY DEF IInv
<1>1. pool[r] = None /\ r \notin R
  BY <1>0 DEF EntryShape, Registered
<1>2. /\ \A s \in Repos : s # r => /\ pool'[s] = IF s \in R THEN None ELSE pool[s]
                                   /\ init'[s] = init[s]
      /\ \/ pool'[r] = e /\ init'[r].pc = "none"
         \/ pool'[r] = None /\ init'[r].pc = "fts" /\ init'[r].entry = e
  <2>1. /\ PoolWithout(R) \in [Repos -> Entries \cup {None}]
        /\ \A s \in Repos : PoolWithout(R)[s] = IF s \in R THEN None ELSE pool[s]
    BY <1>0, VictimsType DEF PoolWithout, TypeOK
  <2>2. CASE Register(R, r, e)
    BY <1>0, <2>1, <2>2 DEF Register, TypeOK, NoInit, InitAt
  <2>3. CASE AwaitFts(R, r, e)
    BY <1>0, <1>1, <2>1, <2>3 DEF AwaitFts, TypeOK, InitAt
  <2>4. QED
    BY <2>2, <2>3
<1>3. dbOf' = [dbOf EXCEPT ![e] = d] /\ ~Referenced(e)
  BY DEF BuildEntry
<1>4. /\ \A s \in Repos : pool[s] # e /\ init[s].entry # e
      /\ dbOf \in [Entries -> Dbs \cup {None}]
  BY <1>0, <1>3 DEF Referenced, Pooled, Initialising, TypeOK
<1>5. /\ \A s \in Repos : pool[s] # None => pool[s] # e /\ dbOf'[pool[s]] = dbOf[pool[s]]
      /\ \A s \in Repos : init[s].pc = "fts" => dbOf'[init[s].entry] = dbOf[init[s].entry]
      /\ dbOf'[e] = d
  <2>1. \A s \in Repos : pool[s] # None => pool[s] \in Entries
    BY <1>0 DEF TypeOK
  <2>2. \A s \in Repos : init[s].pc = "fts" => init[s].entry \in Entries
    BY <1>0 DEF TypeOK, EntryShape, InitRecs
  <2>3. QED
    BY <1>3, <1>4, <2>1, <2>2
<1>6. \A p : r \notin Holders(p)
  BY <1>1 DEF Holders
<1>7. \A s \in Repos : init[s].pc = "fts" => s \notin R
  BY <1>0 DEF EntryShape, Registered
<1>8. \A p : Holders(p)' = (Holders(p) \ Gone(R, p)) \cup (IF LbugPath[r] = p THEN {r} ELSE {})
  <2>1. ASSUME NEW p, NEW s \in Repos
        PROVE  s \in Holders(p)' <=> \/ s \in Holders(p) \ Gone(R, p)
                                     \/ LbugPath[r] = p /\ s = r
    <3>1. CASE s = r
      BY <1>2, <1>6, <3>1 DEF Holders
    <3>2. CASE s # r
      BY <1>2, <1>7, <3>2 DEF Holders, Gone
    <3>3. QED
      BY <3>1, <3>2
  <2>2. \A p : Holders(p)' \subseteq Repos /\ Holders(p) \subseteq Repos
    BY DEF Holders
  <2>3. QED
    BY <2>1, <2>2
<1>9. QED
  BY <1>1, <1>2, <1>5, <1>6, <1>8 DEF Built

\* A new reference on path p by repository id r: the count, the open databases
\* and what the other paths have, from what they were with the entries of R gone.
LEMMA TakeCache ==
  ASSUME IInv, CacheInv, NEW R \in SUBSET Registered, NEW r \in Repos,
         init[r].pc \in {"stat", "open", "reopen"}, NEW e \in Entries, NEW d, d # None,
         BuildEntry(R, e, d), Register(R, r, e) \/ AwaitFts(R, r, e),
         dbCache'[LbugPath[r]].db = d,
         dbCache'[LbugPath[r]].refCount =
           Cardinality(Holders(LbugPath[r]) \ Gone(R, LbugPath[r])) + 1,
         \A p \in Paths : p # LbugPath[r] =>
           /\ dbCache'[p].db = CacheWithout(R)[p].db
           /\ dbCache'[p].db # None => dbCache'[p].refCount = CacheWithout(R)[p].refCount,
         openDbs' = {dbCache'[p].db : p \in Paths} \ {None},
         \A p, o \in Paths : dbCache'[p].db # None /\ dbCache'[p].db = dbCache'[o].db => p = o,
         \A s \in Repos \ R : /\ LbugPath[s] = LbugPath[r] /\ s \in Holders(LbugPath[r])
                              => dbCache[LbugPath[r]].db = d
  PROVE  CacheInv'
<1> DEFINE at == LbugPath[r]
<1>1. at \in Paths
  BY PathAssumption
<1>2. /\ \A s \in Repos : s # r => /\ pool'[s] = IF s \in R THEN None ELSE pool[s]
                                   /\ init'[s] = init[s]
      /\ \/ pool'[r] = e /\ init'[r].pc = "none"
         \/ pool'[r] = None /\ init'[r].pc = "fts" /\ init'[r].entry = e
      /\ dbOf'[e] = d
      /\ \A s \in Repos : pool[s] # None => pool[s] # e /\ dbOf'[pool[s]] = dbOf[pool[s]]
      /\ \A s \in Repos : init[s].pc = "fts" => dbOf'[init[s].entry] = dbOf[init[s].entry]
      /\ r \notin R /\ (\A p : r \notin Holders(p))
      /\ \A p : Holders(p)' = (Holders(p) \ Gone(R, p))
                                 \cup (IF LbugPath[r] = p THEN {r} ELSE {})
  <2>1. Built(R, r, e, d)
    BY BuildCache
  <2>2. QED
    BY <2>1 DEF Built
<1>3. \A p \in Paths : dbCache'[p].db # None => dbCache'[p].refCount = Cardinality(Holders(p)')
  <2> SUFFICES ASSUME NEW p \in Paths, dbCache'[p].db # None
               PROVE  dbCache'[p].refCount = Cardinality(Holders(p)')
    OBVIOUS
  <2>1. CASE p = at
    <3> DEFINE S == Holders(at) \ Gone(R, at)
    <3>1. IsFiniteSet(S)
      BY HoldersFinite, FS_Subset
    <3>2. r \notin S
      BY <1>2
    <3>3. Holders(p)' = S \cup {r}
      BY <1>2, <2>1
    <3>4. Cardinality(S \cup {r}) = Cardinality(S) + 1
      BY <3>1, <3>2, FS_AddElement
    <3>5. QED
      BY <2>1, <3>3, <3>4
  <2>2. CASE p # at
    <3>1. Holders(p)' = Holders(p) \ Gone(R, p)
      BY <1>2, <2>2
    <3>2. dbCache'[p].db = CacheWithout(R)[p].db /\ dbCache'[p].refCount = CacheWithout(R)[p].refCount
      BY <2>2
    <3>3. QED
      BY <2>2, <3>1, <3>2, CloseCache
  <2>3. QED
    BY <2>1, <2>2
<1>4. RefCountExact'
  BY <1>3 DEF RefCountExact, Holders
<1>5. \A p \in Paths : Holders(p)' # {} => dbCache'[p].db # None
  <2> SUFFICES ASSUME NEW p \in Paths, Holders(p)' # {}, p # at PROVE dbCache'[p].db # None
    OBVIOUS
  <2>1. Holders(p)' = Holders(p) \ Gone(R, p)
    BY <1>2
  <2>2. QED
    BY <2>1, CloseCache
<1>6. ASSUME NEW s \in Repos, s # r, pool'[s] # None \/ init'[s].pc = "fts"
      PROVE  dbCache'[LbugPath[s]].db = dbCache[LbugPath[s]].db
  <2>1. s \in Holders(LbugPath[s]) /\ s \notin R
    BY <1>2, <1>6 DEF Holders, IInv, EntryShape, Registered
  <2>2. LbugPath[s] \in Paths
    BY PathAssumption
  <2>3. CASE LbugPath[s] = at
    BY <2>1, <2>3
  <2>4. CASE LbugPath[s] # at
    <3>1. s \in Holders(LbugPath[s]) \ Gone(R, LbugPath[s])
      BY <2>1 DEF Gone
    <3>2. CacheWithout(R)[LbugPath[s]].db = dbCache[LbugPath[s]].db
      BY <2>2, <3>1, CloseCache
    <3>3. QED
      BY <2>2, <2>4, <3>2
  <2>5. QED
    BY <2>3, <2>4
<1>7. \A s \in Repos : pool'[s] # None => dbOf'[pool'[s]] = dbCache'[LbugPath[s]].db
  <2> SUFFICES ASSUME NEW s \in Repos, pool'[s] # None
               PROVE  dbOf'[pool'[s]] = dbCache'[LbugPath[s]].db
    OBVIOUS
  <2>1. CASE s = r
    BY <1>2, <2>1
  <2>2. CASE s # r
    <3>1. pool'[s] = pool[s] /\ pool[s] # None
      BY <1>2, <2>2
    <3>2. dbOf[pool[s]] = dbCache[LbugPath[s]].db
      BY <3>1 DEF CacheInv
    <3>3. QED
      BY <1>2, <1>6, <2>2, <3>1, <3>2
  <2>3. QED
    BY <2>1, <2>2
<1>8. \A s \in Repos : init'[s].pc = "fts" => dbOf'[init'[s].entry] = dbCache'[LbugPath[s]].db
  <2> SUFFICES ASSUME NEW s \in Repos, init'[s].pc = "fts"
               PROVE  dbOf'[init'[s].entry] = dbCache'[LbugPath[s]].db
    OBVIOUS
  <2>1. CASE s = r
    BY <1>2, <2>1
  <2>2. CASE s # r
    <3>1. init'[s] = init[s]
      BY <1>2, <2>2
    <3>2. dbOf[init[s].entry] = dbCache[LbugPath[s]].db
      BY <3>1 DEF CacheInv
    <3>3. QED
      BY <1>2, <1>6, <2>2, <3>1, <3>2
  <2>3. QED
    BY <2>1, <2>2
<1>9. \A s \in Repos : init'[s].pc # "none" => init[s].pc # "none"
  BY <1>2
<1>10. \A s \in Repos : init'[s].pc \in {"open", "reopen", "delay"} => dbCache'[LbugPath[s]].db = None
  <2> SUFFICES ASSUME NEW s \in Repos, init'[s].pc \in {"open", "reopen", "delay"}
               PROVE  dbCache'[LbugPath[s]].db = None
    OBVIOUS
  <2>1. s # r
    BY <1>2
  <2>2. init[s].pc \in {"open", "reopen", "delay"}
    BY <1>2, <2>1
  <2>3. LbugPath[s] # at
    BY <2>1, <2>2 DEF CacheInv
  <2>4. dbCache[LbugPath[s]].db = None
    BY <2>2 DEF CacheInv
  <2>5. LbugPath[s] \in Paths
    BY PathAssumption
  <2>6. CacheWithout(R)[LbugPath[s]].db \in {dbCache[LbugPath[s]].db, None}
    BY <2>5, CloseCache
  <2>7. QED
    BY <2>3, <2>4, <2>5, <2>6
<1>11. \A s, t \in Repos :
         LbugPath[s] = LbugPath[t] /\ init'[s].pc # "none" /\ init'[t].pc # "none" => s = t
  BY <1>9 DEF CacheInv
<1>12. QED
  BY <1>4, <1>5, <1>7, <1>8, <1>10, <1>11 DEF CacheInv

\* An initialisation that finds its path cached takes a reference on what the
\* eviction leaves in the cache.
LEMMA ShareCacheStep ==
  ASSUME IInv, CacheInv, NEW r \in Repos, StatThenShare(r)
  PROVE  CacheInv'
<1> DEFINE at == LbugPath[r]
<1>1. PICK R \in SUBSET Registered, e \in Entries : TakeReference(r, R, e)
  BY VictimsType DEF StatThenShare
<1> DEFINE shared == CacheWithout(R)[at]
<1>2. /\ shared.db # None
      /\ dbCache' = [CacheWithout(R) EXCEPT ![at] =
           SharedDb(shared.db, shared.refCount + 1, shared.ftsLoaded)]
      /\ openDbs' = OpenDbsWithout(R)
      /\ BuildEntry(R, e, shared.db)
      /\ Register(R, r, e) \/ AwaitFts(R, r, e)
  BY <1>1 DEF TakeReference
<1>3. at \in Paths
  BY PathAssumption
<1>4. /\ dbCache'[at].db = shared.db
      /\ dbCache'[at].refCount = shared.refCount + 1
      /\ \A p \in Paths : p # at => dbCache'[p] = CacheWithout(R)[p]
  <2>1. dbCache'[at] = SharedDb(shared.db, shared.refCount + 1, shared.ftsLoaded)
    BY <1>2, <1>3 DEF CacheWithout
  <2>2. \A p \in Paths : p # at => dbCache'[p] = CacheWithout(R)[p]
    BY <1>2 DEF CacheWithout
  <2>3. QED
    BY <2>1, <2>2 DEF SharedDb
<1>5. \A p \in Paths : dbCache'[p].db = CacheWithout(R)[p].db
  BY <1>4
<1>6. /\ \A p \in Paths : CacheWithout(R)[p].db \in {dbCache[p].db, None}
      /\ shared.refCount = Cardinality(Holders(at) \ Gone(R, at))
      /\ OpenDbsWithout(R) = {CacheWithout(R)[p].db : p \in Paths} \ {None}
  BY <1>2, <1>3, CloseCache
<1>7. openDbs' = {dbCache'[p].db : p \in Paths} \ {None}
  <2>1. {dbCache'[p].db : p \in Paths} = {CacheWithout(R)[p].db : p \in Paths}
    BY <1>5, Zenon
  <2>2. QED
    BY <1>2, <1>6, <2>1
<1>8. \A p, o \in Paths : dbCache'[p].db # None /\ dbCache'[p].db = dbCache'[o].db => p = o
  BY <1>5, <1>6 DEF CacheInv
<1>9. shared.db = dbCache[at].db
  BY <1>2, <1>3, <1>6
<1>10. init[r].pc \in {"stat", "open", "reopen"}
  BY DEF StatThenShare
<1> DEFINE d == shared.db
<1>11. /\ d # None /\ BuildEntry(R, e, d)
       /\ dbCache'[at].db = d
       /\ dbCache'[at].refCount = Cardinality(Holders(at) \ Gone(R, at)) + 1
       /\ \A p \in Paths : p # at =>
            /\ dbCache'[p].db = CacheWithout(R)[p].db
            /\ dbCache'[p].db # None => dbCache'[p].refCount = CacheWithout(R)[p].refCount
       /\ dbCache[at].db = d
  BY <1>2, <1>4, <1>6, <1>9
<1> HIDE DEF d, shared
<1>12. QED
  BY <1>2, <1>7, <1>8, <1>10, <1>11, TakeCache

\* An initialisation that opened its path counts one on the new database.
LEMMA OpenCacheStep ==
  ASSUME IInv, CacheInv, NEW r \in Repos, OpenSucceeds(r)
  PROVE  CacheInv'
<1> DEFINE at == LbugPath[r]
<1>1. PICK d \in Dbs, e \in Entries :
        /\ FreshDb(d)
        /\ openDbs' = openDbs \cup {d}
        /\ dbCache' = [dbCache EXCEPT ![at] = SharedDb(d, 1, FALSE)]
        /\ BuildEntry({}, e, d)
        /\ AwaitFts({}, r, e)
  BY DEF OpenSucceeds
<1>2. at \in Paths /\ d # None /\ dbCache \in [Paths -> SharedDbs]
  BY PathAssumption, NoneAssumption DEF IInv, TypeOK
<1>3. init[r].pc \in {"open", "reopen"}
  BY DEF OpenSucceeds
<1>4. dbCache[at].db = None /\ Holders(at) = {}
  BY <1>2, <1>3 DEF CacheInv
<1>5. /\ dbCache'[at].db = d /\ dbCache'[at].refCount = 1
      /\ \A p \in Paths : p # at => dbCache'[p] = dbCache[p]
  BY <1>1, <1>2 DEF SharedDb
<1>6. ASSUME NEW p \in Paths, p # at
      PROVE  /\ dbCache'[p].db = CacheWithout({})[p].db
             /\ dbCache'[p].db # None => dbCache'[p].refCount = CacheWithout({})[p].refCount
  <2>1. Releases({}, p) = 0
    BY FS_EmptySet DEF Releases
  <2>2. ~LastRelease({}, p)
    BY <2>1 DEF LastRelease
  <2>3. dbCache[p].refCount \in Int
    BY <1>2 DEF SharedDbs
  <2>4. dbCache[p].refCount - Releases({}, p) = dbCache[p].refCount
    BY <2>1, <2>3
  <2>5. CASE dbCache[p].db = None
    BY <1>5, <1>6, <2>5 DEF CacheWithout, NotCached, SharedDb
  <2>6. CASE dbCache[p].db # None
    BY <1>5, <1>6, <2>2, <2>4, <2>6 DEF CacheWithout, SharedDb
  <2>7. QED
    BY <2>5, <2>6
<1>7. dbCache'[at].refCount = Cardinality(Holders(at) \ Gone({}, at)) + 1
  <2>1. Holders(at) \ Gone({}, at) = {}
    BY <1>4
  <2>2. Cardinality(Holders(at) \ Gone({}, at)) = 0
    BY <2>1, FS_EmptySet
  <2>3. QED
    BY <1>5, <2>2
<1>8. \A p \in Paths : dbCache[p].db # d
  BY <1>1 DEF FreshDb
<1>9. openDbs' = {dbCache'[p].db : p \in Paths} \ {None}
  <2>1. openDbs = {dbCache[p].db : p \in Paths} \ {None}
    BY CacheFacts
  <2>2. ASSUME NEW x PROVE x \in openDbs' <=> x \in {dbCache'[p].db : p \in Paths} \ {None}
    <3>1. CASE x = d
      BY <1>1, <1>2, <1>5, <3>1
    <3>2. CASE x # d
      <4>1. x \in openDbs' <=> \E p \in Paths : dbCache[p].db = x /\ x # None
        BY <1>1, <2>1, <3>2
      <4>2. \A p \in Paths : x # None => (dbCache'[p].db = x <=> dbCache[p].db = x)
        BY <1>4, <1>5, <3>2
      <4>3. QED
        BY <4>1, <4>2
    <3>3. QED
      BY <3>1, <3>2
  <2>3. QED
    BY <2>2
<1>10. \A p, o \in Paths : dbCache'[p].db # None /\ dbCache'[p].db = dbCache'[o].db => p = o
  BY <1>5, <1>8 DEF CacheInv
<1>11. {} \in SUBSET Registered /\ init[r].pc \in {"stat", "open", "reopen"}
  BY <1>3
<1>12. /\ \A s \in Repos : s \notin Holders(at)
       /\ BuildEntry({}, e, d) /\ AwaitFts({}, r, e)
       /\ d # None /\ dbCache'[at].db = d
  BY <1>1, <1>2, <1>4, <1>5
<1>13. QED
  BY <1>6, <1>7, <1>9, <1>10, <1>11, <1>12, TakeCache

\* The FTS flag is set, on whichever database the cache holds; the entry is
\* registered, and its id counts on its path as it did.
LEMMA FtsCacheStep ==
  ASSUME IInv, CacheInv, NEW r \in Repos, FtsAnswers(r)
  PROVE  CacheInv'
<1> DEFINE at == LbugPath[r]
           e == init[r].entry
<1>1. /\ init[r].pc = "fts" /\ pool' = [pool EXCEPT ![r] = e]
      /\ init' = [init EXCEPT ![r] = NoInit] /\ UNCHANGED <<dbOf, openDbs>>
  BY DEF FtsAnswers
<1>2. PICK ok \in BOOLEAN :
        dbCache' = IF dbCache[at].db = dbOf[e]
                   THEN [dbCache EXCEPT ![at] = SharedDb(@.db, @.refCount, ok)]
                   ELSE dbCache
  BY DEF FtsAnswers
<1>3. TypeOK /\ EntryShape /\ at \in Paths
  BY PathAssumption DEF IInv
<1>4. \A p \in Paths : dbCache'[p].db = dbCache[p].db /\ dbCache'[p].refCount = dbCache[p].refCount
  BY <1>2, <1>3 DEF TypeOK, SharedDb
<1>5. pool[r] = None /\ e # None /\ e \in Entries
  BY <1>1, <1>3 DEF EntryShape, TypeOK, InitRecs
<1>6. \A s \in Repos : pool'[s] = IF s = r THEN e ELSE pool[s]
  BY <1>1, <1>3 DEF TypeOK
<1>7. \A s \in Repos : init'[s] = IF s = r THEN NoInit ELSE init[s]
  BY <1>1, <1>3 DEF TypeOK
<1>8. NoInit.pc = "none"
  BY DEF NoInit, InitAt
<1>9. \A p : Holders(p)' = Holders(p)
  <2>1. \A s \in Repos : pool'[s] # None \/ init'[s].pc = "fts" <=> pool[s] # None \/ init[s].pc = "fts"
    BY <1>1, <1>5, <1>6, <1>7, <1>8
  <2>2. QED
    BY <2>1 DEF Holders
<1> HIDE DEF e, at
<1>10. RefCountExact'
  <2>1. \A p \in Paths : dbCache'[p].db # None => dbCache'[p].refCount = Cardinality(Holders(p)')
    BY <1>4, <1>9, CacheFacts
  <2>2. openDbs' = {dbCache'[p].db : p \in Paths} \ {None}
    BY <1>1, <1>4, CacheFacts
  <2>3. QED
    BY <2>1, <2>2 DEF RefCountExact, Holders
<1>11. \A s \in Repos : init'[s].pc # "none" => init'[s] = init[s]
  BY <1>7, <1>8
<1>12. \A s \in Repos : LbugPath[s] \in Paths
  BY PathAssumption
<1>13. \A s \in Repos : pool'[s] # None => dbOf'[pool'[s]] = dbCache'[LbugPath[s]].db
  BY <1>1, <1>4, <1>6, <1>12 DEF CacheInv, e
<1>14. \A s \in Repos : init'[s].pc = "fts" => dbOf'[init'[s].entry] = dbCache'[LbugPath[s]].db
  BY <1>1, <1>4, <1>11, <1>12 DEF CacheInv
<1>15. \A s \in Repos : init'[s].pc \in {"open", "reopen", "delay"} => dbCache'[LbugPath[s]].db = None
  BY <1>4, <1>11, <1>12 DEF CacheInv
<1>16. \A s, t \in Repos :
         LbugPath[s] = LbugPath[t] /\ init'[s].pc # "none" /\ init'[t].pc # "none" => s = t
  BY <1>11 DEF CacheInv
<1>17. /\ \A p \in Paths : Holders(p)' # {} => dbCache'[p].db # None
       /\ \A p, o \in Paths : dbCache'[p].db # None /\ dbCache'[p].db = dbCache'[o].db => p = o
  BY <1>4, <1>9 DEF CacheInv
<1>18. QED
  BY <1>10, <1>13, <1>14, <1>15, <1>16, <1>17 DEF CacheInv

\* Every step keeps the invariant of the cache, when initialisations of one path
\* do not overlap.
LEMMA CacheInvStep ==
  ASSUME "overlap" \notin Events, IInv, CacheInv, [Next]_vars
  PROVE  CacheInv'
<1>1. TypeOK /\ EntryShape
  BY DEF IInv
<1>2. ASSUME NEW r \in Repos, Touch(r) PROVE CacheInv'
  BY <1>2, CacheQuiet DEF Touch
<1>3. ASSUME NEW r \in Repos, InitCall(r) PROVE CacheInv'
  <2>1. /\ init[r].pc = "none"
        /\ \A s \in Repos : LbugPath[s] = LbugPath[r] => init[s].pc = "none"
        /\ UNCHANGED <<pool, dbOf, dbCache, openDbs>>
    BY <1>3 DEF InitCall, entryVars
  <2>2. \A s \in Repos : init'[s] = IF s = r THEN InitAt("stat", 0, None) ELSE init[s]
    BY <1>1, <1>3 DEF InitCall, TypeOK
  <2>3. InitAt("stat", 0, None).pc = "stat"
    BY DEF InitAt
  <2>4. \A p : Holders(p)' = Holders(p)
    BY <2>1, <2>2, <2>3 DEF Holders
  <2>5. RefCountExact'
    <3>1. \A p \in Paths : dbCache'[p].db # None => dbCache'[p].refCount = Cardinality(Holders(p)')
      BY <2>1, <2>4, CacheFacts
    <3>2. openDbs' = {dbCache'[p].db : p \in Paths} \ {None}
      BY <2>1, CacheFacts
    <3>3. QED
      BY <3>1, <3>2 DEF RefCountExact, Holders
  <2>6. \A s, t \in Repos :
          LbugPath[s] = LbugPath[t] /\ init'[s].pc # "none" /\ init'[t].pc # "none" => s = t
    BY <2>1, <2>2 DEF CacheInv
  <2>7. \A s \in Repos : init'[s].pc \in {"fts", "open", "reopen", "delay"} => init'[s] = init[s]
    BY <2>2, <2>3
  <2>8. QED
    BY <2>1, <2>4, <2>5, <2>6, <2>7 DEF CacheInv
<1>4. ASSUME NEW r \in Repos,
             InitThrows(r) \/ OpenFindsCorruptWal(r) \/ OpenFindsLock(r) \/ RetryOpen(r)
      PROVE  CacheInv'
  <2>1. UNCHANGED <<pool, dbOf, dbCache, openDbs>>
    BY <1>4 DEF InitThrows, OpenFindsCorruptWal, OpenFindsLock, RetryOpen, entryVars
  <2>2. init[r].pc \in {"stat", "open", "reopen", "delay"} /\ init[r].entry = None
    <3>1. init[r].pc \in {"stat", "open", "reopen", "delay"}
      BY <1>4 DEF InitThrows, OpenFindsCorruptWal, OpenFindsLock, RetryOpen
    <3>2. init[r].pc # "fts"
      BY <3>1
    <3>3. QED
      BY <1>1, <3>1, <3>2 DEF EntryShape
  <2>3. init \in [Repos -> InitRecs]
    BY <1>1 DEF TypeOK
  <2>4. \A s \in Repos : s # r => init'[s] = init[s]
    BY <1>4, <2>3 DEF InitThrows, OpenFindsCorruptWal, OpenFindsLock, RetryOpen
  <2>5. /\ init'[r].entry = None /\ init'[r].pc \in {"none", "open", "reopen", "delay"}
        /\ init'[r].pc \in {"open", "reopen", "delay"} => init[r].pc \in {"open", "reopen", "delay"}
    <3>1. CASE InitThrows(r)
      BY <2>3, <3>1 DEF InitThrows, NoInit, InitAt
    <3>2. CASE OpenFindsCorruptWal(r)
      BY <2>3, <3>2 DEF OpenFindsCorruptWal, InitAt
    <3>3. CASE OpenFindsLock(r)
      BY <2>3, <3>3 DEF OpenFindsLock, InitAt
    <3>4. CASE RetryOpen(r)
      BY <2>3, <3>4 DEF RetryOpen, InitAt
    <3>5. QED
      BY <1>4, <3>1, <3>2, <3>3, <3>4
  <2>6. QED
    BY <2>1, <2>2, <2>4, <2>5, CacheQuiet
<1>5. ASSUME NEW r \in Repos, StatThenOpen(r) PROVE CacheInv'
  <2>1. PICK R \in SUBSET Registered : CacheWithout(R)[LbugPath[r]].db = None /\ CloseRepos(R)
    BY <1>5, VictimsType DEF StatThenOpen
  <2>2. init[r].pc = "stat" /\ init[r].entry = None /\ UNCHANGED dbOf
    BY <1>1, <1>5 DEF StatThenOpen, EntryShape
  <2>3. \A s \in Repos : init'[s] = IF s = r THEN InitAt("open", 1, None) ELSE init[s]
    BY <1>1, <1>5 DEF StatThenOpen, TypeOK
  <2>4. InitAt("open", 1, None).pc = "open" /\ InitAt("open", 1, None).entry = None
    BY DEF InitAt
  <2>5. QED
    BY <2>1, <2>2, <2>3, <2>4, CloseCacheStep
<1>6. ASSUME NEW r \in Repos, InitStep(r) PROVE CacheInv'
  BY <1>4, <1>5, <1>6, ShareCacheStep, OpenCacheStep, FtsCacheStep DEF InitStep
<1>7. ASSUME NEW R \in SUBSET Registered, Unregister(R) PROVE CacheInv'
  BY <1>7, CloseCacheStep DEF Unregister
<1>8. ASSUME NEW q \in Queries, QueryStep(q) PROVE CacheInv'
  <2>1. UNCHANGED <<pool, dbOf, dbCache, openDbs, init>>
    BY <1>8 DEF QueryStep, CheckoutFast, CheckoutWaits, Advance, Return, QueryTimesOut,
                Checkin, AbandonedEnds, WaiterTimesOut, entryVars
  <2>2. QED
    BY <2>1, CacheQuiet
<1>9. ASSUME Tick \/ UNCHANGED vars PROVE CacheInv'
  BY <1>9, CacheQuiet DEF Tick, vars, entryVars
<1>10. QED
  BY <1>2, <1>3, <1>6, <1>7, <1>8, <1>9 DEF Next, CloseLbug, CloseAll, IdleSweep

\* A call that holds a connection holds one of a registered entry.
HeldInv == \A q \in Queries : call[q] \in Holding => \E r \in Repos : pool[r] = onEntry[q]

\* Nobody holds a connection of an entry whose checkedOut counter is zero.
LEMMA IdleEntry ==
  ASSUME IInv, NEW r \in Registered, checkedOut[pool[r]] = 0,
         NEW q \in Queries, call[q] \in Holding
  PROVE  onEntry[q] # pool[r]
<1> SUFFICES ASSUME onEntry[q] = pool[r] PROVE FALSE
  OBVIOUS
<1>1. TypeOK /\ CallShape /\ Conservation /\ ExclusiveCheckout
  BY DEF IInv
<1> DEFINE e == pool[r]
<1>2. e \in Entries /\ Pooled(e) /\ available[e] \in SUBSET Conns /\ onConn[q] \in Conns
  BY <1>1 DEF TypeOK, Registered, Pooled, CallShape
<1>3. checkedOut[e] + Cardinality(available[e]) = Cardinality(Conns)
  BY <1>1, <1>2 DEF Conservation
<1>4. Cardinality(available[e]) \in Nat /\ IsFiniteSet(Conns)
  BY <1>2, ConnAssumption, FS_Subset, FS_CardinalityType
<1>5. Cardinality(available[e]) = Cardinality(Conns)
  BY <1>3, <1>4
<1>6. available[e] = Conns
  BY <1>2, <1>4, <1>5, FS_Subset
<1>7. onConn[q] \notin available[e]
  BY <1>1 DEF ExclusiveCheckout
<1>8. QED
  BY <1>2, <1>6, <1>7

\* A step that takes entries out of the map only when they are idle, and moves no
\* call, keeps the holders' entries registered.
LEMMA HeldKept ==
  ASSUME IInv, HeldInv, NEW R \in SUBSET Registered,
         \A x \in R : checkedOut[pool[x]] = 0,
         \A s \in Repos : pool[s] # None /\ s \notin R => pool'[s] = pool[s],
         UNCHANGED queryVars
  PROVE  HeldInv'
<1> SUFFICES ASSUME NEW q \in Queries, call'[q] \in Holding
             PROVE  \E s \in Repos : pool'[s] = onEntry'[q]
  BY DEF HeldInv
<1>1. call[q] \in Holding /\ onEntry'[q] = onEntry[q]
  BY DEF queryVars
<1>2. PICK s \in Repos : pool[s] = onEntry[q]
  BY <1>1 DEF HeldInv
<1>3. pool[s] # None
  BY <1>1, <1>2, NoneAssumption DEF IInv, CallShape
<1>4. s \notin R
  BY <1>1, <1>2, IdleEntry
<1>5. QED
  BY <1>1, <1>2, <1>3, <1>4

\* The call steps: a grant is on a registered entry, by checkout or from a call
\* that held the connection before.
LEMMA HeldCallStep ==
  ASSUME IInv, HeldInv, NEW q \in Queries, QueryStep(q)
  PROVE  HeldInv'
<1>1. TypeOK /\ CallShape /\ QueueShape /\ UNCHANGED pool
  BY DEF IInv, QueryStep, CheckoutFast, CheckoutWaits, Advance, Return, QueryTimesOut,
         Checkin, AbandonedEnds, WaiterTimesOut
<1> SUFFICES ASSUME NEW s \in Queries, call'[s] \in Holding
             PROVE  \E r \in Repos : pool[r] = onEntry'[s]
  BY <1>1 DEF HeldInv
<1>2. CASE CheckoutFast(q)
  BY <1>1, <1>2 DEF CheckoutFast, TypeOK, HeldInv, Registered
<1>3. CASE CheckoutWaits(q)
  BY <1>1, <1>3 DEF CheckoutWaits, TypeOK, HeldInv, Holding
<1>4. CASE Advance(q)
  BY <1>1, <1>4 DEF Advance, TypeOK, HeldInv, Holding, FirstStage
<1>5. CASE AbandonedEnds(q)
  BY <1>1, <1>5 DEF AbandonedEnds, TypeOK, HeldInv, Holding
<1>6. CASE WaiterTimesOut(q)
  BY <1>1, <1>6 DEF WaiterTimesOut, TypeOK, HeldInv, Holding
<1>7. ASSUME NEW then \in {"idle", "abandoned"}, call[q] \in Holding, Checkin(q, then)
      PROVE  \E r \in Repos : pool[r] = onEntry'[s]
  <2>1. PICK r \in Repos : pool[r] = onEntry[q]
    BY <1>7 DEF HeldInv
  <2>2. onEntry[q] \in Entries
    BY <1>1, <1>7 DEF CallShape
  <2>3. CASE call'[s] = call[s] /\ s # q
    <3>1. onEntry'[s] = onEntry[s]
      BY <1>1, <1>7, <2>3 DEF Checkin, TypeOK
    <3>2. QED
      BY <2>3, <3>1 DEF HeldInv
  <2>4. CASE s = q
    <3>1. CASE waiters[onEntry[q]] # <<>> /\ ~closed[onEntry[q]]
      <4>1. Head(waiters[onEntry[q]]) # q
        <5>1. waiters[onEntry[q]] \in Seq(Queries)
          BY <1>1, <2>2 DEF TypeOK
        <5>2. /\ 1 \in 1 .. Len(waiters[onEntry[q]])
              /\ Head(waiters[onEntry[q]]) = waiters[onEntry[q]][1]
          BY <3>1, <5>1
        <5>3. call[waiters[onEntry[q]][1]] = "waiting"
          BY <1>1, <2>2, <5>2 DEF QueueShape
        <5>4. QED
          BY <1>7, <5>2, <5>3 DEF Holding
      <4>2. call'[q] = then
        BY <1>1, <1>7, <3>1, <4>1 DEF Checkin, CheckinClosed, CheckinPutBack, TypeOK
      <4>3. QED
        BY <1>7, <2>4, <4>2 DEF Holding
    <3>2. CASE ~(waiters[onEntry[q]] # <<>> /\ ~closed[onEntry[q]])
      <4>1. call' = [call EXCEPT ![q] = then]
        BY <1>7, <3>2 DEF Checkin
      <4>2. QED
        BY <1>1, <1>7, <2>4, <4>1 DEF Holding, TypeOK
    <3>3. QED
      BY <3>1, <3>2
  <2>5. CASE call'[s] # call[s] /\ s # q
    <3>1. /\ s = Head(waiters[onEntry[q]]) /\ waiters[onEntry[q]] # <<>>
          /\ onEntry'[s] = onEntry[s]
      BY <1>1, <1>7, <2>5 DEF Checkin, TypeOK
    <3>2. onEntry[s] = onEntry[q]
      BY <1>1, <2>2, <3>1 DEF QueueShape, TypeOK
    <3>3. QED
      BY <2>1, <3>1, <3>2
  <2>6. QED
    BY <2>3, <2>4, <2>5
<1>8. CASE Return(q)
  BY <1>7, <1>8 DEF Return
<1>9. CASE QueryTimesOut(q)
  BY <1>7, <1>9 DEF QueryTimesOut, FirstStage, Holding
<1>10. QED
  BY <1>2, <1>3, <1>4, <1>5, <1>6, <1>8, <1>9 DEF QueryStep

\* Every step keeps it, when no caller closes an entry: evictions and the sweep
\* take idle entries only.
LEMMA HeldInvStep ==
  ASSUME "close" \notin Events, IInv, HeldInv, [Next]_vars
  PROVE  HeldInv'
<1>1. TypeOK /\ EntryShape
  BY DEF IInv
<1>2. \A R \in Victims : R \in SUBSET Registered /\ \A x \in R : checkedOut[pool[x]] = 0
  BY DEF Victims, Oldest, Evictable
<1>3. {} \in SUBSET Registered
  OBVIOUS
<1>4. ASSUME UNCHANGED <<pool, queryVars>> PROVE HeldInv'
  BY <1>3, <1>4, HeldKept
<1>5. ASSUME NEW r \in Repos, Touch(r) \/ InitCall(r) PROVE HeldInv'
  BY <1>4, <1>5 DEF Touch, InitCall
<1>6. ASSUME NEW r \in Repos, InitStep(r) PROVE HeldInv'
  <2>1. CASE StatThenOpen(r)
    <3>1. PICK R \in Victims : CloseRepos(R)
      BY <2>1 DEF StatThenOpen
    <3>2. \A s \in Repos : s \notin R => pool'[s] = pool[s]
      BY <3>1 DEF CloseRepos, PoolWithout
    <3>3. QED
      BY <1>2, <2>1, <3>1, <3>2, HeldKept DEF StatThenOpen
  <2>2. CASE StatThenShare(r)
    <3>1. PICK R \in Victims, e \in Entries : TakeReference(r, R, e)
      BY <2>2 DEF StatThenShare
    <3>2. pool[r] = None
      BY <1>1, <2>2 DEF StatThenShare, EntryShape
    <3>3. \A s \in Repos : pool[s] # None /\ s \notin R => pool'[s] = pool[s]
      BY <3>1, <3>2 DEF TakeReference, Register, AwaitFts, PoolWithout
    <3>4. QED
      BY <1>2, <2>2, <3>1, <3>3, HeldKept DEF StatThenShare
  <2>3. CASE OpenSucceeds(r)
    <3>1. \A s \in Repos : pool'[s] = pool[s]
      BY <2>3 DEF OpenSucceeds, AwaitFts, PoolWithout
    <3>2. QED
      BY <1>3, <2>3, <3>1, HeldKept DEF OpenSucceeds
  <2>4. CASE FtsAnswers(r)
    <3>1. pool[r] = None /\ pool' = [pool EXCEPT ![r] = init[r].entry]
      BY <1>1, <2>4 DEF FtsAnswers, EntryShape
    <3>2. \A s \in Repos : pool[s] # None => pool'[s] = pool[s]
      BY <1>1, <3>1 DEF TypeOK
    <3>3. QED
      BY <1>3, <2>4, <3>2, HeldKept DEF FtsAnswers
  <2>5. CASE InitThrows(r) \/ OpenFindsCorruptWal(r) \/ OpenFindsLock(r) \/ RetryOpen(r)
    BY <1>4, <2>5 DEF InitThrows, OpenFindsCorruptWal, OpenFindsLock, RetryOpen
  <2>6. QED
    BY <1>6, <2>1, <2>2, <2>3, <2>4, <2>5 DEF InitStep
<1>7. CASE IdleSweep
  <2> DEFINE R == {r \in Registered : age[pool[r]] > IdleTimeout /\ checkedOut[pool[r]] = 0}
  <2>1. Unregister(R)
    BY <1>7 DEF IdleSweep
  <2>2. \A s \in Repos : s \notin R => pool'[s] = pool[s]
    BY <2>1 DEF Unregister, CloseRepos, PoolWithout
  <2>3. R \in SUBSET Registered /\ \A x \in R : checkedOut[pool[x]] = 0
    OBVIOUS
  <2>4. UNCHANGED queryVars
    BY <2>1 DEF Unregister
  <2> HIDE DEF R
  <2>5. QED
    BY <2>2, <2>3, <2>4, HeldKept
<1>8. CASE Tick \/ UNCHANGED vars
  BY <1>4, <1>8 DEF Tick, vars
<1>9. QED
  BY <1>5, <1>6, <1>7, <1>8, HeldCallStep DEF Next, CloseLbug, CloseAll

LEMMA InitCacheInv == Init => CacheInv /\ HeldInv
<1> SUFFICES ASSUME Init PROVE CacheInv /\ HeldInv
  OBVIOUS
<1>1. \A p \in Paths : dbCache[p].db = None
  BY DEF Init, NotCached, SharedDb
<1>2. \A r \in Repos : pool[r] = None /\ init[r].pc = "none"
  BY DEF Init, NoInit, InitAt
<1>3. RefCountExact
  BY <1>1 DEF RefCountExact, Init
<1>4. \A p : Holders(p) = {}
  BY <1>2 DEF Holders
<1>5. CacheInv
  BY <1>1, <1>2, <1>3, <1>4 DEF CacheInv
<1>6. HeldInv
  BY DEF HeldInv, Init, Holding
<1>7. QED
  BY <1>5, <1>6

\* The reference count of a shared database is the number of repository ids that
\* count on it, and every open database is in the cache, for every number of
\* repository ids and paths, evictions, sweeps and closes included; two
\* initialisations of one path must not overlap (initPromises is keyed by
\* repository id, so the code does not see to that).
THEOREM PoolRefCountExact ==
  ASSUME "overlap" \notin Events
  PROVE  Spec => []RefCountExact
<1>1. Init => IInv /\ CacheInv
  BY InitInv, InitCacheInv
<1>2. (IInv /\ CacheInv) /\ [Next]_vars => (IInv /\ CacheInv)'
  BY NextInv, CacheInvStep
<1>3. CacheInv => RefCountExact
  BY DEF CacheInv
<1>4. QED
  BY <1>1, <1>2, <1>3, PTL DEF Spec

\* Eviction and the idle sweep never close the database under a call that holds
\* one of its connections, though repository ids share databases: the holder's
\* entry is registered, so its id counts on the path.  A caller must not close the
\* entry (closeLbug does not look at checkedOut).
THEOREM PoolDbOpenWhileHeld ==
  ASSUME "overlap" \notin Events, "close" \notin Events
  PROVE  Spec => []DbOpenWhileHeld
<1>1. Init => IInv /\ CacheInv /\ HeldInv
  BY InitInv, InitCacheInv
<1>2. (IInv /\ CacheInv /\ HeldInv) /\ [Next]_vars => (IInv /\ CacheInv /\ HeldInv)'
  BY NextInv, CacheInvStep, HeldInvStep
<1>3. IInv /\ CacheInv /\ HeldInv => DbOpenWhileHeld
  <2> SUFFICES ASSUME IInv, CacheInv, HeldInv, NEW q \in Queries, call[q] \in Holding
               PROVE  dbOf[onEntry[q]] \in openDbs
    BY DEF DbOpenWhileHeld
  <2>1. PICK r \in Repos : pool[r] = onEntry[q]
    BY DEF HeldInv
  <2>2. pool[r] # None
    BY <2>1, NoneAssumption DEF IInv, CallShape
  <2>3. LbugPath[r] \in Paths /\ dbCache[LbugPath[r]].db # None
    BY <2>2, CacheFacts
  <2>4. dbOf[pool[r]] = dbCache[LbugPath[r]].db
    BY <2>2 DEF CacheInv
  <2>5. QED
    BY <2>1, <2>3, <2>4, CacheFacts
<1>4. QED
  BY <1>1, <1>2, <1>3, PTL DEF Spec
=============================================================================
