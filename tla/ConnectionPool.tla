--------------------------- MODULE ConnectionPool ---------------------------
(***************************************************************************)
(* The read-side connection pool of GitNexus:                              *)
(* gitnexus/src/core/lbug/pool-adapter.ts.                                 *)
(*                                                                         *)
(* One Node.js process keeps a map `pool` from repository ids to pool      *)
(* entries.  An entry owns a fixed set of native connections to one native *)
(* database; queries check a connection out, run on it and check it in;    *)
(* entries are closed by LRU eviction, by the idle sweep or on request.    *)
(* Native databases are shared by path through the reference-counted       *)
(* `dbCache`.                                                              *)
(*                                                                         *)
(* The process is single threaded, so everything between two `await`s is   *)
(* one action.  A pool entry is an incarnation `e \in Entries`: an object  *)
(* that may outlive its place in the map because queries still refer to    *)
(* it.  An incarnation (or a native database handle) nobody refers to any  *)
(* more is garbage and may be allocated again.                             *)
(***************************************************************************)
EXTENDS Integers, Sequences, FiniteSets

CONSTANTS
  Repos,             \* repository ids, the keys of `pool`
  Paths,             \* database files, the keys of `dbCache`
  LbugPath,          \* the file each repository id is initialised with
  Entries,           \* pool-entry incarnations alive at the same time
  Conns,             \* connection slots of one entry (MAX_CONNS_PER_REPO)
  Dbs,               \* native database handles alive at the same time
  Queries,           \* calls of executeQuery / executeParameterized in progress
  MaxPoolSize,       \* MAX_POOL_SIZE
  IdleTimeout,       \* IDLE_TIMEOUT_MS, in ticks
  MaxAge,            \* ages are counted up to this many ticks
  LockRetryAttempts, \* LOCK_RETRY_ATTEMPTS
  Events             \* which optional events the environment may produce

\* The optional events: a native operation outlasting QUERY_TIMEOUT_MS, a
\* waiter outlasting WAITER_TIMEOUT_MS, a caller using closeLbug, and two
\* repository ids with one path being initialised at the same time.
OptionalEvents == {"query_timeout", "waiter_timeout", "close", "overlap"}

ASSUME PathAssumption == IsFiniteSet(Repos) /\ LbugPath \in [Repos -> Paths]
ASSUME ConnAssumption == IsFiniteSet(Conns) /\ Conns # {}
ASSUME QueryAssumption == IsFiniteSet(Queries)
ASSUME BoundAssumption ==
  /\ MaxPoolSize \in Nat \ {0}
  /\ IdleTimeout \in Nat
  /\ MaxAge \in Nat /\ MaxAge > IdleTimeout
  /\ LockRetryAttempts \in Nat \ {0}
  /\ Events \subseteq OptionalEvents

None == "none"     \* undefined / null: no entry, no database, no connection
ASSUME NoneAssumption == None \notin Entries \cup Dbs \cup Conns

VARIABLES
  pool,        \* repoId -> the registered entry, or None
  dbOf,        \* entry -> the native database its connections belong to
  available,   \* entry -> connections ready for checkout
  checkedOut,  \* entry -> the checkedOut counter
  waiters,     \* entry -> queued callers, oldest first
  closed,      \* entry -> the closed flag
  age,         \* entry -> ticks since lastUsed, capped at MaxAge
  dbCache,     \* path -> shared native database and its reference count
  openDbs,     \* native databases not closed yet
  openConns,   \* native connections <<entry, slot>> not closed yet
  init,        \* repoId -> the doInitLbug call in progress (initPromises)
  call,        \* query -> where the call stands
  onEntry,     \* query -> the entry it runs or waits on
  onConn       \* query -> the connection slot it holds (or abandoned)

entryVars == <<dbOf, available, checkedOut, waiters, closed, age>>
queryVars == <<call, onEntry, onConn>>
vars == <<pool, entryVars, dbCache, openDbs, openConns, init, queryVars>>

SharedDb(d, n, fts) == [db |-> d, refCount |-> n, ftsLoaded |-> fts]
NotCached == SharedDb(None, 0, FALSE)

InitAt(pc, n, e) == [pc |-> pc, attempt |-> n, entry |-> e]
NoInit == InitAt("none", 0, None)

\* A call holds its connection while native work is awaited: prepare, query
\* (or execute) and the fetch of the rows (getAll).  An "abandoned" call has
\* been rejected by its timeout while the native operation goes on.
Holding == {"prepare", "query", "fetch"}
CallStates == Holding \cup {"idle", "waiting", "abandoned"}

Init ==
  /\ pool = [r \in Repos |-> None]
  /\ dbOf = [e \in Entries |-> None]
  /\ available = [e \in Entries |-> {}]
  /\ checkedOut = [e \in Entries |-> 0]
  /\ waiters = [e \in Entries |-> <<>>]
  /\ closed = [e \in Entries |-> FALSE]
  /\ age = [e \in Entries |-> 0]
  /\ dbCache = [p \in Paths |-> NotCached]
  /\ openDbs = {}
  /\ openConns = {}
  /\ init = [r \in Repos |-> NoInit]
  /\ call = [q \in Queries |-> "idle"]
  /\ onEntry = [q \in Queries |-> None]
  /\ onConn = [q \in Queries |-> None]

-----------------------------------------------------------------------------
(* References, and what may be allocated.                                   *)

Pooled(e) == \E r \in Repos : pool[r] = e
Initialising(e) == \E r \in Repos : init[r].entry = e
Referenced(e) == \/ Pooled(e)
                 \/ Initialising(e)
                 \/ \E q \in Queries : onEntry[q] = e

FreshDb(d) == /\ d \notin openDbs
              /\ \A e \in Entries : Referenced(e) => dbOf[e] # d
              /\ \A p \in Paths : dbCache[p].db # d

-----------------------------------------------------------------------------
(* closeOne, for a set R of registered repository ids at once: the entries  *)
(* leave the map and lose their available connections, each path loses the  *)
(* references, and a database whose count reaches zero is closed.           *)

Registered == {r \in Repos : pool[r] # None}
EntriesOf(R) == {pool[r] : r \in R}
Releases(R, p) == Cardinality({r \in R : LbugPath[r] = p})
LastRelease(R, p) == /\ dbCache[p].db # None
                     /\ Releases(R, p) > 0
                     /\ dbCache[p].refCount <= Releases(R, p)

PoolWithout(R) == [r \in Repos |-> IF r \in R THEN None ELSE pool[r]]
ClosedWith(R) == [e \in Entries |-> closed[e] \/ e \in EntriesOf(R)]
AvailableWithout(R) ==
  [e \in Entries |-> IF e \in EntriesOf(R) THEN {} ELSE available[e]]
OpenConnsWithout(R) ==
  openConns \ {k \in openConns : k[1] \in EntriesOf(R) /\ k[2] \in available[k[1]]}

CacheWithout(R) ==
  [p \in Paths |->
     IF dbCache[p].db = None \/ LastRelease(R, p) THEN NotCached
     ELSE SharedDb(dbCache[p].db, dbCache[p].refCount - Releases(R, p),
                   dbCache[p].ftsLoaded)]
OpenDbsWithout(R) ==
  openDbs \ {dbCache[p].db : p \in {x \in Paths : LastRelease(R, x)}}

CloseRepos(R) ==
  /\ pool' = PoolWithout(R)
  /\ closed' = ClosedWith(R)
  /\ available' = AvailableWithout(R)
  /\ openConns' = OpenConnsWithout(R)
  /\ dbCache' = CacheWithout(R)
  /\ openDbs' = OpenDbsWithout(R)

-----------------------------------------------------------------------------
(* initLbug and doInitLbug.                                                 *)

\* lastUsed := now; initLbug on a registered id, and touchRepo.
Touch(r) ==
  /\ pool[r] # None
  /\ age' = [age EXCEPT ![pool[r]] = 0]
  /\ UNCHANGED <<pool, dbOf, available, checkedOut, waiters, closed, dbCache,
                 openDbs, openConns, init, queryVars>>

\* initLbug on an unregistered id; a second caller joins initPromises.
InitCall(r) ==
  /\ pool[r] = None
  /\ init[r].pc = "none"
  /\ \/ "overlap" \in Events
     \/ \A s \in Repos : LbugPath[s] = LbugPath[r] => init[s].pc = "none"
  /\ init' = [init EXCEPT ![r] = InitAt("stat", 0, None)]
  /\ UNCHANGED <<pool, entryVars, dbCache, openDbs, openConns, queryVars>>

\* doInitLbug throws: the database file is missing, cannot be opened, or its
\* WAL cannot be quarantined.
InitThrows(r) ==
  /\ init[r].pc \in {"stat", "open", "reopen"}
  /\ init' = [init EXCEPT ![r] = NoInit]
  /\ UNCHANGED <<pool, entryVars, dbCache, openDbs, openConns, queryVars>>

\* evictLRU: at capacity, the longest unused entry without a checked-out
\* connection, if there is one.
\* Mutant: busy entries may be evicted too.
EvictableWhenBusy == Registered

Evictable == {r \in Registered : checkedOut[pool[r]] = 0}
Oldest == {r \in Evictable : \A s \in Evictable : age[pool[r]] >= age[pool[s]]}
Victims == IF Cardinality(Registered) < MaxPoolSize \/ Evictable = {}
           THEN {{}} ELSE {{r} : r \in Oldest}

\* The file exists and nothing is cached for its path: evict, start opening.
StatThenOpen(r) ==
  /\ init[r].pc = "stat"
  /\ \E R \in Victims : /\ CacheWithout(R)[LbugPath[r]].db = None
                        /\ CloseRepos(R)
  /\ init' = [init EXCEPT ![r] = InitAt("open", 1, None)]
  /\ UNCHANGED <<dbOf, checkedOut, waiters, age, queryVars>>

\* The pre-warmed connections on database d, put in a new entry e while the
\* entries of R are closed.
BuildEntry(R, e, d) ==
  /\ ~Referenced(e)
  /\ dbOf' = [dbOf EXCEPT ![e] = d]
  /\ available' = [AvailableWithout(R) EXCEPT ![e] = Conns]
  /\ closed' = [ClosedWith(R) EXCEPT ![e] = FALSE]
  /\ checkedOut' = [checkedOut EXCEPT ![e] = 0]
  /\ waiters' = [waiters EXCEPT ![e] = <<>>]
  /\ age' = [age EXCEPT ![e] = 0]
  /\ openConns' = OpenConnsWithout(R) \cup ({e} \X Conns)

\* With the FTS extension loaded the entry is registered at once, otherwise
\* after the LOAD.
Register(R, r, e) == /\ pool' = [PoolWithout(R) EXCEPT ![r] = e]
                     /\ init' = [init EXCEPT ![r] = NoInit]
AwaitFts(R, r, e) == /\ pool' = PoolWithout(R)
                     /\ init' = [init EXCEPT ![r] = InitAt("fts", 0, e)]

\* Mutant: the cache is read before the eviction and written after it.
TakeStaleReference(r, R, e) ==
  LET p == LbugPath[r]
      shared == dbCache[p]
  IN /\ shared.db # None
     /\ dbCache' = [CacheWithout(R) EXCEPT ![p] =
          SharedDb(shared.db, shared.refCount + 1, shared.ftsLoaded)]
     /\ openDbs' = OpenDbsWithout(R)
     /\ BuildEntry(R, e, shared.db)
     /\ IF shared.ftsLoaded THEN Register(R, r, e) ELSE AwaitFts(R, r, e)

\* The file exists and its path is cached: evict, take a reference (refCount++).
TakeReference(r, R, e) ==
  LET p == LbugPath[r]
      shared == CacheWithout(R)[p]
  IN /\ shared.db # None
     /\ dbCache' = [CacheWithout(R) EXCEPT ![p] =
          SharedDb(shared.db, shared.refCount + 1, shared.ftsLoaded)]
     /\ openDbs' = OpenDbsWithout(R)
     /\ BuildEntry(R, e, shared.db)
     /\ IF shared.ftsLoaded THEN Register(R, r, e) ELSE AwaitFts(R, r, e)

StatThenShare(r) ==
  /\ init[r].pc = "stat"
  /\ \E R \in Victims, e \in Entries : TakeReference(r, R, e)
  /\ UNCHANGED queryVars

\* openReadOnlyDatabase, directly or after the quarantine of a corrupt WAL,
\* resolves: dbCache.set without looking at the map again.
OpenSucceeds(r) ==
  /\ init[r].pc \in {"open", "reopen"}
  /\ \E d \in Dbs, e \in Entries :
       /\ FreshDb(d)
       /\ openDbs' = openDbs \cup {d}
       /\ dbCache' = [dbCache EXCEPT ![LbugPath[r]] = SharedDb(d, 1, FALSE)]
       /\ BuildEntry({}, e, d)
       /\ AwaitFts({}, r, e)
  /\ UNCHANGED queryVars

OpenFindsCorruptWal(r) ==
  /\ init[r].pc = "open"
  /\ init' = [init EXCEPT ![r] = InitAt("reopen", 0, None)]
  /\ UNCHANGED <<pool, entryVars, dbCache, openDbs, openConns, queryVars>>

\* Another process holds the lock: sleep, at most LOCK_RETRY_ATTEMPTS - 1 times.
OpenFindsLock(r) ==
  /\ init[r].pc = "open"
  /\ init[r].attempt < LockRetryAttempts
  /\ init' = [init EXCEPT ![r] = InitAt("delay", init[r].attempt, None)]
  /\ UNCHANGED <<pool, entryVars, dbCache, openDbs, openConns, queryVars>>

RetryOpen(r) ==
  /\ init[r].pc = "delay"
  /\ init' = [init EXCEPT ![r] = InitAt("open", init[r].attempt + 1, None)]
  /\ UNCHANGED <<pool, entryVars, dbCache, openDbs, openConns, queryVars>>

\* loadFTSExtension answers; the flag goes to the shared database the call took,
\* which the cache may have replaced since.  The entry is registered last.
FtsAnswers(r) ==
  /\ init[r].pc = "fts"
  /\ LET e == init[r].entry
         p == LbugPath[r]
     IN /\ \E ok \in BOOLEAN :
             dbCache' = IF dbCache[p].db = dbOf[e]
                        THEN [dbCache EXCEPT ![p] = SharedDb(@.db, @.refCount, ok)]
                        ELSE dbCache
        /\ pool' = [pool EXCEPT ![r] = e]
        /\ age' = [age EXCEPT ![e] = 0]
  /\ init' = [init EXCEPT ![r] = NoInit]
  /\ UNCHANGED <<dbOf, available, checkedOut, waiters, closed, openDbs,
                 openConns, queryVars>>

-----------------------------------------------------------------------------
(* executeQuery and executeParameterized.                                   *)

\* A granted call starts with prepare (executeParameterized) or query.
FirstStage == {"prepare", "query"}

\* checkout, fast path.
CheckoutFast(q) ==
  /\ call[q] = "idle"
  /\ \E r \in Registered, stage \in FirstStage :
       LET e == pool[r] IN
       /\ \E c \in available[e] :
            /\ available' = [available EXCEPT ![e] = @ \ {c}]
            /\ onConn' = [onConn EXCEPT ![q] = c]
       /\ checkedOut' = [checkedOut EXCEPT ![e] = @ + 1]
       /\ age' = [age EXCEPT ![e] = 0]
       /\ onEntry' = [onEntry EXCEPT ![q] = e]
       /\ call' = [call EXCEPT ![q] = stage]
  /\ UNCHANGED <<pool, dbOf, waiters, closed, dbCache, openDbs, openConns, init>>

\* Mutant: the newest waiter is served first.
CheckoutJumpsQueue(q) ==
  /\ call[q] = "idle"
  /\ \E r \in Registered :
       LET e == pool[r] IN
       /\ available[e] = {}
       /\ checkedOut[e] >= Cardinality(Conns)
       /\ waiters' = [waiters EXCEPT ![e] = <<q>> \o @]
       /\ age' = [age EXCEPT ![e] = 0]
       /\ onEntry' = [onEntry EXCEPT ![q] = e]
  /\ call' = [call EXCEPT ![q] = "waiting"]
  /\ UNCHANGED <<pool, dbOf, available, checkedOut, closed, dbCache, openDbs,
                 openConns, init, onConn>>

\* checkout with nothing available and every connection checked out: join the
\* waiter queue.  With fewer connections than MAX_CONNS_PER_REPO the code throws
\* its "integrity error" instead; Conservation says that branch is dead.
CheckoutWaits(q) ==
  /\ call[q] = "idle"
  /\ \E r \in Registered :
       LET e == pool[r] IN
       /\ available[e] = {}
       /\ checkedOut[e] >= Cardinality(Conns)
       /\ waiters' = [waiters EXCEPT ![e] = Append(@, q)]
       /\ age' = [age EXCEPT ![e] = 0]
       /\ onEntry' = [onEntry EXCEPT ![q] = e]
  /\ call' = [call EXCEPT ![q] = "waiting"]
  /\ UNCHANGED <<pool, dbOf, available, checkedOut, closed, dbCache, openDbs,
                 openConns, init, onConn>>

\* checkin(entry, conn) by a call q that goes on to state `then`: close the
\* connection of a closed entry, hand it to the first waiter, or put it back.

\* Mutant: the connection of a closed entry is dropped, not closed.
CheckinDropped(q) ==
  /\ closed[onEntry[q]]
  /\ UNCHANGED <<available, checkedOut, waiters, openConns>>

CheckinClosed(q) ==
  /\ closed[onEntry[q]]
  /\ openConns' = openConns \ {<<onEntry[q], onConn[q]>>}
  /\ UNCHANGED <<available, checkedOut, waiters>>

\* Mutant: the counter is not decremented.
CheckinPutBackUncounted(q) ==
  LET e == onEntry[q] IN
  /\ ~closed[e] /\ waiters[e] = <<>>
  /\ available' = [available EXCEPT ![e] = @ \cup {onConn[q]}]
  /\ UNCHANGED <<openConns, waiters, checkedOut>>

CheckinPutBack(q) ==
  LET e == onEntry[q] IN
  /\ ~closed[e] /\ waiters[e] = <<>>
  /\ checkedOut' = [checkedOut EXCEPT ![e] = @ - 1]
  /\ available' = [available EXCEPT ![e] = @ \cup {onConn[q]}]
  /\ UNCHANGED <<openConns, waiters>>

Checkin(q, then) ==
  LET entryAfter == IF then = "idle" THEN None ELSE onEntry[q]
      connAfter == IF then = "idle" THEN None ELSE onConn[q]
  IN
  /\ \/ /\ CheckinClosed(q) \/ CheckinPutBack(q)
        /\ call' = [call EXCEPT ![q] = then]
        /\ onEntry' = [onEntry EXCEPT ![q] = entryAfter]
        /\ onConn' = [onConn EXCEPT ![q] = connAfter]
     \/ /\ ~closed[onEntry[q]] /\ waiters[onEntry[q]] # <<>>
        /\ waiters' = [waiters EXCEPT ![onEntry[q]] = Tail(@)]
        /\ \E stage \in FirstStage :
             call' = [call EXCEPT ![q] = then,
                                  ![Head(waiters[onEntry[q]])] = stage]
        /\ onEntry' = [onEntry EXCEPT ![q] = entryAfter]
        /\ onConn' = [onConn EXCEPT ![q] = connAfter,
                                    ![Head(waiters[onEntry[q]])] = onConn[q]]
        /\ UNCHANGED <<available, checkedOut, openConns>>
  /\ UNCHANGED <<pool, dbOf, closed, age, dbCache, openDbs, init>>

\* The awaited native operation completes and the next one starts.
Advance(q) ==
  /\ call[q] \in FirstStage
  /\ call' = [call EXCEPT ![q] = IF @ = "prepare" THEN "query" ELSE "fetch"]
  /\ UNCHANGED <<pool, entryVars, dbCache, openDbs, openConns, init, onEntry, onConn>>

\* The rows are read, or a native operation fails: the finally block.
Return(q) == call[q] \in Holding /\ Checkin(q, "idle")

\* withTimeout rejects: the finally block runs while the native operation does.
QueryTimesOut(q) ==
  /\ "query_timeout" \in Events
  /\ call[q] \in FirstStage
  /\ Checkin(q, "abandoned")

\* Mutant: the end of the native operation checks the connection in again.
AbandonedChecksInAgain(q) == call[q] = "abandoned" /\ Checkin(q, "idle")

AbandonedEnds(q) ==
  /\ call[q] = "abandoned"
  /\ call' = [call EXCEPT ![q] = "idle"]
  /\ onEntry' = [onEntry EXCEPT ![q] = None]
  /\ onConn' = [onConn EXCEPT ![q] = None]
  /\ UNCHANGED <<pool, entryVars, dbCache, openDbs, openConns, init>>

\* Mutant: splice(idx + 1, 1).
SpliceNext(s, i) == [j \in 1 .. Len(s) - 1 |-> IF j <= i THEN s[j] ELSE s[j + 1]]

\* indexOf, splice(idx, 1), reject.
Splice(s, i) == [j \in 1 .. Len(s) - 1 |-> IF j < i THEN s[j] ELSE s[j + 1]]

WaiterTimesOut(q) ==
  /\ "waiter_timeout" \in Events
  /\ call[q] = "waiting"
  /\ \E i \in 1 .. Len(waiters[onEntry[q]]) :
       /\ waiters[onEntry[q]][i] = q
       /\ waiters' = [waiters EXCEPT ![onEntry[q]] = Splice(@, i)]
  /\ call' = [call EXCEPT ![q] = "idle"]
  /\ onEntry' = [onEntry EXCEPT ![q] = None]
  /\ UNCHANGED <<pool, dbOf, available, checkedOut, closed, age, dbCache,
                 openDbs, openConns, init, onConn>>

-----------------------------------------------------------------------------
(* closeLbug and the idle sweep.                                            *)

Unregister(R) ==
  /\ R # {}
  /\ CloseRepos(R)
  /\ UNCHANGED <<dbOf, checkedOut, waiters, age, init, queryVars>>

CloseLbug(r) == "close" \in Events /\ r \in Registered /\ Unregister({r})
CloseAll == "close" \in Events /\ Unregister(Registered)

IdleSweep ==
  Unregister({r \in Registered :
                age[pool[r]] > IdleTimeout /\ checkedOut[pool[r]] = 0})

Tick ==
  /\ \E r \in Registered : age[pool[r]] < MaxAge
  /\ age' = [e \in Entries |->
               IF age[e] < MaxAge /\ Pooled(e) THEN age[e] + 1 ELSE age[e]]
  /\ UNCHANGED <<pool, dbOf, available, checkedOut, waiters, closed, dbCache,
                 openDbs, openConns, init, queryVars>>

-----------------------------------------------------------------------------
InitStep(r) == \/ InitThrows(r) \/ StatThenOpen(r) \/ StatThenShare(r)
               \/ OpenSucceeds(r) \/ OpenFindsCorruptWal(r)
               \/ OpenFindsLock(r) \/ RetryOpen(r) \/ FtsAnswers(r)

QueryStep(q) == \/ CheckoutFast(q) \/ CheckoutWaits(q)
                \/ Advance(q) \/ Return(q) \/ QueryTimesOut(q)
                \/ AbandonedEnds(q) \/ WaiterTimesOut(q)

Next == \/ \E r \in Repos : Touch(r) \/ InitCall(r) \/ InitStep(r) \/ CloseLbug(r)
        \/ \E q \in Queries : QueryStep(q)
        \/ CloseAll \/ IdleSweep \/ Tick

Spec == Init /\ [][Next]_vars

\* Promises settle: the file system, the native opens and the FTS load answer,
\* timers fire, and native queries end.
Fairness ==
  /\ \A r \in Repos : WF_vars(InitStep(r))
  /\ \A q \in Queries : WF_vars(Advance(q) \/ Return(q))
FairSpec == Spec /\ Fairness

-----------------------------------------------------------------------------
(* Properties.                                                              *)

SharedDbs == [db : Dbs \cup {None}, refCount : Int, ftsLoaded : BOOLEAN]
InitRecs == [pc : {"none", "stat", "open", "reopen", "delay", "fts"},
             attempt : 0 .. LockRetryAttempts, entry : Entries \cup {None}]

TypeOK ==
  /\ pool \in [Repos -> Entries \cup {None}]
  /\ dbOf \in [Entries -> Dbs \cup {None}]
  /\ available \in [Entries -> SUBSET Conns]
  /\ checkedOut \in [Entries -> Int]
  /\ waiters \in [Entries -> Seq(Queries)]
  /\ closed \in [Entries -> BOOLEAN]
  /\ age \in [Entries -> 0 .. MaxAge]
  /\ dbCache \in [Paths -> SharedDbs]
  /\ openDbs \subseteq Dbs
  /\ openConns \subseteq Entries \X Conns
  /\ init \in [Repos -> InitRecs]
  /\ \A r \in Repos : init[r].pc = "delay" => init[r].attempt < LockRetryAttempts
  /\ call \in [Queries -> CallStates]
  /\ onEntry \in [Queries -> Entries \cup {None}]
  /\ onConn \in [Queries -> Conns \cup {None}]

HeldBy(q, e, c) == call[q] \in Holding /\ onEntry[q] = e /\ onConn[q] = c
QueuedOnce(q, e) ==
  \E i \in 1 .. Len(waiters[e]) :
    waiters[e][i] = q /\ \A j \in 1 .. Len(waiters[e]) : waiters[e][j] = q => j = i

\* A registered entry always accounts for all its connections, whatever the
\* mix of hand-overs, timeouts and closes: checkout's "Connection pool
\* integrity error" is never thrown.
Conservation ==
  \A e \in Entries : Pooled(e) =>
    checkedOut[e] + Cardinality(available[e]) = Cardinality(Conns)

\* checkout and checkin give a connection to one call at a time: no two calls
\* that have not returned hold the same one, and none they hold is available.
ExclusiveCheckout ==
  \A q \in Queries : call[q] \in Holding =>
    /\ onConn[q] \notin available[onEntry[q]]
    /\ \A s \in Queries \ {q} : ~HeldBy(s, onEntry[q], onConn[q])

\* No lost wake-up: while a caller is queued on a registered entry, no
\* connection of the entry lies idle, and every queued caller is in the queue
\* exactly once.
NoIdleConnWhileWaiting ==
  \A q \in Queries, e \in Entries :
    call[q] = "waiting" /\ onEntry[q] = e =>
      /\ Pooled(e) => available[e] = {}
      /\ QueuedOnce(q, e)

\* No native connection leaks and none is used after close: the connections
\* open on an entry, registered or orphaned by a close, are exactly those it
\* has available and those held by calls that will check them in.
NoConnLeak ==
  \A e \in Entries, c \in Conns :
    <<e, c>> \in openConns <=> \/ Referenced(e) /\ c \in available[e]
                               \/ \E q \in Queries : HeldBy(q, e, c)

\* The reference count of a cached database is the number of repository ids
\* registered or about to be registered on its path, and every open native
\* database is in the cache (when initialisations of one path do not overlap).
RefCountExact ==
  /\ \A p \in Paths : dbCache[p].db # None =>
       dbCache[p].refCount = Cardinality({r \in Repos :
         LbugPath[r] = p /\ (pool[r] # None \/ init[r].pc = "fts")})
  /\ openDbs = {dbCache[p].db : p \in Paths} \ {None}

\* Eviction and the idle sweep never close the native database under a call
\* that has not returned, though ids share databases (when no caller uses
\* closeLbug and initialisations of one path do not overlap).
DbOpenWhileHeld ==
  \A q \in Queries : call[q] \in Holding => dbOf[onEntry[q]] \in openDbs

\* No starvation: lock retries are bounded, so an initialisation ends,
\* registered or rejected; and as long as native queries end and nobody closes
\* the entry, every queued caller is granted a connection, waiter timeouts aside.
NobodyStuck ==
  /\ \A r \in Repos : init[r].pc # "none" ~> init[r].pc = "none"
  /\ \A q \in Queries : call[q] = "waiting" ~> call[q] \in Holding

-----------------------------------------------------------------------------
(* What the comments of pool-adapter.ts promise.                            *)

\* "each concurrent query gets its own Connection": no two native operations
\* run on one connection at a time.
OneQueryPerConnection ==
  \A q, s \in Queries :
    /\ q # s
    /\ call[q] \in Holding \cup {"abandoned"}
    /\ call[s] \in Holding \cup {"abandoned"}
    => <<onEntry[q], onConn[q]>> # <<onEntry[s], onConn[s]>>

\* "Multiple repoIds pointing to the same path share one native Database".
OneDbPerPath ==
  \A r, s \in Registered :
    LbugPath[r] = LbugPath[s] => dbOf[pool[r]] = dbOf[pool[s]]

\* MAX_POOL_SIZE is the "Max repos in the pool".
PoolBounded == Cardinality(Registered) <= MaxPoolSize
=============================================================================
