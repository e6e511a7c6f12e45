---------------------------- MODULE LbugSession ----------------------------
(***************************************************************************)
(* The LadybugDB session of a process (gitnexus/src/core/lbug/             *)
(* lbug-adapter.ts): one module-level connection, switched from database   *)
(* to database.  withLbugDb runs an operation under the session lock, a    *)
(* chain of promises, and repeats it when the database is busy; closeLbug, *)
(* which the server calls when a repository is deleted and at shutdown,    *)
(* closes the connection without the lock.                                 *)
(*                                                                         *)
(* Requests and closers interleave at every await.  A handle stands for a  *)
(* native Database and the Connection opened on it together.               *)
(***************************************************************************)
EXTENDS Naturals, Sequences

CONSTANTS
    Requests,         \* calls of withLbugDb
    Closers,          \* calls of closeLbug
    DbPaths,          \* databases
    Handles,          \* native handles
    None,
    LockRetries,      \* DB_LOCK_RETRY_ATTEMPTS
    MaxCloses         \* bound: calls of closeLbug

Procs == Requests \union Closers

ASSUME SessionAssumption ==
    /\ Requests \cap Closers = {}
    /\ None \notin Handles \union DbPaths \union Procs
    /\ LockRetries \in Nat \ {0} /\ MaxCloses \in Nat

VARIABLES
    conn,        \* conn: the handle it is a connection of
    db,          \* db: the handle it is a database of
    path,        \* currentDbPath
    fts,         \* ftsLoaded
    liveConns,   \* native connections not closed
    liveDbs,     \* native databases not closed
    pathOf,      \* the database a handle was opened on
    loaded,      \* handles the FTS extension is loaded on
    queue,       \* the promise chain behind sessionLock; its head has the lock
    pc,          \* where each call is
    want,        \* dbPath of the request
    attempt,     \* attempt of withLbugDb
    mine,        \* the handle the request opened, while it initialises it
    next,        \* where a call goes on when safeClose returns
    closes       \* calls of closeLbug so far

globals == <<conn, db, path, fts>>
native == <<liveConns, liveDbs, pathOf, loaded>>
request == <<want, attempt, mine>>
vars == <<globals, native, queue, pc, request, next, closes>>

Labels == {"idle", "lock", "flush", "conn", "db", "reset", "open", "schema", "fts",
           "run", "cleanup", "delay"}

TypeOK ==
    /\ conn \in Handles \union {None} /\ db \in Handles \union {None}
    /\ path \in DbPaths \union {None}
    /\ fts \in BOOLEAN
    /\ liveConns \subseteq Handles /\ liveDbs \subseteq Handles
    /\ pathOf \in [Handles -> DbPaths \union {None}]
    /\ loaded \subseteq Handles
    /\ queue \in Seq(Requests)
    /\ pc \in [Procs -> Labels]
    /\ want \in [Requests -> DbPaths \union {None}]
    /\ attempt \in [Requests -> 0 .. LockRetries]
    /\ mine \in [Requests -> Handles \union {None}]
    /\ next \in [Procs -> {"idle", "open", "delay"}]
    /\ closes \in 0 .. MaxCloses

Init ==
    /\ conn = None /\ db = None /\ path = None /\ fts = FALSE
    /\ liveConns = {} /\ liveDbs = {}
    /\ pathOf = [h \in Handles |-> None]
    /\ loaded = {}
    /\ queue = <<>>
    /\ pc = [p \in Procs |-> "idle"]
    /\ want = [r \in Requests |-> None]
    /\ attempt = [r \in Requests |-> 0]
    /\ mine = [r \in Requests |-> None]
    /\ next = [p \in Procs |-> "idle"]
    /\ closes = 0

Goto(p, label) == pc' = [pc EXCEPT ![p] = label]

----------------------------------------------------------------------------
(* runWithSessionLock                                                        *)

Enqueue(r) == queue' = Append(queue, r)

\* Mutant: the promise of the call before is not awaited.
HoldsAtOnce(r) == TRUE

Holds(r) == queue # <<>> /\ Head(queue) = r

\* Mutant: the lock is released when the operation succeeds only.
ReleaseUnlessThrown(r) == queue' = IF pc[r] = "run" THEN Tail(queue) ELSE queue

Release(r) == queue' = Tail(queue)

(* The request is answered, or fails. *)
Finish(r) ==
    /\ Goto(r, "idle")
    /\ want' = [want EXCEPT ![r] = None]
    /\ attempt' = [attempt EXCEPT ![r] = 0]
    /\ mine' = [mine EXCEPT ![r] = None]
    /\ Release(r)

----------------------------------------------------------------------------
(* safeClose: each handle is closed, awaited and forgotten; what is forgotten *)
(* is what the variable holds by then.                                        *)

SafeClose(p, then) ==
    /\ Goto(p, "flush")
    /\ next' = [next EXCEPT ![p] = then]

\* Mutant: the connection is closed, its database is not.
CloseConnOnly(p) == UNCHANGED liveDbs /\ Goto(p, "reset")

CloseDb(p) ==
    IF db # None
    THEN liveDbs' = liveDbs \ {db} /\ Goto(p, "db")
    ELSE UNCHANGED liveDbs /\ Goto(p, "reset")

(* The checkpoint is done, or was skipped. *)
Flushed(p) ==
    /\ pc[p] = "flush"
    /\ IF conn # None
       THEN /\ liveConns' = liveConns \ {conn}
            /\ Goto(p, "conn")
            /\ UNCHANGED liveDbs
       ELSE CloseDb(p) /\ UNCHANGED liveConns
    /\ UNCHANGED <<globals, pathOf, loaded, queue, request, next, closes>>

ConnClosed(p) ==
    /\ pc[p] = "conn"
    /\ conn' = None
    /\ CloseDb(p)
    /\ UNCHANGED <<db, path, fts, liveConns, pathOf, loaded, queue, request, next, closes>>

DbClosed(p) ==
    /\ pc[p] = "db"
    /\ db' = None
    /\ Goto(p, "reset")
    /\ UNCHANGED <<conn, path, fts, native, queue, request, next, closes>>

(* The statements that follow every safeClose. *)
Forget == path' = None /\ fts' = FALSE

Reset(p) ==
    /\ pc[p] = "reset"
    /\ Forget
    /\ Goto(p, next[p])
    /\ next' = [next EXCEPT ![p] = "idle"]
    /\ IF next[p] = "delay" THEN Release(p) ELSE UNCHANGED queue
    /\ UNCHANGED <<conn, db, native, request, closes>>

CloseStep(p) == Flushed(p) \/ ConnClosed(p) \/ DbClosed(p) \/ Reset(p)

----------------------------------------------------------------------------
(* withLbugDb                                                                *)

Ask(r, p) ==
    /\ pc[r] = "idle"
    /\ want' = [want EXCEPT ![r] = p]
    /\ attempt' = [attempt EXCEPT ![r] = 1]
    /\ Goto(r, "lock")
    /\ Enqueue(r)
    /\ UNCHANGED <<globals, native, mine, next, closes>>

\* Mutant: any connection will do.
CurrentIfAny(p) == conn # None

Current(p) == conn # None /\ path = p

(* ensureLbugInitialized: the connection is there, or the one that is there is
   closed first. *)
Acquire(r) ==
    /\ pc[r] = "lock"
    /\ Holds(r)
    /\ IF Current(want[r]) THEN Goto(r, "run") /\ UNCHANGED next
       ELSE IF conn # None \/ db # None THEN SafeClose(r, "open")
       ELSE Goto(r, "open") /\ UNCHANGED next
    /\ UNCHANGED <<globals, native, queue, request, closes>>

Free == Handles \ (liveConns \union liveDbs \union {conn, db}
                       \union {mine[r] : r \in Requests})

(* A path that cannot be opened, or not after OPEN_LOCK_RETRY_ATTEMPTS, is not
   tried again by this request. *)
Open(r) ==
    /\ pc[r] = "open"
    /\ \/ /\ \E h \in Free :
                /\ conn' = h /\ db' = h
                /\ liveConns' = liveConns \union {h}
                /\ liveDbs' = liveDbs \union {h}
                /\ pathOf' = [pathOf EXCEPT ![h] = want[r]]
                /\ loaded' = loaded \ {h}
                /\ mine' = [mine EXCEPT ![r] = h]
          /\ Goto(r, "schema")
          /\ UNCHANGED <<path, fts, queue, want, attempt>>
       \/ Finish(r) /\ UNCHANGED <<globals, native>>
    /\ UNCHANGED <<next, closes>>

Initialized(r) ==
    /\ path' = want[r]
    /\ mine' = [mine EXCEPT ![r] = None]
    /\ Goto(r, "run")

(* Errors of the schema queries are only logged; loadFTSExtension throws when
   there is no connection, and does nothing when the flag says it is loaded. *)
Schema(r) ==
    /\ pc[r] = "schema"
    /\ \/ fts /\ Initialized(r) /\ UNCHANGED <<queue, want, attempt>>
       \/ ~fts /\ conn = None /\ Finish(r) /\ UNCHANGED path
       \/ ~fts /\ conn # None /\ Goto(r, "fts") /\ UNCHANGED <<path, queue, request>>
    /\ UNCHANGED <<conn, db, fts, native, next, closes>>

(* The extension is loaded on the connection there was when it began, or it is
   unavailable. *)
FtsAnswers(r) ==
    /\ pc[r] = "fts"
    /\ \/ mine[r] \in liveConns /\ loaded' = loaded \union {mine[r]} /\ fts' = TRUE
       \/ UNCHANGED <<loaded, fts>>
    /\ Initialized(r)
    /\ UNCHANGED <<conn, db, liveConns, liveDbs, pathOf, queue, want, attempt, next, closes>>

(* Queries are answered, or throw; without a live connection they throw. *)
OperationEnds(r) ==
    /\ pc[r] = "run"
    /\ Finish(r)
    /\ UNCHANGED <<globals, native, next, closes>>

Usable == conn \in liveConns \cap liveDbs

(* A query finds the database busy: the lock is released, and taken again to
   close the connection, unless this was the last attempt. *)
Busy(r) ==
    /\ pc[r] = "run" /\ Usable
    /\ attempt[r] < LockRetries
    /\ queue' = Append(Tail(queue), r)
    /\ Goto(r, "cleanup")
    /\ UNCHANGED <<globals, native, request, next, closes>>

Cleanup(r) ==
    /\ pc[r] = "cleanup"
    /\ Holds(r)
    /\ SafeClose(r, "delay")
    /\ UNCHANGED <<globals, native, queue, request, closes>>

Retry(r) ==
    /\ pc[r] = "delay"
    /\ attempt' = [attempt EXCEPT ![r] = @ + 1]
    /\ Goto(r, "lock")
    /\ Enqueue(r)
    /\ UNCHANGED <<globals, native, want, mine, next, closes>>

----------------------------------------------------------------------------
(* closeLbug                                                                 *)

CloseLbug(c) ==
    /\ pc[c] = "idle"
    /\ closes < MaxCloses
    /\ closes' = closes + 1
    /\ SafeClose(c, "idle")
    /\ UNCHANGED <<globals, native, queue, request>>

----------------------------------------------------------------------------
Step(r) ==
    \/ Acquire(r) \/ Open(r) \/ Schema(r) \/ FtsAnswers(r) \/ OperationEnds(r)
    \/ Cleanup(r) \/ Retry(r)

Next ==
    \/ \E r \in Requests : Step(r) \/ Busy(r) \/ \E p \in DbPaths : Ask(r, p)
    \/ \E p \in Procs : CloseStep(p)
    \/ \E c \in Closers : CloseLbug(c)

Spec == Init /\ [][Next]_vars

(* Native calls answer, operations end, and timers fire. *)
FairSpec ==
    /\ Spec
    /\ \A r \in Requests : WF_vars(Step(r))
    /\ \A p \in Procs : WF_vars(CloseStep(p))

----------------------------------------------------------------------------
(* Properties                                                                *)

(* An operation that has a connection has one to the database it asked for,
   whoever closes and reopens it in between: no request is answered from the
   database of another. *)
RightDatabase ==
    \A r \in Requests : (pc[r] = "run" /\ conn # None) => pathOf[conn] = want[r]

(* While the operation of a request runs, its connection stays open and the
   extension flag says what is loaded on it, unless closeLbug was called. *)
SessionIntact ==
    \A r \in Requests :
        (pc[r] = "run" /\ closes = 0) => Usable /\ path = want[r] /\ (fts => conn \in loaded)

(* However closeLbug and a switch of databases run into each other, when the
   closing is over no dead connection is left for later requests to run on; and
   unless closeLbug was called, no native database stays open unreferenced,
   holding its file lock. *)
HandlesSane ==
    /\ (\A p \in Procs : pc[p] \notin {"flush", "conn", "db"}) => (conn # None => Usable)
    /\ closes = 0 => liveDbs \subseteq {db}

(* A request ends: the lock comes round, busy databases are given up on, and
   an error in the middle blocks nobody behind. *)
RequestEnds == \A r \in Requests : pc[r] # "idle" ~> pc[r] = "idle"

----------------------------------------------------------------------------
(* What the comments say of the lock, with closeLbug calls about.            *)

(* "no DB switch can happen while an operation is running" *)
SessionUndisturbed == \A r \in Requests : pc[r] = "run" => Usable

(* "closeLbug: safeClose + module state reset (full teardown)" *)
NothingLeaked ==
    (\A p \in Procs : pc[p] \in {"idle", "lock"}) => liveDbs \subseteq {db}
=============================================================================
