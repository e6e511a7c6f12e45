------------------------------ MODULE McpRepos ------------------------------
(***************************************************************************)
(* The repositories of an MCP server (gitnexus/src/mcp/local/              *)
(* local-backend.ts, LocalBackend): tool calls resolve a repository in a   *)
(* map that is refreshed from the global registry on a miss and by         *)
(* list_repos, check now and then whether its index was rebuilt, open or   *)
(* reopen its connection pool, and query it.  Calls interleave at every    *)
(* await; `analyze` and `remove` run in other processes.                   *)
(*                                                                         *)
(* A repository is its path; a parameter that names it otherwise leads to  *)
(* one of the handles in the map.  An index is told apart by the number of *)
(* the analyze that wrote it (indexedAt); 0 means there is none.  The pool *)
(* of a repository id is what module ConnectionPool describes; here it is  *)
(* the database it is open on, which ids of one path share, and an opening *)
(* takes the steps between the awaits of pool-adapter.ts: an analyze may   *)
(* come in between, and a call may join.  A refresh takes the entries of   *)
(* the registry in any order, which covers that of the file.               *)
(***************************************************************************)
EXTENDS Naturals, FiniteSets

CONSTANTS
    Calls,       \* tool calls in progress
    Paths,       \* repositories
    Name,        \* their registry names
    Suffix,      \* the first six characters of base64url(path)
    NoSuffix,    \* no suffix
    Absent,      \* no handle, no pool
    MaxVersion,  \* bound: analyses of all repositories
    Events       \* which hazards of the environment are allowed

McpEvents == {"remove",    \* repositories are removed
              "list",      \* list_repos is called
              "overlap"}   \* two refreshes of the map overlap

ASSUME McpAssumption ==
    /\ Events \subseteq McpEvents
    /\ MaxVersion \in Nat \ {0}
    /\ DOMAIN Name = Paths /\ DOMAIN Suffix = Paths
    /\ \A p \in Paths : Suffix[p] # NoSuffix

Versions == 0 .. MaxVersion
Index == [path : Paths, version : Versions]     \* path and indexedAt

\* A handle is an object that calls hold while a refresh puts another into the
\* map: of the handles of one id the mark tells which it is.
Marks == 0 .. Cardinality(Calls)
Handle == [path : Paths, version : Versions, mark : Marks]

\* What an opening has got to: it looks for the file and for a database that is
\* open on it, opens one, shares it, and enters it into the pool.
Stages == {"stat", "init", "opened", "load"}
Opening == [path : Paths, stage : Stages, version : Versions]

\* A database of dbCache, and how many ids share it; none is one nobody shares.
Shared == [version : Versions, refs : Nat]
NotShared == [version |-> 0, refs |-> 0]

ASSUME AbsentAssumption ==
    \A h \in Index \union Handle \union Opening \union Paths \union Calls : h # Absent

Ids == {<<Name[p], s>> : p \in Paths, s \in {NoSuffix} \union {Suffix[q] : q \in Paths}}

VARIABLES
    clock,        \* analyses so far
    disk,         \* the index of each repository: lbug and meta.json
    registry,     \* registry.json: its entries
    repos,        \* LocalBackend.repos
    initialized,  \* initializedRepos
    throttled,    \* ids whose lastStalenessCheck is less than 5 s old
    reinit,       \* reinitPromises: for each id the call whose promise it is
    pool,         \* the pool adapter's pool: the database each id is open on
    cached,       \* dbCache: the database open on each path, and how many share it
    opening,      \* initPromises: how far the opening of each id is
    pc,           \* where each call is
    want,         \* the repository it asks for
    target,       \* the id it was resolved to
    handle,       \* the handle whose index it checks
    awaits,       \* the call whose reinitialisation it awaits
    todo,         \* refreshRepos: entries not looked at yet
    fresh,        \* refreshRepos: freshIds
    seen,         \* history: the index found by the staleness check, if any
    masked,       \* history: ids whose handle may be dated later than their pool
    removed       \* history: repositories that were removed

world == <<clock, disk, registry, removed>>
pools == <<pool, cached, opening, masked>>
server == <<repos, initialized, throttled, reinit, pools>>
locals == <<want, target, handle, awaits, todo, fresh, seen>>
vars == <<world, server, pc, locals>>

Labels == {"idle", "read", "apply", "retry", "ensure", "wait", "check", "reopen",
           "open", "query"}
NoId == <<NoSuffix, NoSuffix>>

TypeOK ==
    /\ clock \in Versions
    /\ disk \in [Paths -> Versions]
    /\ registry \subseteq Index
    /\ repos \in [Ids -> Handle \union {Absent}]
    /\ initialized \subseteq Ids /\ throttled \subseteq Ids
    /\ reinit \in [Ids -> Calls \union {Absent}]
    /\ pool \in [Ids -> Index \union {Absent}]
    /\ cached \in [Paths -> Shared]
    /\ opening \in [Ids -> Opening \union {Absent}]
    /\ pc \in [Calls -> Labels]
    /\ want \in [Calls -> Paths \union {Absent}]
    /\ target \in [Calls -> Ids \union {NoId}]
    /\ handle \in [Calls -> Handle \union {Absent}]
    /\ awaits \in [Calls -> Calls \union {Absent}]
    /\ todo \in [Calls -> SUBSET Index]
    /\ fresh \in [Calls -> SUBSET Ids]
    /\ seen \in [Calls -> Index \union {Absent}]
    /\ masked \subseteq Ids
    /\ removed \subseteq Paths

Init ==
    /\ clock = 0
    /\ disk = [p \in Paths |-> 0]
    /\ registry = {}
    /\ repos = [i \in Ids |-> Absent]
    /\ initialized = {} /\ throttled = {}
    /\ reinit = [i \in Ids |-> Absent]
    /\ pool = [i \in Ids |-> Absent]
    /\ cached = [p \in Paths |-> NotShared]
    /\ opening = [i \in Ids |-> Absent]
    /\ pc = [c \in Calls |-> "idle"]
    /\ want = [c \in Calls |-> Absent]
    /\ target = [c \in Calls |-> NoId]
    /\ handle = [c \in Calls |-> Absent]
    /\ awaits = [c \in Calls |-> Absent]
    /\ todo = [c \in Calls |-> {}]
    /\ fresh = [c \in Calls |-> {}]
    /\ seen = [c \in Calls |-> Absent]
    /\ masked = {}
    /\ removed = {}

Goto(c, to) == pc' = [pc EXCEPT ![c] = to]

(* The calls of S return, or throw. *)
EndAll(S) ==
    /\ pc' = [c \in Calls |-> IF c \in S THEN "idle" ELSE pc[c]]
    /\ want' = [c \in Calls |-> IF c \in S THEN Absent ELSE want[c]]
    /\ target' = [c \in Calls |-> IF c \in S THEN NoId ELSE target[c]]
    /\ handle' = [c \in Calls |-> IF c \in S THEN Absent ELSE handle[c]]
    /\ awaits' = [c \in Calls |-> IF c \in S THEN Absent ELSE awaits[c]]
    /\ todo' = [c \in Calls |-> IF c \in S THEN {} ELSE todo[c]]
    /\ fresh' = [c \in Calls |-> IF c \in S THEN {} ELSE fresh[c]]
    /\ seen' = [c \in Calls |-> IF c \in S THEN Absent ELSE seen[c]]

End(c) == EndAll({c})

----------------------------------------------------------------------------
(* Other processes: analyze writes the index and then registers it; remove  *)
(* deletes it and then unregisters it.                                       *)

\* Mutant: the index is dated later than the analysis.
AnalyzeLate(p) ==
    /\ clock < MaxVersion
    /\ clock' = clock + 1
    /\ disk' = [disk EXCEPT ![p] = clock' + 1]
    /\ UNCHANGED <<registry, removed, server, pc, locals>>

Analyze(p) ==
    /\ clock < MaxVersion
    /\ clock' = clock + 1
    /\ disk' = [disk EXCEPT ![p] = clock']
    /\ UNCHANGED <<registry, removed, server, pc, locals>>

Entries(p) == {e \in registry : e.path = p}

Register(p) ==
    LET entry == [path |-> p, version |-> disk[p]] IN
    /\ disk[p] # 0
    /\ entry \notin registry
    /\ registry' = (registry \ Entries(p)) \union {entry}
    /\ UNCHANGED <<clock, disk, removed, server, pc, locals>>

Remove(p) ==
    /\ "remove" \in Events
    /\ Entries(p) # {}
    /\ disk' = [disk EXCEPT ![p] = 0]
    /\ registry' = registry \ Entries(p)
    /\ removed' = removed \union {p}
    /\ UNCHANGED <<clock, server, pc, locals>>

----------------------------------------------------------------------------
(* resolveRepo                                                               *)

Hits(p) == {i \in Ids : repos[i] # Absent /\ repos[i].path = p}

Resolved(c, p, i) ==
    /\ want' = [want EXCEPT ![c] = p]
    /\ target' = [target EXCEPT ![c] = i]
    /\ Goto(c, "ensure")

Refresh(c) ==
    /\ (\E d \in Calls : pc[d] \in {"read", "apply"}) => "overlap" \in Events
    /\ Goto(c, "read")

Call(c, p) ==
    /\ pc[c] = "idle"
    /\ \/ \E i \in Hits(p) : Resolved(c, p, i)
       \/ /\ Hits(p) = {}
          /\ Refresh(c)
          /\ want' = [want EXCEPT ![c] = p]
          /\ UNCHANGED target
    /\ UNCHANGED <<world, server, handle, awaits, todo, fresh, seen>>

(* list_repos refreshes the map and looks at no database. *)
ListRepos(c) ==
    /\ "list" \in Events
    /\ pc[c] = "idle"
    /\ Refresh(c)
    /\ UNCHANGED <<world, server, locals>>

(* listRegisteredRepos({validate: true}) drops entries without an index. *)
ReadRegistry(c) ==
    /\ pc[c] = "read"
    /\ registry' = {e \in registry : disk[e.path] # 0}
    /\ todo' = [todo EXCEPT ![c] = registry']
    /\ fresh' = [fresh EXCEPT ![c] = {}]
    /\ Goto(c, "apply")
    /\ UNCHANGED <<clock, disk, removed, server, want, target, handle, awaits, seen>>

\* Mutant: repositories of one name share an id.
BareId(p) == <<Name[p], NoSuffix>>

(* The name, or, while another path has it, the name with a suffix. *)
RepoId(p) ==
    LET base == <<Name[p], NoSuffix>> IN
    IF repos[base] # Absent /\ repos[base].path # p THEN <<Name[p], Suffix[p]>> ELSE base

(* The database an id is open on, or is about to be. *)
Database(i) ==
    IF pool[i] # Absent THEN pool[i]
    ELSE IF opening[i] # Absent /\ opening[i].stage \in {"opened", "load"}
         THEN [path |-> opening[i].path, version |-> opening[i].version]
         ELSE Absent

NewerThan(e, d) == d # Absent /\ d.path = e.path /\ d.version < e.version

(* A new object: calls that look at the handle it replaces keep that one. *)
Unheld(i, m) == \A c \in Calls : handle[c] # Absent /\ target[c] = i => handle[c].mark # m

ApplyEntry(c) ==
    /\ pc[c] = "apply"
    /\ \E e \in todo[c], m \in Marks :
          LET i == RepoId(e.path) IN
          /\ Unheld(i, m) /\ (m # 0 => ~Unheld(i, 0))
          /\ repos' = [repos EXCEPT ![i] = [path |-> e.path, version |-> e.version, mark |-> m]]
          /\ fresh' = [fresh EXCEPT ![c] = @ \union {i}]
          /\ masked' = IF NewerThan(e, Database(i)) THEN masked \union {i} ELSE masked
          /\ todo' = [todo EXCEPT ![c] = @ \ {e}]
    /\ UNCHANGED <<world, initialized, throttled, reinit, pool, cached, opening, pc, want,
                   target, handle, awaits, seen>>

(* Ids that no entry has any more are dropped; their pools stay open. *)
Prune(c) ==
    /\ pc[c] = "apply"
    /\ todo[c] = {}
    /\ repos' = [i \in Ids |-> IF i \in fresh[c] THEN repos[i] ELSE Absent]
    /\ initialized' = initialized \ {i \in Ids : i \notin fresh[c] /\ repos[i] # Absent}
    /\ UNCHANGED <<world, throttled, reinit, pools>>
    /\ IF want[c] = Absent
       THEN End(c)
       ELSE /\ Goto(c, "retry")
            /\ fresh' = [fresh EXCEPT ![c] = {}]
            /\ UNCHANGED <<want, target, handle, awaits, todo, seen>>

Retry(c) ==
    /\ pc[c] = "retry"
    /\ \/ /\ \E i \in Hits(want[c]) : Resolved(c, want[c], i)
          /\ UNCHANGED <<handle, awaits, todo, fresh, seen>>
       \/ Hits(want[c]) = {} /\ End(c)
    /\ UNCHANGED <<world, server>>

----------------------------------------------------------------------------
(* ensureInitialized                                                         *)

Ready(i) == i \in initialized /\ pool[i] # Absent

(* initLbug: the pool of an id that has one is used, whatever it is open on;
   an opening that is under way is joined, whatever it has found. *)
InitLbug(c, i, p, isOpen, how) ==
    IF isOpen
    THEN Goto(c, "query") /\ UNCHANGED opening
    ELSE /\ Goto(c, how)
         /\ opening' = IF opening[i] # Absent THEN opening
                       ELSE [opening EXCEPT ![i] = [path |-> p, stage |-> "stat", version |-> 0]]

Ensure(c) ==
    LET i == target[c] IN
    /\ pc[c] = "ensure"
    /\ \/ /\ reinit[i] # Absent
          /\ awaits' = [awaits EXCEPT ![c] = reinit[i]]
          /\ Goto(c, "wait")
          /\ UNCHANGED <<initialized, throttled, opening, want, target, handle, todo, fresh, seen>>
       \/ /\ reinit[i] = Absent /\ repos[i] = Absent
          /\ End(c)
          /\ UNCHANGED <<initialized, throttled, opening>>
       \/ /\ reinit[i] = Absent /\ repos[i] # Absent /\ Ready(i)
          /\ IF i \in throttled
             THEN Goto(c, "query") /\ UNCHANGED handle
             ELSE Goto(c, "check") /\ handle' = [handle EXCEPT ![c] = repos[i]]
          /\ throttled' = throttled \union {i}
          /\ UNCHANGED <<initialized, opening, want, target, awaits, todo, fresh, seen>>
       \/ /\ reinit[i] = Absent /\ repos[i] # Absent /\ ~Ready(i)
          /\ InitLbug(c, i, repos[i].path, pool[i] # Absent, "open")
          /\ initialized' = IF pool[i] # Absent THEN initialized \union {i} ELSE initialized
          /\ UNCHANGED <<throttled, locals>>
    /\ UNCHANGED <<world, repos, reinit, pool, cached, masked>>

\* Mutant: the stale pool is not closed before it is opened again.
CloseNot(i) == UNCHANGED <<pool, cached>>

(* closeOne: the database is closed with the last pool that shares it.  The
   count is that of the database now cached for the path. *)
LessOne(d) == IF d.refs <= 1 THEN NotShared ELSE [version |-> d.version, refs |-> d.refs - 1]

Close(i) ==
    /\ pool' = [pool EXCEPT ![i] = Absent]
    /\ cached' = IF pool[i] = Absent THEN cached
                 ELSE [cached EXCEPT ![pool[i].path] = LessOne(cached[pool[i].path])]

(* The handle's indexedAt is set: for all that look at it, the map if it still
   has it. *)
SameHandle(h, c) == h # Absent /\ h.mark = handle[c].mark

Date(c, v) ==
    /\ repos' = [i \in Ids |-> IF i = target[c] /\ SameHandle(repos[i], c)
                               THEN [repos[i] EXCEPT !.version = v] ELSE repos[i]]
    /\ handle' = [d \in Calls |->
                    IF d = c THEN Absent
                    ELSE IF target[d] = target[c] /\ SameHandle(handle[d], c)
                         THEN [handle[d] EXCEPT !.version = v] ELSE handle[d]]

(* meta.json is read: the index may have been rebuilt since the pool was
   opened.  One that cannot be read is taken for current. *)
CheckStale(c) ==
    LET i == target[c]
        p == handle[c].path
        v == disk[p] IN
    /\ pc[c] = "check"
    /\ seen' = [seen EXCEPT ![c] = [path |-> p, version |-> v]]
    /\ IF v # 0 /\ v # handle[c].version
       THEN /\ Close(i)
            /\ initialized' = initialized \ {i}
            /\ Date(c, v)
            /\ reinit' = [reinit EXCEPT ![i] = c]
            /\ InitLbug(c, i, p, pool'[i] # Absent, "reopen")
            /\ masked' = IF pool[i] = Absent /\ Database(i) # Absent
                         THEN masked \union {i} ELSE masked
            /\ UNCHANGED throttled
       ELSE /\ Goto(c, "query")
            /\ handle' = [handle EXCEPT ![c] = Absent]
            /\ UNCHANGED server
    /\ UNCHANGED <<world, want, target, awaits, todo, fresh>>

----------------------------------------------------------------------------
(* doInitLbug: one for an id at a time                                       *)

Stage(i) == IF opening[i] = Absent THEN "none" ELSE opening[i].stage

(* The calls that wait for the opening, and those that wait for one of them. *)
Opener(c, i) == pc[c] \in {"open", "reopen"} /\ target[c] = i
Waiting(i) ==
    {c \in Calls : Opener(c, i) \/ (awaits[c] # Absent /\ Opener(awaits[c], i))}

(* The opening is over.  A reinitialisation deletes the promise of the id,
   whosever it is by now. *)
OpeningEnds(i) ==
    /\ opening' = [opening EXCEPT ![i] = Absent]
    /\ reinit' = IF \E c \in Calls : pc[c] = "reopen" /\ target[c] = i
                 THEN [reinit EXCEPT ![i] = Absent] ELSE reinit

OpenFails(i) ==
    /\ OpeningEnds(i)
    /\ initialized' = initialized \ {i}
    /\ EndAll(Waiting(i))
    /\ UNCHANGED <<pool, cached, masked>>

(* The database that another id has open on the path is shared, however old. *)
Look(i) ==
    LET p == opening[i].path
        shared == cached[p] IN
    /\ Stage(i) = "stat"
    /\ \/ disk[p] = 0 /\ OpenFails(i)
       \/ /\ disk[p] # 0 /\ shared.refs # 0
          /\ cached' = [cached EXCEPT ![p].refs = @ + 1]
          /\ opening' = [opening EXCEPT ![i].stage = "load", ![i].version = shared.version]
          /\ masked' = masked \union {i}
          /\ UNCHANGED <<pool, initialized, reinit, pc, locals>>
       \/ /\ disk[p] # 0 /\ shared.refs = 0
          /\ opening' = [opening EXCEPT ![i].stage = "init"]
          /\ UNCHANGED <<pool, cached, masked, initialized, reinit, pc, locals>>
    /\ UNCHANGED <<world, repos, throttled>>

(* The native open, after which there is no database, or it is locked, three
   times over. *)
OpenDatabase(i) ==
    LET p == opening[i].path IN
    /\ Stage(i) = "init"
    /\ \/ OpenFails(i)
       \/ /\ disk[p] # 0
          /\ opening' = [opening EXCEPT ![i].stage = "opened", ![i].version = disk[p]]
          /\ masked' = masked \ {i}
          /\ UNCHANGED <<pool, cached, initialized, reinit, pc, locals>>
    /\ UNCHANGED <<world, repos, throttled>>

(* The next to open the path shares this one, whoever else has opened it. *)
ShareDatabase(i) ==
    /\ Stage(i) = "opened"
    /\ cached' = [cached EXCEPT ![opening[i].path] =
                     [version |-> opening[i].version, refs |-> 1]]
    /\ opening' = [opening EXCEPT ![i].stage = "load"]
    /\ UNCHANGED <<world, repos, initialized, throttled, reinit, pool, masked, pc, locals>>

EnterPool(i) ==
    /\ Stage(i) = "load"
    /\ pool' = [pool EXCEPT ![i] = Database(i)]
    /\ OpeningEnds(i)
    /\ initialized' = initialized \union {i}
    /\ pc' = [c \in Calls |-> IF c \in Waiting(i) THEN "query" ELSE pc[c]]
    /\ awaits' = [c \in Calls |-> IF c \in Waiting(i) THEN Absent ELSE awaits[c]]
    /\ UNCHANGED <<world, repos, throttled, cached, masked, want, target, handle, todo,
                   fresh, seen>>

(* The query runs on the pool of the id, or fails when there is none. *)
Query(c) ==
    /\ pc[c] = "query"
    /\ End(c)
    /\ UNCHANGED <<world, server>>

----------------------------------------------------------------------------
(* Time                                                                      *)

ThrottleEnds(i) ==
    /\ i \in throttled
    /\ throttled' = throttled \ {i}
    /\ UNCHANGED <<world, repos, initialized, reinit, pools, pc, locals>>

(* Idle for five minutes, or evicted in favour of another repository. *)
PoolCloses(i) ==
    /\ pool[i] # Absent
    /\ Close(i)
    /\ UNCHANGED <<world, repos, initialized, throttled, reinit, opening, masked, pc, locals>>

----------------------------------------------------------------------------
CallStep(c) ==
    \/ ReadRegistry(c) \/ ApplyEntry(c) \/ Prune(c) \/ Retry(c)
    \/ Ensure(c) \/ CheckStale(c) \/ Query(c)

PoolStep(i) ==
    \/ Look(i) \/ OpenDatabase(i) \/ ShareDatabase(i) \/ EnterPool(i)
    \/ ThrottleEnds(i) \/ PoolCloses(i)

Next ==
    \/ \E p \in Paths : Analyze(p) \/ Register(p) \/ Remove(p)
    \/ \E c \in Calls : CallStep(c) \/ ListRepos(c) \/ \E p \in Paths : Call(c, p)
    \/ \E i \in Ids : PoolStep(i)

Spec == Init /\ [][Next]_vars

----------------------------------------------------------------------------
(* Properties                                                                *)

(* Of the repositories that stay, a tool call is answered from the database
   of the one it named, however the ids of repositories of one name are given
   out, kept and given back while other repositories come and go. *)
RightRepository ==
    \A c \in Calls :
        LET answering == pool[target[c]].path IN
        (pc[c] = "query" /\ pool[target[c]] # Absent /\ {answering, want[c]} \cap removed = {})
            => answering = want[c]

(* The same when repositories come and go. *)
AlwaysRightRepository ==
    \A c \in Calls : (pc[c] = "query" /\ pool[target[c]] # Absent)
                        => pool[target[c]].path = want[c]

(* A call that looked whether the index was rebuilt is not answered from an
   index of the repository it looked at older than the one it found, except on
   an id that, since it last opened the database itself, was refreshed to a
   later index than the one it is open on, reopened by joining an opening that
   had the database already, or given the database another id had open. *)
FreshAnswer ==
    \A c \in Calls :
        LET p == pool[target[c]] IN
        (pc[c] = "query" /\ seen[c] # Absent /\ p # Absent /\ target[c] \notin masked)
            => ~NewerThan(seen[c], p)

(* A refresh gives every repository of the registry an id of its own, as long
   as no other refresh runs into it. *)
OwnId ==
    [][\A c \in Calls : (pc[c] = "apply" /\ todo'[c] # todo[c]) => fresh'[c] # fresh[c]]_vars

(* A rebuilt index that was noticed is served, however its id came to be open. *)
RebuildServed ==
    \A c \in Calls :
        (pc[c] = "query" /\ seen[c] # Absent) => ~NewerThan(seen[c], pool[target[c]])
=============================================================================
