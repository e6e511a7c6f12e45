----------------------------- MODULE AnalyzeRun -----------------------------
(***************************************************************************)
(* One `gitnexus analyze` of a repository (gitnexus/src/core/              *)
(* run-analyze.ts, runFullAnalysis): the run reads meta.json, decides that *)
(* the index is up to date, or parses every file, and then either rewrites *)
(* the rows of the changed files under a dirty flag in meta.json or wipes  *)
(* the database and loads it whole; embeddings are carried over or         *)
(* generated; meta.json is replaced and the repository registered.         *)
(*                                                                         *)
(* The state on disk survives an aborted run, which may stop between any   *)
(* two steps: an error thrown, a signal, a crash.  Users edit and commit   *)
(* between runs and, with "edit" in Events, during one.                    *)
(*                                                                         *)
(* A file's content, its database rows, its hash and the vector computed   *)
(* from it are told apart by a version number only; 0 means there is none. *)
(* A missing database is an empty one: every open of a run creates it.     *)
(***************************************************************************)
EXTENDS Naturals, FiniteSets

CONSTANTS
    Files,       \* its files
    MaxVersion,  \* bound: versions of a file's content
    MaxAborts,   \* bound: runs that do not reach their end
    MaxEdits,    \* bound: changes to the working tree
    Options,     \* option combinations the users pass
    Events,      \* which hazards of the environment a run allows
    NoMeta       \* no readable meta.json

OptionSet == [force : BOOLEAN, embeddings : BOOLEAN, drop : BOOLEAN, fast : BOOLEAN]

AnalyzeEvents == {"edit",        \* files change while a run is in progress
                  "cache_fail",  \* the embeddings of the old index cannot be read
                  "restore_fail", \* a batch of cached vectors cannot be inserted
                  "dims",        \* the embedding model has other dimensions now
                  "cap"}         \* the graph exceeds the embedding node limit

ASSUME AnalyzeAssumption ==
    /\ MaxVersion \in Nat \ {0}
    /\ MaxAborts \in Nat
    /\ MaxEdits \in Nat
    /\ Options \subseteq OptionSet
    /\ Events \subseteq AnalyzeEvents

Versions == 0 .. MaxVersion
Snapshot == [Files -> Versions]
Nothing == [f \in Files |-> 0]

(* netcoreFast stores '' as every file's hash: a value no content has. *)
Blank == MaxVersion + 1

Meta == [commit : Snapshot,                   \* lastCommit, by its content
         hashes : [Files -> 0 .. Blank],      \* fileHashes
         dirty : BOOLEAN,                     \* incrementalInProgress
         embedded : BOOLEAN]                  \* stats.embeddings > 0

ASSUME NoMetaAssumption == NoMeta \notin Meta

VARIABLES
    work,        \* the working tree
    edits,       \* changes made to it so far
    head,        \* the commit HEAD names, by its content
    meta,        \* .gitnexus/meta.json
    rows,        \* the database: the version each file's rows were made from
    shared,      \* the database: the snapshot communities and processes were made from
    emb,         \* the database: the version each file's vector was made from
    registered,  \* registry.json has an entry for the repository
    pc,          \* where the run is; "idle" between runs
    opts,        \* its options, force after the dirty flag was looked at
    commit,      \* currentCommit
    base,        \* existingMeta
    cache,       \* cachedEmbeddings
    graph,       \* the snapshot the pipeline parsed
    hashes,      \* newFileHashes
    write,       \* effectiveWriteSet
    aborts,      \* runs aborted so far
    spoiled,     \* history: the database was left to differ from meta.json
    found,       \* history: the vectors the run read from the old index
    unrestored   \* history: files left without a vector by a failed batch

tree == <<work, edits, head>>
db == <<rows, shared, emb>>
disk == <<meta, db, registered>>
vectors == <<cache, found, unrestored>>
local == <<opts, commit, base, vectors, graph, hashes, write>>
vars == <<tree, disk, pc, local, aborts, spoiled>>

Phases == {"idle", "cache", "pipeline", "plan", "open", "delete", "load",
           "restore", "embed", "save", "register"}

NoSnapshot == [f \in Files |-> Blank]

TypeOK ==
    /\ work \in Snapshot /\ head \in Snapshot
    /\ edits \in 0 .. MaxEdits
    /\ meta \in Meta \union {NoMeta}
    /\ rows \in Snapshot /\ emb \in Snapshot
    /\ shared \in Snapshot \union {NoSnapshot}
    /\ registered \in BOOLEAN
    /\ pc \in Phases
    /\ opts \in OptionSet
    /\ commit \in Snapshot
    /\ base \in Meta \union {NoMeta}
    /\ cache \in Snapshot
    /\ graph \in Snapshot
    /\ hashes \in Snapshot
    /\ write \in SUBSET Files
    /\ aborts \in 0 .. MaxAborts
    /\ spoiled \in BOOLEAN
    /\ found \in Snapshot
    /\ unrestored \in SUBSET Files

Plain == [force |-> FALSE, embeddings |-> FALSE, drop |-> FALSE, fast |-> FALSE]

Init ==
    /\ work \in Snapshot /\ head = work
    /\ edits = 0
    /\ meta = NoMeta
    /\ rows = Nothing /\ shared = NoSnapshot /\ emb = Nothing
    /\ registered = FALSE
    /\ pc = "idle"
    /\ opts = Plain
    /\ commit = Nothing
    /\ base = NoMeta
    /\ cache = Nothing
    /\ graph = Nothing
    /\ hashes = Nothing
    /\ write = {}
    /\ aborts = 0
    /\ spoiled = FALSE
    /\ found = Nothing
    /\ unrestored = {}

----------------------------------------------------------------------------
(* What a run decides from its options and the metadata it found            *)

\* Mutant: the dirty flag is not looked at.
ForcedByUser(o, m) == o.force

(* A dirty flag left behind turns the run into a forced one. *)
Forced(o, m) == o.force \/ (m # NoMeta /\ m.dirty)

UpToDate(o, m) ==
    /\ m # NoMeta
    /\ ~Forced(o, m)
    /\ m.commit = head
    /\ work = head              \* git status --porcelain is empty

(* deriveEmbeddingMode *)
HasExisting == base # NoMeta /\ base.embedded
ForceRegenerate ==
    opts.force /\ ~opts.embeddings /\ ~opts.drop /\ HasExisting
Preserve ==
    ~opts.embeddings /\ ~opts.drop /\ ~ForceRegenerate /\ HasExisting
Generate == opts.embeddings \/ ForceRegenerate
LoadsCache ==
    ~opts.drop /\ (Generate \/ Preserve) /\ base # NoMeta

(* The hashes of the files the pipeline saw, as they are on disk when they
   are computed; a file that has gone by then is omitted. *)
HashesNow == [f \in Files |-> IF graph[f] = 0 THEN 0 ELSE work[f]]

Incremental ==
    /\ ~opts.force
    /\ base # NoMeta
    /\ \E f \in Files : base.hashes[f] # 0
    /\ \E f \in Files : graph[f] # 0

(* diffFileHashes *)
ToWrite == {f \in Files : hashes[f] # 0 /\ hashes[f] # base.hashes[f]}
Deleted == {f \in Files : hashes[f] = 0 /\ base.hashes[f] # 0}

Goto(label) == pc' = label

(* The locals of runFullAnalysis end with it. *)
Return ==
    /\ Goto("idle")
    /\ opts' = Plain
    /\ base' = NoMeta
    /\ commit' = Nothing
    /\ cache' = Nothing
    /\ graph' = Nothing
    /\ hashes' = Nothing
    /\ write' = {}
    /\ found' = Nothing
    /\ unrestored' = {}

----------------------------------------------------------------------------
(* The run                                                                  *)

(* An index that is up to date is left alone: that run is a stuttering step. *)
Start(o) ==
    /\ pc = "idle"
    /\ ~UpToDate(o, meta)
    /\ opts' = [o EXCEPT !.force = Forced(o, meta)]
    /\ base' = meta
    /\ commit' = head
    /\ Goto("cache")
    /\ UNCHANGED <<tree, disk, vectors, graph, hashes, write, aborts, spoiled>>

(* The vectors of the old index are read into memory; a database that cannot
   be opened counts as one without vectors. *)
CacheEmbeddings ==
    /\ pc = "cache"
    /\ Goto("pipeline")
    /\ \/ /\ LoadsCache
          /\ cache' = emb
          /\ found' = emb
       \/ /\ LoadsCache => "cache_fail" \in Events
          /\ UNCHANGED <<cache, found>>
    /\ UNCHANGED <<tree, disk, opts, commit, base, unrestored, graph, hashes, write,
                   aborts, spoiled>>

Pipeline ==
    /\ pc = "pipeline"
    /\ graph' = work
    /\ Goto(IF opts.fast THEN "save" ELSE "plan")
    /\ UNCHANGED <<tree, disk, opts, commit, base, vectors, hashes, write,
                   aborts, spoiled>>

MarkDirty(m) == [m EXCEPT !.dirty = TRUE]

(* The hashes decide between the two ways to write.  The incremental one
   first puts the dirty flag into meta.json; the full one removes the
   database, from under whoever has it open, and leaves meta.json alone. *)
Plan ==
    /\ pc = "plan"
    /\ hashes' = HashesNow
    /\ Goto("open")
    /\ IF Incremental
       THEN /\ meta' = MarkDirty(base)
            /\ UNCHANGED <<db, spoiled>>
       ELSE /\ rows' = Nothing /\ shared' = NoSnapshot /\ emb' = Nothing
            /\ spoiled' = TRUE
            /\ UNCHANGED meta
    /\ UNCHANGED <<tree, registered, opts, commit, base, vectors, graph, write, aborts>>

(* initLbug; a database held by another process makes the run fail here. *)
Open ==
    /\ pc = "open"
    /\ Goto(IF Incremental THEN "delete" ELSE "load")
    /\ UNCHANGED <<tree, disk, local, aborts, spoiled>>

(* The write set is the changed files and any file an import or an edge of
   the new graph draws in.  deleteNodesForFile looks for vectors whose nodeId
   starts with the path, and a nodeId starts with its label: none is removed. *)
DeleteRows(drawnIn) ==
    /\ pc = "delete"
    /\ write' = ToWrite \union drawnIn
    /\ rows' = [f \in Files |-> IF f \in write' \union Deleted THEN 0 ELSE rows[f]]
    /\ shared' = NoSnapshot
    /\ Goto("load")
    /\ UNCHANGED <<tree, meta, emb, registered, opts, commit, base, vectors, graph,
                   hashes, aborts, spoiled>>

(* loadGraphToLbug of the changed subgraph, or of the whole graph *)
LoadRows ==
    /\ pc = "load"
    /\ rows' = [f \in Files |->
                  IF Incremental /\ f \notin write THEN rows[f] ELSE graph[f]]
    /\ shared' = graph
    /\ Goto("restore")
    /\ UNCHANGED <<tree, meta, emb, registered, local, aborts, spoiled>>

\* Mutant: only incremental runs restore.
RestoredIncrementally(failed) ==
    [f \in Files |-> IF Incremental /\ emb[f] = 0 /\ f \notin failed THEN cache[f] ELSE emb[f]]

(* The database once the cached vectors are inserted again, those of the
   failed files excepted. *)
Restored(failed) ==
    [f \in Files |-> IF emb[f] = 0 /\ f \notin failed THEN cache[f] ELSE emb[f]]

(* The insertion stops at the first row that fails and the rest of its batch
   is dropped without a word, be it for a key that is there already or for
   any other reason. *)
Absent == {f \in Files : cache[f] # 0 /\ emb[f] = 0}
BatchMayFail ==
    "restore_fail" \in Events \/ \E f \in Files : cache[f] # 0 /\ emb[f] # 0

(* Vectors of other dimensions than the model's are discarded, the cached ids
   with them, and nothing is put back.  A file counts as failed when a vector
   of one of its nodes is. *)
RestoreEmbeddings ==
    /\ pc = "restore"
    /\ \/ \E failed \in SUBSET Absent :
             /\ failed # {} => BatchMayFail
             /\ emb' = Restored(failed)
             /\ unrestored' = failed
             /\ UNCHANGED <<cache, found>>
       \/ /\ "dims" \in Events
          /\ cache # Nothing
          /\ cache' = Nothing
          /\ UNCHANGED <<emb, found, unrestored>>
    /\ Goto("embed")
    /\ UNCHANGED <<tree, meta, rows, shared, registered, opts, commit, base, graph,
                   hashes, write, aborts, spoiled>>

\* Mutant: a node with any cached vector is skipped.
ToEmbedNew == {f \in Files : rows[f] # 0 /\ cache[f] = 0}

(* runEmbeddingPipeline: a node whose cached hash is current is skipped, one
   with an older hash is deleted first, and one that is not in the cache is
   inserted, which fails when the database has a vector for it after all.
   Whether a cached vector came back to the database is not looked at. *)
ToEmbed == {f \in Files : rows[f] # 0 /\ cache[f] # rows[f]}
Conflicts == {f \in ToEmbed : cache[f] = 0 /\ emb[f] # 0}

StoreVectors(S) ==
    emb' = [f \in Files |-> IF f \in S THEN rows[f] ELSE emb[f]]

Embeds == Generate /\ "cap" \notin Events

GenerateEmbeddings ==
    /\ pc = "embed"
    /\ Goto("save")
    /\ \/ /\ Generate
          /\ Conflicts = {}
          /\ StoreVectors(ToEmbed)
       \/ /\ Generate => "cap" \in Events
          /\ UNCHANGED emb
    /\ UNCHANGED <<tree, meta, rows, shared, registered, local, aborts, spoiled>>

(* the count of CodeEmbedding rows in the end *)
Embedded == \E f \in Files : emb[f] # 0

\* Mutant: the metadata found at the start is spread, dirty flag and all.
CarriedMeta ==
    [commit |-> commit, hashes |-> hashes,
     dirty |-> base # NoMeta /\ base.dirty, embedded |-> Embedded]

CompleteMeta ==
    [commit |-> commit, hashes |-> hashes, dirty |-> FALSE, embedded |-> Embedded]

FastMeta ==
    [commit |-> commit,
     hashes |-> [f \in Files |-> IF graph[f] = 0 THEN 0 ELSE Blank],
     dirty |-> FALSE, embedded |-> FALSE]

(* A run that embedded and has no vector to show for it throws. *)
NothingPersisted ==
    ~opts.fast /\ Embeds /\ ~Embedded /\ \E f \in Files : rows[f] # 0

(* meta.json is replaced by a rename.  The fast run never opened the
   database and claims it current all the same. *)
SaveMeta ==
    /\ pc = "save"
    /\ ~NothingPersisted
    /\ IF opts.fast
       THEN /\ meta' = FastMeta
            /\ spoiled' = (spoiled \/ \E f \in Files : rows[f] # 0 /\ graph[f] = 0)
       ELSE /\ meta' = CompleteMeta
            /\ spoiled' = (graph # hashes \/ (Incremental /\ spoiled))
    /\ Goto("register")
    /\ UNCHANGED <<tree, db, registered, local, aborts>>

Register ==
    /\ pc = "register"
    /\ registered' = TRUE
    /\ Return
    /\ UNCHANGED <<tree, meta, db, aborts, spoiled>>

(* Where the work of a step is cut short, some part S of it is done. *)
PartlyDone(S) ==
    CASE pc = "delete" ->
            /\ rows' = [f \in Files |->
                          IF f \in S \intersect (ToWrite \union Deleted) THEN 0
                          ELSE rows[f]]
            /\ shared' \in {shared, NoSnapshot}
            /\ UNCHANGED emb
      [] pc = "load" ->
            /\ rows' = [f \in Files |->
                          IF f \in S /\ (Incremental => f \in write) THEN graph[f]
                          ELSE rows[f]]
            /\ UNCHANGED <<shared, emb>>
      [] pc = "restore" ->
            /\ emb' = Restored(Files \ S)
            /\ UNCHANGED <<rows, shared>>
      [] pc = "embed" /\ Generate ->
            /\ emb' = [f \in Files |->
                         IF f \notin ToEmbed \/ f \in Conflicts THEN emb[f]
                         ELSE IF f \in S THEN rows[f]
                         ELSE IF cache[f] # 0 THEN 0 ELSE emb[f]]
            /\ UNCHANGED <<rows, shared>>
      [] OTHER -> S = {} /\ UNCHANGED db

(* The process ends, or throws and closes the database. *)
Stop ==
    /\ Return
    /\ UNCHANGED <<tree, meta, registered, spoiled>>

Abort ==
    /\ pc # "idle"
    /\ aborts < MaxAborts
    /\ aborts' = aborts + 1
    /\ \E S \in SUBSET Files : PartlyDone(S)
    /\ Stop

EmbeddingFails ==
    /\ pc = "embed"
    /\ Embeds
    /\ Conflicts # {}
    /\ \E S \in SUBSET Files : PartlyDone(S)
    /\ Stop
    /\ UNCHANGED aborts

EmbeddingLost ==
    /\ pc = "save"
    /\ NothingPersisted
    /\ Stop
    /\ UNCHANGED <<db, aborts>>

----------------------------------------------------------------------------
(* The user                                                                 *)

Quiet == pc = "idle"

Edit(f, v) ==
    /\ Quiet \/ "edit" \in Events
    /\ work[f] # v
    /\ edits < MaxEdits
    /\ edits' = edits + 1
    /\ work' = [work EXCEPT ![f] = v]
    /\ UNCHANGED <<head, disk, pc, local, aborts, spoiled>>

Commit ==
    /\ Quiet \/ "edit" \in Events
    /\ head # work
    /\ head' = work
    /\ UNCHANGED <<work, edits, disk, pc, local, aborts, spoiled>>

----------------------------------------------------------------------------
Step ==
    \/ CacheEmbeddings \/ Pipeline \/ Plan \/ Open
    \/ \E drawnIn \in SUBSET Files : DeleteRows(drawnIn)
    \/ LoadRows \/ RestoreEmbeddings
    \/ GenerateEmbeddings \/ EmbeddingFails \/ EmbeddingLost
    \/ SaveMeta \/ Register

Run == \E o \in Options : Start(o)

Next ==
    \/ Step \/ Run \/ Abort
    \/ \E f \in Files, v \in Versions : Edit(f, v)
    \/ Commit

Spec == Init /\ [][Next]_vars

(* A run goes on until it ends, and analyze is run again where the index is
   not up to date (the hooks and the agents' instructions ask for it). *)
LiveSpec ==
    /\ Spec
    /\ WF_vars(Step)
    /\ WF_vars(Run)

----------------------------------------------------------------------------
(* Properties                                                               *)

(* What meta.json says of the file rows is so: every file has the rows of the
   content that was hashed, and communities and processes were computed from
   the same snapshot.  A fast run's metadata only says which files there are. *)
Agrees(m) ==
    /\ \A f \in Files : m.hashes[f] # Blank => rows[f] = m.hashes[f]
    /\ (\E f \in Files : m.hashes[f] \notin {0, Blank}) => shared = m.hashes

(* The dirty flag does its work: whatever happens to incremental runs, metadata
   without the flag describes the database, unless a full rebuild stopped after
   wiping it, files changed between parsing and hashing, or a fast run forgot
   files whose rows are still there. *)
TrustedMeta ==
    (meta # NoMeta /\ ~meta.dirty /\ ~spoiled) => Agrees(meta)

(* What a run leaves without a vector on its way: a file that a failed batch
   kept from the database the run had wiped. *)
Unrestored(f) == ~Incremental /\ f \in unrestored

(* A run that was to embed and has done so leaves every file that has rows
   with a vector of its present content, whether its old vectors were restored,
   discarded for their dimensions, outdated or never read.  The one exception is
   the code's: a file whose restoration failed is skipped where the hash of the
   vector it no longer has is current. *)
GeneratedAll ==
    (pc = "save" /\ ~opts.fast /\ Embeds) =>
        \A f \in Files : rows[f] # 0 =>
            emb[f] = rows[f] \/ (Unrestored(f) /\ cache[f] = rows[f])

(* A run that rewrites part of the database keeps every vector it read from it,
   even where it discards its copies or a batch fails; a run that wipes it
   loses only what a failed batch or a change of dimensions kept out. *)
EmbeddingsKept ==
    pc = "save" => \A f \in Files : found[f] # 0 =>
        emb[f] # 0 \/ Unrestored(f) \/ (~Incremental /\ cache # found)

(* A half-written index is repaired: the next runs replace the dirty flag. *)
Repaired ==
    (meta # NoMeta /\ meta.dirty) ~> (meta # NoMeta /\ ~meta.dirty)

(* "Already up to date" is said of an index that holds the working tree. *)
UpToDateMeansIndexed ==
    (Quiet /\ UpToDate(Plain, meta)) => rows = work

(* A run that embeds leaves no file without a current vector. *)
EveryFileEmbedded ==
    (pc = "register" /\ ~opts.fast /\ Embeds) =>
        \A f \in Files : rows[f] # 0 => emb[f] = rows[f]

(* The cached vectors come back, after a wipe too. *)
NoVectorLost ==
    pc = "register" => \A f \in Files : found[f] # 0 => emb[f] # 0

(* deleteNodesForFile takes the vectors of the removed nodes with it. *)
NoOrphanVector ==
    (Quiet /\ meta # NoMeta /\ ~meta.dirty) => \A f \in Files : emb[f] # 0 => rows[f] # 0

(* --drop-embeddings leaves an index without vectors. *)
DropWipes ==
    (pc = "register" /\ opts.drop /\ ~opts.embeddings /\ ~opts.fast)
        => emb = Nothing

(* An index that is up to date can be found in the registry. *)
UpToDateRegistered ==
    (Quiet /\ UpToDate(Plain, meta)) => registered
=============================================================================
