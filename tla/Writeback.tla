------------------------------ MODULE Writeback ------------------------------
(***************************************************************************)
(* What an incremental `gitnexus analyze` rewrites: the files whose hashes *)
(* differ (gitnexus/src/storage/file-hash.ts), the importers and resolution*)
(* rivals drawn in (core/run-analyze.ts, core/incremental/shadow-          *)
(* candidates.ts), the neighbours in the new graph (core/incremental/      *)
(* subgraph-extract.ts), and the deletes and the bulk load that replace    *)
(* their rows (core/lbug/lbug-adapter.ts).                                 *)
(*                                                                         *)
(* A graph, in memory or in the database, is a record: `row` maps the id   *)
(* of a node to its row [label, file, body], `rels` is a set of edges      *)
(* [type, source, target].  body stands for every other column.  Edges     *)
(* between labels the schema does not join, which no load keeps, are left  *)
(* out.                                                                    *)
(***************************************************************************)
EXTENDS Naturals, Sequences, SequencesExt

(* A node without filePath, or with an empty one. *)
NoFile == ""

Ids(g) == DOMAIN g.row
FileOf(g, i) == IF i \in Ids(g) THEN g.row[i].file ELSE NoFile
EmptyGraph == [row |-> [i \in {} |-> NoFile], rels |-> {}]

(* Community and Process nodes are made anew by every run. *)
GraphWide(n) == n.label \in {"Community", "Process"}

----------------------------------------------------------------------------
(* diffFileHashes: both arguments map a path to the hash of its content.    *)

AddedFiles(current, stored) == DOMAIN current \ DOMAIN stored
DeletedFiles(current, stored) == DOMAIN stored \ DOMAIN current
ChangedFiles(current, stored) ==
    {f \in DOMAIN current \intersect DOMAIN stored : current[f] # stored[f]}
FilesToWrite(current, stored) ==
    ChangedFiles(current, stored) \union AddedFiles(current, stored)

----------------------------------------------------------------------------
(* shadowCandidatesFor: a path is its directories, the name before the       *)
(* extension, and the extension, NoFile where it is not one of ShadowExts.   *)
(* A name is its text and the number of ".d" it ends in: the extension is    *)
(* the first of ShadowExts that fits, and ".d.ts" stands before ".ts".       *)

ShadowExts == {".d.ts", ".tsx", ".ts", ".jsx", ".js", ".mjs", ".cjs"}

Path(dir, name, ext) == [dir |-> dir, name |-> name, ext |-> ext]

WithD(name) == <<name[1], name[2] + 1>>
WithoutD(name) == <<name[1], name[2] - 1>>

(* The path spelt by a name and an extension put together. *)
Spelt(dir, name, ext) ==
    IF ext = ".ts" /\ name[2] > 0 THEN Path(dir, WithoutD(name), ".d.ts")
    ELSE Path(dir, name, ext)

Index == <<"index", 0>>

SameStem(p) == {Spelt(p.dir, p.name, e) : e \in ShadowExts \ {p.ext}}
IndexInside(p) == {Path(Append(p.dir, p.name), Index, e) : e \in ShadowExts}
BareOutside(p) ==
    IF p.name = Index /\ p.dir # <<>>
    THEN {Spelt(Front(p.dir), Last(p.dir), e) : e \in ShadowExts}
    ELSE {}

ShadowCandidatesFor(p) ==
    IF p.ext \in ShadowExts
    THEN SameStem(p) \union IndexInside(p) \union BareOutside(p)
    ELSE {}

----------------------------------------------------------------------------
(* The importer search of runFullAnalysis                                   *)

(* queryImporters for each of S: the files that import one, by the database *)
(* as the last run left it. *)
QueryImporters(db, S) ==
    {FileOf(db, r.source) :
        r \in {e \in db.rels : e.type = "IMPORTS" /\ FileOf(db, e.target) \in S}}
    \ {NoFile}

(* One round of the search: only files that were not writable yet are       *)
(* looked at in the next. *)
ExpandFrontier(db, s) ==
    LET found == QueryImporters(db, s.frontier) \ s.writable
    IN  [writable |-> s.writable \union found, frontier |-> found]

(* The changed and deleted files, and of `rivals`, the candidates of the
   added ones, those the last run knew. *)
SearchSeeds(current, stored, rivals) ==
    FilesToWrite(current, stored) \union DeletedFiles(current, stored)
        \union (rivals \intersect DOMAIN stored)

(* MAX_IMPORTER_BFS_DEPTH = 4 *)
WritableFiles(db, toWrite, seeds) ==
    ExpandFrontier(db, ExpandFrontier(db, ExpandFrontier(db, ExpandFrontier(db,
        [writable |-> toWrite, frontier |-> seeds])))).writable

----------------------------------------------------------------------------
(* subgraph-extract.ts                                                      *)

EndFiles(g, r) == {FileOf(g, r.source), FileOf(g, r.target)}

(* Both files of every edge that has one in W; edges to a node without a    *)
(* file draw nothing in. *)
ComputeEffectiveWriteSet(g, W) ==
    W \union UNION {EndFiles(g, r) :
        r \in {e \in g.rels : NoFile \notin EndFiles(g, e) /\ EndFiles(g, e) \intersect W # {}}}

WritableIds(g, W) ==
    {i \in Ids(g) : GraphWide(g.row[i]) \/ g.row[i].file \in W \ {NoFile}}

ExtractChangedSubgraph(g, W) ==
    [row |-> [i \in WritableIds(g, W) |-> g.row[i]],
     rels |-> {r \in g.rels : {r.source, r.target} \intersect WritableIds(g, W) # {}}]

----------------------------------------------------------------------------
(* lbug-adapter.ts                                                          *)

DetachDelete(db, gone) ==
    [row |-> [i \in Ids(db) \ gone |-> db.row[i]],
     rels |-> {r \in db.rels : r.source \notin gone /\ r.target \notin gone}]

DeleteNodesForFiles(db, S) ==
    DetachDelete(db, {i \in Ids(db) : ~GraphWide(db.row[i]) /\ db.row[i].file \in S})

DeleteAllCommunitiesAndProcesses(db) ==
    DetachDelete(db, {i \in Ids(db) : GraphWide(db.row[i])})

(* COPY of the nodes, then of the edges.  A COPY that fails is repeated with *)
(* IGNORE_ERRORS: a row whose id is taken is skipped, and so is an edge that *)
(* lacks an end. *)
LoadGraphToLbug(g, db) ==
    [row |-> [i \in Ids(db) \union Ids(g) |-> IF i \in Ids(db) THEN db.row[i] ELSE g.row[i]],
     rels |-> db.rels \union
              {r \in g.rels : {r.source, r.target} \subseteq Ids(db) \union Ids(g)}]

----------------------------------------------------------------------------
(* The two ways runFullAnalysis writes                                      *)

Cleared(db, W, deleted) ==
    DeleteAllCommunitiesAndProcesses(DeleteNodesForFiles(db, W \union deleted))

IncrementalWrite(db, g, W, deleted) ==
    LoadGraphToLbug(ExtractChangedSubgraph(g, W), Cleared(db, W, deleted))

EffectiveWriteSet(db, g, current, stored, rivals) ==
    ComputeEffectiveWriteSet(g,
        WritableFiles(db, FilesToWrite(current, stored), SearchSeeds(current, stored, rivals)))

FullRebuild(g) == LoadGraphToLbug(g, EmptyGraph)

----------------------------------------------------------------------------
(* What the incremental write relies on                                     *)

(* Every edge of a database joins two of its nodes. *)
Joined(db) == \A r \in db.rels : r.source \in Ids(db) /\ r.target \in Ids(db)

(* A graph is its rows and its edges. *)
IsGraph(g) ==
    /\ g = [row |-> g.row, rels |-> g.rels]
    /\ g.row = [i \in Ids(g) |-> g.row[i]]

(* Nodes whose id is made of a URL or a tool's name.  Their file is the first
   that declares them, which may be another one in the next graph. *)
KeyNamed(n) == n.label \in {"Route", "Tool"}

(* generateId: an id names the label of its node, and the path of any other. *)
SameNames(db, g) ==
    \A i \in Ids(db) \intersect Ids(g) :
        /\ db.row[i].label = g.row[i].label
        /\ ~KeyNamed(g.row[i]) => db.row[i].file = g.row[i].file

(* Routes and tools that move from a file left alone to one that is written. *)
MovedIn(db, g, W, deleted) ==
    {i \in Ids(db) \intersect Ids(g) :
        /\ KeyNamed(g.row[i])
        /\ db.row[i].file \notin W \union deleted
        /\ g.row[i].file \in W}

(* The ids of g that a write of the files S leaves alone. *)
Untouched(g, S) == {i \in Ids(g) : ~GraphWide(g.row[i]) /\ g.row[i].file \notin S}

(* Away from the files S, two graphs have the same rows. *)
SameRows(db, g, S) ==
    /\ Untouched(db, S) = Untouched(g, S)
    /\ \A i \in Untouched(db, S) : db.row[i] = g.row[i]

(* Away from the files S, two graphs have the same edges. *)
SameEdges(db, g, S) ==
    \A r \in db.rels \union g.rels :
        {r.source, r.target} \subseteq Untouched(db, S) => (r \in db.rels <=> r \in g.rels)

(* Two paths of which the first spells out the second as one of its candidates
   although its own name is another: foo.d.js and foo.d/index.js list foo.d.ts,
   which is stripped to foo. *)
TakenForDeclaration(p, q) ==
    /\ q.ext = ".d.ts"
    /\ \/ p.dir = q.dir /\ p.name = WithD(q.name) /\ p.ext \in ShadowExts
       \/ p.dir = Append(q.dir, WithD(q.name)) /\ p.name = Index /\ p.ext \in ShadowExts

(* Rows and edges the bulk load would find in the database already. *)
RowConflicts(db, g) == Ids(db) \intersect Ids(g)
EdgeConflicts(db, g) == db.rels \intersect g.rels
=============================================================================
