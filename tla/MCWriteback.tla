----------------------------- MODULE MCWriteback -----------------------------
(***************************************************************************)
(* The functions of Writeback over bounded inputs.  TLC evaluates the      *)
(* assumptions whenever it checks a module that extends this one.          *)
(***************************************************************************)
EXTENDS Writeback, FiniteSets

FileNode(f, body) == [label |-> "Function", file |-> f, body |-> body]
CommunityNode(body) == [label |-> "Community", file |-> NoFile, body |-> body]
Edge(type, i, j) == [type |-> type, source |-> i, target |-> j]

----------------------------------------------------------------------------
(* The importer search against the chains of imports it stands for          *)

ImportGraph(files, imports) ==
    [row |-> [f \in files |-> FileNode(f, 1)],
     rels |-> {Edge("IMPORTS", p[1], p[2]) : p \in imports}]

(* Files from which a chain of at most n imports leads into S. *)
ImportersWithin[n \in 0 .. 4, imports \in SUBSET (STRING \X STRING), S \in SUBSET STRING] ==
    IF n = 0 THEN {}
    ELSE LET direct == {p[1] : p \in {q \in imports : q[2] \in S}}
         IN  direct \union ImportersWithin[n - 1, imports, direct]

SearchIsChains(files, imports) ==
    \A toWrite, others \in SUBSET files :
        WritableFiles(ImportGraph(files, imports), toWrite, toWrite \union others)
            = toWrite \union ImportersWithin[4, imports, toWrite \union others]

Three == {"a", "b", "c"}
Six == {"a", "b", "c", "d", "e", "f"}
SixInARow == {<<"b", "a">>, <<"c", "b">>, <<"d", "c">>, <<"e", "d">>, <<"f", "e">>}

(* The search that skips files already writable misses no importer within
   four imports: all import graphs of three files, and rows and rings of six. *)
ASSUME SearchFindsChains ==
    /\ \A imports \in SUBSET (Three \X Three) : SearchIsChains(Three, imports)
    /\ SearchIsChains(Six, SixInARow)
    /\ SearchIsChains(Six, SixInARow \union {<<"a", "f">>})

(* Five imports away is out of reach. *)
ASSUME SearchStopsAtFour ==
    WritableFiles(ImportGraph(Six, SixInARow), {"a"}, {"a"}) = Six \ {"f"}

----------------------------------------------------------------------------
(* The write against a full rebuild                                         *)

PairGraph(a, b, m, edges) ==
    LET ids == {i \in {"a", "b"} : (i = "a" /\ a # 0) \/ (i = "b" /\ b # 0)} \union {"m"}
    IN  [row |-> [i \in ids |-> CASE i = "a" -> FileNode("A", a)
                                  [] i = "b" -> FileNode("B", b)
                                  [] OTHER -> CommunityNode(m)],
         rels |-> {e \in edges : e.source \in ids /\ e.target \in ids}]

PairEdges == {Edge("CALLS", "a", "b"), Edge("CALLS", "b", "a"), Edge("MEMBER_OF", "a", "m")}

PairGraphs == {PairGraph(a, b, m, es) :
                  a, b \in 0 .. 2, m \in 1 .. 2, es \in SUBSET PairEdges}

WriteIsRebuild(db, g, W, deleted) ==
    IncrementalWrite(db, g, W, deleted) = FullRebuild(g)

(* Where the old and the new graph agree away from the files written and
   deleted, the incremental write leaves what a rebuild would, and it leaves
   it only there. *)
ASSUME WriteReplaces ==
    \A db, g \in PairGraphs, W \in SUBSET {"A", "B"}, deleted \in SUBSET {"A", "B"} :
        (\A i \in Ids(g) : g.row[i].file \notin deleted) =>
            ((SameRows(db, g, W \union deleted) /\ SameEdges(db, g, W \union deleted))
                <=> WriteIsRebuild(db, g, W, deleted))

(* A barrel C that a imports moves from b to d: a's call moves with it, though
   only C changed.  The write set C alone leaves the old call; the search and
   the boundary draw a in. *)
BarrelGraph(callee) ==
    [row |-> [i \in {"a", "b", "c", "d"} |->
                FileNode(i, IF i = "c" THEN callee ELSE "same")],
     rels |-> {Edge("IMPORTS", "a", "c"), Edge("IMPORTS", "c", callee),
               Edge("CALLS", "a", callee)}]

ASSUME BarrelDrawsIn ==
    LET old == BarrelGraph("b")
        new == BarrelGraph("d")
        hashes(content) == [f \in {"a", "b", "c", "d"} |-> IF f = "c" THEN content ELSE "same"]
        W == EffectiveWriteSet(old, new, hashes("d"), hashes("b"), {})
    IN  /\ W = {"a", "c", "d"}
        /\ WriteIsRebuild(old, new, W, {})
        /\ ~WriteIsRebuild(old, new, {"c"}, {})

(* A first file two new directories deep: the boundary draws in the directory
   it is in, and the one above, which no edge joins to a written file, is not
   written and takes the edge between the two with it. *)
Folder(f) == [label |-> "Folder", file |-> f, body |-> "same"]
NewDirectories ==
    [row |-> [i \in {"s", "s/t", "s/t/x"} |-> IF i = "s/t/x" THEN FileNode(i, 1) ELSE Folder(i)],
     rels |-> {Edge("CONTAINS", "s", "s/t"), Edge("CONTAINS", "s/t", "s/t/x")}]

ASSUME NewDirectoryLost ==
    LET W == ComputeEffectiveWriteSet(NewDirectories,
                WritableFiles(EmptyGraph, {"s/t/x"}, {"s/t/x"}))
        db == IncrementalWrite(EmptyGraph, NewDirectories, W, {})
    IN  /\ Ids(db) = {"s/t", "s/t/x"}
        /\ db.rels = {Edge("CONTAINS", "s/t", "s/t/x")}

(* The last file of a directory is deleted: the directory's row stays. *)
ASSUME OldDirectoryStays ==
    Ids(IncrementalWrite(NewDirectories, EmptyGraph, {}, {"s/t/x"})) = {"s", "s/t"}

(* The node of a database model (orm.ts) has an empty filePath and is not
   graph-wide: a query of a new model loses its node and its edge. *)
ModelQuery(body) ==
    [row |-> [i \in {"a"} \union (IF body = 2 THEN {"model"} ELSE {}) |->
                IF i = "a" THEN FileNode("a", body)
                ELSE [label |-> "CodeElement", file |-> NoFile, body |-> 1]],
     rels |-> IF body = 2 THEN {Edge("QUERIES", "a", "model")} ELSE {}]

ASSUME NewModelLost ==
    LET db == IncrementalWrite(ModelQuery(1), ModelQuery(2), {"a"}, {})
    IN  Ids(db) = {"a"} /\ db.rels = {} /\ FullRebuild(ModelQuery(2)) = ModelQuery(2)

(* A route is the row of the first file that declares its URL.  A new file
   that comes before the old one takes the route over; the old file is not
   written, its row of the route is met by the load, and it stays. *)
RouteNode(f, middleware) == [label |-> "Route", file |-> f, body |-> middleware]
RouteGraph(files, owner, middleware) ==
    [row |-> [i \in files \union {"/url"} |->
                IF i = "/url" THEN RouteNode(owner, middleware) ELSE FileNode(i, 1)],
     rels |-> {Edge("HANDLES_ROUTE", owner, "/url")}]

ASSUME MovedRouteStays ==
    LET old == RouteGraph({"b"}, "b", 1)
        new == RouteGraph({"a", "b"}, "a", 1)
        hashes(files) == [f \in files |-> "same"]
        W == EffectiveWriteSet(old, new, hashes({"a", "b"}), hashes({"b"}), {})
        db == IncrementalWrite(old, new, W, {})
    IN  /\ SameNames(old, new)
        /\ W = {"a"}
        /\ MovedIn(old, new, W, {}) = {"/url"}
        /\ RowConflicts(Cleared(old, W, {}), ExtractChangedSubgraph(new, W)) = {"/url"}
        /\ db.row["/url"].file = "b"
        /\ Edge("HANDLES_ROUTE", "b", "/url") \in db.rels

(* A change of middleware.ts changes the rows of routes whose files it does not
   touch and no edge leads to: they stay as they were. *)
ASSUME MiddlewareStays ==
    LET files == {"b", "middleware"}
        old == RouteGraph(files, "b", 1)
        new == RouteGraph(files, "b", 2)
        hashes(content) == [f \in files |-> IF f = "middleware" THEN content ELSE "same"]
        W == EffectiveWriteSet(old, new, hashes("new"), hashes("old"), {})
    IN  IncrementalWrite(old, new, W, {}).row["/url"].body = 1

----------------------------------------------------------------------------
(* The paths a new file may take imports from                               *)

Foo == <<"foo", 0>>
FooD == <<"foo", 1>>

SomePaths == {p \in {Path(d, n, e) : d \in {<<>>, <<Foo>>, <<FooD>>, <<Foo, Index>>},
                                    n \in {Foo, FooD, Index, WithD(Index)},
                                    e \in {".ts", ".d.ts", ".js", ".py"}} :
                 p = Spelt(p.dir, p.name, p.ext)}

(* Shadowing is mutual but for what is taken for a declaration file. *)
ASSUME ShadowExamples ==
    LET of(p) == ShadowCandidatesFor(p)
    IN  /\ Path(<<>>, Foo, ".js") \in of(Path(<<>>, Foo, ".ts"))
        /\ Path(<<Foo>>, Index, ".ts") \in of(Path(<<>>, Foo, ".ts"))
        /\ Path(<<>>, Foo, ".js") \in of(Path(<<Foo>>, Index, ".ts"))
        /\ Cardinality(of(Path(<<>>, Index, ".ts"))) = 13
        /\ of(Path(<<>>, Foo, ".py")) = {}
        /\ Path(<<>>, Foo, ".d.ts") \in of(Path(<<>>, FooD, ".js"))
        /\ Path(<<>>, Foo, ".d.ts") \in of(Path(<<FooD>>, Index, ".js"))
        /\ \A p, q \in SomePaths :
              q \in of(p) <=> (TakenForDeclaration(p, q)
                               \/ (p \in of(q) /\ ~TakenForDeclaration(q, p)))
        /\ \A p, q \in SomePaths : TakenForDeclaration(p, q) => p \notin of(q)
=============================================================================
