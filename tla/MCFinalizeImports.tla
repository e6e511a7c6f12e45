-------------------------- MODULE MCFinalizeImports --------------------------
(***************************************************************************)
(* The linking of imports over bounded workspaces.  TLC evaluates the      *)
(* assumptions whenever it checks a module that extends this one.          *)
(***************************************************************************)
EXTENDS FinalizeImports

Import(kind, local, imported, target) ==
    [kind |-> kind, local |-> local, imported |-> imported, targets |-> <<target>>]
Reexport(local, imported, target) == Import("reexport", local, imported, target)
Star(target) == Import("wildcard", NoName, NoName, target)
Def(name, id, type) == [name |-> name, id |-> id, type |-> type]

NothingPropagates == [f \in {"a", "b", "c", "d"} |-> <<>>]

----------------------------------------------------------------------------
(* Strongly connected components                                            *)

ThreeFiles == <<"a", "b", "c">>
FourFiles == <<"a", "b", "c", "d">>

GraphsOf(files) == [ToSet(files) -> {SetToSeq(S) : S \in SUBSET ToSet(files)}]
SparseGraphs == [{"a", "b", "c", "d"} -> {<<>>} \union {<<f>> : f \in ToSet(FourFiles)}
                                            \union {<<"d", "a">>, <<"a", "c">>}]

(* Files that f leads to in one or more imports. *)
LeadsTo(graph, f) ==
    LET step(S) == S \union UNION {ToSet(graph[g]) : g \in S}
    IN  step(step(step(ToSet(graph[f]))))

CondensedBy(graph, sccs) ==
    LET place(f) == CHOOSE i \in DOMAIN sccs : Contains(sccs[i].files, f)
    IN  \A f \in DOMAIN graph :
          /\ Cardinality({i \in DOMAIN sccs : Contains(sccs[i].files, f)}) = 1
          /\ ToSet(sccs[place(f)].files) =
                {f} \union {g \in LeadsTo(graph, f) : f \in LeadsTo(graph, g)}
          /\ sccs[place(f)].isCycle <=> f \in LeadsTo(graph, f)
          /\ \A g \in ToSet(graph[f]) : place(g) <= place(f)

(* Each component is a greatest set of files that lead to each other, isCycle
   says whether they lead anywhere inside, and a file comes after all it
   imports: every graph of three files and sparse ones of four. *)
ASSUME ComponentsInOrder ==
    /\ \A graph \in GraphsOf(ThreeFiles) : CondensedBy(graph, TarjanSccs(graph, ThreeFiles))
    /\ \A graph \in SparseGraphs : CondensedBy(graph, TarjanSccs(graph, FourFiles))

----------------------------------------------------------------------------
(* Re-export closures against the chains of re-exports they stand for       *)

(* c defines x, a may re-export from all, b from one. *)
Workspace(as, bs) ==
    [files |-> ThreeFiles,
     defs |-> [a |-> <<>>, b |-> <<>>, c |-> <<Def("x", "c.x", "Class")>>],
     imports |-> [a |-> as, b |-> bs, c |-> <<>>]]

PlainExports == {Reexport("x", "x", f) : f \in ToSet(ThreeFiles)}
                    \union {Star(f) : f \in ToSet(ThreeFiles)}
RenamedExports == {Reexport("y", "x", f) : f \in ToSet(ThreeFiles)}
                    \union {Reexport("x", "y", f) : f \in ToSet(ThreeFiles)}

PlainWorkspaces == {Workspace(as, bs) : as, bs \in BoundedSeq(PlainExports, 2)}
RenamingWorkspaces ==
    {Workspace(as, bs) : as \in BoundedSeq(PlainExports \union RenamedExports, 2),
                         bs \in BoundedSeq(RenamedExports \union {Star("a"), Star("c")}, 1)}

Xs == {"x", "y"}

(* One step of a chain: f offers n because `to` defines or offers m. *)
Hop(ws, f, n, to, m) ==
    \E i \in DOMAIN ws.imports[f] :
        LET p == ws.imports[f][i]
        IN  to = p.targets[1] /\ CASE p.kind = "reexport" -> p.local = n /\ p.imported = m
                                   [] p.kind = "wildcard" -> n = m

Defines(ws, f, n) == FindExportByName(ws.defs[f], n) # NoDef

(* The names files offer by chains of at most k re-exports. *)
Offered[k \in 0 .. 6, ws \in PlainWorkspaces \union RenamingWorkspaces] ==
    IF k = 0 THEN {}
    ELSE LET shorter == Offered[k - 1, ws]
         IN  {o \in ToSet(ThreeFiles) \X Xs :
                \E to \in ToSet(ThreeFiles), m \in Xs :
                    /\ Hop(ws, o[1], o[2], to, m)
                    /\ Defines(ws, to, m) \/ <<to, m>> \in shorter}

(* A chain that is written in the closure leads to the def written there. *)
RECURSIVE ChainLeads(_, _, _, _, _)
ChainLeads(ws, f, n, via, def) ==
    IF via = <<>> THEN FindExportByName(ws.defs[f], n) = def
    ELSE \E m \in Xs : Hop(ws, f, n, via[1], m) /\ ChainLeads(ws, via[1], m, Tail(via), def)

ClosuresAreChains(ws) ==
    LET closures == BuildReexportClosures(ws, ThreeFiles)
    IN  /\ \A f \in ToSet(ThreeFiles), n \in Xs :
              n \in DOMAIN closures[f] <=> <<f, n>> \in Offered[6, ws]
        /\ \A f \in ToSet(ThreeFiles) : \A n \in DOMAIN closures[f] :
              ChainLeads(ws, f, n, closures[f][n].via, closures[f][n].def)

ASSUME ClosuresFindChains ==
    \A ws \in PlainWorkspaces \union RenamingWorkspaces : ClosuresAreChains(ws)

(* The x that a file offers. *)
OfferOf(ws, f, n) ==
    LET there == BuildReexportClosures(ws, ws.files)[f]
    IN  IF n \in DOMAIN there THEN there[n].def ELSE NoDef

(* A chain that renames at each step can go round a cycle of two files more
   often than the |SCC| + 1 passes that are made: its last names are not found
   (finalize-algorithm.ts:549 says at most |SCC| are needed). *)
RoundAndRound ==
    Workspace(<<Reexport("n1", "n2", "b"), Reexport("n3", "n4", "b"),
                Reexport("n5", "n6", "b"), Reexport("n7", "n8", "b")>>,
              <<Reexport("n2", "n3", "a"), Reexport("n4", "n5", "a"),
                Reexport("n6", "n7", "a"), Reexport("n8", "x", "c")>>)

ASSUME RenamedChainCut ==
    /\ OfferOf(RoundAndRound, "a", "n3") = "c.x"
    /\ OfferOf(RoundAndRound, "b", "n2") = NoDef
    /\ OfferOf(RoundAndRound, "a", "n1") = NoDef

(* Four files, c and d with an x each. *)
TwoSources(as, bs) ==
    [files |-> FourFiles,
     defs |-> [a |-> <<>>, b |-> <<>>, c |-> <<Def("x", "c.x", "Class")>>,
               d |-> <<Def("x", "d.x", "Class")>>],
     imports |-> [a |-> as, b |-> bs, c |-> <<>>, d |-> <<>>]]

(* Without a cycle a named re-export that leads to a def wins over every
   wildcard, and of two the first.  In a cycle the wildcard of the file that
   is populated first, which the names of the files decide, can win over its
   named re-export (the comment at finalize-algorithm.ts:552 says otherwise). *)
ASSUME WildcardWinsInCycle ==
    LET named(f) == <<Reexport("x", "x", f), Star("c")>>
        back(f) == <<Star(f), Reexport("x", "x", "d")>>
    IN  /\ OfferOf(TwoSources(back("b"), named("a")), "b", "x") = "c.x"
        /\ OfferOf(TwoSources(named("b"), back("a")), "a", "x") = "d.x"

ASSUME NamedWinsOutsideCycles ==
    \A as \in BoundedSeq({Reexport("x", "x", "c"), Reexport("x", "x", "d"),
                           Star("c"), Star("d")}, 3) :
        LET named == SelectSeq(as, LAMBDA p : p.kind = "reexport")
            first == IF named # <<>> THEN named[1] ELSE as[1]
        IN  OfferOf(TwoSources(as, <<>>), "a", "x") =
                IF as = <<>> THEN NoDef
                ELSE FindExportByName(TwoSources(<<>>, <<>>).defs[first.targets[1]], "x")

----------------------------------------------------------------------------
(* Finalized edges                                                          *)

(* d imports x from all the others. *)
WithConsumer(ws, kind) ==
    [files |-> FourFiles, defs |-> ws.defs @@ [d |-> <<>>],
     imports |-> ws.imports
        @@ [d |-> <<[kind |-> kind, local |-> "x", imported |-> "x", targets |-> ThreeFiles]>>]]

(* A name is linked to a def exactly when the target defines it or offers it. *)
ASSUME LinkedWhenOffered ==
    \A ws \in PlainWorkspaces :
        LET edges == Finalize(WithConsumer(ws, "named"), FourFiles, NothingPropagates)
        IN  /\ \A i \in 1 .. 3 :
                  LET f == ThreeFiles[i]
                  IN  /\ edges["d"][i].linked <=> (Defines(ws, f, "x") \/ <<f, "x">> \in Offered[6, ws])
                      /\ edges["d"][i].linked <=> edges["d"][i].def = "c.x"
            /\ \A f \in ToSet(ThreeFiles) : Len(edges[f]) = Len(ws.imports[f])

(* A direct import takes the function among two defs of one name, a wildcard in
   between the first of them (the rule at finalize-algorithm.ts:752 is stated for
   every import of the name). *)
ASSUME WildcardTakesFirst ==
    LET shadowed == [Workspace(<<>>, <<Star("c")>>) EXCEPT
            !.defs["c"] = <<Def("x", "variable", "Variable"), Def("x", "function", "Function")>>]
        edges == Finalize(WithConsumer(shadowed, "named"), FourFiles, NothingPropagates)
    IN  edges["d"][2].def = "variable" /\ edges["d"][3].def = "function"

----------------------------------------------------------------------------
(* Bindings                                                                 *)

Refs == {[def |-> d, origin |-> o] :
            d \in {Def("x", "C", "Class"), Def("x", "I", "Interface"), Def("x", "F", "Function")},
            o \in {"local", "import", "wildcard"}}

DefsIn(refs) == {refs[i].def.id : i \in DOMAIN refs}

(* Bindings are merged one at a time, as they come; the result binds the defs
   that merging them all at once would. *)
ASSUME MergedOneByOne ==
    \A refs \in BoundedSeq(Refs, 4) :
        LET each == [i \in DOMAIN refs |-> <<refs[i]>>]
            merged(language) == FoldLeft(LAMBDA a, b : MergeBindings(language, a, b), <<>>, each)
        IN  \A language \in {"python", "typescript"} :
                DefsIn(merged(language)) = DefsIn(MergeBindings(language, refs, <<>>))

(* An import is bound unless the file has a def of its own in the same spaces:
   b defines x as an interface, c as a class. *)
ASSUME OwnDefShadows ==
    LET ws == [WithConsumer(Workspace(<<>>, <<>>), "named") EXCEPT
                  !.defs["d"] = <<Def("x", "d.x", "Interface")>>]
        edges == Finalize(ws, FourFiles, NothingPropagates)
        bound(language) == DefsIn(MaterializeBindings(ws, edges, language)["d"]["x"])
    IN  bound("python") = {"d.x"} /\ bound("typescript") = {"d.x", "c.x"}

(* A wildcard binds the names the language lets through and the target defines. *)
ASSUME WildcardBinds ==
    LET ws == Workspace(<<Star("c")>>, <<>>)
        bindings(names) == MaterializeBindings(ws,
                               Finalize(ws, ThreeFiles, [f \in ToSet(ThreeFiles) |-> names]), "python")["a"]
    IN  /\ DefsIn(bindings(<<"x", "y">>)["x"]) = {"c.x"}
        /\ DOMAIN bindings(<<"x", "y">>) = {"x"}
        /\ DOMAIN bindings(<<>>) = {}
=============================================================================
