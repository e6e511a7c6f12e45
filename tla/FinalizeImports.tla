--------------------------- MODULE FinalizeImports ---------------------------
(***************************************************************************)
(* The cross-file linking of imports: finalize of gitnexus-shared/src/     *)
(* scope-resolution/finalize-algorithm.ts and the merging of bindings by   *)
(* two of the languages.                                                   *)
(*                                                                         *)
(* A workspace `ws` has files, a sequence in the order of the input, and   *)
(* for each its defs, a sequence of [name, id, type], NoName where there   *)
(* is no simple name, and its imports, a sequence of [kind, local,         *)
(* imported, targets].  targets are the files the language resolves the    *)
(* import to, <<>> for null; they need not be in the workspace.            *)
(***************************************************************************)
EXTENDS Naturals, SequencesExt

NoName == ""
NoDef == "no def"
External == "null"

WorkspaceFiles(ws) == ToSet(ws.files)

----------------------------------------------------------------------------
(* Phase 0: one draft per import and target                                 *)

Unnamed == {"wildcard", "side-effect", "dynamic-resolved"}
FileLevel == {"side-effect", "dynamic-resolved"}

(* open: the draft still has to be finalized by name. *)
Draft(p, target) ==
    [kind |-> p.kind, target |-> target,
     local |-> IF p.kind \in Unnamed THEN NoName ELSE p.local,
     exported |-> IF p.kind \in Unnamed \union {"dynamic-unresolved"} THEN NoName ELSE p.imported,
     open |-> target # External /\ p.kind \notin FileLevel]

MakeEdgeDrafts(p) ==
    IF p.kind = "dynamic-unresolved" \/ p.targets = <<>> THEN <<Draft(p, External)>>
    ELSE [i \in DOMAIN p.targets |-> Draft(p, p.targets[i])]

EdgeIndex(ws) ==
    [f \in WorkspaceFiles(ws) |->
        FlattenSeq([i \in DOMAIN ws.imports[f] |-> MakeEdgeDrafts(ws.imports[f][i])])]

(* The targets in the workspace of the drafts of these kinds, in the order of
   their first mention: a row of the import graph or of its sub-graph. *)
TargetsOf(ws, drafts, kinds) ==
    FoldLeft(LAMBDA row, d : IF \/ d.target \notin WorkspaceFiles(ws)
                                \/ d.kind \notin kinds
                                \/ Contains(row, d.target)
                             THEN row ELSE Append(row, d.target),
             <<>>, drafts)

GraphOf(ws, kinds) ==
    [f \in WorkspaceFiles(ws) |-> TargetsOf(ws, EdgeIndex(ws)[f], kinds)]

----------------------------------------------------------------------------
(* tarjanSccs: `graph` maps a file to the sequence of the files it imports, *)
(* `roots` are its files in sorted order.                                   *)

Lower(s, v, n) == [s EXCEPT !.low[v] = IF n < @ THEN n ELSE @]

PopScc(graph, s, v) ==
    LET at == SelectInSeq(s.stack, LAMBDA w : w = v)
        scc == Reverse(SubSeq(s.stack, at, Len(s.stack)))
    IN  [s EXCEPT !.stack = SubSeq(@, 1, at - 1),
                  !.sccs = Append(@, [files |-> scc,
                                      isCycle |-> Len(scc) > 1 \/ Contains(graph[v], v)])]

RECURSIVE Visit(_, _, _)
Visit(graph, s, v) ==
    LET idx == Cardinality(DOMAIN s.index)
        entered == [s EXCEPT !.index = @ @@ (v :> idx), !.low = @ @@ (v :> idx),
                             !.stack = Append(@, v)]
        child(t, w) ==
            IF w \notin DOMAIN t.index
            THEN LET u == Visit(graph, t, w) IN Lower(u, v, u.low[w])
            ELSE IF Contains(t.stack, w) THEN Lower(t, v, t.index[w]) ELSE t
        left == FoldLeft(child, entered, graph[v])
    IN  IF left.low[v] = left.index[v] THEN PopScc(graph, left, v) ELSE left

TarjanSccs(graph, roots) ==
    FoldLeft(LAMBDA s, v : IF v \in DOMAIN s.index THEN s ELSE Visit(graph, s, v),
             [index |-> <<>>, low |-> <<>>, stack |-> <<>>, sccs |-> <<>>],
             roots).sccs

----------------------------------------------------------------------------
(* What a file exports by name                                              *)

IsCallableOrTypeLike(type) ==
    type \in {"Function", "Method", "Constructor", "Class", "Interface", "Enum", "Struct",
              "Record", "Trait", "Namespace", "Module", "TypeAlias", "Type", "Typedef"}

(* The first callable or type of that name, or else the first def. *)
FindExportByName(defs, name) ==
    LET called == SelectSeq(defs, LAMBDA d : d.name = name /\ name # NoName)
        preferred == SelectSeq(called, LAMBDA d : IsCallableOrTypeLike(d.type))
    IN  IF preferred # <<>> THEN preferred[1].id
        ELSE IF called # <<>> THEN called[1].id
        ELSE NoDef

----------------------------------------------------------------------------
(* Phase 2.5: the closure of a file maps each name its re-exports lead to   *)
(* to the def and the files on the way.                                     *)

Entry(def, via) == [def |-> def, via |-> via]

Through(target, entry) == Entry(entry.def, <<target>> \o entry.via)

(* export { imported as local } from target; @@ keeps a local that is taken. *)
AddNamed(ws, closures, f, d) ==
    LET direct == FindExportByName(ws.defs[d.target], d.exported)
        there == closures[d.target]
        found == IF direct # NoDef THEN {Entry(direct, <<d.target>>)}
                 ELSE IF d.exported \in DOMAIN there THEN {Through(d.target, there[d.exported])}
                 ELSE {}
    IN  IF found = {} THEN closures ELSE
        [closures EXCEPT ![f] = @ @@ (d.local :> CHOOSE e \in found : TRUE)]

(* export * from target: of the defs of one name the first, whatever its type. *)
AddWildcard(ws, closures, f, d) ==
    LET defs == SelectSeq(ws.defs[d.target], LAMBDA e : e.name # NoName)
        own == [n \in {defs[i].name : i \in DOMAIN defs} |->
                   Entry(defs[SelectInSeq(defs, LAMBDA e : e.name = n)].id, <<d.target>>)]
        there == closures[d.target]
        onward == [n \in DOMAIN there |-> Through(d.target, there[n])]
    IN  [closures EXCEPT ![f] = @ @@ own @@ onward]

(* One pass over a file: named re-exports first, then wildcards. *)
PopulateFileClosure(ws, closures, f) ==
    LET drafts(kind) == SelectSeq(EdgeIndex(ws)[f],
                            LAMBDA d : d.kind = kind /\ d.target \in WorkspaceFiles(ws))
    IN  FoldLeft(LAMBDA c, d : AddWildcard(ws, c, f, d),
                 FoldLeft(LAMBDA c, d : AddNamed(ws, c, f, d), closures, drafts("reexport")),
                 drafts("wildcard"))

(* Passes over a cycle until one adds nothing, at most `left` of them. *)
RECURSIVE SettleCycle(_, _, _, _)
SettleCycle(ws, closures, files, left) ==
    LET next == FoldLeft(LAMBDA c, f : PopulateFileClosure(ws, c, f), closures, files)
    IN  IF left = 1 \/ next = closures THEN next
        ELSE SettleCycle(ws, next, files, left - 1)

(* `roots`: the files in sorted order. *)
BuildReexportClosures(ws, roots) ==
    FoldLeft(LAMBDA c, scc :
                 IF scc.isCycle THEN SettleCycle(ws, c, scc.files, Len(scc.files) + 1)
                 ELSE PopulateFileClosure(ws, c, scc.files[1]),
             [f \in WorkspaceFiles(ws) |-> <<>>],
             TarjanSccs(GraphOf(ws, {"reexport", "wildcard"}), roots))

----------------------------------------------------------------------------
(* Phases 3 and 4: finalized edges                                          *)

ImportEdge(d, def, linked) ==
    [kind |-> IF d.kind = "wildcard" THEN "wildcard-expanded" ELSE d.kind,
     local |-> d.local, target |-> d.target, def |-> def, linked |-> linked]

(* tryFinalize with the `unresolved` that follows when it keeps failing.    *)
(* It reads the closures and nothing the loop around it changes, so the     *)
(* first of the loop's passes over the cycle decides.                       *)
FinalizeDraft(ws, closures, d) ==
    LET direct == FindExportByName(ws.defs[d.target], d.exported)
        there == closures[d.target]
    IN  IF ~d.open
        THEN ImportEdge(d, NoDef, d.target # External \/ d.kind = "dynamic-unresolved")
        ELSE IF d.target \notin WorkspaceFiles(ws) \/ d.kind = "wildcard"
        THEN ImportEdge(d, NoDef, TRUE)
        ELSE IF direct # NoDef \/ d.kind = "namespace" THEN ImportEdge(d, direct, TRUE)
        ELSE IF d.exported \in DOMAIN there THEN ImportEdge(d, there[d.exported].def, TRUE)
        ELSE ImportEdge(d, NoDef, FALSE)

(* A linked wildcard becomes one edge per name the language lets through    *)
(* that the target itself defines; names maps a file to these names.        *)
ExpandWildcard(ws, names, e) ==
    LET named(n) == [e EXCEPT !.local = n, !.def = FindExportByName(ws.defs[e.target], n)]
    IN  IF e.kind # "wildcard-expanded" \/ ~e.linked \/ e.target \notin WorkspaceFiles(ws) \/ names[e.target] = <<>>
        THEN <<e>>
        ELSE SelectSeq([i \in DOMAIN names[e.target] |-> named(names[e.target][i])], LAMBDA x : x.def # NoDef)

(* The finalized edges of every file. *)
Finalize(ws, roots, names) ==
    LET closures == BuildReexportClosures(ws, roots)
        edges == EdgeIndex(ws)
    IN  [f \in WorkspaceFiles(ws) |->
            FlattenSeq([i \in DOMAIN edges[f] |->
                ExpandWildcard(ws, names, FinalizeDraft(ws, closures, edges[f][i]))])]

----------------------------------------------------------------------------
(* mergeBindings                                                            *)

TierOf(ref) ==
    CASE ref.origin = "local" -> 0
      [] ref.origin \in {"reexport", "import", "namespace"} -> 1
      [] ref.origin = "wildcard" -> 2

BestTier(refs) ==
    SelectSeq(refs, LAMBDA r : \A i \in DOMAIN refs : TierOf(r) <= TierOf(refs[i]))

(* One ref per def, the last in the place of the first. *)
DedupeByDef(refs) ==
    LET firsts == SelectSeq([i \in DOMAIN refs |-> i],
                      LAMBDA i : \A j \in 1 .. i - 1 : refs[j].def.id # refs[i].def.id)
    IN  [k \in DOMAIN firsts |->
            refs[SelectLastInSeq(refs, LAMBDA r : r.def.id = refs[firsts[k]].def.id)]]

PythonMergeBindings(refs) == DedupeByDef(BestTier(refs))

(* The declaration spaces of TypeScript a def of this type is in. *)
SpacesOf(type) ==
    CASE type \in {"Interface", "Type", "TypeAlias", "Typedef", "Trait", "Annotation", "Decorator"}
           -> {"type"}
      [] type \in {"Class", "Enum", "Struct", "Record", "Union"} -> {"value", "type"}
      [] type \in {"Namespace", "Module"} -> {"namespace", "value"}
      [] OTHER -> {"value"}

(* The best tier of each space, space by space in the order they first      *)
(* occur in.                                                                *)
TypescriptMergeBindings(refs) ==
    LET spaces == FoldLeft(LAMBDA ss, s : IF Contains(ss, s) THEN ss ELSE Append(ss, s), <<>>,
                     FlattenSeq([i \in DOMAIN refs |->
                         SelectSeq(<<"namespace", "value", "type">>,
                                   LAMBDA s : s \in SpacesOf(refs[i].def.type))]))
        inSpace(s) == BestTier(SelectSeq(refs, LAMBDA r : s \in SpacesOf(r.def.type)))
    IN  DedupeByDef(FlattenSeq([i \in DOMAIN spaces |-> inSpace(spaces[i])]))

(* The mergeBindings of a language: "python" or "typescript". *)
MergeBindings(language, existing, incoming) ==
    IF language = "python" THEN PythonMergeBindings(existing \o incoming)
    ELSE TypescriptMergeBindings(existing \o incoming)

----------------------------------------------------------------------------
(* Phase 5: bindings                                                        *)

OriginOf(e) ==
    CASE e.kind = "namespace" -> "namespace"
      [] e.kind = "wildcard-expanded" -> "wildcard"
      [] e.kind = "reexport" -> "reexport"
      [] OTHER -> "import"

AllDefs(ws) == UNION {ToSet(ws.defs[f]) : f \in WorkspaceFiles(ws)}

Bind(language, scope, name, ref) ==
    LET existing == IF name \in DOMAIN scope THEN scope[name] ELSE <<>>
    IN  (name :> MergeBindings(language, existing, <<ref>>)) @@ scope

(* The refs of a module scope, in the order they are merged: its defs, then
   the linked edges of its imports that have a def. *)
RefsOf(ws, edges, f) ==
    LET defs == SelectSeq(ws.defs[f], LAMBDA d : d.name # NoName)
        linked == SelectSeq(edges[f], LAMBDA e : e.def # NoDef /\ e.linked)
        target(e) == CHOOSE d \in AllDefs(ws) : d.id = e.def
    IN  [i \in DOMAIN defs |-> [name |-> defs[i].name, def |-> defs[i], origin |-> "local"]]
        \o [i \in DOMAIN linked |->
              [name |-> IF linked[i].local # NoName THEN linked[i].local ELSE target(linked[i]).name,
               def |-> target(linked[i]), origin |-> OriginOf(linked[i])]]

MaterializeBindings(ws, edges, language) ==
    [f \in WorkspaceFiles(ws) |->
        FoldLeft(LAMBDA scope, r : Bind(language, scope, r.name, [def |-> r.def, origin |-> r.origin]),
                 <<>>, RefsOf(ws, edges, f))]
=============================================================================
