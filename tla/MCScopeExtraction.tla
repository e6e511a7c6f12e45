-------------------------- MODULE MCScopeExtraction --------------------------
(***************************************************************************)
(* Scopes over files of a few positions.  TLC evaluates the assumptions    *)
(* whenever it checks a module that extends this one.                      *)
(***************************************************************************)
EXTENDS ScopeExtraction

Capture(kind, start, end) == [kind |-> kind, start |-> start, end |-> end]

Spans(n) == {<<i, j>> \in (0 .. n) \X (0 .. n) : i <= j}
Captures(n, kinds) == {Capture(k, r[1], r[2]) : k \in kinds, r \in Spans(n)}
Inner == Captures(4, {"Class", "Function"}) \union Captures(4, {"Module"})

WholeFile == Capture("Module", 0, 4)
CaptureLists == {<<WholeFile>> \o s : s \in BoundedSeq(Captures(4, {"Class", "Function"}), 2)}
            \union {<<a, b>> : a, b \in Inner}
            \union {<<a, WholeFile, b>> : a, b \in Captures(4, {"Class"})}
            \union {<<WholeFile, a, b, c>> : a, b, c \in Captures(3, {"Class"})}

(* One capture crosses another, or has its range and cannot be its parent. *)
Clash(a, b) ==
    /\ RangesOverlap(a, b)
    /\ ~CanParentScope(a, b) /\ ~CanParentScope(b, a)

(* Captures that no other can be the parent of. *)
Roots(captures) ==
    {i \in DOMAIN captures : \A j \in DOMAIN captures \ {i} : ~CanParentScope(captures[j], captures[i])}

(* What extraction accepts: no two captures clash unless both are modules of
   the file's outermost level, and that level has only modules. *)
ASSUME AcceptedWhenNested ==
    \A captures \in CaptureLists :
        LET r == Extract(captures, 1)
        IN  r.error = "none" <=>
              /\ IsInjective(captures)
              /\ \A i \in Roots(captures) : captures[i].kind = "Module"
              /\ \A i, j \in DOMAIN captures :
                    i # j /\ Clash(captures[i], captures[j]) => {i, j} \subseteq Roots(captures)

(* A scope that spans the whole file is nested in the module, however the two
   were captured; two modules of one range are refused. *)
ASSUME SoleScopeNested ==
    LET sole == Capture("Namespace", 0, 4)
    IN  /\ \A captures \in {<<sole, WholeFile>>, <<WholeFile, sole>>} :
              LET r == Extract(captures, 1)
              IN  /\ r.error = "none"
                  /\ ScopeOf(r.scopes, MakeScopeId(sole)).parent = MakeScopeId(WholeFile)
                  /\ AtPosition(r.scopes, 2) = MakeScopeId(sole)
        /\ Extract(<<WholeFile, WholeFile>>, 2).error = "duplicate-scope-id"
        /\ Extract(<<sole>>, 1).error = "no module"
        /\ Extract(<<>>, 1).error = "no module" /\ Extract(<<>>, 0).error = "none"

(* The parent of a scope is the innermost of those that contain it (the comment
   at scope-extractor.ts:329 says the outermost). *)
ASSUME ParentIsInnermost ==
    \A captures \in CaptureLists :
        LET r == Extract(captures, 1)
        IN  r.error = "none" =>
              \A i \in DOMAIN r.scopes :
                LET s == r.scopes[i]
                    around == {t \in ToSet(r.scopes) : CanParentScope(t, s)}
                IN  IF around = {} THEN s.parent = NoScope
                    ELSE /\ ScopeOf(r.scopes, s.parent) \in around
                         /\ \A t \in around : ~CanParentScope(ScopeOf(r.scopes, s.parent), t)

Covers(s, pos) == s.start <= pos /\ pos <= s.end

(* The scope found at a position contains it, no scope inside the one found
   does, and of siblings that touch there it is the right one. *)
ASSUME FoundIsInnermost ==
    \A captures \in CaptureLists :
        LET r == Extract(captures, 1)
        IN  r.error = "none" =>
              \A pos \in 0 .. 5 :
                LET here == {s \in ToSet(r.scopes) : Covers(s, pos)}
                    found == ScopeOf(r.scopes, AtPosition(r.scopes, pos))
                IN  IF here = {} THEN AtPosition(r.scopes, pos) = NoScope
                    ELSE /\ found \in here
                         /\ \A s \in here \ {found} :
                              ~CanParentScope(found, s) /\ s.start <= found.start

(* A position at which a scope ends is still inside: what begins right after a
   closing brace is looked up in the block the brace closes, although ends are
   exclusive where siblings are compared (scope-tree.ts:277). *)
ASSUME EndStillInside ==
    LET r == Extract(<<WholeFile, Capture("Block", 1, 3)>>, 1)
    IN  /\ r.error = "none"
        /\ \A pos \in 1 .. 3 : AtPosition(r.scopes, pos) = <<1, 3, "Block">>
        /\ AtPosition(r.scopes, 4) = <<0, 4, "Module">>

----------------------------------------------------------------------------
(* The validator on scopes whose parents are given                          *)

Class(parent, start, end) == Scope(Capture("Class", start, end), parent)
FileScope == Scope(Capture("Module", 0, 3), NoScope)
NestedLists ==
    {<<FileScope, Class(FileScope.id, a[1], a[2]), Class(p, b[1], b[2]), Class(q, c[1], c[2])>> :
        a, b, c \in Spans(3), p \in {FileScope.id, <<0, 2, "Class">>, <<1, 3, "Class">>},
        q \in {FileScope.id, <<0, 2, "Class">>, <<1, 2, "Class">>}}

(* Comparing neighbours is enough when no scope is empty. *)
ASSUME NeighboursSuffice ==
    \A scopes \in NestedLists :
        (/\ BuildScopeTree(scopes) = "none"
         /\ \A i \in DOMAIN scopes : scopes[i].start < scopes[i].end) =>
            \A s, t \in ToSet(scopes) :
                s # t /\ s.parent = t.parent => ~RangesOverlap(s, t)

(* An empty scope between two hides that they overlap (scope-tree.ts:16). *)
ASSUME EmptyHidesOverlap ==
    BuildScopeTree(<<FileScope, Class(FileScope.id, 0, 2), Class(FileScope.id, 0, 0),
                     Class(FileScope.id, 0, 1)>>) = "none"

----------------------------------------------------------------------------
(* Where a declaration is bound                                             *)

(* A declaration that is a scope of its own is bound in the scope around it,
   unless a scope inside starts where it starts: then it is bound in there
   (scope-extractor.ts:497 says outside the body for every declaration). *)
ASSUME DeclaredAround ==
    \A captures \in CaptureLists :
        LET r == Extract(captures, 1)
        IN  r.error = "none" =>
              \A s \in ToSet(r.scopes) :
                s.parent # NoScope =>
                  LET opens == {t \in ToSet(r.scopes) : RangeStrictlyContains(s, t) /\ t.start = s.start}
                      host == ScopeOf(r.scopes, HostOf(r.scopes, s, NoScope))
                  IN  IF opens = {} THEN host.id = s.parent ELSE host \in opens

----------------------------------------------------------------------------
(* Chains of type bindings                                                  *)

Outer == Scope(Capture("Module", 0, 4), NoScope)
Body == Scope(Capture("Function", 1, 3), Outer.id)
OuterAndBody == <<Outer, Body>>

Row(name, raw, at) == [name |-> name, ref |-> [raw |-> raw, at |-> at, source |-> "annotation"]]
Rows(names, raws, at, n) ==
    {s \in BoundedSeq({Row(m, r, at) : m \in names, r \in raws}, n) :
        \A i, j \in DOMAIN s : s[i].name = s[j].name => i = j}
Types(os, bs) == (Outer.id :> os) @@ (Body.id :> bs)

(* The name a ref leads to over the bindings as they were captured, or "cycle". *)
RECURSIVE Terminal(_, _, _)
Terminal(types, ref, left) ==
    LET next == LookupUp(OuterAndBody, types, ref.raw, ref.at)
    IN  IF next = <<>> THEN ref.raw
        ELSE IF left = 0 THEN "cycle"
        ELSE Terminal(types, next[1], left - 1)

(* Every chain that is no cycle is followed to its end, in whatever order the
   bindings were captured: the scopes are closed from the outermost on. *)
ASSUME ChainsSettle ==
    \A os \in Rows({"a", "b"}, {"a", "b", "T"}, Outer.id, 2),
       bs \in Rows({"a", "b", "c"}, {"a", "b", "T"}, Body.id, 3) :
        LET types == Types(os, bs)
            closed == CloseChains(OuterAndBody, types)
        IN  \A s \in ToSet(OuterAndBody) : \A i \in DOMAIN types[s.id] :
                LET end == Terminal(types, types[s.id][i].ref, 6)
                IN  end # "cycle" => closed[s.id][i].ref.raw = end

(* From the innermost on, a name that is bound in both scopes can be taken for
   a cycle. *)
ASSUME OuterScopesFirst ==
    LET types == Types(<<Row("a", "T", Outer.id), Row("b", "a", Outer.id)>>,
                       <<Row("x", "q", Body.id), Row("q", "a", Body.id), Row("a", "b", Body.id)>>)
    IN  /\ CloseChains(OuterAndBody, types)[Body.id][1].ref.raw = "T"
        /\ CloseChains(<<Body, Outer>>, types)[Body.id][1].ref.raw = "b"

(* A binding to its own name hides the outer one instead of taking its type. *)
ASSUME OwnNameStops ==
    LET types == Types(<<Row("a", "T", Outer.id)>>, <<Row("a", "a", Body.id)>>)
    IN  CloseChains(OuterAndBody, types)[Body.id][1].ref.raw = "a"

(* Of the types captured for one name the last of the strongest stays. *)
ASSUME StrongestStays ==
    \A refs \in BoundedSeq({[raw |-> r, at |-> Outer.id, source |-> c] :
                               r \in {"A", "B"}, c \in {"annotation", "constructor-inferred", "other"}}, 3) :
        LET rows == FoldLeft(LAMBDA rs, ref : BindType(rs, "x", ref), <<>>, refs)
            strongest == SelectSeq(refs, LAMBDA r : \A i \in DOMAIN refs :
                             TypeBindingStrength(refs[i].source) <= TypeBindingStrength(r.source))
        IN  refs # <<>> => rows = <<[name |-> "x", ref |-> Last(strongest)]>>
=============================================================================
