--------------------------- MODULE ScopeExtraction ---------------------------
(***************************************************************************)
(* Lexical scopes of one file: how scope-extractor.ts (gitnexus/src/core/  *)
(* ingestion) nests the captured scopes, how scope-tree.ts and             *)
(* position-index.ts (gitnexus-shared/src/scope-resolution) check and      *)
(* search them, and how declarations and type bindings get their scope.    *)
(*                                                                         *)
(* A position is a number: lines and columns are only compared, in that    *)
(* order.  A capture is [kind, start, end]; a scope is a capture with its  *)
(* id and the id of its parent.                                            *)
(***************************************************************************)
EXTENDS Naturals, SequencesExt

NoScope == <<>>

SameRange(a, b) == a.start = b.start /\ a.end = b.end

RangeStrictlyContains(outer, inner) ==
    /\ outer.start <= inner.start /\ inner.end <= outer.end
    /\ ~SameRange(outer, inner)

CanParentScope(outer, inner) ==
    \/ RangeStrictlyContains(outer, inner)
    \/ SameRange(outer, inner) /\ outer.kind = "Module" /\ inner.kind # "Module"

RangesOverlap(a, b) == ~(a.end <= b.start \/ b.end <= a.start)

(* Array.prototype.sort: stable. *)
SortStably(s, Before(_, _)) ==
    LET insert(sorted, x) ==
            InsertAt(sorted, Cardinality({i \in DOMAIN sorted : ~Before(x, sorted[i])}) + 1, x)
    IN  FoldLeft(insert, <<>>, s)

----------------------------------------------------------------------------
(* Pass 1: nesting                                                          *)

MakeScopeId(c) == <<c.start, c.end, c.kind>>

Scope(c, parent) ==
    [id |-> MakeScopeId(c), parent |-> parent, kind |-> c.kind, start |-> c.start, end |-> c.end]

(* Outer before inner; of one range the module first. *)
OuterFirst(a, b) ==
    \/ a.start < b.start
    \/ a.start = b.start /\ a.end > b.end
    \/ SameRange(a, b) /\ a.kind = "Module" /\ b.kind # "Module"

(* The enclosing captures are popped until one can be the parent of c. *)
Nest(s, c) ==
    LET top == SelectLastInSeq(s.stack, LAMBDA d : CanParentScope(d, c))
    IN  [stack |-> Append(SubSeq(s.stack, 1, top), c),
         scopes |-> Append(s.scopes,
                        Scope(c, IF top = 0 THEN NoScope ELSE MakeScopeId(s.stack[top])))]

Pass1BuildScopes(captures) ==
    FoldLeft(Nest, [stack |-> <<>>, scopes |-> <<>>], SortStably(captures, OuterFirst)).scopes

----------------------------------------------------------------------------
(* buildScopeTree                                                           *)

Known(scopes, id) == \E i \in DOMAIN scopes : scopes[i].id = id
ScopeOf(scopes, id) == scopes[CHOOSE i \in DOMAIN scopes : scopes[i].id = id]

LinkError(scopes, s) ==
    IF s.parent = NoScope
    THEN IF s.kind = "Module" THEN "none" ELSE "non-module-requires-parent"
    ELSE IF ~Known(scopes, s.parent) THEN "parent-not-found"
    ELSE IF ~CanParentScope(ScopeOf(scopes, s.parent), s) THEN "parent-must-contain-child"
    ELSE "none"

ChildrenOf(scopes, id) == SelectSeq(scopes, LAMBDA s : s.parent = id)

(* Siblings in the order of their starts; only neighbours are compared. *)
SiblingsOverlap(scopes, id) ==
    LET children == SortStably(ChildrenOf(scopes, id), LAMBDA a, b : a.start < b.start)
    IN  \E i \in 2 .. Len(children) : RangesOverlap(children[i - 1], children[i])

(* The invariant that is found violated first, or "none". *)
BuildScopeTree(scopes) ==
    LET bad == SelectSeq(scopes, LAMBDA s : LinkError(scopes, s) # "none")
    IN  IF ~IsInjective([i \in DOMAIN scopes |-> scopes[i].id]) THEN "duplicate-scope-id"
        ELSE IF bad # <<>> THEN LinkError(scopes, bad[1])
        ELSE IF \E i \in DOMAIN scopes : SiblingsOverlap(scopes, scopes[i].id)
        THEN "sibling-ranges-overlap"
        ELSE "none"

RECURSIVE GetScopeAncestors(_, _)
GetScopeAncestors(scopes, id) ==
    LET parent == ScopeOf(scopes, id).parent
    IN  IF parent = NoScope THEN <<>> ELSE <<parent>> \o GetScopeAncestors(scopes, parent)

(* The scopes of a file, unless the extraction fails.  A file with no match *)
(* of any topic gets an empty module.                                       *)
Extract(captures, matchCount) ==
    LET nested == Pass1BuildScopes(captures)
        scopes == IF nested = <<>> /\ matchCount = 0
                  THEN <<Scope([kind |-> "Module", start |-> 0, end |-> 0], NoScope)>> ELSE nested
    IN  IF \A i \in DOMAIN scopes : scopes[i].kind # "Module"
        THEN [error |-> "no module", scopes |-> <<>>]
        ELSE [error |-> BuildScopeTree(scopes), scopes |-> scopes]

----------------------------------------------------------------------------
(* buildPositionIndex and atPosition                                        *)

IndexEntries(scopes) ==
    LET firsts == SelectSeq([i \in DOMAIN scopes |-> i],
                            LAMBDA i : \A j \in 1 .. i - 1 : scopes[j].id # scopes[i].id)
    IN  SortStably([k \in DOMAIN firsts |-> scopes[firsts[k]]],
                   LAMBDA a, b : a.start < b.start \/ (a.start = b.start /\ a.end > b.end))

(* Indices from 0 as in the code; the result is how many entries start at   *)
(* or before pos.                                                           *)
RECURSIVE UpperBound(_, _, _, _)
UpperBound(entries, pos, lo, hi) ==
    LET mid == (lo + hi) \div 2
    IN  IF lo >= hi THEN lo
        ELSE IF entries[mid + 1].start <= pos THEN UpperBound(entries, pos, mid + 1, hi)
        ELSE UpperBound(entries, pos, lo, mid)

(* Backwards from there, the first entry that has not ended before pos. *)
AtPosition(scopes, pos) ==
    LET entries == IndexEntries(scopes)
        before == SubSeq(entries, 1, UpperBound(entries, pos, 0, Len(entries)))
        hit == SelectLastInSeq(before, LAMBDA e : e.end >= pos)
    IN  IF hit = 0 THEN NoScope ELSE before[hit].id

----------------------------------------------------------------------------
(* Passes 2 and 4: the scope a declaration or a type binding goes to        *)

(* What declares a scope is bound around it. *)
AutoHosted(scopes, anchor) ==
    LET s == ScopeOf(scopes, AtPosition(scopes, anchor.start))
    IN  IF s.parent # NoScope /\ SameRange(anchor, s) THEN s.parent ELSE s.id

(* `hoisted` is the answer of the language's bindingScopeFor, or NoScope. *)
HostOf(scopes, anchor, hoisted) ==
    IF hoisted = NoScope THEN AutoHosted(scopes, anchor)
    ELSE IF Known(scopes, hoisted) THEN hoisted
    ELSE AtPosition(scopes, anchor.start)

(* Type bindings: for each scope a sequence of [name, ref] in the order of  *)
(* insertion, a ref being [raw, at, source].  Names with a dot, which are   *)
(* not followed, are left out.                                              *)
Bound(rows, name) == SelectInSeq(rows, LAMBDA r : r.name = name)

TypeBindingStrength(source) ==
    CASE source \in {"annotation", "parameter-annotation", "return-annotation", "self"} -> 2
      [] source \in {"assignment-inferred", "constructor-inferred", "receiver-propagated"} -> 1
      [] OTHER -> 0

(* A ref replaces one that is not stronger. *)
BindType(rows, name, ref) ==
    LET i == Bound(rows, name)
    IN  IF i = 0 THEN Append(rows, [name |-> name, ref |-> ref])
        ELSE IF TypeBindingStrength(ref.source) >= TypeBindingStrength(rows[i].ref.source)
        THEN [rows EXCEPT ![i].ref = ref]
        ELSE rows

CHAIN_MAX_DEPTH == 16

(* The binding of a name that is nearest to the scope, in a sequence that is
   empty when there is none. *)
LookupUp(scopes, types, name, id) ==
    LET path == SelectSeq(<<id>> \o GetScopeAncestors(scopes, id), LAMBDA s : Bound(types[s], name) > 0)
    IN  IF path = <<>> THEN <<>> ELSE <<types[path[1]][Bound(types[path[1]], name)].ref>>

RECURSIVE FollowFrom(_, _, _, _, _)
FollowFrom(scopes, types, current, visited, left) ==
    LET next == LookupUp(scopes, types, current.raw, current.at)
    IN  IF left = 0 \/ next = <<>> THEN current
        ELSE IF next[1] = current \/ next[1].raw \in visited THEN current
        ELSE FollowFrom(scopes, types, next[1], visited \union {next[1].raw}, left - 1)

FollowChainedRef(scopes, types, ref) == FollowFrom(scopes, types, ref, {}, CHAIN_MAX_DEPTH)

(* Each binding in turn, of each scope in turn, sees those replaced before. *)
CloseChains(scopes, types) ==
    LET follow(t, id) ==
            FoldLeft(LAMBDA u, i : [u EXCEPT ![id][i].ref = FollowChainedRef(scopes, u, @)],
                     t, [i \in DOMAIN t[id] |-> i])
    IN  FoldLeft(LAMBDA t, s : follow(t, s.id), types, scopes)
=============================================================================
