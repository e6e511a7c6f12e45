--------------------------- MODULE MethodResolution ---------------------------
(***************************************************************************)
(* Which method a call or a class inherits: the heritage map, the orders   *)
(* of ancestors and the lookup of gitnexus/src/core/ingestion/model/       *)
(* (heritage-map.ts, resolve.ts, method-registry.ts), and the              *)
(* METHOD_OVERRIDES and METHOD_IMPLEMENTS edges of mro-processor.ts.       *)
(*                                                                         *)
(* An optional number is a set of at most one member.  A parent map gives  *)
(* every class the sequence of its parents.                                *)
(***************************************************************************)
EXTENDS Naturals, SequencesExt

(* The sequence without the repetitions of a member. *)
Once(s) ==
    FoldLeft(LAMBDA seen, x : IF Contains(seen, x) THEN seen ELSE Append(seen, x), <<>>, s)

----------------------------------------------------------------------------
(* The heritage map: a sequence of [parent, kind] for every class           *)

(* Each record [child, parent, kind] names classes; defsOf gives the        *)
(* classes of a name.                                                       *)
BuildHeritageMap(classes, records, defsOf) ==
    LET entries(c, r) == LET parents == SelectSeq(defsOf[r.parent], LAMBDA p : p # c)
                         IN  [i \in DOMAIN parents |-> [parent |-> parents[i], kind |-> r.kind]]
        of(c) == SelectSeq(records, LAMBDA r : Contains(defsOf[r.child], c))
    IN  [c \in classes |->
            Once(FlattenSeq([i \in DOMAIN of(c) |-> entries(c, of(c)[i])]))]

HeritageKinds == {"extends", "implements", "trait-impl", "include", "extend", "prepend"}

EntriesOf(h, c, kinds) ==
    LET chosen == SelectSeq(h[c], LAMBDA e : e.kind \in kinds)
    IN  [i \in DOMAIN chosen |-> chosen[i].parent]

GetParents(h, c) == Once([i \in DOMAIN h[c] |-> h[c][i].parent])

MAX_ANCESTOR_DEPTH == 32

(* Breadth first, level by level; `found` are the ancestors so far. *)
RECURSIVE AncestorsBelow(_, _, _, _, _)
AncestorsBelow(h, c, frontier, found, depth) ==
    LET level == SelectSeq(Once(frontier), LAMBDA p : p # c /\ ~Contains(found, p))
    IN  IF level = <<>> \/ depth = MAX_ANCESTOR_DEPTH THEN found
        ELSE AncestorsBelow(h, c, FlattenSeq([i \in DOMAIN level |-> GetParents(h, level[i])]),
                            found \o level, depth + 1)

GetAncestors(h, c) == AncestorsBelow(h, c, GetParents(h, c), <<>>, 0)

ParentMapOf(h) == [c \in DOMAIN h |-> GetParents(h, c)]

----------------------------------------------------------------------------
(* Linear orders of ancestors                                               *)

(* Without a limit, and with the class itself when it is its own ancestor. *)
RECURSIVE BreadthFirst(_, _, _)
BreadthFirst(parents, queue, order) ==
    IF queue = <<>> THEN order
    ELSE IF Contains(order, Head(queue)) THEN BreadthFirst(parents, Tail(queue), order)
    ELSE BreadthFirst(parents, Tail(queue) \o parents[Head(queue)], Append(order, Head(queue)))

GatherAncestors(parents, c) == BreadthFirst(parents, parents[c], <<>>)

Null == <<"null">>

(* The first head that is in no tail, again and again. *)
RECURSIVE Merge(_, _)
Merge(sequences, result) ==
    LET live == SelectSeq(sequences, LAMBDA s : s # <<>>)
        free == SelectSeq(live, LAMBDA s : \A i \in DOMAIN live : ~Contains(Tail(live[i]), Head(s)))
        advance(h) == [i \in DOMAIN live |-> IF Head(live[i]) = h THEN Tail(live[i]) ELSE live[i]]
    IN  IF live = <<>> THEN result
        ELSE IF free = <<>> THEN Null
        ELSE Merge(advance(Head(free[1])), Append(result, Head(free[1])))

(* The order of a class whose parents are all in the cache. *)
MergeParents(direct, cache) ==
    IF \E i \in DOMAIN direct : cache[direct[i]] = Null THEN Null
    ELSE Merge(Append([i \in DOMAIN direct |-> <<direct[i]>> \o cache[direct[i]]], direct), <<>>)

Frame(id, phase) == [id |-> id, phase |-> phase]

(* One turn of the loop: the top frame enters its class, which may first    *)
(* need its parents, or merges what its parents have become.                *)
C3Step(parents, s) ==
    LET id == Last(s.stack).id
        direct == parents[id]
        needed == SelectSeq(direct, LAMBDA p : p \notin DOMAIN s.cache)
        entering == Last(s.stack).phase = "enter"
        popped == [s EXCEPT !.stack = Front(@)]
        settled(order) == [popped EXCEPT !.cache = (id :> order) @@ @]
        left(t) == [t EXCEPT !.visiting = @ \ {id}]
    IN  IF entering /\ id \in DOMAIN s.cache THEN popped
        ELSE IF entering /\ id \in s.visiting THEN settled(Null)
        ELSE IF direct = <<>> THEN left(settled(<<>>))
        ELSE IF entering /\ needed # <<>>
        THEN [s EXCEPT !.visiting = @ \union {id},
                       !.stack = Append(Front(@), Frame(id, "merge"))
                                    \o [i \in DOMAIN needed |-> Frame(Reverse(needed)[i], "enter")]]
        ELSE left(settled(MergeParents(direct, s.cache)))

RECURSIVE C3Run(_, _)
C3Run(parents, s) == IF s.stack = <<>> THEN s.cache ELSE C3Run(parents, C3Step(parents, s))

(* The cache after the linearization of c: its order, or Null, is in there. *)
C3Cache(parents, c, cache) ==
    C3Run(parents, [stack |-> <<Frame(c, "enter")>>, visiting |-> {}, cache |-> cache])

C3Linearize(parents, c) == C3Cache(parents, c, <<>>)[c]

MroOrder(parents, c, strategy, fallback) ==
    IF strategy = "c3" /\ C3Linearize(parents, c) # Null THEN C3Linearize(parents, c) ELSE fallback

----------------------------------------------------------------------------
(* Lookup.  methods: for each class a sequence of [id, name, params,        *)
(* required, returns, ...].                                                 *)

NoMethod == "no method"

Fits(d, n) ==
    \/ d.params = {}
    \/ \E max \in d.params : \E min \in (IF d.required = {} THEN d.params ELSE d.required) :
          min <= n /\ n <= max

(* The one overload that fits, or the first of several that return the same. *)
LookupMethodByOwner(methods, owner, name, argCount) ==
    LET defs == SelectSeq(methods[owner], LAMBDA d : d.name = name)
        fitting == SelectSeq(defs, LAMBDA d : \A n \in argCount : Fits(d, n))
        pool == IF fitting = <<>> THEN defs ELSE fitting
    IN  IF pool = <<>> THEN NoMethod
        ELSE IF \/ Len(pool) = 1
                \/ pool[1].returns # {} /\ \A i \in DOMAIN pool : pool[i].returns = pool[1].returns
        THEN pool[1].id ELSE NoMethod

(* Prepended last first, the class, the rest last first, and what these     *)
(* inherit; no direct extend provider.                                      *)
RubyOrder(h, c) ==
    LET prepended == EntriesOf(h, c, {"prepend"})
        others == EntriesOf(h, c, HeritageKinds \ {"prepend", "extend"})
        singleton == EntriesOf(h, c, {"extend"})
        onward == SelectSeq(GetAncestors(h, c), LAMBDA a : ~Contains(prepended \o others \o singleton, a))
    IN  Reverse(prepended) \o <<c>> \o Reverse(others) \o onward

WalkOrder(h, c, strategy) ==
    CASE strategy = "ruby-mixin" -> RubyOrder(h, c)
      [] strategy = "qualified-syntax" -> <<c>>
      [] OTHER -> <<c>> \o MroOrder(ParentMapOf(h), c, strategy, GetAncestors(h, c))

FirstFound(methods, order, name, argCount) ==
    LET hits == SelectSeq(order, LAMBDA c : LookupMethodByOwner(methods, c, name, argCount) # NoMethod)
    IN  IF hits = <<>> THEN NoMethod ELSE LookupMethodByOwner(methods, hits[1], name, argCount)

LookupMethodByOwnerWithMRO(h, methods, c, name, strategy, argCount) ==
    FirstFound(methods, WalkOrder(h, c, strategy), name, argCount)

(* Calls on the class itself: only what it extends itself with. *)
LookupSingleton(h, methods, c, name, argCount) ==
    FirstFound(methods, EntriesOf(h, c, {"extend"}), name, argCount)

----------------------------------------------------------------------------
(* The graph: label of each class, the sequences of its EXTENDS and its     *)
(* IMPLEMENTS edges, and methods: for each class a sequence of [id, name,   *)
(* types, params, abstract, property].                                      *)

ParentMapIn(g) == [c \in DOMAIN g.label |-> g.extends[c] \o g.implements[c]]

(* An IMPLEMENTS edge replaces an EXTENDS edge to the same class. *)
EdgeType(g, c, p) == IF Contains(g.implements[c], p) THEN "IMPLEMENTS" ELSE "EXTENDS"

(* An ancestor has the type of the edge at the start of the path that is    *)
(* searched first; `queue` are the ancestors to go on from.                 *)
RECURSIVE Propagate(_, _, _)
Propagate(g, queue, types) ==
    IF queue = <<>> THEN types
    ELSE LET new == SelectSeq(Once(ParentMapIn(g)[Head(queue)]), LAMBDA p : p \notin DOMAIN types)
         IN  Propagate(g, Tail(queue) \o new,
                       types @@ [p \in ToSet(new) |-> types[Head(queue)]])

BuildTransitiveEdgeTypes(g, c) ==
    LET direct == Once(ParentMapIn(g)[c])
    IN  Propagate(g, direct, [p \in ToSet(direct) |-> EdgeType(g, c, p)])

----------------------------------------------------------------------------
(* METHOD_OVERRIDES                                                         *)

(* The methods of that name that c inherits, in the order of resolution. *)
DefsNamed(g, order, name) ==
    FlattenSeq([i \in DOMAIN order |->
        LET ms == SelectSeq(g.methods[order[i]], LAMBDA m : m.name = name /\ ~m.property)
        IN  [k \in DOMAIN ms |-> [class |-> order[i], id |-> ms[k].id]]])

ResolveByMroOrder(defs, order) ==
    LET hits == SelectSeq(order, LAMBDA a : \E i \in DOMAIN defs : defs[i].class = a)
        first == IF hits = <<>> THEN 1 ELSE SelectInSeq(defs, LAMBDA d : d.class = hits[1])
    IN  defs[first].id

ResolveCsharpJava(defs, types) ==
    LET classDefs == SelectSeq(defs, LAMBDA d : ~(d.class \in DOMAIN types /\ types[d.class] = "IMPLEMENTS"))
    IN  IF classDefs # <<>> THEN classDefs[1].id
        ELSE IF Len(defs) > 1 THEN NoMethod
        ELSE defs[1].id

OwnDefines(g, c, name) == \E i \in DOMAIN g.methods[c] : g.methods[c][i].name = name

MroOrderIn(g, c, strategy) ==
    MroOrder(ParentMapIn(g), c, strategy, GatherAncestors(ParentMapIn(g), c))

(* Two methods of one name collide in c unless it defines the name itself. *)
Collides(g, c, name, strategy) ==
    Len(DefsNamed(g, MroOrderIn(g, c, strategy), name)) > 1 /\ ~OwnDefines(g, c, name)

(* The method that wins, NoMethod where none does: it becomes the target of *)
(* a METHOD_OVERRIDES edge from c.                                          *)
Resolved(g, c, name, strategy) ==
    LET order == MroOrderIn(g, c, strategy)
        defs == DefsNamed(g, order, name)
    IN  CASE strategy = "implements-split" -> ResolveCsharpJava(defs, BuildTransitiveEdgeTypes(g, c))
          [] strategy = "qualified-syntax" -> NoMethod
          [] OTHER -> ResolveByMroOrder(defs, order)

----------------------------------------------------------------------------
(* METHOD_IMPLEMENTS                                                        *)

Outcome(match, confident) == [match |-> match, confident |-> confident]

ParameterTypesMatch(a, b) ==
    IF (a.params = {}) # (b.params = {}) THEN Outcome(TRUE, FALSE)
    ELSE IF a.types = <<>> \/ b.types = <<>>
    THEN IF a.params = {} THEN Outcome(TRUE, FALSE) ELSE Outcome(a.params = b.params, a.params = b.params)
    ELSE Outcome(a.types = b.types, a.types = b.types)

InterfaceLike(g, c) == g.label[c] \in {"Interface", "Trait"}

ConcreteNamed(g, c, name) ==
    SelectSeq(g.methods[c], LAMBDA m : m.name = name /\ ~m.property /\ ~m.abstract)

Matching(g, c, target) ==
    SelectSeq(ConcreteNamed(g, c, target.name), LAMBDA m : ParameterTypesMatch(m, target).match)

(* The classes, not interfaces, that these extend. *)
Superclasses(g, C) ==
    {p \in UNION {ToSet(ParentMapIn(g)[c]) : c \in C} :
        /\ \E c \in C : Contains(ParentMapIn(g)[c], p) /\ EdgeType(g, c, p) = "EXTENDS"
        /\ ~InterfaceLike(g, p)}

MatchesIn(g, C, target) == UNION {ToSet(Matching(g, c, target)) : c \in C}

(* The matches of the nearest level of superclasses that has any. *)
RECURSIVE NearestMatches(_, _, _, _)
NearestMatches(g, level, visited, target) ==
    IF level = {} \/ MatchesIn(g, level, target) # {} THEN MatchesIn(g, level, target)
    ELSE NearestMatches(g, Superclasses(g, level) \ (visited \union level),
                        visited \union level, target)

(* The interfaces among `next`, and all that can be reached through them. *)
RECURSIVE InterfacesFrom(_, _, _)
InterfacesFrom(g, next, found) ==
    LET new == {c \in next : InterfaceLike(g, c)} \ found
    IN  IF new = {} THEN found
        ELSE InterfacesFrom(g, UNION {ToSet(ParentMapIn(g)[c]) : c \in new}, found \union new)

(* The inherited method, in a set that is empty for null. *)
FindInheritedMethod(g, c, target) ==
    LET inClasses == NearestMatches(g, Superclasses(g, {c}), {}, target)
        implemented == {p \in ToSet(ParentMapIn(g)[c]) : EdgeType(g, c, p) = "IMPLEMENTS"}
        defaults == {m \in MatchesIn(g, InterfacesFrom(g, implemented, {}), target) : m.id # target.id}
        chosen == IF inClasses = {} THEN defaults ELSE inClasses
    IN  IF Cardinality(chosen) = 1 THEN chosen ELSE {}

(* What implements this method of an ancestor in c: an overload of its own,
   or without any of the name what it inherits; nothing where it is unclear. *)
Implementers(g, c, target) ==
    IF ConcreteNamed(g, c, target.name) = <<>> THEN FindInheritedMethod(g, c, target)
    ELSE IF Len(Matching(g, c, target)) = 1 THEN ToSet(Matching(g, c, target))
    ELSE {}

(* The ancestors that are contracts to c. *)
Contracts(g, c) ==
    LET types == BuildTransitiveEdgeTypes(g, c)
    IN  {a \in ToSet(GatherAncestors(ParentMapIn(g), c)) :
            InterfaceLike(g, a) \/ (a \in DOMAIN types /\ types[a] = "IMPLEMENTS")}

MethodImplementsEdges(g) ==
    UNION {UNION {{[from |-> m.id, to |-> t.id, confident |-> ParameterTypesMatch(m, t).confident] :
                      m \in Implementers(g, c, t)} :
                  t \in UNION {{x \in ToSet(g.methods[a]) : ~x.property} : a \in Contracts(g, c)}} :
           c \in {d \in DOMAIN g.label : ParentMapIn(g)[d] # <<>> /\ ~InterfaceLike(g, d)}}
=============================================================================
