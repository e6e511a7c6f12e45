-------------------------- MODULE MCMethodResolution --------------------------
(***************************************************************************)
(* Hierarchies of a few classes.  TLC evaluates the assumptions whenever   *)
(* it checks a module that extends this one.                               *)
(***************************************************************************)
EXTENDS MethodResolution

Lists(S, n) == {s \in BoundedSeq(S, n) : IsInjective(s)}

(* Every hierarchy of five classes that each have at most two parents, listed
   before them; every one of three, cycles included. *)
Acyclic ==
    {[a |-> <<>>, b |-> pb, c |-> pc, d |-> pd, e |-> pe] :
        pb \in Lists({"a"}, 2), pc \in Lists({"a", "b"}, 2),
        pd \in Lists({"a", "b", "c"}, 2), pe \in Lists({"a", "b", "c", "d"}, 2)}
AnyOfThree == [{"a", "b", "c"} -> Lists({"a", "b", "c"}, 2)]

Above(parents, C) == C \union UNION {ToSet(parents[c]) : c \in C}
AncestorsOf(parents, c) ==
    Above(parents, Above(parents, Above(parents, ToSet(parents[c]))))

(* r has the members of s in the same order. *)
Keeps(r, s) ==
    /\ ToSet(s) \subseteq ToSet(r)
    /\ SelectSeq(r, LAMBDA x : Contains(s, x)) = s

(* What c's order has to keep: the parents as declared, and the order of each. *)
ToKeep(parents, c) ==
    {parents[c]} \union {<<p>> \o C3Linearize(parents, p) : p \in ToSet(parents[c])}

Allowed(parents, c, r) == \A s \in ToKeep(parents, c) : Keeps(r, s)

(* c3Linearize finds an order of all ancestors that keeps what it has to, and
   fails exactly when there is none. *)
ASSUME OrderFound ==
    \A parents \in Acyclic : \A c \in DOMAIN parents :
        LET r == C3Linearize(parents, c)
            lost == \E p \in ToSet(parents[c]) : C3Linearize(parents, p) = Null
        IN  IF r = Null
            THEN lost \/ \A s \in SetToSeqs(AncestorsOf(parents, c)) : ~Allowed(parents, c, s)
            ELSE /\ IsInjective(r) /\ ToSet(r) = AncestorsOf(parents, c)
                 /\ ~lost /\ Allowed(parents, c, r)

(* No class on or below a cycle has an order. *)
ASSUME CyclesRefused ==
    \A parents \in AnyOfThree : \A c \in DOMAIN parents :
        LET cyclic(d) == d \in AncestorsOf(parents, d)
        IN  \A d \in {c} \union AncestorsOf(parents, c) :
                cyclic(d) => C3Linearize(parents, c) = Null

(* The cache that is shared by all classes never changes an answer. *)
ASSUME CacheHarmless ==
    \A parents \in AnyOfThree \union Acyclic : \A c, d \in DOMAIN parents :
        LET cache == C3Cache(parents, c, <<>>)
        IN  C3Cache(parents, d, cache)[d] = C3Linearize(parents, d)

(* A parent that is given twice, as by an EXTENDS and an IMPLEMENTS edge, makes
   the order fail. *)
ASSUME TwiceRefused ==
    C3Linearize([a |-> <<>>, b |-> <<"a", "a">>], "b") = Null

----------------------------------------------------------------------------
(* Lookup                                                                   *)

Itself == [name \in {"a", "b", "c", "d"} |-> <<name>>]
Heritage(child, parent, kind) == [child |-> child, parent |-> parent, kind |-> kind]
MapOf(records) == BuildHeritageMap({"a", "b", "c", "d"}, records, Itself)

(* An overload of m; the classes in `owners` have one each. *)
Method(id, params, returns) ==
    [id |-> id, name |-> "m", params |-> params, required |-> {}, returns |-> returns,
     types |-> <<>>, abstract |-> FALSE, property |-> FALSE]
Owned(owners) ==
    [c \in {"a", "b", "c", "d"} |-> IF c \in owners THEN <<Method(c, {0}, {"T"})>> ELSE <<>>]

MixinKinds == {"extends", "include", "prepend"}
Mixins(kinds) ==
    {<<Heritage("a", "b", k1), Heritage("a", "c", k2), Heritage("b", x, k3), Heritage("c", y, k4)>> :
        k1, k2, k3, k4 \in kinds, x \in {"c", "d"}, y \in {"d", "a"}}

(* No class is above itself, and whatever the strategy, a call finds a method
   when the class or an ancestor has one, its own first unless something is
   prepended. *)
ASSUME FoundWhenInherited ==
    \A records \in Mixins(MixinKinds), owners \in {{}, {"a"}, {"d"}, {"b", "c"}, {"a", "c", "d"}} :
        LET h == MapOf(records)
            reached == {"a"} \union ToSet(GetAncestors(h, "a"))
            found(strategy) == LookupMethodByOwnerWithMRO(h, Owned(owners), "a", "m", strategy, {})
        IN  /\ "a" \notin ToSet(GetAncestors(h, "a"))
            /\ GetParents(MapOf(Append(records, Heritage("a", "a", "extends"))), "a") = GetParents(h, "a")
            /\ \A strategy \in {"first-wins", "c3", "ruby-mixin"} :
                  IF reached \intersect owners = {} THEN found(strategy) = NoMethod
                  ELSE found(strategy) \in reached \intersect owners
            /\ "a" \in owners => found("c3") = "a" /\ found("qualified-syntax") = "a"
            /\ found("ruby-mixin") # "a" =>
                  "a" \notin owners \/ \E i \in DOMAIN records :
                      records[i].child = "a" /\ records[i].kind = "prepend" /\ records[i].parent \in owners

(* Prepended, own, included: of each kind the last declared wins. *)
ASSUME LastMixinWins ==
    \A k \in {"prepend", "include"}, owners \in SUBSET {"a", "b", "c"} :
        LET h == MapOf(<<Heritage("a", "b", k), Heritage("a", "c", k)>>)
            best == IF k = "prepend" THEN <<"c", "b", "a">> ELSE <<"a", "c", "b">>
            hits == SelectSeq(best, LAMBDA c : c \in owners)
        IN  LookupMethodByOwnerWithMRO(h, Owned(owners), "a", "m", "ruby-mixin", {}) =
                IF hits = <<>> THEN NoMethod ELSE hits[1]

(* The providers of the class itself are not searched for its instances, but
   what these inherit is (resolve.ts:389 says never). *)
ASSUME ExtendLeaks ==
    LET h == MapOf(<<Heritage("a", "b", "extend"), Heritage("b", "c", "include")>>)
    IN  /\ LookupMethodByOwnerWithMRO(h, Owned({"b"}), "a", "m", "ruby-mixin", {}) = NoMethod
        /\ LookupMethodByOwnerWithMRO(h, Owned({"c"}), "a", "m", "ruby-mixin", {}) = "c"
        /\ LookupSingleton(h, Owned({"b", "c"}), "a", "m", {}) = "b"

(* And a module that the class extends itself with is skipped where its
   superclass includes it: its methods are not found for instances. *)
ASSUME ExtendHides ==
    LET base == <<Heritage("a", "b", "extends"), Heritage("b", "c", "include")>>
        found(records) ==
            LookupMethodByOwnerWithMRO(MapOf(records), Owned({"c"}), "a", "m", "ruby-mixin", {})
    IN  /\ found(base) = "c"
        /\ found(Append(base, Heritage("a", "c", "extend"))) = NoMethod

Overloads == <<"first", "second", "third">>

(* An overload is chosen when exactly one takes that many arguments; none is
   when several are left that return different types or an unknown one. *)
ASSUME OverloadChosen ==
    \A ds \in BoundedSeq({0, 1} \X {{}, {"S"}, {"T"}}, 3) : \A n \in {0, 1} :
        LET methods == [a |-> [i \in DOMAIN ds |-> Method(Overloads[i], {ds[i][1]}, ds[i][2])]]
            found == LookupMethodByOwner(methods, "a", "m", {n})
            fit == {i \in DOMAIN ds : ds[i][1] = n}
            left == IF fit = {} THEN DOMAIN ds ELSE fit
            returns == {ds[i][2] : i \in left}
        IN  ds # <<>> =>
              IF Cardinality(left) = 1 \/ (Cardinality(returns) = 1 /\ {} \notin returns)
              THEN found = Overloads[CHOOSE i \in left : \A j \in left : i <= j]
              ELSE found = NoMethod

(* The walk that is limited stops above the thirty-second class, the order of
   c3 has no such limit. *)
ASSUME DepthLimited ==
    LET line == [c \in 0 .. 40 |-> IF c = 40 THEN <<>> ELSE <<[parent |-> c + 1, kind |-> "extends"]>>]
    IN  /\ GetAncestors(line, 0) = [i \in 1 .. 32 |-> i]
        /\ GatherAncestors(ParentMapOf(line), 0) = [i \in 1 .. 40 |-> i]

----------------------------------------------------------------------------
(* Edges of the graph                                                       *)

Graph(label, extends, implements, methods) ==
    [label |-> label, extends |-> extends, implements |-> implements, methods |-> methods]
FourClasses == {"a", "b", "c", "d"}
NoEdges == [c \in FourClasses |-> <<>>]
Labelled(label) == [c \in FourClasses |-> label]
Abstract(m) == [m EXCEPT !.abstract = TRUE]

(* Where classes only extend, the target of METHOD_OVERRIDES is the method that
   a call is resolved to. *)
ASSUME OverridesAgree ==
    \A extends \in {[a |-> pa, b |-> pb, c |-> pc, d |-> <<>>] : pa \in Lists({"b", "c", "d"}, 2),
                        pb \in Lists({"c", "d"}, 2), pc \in Lists({"d"}, 1)},
       owners \in SUBSET FourClasses, strategy \in {"first-wins", "leftmost-base", "c3"} :
        LET g == Graph(Labelled("Class"), extends, NoEdges, Owned(owners))
            h == [c \in FourClasses |->
                    [i \in DOMAIN extends[c] |-> [parent |-> extends[c][i], kind |-> "extends"]]]
        IN  /\ Collides(g, "a", "m", strategy) <=>
                    "a" \notin owners /\ Cardinality(owners \intersect ToSet(GetAncestors(h, "a"))) > 1
            /\ Collides(g, "a", "m", strategy) =>
                    Resolved(g, "a", "m", strategy)
                        = LookupMethodByOwnerWithMRO(h, Owned(owners), "a", "m", strategy, {})

(* For Ruby it is not: of two included modules the edge names the first, the
   call takes the last. *)
ASSUME RubyDisagrees ==
    LET g == Graph(Labelled("Class"), NoEdges, [NoEdges EXCEPT !["a"] = <<"b", "c">>], Owned({"b", "c"}))
        h == MapOf(<<Heritage("a", "b", "include"), Heritage("a", "c", "include")>>)
    IN  /\ Resolved(g, "a", "m", "ruby-mixin") = "b"
        /\ LookupMethodByOwnerWithMRO(h, Owned({"b", "c"}), "a", "m", "ruby-mixin", {}) = "c"

(* Of Java and its like a class wins over interfaces, and interfaces alone are
   ambiguous.  An interface that is reached through the base class first counts
   as a class (the limitation at mro-processor.ts:730). *)
ASSUME ClassWins ==
    LET g(base) == Graph([Labelled("Interface") EXCEPT !["a"] = "Class", !["b"] = "Class"],
                         [NoEdges EXCEPT !["a"] = <<"b">>],
                         [NoEdges EXCEPT !["a"] = <<"c">>, !["b"] = base], Owned({"c", "d"}))
        noBase == [g(<<>>) EXCEPT !.implements["a"] = <<"c", "d">>]
        own == [noBase EXCEPT !.methods["b"] = <<Method("b", {0}, {"T"})>>]
    IN  /\ Resolved(noBase, "a", "m", "implements-split") = NoMethod
        /\ Resolved(own, "a", "m", "implements-split") = "b"
        /\ Resolved(g(<<"d">>), "a", "m", "implements-split") = "d"

(* Two overloads of one ancestor count as a collision (mro-processor.ts:268 says
   two ancestors), and make a single interface ambiguous. *)
ASSUME OverloadsCollide ==
    LET g == Graph([Labelled("Interface") EXCEPT !["a"] = "Class"], NoEdges,
                   [NoEdges EXCEPT !["a"] = <<"b">>],
                   [Owned({}) EXCEPT !["b"] = <<Method("first", {0}, {}), Method("second", {1}, {})>>])
    IN  /\ Collides(g, "a", "m", "implements-split")
        /\ Resolved(g, "a", "m", "implements-split") = NoMethod

(* Graphs of a class a, a class b and two that are classes or interfaces. *)
Links == {"none", "extends", "implements"}
To(links, kind) == SelectSeq(<<"b", "c", "d">>, LAMBDA p : p \in DOMAIN links /\ links[p] = kind)
Contracted ==
    {Graph([a |-> "Class", b |-> "Class", c |-> lc, d |-> ld],
           [a |-> To(la, "extends"), b |-> To(lb, "extends"), c |-> To(lcd, "extends"), d |-> <<>>],
           [a |-> To(la, "implements"), b |-> To(lb, "implements"), c |-> To(lcd, "implements"), d |-> <<>>],
           [Owned({}) EXCEPT !["a"] = ma, !["b"] = mb, !["c"] = mc,
                             !["d"] = <<Abstract(Method("d", {0}, {"T"}))>>]) :
        lc, ld \in {"Class", "Interface"},
        la \in [{"b", "c"} -> Links], lb \in [{"c", "d"} -> Links], lcd \in [{"d"} -> Links],
        ma \in {<<Method("a", {0}, {"T"})>>, <<Abstract(Method("a", {0}, {"T"}))>>},
        mb \in {<<>>, <<Method("b", {0}, {"T"})>>},
        mc \in {<<Method("c", {0}, {"T"})>>, <<Abstract(Method("c", {0}, {"T"}))>>}}

EdgesFrom(g, c) == {e \in MethodImplementsEdges(g) : e.from = c}

(* What is said to implement a method is concrete and of the class or above it,
   and another method unless a class is both extended further up and
   implemented; and a class with a concrete method of its own implements with it
   every contract it is under. *)
ASSUME ImplementsSound ==
    \A g \in Contracted :
        /\ \A e \in MethodImplementsEdges(g) :
              /\ e.from = e.to => \E x \in FourClasses \ {e.to} :
                    /\ g.extends[x] # <<>> /\ ~Contains(g.extends[x], e.to)
                    /\ Contains(g.implements[x], e.to)
              /\ \A i \in DOMAIN g.methods[e.from] : ~g.methods[e.from][i].abstract
              /\ \E x \in {"a", "b", "c"} :
                    /\ ~InterfaceLike(g, x)
                    /\ e.to \in Contracts(g, x)
                    /\ e.from = x \/ e.from \in ToSet(GatherAncestors(ParentMapIn(g), x))
        /\ ConcreteNamed(g, "a", "m") # <<>> =>
              LET reached == {e.to : e \in EdgesFrom(g, "a")}
                  above == {x \in ToSet(GatherAncestors(ParentMapIn(g), "a")) : g.methods[x] # <<>>}
              IN  /\ reached = Contracts(g, "a") \intersect above
                  /\ {x \in above : InterfaceLike(g, x)} \union (above \intersect ToSet(g.implements["a"]))
                        \subseteq reached

(* Of a class's own overloads the one that fits implements the method, none if
   several fit; only a class with no method of that name inherits one. *)
ASSUME OwnOverloads ==
    \A counts \in BoundedSeq({{}, {0}, {1}}, 2) :
        LET own == [i \in DOMAIN counts |-> Method(Overloads[i], counts[i], {})]
            g == Graph([Labelled("Class") EXCEPT !["c"] = "Interface"], [NoEdges EXCEPT !["a"] = <<"b">>],
                       [NoEdges EXCEPT !["a"] = <<"c">>],
                       [Owned({}) EXCEPT !["a"] = own, !["b"] = <<Method("b", {1}, {})>>,
                                         !["c"] = <<Abstract(Method("c", {1}, {}))>>])
            fit == {i \in DOMAIN counts : counts[i] # {0}}
        IN  {[from |-> e.from, sure |-> e.confident] : e \in MethodImplementsEdges(g)} =
                IF counts = <<>> THEN {[from |-> "b", sure |-> TRUE]}
                ELSE IF Cardinality(fit) = 1
                THEN {[from |-> Overloads[i], sure |-> counts[i] # {}] : i \in fit}
                ELSE {}

(* Classes n steps of EXTENDS above a, over classes only. *)
RECURSIVE BasesAt(_, _)
BasesAt(g, n) ==
    IF n = 0 THEN {"a"}
    ELSE {p \in FourClasses :
             /\ ~InterfaceLike(g, p)
             /\ \E c \in BasesAt(g, n - 1) :
                   Contains(g.extends[c], p) /\ ~Contains(g.implements[c], p)}
HasBody(g, c) == ConcreteNamed(g, c, "m") # <<>>

(* What a class inherits is the method of its nearest base class that has one,
   nothing if several are as near, and the default of an interface only if no
   base class has one and no other interface. *)
ASSUME NearestInherited ==
    \A g \in Contracted : ~HasBody(g, "a") =>
        LET with(n) == {c \in BasesAt(g, n) : HasBody(g, c)}
            levels == {n \in 1 .. 3 : with(n) # {}}
            nearest == with(CHOOSE n \in levels : \A k \in levels : n <= k)
        IN  \A x \in Contracts(g, "a") : \A t \in ToSet(g.methods[x]) :
                LET found == {m.id : m \in Implementers(g, "a", t)}
                IN  IF levels # {} THEN found = IF Cardinality(nearest) = 1 THEN nearest ELSE {}
                    ELSE found \subseteq {c \in {"c", "d"} \ {x} : InterfaceLike(g, c) /\ HasBody(g, c)}

(* A class that implements what its base class extends: the search among base
   classes does not leave out the method to be implemented (mro-processor.ts:576
   says that the search does), which is said to implement itself. *)
ASSUME SelfEdge ==
    LET g == Graph(Labelled("Class"), [NoEdges EXCEPT !["a"] = <<"b">>, !["b"] = <<"c">>],
                   [NoEdges EXCEPT !["a"] = <<"c">>], Owned({"c"}))
    IN  MethodImplementsEdges(g) = {[from |-> "c", to |-> "c", confident |-> TRUE]}

(* Where the types of both are known they decide, else the number of parameters;
   nothing is sure unless both numbers are known. *)
ASSUME TypesDecide ==
    \A a, b \in {[types |-> t, params |-> n] :
                     t \in {<<>>, <<"S">>, <<"T">>, <<"S", "T">>}, n \in {{}, {1}, {2}}} :
        LET r == ParameterTypesMatch(a, b)
            swapped == ParameterTypesMatch(b, a)
        IN  /\ r = swapped
            /\ r.confident => r.match
            /\ a = b => r.match
            /\ r.confident /\ a.types # <<>> /\ b.types # <<>> => a.types = b.types
            /\ r.confident => {} \notin {a.params, b.params} \/ <<>> \notin {a.types, b.types}
            /\ r.match /\ ~r.confident => a.params = {} \/ b.params = {}
=============================================================================
