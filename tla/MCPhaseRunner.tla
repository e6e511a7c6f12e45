---------------------------- MODULE MCPhaseRunner ----------------------------
(***************************************************************************)
(* The phase runner on every list of three phases, and on the lists that   *)
(* the pipeline is built from.  TLC evaluates the assumptions whenever it  *)
(* checks a module that extends this one.                                  *)
(***************************************************************************)
EXTENDS PhaseRunner

ThreePhases == {"a", "b", "c"}

DepLists == {<<>>, <<"a", "a">>} \union
            {s \in BoundedSeq(ThreePhases, 2) : \A i, j \in DOMAIN s : s[i] = s[j] => i = j}
                \union {<<"c", "a", "b">>}

PhaseLists == {<<Phase("a", da), Phase("b", db), Phase("c", dc)>> :
                  da, db, dc \in DepLists}

(* Dependencies of one phase, and those it depends on through n others. *)
DepsOf(phases, N) == UNION {ToSet(PhaseCalled(phases, n).deps) : n \in N}
ReachOf(phases, n) ==
    LET one == DepsOf(phases, {n})
        two == one \union DepsOf(phases, one)
    IN  two \union DepsOf(phases, two)
Circular(phases) == {n \in NamesIn(phases) : n \in ReachOf(phases, n)}

Before(order, m, n) ==
    \E i, j \in DOMAIN order : order[i] = m /\ order[j] = n /\ i < j

(* A list is refused as cyclic exactly when it has a cycle, and otherwise put
   into an order that has every phase once and after all it depends on. *)
ASSUME SortedOrRefused ==
    \A phases \in PhaseLists :
        LET r == TopologicalSort(phases)
        IN  /\ r.error = (IF Circular(phases) = {} THEN "none" ELSE "cycle")
            /\ r.error = "none" =>
                  /\ Len(r.sorted) = Len(phases) /\ ToSet(r.sorted) = NamesIn(phases)
                  /\ \A n \in NamesIn(phases) :
                        \A m \in DepsOf(phases, {n}) : Before(r.sorted, m, n)

(* The path in the message is a cycle: closed, each phase depending on the
   next, none twice.  So the fallback to the sorted leftovers is never used,
   and the first starting point always leads to a cycle. *)
ASSUME CyclePathIsCycle ==
    \A phases \in PhaseLists :
        LET r == TopologicalSort(phases)
        IN  r.error = "cycle" =>
              /\ Len(r.cycle) > 1 /\ r.cycle[1] = Last(r.cycle)
              /\ IsInjective(Front(r.cycle))
              /\ \A i \in 1 .. Len(r.cycle) - 1 :
                    r.cycle[i + 1] \in DepsOf(phases, {r.cycle[i]})

(* The other leftovers are what the message calls "transitive dependents": it
   counts a second cycle among them (runner.ts:79). *)
ASSUME SecondCycleCounted ==
    LET r == TopologicalSort(<<Phase("a", <<"b">>), Phase("b", <<"a">>), Phase("c", <<"c">>)>>)
    IN  r.error = "cycle" /\ r.cycle = <<"a", "b", "a">> /\ r.blocked = 1

(* A phase is executed only with the outputs of all it depends on, and of
   nothing else; after a phase fails none is executed, so what ran is what
   does not depend on it, in order. *)
ASSUME OutputsComplete ==
    \A phases \in PhaseLists, failing \in SUBSET ThreePhases :
        LET r == RunPipeline(phases, failing)
            order == TopologicalSort(phases).sorted
        IN  /\ \A i \in DOMAIN r.given :
                  r.given[i].outputs = DepsOf(phases, {r.given[i].to})
            /\ r.status = "complete" => r.results = ThreePhases
            /\ r.status = "failed" =>
                  /\ Last(r.given).to \in failing
                  /\ r.results = {order[i] : i \in 1 .. Len(r.given) - 1}
                  /\ r.results \intersect failing = {}

----------------------------------------------------------------------------
(* The lists of buildPhaseList                                              *)

PhaseOptions == [netcoreFast : BOOLEAN, skipGraphPhases : BOOLEAN]

(* Under all options the pipeline completes, and every phase is given what it
   asks for. *)
ASSUME EveryReadGiven ==
    \A options \in PhaseOptions :
        LET phases == BuildPhaseList(options)
            r == RunPipeline(phases, {})
        IN  /\ r.status = "complete"
            /\ \A i \in DOMAIN r.given : ReadsOf(r.given[i].to) \subseteq r.given[i].outputs

(* Whichever phase reads what parsing accumulated has run before crossFile
   disposes it: routes, tools and orm in every order of the list. *)
SwapAt(s, i, j) == [s EXCEPT ![i] = s[j], ![j] = s[i]]
AllPhases == BuildPhaseList([netcoreFast |-> FALSE, skipGraphPhases |-> FALSE])

ASSUME DisposedLast ==
    \A i, j \in DOMAIN AllPhases :
        LET order == TopologicalSort(SwapAt(AllPhases, i, j)).sorted
        IN  \A n \in {"parse", "routes", "tools", "orm"} : Before(order, n, "crossFile")

(* The graph phases read the edges that scope resolution adds to the graph and
   do not declare it, so it is the order of the list that puts it before them
   (the comment at runner.ts:144 says the order does not matter). *)
ASSUME ListOrderMatters ==
    LET order(phases) == TopologicalSort(phases).sorted
        moved == Append(RemoveAt(AllPhases, 10), ScopeResolutionPhase)
    IN  /\ \A n \in {"mro", "communities", "processes"} :
              Before(order(AllPhases), "scopeResolution", n)
        /\ Before(order(moved), "mro", "scopeResolution")
=============================================================================
