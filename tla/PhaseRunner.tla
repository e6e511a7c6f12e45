----------------------------- MODULE PhaseRunner -----------------------------
(***************************************************************************)
(* The runner of the ingestion pipeline (gitnexus/src/core/ingestion/      *)
(* pipeline-phases/runner.ts) and the list of phases it is given           *)
(* (core/ingestion/pipeline.ts).                                           *)
(*                                                                         *)
(* A phase is its name and the sequence of the names it depends on; what   *)
(* it computes is left out.  A failure of the validation is a record that  *)
(* says what the thrown error says.                                        *)
(***************************************************************************)
EXTENDS Naturals, SequencesExt

Phase(name, deps) == [name |-> name, deps |-> deps]

NamesIn(phases) == {phases[i].name : i \in DOMAIN phases}

PhaseCalled(phases, n) == phases[CHOOSE i \in DOMAIN phases : phases[i].name = n]

----------------------------------------------------------------------------
(* Kahn's algorithm                                                         *)

(* The phases that wait for n, in the order of the list, once per mention. *)
ReverseDeps(phases, n) ==
    FlattenSeq([i \in DOMAIN phases |->
        [j \in DOMAIN SelectSeq(phases[i].deps, LAMBDA d : d = n) |-> phases[i].name]])

(* One dependency of m has run. *)
Unblock(s, m) ==
    LET left == s.inDegree[m] - 1
    IN  [s EXCEPT !.inDegree[m] = left,
                  !.queue = IF left = 0 THEN Append(@, m) ELSE @]

RECURSIVE DrainQueue(_, _)
DrainQueue(phases, s) ==
    IF s.queue = <<>> THEN s
    ELSE LET n == Head(s.queue)
         IN  DrainQueue(phases,
                FoldLeft(Unblock,
                         [s EXCEPT !.queue = Tail(@), !.sorted = Append(@, n)],
                         ReverseDeps(phases, n)))

Kahn(phases) ==
    LET ready == SelectSeq(phases, LAMBDA p : p.deps = <<>>)
    IN  DrainQueue(phases,
            [inDegree |-> [n \in NamesIn(phases) |-> Len(PhaseCalled(phases, n).deps)],
             queue |-> [i \in DOMAIN ready |-> ready[i].name],
             sorted |-> <<>>])

----------------------------------------------------------------------------
(* findCyclePath                                                            *)

(* The depth-first search below the last phase of `stack`: the cycle it    *)
(* closes first, <<>> for null, and the phases visited so far.             *)
RECURSIVE Search(_, _, _, _)
Search(phases, remaining, stack, visited) ==
    LET here == Last(stack)
        seen == visited \union {here}
        follow(found, dep) ==
            IF found.cycle # <<>> \/ dep \notin remaining THEN found
            ELSE IF Contains(stack, dep)
            THEN [found EXCEPT !.cycle =
                    Append(SubSeq(stack, SelectInSeq(stack, LAMBDA n : n = dep), Len(stack)),
                           dep)]
            ELSE IF dep \in found.visited THEN found
            ELSE Search(phases, remaining, Append(stack, dep), found.visited)
    IN  FoldLeft(follow, [cycle |-> <<>>, visited |-> seen], PhaseCalled(phases, here).deps)

(* The cycle a search from `start` finds. *)
CycleFrom(phases, remaining, start) == Search(phases, remaining, <<start>>, {}).cycle

(* The starting points in the order of the list; <<>> stands for the code's
   fallback, the sorted leftovers. *)
FindCyclePath(phases, remaining) ==
    LET starts == SelectSeq(phases, LAMBDA p : p.name \in remaining)
        tryNext(cycle, p) ==
            IF cycle # <<>> THEN cycle ELSE CycleFrom(phases, remaining, p.name)
    IN  FoldLeft(tryNext, <<>>, starts)

----------------------------------------------------------------------------
(* topologicalSort                                                          *)

HasDuplicate(phases) ==
    \E i, j \in DOMAIN phases : i # j /\ phases[i].name = phases[j].name

HasMissing(phases) ==
    \E i \in DOMAIN phases : \E d \in ToSet(phases[i].deps) : d \notin NamesIn(phases)

(* The cycle, and how many other phases the message calls blocked. *)
CycleError(phases, remaining) ==
    LET cycle == FindCyclePath(phases, remaining)
    IN  [error |-> "cycle", cycle |-> cycle,
         blocked |-> Cardinality(remaining) - Cardinality(ToSet(cycle))]

TopologicalSort(phases) ==
    IF HasDuplicate(phases) THEN [error |-> "duplicate"]
    ELSE IF HasMissing(phases) THEN [error |-> "missing"]
    ELSE LET done == Kahn(phases)
         IN  IF Len(done.sorted) = Len(phases) THEN [error |-> "none", sorted |-> done.sorted]
             ELSE CycleError(phases, {n \in NamesIn(phases) : done.inDegree[n] > 0})

----------------------------------------------------------------------------
(* runPipeline                                                              *)

(* The next phase runs on the outputs of its declared dependencies, and    *)
(* the first that throws ends the pipeline.                                *)
RunPhase(phases, failing, r, n) ==
    IF r.status # "running" THEN r
    ELSE [r EXCEPT
            !.given = Append(@, [to |-> n,
                                 outputs |-> ToSet(PhaseCalled(phases, n).deps) \intersect r.results]),
            !.results = IF n \in failing THEN @ ELSE @ \union {n},
            !.status = IF n \in failing THEN "failed" ELSE @]

(* `given` is what each phase that was executed received, in order; every   *)
(* way of failing ends in one terminal error event for the caller.          *)
RunPipeline(phases, failing) ==
    LET order == TopologicalSort(phases)
        start == [status |-> "running", results |-> {}, given |-> <<>>]
        ran == FoldLeft(LAMBDA r, n : RunPhase(phases, failing, r, n), start, order.sorted)
    IN  IF order.error # "none" THEN [start EXCEPT !.status = "invalid"]
        ELSE [ran EXCEPT !.status = IF @ = "running" THEN "complete" ELSE @]

----------------------------------------------------------------------------
(* buildPhaseList                                                           *)

CorePhases ==
    << Phase("scan", <<>>),
       Phase("structure", <<"scan">>),
       Phase("markdown", <<"structure">>),
       Phase("cobol", <<"structure">>),
       Phase("parse", <<"structure", "markdown", "cobol">>),
       Phase("routes", <<"parse">>),
       Phase("tools", <<"parse">>),
       Phase("orm", <<"parse">>),
       Phase("crossFile", <<"parse", "routes", "tools", "orm">>) >>

ScopeResolutionPhase == Phase("scopeResolution", <<"parse", "crossFile", "structure">>)

GraphPhases ==
    << Phase("mro", <<"crossFile", "structure">>),
       Phase("communities", <<"mro", "structure">>),
       Phase("processes", <<"communities", "routes", "tools", "structure">>) >>

BuildPhaseList(options) ==
    CorePhases
        \o (IF options.netcoreFast THEN <<>> ELSE <<ScopeResolutionPhase>>)
        \o (IF options.skipGraphPhases THEN <<>> ELSE GraphPhases)

(* What each phase asks for with getPhaseOutput, which throws when it is not
   among the outputs given. *)
ReadsOf(n) ==
    CASE n = "scan" -> {}
      [] n = "structure" -> {"scan"}
      [] n \in {"routes", "tools", "orm", "crossFile"} -> {"parse"}
      [] n = "scopeResolution" -> {"structure", "parse"}
      [] n = "processes" -> {"structure", "communities", "routes", "tools"}
      [] OTHER -> {"structure"}
=============================================================================
