------------------------ MODULE WorkerPoolRefinement ------------------------
(***************************************************************************)
(* WorkerPool implements ParallelMap: nothing of the jobs, the workers and *)
(* their replacements shows in what a dispatch answers.                    *)
(***************************************************************************)
EXTENDS WorkerPool

\* A line of the answer is a file of a result; a file two results have is two.
Lines == {l \in results \X Items : l[2] \in ItemsOf(l[1])}

\* Mutant: the results are sorted the wrong way round.
PrecedesBackwards(a, b) == \/ a[1].first > b[1].first
                           \/ a[1] = b[1] /\ a[2] < b[2]

\* The results are sorted by startIndex; a result keeps its files in order.
Precedes(a, b) == \/ a[1].first < b[1].first
                  \/ a[1] = b[1] /\ a[2] < b[2]

\* The files in the order in which the sorted results have them: the n-th line
\* is the one with n - 1 lines before it.
Answer ==
  [n \in 1 .. Cardinality(Lines) |->
     (CHOOSE l \in Lines : Cardinality({a \in Lines : Precedes(a, l)}) = n - 1)[2]]

Resolution == IF call = "resolved" THEN Answer ELSE <<>>

Promise == INSTANCE ParallelMap WITH answer <- Resolution, failed <- broken

\* A dispatch answers with every file once and in order or is rejected, and
\* nothing is answered after a failure.
ImplementsParallelMap == Promise!Spec
=============================================================================
