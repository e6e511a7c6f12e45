-------------------------- MODULE WorkerPoolProofs --------------------------
(***************************************************************************)
(* For any number of workers and files, any retry limit and any faults, no *)
(* file of a running dispatch is lost or held twice, a dispatch that       *)
(* resolves has one result for every file, and the pool implements         *)
(* ParallelMap.                                                            *)
(*                                                                         *)
(* The invariant counts places: activeWorkers is at least the number of    *)
(* slots with something to do, so that the slot that sees it fall to zero  *)
(* is the last one.  Only then does an empty queue mean that every file is *)
(* in the results.                                                         *)
(***************************************************************************)
EXTENDS WorkerPoolRefinement, FiniteSetTheorems, SequenceTheorems, TLAPS

-----------------------------------------------------------------------------
(* The inductive invariant.                                                 *)

RunningOK == \A i \in Slots : run[i] = "running" => job[i] \in Jobs

Busy == {i \in Slots : run[i] # "idle"}
ActiveOK == Cardinality(Busy) <= active

PendingOK == ~stopped => call = "pending"

InQueue(x, k) == k \in DOMAIN jobs /\ x \in ItemsOf(jobs[k])
InSlot(x, i) == i \in Slots /\ run[i] = "running" /\ x \in ItemsOf(job[i])
InResult(x, r) == r \in results /\ x \in ItemsOf(r)

\* File x is in one place.
Held(x) == (\E k : InQueue(x, k)) \/ (\E i : InSlot(x, i)) \/ (\E r : InResult(x, r))
HeldOnce(x) ==
  /\ \A k, l : InQueue(x, k) /\ InQueue(x, l) => k = l
  /\ \A i, h : InSlot(x, i) /\ InSlot(x, h) => i = h
  /\ \A r, q : InResult(x, r) /\ InResult(x, q) => r = q
  /\ \A k, i : ~(InQueue(x, k) /\ InSlot(x, i))
  /\ \A k, r : ~(InQueue(x, k) /\ InResult(x, r))
  /\ \A i, r : ~(InSlot(x, i) /\ InResult(x, r))

Conserved == ~stopped => \A x \in Items : Held(x) /\ HeldOnce(x)

Answered == call = "resolved" =>
  \A x \in Items : /\ \E r : InResult(x, r)
                   /\ \A r, q : InResult(x, r) /\ InResult(x, q) => r = q

Inv == /\ StateTypeOK /\ RunningOK /\ ActiveOK
       /\ PendingOK /\ Conserved /\ Answered

-----------------------------------------------------------------------------
(* The cuts of createJobs.                                                  *)

Before == {p \in Nat \X Nat : p[1] < p[2]}

\* A set of numbers that is not empty has a least one.
LEMMA Least ==
  ASSUME NEW T \in SUBSET Nat, T # {}
  PROVE  \E m \in T : \A n \in T : m <= n
<1>1. IsWellFoundedOn(Before, Nat)
  BY NatLessThanWellFounded DEF OpToRel, Before
<1>2. PICK m \in T : \A n \in T : ~(<<n, m>> \in Before)
  BY <1>1, WFMin
<1>3. ASSUME NEW n \in T PROVE m <= n
  <2>1. ~(<<n, m>> \in Before)
    BY <1>2
  <2> QED BY <2>1 DEF Before
<1> QED BY <1>3

\* What the proofs use of a cut: where it ends, and that it grows.
LEMMA CutShape ==
  ASSUME NEW e \in Cuts
  PROVE  /\ Len(e) \in Items
         /\ DOMAIN e = 1 .. Len(e)
         /\ \A m \in 1 .. Len(e) : e[m] \in Items
         /\ e[Len(e)] = N
         /\ \A j, k \in 1 .. Len(e) : j < k => e[j] < e[k]
<1> USE PoolAssumption
<1>1. PICK n \in Items : e \in [1 .. n -> Items]
  BY DEF Cuts
<1>2. e \in Seq(Items) /\ Len(e) = n
  BY <1>1 DEF Items
<1> QED BY <1>1, <1>2 DEF Cuts

\* The jobs of a cut: each file is in one of them.
LEMMA CutIntoJobs ==
  ASSUME NEW e \in Cuts
  PROVE  /\ JobsCutAt(e) \in Seq(Jobs)
         /\ Len(JobsCutAt(e)) = Len(e)
         /\ Len(e) \in Nat \ {0}
         /\ \A x \in Items : \E m \in 1 .. Len(e) : x \in ItemsOf(JobsCutAt(e)[m])
         /\ \A x \in Items : \A m, n \in 1 .. Len(e) :
              x \in ItemsOf(JobsCutAt(e)[m]) /\ x \in ItemsOf(JobsCutAt(e)[n]) => m = n
<1> USE PoolAssumption
<1> DEFINE b == JobsCutAt(e)
<1>1. /\ Len(e) \in Items
      /\ DOMAIN e = 1 .. Len(e)
      /\ \A m \in 1 .. Len(e) : e[m] \in Items
      /\ e[Len(e)] = N
      /\ \A j, k \in 1 .. Len(e) : j < k => e[j] < e[k]
  BY CutShape
<1>2. Len(e) \in Nat \ {0}
  BY <1>1 DEF Items
<1>3. ASSUME NEW m \in 1 .. Len(e)
      PROVE  /\ b[m].first = IF m = 1 THEN 1 ELSE e[m - 1] + 1
             /\ b[m].last = e[m]
             /\ b[m] \in Jobs
  <2>1. b[m] = [first |-> IF m = 1 THEN 1 ELSE e[m - 1] + 1,
                last |-> e[m], attempt |-> 0]
    BY <1>1 DEF JobsCutAt
  <2>2. (IF m = 1 THEN 1 ELSE e[m - 1] + 1) \in Items
    <3>1. CASE m = 1
      BY <3>1 DEF Items
    <3>2. CASE m # 1
      <4>1. m - 1 \in 1 .. Len(e) /\ m - 1 < m
        BY <3>2, <1>2
      <4>2. e[m - 1] < e[m] /\ e[m - 1] \in Items /\ e[m] \in Items
        BY <4>1, <1>1
      <4> QED BY <3>2, <4>2 DEF Items
    <3> QED BY <3>1, <3>2
  <2>3. b[m] \in Jobs
    BY <2>1, <2>2, <1>1 DEF Jobs
  <2> QED BY <2>1, <2>3
<1>4. b \in Seq(Jobs) /\ Len(b) = Len(e)
  <2>1. b \in [1 .. Len(e) -> Jobs]
    BY <1>1, <1>3 DEF JobsCutAt
  <2> QED BY <2>1, <1>2
<1>5. ASSUME NEW x \in Items
      PROVE  \E m \in 1 .. Len(e) : x \in ItemsOf(b[m])
  <2> DEFINE T == {m \in 1 .. Len(e) : x <= e[m]}
  <2>1. Len(e) \in T
    BY <1>1, <1>2 DEF Items
  <2>2. PICK m \in T : \A n \in T : m <= n
    <3>1. T \in SUBSET Nat /\ T # {}
      BY <2>1, <1>2
    <3> HIDE DEF T
    <3> QED BY <3>1, Least
  <2> HIDE DEF b
  <2>3. m = 1 \/ e[m - 1] < x
    <3> SUFFICES ASSUME m # 1 PROVE e[m - 1] < x
      OBVIOUS
    <3>1. m - 1 \in 1 .. Len(e) /\ m - 1 \notin T
      BY <1>2, <2>2
    <3>2. e[m - 1] \in Items
      BY <3>1, <1>1
    <3> QED BY <3>1, <3>2 DEF Items
  <2>4. x \in ItemsOf(b[m])
    <3>1. b[m].first <= x
      <4>1. CASE m = 1
        BY <4>1, <1>3 DEF Items
      <4>2. CASE m # 1
        <5>1. m - 1 \in 1 .. Len(e)
          BY <4>2, <1>2
        <5> QED BY <5>1, <4>2, <2>3, <1>3, <1>1 DEF Items
      <4> QED BY <4>1, <4>2
    <3>2. x <= b[m].last
      BY <1>3
    <3>3. b[m] \in Jobs
      BY <1>3
    <3> QED BY <3>1, <3>2, <3>3 DEF ItemsOf, Jobs, Items
  <2> QED BY <2>4
<1>6. ASSUME NEW x \in Items, NEW m \in 1 .. Len(e), NEW n \in 1 .. Len(e),
             x \in ItemsOf(b[m]), m < n
      PROVE  x \notin ItemsOf(b[n])
  <2> HIDE DEF b
  <2>1. x <= e[m]
    BY <1>6, <1>3 DEF ItemsOf
  <2>2. n # 1 /\ n - 1 \in 1 .. Len(e) /\ (m = n - 1 \/ m < n - 1)
    BY <1>6, <1>2
  <2>3. e[m] <= e[n - 1] /\ e[m] \in Items /\ e[n - 1] \in Items
    BY <2>2, <1>1 DEF Items
  <2>4. b[n].first = e[n - 1] + 1 /\ b[n].last = e[n]
    BY <2>2, <1>3
  <2> QED BY <2>1, <2>3, <2>4, <1>1 DEF ItemsOf, Items
<1>7. ASSUME NEW x \in Items, NEW m \in 1 .. Len(e), NEW n \in 1 .. Len(e),
             x \in ItemsOf(b[m]), x \in ItemsOf(b[n])
      PROVE  m = n
  <2>1. ~(m < n) /\ ~(n < m)
    BY <1>6, <1>7
  <2> QED BY <2>1, <1>2
<1> QED BY <1>2, <1>4, <1>5, <1>7

-----------------------------------------------------------------------------
(* The halves of a job.                                                     *)

\* The two jobs SplitJob makes of j.
Halves(j) ==
  LET middle == j.first + (Length(j) + 1) \div 2
  IN  <<[j EXCEPT !.last = middle - 1], [j EXCEPT !.first = middle]>>

\* Each half of a job that is split has its files.
LEMMA HalvesOfJob ==
  ASSUME PoolAssumption, NEW j \in Jobs, Length(j) > 1, NEW front, front = Halves(j)
  PROVE  /\ front \in Seq(Jobs)
         /\ \A x : x \in ItemsOf(j) <=> \E k \in 1 .. Len(front) : x \in ItemsOf(front[k])
         /\ \A x : \A k, l \in 1 .. Len(front) :
              x \in ItemsOf(front[k]) /\ x \in ItemsOf(front[l]) => k = l
<1> DEFINE middle == j.first + (Length(j) + 1) \div 2
<1>0. front = <<[j EXCEPT !.last = middle - 1], [j EXCEPT !.first = middle]>>
  BY DEF Halves
<1>1. j.first \in 1 .. N /\ j.last \in 1 .. N /\ Length(j) = j.last - j.first + 1
  BY DEF Jobs, Items, Length
<1>2. middle \in j.first + 1 .. j.last /\ middle - 1 \in j.first .. j.last
  BY <1>1
<1>3. middle \in Items /\ middle - 1 \in Items
  BY <1>1, <1>2 DEF Items, PoolAssumption
<1>4. /\ [j EXCEPT !.last = middle - 1] \in Jobs /\ [j EXCEPT !.first = middle] \in Jobs
      /\ [j EXCEPT !.last = middle - 1].first = j.first
      /\ [j EXCEPT !.last = middle - 1].last = middle - 1
      /\ [j EXCEPT !.first = middle].first = middle
      /\ [j EXCEPT !.first = middle].last = j.last
  BY <1>3 DEF Jobs
<1>5. /\ front \in Seq(Jobs) /\ Len(front) = 2
      /\ front[1] = [j EXCEPT !.last = middle - 1] /\ front[2] = [j EXCEPT !.first = middle]
  BY <1>0, <1>4
<1> HIDE DEF middle
<1>6. /\ ItemsOf(front[1]) = j.first .. middle - 1
      /\ ItemsOf(front[2]) = middle .. j.last
  BY <1>4, <1>5 DEF ItemsOf
<1>7. ASSUME NEW x
      PROVE  /\ x \in ItemsOf(j) <=> x \in ItemsOf(front[1]) \/ x \in ItemsOf(front[2])
             /\ ~(x \in ItemsOf(front[1]) /\ x \in ItemsOf(front[2]))
  <2>1. ItemsOf(j) = j.first .. j.last
    BY DEF ItemsOf
  <2>2. \A a, b, m \in Int : m \in a + 1 .. b =>
          /\ a .. b = (a .. m - 1) \cup (m .. b)
          /\ \A y : ~(y \in a .. m - 1 /\ y \in m .. b)
    OBVIOUS
  <2> QED BY <2>1, <2>2, <1>1, <1>2, <1>6
<1>8. 1 .. Len(front) = {1, 2}
  BY <1>5
<1> QED BY <1>5, <1>7, <1>8

-----------------------------------------------------------------------------
(* Types.                                                                   *)

Results == {"none", "pending", "resolved", "rejected"}
Doings == {"idle", "running", "stopping", "starting"}
Threads == {"idle", "parsing", "parsed", "dead"}

\* What runWorker and maybeDone leave is well typed.
LEMMA RunNextType ==
  ASSUME StateTypeOK, RunningOK, NEW i \in Slots, NEW w \in 0 .. Size, w + 1 <= Size,
         NEW state \in Threads, RunNext(i, jobs, w, state)
  PROVE  /\ jobs' \in Seq(Jobs)
         /\ run' \in [Slots -> Doings] /\ job' \in [Slots -> Jobs \cup {NoJob}]
         /\ active' \in 0 .. Size /\ thread' \in [Slots -> Threads]
         /\ stopped' \in BOOLEAN /\ call' \in Results
         /\ RunningOK'
<1> USE PoolAssumption DEF StateTypeOK, Doings, Threads, Results
<1>1. CASE stopped \/ jobs = <<>>
  <2>1. /\ jobs' = jobs
        /\ run' = [run EXCEPT ![i] = "idle"]
        /\ job' = [job EXCEPT ![i] = NoJob]
        /\ thread' = [thread EXCEPT ![i] = state]
        /\ active' = w
        /\ \/ stopped' = TRUE /\ call' = "resolved"
           \/ UNCHANGED <<stopped, call>>
    BY <1>1 DEF RunNext
  <2> QED BY <2>1 DEF RunningOK
<1>2. CASE ~(stopped \/ jobs = <<>>)
  <2>1. /\ jobs' = Tail(jobs)
        /\ run' = [run EXCEPT ![i] = "running"]
        /\ job' = [job EXCEPT ![i] = Head(jobs)]
        /\ thread' = [thread EXCEPT ![i] = IF state = "idle" THEN "parsing" ELSE state]
        /\ active' = w + 1
        /\ UNCHANGED <<stopped, call>>
    BY <1>2 DEF RunNext
  <2>2. Head(jobs) \in Jobs /\ Tail(jobs) \in Seq(Jobs)
    BY <1>2, HeadTailProperties
  <2> QED BY <2>1, <2>2 DEF RunningOK
<1> QED BY <1>1, <1>2

\* What fail leaves is well typed.
LEMMA FailType ==
  ASSUME StateTypeOK, NEW i \in Slots, NEW kind \in {"timeout", "error", "exit", "start"},
         Fail(<<kind, i>>)
  PROVE  /\ stopped' \in BOOLEAN /\ broken' \in BOOLEAN /\ told' \in [Slots -> BOOLEAN]
         /\ {poolFailure', cause'} \subseteq Errors \cup {NoError}
<1>1. <<kind, i>> \in Errors
  BY DEF Errors
<1>2. broken' = TRUE /\ poolFailure' = <<kind, i>>
  BY DEF Fail
<1>3. CASE stopped
  BY <1>1, <1>2, <1>3 DEF Fail, StateTypeOK
<1>4. CASE ~stopped
  BY <1>1, <1>2, <1>4 DEF Fail, StateTypeOK
<1> QED BY <1>3, <1>4

\* The state after createJobs has cut the files and every slot has taken a job.
LEMMA StartState ==
  ASSUME StateTypeOK, NEW e \in Cuts, Start(JobsCutAt(e))
  PROVE  /\ call' = "pending" /\ stopped' = FALSE /\ results' = {}
         /\ jobs' \in Seq(Jobs)
         /\ DOMAIN jobs' = 1 .. (IF Size < Len(e) THEN Len(e) - Size ELSE 0)
         /\ \A k \in DOMAIN jobs' : jobs'[k] = JobsCutAt(e)[Size + k]
         /\ run' = [i \in Slots |-> IF i <= Len(e) THEN "running" ELSE "idle"]
         /\ job' = [i \in Slots |-> IF i <= Len(e) THEN JobsCutAt(e)[i] ELSE NoJob]
         /\ thread' \in [Slots -> Threads]
         /\ active' \in 0 .. Size
         /\ active' = Cardinality(Busy')
         /\ UNCHANGED <<told, broken, poolFailure, cause, reason, closed>>
<1> USE PoolAssumption
<1> DEFINE b == JobsCutAt(e)
           taken == 1 .. Len(b) \cap Slots
<1>1. b \in Seq(Jobs) /\ Len(b) = Len(e) /\ Len(e) \in Nat \ {0}
  BY CutIntoJobs
<1>2. /\ call' = "pending" /\ stopped' = FALSE /\ results' = {}
      /\ jobs' = SubSeq(b, Size + 1, Len(b))
      /\ run' = [i \in Slots |-> IF i \in taken THEN "running" ELSE "idle"]
      /\ job' = [i \in Slots |-> IF i \in taken THEN b[i] ELSE NoJob]
      /\ thread' = [i \in Slots |-> IF i \in taken /\ thread[i] = "idle" THEN "parsing"
                                    ELSE thread[i]]
      /\ active' = Cardinality(taken)
      /\ UNCHANGED <<told, broken, poolFailure, cause, reason, closed>>
  BY DEF Start, poolVars
<1>3. \A i \in Slots : i \in taken <=> i <= Len(e)
  BY <1>1 DEF Slots
<1>4. /\ SubSeq(b, Size + 1, Len(b)) \in Seq(Jobs)
      /\ Len(SubSeq(b, Size + 1, Len(b))) =
           IF Size + 1 <= Len(b) THEN Len(b) - (Size + 1) + 1 ELSE 0
      /\ \A k \in 1 .. Len(b) - (Size + 1) + 1 :
           SubSeq(b, Size + 1, Len(b))[k] = b[Size + 1 + k - 1]
  <2>1. \A k \in Size + 1 .. Len(b) : b[k] \in Jobs
    BY <1>1, ElementOfSeq
  <2> HIDE DEF b
  <2> QED BY <2>1, <1>1, SubSeqProperties
<1>5. /\ jobs' \in Seq(Jobs)
      /\ DOMAIN jobs' = 1 .. (IF Size < Len(e) THEN Len(e) - Size ELSE 0)
      /\ \A k \in DOMAIN jobs' : jobs'[k] = b[Size + k]
  <2> HIDE DEF b
  <2>1. Len(jobs') = IF Size < Len(e) THEN Len(e) - Size ELSE 0
    BY <1>1, <1>2, <1>4
  <2>2. jobs' \in Seq(Jobs) /\ DOMAIN jobs' = 1 .. Len(jobs')
    BY <1>2, <1>4
  <2>3. ASSUME NEW k \in DOMAIN jobs' PROVE jobs'[k] = b[Size + k]
    <3>1. k \in 1 .. Len(b) - (Size + 1) + 1 /\ Size + 1 + k - 1 = Size + k
      BY <2>1, <2>2, <1>1
    <3> QED BY <3>1, <1>2, <1>4
  <2> QED BY <2>1, <2>2, <2>3
<1>6. /\ run' = [i \in Slots |-> IF i <= Len(e) THEN "running" ELSE "idle"]
      /\ job' = [i \in Slots |-> IF i <= Len(e) THEN b[i] ELSE NoJob]
  <2> HIDE DEF b, taken
  <2> QED BY <1>2, <1>3
<1>7. thread' \in [Slots -> Threads]
  <2> HIDE DEF b, taken
  <2> QED BY <1>2 DEF StateTypeOK, Threads
<1>8. Busy' = taken
  <2>1. ASSUME NEW i \in Slots PROVE run'[i] # "idle" <=> i \in taken
    BY <1>2
  <2> QED BY <2>1 DEF Busy
<1>9. active' \in 0 .. Size
  <2>1. IsFiniteSet(Slots) /\ Cardinality(Slots) = Size
    BY FS_Interval DEF Slots
  <2>2. IsFiniteSet(taken) /\ Cardinality(taken) <= Size
    BY <2>1, FS_Subset
  <2>3. Cardinality(taken) \in Nat
    BY <2>2, FS_CardinalityType
  <2> QED BY <2>2, <2>3, <1>2
<1> QED BY <1>2, <1>5, <1>6, <1>7, <1>8, <1>9

-----------------------------------------------------------------------------
(* Counting busy slots.                                                     *)

LEMMA BusyFinite ==
  ASSUME PoolAssumption
  PROVE  /\ IsFiniteSet(Busy) /\ Cardinality(Busy) \in Nat /\ Cardinality(Busy) <= Size
         /\ IsFiniteSet(Busy') /\ Cardinality(Busy') \in Nat
<1> USE PoolAssumption
<1>1. IsFiniteSet(Slots) /\ Cardinality(Slots) = Size
  BY FS_Interval DEF Slots
<1>2. Busy \in SUBSET Slots /\ Busy' \in SUBSET Slots
  BY DEF Busy
<1> QED BY <1>1, <1>2, FS_Subset, FS_CardinalityType

\* A busy slot is counted in activeWorkers.
LEMMA BusyCounted ==
  ASSUME PoolAssumption, StateTypeOK, ActiveOK, NEW i \in Slots, run[i] # "idle"
  PROVE  active - 1 \in 0 .. Size
<1>1. IsFiniteSet(Busy) /\ Cardinality(Busy) \in Nat
  BY BusyFinite
<1>2. Cardinality(Busy) # 0
  BY <1>1, FS_EmptySet DEF Busy
<1> QED BY <1>1, <1>2 DEF ActiveOK, StateTypeOK, PoolAssumption

\* No slot becomes busy, and activeWorkers does not fall.
LEMMA BusyKept ==
  ASSUME PoolAssumption, StateTypeOK, ActiveOK, Busy' \subseteq Busy, active' = active
  PROVE  ActiveOK'
<1>1. Cardinality(Busy') <= Cardinality(Busy)
  BY BusyFinite, FS_Subset
<1> QED BY <1>1, BusyFinite DEF ActiveOK, StateTypeOK

\* Slot i is done and activeWorkers falls by one.
LEMMA BusyLess ==
  ASSUME PoolAssumption, StateTypeOK, ActiveOK, NEW i \in Busy,
         Busy' \subseteq Busy \ {i}, active' = active - 1
  PROVE  ActiveOK'
<1>1. IsFiniteSet(Busy \ {i}) /\ Cardinality(Busy \ {i}) = Cardinality(Busy) - 1
  BY BusyFinite, FS_RemoveElement
<1>2. Cardinality(Busy') <= Cardinality(Busy) - 1
  BY <1>1, FS_Subset
<1> QED BY <1>2, BusyFinite DEF ActiveOK, StateTypeOK

LEMMA RunNextBusy ==
  ASSUME PoolAssumption, StateTypeOK, ActiveOK, NEW i \in Slots, run[i] # "idle",
         NEW state, RunNext(i, jobs, active - 1, state)
  PROVE  ActiveOK'
<1>1. CASE stopped \/ jobs = <<>>
  <2>1. run' = [run EXCEPT ![i] = "idle"] /\ active' = active - 1
    BY <1>1 DEF RunNext
  <2>2. i \in Busy /\ Busy' \subseteq Busy \ {i}
    BY <2>1 DEF Busy, StateTypeOK
  <2> QED BY <2>1, <2>2, BusyLess
<1>2. CASE ~(stopped \/ jobs = <<>>)
  <2>1. run' = [run EXCEPT ![i] = "running"] /\ active' = active
    BY <1>2 DEF RunNext, StateTypeOK
  <2>2. Busy' \subseteq Busy
    BY <2>1 DEF Busy, StateTypeOK
  <2> QED BY <2>1, <2>2, BusyKept
<1> QED BY <1>1, <1>2

-----------------------------------------------------------------------------
(* The type invariant and the count are preserved.                          *)

LEMMA TypeStep ==
  ASSUME Inv, [Next]_vars
  PROVE  StateTypeOK' /\ RunningOK' /\ ActiveOK' /\ PendingOK'
<1> USE PoolAssumption DEF Inv
<1>1. CASE Dispatch
  <2>1. PICK e \in Cuts : Start(JobsCutAt(e))
    BY <1>1 DEF Dispatch
  <2>2. /\ call' = "pending" /\ stopped' = FALSE /\ results' = {}
        /\ jobs' \in Seq(Jobs)
        /\ run' = [i \in Slots |-> IF i <= Len(e) THEN "running" ELSE "idle"]
        /\ job' = [i \in Slots |-> IF i <= Len(e) THEN JobsCutAt(e)[i] ELSE NoJob]
        /\ thread' \in [Slots -> Threads]
        /\ active' \in 0 .. Size
        /\ active' = Cardinality(Busy')
        /\ UNCHANGED <<told, broken, poolFailure, cause, reason, closed>>
    BY <2>1, StartState
  <2>3. dispatched' \in 0 .. MaxDispatches
    BY <1>1 DEF Dispatch, CanDispatch, StateTypeOK, PoolAssumption
  <2>4. ASSUME NEW i \in Slots, i <= Len(e) PROVE JobsCutAt(e)[i] \in Jobs
    <3>1. /\ JobsCutAt(e) \in Seq(Jobs) /\ Len(JobsCutAt(e)) = Len(e)
          /\ Len(e) \in Nat
      BY CutIntoJobs
    <3>2. i \in 1 .. Len(JobsCutAt(e))
      BY <2>4, <3>1 DEF Slots
    <3> QED BY <3>1, <3>2, ElementOfSeq
  <2>5. /\ run' \in [Slots -> Doings] /\ job' \in [Slots -> Jobs \cup {NoJob}]
        /\ RunningOK'
    BY <2>2, <2>4 DEF Doings, RunningOK
  <2>6. StateTypeOK'
    BY <2>2, <2>3, <2>5 DEF StateTypeOK, Doings, Threads
  <2> QED BY <2>2, <2>5, <2>6 DEF ActiveOK, PendingOK
<1>2. CASE DispatchToBroken
  <2>1. Busy' = Busy
    BY <1>2 DEF DispatchToBroken, Busy
  <2>2. StateTypeOK'
    BY <1>2 DEF DispatchToBroken, CanDispatch, StateTypeOK, poolVars, PoolAssumption
  <2> QED BY <1>2, <2>1, <2>2 DEF DispatchToBroken, CanDispatch, RunningOK, ActiveOK,
                                  PendingOK
<1>3. CASE Terminate
  <2>1. Busy' = Busy
    BY <1>3 DEF Terminate, Busy, dispatchVars
  <2> QED BY <1>3, <2>1 DEF Terminate, StateTypeOK, RunningOK, ActiveOK, PendingOK,
                            dispatchVars, poolVars
<1>4. CASE Reject
  <2>1. Busy' = Busy
    BY <1>4 DEF Reject, Busy
  <2> QED BY <1>4, <2>1 DEF Reject, StateTypeOK, RunningOK, ActiveOK, PendingOK, poolVars
<1>5. ASSUME NEW i \in Slots, Progress(i) \/ SubBatchDone(i) \/ StartReplacement(i)
      PROVE  StateTypeOK' /\ RunningOK' /\ ActiveOK' /\ PendingOK'
  <2>1. /\ Busy' = Busy /\ active' = active
        /\ RunningOK' /\ PendingOK'
    BY <1>5 DEF Progress, SubBatchDone, StartReplacement, Busy, dispatchVars, RunningOK,
                PendingOK, StateTypeOK
  <2>2. StateTypeOK'
    <3>1. CASE Progress(i)
      BY <3>1 DEF Progress, StateTypeOK, poolVars
    <3>2. CASE SubBatchDone(i)
      BY <3>2 DEF SubBatchDone, StateTypeOK, dispatchVars, poolVars
    <3>3. CASE StartReplacement(i)
      BY <3>3 DEF StartReplacement, StateTypeOK, poolVars
    <3> QED BY <1>5, <3>1, <3>2, <3>3
  <2> QED BY <2>1, <2>2, BusyKept
<1>6. ASSUME NEW i \in Slots, Result(i) \/ DropReplacement(i) \/ ReplacementOnline(i)
      PROVE  StateTypeOK' /\ RunningOK' /\ ActiveOK' /\ PendingOK'
  <2>1. PICK state \in {"idle", "dead"} : RunNext(i, jobs, active - 1, state)
    BY <1>6 DEF Result, DropReplacement, ReplacementOnline
  <2>2. run[i] # "idle"
    BY <1>6 DEF Result, DropReplacement, ReplacementOnline, Listening
  <2>3. active - 1 \in 0 .. Size /\ active - 1 + 1 <= Size
    BY <2>2, BusyCounted DEF StateTypeOK, PoolAssumption
  <2>4. /\ jobs' \in Seq(Jobs)
        /\ run' \in [Slots -> Doings] /\ job' \in [Slots -> Jobs \cup {NoJob}]
        /\ active' \in 0 .. Size /\ thread' \in [Slots -> Threads]
        /\ stopped' \in BOOLEAN /\ call' \in Results
        /\ RunningOK'
    BY <2>1, <2>3, RunNextType DEF Threads
  <2>5. results' \subseteq Jobs
    BY <1>6 DEF Result, DropReplacement, ReplacementOnline, Listening, RunningOK, StateTypeOK
  <2>6. /\ told' \in [Slots -> BOOLEAN]
        /\ UNCHANGED <<dispatched, broken, poolFailure, cause, reason, closed>>
    BY <1>6 DEF Result, DropReplacement, ReplacementOnline, StateTypeOK, poolVars
  <2>7. StateTypeOK'
    BY <2>4, <2>5, <2>6 DEF StateTypeOK, Doings, Threads, Results
  <2>8. ActiveOK'
    BY <2>1, <2>2, RunNextBusy
  <2>9. PendingOK'
    BY <2>1 DEF RunNext, PendingOK
  <2> QED BY <2>4, <2>7, <2>8, <2>9
<1>7. ASSUME NEW i \in Slots, SplitJob(i) \/ RetryJob(i)
      PROVE  StateTypeOK' /\ RunningOK' /\ ActiveOK' /\ PendingOK'
  <2>1. job[i] \in Jobs /\ run[i] = "running"
    BY <1>7 DEF SplitJob, RetryJob, Silent, Listening, RunningOK
  <2>2. StopWorker(i)
    BY <1>7 DEF SplitJob, RetryJob
  <2>3. jobs' \in Seq(Jobs)
    <3>1. CASE SplitJob(i)
      <4>1. jobs' = Halves(job[i]) \o jobs /\ Length(job[i]) > 1
        BY <3>1 DEF SplitJob, Halves
      <4>2. Halves(job[i]) \in Seq(Jobs)
        BY <4>1, <2>1, HalvesOfJob
      <4> QED BY <4>1, <4>2, ConcatProperties DEF StateTypeOK
    <3>2. CASE RetryJob(i)
      <4>1. [job[i] EXCEPT !.attempt = @ + 1] \in Jobs
        <5>1. job[i].attempt \in 0 .. MaxTimeoutRetries
          BY <2>1 DEF Jobs
        <5>2. job[i].attempt + 1 \in 0 .. MaxTimeoutRetries
          BY <5>1, <3>2 DEF RetryJob, PoolAssumption
        <5> QED BY <5>2, <2>1 DEF Jobs
      <4>2. <<[job[i] EXCEPT !.attempt = @ + 1]>> \in Seq(Jobs)
        BY <4>1
      <4> QED BY <4>2, <3>2, ConcatProperties DEF RetryJob, StateTypeOK
    <3> QED BY <1>7, <3>1, <3>2
  <2>4. StateTypeOK' /\ RunningOK'
    BY <2>2, <2>3 DEF StopWorker, StateTypeOK, RunningOK, poolVars
  <2>5. Busy' \subseteq Busy /\ active' = active
    BY <2>1, <2>2 DEF StopWorker, Busy, StateTypeOK
  <2> QED BY <2>2, <2>4, <2>5, BusyKept DEF StopWorker, PendingOK
<1>8. ASSUME NEW i \in Slots,
             ErrorMessage(i) \/ Exit(i) \/ GiveUp(i) \/ ReplacementFails(i)
      PROVE  StateTypeOK' /\ RunningOK' /\ ActiveOK' /\ PendingOK'
  <2>1. /\ stopped' \in BOOLEAN /\ broken' \in BOOLEAN /\ told' \in [Slots -> BOOLEAN]
        /\ {poolFailure', cause'} \subseteq Errors \cup {NoError}
        /\ stopped => stopped'
    <3>1. CASE \E kind \in {"timeout", "error", "exit", "start"} : Fail(<<kind, i>>)
      BY <3>1, FailType DEF Fail
    <3>2. CASE UNCHANGED <<stopped, told, poolVars>>
      BY <3>2 DEF StateTypeOK, poolVars
    <3> QED BY <1>8, <3>1, <3>2 DEF ErrorMessage, Exit, GiveUp, ReplacementFails
  <2>2. UNCHANGED <<dispatched, call, jobs, results, reason, closed>>
    BY <1>8 DEF ErrorMessage, Exit, GiveUp, ReplacementFails, UnchangedByFail
  <2>3. thread' \in [Slots -> Threads]
    BY <1>8 DEF ErrorMessage, Exit, GiveUp, ReplacementFails, StateTypeOK, Threads
  <2>4. \/ UNCHANGED <<run, job, active>>
        \/ /\ run[i] # "idle" /\ run' = [run EXCEPT ![i] = "idle"]
           /\ job' = job \/ job' = [job EXCEPT ![i] = NoJob]
           /\ active' = active \/ active' = active - 1
    BY <1>8 DEF ErrorMessage, Exit, GiveUp, ReplacementFails, Abandon, Silent, Listening
  <2>5. active' \in 0 .. Size
    BY <2>4, BusyCounted DEF StateTypeOK
  <2>6. run' \in [Slots -> Doings] /\ job' \in [Slots -> Jobs \cup {NoJob}] /\ RunningOK'
    BY <2>4 DEF StateTypeOK, Doings, RunningOK
  <2>7. StateTypeOK'
    BY <2>1, <2>2, <2>3, <2>5, <2>6 DEF StateTypeOK, Doings, Threads
  <2>8. ActiveOK'
    <3>1. CASE UNCHANGED <<run, job, active>>
      BY <3>1, BusyKept DEF Busy
    <3>2. CASE run[i] # "idle" /\ run' = [run EXCEPT ![i] = "idle"]
      <4>1. i \in Busy /\ Busy' \subseteq Busy \ {i}
        BY <3>2 DEF Busy, StateTypeOK
      <4>2. CASE active' = active
        BY <4>1, <4>2, BusyKept
      <4>3. CASE active' = active - 1
        BY <4>1, <4>3, BusyLess
      <4> QED BY <2>4, <4>2, <4>3
    <3> QED BY <2>4, <3>1, <3>2
  <2> QED BY <2>1, <2>2, <2>6, <2>7, <2>8 DEF PendingOK, StateTypeOK
<1>9. CASE UNCHANGED vars
  <2>1. Busy' = Busy
    BY <1>9 DEF vars, dispatchVars, Busy
  <2> QED BY <1>9, <2>1 DEF vars, dispatchVars, poolVars, StateTypeOK, RunningOK, ActiveOK,
                            PendingOK
<1> QED BY <1>1, <1>2, <1>3, <1>4, <1>5, <1>6, <1>7, <1>8, <1>9
        DEF Next, Caller, Message, Timeout, Replace, Quiet

-----------------------------------------------------------------------------
(* No file is lost or held twice.                                           *)

\* The slot takes the head of the queue.
LEMMA TakePlaces ==
  ASSUME StateTypeOK, NEW i \in Slots, NEW w, NEW state, RunNext(i, jobs, w, state),
         ~stopped, jobs # <<>>, NEW x
  PROVE  /\ \A k : InQueue(x, k) \/ InQueue(x, k)' => k \in Nat \ {0}
         /\ \A k \in Nat \ {0} : InQueue(x, k)' <=> InQueue(x, k + 1)
         /\ \A h : InSlot(x, h)' <=> IF h = i THEN InQueue(x, 1) ELSE InSlot(x, h)
<1>1. /\ jobs' = Tail(jobs)
      /\ run' = [run EXCEPT ![i] = "running"]
      /\ job' = [job EXCEPT ![i] = Head(jobs)]
  BY DEF RunNext
<1>2. /\ jobs \in Seq(Jobs) /\ Len(jobs) \in Nat \ {0} /\ DOMAIN jobs = 1 .. Len(jobs)
      /\ Head(jobs) = jobs[1]
  BY EmptySeq, LenProperties DEF StateTypeOK
<1>3. /\ DOMAIN jobs' = 1 .. (Len(jobs) - 1)
      /\ \A k \in DOMAIN jobs' : jobs'[k] = jobs[k + 1]
  BY <1>1, <1>2, HeadTailProperties, LenProperties
<1>4. \A k : InQueue(x, k) \/ InQueue(x, k)' => k \in Nat \ {0}
  BY <1>2, <1>3 DEF InQueue
<1>5. ASSUME NEW k \in Nat \ {0} PROVE InQueue(x, k)' <=> InQueue(x, k + 1)
  <2>1. k \in DOMAIN jobs' <=> k + 1 \in DOMAIN jobs
    BY <1>2, <1>3
  <2> QED BY <2>1, <1>3 DEF InQueue, ItemsOf
<1>6. ASSUME NEW h
      PROVE  InSlot(x, h)' <=> IF h = i THEN InQueue(x, 1) ELSE InSlot(x, h)
  <2>1. CASE h = i
    <3>1. run'[i] = "running" /\ job'[i] = jobs[1]
      BY <1>1, <1>2 DEF StateTypeOK
    <3>2. 1 \in DOMAIN jobs
      BY <1>2
    <3> QED BY <2>1, <3>1, <3>2 DEF InSlot, InQueue, ItemsOf
  <2>2. CASE h # i
    BY <2>2, <1>1 DEF InSlot, ItemsOf, StateTypeOK
  <2> QED BY <2>1, <2>2
<1> QED BY <1>4, <1>5, <1>6

\* The queue is empty: the slot becomes idle.
LEMMA EmptyPlaces ==
  ASSUME StateTypeOK, NEW i \in Slots, NEW w, NEW state, RunNext(i, jobs, w, state),
         ~stopped, jobs = <<>>, NEW x
  PROVE  /\ \A k : ~InQueue(x, k) /\ ~InQueue(x, k)'
         /\ \A h : InSlot(x, h)' <=> h # i /\ InSlot(x, h)
<1>1. /\ jobs' = <<>>
      /\ run' = [run EXCEPT ![i] = "idle"]
      /\ job' = [job EXCEPT ![i] = NoJob]
  BY DEF RunNext
<1>2. DOMAIN jobs = {} /\ DOMAIN jobs' = {}
  BY <1>1, EmptySeq, LenProperties
<1>3. \A k : ~InQueue(x, k) /\ ~InQueue(x, k)'
  BY <1>2 DEF InQueue
<1>4. ASSUME NEW h PROVE InSlot(x, h)' <=> h # i /\ InSlot(x, h)
  BY <1>1 DEF InSlot, ItemsOf, StateTypeOK
<1> QED BY <1>3, <1>4

\* Slot i hands in its job, if it runs one, and takes the next.
LEMMA HandIn ==
  ASSUME StateTypeOK, NEW i \in Slots, NEW w, NEW state, RunNext(i, jobs, w, state),
         ~stopped, NEW x, Held(x), HeldOnce(x),
         \A r : InResult(x, r)' <=> InResult(x, r) \/ (InSlot(x, i) /\ r = job[i])
  PROVE  Held(x)' /\ HeldOnce(x)'
<1>1. CASE jobs # <<>>
  <2>1. /\ \A k : InQueue(x, k) \/ InQueue(x, k)' => k \in Nat \ {0}
        /\ \A k \in Nat \ {0} : InQueue(x, k)' <=> InQueue(x, k + 1)
        /\ \A h : InSlot(x, h)' <=> IF h = i THEN InQueue(x, 1) ELSE InSlot(x, h)
    BY <1>1, TakePlaces
  <2>2. Held(x)'
    <3>1. CASE \E k : InQueue(x, k)
      <4>1. PICK k : InQueue(x, k)
        BY <3>1
      <4>2. k \in Nat \ {0}
        BY <4>1, <2>1
      <4>3. CASE k = 1
        BY <4>1, <4>3, <2>1 DEF Held
      <4>4. CASE k # 1
        <5>1. k - 1 \in Nat \ {0} /\ (k - 1) + 1 = k
          BY <4>2, <4>4
        <5>2. InQueue(x, k - 1)'
          BY <5>1, <4>1, <2>1
        <5> QED BY <5>2 DEF Held
      <4> QED BY <4>3, <4>4
    <3>2. CASE \E h : InSlot(x, h)
      BY <3>2, <2>1 DEF Held
    <3>3. CASE \E r : InResult(x, r)
      BY <3>3 DEF Held
    <3> QED BY <3>1, <3>2, <3>3 DEF Held
  <2>3. ASSUME NEW k, NEW l, InQueue(x, k)', InQueue(x, l)' PROVE k = l
    <3>1. k \in Nat /\ l \in Nat /\ InQueue(x, k + 1) /\ InQueue(x, l + 1)
      BY <2>1, <2>3
    <3>2. k + 1 = l + 1
      BY <3>1 DEF HeldOnce
    <3> QED BY <3>1, <3>2
  <2>4. ASSUME NEW k, InQueue(x, k)'
        PROVE  /\ k + 1 # 1 /\ InQueue(x, k + 1)
               /\ ~InQueue(x, 1)
    <3>1. k + 1 # 1 /\ InQueue(x, k + 1)
      BY <2>1, <2>4
    <3> QED BY <3>1 DEF HeldOnce
  <2>5. \A k, h : ~(InQueue(x, k)' /\ InSlot(x, h)')
    BY <2>1, <2>4 DEF HeldOnce
  <2>6. \A k, r : ~(InQueue(x, k)' /\ InResult(x, r)')
    BY <2>4 DEF HeldOnce
  <2>7. \A h, g : InSlot(x, h)' /\ InSlot(x, g)' => h = g
    BY <2>1 DEF HeldOnce
  <2>8. \A h, r : ~(InSlot(x, h)' /\ InResult(x, r)')
    BY <2>1 DEF HeldOnce
  <2>9. \A r, q : InResult(x, r)' /\ InResult(x, q)' => r = q
    BY DEF HeldOnce
  <2> QED BY <2>2, <2>3, <2>5, <2>6, <2>7, <2>8, <2>9 DEF HeldOnce
<1>2. CASE jobs = <<>>
  <2>1. /\ \A k : ~InQueue(x, k) /\ ~InQueue(x, k)'
        /\ \A h : InSlot(x, h)' <=> h # i /\ InSlot(x, h)
    BY <1>2, EmptyPlaces
  <2>2. Held(x)'
    BY <2>1 DEF Held
  <2>3. HeldOnce(x)'
    BY <2>1 DEF HeldOnce
  <2> QED BY <2>2, <2>3
<1> QED BY <1>1, <1>2

\* Slot i puts its job back: `front` holds each of its files once, and goes
\* before the queue.
LEMMA PutBack ==
  ASSUME StateTypeOK, NEW i \in Slots, run[i] = "running", StopWorker(i),
         NEW front \in Seq(Jobs), jobs' = front \o jobs,
         NEW x, Held(x), HeldOnce(x),
         InSlot(x, i) <=> \E k \in 1 .. Len(front) : x \in ItemsOf(front[k]),
         \A k, l \in 1 .. Len(front) :
           x \in ItemsOf(front[k]) /\ x \in ItemsOf(front[l]) => k = l
  PROVE  Held(x)' /\ HeldOnce(x)'
<1> DEFINE n == Len(front)
           InFront(k) == k \in 1 .. n /\ x \in ItemsOf(front[k])
<1>1. n \in Nat
  BY LenProperties
<1>2. /\ \A h : InSlot(x, h)' <=> h # i /\ InSlot(x, h)
      /\ \A r : InResult(x, r)' <=> InResult(x, r)
  BY DEF StopWorker, InSlot, InResult, ItemsOf, StateTypeOK
<1>3. /\ jobs \in Seq(Jobs) /\ Len(jobs) \in Nat /\ DOMAIN jobs = 1 .. Len(jobs)
      /\ DOMAIN jobs' = 1 .. n + Len(jobs)
      /\ \A k \in 1 .. n + Len(jobs) : jobs'[k] = IF k <= n THEN front[k] ELSE jobs[k - n]
  <2>1. jobs \in Seq(Jobs) /\ Len(jobs) \in Nat /\ DOMAIN jobs = 1 .. Len(jobs)
    BY LenProperties DEF StateTypeOK
  <2>2. /\ front \o jobs \in Seq(Jobs)
        /\ Len(front \o jobs) = n + Len(jobs)
        /\ \A k \in 1 .. n + Len(jobs) :
             (front \o jobs)[k] = IF k <= n THEN front[k] ELSE jobs[k - n]
    BY <2>1, ConcatProperties
  <2>3. DOMAIN jobs' = 1 .. Len(jobs')
    BY <2>2, LenProperties
  <2> QED BY <2>1, <2>2, <2>3
<1>4. ASSUME NEW k
      PROVE  InQueue(x, k)' <=> InFront(k) \/ (k \in Nat /\ k > n /\ InQueue(x, k - n))
  <2>1. CASE k \in 1 .. n
    <3>1. k \in DOMAIN jobs' /\ jobs'[k] = front[k]
      BY <2>1, <1>1, <1>3
    <3> QED BY <3>1, <2>1, <1>1 DEF InQueue, ItemsOf
  <2>2. CASE k \in n + 1 .. n + Len(jobs)
    <3>1. /\ k \in DOMAIN jobs' /\ jobs'[k] = jobs[k - n] /\ k - n \in DOMAIN jobs
          /\ k \notin 1 .. n /\ k \in Nat /\ k > n
      BY <2>2, <1>1, <1>3
    <3> QED BY <3>1 DEF InQueue, ItemsOf
  <2>3. CASE k \notin 1 .. n /\ k \notin n + 1 .. n + Len(jobs)
    <3>1. k \notin DOMAIN jobs'
      BY <2>3, <1>1, <1>3
    <3>2. ~(k \in Nat /\ k > n /\ k - n \in DOMAIN jobs)
      BY <2>3, <1>1, <1>3
    <3> QED BY <3>1, <3>2, <2>3 DEF InQueue
  <2> QED BY <2>1, <2>2, <2>3
<1>5. /\ InSlot(x, i) <=> \E k : InFront(k)
      /\ \A k, l : InFront(k) /\ InFront(l) => k = l
  OBVIOUS
<1>6. \A k : InFront(k) => k \in 1 .. n
  OBVIOUS
<1> HIDE DEF InFront, n
<1>7. Held(x)'
  <2>1. CASE \E k : InQueue(x, k)
    <3>1. PICK k : InQueue(x, k)
      BY <2>1
    <3>2. k \in Nat /\ k > 0
      BY <3>1, <1>3 DEF InQueue
    <3>3. k + n \in Nat /\ k + n > n /\ (k + n) - n = k
      BY <3>2, <1>1
    <3>4. InQueue(x, k + n)'
      BY <3>1, <3>3, <1>4
    <3> QED BY <3>4 DEF Held
  <2>2. CASE InSlot(x, i)
    BY <2>2, <1>4, <1>5 DEF Held
  <2>3. CASE \E h : h # i /\ InSlot(x, h)
    BY <2>3, <1>2 DEF Held
  <2>4. CASE \E r : InResult(x, r)
    BY <2>4, <1>2 DEF Held
  <2> QED BY <2>1, <2>2, <2>3, <2>4 DEF Held
<1>8. ASSUME NEW k, NEW l, InQueue(x, k)', InQueue(x, l)' PROVE k = l
  <2>1. CASE InFront(k) /\ InFront(l)
    BY <2>1, <1>5
  <2>2. CASE InSlot(x, i)
    BY <2>2, <1>4, <1>5, <1>8 DEF HeldOnce
  <2>3. CASE ~InSlot(x, i)
    <3>1. /\ k \in Nat /\ k > n /\ InQueue(x, k - n)
          /\ l \in Nat /\ l > n /\ InQueue(x, l - n)
      BY <2>3, <1>4, <1>5, <1>8
    <3>2. k - n = l - n
      BY <3>1 DEF HeldOnce
    <3> QED BY <3>1, <3>2, <1>1
  <2> QED BY <2>2, <2>3
<1>9. ASSUME NEW k, InQueue(x, k)'
      PROVE  InSlot(x, i) \/ \E l : InQueue(x, l)
  BY <1>4, <1>5, <1>9
<1>10. HeldOnce(x)'
  <2>1. \A k, h : ~(InQueue(x, k)' /\ InSlot(x, h)')
    BY <1>2, <1>9 DEF HeldOnce
  <2>2. \A k, r : ~(InQueue(x, k)' /\ InResult(x, r)')
    BY <1>2, <1>9 DEF HeldOnce
  <2> QED BY <1>2, <1>8, <2>1, <2>2 DEF HeldOnce
<1> QED BY <1>7, <1>10

\* A running dispatch goes on with its files where they are.
LEMMA PlacesKept ==
  ASSUME Conserved, stopped' \/ ~stopped,
         ~stopped' => UNCHANGED <<jobs, results>>,
         ~stopped' => \A x : \A h : InSlot(x, h)' <=> InSlot(x, h)
  PROVE  Conserved'
<1> SUFFICES ASSUME ~stopped', NEW x \in Items PROVE Held(x)' /\ HeldOnce(x)'
  BY DEF Conserved
<1>1. /\ \A k : InQueue(x, k)' <=> InQueue(x, k)
      /\ \A h : InSlot(x, h)' <=> InSlot(x, h)
      /\ \A r : InResult(x, r)' <=> InResult(x, r)
  BY DEF InQueue, InResult, ItemsOf
<1>2. Held(x) /\ HeldOnce(x)
  BY DEF Conserved
<1>3. Held(x)'
  BY <1>1, <1>2 DEF Held
<1>4. HeldOnce(x)'
  BY <1>1, <1>2 DEF HeldOnce
<1> QED BY <1>3, <1>4

\* The start of a dispatch puts every file in one place.
LEMMA StartPlaces ==
  ASSUME PoolAssumption, StateTypeOK, NEW e \in Cuts, Start(JobsCutAt(e)), NEW x \in Items
  PROVE  Held(x)' /\ HeldOnce(x)'
<1> DEFINE b == JobsCutAt(e)
           At(m) == m \in 1 .. Len(e) /\ x \in ItemsOf(b[m])
<1>1. /\ Len(e) \in Nat \ {0} /\ Size \in Nat \ {0}
      /\ \E m : At(m)
      /\ \A m, n : At(m) /\ At(n) => m = n
  BY CutIntoJobs DEF PoolAssumption
<1>2. /\ results' = {}
      /\ DOMAIN jobs' = 1 .. (IF Size < Len(e) THEN Len(e) - Size ELSE 0)
      /\ \A k \in DOMAIN jobs' : jobs'[k] = b[Size + k]
      /\ run' = [i \in Slots |-> IF i <= Len(e) THEN "running" ELSE "idle"]
      /\ job' = [i \in Slots |-> IF i <= Len(e) THEN b[i] ELSE NoJob]
  BY StartState
<1>3. ASSUME NEW k PROVE InQueue(x, k)' <=> k \in Nat \ {0} /\ At(Size + k)
  <2>1. k \in DOMAIN jobs' <=> k \in Nat \ {0} /\ Size + k \in 1 .. Len(e)
    BY <1>1, <1>2
  <2> QED BY <1>2, <2>1 DEF InQueue, ItemsOf
<1>4. ASSUME NEW i PROVE InSlot(x, i)' <=> i \in 1 .. Size /\ At(i)
  <2>1. i \in Slots => (run'[i] = "running" <=> i \in 1 .. Len(e))
    BY <1>1, <1>2 DEF Slots
  <2>2. i \in Slots /\ i \in 1 .. Len(e) => job'[i] = b[i]
    BY <1>1, <1>2 DEF Slots
  <2> HIDE DEF b
  <2> QED BY <2>1, <2>2 DEF InSlot, ItemsOf, Slots
<1>5. \A r : ~InResult(x, r)'
  BY <1>2 DEF InResult
<1>6. \A m : At(m) => m \in Nat \ {0}
  BY <1>1
<1> HIDE DEF At
<1>7. Held(x)'
  <2>1. PICK m : At(m)
    BY <1>1
  <2>2. CASE m <= Size
    <3>1. m \in 1 .. Size
      BY <2>1, <2>2, <1>1, <1>6
    <3> QED BY <2>1, <3>1, <1>4 DEF Held
  <2>3. CASE ~(m <= Size)
    <3>1. m - Size \in Nat \ {0} /\ Size + (m - Size) = m
      BY <2>1, <2>3, <1>1, <1>6
    <3>2. InQueue(x, m - Size)'
      BY <2>1, <3>1, <1>3
    <3> QED BY <3>2 DEF Held
  <2> QED BY <2>2, <2>3
<1>8. ASSUME NEW k, NEW l, InQueue(x, k)', InQueue(x, l)' PROVE k = l
  <2>1. k \in Nat /\ l \in Nat /\ Size + k = Size + l
    BY <1>1, <1>3, <1>8
  <2> QED BY <2>1, <1>1
<1>9. ASSUME NEW k, NEW i, InQueue(x, k)', InSlot(x, i)' PROVE FALSE
  <2>1. k \in Nat \ {0} /\ i \in 1 .. Size /\ Size + k = i
    BY <1>1, <1>3, <1>4, <1>9
  <2> QED BY <2>1, <1>1
<1>10. \A i, h : InSlot(x, i)' /\ InSlot(x, h)' => i = h
  BY <1>1, <1>4
<1>11. HeldOnce(x)'
  BY <1>5, <1>8, <1>9, <1>10 DEF HeldOnce
<1> QED BY <1>7, <1>11

LEMMA PlacesStep ==
  ASSUME Inv, [Next]_vars
  PROVE  Conserved'
<1> USE PoolAssumption DEF Inv
<1>1. CASE Dispatch
  <2>1. PICK e \in Cuts : Start(JobsCutAt(e))
    BY <1>1 DEF Dispatch
  <2> QED BY <2>1, StartPlaces DEF Conserved
<1>2. CASE DispatchToBroken \/ Terminate \/ Reject \/ UNCHANGED vars
  <2>1. UNCHANGED <<jobs, run, job, results, stopped>>
    BY <1>2 DEF DispatchToBroken, Terminate, Reject, vars, dispatchVars
  <2> QED BY <2>1, PlacesKept DEF InSlot, ItemsOf
<1>3. ASSUME NEW i \in Slots, Progress(i) \/ SubBatchDone(i)
      PROVE  Conserved'
  <2>1. UNCHANGED <<jobs, run, job, results, stopped>>
    BY <1>3 DEF Progress, SubBatchDone, dispatchVars
  <2> QED BY <2>1, PlacesKept DEF InSlot, ItemsOf
<1>4. ASSUME NEW i \in Slots, StartReplacement(i)
      PROVE  Conserved'
  <2>1. /\ UNCHANGED <<jobs, job, results, stopped>>
        /\ run[i] # "running" /\ run' = [run EXCEPT ![i] = "starting"]
    BY <1>4 DEF StartReplacement
  <2>2. \A x : \A h : InSlot(x, h)' <=> InSlot(x, h)
    BY <2>1 DEF InSlot, ItemsOf, StateTypeOK
  <2> QED BY <2>1, <2>2, PlacesKept
<1>5. ASSUME NEW i \in Slots, Result(i) \/ ReplacementOnline(i)
      PROVE  Conserved'
  <2>1. ~stopped /\ RunNext(i, jobs, active - 1, "idle")
    BY <1>5 DEF Result, ReplacementOnline
  <2>2. ASSUME NEW x, NEW r
        PROVE  InResult(x, r)' <=> InResult(x, r) \/ (InSlot(x, i) /\ r = job[i])
    BY <1>5 DEF Result, ReplacementOnline, Listening, InResult, InSlot, ItemsOf
  <2> QED BY <2>1, <2>2, HandIn DEF Conserved
<1>6. ASSUME NEW i \in Slots, SplitJob(i)
      PROVE  Conserved'
  <2> DEFINE j == job[i]
             front == Halves(j)
  <2>1. /\ run[i] = "running" /\ j \in Jobs /\ Length(j) > 1
        /\ StopWorker(i) /\ jobs' = front \o jobs
    BY <1>6 DEF SplitJob, Silent, Listening, RunningOK, Halves
  <2>2. /\ front \in Seq(Jobs)
        /\ \A x : x \in ItemsOf(j) <=> \E k \in 1 .. Len(front) : x \in ItemsOf(front[k])
        /\ \A x : \A k, l \in 1 .. Len(front) :
             x \in ItemsOf(front[k]) /\ x \in ItemsOf(front[l]) => k = l
    BY <2>1, HalvesOfJob
  <2> HIDE DEF front
  <2>3. \A x : InSlot(x, i) <=> x \in ItemsOf(job[i])
    BY <2>1 DEF InSlot
  <2>4. stopped' = stopped
    BY <2>1 DEF StopWorker
  <2> QED BY <2>1, <2>2, <2>3, <2>4, PutBack DEF Conserved
<1>7. ASSUME NEW i \in Slots, RetryJob(i)
      PROVE  Conserved'
  <2> DEFINE again == [job[i] EXCEPT !.attempt = @ + 1]
             front == <<again>>
  <2>1. /\ run[i] = "running" /\ job[i] \in Jobs /\ job[i].attempt < MaxTimeoutRetries
        /\ StopWorker(i) /\ jobs' = front \o jobs
    BY <1>7 DEF RetryJob, Silent, Listening, RunningOK
  <2>2. again \in Jobs /\ ItemsOf(again) = ItemsOf(job[i])
    <3>1. job[i].attempt + 1 \in 0 .. MaxTimeoutRetries
      BY <2>1 DEF Jobs, PoolAssumption
    <3> QED BY <3>1, <2>1 DEF Jobs, ItemsOf
  <2> HIDE DEF again
  <2>3. front \in Seq(Jobs) /\ Len(front) = 1 /\ front[1] = again
    BY <2>2
  <2> HIDE DEF front
  <2>4. \A x : InSlot(x, i) <=> x \in ItemsOf(job[i])
    BY <2>1 DEF InSlot
  <2>5. stopped' = stopped
    BY <2>1 DEF StopWorker
  <2>6. /\ \A x : InSlot(x, i) <=> \E k \in 1 .. Len(front) : x \in ItemsOf(front[k])
        /\ \A k, l \in 1 .. Len(front) : k = l
    BY <2>2, <2>3, <2>4
  <2> QED BY <2>1, <2>3, <2>5, <2>6, PutBack DEF Conserved
<1>8. ASSUME NEW i \in Slots,
             ErrorMessage(i) \/ Exit(i) \/ GiveUp(i) \/ ReplacementFails(i)
      PROVE  Conserved'
  <2>1. CASE stopped'
    BY <2>1 DEF Conserved
  <2>2. CASE ~stopped'
    <3>1. UNCHANGED <<jobs, run, job, results, stopped>>
      BY <1>8, <2>2 DEF ErrorMessage, Exit, GiveUp, ReplacementFails, Fail, UnchangedByFail
    <3> QED BY <3>1, PlacesKept DEF InSlot, ItemsOf
  <2> QED BY <2>1, <2>2
<1>9. ASSUME NEW i \in Slots, DropReplacement(i)
      PROVE  Conserved'
  BY <1>9 DEF DropReplacement, RunNext, Conserved
<1> QED BY <1>1, <1>2, <1>3, <1>4, <1>5, <1>6, <1>7, <1>8, <1>9
        DEF Next, Caller, Message, Timeout, Replace, Quiet

-----------------------------------------------------------------------------
(* A dispatch resolves with the results of all the files.                   *)

\* maybeDone: the slot that brings activeWorkers to zero was the last one.
LEMMA LastSlot ==
  ASSUME PoolAssumption, StateTypeOK, ActiveOK, NEW i \in Busy, active - 1 = 0
  PROVE  Busy = {i}
<1>1. IsFiniteSet(Busy) /\ Cardinality(Busy) \in Nat /\ Cardinality(Busy) <= 1
  BY BusyFinite DEF ActiveOK, StateTypeOK
<1>2. Cardinality(Busy) = 1
  BY <1>1, FS_EmptySet
<1> QED BY <1>1, <1>2, FS_Singleton

LEMMA AnsweredStep ==
  ASSUME Inv, [Next]_vars
  PROVE  Answered'
<1> USE PoolAssumption DEF Inv
<1> SUFFICES ASSUME call' = "resolved", NEW x \in Items
             PROVE  /\ \E r : InResult(x, r)'
                    /\ \A r, q : InResult(x, r)' /\ InResult(x, q)' => r = q
  BY DEF Answered
<1>1. CASE UNCHANGED <<call, results>>
  BY <1>1 DEF Answered, InResult, ItemsOf
<1>2. ASSUME NEW i \in Slots, Result(i) \/ ReplacementOnline(i)
      PROVE  /\ \E r : InResult(x, r)'
             /\ \A r, q : InResult(x, r)' /\ InResult(x, q)' => r = q
  <2>1. /\ ~stopped /\ RunNext(i, jobs, active - 1, "idle")
        /\ run[i] # "idle" /\ call = "pending"
    BY <1>2 DEF Result, ReplacementOnline, Listening, PendingOK
  <2>2. jobs = <<>> /\ active - 1 = 0
    BY <2>1 DEF RunNext
  <2>3. Busy = {i}
    BY <2>1, <2>2, LastSlot DEF Busy
  <2>4. \A k : ~InQueue(x, k)'
    BY <2>1, <2>2, EmptyPlaces
  <2>5. \A h : InSlot(x, h)' <=> h # i /\ InSlot(x, h)
    BY <2>1, <2>2, EmptyPlaces
  <2>6. \A h : ~InSlot(x, h)'
    BY <2>3, <2>5 DEF InSlot, Busy
  <2>7. \A r : InResult(x, r)' <=> InResult(x, r) \/ (InSlot(x, i) /\ r = job[i])
    BY <1>2 DEF Result, ReplacementOnline, Listening, InResult, InSlot, ItemsOf
  <2>8. Held(x)' /\ HeldOnce(x)'
    BY <2>1, <2>7, HandIn DEF Conserved
  <2> QED BY <2>4, <2>6, <2>8 DEF Held, HeldOnce
<1>3. CASE Dispatch \/ DispatchToBroken \/ Reject
  BY <1>3 DEF Dispatch, Start, DispatchToBroken, Reject
<1>4. ASSUME NEW i \in Slots,
             \/ Progress(i) \/ SubBatchDone(i) \/ StartReplacement(i) \/ SplitJob(i)
             \/ RetryJob(i) \/ ErrorMessage(i) \/ Exit(i) \/ GiveUp(i)
             \/ ReplacementFails(i) \/ DropReplacement(i)
      PROVE  UNCHANGED <<call, results>>
  BY <1>4 DEF Progress, SubBatchDone, StartReplacement, SplitJob, RetryJob, ErrorMessage,
              Exit, GiveUp, ReplacementFails, DropReplacement, StopWorker, RunNext,
              UnchangedByFail, dispatchVars
<1>5. CASE Terminate \/ UNCHANGED vars
  BY <1>1, <1>5 DEF Terminate, vars, dispatchVars
<1> QED BY <1>1, <1>2, <1>3, <1>4, <1>5
        DEF Next, Caller, Message, Timeout, Replace, Quiet

-----------------------------------------------------------------------------
(* The theorems.                                                            *)

LEMMA InvInit ==
  ASSUME Init
  PROVE  Inv
<1> USE PoolAssumption DEF Init
<1>1. StateTypeOK
  <2>1. <<>> \in Seq(Jobs)
    BY EmptySeq
  <2>2. /\ run \in [Slots -> {"idle", "running", "stopping", "starting"}]
        /\ job \in [Slots -> Jobs \cup {NoJob}]
        /\ thread \in [Slots -> {"idle", "parsing", "parsed", "dead"}]
        /\ told \in [Slots -> BOOLEAN]
    OBVIOUS
  <2>3. 0 \in 0 .. Size /\ 0 \in 0 .. MaxDispatches
    BY DEF PoolAssumption
  <2> QED BY <2>1, <2>2, <2>3 DEF StateTypeOK
<1>2. Busy = {}
  BY DEF Busy
<1>3. ActiveOK
  BY <1>2, FS_EmptySet DEF ActiveOK
<1> QED BY <1>1, <1>3 DEF Inv, RunningOK, PendingOK, Conserved, Answered

LEMMA InvHolds == Spec => []Inv
<1>1. Init => Inv
  BY InvInit
<1>2. Inv /\ [Next]_vars => Inv'
  BY TypeStep, PlacesStep, AnsweredStep DEF Inv
<1> QED BY <1>1, <1>2, PTL DEF Spec

\* The state of the pool keeps its types: job bounds, the attempts of a job and
\* activeWorkers stay in their ranges.
THEOREM WorkersTypeCorrect == Spec => []StateTypeOK
<1>1. Inv => StateTypeOK
  BY DEF Inv
<1> QED BY <1>1, InvHolds, PTL

\* Whatever worker-pool.ts splits, retries, requeues and replaces, a file of a
\* running dispatch is in exactly one queued job, running job or result.
THEOREM NoFileLostOrDoubled == Spec => []FilesConserved
<1>1. Inv => FilesConserved
  <2> SUFFICES ASSUME Inv, ~stopped, NEW x \in Items
               PROVE  \E p \in Places(x) : Places(x) = {p}
    BY DEF FilesConserved
  <2>1. Held(x) /\ HeldOnce(x)
    BY DEF Inv, Conserved
  <2>2. CASE \E k : InQueue(x, k)
    <3>1. PICK k : InQueue(x, k)
      BY <2>2
    <3>2. Queued(x) = {<<"queue", k>>} /\ Running(x) = {} /\ Finished(x) = {}
      BY <3>1, <2>1 DEF HeldOnce, InQueue, InSlot, InResult, Queued, Running, Finished
    <3> QED BY <3>2 DEF Places
  <2>3. CASE \E i : InSlot(x, i)
    <3>1. PICK i : InSlot(x, i)
      BY <2>3
    <3>2. Queued(x) = {} /\ Running(x) = {<<"slot", i>>} /\ Finished(x) = {}
      BY <3>1, <2>1 DEF HeldOnce, InQueue, InSlot, InResult, Queued, Running, Finished
    <3> QED BY <3>2 DEF Places
  <2>4. CASE \E r : InResult(x, r)
    <3>1. PICK r : InResult(x, r)
      BY <2>4
    <3>2. Queued(x) = {} /\ Running(x) = {} /\ Finished(x) = {<<"result", r>>}
      BY <3>1, <2>1 DEF HeldOnce, InQueue, InSlot, InResult, Queued, Running, Finished
    <3> QED BY <3>2 DEF Places
  <2> QED BY <2>1, <2>2, <2>3, <2>4 DEF Held
<1> QED BY <1>1, InvHolds, PTL

\* maybeDone never resolves a dispatch early: it resolves with the results of
\* all the files, each once.
THEOREM NoEarlyAnswer == Spec => []AnswerComplete
<1>1. Inv => AnswerComplete
  <2> SUFFICES ASSUME Inv, call = "resolved", NEW x \in Items
               PROVE  \E p \in Finished(x) : Finished(x) = {p}
    BY DEF AnswerComplete
  <2>1. PICK r : InResult(x, r)
    BY DEF Inv, Answered
  <2>2. Finished(x) = {<<"result", r>>}
    BY <2>1 DEF Inv, Answered, InResult, Finished
  <2> QED BY <2>2
<1> QED BY <1>1, InvHolds, PTL

-----------------------------------------------------------------------------
(* The pool implements ParallelMap.                                         *)

\* Lines that have the files 1 to n, each once, are n lines.
LEMMA CountLines ==
  ASSUME NEW n \in Nat, NEW S,
         \A x \in 1 .. n : \E l \in S : l[2] = x,
         \A l \in S : l[2] \in 1 .. n,
         \A l, m \in S : l[2] = m[2] => l = m
  PROVE  IsFiniteSet(S) /\ Cardinality(S) = n
<1> DEFINE f == [x \in 1 .. n |-> CHOOSE l \in S : l[2] = x]
<1>1. \A x \in 1 .. n : f[x] \in S /\ f[x][2] = x
  OBVIOUS
<1>2. f \in [1 .. n -> S]
  BY <1>1
<1>3. \A l \in S : \E x \in 1 .. n : f[x] = l
  BY <1>1
<1>4. \A x, y \in 1 .. n : f[x] = f[y] => x = y
  BY <1>1
<1> HIDE DEF f
<1>5. f \in Bijection(1 .. n, S)
  BY <1>2, <1>3, <1>4 DEF Bijection, Injection, IsInjective, Surjection
<1>6. ExistsBijection(1 .. n, S)
  BY <1>5 DEF ExistsBijection
<1>7. IsFiniteSet(1 .. n) /\ Cardinality(1 .. n) = n
  BY FS_Interval
<1> QED BY <1>6, <1>7, FS_Bijection

\* The results of a resolved dispatch, sorted, are the files in the order of the
\* input: their jobs do not overlap, so a line precedes another exactly when its
\* file does.
LEMMA AnswerInOrder ==
  StateTypeOK /\ Answered /\ call = "resolved" => Answer = [x \in 1 .. N |-> x]
<1> SUFFICES ASSUME StateTypeOK, Answered, call = "resolved"
             PROVE  Answer = [x \in 1 .. N |-> x]
  OBVIOUS
<1> USE PoolAssumption
<1>1. \A l \in Lines : l[1] \in results /\ l[1] \in Jobs /\ l[2] \in Items /\ l[2] \in ItemsOf(l[1])
  BY DEF Lines, StateTypeOK
<1>2. \A x \in Items : \E l \in Lines : l[2] = x
  <2> SUFFICES ASSUME NEW x \in Items PROVE \E l \in Lines : l[2] = x
    OBVIOUS
  <2>1. PICK r : InResult(x, r)
    BY DEF Answered
  <2>2. <<r, x>> \in Lines
    BY <2>1 DEF Lines, InResult
  <2> QED BY <2>2
<1>3. \A l, m \in Lines : l[2] = m[2] => l = m
  <2> SUFFICES ASSUME NEW l \in Lines, NEW m \in Lines, l[2] = m[2] PROVE l = m
    OBVIOUS
  <2>1. InResult(l[2], l[1]) /\ InResult(l[2], m[1])
    BY <1>1 DEF InResult
  <2>2. l[1] = m[1]
    BY <1>1, <2>1 DEF Answered
  <2> QED BY <2>2 DEF Lines
<1>4. ASSUME NEW l \in Lines, NEW m \in Lines
      PROVE  Precedes(l, m) <=> l[2] < m[2]
  <2>1. CASE l[1] = m[1]
    <3>1. l[1].first \in Int
      BY <1>1 DEF Jobs, Items
    <3> QED BY <2>1, <3>1 DEF Precedes
  <2>2. CASE l[1] # m[1]
    <3> DEFINE a == l[1].first
               b == l[1].last
               c == m[1].first
               d == m[1].last
               x == l[2]
               y == m[2]
    <3>1. /\ a \in Items /\ b \in Items /\ c \in Items /\ d \in Items
          /\ a <= x /\ x <= b /\ c <= y /\ y <= d /\ x \in Items /\ y \in Items
      BY <1>1 DEF Jobs, ItemsOf, Items
    <3>2. \A z \in Items : ~(a <= z /\ z <= b /\ c <= z /\ z <= d)
      <4> SUFFICES ASSUME NEW z \in Items, a <= z /\ z <= b /\ c <= z /\ z <= d PROVE FALSE
        OBVIOUS
      <4>1. z \in ItemsOf(l[1]) /\ z \in ItemsOf(m[1])
        BY <1>1 DEF ItemsOf, Jobs, Items
      <4>2. InResult(z, l[1]) /\ InResult(z, m[1])
        BY <1>1, <4>1 DEF InResult
      <4> QED BY <2>2, <4>2 DEF Answered
    <3>3. Precedes(l, m) <=> a < c
      BY <2>2 DEF Precedes
    <3> HIDE DEF a, b, c, d, x, y
    <3>4. a < c <=> x < y
      <4>1. ~(a <= c /\ c <= b)
        BY <3>1, <3>2 DEF Items
      <4>2. ~(c <= a /\ a <= d)
        BY <3>1, <3>2 DEF Items
      <4> QED BY <3>1, <4>1, <4>2 DEF Items
    <3> QED BY <3>3, <3>4 DEF x, y
  <2> QED BY <2>1, <2>2
<1>5. Cardinality(Lines) = N
  BY <1>1, <1>2, <1>3, CountLines DEF Items
<1>6. ASSUME NEW l \in Lines
      PROVE  Cardinality({a \in Lines : Precedes(a, l)}) = l[2] - 1
  <2> DEFINE S == {a \in Lines : Precedes(a, l)}
             n == l[2] - 1
  <2>1. n \in Nat /\ l[2] = n + 1 /\ n < N
    BY <1>1 DEF Items
  <2>2. S = {a \in Lines : a[2] < l[2]}
    BY <1>4
  <2>3. \A a \in S : a[2] \in 1 .. n
    BY <1>1, <2>1, <2>2 DEF Items
  <2>4. \A x \in 1 .. n : \E a \in S : a[2] = x
    <3> SUFFICES ASSUME NEW x \in 1 .. n PROVE \E a \in S : a[2] = x
      OBVIOUS
    <3>1. x \in Items /\ x < l[2]
      BY <2>1 DEF Items
    <3> QED BY <1>2, <2>2, <3>1
  <2>5. \A a, m \in S : a[2] = m[2] => a = m
    BY <1>3
  <2> HIDE DEF S, n
  <2>6. Cardinality(S) = n
    BY <2>1, <2>3, <2>4, <2>5, CountLines
  <2> QED BY <2>6 DEF S, n
<1>7. ASSUME NEW x \in 1 .. N
      PROVE  (CHOOSE l \in Lines : Cardinality({a \in Lines : Precedes(a, l)}) = x - 1)[2] = x
  <2> DEFINE At(l) == Cardinality({a \in Lines : Precedes(a, l)}) = x - 1
  <2>1. PICK l \in Lines : l[2] = x
    BY <1>2 DEF Items
  <2>2. At(l)
    BY <1>6, <2>1
  <2>3. (CHOOSE m \in Lines : At(m)) \in Lines /\ At(CHOOSE m \in Lines : At(m))
    BY <2>2, Zenon
  <2>4. \A m \in Lines : At(m) => m[2] = x
    <3> SUFFICES ASSUME NEW m \in Lines, At(m) PROVE m[2] = x
      OBVIOUS
    <3>1. m[2] - 1 = x - 1
      BY <1>6
    <3>2. m[2] \in Int
      BY <1>1 DEF Items
    <3> QED BY <3>1, <3>2
  <2> QED BY <2>3, <2>4
<1> QED BY <1>5, <1>7 DEF Answer

\* The failure of the pool: a dispatch that runs is one of a pool that works, one
\* that has stopped without an answer has failed, and in a pool that works and
\* runs no dispatch every slot is idle.
FailureInv ==
  /\ ~stopped => ~broken
  /\ call = "pending" /\ stopped => broken
  /\ stopped /\ ~broken => Busy = {}

LEMMA FailureStep ==
  ASSUME Inv, FailureInv, [Next]_vars
  PROVE  FailureInv'
<1> USE PoolAssumption DEF Inv
<1>1. CASE Dispatch
  BY <1>1 DEF Dispatch, Start, FailureInv, poolVars
<1>2. CASE DispatchToBroken
  BY <1>2 DEF DispatchToBroken, FailureInv, poolVars
<1>3. CASE Reject \/ Terminate \/ UNCHANGED vars
  BY <1>3 DEF Reject, Terminate, FailureInv, poolVars, vars, dispatchVars, Busy
<1>4. ASSUME NEW i \in Slots, Progress(i) \/ SubBatchDone(i) \/ StartReplacement(i)
      PROVE  FailureInv'
  BY <1>4 DEF Progress, SubBatchDone, StartReplacement, FailureInv, poolVars, dispatchVars
<1>5. ASSUME NEW i \in Slots, Result(i) \/ ReplacementOnline(i)
      PROVE  FailureInv'
  <2>1. /\ ~stopped /\ ~broken /\ run[i] # "idle" /\ broken' = broken
        /\ RunNext(i, jobs, active - 1, "idle")
    BY <1>5 DEF Result, ReplacementOnline, Listening, poolVars, FailureInv
  <2>2. CASE UNCHANGED stopped
    BY <2>1, <2>2 DEF FailureInv
  <2>3. CASE stopped' = TRUE /\ call' = "resolved" /\ active - 1 = 0
               /\ run' = [run EXCEPT ![i] = "idle"]
    <3>1. Busy = {i}
      BY <2>1, <2>3, LastSlot DEF Busy
    <3>2. Busy' = {}
      BY <2>3, <3>1 DEF Busy, StateTypeOK
    <3> QED BY <2>1, <2>3, <3>2 DEF FailureInv
  <2> QED BY <2>1, <2>2, <2>3 DEF RunNext
<1>6. ASSUME NEW i \in Slots,
             \/ ErrorMessage(i) \/ (Exit(i) /\ Listening(i)) \/ GiveUp(i)
             \/ ReplacementFails(i)
      PROVE  FailureInv'
  <2>1. PICK err : Fail(err)
    BY <1>6 DEF ErrorMessage, Exit, GiveUp, ReplacementFails
  <2>2. broken' = TRUE /\ stopped' = TRUE
    BY <2>1 DEF Fail, StateTypeOK
  <2> QED BY <2>2 DEF FailureInv
<1>7. ASSUME NEW i \in Slots, Exit(i), ~Listening(i)
      PROVE  FailureInv'
  BY <1>7 DEF Exit, UnchangedByFail, FailureInv, poolVars, Busy
<1>8. ASSUME NEW i \in Slots, SplitJob(i) \/ RetryJob(i) \/ DropReplacement(i)
      PROVE  FailureInv'
  <2>1. run[i] # "idle" /\ i \in Busy
    BY <1>8 DEF SplitJob, RetryJob, DropReplacement, Silent, Listening, Busy
  <2>2. ~(stopped /\ ~broken)
    BY <2>1 DEF FailureInv
  <2>3. UNCHANGED <<call, stopped, broken>>
    BY <1>8 DEF SplitJob, RetryJob, StopWorker, DropReplacement, RunNext, poolVars
  <2> QED BY <2>2, <2>3 DEF FailureInv
<1> QED BY <1>1, <1>2, <1>3, <1>4, <1>5, <1>6, <1>7, <1>8
        DEF Next, Caller, Message, Timeout, Replace, Quiet

\* What a dispatch has been answered with.
InOrder == Resolution = IF call = "resolved" THEN [x \in 1 .. N |-> x] ELSE <<>>

\* Every step of the pool is a step of ParallelMap or shows nothing.
LEMMA StepRefines ==
  ASSUME Inv, FailureInv, Inv', InOrder', [Next]_vars
  PROVE  [Promise!Next]_(Promise!vars)
<1> USE PoolAssumption DEF Inv, InOrder
<1>1. CASE Dispatch
  <2>1. Promise!Dispatch
    BY <1>1 DEF Dispatch, CanDispatch, Start, poolVars, Promise!Dispatch
  <2> QED BY <2>1 DEF Promise!Next
<1>2. CASE DispatchToBroken
  <2>1. Promise!Reject
    BY <1>2 DEF DispatchToBroken, poolVars, Promise!Reject
  <2> QED BY <2>1 DEF Promise!Next
<1>3. CASE Reject
  <2>1. Promise!Reject
    BY <1>3 DEF Reject, poolVars, Promise!Reject, FailureInv
  <2> QED BY <2>1 DEF Promise!Next
<1>4. ASSUME UNCHANGED <<call, results, broken>>
      PROVE  UNCHANGED Promise!vars
  <2>1. Resolution' = Resolution
    BY <1>4 DEF Resolution, Answer, Lines
  <2> QED BY <1>4, <2>1 DEF Promise!vars
<1>5. CASE Terminate \/ UNCHANGED vars
  BY <1>4, <1>5 DEF Terminate, vars, dispatchVars, poolVars
<1>6. ASSUME NEW i \in Slots,
             \/ Progress(i) \/ SubBatchDone(i) \/ StartReplacement(i) \/ SplitJob(i)
             \/ RetryJob(i) \/ DropReplacement(i)
      PROVE  UNCHANGED <<call, results, broken>>
  BY <1>6 DEF Progress, SubBatchDone, StartReplacement, SplitJob, RetryJob, DropReplacement,
              StopWorker, RunNext, dispatchVars, poolVars
<1>7. ASSUME NEW i \in Slots, Result(i) \/ ReplacementOnline(i)
      PROVE  Promise!Resolve \/ UNCHANGED Promise!vars
  <2>1. /\ ~stopped /\ ~broken /\ broken' = broken /\ call = "pending"
        /\ call' \in {"pending", "resolved"}
    BY <1>7 DEF Result, ReplacementOnline, RunNext, poolVars, FailureInv, PendingOK
  <2>2. CASE call' = "resolved"
    BY <2>1, <2>2 DEF Promise!Resolve
  <2>3. CASE call' = "pending"
    <3>1. Resolution' = <<>> /\ Resolution = <<>>
      BY <2>1, <2>3 DEF Resolution
    <3> QED BY <2>1, <2>3, <3>1 DEF Promise!vars
  <2> QED BY <2>1, <2>2, <2>3
<1>8. ASSUME NEW i \in Slots,
             \/ ErrorMessage(i) \/ (Exit(i) /\ Listening(i)) \/ GiveUp(i)
             \/ ReplacementFails(i)
      PROVE  Promise!Fail \/ UNCHANGED Promise!vars
  <2>1. broken' = TRUE /\ UNCHANGED <<call, results>> /\ i \in Busy
    BY <1>8 DEF ErrorMessage, Exit, GiveUp, ReplacementFails, Fail, UnchangedByFail,
                Listening, Silent, Busy
  <2>2. CASE call = "pending"
    <3>1. Resolution' = <<>> /\ Resolution = <<>>
      BY <2>1, <2>2 DEF Resolution
    <3> QED BY <2>1, <2>2, <3>1 DEF Promise!Fail
  <2>3. CASE call # "pending"
    <3>1. stopped /\ broken
      BY <2>1, <2>3 DEF FailureInv, PendingOK, StateTypeOK
    <3> QED BY <1>4, <2>1, <3>1 DEF StateTypeOK
  <2> QED BY <2>2, <2>3
<1>9. ASSUME NEW i \in Slots, Exit(i), ~Listening(i)
      PROVE  UNCHANGED <<call, results, broken>>
  BY <1>9 DEF Exit, UnchangedByFail, poolVars
<1> QED BY <1>1, <1>2, <1>3, <1>4, <1>5, <1>6, <1>7, <1>8, <1>9
        DEF Next, Caller, Message, Timeout, Replace, Quiet, Promise!Next

\* The pool implements ParallelMap: whatever is split, retried, requeued and
\* replaced, a dispatch is answered with every file, once and in the order of the
\* input, or is rejected; it is answered once, and never after a failure.
THEOREM PoolIsParallelMap == Spec => ImplementsParallelMap
<1>1. Init => FailureInv
  BY DEF Init, FailureInv, Busy
<1>2. Inv /\ FailureInv /\ [Next]_vars => FailureInv'
  BY FailureStep
<1>3. Inv => InOrder
  BY AnswerInOrder DEF Inv, InOrder, Resolution
<1>4. Spec => [](Inv /\ FailureInv /\ InOrder)
  BY <1>1, <1>2, <1>3, InvHolds, PTL DEF Spec
<1>5. Init => Promise!Init
  BY DEF Init, Promise!Init, Resolution
<1>6. Inv /\ FailureInv /\ Inv' /\ InOrder' /\ [Next]_vars => [Promise!Next]_(Promise!vars)
  BY StepRefines
<1>7. Spec => Promise!Spec
  BY <1>4, <1>5, <1>6, PTL DEF Spec, Promise!Spec
<1> QED BY <1>7 DEF ImplementsParallelMap
=============================================================================
