------------------------- MODULE LbugSessionProofs -------------------------
(***************************************************************************)
(* Proofs about the LadybugDB session, for any number of requests, of      *)
(* closeLbug calls, of databases and of retries: the types, that one       *)
(* request at a time holds the session lock, that no operation runs on the *)
(* database of another (RightDatabase), that closing leaves no dead        *)
(* connection behind (HandlesSane) and that without closeLbug a session    *)
(* lasts as long as its operation (SessionIntact).                         *)
(***************************************************************************)
EXTENDS LbugSession, SequenceTheorems, TLAPS

Closing == {"flush", "conn", "db", "reset"}
Holding == Closing \union {"open", "schema", "fts", "run"}
Queued == Holding \union {"lock", "cleanup"}

(* What the labels say of a call. *)
Shape ==
    /\ \A c \in Closers : pc[c] \in Closing \union {"idle"} /\ next[c] = "idle"
    /\ \A r \in Requests :
        /\ pc[r] \in Closing => next[r] \in {"open", "delay"}
        /\ pc[r] \in {"cleanup", "delay"} \/ (pc[r] \in Closing /\ next[r] = "delay")
               => attempt[r] < LockRetries
        /\ pc[r] # "idle" => want[r] \in DbPaths

Distinct(q) == \A i, j \in 1 .. Len(q) : q[i] = q[j] => i = j

(* A request is in the queue once, while it waits and while it has the lock,
   and it has the lock at the head only. *)
LockOK ==
    /\ Distinct(queue)
    /\ \A i \in 1 .. Len(queue) : pc[queue[i]] \in Queued
    /\ \A r \in Requests : pc[r] \in Holding => Holds(r)

(* The connection belongs to the database of the request that opened it, and
   currentDbPath names that database or none, until the request has set it. *)
Opened ==
    conn # None =>
        /\ \A r \in Requests : pc[r] \in {"schema", "fts", "run"} => pathOf[conn] = want[r]
        /\ \/ path \in {None, pathOf[conn]}
           \/ \E r \in Requests : pc[r] \in {"schema", "fts"}
        /\ conn \in liveDbs
        /\ conn \in liveConns \/ \E p \in Procs : pc[p] = "conn"

(* Unless closeLbug was called, only the holder of the lock closes. *)
Undisturbed ==
    closes = 0 =>
        /\ \A c \in Closers : pc[c] = "idle"
        /\ liveDbs \subseteq {db}
        /\ conn # None => conn = db /\ (fts => conn \in loaded)
        /\ \A r \in Requests :
            /\ pc[r] \in {"db", "reset", "open"} => conn = None
            /\ pc[r] \in {"reset", "open"} => db = None
            /\ pc[r] = "db" => liveDbs = {}
            /\ pc[r] \in {"open", "schema"} => ~fts
            /\ pc[r] \in {"schema", "fts"} => conn # None /\ conn = mine[r]
            /\ pc[r] = "run" => conn # None /\ path = want[r]
        /\ (conn = None /\ \A r \in Requests : pc[r] \notin {"db", "reset"}) => ~fts

IInv == TypeOK /\ Shape /\ LockOK /\ Opened /\ Undisturbed

----------------------------------------------------------------------------
(* The lock                                                                  *)

LEMMA Facts ==
    /\ Requests \intersect Closers = {}
    /\ None \notin Handles /\ None \notin DbPaths /\ None \notin Procs
    /\ LockRetries \in Nat /\ LockRetries > 0 /\ MaxCloses \in Nat
    /\ Requests \subseteq Procs /\ Closers \subseteq Procs
  BY SessionAssumption, SMT DEF SessionAssumption, Procs

LEMMA TailOf ==
    ASSUME NEW q \in Seq(Requests), q # <<>>, Distinct(q)
    PROVE  /\ Tail(q) \in Seq(Requests) /\ Distinct(Tail(q))
           /\ Len(q) >= 1 /\ q[1] = Head(q) /\ Head(q) \in Requests
           /\ Len(Tail(q)) = Len(q) - 1
           /\ \A i \in 1 .. Len(Tail(q)) : Tail(q)[i] = q[i + 1] /\ Tail(q)[i] # Head(q)
  <1>1. /\ Tail(q) \in Seq(Requests) /\ Len(Tail(q)) = Len(q) - 1
        /\ \A i \in 1 .. Len(Tail(q)) : Tail(q)[i] = q[i + 1]
        /\ Head(q) \in Requests
    BY HeadTailProperties
  <1>2. Len(q) \in Nat /\ Len(q) >= 1 /\ q[1] = Head(q)
    BY EmptySeq, LenProperties
  <1> QED BY <1>1, <1>2, SMT DEF Distinct

LEMMA AppendTo ==
    ASSUME NEW q \in Seq(Requests), Distinct(q), NEW r \in Requests,
           \A i \in 1 .. Len(q) : q[i] # r
    PROVE  /\ Append(q, r) \in Seq(Requests) /\ Distinct(Append(q, r))
           /\ Append(q, r) # <<>>
           /\ q # <<>> => Head(Append(q, r)) = Head(q)
           /\ Len(Append(q, r)) = Len(q) + 1
           /\ \A i \in 1 .. Len(q) : Append(q, r)[i] = q[i]
           /\ Append(q, r)[Len(q) + 1] = r
  <1>1. /\ Append(q, r) \in Seq(Requests) /\ Append(q, r) # <<>>
        /\ Len(Append(q, r)) = Len(q) + 1
        /\ \A i \in 1 .. Len(q) : Append(q, r)[i] = q[i]
        /\ Append(q, r)[Len(q) + 1] = r
    BY AppendProperties
  <1>2. Len(q) \in Nat
    BY LenProperties
  <1>3. q # <<>> => Len(q) >= 1 /\ Head(q) = q[1]
    BY <1>2, EmptySeq, SMT
  <1>4. Head(Append(q, r)) = Append(q, r)[1]
    BY <1>1, EmptySeq, SMT
  <1>5. Distinct(Append(q, r))
    BY <1>1, <1>2, SMT DEF Distinct
  <1> QED BY <1>1, <1>2, <1>3, <1>4, <1>5, SMT

LEMMA LockAsked ==
    ASSUME TypeOK, LockOK, NEW r \in Requests, pc[r] \notin Queued, Enqueue(r), Goto(r, "lock")
    PROVE  LockOK' /\ queue' \in Seq(Requests)
  <1>1. \A i \in 1 .. Len(queue) : queue[i] # r
    BY DEF LockOK
  <1>2. queue \in Seq(Requests) /\ Distinct(queue) /\ r \in Procs
    BY Facts DEF TypeOK, LockOK
  <1>3. /\ queue' \in Seq(Requests) /\ Distinct(queue') /\ queue' # <<>>
        /\ queue # <<>> => Head(queue') = Head(queue)
        /\ Len(queue') = Len(queue) + 1
        /\ \A i \in 1 .. Len(queue) : queue'[i] = queue[i]
        /\ queue'[Len(queue) + 1] = r
    BY <1>1, <1>2, AppendTo DEF Enqueue
  <1>4. pc'[r] = "lock" /\ \A p \in Procs : p # r => pc'[p] = pc[p]
    BY <1>2 DEF Goto, TypeOK
  <1>5. ASSUME NEW i \in 1 .. Len(queue') PROVE pc'[queue'[i]] \in Queued
    <2>1. Len(queue) \in Nat
      BY <1>2, LenProperties
    <2>2. CASE i = Len(queue) + 1
      BY <2>2, <1>3, <1>4 DEF Queued
    <2>3. CASE i \in 1 .. Len(queue)
      <3>1. queue[i] \in Requests
        BY <2>3, <1>2, ElementOfSeq
      <3> QED BY <2>3, <3>1, <1>1, <1>3, <1>4, Facts DEF LockOK
    <2> QED BY <2>1, <2>2, <2>3, <1>3, SMT
  <1>6. ASSUME NEW s \in Requests, pc'[s] \in Holding PROVE Holds(s)'
    <2>1. s # r
      BY <1>4, <1>6 DEF Holding, Closing
    <2>2. Holds(s)
      BY <1>4, <1>6, <2>1, Facts DEF LockOK
    <2> QED BY <2>2, <1>3 DEF Holds
  <1> QED BY <1>3, <1>5, <1>6 DEF LockOK

LEMMA LockReleased ==
    ASSUME TypeOK, LockOK, NEW r \in Requests, pc[r] \in Holding, Release(r),
           NEW label, label \notin Holding, Goto(r, label)
    PROVE  LockOK' /\ queue' \in Seq(Requests)
  <1>1. queue \in Seq(Requests) /\ Distinct(queue) /\ queue # <<>> /\ Head(queue) = r
    BY DEF TypeOK, LockOK, Holds
  <1>2. /\ queue' \in Seq(Requests) /\ Distinct(queue') /\ Len(queue') = Len(queue) - 1
        /\ \A i \in 1 .. Len(queue') : queue'[i] = queue[i + 1] /\ queue'[i] # r
    BY <1>1, TailOf DEF Release
  <1>3. pc'[r] = label /\ \A p \in Procs : p # r => pc'[p] = pc[p]
    BY Facts DEF Goto, TypeOK
  <1>4. ASSUME NEW i \in 1 .. Len(queue') PROVE pc'[queue'[i]] \in Queued
    <2>1. i + 1 \in 1 .. Len(queue)
      BY <1>1, <1>2, LenProperties, SMT
    <2>2. queue'[i] \in Requests
      BY <1>2, ElementOfSeq
    <2> QED BY <2>1, <2>2, <1>2, <1>3, Facts DEF LockOK
  <1>5. ASSUME NEW s \in Requests, pc'[s] \in Holding PROVE FALSE
    BY <1>1, <1>3, <1>5, Facts DEF LockOK, Holds
  <1> QED BY <1>2, <1>4, <1>5 DEF LockOK

LEMMA LockRequeued ==
    ASSUME TypeOK, LockOK, NEW r \in Requests, pc[r] \in Holding,
           queue' = Append(Tail(queue), r), Goto(r, "cleanup")
    PROVE  LockOK' /\ queue' \in Seq(Requests)
  <1> DEFINE t == Tail(queue)
  <1>1. queue \in Seq(Requests) /\ Distinct(queue) /\ queue # <<>> /\ Head(queue) = r
    BY DEF TypeOK, LockOK, Holds
  <1>2. /\ t \in Seq(Requests) /\ Distinct(t) /\ Len(t) = Len(queue) - 1
        /\ \A i \in 1 .. Len(t) : t[i] = queue[i + 1] /\ t[i] # r
    BY <1>1, TailOf
  <1>3. /\ queue' \in Seq(Requests) /\ Distinct(queue') /\ Len(queue') = Len(t) + 1
        /\ \A i \in 1 .. Len(t) : queue'[i] = t[i]
        /\ queue'[Len(t) + 1] = r
    BY <1>2, AppendTo
  <1>4. pc'[r] = "cleanup" /\ \A p \in Procs : p # r => pc'[p] = pc[p]
    BY Facts DEF Goto, TypeOK
  <1> HIDE DEF t
  <1>5. ASSUME NEW i \in 1 .. Len(queue') PROVE pc'[queue'[i]] \in Queued
    <2>1. Len(t) \in Nat /\ Len(queue) \in Nat
      BY <1>1, <1>2, LenProperties
    <2>2. CASE i = Len(t) + 1
      BY <2>2, <1>3, <1>4 DEF Queued
    <2>3. CASE i \in 1 .. Len(t)
      <3>1. i + 1 \in 1 .. Len(queue)
        BY <2>1, <2>3, <1>2, SMT
      <3>2. queue'[i] \in Requests
        BY <1>3, ElementOfSeq
      <3> QED BY <2>3, <3>1, <3>2, <1>2, <1>3, <1>4, Facts DEF LockOK
    <2> QED BY <2>1, <2>2, <2>3, <1>3, SMT
  <1>6. ASSUME NEW s \in Requests, pc'[s] \in Holding PROVE FALSE
    BY <1>1, <1>4, <1>6, Facts DEF LockOK, Holds, Holding, Closing
  <1> QED BY <1>3, <1>5, <1>6 DEF LockOK

LEMMA LockKept ==
    ASSUME TypeOK, LockOK, NEW p \in Procs, NEW label, Goto(p, label), UNCHANGED queue,
           p \in Requests => pc[p] \in Queued /\ label \in Queued
                                /\ (label \in Holding => Holds(p))
    PROVE  LockOK'
  <1>1. pc'[p] = label /\ \A s \in Procs : s # p => pc'[s] = pc[s]
    BY DEF Goto, TypeOK
  <1>2. ASSUME NEW i \in 1 .. Len(queue) PROVE pc'[queue[i]] \in Queued
    <2>1. queue[i] \in Requests
      BY ElementOfSeq DEF TypeOK
    <2> QED BY <2>1, <1>1, Facts DEF LockOK
  <1>3. ASSUME NEW s \in Requests, pc'[s] \in Holding PROVE Holds(s)
    BY <1>1, <1>3, Facts DEF LockOK
  <1> QED BY <1>2, <1>3 DEF LockOK, Holds, Distinct

(* The steps of a call that closes do not touch the lock, but for the end of a
   clean-up, which releases it. *)
LEMMA LockClosed ==
    ASSUME TypeOK, Shape, LockOK, NEW p \in Procs, CloseStep(p)
    PROVE  LockOK' /\ queue' \in Seq(Requests)
  <1>0. queue \in Seq(Requests)
    BY DEF TypeOK
  <1>1. CASE p \in Closers
    <2>1. UNCHANGED queue
      BY <1>1 DEF CloseStep, Flushed, ConnClosed, DbClosed, Reset, Shape
    <2>2. PICK label : Goto(p, label)
      BY DEF CloseStep, Flushed, ConnClosed, DbClosed, Reset, CloseDb
    <2>3. p \notin Requests
      BY <1>1, Facts
    <2> QED BY <1>0, <2>1, <2>2, <2>3, LockKept
  <1>2. CASE p \in Requests
    <2>1. pc[p] \in Closing
      BY DEF CloseStep, Flushed, ConnClosed, DbClosed, Reset, Closing
    <2>2. pc[p] \in Holding /\ pc[p] \in Queued /\ Holds(p)
      BY <1>2, <2>1 DEF Holding, Queued, LockOK
    <2>3. CASE Reset(p) /\ next[p] = "delay"
      <3>1. Release(p) /\ Goto(p, "delay")
        BY <2>3 DEF Reset
      <3>2. "delay" \notin Holding
        BY DEF Holding, Closing
      <3> QED BY <3>1, <3>2, <1>2, <2>2, LockReleased
    <2>4. CASE Reset(p) /\ next[p] # "delay"
      <3>1. UNCHANGED queue /\ Goto(p, "open")
        BY <1>2, <2>1, <2>4 DEF Reset, Shape
      <3>2. "open" \in Holding /\ "open" \in Queued
        BY DEF Holding, Queued
      <3> QED BY <1>0, <3>1, <3>2, <2>2, LockKept
    <2>5. CASE Flushed(p) \/ ConnClosed(p) \/ DbClosed(p)
      <3>1. PICK label \in Closing : Goto(p, label)
        BY <2>5 DEF Flushed, ConnClosed, DbClosed, CloseDb, Closing
      <3>2. UNCHANGED queue
        BY <2>5 DEF Flushed, ConnClosed, DbClosed
      <3>3. label \in Holding /\ label \in Queued
        BY <3>1 DEF Holding, Queued
      <3> QED BY <1>0, <3>1, <3>2, <3>3, <2>2, LockKept
    <2> QED BY <2>3, <2>4, <2>5 DEF CloseStep
  <1> QED BY <1>1, <1>2 DEF Procs

(* So do those of a request, one after the other. *)
LEMMA LockStep ==
    ASSUME TypeOK, Shape, LockOK, NEW r \in Requests,
           Step(r) \/ Busy(r) \/ \E p \in DbPaths : Ask(r, p)
    PROVE  LockOK' /\ queue' \in Seq(Requests)
  <1>0. queue \in Seq(Requests) /\ r \in Procs
    BY Facts DEF TypeOK
  <1>1. "idle" \notin Holding /\ {"idle", "delay"} \cap Queued = {}
    BY DEF Holding, Queued, Closing
  <1>2. ASSUME Finish(r), pc[r] \in Holding PROVE LockOK' /\ queue' \in Seq(Requests)
    BY <1>1, <1>2, LockReleased DEF Finish
  <1>3. ASSUME NEW label \in Holding, Goto(r, label), UNCHANGED queue,
               Holds(r), pc[r] \in Queued
        PROVE  LockOK' /\ queue' \in Seq(Requests)
    <2>1. label \in Queued
      BY DEF Queued
    <2> QED BY <1>0, <1>3, <2>1, LockKept
  <1>4. CASE \E p \in DbPaths : Ask(r, p)
    <2>1. pc[r] \notin Queued /\ Enqueue(r) /\ Goto(r, "lock")
      BY <1>1, <1>4 DEF Ask
    <2> QED BY <2>1, LockAsked
  <1>5. CASE Acquire(r)
    <2>1. \E label \in Holding : Goto(r, label)
      BY <1>5 DEF Acquire, SafeClose, Holding, Closing
    <2>2. Holds(r) /\ UNCHANGED queue /\ pc[r] \in Queued
      BY <1>5 DEF Acquire, Queued
    <2> QED BY <1>3, <2>1, <2>2
  <1>6. CASE Open(r)
    <2>1. pc[r] \in Holding
      BY <1>6 DEF Open, Holding
    <2>2. CASE Finish(r)
      BY <1>2, <2>1, <2>2
    <2>3. CASE Goto(r, "schema") /\ UNCHANGED queue
      <3>1. Holds(r) /\ pc[r] \in Queued /\ "schema" \in Holding
        BY <2>1 DEF LockOK, Queued, Holding
      <3> QED BY <1>3, <2>3, <3>1
    <2> QED BY <1>6, <2>2, <2>3 DEF Open
  <1>7. CASE Schema(r)
    <2>1. pc[r] \in Holding
      BY <1>7 DEF Schema, Holding
    <2>2. CASE Finish(r)
      BY <1>2, <2>1, <2>2
    <2>3. ASSUME NEW label \in {"fts", "run"}, Goto(r, label), UNCHANGED queue
          PROVE  LockOK' /\ queue' \in Seq(Requests)
      <3>1. Holds(r) /\ pc[r] \in Queued /\ label \in Holding
        BY <2>1, <2>3 DEF LockOK, Queued, Holding
      <3> QED BY <1>3, <2>3, <3>1
    <2> QED BY <1>7, <2>2, <2>3 DEF Schema, Initialized, request
  <1>8. CASE FtsAnswers(r)
    <2>1. Goto(r, "run") /\ UNCHANGED queue /\ pc[r] = "fts"
      BY <1>8 DEF FtsAnswers, Initialized
    <2>2. Holds(r) /\ pc[r] \in Queued /\ "run" \in Holding
      BY <2>1 DEF LockOK, Queued, Holding
    <2> QED BY <1>3, <2>1, <2>2
  <1>9. CASE OperationEnds(r)
    BY <1>2, <1>9 DEF OperationEnds, Holding
  <1>10. CASE Cleanup(r)
    <2>1. Goto(r, "flush") /\ UNCHANGED queue /\ Holds(r) /\ pc[r] \in Queued
      BY <1>10 DEF Cleanup, SafeClose, Queued
    <2>2. "flush" \in Holding
      BY DEF Holding, Closing
    <2> QED BY <1>3, <2>1, <2>2
  <1>11. CASE Retry(r)
    <2>1. pc[r] \notin Queued /\ Enqueue(r) /\ Goto(r, "lock")
      BY <1>1, <1>11 DEF Retry
    <2> QED BY <2>1, LockAsked
  <1>12. CASE Busy(r)
    <2>1. pc[r] \in Holding
      BY <1>12 DEF Busy, Holding
    <2> QED BY <1>12, <2>1, LockRequeued DEF Busy
  <1> QED BY <1>4, <1>5, <1>6, <1>7, <1>8, <1>9, <1>10, <1>11, <1>12 DEF Step

LEMMA OneHolder ==
    ASSUME LockOK, NEW r \in Requests, NEW s \in Requests,
           pc[r] \in Holding, pc[s] \in Holding
    PROVE  r = s
  BY DEF LockOK, Holds

----------------------------------------------------------------------------
(* The types                                                                 *)

LEMMA Moved ==
    ASSUME TypeOK, NEW p \in Procs, NEW label, Goto(p, label)
    PROVE  /\ pc'[p] = label
           /\ \A q \in Procs : q # p => pc'[q] = pc[q]
           /\ label \in Labels => pc' \in [Procs -> Labels]
  BY DEF TypeOK, Goto

LEMMA InitInv == Init => IInv
  <1> SUFFICES ASSUME Init PROVE IInv
    OBVIOUS
  <1>1. queue \in Seq(Requests) /\ Len(queue) = 0
    BY EmptySeq DEF Init
  <1>2. TypeOK
    <2>1. 0 \in 0 .. LockRetries /\ 0 \in 0 .. MaxCloses
      BY Facts, SMT
    <2>2. /\ pc \in [Procs -> Labels]
          /\ next \in [Procs -> {"idle", "open", "delay"}]
      BY DEF Init, Labels
    <2>3. /\ pathOf \in [Handles -> DbPaths \union {None}]
          /\ want \in [Requests -> DbPaths \union {None}]
          /\ attempt \in [Requests -> 0 .. LockRetries]
          /\ mine \in [Requests -> Handles \union {None}]
      BY <2>1 DEF Init
    <2> QED BY <1>1, <2>1, <2>2, <2>3 DEF Init, TypeOK
  <1>3. Shape
    BY Facts DEF Init, Shape, Closing
  <1>4. LockOK
    BY <1>1, Facts, SMT DEF Init, LockOK, Distinct, Holding, Closing
  <1>5. Opened /\ Undisturbed
    BY Facts DEF Init, Opened, Undisturbed
  <1> QED BY <1>2, <1>3, <1>4, <1>5 DEF IInv

LEMMA TypeClosed ==
    ASSUME TypeOK, Shape, LockOK, NEW p \in Procs, CloseStep(p)
    PROVE  TypeOK'
  <1>1. queue' \in Seq(Requests)
    BY LockClosed
  <1>2. next[p] \in Labels /\ next[p] \in {"idle", "open", "delay"}
    BY DEF TypeOK, Labels
  <1>3. CASE Flushed(p)
    <2>1. pc' \in [Procs -> Labels]
      BY <1>3, Moved DEF Flushed, CloseDb, Labels
    <2> QED BY <1>1, <1>3, <2>1 DEF Flushed, CloseDb, TypeOK, globals, request
  <1>4. CASE ConnClosed(p)
    <2>1. pc' \in [Procs -> Labels]
      BY <1>4, Moved DEF ConnClosed, CloseDb, Labels
    <2> QED BY <1>1, <1>4, <2>1 DEF ConnClosed, CloseDb, TypeOK, request
  <1>5. CASE DbClosed(p)
    <2>1. pc' \in [Procs -> Labels]
      BY <1>5, Moved DEF DbClosed, Labels
    <2> QED BY <1>1, <1>5, <2>1 DEF DbClosed, TypeOK, native, request
  <1>6. CASE Reset(p)
    <2>1. pc' \in [Procs -> Labels]
      BY <1>2, <1>6, Moved DEF Reset
    <2> QED BY <1>1, <1>6, <2>1 DEF Reset, Forget, TypeOK, native, request
  <1> QED BY <1>3, <1>4, <1>5, <1>6 DEF CloseStep

LEMMA TypeStep ==
    ASSUME TypeOK, Shape, LockOK, NEW r \in Requests,
           Step(r) \/ Busy(r) \/ \E p \in DbPaths : Ask(r, p)
    PROVE  TypeOK'
  <1>0. r \in Procs /\ {0, 1} \subseteq 0 .. LockRetries
    BY Facts, SMT
  <1>1. queue' \in Seq(Requests)
    BY LockStep
  <1>2. CASE \E p \in DbPaths : Ask(r, p)
    <2>1. pc' \in [Procs -> Labels]
      BY <1>0, <1>2, Moved DEF Ask, Labels
    <2> QED BY <1>0, <1>1, <1>2, <2>1 DEF Ask, TypeOK, globals, native
  <1>3. CASE Acquire(r)
    <2>1. pc' \in [Procs -> Labels]
      BY <1>0, <1>3, Moved DEF Acquire, SafeClose, Labels
    <2> QED BY <1>0, <1>1, <1>3, <2>1 DEF Acquire, SafeClose, TypeOK, globals, native, request
  <1>4. CASE Open(r)
    <2>1. pc' \in [Procs -> Labels]
      BY <1>0, <1>4, Moved DEF Open, Finish, Labels
    <2>2. ASSUME NEW h \in Free, pathOf' = [pathOf EXCEPT ![h] = want[r]], pc[r] = "open"
          PROVE  h \in Handles /\ pathOf' \in [Handles -> DbPaths \union {None}]
      BY <2>2 DEF Free, TypeOK
    <2>3. CASE Finish(r) /\ UNCHANGED <<globals, native>>
      BY <1>0, <1>1, <1>4, <2>1, <2>3 DEF Open, Finish, TypeOK, globals, native
    <2>4. CASE ~(Finish(r) /\ UNCHANGED <<globals, native>>)
      <3>1. PICK h \in Free :
                /\ conn' = h /\ db' = h
                /\ liveConns' = liveConns \union {h}
                /\ liveDbs' = liveDbs \union {h}
                /\ pathOf' = [pathOf EXCEPT ![h] = want[r]]
                /\ loaded' = loaded \ {h}
                /\ mine' = [mine EXCEPT ![r] = h]
                /\ UNCHANGED <<path, fts, queue, want, attempt, next, closes>>
        BY <1>4, <2>4 DEF Open
      <3>2. h \in Handles /\ pathOf' \in [Handles -> DbPaths \union {None}]
        BY <1>4, <2>2, <3>1 DEF Open
      <3>3. mine' \in [Requests -> Handles \union {None}]
        BY <3>1, <3>2 DEF TypeOK
      <3> QED BY <1>1, <2>1, <3>1, <3>2, <3>3 DEF TypeOK
    <2> QED BY <2>3, <2>4
  <1>5. CASE Schema(r)
    <2>1. pc' \in [Procs -> Labels]
      BY <1>0, <1>5, Moved DEF Schema, Initialized, Finish, Labels
    <2> QED BY <1>0, <1>1, <1>5, <2>1 DEF Schema, Initialized, Finish, TypeOK, native, request
  <1>6. CASE FtsAnswers(r)
    <2>1. pc' \in [Procs -> Labels]
      BY <1>0, <1>6, Moved DEF FtsAnswers, Initialized, Labels
    <2> QED BY <1>0, <1>1, <1>6, <2>1 DEF FtsAnswers, Initialized, TypeOK
  <1>7. CASE OperationEnds(r)
    <2>1. pc' \in [Procs -> Labels]
      BY <1>0, <1>7, Moved DEF OperationEnds, Finish, Labels
    <2> QED BY <1>0, <1>1, <1>7, <2>1 DEF OperationEnds, Finish, TypeOK, globals, native
  <1>8. CASE Cleanup(r)
    <2>1. pc' \in [Procs -> Labels]
      BY <1>0, <1>8, Moved DEF Cleanup, SafeClose, Labels
    <2> QED BY <1>0, <1>1, <1>8, <2>1 DEF Cleanup, SafeClose, TypeOK, globals, native, request
  <1>9. CASE Retry(r)
    <2>1. pc' \in [Procs -> Labels]
      BY <1>0, <1>9, Moved DEF Retry, Labels
    <2>2. attempt[r] \in 0 .. LockRetries /\ attempt[r] < LockRetries
      BY <1>9 DEF Retry, Shape, TypeOK
    <2>3. attempt[r] + 1 \in 0 .. LockRetries
      BY <2>2, Facts, SMT
    <2> QED BY <1>0, <1>1, <1>9, <2>1, <2>3 DEF Retry, TypeOK, globals, native
  <1>10. CASE Busy(r)
    <2>1. pc' \in [Procs -> Labels]
      BY <1>0, <1>10, Moved DEF Busy, Labels
    <2> QED BY <1>0, <1>1, <1>10, <2>1 DEF Busy, TypeOK, globals, native, request
  <1> QED BY <1>2, <1>3, <1>4, <1>5, <1>6, <1>7, <1>8, <1>9, <1>10 DEF Step

LEMMA CloseLbugInv ==
    ASSUME TypeOK, Shape, LockOK, NEW c \in Closers, CloseLbug(c)
    PROVE  TypeOK' /\ Shape' /\ LockOK' /\ closes' # 0
  <1>0. c \in Procs /\ c \notin Requests
    BY Facts
  <1>1. closes' \in 0 .. MaxCloses /\ closes' # 0
    BY Facts, SMT DEF CloseLbug, TypeOK
  <1>2. /\ pc' \in [Procs -> Labels] /\ pc'[c] = "flush"
        /\ \A q \in Procs : q # c => pc'[q] = pc[q]
    BY <1>0, Moved DEF CloseLbug, SafeClose, Labels
  <1>3. next' = [next EXCEPT ![c] = "idle"]
    BY DEF CloseLbug, SafeClose
  <1>4. TypeOK'
    BY <1>0, <1>1, <1>2, <1>3 DEF CloseLbug, TypeOK, globals, native, request
  <1>5. Shape'
    BY <1>0, <1>2, <1>3, Facts DEF CloseLbug, Shape, TypeOK, Closing, request
  <1>6. LockOK'
    BY <1>0, LockKept DEF CloseLbug, SafeClose
  <1> QED BY <1>1, <1>4, <1>5, <1>6

----------------------------------------------------------------------------
(* The labels                                                                *)

LEMMA ShapeClosed ==
    ASSUME TypeOK, Shape, NEW p \in Procs, CloseStep(p)
    PROVE  Shape'
  <1>0. want' = want /\ attempt' = attempt
    BY DEF CloseStep, Flushed, ConnClosed, DbClosed, Reset, request
  <1>1. CASE Reset(p)
    <2>1. /\ pc'[p] = next[p] /\ \A q \in Procs : q # p => pc'[q] = pc[q]
          /\ next'[p] = "idle" /\ \A q \in Procs : q # p => next'[q] = next[q]
          /\ pc[p] = "reset"
      BY <1>1, Moved DEF Reset, TypeOK
    <2> QED BY <1>0, <2>1, Facts DEF Shape, Closing, Procs
  <1>2. CASE Flushed(p) \/ ConnClosed(p) \/ DbClosed(p)
    <2>1. /\ \A q \in Procs : q # p => pc'[q] = pc[q]
          /\ pc'[p] \in Closing /\ pc[p] \in Closing
          /\ next' = next
      BY <1>2, Moved DEF Flushed, ConnClosed, DbClosed, CloseDb, Closing
    <2> QED BY <1>0, <2>1, Facts DEF Shape, Procs, Closing
  <1> QED BY <1>1, <1>2 DEF CloseStep

LEMMA ShapeStep ==
    ASSUME TypeOK, Shape, NEW r \in Requests,
           Step(r) \/ Busy(r) \/ \E p \in DbPaths : Ask(r, p)
    PROVE  Shape'
  <1>0. /\ r \in Procs /\ r \notin Closers
        /\ "open" # "delay" /\ "idle" \notin Closing /\ "lock" \notin Closing
    BY Facts DEF Closing
  <1>1. \A q \in Procs : q # r => pc'[q] = pc[q]
    BY <1>0, Moved DEF Step, Busy, Ask, Acquire, Open, Schema, FtsAnswers, OperationEnds,
                      Cleanup, Retry, SafeClose, Finish, Initialized
  <1>2. \A q \in Procs : q # r => next'[q] = next[q]
    BY <1>0 DEF Step, Busy, Ask, Acquire, Open, Schema, FtsAnswers, OperationEnds,
                      Cleanup, Retry, SafeClose, TypeOK
  <1>3. \A q \in Requests : q # r => want'[q] = want[q] /\ attempt'[q] = attempt[q]
    BY DEF Step, Busy, Ask, Acquire, Open, Schema, FtsAnswers, OperationEnds,
           Cleanup, Retry, Finish, TypeOK, request
  <1>4. /\ pc'[r] \in Closing => next'[r] \in {"open", "delay"}
        /\ pc'[r] \in {"cleanup", "delay"} \/ (pc'[r] \in Closing /\ next'[r] = "delay")
               => attempt'[r] < LockRetries
        /\ pc'[r] # "idle" => want'[r] \in DbPaths
    <2>1. CASE \E p \in DbPaths : Ask(r, p)
      BY <1>0, <2>1, Moved DEF Ask, TypeOK, Closing
    <2>2. CASE Acquire(r)
      <3>1. pc'[r] \in {"run", "flush", "open"} /\ UNCHANGED request /\ pc[r] = "lock"
            /\ (pc'[r] = "flush" => next'[r] = "open")
        BY <1>0, <2>2, Moved DEF Acquire, SafeClose, TypeOK
      <3> QED BY <1>0, <3>1 DEF Shape, Closing, request
    <2>3. CASE Open(r)
      <3>1. \/ pc'[r] = "schema" /\ UNCHANGED <<want, attempt>>
            \/ pc'[r] = "idle"
        BY <1>0, <2>3, Moved DEF Open, Finish
      <3> QED BY <2>3, <3>1 DEF Open, Shape, Closing
    <2>4. CASE Schema(r)
      <3>1. \/ pc'[r] \in {"run", "fts"} /\ UNCHANGED <<want, attempt>>
            \/ pc'[r] = "idle"
        BY <1>0, <2>4, Moved DEF Schema, Finish, Initialized, request
      <3> QED BY <2>4, <3>1 DEF Schema, Shape, Closing
    <2>5. CASE FtsAnswers(r)
      <3>1. pc'[r] = "run" /\ UNCHANGED <<want, attempt>>
        BY <1>0, <2>5, Moved DEF FtsAnswers, Initialized
      <3> QED BY <2>5, <3>1 DEF FtsAnswers, Shape, Closing
    <2>6. CASE OperationEnds(r)
      <3>1. pc'[r] = "idle"
        BY <1>0, <2>6, Moved DEF OperationEnds, Finish
      <3> QED BY <3>1 DEF Closing
    <2>7. CASE Cleanup(r)
      <3>1. pc'[r] = "flush" /\ next'[r] = "delay" /\ UNCHANGED request
        BY <1>0, <2>7, Moved DEF Cleanup, SafeClose, TypeOK
      <3> QED BY <2>7, <3>1 DEF Cleanup, Shape, request
    <2>8. CASE Retry(r)
      <3>1. pc'[r] = "lock" /\ UNCHANGED want
        BY <1>0, <2>8, Moved DEF Retry
      <3> QED BY <1>0, <2>8, <3>1 DEF Retry, Shape
    <2>9. CASE Busy(r)
      <3>1. pc'[r] = "cleanup" /\ UNCHANGED request
        BY <1>0, <2>9, Moved DEF Busy
      <3> QED BY <2>9, <3>1 DEF Busy, Shape, Closing, request
    <2> QED BY <2>1, <2>2, <2>3, <2>4, <2>5, <2>6, <2>7, <2>8, <2>9 DEF Step
  <1> QED BY <1>0, <1>1, <1>2, <1>3, <1>4, Facts DEF Shape

----------------------------------------------------------------------------
(* The database of the connection                                            *)

LEMMA OpenedStep ==
    ASSUME TypeOK, Shape, LockOK, Opened, NEW r \in Requests,
           Step(r) \/ Busy(r) \/ \E p \in DbPaths : Ask(r, p)
    PROVE  Opened'
  <1>0. r \in Procs /\ {"schema", "fts", "run", "open"} \subseteq Holding
    BY Facts DEF Holding
  <1>1. /\ \A q \in Procs : q # r => pc'[q] = pc[q]
        /\ pc[r] # "conn"
    BY <1>0, Moved DEF Step, Busy, Ask, Acquire, Open, Schema, FtsAnswers, OperationEnds,
                      Cleanup, Retry, SafeClose, Finish, Initialized
  <1>2. \A q \in Requests : q # r => want'[q] = want[q]
    BY DEF Step, Busy, Ask, Acquire, Open, Schema, FtsAnswers, OperationEnds,
           Cleanup, Retry, Finish, TypeOK, request
  <1>3. ASSUME NEW p \in Procs, pc[p] = "conn" PROVE pc'[p] = "conn"
    BY <1>1, <1>3
  <1>4. ASSUME UNCHANGED <<conn, path, liveDbs, liveConns, pathOf>>,
               pc[r] \notin {"schema", "fts"}, pc'[r] \notin {"schema", "fts", "run"}
        PROVE  Opened'
    BY <1>1, <1>2, <1>3, <1>4, Facts DEF Opened
  <1>15. ASSUME UNCHANGED <<conn, liveDbs, liveConns, pathOf>>, conn # None,
               pathOf[conn] = want[r], want'[r] = want[r],
               path' \in {None, pathOf[conn]} \/ \E s \in Requests : pc'[s] \in {"schema", "fts"}
        PROVE  Opened'
    <2>1. ASSUME NEW s \in Requests, pc'[s] \in {"schema", "fts", "run"}
          PROVE  pathOf[conn] = want'[s]
      <3>1. CASE s = r
        BY <1>15, <3>1
      <3>2. CASE s # r
        BY <1>1, <1>2, <1>15, <2>1, <3>2, Facts DEF Opened
      <3> QED BY <3>1, <3>2
    <2>2. conn \in liveConns \/ \E p \in Procs : pc'[p] = "conn"
      BY <1>3, <1>15 DEF Opened
    <2> QED BY <1>15, <2>1, <2>2 DEF Opened
  <1>5. ASSUME Initialized(r), pc[r] \in {"schema", "fts"}, UNCHANGED want,
               UNCHANGED <<conn, liveDbs, liveConns, pathOf>>
        PROVE  Opened'
    <2>1. path' = want[r] /\ pc'[r] = "run"
      BY <1>0, <1>5, Moved DEF Initialized
    <2>2. conn # None => pathOf[conn] = want[r]
      BY <1>5 DEF Opened
    <2>3. conn = None => Opened'
      BY <1>5 DEF Opened
    <2> QED BY <2>1, <2>2, <2>3, <1>5, <1>15
  <1>6. CASE \E p \in DbPaths : Ask(r, p)
    BY <1>0, <1>4, <1>6, Moved DEF Ask, globals, native
  <1>7. CASE Acquire(r)
    <2>1. UNCHANGED <<conn, path, liveDbs, liveConns, pathOf>> /\ pc[r] = "lock" /\ Holds(r)
          /\ UNCHANGED want
      BY <1>7 DEF Acquire, globals, native, request
    <2>2. CASE pc'[r] = "run" /\ Current(want[r])
      <3>1. \A s \in Requests : pc[s] \notin {"schema", "fts"}
        BY <1>0, <2>1 DEF LockOK, Holds
      <3>2. want[r] \in DbPaths /\ want[r] # None
        BY <2>1, Facts DEF Shape
      <3>3. pathOf[conn] = want[r]
        BY <2>2, <3>1, <3>2 DEF Opened, Current
      <3> QED BY <1>15, <2>1, <2>2, <3>3 DEF Current
    <2>3. CASE pc'[r] \in {"flush", "open"}
      BY <1>4, <2>1, <2>3
    <2> QED BY <1>0, <1>7, <2>2, <2>3, Moved DEF Acquire, SafeClose
  <1>8. CASE Open(r)
    <2>1. CASE Finish(r) /\ UNCHANGED <<globals, native>>
      BY <1>0, <1>4, <1>8, <2>1, Moved DEF Open, Finish, globals, native
    <2>2. CASE ~(Finish(r) /\ UNCHANGED <<globals, native>>)
      <3>1. PICK h \in Free :
                /\ conn' = h
                /\ liveConns' = liveConns \union {h}
                /\ liveDbs' = liveDbs \union {h}
                /\ pathOf' = [pathOf EXCEPT ![h] = want[r]]
                /\ UNCHANGED want /\ Goto(r, "schema") /\ pc[r] = "open"
        BY <1>8, <2>2 DEF Open
      <3>2. pathOf'[h] = want[r] /\ pc'[r] = "schema"
        BY <1>0, <3>1, Moved DEF Free, TypeOK
      <3>3. ASSUME NEW s \in Requests, pc'[s] \in {"schema", "fts", "run"} PROVE s = r
        BY <1>0, <1>1, <3>1, <3>3, OneHolder, Facts
      <3> QED BY <3>1, <3>2, <3>3 DEF Opened
    <2> QED BY <2>1, <2>2
  <1>9. CASE Schema(r)
    <2>0. pc[r] = "schema" /\ UNCHANGED <<conn, liveDbs, liveConns, pathOf>>
      BY <1>9 DEF Schema, native
    <2>1. CASE Initialized(r) /\ UNCHANGED want
      BY <1>5, <2>0, <2>1
    <2>2. CASE conn = None
      BY <2>0, <2>2 DEF Opened
    <2>3. CASE Goto(r, "fts") /\ UNCHANGED <<path, want>>
      <3>1. pc'[r] = "fts"
        BY <1>0, <2>3, Moved
      <3>2. conn # None => pathOf[conn] = want[r]
        BY <2>0 DEF Opened
      <3>3. conn = None => Opened'
        BY <2>0 DEF Opened
      <3> QED BY <1>15, <2>0, <2>3, <3>1, <3>2, <3>3
    <2> QED BY <1>9, <2>1, <2>2, <2>3 DEF Schema, request
  <1>10. CASE FtsAnswers(r)
    BY <1>5, <1>10 DEF FtsAnswers
  <1>11. CASE OperationEnds(r)
    BY <1>0, <1>4, <1>11, Moved DEF OperationEnds, Finish, globals, native
  <1>12. CASE Cleanup(r)
    BY <1>0, <1>4, <1>12, Moved DEF Cleanup, SafeClose, globals, native
  <1>13. CASE Retry(r)
    BY <1>0, <1>4, <1>13, Moved DEF Retry, globals, native
  <1>14. CASE Busy(r)
    BY <1>0, <1>4, <1>14, Moved DEF Busy, globals, native
  <1> QED BY <1>6, <1>7, <1>8, <1>9, <1>10, <1>11, <1>12, <1>13, <1>14 DEF Step

LEMMA OpenedClosed ==
    ASSUME TypeOK, Shape, Opened, NEW p \in Procs, CloseStep(p)
    PROVE  Opened'
  <1>0. want' = want /\ pathOf' = pathOf
    BY DEF CloseStep, Flushed, ConnClosed, DbClosed, Reset, request, native
  <1>1. /\ \A q \in Procs : q # p => pc'[q] = pc[q]
        /\ pc[p] \in Closing
        /\ pc'[p] \in Closing \union {"idle", "open", "delay"}
    BY Moved DEF CloseStep, Flushed, ConnClosed, DbClosed, Reset, CloseDb, Closing, TypeOK
  <1>2. \A q \in Requests : pc'[q] \in {"schema", "fts", "run"} <=> pc[q] \in {"schema", "fts", "run"}
    BY <1>1, Facts DEF Closing
  <1>3. \A q \in Requests : pc'[q] \in {"schema", "fts"} <=> pc[q] \in {"schema", "fts"}
    BY <1>1, Facts DEF Closing
  <1>4. CASE Flushed(p)
    <2>1. CASE conn = None
      BY <1>4, <2>1 DEF Flushed, Opened, globals
    <2>2. CASE conn # None
      <3>1. pc'[p] = "conn" /\ UNCHANGED <<conn, path, liveDbs>>
        BY <1>4, <2>2, Moved DEF Flushed, globals
      <3> QED BY <1>0, <1>2, <1>3, <3>1 DEF Opened
    <2> QED BY <2>1, <2>2
  <1>5. CASE ConnClosed(p)
    BY <1>5 DEF ConnClosed, Opened
  <1>6. CASE DbClosed(p)
    <2>1. pc[p] = "db" /\ UNCHANGED <<conn, path, liveDbs, liveConns>>
      BY <1>6 DEF DbClosed, native
    <2> QED BY <1>0, <1>1, <1>2, <1>3, <2>1 DEF Opened
  <1>7. CASE Reset(p)
    <2>1. pc[p] = "reset" /\ UNCHANGED <<conn, liveDbs, liveConns>> /\ path' = None
      BY <1>7 DEF Reset, Forget, native
    <2> QED BY <1>0, <1>1, <1>2, <2>1 DEF Opened
  <1> QED BY <1>4, <1>5, <1>6, <1>7 DEF CloseStep

----------------------------------------------------------------------------
(* Without closeLbug                                                         *)

LEMMA UndisturbedStep ==
    ASSUME TypeOK, Shape, LockOK, Undisturbed, NEW r \in Requests,
           Step(r) \/ Busy(r) \/ \E p \in DbPaths : Ask(r, p)
    PROVE  Undisturbed'
  <1>0. r \in Procs /\ r \notin Closers /\ None \notin Handles
    BY Facts
  <1>1. \A q \in Procs : q # r => pc'[q] = pc[q]
    BY <1>0, Moved DEF Step, Busy, Ask, Acquire, Open, Schema, FtsAnswers, OperationEnds,
                      Cleanup, Retry, SafeClose, Finish, Initialized
  <1>2. closes' = closes
    BY DEF Step, Busy, Ask, Acquire, Open, Schema, FtsAnswers, OperationEnds, Cleanup, Retry
  <1> SUFFICES ASSUME closes = 0 PROVE Undisturbed'
    BY <1>2 DEF Undisturbed
  <1>3. \A c \in Closers : pc'[c] = "idle"
    BY <1>0, <1>1, Facts DEF Undisturbed
  <1>4. \A s \in Requests : s # r => want'[s] = want[s] /\ mine'[s] = mine[s]
    BY DEF Step, Busy, Ask, Acquire, Open, Schema, FtsAnswers, OperationEnds,
           Cleanup, Retry, Finish, Initialized, TypeOK, request
  <1>5. ASSUME UNCHANGED <<conn, db, path, fts, liveDbs, loaded>>,
               pc[r] \notin {"db", "reset"},
               pc'[r] \in {"lock", "flush", "cleanup", "idle"}
        PROVE  Undisturbed'
    BY <1>1, <1>3, <1>4, <1>5, Facts DEF Undisturbed
  <1>6. ASSUME pc[r] \in Holding
        PROVE  \A s \in Requests : s # r => pc'[s] \notin Holding
    BY <1>1, <1>6, OneHolder, Facts
  <1>7. {"db", "reset", "open", "schema", "fts", "run"} \subseteq Holding
    BY DEF Holding, Closing
  <1>8. ASSUME Initialized(r), pc[r] \in {"schema", "fts"}, UNCHANGED <<conn, db, liveDbs, want>>,
               fts' => conn \in loaded'
        PROVE  Undisturbed'
    <2>1. path' = want[r] /\ pc'[r] = "run" /\ conn # None
      BY <1>0, <1>8, Moved DEF Initialized, Undisturbed
    <2>2. ASSUME NEW s \in Requests, s # r
          PROVE  pc'[s] \notin {"db", "reset", "open", "schema", "fts", "run"}
      BY <1>6, <1>7, <1>8, <2>2
    <2> QED BY <1>3, <1>8, <2>1, <2>2 DEF Undisturbed
  <1>9. CASE \E p \in DbPaths : Ask(r, p)
    BY <1>0, <1>5, <1>9, Moved DEF Ask, globals, native
  <1>10. CASE Acquire(r)
    <2>1. UNCHANGED <<conn, db, path, fts, liveDbs, loaded, want>> /\ pc[r] = "lock" /\ Holds(r)
      BY <1>10 DEF Acquire, globals, native, request
    <2>2. ASSUME NEW s \in Requests, s # r
          PROVE  pc'[s] \notin {"db", "reset", "open", "schema", "fts", "run"}
      BY <1>1, <1>7, <2>1, <2>2, Facts DEF LockOK, Holds
    <2>3. CASE pc'[r] = "run" /\ Current(want[r])
      BY <1>3, <2>1, <2>2, <2>3 DEF Undisturbed, Current
    <2>4. CASE pc'[r] = "flush"
      BY <1>5, <2>1, <2>4
    <2>5. CASE pc'[r] = "open" /\ conn = None /\ db = None
      <3>1. \A s \in Requests : pc[s] \notin {"db", "reset"}
        BY <1>7, <2>1 DEF LockOK, Holds
      <3>2. ~fts /\ liveDbs \subseteq {db}
        BY <2>5, <3>1 DEF Undisturbed
      <3> QED BY <1>3, <2>1, <2>2, <2>5, <3>2 DEF Undisturbed
    <2> QED BY <1>0, <1>10, <2>3, <2>4, <2>5, Moved DEF Acquire, SafeClose
  <1>11. CASE Open(r)
    <2>0. pc[r] = "open" /\ conn = None /\ db = None /\ ~fts /\ liveDbs \subseteq {db}
      BY <1>11 DEF Open, Undisturbed
    <2>1. CASE Finish(r) /\ UNCHANGED <<globals, native>>
      BY <1>0, <1>5, <2>0, <2>1, Moved DEF Finish, globals, native
    <2>2. CASE ~(Finish(r) /\ UNCHANGED <<globals, native>>)
      <3>1. PICK h \in Free :
                /\ conn' = h /\ db' = h
                /\ liveDbs' = liveDbs \union {h}
                /\ mine' = [mine EXCEPT ![r] = h]
                /\ UNCHANGED <<path, fts, want>> /\ Goto(r, "schema")
        BY <1>11, <2>2 DEF Open
      <3>2. h \in Handles /\ h # None /\ mine'[r] = h /\ pc'[r] = "schema"
        BY <1>0, <3>1, Moved DEF Free, TypeOK
      <3>3. liveDbs = {}
        BY <2>0, <1>0 DEF TypeOK
      <3>4. ASSUME NEW s \in Requests, s # r
            PROVE  pc'[s] \notin {"db", "reset", "open", "schema", "fts", "run"}
        BY <1>6, <1>7, <2>0, <3>4
      <3> QED BY <1>3, <2>0, <3>1, <3>2, <3>3, <3>4 DEF Undisturbed
    <2> QED BY <2>1, <2>2
  <1>12. CASE Schema(r)
    <2>0. /\ pc[r] = "schema" /\ UNCHANGED <<conn, db, fts, liveDbs, loaded>>
          /\ conn # None /\ conn = mine[r] /\ ~fts
      BY <1>12 DEF Schema, native, Undisturbed
    <2>1. CASE Goto(r, "fts") /\ UNCHANGED <<path, request>>
      <3>1. pc'[r] = "fts"
        BY <1>0, <2>1, Moved
      <3>2. ASSUME NEW s \in Requests, s # r
            PROVE  pc'[s] \notin {"db", "reset", "open", "schema", "fts", "run"}
        BY <1>6, <1>7, <2>0, <3>2
      <3> QED BY <1>3, <2>0, <2>1, <3>1, <3>2 DEF Undisturbed, request
    <2> QED BY <1>12, <2>0, <2>1 DEF Schema
  <1>13. CASE FtsAnswers(r)
    <2>1. conn # None /\ conn = mine[r] /\ conn = db
      BY <1>13 DEF FtsAnswers, Undisturbed
    <2>2. fts' => conn \in loaded'
      BY <1>13, <2>1 DEF FtsAnswers, Undisturbed
    <2> QED BY <1>8, <1>13, <2>2 DEF FtsAnswers
  <1>14. CASE OperationEnds(r)
    BY <1>0, <1>5, <1>14, Moved DEF OperationEnds, Finish, globals, native
  <1>15. CASE Cleanup(r)
    BY <1>0, <1>5, <1>15, Moved DEF Cleanup, SafeClose, globals, native
  <1>16. CASE Retry(r)
    BY <1>0, <1>5, <1>16, Moved DEF Retry, globals, native
  <1>17. CASE Busy(r)
    BY <1>0, <1>5, <1>17, Moved DEF Busy, globals, native
  <1> QED BY <1>9, <1>10, <1>11, <1>12, <1>13, <1>14, <1>15, <1>16, <1>17 DEF Step

LEMMA UndisturbedClosed ==
    ASSUME TypeOK, Shape, LockOK, Undisturbed, NEW p \in Procs, CloseStep(p)
    PROVE  Undisturbed'
  <1>0. closes' = closes /\ mine' = mine /\ want' = want /\ loaded' = loaded
    BY DEF CloseStep, Flushed, ConnClosed, DbClosed, Reset, request, native
  <1> SUFFICES ASSUME closes = 0 PROVE Undisturbed'
    BY <1>0 DEF Undisturbed
  <1>1. pc[p] \in Closing
    BY DEF CloseStep, Flushed, ConnClosed, DbClosed, Reset, Closing
  <1>2. p \in Requests /\ None \notin Handles
    BY <1>1, Facts DEF Undisturbed, Procs, Closing
  <1>3. \A q \in Procs : q # p => pc'[q] = pc[q]
    BY Moved DEF CloseStep, Flushed, ConnClosed, DbClosed, Reset, CloseDb
  <1>4. \A c \in Closers : pc'[c] = "idle"
    BY <1>2, <1>3, Facts DEF Undisturbed
  <1>5. ASSUME NEW s \in Requests, s # p
        PROVE  pc'[s] \notin {"db", "reset", "open", "schema", "fts", "run"}
    BY <1>1, <1>2, <1>3, <1>5, OneHolder, Facts DEF Holding, Closing
  <1>6. CASE Flushed(p)
    <2>1. CASE conn # None
      <3>1. pc'[p] = "conn" /\ UNCHANGED <<conn, db, path, fts, liveDbs>>
        BY <1>6, <2>1, Moved DEF Flushed, globals
      <3> QED BY <1>0, <1>4, <1>5, <2>1, <3>1 DEF Undisturbed
    <2>2. CASE conn = None /\ db # None
      <3>1. pc'[p] = "db" /\ UNCHANGED <<conn, db, path, fts>> /\ liveDbs' = liveDbs \ {db}
        BY <1>6, <2>2, Moved DEF Flushed, CloseDb, globals
      <3> QED BY <1>0, <1>2, <1>4, <1>5, <2>2, <3>1 DEF Undisturbed
    <2>3. CASE conn = None /\ db = None
      <3>1. pc'[p] = "reset" /\ UNCHANGED <<conn, db, path, fts, liveDbs>>
        BY <1>6, <2>3, Moved DEF Flushed, CloseDb, globals
      <3> QED BY <1>0, <1>2, <1>4, <1>5, <2>3, <3>1 DEF Undisturbed
    <2> QED BY <2>1, <2>2, <2>3
  <1>7. CASE ConnClosed(p)
    <2>1. conn' = None /\ UNCHANGED <<db, path, fts>>
      BY <1>7 DEF ConnClosed
    <2>2. CASE db # None
      <3>1. pc'[p] = "db" /\ liveDbs' = liveDbs \ {db}
        BY <1>7, <2>2, Moved DEF ConnClosed, CloseDb
      <3> QED BY <1>0, <1>2, <1>4, <1>5, <2>1, <2>2, <3>1 DEF Undisturbed
    <2>3. CASE db = None
      <3>1. pc'[p] = "reset" /\ liveDbs' = liveDbs
        BY <1>7, <2>3, Moved DEF ConnClosed, CloseDb
      <3> QED BY <1>0, <1>2, <1>4, <1>5, <2>1, <2>3, <3>1 DEF Undisturbed
    <2> QED BY <2>2, <2>3
  <1>8. CASE DbClosed(p)
    <2>1. pc[p] = "db" /\ pc'[p] = "reset" /\ db' = None /\ UNCHANGED <<conn, path, fts, liveDbs>>
      BY <1>8, Moved DEF DbClosed, native
    <2>2. conn = None /\ liveDbs = {}
      BY <1>2, <2>1 DEF Undisturbed
    <2> QED BY <1>0, <1>2, <1>4, <1>5, <2>1, <2>2 DEF Undisturbed
  <1>9. CASE Reset(p)
    <2>1. /\ pc[p] = "reset" /\ pc'[p] \in {"open", "delay"} /\ ~fts'
          /\ UNCHANGED <<conn, db, liveDbs>>
      BY <1>1, <1>2, <1>9, Moved DEF Reset, Forget, Shape, native
    <2>2. conn = None /\ db = None
      BY <1>2, <2>1 DEF Undisturbed
    <2> QED BY <1>0, <1>2, <1>4, <1>5, <2>1, <2>2 DEF Undisturbed
  <1> QED BY <1>6, <1>7, <1>8, <1>9 DEF CloseStep

----------------------------------------------------------------------------
LEMMA Inductive == IInv /\ [Next]_vars => IInv'
  <1> SUFFICES ASSUME TypeOK, Shape, LockOK, Opened, Undisturbed, [Next]_vars PROVE IInv'
    BY DEF IInv
  <1>1. ASSUME NEW r \in Requests, Step(r) \/ Busy(r) \/ \E p \in DbPaths : Ask(r, p)
        PROVE  IInv'
    BY <1>1, TypeStep, ShapeStep, LockStep, OpenedStep, UndisturbedStep DEF IInv
  <1>2. ASSUME NEW p \in Procs, CloseStep(p) PROVE IInv'
    BY <1>2, TypeClosed, ShapeClosed, LockClosed, OpenedClosed, UndisturbedClosed DEF IInv
  <1>3. ASSUME NEW c \in Closers, CloseLbug(c) PROVE IInv'
    <2>1. TypeOK' /\ Shape' /\ LockOK' /\ closes' # 0
      BY <1>3, CloseLbugInv
    <2>2. Undisturbed'
      BY <2>1 DEF Undisturbed
    <2>3. /\ pc[c] = "idle" /\ \A q \in Procs : q # c => pc'[q] = pc[q]
          /\ UNCHANGED <<conn, path, liveConns, liveDbs, pathOf, want>>
      BY <1>3, Facts, Moved DEF CloseLbug, SafeClose, globals, native, request
    <2>4. Opened'
      BY <2>3, Facts DEF Opened
    <2> QED BY <2>1, <2>2, <2>4 DEF IInv
  <1>4. CASE UNCHANGED vars
    <2>1. TypeOK' /\ Shape' /\ LockOK'
      BY <1>4 DEF vars, globals, native, request, TypeOK, Shape, LockOK, Distinct, Holds
    <2>2. Opened' /\ Undisturbed'
      BY <1>4 DEF vars, globals, native, request, Opened, Undisturbed
    <2> QED BY <2>1, <2>2 DEF IInv
  <1> QED BY <1>1, <1>2, <1>3, <1>4 DEF Next

LEMMA SessionInvariant == Spec => []IInv
  BY InitInv, Inductive, PTL DEF Spec

(* Every variable keeps its type; in particular no call counts more attempts
   than withLbugDb makes. *)
THEOREM TypeCorrect == Spec => []TypeOK
  <1>1. IInv => TypeOK
    BY DEF IInv
  <1> QED BY <1>1, SessionInvariant, PTL

(* runWithSessionLock gives the session to one call at a time, through every
   busy retry that releases the lock and queues again. *)
OneSession ==
    \A r, s \in Requests : (pc[r] \in Holding /\ pc[s] \in Holding) => r = s

THEOREM LockExclusive == Spec => []OneSession
  <1>1. IInv => OneSession
    BY OneHolder DEF IInv, OneSession
  <1> QED BY <1>1, SessionInvariant, PTL

(* An operation of withLbugDb never runs on the database of another request,
   whatever closeLbug closes meanwhile. *)
THEOREM OwnDatabase == Spec => []RightDatabase
  <1>1. IInv => RightDatabase
    BY DEF IInv, Opened, RightDatabase
  <1> QED BY <1>1, SessionInvariant, PTL

(* Without closeLbug, an operation keeps the live connection it began with. *)
THEOREM SessionLasts == Spec => []SessionIntact
  <1>1. ASSUME IInv, NEW r \in Requests, pc[r] = "run", closes = 0
        PROVE  Usable /\ path = want[r] /\ (fts => conn \in loaded)
    <2>1. conn # None /\ path = want[r] /\ (fts => conn \in loaded)
      BY <1>1 DEF IInv, Undisturbed
    <2>2. ASSUME NEW p \in Procs, pc[p] = "conn" PROVE FALSE
      <3>1. p \in Requests
        BY <1>1, <2>2 DEF IInv, Undisturbed, Procs
      <3> QED BY <1>1, <2>2, <3>1, OneHolder DEF IInv, Holding, Closing
    <2> QED BY <1>1, <2>1, <2>2 DEF IInv, Opened, Usable
  <1>2. IInv => SessionIntact
    BY <1>1 DEF SessionIntact
  <1> QED BY <1>2, SessionInvariant, PTL

(* safeClose leaves neither a dead connection nor, without closeLbug, a native
   database that nothing refers to. *)
THEOREM HandlesKept == Spec => []HandlesSane
  <1>1. IInv => HandlesSane
    BY DEF IInv, Opened, Undisturbed, HandlesSane, Usable
  <1> QED BY <1>1, SessionInvariant, PTL
=============================================================================
