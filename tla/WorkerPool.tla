------------------------------ MODULE WorkerPool ------------------------------
(***************************************************************************)
(* The pool of parse workers,                                              *)
(* gitnexus/src/core/ingestion/workers/worker-pool.ts: dispatch splits the *)
(* files into jobs, hands them to worker threads, splits and requeues the  *)
(* job of a worker that falls silent and replaces that worker, and either  *)
(* resolves with all the results in order or fails the whole pool.         *)
(*                                                                         *)
(* Each action is one callback of the main thread.  A message is delivered *)
(* when it is sent: the only thing that can overtake it is the idle timer, *)
(* which removes the listeners and terminates the worker, so a message     *)
(* that loses that race is one that was never sent.                        *)
(***************************************************************************)
EXTENDS Integers, Sequences, FiniteSets, Functions

CONSTANTS
  Size,               \* poolSize
  N,                  \* files in a dispatch
  MaxItems,           \* subBatchSize
  MaxTimeoutRetries,  \* maxTimeoutRetries
  MaxDispatches,      \* bound: dispatches before the pool is terminated
  Events              \* what goes wrong: "silence", "error", "crash", "start"

ASSUME PoolAssumption ==
  /\ Size \in Nat \ {0} /\ N \in Nat \ {0} /\ MaxItems \in Nat \ {0}
  /\ MaxTimeoutRetries \in Nat /\ MaxDispatches \in Nat
  /\ Events \subseteq {"silence", "error", "crash", "start"}

Slots == 1 .. Size
Items == 1 .. N

VARIABLES
  dispatched,   \* dispatches so far
  call,         \* the last dispatch: "none", "pending", "resolved" or "rejected"
  jobs,         \* the queue of jobs no worker has yet
  run,          \* per slot: "idle", "running" a job, "stopping" its silent
                \* worker, or "starting" a replacement
  job,          \* per slot: the job it runs
  results,      \* jobs whose result has arrived
  active,       \* activeWorkers
  stopped,      \* stopped
  completed,    \* completedFiles
  inFlight,     \* inFlightProgress
  maxReported,  \* the last number given to onProgress
  thread,       \* per slot, its worker: "idle", "parsing", "parsed" or "dead"
  told,         \* per slot: terminate() was called on its worker
  broken,       \* poolBroken
  poolFailure,  \* poolFailure
  cause,        \* the error the failing dispatch will be rejected with
  reason,       \* the error the last rejected dispatch was rejected with
  closed        \* terminate() was called on the pool

dispatchVars == <<call, jobs, run, job, results, active, stopped, completed,
                  inFlight, maxReported>>
poolVars == <<broken, poolFailure, cause>>
vars == <<dispatched, dispatchVars, thread, told, poolVars, reason, closed>>

Jobs == [first : Items, last : Items, attempt : 0 .. MaxTimeoutRetries]
NoJob == [first |-> 1, last |-> 0, attempt |-> 0]
NoError == <<"none", 0>>
Errors == {"timeout", "error", "exit", "start"} \X Slots

ItemsOf(j) == j.first .. j.last
Length(j) == j.last - j.first + 1

StateTypeOK ==
  /\ dispatched \in 0 .. MaxDispatches
  /\ call \in {"none", "pending", "resolved", "rejected"}
  /\ jobs \in Seq(Jobs)
  /\ run \in [Slots -> {"idle", "running", "stopping", "starting"}]
  /\ job \in [Slots -> Jobs \cup {NoJob}]
  /\ results \subseteq Jobs
  /\ active \in 0 .. Size
  /\ thread \in [Slots -> {"idle", "parsing", "parsed", "dead"}]
  /\ told \in [Slots -> BOOLEAN]
  /\ stopped \in BOOLEAN /\ broken \in BOOLEAN /\ closed \in BOOLEAN
  /\ {poolFailure, cause, reason} \subseteq Errors \cup {NoError}

Init ==
  /\ dispatched = 0 /\ call = "none"
  /\ jobs = <<>> /\ results = {}
  /\ run = [i \in Slots |-> "idle"]
  /\ job = [i \in Slots |-> NoJob]
  /\ active = 0 /\ completed = 0 /\ maxReported = 0
  /\ inFlight = [i \in Slots |-> 0]
  /\ thread = [i \in Slots |-> "idle"]
  /\ told = [i \in Slots |-> FALSE]
  /\ stopped = TRUE /\ broken = FALSE /\ closed = FALSE
  /\ poolFailure = NoError /\ cause = NoError /\ reason = NoError

-----------------------------------------------------------------------------
(* Helpers.                                                                 *)

\* Where createJobs can cut the files: into consecutive jobs of at most MaxItems
\* files.  The byte budget may cut anywhere.
Cuts == { e \in UNION {[1 .. k -> Items] : k \in Items} :
            /\ e[Len(e)] = N
            /\ \A j, k \in DOMAIN e : j < k => e[j] < e[k]
            /\ \A k \in DOMAIN e : e[k] - (IF k = 1 THEN 0 ELSE e[k - 1]) <= MaxItems }

JobsCutAt(e) ==
  [k \in DOMAIN e |-> [first |-> IF k = 1 THEN 1 ELSE e[k - 1] + 1,
                       last |-> e[k], attempt |-> 0]]

Processed(done, progress) == done + FoldFunction(LAMBDA a, b : a + b, 0, progress)

\* reportProgress, given completedFiles and inFlightProgress.
Report(done, progress) ==
  LET total == Processed(done, progress)
      next == IF total < maxReported THEN maxReported ELSE total
  IN  maxReported' = IF N < next THEN N ELSE next

\* fail(err).  The callers of fail that remove a slot's listeners pass it on.
Fail(err) ==
  /\ broken' = TRUE
  /\ poolFailure' = err
  /\ IF stopped THEN UNCHANGED <<stopped, cause, told>>
     ELSE /\ stopped' = TRUE
          /\ cause' = err
          /\ told' = [i \in Slots |-> TRUE]

\* What the calls of fail leave alone.
UnchangedByFail == UNCHANGED <<dispatched, call, jobs, results, completed, maxReported,
                               reason, closed>>

\* The slot is through with its job, which keeps its inFlightProgress and is
\* not taken off activeWorkers: the dispatch fails.
Abandon(i) == /\ run' = [run EXCEPT ![i] = "idle"]
              /\ job' = [job EXCEPT ![i] = NoJob]
              /\ UNCHANGED <<active, inFlight>>

\* Mutant: maybeDone does not look at activeWorkers.
RunNextIgnoresPeers(i, queue, workers, state) ==
  IF stopped \/ queue = <<>>
  THEN /\ jobs' = queue
       /\ run' = [run EXCEPT ![i] = "idle"]
       /\ job' = [job EXCEPT ![i] = NoJob]
       /\ thread' = [thread EXCEPT ![i] = state]
       /\ active' = workers
       /\ IF ~stopped THEN stopped' = TRUE /\ call' = "resolved"
                      ELSE UNCHANGED <<stopped, call>>
  ELSE /\ jobs' = Tail(queue)
       /\ run' = [run EXCEPT ![i] = "running"]
       /\ job' = [job EXCEPT ![i] = Head(queue)]
       /\ thread' = [thread EXCEPT ![i] = IF state = "idle" THEN "parsing" ELSE state]
       /\ active' = workers + 1
       /\ UNCHANGED <<stopped, call>>

\* finishJob, or the end of a replacement: runWorker takes the next of `queue`
\* if there is one, and maybeDone resolves the dispatch if nothing is left.
\* `workers` is activeWorkers, already decremented, `state` the state of the
\* slot's worker.
RunNext(i, queue, workers, state) ==
  IF stopped \/ queue = <<>>
  THEN /\ jobs' = queue
       /\ run' = [run EXCEPT ![i] = "idle"]
       /\ job' = [job EXCEPT ![i] = NoJob]
       /\ thread' = [thread EXCEPT ![i] = state]
       /\ active' = workers
       /\ IF ~stopped /\ workers = 0 THEN stopped' = TRUE /\ call' = "resolved"
                                     ELSE UNCHANGED <<stopped, call>>
  ELSE /\ jobs' = Tail(queue)
       /\ run' = [run EXCEPT ![i] = "running"]
       /\ job' = [job EXCEPT ![i] = Head(queue)]
       /\ thread' = [thread EXCEPT ![i] = IF state = "idle" THEN "parsing" ELSE state]
       /\ active' = workers + 1
       /\ UNCHANGED <<stopped, call>>

-----------------------------------------------------------------------------
(* The caller: one dispatch at a time, then terminate.                      *)

Start(batch) ==
  LET taken == 1 .. Len(batch) \cap Slots IN
  /\ call' = "pending"
  /\ jobs' = SubSeq(batch, Size + 1, Len(batch))
  /\ run' = [i \in Slots |-> IF i \in taken THEN "running" ELSE "idle"]
  /\ job' = [i \in Slots |-> IF i \in taken THEN batch[i] ELSE NoJob]
  /\ thread' = [i \in Slots |-> IF i \in taken /\ thread[i] = "idle" THEN "parsing"
                                ELSE thread[i]]
  /\ active' = Cardinality(taken)
  /\ results' = {} /\ completed' = 0 /\ maxReported' = 0
  /\ inFlight' = [i \in Slots |-> 0]
  /\ stopped' = FALSE
  /\ UNCHANGED <<told, poolVars, reason, closed>>

CanDispatch == call # "pending" /\ ~closed /\ dispatched < MaxDispatches

Dispatch ==
  /\ CanDispatch /\ ~broken
  /\ dispatched' = dispatched + 1
  /\ \E e \in Cuts : Start(JobsCutAt(e))

DispatchToBroken ==
  /\ CanDispatch /\ broken
  /\ dispatched' = dispatched + 1
  /\ call' = "rejected"
  /\ reason' = poolFailure
  /\ UNCHANGED <<jobs, run, job, results, active, stopped, completed, inFlight,
                 maxReported, thread, told, poolVars, closed>>

\* fail has waited for the workers to terminate.
Reject ==
  /\ call = "pending" /\ stopped
  /\ \A i \in Slots : thread[i] = "dead"
  /\ call' = "rejected"
  /\ reason' = cause
  /\ UNCHANGED <<dispatched, jobs, run, job, results, active, stopped, completed,
                 inFlight, maxReported, thread, told, poolVars, closed>>

Terminate ==
  /\ call # "pending" /\ ~closed
  /\ closed' = TRUE
  /\ told' = [i \in Slots |-> TRUE]
  /\ UNCHANGED <<dispatched, dispatchVars, thread, poolVars, reason>>

-----------------------------------------------------------------------------
(* Messages of the worker of slot i.                                        *)

Listening(i) == run[i] = "running"

\* progress: filesProcessed counts up to the size of the job.
Progress(i) ==
  /\ thread[i] = "parsing" /\ Listening(i) /\ ~stopped
  /\ \E n \in inFlight[i] + 1 .. Length(job[i]) : inFlight' = [inFlight EXCEPT ![i] = n]
  /\ Report(completed, inFlight')
  /\ UNCHANGED <<dispatched, call, jobs, run, job, results, active, stopped, completed,
                 thread, told, poolVars, reason, closed>>

\* sub-batch-done; the answer is the flush message.
SubBatchDone(i) ==
  /\ thread[i] = "parsing" /\ Listening(i) /\ ~stopped
  /\ thread' = [thread EXCEPT ![i] = "parsed"]
  /\ UNCHANGED <<dispatched, dispatchVars, told, poolVars, reason, closed>>

\* result, after the flush.
Result(i) ==
  /\ thread[i] = "parsed" /\ Listening(i) /\ ~stopped
  /\ results' = results \cup {job[i]}
  /\ completed' = completed + Length(job[i])
  /\ Report(completed', inFlight)
  /\ inFlight' = [inFlight EXCEPT ![i] = 0]
  /\ RunNext(i, jobs, active - 1, "idle")
  /\ UNCHANGED <<dispatched, told, poolVars, reason, closed>>

\* error: the worker caught an exception.
ErrorMessage(i) ==
  /\ "error" \in Events
  /\ thread[i] \in {"parsing", "parsed"} /\ Listening(i) /\ ~stopped
  /\ Fail(<<"error", i>>) /\ Abandon(i)
  /\ UnchangedByFail /\ UNCHANGED thread

\* The worker exits, because it was told to or by itself.
Exit(i) ==
  /\ thread[i] # "dead"
  /\ told[i] \/ "crash" \in Events
  /\ thread' = [thread EXCEPT ![i] = "dead"]
  /\ IF Listening(i)
     THEN Fail(<<"exit", i>>) /\ Abandon(i)
     ELSE UNCHANGED <<run, job, active, inFlight, stopped, told, poolVars>>
  /\ UnchangedByFail

-----------------------------------------------------------------------------
(* The idle timer of slot i, and the replacement of its worker.             *)

\* A dead worker is silent too: exit listeners are only there during a job.
Silent(i) == Listening(i) /\ ("silence" \in Events \/ thread[i] = "dead")

\* requeueAfterTimeout has put jobs back: stop the worker.
StopWorker(i) ==
  /\ run' = [run EXCEPT ![i] = "stopping"]
  /\ job' = [job EXCEPT ![i] = NoJob]
  /\ told' = [told EXCEPT ![i] = TRUE]
  /\ inFlight' = [inFlight EXCEPT ![i] = 0]
  /\ UNCHANGED <<dispatched, call, results, active, stopped, completed, maxReported,
                 thread, poolVars, reason, closed>>

\* Both halves go to the front of the queue.
SplitJob(i) ==
  LET j == job[i]
      middle == j.first + (Length(j) + 1) \div 2
  IN
  /\ Silent(i) /\ Length(j) > 1
  /\ jobs' = <<[j EXCEPT !.last = middle - 1], [j EXCEPT !.first = middle]>> \o jobs
  /\ StopWorker(i)

\* Mutant: the retry is not counted.
RetryJobUncounted(i) ==
  /\ Silent(i) /\ Length(job[i]) = 1 /\ job[i].attempt < MaxTimeoutRetries
  /\ jobs' = <<job[i]>> \o jobs
  /\ StopWorker(i)

\* The only file of the job is tried again.
RetryJob(i) ==
  /\ Silent(i) /\ Length(job[i]) = 1 /\ job[i].attempt < MaxTimeoutRetries
  /\ jobs' = <<[job[i] EXCEPT !.attempt = @ + 1]>> \o jobs
  /\ StopWorker(i)

GiveUp(i) ==
  /\ Silent(i) /\ Length(job[i]) = 1 /\ job[i].attempt = MaxTimeoutRetries
  /\ Fail(<<"timeout", i>>)
  /\ run' = [run EXCEPT ![i] = "idle"]
  /\ job' = [job EXCEPT ![i] = NoJob]
  /\ inFlight' = [inFlight EXCEPT ![i] = 0]
  /\ active' = active - 1
  /\ UnchangedByFail /\ UNCHANGED thread

\* replaceWorker, after the old worker has terminated.
StartReplacement(i) ==
  /\ run[i] = "stopping" /\ thread[i] = "dead" /\ ~stopped
  /\ run' = [run EXCEPT ![i] = "starting"]
  /\ UNCHANGED <<dispatched, call, jobs, job, results, active, stopped, completed, inFlight,
                 maxReported, thread, told, poolVars, reason, closed>>

\* replaceWorker finds the dispatch stopped, before or after it started the
\* replacement, which it terminates.
DropReplacement(i) ==
  /\ run[i] = "starting" \/ (run[i] = "stopping" /\ thread[i] = "dead")
  /\ stopped
  /\ Report(completed, inFlight)
  /\ RunNext(i, jobs, active - 1, "dead")
  /\ UNCHANGED <<dispatched, results, completed, inFlight, told, poolVars, reason, closed>>

\* Mutant: the second look at `stopped` is missing.
ReplacementOnlineUnchecked(i) ==
  /\ run[i] = "starting"
  /\ told' = [told EXCEPT ![i] = FALSE]
  /\ Report(completed, inFlight)
  /\ RunNext(i, jobs, active - 1, "idle")
  /\ UNCHANGED <<dispatched, results, completed, inFlight, poolVars, reason, closed>>

ReplacementOnline(i) ==
  /\ run[i] = "starting" /\ ~stopped
  /\ told' = [told EXCEPT ![i] = FALSE]
  /\ Report(completed, inFlight)
  /\ RunNext(i, jobs, active - 1, "idle")
  /\ UNCHANGED <<dispatched, results, completed, inFlight, poolVars, reason, closed>>

ReplacementFails(i) ==
  /\ "start" \in Events
  /\ run[i] = "starting"
  /\ Fail(<<"start", i>>)
  /\ run' = [run EXCEPT ![i] = "idle"]
  /\ active' = active - 1
  /\ UnchangedByFail /\ UNCHANGED <<job, inFlight, thread>>

-----------------------------------------------------------------------------
Caller == Dispatch \/ DispatchToBroken \/ Terminate
Message(i) == Progress(i) \/ SubBatchDone(i) \/ Result(i) \/ ErrorMessage(i)
Timeout(i) == SplitJob(i) \/ RetryJob(i) \/ GiveUp(i)
Replace(i) == \/ StartReplacement(i) \/ DropReplacement(i)
              \/ ReplacementOnline(i) \/ ReplacementFails(i)

Alive(i) == thread[i] # "dead" \/ run[i] = "starting"

\* The pool has been terminated and nothing is left running.
Quiet == closed /\ (\A i \in Slots : ~Alive(i) /\ run[i] = "idle") /\ UNCHANGED vars

Next == \/ Caller \/ Reject \/ Quiet
        \/ \E i \in Slots : Message(i) \/ Exit(i) \/ Timeout(i) \/ Replace(i)

Spec == Init /\ [][Next]_vars

\* The caller ends with terminate (its finally block).  A worker that listens
\* answers or its idle timer fires; a worker told to terminate exits, and a
\* replacement comes online or not.
Fairness ==
  /\ WF_vars(Caller) /\ WF_vars(Reject)
  /\ \A i \in Slots : /\ WF_vars(Message(i) \/ Timeout(i))
                      /\ WF_vars(told[i] /\ Exit(i))
                      /\ WF_vars(Replace(i))
FairSpec == Spec /\ Fairness

-----------------------------------------------------------------------------
(* Properties.                                                              *)

\* Where file x is: in the queue, with a worker, in the results.
Queued(x) == {<<"queue", k>> : k \in {l \in DOMAIN jobs : x \in ItemsOf(jobs[l])}}
Running(x) == {<<"slot", i>> : i \in {h \in Slots : run[h] = "running" /\ x \in ItemsOf(job[h])}}
Finished(x) == {<<"result", r>> : r \in {q \in results : x \in ItemsOf(q)}}
Places(x) == Queued(x) \cup Running(x) \cup Finished(x)

\* No file is lost or parsed into the answer twice, whatever is split, retried
\* and requeued: while a dispatch runs each file is in exactly one queued job,
\* running job or result.
FilesConserved == ~stopped => \A x \in Items : \E p \in Places(x) : Places(x) = {p}

\* A dispatch resolves only with the results of all the files, each once: it
\* does not resolve early while the job of a replaced worker is still to run.
AnswerComplete ==
  call = "resolved" => \A x \in Items : \E p \in Finished(x) : Finished(x) = {p}

\* A dispatch ends: it resolves, or fails and is rejected.
DispatchSettles == call = "pending" ~> call # "pending"

\* No worker thread outlives the pool, neither an old one nor a replacement
\* that comes online after the dispatch it was started for has failed.
NoThreadLeak == closed ~> \A i \in Slots : ~Alive(i)

-----------------------------------------------------------------------------
(* What the interface and the tests say.                                    *)

\* onProgress is given filesProcessed: as long as no job is timed out, which
\* takes progress back, no more files are reported than were processed.
ProgressHonest == maxReported <= Processed(completed, inFlight)

\* "fails fast on a result message that violates the worker protocol": after a
\* failure every dispatch is rejected with that failure as its reason.
FirstFailureReported == [][reason # NoError => reason' = reason]_vars
=============================================================================
