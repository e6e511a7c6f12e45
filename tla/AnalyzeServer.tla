--------------------------- MODULE AnalyzeServer ---------------------------
(***************************************************************************)
(* The job control of the HTTP server (gitnexus/src/server/api.ts,         *)
(* analyze-job.ts and analyze-worker.ts): POST /api/analyze starts a job   *)
(* that clones a repository and forks a worker process, retried when it    *)
(* dies; POST /api/embed runs the embedding pipeline inside the server;    *)
(* DELETE /api/repo removes an index.  The three write the same LadybugDB  *)
(* directory and exclude each other with an in-memory set of locked paths. *)
(*                                                                         *)
(* Every handler runs to its first await in one step of Node's event loop, *)
(* so a step of this module is one such run: a request, an IPC message, a  *)
(* child's exit, a timer or the settling of an awaited promise.  A request *)
(* the server refuses without changing anything is a stuttering step.      *)
(***************************************************************************)
EXTENDS Naturals, FiniteSets

CONSTANTS
    Jobs,              \* identifiers createJob may give to analyze jobs
    Embeds,            \* identifiers createJob may give to embedding jobs
    Repos,             \* repositories, by storage path (the key of the lock)
    MaxWorkerRetries,  \* api.ts: 2
    MaxPipelines,      \* bound: embedding pipelines running for one job
    Events             \* which hazards of the environment a run allows

ServerEvents == {"crash", "uncaught", "cancel", "expire", "slow_init",
                 "clone_error", "embed_timeout", "embed_busy"}

ASSUME ServerAssumption ==
    /\ MaxWorkerRetries \in Nat
    /\ MaxPipelines \in Nat \ {0}
    /\ Events \subseteq ServerEvents

VARIABLES
    status,      \* jobs: the analyze job's status ("none": not created, "gone": past its TTL)
    repo,        \* the repository each job was posted for
    cloning,     \* cloneOrPull of the job is being awaited
    child,       \* the forked worker: "none", "working", "erring", "leaving"
    killed,      \* SIGTERM was sent to that worker
    retryCount,  \* job.retryCount
    retrying,    \* the setTimeout(forkWorker, delay) of the job is armed
    reloading,   \* backend.init() after "complete" is being awaited
    lock,        \* activeRepoPaths
    estatus,     \* embedJobManager's jobs
    erepo,       \* the repository of each embedding job
    pipes,       \* embedding pipelines running on behalf of the job
    deleting     \* repositories whose DELETE handler is past the lock

jobVars == <<status, repo, cloning, child, killed, retryCount, retrying, reloading>>
embedVars == <<estatus, erepo, pipes>>
vars == <<jobVars, lock, embedVars, deleting>>

Terminal == {"complete", "failed"}
Active == {"cloning", "analyzing"}

Init ==
    /\ status = [j \in Jobs |-> "none"]
    /\ repo \in [Jobs -> Repos]
    /\ cloning = [j \in Jobs |-> FALSE]
    /\ child = [j \in Jobs |-> "none"]
    /\ killed = [j \in Jobs |-> FALSE]
    /\ retryCount = [j \in Jobs |-> 0]
    /\ retrying = [j \in Jobs |-> FALSE]
    /\ reloading = [j \in Jobs |-> FALSE]
    /\ lock = {}
    /\ estatus = [e \in Embeds |-> "none"]
    /\ erepo \in [Embeds -> Repos]
    /\ pipes = [e \in Embeds |-> 0]
    /\ deleting = {}

----------------------------------------------------------------------------
(* JobManager and the repository lock                                      *)

(* createJob admits a new analyze job only when no job is in progress. *)
SlotFree == \A j \in Jobs : status[j] \notin Active

EmbedSlotFree == \A e \in Embeds : estatus[e] # "analyzing"

(* updateJob assigns whatever the old status was; only a job the TTL removed
   is left alone. *)
UpdateJob(j, s) ==
    status' = [status EXCEPT ![j] = IF @ = "gone" THEN @ ELSE s]

Release(r) == lock' = lock \ {r}

(* The worker's outcome reaches the parent: the lock is given up. *)
FailJob(j) ==
    /\ Release(repo[j])
    /\ UpdateJob(j, "failed")

(* forkWorker past its check of the status *)
Fork(j) ==
    /\ child' = [child EXCEPT ![j] = "working"]
    /\ killed' = [killed EXCEPT ![j] = FALSE]

NoFork == UNCHANGED <<child, killed>>

----------------------------------------------------------------------------
(* POST /api/analyze                                                       *)

(* With a URL the handler leaves the job "cloning" and awaits git. *)
PostUrl(j) ==
    /\ status[j] = "none"
    /\ SlotFree
    /\ status' = [status EXCEPT ![j] = "cloning"]
    /\ cloning' = [cloning EXCEPT ![j] = TRUE]
    /\ UNCHANGED <<repo, child, killed, retryCount, retrying, reloading, lock,
                   embedVars, deleting>>

(* From the target path on: take the lock or fail, then fork unless the job
   was removed meanwhile.  The status is not looked at before it is set. *)
StartWorker(j) ==
    \/ /\ repo[j] \in lock
       /\ UpdateJob(j, "failed")
       /\ NoFork
       /\ UNCHANGED lock
    \/ /\ repo[j] \notin lock
       /\ lock' = lock \union {repo[j]}
       /\ UpdateJob(j, "analyzing")
       /\ IF status[j] = "gone" THEN NoFork ELSE Fork(j)

(* With a local path there is nothing to await before the fork. *)
PostLocal(j) ==
    /\ status[j] = "none"
    /\ SlotFree
    /\ StartWorker(j)
    /\ UNCHANGED <<repo, cloning, retryCount, retrying, reloading, embedVars, deleting>>

CloneDone(j) ==
    /\ cloning[j]
    /\ cloning' = [cloning EXCEPT ![j] = FALSE]
    /\ StartWorker(j)
    /\ UNCHANGED <<repo, retryCount, retrying, reloading, embedVars, deleting>>

(* The catch block releases the lock of the target path, held or not. *)
CloneFails(j) ==
    /\ "clone_error" \in Events
    /\ cloning[j]
    /\ cloning' = [cloning EXCEPT ![j] = FALSE]
    /\ FailJob(j)
    /\ UNCHANGED <<repo, child, killed, retryCount, retrying, reloading, embedVars, deleting>>

----------------------------------------------------------------------------
(* The forked worker: its messages and its exit, as the parent sees them   *)

Running(j) == child[j] \in {"working", "erring"}

(* A progress message sets the status as well as the progress. *)
Progress(j) ==
    /\ Running(j)
    /\ UpdateJob(j, "analyzing")
    /\ UNCHANGED <<repo, cloning, child, killed, retryCount, retrying, reloading, lock,
                   embedVars, deleting>>

(* "complete": the lock is released at once, the status only changes after
   backend.init().  The worker exits half a second after sending it. *)
WorkerComplete(j) ==
    /\ Running(j)
    /\ child' = [child EXCEPT ![j] = "leaving"]
    /\ Release(repo[j])
    /\ reloading' = [reloading EXCEPT ![j] = TRUE]
    /\ UNCHANGED <<status, repo, cloning, killed, retryCount, retrying, embedVars, deleting>>

(* "error" because runFullAnalysis threw: the worker has nothing left to do. *)
WorkerFails(j) ==
    /\ Running(j)
    /\ child' = [child EXCEPT ![j] = "leaving"]
    /\ FailJob(j)
    /\ UNCHANGED <<repo, cloning, killed, retryCount, retrying, reloading, embedVars, deleting>>

(* "error" from the SIGTERM handler, or from the uncaught-exception and
   unhandled-rejection handlers: the analysis goes on until the process exits. *)
WorkerErrs(j) ==
    /\ child[j] = "working"
    /\ killed[j] \/ "uncaught" \in Events
    /\ child' = [child EXCEPT ![j] = "erring"]
    /\ FailJob(j)
    /\ UNCHANGED <<repo, cloning, killed, retryCount, retrying, reloading, embedVars, deleting>>

(* The child's "error" event: it could not be started. *)
SpawnFails(j) ==
    /\ child[j] = "working"
    /\ child' = [child EXCEPT ![j] = "none"]
    /\ FailJob(j)
    /\ UNCHANGED <<repo, cloning, killed, retryCount, retrying, reloading, embedVars, deleting>>

(* A worker that has reported exits; one that has not can crash, or be killed
   before it has installed its SIGTERM handler.  The half second of a finished
   worker outlasts backend.init() unless "slow_init". *)
MayExit(j) ==
    \/ child[j] = "working" /\ (killed[j] \/ "crash" \in Events)
    \/ child[j] = "erring"
    \/ child[j] = "leaving" /\ (reloading[j] => "slow_init" \in Events)

(* The exit handler: nothing when the job is over; a retry under the limit ... *)
JobOver(j) ==
    /\ status[j] \notin Active
    /\ UNCHANGED <<status, retryCount, retrying, lock>>

\* Mutant: the attempt is not counted.
CountNothing(j) == UNCHANGED retryCount

CountRetry(j) == retryCount' = [retryCount EXCEPT ![j] = @ + 1]

MayRetry(j) == retryCount[j] < MaxWorkerRetries

\* Mutant: every crash releases the lock, the ones that are retried too.
ScheduleRetryUnlocked(j) ==
    /\ status[j] \in Active /\ MayRetry(j)
    /\ CountRetry(j)
    /\ retrying' = [retrying EXCEPT ![j] = TRUE]
    /\ Release(repo[j])
    /\ UNCHANGED status

ScheduleRetry(j) ==
    /\ status[j] \in Active
    /\ MayRetry(j)
    /\ CountRetry(j)
    /\ retrying' = [retrying EXCEPT ![j] = TRUE]
    /\ UpdateJob(j, "analyzing")
    /\ UNCHANGED lock

\* Mutant: the last crash releases the lock and forgets the job.
ExhaustRetriesSilently(j) ==
    /\ status[j] \in Active /\ ~MayRetry(j)
    /\ Release(repo[j])
    /\ UNCHANGED <<status, retryCount, retrying>>

\* Mutant: the last crash fails the job and keeps the lock.
ExhaustRetriesLocked(j) ==
    /\ status[j] \in Active /\ ~MayRetry(j)
    /\ UpdateJob(j, "failed")
    /\ UNCHANGED <<retryCount, retrying, lock>>

(* ... and beyond it failure and the lock's release. *)
ExhaustRetries(j) ==
    /\ status[j] \in Active
    /\ ~MayRetry(j)
    /\ FailJob(j)
    /\ UNCHANGED <<retryCount, retrying>>

WorkerExit(j) ==
    /\ MayExit(j)
    /\ child' = [child EXCEPT ![j] = "none"]
    /\ JobOver(j) \/ ScheduleRetry(j) \/ ExhaustRetries(j)
    /\ UNCHANGED <<repo, cloning, killed, reloading, embedVars, deleting>>

(* The retry timer runs forkWorker, which only looks at the status: it
   neither takes the lock nor, when it gives up, releases it. *)
RetryTimer(j) ==
    /\ retrying[j]
    /\ retrying' = [retrying EXCEPT ![j] = FALSE]
    /\ IF status[j] \in Active THEN Fork(j) ELSE NoFork
    /\ UNCHANGED <<status, repo, cloning, retryCount, reloading, lock, embedVars, deleting>>

(* backend.init() after "complete" settles: .then completes the job, .catch
   fails it. *)
ReloadDone(j) ==
    /\ reloading[j]
    /\ reloading' = [reloading EXCEPT ![j] = FALSE]
    /\ \E s \in Terminal : UpdateJob(j, s)
    /\ UNCHANGED <<repo, cloning, child, killed, retryCount, retrying, lock, embedVars, deleting>>

(* cancelJob, from DELETE /api/analyze/:jobId or the 30-minute timeout *)
CancelJob(j) ==
    /\ "cancel" \in Events
    /\ status[j] \in Active
    /\ killed' = [killed EXCEPT ![j] = @ \/ child[j] # "none"]
    /\ UpdateJob(j, "failed")
    /\ UNCHANGED <<repo, cloning, child, retryCount, retrying, reloading, lock,
                   embedVars, deleting>>

(* cleanup: a finished job is forgotten an hour after it ended. *)
ExpireJob(j) ==
    /\ "expire" \in Events
    /\ status[j] \in Terminal
    /\ status' = [status EXCEPT ![j] = "gone"]
    /\ UNCHANGED <<repo, cloning, child, killed, retryCount, retrying, reloading, lock,
                   embedVars, deleting>>

----------------------------------------------------------------------------
(* POST /api/embed takes the lock before it asks for a job.                *)

PostEmbed(e) ==
    /\ erepo[e] \notin lock
    /\ estatus[e] = "none"
    /\ EmbedSlotFree
    /\ lock' = lock \union {erepo[e]}
    /\ estatus' = [estatus EXCEPT ![e] = "analyzing"]
    /\ pipes' = [pipes EXCEPT ![e] = 1]
    /\ UNCHANGED <<jobVars, erepo, deleting>>

(* createJob finds the job in progress for this repository: the handler goes
   on with it and starts a second pipeline. *)
PostEmbedAgain(e) ==
    /\ erepo[e] \notin lock
    /\ estatus[e] = "analyzing"
    /\ pipes[e] < MaxPipelines
    /\ lock' = lock \union {erepo[e]}
    /\ pipes' = [pipes EXCEPT ![e] = @ + 1]
    /\ UNCHANGED <<jobVars, estatus, erepo, deleting>>

(* createJob throws because another repository is being embedded: the
   handler answers 409 and returns with the lock taken. *)
PostEmbedBusy(r) ==
    /\ "embed_busy" \in Events
    /\ r \notin lock
    /\ \E e \in Embeds : estatus[e] = "analyzing" /\ erepo[e] # r
    /\ lock' = lock \union {r}
    /\ UNCHANGED <<jobVars, embedVars, deleting>>

(* What the end of a pipeline makes of the job: one that failed stays so. *)
Finish(e, s) == estatus' = [estatus EXCEPT ![e] = IF @ = "failed" THEN @ ELSE s]

PipelineEnds(e) ==
    /\ pipes[e] > 0
    /\ pipes' = [pipes EXCEPT ![e] = @ - 1]
    /\ Release(erepo[e])
    /\ \E s \in Terminal : Finish(e, s)
    /\ UNCHANGED <<jobVars, erepo, deleting>>

(* The 30-minute timer gives the lock up; the pipeline is not stopped. *)
EmbedTimeout(e) ==
    /\ "embed_timeout" \in Events
    /\ pipes[e] > 0
    /\ estatus[e] = "analyzing"
    /\ Release(erepo[e])
    /\ estatus' = [estatus EXCEPT ![e] = "failed"]
    /\ UNCHANGED <<jobVars, erepo, pipes, deleting>>

(* DELETE /api/embed/:jobId: there is no child to kill. *)
CancelEmbed(e) ==
    /\ "cancel" \in Events
    /\ estatus[e] = "analyzing"
    /\ estatus' = [estatus EXCEPT ![e] = "failed"]
    /\ UNCHANGED <<jobVars, erepo, pipes, lock, deleting>>

----------------------------------------------------------------------------
(* DELETE /api/repo: the lock is held across the awaits and released in a
   finally block. *)

DeleteRepo(r) ==
    /\ r \notin lock
    /\ lock' = lock \union {r}
    /\ deleting' = deleting \union {r}
    /\ UNCHANGED <<jobVars, embedVars>>

DeleteDone(r) ==
    /\ r \in deleting
    /\ deleting' = deleting \ {r}
    /\ Release(r)
    /\ UNCHANGED <<jobVars, embedVars>>

----------------------------------------------------------------------------
Worker(j) ==
    \/ WorkerComplete(j) \/ WorkerFails(j) \/ WorkerErrs(j)
    \/ SpawnFails(j) \/ WorkerExit(j)

JobStep(j) ==
    \/ PostUrl(j) \/ PostLocal(j) \/ CloneDone(j) \/ CloneFails(j)
    \/ Progress(j) \/ Worker(j) \/ RetryTimer(j) \/ ReloadDone(j)
    \/ CancelJob(j) \/ ExpireJob(j)

EmbedStep(e) ==
    \/ PostEmbed(e) \/ PostEmbedAgain(e) \/ PipelineEnds(e)
    \/ EmbedTimeout(e) \/ CancelEmbed(e)

RepoStep(r) == PostEmbedBusy(r) \/ DeleteRepo(r) \/ DeleteDone(r)

(* Every request was refused or answered and nothing is under way. *)
Quiet ==
    /\ \A j \in Jobs : /\ status[j] \notin Active
                       /\ child[j] = "none"
                       /\ ~cloning[j] /\ ~retrying[j] /\ ~reloading[j]
    /\ \A e \in Embeds : estatus[e] # "analyzing" /\ pipes[e] = 0
    /\ deleting = {}
    /\ UNCHANGED vars

Next ==
    \/ \E j \in Jobs : JobStep(j)
    \/ \E e \in Embeds : EmbedStep(e)
    \/ \E r \in Repos : RepoStep(r)
    \/ Quiet

Spec == Init /\ [][Next]_vars

(* git and the analysis end, timers fire and promises settle. *)
Fairness ==
    /\ \A j \in Jobs : /\ WF_vars(CloneDone(j) \/ CloneFails(j))
                       /\ WF_vars(Worker(j))
                       /\ WF_vars(RetryTimer(j))
                       /\ WF_vars(ReloadDone(j))
    /\ \A e \in Embeds : WF_vars(PipelineEnds(e))
    /\ \A r \in Repos : WF_vars(DeleteDone(r))

FairSpec == Spec /\ Fairness

----------------------------------------------------------------------------
(* Type correctness. *)
TypeOK ==
    /\ status \in [Jobs -> {"none", "gone"} \union Active \union Terminal]
    /\ repo \in [Jobs -> Repos]
    /\ cloning \in [Jobs -> BOOLEAN]
    /\ child \in [Jobs -> {"none", "working", "erring", "leaving"}]
    /\ killed \in [Jobs -> BOOLEAN]
    /\ retryCount \in [Jobs -> 0 .. MaxWorkerRetries]
    /\ retrying \in [Jobs -> BOOLEAN]
    /\ reloading \in [Jobs -> BOOLEAN]
    /\ lock \subseteq Repos
    /\ estatus \in [Embeds -> {"none", "analyzing"} \union Terminal]
    /\ erepo \in [Embeds -> Repos]
    /\ pipes \in [Embeds -> 0 .. MaxPipelines]
    /\ deleting \subseteq Repos

(* A job that occupies the single slot has something that will move it: a
   clone, a worker, a retry timer or a reload.  Otherwise createJob would
   refuse every later analysis until the server restarts. *)
SlotFreed ==
    \A j \in Jobs :
        status[j] \in Active =>
            cloning[j] \/ child[j] # "none" \/ retrying[j] \/ reloading[j]

(* "Single-slot concurrency (one active job at a time)" (analyze-job.ts:6):
   no two analyze jobs are in progress together. *)
SingleSlot ==
    \A i, j \in Jobs : status[i] \in Active /\ status[j] \in Active => i = j

(* What may be writing a repository's index: a worker process that has not
   finished, a pipeline of the server, a DELETE handler. *)
JobWrites(j, r) == Running(j) /\ repo[j] = r
EmbedWrites(e, r) == pipes[e] > 0 /\ erepo[e] = r

(* The shared repository lock "prevents concurrent analyze + embed on the same
   repo path, which would corrupt LadybugDB" (api.ts:685-686), and deletion
   "while analyze/embed is in flight" (api.ts:898): one writer at a time. *)
WritersExclusive ==
    \A r \in Repos :
        /\ \A i, j \in Jobs : JobWrites(i, r) /\ JobWrites(j, r) => i = j
        /\ \A d, e \in Embeds :
               EmbedWrites(d, r) /\ EmbedWrites(e, r) => d = e /\ pipes[e] = 1
        /\ \A j \in Jobs, e \in Embeds : ~(JobWrites(j, r) /\ EmbedWrites(e, r))
        /\ r \in deleting =>
               /\ \A j \in Jobs : ~JobWrites(j, r)
               /\ \A e \in Embeds : ~EmbedWrites(e, r)

(* A refusal says "Another job is already active for this repository"
   (api.ts:691): whoever is locked out waits for work that is under way. *)
LockMeansActive ==
    \A r \in lock :
        \/ \E j \in Jobs : JobWrites(j, r) \/ (repo[j] = r /\ retrying[j])
        \/ \E e \in Embeds : EmbedWrites(e, r)
        \/ r \in deleting

(* Whatever crashes, is cancelled or expires, every analyze job comes to rest
   and frees the slot for good, and so does every embedding job. *)
JobsSettle ==
    /\ \A j \in Jobs : <>[](status[j] \notin Active)
    /\ \A e \in Embeds : <>[](estatus[e] # "analyzing" /\ pipes[e] = 0)
=============================================================================
