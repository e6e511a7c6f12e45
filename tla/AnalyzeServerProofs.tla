------------------------ MODULE AnalyzeServerProofs ------------------------
(***************************************************************************)
(* Proofs about AnalyzeServer, for any number of jobs, embedding jobs and  *)
(* repositories and any retry limit.  SlotInv shows that the single slot   *)
(* is always freed, whatever the environment does; LockInv that the        *)
(* repository lock excludes writers and is never leaked as long as workers *)
(* only crash or fail and nothing is cancelled, times out or overlaps.     *)
(***************************************************************************)
EXTENDS AnalyzeServer, TLAPS

SlotInv == TypeOK /\ SlotFreed

(* What is under way for a job, and what its status then is, when workers
   only crash: the handlers never meet a job that is over. *)
JobsSane ==
    \A j \in Jobs :
        /\ ~killed[j] /\ child[j] # "erring"
        /\ child[j] = "working" \/ retrying[j] \/ cloning[j] \/ reloading[j]
             => status[j] \in Active
        /\ status[j] = "none" => child[j] = "none"
        /\ child[j] = "leaving" => reloading[j] \/ status[j] \notin Active
        /\ retrying[j] => child[j] = "none"
        /\ cloning[j] => child[j] = "none" /\ ~retrying[j]
        /\ reloading[j] => child[j] = "leaving"

EmbedsSane ==
    \A e \in Embeds : pipes[e] = IF estatus[e] = "analyzing" THEN 1 ELSE 0

(* A job holds the lock while its worker works and while a retry is due. *)
Holds(j) == child[j] = "working" \/ retrying[j]

LockHeld ==
    /\ \A j \in Jobs : Holds(j) => repo[j] \in lock
    /\ \A e \in Embeds : pipes[e] > 0 => erepo[e] \in lock
    /\ deleting \subseteq lock

HoldersExclusive ==
    /\ \A i, j \in Jobs : Holds(i) /\ Holds(j) /\ repo[i] = repo[j] => i = j
    /\ \A d, e \in Embeds : pipes[d] > 0 /\ pipes[e] > 0 /\ erepo[d] = erepo[e] => d = e
    /\ \A j \in Jobs, e \in Embeds : Holds(j) /\ pipes[e] > 0 => repo[j] # erepo[e]
    /\ \A j \in Jobs : Holds(j) => repo[j] \notin deleting
    /\ \A e \in Embeds : pipes[e] > 0 => erepo[e] \notin deleting

LockUsed ==
    \A r \in lock :
        \/ \E j \in Jobs : Holds(j) /\ repo[j] = r
        \/ \E e \in Embeds : pipes[e] > 0 /\ erepo[e] = r
        \/ r \in deleting

LockInv == TypeOK /\ JobsSane /\ EmbedsSane /\ LockHeld /\ HoldersExclusive /\ LockUsed

(* The environment under which the lock is proved sound *)
CrashesOnly == Events \subseteq {"crash", "expire"}

-----------------------------------------------------------------------------
\* Types: in particular no job is retried more than MaxWorkerRetries times.
LEMMA TypeInit == Init => TypeOK
  BY ServerAssumption DEF Init, TypeOK, Active, Terminal

\* Taking the lock and forking keep the types.
LEMMA TypeStart ==
  ASSUME TypeOK, NEW j \in Jobs, StartWorker(j)
  PROVE  /\ status' \in [Jobs -> {"none", "gone"} \union Active \union Terminal]
         /\ child' \in [Jobs -> {"none", "working", "erring", "leaving"}]
         /\ killed' \in [Jobs -> BOOLEAN]
         /\ lock' \subseteq Repos
  <1> USE DEF StartWorker, UpdateJob, TypeOK
  <1>1. lock' \subseteq Repos
    OBVIOUS
  <1>2. status' \in [Jobs -> {"none", "gone"} \union Active \union Terminal]
    BY DEF Active, Terminal
  <1>3. (UNCHANGED <<child, killed>>) \/ Fork(j)
    BY DEF NoFork
  <1>4. /\ child' \in [Jobs -> {"none", "working", "erring", "leaving"}]
        /\ killed' \in [Jobs -> BOOLEAN]
    BY ONLY <1>3, TypeOK, j \in Jobs DEF Fork, TypeOK
  <1> QED BY <1>1, <1>2, <1>4

\* The three outcomes of the exit handler keep the types.
LEMMA TypeExit ==
  ASSUME TypeOK, NEW j \in Jobs, WorkerExit(j)
  PROVE  TypeOK'
  <1> USE DEF WorkerExit, TypeOK, Active, Terminal
  <1>1. CASE JobOver(j)
    BY <1>1 DEF JobOver, embedVars
  <1>2. CASE ScheduleRetry(j)
    <2>1. retryCount[j] + 1 \in 0 .. MaxWorkerRetries
      BY <1>2, ServerAssumption DEF ScheduleRetry, MayRetry
    <2> QED BY <1>2, <2>1 DEF ScheduleRetry, CountRetry, UpdateJob, embedVars
  <1>3. CASE ExhaustRetries(j)
    BY <1>3 DEF ExhaustRetries, FailJob, Release, UpdateJob, embedVars
  <1> QED BY <1>1, <1>2, <1>3

LEMMA TypeJob ==
  ASSUME TypeOK, NEW j \in Jobs, JobStep(j)
  PROVE  TypeOK'
  <1> USE DEF TypeOK, Active, Terminal, embedVars
  <1>1. CASE PostUrl(j)
    BY <1>1 DEF PostUrl
  <1>2. CASE PostLocal(j)
    BY <1>2, TypeStart DEF PostLocal
  <1>3. CASE CloneDone(j)
    BY <1>3, TypeStart DEF CloneDone
  <1>4. CASE CloneFails(j)
    BY <1>4 DEF CloneFails, FailJob, Release, UpdateJob
  <1>5. CASE Progress(j)
    BY <1>5 DEF Progress, UpdateJob
  <1>6. CASE WorkerComplete(j)
    BY <1>6 DEF WorkerComplete, Release
  <1>7. CASE WorkerFails(j)
    BY <1>7 DEF WorkerFails, FailJob, Release, UpdateJob
  <1>8. CASE WorkerErrs(j)
    BY <1>8 DEF WorkerErrs, FailJob, Release, UpdateJob
  <1>9. CASE SpawnFails(j)
    BY <1>9 DEF SpawnFails, FailJob, Release, UpdateJob
  <1>10. CASE WorkerExit(j)
    BY ONLY <1>10, TypeOK, TypeExit, j \in Jobs
  <1>11. CASE RetryTimer(j)
    BY <1>11 DEF RetryTimer, Fork, NoFork
  <1>12. CASE ReloadDone(j)
    BY <1>12 DEF ReloadDone, UpdateJob
  <1>13. CASE CancelJob(j)
    BY <1>13 DEF CancelJob, UpdateJob
  <1>14. CASE ExpireJob(j)
    BY <1>14 DEF ExpireJob
  <1> QED BY <1>1, <1>2, <1>3, <1>4, <1>5, <1>6, <1>7, <1>8, <1>9, <1>10, <1>11, <1>12, <1>13, <1>14 DEF JobStep, Worker

LEMMA TypeEmbed ==
  ASSUME TypeOK, NEW e \in Embeds, EmbedStep(e)
  PROVE  TypeOK'
  <1> USE DEF TypeOK, Terminal, jobVars
  <1>1. CASE PostEmbed(e)
    BY <1>1, ServerAssumption DEF PostEmbed
  <1>2. CASE PostEmbedAgain(e)
    BY <1>2, ServerAssumption DEF PostEmbedAgain
  <1>3. CASE PipelineEnds(e)
    BY <1>3, ServerAssumption DEF PipelineEnds, Release, Finish
  <1>4. CASE EmbedTimeout(e)
    BY <1>4, ServerAssumption DEF EmbedTimeout, Release
  <1>5. CASE CancelEmbed(e)
    BY <1>5, ServerAssumption DEF CancelEmbed
  <1> QED BY <1>1, <1>2, <1>3, <1>4, <1>5 DEF EmbedStep

LEMMA TypeRepo ==
  ASSUME TypeOK, NEW r \in Repos, RepoStep(r)
  PROVE  TypeOK'
  BY DEF TypeOK, RepoStep, PostEmbedBusy, DeleteRepo, DeleteDone, Release, jobVars, embedVars

LEMMA TypeStep == TypeOK /\ [Next]_vars => TypeOK'
  <1> SUFFICES ASSUME TypeOK, [Next]_vars PROVE TypeOK'
    OBVIOUS
  <1>1. ASSUME UNCHANGED vars PROVE TypeOK'
    BY <1>1 DEF vars, jobVars, embedVars, TypeOK
  <1> QED BY <1>1, TypeJob, TypeEmbed, TypeRepo DEF Next, Quiet

THEOREM ServerTypeCorrect == Spec => []TypeOK
  BY TypeInit, TypeStep, PTL DEF Spec

-----------------------------------------------------------------------------
\* The slot: every action that ends what is under way for a job either ends
\* the job, or starts the next thing.
LEMMA SlotStart ==
  ASSUME TypeOK, NEW j \in Jobs, StartWorker(j)
  PROVE  /\ status'[j] \notin Active \/ child'[j] = "working"
         /\ \A i \in Jobs \ {j} : status'[i] = status[i] /\ child'[i] = child[i]
  <1> USE DEF StartWorker, UpdateJob, Fork, NoFork, TypeOK
  <1>1. \A i \in Jobs \ {j} : status'[i] = status[i]
    OBVIOUS
  <1>2. \A i \in Jobs \ {j} : child'[i] = child[i]
    OBVIOUS
  <1>3. CASE repo[j] \in lock
    BY <1>3 DEF Active
  <1>4. CASE repo[j] \notin lock /\ status[j] = "gone"
    BY <1>4 DEF Active
  <1>5. CASE repo[j] \notin lock /\ status[j] # "gone"
    BY <1>5
  <1> QED BY <1>1, <1>2, <1>3, <1>4, <1>5

LEMMA SlotJob ==
  ASSUME TypeOK, SlotFreed, NEW j \in Jobs, JobStep(j)
  PROVE  SlotFreed'
  <1> USE DEF TypeOK, SlotFreed, Active, Terminal
  <1>1. CASE PostUrl(j)
    BY <1>1 DEF PostUrl
  <1>2. CASE PostLocal(j)
    BY <1>2, SlotStart DEF PostLocal
  <1>3. CASE CloneDone(j)
    BY <1>3, SlotStart DEF CloneDone
  <1>4. CASE CloneFails(j)
    BY <1>4 DEF CloneFails, FailJob, UpdateJob
  <1>5. CASE Progress(j)
    BY <1>5 DEF Progress, UpdateJob, Running
  <1>6. CASE WorkerComplete(j)
    BY <1>6 DEF WorkerComplete
  <1>7. CASE WorkerFails(j)
    BY <1>7 DEF WorkerFails, FailJob, UpdateJob
  <1>8. CASE WorkerErrs(j)
    BY <1>8 DEF WorkerErrs, FailJob, UpdateJob
  <1>9. CASE SpawnFails(j)
    BY <1>9 DEF SpawnFails, FailJob, UpdateJob
  <1>10. CASE WorkerExit(j)
    BY <1>10 DEF WorkerExit, JobOver, ScheduleRetry, CountRetry, ExhaustRetries, FailJob, UpdateJob
  <1>11. CASE RetryTimer(j)
    BY <1>11 DEF RetryTimer, Fork, NoFork
  <1>12. CASE ReloadDone(j)
    BY <1>12 DEF ReloadDone, UpdateJob
  <1>13. CASE CancelJob(j)
    BY <1>13 DEF CancelJob, UpdateJob
  <1>14. CASE ExpireJob(j)
    BY <1>14 DEF ExpireJob
  <1> QED BY <1>1, <1>2, <1>3, <1>4, <1>5, <1>6, <1>7, <1>8, <1>9, <1>10, <1>11, <1>12, <1>13, <1>14 DEF JobStep, Worker

LEMMA SlotStep == TypeOK /\ SlotFreed /\ [Next]_vars => SlotFreed'
  <1> SUFFICES ASSUME TypeOK, SlotFreed, [Next]_vars PROVE SlotFreed'
    OBVIOUS
  <1>1. ASSUME UNCHANGED jobVars PROVE SlotFreed'
    BY <1>1 DEF jobVars, SlotFreed
  <1>2. ASSUME NEW e \in Embeds, EmbedStep(e) PROVE UNCHANGED jobVars
    BY <1>2 DEF EmbedStep, PostEmbed, PostEmbedAgain, PipelineEnds, EmbedTimeout, CancelEmbed
  <1>3. ASSUME NEW r \in Repos, RepoStep(r) PROVE UNCHANGED jobVars
    BY <1>3 DEF RepoStep, PostEmbedBusy, DeleteRepo, DeleteDone
  <1> QED BY <1>1, <1>2, <1>3, SlotJob DEF Next, Quiet, vars

\* Whatever crashes, is cancelled, expires or overlaps: a job that occupies the
\* slot always has something under way that ends it.
THEOREM SlotNeverStuck == Spec => []SlotFreed
  <1>1. Init => SlotInv
    BY TypeInit DEF Init, SlotInv, SlotFreed, Active
  <1>2. SlotInv /\ [Next]_vars => SlotInv'
    BY TypeStep, SlotStep DEF SlotInv
  <1> QED BY <1>1, <1>2, PTL DEF Spec, SlotInv

-----------------------------------------------------------------------------
\* The lock.  A step of a job either leaves the holders alone, or makes the
\* job a holder of a lock that was free, or ends its hold and frees the lock.
SameHolders(j) ==
    /\ \A i \in Jobs : Holds(i)' <=> Holds(i)
    /\ lock' = lock

Takes(j) ==
    /\ \A i \in Jobs \ {j} : Holds(i)' <=> Holds(i)
    /\ Holds(j)'
    /\ repo[j] \notin lock
    /\ lock' = lock \union {repo[j]}

Gives(j) ==
    /\ \A i \in Jobs \ {j} : Holds(i)' <=> Holds(i)
    /\ Holds(j) /\ ~Holds(j)'
    /\ lock' = lock \ {repo[j]}

Effect(j) == SameHolders(j) \/ Takes(j) \/ Gives(j)

\* The jobs stay in the states a run of the handlers without surprises reaches.
LEMMA SaneJob ==
  ASSUME TypeOK, JobsSane, CrashesOnly, NEW j \in Jobs, JobStep(j)
  PROVE  JobsSane'
  <1> USE DEF TypeOK, JobsSane, CrashesOnly, Active, Terminal
  <1>1. CASE PostUrl(j)
    BY <1>1 DEF PostUrl
  <1>2. CASE PostLocal(j)
    BY <1>2 DEF PostLocal, StartWorker, Fork, NoFork, UpdateJob
  <1>3. CASE CloneDone(j)
    BY <1>3 DEF CloneDone, StartWorker, Fork, NoFork, UpdateJob
  <1>4. CASE CloneFails(j)
    BY <1>4 DEF CloneFails
  <1>5. CASE Progress(j)
    BY <1>5 DEF Progress, UpdateJob, Running
  <1>6. CASE WorkerComplete(j)
    BY <1>6 DEF WorkerComplete, Running
  <1>7. CASE WorkerFails(j)
    BY <1>7 DEF WorkerFails, Running, FailJob, UpdateJob
  <1>8. CASE WorkerErrs(j)
    BY <1>8 DEF WorkerErrs
  <1>9. CASE SpawnFails(j)
    BY <1>9 DEF SpawnFails, FailJob, UpdateJob
  <1>10. CASE WorkerExit(j)
    BY <1>10 DEF WorkerExit, MayExit, JobOver, ScheduleRetry, CountRetry, ExhaustRetries, FailJob, UpdateJob
  <1>11. CASE RetryTimer(j)
    BY <1>11 DEF RetryTimer, Fork, NoFork
  <1>12. CASE ReloadDone(j)
    BY <1>12 DEF ReloadDone, UpdateJob
  <1>13. CASE CancelJob(j)
    BY <1>13 DEF CancelJob
  <1>14. CASE ExpireJob(j)
    BY <1>14 DEF ExpireJob
  <1> QED BY <1>1, <1>2, <1>3, <1>4, <1>5, <1>6, <1>7, <1>8, <1>9, <1>10, <1>11, <1>12, <1>13, <1>14 DEF JobStep, Worker

LEMMA JobEffect ==
  ASSUME TypeOK, JobsSane, CrashesOnly, NEW j \in Jobs, JobStep(j)
  PROVE  Effect(j)
  <1> USE DEF TypeOK, JobsSane, CrashesOnly, Active, Terminal, Effect, SameHolders, Takes, Gives, Holds
  <1>1. CASE PostUrl(j)
    BY <1>1 DEF PostUrl
  <1>2. CASE PostLocal(j)
    BY <1>2 DEF PostLocal, StartWorker, Fork, NoFork, UpdateJob
  <1>3. CASE CloneDone(j)
    BY <1>3 DEF CloneDone, StartWorker, Fork, NoFork, UpdateJob
  <1>4. CASE CloneFails(j)
    BY <1>4 DEF CloneFails
  <1>5. CASE Progress(j)
    BY <1>5 DEF Progress, UpdateJob, Running
  <1>6. CASE WorkerComplete(j)
    BY <1>6 DEF WorkerComplete, Running, Release
  <1>7. CASE WorkerFails(j)
    BY <1>7 DEF WorkerFails, Running, FailJob, Release, UpdateJob
  <1>8. CASE WorkerErrs(j)
    BY <1>8 DEF WorkerErrs
  <1>9. CASE SpawnFails(j)
    BY <1>9 DEF SpawnFails, FailJob, Release, UpdateJob
  <1>10. CASE WorkerExit(j)
    BY <1>10 DEF WorkerExit, MayExit, JobOver, ScheduleRetry, CountRetry, ExhaustRetries, FailJob, Release, UpdateJob
  <1>11. CASE RetryTimer(j)
    BY <1>11 DEF RetryTimer, Fork, NoFork
  <1>12. CASE ReloadDone(j)
    BY <1>12 DEF ReloadDone, UpdateJob
  <1>13. CASE CancelJob(j)
    BY <1>13 DEF CancelJob
  <1>14. CASE ExpireJob(j)
    BY <1>14 DEF ExpireJob
  <1> QED BY <1>1, <1>2, <1>3, <1>4, <1>5, <1>6, <1>7, <1>8, <1>9, <1>10, <1>11, <1>12, <1>13, <1>14 DEF JobStep, Worker

\* What the effect of a step on holders and lock preserves.  The embedding
\* jobs, the deletions and the jobs' repositories do not change.
LEMMA LockJob ==
  ASSUME TypeOK, LockHeld, HoldersExclusive, LockUsed,
         NEW j \in Jobs, Effect(j), UNCHANGED <<repo, embedVars, deleting>>
  PROVE  LockHeld' /\ HoldersExclusive' /\ LockUsed'
  <1> USE DEF TypeOK, LockHeld, HoldersExclusive, LockUsed, embedVars
  <1>1. CASE SameHolders(j)
    BY <1>1 DEF SameHolders
  <1>2. CASE Takes(j)
    <2> USE <1>2 DEF Takes
    <2>1. LockHeld'
      OBVIOUS
    <2>2. HoldersExclusive'
      OBVIOUS
    <2>3. LockUsed'
      OBVIOUS
    <2> QED BY <2>1, <2>2, <2>3
  <1>3. CASE Gives(j)
    <2> USE <1>3 DEF Gives
    <2>1. LockHeld'
      OBVIOUS
    <2>2. HoldersExclusive'
      OBVIOUS
    <2>3. LockUsed'
      OBVIOUS
    <2> QED BY <2>1, <2>2, <2>3
  <1> QED BY <1>1, <1>2, <1>3 DEF Effect

\* The embedding handler takes the lock with its job's one pipeline and gives
\* it up when that ends; the lock keeps a second pipeline away.
LEMMA LockEmbed ==
  ASSUME TypeOK, EmbedsSane, LockHeld, HoldersExclusive, LockUsed, CrashesOnly,
         NEW e \in Embeds, EmbedStep(e)
  PROVE  EmbedsSane' /\ LockHeld' /\ HoldersExclusive' /\ LockUsed'
  <1> USE DEF TypeOK, EmbedsSane, LockHeld, HoldersExclusive, LockUsed, Holds, jobVars, Terminal
  <1>1. CASE PostEmbed(e)
    <2> USE <1>1 DEF PostEmbed
    <2>1. EmbedsSane' /\ LockHeld'
      OBVIOUS
    <2>2. HoldersExclusive'
      OBVIOUS
    <2>3. LockUsed'
      OBVIOUS
    <2> QED BY <2>1, <2>2, <2>3
  <1>2. CASE PostEmbedAgain(e)
    BY <1>2 DEF PostEmbedAgain
  <1>3. CASE PipelineEnds(e)
    <2> USE <1>3 DEF PipelineEnds, Finish, Release
    <2>1. EmbedsSane' /\ LockHeld'
      OBVIOUS
    <2>2. HoldersExclusive'
      OBVIOUS
    <2>3. LockUsed'
      OBVIOUS
    <2> QED BY <2>1, <2>2, <2>3
  <1>4. CASE EmbedTimeout(e)
    BY <1>4 DEF EmbedTimeout, CrashesOnly
  <1>5. CASE CancelEmbed(e)
    BY <1>5 DEF CancelEmbed, CrashesOnly
  <1> QED BY <1>1, <1>2, <1>3, <1>4, <1>5 DEF EmbedStep

LEMMA LockRepo ==
  ASSUME TypeOK, LockHeld, HoldersExclusive, LockUsed, CrashesOnly,
         NEW r \in Repos, RepoStep(r)
  PROVE  LockHeld' /\ HoldersExclusive' /\ LockUsed'
  <1> USE DEF TypeOK, LockHeld, HoldersExclusive, LockUsed, Holds, jobVars, embedVars
  <1>1. CASE PostEmbedBusy(r)
    BY <1>1 DEF PostEmbedBusy, CrashesOnly
  <1>2. CASE DeleteRepo(r)
    <2> USE <1>2 DEF DeleteRepo
    <2>1. LockHeld'
      OBVIOUS
    <2>2. HoldersExclusive'
      OBVIOUS
    <2>3. LockUsed'
      OBVIOUS
    <2> QED BY <2>1, <2>2, <2>3
  <1>3. CASE DeleteDone(r)
    <2> USE <1>3 DEF DeleteDone, Release
    <2>1. LockHeld'
      OBVIOUS
    <2>2. HoldersExclusive'
      OBVIOUS
    <2>3. LockUsed'
      OBVIOUS
    <2> QED BY <2>1, <2>2, <2>3
  <1> QED BY <1>1, <1>2, <1>3 DEF RepoStep

LEMMA LockInit == Init => LockInv
  <1> SUFFICES ASSUME Init PROVE LockInv
    OBVIOUS
  <1>1. JobsSane
    BY DEF Init, JobsSane
  <1>2. EmbedsSane
    BY DEF Init, EmbedsSane
  <1>3. LockHeld /\ HoldersExclusive /\ LockUsed
    BY DEF Init, LockHeld, HoldersExclusive, LockUsed, Holds
  <1> QED BY TypeInit, <1>1, <1>2, <1>3 DEF LockInv

LEMMA LockStep == CrashesOnly /\ LockInv /\ [Next]_vars => LockInv'
  <1> SUFFICES ASSUME CrashesOnly, LockInv, [Next]_vars PROVE LockInv'
    OBVIOUS
  <1>0. TypeOK'
    BY TypeStep DEF LockInv
  <1>1. ASSUME UNCHANGED vars
        PROVE  JobsSane' /\ EmbedsSane' /\ LockHeld' /\ HoldersExclusive' /\ LockUsed'
    BY <1>1 DEF LockInv, vars, jobVars, embedVars, JobsSane, EmbedsSane, LockHeld,
                HoldersExclusive, LockUsed, Holds
  <1>2. ASSUME NEW j \in Jobs, JobStep(j)
        PROVE  JobsSane' /\ EmbedsSane' /\ LockHeld' /\ HoldersExclusive' /\ LockUsed'
    <2>1. UNCHANGED <<repo, embedVars, deleting>>
      BY <1>2 DEF JobStep, Worker, PostUrl, PostLocal, CloneDone, CloneFails, Progress,
                  WorkerComplete, WorkerFails, WorkerErrs, SpawnFails, WorkerExit, RetryTimer,
                  ReloadDone, CancelJob, ExpireJob
    <2>2. EmbedsSane'
      BY <2>1 DEF LockInv, EmbedsSane, embedVars
    <2> QED BY <1>2, <2>1, <2>2, SaneJob, JobEffect, LockJob DEF LockInv
  <1>3. ASSUME NEW e \in Embeds, EmbedStep(e)
        PROVE  JobsSane' /\ EmbedsSane' /\ LockHeld' /\ HoldersExclusive' /\ LockUsed'
    <2>1. JobsSane'
      BY <1>3 DEF LockInv, JobsSane, jobVars, EmbedStep, PostEmbed, PostEmbedAgain,
                  PipelineEnds, EmbedTimeout, CancelEmbed
    <2> QED BY <1>3, <2>1, LockEmbed DEF LockInv
  <1>4. ASSUME NEW r \in Repos, RepoStep(r)
        PROVE  JobsSane' /\ EmbedsSane' /\ LockHeld' /\ HoldersExclusive' /\ LockUsed'
    <2>1. JobsSane' /\ EmbedsSane'
      BY <1>4 DEF LockInv, JobsSane, EmbedsSane, jobVars, embedVars, RepoStep, PostEmbedBusy,
                  DeleteRepo, DeleteDone
    <2> QED BY <1>4, <2>1, LockRepo DEF LockInv
  <1> QED BY <1>0, <1>1, <1>2, <1>3, <1>4 DEF Next, Quiet, LockInv

\* When workers only crash, fail or finish and jobs only expire, at most one of
\* a worker, an embedding pipeline and a deletion writes an index at a time.
THEOREM LockExcludesWriters ==
  CrashesOnly => (Spec => []WritersExclusive)
  <1> SUFFICES ASSUME CrashesOnly PROVE Spec => []WritersExclusive
    OBVIOUS
  <1>0. LockInv /\ [Next]_vars => LockInv'
    BY LockStep
  <1>1. LockInv => WritersExclusive
    <2> SUFFICES ASSUME LockInv PROVE WritersExclusive
      OBVIOUS
    <2>1. \A j \in Jobs : Running(j) => Holds(j)
      BY DEF LockInv, TypeOK, JobsSane, Running, Holds
    <2>2. \A e \in Embeds : pipes[e] > 0 => pipes[e] = 1
      BY DEF LockInv, EmbedsSane
    <2> QED BY <2>1, <2>2 DEF LockInv, HoldersExclusive, WritersExclusive, JobWrites, EmbedWrites
  <1> QED BY <1>0, <1>1, LockInit, PTL DEF Spec

\* Under the same environment the lock is never leaked: a repository is locked
\* only while something that will unlock it is under way.
THEOREM LockNotLeaked ==
  CrashesOnly => (Spec => []LockMeansActive)
  <1> SUFFICES ASSUME CrashesOnly PROVE Spec => []LockMeansActive
    OBVIOUS
  <1>0. LockInv /\ [Next]_vars => LockInv'
    BY LockStep
  <1>1. LockInv => LockMeansActive
    BY DEF LockInv, TypeOK, LockUsed, LockMeansActive, JobWrites, EmbedWrites, Running, Holds
  <1> QED BY <1>0, <1>1, LockInit, PTL DEF Spec
=============================================================================
