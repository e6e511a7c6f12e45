----------------------------- MODULE ParallelMap -----------------------------
(***************************************************************************)
(* What a pool of workers promises its caller, and all the caller relies   *)
(* on (WorkerPool in worker-pool.ts, lines 7 to 22): dispatch maps the     *)
(* files in parallel and answers with the result of every file, once and   *)
(* in the order of the input, or is rejected; after a failure the pool     *)
(* rejects everything.  Workers, jobs, timeouts and retries do not show.   *)
(***************************************************************************)
EXTENDS Naturals

CONSTANT N  \* files in a dispatch

VARIABLES
  call,    \* the last dispatch: "none", "pending", "resolved" or "rejected"
  answer,  \* the files it was resolved with
  failed   \* the pool is unusable

vars == <<call, answer, failed>>

Init == call = "none" /\ answer = <<>> /\ failed = FALSE

Dispatch == /\ call # "pending" /\ ~failed
            /\ call' = "pending"
            /\ answer' = <<>>
            /\ UNCHANGED failed

Resolve == /\ call = "pending" /\ ~failed
           /\ call' = "resolved"
           /\ answer' = [x \in 1 .. N |-> x]
           /\ UNCHANGED failed

Fail == /\ call = "pending"
        /\ failed' = TRUE
        /\ UNCHANGED <<call, answer>>

Reject == /\ failed
          /\ call' = "rejected"
          /\ answer' = <<>>
          /\ UNCHANGED failed

Next == Dispatch \/ Resolve \/ Fail \/ Reject

Spec == Init /\ [][Next]_vars
=============================================================================
