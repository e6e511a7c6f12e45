--------------------------- MODULE ResilientFetch ---------------------------
(***************************************************************************)
(* Concurrent calls of resilientFetch on one breaker,                      *)
(* gitnexus-shared/src/integrations/resilient-fetch.ts: the breaker is     *)
(* checked once per call, fetch is attempted up to maxAttempts times with  *)
(* a sleep in between, and the outcome of the whole call is recorded once. *)
(***************************************************************************)
EXTENDS CircuitBreaker

CONSTANTS
  Calls,        \* call sites that share the breaker
  MaxAttempts,  \* retryConfig.maxAttempts
  SlowCalls     \* may a call outlast the cooldown of a breaker tripped meanwhile?

ASSUME FetchAssumption == MaxAttempts \in Nat \ {0} /\ SlowCalls \in BOOLEAN

VARIABLES
  call,      \* "idle", "fetch" (an attempt is awaited) or "sleep" (between two)
  attempt,   \* the loop variable: attempts finished in this call
  signal,    \* the caller's AbortSignal: "none", "armed" or "fired"
  admitted,  \* history: the state in which check admitted the call
  backend    \* "flaky" or "healthy"

callVars == <<call, attempt, signal, admitted>>
vars == <<breakerVars, callVars, backend>>

TypeOK ==
  /\ BreakerTypeOK
  /\ call \in [Calls -> {"idle", "fetch", "sleep"}]
  /\ attempt \in [Calls -> 0 .. MaxAttempts - 1]
  /\ signal \in [Calls -> {"none", "armed", "fired"}]
  /\ admitted \in [Calls -> {"none", "closed", "half-open"}]
  /\ backend \in {"flaky", "healthy"}

Init ==
  /\ BreakerInit
  /\ call = [q \in Calls |-> "idle"]
  /\ attempt = [q \in Calls |-> 0]
  /\ signal = [q \in Calls |-> "none"]
  /\ admitted = [q \in Calls |-> "none"]
  /\ backend = "flaky"

\* The call passes check and starts its first attempt.
Start(q) ==
  /\ call[q] = "idle"
  /\ CheckAdmits
  /\ call' = [call EXCEPT ![q] = "fetch"]
  /\ signal' = [signal EXCEPT ![q] = "armed"]
  /\ admitted' = [admitted EXCEPT ![q] = state']
  /\ UNCHANGED <<attempt, backend>>

\* The call returns or throws.
End(q) ==
  /\ call' = [call EXCEPT ![q] = "idle"]
  /\ attempt' = [attempt EXCEPT ![q] = 0]
  /\ signal' = [signal EXCEPT ![q] = "none"]
  /\ admitted' = [admitted EXCEPT ![q] = "none"]
  /\ UNCHANGED backend

\* fetch answers 2xx or 3xx.
Succeeds(q) == /\ call[q] = "fetch" /\ signal[q] = "armed"
               /\ RecordSuccess
               /\ End(q)

\* fetch answers 4xx other than 429.
ClientError(q) == /\ call[q] = "fetch" /\ signal[q] = "armed" /\ backend = "flaky"
                  /\ RecordNeutral
                  /\ End(q)

\* The signal has fired: fetch rejects, or has rejected before it started.
Aborted(q) == /\ call[q] = "fetch" /\ signal[q] = "fired"
              /\ RecordNeutral
              /\ End(q)

\* fetch answers 5xx or 429, or the network fails, and attempts are left.
Retryable(q) == call[q] = "fetch" /\ signal[q] = "armed" /\ backend = "flaky"

\* Mutant: the attempt is not counted.
FailsUncounted(q) ==
  /\ Retryable(q) /\ attempt[q] + 1 < MaxAttempts
  /\ call' = [call EXCEPT ![q] = "sleep"]
  /\ UNCHANGED <<breakerVars, attempt, signal, admitted, backend>>

Fails(q) ==
  /\ Retryable(q) /\ attempt[q] + 1 < MaxAttempts
  /\ call' = [call EXCEPT ![q] = "sleep"]
  /\ attempt' = [attempt EXCEPT ![q] = @ + 1]
  /\ UNCHANGED <<breakerVars, signal, admitted, backend>>

Exhausted(q) == /\ Retryable(q) /\ attempt[q] + 1 = MaxAttempts
                /\ RecordFailure
                /\ End(q)

\* The sleep is over: the next attempt, with the same `init` and its signal.
Retry(q) ==
  /\ call[q] = "sleep"
  /\ call' = [call EXCEPT ![q] = "fetch"]
  /\ UNCHANGED <<breakerVars, attempt, signal, admitted, backend>>

\* The timer of AbortSignal.timeout(...), or the caller's abort.  A healthy
\* backend answers in time.
SignalFires(q) ==
  /\ signal[q] = "armed" /\ backend = "flaky"
  /\ signal' = [signal EXCEPT ![q] = "fired"]
  /\ UNCHANGED <<breakerVars, call, attempt, admitted, backend>>

\* Without SlowCalls, calls admitted before the breaker tripped end before its
\* cooldown does, as they do when their signal is shorter than the cooldown.
Tick ==
  /\ CoolDown
  /\ SlowCalls \/ cooling > 1 \/ \A q \in Calls : call[q] = "idle"
  /\ UNCHANGED <<callVars, backend>>

BackendChanges ==
  /\ backend' \in {"flaky", "healthy"} \ {backend}
  /\ UNCHANGED <<breakerVars, callVars>>

Attempt(q) == \/ Succeeds(q) \/ ClientError(q) \/ Aborted(q)
              \/ Fails(q) \/ Exhausted(q) \/ Retry(q)

Next == \/ \E q \in Calls : Start(q) \/ Attempt(q) \/ SignalFires(q)
        \/ Tick \/ BackendChanges

Spec == Init /\ [][Next]_vars

\* Clocks run, attempts and sleeps end, and callers keep calling.
Fairness == /\ WF_vars(Tick)
            /\ \A q \in Calls : WF_vars(Start(q)) /\ WF_vars(Attempt(q))
FairSpec == Spec /\ Fairness

-----------------------------------------------------------------------------
(* Properties.                                                              *)

InFlight == {q \in Calls : call[q] # "idle"}

\* The pairing invariant at work: the half-open permit is only ever taken while
\* a probe that will give it back is in flight, so the breaker is not wedged,
\* even when calls admitted earlier record their outcomes late.
PermitHeld == probeInFlight => \E q \in InFlight : admitted[q] = "half-open"

\* Fail fast while recovering: when calls end before the cooldown does, at most
\* one call is in flight while the breaker is half-open.
HalfOpenSolo == state = "half-open" => \A p, q \in InFlight : p = q

\* When the backend stays healthy and callers keep calling, the breaker closes
\* and stays closed.
Recovers == <>[](backend = "healthy") => <>[](state = "closed")

\* Retries are bounded: every call returns or throws.
CallEnds == \A q \in Calls : call[q] # "idle" ~> call[q] = "idle"

-----------------------------------------------------------------------------
(* What the comments promise.                                               *)

\* "Half-open admits exactly one in-flight probe at a time."
OneProbe ==
  \A p, q \in InFlight : admitted[p] = "half-open" /\ admitted[q] = "half-open" => p = q

\* "While Open, `check` throws `CircuitOpenError` until `cooldownMs` has elapsed
\* since the breaker tripped."
CooldownRespected == [][state = "open" /\ cooling > 0 => state' = "open"]_vars

\* "that timeout bounds each individual attempt, not the whole retry sequence":
\* no attempt starts with its timeout already spent.
EachAttemptTimed ==
  [][\A q \in Calls : call[q] = "sleep" /\ call'[q] = "fetch" => signal[q] = "armed"]_vars
=============================================================================
