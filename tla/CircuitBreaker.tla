--------------------------- MODULE CircuitBreaker ---------------------------
(***************************************************************************)
(* The per-process circuit breaker,                                        *)
(* gitnexus-shared/src/integrations/circuit-breaker.ts: its state, and one *)
(* operator per method.  Its clients are modelled by the modules           *)
(* ResilientFetch and HfDownload, which extend this one.                   *)
(*                                                                         *)
(* No method awaits, so a call of one is part of a single client step.     *)
(***************************************************************************)
EXTENDS Integers, FiniteSets

CONSTANTS
  FailureThreshold,  \* failureThreshold
  Cooldown           \* cooldownMs, in ticks

ASSUME BreakerAssumption == FailureThreshold \in Nat \ {0} /\ Cooldown \in Nat \ {0}

VARIABLES
  state,                \* "closed", "open" or "half-open"
  consecutiveFailures,  \* counted up to FailureThreshold, all it is compared with
  cooling,              \* cooldownMs - (now() - openedAt), down to 0
  probeInFlight         \* the half-open permit is taken

breakerVars == <<state, consecutiveFailures, cooling, probeInFlight>>

BreakerTypeOK ==
  /\ state \in {"closed", "open", "half-open"}
  /\ consecutiveFailures \in 0 .. FailureThreshold
  /\ cooling \in 0 .. Cooldown
  /\ probeInFlight \in BOOLEAN

BreakerInit ==
  /\ state = "closed"
  /\ consecutiveFailures = 0
  /\ cooling = 0
  /\ probeInFlight = FALSE

\* getState: the would-be state, without a side effect.
GetState == IF state = "open" /\ cooling = 0 THEN "half-open" ELSE state

\* check returns.  When it throws it changes nothing: the permit can only be
\* taken in the half-open state.
CheckAdmits ==
  \/ state = "closed" /\ UNCHANGED breakerVars
  \/ /\ GetState = "half-open" /\ ~probeInFlight
     /\ state' = "half-open"
     /\ probeInFlight' = TRUE
     /\ UNCHANGED <<consecutiveFailures, cooling>>

\* Mutant: a success in the half-open state does not close the breaker.
RecordSuccessStaysHalfOpen ==
  /\ probeInFlight' = FALSE
  /\ consecutiveFailures' = 0
  /\ UNCHANGED <<state, cooling>>

RecordSuccess ==
  /\ probeInFlight' = FALSE
  /\ consecutiveFailures' = 0
  /\ state' = "closed"
  /\ cooling' = 0

Counted == IF consecutiveFailures < FailureThreshold
           THEN consecutiveFailures + 1 ELSE consecutiveFailures
Trips == state = "half-open" \/ Counted >= FailureThreshold

\* Mutant: the permit is kept.
RecordFailureKeepsPermit ==
  /\ consecutiveFailures' = Counted
  /\ IF Trips THEN state' = "open" /\ cooling' = Cooldown
              ELSE UNCHANGED <<state, cooling>>
  /\ UNCHANGED probeInFlight

RecordFailure ==
  /\ probeInFlight' = FALSE
  /\ consecutiveFailures' = Counted
  /\ IF Trips THEN state' = "open" /\ cooling' = Cooldown
              ELSE UNCHANGED <<state, cooling>>

RecordNeutral ==
  /\ probeInFlight' = FALSE
  /\ UNCHANGED <<state, consecutiveFailures, cooling>>

\* Time passes while the breaker cools down.
CoolDown ==
  /\ cooling > 0
  /\ cooling' = cooling - 1
  /\ UNCHANGED <<state, consecutiveFailures, probeInFlight>>
=============================================================================
