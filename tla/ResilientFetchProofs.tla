------------------------ MODULE ResilientFetchProofs ------------------------
(***************************************************************************)
(* Proofs about ResilientFetch: its types, that the half-open permit is    *)
(* never held by nobody, and that recovery is probed by one call at a time *)
(* when calls end before a cooldown does.  And about HfDownload, the other *)
(* user of such a breaker: its types, and that no download runs into an    *)
(* open circuit twice.                                                     *)
(***************************************************************************)
EXTENDS ResilientFetch, HfDownload, TLAPS

\* Why HalfOpenSolo is preserved: an in-flight call holds the permit of the
\* half-open state, and none is left when a cooldown ends.
Recovering ==
  /\ state = "half-open" => probeInFlight \/ InFlight = {}
  /\ state = "open" /\ cooling = 0 => InFlight = {}

SoloInv == TypeOK /\ HalfOpenSolo /\ Recovering

-----------------------------------------------------------------------------
\* Types: the code's counters stay in their ranges, and in particular a call
\* never starts more than maxAttempts attempts.
LEMMA TypeInit == Init => TypeOK
  <1> SUFFICES ASSUME Init PROVE TypeOK
    OBVIOUS
  <1>1. probeInFlight \in BOOLEAN
    BY DEF Init, BreakerInit
  <1>2. 0 \in 0 .. FailureThreshold /\ 0 \in 0 .. Cooldown /\ 0 \in 0 .. MaxAttempts - 1
    BY BreakerAssumption, FetchAssumption
  <1>3. BreakerTypeOK
    BY <1>1, <1>2 DEF Init, BreakerInit, BreakerTypeOK
  <1> QED BY <1>2, <1>3 DEF Init, TypeOK

LEMMA TypeEnd ==
  ASSUME TypeOK, NEW q \in Calls, End(q), BreakerTypeOK'
  PROVE  TypeOK'
  BY FetchAssumption DEF TypeOK, End

\* Recording an outcome keeps the breaker's types.
LEMMA TypeRecord ==
  ASSUME BreakerTypeOK, RecordSuccess \/ RecordFailure \/ RecordNeutral
  PROVE  BreakerTypeOK'
  <1>0. probeInFlight' \in BOOLEAN
    BY DEF RecordSuccess, RecordFailure, RecordNeutral
  <1>1. CASE RecordSuccess
    <2>1. consecutiveFailures' \in 0 .. FailureThreshold /\ cooling' \in 0 .. Cooldown
      BY <1>1, BreakerAssumption DEF RecordSuccess
    <2> QED BY <1>0, <1>1, <2>1 DEF RecordSuccess, BreakerTypeOK
  <1>2. CASE RecordFailure
    <2>1. Counted \in 0 .. FailureThreshold
      BY BreakerAssumption DEF Counted, BreakerTypeOK
    <2>2. cooling' \in 0 .. Cooldown /\ state' \in {"closed", "open", "half-open"}
      BY <1>2, BreakerAssumption DEF RecordFailure, BreakerTypeOK
    <2> QED BY <1>0, <1>2, <2>1, <2>2 DEF RecordFailure, BreakerTypeOK
  <1>3. CASE RecordNeutral
    BY <1>0, <1>3 DEF RecordNeutral, BreakerTypeOK
  <1> QED BY <1>1, <1>2, <1>3

LEMMA TypeStart ==
  ASSUME TypeOK, NEW q \in Calls, Start(q)
  PROVE  TypeOK'
  <1>1. BreakerTypeOK' /\ state' \in {"closed", "half-open"}
    BY DEF TypeOK, BreakerTypeOK, Start, CheckAdmits, breakerVars
  <1> QED BY <1>1 DEF TypeOK, Start

LEMMA TypeStep == TypeOK /\ [Next]_vars => TypeOK'
  <1> SUFFICES ASSUME TypeOK, [Next]_vars PROVE TypeOK'
    OBVIOUS
  <1> BreakerTypeOK
    BY DEF TypeOK
  <1>1. ASSUME NEW q \in Calls, Start(q) PROVE TypeOK'
    BY <1>1, TypeStart
  <1>2. ASSUME NEW q \in Calls, Succeeds(q) \/ ClientError(q) \/ Aborted(q) \/ Exhausted(q)
        PROVE  TypeOK'
    BY <1>2, TypeRecord, TypeEnd DEF Succeeds, ClientError, Aborted, Exhausted
  <1>3. ASSUME NEW q \in Calls, Fails(q) PROVE TypeOK'
    <2>1. attempt[q] + 1 \in 0 .. MaxAttempts - 1
      BY <1>3, FetchAssumption DEF TypeOK, Fails, Retryable
    <2> QED BY <1>3, <2>1 DEF TypeOK, Fails, breakerVars, BreakerTypeOK
  <1>4. ASSUME NEW q \in Calls, Retry(q) PROVE TypeOK'
    BY <1>4 DEF TypeOK, Retry, breakerVars, BreakerTypeOK
  <1>5. ASSUME NEW q \in Calls, SignalFires(q) PROVE TypeOK'
    BY <1>5 DEF TypeOK, SignalFires, breakerVars, BreakerTypeOK
  <1>6. CASE Tick
    BY <1>6, BreakerAssumption DEF TypeOK, Tick, CoolDown, callVars, BreakerTypeOK
  <1>7. CASE BackendChanges
    BY <1>7 DEF TypeOK, BackendChanges, breakerVars, callVars, BreakerTypeOK
  <1>8. CASE UNCHANGED vars
    BY <1>8 DEF TypeOK, vars, breakerVars, callVars, BreakerTypeOK
  <1> QED BY <1>1, <1>2, <1>3, <1>4, <1>5, <1>6, <1>7, <1>8 DEF Next, Attempt

\* Type correctness of every reachable state.
THEOREM FetchTypeCorrect == Spec => []TypeOK
  BY TypeInit, TypeStep, PTL DEF Spec

-----------------------------------------------------------------------------
\* No method of the breaker but check takes the permit, and every outcome that
\* is recorded gives it back.
LEMMA PermitStep == TypeOK /\ PermitHeld /\ [Next]_vars => PermitHeld'
  <1> SUFFICES ASSUME TypeOK, PermitHeld, [Next]_vars, probeInFlight'
               PROVE  \E p \in Calls : call'[p] # "idle" /\ admitted'[p] = "half-open"
    BY DEF PermitHeld, InFlight
  <1>1. ASSUME NEW q \in Calls, Start(q)
        PROVE  \E p \in Calls : call'[p] # "idle" /\ admitted'[p] = "half-open"
    <2>1. CASE state' = "half-open"
      BY <1>1, <2>1 DEF TypeOK, Start
    <2>2. CASE state' # "half-open"
      <3>1. probeInFlight
        BY <1>1, <2>2 DEF Start, CheckAdmits, breakerVars
      <3>2. PICK p \in Calls : call[p] # "idle" /\ admitted[p] = "half-open"
        BY <3>1 DEF PermitHeld, InFlight
      <3> QED BY <1>1, <3>2 DEF TypeOK, Start
    <2> QED BY <2>1, <2>2
  <1>2. ASSUME NEW q \in Calls, Succeeds(q) \/ ClientError(q) \/ Aborted(q) \/ Exhausted(q)
        PROVE  FALSE
    BY <1>2 DEF Succeeds, ClientError, Aborted, Exhausted, RecordSuccess, RecordFailure,
                RecordNeutral
  <1>3. ASSUME probeInFlight, admitted' = admitted,
               \A p \in Calls : call[p] # "idle" => call'[p] # "idle"
        PROVE  \E p \in Calls : call'[p] # "idle" /\ admitted'[p] = "half-open"
    BY <1>3 DEF PermitHeld, InFlight
  <1>4. ASSUME NEW q \in Calls, Fails(q) \/ Retry(q) \/ SignalFires(q)
        PROVE  \E p \in Calls : call'[p] # "idle" /\ admitted'[p] = "half-open"
    BY <1>3, <1>4 DEF TypeOK, Fails, Retry, SignalFires, breakerVars
  <1>5. ASSUME Tick \/ BackendChanges \/ UNCHANGED vars
        PROVE  \E p \in Calls : call'[p] # "idle" /\ admitted'[p] = "half-open"
    BY <1>3, <1>5 DEF Tick, CoolDown, BackendChanges, vars, breakerVars, callVars
  <1> QED BY <1>1, <1>2, <1>4, <1>5 DEF Next, Attempt

\* The breaker is never wedged: whenever the permit is taken, a probe that will
\* record an outcome is in flight, however late other calls record theirs.
THEOREM PermitNeverOrphaned == Spec => []PermitHeld
  <1>1. Init => PermitHeld
    BY DEF Init, BreakerInit, PermitHeld
  <1> QED BY <1>1, TypeInit, TypeStep, PermitStep, PTL DEF Spec

-----------------------------------------------------------------------------
\* A call that ends leaves the others in flight.
LEMMA EndLeaves ==
  ASSUME TypeOK, NEW q \in Calls, End(q)
  PROVE  InFlight' = InFlight \ {q}
  BY DEF TypeOK, End, InFlight

LEMMA SoloStart ==
  ASSUME SoloInv, NEW q \in Calls, Start(q)
  PROVE  HalfOpenSolo' /\ Recovering'
  <1>1. InFlight' = InFlight \cup {q}
    BY DEF SoloInv, TypeOK, Start, InFlight
  <1>2. CASE state = "closed" /\ UNCHANGED breakerVars
    BY <1>2 DEF HalfOpenSolo, Recovering, breakerVars
  <1>3. CASE GetState = "half-open" /\ ~probeInFlight /\ state' = "half-open" /\ probeInFlight'
    <2>1. InFlight = {}
      BY <1>3 DEF SoloInv, Recovering, GetState
    <2> QED BY <1>1, <1>3, <2>1 DEF HalfOpenSolo, Recovering
  <1> QED BY <1>2, <1>3 DEF Start, CheckAdmits

LEMMA SoloEnd ==
  ASSUME SoloInv, NEW q \in Calls, q \in InFlight, End(q),
         RecordSuccess \/ RecordFailure \/ RecordNeutral
  PROVE  HalfOpenSolo' /\ Recovering'
  <1>1. InFlight' = InFlight \ {q}
    BY EndLeaves DEF SoloInv
  <1>2. CASE RecordSuccess
    BY <1>2 DEF RecordSuccess, HalfOpenSolo, Recovering
  <1>3. CASE RecordFailure
    <2>1. state' # "half-open"
      BY <1>3 DEF RecordFailure, Trips
    <2>2. state' = "open" => cooling' # 0 \/ (state = "open" /\ cooling' = cooling)
      BY <1>3, BreakerAssumption DEF RecordFailure, SoloInv, TypeOK, BreakerTypeOK
    <2>3. state = "open" => cooling # 0
      BY DEF SoloInv, Recovering
    <2> QED BY <2>1, <2>2, <2>3 DEF HalfOpenSolo, Recovering
  <1>4. CASE RecordNeutral
    <2>1. state' = "half-open" => InFlight' = {}
      BY <1>1, <1>4 DEF RecordNeutral, SoloInv, HalfOpenSolo
    <2>2. state' = "open" => cooling' # 0
      BY <1>4 DEF RecordNeutral, SoloInv, Recovering
    <2> QED BY <2>1, <2>2 DEF HalfOpenSolo, Recovering
  <1> QED BY <1>2, <1>3, <1>4

LEMMA SoloStep ==
  ASSUME SlowCalls = FALSE, SoloInv, [Next]_vars
  PROVE  SoloInv'
  <1> TypeOK /\ TypeOK'
    BY TypeStep DEF SoloInv
  <1>1. ASSUME NEW q \in Calls, Start(q) PROVE HalfOpenSolo' /\ Recovering'
    BY <1>1, SoloStart
  <1>2. ASSUME NEW q \in Calls, Succeeds(q) \/ ClientError(q) \/ Aborted(q) \/ Exhausted(q)
        PROVE  HalfOpenSolo' /\ Recovering'
    <2>1. q \in InFlight
      BY <1>2 DEF Succeeds, ClientError, Aborted, Exhausted, Retryable, InFlight
    <2> QED BY <1>2, <2>1, SoloEnd DEF Succeeds, ClientError, Aborted, Exhausted
  <1>3. ASSUME InFlight' = InFlight, UNCHANGED <<state, cooling, probeInFlight>>
        PROVE  HalfOpenSolo' /\ Recovering'
    BY <1>3 DEF SoloInv, HalfOpenSolo, Recovering
  <1>4. ASSUME NEW q \in Calls, Fails(q) \/ Retry(q) \/ SignalFires(q)
        PROVE  HalfOpenSolo' /\ Recovering'
    <2>1. InFlight' = InFlight
      BY <1>4 DEF TypeOK, Fails, Retryable, Retry, SignalFires, InFlight
    <2> QED BY <1>3, <1>4, <2>1 DEF Fails, Retry, SignalFires, breakerVars
  <1>5. CASE Tick
    <2>1. InFlight' = InFlight /\ state' = state /\ probeInFlight' = probeInFlight
      BY <1>5 DEF Tick, CoolDown, callVars, InFlight
    <2>2. cooling' = 0 => InFlight = {}
      BY <1>5 DEF Tick, CoolDown, InFlight, TypeOK, BreakerTypeOK
    <2> QED BY <2>1, <2>2 DEF SoloInv, HalfOpenSolo, Recovering
  <1>6. ASSUME BackendChanges \/ UNCHANGED vars PROVE HalfOpenSolo' /\ Recovering'
    BY <1>3, <1>6 DEF BackendChanges, vars, breakerVars, callVars, InFlight
  <1> QED BY <1>1, <1>2, <1>4, <1>5, <1>6 DEF Next, Attempt, SoloInv

\* No thundering herd: when calls end before a cooldown does, at most one call
\* is in flight while the breaker is half-open.
THEOREM HalfOpenAdmitsOne == SlowCalls = FALSE => (Spec => []HalfOpenSolo)
  <1> SUFFICES ASSUME SlowCalls = FALSE PROVE Spec => []HalfOpenSolo
    OBVIOUS
  <1>1. Init => SoloInv
    BY TypeInit DEF Init, BreakerInit, SoloInv, HalfOpenSolo, Recovering
  <1>2. SoloInv /\ [Next]_vars => SoloInv'
    BY SoloStep
  <1>3. SoloInv => HalfOpenSolo
    BY DEF SoloInv
  <1> QED BY <1>1, <1>2, <1>3, PTL DEF Spec

-----------------------------------------------------------------------------
(* Model downloads, the other user of the breaker.                          *)

DownloadTypeOK ==
  /\ BreakerTypeOK
  /\ download \in [Downloads -> {"idle", "fetch", "sleep"}]
  /\ tries \in [Downloads -> 0 .. MaxDownloadAttempts - 1]
  /\ network \in {"up", "down"}
  /\ met \in [Downloads -> Nat]

LEMMA DownloadTypeInit == DownloadInit => DownloadTypeOK
  <1> SUFFICES ASSUME DownloadInit PROVE DownloadTypeOK
    OBVIOUS
  <1>1. 0 \in 0 .. FailureThreshold /\ 0 \in 0 .. Cooldown /\ 0 \in 0 .. MaxDownloadAttempts - 1
    BY BreakerAssumption, DownloadAssumption
  <1>2. BreakerTypeOK
    BY <1>1 DEF DownloadInit, BreakerInit, BreakerTypeOK
  <1> QED BY <1>1, <1>2 DEF DownloadInit, MetNothing, DownloadTypeOK

LEMMA DownloadOver ==
  ASSUME DownloadTypeOK, NEW d \in Downloads, EndDownload(d)
  PROVE  /\ download' = [download EXCEPT ![d] = "idle"]
         /\ download' \in [Downloads -> {"idle", "fetch", "sleep"}]
         /\ tries' \in [Downloads -> 0 .. MaxDownloadAttempts - 1]
  BY DownloadAssumption DEF DownloadTypeOK, EndDownload

LEMMA MetTypes ==
  ASSUME DownloadTypeOK, NEW d \in Downloads, MeetsOpen(d)
  PROVE  met' \in [Downloads -> Nat]
  BY DEF DownloadTypeOK, MeetsOpen

LEMMA DownloadTypeStep == DownloadTypeOK /\ [DownloadNext]_downloadVars => DownloadTypeOK'
  <1> SUFFICES ASSUME DownloadTypeOK, [DownloadNext]_downloadVars
               PROVE  DownloadTypeOK'
    OBVIOUS
  <1> BreakerTypeOK
    BY DEF DownloadTypeOK
  <1>1. ASSUME NEW d \in Downloads, StartDownload(d) \/ RetryDownload(d)
        PROVE  DownloadTypeOK'
    BY <1>1 DEF DownloadTypeOK, BreakerTypeOK, StartDownload, RetryDownload, breakerVars
  <1>2. ASSUME NEW d \in Downloads, DownloadSucceeds(d) \/ LocalError(d)
        PROVE  DownloadTypeOK'
    <2>1. RecordSuccess \/ RecordNeutral
      BY <1>2 DEF DownloadSucceeds, LocalError
    <2>2. EndDownload(d) /\ network' = network /\ met' \in {met, MetNothing}
      BY <1>2 DEF DownloadSucceeds, LocalError
    <2>3. met' \in [Downloads -> Nat]
      BY <2>2 DEF MetNothing, DownloadTypeOK
    <2> QED BY <2>1, <2>2, <2>3, TypeRecord, DownloadOver DEF DownloadTypeOK
  <1>3. ASSUME NEW d \in Downloads, NetworkError(d) PROVE DownloadTypeOK'
    <2>1. RecordFailure /\ network' = network
      BY <1>3 DEF NetworkError
    <2>2. BreakerTypeOK'
      BY <2>1, TypeRecord
    <2>3. met' \in [Downloads -> Nat]
      BY <1>3, MetTypes DEF NetworkError
    <2>4. CASE EndDownload(d)
      BY <2>1, <2>2, <2>3, <2>4, DownloadOver DEF DownloadTypeOK
    <2>5. CASE /\ tries[d] + 1 < MaxDownloadAttempts
               /\ download' = [download EXCEPT ![d] = "sleep"]
               /\ tries' = [tries EXCEPT ![d] = @ + 1]
      <3>1. tries[d] + 1 \in 0 .. MaxDownloadAttempts - 1
        BY <2>5, DownloadAssumption DEF DownloadTypeOK
      <3> QED BY <2>1, <2>2, <2>3, <2>5, <3>1 DEF DownloadTypeOK
    <2>6. tries[d] \in Nat /\ MaxDownloadAttempts \in Nat
      BY DownloadAssumption DEF DownloadTypeOK
    <2> QED BY <1>3, <2>4, <2>5, <2>6 DEF NetworkError
  <1>4. CASE DownloadTick
    <2>1. BreakerTypeOK'
      BY <1>4, BreakerAssumption DEF DownloadTick, CoolDown, BreakerTypeOK
    <2>2. met' \in [Downloads -> Nat]
      BY <1>4 DEF DownloadTick, MetNothing, DownloadTypeOK
    <2> QED BY <1>4, <2>1, <2>2 DEF DownloadTick, DownloadTypeOK
  <1>5. CASE NetworkChanges \/ UNCHANGED downloadVars
    BY <1>5 DEF NetworkChanges, downloadVars, breakerVars, DownloadTypeOK, BreakerTypeOK
  <1> QED BY <1>1, <1>2, <1>3, <1>4, <1>5 DEF DownloadNext, DownloadAttempt

\* The state of the downloads keeps its types: none makes more than maxAttempts
\* attempts, and the breaker's counters stay in their ranges.
THEOREM DownloadTypeCorrect == DownloadSpec => []DownloadTypeOK
  BY DownloadTypeInit, DownloadTypeStep, PTL DEF DownloadSpec

-----------------------------------------------------------------------------
\* Why an open circuit is met once: the failure that meets it ends the download,
\* and no download starts before the cooldown is over, which is when the count
\* begins anew.
MetInv ==
  /\ DownloadTypeOK
  /\ GetState # "open" => met = MetNothing
  /\ \A d \in Downloads : met[d] # 0 => met[d] = 1 /\ download[d] = "idle"

\* A failure recorded on an open circuit leaves it open.
LEMMA StaysOpen ==
  ASSUME BreakerTypeOK, GetState = "open", RecordFailure
  PROVE  state' = "open" /\ GetState' = "open"
  BY BreakerAssumption DEF BreakerTypeOK, GetState, RecordFailure

LEMMA MetStep == MetInv /\ [DownloadNext]_downloadVars => MetInv'
  <1> SUFFICES ASSUME MetInv, [DownloadNext]_downloadVars PROVE MetInv'
    OBVIOUS
  <1> DownloadTypeOK /\ DownloadTypeOK'
    BY DownloadTypeStep DEF MetInv
  <1> BreakerTypeOK
    BY DEF DownloadTypeOK
  <1> DEFINE Once == /\ GetState' # "open" => met' = MetNothing
                     /\ \A p \in Downloads :
                          met'[p] # 0 => met'[p] = 1 /\ download'[p] = "idle"
  <1>0. ASSUME met' = MetNothing PROVE Once
    BY <1>0 DEF MetNothing
  <1>1. ASSUME NEW d \in Downloads, StartDownload(d) PROVE Once
    BY <1>0, <1>1 DEF MetInv, StartDownload
  <1>2. ASSUME NEW d \in Downloads, RetryDownload(d) PROVE Once
    <2>1. GetState' = GetState
      BY <1>2 DEF RetryDownload, breakerVars, GetState
    <2> QED BY <1>2, <2>1 DEF MetInv, RetryDownload, DownloadTypeOK
  <1>3. ASSUME NEW d \in Downloads, DownloadSucceeds(d) PROVE Once
    BY <1>0, <1>3 DEF DownloadSucceeds
  <1>4. ASSUME NEW d \in Downloads, LocalError(d) PROVE Once
    <2>1. GetState' = GetState
      BY <1>4 DEF LocalError, RecordNeutral, GetState
    <2> QED BY <1>4, <2>1 DEF MetInv, LocalError, EndDownload, DownloadTypeOK
  <1>5. ASSUME NEW d \in Downloads, NetworkError(d) PROVE Once
    <2>1. CASE GetState # "open"
      BY <1>0, <1>5, <2>1 DEF MetInv, NetworkError, MeetsOpen
    <2>2. CASE GetState = "open"
      <3>1. state' = "open" /\ GetState' = "open"
        BY <1>5, <2>2, StaysOpen DEF NetworkError
      <3>2. EndDownload(d) /\ met' = [met EXCEPT ![d] = @ + 1]
        BY <1>5, <2>2, <3>1 DEF NetworkError, MeetsOpen
      <3>3. met[d] = 0
        BY <1>5 DEF MetInv, NetworkError
      <3> QED BY <3>1, <3>2, <3>3 DEF MetInv, EndDownload, DownloadTypeOK
    <2> QED BY <2>1, <2>2
  <1>6. ASSUME DownloadTick PROVE Once
    <2>1. CASE cooling' = 0
      BY <1>0, <1>6, <2>1 DEF DownloadTick
    <2>2. CASE cooling' # 0
      <3>1. met' = met /\ download' = download /\ state' = state /\ cooling # 0
        BY <1>6, <2>2 DEF DownloadTick, CoolDown, BreakerTypeOK
      <3>2. GetState' = GetState
        BY <2>2, <3>1 DEF GetState
      <3> QED BY <3>1, <3>2 DEF MetInv
    <2> QED BY <2>1, <2>2
  <1>7. ASSUME NetworkChanges \/ UNCHANGED downloadVars PROVE Once
    BY <1>7 DEF NetworkChanges, downloadVars, breakerVars, GetState, MetInv
  <1> QED BY <1>1, <1>2, <1>3, <1>4, <1>5, <1>6, <1>7
          DEF DownloadNext, DownloadAttempt, MetInv

\* No download runs into an open circuit twice before its cooldown is over, for
\* any number of downloads and wherever another one trips it: between two of its
\* attempts or during one.
THEOREM OpenCircuitMetOnce == DownloadSpec => []OneFailureWhileOpen
  <1>1. DownloadInit => MetInv
    BY DownloadTypeInit DEF DownloadInit, MetInv, MetNothing
  <1>2. MetInv /\ [DownloadNext]_downloadVars => MetInv'
    BY MetStep
  <1>3. MetInv => OneFailureWhileOpen
    BY DEF MetInv, OneFailureWhileOpen, DownloadTypeOK
  <1> QED BY <1>1, <1>2, <1>3, PTL DEF DownloadSpec
=============================================================================
