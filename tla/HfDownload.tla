----------------------------- MODULE HfDownload -----------------------------
(***************************************************************************)
(* Model downloads from HuggingFace: withHfDownloadRetry of                *)
(* gitnexus/src/core/embeddings/hf-env.ts on the breaker hfDownloadCircuit *)
(* that both embedder entry points share, with the retry loop of           *)
(* gitnexus-shared/src/integrations/retry.ts.  A download reads getState   *)
(* once, never calls check, and records the outcome of every attempt.      *)
(***************************************************************************)
EXTENDS CircuitBreaker

CONSTANTS
  Downloads,            \* calls of withHfDownloadRetry in progress
  MaxDownloadAttempts   \* maxAttempts

ASSUME DownloadAssumption == MaxDownloadAttempts \in Nat \ {0}

VARIABLES
  download,  \* "idle", "fetch" (an attempt is awaited) or "sleep" (between two)
  tries,     \* attempts finished in this download
  network,   \* "up" or "down"
  met        \* history: network failures each met since the circuit is open

downloadVars == <<breakerVars, download, tries, network, met>>

MetNothing == [d \in Downloads |-> 0]

DownloadInit ==
  /\ BreakerInit
  /\ download = [d \in Downloads |-> "idle"]
  /\ tries = [d \in Downloads |-> 0]
  /\ network = "up"
  /\ met = MetNothing

\* The circuit is not open: start the first attempt.
StartDownload(d) ==
  /\ download[d] = "idle"
  /\ GetState # "open"
  /\ download' = [download EXCEPT ![d] = "fetch"]
  /\ UNCHANGED <<breakerVars, tries, network, met>>

EndDownload(d) ==
  /\ download' = [download EXCEPT ![d] = "idle"]
  /\ tries' = [tries EXCEPT ![d] = 0]

DownloadSucceeds(d) == /\ download[d] = "fetch" /\ network = "up"
                       /\ RecordSuccess
                       /\ EndDownload(d)
                       /\ met' = MetNothing
                       /\ UNCHANGED network

\* Not a network error: no retry.
LocalError(d) == /\ download[d] = "fetch"
                 /\ RecordNeutral
                 /\ EndDownload(d)
                 /\ UNCHANGED <<network, met>>

MeetsOpen(d) == met' = IF GetState = "open" THEN [met EXCEPT ![d] = @ + 1] ELSE met

\* Mutant: the state of the breaker is not read after the failure is recorded.
NetworkErrorRetries(d) ==
  /\ download[d] = "fetch" /\ network = "down"
  /\ RecordFailure
  /\ IF tries[d] + 1 >= MaxDownloadAttempts THEN EndDownload(d)
     ELSE /\ download' = [download EXCEPT ![d] = "sleep"]
          /\ tries' = [tries EXCEPT ![d] = @ + 1]
  /\ MeetsOpen(d)
  /\ UNCHANGED network

\* Mutant: the attempt is not counted.
NetworkErrorUncounted(d) ==
  /\ download[d] = "fetch" /\ network = "down"
  /\ RecordFailure
  /\ IF state' = "open" \/ tries[d] + 1 >= MaxDownloadAttempts THEN EndDownload(d)
     ELSE download' = [download EXCEPT ![d] = "sleep"] /\ UNCHANGED tries
  /\ MeetsOpen(d)
  /\ UNCHANGED network

\* A network error, the attempt's timeout included: record it, give up when the
\* breaker is open or no attempt is left, else sleep.
NetworkError(d) ==
  /\ download[d] = "fetch" /\ network = "down"
  /\ RecordFailure
  /\ IF state' = "open" \/ tries[d] + 1 >= MaxDownloadAttempts THEN EndDownload(d)
     ELSE /\ download' = [download EXCEPT ![d] = "sleep"]
          /\ tries' = [tries EXCEPT ![d] = @ + 1]
  /\ MeetsOpen(d)
  /\ UNCHANGED network

\* The sleep is over.  The breaker is not asked before the attempt, not even if
\* another download has tripped it meanwhile.
RetryDownload(d) ==
  /\ download[d] = "sleep"
  /\ download' = [download EXCEPT ![d] = "fetch"]
  /\ UNCHANGED <<breakerVars, tries, network, met>>

DownloadTick ==
  /\ CoolDown
  /\ met' = IF cooling' = 0 THEN MetNothing ELSE met
  /\ UNCHANGED <<download, tries, network>>

NetworkChanges == /\ network' \in {"up", "down"} \ {network}
                  /\ UNCHANGED <<breakerVars, download, tries, met>>

DownloadAttempt(d) ==
  DownloadSucceeds(d) \/ LocalError(d) \/ NetworkError(d) \/ RetryDownload(d)

DownloadNext == \/ \E d \in Downloads : StartDownload(d) \/ DownloadAttempt(d)
                \/ DownloadTick \/ NetworkChanges

DownloadSpec == DownloadInit /\ [][DownloadNext]_downloadVars

\* Clocks run, attempts and sleeps end.
DownloadFairness ==
  WF_downloadVars(DownloadTick) /\ \A d \in Downloads : WF_downloadVars(DownloadAttempt(d))
FairDownloadSpec == DownloadSpec /\ DownloadFairness

-----------------------------------------------------------------------------
\* An open circuit is run into by each download at most once until its cooldown
\* is over: by the attempt that was in progress when another download tripped
\* it, or by the one its sleep ends in, which is made all the same.
\* So the downloads under way can start the cooldown again only once each, and
\* none tries, fails and tries again on a circuit that is open.
OneFailureWhileOpen == \A d \in Downloads : met[d] <= 1

\* Every download ends, with its result or an error.
DownloadEnds == \A d \in Downloads : download[d] # "idle" ~> download[d] = "idle"

\* What the comment on hfDownloadCircuit promises, "the single-permit half-open
\* gate that prevents recovery-time stampedes": one download at a time while
\* the breaker is half-open.
OneDownloadProbes ==
  GetState = "half-open" =>
    \A c, d \in Downloads : download[c] = "fetch" /\ download[d] = "fetch" => c = d
=============================================================================
