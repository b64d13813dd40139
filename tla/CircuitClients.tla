--------------------------- MODULE CircuitClients ---------------------------
(***************************************************************************)
(* One breaker shared by concurrent attempts, as guardOpen and guardRecord *)
(* use it: allow before the HTTP exchange, record after it, and the lock   *)
(* held during neither the exchange nor the gap around it.  An attempt may *)
(* therefore be recorded in another state than the one that admitted it.   *)
(*                                                                         *)
(* flight tells, for every goroutine, what admitted its attempt: a closed  *)
(* breaker ("normal"), the half-open window that is still open ("probe")   *)
(* or an earlier half-open window ("stale").  The code does not know this; *)
(* the properties need it.                                                 *)
(***************************************************************************)
EXTENDS CircuitBreaker, FiniteSets

CONSTANTS
    Callers,   \* goroutines that share the breaker
    Outcomes   \* how attempts may end: success, failure (retryable), neutral

ASSUME CallersAssumption ==
    /\ IsFiniteSet(Callers)
    /\ Outcomes \subseteq {"success", "failure", "neutral"}

VARIABLES
    flight,     \* what admitted each goroutine's attempt, "idle" without one
    healthy,    \* whether the service is well (environment)
    streak,     \* retryable failures since the last success, up to Threshold
    sinceOpen,  \* time since the circuit last went to open
    lost,       \* probes of this window that ended without a verdict
    late        \* successes of this window that were not its probes

history == <<streak, sinceOpen, lost, late>>
vars == <<breakerVars, flight, healthy, history>>

FlightState == {"idle", "normal", "probe", "stale"}

Probing == {c \in Callers : flight[c] = "probe"}

(* Ranges; probes within HalfOpenProbes is the cap on half-open traffic.    *)
TypeOK ==
    /\ BreakerType
    /\ flight \in [Callers -> FlightState]
    /\ healthy \in BOOLEAN
    /\ streak \in 0..Threshold
    /\ sinceOpen \in 0..OpenFor
    /\ lost \in 0..HalfOpenProbes
    /\ late \in 0..(HalfOpenProbes - 1)

Init ==
    /\ BreakerInit
    /\ flight = [c \in Callers |-> "idle"]
    /\ healthy \in BOOLEAN
    /\ streak = 0
    /\ sinceOpen = OpenFor
    /\ lost = 0
    /\ late = 0

-----------------------------------------------------------------------------
(* A half-open window that has just ended leaves its probes stale.          *)
Retire(f) ==
    IF state = "half-open" /\ state' # "half-open"
    THEN [c \in Callers |-> IF f[c] = "probe" THEN "stale" ELSE f[c]]
    ELSE f

(* A window that is not the one before the step starts with clean counts.   *)
SameWindow == state = "half-open" /\ state' = "half-open"

(* guardOpen admits c's attempt.                                            *)
Begin(c) ==
    /\ flight[c] = "idle"
    /\ Admit
    /\ flight' = [flight EXCEPT ![c] =
                     IF Live = "half-open" THEN "probe" ELSE "normal"]
    /\ lost' = IF Expired THEN 0 ELSE lost
    /\ late' = IF Expired THEN 0 ELSE late
    /\ UNCHANGED <<healthy, streak, sinceOpen>>

(* guardRecord of an attempt that succeeded.                                *)
EndSuccess(c) ==
    /\ "success" \in Outcomes
    /\ flight[c] # "idle"
    /\ RecordSuccess
    /\ flight' = Retire([flight EXCEPT ![c] = "idle"])
    /\ streak' = 0
    /\ lost' = IF SameWindow THEN lost ELSE 0
    /\ late' = IF ~SameWindow THEN 0
               ELSE IF flight[c] = "probe" THEN late ELSE late + 1
    /\ UNCHANGED <<healthy, sinceOpen>>

(* guardRecord of a failure the retry policy retries: the service is ill.   *)
EndFailure(c) ==
    /\ "failure" \in Outcomes
    /\ ~healthy
    /\ flight[c] # "idle"
    /\ RecordFailure
    /\ flight' = Retire([flight EXCEPT ![c] = "idle"])
    /\ streak' = IF streak < Threshold THEN streak + 1 ELSE Threshold
    /\ sinceOpen' = IF state # "open" /\ state' = "open" THEN 0 ELSE sinceOpen
    /\ lost' = 0
    /\ late' = 0
    /\ UNCHANGED healthy

(* guardRecord of a cancellation, or of a request the service rejected on   *)
(* its merits.                                                              *)
EndNeutral(c) ==
    /\ "neutral" \in Outcomes
    /\ flight[c] # "idle"
    /\ RecordNeutral
    /\ flight' = [flight EXCEPT ![c] = "idle"]
    /\ lost' = IF flight[c] = "probe" THEN lost + 1 ELSE lost
    /\ UNCHANGED <<healthy, streak, sinceOpen, late>>

(* Somebody reads State().                                                  *)
Inspect ==
    /\ ReadState
    /\ lost' = IF Expired THEN 0 ELSE lost
    /\ late' = IF Expired THEN 0 ELSE late
    /\ UNCHANGED <<flight, healthy, streak, sinceOpen>>

(* Somebody calls Reset().                                                  *)
Reset ==
    /\ ResetBreaker
    /\ flight' = Retire(flight)
    /\ streak' = 0
    /\ lost' = 0
    /\ late' = 0
    /\ UNCHANGED <<healthy, sinceOpen>>

Tick ==
    /\ BreakerTick \/ (age = OpenFor /\ UNCHANGED breakerVars)
    /\ sinceOpen' = IF sinceOpen < OpenFor THEN sinceOpen + 1 ELSE OpenFor
    /\ UNCHANGED <<flight, healthy, streak, lost, late>>

(* The service fails or heals on its own.                                   *)
ServiceChanges ==
    /\ healthy' = ~healthy
    /\ UNCHANGED <<breakerVars, flight, history>>

End(c) == EndSuccess(c) \/ EndFailure(c) \/ EndNeutral(c)

Next ==
    \/ \E c \in Callers :
          Begin(c) \/ EndSuccess(c) \/ EndFailure(c) \/ EndNeutral(c)
    \/ Inspect
    \/ Reset
    \/ Tick
    \/ ServiceChanges

Spec == Init /\ [][Next]_vars

(* Time passes, attempts end (every one has a timeout), and traffic goes on *)
(* as long as the breaker lets it.  Nobody has to call Reset.               *)
FairSpec ==
    /\ Spec
    /\ WF_vars(Tick)
    /\ \A c \in Callers : WF_vars(Begin(c)) /\ WF_vars(End(c))

-----------------------------------------------------------------------------
(* The breaker is never closed once Threshold retryable failures have been  *)
(* recorded with no success in between, whatever order the attempts that    *)
(* were in flight report in; and while closed it counts exactly those.      *)
ClosedMeansFewFailures ==
    state = "closed" => failures = streak /\ streak < Threshold

(* In a half-open window each slot handed out is accounted for: its probe   *)
(* is still in flight, or succeeded, or ended without a verdict.            *)
SlotAccounting ==
    state = "half-open" =>
        probes = Cardinality(Probing) + (probeSuccess - late) + lost

(* A half-open breaker that rejects everything with no probe in flight has  *)
(* lost a probe to a verdict-less ending: concurrency alone, with late      *)
(* results of earlier windows, never uses up the slots.                     *)
WedgedOnlyByLostProbe ==
    state = "half-open" /\ Rejects /\ Probing = {} => lost > 0

(* The circuit rests for OpenFor, less the clock lag, whenever it has gone  *)
(* to open; no mix of late results and state reads ends the rest early.     *)
RestsBeforeProbing ==
    [][state = "open" /\ state' = "half-open"
        => sinceOpen >= OpenFor - ClockLag]_vars

(* Once the service is well for good and no more probes are lost, the       *)
(* breaker keeps returning to closed.                                       *)
RecoversUnlessLost == <>[](healthy /\ lost = 0) => []<>(state = "closed")

(* What the comment on CircuitHalfOpen promises of probing: it discovers    *)
(* that the service has recovered.                                          *)
ProbesDiscoverRecovery == <>[]healthy => []<>(state = "closed")
=============================================================================
