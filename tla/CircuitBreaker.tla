--------------------------- MODULE CircuitBreaker ---------------------------
(***************************************************************************)
(* The breaker of circuit.go: its fields and one action for each method    *)
(* that runs under its mutex.  The modules that compose it supply the      *)
(* callers (CircuitClients) or the client's retry loop (ClientDo).         *)
(*                                                                         *)
(* Two abstractions of data, neither of which changes a comparison the     *)
(* code makes.  openedAt is kept as age, the time since it, which stops at *)
(* OpenFor because the code only asks whether it has reached OpenFor.      *)
(* failures stops at Threshold, because the code only asks whether it has  *)
(* reached it.                                                             *)
(***************************************************************************)
EXTENDS Integers

CONSTANTS
    Threshold,       \* consecutive retryable failures that open the circuit
    OpenFor,         \* ticks the circuit stays open before a probe
    HalfOpenProbes,  \* requests let through while half-open
    ClockLag         \* most ticks between reading the clock and the lock

ASSUME BreakerAssumption ==
    /\ Threshold \in Nat \ {0}
    /\ OpenFor \in Nat \ {0}
    /\ HalfOpenProbes \in Nat \ {0}
    /\ ClockLag \in 0..OpenFor

VARIABLES
    state,        \* closed, open or half-open
    failures,     \* failures counted since the last success
    age,          \* time since openedAt; the zero time is long past
    probes,       \* probe slots handed out in this half-open window
    probeSuccess  \* successes recorded in this half-open window

breakerVars == <<state, failures, age, probes, probeSuccess>>

CircuitState == {"closed", "open", "half-open"}

BreakerType ==
    /\ state \in CircuitState
    /\ failures \in 0..Threshold
    /\ age \in 0..OpenFor
    /\ probes \in 0..HalfOpenProbes
    /\ probeSuccess \in 0..(HalfOpenProbes - 1)

BreakerInit ==
    /\ state = "closed"
    /\ failures = 0
    /\ age = OpenFor
    /\ probes = 0
    /\ probeSuccess = 0

-----------------------------------------------------------------------------
(* stateLocked: an open circuit whose time is up reads as half-open, with   *)
(* fresh counters.                                                          *)
Expired     == state = "open" /\ age = OpenFor
Live        == IF Expired THEN "half-open" ELSE state
LiveProbes  == IF Expired THEN 0 ELSE probes
LiveSuccess == IF Expired THEN 0 ELSE probeSuccess

(* The half-open window has a slot left.                                    *)
SlotFreeOffByOne == LiveProbes <= HalfOpenProbes
SlotFree == LiveProbes < HalfOpenProbes

(* State(): a read that settles an expired circuit.                         *)
ReadState ==
    /\ state' = Live
    /\ probes' = LiveProbes
    /\ probeSuccess' = LiveSuccess
    /\ UNCHANGED <<failures, age>>

(* allow() returning nil: closed passes everything, half-open hands out one *)
(* of its slots.                                                            *)
Admit ==
    /\ \/ Live = "closed" /\ probes' = LiveProbes
       \/ /\ Live = "half-open"
          /\ SlotFree
          /\ probes' = LiveProbes + 1
    /\ state' = Live
    /\ probeSuccess' = LiveSuccess
    /\ UNCHANGED <<failures, age>>

(* allow() returning ErrCircuitOpen; nothing has settled in either case.    *)
Rejects ==
    \/ Live = "open"
    \/ Live = "half-open" /\ ~SlotFree

(* This success is the last one the half-open window waits for.             *)
LastSuccessOffByOne == probeSuccess >= HalfOpenProbes
LastSuccess == probeSuccess + 1 >= HalfOpenProbes

(* record() of a success.  It looks at the stored state, not the live one.  *)
RecordSuccess ==
    \/ /\ state = "half-open"
       /\ ~LastSuccess
       /\ probeSuccess' = probeSuccess + 1
       /\ UNCHANGED <<state, failures, age, probes>>
    \/ /\ state = "half-open"
       /\ LastSuccess
       /\ state' = "closed"
       /\ failures' = 0 /\ probes' = 0 /\ probeSuccess' = 0
       /\ UNCHANGED age
    \/ /\ state # "half-open"
       /\ failures' = 0
       /\ UNCHANGED <<state, age, probes, probeSuccess>>

(* record() of an error the retry policy would not retry: no effect.        *)
RecordNeutralFreesSlot ==
    /\ probes' = IF state = "half-open" /\ probes > 0
                 THEN probes - 1 ELSE probes
    /\ UNCHANGED <<state, failures, age, probeSuccess>>
RecordNeutral == UNCHANGED breakerVars

(* openedAt = now, where now was read up to ClockLag before the lock.       *)
NoStamp == UNCHANGED age
StampOpened == age' \in 0..ClockLag

(* This failure is the one that opens a closed circuit.                     *)
TripsOffByOne == failures >= Threshold
Trips == failures + 1 >= Threshold

(* record() of a retryable error.                                           *)
RecordFailure ==
    \/ /\ state = "half-open"
       /\ state' = "open"
       /\ StampOpened
       /\ probes' = 0 /\ probeSuccess' = 0
       /\ UNCHANGED failures
    \/ /\ state # "half-open"
       /\ ~Trips
       /\ failures' = failures + 1
       /\ UNCHANGED <<state, age, probes, probeSuccess>>
    \/ /\ state # "half-open"
       /\ Trips
       /\ failures' = Threshold
       /\ state' = "open"
       /\ StampOpened
       /\ UNCHANGED <<probes, probeSuccess>>

(* Reset().                                                                 *)
ResetBreaker ==
    /\ state' = "closed"
    /\ failures' = 0 /\ probes' = 0 /\ probeSuccess' = 0
    /\ UNCHANGED age

(* The clock the breaker is handed.                                         *)
BreakerTick ==
    /\ age < OpenFor
    /\ age' = age + 1
    /\ UNCHANGED <<state, failures, probes, probeSuccess>>
=============================================================================
