------------------------ MODULE CircuitClientsProofs ------------------------
(***************************************************************************)
(* Proofs about CircuitClients, for every number of callers, threshold,    *)
(* rest time, probe count and clock lag.                                   *)
(***************************************************************************)
EXTENDS CircuitClients, FiniteSetTheorems, TLAPS

(* The half-open window in full.  Outside a window there are no probes and  *)
(* the window's counts are zero; inside it every slot is accounted for and  *)
(* late successes are among those counted.                                  *)
WindowInv ==
    /\ state = "half-open" => late <= probeSuccess /\ SlotAccounting
    /\ state # "half-open" => Probing = {} /\ lost = 0 /\ late = 0

(* While open, openedAt is at most the clock lag before the opening.        *)
RestInv == state = "open" => age <= sinceOpen + ClockLag

IInv == TypeOK /\ ClosedMeansFewFailures /\ WindowInv /\ RestInv

-----------------------------------------------------------------------------
(* How the set of probes changes when one goroutine enters or leaves it.    *)
LEMMA ProbingFinite == IsFiniteSet(Probing) /\ Cardinality(Probing) \in Nat
  <1>1. Probing \subseteq Callers
    BY DEF Probing
  <1>2. IsFiniteSet(Probing)
    BY <1>1, CallersAssumption, FS_Subset
  <1>3. QED
    BY <1>2, FS_CardinalityType

(* An admitted probe adds one to the probes in flight.                      *)
LEMMA OneMoreProbe ==
  ASSUME NEW c \in Callers, flight \in [Callers -> FlightState],
         flight[c] # "probe", flight' = [flight EXCEPT ![c] = "probe"]
  PROVE  Cardinality(Probing)' = Cardinality(Probing) + 1
  <1>1. Probing' = Probing \cup {c} /\ c \notin Probing
    BY DEF Probing
  <1>2. Cardinality(Probing \cup {c}) = Cardinality(Probing) + 1
    BY <1>1, ProbingFinite, FS_AddElement
  <1>3. QED
    BY <1>1, <1>2

(* A probe that ends takes one off, and there was one.                      *)
LEMMA OneProbeLess ==
  ASSUME NEW c \in Callers, flight \in [Callers -> FlightState],
         flight[c] = "probe", flight' = [flight EXCEPT ![c] = "idle"]
  PROVE  /\ Cardinality(Probing)' = Cardinality(Probing) - 1
         /\ Cardinality(Probing) >= 1
  <1>1. Probing' = Probing \ {c} /\ c \in Probing
    BY DEF Probing
  <1>2. Cardinality(Probing \ {c}) = Cardinality(Probing) - 1
    BY <1>1, ProbingFinite, FS_RemoveElement
  <1>3. Probing # {}
    BY <1>1
  <1>4. Cardinality(Probing) # 0
    BY <1>3, ProbingFinite, FS_EmptySet
  <1>5. QED
    BY <1>1, <1>2, <1>4, ProbingFinite

(* An attempt that neither was nor becomes a probe leaves them alone.       *)
LEMMA SameProbes ==
  ASSUME NEW c \in Callers, flight \in [Callers -> FlightState],
         NEW s \in FlightState, s # "probe",
         flight[c] # "probe", flight' = [flight EXCEPT ![c] = s]
  PROVE  Probing' = Probing
  BY DEF Probing

(* The count of no probes.                                                  *)
LEMMA NoProbes == Cardinality({}) = 0
  BY FS_EmptySet

(* After a window has ended no goroutine is a probe of it.                  *)
LEMMA Retired ==
  ASSUME NEW f \in [Callers -> FlightState], state = "half-open",
         state' # "half-open", flight' = Retire(f)
  PROVE  flight' \in [Callers -> FlightState] /\ Probing' = {}
  BY DEF Retire, Probing, FlightState

-----------------------------------------------------------------------------
LEMMA InitIInv == Init => IInv
  <1> SUFFICES ASSUME Init PROVE IInv
    OBVIOUS
  <1> USE BreakerAssumption DEF Init, BreakerInit
  <1>1. TypeOK
    BY DEF TypeOK, BreakerType, CircuitState, FlightState
  <1>2. ClosedMeansFewFailures /\ RestInv
    BY DEF ClosedMeansFewFailures, RestInv
  <1>3. WindowInv
    BY DEF WindowInv, Probing
  <1>4. QED
    BY <1>1, <1>2, <1>3 DEF IInv

(* Opening a half-open window, or reading a state that has not changed.     *)
LEMMA BeginIInv ==
  ASSUME IInv, NEW c \in Callers, Begin(c)
  PROVE  IInv'
  <1> USE BreakerAssumption DEF IInv
  <1>1. TypeOK'
    <2>1. BreakerType'
      BY DEF TypeOK, BreakerType, Begin, Admit, SlotFree, Live, LiveProbes,
             LiveSuccess, Expired, CircuitState
    <2>2. flight' \in [Callers -> FlightState]
      BY DEF TypeOK, Begin, FlightState
    <2>3. QED
      BY <2>1, <2>2 DEF TypeOK, Begin
  <1>2. ClosedMeansFewFailures'
    BY DEF ClosedMeansFewFailures, TypeOK, BreakerType, Begin, Admit, SlotFree,
           Live,
           Expired
  <1>3. RestInv'
    BY DEF RestInv, Begin, Admit, SlotFree, Live, Expired
  <1>4. WindowInv'
    <2>1. CASE Live = "closed"
      <3>1. state = "closed" /\ state' = "closed" /\ ~Expired
        BY <2>1 DEF Begin, Admit, SlotFree, Live, Expired
      <3>2. Probing' = Probing
        BY <2>1, SameProbes DEF TypeOK, Begin, FlightState
      <3>3. QED
        BY <3>1, <3>2 DEF WindowInv, Begin
    <2>2. CASE Live = "half-open"
      <3>1. Cardinality(Probing)' = Cardinality(Probing) + 1
        BY <2>2, OneMoreProbe DEF TypeOK, Begin
      <3>2. CASE Expired
        BY <2>2, <3>1, <3>2, NoProbes
           DEF WindowInv, SlotAccounting, Begin, Admit, SlotFree, LiveProbes,
               LiveSuccess, Expired
      <3>3. CASE ~Expired
        <4>1. state = "half-open"
          BY <2>2, <3>3 DEF Live
        <4>2. QED
          BY <2>2, <3>1, <3>3, <4>1, ProbingFinite
             DEF WindowInv, SlotAccounting, TypeOK, BreakerType, Begin,
                 Admit, SlotFree, LiveProbes, LiveSuccess
      <3>4. QED
        BY <3>2, <3>3
    <2>3. QED
      BY <2>1, <2>2 DEF Begin, Admit, SlotFree
  <1>5. QED
    BY <1>1, <1>2, <1>3, <1>4

(* A success: outside a window, the last of a window, or one of it.         *)
LEMMA EndSuccessIInv ==
  ASSUME IInv, NEW c \in Callers, EndSuccess(c)
  PROVE  IInv'
  <1> USE BreakerAssumption DEF IInv
  <1> DEFINE f == [flight EXCEPT ![c] = "idle"]
  <1>0. f \in [Callers -> FlightState]
    BY DEF TypeOK, FlightState
  <1>1. ClosedMeansFewFailures' /\ RestInv'
    BY DEF ClosedMeansFewFailures, RestInv, EndSuccess, RecordSuccess,
           LastSuccess, TypeOK,
           BreakerType
  <1>2. /\ BreakerType' /\ healthy' \in BOOLEAN
        /\ streak' \in 0..Threshold /\ sinceOpen' \in 0..OpenFor
    BY DEF EndSuccess, RecordSuccess, LastSuccess, TypeOK, BreakerType,
           CircuitState
  <1>3. CASE state # "half-open"
    <2>1. state' # "half-open" /\ flight' = f
      BY <1>3 DEF EndSuccess, RecordSuccess, LastSuccess, Retire
    <2>2. flight[c] # "probe"
      BY <1>3 DEF WindowInv, Probing
    <2>3. Probing' = Probing
      BY <2>1, <2>2, SameProbes DEF TypeOK, FlightState
    <2>4. lost' = 0 /\ late' = 0
      BY <1>3 DEF EndSuccess, SameWindow
    <2>5. QED
      BY <1>0, <1>1, <1>2, <1>3, <2>1, <2>3, <2>4 DEF WindowInv, TypeOK
  <1>4. CASE state = "half-open" /\ state' # "half-open"
    <2>1. flight' \in [Callers -> FlightState] /\ Probing' = {}
      BY <1>0, <1>4, Retired DEF EndSuccess
    <2>2. lost' = 0 /\ late' = 0
      BY <1>4 DEF EndSuccess, SameWindow
    <2>3. QED
      BY <1>1, <1>2, <1>4, <2>1, <2>2 DEF WindowInv, TypeOK
  <1>5. CASE state = "half-open" /\ state' = "half-open"
    <2>1. flight' = f /\ lost' = lost
      BY <1>5 DEF EndSuccess, Retire, SameWindow
    <2>2. probeSuccess' = probeSuccess + 1 /\ probeSuccess + 1 < HalfOpenProbes
          /\ probes' = probes
      BY <1>5, BreakerAssumption
         DEF EndSuccess, RecordSuccess, LastSuccess, TypeOK, BreakerType
    <2>3. CASE flight[c] = "probe"
      <3>1. late' = late
        BY <1>5, <2>3 DEF EndSuccess, SameWindow
      <3>2. Cardinality(Probing)' = Cardinality(Probing) - 1
        BY <2>1, <2>3, OneProbeLess DEF TypeOK
      <3>3. WindowInv'
        BY <1>5, <2>1, <2>2, <3>1, <3>2, ProbingFinite
           DEF WindowInv, SlotAccounting, TypeOK, BreakerType
      <3>4. QED
        BY <1>0, <1>1, <1>2, <2>1, <3>1, <3>3 DEF TypeOK
    <2>4. CASE flight[c] # "probe"
      <3>1. late' = late + 1
        BY <1>5, <2>4 DEF EndSuccess, SameWindow
      <3>2. Probing' = Probing
        BY <2>1, <2>4, SameProbes DEF TypeOK, FlightState
      <3>3. WindowInv'
        BY <1>5, <2>1, <2>2, <3>1, <3>2, ProbingFinite
           DEF WindowInv, SlotAccounting, TypeOK, BreakerType
      <3>4. late' \in 0..(HalfOpenProbes - 1)
        BY <1>5, <2>2, <3>1 DEF WindowInv, TypeOK, BreakerType
      <3>5. QED
        BY <1>0, <1>1, <1>2, <2>1, <3>3, <3>4 DEF TypeOK
    <2>5. QED
      BY <2>3, <2>4
  <1>6. QED
    BY <1>3, <1>4, <1>5

(* A failure counts toward the threshold or ends the window.                *)
LEMMA EndFailureIInv ==
  ASSUME IInv, NEW c \in Callers, EndFailure(c)
  PROVE  IInv'
  <1> USE BreakerAssumption DEF IInv
  <1> DEFINE f == [flight EXCEPT ![c] = "idle"]
  <1>0. f \in [Callers -> FlightState]
    BY DEF TypeOK, FlightState
  <1>1. ClosedMeansFewFailures' /\ RestInv'
    BY DEF ClosedMeansFewFailures, RestInv, EndFailure, RecordFailure, Trips,
           StampOpened, TypeOK, BreakerType
  <1>2. /\ BreakerType' /\ healthy' \in BOOLEAN
        /\ streak' \in 0..Threshold /\ sinceOpen' \in 0..OpenFor
    BY DEF EndFailure, RecordFailure, Trips, StampOpened, TypeOK, BreakerType,
           CircuitState
  <1>3. state' # "half-open" /\ lost' = 0 /\ late' = 0
    BY DEF EndFailure, RecordFailure, Trips
  <1>4. flight' \in [Callers -> FlightState] /\ Probing' = {}
    <2>1. CASE state # "half-open"
      <3>1. flight' = f /\ flight[c] # "probe"
        BY <2>1 DEF EndFailure, Retire, WindowInv, Probing
      <3>2. Probing' = Probing
        BY <3>1, SameProbes DEF TypeOK, FlightState
      <3>3. QED
        BY <1>0, <2>1, <3>1, <3>2 DEF WindowInv
    <2>2. CASE state = "half-open"
      BY <1>0, <1>3, <2>2, Retired DEF EndFailure
    <2>3. QED
      BY <2>1, <2>2
  <1>5. QED
    BY <1>1, <1>2, <1>3, <1>4 DEF WindowInv, TypeOK

(* A verdict-less ending moves a probe from in flight to lost.              *)
LEMMA EndNeutralIInv ==
  ASSUME IInv, NEW c \in Callers, EndNeutral(c)
  PROVE  IInv'
  <1> USE BreakerAssumption DEF IInv
  <1>1. ClosedMeansFewFailures' /\ RestInv'
    BY DEF ClosedMeansFewFailures, RestInv, EndNeutral, RecordNeutral,
           breakerVars
  <1>2. BreakerType' /\ flight' \in [Callers -> FlightState]
    BY DEF EndNeutral, RecordNeutral, breakerVars, TypeOK, BreakerType,
           FlightState
  <1>3. CASE flight[c] = "probe"
    <2>1. Cardinality(Probing)' = Cardinality(Probing) - 1
          /\ Cardinality(Probing) >= 1
      BY <1>3, OneProbeLess DEF TypeOK, EndNeutral
    <2>2. state = "half-open" /\ state' = "half-open" /\ lost' = lost + 1
      BY <1>3 DEF WindowInv, Probing, EndNeutral, RecordNeutral, breakerVars
    <2>3. lost' \in 0..HalfOpenProbes
      BY <2>1, <2>2, ProbingFinite
         DEF WindowInv, SlotAccounting, TypeOK, BreakerType
    <2>4. WindowInv'
      BY <2>1, <2>2, ProbingFinite
         DEF WindowInv, SlotAccounting, TypeOK, BreakerType, EndNeutral,
             RecordNeutral, breakerVars
    <2>5. QED
      BY <1>1, <1>2, <2>3, <2>4 DEF TypeOK, EndNeutral
  <1>4. CASE flight[c] # "probe"
    <2>1. Probing' = Probing
      BY <1>4, SameProbes DEF TypeOK, FlightState, EndNeutral
    <2>2. WindowInv'
      BY <1>4, <2>1
         DEF WindowInv, SlotAccounting, EndNeutral, RecordNeutral, breakerVars
    <2>3. QED
      BY <1>1, <1>2, <1>4, <2>2 DEF TypeOK, EndNeutral
  <1>5. QED
    BY <1>3, <1>4

(* A state read may open a fresh window.                                    *)
LEMMA InspectIInv ==
  ASSUME IInv, Inspect
  PROVE  IInv'
  <1> USE BreakerAssumption DEF IInv
  <1>1. ClosedMeansFewFailures' /\ RestInv'
    BY DEF ClosedMeansFewFailures, RestInv, Inspect, ReadState, Live, Expired
  <1>2. TypeOK'
    BY DEF TypeOK, BreakerType, Inspect, ReadState, Live, LiveProbes,
           LiveSuccess, Expired, CircuitState
  <1>3. Probing' = Probing
    BY DEF Probing, Inspect
  <1>4. CASE Expired
    <2>1. state # "half-open" /\ Probing = {}
      BY <1>4 DEF Expired, WindowInv
    <2>2. QED
      BY <1>1, <1>2, <1>3, <1>4, <2>1, NoProbes
         DEF WindowInv, SlotAccounting, Inspect, ReadState, LiveProbes,
             LiveSuccess
  <1>5. CASE ~Expired
    BY <1>1, <1>2, <1>3, <1>5
       DEF WindowInv, SlotAccounting, Inspect, ReadState, Live, LiveProbes,
           LiveSuccess
  <1>6. QED
    BY <1>4, <1>5

(* Reset ends any window.                                                   *)
LEMMA ResetIInv ==
  ASSUME IInv, Reset
  PROVE  IInv'
  <1> USE BreakerAssumption DEF IInv
  <1>1. ClosedMeansFewFailures' /\ RestInv'
    BY DEF ClosedMeansFewFailures, RestInv, Reset, ResetBreaker
  <1>2. flight' \in [Callers -> FlightState] /\ Probing' = {}
    <2>1. CASE state = "half-open"
      BY <2>1, Retired DEF Reset, ResetBreaker, TypeOK
    <2>2. CASE state # "half-open"
      BY <2>2 DEF Reset, Retire, TypeOK, WindowInv, Probing
    <2>3. QED
      BY <2>1, <2>2
  <1>3. TypeOK' /\ WindowInv'
    BY <1>2 DEF TypeOK, BreakerType, CircuitState, WindowInv, Reset,
                ResetBreaker
  <1>4. QED
    BY <1>1, <1>3

(* Time ages an opening; sinceOpen ages no slower.                          *)
LEMMA TickIInv ==
  ASSUME IInv, Tick
  PROVE  IInv'
  <1> USE BreakerAssumption DEF IInv
  <1>1. Probing' = Probing
    BY DEF Probing, Tick
  <1>2. ClosedMeansFewFailures' /\ WindowInv'
    BY <1>1 DEF ClosedMeansFewFailures, WindowInv, SlotAccounting, Tick,
                BreakerTick, breakerVars
  <1>3. TypeOK' /\ RestInv'
    BY DEF TypeOK, BreakerType, RestInv, Tick, BreakerTick, breakerVars
  <1>4. QED
    BY <1>2, <1>3

(* The induction step, one case per action.                                 *)
LEMMA NextIInv == IInv /\ [Next]_vars => IInv'
  <1> SUFFICES ASSUME IInv, [Next]_vars PROVE IInv'
    OBVIOUS
  <1>1. ASSUME NEW c \in Callers, Begin(c) PROVE IInv'
    BY <1>1, BeginIInv
  <1>2. ASSUME NEW c \in Callers, EndSuccess(c) PROVE IInv'
    BY <1>2, EndSuccessIInv
  <1>3. ASSUME NEW c \in Callers, EndFailure(c) PROVE IInv'
    BY <1>3, EndFailureIInv
  <1>4. ASSUME NEW c \in Callers, EndNeutral(c) PROVE IInv'
    BY <1>4, EndNeutralIInv
  <1>5. CASE Inspect
    BY <1>5, InspectIInv
  <1>6. CASE Reset
    BY <1>6, ResetIInv
  <1>7. CASE Tick
    BY <1>7, TickIInv
  <1>8. CASE ServiceChanges
    BY <1>8 DEF IInv, TypeOK, BreakerType, ClosedMeansFewFailures, WindowInv,
                SlotAccounting, RestInv, Probing, ServiceChanges, breakerVars,
                history
  <1>9. CASE UNCHANGED vars
    BY <1>9 DEF IInv, TypeOK, BreakerType, ClosedMeansFewFailures, WindowInv,
                SlotAccounting, RestInv, Probing, vars, breakerVars, history
  <1>10. QED
    BY <1>1, <1>2, <1>3, <1>4, <1>5, <1>6, <1>7, <1>8, <1>9 DEF Next

(* Every reachable state of a breaker satisfies the inductive invariant.    *)
THEOREM Inductive == Spec => []IInv
  BY InitIInv, NextIInv, PTL DEF Spec

-----------------------------------------------------------------------------
(* The breaker's fields stay in their ranges: probes never exceeds          *)
(* HalfOpenProbes, whatever the interleaving of allow and record.           *)
THEOREM TypeCorrect == Spec => []TypeOK
  <1>1. IInv => TypeOK
    BY DEF IInv
  <1>2. QED
    BY <1>1, Inductive, PTL

(* The breaker is never closed after Threshold failures without a success.  *)
THEOREM TripsInTime == Spec => []ClosedMeansFewFailures
  <1>1. IInv => ClosedMeansFewFailures
    BY DEF IInv
  <1>2. QED
    BY <1>1, Inductive, PTL

(* Every half-open slot is held by a probe, succeeded, or was lost.         *)
THEOREM SlotsAccountedFor == Spec => []SlotAccounting
  <1>1. IInv => SlotAccounting
    BY DEF IInv, WindowInv, SlotAccounting
  <1>2. QED
    BY <1>1, Inductive, PTL

(* Only a probe that ended without a verdict can wedge a half-open breaker. *)
THEOREM OnlyLostProbesWedge == Spec => []WedgedOnlyByLostProbe
  <1>1. IInv => WedgedOnlyByLostProbe
    <2> SUFFICES ASSUME IInv, state = "half-open", Rejects, Probing = {}
                 PROVE  lost > 0
      BY DEF WedgedOnlyByLostProbe
    <2>1. ~Expired /\ Live = "half-open" /\ LiveProbes = probes
      BY DEF Expired, Live, LiveProbes
    <2>2. probes >= HalfOpenProbes
      BY <2>1, BreakerAssumption DEF Rejects, SlotFree, IInv, TypeOK, BreakerType
    <2>3. probes = 0 + (probeSuccess - late) + lost
      BY NoProbes DEF IInv, WindowInv, SlotAccounting
    <2>4. QED
      BY <2>2, <2>3, BreakerAssumption DEF IInv, TypeOK, BreakerType
  <1>2. QED
    BY <1>1, Inductive, PTL

(* No step ends the rest of an open circuit before its time.                *)
THEOREM RestsInFull == Spec => RestsBeforeProbing
  <1>1. IInv /\ [Next]_vars
          => [state = "open" /\ state' = "half-open"
                => sinceOpen >= OpenFor - ClockLag]_vars
    <2> SUFFICES ASSUME IInv, Next, state = "open", state' = "half-open"
                 PROVE  sinceOpen >= OpenFor - ClockLag
      OBVIOUS
    <2>1. Expired
      BY DEF Next, Begin, EndSuccess, EndFailure, EndNeutral, Inspect, Reset,
             Tick, ServiceChanges, Admit, SlotFree, RecordSuccess, LastSuccess,
             RecordFailure, Trips,
             RecordNeutral, ReadState, ResetBreaker, BreakerTick,
             breakerVars, Live
    <2>2. QED
      BY <2>1, BreakerAssumption
         DEF IInv, RestInv, Expired, TypeOK, BreakerType
  <1>2. QED
    BY <1>1, Inductive, PTL DEF Spec, RestsBeforeProbing
=============================================================================
