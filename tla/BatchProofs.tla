----------------------------- MODULE BatchProofs ----------------------------
(***************************************************************************)
(* Proofs about Batch, for every number of inputs and every ceiling.       *)
(***************************************************************************)
EXTENDS Batch, FiniteSetTheorems, TLAPS

(* The loop has launched exactly the inputs before next.                    *)
LaunchInv == \A i \in Items : worker[i] = "none" <=> i >= next

(* What each slot holds follows from the item's phase, and from whether the *)
(* launch loop is over for an item never launched.                          *)
SlotInv == \A i \in Items :
    /\ worker[i] = "none" /\ pc = "launching" => slot[i] = "zero"
    /\ worker[i] = "none" /\ pc # "launching" =>
          slot[i] = "unstarted" /\ cancelled
    /\ worker[i] \in {"call", "observe", "write"} => slot[i] = "zero"
    /\ worker[i] \in {"observe", "write"} => outcome[i] \in Outcomes
    /\ worker[i] \in {"release", "wake", "done"} => slot[i] \in Outcomes
    /\ pc = "returned" => worker[i] \in {"none", "done"}

IInv == TypeOK /\ LimiterConsistent /\ LaunchInv /\ SlotInv

Holding == {"call", "observe", "write", "release"}

-----------------------------------------------------------------------------
LEMMA RunningFinite == IsFiniteSet(Running) /\ Cardinality(Running) \in Nat
  <1>1. Running \subseteq 1..N
    BY DEF Running, Items
  <1>2. IsFiniteSet(1..N)
    BY BatchAssumption, FS_Interval
  <1>3. QED
    BY <1>1, <1>2, FS_Subset, FS_CardinalityType

(* The four ways an item's step changes the set of slot holders.            *)
LEMMA OneMoreRunning ==
  ASSUME NEW i \in Items, worker \in [Items -> Phase], Moves(i, "none", "call")
  PROVE  Cardinality(Running)' = Cardinality(Running) + 1
  <1>1. Running' = Running \cup {i} /\ i \notin Running
    BY DEF Running, Moves
  <1>2. QED
    BY <1>1, RunningFinite, FS_AddElement

(* Returning the slot takes one off the holders, and there was one.         *)
LEMMA OneRunningLess ==
  ASSUME NEW i \in Items, worker \in [Items -> Phase],
         Moves(i, "release", "wake")
  PROVE  /\ Cardinality(Running)' = Cardinality(Running) - 1
         /\ Cardinality(Running) >= 1
  <1>1. Running' = Running \ {i} /\ i \in Running
    BY DEF Running, Moves
  <1>2. Cardinality(Running \ {i}) = Cardinality(Running) - 1
    BY <1>1, RunningFinite, FS_RemoveElement
  <1>3. Cardinality(Running) # 0
    BY <1>1, RunningFinite, FS_EmptySet
  <1>4. QED
    BY <1>1, <1>2, <1>3, RunningFinite

(* A step within, or outside, the phases that hold a slot.                  *)
LEMMA StillRunning ==
  ASSUME NEW i \in Items, worker \in [Items -> Phase],
         NEW p \in Phase, NEW q \in Phase, Moves(i, p, q),
         p \in Holding <=> q \in Holding
  PROVE  Running' = Running
  BY DEF Running, Moves, Holding, Phase

(* Halving never leaves 1..limit: the floor keeps the limit positive.       *)
LEMMA HalvedRange ==
  ASSUME limit \in 1..Ceiling
  PROVE  Halved \in 1..limit
  BY LimiterAssumption DEF Halved, MinAdaptiveConcurrency

-----------------------------------------------------------------------------
(* The counters of the limiter, apart from inFlight, under observe.         *)
Counted ==
    /\ limit \in 1..Ceiling
    /\ low \in 1..Ceiling /\ low <= limit
    /\ successes \in 0..(2 * Ceiling) /\ successes < 2 * limit
    /\ limit = Ceiling => successes = 0

(* observe keeps the limiter's own counts consistent, for any outcome.      *)
LEMMA ObserveCounts ==
  ASSUME TypeOK, LimiterConsistent, NEW o, Observe(o)
  PROVE  /\ Counted'
         /\ inFlight' = inFlight /\ peak' = peak
         /\ acq' \in {"out", "fast", "slow", "waiting", "parked"}
         /\ watchdog' = watchdog /\ leaving' = leaving
         /\ cancelled' = cancelled
  <1> USE LimiterAssumption
  <1>0. Counted
    BY DEF Counted, TypeOK, LimiterType, LimiterConsistent
  <1>1. CASE Throttle /\ UNCHANGED <<watchdog, leaving, cancelled>>
    <2>1. Halved \in 1..limit
      BY HalvedRange DEF TypeOK, LimiterType
    <2>2. /\ limit' = Halved /\ successes' = 0
          /\ low' = (IF Halved < low THEN Halved ELSE low)
          /\ UNCHANGED <<inFlight, peak, acq, watchdog, leaving, cancelled>>
      BY <1>1 DEF Throttle
    <2>3. Counted'
      BY <1>0, <2>1, <2>2 DEF Counted
    <2>4. QED
      BY <2>2, <2>3 DEF TypeOK, LimiterType
  <1>2. CASE Recover /\ UNCHANGED <<watchdog, leaving, cancelled>>
    BY <1>0, <1>2 DEF Counted, Recover, Broadcast, counters, TypeOK,
                      LimiterType
  <1>3. CASE UNCHANGED <<counters, acq, watchdog, leaving, cancelled>>
    BY <1>0, <1>3 DEF Counted, counters, TypeOK, LimiterType
  <1>4. QED
    BY <1>1, <1>2, <1>3 DEF Observe

(* The new limiter and the empty result satisfy the invariant.              *)
LEMMA InitIInv == Init => IInv
  <1> SUFFICES ASSUME Init PROVE IInv
    OBVIOUS
  <1> USE LimiterAssumption, BatchAssumption DEF Init, LimiterInit
  <1>1. TypeOK
    <2>1. cancelled \in BOOLEAN
      OBVIOUS
    <2>2. LimiterType
      BY <2>1 DEF LimiterType
    <2>3. QED
      BY <2>2 DEF TypeOK, Phase, Items
  <1>2. Running = {}
    BY DEF Running
  <1>3. LimiterConsistent
    BY <1>2, FS_EmptySet DEF LimiterConsistent
  <1>4. LaunchInv /\ SlotInv
    BY DEF LaunchInv, SlotInv, Items
  <1>5. QED
    BY <1>1, <1>3, <1>4 DEF IInv

(* acquire's steps that take no slot touch only its position.               *)
LEMMA WaitingIInv ==
  ASSUME IInv, AskForSlot \/ Wait \/ Watchdog \/ CallerCancels
  PROVE  IInv'
  <1> USE DEF IInv, batchVars, counters
  <1>1. UNCHANGED <<counters, batchVars>> /\ (cancelled => cancelled')
    BY DEF AskForSlot, Wait, Watchdog, CallerCancels, EnterAcquire, GoSlow,
           DecideToWait, Park, WatchdogFires, WatchdogLeaves, Cancel
  <1>2. /\ acq' \in {"out", "fast", "slow", "waiting", "parked"}
        /\ watchdog' \in {"none", "armed", "spent"}
        /\ cancelled' \in BOOLEAN
    BY DEF AskForSlot, Wait, Watchdog, CallerCancels, EnterAcquire, GoSlow,
           DecideToWait, Park, WatchdogFires, WatchdogLeaves, Cancel, Broadcast, TypeOK,
           LimiterType
  <1>0. leaving' \in Nat
    <2>1. leaving \in Nat
      BY DEF TypeOK, LimiterType
    <2>2. leaving' = leaving \/ (leaving > 0 /\ leaving' = leaving - 1)
      BY DEF AskForSlot, Wait, Watchdog, CallerCancels, EnterAcquire, GoSlow,
             DecideToWait, Park, WatchdogFires, WatchdogLeaves, Cancel
    <2>3. QED
      BY <2>1, <2>2
  <1>3. TypeOK'
    BY <1>0, <1>1, <1>2 DEF TypeOK, LimiterType
  <1>4. LimiterConsistent' /\ LaunchInv' /\ SlotInv'
    BY <1>1 DEF LimiterConsistent, Running, LaunchInv, SlotInv
  <1>5. QED
    BY <1>3, <1>4

(* A launch counts the slot it takes and moves next past the item.          *)
LEMMA LaunchIInv ==
  ASSUME IInv, Launch
  PROVE  IInv'
  <1> USE LimiterAssumption, BatchAssumption DEF IInv
  <1>0. next \in Items /\ next' = next + 1 /\ next' \in 1..(N + 1)
    BY DEF Launch, TypeOK, Items
  <1>1. /\ inFlight < limit
        /\ inFlight' = inFlight + 1
        /\ peak' = (IF inFlight + 1 > peak THEN inFlight + 1 ELSE peak)
        /\ limit' = limit /\ successes' = successes /\ low' = low
        /\ acq' = "out" /\ watchdog' = "none" /\ cancelled' = cancelled
        /\ leaving' \in Nat
    BY DEF Launch, Acquire, HasRoom, Take, Dismiss, TypeOK, LimiterType
  <1>2. Cardinality(Running)' = Cardinality(Running) + 1
    BY <1>0, OneMoreRunning DEF Launch, TypeOK
  <1>3. LimiterConsistent'
    BY <1>1, <1>2, RunningFinite DEF LimiterConsistent, TypeOK, LimiterType
  <1>4. LimiterType'
    BY <1>1 DEF TypeOK, LimiterType
  <1>5. /\ worker' = [worker EXCEPT ![next] = "call"]
        /\ worker[next] = "none" /\ pc = "launching"
        /\ UNCHANGED <<pc, outcome, slot>>
    BY DEF Launch, Moves
  <1>6. TypeOK'
    BY <1>0, <1>4, <1>5 DEF TypeOK, Phase
  <1>7. LaunchInv'
    BY <1>0, <1>5 DEF LaunchInv, TypeOK, Phase, Items
  <1>8. SlotInv'
    BY <1>0, <1>1, <1>5 DEF SlotInv, TypeOK, Phase
  <1>9. QED
    BY <1>3, <1>6, <1>7, <1>8

(* The cancellation sweep fills exactly the slots not launched.             *)
LEMMA FillRestIInv ==
  ASSUME IInv, FillRest
  PROVE  IInv'
  <1> USE DEF IInv
  <1>1. /\ UNCHANGED <<counters, cancelled, next, worker, outcome>>
        /\ cancelled /\ acq' = "out" /\ watchdog' = "none" /\ leaving' \in Nat
        /\ pc = "launching" /\ pc' = "joining"
        /\ slot' = [i \in Items |-> IF i >= next THEN "unstarted" ELSE slot[i]]
    BY DEF FillRest, Rest, GiveUp, Dismiss, TypeOK, LimiterType
  <1>2. TypeOK'
    BY <1>1 DEF TypeOK, LimiterType, counters
  <1>3. LimiterConsistent' /\ LaunchInv'
    BY <1>1 DEF LimiterConsistent, Running, LaunchInv, counters
  <1>4. SlotInv'
    BY <1>1 DEF SlotInv, LaunchInv
  <1>5. QED
    BY <1>2, <1>3, <1>4

(* Leaving the loop at its end leaves no input unlaunched.                  *)
LEMMA LaunchedAllIInv ==
  ASSUME IInv, LaunchedAll
  PROVE  IInv'
  <1> USE DEF IInv
  <1>1. /\ UNCHANGED <<limiterVars, next, worker, outcome, slot>>
        /\ pc = "launching" /\ next > N /\ pc' = "joining"
    BY DEF LaunchedAll
  <1>2. TypeOK' /\ LimiterConsistent' /\ LaunchInv'
    BY <1>1 DEF TypeOK, LimiterType, LimiterConsistent, Running, LaunchInv,
                limiterVars
  <1>3. \A i \in Items : worker[i] # "none"
    BY <1>1, BatchAssumption DEF LaunchInv, TypeOK, Items
  <1>4. SlotInv'
    BY <1>1, <1>3 DEF SlotInv
  <1>5. QED
    BY <1>2, <1>4

(* Returning changes no slot.                                               *)
LEMMA ReturnIInv ==
  ASSUME IInv, Return
  PROVE  IInv'
  BY DEF IInv, Return, TypeOK, LimiterType, LimiterConsistent, Running,
         LaunchInv, SlotInv, limiterVars

(* A goroutine's own steps: its phase, its outcome and its slot.            *)
LEMMA EndCallIInv ==
  ASSUME IInv, NEW i \in Items, EndCall(i)
  PROVE  IInv'
  <1> USE DEF IInv
  <1>1. PICK o \in Outcomes : outcome' = [outcome EXCEPT ![i] = o]
    BY DEF EndCall
  <1>2. /\ UNCHANGED <<limiterVars, pc, next, slot>>
        /\ worker[i] = "call" /\ worker' = [worker EXCEPT ![i] = "observe"]
    BY DEF EndCall, Moves
  <1>3. Running' = Running
    BY StillRunning DEF EndCall, TypeOK, Phase, Holding
  <1>4. TypeOK' /\ LimiterConsistent'
    BY <1>1, <1>2, <1>3 DEF TypeOK, LimiterType, LimiterConsistent, Phase,
                            limiterVars
  <1>5. LaunchInv' /\ SlotInv'
    BY <1>1, <1>2 DEF LaunchInv, SlotInv, TypeOK, Phase, limiterVars
  <1>6. QED
    BY <1>4, <1>5

(* observe changes the limiter and no slot.                                 *)
LEMMA ObserveItemIInv ==
  ASSUME IInv, NEW i \in Items, ObserveItem(i)
  PROVE  IInv'
  <1> USE LimiterAssumption DEF IInv
  <1>0. Counted'
    BY ObserveCounts DEF ObserveItem
  <1>1. /\ inFlight' = inFlight /\ peak' = peak
        /\ acq' \in {"out", "fast", "slow", "waiting", "parked"}
        /\ watchdog' = watchdog /\ leaving' = leaving
         /\ cancelled' = cancelled
    BY ObserveCounts DEF ObserveItem
  <1>2. /\ UNCHANGED <<pc, next, outcome, slot>>
        /\ worker[i] = "observe" /\ worker' = [worker EXCEPT ![i] = "write"]
    BY DEF ObserveItem, Moves
  <1>3. Running' = Running
    BY StillRunning DEF ObserveItem, TypeOK, Phase, Holding
  <1>4. LimiterConsistent'
    <2>1. inFlight' = Cardinality(Running)' /\ inFlight' <= peak'
      BY <1>1, <1>3 DEF LimiterConsistent
    <2>2. /\ low' <= limit' /\ successes' < 2 * limit'
          /\ limit' = Ceiling => successes' = 0
      BY <1>0 DEF Counted
    <2>3. QED
      BY <2>1, <2>2 DEF LimiterConsistent
  <1>5. LimiterType'
    <2>1. limit' \in 1..Ceiling /\ low' \in 1..Ceiling
          /\ successes' \in 0..(2 * Ceiling)
      BY <1>0 DEF Counted
    <2>2. QED
      BY <1>1, <2>1 DEF TypeOK, LimiterType
  <1>6. TypeOK'
    BY <1>2, <1>5 DEF TypeOK, Phase
  <1>7. LaunchInv' /\ SlotInv'
    BY <1>1, <1>2 DEF LaunchInv, SlotInv, TypeOK, Phase
  <1>8. QED
    BY <1>4, <1>6, <1>7

(* An item writes its own slot, which was still zero.                       *)
LEMMA WriteSlotIInv ==
  ASSUME IInv, NEW i \in Items, WriteSlot(i)
  PROVE  IInv'
  <1> USE DEF IInv
  <1>1. /\ UNCHANGED <<limiterVars, pc, next>>
        /\ slot' = [slot EXCEPT ![i] = outcome[i]]
        /\ outcome' = [outcome EXCEPT ![i] = "unknown"]
        /\ worker[i] = "write" /\ worker' = [worker EXCEPT ![i] = "release"]
    BY DEF WriteSlot, Moves
  <1>2. outcome[i] \in Outcomes
    BY <1>1 DEF SlotInv
  <1>3. Running' = Running
    BY StillRunning DEF WriteSlot, TypeOK, Phase, Holding
  <1>4. TypeOK' /\ LimiterConsistent'
    BY <1>1, <1>2, <1>3 DEF TypeOK, LimiterType, LimiterConsistent, Phase,
                            limiterVars
  <1>5. LaunchInv' /\ SlotInv'
    BY <1>1, <1>2 DEF LaunchInv, SlotInv, TypeOK, Phase, limiterVars
  <1>6. QED
    BY <1>4, <1>5

(* release takes one off inFlight and one off the holders.                  *)
LEMMA ReleaseItemIInv ==
  ASSUME IInv, NEW i \in Items, ReleaseItem(i)
  PROVE  IInv'
  <1> USE LimiterAssumption DEF IInv
  <1>1. /\ inFlight' = inFlight - 1
        /\ UNCHANGED <<limit, successes, peak, low, acq, watchdog, leaving, cancelled>>
        /\ UNCHANGED <<pc, next, outcome, slot>>
        /\ worker[i] = "release" /\ worker' = [worker EXCEPT ![i] = "wake"]
    BY DEF ReleaseItem, Release, Moves
  <1>2. /\ Cardinality(Running)' = Cardinality(Running) - 1
        /\ Cardinality(Running) >= 1
    BY OneRunningLess DEF ReleaseItem, TypeOK
  <1>3. TypeOK' /\ LimiterConsistent'
    BY <1>1, <1>2, RunningFinite DEF TypeOK, LimiterType, LimiterConsistent,
                                     Phase
  <1>4. LaunchInv' /\ SlotInv'
    BY <1>1 DEF LaunchInv, SlotInv, TypeOK, Phase
  <1>5. QED
    BY <1>3, <1>4

(* The late broadcast touches only the wait list.                           *)
LEMMA FinishItemIInv ==
  ASSUME IInv, NEW i \in Items, FinishItem(i)
  PROVE  IInv'
  <1> USE DEF IInv
  <1>1. /\ UNCHANGED <<counters, watchdog, leaving, cancelled>>
        /\ UNCHANGED <<pc, next, outcome, slot>>
        /\ acq' = (IF acq = "parked" THEN "slow" ELSE acq)
        /\ worker[i] = "wake" /\ worker' = [worker EXCEPT ![i] = "done"]
    BY DEF FinishItem, ReleaseBroadcast, Broadcast, Moves
  <1>2. Running' = Running
    BY StillRunning DEF FinishItem, TypeOK, Phase, Holding
  <1>3. TypeOK' /\ LimiterConsistent'
    BY <1>1, <1>2 DEF TypeOK, LimiterType, LimiterConsistent, Phase, counters
  <1>4. LaunchInv' /\ SlotInv'
    BY <1>1 DEF LaunchInv, SlotInv, TypeOK, Phase
  <1>5. QED
    BY <1>3, <1>4

(* The invariant is inductive.                                              *)
LEMMA NextIInv == IInv /\ [Next]_vars => IInv'
  <1> SUFFICES ASSUME IInv, [Next]_vars PROVE IInv'
    OBVIOUS
  <1>1. CASE AskForSlot \/ Wait \/ Watchdog \/ CallerCancels
    BY <1>1, WaitingIInv
  <1>2. CASE Launch
    BY <1>2, LaunchIInv
  <1>3. CASE FillRest
    BY <1>3, FillRestIInv
  <1>4. CASE LaunchedAll
    BY <1>4, LaunchedAllIInv
  <1>5. CASE Return
    BY <1>5, ReturnIInv
  <1>6. ASSUME NEW i \in Items, EndCall(i) PROVE IInv'
    BY <1>6, EndCallIInv
  <1>7. ASSUME NEW i \in Items, ObserveItem(i) PROVE IInv'
    BY <1>7, ObserveItemIInv
  <1>8. ASSUME NEW i \in Items, WriteSlot(i) PROVE IInv'
    BY <1>8, WriteSlotIInv
  <1>9. ASSUME NEW i \in Items, ReleaseItem(i) PROVE IInv'
    BY <1>9, ReleaseItemIInv
  <1>10. ASSUME NEW i \in Items, FinishItem(i) PROVE IInv'
    BY <1>10, FinishItemIInv
  <1>11. CASE UNCHANGED vars
    BY <1>11 DEF IInv, TypeOK, LimiterType, LimiterConsistent, Running,
                 LaunchInv, SlotInv, vars, limiterVars, batchVars
  <1>12. QED
    BY <1>1, <1>2, <1>3, <1>4, <1>5, <1>6, <1>7, <1>8, <1>9, <1>10, <1>11
       DEF Next

(* Every reachable state of a batch satisfies the inductive invariant.      *)
THEOREM Inductive == Spec => []IInv
  BY InitIInv, NextIInv, PTL DEF Spec

-----------------------------------------------------------------------------
(* The limit stays between one and the ceiling, the concurrency never       *)
(* exceeds the ceiling, and every variable keeps its type.                  *)
THEOREM TypeCorrect == Spec => []TypeOK
  <1>1. IInv => TypeOK
    BY DEF IInv
  <1>2. QED
    BY <1>1, Inductive, PTL

(* The limiter's count is that of the goroutines that hold a slot.          *)
THEOREM LimiterIsConsistent == Spec => []LimiterConsistent
  <1>1. IInv => LimiterConsistent
    BY DEF IInv
  <1>2. QED
    BY <1>1, Inductive, PTL

(* Every slot is filled and every goroutine done when the call returns.     *)
THEOREM BatchComplete == Spec => []CompleteOnReturn
  <1>1. IInv => CompleteOnReturn
    BY DEF IInv, SlotInv, CompleteOnReturn, TypeOK, Phase, Outcomes
  <1>2. QED
    BY <1>1, Inductive, PTL

(* No item is launched while as many run as the limit in force allows.      *)
THEOREM LaunchesWithinLimit == Spec => NoLaunchOverLimit
  <1>1. IInv /\ [Next]_vars
          => [\A i \in Items : worker[i] = "none" /\ worker'[i] = "call"
                => Cardinality(Running) < limit]_vars
    <2> SUFFICES ASSUME IInv, Next, NEW i \in Items,
                        worker[i] = "none", worker'[i] = "call"
                 PROVE  Cardinality(Running) < limit
      OBVIOUS
    <2>1. Launch
      BY DEF IInv, TypeOK, Next, AskForSlot, Wait, FillRest, LaunchedAll,
             Return, Watchdog, CallerCancels, EndCall, ObserveItem, WriteSlot,
             ReleaseItem, FinishItem, Moves, batchVars
    <2>2. QED
      BY <2>1 DEF Launch, Acquire, HasRoom, IInv, LimiterConsistent
  <1>2. QED
    BY <1>1, Inductive, PTL DEF Spec, NoLaunchOverLimit

(* A slot, once filled, keeps its result.                                   *)
THEOREM SlotsStayFinal == Spec => SlotsFinal
  <1>1. IInv /\ [Next]_vars
          => [\A i \in Items : slot[i] # "zero" => slot'[i] = slot[i]]_vars
    <2> SUFFICES ASSUME IInv, Next, NEW i \in Items, slot[i] # "zero"
                 PROVE  slot'[i] = slot[i]
      OBVIOUS
    <2>1. CASE FillRest
      BY <2>1 DEF FillRest, Rest, IInv, SlotInv, LaunchInv
    <2>2. ASSUME NEW j \in Items, WriteSlot(j) PROVE slot'[i] = slot[i]
      BY <2>2 DEF WriteSlot, Moves, IInv, SlotInv, TypeOK
    <2>3. QED
      BY <2>1, <2>2
         DEF Next, AskForSlot, Wait, Launch, LaunchedAll, Return, Watchdog,
             CallerCancels, EndCall, ObserveItem, ReleaseItem, FinishItem,
             batchVars
  <1>2. QED
    BY <1>1, Inductive, PTL DEF Spec, SlotsFinal

-----------------------------------------------------------------------------
(* A step that fills zero slots only, and does not return, is a Give or     *)
(* leaves the results as they are.                                          *)
LEMMA FillingGives ==
  ASSUME IInv, IInv', pc # "returned", pc' # "returned",
         \A i \in Items : slot[i] # "zero" => slot'[i] = slot[i]
  PROVE  Results!Give
  <1>1. slot' = [i \in Items |-> slot'[i]]
    BY DEF IInv, TypeOK
  <1>2. \A i \in Items : i \notin Results!Missing => slot'[i] = slot[i]
    BY DEF Results!Missing
  <1>3. slot' = [i \in Items |->
                   IF i \in Results!Missing THEN slot'[i] ELSE slot[i]]
    BY <1>1, <1>2
  <1>4. QED
    BY <1>3 DEF Results!Give

(* Each step of a batch gives some of the results that are missing, or ends *)
(* with none missing, or is invisible to the caller.                        *)
LEMMA StepGives ==
  ASSUME IInv, IInv', [Next]_vars,
         [\A i \in Items : slot[i] # "zero" => slot'[i] = slot[i]]_vars
  PROVE  [Results!ResultsNext]_(Results!resultsVars)
  <1>1. CASE Return
    <2>1. /\ pc = "joining" /\ pc' = "returned" /\ slot' = slot
          /\ \A i \in Items : slot'[i] # "zero"
      BY <1>1 DEF Return, IInv, SlotInv, TypeOK, Phase, Outcomes
    <2>2. Results!End
      BY <2>1 DEF Results!End, Results!Missing
    <2>3. QED
      BY <2>2 DEF Results!ResultsNext
  <1>2. CASE UNCHANGED vars
    BY <1>2 DEF vars, batchVars, Results!resultsVars
  <1>3. CASE Next /\ ~Return /\ pc # "returned"
    <2>1. pc' # "returned"
      BY <1>3 DEF Next, AskForSlot, Wait, Launch, FillRest, LaunchedAll,
                  Watchdog, CallerCancels, EndCall, ObserveItem, WriteSlot,
                  ReleaseItem, FinishItem, batchVars
    <2>2. \A i \in Items : slot[i] # "zero" => slot'[i] = slot[i]
      BY <1>3 DEF vars, batchVars
    <2>3. QED
      BY <1>3, <2>1, <2>2, FillingGives DEF Results!ResultsNext
  <1>4. CASE Next /\ pc = "returned"
    <2>1. pc' = pc /\ slot' = slot
      BY <1>4 DEF Next, AskForSlot, Wait, Launch, FillRest, LaunchedAll,
                  Return, Watchdog, CallerCancels, EndCall, ObserveItem,
                  WriteSlot, ReleaseItem, FinishItem, batchVars, IInv, SlotInv,
                  Moves, TypeOK
    <2>2. QED
      BY <2>1 DEF Results!resultsVars
  <1>5. QED
    BY <1>1, <1>2, <1>3, <1>4

(* A batch gives its caller what ItemResults promises.                      *)
THEOREM BatchGivesResults == Spec => GivesResults
  <1>1. Init => Results!ResultsInit
    BY DEF Init, Results!ResultsInit
  <1>2. IInv /\ IInv' /\ [Next]_vars
          /\ [\A i \in Items : slot[i] # "zero" => slot'[i] = slot[i]]_vars
          => [Results!ResultsNext]_(Results!resultsVars)
    BY StepGives
  <1>3. QED
    BY <1>1, <1>2, Inductive, SlotsStayFinal, PTL
       DEF Spec, SlotsFinal, GivesResults, Results!ResultsSpec
=============================================================================
