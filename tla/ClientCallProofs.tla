-------------------------- MODULE ClientCallProofs --------------------------
(***************************************************************************)
(* Proofs about ClientCall, for every set of calls, retry policy, delays   *)
(* and breaker.                                                            *)
(***************************************************************************)
EXTENDS ClientCall, TLAPS

(* A call at the gate or asleep has an attempt left.                        *)
AttemptLeft(r) ==
    /\ r.pc = "idle" => r.made = 0
    /\ r.pc \in {"gate", "sleeping"} => r.made <= MaxRetries

(* What the server asked for is covered by the sleep, and is over when the  *)
(* call may attempt again.                                                  *)
AskedCovered(r) ==
    /\ r.pc \in {"idle", "gate", "exchange"} => r.asked = 0
    /\ r.pc = "sleeping" => r.asked <= r.wait

(* A sleep ends before the budget does.                                     *)
SleepFits(r) ==
    Timeout > 0 /\ r.pc = "sleeping" /\ r.wait > 0 => r.wait < r.left

(* The breaker's rejection alone is reported for no attempt.                *)
CauseKept(r) == r.pc = "done" /\ r.made > 0 => r.result # "rejected"

Good(r) == AttemptLeft(r) /\ AskedCovered(r) /\ SleepFits(r) /\ CauseKept(r)

IInv == TypeOK /\ \A c \in Calls : Good(call[c])

-----------------------------------------------------------------------------
(* The methods of the breaker keep its fields in their ranges.              *)
LEMMA BreakerTypes ==
  ASSUME BreakerType,
         \/ Admit \/ RecordSuccess \/ RecordNeutral \/ RecordFailure
         \/ ReadState \/ BreakerTick \/ UNCHANGED breakerVars
  PROVE  BreakerType'
  <1> USE BreakerAssumption DEF BreakerType, CircuitState
  <1>1. CASE Admit \/ ReadState
    BY <1>1 DEF Admit, ReadState, SlotFree, Live, LiveProbes, LiveSuccess,
                Expired
  <1>2. CASE RecordSuccess
    BY <1>2 DEF RecordSuccess, LastSuccess
  <1>3. CASE RecordFailure
    BY <1>3 DEF RecordFailure, Trips, StampOpened
  <1>4. CASE RecordNeutral \/ UNCHANGED breakerVars
    BY <1>4 DEF RecordNeutral, breakerVars
  <1>5. CASE BreakerTick
    BY <1>5 DEF BreakerTick
  <1>6. QED
    BY <1>1, <1>2, <1>3, <1>4, <1>5

LEMMA InitIInv == Init => IInv
  <1> SUFFICES ASSUME Init PROVE IInv
    OBVIOUS
  <1> USE BreakerAssumption, CallAssumption DEF Init, BreakerInit
  <1>1. TypeOK
    BY DEF TypeOK, CallState, BreakerType, CircuitState, Results
  <1>2. \A c \in Calls : Good(call[c])
    BY DEF Good, AttemptLeft, AskedCovered, SleepFits, CauseKept
  <1>3. QED
    BY <1>1, <1>2 DEF IInv

(* One call moves to a good state and the others stay where they are.       *)
LEMMA OneMoves ==
  ASSUME IInv, BreakerType', NEW c \in Calls, NEW r \in CallState, Good(r),
         call' = [call EXCEPT ![c] = r]
  PROVE  IInv'
  <1>1. call' \in [Calls -> CallState]
    BY DEF IInv, TypeOK
  <1>2. \A d \in Calls : Good(call'[d])
    BY DEF IInv, TypeOK
  <1>3. QED
    BY <1>1, <1>2 DEF IInv, TypeOK

(* A call that ends has a result, which is the breaker's rejection alone    *)
(* only when it made no attempt.                                            *)
LEMMA FinishIInv ==
  ASSUME IInv, BreakerType', NEW c \in Calls, NEW result \in Results,
         Finish(c, result),
         result = "rejected" => call[c].made = 0
  PROVE  IInv'
  <1> DEFINE r == [call[c] EXCEPT !.pc = "done", !.result = result]
  <1>1. call[c] \in CallState
    BY DEF IInv, TypeOK
  <1>2. r \in CallState
    BY <1>1 DEF CallState
  <1>3. Good(r)
    BY <1>1 DEF Good, AttemptLeft, AskedCovered, SleepFits, CauseKept,
                CallState
  <1>4. call' = [call EXCEPT ![c] = r]
    BY DEF Finish, IInv, TypeOK
  <1> HIDE DEF r
  <1>5. QED
    BY <1>2, <1>3, <1>4, OneMoves

-----------------------------------------------------------------------------
(* Before the first attempt, and at the gate.                               *)
LEMMA StartIInv ==
  ASSUME IInv, NEW c \in Calls, Start(c)
  PROVE  IInv'
  <1> DEFINE r == [call[c] EXCEPT !.pc = "gate"]
  <1>1. call[c] \in CallState /\ call[c].pc = "idle" /\ Good(call[c])
    BY DEF IInv, TypeOK, Start, At
  <1>2. BreakerType'
    BY BreakerTypes DEF Start, IInv, TypeOK
  <1>3. CASE Finish(c, "refused")
    BY <1>2, <1>3, FinishIInv DEF Results
  <1>4. CASE call' = [call EXCEPT ![c].pc = "gate"]
    <2>1. call' = [call EXCEPT ![c] = r]
      BY <1>4 DEF IInv, TypeOK
    <2>2. r \in CallState /\ Good(r)
      BY <1>1, CallAssumption
         DEF CallState, Good, AttemptLeft, AskedCovered, SleepFits, CauseKept
    <2> HIDE DEF r
    <2>3. QED
      BY <1>2, <2>1, <2>2, OneMoves
  <1>5. QED
    BY <1>3, <1>4 DEF Start

LEMMA AttemptIInv ==
  ASSUME IInv, NEW c \in Calls, Attempt(c)
  PROVE  IInv'
  <1> DEFINE r == [call[c] EXCEPT !.pc = "exchange", !.made = @ + 1]
  <1>1. call[c] \in CallState /\ call[c].pc = "gate" /\ Good(call[c])
    BY DEF IInv, TypeOK, Attempt, At
  <1>2. BreakerType'
    BY BreakerTypes DEF Attempt, IInv, TypeOK
  <1>3. call' = [call EXCEPT ![c] = r]
    BY DEF Attempt, IInv, TypeOK
  <1>4. call[c].made + 1 \in 0..(MaxRetries + 1)
    <2>1. call[c].made \in 0..(MaxRetries + 1) /\ call[c].made <= MaxRetries
      BY <1>1 DEF CallState, Good, AttemptLeft
    <2>2. QED
      BY <2>1, CallAssumption
  <1>5. r \in CallState
    BY <1>1, <1>4 DEF CallState
  <1>6. r.pc = "exchange" /\ r.asked = call[c].asked
    BY <1>1 DEF CallState
  <1>7. Good(r)
    BY <1>1, <1>6
       DEF Good, AttemptLeft, AskedCovered, SleepFits, CauseKept
  <1> HIDE DEF r
  <1>8. QED
    BY <1>2, <1>3, <1>5, <1>7, OneMoves

LEMMA RejectedIInv ==
  ASSUME IInv, NEW c \in Calls, Rejected(c)
  PROVE  IInv'
  <1>1. BreakerType'
    BY BreakerTypes DEF Rejected, IInv, TypeOK
  <1>2. /\ Rejection(c) \in Results
        /\ Rejection(c) = "rejected" => call[c].made = 0
    <2>1. call[c] \in CallState
      BY DEF IInv, TypeOK
    <2>2. call[c].made \in Nat
      BY <2>1, CallAssumption DEF CallState
    <2>3. QED
      BY <2>2 DEF Rejection, Results
  <1>3. QED
    BY <1>1, <1>2, FinishIInv DEF Rejected

(* The ends of an exchange that end the call.                               *)
LEMMA ExchangeEndsIInv ==
  ASSUME IInv, NEW c \in Calls, Succeeds(c) \/ EndForGood(c)
  PROVE  IInv'
  <1>1. BreakerType'
    BY BreakerTypes DEF Succeeds, EndForGood, IInv, TypeOK
  <1>2. PICK result \in Results : Finish(c, result) /\ result # "rejected"
    BY DEF Succeeds, EndForGood, Verdict, Results
  <1>3. QED
    BY <1>1, <1>2, FinishIInv

(* A retryable end: the call gives up, sleeps within its budget for what    *)
(* the server asked or longer, or goes on at once.                          *)
LEMMA EndRetryableIInv ==
  ASSUME IInv, NEW c \in Calls, NEW asked \in RetryAfters \cup {0},
         EndRetryable(c, asked)
  PROVE  IInv'
  <1>1. BreakerType'
    BY BreakerTypes DEF EndRetryable, IInv, TypeOK
  <1>2. call[c] \in CallState /\ call[c].pc = "exchange"
    BY DEF IInv, TypeOK, EndRetryable, At
  <1>3. PICK delay \in DelayChoices(asked) :
           \/ Finish(c, Verdict(c))
           \/ ~OutOfRetries(c) /\ ~PastBudget(c, delay) /\ Sleep(c, delay, asked)
    BY DEF EndRetryable
  <1>4. delay \in Nat /\ asked \in Nat /\ asked <= delay
    BY CallAssumption DEF DelayChoices
  <1>5. CASE Finish(c, Verdict(c))
    BY <1>1, <1>5, FinishIInv DEF Verdict, Results
  <1>6. CASE Finish(c, "exhausted")
    BY <1>1, <1>6, FinishIInv DEF Results
  <1>7. ASSUME ~OutOfRetries(c), ~PastBudget(c, delay), delay > 0,
               call' = [call EXCEPT ![c].pc = "sleeping", ![c].wait = delay,
                                    ![c].asked = asked]
        PROVE  IInv'
    <2> DEFINE r == [call[c] EXCEPT !.pc = "sleeping", !.wait = delay,
                                    !.asked = asked]
    <2>1. call' = [call EXCEPT ![c] = r]
      BY <1>7 DEF IInv, TypeOK
    <2>2. r \in CallState
      BY <1>2, <1>4 DEF CallState
    <2>3. Good(r)
      BY <1>2, <1>4, <1>7, CallAssumption
         DEF CallState, Good, AttemptLeft, AskedCovered, SleepFits, CauseKept,
             OutOfRetries, PastBudget
    <2> HIDE DEF r
    <2>4. QED
      BY <1>1, <2>1, <2>2, <2>3, OneMoves
  <1>8. ASSUME ~OutOfRetries(c), delay = 0,
               call' = [call EXCEPT ![c].pc = "gate", ![c].retried = TRUE,
                                    ![c].asked = asked]
        PROVE  IInv'
    <2> DEFINE r == [call[c] EXCEPT !.pc = "gate", !.retried = TRUE,
                                    !.asked = asked]
    <2>1. call' = [call EXCEPT ![c] = r]
      BY <1>8 DEF IInv, TypeOK
    <2>2. r \in CallState
      BY <1>2, <1>4 DEF CallState
    <2>3. Good(r)
      BY <1>2, <1>4, <1>8, CallAssumption
         DEF CallState, Good, AttemptLeft, AskedCovered, SleepFits, CauseKept,
             OutOfRetries
    <2> HIDE DEF r
    <2>4. QED
      BY <1>1, <2>1, <2>2, <2>3, OneMoves
  <1>9. QED
    BY <1>3, <1>5, <1>6, <1>7, <1>8 DEF Sleep

-----------------------------------------------------------------------------
LEMMA WakeIInv ==
  ASSUME IInv, NEW c \in Calls, Wake(c)
  PROVE  IInv'
  <1> DEFINE r == [call[c] EXCEPT !.pc = "gate", !.retried = TRUE]
  <1>1. /\ call[c] \in CallState /\ Good(call[c])
        /\ call[c].pc = "sleeping" /\ call[c].wait = 0
    BY DEF IInv, TypeOK, Wake, At
  <1>2. BreakerType'
    BY BreakerTypes DEF Wake, IInv, TypeOK
  <1>3. call' = [call EXCEPT ![c] = r]
    BY DEF Wake, IInv, TypeOK
  <1>4. r \in CallState
    BY <1>1 DEF CallState
  <1>5. /\ r.pc = "gate" /\ r.made = call[c].made
        /\ r.asked = call[c].asked /\ call[c].asked \in Nat
    BY <1>1 DEF CallState
  <1>6. Good(r)
    BY <1>1, <1>5
       DEF Good, AttemptLeft, AskedCovered, SleepFits, CauseKept
  <1> HIDE DEF r
  <1>7. QED
    BY <1>2, <1>3, <1>4, <1>6, OneMoves

LEMMA SleepCutIInv ==
  ASSUME IInv, NEW c \in Calls, SleepCut(c)
  PROVE  IInv'
  <1>1. BreakerType'
    BY BreakerTypes DEF SleepCut, IInv, TypeOK
  <1>2. QED
    BY <1>1, FinishIInv DEF SleepCut, Results

(* A context that ends changes nothing else of the call.                    *)
LEMMA ContextIInv ==
  ASSUME IInv, NEW c \in Calls, CallerGivesUp(c) \/ Deadline(c)
  PROVE  IInv'
  <1>1. BreakerType'
    BY BreakerTypes DEF CallerGivesUp, Deadline, IInv, TypeOK
  <1>2. PICK why \in {"cancelled", "expired"} :
           call' = [call EXCEPT ![c].ctx = why]
    BY DEF CallerGivesUp, Deadline
  <1> DEFINE r == [call[c] EXCEPT !.ctx = why]
  <1>3. call[c] \in CallState /\ Good(call[c])
    BY DEF IInv, TypeOK
  <1>4. call' = [call EXCEPT ![c] = r]
    BY <1>2 DEF IInv, TypeOK
  <1>5. r \in CallState /\ Good(r)
    BY <1>3
       DEF CallState, Good, AttemptLeft, AskedCovered, SleepFits, CauseKept
  <1> HIDE DEF r
  <1>6. QED
    BY <1>1, <1>4, <1>5, OneMoves

(* Budget, sleep and the server's delay run down together.                  *)
LEMMA TickIInv ==
  ASSUME IInv, Tick
  PROVE  IInv'
  <1>1. BreakerType'
    BY BreakerTypes DEF Tick, IInv, TypeOK
  <1>2. ASSUME NEW c \in Calls
        PROVE  call'[c] \in CallState /\ Good(call'[c])
    <2> DEFINE r == [call[c] EXCEPT !.left = Less(@), !.wait = Less(@),
                                    !.asked = Less(@)]
    <2>1. call[c] \in CallState /\ Good(call[c])
      BY DEF IInv, TypeOK
    <2>2. call'[c] = IF call[c].pc \in {"idle", "done"} THEN call[c] ELSE r
      BY DEF Tick
    <2>3. /\ call[c].left \in 0..Timeout
          /\ call[c].wait \in Nat /\ call[c].asked \in Nat
      BY <2>1 DEF CallState
    <2>4. /\ Less(call[c].left) \in 0..Timeout
          /\ Less(call[c].wait) \in Nat /\ Less(call[c].asked) \in Nat
      BY <2>3, CallAssumption DEF Less
    <2>5. r \in CallState
      BY <2>1, <2>4 DEF CallState
    <2>6. /\ r.pc = call[c].pc /\ r.made = call[c].made
          /\ r.result = call[c].result /\ r.left = Less(call[c].left)
          /\ r.wait = Less(call[c].wait) /\ r.asked = Less(call[c].asked)
      BY <2>1 DEF CallState
    <2> HIDE DEF r
    <2>7. AttemptLeft(r) /\ CauseKept(r)
      BY <2>1, <2>6 DEF Good, AttemptLeft, CauseKept
    <2>8. AskedCovered(r)
      BY <2>1, <2>3, <2>6 DEF Good, AskedCovered, Less
    <2>9. SleepFits(r)
      BY <2>1, <2>3, <2>6, CallAssumption DEF Good, SleepFits, Less
    <2>10. QED
      BY <2>1, <2>2, <2>5, <2>7, <2>8, <2>9 DEF Good
  <1>3. DOMAIN call' = Calls /\ call' = [c \in Calls |-> call'[c]]
    BY DEF Tick
  <1>4. call' \in [Calls -> CallState]
    BY <1>2, <1>3
  <1>5. QED
    BY <1>1, <1>2, <1>4 DEF IInv, TypeOK

(* The invariant is inductive.                                              *)
LEMMA NextIInv == IInv /\ [Next]_vars => IInv'
  <1> SUFFICES ASSUME IInv, [Next]_vars PROVE IInv'
    OBVIOUS
  <1>1. ASSUME NEW c \in Calls, Start(c) \/ Attempt(c) \/ Rejected(c)
        PROVE  IInv'
    BY <1>1, StartIInv, AttemptIInv, RejectedIInv
  <1>2. ASSUME NEW c \in Calls, Succeeds(c) \/ EndForGood(c)
        PROVE  IInv'
    BY <1>2, ExchangeEndsIInv
  <1>3. ASSUME NEW c \in Calls, NEW asked \in RetryAfters \cup {0},
               EndRetryable(c, asked)
        PROVE  IInv'
    BY <1>3, EndRetryableIInv
  <1>4. ASSUME NEW c \in Calls, Fails(c) \/ Interrupted(c)
        PROVE  IInv'
    BY <1>2, <1>3, <1>4 DEF Fails, Interrupted
  <1>5. ASSUME NEW c \in Calls, Wake(c) \/ SleepCut(c)
        PROVE  IInv'
    BY <1>5, WakeIInv, SleepCutIInv
  <1>6. ASSUME NEW c \in Calls, CallerGivesUp(c) \/ Deadline(c)
        PROVE  IInv'
    BY <1>6, ContextIInv
  <1>7. CASE Tick
    BY <1>7, TickIInv
  <1>8. CASE Inspect \/ UNCHANGED vars
    <2>1. BreakerType' /\ UNCHANGED call
      BY <1>8, BreakerTypes DEF Inspect, vars, IInv, TypeOK
    <2>2. QED
      BY <2>1 DEF IInv, TypeOK
  <1>9. QED
    BY <1>1, <1>2, <1>4, <1>5, <1>6, <1>7, <1>8 DEF Next

(* Every reachable state of the retry loop satisfies the invariant.         *)
THEOREM Inductive == Spec => []IInv
  BY InitIInv, NextIInv, PTL DEF Spec

-----------------------------------------------------------------------------
(* Every field keeps its range; in particular no call makes more attempts   *)
(* than one and the retries its policy grants.                              *)
THEOREM TypeCorrect == Spec => []TypeOK
  <1>1. IInv => TypeOK
    BY DEF IInv
  <1>2. QED
    BY <1>1, Inductive, PTL

(* No backoff outlasts the budget that is left when it begins.              *)
THEOREM BackoffsFitTheBudget == Spec => []BackoffFitsBudget
  <1>1. IInv => BackoffFitsBudget
    BY DEF IInv, Good, SleepFits, BackoffFitsBudget, At
  <1>2. QED
    BY <1>1, Inductive, PTL

(* A call that reached the service never reports the breaker alone.         *)
THEOREM CausesAreReported == Spec => []CauseReported
  <1>1. IInv => CauseReported
    BY DEF IInv, Good, CauseKept, CauseReported, At
  <1>2. QED
    BY <1>1, Inductive, PTL

(* A step that is not an attempt of the call leaves its count alone.        *)
LEMMA OnlyAttemptsCount ==
  ASSUME TypeOK, Next, NEW c \in Calls, ~Attempt(c)
  PROVE  call'[c].made = call[c].made
  <1> USE DEF TypeOK, CallState
  <1>1. ASSUME NEW d \in Calls, NEW result, Finish(d, result)
        PROVE  call'[c].made = call[c].made
    BY <1>1 DEF Finish
  <1>2. ASSUME NEW d \in Calls, Start(d) \/ Rejected(d) \/ Succeeds(d)
        PROVE  call'[c].made = call[c].made
    BY <1>1, <1>2 DEF Start, Rejected, Succeeds
  <1>3. ASSUME NEW d \in Calls, Attempt(d)
        PROVE  call'[c].made = call[c].made
    BY <1>3 DEF Attempt
  <1>4. ASSUME NEW d \in Calls, EndForGood(d)
        PROVE  call'[c].made = call[c].made
    BY <1>1, <1>4 DEF EndForGood
  <1>5. ASSUME NEW d \in Calls, NEW delay, NEW asked, Sleep(d, delay, asked)
        PROVE  call'[c].made = call[c].made
    BY <1>1, <1>5 DEF Sleep
  <1>6. ASSUME NEW d \in Calls, NEW asked, EndRetryable(d, asked)
        PROVE  call'[c].made = call[c].made
    BY <1>1, <1>5, <1>6 DEF EndRetryable
  <1>7. ASSUME NEW d \in Calls, Fails(d) \/ Interrupted(d)
        PROVE  call'[c].made = call[c].made
    BY <1>4, <1>6, <1>7 DEF Fails, Interrupted
  <1>8. ASSUME NEW d \in Calls,
               Wake(d) \/ SleepCut(d) \/ CallerGivesUp(d) \/ Deadline(d)
        PROVE  call'[c].made = call[c].made
    <2>1. CASE Wake(d)
      BY <2>1 DEF Wake
    <2>2. CASE SleepCut(d)
      BY <1>1, <2>2 DEF SleepCut
    <2>3. CASE CallerGivesUp(d) \/ Deadline(d)
      <3>1. PICK why \in {"cancelled", "expired"} :
               call' = [call EXCEPT ![d].ctx = why]
        BY <2>3 DEF CallerGivesUp, Deadline
      <3>2. QED
        BY <3>1
    <2>4. QED
      BY <1>8, <2>1, <2>2, <2>3
  <1>9. CASE Inspect
    BY <1>9 DEF Inspect
  <1>10. CASE Tick
    BY <1>10 DEF Tick
  <1>11. QED
    BY <1>2, <1>3, <1>7, <1>8, <1>9, <1>10 DEF Next

(* Only an attempt raises made, and only after the server's delay.          *)
THEOREM RetryAftersAreHonored == Spec => RetryAfterHonored
  <1>1. IInv /\ [Next]_vars
          => [\A c \in Calls : call'[c].made > call[c].made
                                  => call[c].asked = 0]_vars
    <2> SUFFICES ASSUME IInv, Next, NEW c \in Calls,
                        call'[c].made > call[c].made
                 PROVE  call[c].asked = 0
      OBVIOUS
    <2>1. call[c] \in CallState /\ Good(call[c]) /\ TypeOK
      BY DEF IInv, TypeOK
    <2>2. call[c].made \in Nat
      BY <2>1, CallAssumption DEF CallState
    <2>3. call'[c].made # call[c].made
      BY <2>2
    <2>4. Attempt(c)
      BY <2>1, <2>3, OnlyAttemptsCount
    <2>5. QED
      BY <2>1, <2>4 DEF Attempt, At, Good, AskedCovered
  <1>2. QED
    BY <1>1, Inductive, PTL DEF Spec, RetryAfterHonored
=============================================================================
