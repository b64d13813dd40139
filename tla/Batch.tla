-------------------------------- MODULE Batch -------------------------------
(***************************************************************************)
(* SystemOneBatch: one loop launches a goroutine per input through the     *)
(* adaptive limiter, every goroutine writes its own slot, and the call     *)
(* returns when all of them are done.  Cancelling the context stops the    *)
(* launches and fills the remaining slots with the context's error.        *)
(***************************************************************************)
EXTENDS AdaptiveLimiter, FiniteSets

CONSTANT N   \* inputs in the batch

ASSUME BatchAssumption == N \in Nat \ {0}

Items == 1..N

VARIABLES
    pc,       \* the launch loop: launching, joining (wg.Wait) or returned
    next,     \* the input the loop is at
    worker,   \* each item's goroutine
    outcome,  \* what SystemOne returned to it, until it is written
    slot      \* result.Items

batchVars == <<pc, next, worker, outcome, slot>>
vars == <<limiterVars, batchVars>>

Outcomes == {"ok", "throttled", "failed"}
Phase == {"none", "call", "observe", "write", "release", "wake", "done"}

(* Ranges; limit within 1..Ceiling is the floor and ceiling of the backoff. *)
TypeOK ==
    /\ LimiterType
    /\ pc \in {"launching", "joining", "returned"}
    /\ next \in 1..(N + 1)
    /\ worker \in [Items -> Phase]
    /\ outcome \in [Items -> Outcomes \cup {"unknown"}]
    /\ slot \in [Items -> Outcomes \cup {"zero", "unstarted"}]

Init ==
    /\ LimiterInit
    /\ pc = "launching"
    /\ next = 1
    /\ worker = [i \in Items |-> "none"]
    /\ outcome = [i \in Items |-> "unknown"]
    /\ slot = [i \in Items |-> "zero"]

-----------------------------------------------------------------------------
Moves(i, from, to) ==
    /\ worker[i] = from
    /\ worker' = [worker EXCEPT ![i] = to]

AskForSlot ==
    /\ pc = "launching" /\ next <= N
    /\ EnterAcquire
    /\ UNCHANGED batchVars

Wait ==
    /\ GoSlow \/ DecideToWait \/ Park
    /\ UNCHANGED batchVars

(* A slot was free: wg.Add(1) and the item's goroutine.                     *)
Launch ==
    /\ pc = "launching" /\ next <= N
    /\ Acquire
    /\ Moves(next, "none", "call")
    /\ next' = next + 1
    /\ UNCHANGED <<pc, outcome, slot>>

(* The inputs that will not be attempted.                                   *)
RestOffByOne == {i \in Items : i > next}
RestUnfilled == {i \in Items : slot[i] = "zero"}
Rest == {i \in Items : i >= next}

(* The context is done, seen by the loop or by acquire: the slots not yet   *)
(* launched get its error.                                                  *)
FillRest ==
    /\ pc = "launching" /\ next <= N
    /\ GiveUp
    /\ slot' = [i \in Items |-> IF i \in Rest THEN "unstarted" ELSE slot[i]]
    /\ pc' = "joining"
    /\ UNCHANGED <<next, worker, outcome>>

LaunchedAll ==
    /\ pc = "launching" /\ next > N
    /\ pc' = "joining"
    /\ UNCHANGED <<limiterVars, next, worker, outcome, slot>>

(* wg.Wait has seen every goroutine's Done; the counts are of the slots.    *)
Return ==
    /\ pc = "joining"
    /\ \A i \in Items : worker[i] \in {"none", "done"}
    /\ pc' = "returned"
    /\ UNCHANGED <<limiterVars, next, worker, outcome, slot>>

(* SystemOne returns to item i's goroutine.                                 *)
EndCall(i) ==
    /\ Moves(i, "call", "observe")
    /\ \E o \in Outcomes : outcome' = [outcome EXCEPT ![i] = o]
    /\ UNCHANGED <<limiterVars, pc, next, slot>>

ObserveItem(i) ==
    /\ Moves(i, "observe", "write")
    /\ Observe(outcome[i])
    /\ UNCHANGED <<pc, next, outcome, slot>>

WriteSlot(i) ==
    /\ Moves(i, "write", "release")
    /\ slot' = [slot EXCEPT ![i] = outcome[i]]
    /\ outcome' = [outcome EXCEPT ![i] = "unknown"]
    /\ UNCHANGED <<limiterVars, pc, next>>

(* The deferred release, its broadcast and the deferred wg.Done.            *)
ReleaseItem(i) ==
    /\ Moves(i, "release", "wake")
    /\ Release
    /\ UNCHANGED <<pc, next, outcome, slot>>

FinishItem(i) ==
    /\ Moves(i, "wake", "done")
    /\ ReleaseBroadcast
    /\ UNCHANGED <<pc, next, outcome, slot>>

Watchdog == (WatchdogFires \/ WatchdogLeaves) /\ UNCHANGED batchVars

CallerCancels == ~cancelled /\ Cancel /\ UNCHANGED batchVars

Launcher == AskForSlot \/ Wait \/ Launch \/ FillRest \/ LaunchedAll \/ Return
Bookkeeping(i) ==
    ObserveItem(i) \/ WriteSlot(i) \/ ReleaseItem(i) \/ FinishItem(i)

Next ==
    \/ AskForSlot \/ Wait \/ Launch \/ FillRest \/ LaunchedAll \/ Return
    \/ Watchdog
    \/ CallerCancels
    \/ \E i \in Items :
          \/ EndCall(i) \/ ObserveItem(i) \/ WriteSlot(i)
          \/ ReleaseItem(i) \/ FinishItem(i)

Spec == Init /\ [][Next]_vars

(* Goroutines that can run do run; HTTP calls may hang.                     *)
SchedulerFairness ==
    /\ WF_vars(Launcher)
    /\ WF_vars(Watchdog)
    /\ \A i \in Items : WF_vars(Bookkeeping(i))

HangingCallsSpec == Spec /\ SchedulerFairness

(* Calls also end: the HTTP client has a timeout.                           *)
FairSpec == HangingCallsSpec /\ \A i \in Items : WF_vars(EndCall(i))

-----------------------------------------------------------------------------
Running == {i \in Items : worker[i] \in {"call", "observe", "write", "release"}}

(* The limiter's count is the number of goroutines holding a slot, the      *)
(* floor and the ceiling hold, and progress toward recovery never reaches   *)
(* the point where it should have been spent.                               *)
LimiterConsistent ==
    /\ inFlight = Cardinality(Running)
    /\ inFlight <= peak
    /\ low <= limit
    /\ successes < 2 * limit
    /\ limit = Ceiling => successes = 0

(* No item is launched beyond the limit in force, however the limit shrinks *)
(* and grows while acquire waits.                                           *)
NoLaunchOverLimit ==
    [][\A i \in Items : worker[i] = "none" /\ worker'[i] = "call"
        => Cardinality(Running) < limit]_vars

(* The call returns with every goroutine finished and every slot filled;    *)
(* an item was left unstarted only because the context was done.            *)
CompleteOnReturn ==
    pc = "returned" => \A i \in Items :
        /\ worker[i] \in {"none", "done"}
        /\ slot[i] # "zero"
        /\ slot[i] = "unstarted" <=> worker[i] = "none"
        /\ slot[i] = "unstarted" => cancelled

(* A filled slot is final: the cancellation sweep and the workers never     *)
(* write the same slot.                                                     *)
SlotsFinal ==
    [][\A i \in Items : slot[i] # "zero" => slot'[i] = slot[i]]_vars

(* What the caller sees is the promise of every batch: the slots are the    *)
(* results, and the call never ends with one missing or changes one.        *)
Results == INSTANCE ItemResults
    WITH Items <- Items, Nothing <- "zero", result <- slot,
         phase <- IF pc = "returned" THEN "over" ELSE "open"
GivesResults == Results!ResultsSpec

(* Every batch returns, cancelled or not, throttled to the floor or not.    *)
Returns == <>(pc = "returned")

(* What the comment in acquire says of the watchdog: a cancelled context    *)
(* does not leave the waiter parked.                                        *)
WatchdogWakesWaiter == acq = "parked" /\ cancelled ~> acq # "parked"
=============================================================================
