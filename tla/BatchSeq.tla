------------------------------- MODULE BatchSeq -----------------------------
(***************************************************************************)
(* SystemOneBatchSeq: a dispatcher goroutine launches workers through the  *)
(* adaptive limiter, workers and dispatcher send into one buffered         *)
(* channel, and the caller ranges over it.  A break closes stopped,        *)
(* cancels the context and drains the channel before the call returns.     *)
(***************************************************************************)
EXTENDS AdaptiveLimiter, Sequences, FiniteSets

CONSTANT N   \* inputs in the batch

ASSUME BatchSeqAssumption == N \in Nat \ {0}

Items == 1..N

VARIABLES
    dispatcher,  \* launching, filling, joining or closed
    next,        \* the input the dispatcher is at, or its fill loop's j
    worker,      \* each item's goroutine
    results,     \* the channel's buffer, which holds Ceiling results
    consumer,    \* ranging, broke, stopping, draining or returned
    stopped,     \* whether the channel stopped is closed
    yielded      \* how often each index was handed to the loop body

streamVars ==
    <<dispatcher, next, worker, results, consumer, stopped, yielded>>
vars == <<limiterVars, streamVars>>

Outcomes == {"ok", "throttled", "failed"}
Phase == {"none", "call", "send", "release", "wake", "done"}

(* Ranges, among them the limit's and the capacity of the channel.          *)
TypeOK ==
    /\ LimiterType
    /\ dispatcher \in {"launching", "filling", "joining", "closed"}
    /\ next \in 1..(N + 1)
    /\ worker \in [Items -> Phase]
    /\ results \in Seq(Items) /\ Len(results) <= Ceiling
    /\ consumer \in {"ranging", "broke", "stopping", "draining", "returned"}
    /\ stopped \in BOOLEAN
    /\ yielded \in [Items -> Nat]

Init ==
    /\ LimiterInit
    /\ dispatcher = "launching"
    /\ next = 1
    /\ worker = [i \in Items |-> "none"]
    /\ results = <<>>
    /\ consumer = "ranging"
    /\ stopped = FALSE
    /\ yielded = [i \in Items |-> 0]

-----------------------------------------------------------------------------
Moves(i, from, to) ==
    /\ worker[i] = from
    /\ worker' = [worker EXCEPT ![i] = to]

(* The channel is made with room for one result per unit of concurrency.    *)
BufferPerInput == N
Buffer == Ceiling

(* A send into the buffered channel.                                        *)
Send(i) ==
    /\ Len(results) < Buffer
    /\ results' = Append(results, i)

(* The other case of the selects around a send: the range loop was left.    *)
NobodyListensOnCancel == cancelled
NobodyListens == stopped

AskForSlot ==
    /\ dispatcher = "launching" /\ next <= N
    /\ EnterAcquire
    /\ UNCHANGED streamVars

Wait ==
    /\ GoSlow \/ DecideToWait \/ Park
    /\ UNCHANGED streamVars

Launch ==
    /\ dispatcher = "launching" /\ next <= N
    /\ Acquire
    /\ Moves(next, "none", "call")
    /\ next' = next + 1
    /\ UNCHANGED <<dispatcher, results, consumer, stopped, yielded>>

(* The context is done: report the inputs that will not be attempted.       *)
StartFill ==
    /\ dispatcher = "launching" /\ next <= N
    /\ GiveUp
    /\ dispatcher' = "filling"
    /\ UNCHANGED <<next, worker, results, consumer, stopped, yielded>>

FillOne ==
    /\ dispatcher = "filling" /\ next <= N
    /\ Send(next)
    /\ next' = next + 1
    /\ UNCHANGED <<limiterVars, dispatcher, worker, consumer, stopped,
                   yielded>>

(* The launch loop or the fill loop ends, or nobody listens any more.       *)
StartJoin ==
    /\ \/ dispatcher \in {"launching", "filling"} /\ next > N
       \/ dispatcher = "filling" /\ NobodyListens
    /\ dispatcher' = "joining"
    /\ UNCHANGED <<limiterVars, next, worker, results, consumer,
                   stopped, yielded>>

(* wg.Wait returns.                                                         *)
SomeMaySend == \A i \in Items : worker[i] # "call"
AllDone == \A i \in Items : worker[i] \in {"none", "done"}

(* wg.Wait, then close(results).                                            *)
CloseResults ==
    /\ dispatcher = "joining"
    /\ AllDone
    /\ dispatcher' = "closed"
    /\ UNCHANGED <<limiterVars, next, worker, results, consumer,
                   stopped, yielded>>

(* SystemOne returns, and its outcome is fed to the limiter.                *)
EndCall(i) ==
    /\ Moves(i, "call", "send")
    /\ \E outcome \in Outcomes : Observe(outcome)
    /\ UNCHANGED <<dispatcher, next, results, consumer, stopped, yielded>>

(* The worker's select: its result goes out, or the consumer has stopped.   *)
SendItem(i) ==
    /\ Moves(i, "send", "release")
    /\ \/ Send(i)
       \/ NobodyListens /\ UNCHANGED results
    /\ UNCHANGED <<limiterVars, dispatcher, next, consumer, stopped,
                   yielded>>

ReleaseItem(i) ==
    /\ Moves(i, "release", "wake")
    /\ Release
    /\ UNCHANGED <<dispatcher, next, results, consumer, stopped,
                   yielded>>

FinishItem(i) ==
    /\ Moves(i, "wake", "done")
    /\ ReleaseBroadcast
    /\ UNCHANGED <<dispatcher, next, results, consumer, stopped,
                   yielded>>

(* The range loop receives and runs its body, which goes on or breaks.      *)
Yield ==
    /\ consumer = "ranging"
    /\ results # <<>>
    /\ yielded' = [yielded EXCEPT ![Head(results)] = @ + 1]
    /\ results' = Tail(results)
    /\ consumer' \in {"ranging", "broke"}
    /\ UNCHANGED <<limiterVars, dispatcher, next, worker, stopped>>

Stop ==
    /\ consumer = "broke"
    /\ stopped' = TRUE
    /\ consumer' = "stopping"
    /\ UNCHANGED <<limiterVars, dispatcher, next, worker, results,
                   yielded>>

CancelAfterStop ==
    /\ consumer = "stopping"
    /\ Cancel
    /\ consumer' = "draining"
    /\ UNCHANGED <<dispatcher, next, worker, results, stopped, yielded>>

Drain ==
    /\ consumer = "draining"
    /\ results # <<>>
    /\ results' = Tail(results)
    /\ UNCHANGED <<limiterVars, dispatcher, next, worker, consumer,
                   stopped, yielded>>

(* The range over the channel ends: it is closed, and empty.                *)
RangeEndsWhenEmpty == results = <<>>
RangeEnds == dispatcher = "closed" /\ results = <<>>

(* The deferred cancel, and the return.                                     *)
Return ==
    /\ consumer \in {"ranging", "draining"}
    /\ RangeEnds
    /\ consumer' = "returned"
    /\ Cancel
    /\ UNCHANGED <<dispatcher, next, worker, results, stopped, yielded>>

Watchdog == (WatchdogFires \/ WatchdogLeaves) /\ UNCHANGED streamVars

CallerCancels ==
    /\ ~cancelled /\ consumer # "returned"
    /\ Cancel
    /\ UNCHANGED streamVars

Dispatcher ==
    AskForSlot \/ Wait \/ Launch \/ StartFill \/ FillOne \/ StartJoin
        \/ CloseResults
Consumer == Yield \/ Stop \/ CancelAfterStop \/ Drain \/ Return
Worker(i) ==
    EndCall(i) \/ SendItem(i) \/ ReleaseItem(i) \/ FinishItem(i)

Next ==
    \/ AskForSlot \/ Wait \/ Launch \/ StartFill \/ FillOne \/ StartJoin
    \/ CloseResults
    \/ Yield \/ Stop \/ CancelAfterStop \/ Drain \/ Return
    \/ Watchdog
    \/ CallerCancels
    \/ \E i \in Items :
          \/ EndCall(i) \/ SendItem(i)
          \/ ReleaseItem(i) \/ FinishItem(i)

Spec == Init /\ [][Next]_vars

(* Whenever some goroutine can run, one does: calls end, and the loop body   *)
(* returns to the range.  No order among them, nor any cancellation by the   *)
(* caller, is assumed.                                                      *)
Runs == Dispatcher \/ Watchdog \/ Consumer \/ \E i \in Items : Worker(i)
FairSpec == Spec /\ WF_vars(Runs)

-----------------------------------------------------------------------------
(* Neither the dispatcher nor a worker outlives the call, nor a slot of the *)
(* limiter, wherever the loop was left.                                     *)
NothingOutlives ==
    consumer = "returned" =>
        /\ dispatcher = "closed"
        /\ inFlight = 0
        /\ \A i \in Items : worker[i] \in {"none", "done"}

(* What the comment of SystemOneBatchSeq says: every goroutine exits before *)
(* the loop returns.  A watchdog is only told to.                           *)
EveryGoroutineExits ==
    consumer = "returned" =>
        /\ dispatcher = "closed"
        /\ leaving = 0
        /\ \A i \in Items : worker[i] \in {"none", "done"}

(* Nobody can still be about to send once the channel is closed, which      *)
(* would panic.                                                             *)
NoSendAfterClose ==
    dispatcher = "closed" =>
        \A i \in Items : worker[i] \notin {"call", "send"}

(* What the loop body sees is the promise of every batch, with a yield as   *)
(* the giving of a result and a break as leaving early.                     *)
Results == INSTANCE ItemResults
    WITH Items <- Items, Nothing <- 0, result <- yielded,
         phase <- CASE consumer = "ranging" -> "open"
                    [] consumer = "returned" -> "over"
                    [] OTHER -> "left"
GivesResults == Results!ResultsSpec

Yielded == {i \in Items : yielded[i] > 0}
Launched == {i \in Items : worker[i] # "none"}

(* The stream runs ahead of its reader by no more than a full buffer and    *)
(* the slots in use, of which there are at most Ceiling, so a slow loop     *)
(* body bounds what is held in memory.  When the limit shrinks, so does     *)
(* this lead, as those above the limit finish.                              *)
BoundedAhead ==
    ~stopped => Cardinality(Launched) <= Cardinality(Yielded) + Ceiling + inFlight

(* Every loop ends, broken out of or not, and then the last goroutine it     *)
(* started: no send, receive or acquire waits for ever.                     *)
LoopEnds == <>[](consumer = "returned" /\ leaving = 0)
=============================================================================
