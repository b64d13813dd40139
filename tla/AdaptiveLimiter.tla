--------------------------- MODULE AdaptiveLimiter --------------------------
(***************************************************************************)
(* adaptiveLimiter of batch.go: the concurrency limit one batch shares,    *)
(* the wait for a slot with its condition variable and its watchdog, and   *)
(* the backoff and recovery that the outcomes of items drive.              *)
(*                                                                         *)
(* A batch has one goroutine that acquires, so acq is its position inside  *)
(* acquire.  The mutex is free between actions except while acq is         *)
(* "waiting": acquire has then tested the limit and the context, still     *)
(* holds the mutex and has not yet entered cond.Wait.  The watchdog and    *)
(* release broadcast without the mutex, so they can run in that gap.       *)
(***************************************************************************)
EXTENDS Integers

CONSTANTS
    Ceiling,   \* the configured concurrency
    Adaptive   \* whether outcomes move the limit

ASSUME LimiterAssumption ==
    /\ Ceiling \in Nat \ {0}
    /\ Adaptive \in BOOLEAN

MinAdaptiveConcurrency == 1

VARIABLES
    limit,      \* the current limit
    inFlight,   \* slots taken
    successes,  \* successes counted toward the next recovery step
    peak,       \* highest inFlight so far
    low,        \* lowest limit so far (the field min)
    acq,        \* out, fast, slow, waiting or parked
    watchdog,   \* of the acquire under way: none, armed or spent
    leaving,    \* watchdogs told to end, by acquires that have returned
    cancelled   \* whether the batch's context is done

limiterVars ==
    <<limit, inFlight, successes, peak, low, acq, watchdog, leaving, cancelled>>
counters == <<limit, inFlight, successes, peak, low>>

LimiterType ==
    /\ limit \in 1..Ceiling
    /\ inFlight \in 0..Ceiling
    /\ successes \in 0..(2 * Ceiling)
    /\ peak \in 0..Ceiling
    /\ low \in 1..Ceiling
    /\ acq \in {"out", "fast", "slow", "waiting", "parked"}
    /\ watchdog \in {"none", "armed", "spent"}
    /\ leaving \in Nat
    /\ cancelled \in BOOLEAN

(* newAdaptiveLimiter.                                                      *)
LimiterInit ==
    /\ limit = Ceiling /\ low = Ceiling
    /\ inFlight = 0 /\ peak = 0
    /\ successes = 0
    /\ acq = "out"
    /\ watchdog = "none" /\ leaving = 0
    /\ cancelled = FALSE

-----------------------------------------------------------------------------
MutexFree == acq # "waiting"

(* cond.Broadcast: a parked acquirer goes back to contend for the mutex.    *)
NoBroadcast == UNCHANGED acq
Broadcast == acq' = IF acq = "parked" THEN "slow" ELSE acq

(* Fewer slots are taken than the limit now in force.                       *)
HasRoomUnderCeiling == inFlight < Ceiling
HasRoom == inFlight < limit

Take ==
    /\ inFlight' = inFlight + 1
    /\ peak' = IF inFlight + 1 > peak THEN inFlight + 1 ELSE peak
    /\ UNCHANGED <<limit, successes, low>>

(* acquire passes its first look at the context.                            *)
EnterAcquire ==
    /\ acq = "out"
    /\ ~cancelled
    /\ acq' = "fast"
    /\ UNCHANGED <<counters, watchdog, leaving, cancelled>>

(* The deferred close(done) as acquire returns: its watchdog, if it still   *)
(* watches, is told to end.  Nobody waits for it.                           *)
Dismiss ==
    /\ watchdog' = "none"
    /\ leaving' = IF watchdog = "armed" THEN leaving + 1 ELSE leaving

(* acquire returns true: from the fast path, which does not look at the     *)
(* context again, or from the slow path, which does.                        *)
Acquire ==
    /\ HasRoom
    /\ acq = "fast" \/ (acq = "slow" /\ ~cancelled)
    /\ Take
    /\ acq' = "out"
    /\ Dismiss
    /\ UNCHANGED cancelled

(* acquire returns false.                                                   *)
GiveUp ==
    /\ acq \in {"out", "slow"}
    /\ cancelled
    /\ acq' = "out"
    /\ Dismiss
    /\ UNCHANGED <<counters, cancelled>>

(* No free slot on the fast path: start the watchdog.                       *)
GoSlow ==
    /\ acq = "fast"
    /\ ~HasRoom
    /\ acq' = "slow"
    /\ watchdog' = "armed"
    /\ UNCHANGED <<counters, leaving, cancelled>>

(* The slow path finds no slot and no cancellation, holding the mutex ...   *)
DecideToWait ==
    /\ acq = "slow"
    /\ ~HasRoom
    /\ ~cancelled
    /\ acq' = "waiting"
    /\ UNCHANGED <<counters, watchdog, leaving, cancelled>>

(* ... and only then joins the wait list, which releases the mutex.         *)
Park ==
    /\ acq = "waiting"
    /\ acq' = "parked"
    /\ UNCHANGED <<counters, watchdog, leaving, cancelled>>

(* The watchdog broadcasts once, without the mutex.                         *)
WatchdogFires ==
    /\ watchdog = "armed"
    /\ cancelled
    /\ Broadcast
    /\ watchdog' = "spent"
    /\ UNCHANGED <<counters, leaving, cancelled>>

(* A watchdog that was told to end does so in its own time; when the        *)
(* context is done as well, its select may take that case and broadcast.    *)
WatchdogLeaves ==
    /\ leaving > 0
    /\ leaving' = leaving - 1
    /\ \/ UNCHANGED acq
       \/ cancelled /\ Broadcast
    /\ UNCHANGED <<counters, watchdog, cancelled>>

(* release: the slot is returned under the mutex ...                        *)
Release ==
    /\ MutexFree
    /\ inFlight' = inFlight - 1
    /\ UNCHANGED <<limit, successes, peak, low, acq, watchdog, leaving,
                   cancelled>>

(* ... and the broadcast follows after it.                                  *)
ReleaseBroadcast ==
    /\ Broadcast
    /\ UNCHANGED <<counters, watchdog, leaving, cancelled>>

HalvedWithoutFloor == limit \div 2
Halved == IF limit \div 2 < MinAdaptiveConcurrency
          THEN MinAdaptiveConcurrency ELSE limit \div 2

(* observe of a rate limit, an overload or a refused budget.                *)
Throttle ==
    /\ limit' = Halved
    /\ successes' = 0
    /\ low' = IF Halved < low THEN Halved ELSE low
    /\ UNCHANGED <<inFlight, peak, acq>>

(* observe of a success.                                                    *)
RecoverLate ==
    \/ /\ limit >= Ceiling
       /\ UNCHANGED <<counters, acq>>
    \/ /\ limit < Ceiling
       /\ successes + 1 <= 2 * limit
       /\ successes' = successes + 1
       /\ UNCHANGED <<limit, inFlight, peak, low, acq>>
    \/ /\ limit < Ceiling
       /\ successes + 1 > 2 * limit
       /\ successes' = 0
       /\ limit' = limit + 1
       /\ Broadcast
       /\ UNCHANGED <<inFlight, peak, low>>
Recover ==
    \/ /\ limit >= Ceiling
       /\ UNCHANGED <<counters, acq>>
    \/ /\ limit < Ceiling
       /\ successes + 1 < 2 * limit
       /\ successes' = successes + 1
       /\ UNCHANGED <<limit, inFlight, peak, low, acq>>
    \/ /\ limit < Ceiling
       /\ successes + 1 >= 2 * limit
       /\ successes' = 0
       /\ limit' = limit + 1
       /\ Broadcast
       /\ UNCHANGED <<inFlight, peak, low>>

(* observe; outcome is ok, throttled or failed.                             *)
Observe(outcome) ==
    /\ MutexFree
    /\ \/ Adaptive /\ outcome = "throttled" /\ Throttle
       \/ Adaptive /\ outcome = "ok" /\ Recover
       \/ (~Adaptive \/ outcome = "failed") /\ UNCHANGED <<counters, acq>>
    /\ UNCHANGED <<watchdog, leaving, cancelled>>

(* The batch's context is cancelled, by the caller or by a break.           *)
Cancel ==
    /\ cancelled' = TRUE
    /\ UNCHANGED <<counters, acq, watchdog, leaving>>
=============================================================================
