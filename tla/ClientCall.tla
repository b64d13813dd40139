------------------------------ MODULE ClientCall ----------------------------
(***************************************************************************)
(* The client's retry loop, do in client.go, run by concurrent calls that  *)
(* share one circuit breaker: the breaker gates every attempt, a failure   *)
(* is followed by a backoff or by the delay the server asked for, and the  *)
(* whole call has a time budget, which is both a number the loop compares  *)
(* with and a context timeout that interrupts exchanges and sleeps.        *)
(*                                                                         *)
(* Times are ticks still to go.  The code between the end of an exchange   *)
(* and the start of the next sleep takes less than a tick, so it is one    *)
(* step, the breaker's record included.                                    *)
(***************************************************************************)
EXTENDS CircuitBreaker, FiniteSets

CONSTANTS
    Calls,          \* calls to SystemOne
    MaxRetries,     \* RetryPolicy.MaxRetries
    Timeout,        \* RetryPolicy.Timeout; zero is no budget
    Delays,         \* what delayFor may return
    RetryAfters,    \* retry-after values the server may send
    MaxRetryAfter   \* RetryPolicy.MaxRetryAfter; zero is no cap

ASSUME CallAssumption ==
    /\ IsFiniteSet(Calls)
    /\ {MaxRetries, Timeout, MaxRetryAfter} \subseteq Nat
    /\ Delays \subseteq Nat /\ Delays # {}
    /\ RetryAfters \subseteq Nat \ {0}

VARIABLE call   \* what each call is doing

vars == <<breakerVars, call>>

Results == {"none", "response", "invalid", "refused", "rejected",
            "rejected with cause", "error", "exhausted"}

CallState == [
    pc: {"idle", "gate", "exchange", "sleeping", "done"},
    ctx: {"live", "cancelled", "expired"},
    made: 0..(MaxRetries + 1),
    retried: BOOLEAN,
    left: 0..Timeout,
    wait: Nat,
    asked: Nat,
    result: Results]

(* Ranges; made is at most one more than the retries the policy grants.     *)
TypeOK == BreakerType /\ call \in [Calls -> CallState]

Init ==
    /\ BreakerInit
    /\ call = [c \in Calls |-> [
          pc |-> "idle", ctx |-> "live", made |-> 0, retried |-> FALSE,
          left |-> Timeout, wait |-> 0, asked |-> 0, result |-> "none"]]

-----------------------------------------------------------------------------
At(c, pc) == call[c].pc = pc

Finish(c, result) ==
    call' = [call EXCEPT ![c].pc = "done", ![c].result = result]

(* Retries are used up by the attempt that has just been made.              *)
OutOfRetries(c) == call[c].made > MaxRetries

(* The delay before the next attempt: the server's, if it sent one.         *)
DelaysUnasked(asked) == Delays
DelayChoices(asked) == IF asked > 0 THEN {asked} ELSE Delays

(* The server asks for longer than the policy will wait.                    *)
TooLong(asked) == MaxRetryAfter > 0 /\ asked > MaxRetryAfter

(* The delay would outlast the time budget.                                 *)
PastBudgetOffByOne(c, delay) == Timeout > 0 /\ delay > call[c].left
PastBudget(c, delay) == Timeout > 0 /\ delay >= call[c].left

(* What the call returns when the loop breaks.                              *)
Verdict(c) == IF call[c].retried THEN "exhausted" ELSE "error"

(* What it returns when the breaker rejects an attempt.                     *)
RejectionAlone(c) == "rejected"
Rejection(c) == IF call[c].made > 0 THEN "rejected with cause" ELSE "rejected"

(* The context no longer lets an exchange or a sleep go on.                 *)
CancelledOnly(c) == call[c].ctx = "cancelled"
CtxDone(c) == call[c].ctx # "live"

-----------------------------------------------------------------------------
(* systemOne: validation, the context check and the budget refuse before    *)
(* anything is sent, or do starts.                                          *)
Start(c) ==
    /\ At(c, "idle")
    /\ \/ Finish(c, "refused")
       \/ call' = [call EXCEPT ![c].pc = "gate"]
    /\ UNCHANGED breakerVars

(* guardOpen lets the attempt through, and the exchange starts.             *)
Attempt(c) ==
    /\ At(c, "gate")
    /\ Admit
    /\ call' = [call EXCEPT ![c].pc = "exchange", ![c].made = @ + 1]

(* guardOpen rejects it.                                                    *)
Rejected(c) ==
    /\ At(c, "gate")
    /\ Rejects
    /\ Finish(c, Rejection(c))
    /\ UNCHANGED breakerVars

(* The service answers 2xx; the body may still fail to decode.              *)
Succeeds(c) ==
    /\ At(c, "exchange")
    /\ RecordSuccess
    /\ \E result \in {"response", "invalid"} : Finish(c, result)

(* An attempt ends in an error that is not retried.                         *)
EndForGood(c) ==
    /\ At(c, "exchange")
    /\ RecordNeutral
    /\ Finish(c, Verdict(c))

(* clk.Sleep: a zero delay only looks at the context.                       *)
Sleep(c, delay, asked) ==
    \/ /\ delay > 0
       /\ call' = [call EXCEPT ![c].pc = "sleeping", ![c].wait = delay,
                               ![c].asked = asked]
    \/ /\ delay = 0 /\ ~CtxDone(c)
       /\ call' = [call EXCEPT ![c].pc = "gate", ![c].retried = TRUE,
                               ![c].asked = asked]
    \/ /\ delay = 0 /\ CtxDone(c)
       /\ Finish(c, "exhausted")

(* An attempt ends in a retryable error, with the server's delay or none.   *)
EndRetryable(c, asked) ==
    /\ At(c, "exchange")
    /\ RecordFailure
    /\ \E delay \in DelayChoices(asked) :
          LET stop == \/ OutOfRetries(c)
                      \/ TooLong(asked)
                      \/ PastBudget(c, delay)
          IN  \/ stop /\ Finish(c, Verdict(c))
              \/ ~stop /\ Sleep(c, delay, asked)

(* The service rejects the request, fails it, or fails to answer at all.    *)
Fails(c) ==
    EndForGood(c) \/ \E asked \in RetryAfters \cup {0} : EndRetryable(c, asked)

(* The context ends the exchange: a cancellation is final, a deadline is a  *)
(* timeout like any other.                                                  *)
Interrupted(c) ==
    /\ CtxDone(c)
    /\ \/ call[c].ctx = "cancelled" /\ EndForGood(c)
       \/ call[c].ctx = "expired" /\ EndRetryable(c, 0)

(* The timer of the sleep fires ...                                         *)
Wake(c) ==
    /\ At(c, "sleeping")
    /\ call[c].wait = 0
    /\ call' = [call EXCEPT ![c].pc = "gate", ![c].retried = TRUE]
    /\ UNCHANGED breakerVars

(* ... or the context is done, even when the timer is ready too.            *)
SleepCut(c) ==
    /\ At(c, "sleeping")
    /\ CtxDone(c)
    /\ Finish(c, "exhausted")
    /\ UNCHANGED breakerVars

(* The caller cancels, or the caller's own deadline passes.                 *)
CallerGivesUp(c) ==
    /\ call[c].pc \notin {"idle", "done"}
    /\ ~CtxDone(c)
    /\ \E why \in {"cancelled", "expired"} :
          call' = [call EXCEPT ![c].ctx = why]
    /\ UNCHANGED breakerVars

(* The context timeout that do set up fires.                                *)
Deadline(c) ==
    /\ call[c].pc \notin {"idle", "done"}
    /\ call[c].ctx = "live"
    /\ Timeout > 0 /\ call[c].left = 0
    /\ call' = [call EXCEPT ![c].ctx = "expired"]
    /\ UNCHANGED breakerVars

(* Somebody reads the breaker's state, as the log of a rejection does.      *)
Inspect == ReadState /\ UNCHANGED call

Less(t) == IF t > 0 THEN t - 1 ELSE 0

Tick ==
    /\ BreakerTick \/ (age = OpenFor /\ UNCHANGED breakerVars)
    /\ call' = [c \in Calls |->
          IF call[c].pc \in {"idle", "done"} THEN call[c]
          ELSE [call[c] EXCEPT !.left = Less(@), !.wait = Less(@),
                               !.asked = Less(@)]]

Next ==
    \/ \E c \in Calls :
          \/ Start(c) \/ Attempt(c) \/ Rejected(c)
          \/ Succeeds(c) \/ Fails(c) \/ Interrupted(c)
          \/ Wake(c) \/ SleepCut(c)
          \/ CallerGivesUp(c) \/ Deadline(c)
    \/ Inspect
    \/ Tick

Spec == Init /\ [][Next]_vars

(* Time passes and the calls' own goroutines run; the service need never    *)
(* answer.                                                                  *)
FairSpec ==
    /\ Spec
    /\ WF_vars(Tick)
    /\ \A c \in Calls :
          /\ WF_vars(Attempt(c) \/ Rejected(c))
          /\ WF_vars(Interrupted(c))
          /\ WF_vars(Wake(c) \/ SleepCut(c))
          /\ WF_vars(Deadline(c))

-----------------------------------------------------------------------------
(* A backoff never outlasts the time budget: a call that is waiting has     *)
(* budget left for after the wait.                                          *)
BackoffFitsBudget ==
    Timeout > 0 => \A c \in Calls :
        At(c, "sleeping") /\ call[c].wait > 0 => call[c].wait < call[c].left

(* No attempt is sent before the delay that the server asked for in the     *)
(* attempt before it has passed.                                            *)
RetryAfterHonored ==
    [][\A c \in Calls : call'[c].made > call[c].made => call[c].asked = 0]_vars

(* A call that got an error from the service reports it, also when what     *)
(* ended the call was the breaker opening under other calls' failures.      *)
CauseReported ==
    \A c \in Calls :
        At(c, "done") /\ call[c].made > 0 => call[c].result # "rejected"

(* Every call returns although the service never answers: its own time      *)
(* budget ends the exchange or the sleep.                                   *)
CallReturns == \A c \in Calls : At(c, "gate") ~> At(c, "done")

(* What the comment at the end of do says: a call that claims to have used  *)
(* up its retries has retried.                                              *)
ExhaustedMeansRetried ==
    \A c \in Calls : call[c].result = "exhausted" => call[c].made > 1
=============================================================================
