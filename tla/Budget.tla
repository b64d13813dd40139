-------------------------------- MODULE Budget ------------------------------
(***************************************************************************)
(* Budget of quota.go: the mutex-guarded gate that counts requests in a    *)
(* sliding minute, tokens in a sliding second and both over its lifetime.  *)
(* The clock is read under the mutex, so admissions are in time order.     *)
(*                                                                         *)
(* It keeps only the events its windows need; log and verdict are what the *)
(* properties and the abstract QuotaGate see of it.                        *)
(***************************************************************************)
EXTENDS Integers, Sequences, FiniteSets, Functions

CONSTANTS
    MaxRequestsPerMinute,  \* zero disables each of the four caps
    MaxTokensPerSecond,
    MaxTotalRequests,
    MaxTotalTokens,
    Minute,                \* ticks in a minute
    Second,                \* ticks in a second
    Sizes,                 \* estimated sizes of requests, in tokens
    Horizon                \* bound on the clock

ASSUME BudgetAssumption ==
    /\ {MaxRequestsPerMinute, MaxTokensPerSecond, MaxTotalRequests,
        MaxTotalTokens, Horizon} \subseteq Nat
    /\ Second \in Nat \ {0} /\ Minute \in Nat /\ Second <= Minute
    /\ Sizes \subseteq Nat

VARIABLES
    now,            \* the clock
    requestTimes,   \* times of admitted requests, oldest first
    tokenEvents,    \* times and sizes of admitted requests, oldest first
    totalRequests,
    totalTokens,
    log,            \* history: requests admitted since the last Reset
    verdict         \* history: the outcome of the last check

windows == <<requestTimes, tokenEvents, totalRequests, totalTokens>>
budgetVars == <<now, windows, log, verdict>>

Event == [at: Nat, tokens: Sizes]

(* The windows are an implementation of the gate over the whole history.     *)
Quota == INSTANCE QuotaGate WITH now <- now, log <- log, verdict <- verdict

(* Types; the windows never hold more than has been admitted.               *)
BudgetType ==
    /\ now \in 0..Horizon
    /\ requestTimes \in Seq(Nat) /\ Len(requestTimes) <= totalRequests
    /\ tokenEvents \in Seq(Event) /\ Len(tokenEvents) <= totalRequests
    /\ totalRequests \in Nat
    /\ totalTokens \in Nat
    /\ log \in Seq(Event)
    /\ verdict \in {"none", "admitted", "refused"}

BudgetInit ==
    /\ now = 0
    /\ requestTimes = <<>> /\ tokenEvents = <<>>
    /\ totalRequests = 0 /\ totalTokens = 0
    /\ log = <<>>
    /\ verdict = "none"

-----------------------------------------------------------------------------
StaleAtBoundary(times, cut) ==
    {i \in 0..Len(times) :
        /\ \A k \in 1..i : times[k] <= cut
        /\ i < Len(times) => times[i + 1] > cut}

(* How many leading events are before cut: the loop of evictLocked.  The    *)
(* set has one member.                                                      *)
Stale(times, cut) ==
    {i \in 0..Len(times) :
        /\ \A k \in 1..i : times[k] < cut
        /\ i < Len(times) => times[i + 1] >= cut}

From(s, i) == SubSeq(s, i + 1, Len(s))

EventTimes == [i \in DOMAIN tokenEvents |-> tokenEvents[i].at]

(* evictLocked, called with the clock's time.                               *)
EvictLocked ==
    /\ \E i \in Stale(requestTimes, now - Minute) :
          requestTimes' = From(requestTimes, i)
    /\ \E j \in Stale(EventTimes, now - Second) :
          tokenEvents' = From(tokenEvents, j)

SumTokens(events) == SumFunction([i \in DOMAIN events |-> events[i].tokens])

RefusedOffByOne(times, events, tokens) ==
    \/ MaxTotalRequests > 0 /\ totalRequests >= MaxTotalRequests
    \/ MaxTotalTokens > 0 /\ totalTokens + tokens > MaxTotalTokens
    \/ MaxRequestsPerMinute > 0 /\ Len(times) > MaxRequestsPerMinute
    \/ MaxTokensPerSecond > 0 /\ SumTokens(events) > MaxTokensPerSecond

(* The four refusals of check, over the windows that eviction has left.     *)
Refused(times, events, tokens) ==
    \/ MaxTotalRequests > 0 /\ totalRequests >= MaxTotalRequests
    \/ MaxTotalTokens > 0 /\ totalTokens + tokens > MaxTotalTokens
    \/ MaxRequestsPerMinute > 0 /\ Len(times) >= MaxRequestsPerMinute
    \/ MaxTokensPerSecond > 0
       /\ SumTokens(events) + tokens > MaxTokensPerSecond

(* check: evict, then refuse or reserve, all under one lock.                *)
Check(tokens) ==
    /\ \E i \in Stale(requestTimes, now - Minute),
          j \in Stale(EventTimes, now - Second) :
          LET times  == From(requestTimes, i)
              events == From(tokenEvents, j)
          IN  \/ /\ Refused(times, events, tokens)
                 /\ requestTimes' = times /\ tokenEvents' = events
                 /\ verdict' = "refused"
                 /\ UNCHANGED <<totalRequests, totalTokens, log>>
              \/ /\ ~Refused(times, events, tokens)
                 /\ requestTimes' = Append(times, now)
                 /\ tokenEvents' =
                       Append(events, [at |-> now, tokens |-> tokens])
                 /\ totalRequests' = totalRequests + 1
                 /\ totalTokens' = totalTokens + tokens
                 /\ log' = Append(log, [at |-> now, tokens |-> tokens])
                 /\ verdict' = "admitted"
    /\ UNCHANGED now

(* Usage reports the windows, which evicts.                                 *)
Usage ==
    /\ EvictLocked
    /\ UNCHANGED <<now, totalRequests, totalTokens, log, verdict>>

(* Reset clears windows and totals.                                         *)
ResetBudget ==
    /\ requestTimes' = <<>> /\ tokenEvents' = <<>>
    /\ totalRequests' = 0 /\ totalTokens' = 0
    /\ log' = <<>>
    /\ UNCHANGED <<now, verdict>>

BudgetTick ==
    /\ now < Horizon
    /\ now' = now + 1
    /\ UNCHANGED <<windows, log, verdict>>

BudgetNext ==
    \/ \E tokens \in Sizes : Check(tokens)
    \/ Usage
    \/ ResetBudget
    \/ BudgetTick

BudgetSpec == BudgetInit /\ [][BudgetNext]_budgetVars

-----------------------------------------------------------------------------
(* The rate cap holds in every minute of the past, wherever it starts: any  *)
(* cap + 1 admissions in a row span more than a minute.                     *)
RequestsPerMinuteHold ==
    MaxRequestsPerMinute > 0 =>
        \A i \in DOMAIN log : i + MaxRequestsPerMinute <= Len(log) =>
            log[i + MaxRequestsPerMinute].at > log[i].at + Minute

(* And the token cap holds in every second of the past: requests admitted   *)
(* no more than a second apart come, with those between them, to no more    *)
(* tokens than the cap, although older events are forgotten as they age.    *)
TokensPerSecondHold ==
    MaxTokensPerSecond > 0 =>
        \A i, j \in DOMAIN log : log[j].at <= log[i].at + Second =>
            SumFunctionOnSet([k \in DOMAIN log |-> log[k].tokens], i..j)
                <= MaxTokensPerSecond

(* Budget refuses and admits what the whole history says it should: no      *)
(* eviction forgets an event that still counts or keeps one that no longer  *)
(* does, whatever Usage and Reset calls come in between.                    *)
ImplementsQuota == Quota!QuotaSpec
=============================================================================
