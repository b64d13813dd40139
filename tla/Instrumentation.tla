--------------------------- MODULE Instrumentation ---------------------------
(***************************************************************************)
(* SystemOneAll starts one goroutine per request, each call unwinds through *)
(* the chain of interceptors around systemOne, and the caller collects the  *)
(* results in input order.  The chain is the one the packages document: the *)
(* OpenTelemetry tracer outermost, the Prometheus metrics, the hooks, and   *)
(* recoverPanic around all of them.  The retry loop is reduced to what the  *)
(* instruments see of it (ClientCall has the loop itself).                  *)
(*                                                                         *)
(* A panic may start in a hook or in the retry observer; it unwinds through *)
(* the same layers, of which only the deferred statements run.              *)
(***************************************************************************)
EXTENDS Integers, Sequences, FiniteSets

CONSTANTS
    N,           \* requests given to SystemOneAll
    MaxRetries   \* retries the policy grants one call

ASSUME CallsAssumption == {N, MaxRetries} \subseteq Nat

Calls == 1..N

VARIABLES
    call,        \* what each call's goroutine is doing, and its result so far
    span,        \* the tracer's state of each call: callState and its spans
    inFlight,    \* the gauge requests_in_flight
    counts,      \* the counters retries, errors, ok and failed durations
    hook,        \* hooks run for each call
    chan,        \* the buffered channel of each call, and whether it is closed
    results      \* what SystemOneAll has collected

callVars == <<call, span, inFlight, counts, hook, chan, results>>

Outcomes == {"ok", "error", "panic"}
Layers == {"async", "otel", "prom", "hooks", "systemOne"}

CallState == [at: Layers \cup {"attempt", "backoff", "send", "close", "done"},
              going: {"in", "out"}, made: 0..(MaxRetries + 1),
              outcome: Outcomes \cup {"none"}]
SpanState == [open: BOOLEAN, retries: 0..MaxRetries, attempts: Seq(Nat)]
ChanState == [queue: Seq(Outcomes), closed: BOOLEAN]

(* Ranges: no call makes more attempts than the policy grants, and the      *)
(* gauge counts calls.                                                      *)
TypeOK ==
    /\ call \in [Calls -> CallState]
    /\ span \in [Calls -> SpanState]
    /\ inFlight \in 0..N
    /\ counts \in [{"retries", "errors", "ok", "failed"} -> Nat]
    /\ hook \in [Calls -> Seq({"request", "response", "error"})]
    /\ chan \in [Calls -> ChanState]
    /\ results \in Seq(Outcomes \cup {"zero"})

CallsInit ==
    /\ call = [c \in Calls |->
          [at |-> "async", going |-> "in", made |-> 0, outcome |-> "none"]]
    /\ span = [c \in Calls |->
          [open |-> FALSE, retries |-> 0, attempts |-> <<>>]]
    /\ inFlight = 0
    /\ counts = [k \in {"retries", "errors", "ok", "failed"} |-> 0]
    /\ hook = [c \in Calls |-> <<>>]
    /\ chan = [c \in Calls |-> [queue |-> <<>>, closed |-> FALSE]]
    /\ results = <<>>

-----------------------------------------------------------------------------
At(c, layer, going) == call[c].at = layer /\ call[c].going = going
Goes(c, layer) == call' = [call EXCEPT ![c].at = layer]
Returns(c, layer, outcome) ==
    call' = [call EXCEPT ![c].at = layer, ![c].going = "out",
                         ![c].outcome = outcome]
Panics(c, layer) == Returns(c, layer, "panic")
Bump(k) == counts' = [counts EXCEPT ![k] = @ + 1]

(* finishAttempt: the span of attempt n, made after the fact.               *)
FinishAttempt(s) == [s EXCEPT !.attempts = Append(@, s.retries + 1)]

(* The goroutine of SystemOneAsync calls SystemOne and its handler.         *)
SystemOneAsync(c) ==
    /\ At(c, "async", "in")
    /\ Goes(c, "otel")
    /\ UNCHANGED <<span, inFlight, counts, hook, chan, results>>

(* The tracer opens the call's span and puts its callState on the context.  *)
OpenSpan(c) ==
    /\ At(c, "otel", "in")
    /\ span' = [span EXCEPT ![c].open = TRUE]
    /\ Goes(c, "prom")
    /\ UNCHANGED <<inFlight, counts, hook, chan, results>>

(* The metrics count the call in.                                           *)
Enter(c) ==
    /\ At(c, "prom", "in")
    /\ inFlight' = inFlight + 1
    /\ Goes(c, "hooks")
    /\ UNCHANGED <<span, counts, hook, chan, results>>

(* OnRequest returns or panics.                                             *)
OnRequest(c) ==
    /\ At(c, "hooks", "in")
    /\ hook' = [hook EXCEPT ![c] = Append(@, "request")]
    /\ Goes(c, "systemOne") \/ Panics(c, "prom")
    /\ UNCHANGED <<span, inFlight, counts, chan, results>>

(* systemOne refuses the request, or the breaker does, before any attempt.  *)
Refuse(c) ==
    /\ At(c, "systemOne", "in")
    /\ Returns(c, "hooks", "error")
    /\ UNCHANGED <<span, inFlight, counts, hook, chan, results>>

(* An attempt is sent.                                                      *)
Attempt(c) ==
    /\ At(c, "systemOne", "in")
    /\ call' = [call EXCEPT ![c].at = "attempt", ![c].made = @ + 1]
    /\ UNCHANGED <<span, inFlight, counts, hook, chan, results>>

(* It answers, or fails in a way that ends the call.                        *)
AttemptEnds(c) ==
    /\ At(c, "attempt", "in")
    /\ \E outcome \in {"ok", "error"} : Returns(c, "hooks", outcome)
    /\ UNCHANGED <<span, inFlight, counts, hook, chan, results>>

(* The policy grants another attempt.                                       *)
RetriesLeft(c) == call[c].made <= MaxRetries

(* A failure that will be retried: both retry observers run, before the     *)
(* backoff; one may panic.                                                  *)
Observe(c) ==
    /\ At(c, "attempt", "in")
    /\ RetriesLeft(c)
    /\ \/ /\ Panics(c, "prom")
          /\ UNCHANGED <<span, counts>>
       \/ /\ Goes(c, "backoff")
          /\ span' = [span EXCEPT ![c] =
                [FinishAttempt(span[c]) EXCEPT !.retries = @ + 1]]
          /\ Bump("retries")
    /\ UNCHANGED <<inFlight, hook, chan, results>>

(* The backoff ends, in the next attempt or in a cut or a rejection.        *)
EndBackoff(c) ==
    /\ At(c, "backoff", "in")
    /\ Goes(c, "systemOne") \/ Returns(c, "hooks", "error")
    /\ UNCHANGED <<span, inFlight, counts, hook, chan, results>>

(* OnResponse or OnError, the latter for an error; either may panic.        *)
After(c) ==
    /\ At(c, "hooks", "out")
    /\ hook' = [hook EXCEPT ![c] =
          Append(@, IF call[c].outcome = "ok" THEN "response" ELSE "error")]
    /\ Returns(c, "prom", call[c].outcome) \/ Panics(c, "prom")
    /\ UNCHANGED <<span, inFlight, counts, chan, results>>

(* The metrics record the call; only the gauge's Dec is deferred.           *)
Dec(c) == inFlight - 1
Record(c) ==
    /\ At(c, "prom", "out")
    /\ inFlight' = Dec(c)
    /\ \/ /\ call[c].outcome = "panic"
          /\ UNCHANGED counts
       \/ /\ call[c].outcome = "ok"
          /\ Bump("ok")
       \/ /\ call[c].outcome = "error"
          /\ counts' = [counts EXCEPT !["failed"] = @ + 1, !["errors"] = @ + 1]
    /\ Goes(c, "otel")
    /\ UNCHANGED <<span, hook, chan, results>>

(* The tracer closes the last attempt, and its span in any case: the End is *)
(* deferred.                                                                *)
EndedOnReturn(c) == call[c].outcome # "panic"
Ended(c) == TRUE
EndSpan(c) ==
    /\ At(c, "otel", "out")
    /\ span' = [span EXCEPT ![c] =
          [IF call[c].outcome = "panic" THEN span[c] ELSE FinishAttempt(span[c])
              EXCEPT !.open = ~Ended(c)]]
    /\ Goes(c, "send")
    /\ UNCHANGED <<inFlight, counts, hook, chan, results>>

(* recoverPanic has made a panic an error; the goroutine sends the result.  *)
SendUnrecovered(c) ==
    /\ At(c, "send", "out")
    /\ call[c].outcome # "panic"
    /\ chan' = [chan EXCEPT ![c].queue = Append(@, call[c].outcome)]
    /\ Goes(c, "close")
    /\ UNCHANGED <<span, inFlight, counts, hook, results>>
Send(c) ==
    /\ At(c, "send", "out")
    /\ chan[c].queue = <<>>
    /\ chan' = [chan EXCEPT ![c].queue = Append(@, call[c].outcome)]
    /\ Goes(c, "close")
    /\ UNCHANGED <<span, inFlight, counts, hook, results>>

(* The goroutine closes the channel and ends.                               *)
Close(c) ==
    /\ At(c, "close", "out")
    /\ chan' = [chan EXCEPT ![c].closed = TRUE]
    /\ Goes(c, "done")
    /\ UNCHANGED <<span, inFlight, counts, hook, results>>

(* SystemOneAll receives from the channel of the next request; a closed     *)
(* channel with nothing in it yields the zero Result.                       *)
Received(c) == IF chan[c].queue # <<>> THEN Head(chan[c].queue) ELSE "zero"
Collect(c) ==
    /\ c = Len(results) + 1
    /\ chan[c].queue # <<>> \/ chan[c].closed
    /\ results' = Append(results, Received(c))
    /\ chan' = [chan EXCEPT ![c].queue = IF @ = <<>> THEN @ ELSE Tail(@)]
    /\ UNCHANGED <<call, span, inFlight, counts, hook>>

(* A goroutine's steps, in code order.                                      *)
Goroutine(c) ==
    \/ SystemOneAsync(c) \/ OpenSpan(c) \/ Enter(c) \/ OnRequest(c)
    \/ Refuse(c) \/ Attempt(c) \/ AttemptEnds(c) \/ Observe(c) \/ EndBackoff(c)
    \/ After(c) \/ Record(c) \/ EndSpan(c) \/ Send(c) \/ Close(c)

CallsNext == \E c \in Calls : Goroutine(c) \/ Collect(c)

(* The scheduler runs every goroutine; a service may leave a call in its    *)
(* attempt no longer than the call's deadline, which is an AttemptEnds.     *)
CallsFairness ==
    \A c \in Calls : WF_callVars(Goroutine(c)) /\ WF_callVars(Collect(c))

CallsSpec == CallsInit /\ [][CallsNext]_callVars /\ CallsFairness

-----------------------------------------------------------------------------
Over(c) == call[c].at \in {"send", "close", "done"}
Panicked(c) == call[c].outcome = "panic"

(* The gauge is exactly the calls inside the metrics, panics included, so   *)
(* it comes back to zero (prom.go: the Dec is deferred).                    *)
Inside(c) == At(c, "prom", "out")
             \/ call[c].at \in {"hooks", "systemOne", "attempt", "backoff"}
GaugeCounts == inFlight = Cardinality({c \in Calls : Inside(c)})

(* What the metrics and the callers say of the same calls agrees: every     *)
(* call that is over is counted once as answered or as failed, except those *)
(* that panicked, and the retries counted are those of the traces.          *)
Recorded(c, outcome) ==
    (Over(c) \/ At(c, "otel", "out")) /\ call[c].outcome = outcome
TracedRetries ==
    {retry \in Calls \X (1..MaxRetries) : retry[2] <= span[retry[1]].retries}
MetricsAgree ==
    /\ counts["ok"] = Cardinality({c \in Calls : Recorded(c, "ok")})
    /\ counts["errors"] = counts["failed"]
    /\ counts["failed"] = Cardinality({c \in Calls : Recorded(c, "error")})
    /\ counts["retries"] = Cardinality(TracedRetries)

(* The trace of a call that is over is complete: its span is closed, the    *)
(* attempts are numbered from one without a gap, one that made attempts     *)
(* shows each of them unless it panicked, and an answered one shows no      *)
(* other.  A call that failed may show one attempt too many, and only at    *)
(* the end: the tracer closes a last attempt when the call was refused or   *)
(* its backoff cut as well (SpanPerAttempt).                                *)
TraceComplete ==
    \A c \in Calls : Over(c) =>
        LET shown == Len(span[c].attempts) IN
        /\ ~span[c].open
        /\ \A i \in DOMAIN span[c].attempts : span[c].attempts[i] = i
        /\ ~Panicked(c) => shown \in {call[c].made, call[c].made + 1}
        /\ call[c].outcome = "ok" => shown = call[c].made

(* What the comment on SpanAttempt says, "one HTTP attempt within a call":  *)
(* a call that is over has as many attempt spans as it made attempts.       *)
(* finishAttempt runs whenever the call returns (otel.go), so a call that   *)
(* was refused shows an attempt it never made.                              *)
SpanPerAttempt ==
    \A c \in Calls : Over(c) /\ ~Panicked(c) =>
        Len(span[c].attempts) = call[c].made

(* Hooks come in pairs: one OnRequest, then at most one of the other two,   *)
(* of the kind the call ended with; without a panic, exactly one.           *)
HooksPaired ==
    \A c \in Calls :
        /\ hook[c] \in {<<>>, <<"request">>, <<"request", "response">>,
                        <<"request", "error">>}
        /\ Over(c) => \/ Panicked(c)
                      \/ hook[c][2] = IF call[c].outcome = "ok"
                                      THEN "response" ELSE "error"

(* Each result is at the position of its request, whatever finished first.  *)
Positional ==
    \A i \in DOMAIN results : results[i] = call[i].outcome

(* A channel carries at most one result and is closed only behind it.       *)
OneResult ==
    \A c \in Calls :
        /\ Len(chan[c].queue) <= 1
        /\ chan[c].closed =>
              chan[c].queue # <<>> \/ Len(results) >= c

(* Whatever call panics, retries or is overtaken, everyone who watched says *)
(* the same of it: gauge, counters, spans and hooks, and its result is      *)
(* where its request was (typesafeprom, typesafeotel, middleware.go,        *)
(* async.go).                                                               *)
CallsAccounted ==
    /\ TypeOK
    /\ GaugeCounts
    /\ MetricsAgree
    /\ TraceComplete
    /\ HooksPaired
    /\ Positional
    /\ OneResult

(* Once a call has begun, every result is collected and every goroutine     *)
(* ends (async.go: it cannot leak).                                         *)
AllCollected ==
    (\E c \in Calls : call[c].at # "async")
        ~> (Len(results) = N /\ \A c \in Calls : call[c].at = "done")
=============================================================================
