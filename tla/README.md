# Verification of typesafe-go

TLA+ models, TLC model checking and TLAPS proofs for `typesafe-go`, the Go SDK
of the TypeSafe System One API. Sources are named by their path in the
repository; every definition that models code was written from the lines listed
for it under `map` in `PROJECT.json`.

## 1. The system

A `Client` sends one kind of request: a state and a set of questions about it,
answered with probabilities. Around that single HTTP exchange the SDK puts a
retry loop, a circuit breaker, a request budget, an interceptor chain, batches,
a response cache, test doubles, observers and adapters; on top of the answers it
puts a small algebra for deciding.

```
 caller ── SystemOneBatch / SystemOneBatchSeq ──┐         batch.go
 caller ── SystemOneAsync / SystemOneAll ───────┤         async.go
 caller ────────────────────────────────────────┴─ SystemOne           client.go
     interceptors: recover, hooks, cache, tracing, metrics, …          middleware.go
         validation ─ context ─ Budget.check                           quota.go
             do: { breaker.allow ─ attempt ─ breaker.record ─ sleep }  retry.go, circuit.go
                     HTTP exchange (or a cassette, or a test server)
 answers ── decision: algebra, scores, policies, routes, calibration
```

### Components

| component | state | operations | hard behaviour |
|---|---|---|---|
| circuit breaker (`circuit.go`) | state, failures, openedAt, probes, probe successes, under one mutex | `allow`, `record`, `State`, `Reset` | any number of attempts in flight across state changes; lazily taken open → half-open step; the clock read outside the mutex; probe slots that nobody returns |
| batch and adaptive limiter (`batch.go`) | limit, inFlight, recovery progress; one slot per input or one channel; goroutines | `SystemOneBatch`, `SystemOneBatchSeq`, `acquire`, `release`, `observe` | condition variable with a watchdog; limit moving under waiters; cancellation midway; a range loop broken out of; closing a channel with senders around |
| retry loop (`client.go`, `retry.go`) | attempt number, deadline, last error | `do`, `attempt`, `delayFor`, `Sleep` | backoff against a deadline, server delays, context ends in every phase, breaker opening under other calls |
| budget (`quota.go`) | event lists of two sliding windows, totals, under one mutex | `check`, `Usage`, `Reset` | eviction at the window's edge, reservation and refusal in one step |
| response cache (`typesafecache`) | LRU list, directory of files, alias map | `Interceptor`, `Purge`, `ForgetAliases`, `PurgeDisk`, `Close` | three critical sections and a disk between lookup and store; models moving behind an alias; restarts on the same directory |
| errors and retry-after (`errors.go`) | none | classification, header parsing | numeric edges |
| async calls (`async.go`) | a one-place channel per call | `SystemOneAsync`, `SystemOneAll` | abandoned receivers |
| middleware (`middleware.go`) | none of its own | chain, hooks, recovery of panics, request ids | order of wrapping, a panic in any layer |
| token estimates (`budget.go`, `internal/tokens`) | none | `EstimateTokens`, `EstimateCost` | rounding and limits |
| questions, validation, typed decoding (`question.go`, `choice.go`, `noul.go`, `score.go`, `builder.go`, `validate.go`, `typed.go`, `answer.go`) | none | construction, checks, reflection | combinations of fields |
| canonical JSON and state paths (`internal/canonical`, `internal/statepath`) | none | hash, extract, resolve | text |
| decision (`decision`) | none | `And`, `Or`, `All`, `Any`, `AtLeast`, `Exactly`, weights, policies, routes, calibration | bounds of the algebra, bands and fall-throughs of policies |
| cassettes (`cassette`) | recorded interactions, play counts | `record`, `replay`, `Save`, `Load`, `Unplayed` | concurrent replay, partial recordings |
| test doubles (`typesafetest`) | queued outcomes, recorded calls | `Mock`, `Server` | concurrent use |
| OpenTelemetry, Prometheus (`typesafeotel`, `typesafeprom`) | spans and counters of calls under way | interceptors and retry observers | attempts of one call ending in another's span |
| integrations (`integrations`) | MCP policies under a lock; otherwise none | handlers, Temporal error classification | which errors are retried twice |
| command line, generator, linters, examples (`cmd`, `lint`, `examples`, `deploy`) | none at run time | sequential I/O, text | – |

### What makes each correct

* **Breaker**: it trips exactly at the threshold, rests for the whole rest time,
  hands out no more probes than configured, accounts for every slot, and closes
  again when the service is well.
* **Limiter and batches**: never more launches than the limit in force, the
  limit stays between floor and ceiling, each input gets exactly one result,
  nothing outlives the call, and every call returns.
* **Retry loop**: a backoff fits the time budget, a server's delay is waited
  out, the error returned says what happened, and the call returns.
* **Budget**: the sliding windows admit and refuse exactly what the whole
  history of admissions allows.
* **Cache**: a hit answers the question asked with the model asked for, a moved
  alias is noticed in bounded time, answers expire.

## 2. Modules

| module | models | extends |
|---|---|---|
| `CircuitBreaker` | the methods of `CircuitBreaker`, one action each | – |
| `CircuitClients` | goroutines whose attempts go through `guardOpen` and `guardRecord`, and a service that fails and heals | `CircuitBreaker` |
| `AdaptiveLimiter` | `adaptiveLimiter`: acquire with its fast path, wait and watchdog, release, observe | – |
| `ItemResults` | abstract: what both kinds of batch promise their caller | – |
| `Batch` | `SystemOneBatch` | `AdaptiveLimiter`, `INSTANCE ItemResults` |
| `BatchSeq` | `SystemOneBatchSeq` | `AdaptiveLimiter`, `INSTANCE ItemResults` |
| `ClientCall` | `do` and what it calls, for concurrent calls behind one breaker | `CircuitBreaker` |
| `QuotaGate` | abstract: what a budget promises over the whole history | – |
| `Budget` | `Budget` | `INSTANCE QuotaGate` |
| `ResponseCache` | `typesafecache`: interceptor, memory tier, disk tier, alias map | – |
| `Instrumentation` | `SystemOneAsync`, `SystemOneAll`, the interceptors of `typesafeotel` and `typesafeprom`, hooks and the recovery of panics around them | – |
| `Cassette` | the `cassette` package with concurrent workers, crashes and restarts | – |
| `TestDoubles` | `typesafetest`: `Mock` and `Server` | – |
| `PolicyServer` | the policy store and `evaluate_policy` of `integrations/mcp` | – |
| `RetryPolicy`, `Errors` | delays and headers; error values and what each consumer makes of them | `Errors` extends `RetryPolicy` |
| `Probability`, `Decisions`, `Answers` | the algebra and score distributions; policies, bands, routers, calibration; readings of a response | the latter two extend `Probability` |
| `Questions`, `ClientSetup` | forms of a question and validation; options, interceptor nesting, request ids | – |
| `TokenEstimates`, `Canonical`, `StatePaths` | estimate and price; canonical form and hashes; references into the state | – |
| `Commands`, `QuestionGenerator` | the `typesafe` command line; the rules of `typesafe-gen` | – |
| `FunctionProperties` | which inputs retries, errors, probabilities, policies, calibration, settings, questions, answers, estimates, commands and the generator can be given (`InputSane`), and what must hold of them | `Errors`, `Decisions`, `Answers`, `INSTANCE` of `ClientSetup` (`Setup!`), `Questions` (`Writing!`), `TokenEstimates` (`Cost!`), `Commands` (`Line!`), `QuestionGenerator` (`Gen!`) |
| `MCGates` | the breaker with its callers and the budget, as alternatives | `MCCircuitClients`, `Budget` |
| `MCFunctions`, `MCServices` | the bounded inputs of the pure modules; these with the four stateful ones before as alternatives | `MCFunctions` extends `FunctionProperties`, `Canonical` and `StatePaths` are instances; `MCServices` extends `MCFunctions`, `Instrumentation`, `PolicyServer`, `Cassette`, `TestDoubles` |
| `CircuitClientsProofs`, `BatchProofs`, `BatchSeqProofs`, `ClientCallProofs`, `ResponseCacheProofs` | theorems and proofs | the module each is named for |
| `ServicesProofs` | theorems and proofs about the observers, the policy store, the cassette and the doubles | `Instrumentation`, `PolicyServer`, `Cassette`, `TestDoubles` |
| `FunctionProofs` | lemmas on recursions, sums, products and sorted sequences; theorems and proofs about delays, errors, probabilities and decisions | `FunctionProperties` |
| `ClientProofs` | theorems and proofs about the budget, and about the functions of `FunctionProperties` for settings, questions, answers, estimates, commands and the generator | `Budget`, `FunctionProofs` |
| `MC…` | constants of the small instances | the module each is named for |

### CircuitBreaker, CircuitClients

`state`, `failures`, `probes` and `probeSuccess` are the fields. `openedAt` is
kept as `age`, the time since then capped at `OpenFor`, which is all `stateLocked`
looks at; `guardRecord` reads the clock before it takes the mutex, so
`StampOpened` may set an age of up to `ClockLag`. Each method holds the mutex
from its first to its last access of the fields and is one action; `Live` is the
lazily taken step to half-open that `stateLocked` prefixes to every method.
`CircuitClients` adds for every caller whether an attempt is in flight and what
it was admitted as (`probe` of the present window or `plain`), and history
variables that only the properties read: `streak` (failures since the last
success), `sinceOpen`, `lost` (probes of the window that ended without a
verdict) and `late` (successes of attempts that are not probes of the window).

### AdaptiveLimiter, Batch, BatchSeq

`acq` is the position of the one acquiring goroutine inside `acquire`. It holds
the mutex only as `"waiting"`, between its last look at the context and
`cond.Wait`: the gap in which a broadcast that does not take the mutex is lost.
`release` is two actions, because its broadcast follows the unlock. When
`acquire` has returned, its watchdog has only been told to end (`Dismiss` counts
it in `leaving`): it leaves in a step of its own, `WatchdogLeaves`, and may
broadcast before it does. A goroutine
of `Batch` goes through call, observe, write, release, wake and done; the
launch loop through launching, joining and returned. Outcomes are `ok`,
`throttled` (rate limit, overload or refused budget) and `failed`. In `BatchSeq`
the buffered channel is the sequence `results`; the selects on `stopped` are
`NobodyListens`, and the consumer's break is the sequence `Stop`,
`CancelAfterStop`, `Drain`, `Return` as in the code's own order.

`ItemResults` has two variables, the result of each input and whether the caller
is still listening; a step gives any of the missing results, and the call ends
with none missing or after the caller left. `Batch` maps `slot` to the results,
`BatchSeq` what its loop body was handed, a break being the leaving; the
property `GivesResults` of each is that specification under its mapping.

### ClientCall

Times are ticks still to go: `left` of the time budget, `wait` of the present
sleep, `asked` of a delay the server named. The code between the end of an
exchange and the start of the next sleep is one step with the breaker's record,
because it takes no time that the loop's comparisons could see. `delayFor` is
the set `Delays`; whether an error is retryable is a choice. `Start` refuses a
request for any of the reasons of `systemOne` (validation, context, budget).

### QuotaGate, Budget

`Budget` keeps the two event lists and the totals, and evicts as `evictLocked`
does: `Stale` is the set of the one index at which its loop stops. `QuotaGate`
has no windows: it decides over the whole `log` of admissions. `log` and
`verdict` are history variables of `Budget`; `ImplementsQuota` is the
refinement: `now`, `log` and `verdict` map to themselves, and the windows and
totals are what the abstract gate does without.

### ResponseCache

One alias and the versions it moves through; a key is a model and a content (a
state with its questions). Every critical section, disk read, write, prune and
removal is one action, and a requester's `pc` names the next. An entry carries
its answer with the time the service evaluated it (`at`), which the cache does
not know, so that a property can speak of the age of what is served, and the
time the cache knows (`added`). `Restart` keeps the disk and forgets the rest.

### Instrumentation

Each call is a goroutine whose position is a layer and a direction: inward
through async, the tracer, the metrics, the hooks to `systemOne`, then outward
with `ok`, `error` or `panic`. A panic may start in a hook or in the retry
observer, and on its way out only the deferred statements of each layer run:
the gauge's `Dec`, the closing of the channel, the recovery at the outside. The
retry loop is reduced to what the observers see of it. `SystemOneAll` collects
the channels in input order whatever ends first.

### Cassette

A session is a record or a replay on one file. Workers exchange concurrently;
`Add` keeps the first position and the last answer of a key, `BeginSave` and
`EndSave` bracket the write, between which a crash leaves a beginning of the
lines, and the next session loads what is there; `FailSave` is a save that an
error ends before it writes. A request is a canonical form
and one of its spellings; `Canonical` says what the two have to do with each
other.

### TestDoubles, PolicyServer

The mock's script, its standing answers and its `calls`, under one mutex. A
queued outcome is a response, an error or a nil one of either (`NilReply`), which
a call uses up before it falls through to the standing answers; `told` records
with each call what it took (`Taken`) and what it was told. The
server's position and its canned responses, the reply being written after the
unlock. The policy server reads the policy under the read lock and waits for the
service without it, while `AddPolicy` replaces policies; a version number tells
which questions were asked and which policy judged. The service answers all
questions asked, as the client requires, and any set of them `readable` as a
noul: a question is asked whatever its type. What an unread one does is the
policy's `OnMissing`: it fails the evaluation, is left out or counts zero.

### The pure modules

Each operator is a Go function on a small domain, and each `…For` operator is
what must hold for one input of it. `MCFunctions` hands every input of bounded
sets to them; a state is one input. Numbers keep what can go wrong with them:
durations are signed integers of bounded width whose doubling wraps and whose
conversion from a float may give either end (`RetryPolicy`), probabilities are
whole parts of a `D` with values outside the range and a NaN among them
(`Probability`), rounding of the token estimate is exact integer arithmetic on
the code's own fractions (`TokenEstimates`). An error is its chain with status
and header (`Errors`), a question its kind and which texts are nil, empty or
there (`Questions`), a JSON value keeps the spelling of its numbers and its
repeated keys (`Canonical`), a path its parts and brackets (`StatePaths`), an
invocation of the command line what its flags say and what surrounds it
(`Commands`), a Go package its constant blocks (`QuestionGenerator`, where
`GoValue` gives the meaning the language gives them). `InputSane` of
`FunctionProperties` says what the program can hand to those functions that
are proved about, whatever its size; `Give` asserts it of every input a run makes up, so
what TLC enumerates lies inside of what the proofs are about. A map's iteration order is
quantified over, never chosen (`LongestSettled`, `BuiltChoiceLeads`).

## 3. Runs

| run | instance | question |
|---|---|---|
| `gates` | breaker: 3 callers, threshold 2, rest 2, 2 probes, clock lag 1; budget: 3 requests a minute of 3 ticks, 3 tokens a second, lifetime caps 5 and 8, 7 ticks | does the breaker count, rest, hand out slots and recover rightly in every interleaving; do the budget's windows decide like the whole history |
| `circuit_wedge` | 2 callers | does probing always discover that the service is well (violated) |
| `batch` | 4 inputs, concurrency 3, adaptive | are slots, limit and results consistent, does every batch return |
| `batch_watchdog` | 2 inputs, concurrency 1, calls may hang | does the watchdog wake the waiter (violated) |
| `batch_seq` | 4 inputs, concurrency 2, adaptive | is each input yielded once, how far do results run ahead of the loop body, does no dispatcher, worker or slot outlive the loop, does every loop end and after it the last watchdog |
| `batch_seq_exits` | 3 inputs, concurrency 1 | has every goroutine ended when the loop returns (violated) |
| `client_call` | 2 calls, 2 retries, budget 4 ticks, one probe slot | timing, errors and termination of calls behind one breaker |
| `client_call_exhausted` | the same | does "exhausted" mean retried (violated) |
| `cache` | 2 requesters with a question each, 2 models, TTL 1, memory 1, disk 2, 3 ticks | hits match lookups, moves are noticed, lifetimes are bounded |
| `cache_expiry` | 1 requester with 2 questions, answers up to 1 tick under way, 4 ticks | do disk entries respect the TTL (violated) |
| `services` | 2 calls with 1 retry; 3 exchanges in 3 sessions, 2 forms in 2 spellings; 6 steps of a test; 2 tool calls on 2 versions of a policy; every input of the pure modules | do observers, tapes, doubles and policies agree with what happened, and do the pure functions keep their promises |
| `services_spans` | the same | is every attempt span an attempt that was made (violated) |

`gates` and `services` join components that share no state: each behaviour is of
the one that `gate` or `component` names while the others stay as they begin
(`BreakerAlone`, `BudgetAlone`; `CallsAlone`, `CassetteAlone`, `DoublesAlone`,
`PoliciesAlone`, `FunctionsAlone`), so the state spaces add instead of
multiplying. The properties of `services` are conjunctions of
named parts, each stated above its definition: those of `CallsAccounted` in
`Instrumentation`, of `TapeFaithful` in `Cassette`, of `DoublesFaithful` in
`TestDoubles`, of `VerdictsKeepTheirPolicy` in `PolicyServer`, the others in
`FunctionProperties` or, for `RequestsAsWritten`, in `MCFunctions`:

| property of `services` | its parts |
|---|---|
| `CallsAccounted` | ranges; the gauge counts the calls under way, metrics and spans agree with what happened (but for a last attempt shown by a call that failed, see `services_spans`), hooks are paired, results are in position and one each |
| `AllCollected` | every collected call ends and so does the collector (liveness) |
| `TapeFaithful` | a request has one position and its last answer, a replay serves what was saved, plays are counted |
| `DoublesFaithful` | the script is followed, nil outcomes in it too, a reply belongs to the request recorded at its position |
| `VerdictsKeepTheirPolicy` | a verdict is of the policy whose questions were asked and counts every readable answer it weighs, an evaluation fails only for a question that was asked and answered with something else than a noul |
| `RetriesSound` | backoff clamped, delays usable, wrapping keeps an error's meaning, the retry layers agree, a cancellation stays one |
| `ProbabilitiesSound` | tails exact, bounds of the algebra, ranges of levels agree, what a bimodal score warns of |
| `PoliciesSound` | verdicts monotone and none dead, a skipped answer is a restricted policy, routes, bands, splits (disjoint unless the holdout is disabled), thresholds and weights |
| `AnswersAgree` | readers and canned answers agree, typed readings are the plain ones except on the likeliest of no levels, drift of options and levels is noticed |
| `QuestionsAgree` | six forms are one question to every consumer, builders are independent, flags build valid ones, a tool call asks what a program would write or is refused |
| `ClientsAsAsked` | settings take effect in their order, interceptors nest in theirs, a request keeps one id |
| `RequestsAsWritten` | one hash per value and no regrouping, a reference is reported exactly if it leads nowhere |
| `ToolsForetell` | estimates do not depend on map order nor undercount, no question alone costs more than the single-question figure, offline stays offline, lint foretells a refusal and doctor the exit of a run that uses the same model, what is recorded replays, a rubric made from one block means what the constants mean, no field of a generated type is lost and no method meets a named field |

Some facts need no property of their own. That a stream gives each input once and
a batch writes no slot twice is part of `GivesResults`. `TypeOK` of `BatchSeq`,
`ClientCall`, `Budget` and `ResponseCache` documents their variables and is proved
with the rest (section 5).

**Why the bounds are enough.** The breaker needs three callers so that a late
result, a probe in flight and a newcomer can coexist, and two slots so that one
can be lost and the other used. A ceiling of three and four inputs make the
limit shrink below the number in flight, hit the floor and recover with an input
still waiting. A stream of four inputs
with a buffer of two puts two results in the buffer while the slots are taken,
so the bound on what is ahead is met before the inputs run out (a buffer of one
place per input breaks it). A time budget of four ticks with
delays of up to two makes a backoff end just before, at and after it, and a
server's delay exceed the policy's cap. The budget's clock runs past two full
windows and its lifetime caps bind after its window caps. The cache's clock runs
one tick past two lifetimes, the point from which an answer would be too old,
and past the TTL after a move at the start; its memory holds fewer entries than
there are keys, so it evicts, and its disk fewer than the four keys, so it
prunes. Two calls show every order of two observers; three sessions of a
cassette are a recording, a second one over its file that a crash may cut short,
and a replay of what is left. Of the inputs:
four levels distinguish first, inner and last; a grid of quarters distinguishes
below, at and above every threshold used; three events fill the table of
`AtLeast` twice over; rubrics go one past a maximum of three; durations go up to
15 with every initial delay and cap, so that doubling reaches the cap before, at
and beyond the width; the sizes of requests stand on both sides of both
ceilings, at the code's own rate and overhead. Each property of a
passing run is violated by a plausible mistake in the code, listed under
`mutants`, within the same bounds.

**Deadlock** is not checked where the system stops: a batch that has returned,
a clock at its bound. It is checked for the breaker and the client calls, whose
clocks never stop, and for the budget, which can always be asked.

### Fairness

* `CircuitClients` (and `MCGates`): time passes, attempts end (each exchange has a timeout), and
  traffic goes on while the breaker lets it. `Reset` has no fairness: nobody has
  to call it.
* `Batch`: weak fairness of each goroutine that can run, which the Go
  scheduler gives, and of the calls they make, which have timeouts. The run on
  the watchdog leaves out the last: a call may hang. There is no fairness for
  the caller's cancellation, nor for the loop body to break.
* `BatchSeq` needs less: whenever some goroutine can run, one does (`Runs`), in
  no order in particular. Every step brings the loop nearer to its end.
* `MCServices`: the goroutine of each call runs, and so does the collector; its
  service answers, fails or times out. Nothing else in it promises an end.
* `ClientCall`: time passes and the call's own goroutine runs. The service need
  never answer, so there is none for `Succeeds` and `Fails`.

Weak fairness is enough for the limiter's mutex too: the acquirer holds it only
until its next step, and takes it again only after a broadcast, of which a batch
has finitely many, so a worker that waits for it gets it.

## 4. What the checks found

* **A half-open breaker can wedge** (`circuit_wedge`, `circuit.go:208`). A probe
  that ends in an error that is not retryable, or is cancelled, keeps its slot.
  Once all slots are gone the breaker rejects everything and nothing but
  `Reset` ends it. `RecoversUnlessLost` shows that this is the only way it
  fails to recover, and `WedgedOnlyByLostProbe` is the state form of it.
* **The watchdog's broadcast can be lost** (`batch_watchdog`, `batch.go:489`). It
  is sent without the mutex; a waiter between its look at the context and
  `cond.Wait` misses it and stays parked until an item releases its slot.
  `Returns` and `LoopEnds` show that with calls that end this delays a batch but
  does not hang it.
* **"Exhausted" without a retry** (`client_call_exhausted`, `client.go:386`). A
  context that ends during the first backoff yields the exhausted error after
  one attempt.
* **A loop leaves a goroutine behind** (`batch_seq_exits`, `batch.go:485`). The
  comment at `batch.go:341-342` says of a break that "every goroutine exits before
  the loop returns". The watchdog of an `acquire` that has returned is told to end
  but not awaited, and can end after the loop. `NothingOutlives` shows that nothing
  but such watchdogs is left, `LoopEnds` that they do end.
* **A span of an attempt that was not made** (`services_spans`,
  `typesafeotel/otel.go:200`). A last attempt is closed out after every call, also
  one that was refused before any exchange or cut off in a backoff, while
  `otel.go:64` calls a span "one HTTP attempt within a call". `TraceComplete` shows
  that there is never more than one too many and none in an answered call.
* **A second lifetime in the cache** (`cache_expiry`, `typesafecache/cache.go:360`).
  A disk hit is put into memory as of now, so it is served for up to two TTLs;
  `ServedWithinTwoTTLs` shows that it never gets a third.

Noticed while modelling, without a run of their own:

* Breaker, budget, batch, cache. The comment at `circuit.go:214` calls every
  failure of a half-open window a failed probe, but a failure of an attempt
  admitted before the window reopens the circuit as well (`EndFailure` of a
  `plain` attempt). The budget is asked once per call and not once per retry
  (`client.go:212`). `docs/TESTING.md:605-606` shows a budget of
  `MaxTotalRequests(0)` under "Refuse before any network I/O", but a cap of zero
  is no cap (`quota.go:76-77`, `quota.go:155`): it admits every request. Between `stop()` and `cancel()` of a broken range loop
  (`batch.go:424-425`) the dispatcher can go on launching. An answer of an old
  model that arrives late turns the alias back to it until the TTL is over
  (`typesafecache/cache.go:318`), which is why `MoveNoticed` counts from the move
  with the latency added.
* Retries and errors. Jitter is added after the clamp to the longest backoff
  (`retry.go:181`), and a cap in the upper half of a duration's width can be
  missed because the doubling stops first (`retry.go:163`; `BackoffClamped`
  states by how little). `errors.go:396-397` says that the header's parser never
  returns a negative duration; for a NaN or a number that does not fit the
  conversion may, and it is the `> 0` of `retryAfterFrom` that guards the sleep
  (`ServerDelayUsable`).
* Observers. The Prometheus interceptor records nothing of a call that panics, so
  its error counter misses it; the retries attribute of a span that ends in a
  panic can be one less than the attempts shown. `middleware.go:259-260` says
  the request id is logged beside every message, but the client's own log calls
  do not carry it.
* Cassettes. `cassette.go:22-23` calls two recordings byte-identical; concurrent
  workers may be seen in another order. A recording command whose request is
  refused before it is sent still saves, and empties a cassette that was there
  (`cmd/typesafe/commands.go:408`). A recorded failure that replays perfectly
  exits as a replay that differed (`commands.go:466-480`).
* Mock. `mock.go:52-54` says of a new mock that "with nothing programmed it answers
  every request with an empty answer set"; `SystemOne` looks up a standing answer
  for each question, and with none every request that validates gets the error of
  `mock.go:143` (`Unscripted`).
* MCP. `AddPolicy` (`mcp.go:160`) checks that a policy weighs only questions it
  asks, not that they are nouls: a policy that weighs a choice is registered and
  then fails in every evaluation, or counts it as missing (`Fails`).
* Decisions. `algebra.go:109` calls `MinAll` "a conservative lower bound on All";
  the least of several probabilities is an upper bound of their product, as the
  comment's own 0.9 against 0.729 and `algebra_test.go:312-319` say and
  `AlgebraSound` checks. `calibrate.go:231` calls the split one by stride; it takes the
  beginning for training and the end for judging. A report's weights may be
  empty, which no policy accepts. Policies and bands with equal thresholds
  validate, and leave a verdict that nothing reaches.
* Answers and questions. Of a score answer without levels the typed reading of
  the likeliest names level zero with probability zero (`typed.go:500-502`) where
  the plain one says -1 (`score.go:156-158`). A typed score answer whose legend is missing reads as
  the lowest level (`typed.go:432`). Flags that name one id twice keep the last
  (`cmd/typesafe/request.go`), and `a,a` counts as two options.
* State paths. A path that does not parse is not reported, although the package
  says that a misspelled one surfaces; a key with a dot cannot be referred to.
* Estimates. `budget.go:154` says "Marshal exactly what will be sent", but the
  model filled in is `DefaultModel` (`budget.go:161`), where the client fills in
  its own default (`client.go:192`): with a longer name fewer bytes are counted
  than sent. `NeverUnderCounts` says what remains true.
* Doctor. The flag's help calls the timeout one "per-check" (`doctor.go:28`); one
  deadline spans all checks (`doctor.go:34`).
* Generator. `main.go:375-377` says a score enum split over two blocks numbers
  continuously. A second block with the literals that continue the first is
  refused, and one that starts again at iota is accepted although Go gives its
  constants the values from zero: the constructor made from it is refused by
  `validateSelf` (`typed.go:365-374`) before anything is sent. `main.go:341` says
  that every constant of the named type is found; one that has the type from its
  value, `const X = T(3)`, is skipped (`main.go:391-401`). `main.go:300-302` says
  the accessors must not collide with any field; an embedded one has no name in
  the syntax (`main.go:307`) and is not compared. `RubricMeant` and
  `EveryFieldAsked` leave these cases out.

## 5. Proofs

Eight modules prove for every value of the constants what TLC checks on the
instances above. They assume only the named assumptions of the modules they
extend (`BreakerAssumption`, `CallersAssumption`, `LimiterAssumption`,
`BatchAssumption`, `BatchSeqAssumption`, `CallAssumption`, `BudgetAssumption`,
`CacheAssumption`, `CallsAssumption`, `DurationAssumption`,
`ProbabilityAssumption`, `SignalAssumption`, `SetupAssumption`,
`LevelAssumption`, `PriceAssumption`, `OutcomesAssumption`): ranges of numbers (a rubric of one level is not too short, a token costs something,
the default timeout is not zero), finiteness of
the set of calls and of the questions a policy may weigh, that a set the model
chooses from is not empty, that a duration has a two's complement range and that
a NaN and a key that is no number are outside the numbers used. `OutcomesAssumption` keeps the stand-ins for a nil outcome and for none
apart from the replies. One theorem has a hypothesis of its own about values that
stand for Go types, `ResponsesApart` ("none" is not a response). Those about state machines have the
same shape: an inductive invariant `IInv`, one lemma per action that it is
preserved, `NextIInv` that joins them, and a theorem for each property. Those
about functions are of the form `InputSane => …Sound`: one theorem for each part
and one that joins them (`RetriesAreSound`, `ProbabilitiesAreSound`,
`PoliciesAreSound`, `ClientsDoAsAsked`, `QuestionsDoAgree`, `AnswersDoAgree`,
`ToolsDoForetell`).

**Breaker.** `ClosedMeansFewFailures` and the type invariant are inductive as
they stand once the window is described: `WindowInv` says that in a half-open
window the slots handed out are those in flight, the successes counted less the
late ones, and the lost ones, and that outside a window no attempt is a probe of
it; without it a success could be counted for a slot never handed out. `RestInv`
relates the stamped age to the true time since opening: the stamp is never more
than `ClockLag` ahead. From these follow that slots are accounted for, that only
lost probes wedge the breaker, and the action property that it rests in full.

**Batch.** `LimiterConsistent` needs `SlotInv` and `LaunchInv`: which goroutines
exist is decided by `next`, and what a slot holds by its goroutine's phase and by
whether the sweep has passed. The number of running goroutines is a cardinality;
three lemmas say how it changes when one starts, ends or moves on. The action
properties `NoLaunchOverLimit` and `SlotsFinal` follow from the invariant and one
step.

**Budget.** `RequestsPerMinuteHold` and `TokensPerSecondHold` speak of the whole
history, which the code does not keep. `EndsLog` and `EventsEndLog` connect the
two: each window is the end of the history, and whatever it has dropped is
already older than the window. `Evicted` shows that `evictLocked` keeps this,
relying on `LogInv` (the history is in time order). When a request is admitted,
the window has room, so the event a full cap earlier is not in it, hence
dropped, hence too old to count: that is the request cap. The token cap needs
sums: `SumRec`, `SumSame`, `SumShifted` and `SumOfPart` say what a sum over a
finite set of events does when one is added, when they are renumbered, and when
some are left out, by induction in the form of a smallest counterexample
(`Least`, `SmallestSubset`). `SecondOfAppend` then gives the tokens of a second
after an admission. `WindowsDecideAsHistory` puts both together: with the same
history, the windows admit and refuse exactly as `QuotaGate` does
(`WindowsDecide`), so every step of `Budget` is one of `QuotaGate` or leaves its
variables alone.

**Batches refine.** `BatchGivesResults` shows that `Batch` implements
`ItemResults` for any number of inputs: from the invariant, a step that fills
slots fills only those that were zero (`SlotsStayFinal`), which is a `Give`; a
return finds none of them zero, which is the `End`; every other step leaves
results and phase alone.

**Streams.** `IInv` of `BatchSeqProofs` has, besides the types, `AcquireInv`
(slots in use are goroutines that hold one), `StageInv` (what each position of
the dispatcher and of the loop implies of the others), `LaunchInv` (the workers
launched are those before `next`) and `SentInv`: a result is sent, that is in the
buffer or yielded, at most once, never while somebody is still to send it, and
until the loop is left whatever nobody is to send has been sent. That nothing
outlives the loop but a watchdog that was told to end, and nobody sends after the
close, are then a matter of `StageInv`. `StreamIsBoundedAhead` counts: a launched
input is yielded, in the buffer, which has `Ceiling` places, or with a goroutine
that holds one of the slots in use. `StreamGivesResults` is the refinement of `ItemResults`:
a yield gives a result that was missing, and a loop that ends by itself has
sent and received all of them.

**Client calls.** The invariant of one call is `Good`: an attempt is left at the
gate and in a sleep, the server's delay is covered by the sleep and over at the
gate, and a sleep ends before the budget. It needs nothing about the breaker but
its types, so it holds whatever other calls do to it. `RetryAftersAreHonored`
adds that only an admitted attempt counts as made.

**Cache.** What must be known of an entry is what its key and its age say of its
answer: `TiersInv` keeps both tiers' entries under their own answer's key, those
on disk dated while the answer arrived, those in memory up to one lifetime later,
which is the promotion. `TaskInv` carries this through the steps of a requester;
time may pass anywhere between them. `AliasInv` and `ModelInv` relate
the alias, an answer under way and a lookup to the time the service left their
version (`Lagging`): the answer is older than the move, the mapping was learned
at most a latency later, the lookup trusted it for a TTL. The lemmas before them
are about the sequence operators that the tiers are built from (`RemoveAt`,
`Without`, the front kept by `LruPut`, the stretch kept by `Prune`): what they
keep was there before, and no key comes twice.

**Observers.** `CallsAccounted` relates a gauge and counters to numbers of calls.
`CountStep` says how the size of a set of calls changes when one call moves;
`CountedStep` and `RetriesStep` apply it to the gauge, to each counter and to the
retries. `StageInv`, `SpanInv`, `HookInv` and `ChanInv` give what the spans, the
hooks and the channel of a call hold at each of its positions, on its way in and
out, with a panic or without; the parts of `CallsAccounted` about finished calls
are these at the last position.

**Delays and errors.** In `FunctionProofs`. `backoff` doubles in a loop; `DoubledOrStuck` compares the loop with doubling in
unbounded numbers, by a smallest counterexample on the number of the retry: the
two agree until the loop stops for good, and from then on the ideal delay is at
least twice the stuck one. `BackoffsAreClamped` reads the clamp off that.
`JitterBounds` carries the bounds of a percentage through the truncated division
of `Jittered`; `DelaysAreUsable` adds what a conversion that does not fit gives.
For errors, `SameMeaning` says that a kind no consumer asks for changes nothing
to any of them, which gives `WrappingKeepsTheMeaning` for chains of every length,
and `KindsOfFailure` bounds what a failure can be by how it was raised, an API
error by its status, which gives `LayersAgreeOnFailures` for every status and not
only those a run gives.

**Algebra.** `AtLeast` and `Exactly` are computed by a table that is overwritten
from the end, and promised to be sums over all the ways events can fall.
`Recursion` gives every loop of the module its sequence of values; `RowStep` and
`RowEnds` say what one row of the table becomes of the one before, `WayStep` what
the ways of `n` events are in terms of those of `n - 1` (without the last event,
or with it), and `RowIsWays` joins the two by induction on the number of events:
the k-th cell is the sum of the products over the sets of k events. `TailsSum`
adds the cells from k upwards, with the lemmas on sums that `ClientProofs` uses
too. `ProductBounds`, that a product of parts of a whole lies between the bounds
that need no independence, gives `AlgebraIsSound`; probabilities that are too
large, negative or no number are among the inputs.

**Score answers.** The levels are the keys of a map. `LevelsInOrder` says what the
sorted keys are when a distribution is whole, and from `LevelSums` it follows that
the ways to ask for a range of levels agree (`RangesAlwaysAgree`). `NearestIs` and
`MostLikelyIs` characterise the two readings that `BimodalAlwaysMisleads` compares.

**Policies, routes, bands, calibration.** Verdicts are monotone because a weighted
sum with weights that are not negative is (`SumMonotone`, `SumScaled`), and so is
clamping (`ClampMonotone`) and the choice of the most severe threshold reached
(`MostSevere`). Skipping what is missing sums over a subset and divides by the
weights of that subset, which is the policy restricted to it (`SumSame`). A split
into training and held-out examples is described outcome by outcome
(`OutcomeIsSound`); that `Threshold` is the lowest of the most accurate ones is an
invariant of its scan.

**Settings.** These and what follows are in `ClientProofs`, as is the budget.
`Recursion` gives the settings after each option. `LastStep` says
that an option either is the last of its kind so far or changes nothing of that
kind; from it the loop over the options and the property, which looks for the last
one, agree setting by setting (`SettingsAreSound`), and what a client is refused
for is what would leave one of them blank. `ChainIs` unfolds the loop that wraps
from the last interceptor inwards; `InterceptorsNest` adds that the options append
in their order (`GoOnAlike`: two recursions with the same start and steps are the
same). `OneIdTiesTheCalls` follows one request through header, context and header
again.

**Questions.** Validation is a conjunction over the texts of a question, and so are
its warnings, its label and its wire form; `FormsOfAQuestionAgree` shows for each
wrapping that those texts are the same, and `ReadsBack` that the wire form decodes
to what was encoded. Builders share arrays as Go's slices do. The invariant of a
script of builders (`Rubrics`) is that the array of each builder holds, up to that
builder's length, the levels on its own path, although another may have appended to
the same array: this holds because `Level` copies before it appends.
`FlagsMakeValidQuestions` goes through the pieces between the commas.

**Answers.** A ranking is whatever sequence lists the options in order; the model
chooses one, so it must be shown that there is one. `Listed` builds it for any
finite set with a strict order by counting what comes before each member, and
`AllListed` says, by the pigeonhole principle, that an injective list of full length
misses none; `RankedIs` and `KeysInOrder` apply them to options and levels.
`BuiltChoiceIs` and `TypedMostLikelyIs` are invariants of the two scans for the
best. `OneLeads` says that two first-ranked options are one, whence
`CannedChoicesLead` in whatever order the map is walked. `WholeScoreIs` and
`CertainScore` say what is read off a distribution that is all on one level, for
`LevelsMeanTheirConstants`.

**Estimates, commands, the generator.**
`OneIsDearest`: only one question is longest, and first of those in
the order of their ids; `LongestIs` follows the scan over any order of the map and
finds that one, so the estimate is settled. A question asked alone has a smaller
envelope, for which `SinglesAreDearest` allows: it costs no more than the figure
for a single question, and the named one less by no more than the other ids. `EstimatesCoverTheCost` is then the arithmetic of the rounded-up rate. A
command is a sequence of returns of which the first that applies decides; `RunIs`,
`ReplayIs` and their like say what each comes to, for every invocation and every
world, and the properties compare two of them. For the generator, `FoundIs` says
that the constants it collects are all those of the type, in order (`Listed` again),
and `RankOfListed` that the position of a constant is the number of those before it;
`CurrentTypeIs` and `WrittenIs` compare the type the generator carries down a block
with Go's repetition of the last pair written. The two agree in a package that
compiles on every constant whose type is written, whence none of these is left
out, and in a package of one block an accepted rubric is numbered as Go numbers
it. `MethodNamesDiffer` and `ManyMethods` count the names that are generated.

**Policy store, test doubles, cassettes.** These are in `ServicesProofs`.

* A tool call works on a specification that was registered when it looked;
  `AddPolicy` admits only those that weigh no question they do not ask
  (`SoundSpec`), and the service answers all questions of that specification:
  the verdict is of the same one, and what can be missing is an answer that is
  there and is not a noul.
* `DoublesIInv`: `Got` counts the queued outcomes taken, so the script is
  followed in order, a nil outcome taking its turn; `Numbered` ties each pending or replied request of the
  server to the position under which it was recorded, whatever order the replies
  are written in.
* `TapeIInv`: the order of a tape has each key once, and exactly the keys that
  have an answer (`Kept`); each answer is the last one added under its key
  (`LastAdded`); what is on disk is the beginning of what was saved, whenever the
  process died (`Begins`). `LoadRestores` shows that loading what
  Save wrote gives the lines back, again by a smallest counterexample, on the
  number of lines.

**Only model-checked**, because out of the provers' reach:

* liveness (`RecoversUnlessLost`, `Returns`, `LoopEnds`, `CallReturns`,
  `AllCollected`), which needs fairness and `ENABLED`;
* `RequestsAsWritten`: `Canonical` and `StatePaths` declare recursive operators on
  JSON values, which no module with proofs may reach.

## 6. Not modelled

`PROJECT.json` lists every component. The linters analyse Go syntax trees and
keep no state; examples, deployment files and scripts are assets; the gin, echo,
fiber and LangChain adapters hand values on. Inside the modelled components these
are left out: formatting and rendering, logging, callbacks' effects, the counters
and the observer of the cache, corrupt cache files, panics in the loop body of a
stream, redaction in cassettes, histograms and span attributes, the escapes of
JSON strings, the gradient steps of the logistic fit (the coefficients they may
end with are inputs instead), and floating-point rounding, for which exact
arithmetic on a grid stands. That a string with certain characters is not taken
for a path (`statepath.go:177-179`) is in the choice of names that `StatePaths`
gives to paths. A policy's `MissingIsDefault` counts zero, because `policy.go:196`
gives it no default.

## 7. Plan

1. Done: breaker, limiter, both batches with their abstract promise, retry loop,
   budget, cache; asynchronous calls with their observers, cassettes, test
   doubles, policy store; the pure functions of errors, delays, decisions,
   questions, answers, settings, sizes, byte forms, paths, commands and the
   generator; proofs about the breaker, both batches and their refinements, the
   client call, the budget's windows and their refinement, the cache, the
   observers, the policy store, the cassette, the test doubles, delays, errors, the
   algebra of probabilities, score answers, policies, routers, bands,
   calibration, settings, questions, answers, estimates, commands and the generator.
2. Models to come: a stack of cache, budget and retry loop in one call; a loop
   body that panics.
