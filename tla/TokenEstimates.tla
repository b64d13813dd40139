---------------------------- MODULE TokenEstimates ----------------------------
(***************************************************************************)
(* The pre-flight estimate of a request's input tokens (budget.go and       *)
(* internal/tokens): what is counted against the whole-request ceiling,     *)
(* what against the single-question one, and which question is named.       *)
(*                                                                         *)
(* A request is the byte sizes of its parts: the state, each question by    *)
(* id (a positive integer), the key it is sent under with its colon and     *)
(* comma, and the model it names, 0 if none; Unencodable stands for a part  *)
(* that json.Marshal refuses.  The rate is the fraction RateNum/RateDen of  *)
(* a token per byte, 413/1000 in the code.                                  *)
(***************************************************************************)
EXTENDS Integers, FiniteSets, Sequences, SequencesExt

CONSTANTS FixedOverhead, RateNum, RateDen, Unencodable, DefaultModelBytes,
          MaxContextTokens, MaxSingleQuestionTokens, DefaultRate

Sum(f) == SumFunction(f)
Encodes(r) == r.state # Unencodable /\ \A id \in DOMAIN r.questions : r.questions[id] # Unencodable

\* The bytes of the whole with a model written into it.  The braces and names of the
\* three fields take 34, and the last question has no comma.
Frame(r) == IF DOMAIN r.questions = {} THEN 34 ELSE 33
Around(r, model) == Frame(r) + model + Sum(r.keys)
Bytes(r, model) == Around(r, model) + r.state + Sum(r.questions)

\* EstimateTokens writes the package's default into a request that names no model,
\* and systemOne the default of its client.
Named(r, default) == IF r.model = 0 THEN default ELSE r.model
Sent(r, default) == Bytes(r, Named(r, default))

\* What EstimateTokens hands over: a part that does not encode counts no bytes.
Sizes(r) ==
    LET encoded == {id \in DOMAIN r.questions : r.questions[id] # Unencodable}
    IN [full |-> IF Encodes(r) THEN Sent(r, DefaultModelBytes) ELSE 0,
        state |-> IF r.state = Unencodable THEN 0 ELSE r.state,
        questions |-> [id \in encoded |-> r.questions[id]]]

TokensFor(bytes) == IF bytes <= 0 THEN 0 ELSE (bytes * RateNum + RateDen - 1) \div RateDen

\* Mutant: the first of equally long questions that the map yields is kept.
LongerFirst(n, best, id) == n > best.bytes
Longer(n, best, id) == n > best.bytes \/ (n = best.bytes /\ id < best.id)

\* The question that drives the estimate, the map being iterated in the given order.
Longest(questions, order) ==
    LET best[i \in 0..Len(order)] ==
            IF i = 0 THEN [id |-> 0, bytes |-> 0]
            ELSE IF Longer(questions[order[i]], best[i - 1], order[i])
                 THEN [id |-> order[i], bytes |-> questions[order[i]]]
            ELSE best[i - 1]
    IN best[Len(order)]

Envelope(s) ==
    LET rest == s.full - s.state - Sum(s.questions) IN IF rest < 0 THEN 0 ELSE rest

Total(s) == FixedOverhead + TokensFor(s.full)

Estimate(r, order) ==
    LET s == Sizes(r)
        longest == Longest(s.questions, order)
        total == Total(s)
        single == FixedOverhead + TokensFor(s.state + longest.bytes + Envelope(s))
    IN [total |-> total, longestSingle |-> single, longestQuestionID |-> longest.id,
        exceedsTotal |-> total > MaxContextTokens,
        exceedsSingle |-> single > MaxSingleQuestionTokens]

Err(e) == CASE e.exceedsTotal -> "total" [] e.exceedsSingle -> "single" [] OTHER -> "none"

Price(rate) == IF rate <= 0 THEN DefaultRate ELSE rate
EstimateCost(r, order, rate) == Estimate(r, order).total * Price(rate)

-----------------------------------------------------------------------------
Orders(r) == SetToSeqs({id \in DOMAIN r.questions : r.questions[id] # Unencodable})
Alone(r, id) ==
    [r EXCEPT !.questions = [i \in {id} |-> @[id]], !.keys = [i \in {id} |-> @[id]]]

\* The estimate is a function of the request: whatever order Go ranges over the
\* question map in, the same question is named and the same ceiling reported.
LongestSettledFor(r) ==
    \A o1, o2 \in Orders(r) : Estimate(r, o1) = Estimate(r, o2)

\* No question would cost more than the single-question figure if it were asked alone,
\* so a request within that ceiling stays within it however it is cut.  The figure is
\* no more than the whole request's, and above what the question it names costs alone
\* by no more than the keys of the others, which are counted in its envelope.
SingleIsDearestAloneFor(r) ==
    Encodes(r) /\ DOMAIN r.questions # {} =>
        \A order \in Orders(r) :
            LET e == Estimate(r, order)
                alone(id) == Estimate(Alone(r, id), <<id>>)
                others == Sum(r.keys) - r.keys[e.longestQuestionID]
            IN /\ \A id \in DOMAIN r.questions : alone(id).total <= e.longestSingle
               /\ e.longestSingle <= e.total
               /\ e.longestSingle <= alone(e.longestQuestionID).total + TokensFor(others)
               /\ ~e.exceedsSingle =>
                    \A id \in DOMAIN r.questions : ~Estimate(Alone(r, id), <<id>>).exceedsSingle

\* The estimate never falls below the measured cost of the bytes it counts, 239 tokens
\* and 0.331 per byte, nor a quarter above it and a token; and so does the money, at
\* the price asked for or the published one.  The bytes that are sent cost no more
\* either, unless the client fills in a model whose name is longer than the package's.
NeverUnderCountsFor(r, rate, default) ==
    Encodes(r) =>
        LET measured(bytes) == 239000 + 331 * bytes
            counted == measured(Sizes(r).full)
        IN \A order \in Orders(r) :
             LET e == Estimate(r, order) IN
             /\ 1000 * e.total >= counted
             /\ 4 * 1000 * e.total <= 5 * counted + 8000
             /\ 1000 * EstimateCost(r, order, rate) >= counted * Price(rate)
             /\ EstimateCost(r, order, rate) > 0
             /\ (r.model # 0 \/ default <= DefaultModelBytes) =>
                    1000 * e.total >= measured(Sent(r, default))
=============================================================================
