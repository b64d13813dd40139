------------------------------- MODULE Answers -------------------------------
(***************************************************************************)
(* Reading the answers of a response: the accessors, the wrappers typed by *)
(* a program's own constants, and the consumers that go through every      *)
(* answer (metrics, traces, the MCP tool, the LangChain tool), with the    *)
(* answers that the test server builds.                                    *)
(*                                                                         *)
(* A response is a function from ids to raw answers: the type the          *)
(* discriminator names, whether the rest decodes, and the fields.  Options *)
(* are numbers in the order of their names; levels are those of Probability. *)
(***************************************************************************)
EXTENDS Probability

Primitives == {"noul", "choice", "score"}
NoConfidence == -1

(* Noul, Choice and Score: why an accessor refuses, or that it answers.     *)
Read(resp, id, want) ==
    CASE id \notin DOMAIN resp -> "no such answer"
      [] id \in DOMAIN resp /\ resp[id].type # want -> "wrong type"
      [] id \in DOMAIN resp /\ resp[id].type = want /\ ~resp[id].decodes -> "undecodable"
      [] OTHER -> "ok"

(* Answer takes the accessor that the discriminator names.                  *)
Answer(resp, id) ==
    IF id \in DOMAIN resp /\ resp[id].type \notin Primitives THEN "unknown type"
    ELSE IF id \in DOMAIN resp THEN Read(resp, id, resp[id].type)
    ELSE "no such answer"

All(resp) == {id \in DOMAIN resp : Answer(resp, id) = "ok"}
Grouped(resp, type) ==
    {id \in DOMAIN resp : resp[id].type = type /\ Read(resp, id, type) = "ok"}

(* Absent for a noul, rather than zero.                                     *)
Confidence(resp, id) ==
    IF Answer(resp, id) = "ok" /\ resp[id].type # "noul"
    THEN resp[id].confidence ELSE NoConfidence

(* What the tools return: each answer that reads, its type, its value or    *)
(* probability, and its confidence unless it is a noul.                     *)
Summarize(resp) ==
    [id \in All(resp) |->
        [type |-> resp[id].type,
         confidence |-> IF resp[id].type = "noul" THEN NoConfidence
                        ELSE resp[id].confidence]]

(* What the metrics and the traces record of each answer: the probability   *)
(* of a noul, the confidence of the others.                                 *)
Observed(resp) ==
    [id \in All(resp) |->
        <<resp[id].type, IF resp[id].type = "noul" THEN resp[id].noul
                         ELSE resp[id].confidence>>]

-----------------------------------------------------------------------------
(* A choice: Ranked, by probability and then by name, and Margin.           *)
Better(p, q, x, y) == p > q \/ (p = q /\ x < y)
Ranked(a) ==
    LET p == a.probabilities IN
    CHOOSE s \in [1..Cardinality(DOMAIN p) -> DOMAIN p] :
        \A i, j \in DOMAIN s : i < j => Better(p[s[i]], p[s[j]], s[i], s[j])
Margin(a) ==
    CASE Len(Ranked(a)) = 0 -> 0
      [] Len(Ranked(a)) = 1 -> a.probabilities[Ranked(a)[1]]
      [] OTHER -> a.probabilities[Ranked(a)[1]] - a.probabilities[Ranked(a)[2]]

(* The test server's Choice takes the best option while it ranges over the  *)
(* map, in whatever order.                                                  *)
BuiltChoice(p, order) ==
    LET best[i \in 0..Len(order)] ==
            IF i = 0 THEN 0
            ELSE IF best[i - 1] = 0
                    \/ Better(p[order[i]], p[best[i - 1]], order[i], best[i - 1])
                 THEN order[i] ELSE best[i - 1]
    IN best[Len(order)]

(* And its Score weighs the levels, with none for those not given.          *)
BuiltScore(levels, ps) ==
    LET p(i) == IF i < Len(ps) THEN ps[i + 1] ELSE 0 IN
    [levels |-> levels, legendParses |-> TRUE,
     score |-> SumFunction([i \in 0..(levels - 1) |-> i * p(i)]),
     probabilities |-> [i \in 0..(levels - 1) |-> p(i)]]

-----------------------------------------------------------------------------
(* Questions typed by a program's constants.  TypedChoice collects options  *)
(* into a map; validateSelf finds one declared twice.                       *)
Criteria(options) == ToSet(options)
TypedChoiceValid(options) ==
    Len(options) = Cardinality(Criteria(options)) \/ IsInjective(options)

(* TypedScore keeps the labels; each must be its position.                  *)
TypedScoreValid(levels) == \A i \in DOMAIN levels : levels[i] = i - 1

(* Exhaustive: no option outside the allowed ones, unless none are given.   *)
ExhaustiveByMap(a, allowed) ==
    allowed = {} \/ DOMAIN a.probabilities \subseteq allowed
Exhaustive(a, allowed) ==
    allowed = {} \/ (DOMAIN a.probabilities \cup {a.choice}) \subseteq allowed
TypedChoiceAnswer(options, a) ==
    [error |-> ~Exhaustive(a, ToSet(options)), choice |-> a.choice]

(* A typed score answer: a key that is no number is an error, and without a *)
(* legend the level stays the zero value.                                   *)
TypedLevel(a) == IF Nearest(a) >= 0 THEN Nearest(a) ELSE 0
TypedScoreAnswer(a) ==
    [error |-> Unparsed \in LevelKeys(a) \/ ~a.legendParses,
     level |-> TypedLevel(a), probabilities |-> a.probabilities]

(* Its MostLikely scans the levels upwards and keeps the first best; of no   *)
(* levels it returns level zero.                                            *)
TypedMostLikely(t) ==
    LET keys == SortedIndexKeys(t)
        best[i \in 0..Len(keys)] ==
            IF i = 0 THEN -1
            ELSE IF best[i - 1] = -1
                    \/ t.probabilities[keys[i]] > t.probabilities[best[i - 1]]
                 THEN keys[i] ELSE best[i - 1]
    IN IF keys = <<>> THEN 0 ELSE best[Len(keys)]
TypedAtOrAbove(t, level) ==
    Mass(t, {k \in DOMAIN t.probabilities : k >= level})

-----------------------------------------------------------------------------
(* Everyone who goes through a response sees the same answers: All is the   *)
(* groups of the accessors, each answer in one of them; and whoever reports *)
(* a confidence reports it for the same ids, never for a noul.              *)
ConsumersAgreeFor(resp) ==
    /\ All(resp) = UNION {Grouped(resp, t) : t \in Primitives}
    /\ \A s, t \in Primitives : s # t => Grouped(resp, s) \cap Grouped(resp, t) = {}
    /\ \A id \in DOMAIN resp :
          /\ Confidence(resp, id) # NoConfidence
                <=> id \in Grouped(resp, "choice") \cup Grouped(resp, "score")
          /\ id \in All(resp) =>
                Summarize(resp)[id].confidence = Confidence(resp, id)
          /\ id \in Grouped(resp, "choice") \cup Grouped(resp, "score") =>
                Observed(resp)[id][2] = Confidence(resp, id)

(* A choice built for a test is the one that every reading ranks first, in  *)
(* whatever order its map was walked, and no margin is negative.            *)
BuiltChoiceLeadsFor(probabilities) ==
    LET a == [probabilities |-> probabilities] IN
    DOMAIN probabilities # {} =>
        /\ \A order \in SetToSeqs(DOMAIN probabilities) :
              BuiltChoice(probabilities, order) = Ranked(a)[1]
        /\ Margin(a) \in 0..probabilities[Ranked(a)[1]]

(* The typed reading of a score answer is the plain one, wherever both      *)
(* exist and some level was answered: none is lost, moved or added by the   *)
(* type.  Where none was, the two differ: the plain reading says so with    *)
(* -1, and the typed one names level zero, as if it were the likeliest.     *)
TypedReadsSameFor(a) ==
    LET t == TypedScoreAnswer(a) IN
    ~t.error =>
        /\ IF LevelKeys(a) # {} THEN TypedMostLikely(t) = MostLikely(a)
           ELSE TypedMostLikely(t) = 0 /\ MostLikely(a) = -1
        /\ \A k \in -1..a.levels : TypedAtOrAbove(t, k) = AtOrAbove(a, k)
        /\ a.levels > 0 => t.level = Nearest(a)

(* A typed question that validates cannot give an answer its program has no *)
(* case for: the choice is one of the declared ones.                        *)
DriftNoticedFor(options, a) ==
    TypedChoiceValid(options) /\ options # <<>>
    /\ ~TypedChoiceAnswer(options, a).error =>
        \E i \in DOMAIN options : options[i] = TypedChoiceAnswer(options, a).choice

(* The server scores the texts of a rubric by position; the level a program *)
(* reads off its answer is the constant that it declared with that text.    *)
LevelMeantFor(levels) ==
    LET only(i) == [j \in DOMAIN levels |-> IF j = i THEN D ELSE 0]
        read(i) == TypedScoreAnswer(BuiltScore(Len(levels), only(i)))
    IN TypedScoreValid(levels) =>
          \A i \in DOMAIN levels :
              /\ read(i).level = levels[i]
              /\ TypedMostLikely(read(i)) = levels[i]
=============================================================================
