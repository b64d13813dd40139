------------------------------- MODULE Decisions ------------------------------
(***************************************************************************)
(* Weighted policies, bands, routers and the calibration of weights, from   *)
(* the decision package.  Scores and thresholds are in parts of D, weights  *)
(* are integers, and a normalized score is compared without dividing.       *)
(***************************************************************************)
EXTENDS Probability

(* Explain: what each weighted question of a composition contributes.  An   *)
(* answer that cannot be read as a noul, for whatever reason, goes by the   *)
(* missing policy.                                                          *)
Value(w, answers, id) ==
    Clamp(IF id \in DOMAIN answers THEN answers[id]
          ELSE IF w.onMissing = "default" THEN w.default ELSE 0)
Termed(w, answers) ==
    IF w.onMissing = "skipped"
    THEN DOMAIN w.weights \cap DOMAIN answers ELSE DOMAIN w.weights
Explain(w, answers) ==
    [ok |-> w.onMissing # "error" \/ DOMAIN w.weights \subseteq DOMAIN answers,
     total |-> SumFunction([id \in Termed(w, answers) |->
                               w.weights[id] * Value(w, answers, id)]),
     weightSum |-> SumFunctionOnSet(w.weights, Termed(w, answers))]

(* The score is at or above a threshold.                                    *)
Reaches(policy, trace, t) ==
    trace.total >= t * IF policy.normalize /\ trace.weightSum # 0
                       THEN trace.weightSum ELSE 1

Verdicts == <<"warn", "review", "block">>
Rank(verdict) == CHOOSE i \in 0..3 :
    (i = 0 /\ verdict = "allow") \/ (i > 0 /\ Verdicts[i] = verdict)

(* Thresholds are tried from the most restrictive down.                     *)
Verdict(policy, trace) ==
    LET on == {i \in 1..3 : policy.above[i] > 0
                            /\ Reaches(policy, trace, policy.above[i])}
    IN IF on = {} THEN "allow" ELSE Verdicts[Max(on)]

(* Evaluate makes its composition from the policy, which has no default to  *)
(* give it: under "default" too a missing answer counts zero.               *)
Composition(policy) ==
    [weights |-> policy.weights, onMissing |-> policy.onMissing, default |-> 0]
Evaluate(policy, answers) ==
    LET trace == Explain(Composition(policy), answers)
    IN IF trace.ok THEN Verdict(policy, trace) ELSE "error"

(* Validate: some weight, none negative, and enabled thresholds in order.   *)
Ordered(above) ==
    \A i, j \in 1..3 : i < j /\ above[i] > 0 /\ above[j] > 0 => above[i] <= above[j]
WeightsAllowedSigned(weights) == DOMAIN weights # {}
WeightsAllowed(weights) == DOMAIN weights # {} /\ \A id \in DOMAIN weights : weights[id] >= 0
Validate(policy) == WeightsAllowed(policy.weights) /\ Ordered(policy.above)

-----------------------------------------------------------------------------
(* Bands of confidence.                                                     *)
Classify(bands, confidence) ==
    CASE confidence >= bands.act -> "act"
      [] confidence < bands.act /\ confidence >= bands.confirm -> "confirm"
      [] OTHER -> "escalate"
BandsValid(bands) == bands.confirm <= bands.act
ClassifyAnswer(bands, a) ==
    IF a.type \in {"choice", "score"} THEN Classify(bands, a.confidence)
    ELSE "escalate with error"

(* Route: an answer of too little confidence goes to the fallback, or       *)
(* nowhere, before its option is looked at.                                 *)
Fallback(router) == IF router.hasFallback THEN "fallback" ELSE "error"
Route(router, a) ==
    IF router.minConf > 0 /\ a.confidence < router.minConf THEN Fallback(router)
    ELSE IF a.choice \in DOMAIN router.routes THEN router.routes[a.choice]
    ELSE Fallback(router)
Unrouted(router, a) == a.options \ DOMAIN router.routes

-----------------------------------------------------------------------------
(* Calibrate.  The defaults of its options: a holdout is a fraction in      *)
(* quarters, none a quarter, and one below zero holds nothing out.          *)
LeastExamples(minExamples) == IF minExamples <= 0 THEN 30 ELSE minExamples
Share(holdout) == IF holdout = 0 THEN 1 ELSE holdout

(* The first split examples train and the rest are held out.                *)
Split(n, share) == IF share > 0 THEN Max({1, (n * (4 - share)) \div 4}) ELSE n

(* Its refusals, in order, and otherwise what is fitted and on what it is   *)
(* judged.                                                                  *)
Calibrate(labels, complete, questions, minExamples, holdout) ==
    LET n == Len(labels)
        positives == Cardinality({i \in 1..n : labels[i]})
        least == LeastExamples(minExamples)
        split == Split(n, Share(holdout))
    IN CASE questions = 0 -> [error |-> "no questions"]
         [] questions > 0 /\ n < least -> [error |-> "too few"]
         [] questions > 0 /\ n >= least /\ ~complete ->
               [error |-> "missing answer"]
         [] questions > 0 /\ n >= least /\ complete
            /\ positives \in {0, n} -> [error |-> "one label"]
         [] OTHER ->
               [error |-> "none", train |-> 1..split, hold |-> (split + 1)..n,
                judged |-> IF split < n THEN (split + 1)..n ELSE 1..split]

(* normalizePositive: weights from the positive coefficients.               *)
NormalizePositive(coef) ==
    LET kept == {id \in DOMAIN coef : coef[id] > 0} IN [id \in kept |-> coef[id]]

(* bestThreshold scans the cutoffs upwards and keeps the first best; with   *)
(* no examples it stays at one half.                                        *)
AccuracyAt(ps, labels, t) == Cardinality({i \in DOMAIN ps : (ps[i] >= t) = labels[i]})
MoreAccurate(acc, best) == acc > best
Cutoffs == [i \in 1..(D - 1) |-> i]
BestThreshold(ps, labels, candidates) ==
    LET acc(t) == AccuracyAt(ps, labels, t)
        best[i \in 0..Len(candidates)] ==
            IF i = 0 THEN -1
            ELSE IF best[i - 1] = -1 \/ MoreAccurate(acc(candidates[i]), acc(best[i - 1]))
                 THEN candidates[i] ELSE best[i - 1]
    IN IF ps = <<>> THEN D \div 2 ELSE best[Len(candidates)]

-----------------------------------------------------------------------------
(* A policy that passes Validate is monotone: more of any signal never      *)
(* leads to a milder verdict.                                               *)
VerdictMonotoneFor(policy, low, high) ==
    Validate(policy) /\ DOMAIN low = DOMAIN high
    /\ (\A id \in DOMAIN low :
           NotANumber \notin {low[id], high[id]} /\ low[id] <= high[id])
    /\ Evaluate(policy, low) # "error" =>
        Rank(Evaluate(policy, low)) <= Rank(Evaluate(policy, high))

(* And no enabled verdict of it is dead: one whose threshold differs from   *)
(* the others is given to the answer that just reaches it.                  *)
NoDeadVerdictFor(policy) ==
    Validate(policy) =>
        \A i \in 1..3 :
            policy.above[i] > 0 /\ (\A j \in 1..3 : j # i => policy.above[j] # policy.above[i]) =>
                Verdict(policy, [ok |-> TRUE, weightSum |-> 1,
                                 total |-> policy.above[i]]) = Verdicts[i]

(* Skipping the missing questions is deciding by the policy without them.   *)
SkippedIsRestrictedFor(policy, answers) ==
    LET asked == DOMAIN policy.weights \cap DOMAIN answers IN
    policy.onMissing = "skipped" /\ asked # {} =>
        Evaluate(policy, answers) =
            Evaluate([policy EXCEPT !.weights = [id \in asked |-> policy.weights[id]],
                                    !.onMissing = "error"], answers)

(* A router without a hole never fails on an option for want of a route,    *)
(* and no answer below the required confidence is given a route of its own. *)
RoutingSafeFor(router, a) ==
    /\ a.confidence < router.minConf =>
          Route(router, a) \in {"fallback", "error"}
    /\ Unrouted(router, a) = {} /\ a.choice \in a.options
       /\ a.confidence >= router.minConf =>
          Route(router, a) = router.routes[a.choice]

(* More confidence never leads to more caution; of an ordered pair of       *)
(* thresholds that do not coincide, every band is that of some confidence,  *)
(* escalation only if confirming asks for any; and a noul, which has no     *)
(* confidence, is never banded by one.                                      *)
Caution(band) == CASE band = "act" -> 0 [] band = "confirm" -> 1 [] OTHER -> 2
BandsUsableFor(bands) ==
    LET at(c) == Classify(bands, c) IN
    BandsValid(bands) =>
        /\ \A low, high \in 0..D :
              low <= high => Caution(at(high)) <= Caution(at(low))
        /\ bands.confirm < bands.act =>
              {at(c) : c \in 0..D} =
                 {"act", "confirm"} \cup IF bands.confirm > 0 THEN {"escalate"} ELSE {}
        /\ \A c \in 0..D : ClassifyAnswer(bands, [type |-> "noul", confidence |-> c])
                              \notin {"act", "confirm"}

(* The threshold that a report suggests is the lowest of the most accurate. *)
ThresholdBestFor(ps, labels, candidates) ==
    LET chosen == BestThreshold(ps, labels, candidates)
        acc(t) == AccuracyAt(ps, labels, t)
    IN ps # <<>> =>
          \A i \in DOMAIN candidates :
              /\ acc(candidates[i]) <= acc(chosen)
              /\ acc(candidates[i]) = acc(chosen) => chosen <= candidates[i]

(* A fit always has something to learn from and something to be judged on.  *)
(* Unless the holdout was disabled something is held out of every fit,      *)
(* however few the examples, and it is judged on that and on nothing that   *)
(* it saw; with the holdout disabled it is judged on all that it saw.       *)
SplitSoundFor(c, holdout) ==
    c.error = "none" =>
        /\ c.train # {} /\ c.judged # {}
        /\ holdout >= 0 => c.judged = c.hold /\ c.judged \cap c.train = {}
        /\ holdout < 0 => c.judged = c.train /\ c.hold = {}

(* The weights of a report make a policy that validates, unless there are   *)
(* none, and weigh only what argued for the positive class.                 *)
WeightsUsableFor(coef) ==
    LET w == NormalizePositive(coef) IN
    /\ DOMAIN w # {} => WeightsAllowed(w)
    /\ \A id \in DOMAIN w : coef[id] > 0
=============================================================================
