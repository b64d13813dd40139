------------------------------ MODULE Probability -----------------------------
(***************************************************************************)
(* The algebra of the decision package and the distributions of score      *)
(* answers.  A probability is a whole number of parts of D, a product of n  *)
(* probabilities one of parts of D^n; a value outside 0..D is what a caller *)
(* or a service may pass by mistake, NotANumber among them.                *)
(***************************************************************************)
EXTENDS Integers, Sequences, FiniteSets, FiniteSetsExt, SequencesExt

CONSTANTS
    D,           \* parts of a probability
    NotANumber,  \* an integer outside 0..D that stands for a NaN
    Unparsed     \* the key of a level that is not a number

ASSUME ProbabilityAssumption ==
    /\ D \in Nat \ {0}
    /\ NotANumber \in Int \ (0..D)
    /\ Unparsed \in Int \ Nat

Clamp(p) == IF p = NotANumber \/ p < 0 THEN 0 ELSE IF p > D THEN D ELSE p

Not(p) == D - Clamp(p)
And(a, b) == Clamp(a) * Clamp(b)
Or(a, b) == D * (Clamp(a) + Clamp(b)) - Clamp(a) * Clamp(b)

(* The loops of All and Any; Power(n) parts are a certainty about n events.  *)
Product(f) ==
    LET out[i \in 0..Len(f)] == IF i = 0 THEN 1 ELSE out[i - 1] * f[i]
    IN out[Len(f)]
Power(n) == Product([i \in 1..n |-> D])
AllOf(ps) == Product([i \in DOMAIN ps |-> Clamp(ps[i])])
AnyOf(ps) == Power(Len(ps)) - Product([i \in DOMAIN ps |-> Not(ps[i])])
MinAll(ps) == Min({D} \cup {Clamp(ps[i]) : i \in DOMAIN ps})
MaxAny(ps) == Max({0} \cup {Clamp(ps[i]) : i \in DOMAIN ps})
Expected(ps) == SumFunction([i \in DOMAIN ps |-> Clamp(ps[i])])

(* The in-place table of AtLeast and Exactly: how likely k of the events    *)
(* so far.  Each row is computed from the row before it, so the code goes   *)
(* down from the last entry.                                                *)
NextRowUpwards(dp, c) ==
    LET row[k \in DOMAIN dp] ==
            dp[k] * (D - c) + IF k = 0 THEN 0 ELSE row[k - 1] * c
    IN row
NextRow(dp, c) ==
    [k \in DOMAIN dp |-> dp[k] * (D - c) + IF k = 0 THEN 0 ELSE dp[k - 1] * c]
FirstRow(ps) == [k \in 0..Len(ps) |-> IF k = 0 THEN 1 ELSE 0]
Table(ps) ==
    LET dp[i \in 0..Len(ps)] ==
            IF i = 0 THEN FirstRow(ps) ELSE NextRow(dp[i - 1], Clamp(ps[i]))
    IN dp[Len(ps)]
AtLeast(n, ps) ==
    IF n <= 0 THEN Power(Len(ps)) ELSE SumFunctionOnSet(Table(ps), n..Len(ps))
Exactly(n, ps) == IF n < 0 \/ n > Len(ps) THEN 0 ELSE Table(ps)[n]

-----------------------------------------------------------------------------
(* A score answer: the levels of its legend, its score in parts of D, and a *)
(* probability for each level key.                                          *)
LevelKeys(a) == DOMAIN a.probabilities
Numbered(a) == LevelKeys(a) \ {Unparsed}

(* Both go through the keys in the order of sortedIndexKeys.                *)
Before(i, j) == i # Unparsed /\ (j = Unparsed \/ i < j)
SortedIndexKeys(a) ==
    CHOOSE s \in [1..Cardinality(LevelKeys(a)) -> LevelKeys(a)] :
        \A i, j \in DOMAIN s : i < j => Before(s[i], s[j])
LevelProbabilities(a) ==
    [i \in DOMAIN SortedIndexKeys(a) |-> a.probabilities[SortedIndexKeys(a)[i]]]

(* Nearest rounds halves up and stays within the legend; -1 without one.    *)
Nearest(a) ==
    IF a.levels = 0 THEN -1
    ELSE Max({0, Min({a.levels - 1, (2 * a.score + D) \div (2 * D)})})

(* MostLikely: the lowest of the levels with the highest probability.       *)
MostLikely(a) ==
    IF Numbered(a) = {} THEN -1
    ELSE Min({k \in Numbered(a) :
                 \A j \in Numbered(a) : a.probabilities[j] <= a.probabilities[k]})

Mass(a, ks) == SumFunctionOnSet(a.probabilities, ks)
AtOrAbove(a, level) == Mass(a, {k \in Numbered(a) : k >= level})
AtOrBelow(a, level) == Mass(a, {k \in Numbered(a) : k <= level})

(* The decision package's readings; ScoreBetween goes by position.          *)
ScoreAtOrAbove(a, level) == Clamp(AtOrAbove(a, level))
ScoreAtOrBelow(a, level) == Clamp(AtOrBelow(a, level))
Position(i) == i - 1
ScoreBetween(a, lo, hi) ==
    LET ps == LevelProbabilities(a)
        within == {i \in DOMAIN ps : Position(i) \in lo..hi}
    IN Clamp(SumFunctionOnSet(ps, within))

(* Over the number of levels less one.                                      *)
ScoreNormalized(a) ==
    IF a.levels < 2 THEN 0 ELSE Clamp(a.score \div (a.levels - 1))

ScoreIsBimodal(a, edgeShare) ==
    LET ps == LevelProbabilities(a)
        mid == Nearest(a)
    IN /\ Len(ps) >= 3
       /\ ps[1] >= edgeShare /\ Last(ps) >= edgeShare
       /\ mid \in 0..(Len(ps) - 1)
       /\ ps[mid + 1] < ps[1] /\ ps[mid + 1] < Last(ps)

ThresholdOn(a, level, p) == ScoreAtOrAbove(a, level) >= p

-----------------------------------------------------------------------------
(* AtLeast and Exactly are the tail and the terms of the sum over all the   *)
(* ways the events may fall, and agree with AllOf, AnyOf and Expected.      *)
TailsExactFor(ps) ==
    LET Way(S) == Product([i \in DOMAIN ps |->
                     IF i \in S THEN Clamp(ps[i]) ELSE Not(ps[i])])
        Ways(n) == SumFunction(
            [S \in {T \in SUBSET DOMAIN ps : Cardinality(T) = n} |-> Way(S)])
    IN /\ \A n \in -1..(Len(ps) + 1) :
             /\ Exactly(n, ps) = IF n \in 0..Len(ps) THEN Ways(n) ELSE 0
             /\ AtLeast(n, ps) =
                   SumFunction([k \in {j \in 0..Len(ps) : j >= n} |-> Ways(k)])
       /\ Len(ps) > 0 =>
             /\ AtLeast(1, ps) = AnyOf(ps)
             /\ AtLeast(Len(ps), ps) = AllOf(ps)
             /\ SumFunction([n \in 1..Len(ps) |-> AtLeast(n, ps)]) * D
                   = Expected(ps) * Power(Len(ps))

(* The two ways to combine bound each other, for every input: independence  *)
(* never claims more than the weakest of all nor less than the strongest of *)
(* any, the negation of all is any of the negations, and the operators on   *)
(* two events agree with those on lists.                                    *)
AlgebraSoundFor(ps) ==
    Len(ps) > 0 =>
        /\ AllOf(ps) <= MinAll(ps) * Power(Len(ps) - 1)
        /\ MaxAny(ps) * Power(Len(ps) - 1) <= AnyOf(ps)
        /\ AnyOf(ps) = Power(Len(ps)) - AllOf([i \in DOMAIN ps |-> Not(ps[i])])
        /\ AnyOf(ps) \in 0..Power(Len(ps))
        /\ Len(ps) = 2 => Or(ps[1], ps[2]) = AnyOf(ps) /\ And(ps[1], ps[2]) = AllOf(ps)

(* For an answer with a probability for each level, the ways to ask for a   *)
(* range of levels agree, and a threshold met at a level is met below it.   *)
RangesAgreeFor(a) ==
    LevelKeys(a) = 0..(a.levels - 1) /\ AtOrAbove(a, 0) <= D =>
        /\ \A lo, hi \in 0..(a.levels - 1) : lo <= hi =>
              ScoreBetween(a, lo, hi)
                 = ScoreAtOrAbove(a, lo) - ScoreAtOrAbove(a, hi + 1)
        /\ \A k \in 1..(a.levels - 1) :
              /\ ScoreAtOrAbove(a, k) + ScoreAtOrBelow(a, k - 1) = AtOrAbove(a, 0)
              /\ \A p \in 0..D : ThresholdOn(a, k, p) => ThresholdOn(a, k - 1, p)

(* A bimodal answer's nearest level is not its most likely one, which is    *)
(* what the warning of score.go is for; Nearest is always a level, and the  *)
(* last one for a score that normalizes to all of the scale.                *)
BimodalMisleadsFor(a, edgeShare) ==
    /\ a.levels > 0 => Nearest(a) \in 0..(a.levels - 1)
    /\ a.levels > 1 /\ ScoreNormalized(a) = D => Nearest(a) = a.levels - 1
    /\ LevelKeys(a) = 0..(a.levels - 1) /\ ScoreIsBimodal(a, edgeShare) =>
          /\ Nearest(a) # MostLikely(a)
          /\ Nearest(a) \notin {0, a.levels - 1}
=============================================================================
