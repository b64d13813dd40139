----------------------------- MODULE RetryPolicy ----------------------------
(***************************************************************************)
(* The numbers of retry.go and the retry-after header of errors.go.  A     *)
(* duration is a signed integer of bounded width, as time.Duration is, and *)
(* MaxInt stands for math.MaxInt64.  A float that does not fit converts to *)
(* what the hardware gives: its own choice of the two ends, or zero for a  *)
(* NaN.  Jitter is Grain steps of the random draw and a fraction in        *)
(* hundredths.                                                             *)
(***************************************************************************)
EXTENDS Integers

CONSTANTS
    MaxInt,     \* the largest duration
    OneSecond,  \* time.Second
    Grain       \* how finely float64() is drawn from [0, 1)

\* Durations have an even number of values, as in two's complement.
ASSUME DurationAssumption ==
    /\ MaxInt \in Nat /\ MaxInt % 2 = 1
    /\ OneSecond \in 1..MaxInt
    /\ Grain \in Nat \ {0}

MinInt == -MaxInt - 1
Duration == MinInt..MaxInt

(* What a client's settings must satisfy.                                   *)
ValidateRetry(p) == p.initial >= 0 /\ p.max >= 0 /\ p.jitter \in 0..100
RetryPolicies ==
    {p \in [initial: Duration, max: Duration, jitter: Int] : ValidateRetry(p)}

(* Two's complement multiplication by two.                                  *)
Twice(d) == LET t == (2 * d) % (2 * (MaxInt + 1))
            IN IF t > MaxInt THEN t - 2 * (MaxInt + 1) ELSE t

(* The loop of backoff breaks for good once it stops doubling.              *)
AtCap(p, d) == d >= p.max \/ d > MaxInt \div 2
Doubled(p, n) ==
    LET d[k \in 0..n] ==
            IF k = 0 THEN p.initial
            ELSE IF AtCap(p, d[k - 1]) THEN d[k - 1] ELSE Twice(d[k - 1])
    IN d[n]

(* The nominal delay before retry n.                                        *)
Backoff(p, n) ==
    IF p.initial = 0 THEN 0
    ELSE IF p.max > 0 /\ Doubled(p, n) > p.max THEN p.max
    ELSE Doubled(p, n)

(* time.Duration(x) of a float: x if it fits, else what the build gives.    *)
Converted(x) == IF x \in Duration THEN {x} ELSE {MinInt, MaxInt}
FromNotANumber == {MinInt, 0}

(* d * (1 + jitter * (2 * draw - 1)), truncated, for draw = r / Grain.      *)
Jittered(p, d, r) ==
    (d * (100 * Grain + p.jitter * (2 * r - Grain))) \div (100 * Grain)
NonNegative(d) == IF d < 0 THEN 0 ELSE d

(* What delayFor may return for retry n.                                    *)
DelayFor(p, n) ==
    LET d == Backoff(p, n) IN
    IF d <= 0 \/ p.jitter <= 0 THEN {d}
    ELSE UNION {{NonNegative(x) : x \in Converted(Jittered(p, d, r))} :
                   r \in 0..(Grain - 1)}

(* A Retry-After header: absent, unparseable, a number of seconds, one of   *)
(* the words ParseFloat also takes, or a date some time ahead or behind,    *)
(* the distance to which saturates.                                         *)
ParseRetryAfter(h) ==
    CASE h.form \in {"absent", "junk"} -> {0}
      [] h.form = "nan" -> FromNotANumber
      [] h.form = "infinite" -> {MinInt, MaxInt}
      [] h.form = "seconds" ->
            IF h.n <= 0 THEN {0} ELSE Converted(h.n * OneSecond)
      [] h.form = "date" -> {IF h.n <= 0 THEN 0 ELSE IF h.n > MaxInt THEN MaxInt ELSE h.n}

-----------------------------------------------------------------------------
(* The initial delay doubled n times, as if durations had no width.         *)
Ideal(p, n) ==
    LET I[k \in 0..n] == IF k = 0 THEN p.initial ELSE 2 * I[k - 1]
    IN I[n]

(* The nominal delay is the ideal one, cut at the policy's cap; a policy    *)
(* without a cap never doubles.  A cap in the upper half of the durations   *)
(* may be missed, by less than one doubling, for the loop stops before it   *)
(* would overflow.                                                          *)
BackoffClampedFor(p, n) ==
    LET ideal == Ideal(p, n) IN
    IF p.max = 0 THEN Backoff(p, n) = p.initial
    ELSE IF ideal <= p.max THEN Backoff(p, n) = ideal
    ELSE IF p.initial = 0 THEN Backoff(p, n) = 0
    ELSE Backoff(p, n) = p.max \/ Backoff(p, n) \in ((MaxInt \div 2) + 1)..p.max

(* Whatever the draw and the conversion, a delay can be slept: it is never  *)
(* negative, and unless it overflowed it is within the jitter of nominal.   *)
DelayUsableFor(p, n) ==
    \A d \in DelayFor(p, n) :
        /\ d \in 0..MaxInt
        /\ \/ d \in {0, MaxInt}
           \/ 100 * d <= (100 + p.jitter) * Backoff(p, n)
              /\ 100 * (d + 1) >= (100 - p.jitter) * Backoff(p, n)
=============================================================================
