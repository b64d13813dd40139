----------------------------- MODULE FunctionProofs ----------------------------
(***************************************************************************)
(* Proofs about the delays and errors of the client and the functions of   *)
(* the decision package, for every input that InputSane allows, every      *)
(* width of a duration and every fineness of a probability; and, before    *)
(* them, the lemmas on recursions, sums and products that these and        *)
(* ClientProofs rest on.                                                   *)
(***************************************************************************)
EXTENDS FunctionProperties, FiniteSetTheorems, SequenceTheorems, TLAPS

-----------------------------------------------------------------------------
(* A nonempty set of numbers has a least member: induction, in the form    *)
(* that needs no predicate as a parameter.                                 *)
LEMMA Least ==
  ASSUME NEW T \in SUBSET Nat, T # {}
  PROVE  \E n \in T : \A m \in T : n <= m
  <1> DEFINE R == {ss \in Nat \X Nat : ss[1] < ss[2]}
  <1>1. IsWellFoundedOn(R, Nat)
    BY NatLessThanWellFounded DEF OpToRel
  <1> HIDE DEF R
  <1>2. PICK n \in T : \A m \in T : ~(<<m, n>> \in R)
    BY <1>1, WFMin, Zenon
  <1>3. \A m \in T : ~(m < n)
    BY <1>2 DEF R
  <1> QED
    BY <1>3

(* One step of the sum over s, with g the sums of the smaller sets.         *)
SumStep(f, g, s) ==
    IF s = {} THEN 0
    ELSE f[CHOOSE x \in s : TRUE] + g[s \ {CHOOSE x \in s : TRUE}]

Sums(g, f, S) == g = [s \in SUBSET S |-> SumStep(f, g, s)]

(* Over a finite set the recursion that defines a sum has a solution.       *)
LEMMA SumExists ==
  ASSUME NEW S, IsFiniteSet(S), NEW f
  PROVE  \E g : Sums(g, f, S)
  <1> DEFINE Small(n) == {s \in SUBSET S : Cardinality(s) <= n}
             Defined(n) == \E g : g = [s \in Small(n) |-> SumStep(f, g, s)]
             T == {n \in Nat : ~Defined(n)}
  <1>1. \A s \in SUBSET S : IsFiniteSet(s) /\ Cardinality(s) \in Nat
    BY FS_Subset, FS_CardinalityType
  <1>2. Defined(0)
    <2> DEFINE g == [s \in Small(0) |-> 0]
    <2>1. \A s \in Small(0) : s = {}
      BY <1>1, FS_EmptySet
    <2>2. g = [s \in Small(0) |-> SumStep(f, g, s)]
      BY <2>1 DEF SumStep
    <2> QED
      BY <2>2
  <1>3. ASSUME NEW n \in Nat, Defined(n) PROVE Defined(n + 1)
    <2>1. PICK g : g = [s \in Small(n) |-> SumStep(f, g, s)]
      BY <1>3
    <2> DEFINE h == [s \in Small(n + 1) |-> SumStep(f, g, s)]
    <2>2. ASSUME NEW s \in Small(n + 1)
          PROVE  SumStep(f, g, s) = SumStep(f, h, s)
      <3>1. CASE s = {}
        BY <3>1 DEF SumStep
      <3>2. CASE s # {}
        <4> DEFINE x == CHOOSE x \in s : TRUE
        <4>1. x \in s
          BY <3>2
        <4> HIDE DEF x
        <4>2. s \ {x} \in SUBSET S /\ Cardinality(s \ {x}) = Cardinality(s) - 1
          BY <4>1, <1>1, FS_RemoveElement
        <4>3. s \ {x} \in Small(n) /\ s \ {x} \in Small(n + 1)
          BY <4>2, <2>2, <1>1
        <4>4. g[s \ {x}] = SumStep(f, g, s \ {x})
          <5> DEFINE gg == [t \in Small(n) |-> SumStep(f, g, t)]
          <5>1. gg[s \ {x}] = SumStep(f, g, s \ {x})
            BY <4>3
          <5>2. g = gg
            BY <2>1
          <5> HIDE DEF gg
          <5> QED BY <5>1, <5>2
        <4>5. h[s \ {x}] = SumStep(f, g, s \ {x})
          BY <4>3
        <4> HIDE DEF h
        <4> QED
          BY <3>2, <4>4, <4>5 DEF SumStep, x
      <3> QED
        BY <3>1, <3>2
    <2>3. h = [s \in Small(n + 1) |-> SumStep(f, h, s)]
      BY <2>2
    <2> HIDE DEF h
    <2> QED
      BY <2>3
  <1>4. \A n \in Nat : Defined(n)
    <2> HIDE DEF Defined
    <2>1. SUFFICES ASSUME T # {} PROVE FALSE
      OBVIOUS
    <2>2. PICK n \in T : \A m \in T : n <= m
      BY <2>1, Least
    <2>3. n # 0 /\ n - 1 \in Nat /\ n - 1 \notin T
      BY <1>2, <2>2
    <2> QED
      BY <1>3, <2>2, <2>3
  <1>5. Small(Cardinality(S)) = SUBSET S
    BY <1>1, FS_Subset
  <1>6. Defined(Cardinality(S))
    BY <1>4, FS_CardinalityType
  <1> HIDE DEF Small
  <1> QED
    BY <1>5, <1>6 DEF Sums

(* SumFunctionOnSet is a solution of that recursion.                        *)
LEMMA SumIsSome ==
  ASSUME NEW S, IsFiniteSet(S), NEW f
  PROVE  \E g : /\ Sums(g, f, S)
                /\ SumFunctionOnSet(f, S) = g[S]
  <1>1. PICK g : Sums(g, f, S)
    BY SumExists
  <1>2. g = [s \in SUBSET S |->
                IF s = {} THEN 0
                ELSE LET x == CHOOSE x \in s : TRUE
                     IN  f[x] + g[s \ {x}]]
    BY <1>1, Zenon DEF Sums, SumStep
  <1> DEFINE iter[s \in SUBSET S] ==
                IF s = {} THEN 0
                ELSE LET x == CHOOSE x \in s : TRUE
                     IN  f[x] + iter[s \ {x}]
  <1>3. Sums(iter, f, S)
    BY <1>2 DEF SumStep, Sums
  <1>4. SumFunctionOnSet(f, S) = iter[S]
    BY DEF SumFunctionOnSet, FoldFunctionOnSet, MapThenFoldSet
  <1> QED
    BY <1>3, <1>4

(* Induction over finite sets, in the same form.                            *)
LEMMA SmallestSubset ==
  ASSUME NEW S, IsFiniteSet(S), NEW B \in SUBSET (SUBSET S), B # {}
  PROVE  \E s \in B : \A x \in s : s \ {x} \notin B
  <1> DEFINE T == {Cardinality(s) : s \in B}
  <1>1. \A s \in SUBSET S : IsFiniteSet(s) /\ Cardinality(s) \in Nat
    BY FS_Subset, FS_CardinalityType
  <1>2. PICK n \in T : \A m \in T : n <= m
    <2>1. T \in SUBSET Nat /\ T # {}
      BY <1>1
    <2> HIDE DEF T
    <2> QED
      BY <2>1, Least
  <1>3. PICK s \in B : n = Cardinality(s)
    BY <1>2
  <1>4. ASSUME NEW x \in s PROVE s \ {x} \notin B
    <2>1. Cardinality(s \ {x}) = Cardinality(s) - 1
      BY <1>1, FS_RemoveElement
    <2> QED
      BY <2>1, <1>1, <1>2, <1>3
  <1> QED
    BY <1>4

Chosen(s) == CHOOSE x \in s : TRUE

(* The recursion gives nothing to the empty set.                            *)
LEMMA SumsNone ==
  ASSUME NEW S, NEW f, NEW g, Sums(g, f, S)
  PROVE  g[{}] = 0
  <1>1. g[{}] = SumStep(f, g, {})
    BY Zenon DEF Sums
  <1> QED
    BY <1>1 DEF SumStep

(* ... and to any other its chosen member and the rest.                     *)
LEMMA SumsSome ==
  ASSUME NEW S, NEW f, NEW g, Sums(g, f, S), NEW s \in SUBSET S, s # {}
  PROVE  /\ Chosen(s) \in s
         /\ g[s] = f[Chosen(s)] + g[s \ {Chosen(s)}]
  <1>1. g[s] = SumStep(f, g, s)
    BY Zenon DEF Sums
  <1> QED
    BY <1>1 DEF SumStep, Chosen

(* All solutions agree where they are defined.                              *)
LEMMA SumsAgree ==
  ASSUME NEW S, NEW T \in SUBSET S, IsFiniteSet(S), NEW f, NEW g, NEW h,
         Sums(g, f, S), Sums(h, f, T)
  PROVE  g[T] = h[T]
  <1> DEFINE B == {s \in SUBSET T : g[s] # h[s]}
  <1>1. SUFFICES ASSUME B # {} PROVE FALSE
    OBVIOUS
  <1>2. PICK s \in B : \A x \in s : s \ {x} \notin B
    BY <1>1, SmallestSubset, FS_Subset
  <1>3. s \in SUBSET T /\ s \in SUBSET S
    BY <1>2
  <1>4. CASE s = {}
    BY <1>2, <1>3, <1>4, SumsNone
  <1>5. CASE s # {}
    <2> DEFINE x == Chosen(s)
    <2>1. x \in s /\ g[s] = f[x] + g[s \ {x}]
      BY <1>3, <1>5, SumsSome
    <2>2. h[s] = f[x] + h[s \ {x}]
      BY <1>3, <1>5, SumsSome
    <2> HIDE DEF x
    <2>3. g[s \ {x}] = h[s \ {x}]
      BY <1>2, <2>1
    <2> QED
      BY <1>2, <2>1, <2>2, <2>3
  <1> QED
    BY <1>4, <1>5

(* The sum over a set by its chosen member.                                 *)
LEMMA SumRec ==
  ASSUME NEW S, IsFiniteSet(S), NEW f
  PROVE  /\ S = {} => SumFunctionOnSet(f, S) = 0
         /\ S # {} => /\ Chosen(S) \in S
                      /\ SumFunctionOnSet(f, S) =
                            f[Chosen(S)] + SumFunctionOnSet(f, S \ {Chosen(S)})
  <1>1. PICK g : Sums(g, f, S) /\ SumFunctionOnSet(f, S) = g[S]
    BY SumIsSome
  <1>2. CASE S = {}
    BY <1>1, <1>2, SumsNone
  <1>3. CASE S # {}
    <2> DEFINE R == S \ {Chosen(S)}
    <2>1. IsFiniteSet(R) /\ R \in SUBSET S
      BY FS_Subset
    <2>2. PICK h : Sums(h, f, R) /\ SumFunctionOnSet(f, R) = h[R]
      BY <2>1, SumIsSome
    <2>3. g[R] = h[R]
      BY <1>1, <2>1, <2>2, SumsAgree
    <2> QED
      BY <1>1, <1>3, <2>2, <2>3, SumsSome
  <1> QED
    BY <1>2, <1>3

(* A sum of naturals is a natural.                                          *)
LEMMA SumType ==
  ASSUME NEW S, IsFiniteSet(S), NEW f, \A x \in S : f[x] \in Nat
  PROVE  SumFunctionOnSet(f, S) \in Nat
  <1> DEFINE B == {s \in SUBSET S : SumFunctionOnSet(f, s) \notin Nat}
  <1>1. SUFFICES ASSUME B # {} PROVE FALSE
    OBVIOUS
  <1>2. PICK s \in B : \A x \in s : s \ {x} \notin B
    BY <1>1, SmallestSubset
  <1>3. /\ s = {} => SumFunctionOnSet(f, s) = 0
        /\ s # {} => /\ Chosen(s) \in s
                     /\ SumFunctionOnSet(f, s) =
                           f[Chosen(s)] + SumFunctionOnSet(f, s \ {Chosen(s)})
    BY <1>2, FS_Subset, SumRec, Zenon
  <1>4. s = {}
    BY <1>2, <1>3
  <1> QED
    BY <1>2, <1>3, <1>4

(* A sum of integers is an integer.                                         *)
LEMMA SumIsInt ==
  ASSUME NEW S, IsFiniteSet(S), NEW f, \A x \in S : f[x] \in Int
  PROVE  SumFunctionOnSet(f, S) \in Int
  <1> DEFINE B == {s \in SUBSET S : SumFunctionOnSet(f, s) \notin Int}
  <1>1. SUFFICES ASSUME B # {} PROVE FALSE
    OBVIOUS
  <1>2. PICK s \in B : \A x \in s : s \ {x} \notin B
    BY <1>1, SmallestSubset
  <1>3. /\ s = {} => SumFunctionOnSet(f, s) = 0
        /\ s # {} => /\ Chosen(s) \in s
                     /\ SumFunctionOnSet(f, s) =
                           f[Chosen(s)] + SumFunctionOnSet(f, s \ {Chosen(s)})
    BY <1>2, FS_Subset, SumRec, Zenon
  <1>4. s = {}
    BY <1>2, <1>3
  <1> QED
    BY <1>2, <1>3, <1>4

(* The sum does not depend on which member is taken out first.              *)
LEMMA SumLess ==
  ASSUME NEW S, IsFiniteSet(S), NEW f, \A x \in S : f[x] \in Int, NEW e \in S
  PROVE  SumFunctionOnSet(f, S) = f[e] + SumFunctionOnSet(f, S \ {e})
  <1> DEFINE Sum(s) == SumFunctionOnSet(f, s)
             B == {s \in SUBSET S :
                     \E x \in s : Sum(s) # f[x] + Sum(s \ {x})}
  <1>1. SUFFICES ASSUME B # {} PROVE FALSE
    OBVIOUS
  <1>2. PICK s \in B : \A x \in s : s \ {x} \notin B
    BY <1>1, SmallestSubset
  <1>3. \A t \in SUBSET S : IsFiniteSet(t) /\ Sum(t) \in Int
    BY FS_Subset, SumIsInt
  <1>4. PICK x \in s : Sum(s) # f[x] + Sum(s \ {x})
    BY <1>2
  <1> DEFINE p == Chosen(s)
  <1>5. p \in s /\ Sum(s) = f[p] + Sum(s \ {p})
    BY <1>3, <1>4, SumRec
  <1> HIDE DEF p
  <1>6. x # p
    BY <1>4, <1>5
  <1>7. /\ Sum(s \ {p}) = f[x] + Sum((s \ {p}) \ {x})
        /\ Sum(s \ {x}) = f[p] + Sum((s \ {x}) \ {p})
    BY <1>2, <1>4, <1>5, <1>6
  <1>8. (s \ {p}) \ {x} = (s \ {x}) \ {p}
    OBVIOUS
  <1>9. Sum((s \ {p}) \ {x}) \in Int /\ f[x] \in Int /\ f[p] \in Int
    BY <1>3, <1>4, <1>5
  <1>10. Sum((s \ {p}) \ {x}) = Sum((s \ {x}) \ {p})
    BY <1>8
  <1> HIDE DEF Sum
  <1> QED
    BY <1>4, <1>5, <1>7, <1>9, <1>10

(* The same for naturals.                                                   *)
LEMMA SumWithout ==
  ASSUME NEW S, IsFiniteSet(S), NEW f, \A x \in S : f[x] \in Nat, NEW e \in S
  PROVE  SumFunctionOnSet(f, S) = f[e] + SumFunctionOnSet(f, S \ {e})
  BY SumLess

(* Functions that agree on a set have the same sum over it.                 *)
LEMMA SumSame ==
  ASSUME NEW S, IsFiniteSet(S), NEW f, NEW g, \A x \in S : f[x] = g[x]
  PROVE  SumFunctionOnSet(f, S) = SumFunctionOnSet(g, S)
  <1> DEFINE B == {s \in SUBSET S :
                     SumFunctionOnSet(f, s) # SumFunctionOnSet(g, s)}
  <1>1. SUFFICES ASSUME B # {} PROVE FALSE
    OBVIOUS
  <1>2. PICK s \in B : \A x \in s : s \ {x} \notin B
    BY <1>1, SmallestSubset
  <1>3. IsFiniteSet(s)
    BY <1>2, FS_Subset
  <1>4. s = {} => SumFunctionOnSet(f, s) = SumFunctionOnSet(g, s)
    BY <1>3, SumRec, Zenon
  <1>5. s # {} => /\ Chosen(s) \in s
                  /\ SumFunctionOnSet(f, s) =
                        f[Chosen(s)] + SumFunctionOnSet(f, s \ {Chosen(s)})
                  /\ SumFunctionOnSet(g, s) =
                        g[Chosen(s)] + SumFunctionOnSet(g, s \ {Chosen(s)})
    BY <1>3, SumRec, Zenon
  <1> QED
    BY <1>2, <1>4, <1>5

(* A part of a set has no larger sum than the whole.                        *)
LEMMA SumOfPart ==
  ASSUME NEW S, IsFiniteSet(S), NEW f, \A x \in S : f[x] \in Nat,
         NEW T \in SUBSET S
  PROVE  SumFunctionOnSet(f, T) <= SumFunctionOnSet(f, S)
  <1> DEFINE Sum(s) == SumFunctionOnSet(f, s)
             B == {s \in SUBSET S : T \subseteq s /\ ~(Sum(T) <= Sum(s))}
  <1>1. SUFFICES ASSUME B # {} PROVE FALSE
    OBVIOUS
  <1>2. PICK s \in B : \A x \in s : s \ {x} \notin B
    <2>1. B \in SUBSET (SUBSET S)
      OBVIOUS
    <2> HIDE DEF B
    <2> QED
      BY <1>1, <2>1, SmallestSubset, Zenon
  <1>3. \A t \in SUBSET S : IsFiniteSet(t) /\ Sum(t) \in Nat
    BY FS_Subset, SumType
  <1>4. PICK x \in s : x \notin T
    BY <1>2, <1>3
  <1>5. Sum(s) = f[x] + Sum(s \ {x})
    BY <1>2, <1>3, <1>4, SumWithout
  <1>6. Sum(T) <= Sum(s \ {x})
    BY <1>2, <1>4
  <1>7. /\ f[x] \in Nat /\ Sum(T) \in Nat
        /\ Sum(s) \in Nat /\ Sum(s \ {x}) \in Nat
    BY <1>2, <1>3, <1>4
  <1> HIDE DEF Sum
  <1> QED
    BY <1>2, <1>5, <1>6, <1>7

(* g has at d + 1, ..., d + n the values of f at 1, ..., n.                 *)
Shifted(f, g, d, n) ==
    /\ d \in Nat /\ n \in Nat
    /\ \A k \in 1..n : f[k] \in Nat /\ g[d + k] = f[k]

(* The same values elsewhere have the same sum.                             *)
LEMMA SumShifted ==
  ASSUME NEW f, NEW g, NEW d, NEW n, Shifted(f, g, d, n)
  PROVE  SumFunctionOnSet(g, (d + 1)..(d + n)) = SumFunctionOnSet(f, 1..n)
  <1>0. /\ d \in Nat /\ n \in Nat
        /\ \A k \in 1..n : f[k] \in Nat /\ g[d + k] = f[k]
    BY DEF Shifted
  <1> USE <1>0
  <1> DEFINE Same(m) ==
               SumFunctionOnSet(g, (d + 1)..(d + m)) =
                  SumFunctionOnSet(f, 1..m)
             B == {m \in 0..n : ~Same(m)}
  <1>1. SUFFICES ASSUME B # {} PROVE FALSE
    OBVIOUS
  <1>2. PICK m \in B : \A k \in B : m <= k
    <2>1. B \in SUBSET Nat
      OBVIOUS
    <2> HIDE DEF B
    <2> QED
      BY <1>1, <2>1, Least
  <1>3. /\ IsFiniteSet(1..m) /\ IsFiniteSet((d + 1)..(d + m))
    BY FS_Interval
  <1>4. CASE m = 0
    <2>1. 1..m = {} /\ (d + 1)..(d + m) = {}
      BY <1>4
    <2> QED
      BY <1>2, <1>3, <2>1, SumRec
  <1>5. CASE m # 0
    <2>1. /\ m \in 1..m /\ d + m \in (d + 1)..(d + m)
          /\ (1..m) \ {m} = 1..(m - 1)
          /\ ((d + 1)..(d + m)) \ {d + m} = (d + 1)..(d + (m - 1))
      <3>1. m \in Nat /\ d \in Nat /\ m > 0
        BY <1>2, <1>5
      <3>2. (1..m) \ {m} = 1..(m - 1)
        BY <3>1
      <3>3. ((d + 1)..(d + m)) \ {d + m} = (d + 1)..(d + (m - 1))
        <4>1. \A b \in Nat : ((d + 1)..b) \ {b} = (d + 1)..(b - 1)
          BY <3>1
        <4>2. d + m \in Nat /\ (d + m) - 1 = d + (m - 1)
          BY <3>1
        <4> QED
          BY <4>1, <4>2
      <3> QED
        BY <3>1, <3>2, <3>3
    <2>2. SumFunctionOnSet(f, 1..m) =
             f[m] + SumFunctionOnSet(f, 1..(m - 1))
      <3>1. \A k \in 1..m : f[k] \in Nat
        BY <1>2
      <3>2. SumFunctionOnSet(f, 1..m) =
               f[m] + SumFunctionOnSet(f, (1..m) \ {m})
        BY <1>3, <2>1, <3>1, SumWithout, Zenon
      <3> QED
        BY <2>1, <3>2
    <2>3. \A k \in (d + 1)..(d + m) : g[k] \in Nat
      <3> TAKE k \in (d + 1)..(d + m)
      <3>1. k - d \in 1..n /\ d + (k - d) = k
        BY <1>2
      <3> QED
        BY <3>1
    <2>4. SumFunctionOnSet(g, (d + 1)..(d + m)) =
             g[d + m] + SumFunctionOnSet(g, (d + 1)..(d + (m - 1)))
      <3>1. SumFunctionOnSet(g, (d + 1)..(d + m)) =
               g[d + m] + SumFunctionOnSet(g, ((d + 1)..(d + m)) \ {d + m})
        BY <1>3, <2>1, <2>3, SumWithout, Zenon
      <3> QED
        BY <2>1, <3>1
    <2>5. Same(m - 1)
      BY <1>2, <1>5
    <2>6. g[d + m] = f[m]
      BY <1>2, <1>5
    <2> QED
      BY <1>2, <2>2, <2>4, <2>5, <2>6
  <1> QED
    BY <1>4, <1>5

(* A sum over none, and over one more member.                               *)
LEMMA SumMore ==
  ASSUME NEW S, IsFiniteSet(S), NEW e, e \notin S, NEW f,
         \A x \in S \cup {e} : f[x] \in Int
  PROVE  /\ SumFunctionOnSet(f, {}) = 0
         /\ SumFunctionOnSet(f, S \cup {e}) = f[e] + SumFunctionOnSet(f, S)
  <1>1. SumFunctionOnSet(f, {}) = 0
    BY FS_EmptySet, SumRec
  <1>2. IsFiniteSet(S \cup {e}) /\ (S \cup {e}) \ {e} = S
    BY FS_AddElement
  <1> QED
    BY <1>1, <1>2, SumLess

(* A sum of what is made of two functions in the same way everywhere.       *)
LEMMA SumLinear ==
  ASSUME NEW S, IsFiniteSet(S), NEW f, NEW g, NEW h, NEW c \in Int, NEW d \in Int,
         \A x \in S : f[x] \in Int /\ g[x] \in Int /\ h[x] = c * f[x] + d * g[x]
  PROVE  SumFunctionOnSet(h, S) =
            c * SumFunctionOnSet(f, S) + d * SumFunctionOnSet(g, S)
  <1> DEFINE Sum(k, s) == SumFunctionOnSet(k, s)
             B == {s \in SUBSET S : Sum(h, s) # c * Sum(f, s) + d * Sum(g, s)}
  <1>1. SUFFICES ASSUME B # {} PROVE FALSE
    OBVIOUS
  <1>2. PICK s \in B : \A x \in s : s \ {x} \notin B
    BY <1>1, SmallestSubset
  <1>3. \A t \in SUBSET S : IsFiniteSet(t)
    BY FS_Subset
  <1>4. s = {} => Sum(h, s) = 0 /\ Sum(f, s) = 0 /\ Sum(g, s) = 0
    BY <1>2, <1>3, SumRec, Zenon
  <1>5. s # {}
    BY <1>2, <1>4
  <1>6. PICK x : x \in s
    BY <1>5
  <1>7. \A y \in S : h[y] \in Int
    BY SMT
  <1>8. /\ Sum(h, s) = h[x] + Sum(h, s \ {x})
        /\ Sum(f, s) = f[x] + Sum(f, s \ {x})
        /\ Sum(g, s) = g[x] + Sum(g, s \ {x})
    <2>1. /\ \A y \in s : h[y] \in Int /\ f[y] \in Int /\ g[y] \in Int
          /\ IsFiniteSet(s) /\ x \in s
      BY <1>2, <1>3, <1>6, <1>7
    <2>2. ASSUME NEW t, IsFiniteSet(t), NEW k, \A y \in t : k[y] \in Int, NEW y \in t
          PROVE  Sum(k, t) = k[y] + Sum(k, t \ {y})
      BY <2>2, SumLess
    <2> HIDE DEF Sum
    <2> QED
      BY <2>1, <2>2, Zenon
  <1>9. Sum(f, s \ {x}) \in Int /\ Sum(g, s \ {x}) \in Int
    BY <1>2, <1>3, SumIsInt
  <1>10. Sum(h, s \ {x}) = c * Sum(f, s \ {x}) + d * Sum(g, s \ {x})
    BY <1>2, <1>6
  <1>11. f[x] \in Int /\ g[x] \in Int /\ h[x] = c * f[x] + d * g[x]
    BY <1>2, <1>6
  <1> DEFINE F == Sum(f, s \ {x})
             G == Sum(g, s \ {x})
             a == f[x]
             b == g[x]
  <1>12. Sum(h, s) = (c * a + d * b) + (c * F + d * G)
    BY <1>8, <1>10, <1>11
  <1>13. Sum(f, s) = a + F /\ Sum(g, s) = b + G
    BY <1>8
  <1>14. /\ F \in Int /\ G \in Int /\ a \in Int /\ b \in Int
    BY <1>9, <1>11
  <1>15. Sum(h, s) # c * Sum(f, s) + d * Sum(g, s)
    BY <1>2
  <1> HIDE DEF F, G, a, b, Sum
  <1>16. c * (a + F) + d * (b + G) = (c * a + d * b) + (c * F + d * G)
    BY <1>14
  <1> QED
    BY <1>12, <1>13, <1>15, <1>16

(* More everywhere is more in all.                                          *)
LEMMA SumMonotone ==
  ASSUME NEW S, IsFiniteSet(S), NEW f, NEW g,
         \A x \in S : f[x] \in Int /\ g[x] \in Int /\ f[x] <= g[x]
  PROVE  SumFunctionOnSet(f, S) <= SumFunctionOnSet(g, S)
  <1> DEFINE h == [x \in S |-> g[x] - f[x]]
  <1>1. \A x \in S : h[x] \in Nat /\ h[x] = 1 * g[x] + (-1) * f[x]
    OBVIOUS
  <1>2. SumFunctionOnSet(h, S) \in Nat
    BY <1>1, SumType
  <1>3. SumFunctionOnSet(f, S) \in Int /\ SumFunctionOnSet(g, S) \in Int
    BY SumIsInt
  <1> HIDE DEF h
  <1>4. SumFunctionOnSet(h, S) = 1 * SumFunctionOnSet(g, S) + (-1) * SumFunctionOnSet(f, S)
    BY <1>1, SumLinear
  <1> QED
    BY <1>2, <1>3, <1>4

(* The sum over two parts without a common member.                          *)
LEMMA SumDisjoint ==
  ASSUME NEW S, IsFiniteSet(S), NEW T, IsFiniteSet(T), S \cap T = {},
         NEW f, \A x \in S \cup T : f[x] \in Int
  PROVE  SumFunctionOnSet(f, S \cup T) =
            SumFunctionOnSet(f, S) + SumFunctionOnSet(f, T)
  <1> DEFINE Sum(s) == SumFunctionOnSet(f, s)
             B == {s \in SUBSET T : Sum(S \cup s) # Sum(S) + Sum(s)}
  <1>1. SUFFICES ASSUME B # {} PROVE FALSE
    OBVIOUS
  <1>2. PICK s \in B : \A x \in s : s \ {x} \notin B
    BY <1>1, SmallestSubset
  <1>3. Sum(S) \in Int
    BY SumIsInt
  <1>4. s # {}
    <2>1. S \cup {} = S /\ Sum({}) = 0
      BY FS_EmptySet, SumRec
    <2> QED
      BY <1>2, <1>3, <2>1
  <1>5. PICK x : x \in s
    BY <1>4
  <1>6. IsFiniteSet(s) /\ IsFiniteSet(S \cup s) /\ IsFiniteSet(s \ {x})
    BY <1>2, FS_Subset, FS_Union
  <1>7. Sum(s) = f[x] + Sum(s \ {x})
    BY <1>2, <1>5, <1>6, SumLess
  <1>8. Sum(S \cup s) = f[x] + Sum((S \cup s) \ {x})
    BY <1>2, <1>5, <1>6, SumLess
  <1>9. (S \cup s) \ {x} = S \cup (s \ {x})
    BY <1>2, <1>5
  <1>10. Sum(S \cup (s \ {x})) = Sum(S) + Sum(s \ {x})
    BY <1>2, <1>5
  <1>11. Sum(s \ {x}) \in Int
    <2>1. \A y \in s \ {x} : f[y] \in Int
      BY <1>2
    <2> QED
      BY <1>6, <2>1, SumIsInt
  <1>12. f[x] \in Int
    BY <1>2, <1>5
  <1>13. Sum((S \cup s) \ {x}) = Sum(S \cup (s \ {x}))
    BY <1>9
  <1> HIDE DEF Sum
  <1> QED
    BY <1>2, <1>3, <1>7, <1>8, <1>10, <1>11, <1>12, <1>13

(* The sum over the images of the members of a set, when no two are alike.  *)
LEMMA SumImage ==
  ASSUME NEW S, IsFiniteSet(S), NEW phi,
         \A x, y \in S : phi[x] = phi[y] => x = y,
         NEW f, NEW g, \A x \in S : f[x] \in Int /\ g[phi[x]] = f[x]
  PROVE  /\ IsFiniteSet({phi[x] : x \in S})
         /\ SumFunctionOnSet(g, {phi[x] : x \in S}) = SumFunctionOnSet(f, S)
  <1> DEFINE Img(s) == {phi[x] : x \in s}
             Good(s) == /\ IsFiniteSet(Img(s))
                        /\ SumFunctionOnSet(g, Img(s)) = SumFunctionOnSet(f, s)
             B == {s \in SUBSET S : ~Good(s)}
  <1>1. SUFFICES ASSUME B # {} PROVE FALSE
    <2>1. S \in SUBSET S
      OBVIOUS
    <2>2. B = {} => Good(S)
      BY <2>1
    <2> QED
      BY <2>2
  <1>2. PICK s \in B : \A x \in s : s \ {x} \notin B
    <2> HIDE DEF B
    <2>1. B \in SUBSET (SUBSET S)
      BY DEF B
    <2> QED
      BY <1>1, <2>1, SmallestSubset
  <1>3. s \in SUBSET S /\ ~Good(s) /\ IsFiniteSet(s)
    BY <1>2, FS_Subset
  <1>4. s # {}
    <2>1. SUFFICES ASSUME s = {} PROVE Good(s)
      BY <1>3
    <2>2. Img(s) = {}
      BY <2>1
    <2>3. IsFiniteSet({}) /\ SumFunctionOnSet(f, {}) = 0 /\ SumFunctionOnSet(g, {}) = 0
      BY FS_EmptySet, SumRec
    <2> QED
      BY <2>1, <2>2, <2>3
  <1>5. PICK e : e \in s
    BY <1>4
  <1> DEFINE r == s \ {e}
  <1>6. Good(r)
    <2>1. r \in SUBSET S /\ r \notin B
      BY <1>2, <1>3, <1>5
    <2> HIDE DEF Good, r
    <2> QED
      BY <2>1
  <1>7. SumFunctionOnSet(f, s) = f[e] + SumFunctionOnSet(f, r)
    BY <1>3, <1>5, SumLess
  <1>8. Img(s) = Img(r) \cup {phi[e]} /\ phi[e] \notin Img(r)
    <2>1. \A x \in s : x = e \/ x \in r
      OBVIOUS
    <2>2. \A x \in r : x \in s /\ x # e /\ x \in S /\ e \in S
      BY <1>3, <1>5
    <2>3. e \in s
      BY <1>5
    <2> HIDE DEF r
    <2> QED
      BY <2>1, <2>2, <2>3
  <1>9. \A y \in Img(r) \cup {phi[e]} : g[y] \in Int
    <2>1. \A x \in s : g[phi[x]] \in Int
      BY <1>3
    <2> QED
      BY <1>5, <2>1
  <1>10. g[phi[e]] = f[e]
    BY <1>3, <1>5
  <1> DEFINE R == Img(r)
             v == phi[e]
  <1>11. /\ IsFiniteSet(R) /\ v \notin R /\ Img(s) = R \cup {v}
         /\ \A y \in R \cup {v} : g[y] \in Int
    BY <1>6, <1>8, <1>9
  <1>12. SumFunctionOnSet(g, R) = SumFunctionOnSet(f, r)
    BY <1>6
  <1> HIDE DEF R, v, r
  <1>13. /\ IsFiniteSet(R \cup {v})
         /\ SumFunctionOnSet(g, R \cup {v}) = g[v] + SumFunctionOnSet(g, R)
    BY <1>11, SumMore, FS_AddElement
  <1>14. Good(s)
    BY <1>7, <1>10, <1>11, <1>12, <1>13 DEF v
  <1> QED
    BY <1>3, <1>14

(* A sum of nothing but zeros.                                              *)
LEMMA SumZero ==
  ASSUME NEW S, IsFiniteSet(S), NEW f, \A x \in S : f[x] = 0
  PROVE  SumFunctionOnSet(f, S) = 0
  <1>1. SumFunctionOnSet(f, S) = 0 * SumFunctionOnSet(f, S) + 0 * SumFunctionOnSet(f, S)
    <2> DEFINE c == 0
    <2>1. c \in Int /\ \A x \in S : f[x] \in Int /\ f[x] = c * f[x] + c * f[x]
      OBVIOUS
    <2> HIDE DEF c
    <2>2. SumFunctionOnSet(f, S) = c * SumFunctionOnSet(f, S) + c * SumFunctionOnSet(f, S)
      BY <2>1, SumLinear
    <2> QED
      BY <2>2 DEF c
  <1>2. SumFunctionOnSet(f, S) \in Int
    BY SumIsInt
  <1> QED
    BY <1>1, <1>2

(* A sum of multiples.                                                      *)
LEMMA SumScaled ==
  ASSUME NEW S, IsFiniteSet(S), NEW f, NEW h, NEW c \in Int,
         \A x \in S : f[x] \in Int /\ h[x] = c * f[x]
  PROVE  SumFunctionOnSet(h, S) = c * SumFunctionOnSet(f, S)
  <1> DEFINE d == 0
  <1>1. d \in Int /\ \A x \in S : f[x] \in Int /\ f[x] \in Int /\ h[x] = c * f[x] + d * f[x]
    <2>1. \A x \in S : c * f[x] \in Int
      BY SMT
    <2> QED
      BY <2>1
  <1>2. SumFunctionOnSet(f, S) \in Int
    BY SumIsInt
  <1> HIDE DEF d
  <1>3. SumFunctionOnSet(h, S) = c * SumFunctionOnSet(f, S) + d * SumFunctionOnSet(f, S)
    BY <1>1, SumLinear
  <1> DEFINE s == SumFunctionOnSet(f, S)
  <1> HIDE DEF s
  <1>4. s \in Int /\ SumFunctionOnSet(h, S) = c * s + d * s /\ d = 0
    BY <1>2, <1>3 DEF s, d
  <1>5. c * s + 0 * s = c * s
    BY <1>4
  <1> QED
    BY <1>4, <1>5 DEF s

-----------------------------------------------------------------------------
(* Recursions.                                                              *)
(* g is what becomes of a as f is applied to it n times.                    *)
Iterates(g, S, a, f, n) ==
    /\ g \in [0..n -> S]
    /\ g[0] = a
    /\ \A i \in 1..n : g[i] = f[g[i - 1]]

(* There is such a g.                                                       *)
LEMMA Iterated ==
  ASSUME NEW S, NEW a \in S, NEW f \in [S -> S], NEW n \in Nat
  PROVE  \E g : Iterates(g, S, a, f, n)
  <1> DEFINE Times(m) == \E g \in [0..m -> S] :
                g[0] = a /\ \A i \in 1..m : g[i] = f[g[i - 1]]
             T == {m \in Nat : ~Times(m)}
  <1>1. SUFFICES ASSUME T # {} PROVE FALSE
    BY DEF Iterates
  <1>2. PICK m \in T : \A l \in T : m <= l
    BY <1>1, Least
  <1>3. m # 0
    <2>1. [i \in 0..0 |-> a] \in [0..0 -> S]
      OBVIOUS
    <2>2. [i \in 0..0 |-> a][0] = a /\ 1..0 = {}
      OBVIOUS
    <2>3. Times(0)
      BY <2>1, <2>2
    <2> QED
      BY <1>2, <2>3
  <1>4. m - 1 \in Nat /\ Times(m - 1)
    <2>1. m - 1 \in Nat /\ ~(m <= m - 1)
      BY <1>2, <1>3
    <2> HIDE DEF Times
    <2> QED
      BY <1>2, <2>1
  <1>5. PICK h \in [0..(m - 1) -> S] :
           h[0] = a /\ \A i \in 1..(m - 1) : h[i] = f[h[i - 1]]
    BY <1>4
  <1> DEFINE g == [i \in 0..m |-> IF i = m THEN f[h[m - 1]] ELSE h[i]]
  <1>6. g \in [0..m -> S] /\ g[0] = a
    <2>1. \A i \in 0..m : i # m => i \in 0..(m - 1)
      BY <1>2
    <2>2. m - 1 \in 0..(m - 1) /\ 0 \in 0..m
      BY <1>2, <1>4
    <2> QED
      BY <1>2, <1>3, <1>5, <2>1, <2>2
  <1>7. ASSUME NEW i \in 1..m PROVE g[i] = f[g[i - 1]]
    <2>1. i \in 0..m /\ i - 1 \in 0..m /\ i - 1 # m
      BY <1>2
    <2>2. i # m => i \in 1..(m - 1)
      BY <1>2
    <2> QED
      BY <1>5, <2>1, <2>2
  <1>8. Times(m)
    BY <1>6, <1>7
  <1> QED
    BY <1>2, <1>8

(* The same for a step that depends on how far it is.                       *)
Recurs(h, S, a, step, n) ==
    /\ h \in [0..n -> S]
    /\ h[0] = a
    /\ \A i \in 1..n : h[i] = step[<<i, h[i - 1]>>]

(* There is such a recursion, whatever the step.                            *)
LEMMA Recursion ==
  ASSUME NEW S, NEW a \in S, NEW n \in Nat, NEW step \in [(1..n) \X S -> S]
  PROVE  \E h : Recurs(h, S, a, step, n)
  <1> DEFINE Up(m) == \E h \in [0..m -> S] :
                h[0] = a /\ \A i \in 1..m : h[i] = step[<<i, h[i - 1]>>]
             T == {m \in 0..n : ~Up(m)}
  <1>1. SUFFICES ASSUME T # {} PROVE FALSE
    <2>1. n \in 0..n
      OBVIOUS
    <2>2. T = {} => Up(n)
      BY <2>1
    <2> QED
      BY <2>2 DEF Recurs
  <1>2. PICK m \in T : \A l \in T : m <= l
    <2>1. T \in SUBSET Nat
      OBVIOUS
    <2> HIDE DEF T
    <2> QED
      BY <1>1, <2>1, Least
  <1>3. m # 0
    <2>1. [i \in 0..0 |-> a] \in [0..0 -> S]
      OBVIOUS
    <2>2. [i \in 0..0 |-> a][0] = a /\ 1..0 = {}
      OBVIOUS
    <2>3. Up(0)
      BY <2>1, <2>2
    <2> QED
      BY <1>2, <2>3
  <1>4. m \in 1..n /\ m - 1 \in Nat /\ Up(m - 1)
    <2>1. m \in 1..n /\ m - 1 \in 0..n /\ ~(m <= m - 1)
      BY <1>2, <1>3
    <2> HIDE DEF Up
    <2> QED
      BY <1>2, <2>1
  <1>5. PICK h \in [0..(m - 1) -> S] :
           h[0] = a /\ \A i \in 1..(m - 1) : h[i] = step[<<i, h[i - 1]>>]
    BY <1>4
  <1> DEFINE last == step[<<m, h[m - 1]>>]
             g == [i \in 0..m |-> IF i = m THEN last ELSE h[i]]
  <1>6. last \in S
    <2>1. h[m - 1] \in S
      BY <1>4
    <2> QED
      BY <1>4, <2>1
  <1>7. g \in [0..m -> S] /\ g[0] = a
    <2>1. \A i \in 0..m : i # m => i \in 0..(m - 1)
      BY <1>4
    <2>2. m - 1 \in 0..(m - 1) /\ 0 \in 0..m
      BY <1>4
    <2> HIDE DEF last
    <2> QED
      BY <1>3, <1>5, <1>6, <2>1, <2>2
  <1>8. ASSUME NEW i \in 1..m PROVE g[i] = step[<<i, g[i - 1]>>]
    <2>1. i \in 0..m /\ i - 1 \in 0..m /\ i - 1 # m
      BY <1>4
    <2>2. i # m => i \in 1..(m - 1)
      BY <1>4
    <2>3. CASE i = m
      BY <2>1, <2>3
    <2>4. CASE i # m
      BY <1>5, <2>1, <2>2, <2>4
    <2> QED
      BY <2>3, <2>4
  <1>9. Up(m)
    BY <1>7, <1>8
  <1> QED
    BY <1>2, <1>9

-----------------------------------------------------------------------------
(* Induction up to a number, with a set in place of a predicate.            *)
LEMMA UpTo ==
  ASSUME NEW n \in Nat, NEW G, 0 \in G,
         \A m \in 1..n : m - 1 \in G => m \in G
  PROVE  \A m \in 0..n : m \in G
  <1> DEFINE T == {m \in 0..n : m \notin G}
  <1>1. SUFFICES ASSUME T # {} PROVE FALSE
    OBVIOUS
  <1>2. PICK m \in T : \A l \in T : m <= l
    <2>1. T \in SUBSET Nat
      OBVIOUS
    <2> HIDE DEF T
    <2> QED
      BY <1>1, <2>1, Least
  <1>3. m \in 1..n /\ m - 1 \in 0..n /\ ~(m <= m - 1)
    BY <1>2
  <1>4. m - 1 \in G
    BY <1>2, <1>3
  <1> QED
    BY <1>2, <1>3, <1>4

(* Two functions that begin alike and go on alike are alike.                *)
Alike(g, h, n) ==
    /\ g[0] = h[0]
    /\ \A i \in 1..n : g[i - 1] = h[i - 1] => g[i] = h[i]

(* So they end alike.                                                       *)
LEMMA GoOnAlike ==
  ASSUME NEW n \in Nat, NEW g, NEW h, Alike(g, h, n)
  PROVE  g[n] = h[n]
  <1> DEFINE T == {i \in 0..n : g[i] # h[i]}
  <1>1. SUFFICES ASSUME T # {} PROVE FALSE
    OBVIOUS
  <1>2. T \in SUBSET Nat
    OBVIOUS
  <1>3. PICK i \in T : \A l \in T : i <= l
    BY <1>1, <1>2, Least
  <1>4. i \in 1..n
    BY <1>3 DEF Alike
  <1>5. i - 1 \in 0..n /\ ~(i <= i - 1)
    BY <1>4
  <1>6. g[i - 1] = h[i - 1]
    BY <1>3, <1>5
  <1> QED
    BY <1>3, <1>4, <1>6 DEF Alike

(* A policy that validate accepts has durations that exist.                 *)
LEMMA PolicyType ==
  ASSUME NEW p \in RetryPolicies
  PROVE  p.initial \in 0..MaxInt /\ p.max \in 0..MaxInt /\ p.jitter \in 0..100
  BY DurationAssumption DEF RetryPolicies, ValidateRetry, Duration, MinInt

(* Doubling stops before it could overflow.                                 *)
LEMMA TwiceIsDouble ==
  ASSUME NEW d \in 0..MaxInt, ~(d > MaxInt \div 2)
  PROVE  Twice(d) = 2 * d /\ 2 * d \in 0..MaxInt
  <1> DEFINE h == MaxInt \div 2
  <1>1. h \in Nat /\ MaxInt = 2 * h + 1
    BY DurationAssumption
  <1>2. 2 * d \in 0..MaxInt
    BY <1>1
  <1> DEFINE m == 2 * (MaxInt + 1)
             x == 2 * d
  <1>3. m \in Nat /\ m > 0 /\ x \in 0..(m - 1)
    BY <1>2, DurationAssumption
  <1>4. x % m = x
    <2> HIDE DEF m, x
    <2> QED
      BY <1>3
  <1>5. ~(x > MaxInt)
    BY <1>2, DurationAssumption
  <1> HIDE DEF m, h
  <1> QED
    BY <1>2, <1>4, <1>5 DEF Twice, m

Stuck(p, d, ideal) == AtCap(p, d) /\ ideal >= 2 * d

(* The doubled delay is the ideal one as long as it doubles, and less than  *)
(* half of it after that.                                                   *)
LEMMA DoubledOrStuck ==
  ASSUME NEW p \in RetryPolicies, NEW n \in Nat
  PROVE  /\ Doubled(p, n) \in 0..MaxInt /\ Ideal(p, n) \in Nat
         /\ Doubled(p, n) = Ideal(p, n) \/ Stuck(p, Doubled(p, n), Ideal(p, n))
         /\ p.max = 0 => Doubled(p, n) = p.initial
         /\ Ideal(p, n) >= p.initial
         /\ p.initial = 0 => Ideal(p, n) = 0
  <1> DEFINE Next1(d) == IF AtCap(p, d) THEN d ELSE Twice(d)
             a == p.initial
  <1>1. a \in 0..MaxInt /\ p.max \in 0..MaxInt /\ MaxInt \in Nat
    BY PolicyType, DurationAssumption
  <1>2. \A d \in 0..MaxInt : Next1(d) \in 0..MaxInt
    BY TwiceIsDouble DEF AtCap
  <1>3. PICK held \in [0..n -> 0..MaxInt] :
           held[0] = a /\ \A i \in 1..n : held[i] = Next1(held[i - 1])
    <2> DEFINE f == [d \in 0..MaxInt |-> Next1(d)]
    <2>1. f \in [0..MaxInt -> 0..MaxInt]
      BY <1>2
    <2>2. PICK held \in [0..n -> 0..MaxInt] :
             held[0] = a /\ \A i \in 1..n : held[i] = f[held[i - 1]]
      <3> DEFINE S == 0..MaxInt
      <3>1. f \in [S -> S] /\ a \in S
        BY <1>1, <2>1
      <3> HIDE DEF f, S, a
      <3>2. \E held : Iterates(held, S, a, f, n)
        BY <3>1, Iterated, Zenon
      <3> QED
        BY <3>2 DEF S, Iterates
    <2>3. \A i \in 1..n : held[i - 1] \in 0..MaxInt
      OBVIOUS
    <2> QED
      BY <2>2, <2>3
  <1>4. PICK I \in [0..n -> Nat] :
           I[0] = a /\ \A i \in 1..n : I[i] = 2 * I[i - 1]
    <2> DEFINE f == [d \in Nat |-> 2 * d]
    <2>1. f \in [Nat -> Nat] /\ a \in Nat
      BY <1>1
    <2>2. PICK I \in [0..n -> Nat] :
             I[0] = a /\ \A i \in 1..n : I[i] = f[I[i - 1]]
      <3> DEFINE S == Nat
      <3>1. f \in [S -> S] /\ a \in S
        BY <2>1
      <3> HIDE DEF f, S, a
      <3>2. \E I : Iterates(I, S, a, f, n)
        BY <3>1, Iterated, Zenon
      <3> QED
        BY <3>2 DEF S, Iterates
    <2>3. \A i \in 1..n : I[i - 1] \in Nat
      OBVIOUS
    <2> QED
      BY <2>2, <2>3
  <1>5. Doubled(p, n) = held[n]
    <2> DEFINE d[k \in 0..n] ==
                 IF k = 0 THEN p.initial
                 ELSE IF AtCap(p, d[k - 1]) THEN d[k - 1] ELSE Twice(d[k - 1])
        Row(g) == g = [k \in 0..n |->
                 IF k = 0 THEN p.initial
                 ELSE IF AtCap(p, g[k - 1]) THEN g[k - 1] ELSE Twice(g[k - 1])]
    <2>1. Row(held)
      <3>1. \A k \in 0..n : k # 0 => k \in 1..n
        OBVIOUS
      <3>2. \A k \in 0..n : held[k] = IF k = 0 THEN a ELSE Next1(held[k - 1])
        <4> HIDE DEF Next1
        <4> QED
          BY <1>3, <3>1
      <3> QED
        BY <3>2
    <2> HIDE DEF d
    <2>2. Row(d)
      BY <2>1 DEF d
    <2>3. Doubled(p, n) = d[n]
      BY DEF Doubled, d
    <2>4. Alike(held, d, n)
      <3>1. \A i \in 1..n : i \in 0..n /\ i # 0
        OBVIOUS
      <3>2. 0 \in 0..n
        OBVIOUS
      <3> QED
        BY <2>1, <2>2, <3>1, <3>2 DEF Alike
    <2>5. held[n] = d[n]
      BY <2>4, GoOnAlike, Zenon
    <2> QED
      BY <2>3, <2>5
  <1>6. Ideal(p, n) = I[n]
    <2> DEFINE d[k \in 0..n] == IF k = 0 THEN p.initial ELSE 2 * d[k - 1]
        Row(g) == g = [k \in 0..n |-> IF k = 0 THEN p.initial ELSE 2 * g[k - 1]]
    <2>1. Row(I)
      <3>1. \A k \in 0..n : k # 0 => k \in 1..n
        OBVIOUS
      <3>2. \A k \in 0..n : I[k] = IF k = 0 THEN a ELSE 2 * I[k - 1]
        BY <1>4, <3>1
      <3> QED
        BY <3>2
    <2> HIDE DEF d
    <2>2. Row(d)
      BY <2>1 DEF d
    <2>3. Ideal(p, n) = d[n]
      BY DEF Ideal, d
    <2>4. Alike(I, d, n)
      <3>1. \A i \in 1..n : i \in 0..n /\ i # 0
        OBVIOUS
      <3>2. 0 \in 0..n
        OBVIOUS
      <3> QED
        BY <2>1, <2>2, <3>1, <3>2 DEF Alike
    <2>5. I[n] = d[n]
      BY <2>4, GoOnAlike, Zenon
    <2> QED
      BY <2>3, <2>5
  <1> DEFINE Bad == {i \in 0..n : ~(/\ held[i] = I[i] \/ Stuck(p, held[i], I[i])
                                    /\ p.max = 0 => held[i] = a
                                    /\ I[i] >= a
                                    /\ a = 0 => I[i] = 0)}
  <1>7. Bad = {}
    <2>1. SUFFICES ASSUME Bad # {} PROVE FALSE
      OBVIOUS
    <2>10. Bad \in SUBSET Nat
      OBVIOUS
    <2>2. PICK i \in Bad : \A l \in Bad : i <= l
      <3> HIDE DEF Bad
      <3> QED
        BY <2>1, <2>10, Least
    <2>3. i # 0
      BY <1>1, <1>3, <1>4, <2>2
    <2>4. i \in 1..n /\ i - 1 \in 0..n /\ ~(i <= i - 1)
      BY <2>2, <2>3
    <2> DEFINE dd == held[i - 1]
               ii == I[i - 1]
    <2>5. /\ dd = ii \/ Stuck(p, dd, ii)
          /\ p.max = 0 => dd = a
          /\ ii >= a
          /\ a = 0 => ii = 0
      BY <2>2, <2>4
    <2>6. /\ dd \in 0..MaxInt /\ ii \in Nat
          /\ I[i] = 2 * ii
          /\ held[i] = Next1(dd)
      BY <1>3, <1>4, <2>4
    <2>7. ~(/\ held[i] = I[i] \/ Stuck(p, held[i], I[i])
            /\ p.max = 0 => held[i] = a
            /\ I[i] >= a
            /\ a = 0 => I[i] = 0)
      BY <2>2
    <2> HIDE DEF dd, ii, Bad
    <2>8. CASE AtCap(p, dd)
      <3>1. held[i] = dd /\ I[i] >= 2 * dd
        BY <1>1, <2>5, <2>6, <2>8 DEF Stuck
      <3> QED
        BY <1>1, <2>5, <2>6, <2>7, <2>8, <3>1 DEF Stuck
    <2>9. CASE ~AtCap(p, dd)
      <3>1. dd = ii /\ ~(dd > MaxInt \div 2) /\ p.max # 0
        BY <1>1, <2>5, <2>6, <2>9 DEF Stuck, AtCap
      <3>2. held[i] = 2 * dd
        BY <2>6, <2>9, <3>1, TwiceIsDouble
      <3> QED
        BY <1>1, <2>5, <2>6, <2>7, <3>1, <3>2
    <2> QED
      BY <2>8, <2>9
  <1>8. n \in 0..n
    OBVIOUS
  <1> QED
    BY <1>3, <1>4, <1>5, <1>6, <1>7, <1>8

(* retry.go backoff: for every policy Validate accepts, every retry number  *)
(* and every width of a duration, the nominal delay is the doubled initial  *)
(* one, cut at the cap; where a cap is missed it is by less than one        *)
(* doubling, and nothing overflows.                                         *)
THEOREM BackoffsAreClamped ==
  ASSUME NEW p \in RetryPolicies, NEW n \in Nat
  PROVE  BackoffClampedFor(p, n) /\ Backoff(p, n) \in 0..MaxInt
  <1> DEFINE d == Doubled(p, n)
             ideal == Ideal(p, n)
             h == MaxInt \div 2
  <1>1. /\ d \in 0..MaxInt /\ ideal \in Nat
        /\ d = ideal \/ ((d >= p.max \/ d > h) /\ ideal >= 2 * d)
        /\ p.max = 0 => d = p.initial
        /\ ideal >= p.initial
        /\ p.initial = 0 => ideal = 0
    BY DoubledOrStuck DEF Stuck, AtCap
  <1>2. /\ p.initial \in 0..MaxInt /\ p.max \in 0..MaxInt
        /\ MaxInt \in Nat /\ h \in Nat /\ MaxInt = 2 * h + 1
    BY PolicyType, DurationAssumption
  <1>3. Backoff(p, n) = IF p.initial = 0 THEN 0
                        ELSE IF p.max > 0 /\ d > p.max THEN p.max ELSE d
    BY DEF Backoff
  <1>4. BackoffClampedFor(p, n) <=>
          IF p.max = 0 THEN Backoff(p, n) = p.initial
          ELSE IF ideal <= p.max THEN Backoff(p, n) = ideal
          ELSE IF p.initial = 0 THEN Backoff(p, n) = 0
          ELSE Backoff(p, n) = p.max \/ Backoff(p, n) \in (h + 1)..p.max
    BY DEF BackoffClampedFor
  <1> HIDE DEF d, ideal, h
  <1>6. CASE p.initial = 0
    BY <1>1, <1>2, <1>3, <1>4, <1>6
  <1>7. CASE p.initial # 0
    BY <1>1, <1>2, <1>3, <1>4, <1>7
  <1> QED
    BY <1>6, <1>7

(* What is no more before a multiplication is no more after it.             *)
LEMMA Cancel ==
  ASSUME NEW a \in Int, NEW b \in Int, NEW c \in Nat \ {0}, a * c <= b * c
  PROVE  a <= b
  <1>1. SUFFICES ASSUME a >= b + 1 PROVE FALSE
    OBVIOUS
  <1>2. a * c >= (b + 1) * c
    BY <1>1
  <1>3. (b + 1) * c = b * c + c
    OBVIOUS
  <1> QED
    BY <1>2, <1>3

(* A product grows with a factor.                                           *)
LEMMA Grows ==
  ASSUME NEW a \in Int, NEW b \in Int, NEW c \in Nat, a <= b
  PROVE  a * c <= b * c
  <1>1. PICK e \in Nat : b = a + e
    BY b - a \in Nat, b = a + (b - a)
  <1>2. b * c = a * c + e * c /\ e * c \in Nat
    BY <1>1
  <1> QED
    BY <1>2

(* What rounding down leaves of a quotient.                                 *)
LEMMA Quotient ==
  ASSUME NEW x \in Nat, NEW y \in Nat \ {0}
  PROVE  LET q == x \div y
         IN  q \in Nat /\ q * y <= x /\ x <= (q + 1) * y
  <1>1. x \div y \in Int /\ x = y * (x \div y) + (x % y) /\ x % y \in 0..(y - 1)
    OBVIOUS
  <1> QED
    BY <1>1

(* The jittered delay is within the jitter of the nominal one.              *)
LEMMA JitterBounds ==
  ASSUME NEW p \in RetryPolicies, NEW b \in Nat,
         NEW r \in 0..(Grain - 1)
  PROVE  LET s == Jittered(p, b, r)
         IN  /\ s \in Nat
             /\ 100 * s <= (100 + p.jitter) * b
             /\ 100 * (s + 1) >= (100 - p.jitter) * b
  <1> DEFINE j == p.jitter
             g == Grain
  <1>8. j \in 0..100 /\ g \in Nat \ {0} /\ r \in 0..(g - 1)
    BY PolicyType, DurationAssumption
  <1> DEFINE e == j * (2 * r - g)
             w == 100 * g + e
             x == b * w
             y == 100 * g
             q == x \div y
  <1> HIDE DEF j, g
  <1>1. /\ e \in Int /\ j * g \in Int
        /\ 0 - (j * g) <= e /\ e <= j * g
    <2>1. /\ (2 * r - g) \in Int /\ 0 - g \in Int /\ 0 - g <= 2 * r - g
          /\ 2 * r - g <= g /\ j \in Nat
      BY <1>8
    <2>2. (0 - g) * j <= (2 * r - g) * j /\ (2 * r - g) * j <= g * j
      BY <1>8, <2>1, Grows
    <2>3. (0 - g) * j = 0 - (j * g) /\ (2 * r - g) * j = e /\ g * j = j * g
      BY <1>8
    <2> QED
      BY <1>8, <2>2, <2>3
  <1> HIDE DEF e
  <1>2. /\ w \in Int /\ (100 - j) * g \in Nat
        /\ (100 - j) * g <= w /\ w <= (100 + j) * g
    <2>1. (100 - j) * g = 100 * g - j * g /\ (100 + j) * g = 100 * g + j * g
      BY <1>8
    <2>2. 100 - j \in Nat
      BY <1>8
    <2>3. (100 - j) * g \in Nat
      BY <1>8, <2>2
    <2> QED
      BY <1>1, <1>8, <2>1, <2>3
  <1> HIDE DEF w
  <1>3. /\ x \in Nat
        /\ ((100 - j) * g) * b <= x /\ x <= ((100 + j) * g) * b
    <2>1. w \in Nat /\ (100 + j) * g \in Int /\ w * b = x
      BY <1>2, <1>8
    <2> QED
      BY <1>2, <1>8, <2>1, Grows
  <1> HIDE DEF x
  <1>4. q \in Nat /\ q * y <= x /\ x <= (q + 1) * y
    <2>1. x \in Nat /\ y \in Nat \ {0}
      BY <1>3, <1>8
    <2> HIDE DEF y
    <2> QED
      BY <2>1, Quotient, Zenon
  <1> HIDE DEF q
  <1>5. 100 * q <= (100 + j) * b
    <2>1. (100 * q) * g <= ((100 + j) * b) * g
      BY <1>3, <1>4, <1>8
    <2> QED
      BY <1>4, <1>8, <2>1, Cancel
  <1>6. (100 - j) * b <= 100 * (q + 1)
    <2>1. ((100 - j) * b) * g <= (100 * (q + 1)) * g
      BY <1>3, <1>4, <1>8
    <2> QED
      BY <1>4, <1>8, <2>1, Cancel
  <1>7. Jittered(p, b, r) = q
    BY DEF Jittered, q, x, w, e, j, g
  <1> HIDE DEF y
  <1> QED
    BY <1>4, <1>5, <1>6, <1>7 DEF j

(* retry.go delayFor: whatever the draw and whatever the conversion of the  *)
(* float gives, a delay is never negative and stays within the jitter of    *)
(* the nominal one, unless it overflowed.                                   *)
THEOREM DelaysAreUsable ==
  ASSUME NEW p \in RetryPolicies, NEW n \in Nat
  PROVE  DelayUsableFor(p, n)
  <1> DEFINE b == Backoff(p, n)
             j == p.jitter
  <1>1. b \in 0..MaxInt
    BY BackoffsAreClamped
  <1>2. j \in 0..100 /\ MaxInt \in Nat /\ Grain \in Nat \ {0}
    BY PolicyType, DurationAssumption
  <1>3. SUFFICES ASSUME NEW d \in DelayFor(p, n)
                 PROVE  /\ d \in 0..MaxInt
                        /\ \/ d \in {0, MaxInt}
                           \/ /\ 100 * d <= (100 + j) * b
                              /\ 100 * (d + 1) >= (100 - j) * b
    BY DEF DelayUsableFor
  <1>4. CASE b <= 0 \/ j <= 0
    <2>1. d = b
      BY <1>4 DEF DelayFor
    <2> HIDE DEF b, j
    <2>2. CASE b = 0
      BY <1>1, <1>2, <2>1, <2>2
    <2>3. CASE b # 0
      <3>1. j = 0
        BY <1>1, <1>2, <1>4, <2>3
      <3> QED
        BY <1>1, <1>2, <2>1, <3>1
    <2> QED
      BY <2>2, <2>3
  <1>5. CASE ~(b <= 0 \/ j <= 0)
    <2>1. PICK r \in 0..(Grain - 1) :
             \E x \in Converted(Jittered(p, b, r)) : d = NonNegative(x)
      BY <1>5 DEF DelayFor
    <2> DEFINE q == Jittered(p, b, r)
    <2>2. q \in Nat /\ 100 * q <= (100 + j) * b /\ 100 * (q + 1) >= (100 - j) * b
      <3>1. b \in Nat
        BY <1>1
      <3> HIDE DEF b
      <3> QED
        BY <3>1, JitterBounds
    <2>3. PICK x \in Converted(q) : d = NonNegative(x)
      BY <2>1
    <2> HIDE DEF b, j, q
    <2>4. CASE q \in Duration
      <3>1. d = q
        BY <2>2, <2>3, <2>4 DEF Converted, NonNegative
      <3> QED
        BY <1>2, <2>2, <2>4, <3>1 DEF Duration, MinInt
    <2>5. CASE q \notin Duration
      BY <1>2, <2>3, <2>5 DEF Converted, NonNegative, MinInt
    <2> QED
      BY <2>4, <2>5
  <1> QED
    BY <1>4, <1>5

(* errors.go parseRetryAfter and retry.go: no header makes a retry sleep a  *)
(* negative time, for any number of seconds, any distance of a date and any *)
(* policy, the values that do not fit a duration included.                  *)
THEOREM ServerDelaysAreUsable ==
  ASSUME NEW status, NEW policy, NEW h, h.form \in HeaderForms, h.n \in Int
  PROVE  ServerDelayUsableFor(status, h, policy)
  <1> DEFINE form == h.form
             k == h.n
  <1>1. SUFFICES ASSUME NEW after \in ParseRetryAfter(h)
                 PROVE  RetryAfterFrom(policy,
                           NewAPIError(status, after, [shape |-> "junk"]))
                              \in 0..MaxInt
    BY DEF ServerDelayUsableFor
  <1>2. /\ h.form = form /\ h.n = k /\ MaxInt \in Nat /\ OneSecond \in Nat
        /\ k \in Int
    BY DurationAssumption
  <1>0. form \in {"absent", "junk", "nan", "infinite", "seconds", "date"}
    BY DEF HeaderForms
  <1> HIDE DEF form, k
  <1>3. \A x \in Int : Converted(x) \subseteq Duration
    BY <1>2 DEF Converted, Duration, MinInt
  <1>4. after \in Duration
    <2>1. k * OneSecond \in Int
      BY <1>2
    <2>2. CASE form = "seconds"
      BY <1>1, <1>2, <1>3, <2>1, <2>2 DEF ParseRetryAfter, Duration, MinInt
    <2>3. CASE form \in {"absent", "junk"}
      BY <1>1, <1>2, <2>3 DEF ParseRetryAfter, Duration, MinInt
    <2>4. CASE form = "nan"
      BY <1>1, <1>2, <2>4 DEF ParseRetryAfter, FromNotANumber, Duration, MinInt
    <2>5. CASE form = "infinite"
      BY <1>1, <1>2, <2>5 DEF ParseRetryAfter, Duration, MinInt
    <2>6. CASE form = "date"
      BY <1>1, <1>2, <2>6 DEF ParseRetryAfter, Duration, MinInt
    <2> QED
      BY <1>0, <2>2, <2>3, <2>4, <2>5, <2>6
  <1> DEFINE err == NewAPIError(status, after, [shape |-> "junk"])
  <1>5. err.after \in {0, after}
    BY DEF NewAPIError
  <1> HIDE DEF err
  <1>6. RetryAfterFrom(policy, err) \in {0} \cup {x \in {err.after} : x > 0}
    BY DEF RetryAfterFrom
  <1> QED
    BY <1>2, <1>4, <1>5, <1>6 DEF err, Duration, MinInt

-----------------------------------------------------------------------------
(* The errors whose chains are made of the given kinds, in whatever order.  *)
ErrorValues(kinds) ==
    [chain : Seq(kinds), status : Int, after : Int,
     reason : STRING, details : Nat]

(* An error with one more kind in front is of that kind besides its own.    *)
LEMMA IsWrapped ==
  ASSUME NEW kinds, NEW err \in ErrorValues(kinds), NEW front \in kinds,
         NEW kind
  PROVE  Is([err EXCEPT !.chain = <<front>> \o @], kind)
            <=> kind = front \/ Is(err, kind)
  <1> DEFINE s == err.chain
             t == <<front>> \o s
  <1>1. s \in Seq(kinds)
    BY DEF ErrorValues
  <1>2. [err EXCEPT !.chain = <<front>> \o @].chain = t
    BY DEF ErrorValues
  <1>3. /\ DOMAIN s = 1..Len(s)
        /\ Len(s) \in Nat
        /\ DOMAIN t = 1..(Len(s) + 1)
        /\ t[1] = front
        /\ \A i \in 1..Len(s) : t[i + 1] = s[i]
    BY <1>1
  <1>4. (\E i \in DOMAIN t : t[i] = kind)
           <=> kind = front \/ \E i \in DOMAIN s : s[i] = kind
    <2> HIDE DEF s, t
    <2>1. ASSUME NEW i \in DOMAIN t, t[i] = kind
          PROVE  kind = front \/ \E k \in DOMAIN s : s[k] = kind
      <3>1. CASE i = 1
        BY <1>3, <2>1, <3>1
      <3>2. CASE i # 1
        <4>1. i - 1 \in 1..Len(s) /\ (i - 1) + 1 = i
          BY <1>3, <2>1, <3>2
        <4> QED
          BY <1>3, <2>1, <4>1
      <3> QED
        BY <3>1, <3>2
    <2>2. ASSUME kind = front
          PROVE  \E i \in DOMAIN t : t[i] = kind
      <3>1. 1 \in DOMAIN t /\ t[1] = kind
        BY <1>3, <2>2
      <3> QED
        BY <3>1
    <2>3. ASSUME NEW k \in DOMAIN s, s[k] = kind
          PROVE  \E i \in DOMAIN t : t[i] = kind
      <3>1. k + 1 \in DOMAIN t /\ t[k + 1] = kind
        BY <1>3, <2>3
      <3> QED
        BY <3>1
    <2> QED
      BY <2>1, <2>2, <2>3
  <1> QED
    BY <1>2, <1>4 DEF Is

(* Two errors that differ only in a kind no consumer asks for mean the same *)
(* to all of them.                                                          *)
LEMMA SameMeaning ==
  ASSUME NEW err, NEW w, NEW front \in {"exhausted", "circuit_open"},
         err.chain # <<>>, w.chain # <<>>, w.reason = err.reason,
         \A kind : Is(w, kind) <=> kind = front \/ Is(err, kind)
  PROVE  /\ TemporalType(w) = TemporalType(err)
         /\ ExitCode(w) = ExitCode(err)
         /\ ErrorClass(w) = ErrorClass(err)
         /\ Throttled(w) = Throttled(err)
  <1>1. \A kind : kind # front => (Is(w, kind) <=> Is(err, kind))
    OBVIOUS
  <1>2. ASSUME NEW K, front \notin K
        PROVE  IsAny(w, K) <=> IsAny(err, K)
    BY <1>1, <1>2 DEF IsAny
  <1>3. TemporalType(w) = TemporalType(err)
    BY <1>1, <1>2 DEF TemporalType
  <1>4. IsUnknownModel(w) <=> IsUnknownModel(err)
    BY <1>1 DEF IsUnknownModel
  <1>5. ExitCode(w) = ExitCode(err)
    <2>1. /\ IsAny(w, {"no_api_key", "authentication", "permission_denied"})
               <=> IsAny(err, {"no_api_key", "authentication", "permission_denied"})
          /\ IsAny(w, {"connection", "timeout"})
               <=> IsAny(err, {"connection", "timeout"})
          /\ IsAny(w, {"rate_limit", "overloaded", "budget_exceeded"})
               <=> IsAny(err, {"rate_limit", "overloaded", "budget_exceeded"})
          /\ IsAny(w, {"invalid_request", "bad_request"})
               <=> IsAny(err, {"invalid_request", "bad_request"})
      BY <1>2
    <2> QED
      BY <1>4, <2>1 DEF ExitCode
  <1>6. Throttled(w) = Throttled(err)
    <2>1. IsAny(w, {"rate_limit", "overloaded", "budget_exceeded"})
             = IsAny(err, {"rate_limit", "overloaded", "budget_exceeded"})
      <3>1. front \notin {"rate_limit", "overloaded", "budget_exceeded"}
        OBVIOUS
      <3> QED
        BY <1>1 DEF IsAny
    <2> QED
      BY <2>1 DEF Throttled
  <1> DEFINE Hits(e) == {i \in DOMAIN ClassOrder : Is(e, ClassOrder[i])}
             First(H) == CHOOSE i \in H : \A j \in H : i <= j
             Class(H) == IF H = {} THEN "other"
                         ELSE IF ClassOrder[First(H)] = "deadline" THEN "timeout"
                         ELSE IF ClassOrder[First(H)] = "invalid_response"
                         THEN "response_validation" ELSE ClassOrder[First(H)]
  <1>7. Hits(w) = Hits(err)
    <2>1. \A i \in DOMAIN ClassOrder : ClassOrder[i] # front
      BY DEF ClassOrder
    <2> QED
      BY <1>1, <2>1
  <1>8. ErrorClass(w) = ErrorClass(err)
    <2>1. ErrorClass(w) = Class(Hits(w)) /\ ErrorClass(err) = Class(Hits(err))
      BY DEF ErrorClass
    <2> HIDE DEF Class, Hits
    <2> QED
      BY <1>7, <2>1
  <1> QED
    BY <1>3, <1>5, <1>6, <1>8

(* errors.go, retry.go: an error of any chain means the same to the         *)
(* Temporal activity, the exit code, the label and the limiter after the    *)
(* retry loop has wrapped it as exhausted or behind the breaker's           *)
(* rejection.                                                               *)
THEOREM WrappingKeepsTheMeaning ==
  ASSUME NEW kinds, NEW err \in ErrorValues(kinds)
  PROVE  WrappingKeepsMeaningOf(err)
  <1>1. SUFFICES ASSUME err.chain # <<>>,
                        NEW w \in {Exhausted(err), RejectedAfter(err)}
                 PROVE  /\ TemporalType(w) = TemporalType(err)
                        /\ ExitCode(w) = ExitCode(err)
                        /\ ErrorClass(w) = ErrorClass(err)
                        /\ Throttled(w) = Throttled(err)
    BY DEF WrappingKeepsMeaningOf
  <1>2. PICK front \in {"exhausted", "circuit_open"} :
           w = [err EXCEPT !.chain = <<front>> \o @]
    BY <1>1 DEF Exhausted, RejectedAfter
  <1>3. \A kind : Is(w, kind) <=> kind = front \/ Is(err, kind)
    <2>1. /\ err \in ErrorValues(kinds \cup {front})
          /\ front \in kinds \cup {front}
      BY DEF ErrorValues
    <2>2. \A kind : Is([err EXCEPT !.chain = <<front>> \o @], kind)
                       <=> kind = front \/ Is(err, kind)
      BY <2>1, IsWrapped, Zenon
    <2> QED
      BY <1>2, <2>2, Zenon
  <1>4. w.chain # <<>> /\ w.reason = err.reason
    <2>1. w.chain = <<front>> \o err.chain /\ w.reason = err.reason
      BY <1>2 DEF ErrorValues
    <2>2. Len(<<front>> \o err.chain) # 0
      BY DEF ErrorValues
    <2> QED
      BY <2>1, <2>2
  <1> QED
    BY <1>1, <1>3, <1>4, SameMeaning

(* What is in a chain of two is one of them.                                *)
LEMMA OneOfTwo ==
  ASSUME NEW k, NEW j, NEW i \in DOMAIN (<<k>> \o <<j>>)
  PROVE  (<<k>> \o <<j>>)[i] \in {k, j}
  <1>1. ASSUME NEW S, NEW kk \in S, NEW jj \in S,
               NEW ii \in DOMAIN (<<kk>> \o <<jj>>)
        PROVE  (<<kk>> \o <<jj>>)[ii] \in {kk, jj}
    OBVIOUS
  <1>2. k \in {k, j} /\ j \in {k, j}
    OBVIOUS
  <1> QED
    BY <1>1, <1>2, Zenon

(* The kinds an error of a status may be of.                                *)
OfStatus(kind, status) ==
    \/ kind \in {"api", "server_error"}
    \/ status = 400 /\ kind = "bad_request"
    \/ status = 401 /\ kind = "authentication"
    \/ status = 403 /\ kind = "permission_denied"
    \/ status = 404 /\ kind = "not_found"
    \/ status = 422 /\ kind = "invalid_request"
    \/ status = 429 /\ kind = "rate_limit"
    \/ status = 529 /\ kind = "overloaded"

(* What errors.Is finds in an error of a status.                            *)
LEMMA KindsOfStatus ==
  ASSUME NEW status, NEW i \in DOMAIN (Typed(status) \o <<"api">>)
  PROVE  OfStatus((Typed(status) \o <<"api">>)[i], status)
  <1> DEFINE kind == (Typed(status) \o <<"api">>)[i]
  <1>2. CASE Typed(status) = <<>>
    <2>1. Typed(status) \o <<"api">> = <<"api">>
      BY <1>2
    <2>2. kind = "api"
      BY <2>1
    <2> QED
      BY <2>2 DEF OfStatus
  <1>3. ASSUME NEW k, Typed(status) = <<k>>
        PROVE  kind \in {k, "api"}
    <2>1. i \in DOMAIN (<<k>> \o <<"api">>) /\ (<<k>> \o <<"api">>)[i] = kind
      BY <1>3
    <2> QED
      BY <2>1, OneOfTwo
  <1>4. \/ Typed(status) = <<>>
        \/ status = 400 /\ Typed(status) = <<"bad_request">>
        \/ status = 401 /\ Typed(status) = <<"authentication">>
        \/ status = 403 /\ Typed(status) = <<"permission_denied">>
        \/ status = 404 /\ Typed(status) = <<"not_found">>
        \/ status = 422 /\ Typed(status) = <<"invalid_request">>
        \/ status = 429 /\ Typed(status) = <<"rate_limit">>
        \/ status = 529 /\ Typed(status) = <<"overloaded">>
        \/ Typed(status) = <<"server_error">>
    BY DEF Typed
  <1> HIDE DEF kind
  <1>5. OfStatus(kind, status)
    BY <1>2, <1>3, <1>4 DEF OfStatus, kind
  <1> QED
    BY <1>5 DEF kind

(* What a failure can be taken for: what its status says, one thing, or a   *)
(* broken transport; and a panic besides.                                   *)
OnlyKinds(K, status) ==
    \/ \A kind \in K : OfStatus(kind, status)
    \/ status = 0 /\ \E k : K = {k}
    \/ status = 0 /\ \E cause \in Causes : K \subseteq {"timeout", "connection", cause}

(* What it finds in an error that a call can raise.                         *)
LEMMA KindsOfRaised ==
  ASSUME NEW chain \in Seq(STRING), NEW status, Raised(chain, status)
  PROVE  OnlyKinds({chain[i] : i \in DOMAIN chain}, status)
  <1> DEFINE K == {chain[i] : i \in DOMAIN chain}
  <1>1. CASE chain = Typed(status) \o <<"api">>
    BY <1>1, KindsOfStatus DEF OnlyKinds
  <1>2. CASE status = 0 /\ Len(chain) = 1
    <2>1. K = {chain[1]}
      BY <1>2
    <2> QED
      BY <1>2, <2>1 DEF OnlyKinds
  <1>3. ASSUME status = 0, NEW cause \in Causes, NEW kind \in {"timeout", "connection"},
               chain = <<kind, cause>>
        PROVE  OnlyKinds(K, status)
    <2>1. K \subseteq {"timeout", "connection", cause}
      BY <1>3
    <2> QED
      BY <1>3, <2>1 DEF OnlyKinds
  <1> QED
    BY <1>1, <1>2, <1>3 DEF Raised

(* What it finds in any failure, a recovered panic among them.              *)
LEMMA KindsOfFailure ==
  ASSUME NEW err, Failure(err)
  PROVE  \E K : /\ OnlyKinds(K, err.status)
                /\ \A kind : Is(err, kind) => kind = "panic" \/ kind \in K
  <1>1. err.chain \in Seq(STRING)
    BY DEF Failure, FailureValues
  <1>2. CASE Raised(err.chain, err.status)
    <2> DEFINE K == {err.chain[i] : i \in DOMAIN err.chain}
    <2>1. OnlyKinds(K, err.status)
      BY <1>1, <1>2, KindsOfRaised
    <2>2. \A kind : Is(err, kind) => kind \in K
      BY DEF Is
    <2> HIDE DEF K
    <2> QED
      BY <2>1, <2>2
  <1>3. CASE /\ err.chain # <<>> /\ Head(err.chain) = "panic"
             /\ Raised(Tail(err.chain), err.status)
    <2> DEFINE t == Tail(err.chain)
               K == {t[i] : i \in DOMAIN t}
    <2>1. t \in Seq(STRING)
      <3>1. \A S : \A s \in Seq(S) : s # <<>> => Tail(s) \in Seq(S)
        OBVIOUS
      <3> QED
        BY <1>1, <1>3, <3>1, Zenon
    <2>2. OnlyKinds(K, err.status)
      BY <1>3, <2>1, KindsOfRaised
    <2>3. ASSUME NEW i \in DOMAIN err.chain
          PROVE  err.chain[i] = "panic" \/ err.chain[i] \in K
      <3>1. i = 1 => err.chain[i] = "panic"
        BY <1>1, <1>3
      <3>2. i # 1 => i - 1 \in DOMAIN t /\ t[i - 1] = err.chain[i]
        BY <1>1, <1>3
      <3> QED
        BY <3>1, <3>2
    <2> HIDE DEF K
    <2> QED
      BY <2>2, <2>3 DEF Is
  <1> QED
    BY <1>2, <1>3 DEF Failure

(* For every failure, of any status, cause, context or panic: what Temporal *)
(* is told not to retry no policy without a predicate retries, what narrows *)
(* a batch Temporal retries, and a retried status has a label of its own    *)
(* and is no usage error.                                                   *)
THEOREM LayersAgreeOnFailures ==
  ASSUME NEW err, Failure(err), NEW default, default.predicate = "none"
  PROVE  LayersAgreeOn(err, default)
  <1>1. PICK K : /\ OnlyKinds(K, err.status)
                 /\ \A kind : Is(err, kind) => kind = "panic" \/ kind \in K
    BY KindsOfFailure
  <1> DEFINE status == err.status
             Final == {"authentication", "permission_denied", "not_found",
                       "bad_request", "invalid_request"}
  <1>2. status \in Int
    BY DEF Failure, FailureValues
  <1>3. ShouldRetry(default, err) =>
          \/ Is(err, "timeout") \/ Is(err, "connection")
          \/ Is(err, "api") /\ status \in DefaultStatuses
    BY DEF ShouldRetry
  <1>4. Throttled(err) => \/ Is(err, "rate_limit") \/ Is(err, "overloaded")
                          \/ Is(err, "budget_exceeded")
    BY DEF Throttled, IsAny
  <1>5. ASSUME ShouldRetry(default, err) PROVE status \in {0} \cup DefaultStatuses
    <2>1. CASE \A kind \in K : OfStatus(kind, status)
      BY <1>1, <1>3, <1>5, <2>1 DEF OfStatus
    <2> QED
      BY <1>1, <2>1 DEF OnlyKinds
  <1>6. ASSUME ShouldRetry(default, err) \/ Throttled(err), NEW kind \in Final
        PROVE  ~Is(err, kind)
    <2>1. CASE \A k \in K : OfStatus(k, status)
      BY <1>1, <1>2, <1>3, <1>4, <1>6, <2>1 DEF OfStatus, DefaultStatuses
    <2>2. CASE status = 0 /\ \E k : K = {k}
      BY <1>1, <1>3, <1>4, <1>6, <2>2 DEF DefaultStatuses
    <2>3. CASE \E cause \in Causes : K \subseteq {"timeout", "connection", cause}
      BY <1>1, <1>6, <2>3 DEF Causes
    <2> QED
      BY <1>1, <2>1, <2>2, <2>3 DEF OnlyKinds
  <1>7. ASSUME ShouldRetry(default, err) \/ Throttled(err)
        PROVE  TemporalType(err) = "retryable"
    BY <1>6, <1>7 DEF TemporalType, IsAny
  <1>8. ASSUME ShouldRetry(default, err)
        PROVE  StatusLabel(err.status) # "4xx"
    BY <1>2, <1>5, <1>8 DEF StatusLabel, DefaultStatuses
  <1>9. ASSUME ShouldRetry(default, err)
        PROVE  ExitCode(err) # 5
    <2>1. ~IsAny(err, {"invalid_request", "bad_request"})
      BY <1>6, <1>9 DEF IsAny
    <2> QED
      BY <2>1 DEF ExitCode
  <1> QED
    BY <1>7, <1>8, <1>9 DEF LayersAgreeOn

(* errors.go transportError: under a cancelled context no cause makes a     *)
(* call retried by any policy, labelled a timeout or a network failure at   *)
(* exit.                                                                    *)
THEOREM CancelledStaysCancelled ==
  ASSUME NEW cause, NEW ctx, NEW policy
  PROVE  CancelStaysCancelOf(cause, ctx, policy)
  <1> DEFINE err == Error(<<"canceled">>)
  <1>1. SUFFICES ASSUME ctx = "canceled"
                 PROVE  /\ ~ShouldRetry(policy, err)
                        /\ ErrorClass(err) = "canceled"
                        /\ ExitCode(err) # 4
    BY DEF CancelStaysCancelOf, TransportError, Cancelled
  <1>2. \A kind : Is(err, kind) <=> kind = "canceled"
    BY DEF Is, Error
  <1>3. err.chain # <<>>
    BY DEF Error
  <1> HIDE DEF err
  <1>4. ~ShouldRetry(policy, err)
    BY <1>2 DEF ShouldRetry
  <1>5. ErrorClass(err) = "canceled"
    <2>1. {i \in DOMAIN ClassOrder : Is(err, ClassOrder[i])} = {5}
      BY <1>2 DEF ClassOrder
    <2>2. ClassOrder[5] = "canceled"
      BY DEF ClassOrder
    <2>3. (CHOOSE i \in {5} : \A j \in {5} : i <= j) = 5
      OBVIOUS
    <2> QED
      BY <1>3, <2>1, <2>2, <2>3 DEF ErrorClass
  <1>6. ExitCode(err) # 4
    <2>1. ~IsAny(err, {"connection", "timeout"})
      BY <1>2 DEF IsAny
    <2> QED
      BY <1>3, <2>1 DEF ExitCode
  <1> QED
    BY <1>4, <1>5, <1>6

-----------------------------------------------------------------------------
(* retry.go, errors.go, temporal.go, output.go, prom.go: whatever the       *)
(* policy, the header and the failure, every part of RetriesSound holds.    *)
THEOREM RetriesAreSound ==
  ASSUME InputSane
  PROVE  RetriesSound
  <1>1. BackoffClamped
    BY BackoffsAreClamped DEF BackoffClamped, InputSane
  <1>2. DelayUsable
    BY DelaysAreUsable DEF DelayUsable, InputSane
  <1>3. ServerDelayUsable
    BY ServerDelaysAreUsable DEF ServerDelayUsable, InputSane, HeaderForms
  <1>4. WrappingKeepsMeaning
    BY WrappingKeepsTheMeaning DEF WrappingKeepsMeaning, InputSane, Failure,
       FailureValues, ErrorValues
  <1>5. LayersAgree
    BY LayersAgreeOnFailures DEF LayersAgree, InputSane, DefaultPolicy
  <1>6. CancelStaysCancel
    BY CancelledStaysCancelled DEF CancelStaysCancel
  <1> QED
    BY <1>1, <1>2, <1>3, <1>4, <1>5, <1>6 DEF RetriesSound

-----------------------------------------------------------------------------
(* Policies, routers, bands, calibration.                                   *)
LEMMA ClampType ==
  ASSUME NEW p \in Int
  PROVE  Clamp(p) \in 0..D
  BY ProbabilityAssumption DEF Clamp

(* Cleaning a value keeps the order.                                        *)
LEMMA ClampMonotone ==
  ASSUME NEW p \in Int, NEW q \in Int, p <= q, p # NotANumber, q # NotANumber
  PROVE  Clamp(p) <= Clamp(q)
  BY ProbabilityAssumption DEF Clamp

(* The most severe of some verdicts is one of them.                         *)
LEMMA MostSevere ==
  ASSUME NEW S \in SUBSET (1..3), S # {}
  PROVE  Max(S) \in S /\ \A i \in S : i <= Max(S)
  <1>1. \E x \in S : \A y \in S : x >= y
    <2>1. CASE 3 \in S
      <3>1. \A y \in S : 3 >= y
        OBVIOUS
      <3> QED
        BY <2>1, <3>1, Zenon
    <2>2. CASE 3 \notin S /\ 2 \in S
      <3>1. \A y \in S : 2 >= y
        <4> TAKE y \in S
        <4>1. y \in 1..3 /\ y # 3
          BY <2>2
        <4> QED
          BY <4>1
      <3> QED
        BY <2>2, <3>1, Zenon
    <2>3. CASE 3 \notin S /\ 2 \notin S
      <3>1. \A y \in S : y = 1
        BY <2>3
      <3>2. PICK y \in S : y = 1
        BY <3>1, Zenon
      <3>3. \A x \in S : 1 >= x
        BY <3>1
      <3> QED
        BY <3>2, <3>3, Zenon
    <2> QED
      BY <2>1, <2>2, <2>3
  <1> QED
    BY <1>1 DEF Max

Given(on) == IF on = {} THEN "allow" ELSE Verdicts[Max(on)]

(* The rank of a verdict says which thresholds its score reached.           *)
LEMMA RankOfGiven ==
  ASSUME NEW on \in SUBSET (1..3)
  PROVE  /\ Rank(Given(on)) = IF on = {} THEN 0 ELSE Max(on)
         /\ Given(on) # "error"
  <1>1. /\ Rank("allow") = 0 /\ Rank("warn") = 1
        /\ Rank("review") = 2 /\ Rank("block") = 3
    BY DEF Rank, Verdicts
  <1>2. CASE on = {}
    BY <1>1, <1>2 DEF Given
  <1>3. CASE on # {}
    <2>1. Max(on) = 1 \/ Max(on) = 2 \/ Max(on) = 3
      <3>1. Max(on) \in on
        BY <1>3, MostSevere, Zenon
      <3>2. Max(on) \in 1..3
        BY <3>1, Zenon
      <3> QED
        BY <3>2
    <2>2. Given(on) = Verdicts[Max(on)]
      BY <1>3 DEF Given
    <2>3. /\ Verdicts[1] = "warn" /\ Verdicts[2] = "review"
          /\ Verdicts[3] = "block"
      BY DEF Verdicts
    <2>4. CASE Max(on) = 1
      BY <1>1, <1>3, <2>2, <2>3, <2>4
    <2>5. CASE Max(on) = 2
      BY <1>1, <1>3, <2>2, <2>3, <2>5
    <2>6. CASE Max(on) = 3
      BY <1>1, <1>3, <2>2, <2>3, <2>6
    <2> QED
      BY <2>1, <2>4, <2>5, <2>6
  <1> QED
    BY <1>2, <1>3

On(policy, trace) ==
    {i \in 1..3 : policy.above[i] > 0 /\ Reaches(policy, trace, policy.above[i])}

(* An evaluation without an error gives the verdict of its score.           *)
LEMMA VerdictIsGiven ==
  ASSUME NEW policy, NEW trace
  PROVE  /\ Verdict(policy, trace) = Given(On(policy, trace))
         /\ On(policy, trace) \in SUBSET (1..3)
  BY DEF Verdict, Given, On

(* What a policy weighs is finite, and it weighs each by a number.          *)
LEMMA TermedType ==
  ASSUME NEW on \in SUBSET Signals, NEW policy \in PolicyValues(on), NEW answers
  PROVE  /\ IsFiniteSet(Termed(Composition(policy), answers))
         /\ Termed(Composition(policy), answers) \subseteq DOMAIN policy.weights
         /\ \A id \in DOMAIN policy.weights : policy.weights[id] \in Int
  <1>1. /\ DOMAIN policy.weights \subseteq Signals
        /\ \A id \in DOMAIN policy.weights : policy.weights[id] \in Int
    BY DEF PolicyValues
  <1>2. Termed(Composition(policy), answers) \subseteq DOMAIN policy.weights
    BY DEF Termed, Composition
  <1> QED
    BY <1>1, <1>2, SignalAssumption, FS_Subset

(* policy.go, weights.go: for every policy that Validate accepts, however   *)
(* it treats missing answers, raising answers never lowers the verdict.     *)
THEOREM VerdictsAreMonotone ==
  ASSUME NEW on \in SUBSET Signals, NEW policy \in PolicyValues(on), NEW ids,
         NEW low \in [ids -> Int], NEW high \in [ids -> Int]
  PROVE  VerdictMonotoneFor(policy, low, high)
  <1> SUFFICES ASSUME Validate(policy),
                      \A id \in ids : /\ NotANumber \notin {low[id], high[id]}
                                      /\ low[id] <= high[id],
                      Evaluate(policy, low) # "error"
               PROVE  Rank(Evaluate(policy, low)) <= Rank(Evaluate(policy, high))
    BY DEF VerdictMonotoneFor
  <1> DEFINE c == Composition(policy)
             T == Termed(c, low)
             w == policy.weights
             less == Explain(c, low)
             more == Explain(c, high)
             f == [id \in T |-> w[id] * Value(c, low, id)]
             g == [id \in T |-> w[id] * Value(c, high, id)]
  <1>0. c.weights = w /\ c.onMissing = policy.onMissing /\ c.default = 0
    BY DEF Composition
  <1>1. /\ IsFiniteSet(T)
        /\ \A id \in T : w[id] \in Nat
    <2>1. \A id \in DOMAIN w : w[id] >= 0
      BY DEF Validate, WeightsAllowed
    <2> QED
      BY <2>1, TermedType
  <1> HIDE DEF c
  <1>2. Termed(c, high) = T
    BY DEF Termed
  <1>3. \A id \in T : /\ Value(c, low, id) \in Int
                      /\ Value(c, high, id) \in Int
                      /\ Value(c, low, id) <= Value(c, high, id)
    <2> TAKE id \in T
    <2>1. Clamp(0) \in 0..D /\ D \in Nat
      BY ProbabilityAssumption, ClampType
    <2>2. CASE id \in ids
      <3>1. Clamp(low[id]) \in 0..D /\ Clamp(high[id]) \in 0..D
        BY <2>2, ClampType
      <3>2. Clamp(low[id]) <= Clamp(high[id])
        BY <2>2, ClampMonotone
      <3> QED
        BY <2>1, <2>2, <3>1, <3>2 DEF Value
    <2>3. CASE id \notin ids
      BY <1>0, <2>1, <2>3 DEF Value
    <2> QED
      BY <2>2, <2>3
  <1>4. less.total <= more.total /\ less.total \in Int /\ more.total \in Int
    <2>1. \A id \in T : f[id] \in Int /\ g[id] \in Int /\ f[id] <= g[id]
      <3> TAKE id \in T
      <3> DEFINE x == Value(c, low, id)
                 y == Value(c, high, id)
                 e == w[id]
      <3>1. x \in Int /\ y \in Int /\ x <= y /\ e \in Nat
        BY <1>1, <1>3
      <3>2. f[id] = e * x /\ g[id] = e * y
        OBVIOUS
      <3> HIDE DEF x, y, e, f, g
      <3>3. x * e <= y * e
        BY <3>1, Grows
      <3> QED
        BY <3>1, <3>2, <3>3
    <2>2. /\ less.total = SumFunctionOnSet(f, T)
          /\ more.total = SumFunctionOnSet(g, T)
      <3>1. DOMAIN f = T /\ DOMAIN g = T
        OBVIOUS
      <3>2. less.total = SumFunction(f) /\ more.total = SumFunction(g)
        BY <1>0, <1>2 DEF Explain
      <3> QED
        BY <3>1, <3>2 DEF SumFunction
    <2> HIDE DEF f, g
    <2> QED
      BY <1>1, <2>1, <2>2, SumMonotone, SumIsInt
  <1>5. less.weightSum = more.weightSum
    BY <1>2 DEF Explain
  <1>6. On(policy, less) \subseteq On(policy, more)
    <2> SUFFICES ASSUME NEW i \in 1..3, Reaches(policy, less, policy.above[i])
                 PROVE  Reaches(policy, more, policy.above[i])
      BY DEF On
    <2> DEFINE t == policy.above[i] * IF policy.normalize /\ less.weightSum # 0
                                      THEN less.weightSum ELSE 1
    <2>1. less.total >= t
      BY DEF Reaches
    <2>2. t \in Int
      <3>1. less.weightSum \in Int
        <4>1. less.weightSum = SumFunctionOnSet(w, T)
          BY <1>0 DEF Explain
        <4>2. \A id \in T : w[id] \in Int
          BY <1>1
        <4> HIDE DEF T, w, less
        <4> QED
          BY <1>1, <4>1, <4>2, SumIsInt
      <3>2. policy.above[i] \in Int
        BY DEF PolicyValues
      <3> QED
        BY <3>1, <3>2
    <2>3. Reaches(policy, more, policy.above[i]) <=> more.total >= t
      BY <1>5 DEF Reaches
    <2> HIDE DEF t, less, more
    <2> QED
      BY <1>4, <2>1, <2>2, <2>3
  <1>7. less.ok /\ more.ok
    <2>1. less.ok
      BY DEF Evaluate, c
    <2>2. less.ok = more.ok
      BY DEF Explain
    <2> QED
      BY <2>1, <2>2
  <1>8. /\ Evaluate(policy, low) = Given(On(policy, less))
        /\ Evaluate(policy, high) = Given(On(policy, more))
    BY <1>7, VerdictIsGiven DEF Evaluate, c
  <1>9. On(policy, less) \in SUBSET (1..3) /\ On(policy, more) \in SUBSET (1..3)
    BY VerdictIsGiven
  <1> HIDE DEF less, more
  <1> QED
    BY <1>6, <1>8, <1>9, RankOfGiven, MostSevere

(* A verdict that no other exceeds is the most severe.                      *)
LEMMA MostSevereIs ==
  ASSUME NEW S \in SUBSET (1..3), NEW i \in S, \A j \in S : j <= i
  PROVE  Max(S) = i
  <1>1. Max(S) \in S /\ i <= Max(S)
    BY MostSevere, Zenon
  <1>2. Max(S) <= i
    BY <1>1
  <1>3. i \in 1..3 /\ Max(S) \in 1..3
    BY <1>1, Zenon
  <1> QED
    BY <1>1, <1>2, <1>3

(* policy.go: in every policy that Validate accepts, each enabled verdict   *)
(* whose threshold differs from the others is reached.                      *)
THEOREM NoVerdictIsDead ==
  ASSUME NEW on \in SUBSET Signals, NEW policy \in PolicyValues(on)
  PROVE  NoDeadVerdictFor(policy)
  <1> DEFINE above == policy.above
  <1> SUFFICES ASSUME Ordered(above), NEW i \in 1..3, above[i] > 0,
                      \A j \in 1..3 : j # i => above[j] # above[i]
               PROVE  Verdict(policy, [ok |-> TRUE, weightSum |-> 1,
                                       total |-> above[i]]) = Verdicts[i]
    BY DEF NoDeadVerdictFor, Validate
  <1> DEFINE trace == [ok |-> TRUE, weightSum |-> 1, total |-> above[i]]
  <1>1. \A j \in 1..3 : above[j] \in Int
    BY DEF PolicyValues
  <1>2. \A j \in 1..3 : j \in On(policy, trace) <=>
                           above[j] > 0 /\ above[i] >= above[j]
    BY <1>1 DEF On, Reaches
  <1>3. On(policy, trace) \in SUBSET (1..3) /\ i \in On(policy, trace)
    BY <1>1, <1>2, VerdictIsGiven
  <1>4. \A j \in On(policy, trace) : j <= i
    <2> TAKE j \in On(policy, trace)
    <2>1. j \in 1..3 /\ above[j] > 0 /\ above[i] >= above[j]
      BY <1>2, <1>3
    <2>2. i < j => above[i] <= above[j]
      BY <2>1 DEF Ordered
    <2>3. above[i] \in Int /\ above[j] \in Int
      BY <1>1, <2>1
    <2> QED
      BY <2>1, <2>2, <2>3
  <1>5. Verdict(policy, trace) = Given(On(policy, trace))
    BY VerdictIsGiven
  <1>6. Max(On(policy, trace)) = i
    BY <1>3, <1>4, MostSevereIs, Zenon
  <1> QED
    BY <1>3, <1>5, <1>6 DEF Given

(* policy.go: a policy that skips what is missing decides as the policy     *)
(* without it, whatever the weights and the answers.                        *)
THEOREM SkippingIsRestricting ==
  ASSUME NEW on \in SUBSET Signals, NEW policy \in PolicyValues(on), NEW answers
  PROVE  SkippedIsRestrictedFor(policy, answers)
  <1> DEFINE asked == DOMAIN policy.weights \cap DOMAIN answers
             w == [id \in asked |-> policy.weights[id]]
             other == [policy EXCEPT !.weights = w, !.onMissing = "error"]
             this == Composition(policy)
             that == Composition(other)
             here == Explain(this, answers)
             there == Explain(that, answers)
  <1> SUFFICES ASSUME policy.onMissing = "skipped"
               PROVE  Evaluate(policy, answers) = Evaluate(other, answers)
    BY DEF SkippedIsRestrictedFor
  <1>1. /\ other.weights = w /\ other.onMissing = "error"
        /\ other.above = policy.above /\ other.normalize = policy.normalize
    BY DEF PolicyValues
  <1> HIDE DEF other
  <1>8. /\ this.weights = policy.weights /\ this.onMissing = "skipped"
        /\ that.weights = w /\ that.onMissing = "error"
        /\ this.default = 0 /\ that.default = 0
    BY <1>1 DEF Composition
  <1>9. IsFiniteSet(Termed(this, answers))
    BY TermedType
  <1> HIDE DEF this, that
  <1>2. Termed(this, answers) = asked /\ Termed(that, answers) = asked
    BY <1>8 DEF Termed
  <1>3. here.ok /\ there.ok
    BY <1>8 DEF Explain
  <1>4. here.total = there.total
    <2> DEFINE f == [id \in asked |-> this.weights[id] * Value(this, answers, id)]
               g == [id \in asked |-> that.weights[id] * Value(that, answers, id)]
    <2>1. f = g
      <3>1. \A id \in asked : /\ that.weights[id] = this.weights[id]
                              /\ Value(that, answers, id) = Value(this, answers, id)
        BY <1>8 DEF Value
      <3> QED
        BY <3>1
    <2>2. here.total = SumFunction(f) /\ there.total = SumFunction(g)
      BY <1>2 DEF Explain
    <2> QED
      BY <2>1, <2>2
  <1>5. here.weightSum = there.weightSum
    <2>1. /\ here.weightSum = SumFunctionOnSet(policy.weights, asked)
          /\ there.weightSum = SumFunctionOnSet(w, asked)
      BY <1>8, <1>2 DEF Explain
    <2>2. IsFiniteSet(asked)
      BY <1>9, <1>2
    <2>3. \A id \in asked : policy.weights[id] = w[id]
      OBVIOUS
    <2> HIDE DEF asked, w
    <2> QED
      BY <2>1, <2>2, <2>3, SumSame
  <1>6. On(policy, here) = On(other, there)
    BY <1>1, <1>4, <1>5 DEF On, Reaches
  <1>7. /\ Verdict(policy, here) = Given(On(policy, here))
        /\ Verdict(other, there) = Given(On(other, there))
    BY VerdictIsGiven
  <1> QED
    BY <1>3, <1>6, <1>7 DEF Evaluate, this, that

(* route.go: no answer below the required confidence gets a route of its    *)
(* own, and with a route for each option every other answer does.           *)
THEOREM RoutesAreSafe ==
  ASSUME NEW router, NEW a, router.minConf \in Int, a.confidence \in Nat
  PROVE  RoutingSafeFor(router, a)
  <1>1. ASSUME a.confidence < router.minConf
        PROVE  Route(router, a) \in {"fallback", "error"}
    BY <1>1 DEF Route, Fallback
  <1>2. ASSUME Unrouted(router, a) = {}, a.choice \in a.options,
               a.confidence >= router.minConf
        PROVE  Route(router, a) = router.routes[a.choice]
    BY <1>2 DEF Route, Unrouted
  <1> QED
    BY <1>1, <1>2 DEF RoutingSafeFor

(* route.go: for any two thresholds in order.                               *)
THEOREM BandsAreUsable ==
  ASSUME NEW bands, bands.act \in 0..D, bands.confirm \in 0..D
  PROVE  BandsUsableFor(bands)
  <1> DEFINE at(c) == Classify(bands, c)
             lowest == IF bands.confirm > 0 THEN {"escalate"} ELSE {}
  <1> SUFFICES ASSUME bands.confirm <= bands.act
               PROVE  /\ \A low, high \in 0..D :
                            low <= high => Caution(at(high)) <= Caution(at(low))
                      /\ bands.confirm < bands.act =>
                            {at(c) : c \in 0..D} = {"act", "confirm"} \cup lowest
                      /\ \A c \in 0..D :
                            ClassifyAnswer(bands, [type |-> "noul", confidence |-> c])
                               \notin {"act", "confirm"}
    BY DEF BandsUsableFor, BandsValid
  <1>1. D \in Nat
    BY ProbabilityAssumption
  <1>2. ASSUME NEW c \in Int
        PROVE  /\ c >= bands.act => at(c) = "act" /\ Caution(at(c)) = 0
               /\ c < bands.act /\ c >= bands.confirm =>
                     at(c) = "confirm" /\ Caution(at(c)) = 1
               /\ c < bands.confirm => at(c) = "escalate" /\ Caution(at(c)) = 2
    <2>1. /\ Caution("act") = 0 /\ Caution("confirm") = 1
          /\ Caution("escalate") = 2
      BY DEF Caution
    <2>2. /\ c >= bands.act => at(c) = "act"
          /\ c < bands.act /\ c >= bands.confirm => at(c) = "confirm"
          /\ c < bands.confirm => at(c) = "escalate"
      BY <1>1 DEF Classify
    <2> QED
      BY <2>1, <2>2
  <1>3. \A c \in 0..D : c \in Int
    BY <1>1
  <1> HIDE DEF at
  <1>4. ASSUME NEW low \in 0..D, NEW high \in 0..D, low <= high
        PROVE  Caution(at(high)) <= Caution(at(low))
    <2>1. low \in Int /\ high \in Int
      BY <1>3
    <2> QED
      BY <1>2, <1>4, <2>1
  <1>5. ASSUME bands.confirm < bands.act
        PROVE  {at(c) : c \in 0..D} = {"act", "confirm"} \cup lowest
    <2>1. \A c \in 0..D : at(c) \in {"act", "confirm"} \cup lowest
      <3> TAKE c \in 0..D
      <3>1. c \in Int
        BY <1>3
      <3>2. c >= bands.act \/ (c < bands.act /\ c >= bands.confirm)
            \/ (c < bands.confirm /\ bands.confirm > 0)
        BY <1>1, <3>1
      <3> QED
        BY <1>2, <3>1, <3>2
    <2>2. /\ bands.act \in 0..D /\ bands.confirm \in 0..D /\ 0 \in 0..D
      BY <1>1
    <2>3. /\ at(bands.act) = "act" /\ at(bands.confirm) = "confirm"
          /\ bands.confirm > 0 => at(0) = "escalate"
      BY <1>2, <1>5, <2>2
    <2> QED
      BY <2>1, <2>2, <2>3
  <1>6. \A c \in 0..D : ClassifyAnswer(bands, [type |-> "noul", confidence |-> c])
                           \notin {"act", "confirm"}
    BY DEF ClassifyAnswer
  <1> QED
    BY <1>4, <1>5, <1>6

(* What Calibrate makes of its counts.                                      *)
Outcome(n, positives, split, complete, questions, least) ==
    CASE questions = 0 -> [error |-> "no questions"]
      [] questions > 0 /\ n < least -> [error |-> "too few"]
      [] questions > 0 /\ n >= least /\ ~complete -> [error |-> "missing answer"]
      [] questions > 0 /\ n >= least /\ complete /\ positives \in {0, n} ->
            [error |-> "one label"]
      [] OTHER ->
            [error |-> "none", train |-> 1..split, hold |-> (split + 1)..n,
             judged |-> IF split < n THEN (split + 1)..n ELSE 1..split]

(* Whatever the counts, the outcome is sound.                               *)
LEMMA OutcomeIsSound ==
  ASSUME NEW n \in Nat, NEW positives \in 0..n, NEW split \in Nat,
         NEW complete \in BOOLEAN, NEW questions \in Nat, NEW least \in Int,
         NEW holdout \in Int, n > 0 => split > 0,
         holdout >= 0 /\ n > 1 => split < n, holdout < 0 => split = n
  PROVE  SplitSoundFor(Outcome(n, positives, split, complete, questions, least), holdout)
  <1> DEFINE c == Outcome(n, positives, split, complete, questions, least)
             fit == [error |-> "none", train |-> 1..split, hold |-> (split + 1)..n,
                     judged |-> IF split < n THEN (split + 1)..n ELSE 1..split]
  <1>1. CASE questions = 0
    <2>0. ~(questions > 0)
      BY <1>1
    <2>1. c = [error |-> "no questions"]
      BY <1>1, <2>0, Zenon DEF Outcome
    <2> HIDE DEF c
    <2>2. c.error # "none"
      BY <2>1
    <2> QED
      BY <2>2, Zenon DEF SplitSoundFor, c
  <1>2. CASE questions > 0 /\ n < least
    <2>0. questions # 0 /\ ~(n >= least)
      BY <1>2
    <2>1. c = [error |-> "too few"]
      BY <1>2, <2>0, Zenon DEF Outcome
    <2> HIDE DEF c
    <2>2. c.error # "none"
      BY <2>1
    <2> QED
      BY <2>2, Zenon DEF SplitSoundFor, c
  <1>3. CASE questions > 0 /\ n >= least /\ ~complete
    <2>0. questions # 0 /\ ~(n < least)
      BY <1>3
    <2>1. c = [error |-> "missing answer"]
      BY <1>3, <2>0, Zenon DEF Outcome
    <2> HIDE DEF c
    <2>2. c.error # "none"
      BY <2>1
    <2> QED
      BY <2>2, Zenon DEF SplitSoundFor, c
  <1>4. CASE questions > 0 /\ n >= least /\ complete /\ positives \in {0, n}
    <2>0. questions # 0 /\ ~(n < least)
      BY <1>4
    <2>1. c = [error |-> "one label"]
      BY <1>4, <2>0, Zenon DEF Outcome
    <2> HIDE DEF c
    <2>2. c.error # "none"
      BY <2>1
    <2> QED
      BY <2>2, Zenon DEF SplitSoundFor, c
  <1>5. CASE questions > 0 /\ n >= least /\ complete /\ positives \notin {0, n}
    <2>0. questions # 0 /\ ~(n < least)
      BY <1>5
    <2>1. c = fit
      BY <1>5, <2>0, Zenon DEF Outcome
    <2>2. n > 1 /\ split > 0
      BY <1>5
    <2>3. c.train = 1..split /\ c.hold = (split + 1)..n
          /\ c.judged = IF split < n THEN (split + 1)..n ELSE 1..split
      BY <2>1
    <2> HIDE DEF c, fit
    <2>4. 1 \in c.train
      BY <2>2, <2>3
    <2>5. ASSUME holdout >= 0
          PROVE  c.judged = c.hold /\ c.judged \cap c.train = {} /\ c.judged # {}
      <3>1. n \in (split + 1)..n /\ c.judged = (split + 1)..n
        BY <2>2, <2>3, <2>5
      <3> QED
        BY <2>3, <3>1
    <2>6. ASSUME holdout < 0
          PROVE  c.judged = c.train /\ c.hold = {}
      BY <2>3, <2>6
    <2>7. c.judged # {}
      BY <2>4, <2>5, <2>6
    <2> QED
      BY <2>4, <2>5, <2>6, <2>7 DEF SplitSoundFor, c
  <1>6. \/ questions = 0
        \/ questions > 0 /\ n < least
        \/ questions > 0 /\ n >= least
    OBVIOUS
  <1> QED
    BY <1>1, <1>2, <1>3, <1>4, <1>5, <1>6

(* calibrate.go: however many examples of each label there are and          *)
(* whatever is held out of them.                                            *)
THEOREM SplitsAreSound ==
  ASSUME NEW labels \in Seq(BOOLEAN), NEW complete \in BOOLEAN,
         NEW questions \in Nat, NEW minExamples \in Int, NEW holdout \in Int
  PROVE  SplitSoundFor(Calibrate(labels, complete, questions, minExamples, holdout),
                       holdout)
  <1> DEFINE n == Len(labels)
             S == {i \in 1..n : labels[i]}
             share == Share(holdout)
             split == Split(n, share)
             least == LeastExamples(minExamples)
  <1>1. n \in Nat
    <2>1. \A T : \A s \in Seq(T) : Len(s) \in Nat
      OBVIOUS
    <2> QED
      BY <2>1, Zenon
  <1>2. Cardinality(S) \in 0..n
    <2>1. IsFiniteSet(1..n) /\ Cardinality(1..n) = n
      BY <1>1, FS_Interval
    <2>2. S \subseteq 1..n
      OBVIOUS
    <2> HIDE DEF S, n
    <2>3. IsFiniteSet(S) /\ Cardinality(S) <= n /\ Cardinality(S) \in Nat
      BY <2>1, <2>2, FS_Subset, FS_CardinalityType
    <2> QED
      BY <1>1, <2>3
  <1>3. Calibrate(labels, complete, questions, minExamples, holdout)
           = Outcome(n, Cardinality(S), split, complete, questions, least)
    BY Zenon DEF Calibrate, Outcome
  <1>4. least \in Int
    BY DEF LeastExamples
  <1>5. /\ share \in Int
        /\ holdout >= 0 => share >= 1
        /\ holdout < 0 => share < 0
    BY DEF Share
  <1> HIDE DEF n, S, share, least
  <1>6. /\ split \in Nat /\ (n > 0 => split > 0)
        /\ holdout >= 0 /\ n > 1 => split < n
        /\ holdout < 0 => split = n
    <2> DEFINE q == (n * (4 - share)) \div 4
    <2>1. q \in Int
      BY <1>1, <1>5
    <2>2. split = IF share > 0 THEN Max({1, q}) ELSE n
      BY DEF Split
    <2>3. share >= 1 /\ n > 0 => q < n
      <3> SUFFICES ASSUME share >= 1, n > 0 PROVE q < n
        OBVIOUS
      <3> DEFINE x == n * (4 - share)
      <3>1. (4 - share) * n <= 3 * n
        BY <1>1, <1>5, Grows
      <3>2. x \in Int /\ x <= 3 * n
        BY <1>1, <1>5, <3>1
      <3>3. q = x \div 4
        OBVIOUS
      <3> HIDE DEF x, q
      <3>4. 4 * q <= x
        BY <3>2, <3>3
      <3> QED
        BY <1>1, <2>1, <3>2, <3>4
    <2> HIDE DEF q, split
    <2>4. Max({1, q}) \in {1, q} /\ Max({1, q}) >= 1
      <3>1. \E x \in {1, q} : \A y \in {1, q} : x >= y
        <4>1. CASE q >= 1
          BY <2>1, <4>1
        <4>2. CASE ~(q >= 1)
          BY <2>1, <4>2
        <4> QED
          BY <4>1, <4>2
      <3> QED
        BY <2>1, <3>1 DEF Max
    <2> QED
      BY <1>1, <1>5, <2>1, <2>2, <2>3, <2>4
  <1> HIDE DEF split
  <1> QED
    BY <1>1, <1>2, <1>3, <1>4, <1>6, OutcomeIsSound, SMTT(60)

(* calibrate.go normalizePositive: for any coefficients.                    *)
THEOREM WeightsAreUsable ==
  ASSUME NEW coef, \A id \in DOMAIN coef : coef[id] \in Int
  PROVE  WeightsUsableFor(coef)
  BY DEF WeightsUsableFor, NormalizePositive, WeightsAllowed

(* An accuracy is a number of examples.                                     *)
LEMMA AccuracyType ==
  ASSUME NEW ps \in Seq(Int), NEW labels, NEW t
  PROVE  AccuracyAt(ps, labels, t) \in Nat
  <1> DEFINE S == {i \in DOMAIN ps : (ps[i] >= t) = labels[i]}
  <1>1. IsFiniteSet(1..Len(ps)) /\ DOMAIN ps = 1..Len(ps)
    BY FS_Interval
  <1>2. IsFiniteSet(S)
    BY <1>1, FS_Subset
  <1> HIDE DEF S
  <1>3. Cardinality(S) \in Nat
    BY <1>2, FS_CardinalityType
  <1> QED
    BY <1>3 DEF AccuracyAt, S

(* calibrate.go bestThreshold: for any probabilities and labels and any     *)
(* candidates that go up.                                                   *)
THEOREM ThresholdsAreBest ==
  ASSUME NEW ps \in Seq(Int), NEW labels, NEW candidates \in Seq(Nat),
         \A i, j \in DOMAIN candidates : i < j => candidates[i] <= candidates[j]
  PROVE  ThresholdBestFor(ps, labels, candidates)
  <1> DEFINE n == Len(candidates)
             acc(t) == AccuracyAt(ps, labels, t)
             Finer(i, b) == IF b = -1 \/ acc(candidates[i]) > acc(b)
                             THEN candidates[i] ELSE b
             step == [p \in (1..n) \X Int |-> Finer(p[1], p[2])]
  <1>1. /\ n \in Nat /\ DOMAIN candidates = 1..n
        /\ \A i \in 1..n : candidates[i] \in Nat
    OBVIOUS
  <1>2. \A t : acc(t) \in Nat
    BY AccuracyType
  <1> HIDE DEF n, acc
  <1>3. PICK h \in [0..n -> Int] :
           h[0] = -1 /\ \A i \in 1..n : h[i] = Finer(i, h[i - 1])
    <2>1. step \in [(1..n) \X Int -> Int]
      BY <1>1
    <2>2. \A i \in 1..n, b \in Int : step[<<i, b>>] = Finer(i, b)
      OBVIOUS
    <2> DEFINE S == Int
               a == -1
    <2>3. a \in S /\ step \in [(1..n) \X S -> S]
      BY <2>1
    <2> HIDE DEF step, S, a
    <2>4. PICK h : Recurs(h, S, a, step, n)
      BY <1>1, <2>3, Recursion, Zenon
    <2>5. h \in [0..n -> Int] /\ h[0] = -1
      BY <2>4 DEF Recurs, S, a
    <2>6. ASSUME NEW i \in 1..n PROVE h[i] = Finer(i, h[i - 1])
      <3>1. i - 1 \in 0..n
        BY <1>1
      <3>2. h[i - 1] \in Int
        BY <2>5, <3>1
      <3>3. h[i] = step[<<i, h[i - 1]>>]
        BY <2>4 DEF Recurs
      <3> HIDE DEF Finer
      <3> QED
        BY <2>2, <3>2, <3>3
    <2> HIDE DEF Finer
    <2> QED
      BY <2>5, <2>6
  <1>4. ps # <<>> => BestThreshold(ps, labels, candidates) = h[n]
    <2> DEFINE best[i \in 0..n] ==
                 IF i = 0 THEN -1
                 ELSE IF best[i - 1] = -1
                         \/ MoreAccurate(acc(candidates[i]), acc(best[i - 1]))
                      THEN candidates[i] ELSE best[i - 1]
        Row(g) == g = [i \in 0..n |->
                 IF i = 0 THEN -1
                 ELSE IF g[i - 1] = -1
                         \/ MoreAccurate(acc(candidates[i]), acc(g[i - 1]))
                      THEN candidates[i] ELSE g[i - 1]]
    <2>1. Row(h)
      <3>1. \A i \in 0..n : i # 0 => i \in 1..n
        BY <1>1
      <3>2. \A i \in 0..n : h[i] = IF i = 0 THEN -1 ELSE Finer(i, h[i - 1])
        <4> HIDE DEF Finer
        <4> QED
          BY <1>3, <3>1
      <3> QED
        BY <3>2 DEF MoreAccurate
    <2> HIDE DEF best
    <2>2. Row(best)
      BY <2>1 DEF best
    <2>3. ps # <<>> => BestThreshold(ps, labels, candidates) = best[n]
      BY Zenon DEF BestThreshold, best, n, acc
    <2>4. Alike(h, best, n)
      <3>1. \A i \in 1..n : i \in 0..n /\ i # 0
        BY <1>1
      <3>2. 0 \in 0..n
        BY <1>1
      <3> QED
        BY <2>1, <2>2, <3>1, <3>2 DEF Alike
    <2>5. h[n] = best[n]
      BY <1>1, <2>4, GoOnAlike, Zenon
    <2> QED
      BY <2>3, <2>5
  <1> DEFINE Good(i) ==
               /\ \E k \in 1..i : h[i] = candidates[k]
               /\ \A j \in 1..i : /\ acc(candidates[j]) <= acc(h[i])
                                  /\ acc(candidates[j]) = acc(h[i]) =>
                                        h[i] <= candidates[j]
             T == {i \in 1..n : ~Good(i)}
  <1>5. T = {}
    <2>1. SUFFICES ASSUME T # {} PROVE FALSE
      OBVIOUS
    <2>2. PICK i \in T : \A l \in T : i <= l
      <3>1. T \in SUBSET Nat
        BY <1>1
      <3> HIDE DEF T
      <3> QED
        BY <2>1, <3>1, Least
    <2>3. i \in 1..n /\ ~Good(i)
      BY <2>2
    <2>4. h[i] = Finer(i, h[i - 1]) /\ candidates[i] \in Nat /\ i \in Nat
      BY <1>1, <1>3, <2>3
    <2>5. CASE i = 1
      <3>1. h[i] = candidates[1]
        BY <1>3, <2>4, <2>5
      <3>2. \A j \in 1..i : j = 1
        BY <2>5
      <3>3. acc(candidates[1]) \in Nat /\ candidates[1] \in Nat /\ 1 \in 1..i
        BY <1>2, <2>4, <2>5
      <3>4. Good(i)
        BY <3>1, <3>2, <3>3
      <3> QED
        BY <2>3, <3>4
    <2>6. CASE i # 1
      <3>1. i - 1 \in 1..n /\ ~(i <= i - 1)
        BY <1>1, <2>3, <2>6
      <3>2. Good(i - 1)
        <4> HIDE DEF Good
        <4> QED
          BY <2>2, <3>1
      <3> DEFINE b == h[i - 1]
      <3>3. PICK k \in 1..(i - 1) : b = candidates[k]
        BY <3>2
      <3>4. k \in 1..n /\ k < i /\ b \in Nat /\ candidates[k] <= candidates[i]
        <4>1. k \in 1..n /\ k < i
          BY <1>1, <2>3, <3>1
        <4>2. candidates[k] \in Nat /\ candidates[k] <= candidates[i]
          BY <1>1, <2>3, <4>1
        <4> QED
          BY <3>3, <4>1, <4>2
      <3>5. \A j \in 1..(i - 1) : /\ acc(candidates[j]) <= acc(b)
                                  /\ acc(candidates[j]) = acc(b) => b <= candidates[j]
        BY <3>2
      <3>6. \A j \in 1..i : j = i \/ j \in 1..(i - 1)
        BY <2>4
      <3>7. acc(b) \in Nat /\ acc(candidates[i]) \in Nat
            /\ \A j \in 1..i : acc(candidates[j]) \in Nat
        BY <1>2
      <3>8. b # -1 /\ i \in 1..i /\ k \in 1..i
        BY <2>4, <3>3, <3>4
      <3> HIDE DEF b
      <3>9. CASE acc(candidates[i]) > acc(b)
        <4>1. h[i] = candidates[i]
          BY <2>4, <3>9 DEF b
        <4>2. ASSUME NEW j \in 1..i
              PROVE  /\ acc(candidates[j]) <= acc(h[i])
                     /\ acc(candidates[j]) = acc(h[i]) => h[i] <= candidates[j]
          <5>1. CASE j = i
            BY <2>4, <3>7, <3>9, <4>1, <5>1, SMTT(60)
          <5>2. CASE j \in 1..(i - 1)
            <6> DEFINE x == acc(candidates[j])
                       y == acc(b)
                       z == acc(candidates[i])
            <6>1. x \in Nat /\ y \in Nat /\ z \in Nat /\ x <= y
              BY <3>5, <3>7, <5>2
            <6>2. x = y => b <= candidates[j]
              BY <3>5, <5>2
            <6> QED
              BY <3>9, <4>1, <6>1, <6>2
          <5> QED
            BY <3>6, <5>1, <5>2
        <4> QED
          BY <2>3, <3>8, <4>1, <4>2
      <3>10. CASE ~(acc(candidates[i]) > acc(b))
        <4>1. h[i] = b
          BY <2>4, <3>8, <3>10 DEF b
        <4>2. ASSUME NEW j \in 1..i
              PROVE  /\ acc(candidates[j]) <= acc(h[i])
                     /\ acc(candidates[j]) = acc(h[i]) => h[i] <= candidates[j]
          <5>1. CASE j = i
            BY <3>7, <3>10, <4>1, <5>1, <3>3, <3>4
          <5>2. CASE j \in 1..(i - 1)
            <6> DEFINE x == acc(candidates[j])
                       y == acc(b)
                       z == acc(candidates[i])
            <6>1. x \in Nat /\ y \in Nat /\ z \in Nat /\ x <= y
              BY <3>5, <3>7, <5>2
            <6>2. x = y => b <= candidates[j]
              BY <3>5, <5>2
            <6> QED
              BY <3>10, <4>1, <6>1, <6>2
          <5> QED
            BY <3>6, <5>1, <5>2
        <4> QED
          BY <2>3, <3>3, <3>8, <4>1, <4>2
      <3> QED
        BY <3>9, <3>10
    <2> QED
      BY <2>5, <2>6
  <1>6. ASSUME ps # <<>>, NEW i \in DOMAIN candidates
        PROVE  LET chosen == BestThreshold(ps, labels, candidates)
               IN  /\ acc(candidates[i]) <= acc(chosen)
                   /\ acc(candidates[i]) = acc(chosen) => chosen <= candidates[i]
    <2>1. i \in 1..n /\ n \in 1..n
      BY <1>1
    <2>2. Good(n)
      BY <1>5, <2>1
    <2> QED
      BY <1>4, <1>6, <2>1, <2>2
  <1> QED
    BY <1>6 DEF ThresholdBestFor, acc

-----------------------------------------------------------------------------
(* policy.go, weights.go, route.go, calibrate.go: whatever the policy, the  *)
(* router, the bands and the examples, every part of PoliciesSound holds.   *)
THEOREM PoliciesAreSound ==
  ASSUME InputSane
  PROVE  PoliciesSound
  <1>1. VerdictMonotone
    <2>1. \A ids \in SUBSET Signals : AnsweredBy(ids) \subseteq [ids -> Int]
      BY SignalAssumption DEF AnsweredBy
    <2> QED
      BY <2>1, VerdictsAreMonotone DEF VerdictMonotone, InputSane
  <1>2. NoDeadVerdict
    BY NoVerdictIsDead DEF NoDeadVerdict, InputSane
  <1>3. SkippedIsRestricted
    BY SkippingIsRestricting DEF SkippedIsRestricted, InputSane
  <1>4. RoutingSafe
    BY RoutesAreSafe DEF RoutingSafe, InputSane
  <1>5. BandsUsable
    BY BandsAreUsable DEF BandsUsable, InputSane
  <1>6. SplitSound
    BY SplitsAreSound DEF SplitSound, InputSane
  <1>7. ThresholdBest
    <2>1. /\ Cutoffs \in Seq(Nat)
          /\ \A i, j \in DOMAIN Cutoffs : i < j => Cutoffs[i] <= Cutoffs[j]
      BY ProbabilityAssumption DEF Cutoffs
    <2> QED
      BY <2>1, ThresholdsAreBest DEF ThresholdBest, InputSane
  <1>8. WeightsUsable
    BY WeightsAreUsable DEF WeightsUsable, InputSane
  <1> QED
    BY <1>1, <1>2, <1>3, <1>4, <1>5, <1>6, <1>7, <1>8 DEF PoliciesSound

-----------------------------------------------------------------------------
(* Answers over levels.                                                     *)
(* An answer with a probability for each level of its legend.               *)
Levelled(a) == ScoreSane(a) /\ a.levels > 0 /\ LevelKeys(a) = 0..(a.levels - 1)

(* What such an answer is made of.                                          *)
LEMMA LevelledType ==
  ASSUME NEW a, Levelled(a)
  PROVE  /\ a.levels \in Nat \ {0}
         /\ Numbered(a) = 0..(a.levels - 1)
         /\ a.probabilities \in [0..(a.levels - 1) -> 0..D]
  BY ProbabilityAssumption DEF Levelled, ScoreSane, Numbered

(* Numbers that go up from level to level are the levels themselves.        *)
LEMMA Ascending ==
  ASSUME NEW n \in Nat, NEW s \in [1..n -> 0..(n - 1)],
         \A i, j \in 1..n : i < j => s[i] < s[j]
  PROVE  \A i \in 1..n : s[i] = i - 1
  <1> DEFINE low == {i \in 1..n : s[i] < i - 1}
             high == {j \in Nat : \E i \in 1..n : j = n - i /\ s[i] > i - 1}
  <1>1. low = {}
    <2>1. SUFFICES ASSUME low # {} PROVE FALSE
      OBVIOUS
    <2>2. PICK i \in low : \A l \in low : i <= l
      <3>1. low \in SUBSET Nat
        OBVIOUS
      <3> HIDE DEF low
      <3> QED
        BY <2>1, <3>1, Least
    <2>3. i \in 1..n /\ s[i] \in 0..(n - 1) /\ s[i] < i - 1
      BY <2>2
    <2>4. i - 1 \in 1..n /\ i - 1 \notin low
      BY <2>2, <2>3
    <2>5. s[i - 1] \in 0..(n - 1) /\ s[i - 1] >= i - 2
      BY <2>4
    <2>6. s[i - 1] < s[i]
      BY <2>3, <2>4
    <2> QED
      BY <2>3, <2>5, <2>6
  <1>2. high = {}
    <2>1. SUFFICES ASSUME high # {} PROVE FALSE
      OBVIOUS
    <2>2. PICK j \in high : \A l \in high : j <= l
      <3>1. high \in SUBSET Nat
        OBVIOUS
      <3> HIDE DEF high
      <3> QED
        BY <2>1, <3>1, Least
    <2>3. PICK i \in 1..n : j = n - i /\ s[i] > i - 1
      BY <2>2
    <2>4. s[i] \in 0..(n - 1) /\ i # n
      BY <2>3
    <2>5. i + 1 \in 1..n /\ s[i + 1] \in 0..(n - 1) /\ s[i] < s[i + 1]
      BY <2>3, <2>4
    <2>6. n - (i + 1) \in Nat /\ s[i + 1] > (i + 1) - 1
      BY <2>3, <2>4, <2>5
    <2>7. n - (i + 1) \in high
      BY <2>5, <2>6
    <2> HIDE DEF high
    <2>8. j <= n - (i + 1)
      BY <2>2, <2>7
    <2> QED
      BY <2>3, <2>8
  <1>3. ASSUME NEW i \in 1..n PROVE s[i] = i - 1
    <2> HIDE DEF low, high
    <2>1. i \notin low /\ n - i \notin high /\ n - i \in Nat
      BY <1>1, <1>2
    <2>2. ~(s[i] < i - 1)
      BY <2>1 DEF low
    <2>3. ~(s[i] > i - 1)
      BY <2>1 DEF high
    <2>4. s[i] \in 0..(n - 1)
      OBVIOUS
    <2> QED
      BY <2>2, <2>3, <2>4
  <1> QED
    BY <1>3

(* score.go sortedIndexKeys: the probabilities come level by level.         *)
LEMMA LevelsInOrder ==
  ASSUME NEW a, Levelled(a)
  PROVE  LevelProbabilities(a) = [i \in 1..a.levels |-> a.probabilities[i - 1]]
  <1> DEFINE n == a.levels
             K == 0..(n - 1)
             s == SortedIndexKeys(a)
             id == [i \in 1..n |-> i - 1]
             Increasing(t) == \A i, j \in DOMAIN t : i < j => Before(t[i], t[j])
  <1>1. n \in Nat \ {0} /\ LevelKeys(a) = K
    BY LevelledType DEF Levelled
  <1>2. Cardinality(K) = n
    BY <1>1, FS_Interval
  <1>3. \A i, j \in K : Before(i, j) <=> i < j
    BY <1>1, ProbabilityAssumption DEF Before
  <1>4. id \in [1..n -> K] /\ Increasing(id)
    <2>1. id \in [1..n -> K]
      BY <1>1
    <2>2. \A i, j \in 1..n : i < j => i - 1 \in K /\ j - 1 \in K /\ i - 1 < j - 1
      BY <1>1
    <2> QED
      BY <1>3, <2>1, <2>2
  <1>5. s = CHOOSE t \in [1..n -> K] : Increasing(t)
    BY <1>1, <1>2, Zenon DEF SortedIndexKeys
  <1>6. s \in [1..n -> K] /\ Increasing(s)
    <2> HIDE DEF id, s, Increasing
    <2> QED
      BY <1>4, <1>5, Zenon
  <1> HIDE DEF s
  <1>7. \A i, j \in 1..n : i < j => s[i] < s[j]
    BY <1>3, <1>6
  <1>8. \A i \in 1..n : s[i] = i - 1
    <2> HIDE DEF n
    <2> QED
      BY <1>1, <1>6, <1>7, Ascending
  <1> QED
    BY <1>6, <1>8 DEF LevelProbabilities, s

(* The sum over the levels from one on.                                     *)
MassFrom(a, k) == SumFunctionOnSet(a.probabilities, k..(a.levels - 1))

(* Sums over the levels from one on split at any other.                     *)
LEMMA LevelSums ==
  ASSUME NEW a, Levelled(a), NEW lo \in Nat, NEW hi \in Nat, lo <= hi,
         hi <= a.levels
  PROVE  /\ MassFrom(a, lo) = SumFunctionOnSet(a.probabilities, lo..(hi - 1)) + MassFrom(a, hi)
         /\ SumFunctionOnSet(a.probabilities, lo..(hi - 1)) \in Nat
         /\ MassFrom(a, lo) \in Nat /\ MassFrom(a, hi) \in Nat
  <1> DEFINE p == a.probabilities
             n == a.levels
             S == lo..(hi - 1)
             T == hi..(n - 1)
  <1>1. n \in Nat \ {0} /\ p \in [0..(n - 1) -> 0..D] /\ D \in Nat
    BY LevelledType, ProbabilityAssumption
  <1>2. S \cup T = lo..(n - 1) /\ S \cap T = {}
    BY <1>1
  <1>3. IsFiniteSet(S) /\ IsFiniteSet(T) /\ IsFiniteSet(S \cup T)
    <2>1. lo \in Int /\ hi - 1 \in Int /\ hi \in Int /\ n - 1 \in Int
      BY <1>1
    <2>2. IsFiniteSet(S) /\ IsFiniteSet(T)
      BY <2>1, FS_Interval
    <2> HIDE DEF S, T
    <2> QED
      BY <2>2, FS_Union
  <1>4. \A x \in S \cup T : p[x] \in Nat /\ p[x] \in Int
    BY <1>1, <1>2
  <1>5. MassFrom(a, lo) = SumFunctionOnSet(p, S \cup T) /\ MassFrom(a, hi) = SumFunctionOnSet(p, T)
    BY <1>2 DEF MassFrom
  <1> HIDE DEF S, T, p
  <1>6. SumFunctionOnSet(p, S \cup T) = SumFunctionOnSet(p, S) + SumFunctionOnSet(p, T)
    BY <1>2, <1>3, <1>4, SumDisjoint
  <1>7. SumFunctionOnSet(p, S) \in Nat /\ SumFunctionOnSet(p, T) \in Nat
        /\ SumFunctionOnSet(p, S \cup T) \in Nat
    BY <1>3, <1>4, SumType
  <1> QED
    BY <1>5, <1>6, <1>7 DEF S, p

(* score.go: for every legend and every distribution over it.               *)
THEOREM RangesAlwaysAgree ==
  ASSUME NEW a, ScoreSane(a)
  PROVE  RangesAgreeFor(a)
  <1> DEFINE p == a.probabilities
             n == a.levels
             Sum(S) == SumFunctionOnSet(p, S)
  <1> SUFFICES ASSUME LevelKeys(a) = 0..(n - 1), AtOrAbove(a, 0) <= D
               PROVE  /\ \A lo, hi \in 0..(n - 1) : lo <= hi =>
                            ScoreBetween(a, lo, hi)
                               = ScoreAtOrAbove(a, lo) - ScoreAtOrAbove(a, hi + 1)
                      /\ \A k \in 1..(n - 1) :
                            /\ ScoreAtOrAbove(a, k) + ScoreAtOrBelow(a, k - 1)
                                  = AtOrAbove(a, 0)
                            /\ \A q \in 0..D : ThresholdOn(a, k, q) =>
                                                  ThresholdOn(a, k - 1, q)
    BY DEF RangesAgreeFor
  <1>1. n \in Nat /\ D \in Nat
    BY ProbabilityAssumption DEF ScoreSane
  <1>2. CASE n = 0
    <2>1. 0..(n - 1) = {} /\ 1..(n - 1) = {}
      BY <1>2
    <2> QED
      BY <2>1
  <1>3. CASE n > 0
    <2>1. Levelled(a)
      BY <1>3 DEF Levelled
    <2>2. Numbered(a) = 0..(n - 1)
      BY <2>1, LevelledType
    <2>3. \A k \in Nat : AtOrAbove(a, k) = MassFrom(a, k)
      <3> TAKE k \in Nat
      <3>1. {i \in 0..(n - 1) : i >= k} = k..(n - 1)
        BY <1>1
      <3> QED
        BY <2>2, <3>1 DEF AtOrAbove, Mass, MassFrom
    <2>4. \A k \in 1..n : AtOrBelow(a, k - 1) = Sum(0..(k - 1))
      <3> TAKE k \in 1..n
      <3>1. {i \in 0..(n - 1) : i <= k - 1} = 0..(k - 1)
        BY <1>1
      <3> QED
        BY <2>2, <3>1 DEF AtOrBelow, Mass
    <2>5. ASSUME NEW lo \in Nat, NEW hi \in Nat, lo <= hi, hi <= n
          PROVE  /\ MassFrom(a, lo) = Sum(lo..(hi - 1)) + MassFrom(a, hi)
                 /\ Sum(lo..(hi - 1)) \in Nat
                 /\ MassFrom(a, lo) \in Nat /\ MassFrom(a, hi) \in Nat
      BY <2>1, <2>5, LevelSums
    <2>6. MassFrom(a, 0) \in 0..D
      <3>1. MassFrom(a, 0) \in Nat
        BY <1>1, <2>5
      <3> QED
        BY <1>1, <2>3, <3>1
    <2>7. \A k \in 0..n : MassFrom(a, k) \in 0..D /\ MassFrom(a, k) <= MassFrom(a, 0)
      <3> TAKE k \in 0..n
      <3>1. /\ MassFrom(a, 0) = Sum(0..(k - 1)) + MassFrom(a, k)
            /\ Sum(0..(k - 1)) \in Nat /\ MassFrom(a, k) \in Nat
        BY <1>1, <2>5
      <3> QED
        BY <1>1, <2>6, <3>1
    <2>8. \A x \in 0..D : Clamp(x) = x
      BY ProbabilityAssumption DEF Clamp
    <2>9. \A k \in 0..n : ScoreAtOrAbove(a, k) = MassFrom(a, k)
      BY <1>1, <2>3, <2>7, <2>8 DEF ScoreAtOrAbove
    <2>10. ASSUME NEW lo \in 0..(n - 1), NEW hi \in 0..(n - 1), lo <= hi
           PROVE  ScoreBetween(a, lo, hi)
                     = ScoreAtOrAbove(a, lo) - ScoreAtOrAbove(a, hi + 1)
      <3> DEFINE ps == [i \in 1..n |-> p[i - 1]]
                 S == lo..hi
                 up == [x \in S |-> x + 1]
      <3>1. LevelProbabilities(a) = ps
        BY <2>1, LevelsInOrder
      <3>2. {i \in 1..n : Position(i) \in lo..hi} = {up[x] : x \in S}
        <4>1. \A x \in S : x + 1 \in 1..n /\ (x + 1) - 1 = x
          BY <1>1
        <4>2. \A i \in 1..n : i - 1 \in lo..hi => i - 1 \in S /\ i = (i - 1) + 1
          BY <1>1
        <4>3. ASSUME NEW i \in 1..n, Position(i) \in lo..hi
              PROVE  \E x \in S : i = up[x]
          <5>1. i - 1 \in S /\ i = (i - 1) + 1
            BY <4>2, <4>3 DEF Position
          <5>2. up[i - 1] = (i - 1) + 1
            BY <5>1
          <5> QED
            BY <5>1, <5>2
        <4>4. ASSUME NEW x \in S
              PROVE  up[x] \in 1..n /\ Position(up[x]) \in lo..hi
          <5>1. up[x] = x + 1
            OBVIOUS
          <5> QED
            BY <4>1, <5>1 DEF Position
        <4> HIDE DEF up
        <4> QED
          BY <4>3, <4>4
      <3>3. Sum(S) = SumFunctionOnSet(ps, {up[x] : x \in S})
        <4>1. IsFiniteSet(S)
          BY <1>1, FS_Interval
        <4>2. \A x, y \in S : up[x] = up[y] => x = y
          OBVIOUS
        <4>3. p \in [0..(n - 1) -> 0..D]
          BY <2>1, LevelledType
        <4>4. \A x \in S : p[x] \in Int /\ ps[up[x]] = p[x]
          <5> TAKE x \in S
          <5>1. x \in 0..(n - 1) /\ x + 1 \in 1..n /\ (x + 1) - 1 = x
            BY <1>1
          <5> QED
            BY <1>1, <4>3, <5>1
        <4> HIDE DEF S, up, ps, p
        <4>5. SumFunctionOnSet(ps, {up[x] : x \in S}) = SumFunctionOnSet(p, S)
          BY <4>1, <4>2, <4>4, SumImage
        <4> QED
          BY <4>5
      <3>4. ScoreBetween(a, lo, hi) = Clamp(Sum(S))
        <4>1. DOMAIN ps = 1..n
          OBVIOUS
        <4> HIDE DEF ps, up, S
        <4> QED
          BY <3>1, <3>2, <3>3, <4>1 DEF ScoreBetween
      <3>5. /\ MassFrom(a, lo) = Sum(lo..((hi + 1) - 1)) + MassFrom(a, hi + 1)
            /\ Sum(lo..((hi + 1) - 1)) \in Nat
        <4>1. lo \in Nat /\ hi + 1 \in Nat /\ lo <= hi + 1 /\ hi + 1 <= n
          BY <1>1, <2>10
        <4> HIDE DEF Sum
        <4> QED
          BY <2>5, <4>1
      <3>6. (hi + 1) - 1 = hi /\ lo \in 0..n /\ hi + 1 \in 0..n
        BY <1>1
      <3>7. /\ MassFrom(a, lo) = Sum(S) + MassFrom(a, hi + 1) /\ Sum(S) \in Nat
            /\ MassFrom(a, lo) \in 0..D /\ MassFrom(a, hi + 1) \in 0..D
        BY <2>7, <3>5, <3>6
      <3> HIDE DEF Sum, S
      <3>8. Sum(S) \in 0..D
        BY <1>1, <3>7
      <3> QED
        BY <1>1, <2>8, <2>9, <3>4, <3>6, <3>7, <3>8
    <2>11. ASSUME NEW k \in 1..(n - 1)
           PROVE  /\ ScoreAtOrAbove(a, k) + ScoreAtOrBelow(a, k - 1) = AtOrAbove(a, 0)
                  /\ \A q \in 0..D : ThresholdOn(a, k, q) => ThresholdOn(a, k - 1, q)
      <3>1. k \in 0..n /\ k - 1 \in 0..n /\ k \in 1..n
        BY <1>1
      <3>2. /\ MassFrom(a, 0) = Sum(0..(k - 1)) + MassFrom(a, k)
            /\ Sum(0..(k - 1)) \in Nat
        BY <2>5, <3>1
      <3>3. MassFrom(a, k - 1) = Sum((k - 1)..(k - 1)) + MassFrom(a, k)
            /\ Sum((k - 1)..(k - 1)) \in Nat
        <4>1. k - 1 \in Nat /\ k \in Nat /\ k - 1 <= k /\ k <= n
          BY <1>1
        <4> HIDE DEF Sum
        <4> QED
          BY <2>5, <4>1
      <3> HIDE DEF Sum
      <3>4. /\ MassFrom(a, 0) \in 0..D /\ MassFrom(a, k) \in 0..D
            /\ MassFrom(a, k - 1) \in 0..D
        BY <2>6, <2>7, <3>1
      <3>5. Sum(0..(k - 1)) \in 0..D
        BY <1>1, <3>2, <3>4
      <3>6. ScoreAtOrBelow(a, k - 1) = Sum(0..(k - 1))
        BY <2>4, <2>8, <3>1, <3>5 DEF ScoreAtOrBelow
      <3>7. MassFrom(a, k - 1) >= MassFrom(a, k)
        BY <3>3, <3>4
      <3>8. ScoreAtOrAbove(a, k) = MassFrom(a, k)
            /\ ScoreAtOrAbove(a, k - 1) = MassFrom(a, k - 1) /\ AtOrAbove(a, 0) = MassFrom(a, 0)
        BY <2>3, <2>9, <3>1
      <3>9. \A q \in 0..D : ThresholdOn(a, k, q) => ThresholdOn(a, k - 1, q)
        BY <1>1, <3>4, <3>7, <3>8 DEF ThresholdOn
      <3> QED
        BY <1>1, <3>2, <3>4, <3>5, <3>6, <3>8, <3>9
    <2> QED
      BY <2>10, <2>11
  <1> QED
    BY <1>1, <1>2, <1>3

(* Rounding down, of any number.                                            *)
LEMMA FloorQuotient ==
  ASSUME NEW x \in Int, NEW y \in Nat \ {0}
  PROVE  /\ x \div y \in Int
         /\ (x \div y) * y <= x
         /\ x < (x \div y + 1) * y
  <1>1. x \div y \in Int /\ x = y * (x \div y) + (x % y) /\ x % y \in 0..(y - 1)
    OBVIOUS
  <1> DEFINE q == x \div y
             r == x % y
  <1>2. q \in Int /\ r \in 0..(y - 1) /\ x = y * q + r
    BY <1>1
  <1> HIDE DEF q, r
  <1>3. (q + 1) * y = y * q + y /\ q * y = y * q /\ y * q \in Int
    BY <1>2
  <1>4. q \in Int /\ q * y <= x /\ x < (q + 1) * y
    BY <1>2, <1>3
  <1> QED
    BY <1>4 DEF q

(* score.go Nearest: the rounded score, kept within the legend.             *)
LEMMA NearestIs ==
  ASSUME NEW a, a.levels \in Nat \ {0}, a.score \in Int
  PROVE  LET q == (2 * a.score + D) \div (2 * D)
         IN  /\ q \in Int
             /\ Nearest(a) = IF q < 0 THEN 0
                             ELSE IF q > a.levels - 1 THEN a.levels - 1 ELSE q
  <1> DEFINE x == 2 * a.score + D
             y == 2 * D
             q == x \div y
             n == a.levels - 1
  <1>1. x \in Int /\ y \in Nat \ {0} /\ n \in Nat
    BY ProbabilityAssumption
  <1>2. q \in Int
    <2> HIDE DEF x, y
    <2> QED
      BY <1>1, FloorQuotient
  <1>3. a.levels # 0
    OBVIOUS
  <1>4. Nearest(a) = Max({0, Min({n, q})})
    BY <1>3 DEF Nearest
  <1> HIDE DEF q, n
  <1>5. Min({n, q}) = IF q > n THEN n ELSE q
    BY <1>1, <1>2 DEF Min
  <1>6. \A v \in Int : Max({0, v}) = IF v < 0 THEN 0 ELSE v
    BY DEF Max
  <1>7. Nearest(a) = IF q < 0 THEN 0 ELSE IF q > n THEN n ELSE q
    BY <1>1, <1>2, <1>4, <1>5, <1>6
  <1> QED
    BY <1>2, <1>7 DEF q, n

(* A score of at least as many levels as there are above the first is       *)
(* nearest to the last.                                                     *)
LEMMA FullScoreIsLast ==
  ASSUME NEW s \in Int, NEW n \in Nat \ {0}, s \div n >= D
  PROVE  (2 * s + D) \div (2 * D) >= n
  <1>1. D \in Nat \ {0}
    BY ProbabilityAssumption
  <1> DEFINE u == s \div n
             x == 2 * s + D
             y == 2 * D
             q == x \div y
  <1>2. u \in Int /\ u * n <= s /\ u >= D
    BY FloorQuotient
  <1>3. D * n <= u * n
    <2> HIDE DEF u
    <2> QED
      BY <1>1, <1>2, Grows
  <1>4. D * n <= s
    <2> DEFINE v == u * n
               w == D * n
    <2>1. v \in Int /\ w \in Int /\ w <= v /\ v <= s
      BY <1>1, <1>2, <1>3
    <2> HIDE DEF v, w
    <2>2. w <= s
      BY <2>1
    <2> QED
      BY <2>2 DEF w
  <1>5. x \in Int /\ y \in Nat \ {0}
    BY <1>1
  <1>6. q \in Int /\ x < (q + 1) * y
    <2> HIDE DEF x, y
    <2> QED
      BY <1>5, FloorQuotient
  <1>7. n * y < (q + 1) * y
    <2> DEFINE w == D * n
               z == (q + 1) * y
    <2>1. w \in Int /\ z \in Int /\ w <= s /\ 2 * s + D < z /\ n * y = 2 * w
      <3>1. n * (2 * D) = 2 * (D * n) /\ D * n \in Int
        BY <1>1
      <3> HIDE DEF q
      <3> QED
        BY <1>4, <1>5, <1>6, <3>1
    <2> HIDE DEF w, z
    <2>2. n * y < z
      BY <1>1, <2>1
    <2> QED
      BY <2>2 DEF z
  <1> HIDE DEF q, y, x
  <1>8. SUFFICES ASSUME q < n PROVE FALSE
    BY <1>6 DEF q, x, y
  <1>9. (q + 1) * y <= n * y
    BY <1>5, <1>6, <1>8, Grows
  <1>10. (q + 1) * y \in Int /\ n * y \in Int
    BY <1>5, <1>6
  <1> DEFINE z == (q + 1) * y
             w == n * y
  <1>11. z \in Int /\ w \in Int /\ w < z /\ z <= w
    BY <1>7, <1>9, <1>10
  <1> HIDE DEF z, w
  <1> QED
    BY <1>11

(* score.go MostLikely: no level is more likely.                            *)
LEMMA MostLikelyIs ==
  ASSUME NEW a, Levelled(a)
  PROVE  /\ MostLikely(a) \in Numbered(a)
         /\ \A j \in Numbered(a) : a.probabilities[j] <= a.probabilities[MostLikely(a)]
  <1> DEFINE p == a.probabilities
             N == Numbered(a)
             best == {k \in N : \A j \in N : p[j] <= p[k]}
             gaps == {D - p[k] : k \in N}
  <1>1. /\ N = 0..(a.levels - 1) /\ 0 \in N /\ D \in Nat
        /\ \A k \in N : p[k] \in 0..D
    BY LevelledType, ProbabilityAssumption
  <1>2. gaps \in SUBSET Nat /\ gaps # {}
    BY <1>1
  <1>3. PICK v \in gaps : \A w \in gaps : v <= w
    <2> HIDE DEF gaps
    <2> QED
      BY <1>2, Least
  <1>4. PICK k \in N : v = D - p[k]
    BY <1>3
  <1>5. k \in best
    <2>1. \A j \in N : D - p[j] \in gaps
      OBVIOUS
    <2>2. \A j \in N : p[j] <= p[k]
      <3> TAKE j \in N
      <3>1. D - p[k] <= D - p[j]
        BY <1>3, <1>4, <2>1
      <3>2. p[j] \in 0..D /\ p[k] \in 0..D
        BY <1>1
      <3> HIDE DEF p
      <3> QED
        BY <1>1, <3>1, <3>2
    <2> QED
      BY <2>2
  <1>6. \E x \in best : \A y \in best : x <= y
    <2>1. best \in SUBSET Nat /\ best # {}
      <3>1. N \subseteq Nat
        BY <1>1
      <3>2. best \subseteq N /\ best # {}
        BY <1>5
      <3> HIDE DEF best, N
      <3> QED
        BY <3>1, <3>2
    <2> HIDE DEF best
    <2> QED
      BY <2>1, Least
  <1>7. Min(best) \in best
    <2> HIDE DEF best
    <2> QED
      BY <1>6 DEF Min
  <1>8. MostLikely(a) = Min(best)
    BY <1>1 DEF MostLikely
  <1> QED
    BY <1>7, <1>8

(* score.go: whatever the score and the distribution, the nearest level is  *)
(* one of the legend, and that of a bimodal answer neither its most likely  *)
(* one nor at an end.                                                       *)
THEOREM BimodalAlwaysMisleads ==
  ASSUME NEW a, ScoreSane(a), NEW share
  PROVE  BimodalMisleadsFor(a, share)
  <1> DEFINE n == a.levels
             p == a.probabilities
             q == (2 * a.score + D) \div (2 * D)
  <1>1. n \in Nat /\ a.score \in Int
    BY DEF ScoreSane
  <1>2. ASSUME n > 0
        PROVE  /\ q \in Int
               /\ Nearest(a) = IF q < 0 THEN 0 ELSE IF q > n - 1 THEN n - 1 ELSE q
    BY <1>1, <1>2, NearestIs
  <1>3. ASSUME n > 0 PROVE Nearest(a) \in 0..(n - 1)
    <2> HIDE DEF q
    <2> QED
      BY <1>1, <1>2, <1>3
  <1>4. ASSUME n > 1, ScoreNormalized(a) = D PROVE Nearest(a) = n - 1
    <2> DEFINE m == n - 1
               u == a.score \div m
    <2>1. m \in Nat \ {0}
      BY <1>1, <1>4
    <2>2. u \in Int
      <3> HIDE DEF m
      <3> QED
        BY <1>1, <2>1, FloorQuotient
    <2>3. u >= D
      <3>1. Clamp(u) = D
        BY <1>1, <1>4 DEF ScoreNormalized
      <3> HIDE DEF u
      <3> QED
        BY <2>2, <3>1, ProbabilityAssumption DEF Clamp
    <2>4. q >= m
      <3> HIDE DEF m
      <3> QED
        BY <1>1, <2>1, <2>3, FullScoreIsLast
    <2>5. q \in Int /\ Nearest(a) = IF q < 0 THEN 0 ELSE IF q > m THEN m ELSE q
      BY <1>1, <1>2, <1>4
    <2> HIDE DEF q, m, u
    <2>6. Nearest(a) = m
      BY <2>1, <2>4, <2>5
    <2> QED
      BY <2>6 DEF m
  <1>5. ASSUME LevelKeys(a) = 0..(n - 1), ScoreIsBimodal(a, share)
        PROVE  Nearest(a) # MostLikely(a) /\ Nearest(a) \notin {0, n - 1}
    <2> DEFINE ps == LevelProbabilities(a)
               mid == Nearest(a)
    <2>1. n > 0
      <3>1. CASE n = 0
        <4>1. LevelKeys(a) = {}
          BY <1>5, <3>1
        <4>2. Cardinality(LevelKeys(a)) = 0
          BY <4>1, FS_EmptySet
        <4>3. SortedIndexKeys(a) = CHOOSE s \in [1..0 -> {}] :
                 \A i, j \in DOMAIN s : i < j => Before(s[i], s[j])
          BY <4>1, <4>2, Zenon DEF SortedIndexKeys
        <4>4. \A s \in [1..0 -> {}] : DOMAIN s = {}
          OBVIOUS
        <4>5. [i \in 1..0 |-> 0] \in [1..0 -> {}]
          OBVIOUS
        <4>6. DOMAIN SortedIndexKeys(a) = {}
          <5> DEFINE s == SortedIndexKeys(a)
          <5>1. s \in [1..0 -> {}]
            BY <4>3, <4>4, <4>5, Zenon
          <5> QED
            BY <4>4, <5>1, Zenon
        <4>7. Len(ps) = 0
          BY <4>6 DEF LevelProbabilities
        <4> QED
          BY <1>5, <4>7 DEF ScoreIsBimodal
      <3> QED
        BY <1>1, <3>1
    <2>2. Levelled(a)
      BY <1>5, <2>1 DEF Levelled
    <2>3. p \in [0..(n - 1) -> 0..D] /\ D \in Nat /\ Numbered(a) = 0..(n - 1)
      BY <2>2, LevelledType, ProbabilityAssumption
    <2>4. ps = [i \in 1..n |-> p[i - 1]]
      BY <2>2, LevelsInOrder
    <2>5. Len(ps) = n
      BY <1>1, <2>4
    <2>6. n >= 3 /\ mid \in 0..(n - 1) /\ ps[mid + 1] < ps[1] /\ ps[mid + 1] < ps[n]
      BY <1>5, <2>5 DEF ScoreIsBimodal, Last
    <2>7. ps[mid + 1] = p[mid] /\ ps[1] = p[0] /\ ps[n] = p[n - 1]
      <3>1. \A i \in 1..n : ps[i] = p[i - 1]
        BY <2>4
      <3>2. mid + 1 \in 1..n /\ 1 \in 1..n /\ n \in 1..n /\ (mid + 1) - 1 = mid
        BY <1>1, <2>6
      <3> HIDE DEF ps, p, mid
      <3>3. ps[mid + 1] = p[(mid + 1) - 1] /\ ps[1] = p[1 - 1] /\ ps[n] = p[n - 1]
        BY <3>1, <3>2
      <3> QED
        BY <3>2, <3>3
    <2> HIDE DEF ps
    <2>8. /\ MostLikely(a) \in 0..(n - 1)
          /\ \A j \in 0..(n - 1) : p[j] <= p[MostLikely(a)]
      BY <2>2, <2>3, MostLikelyIs
    <2>9. p[0] <= p[MostLikely(a)] /\ p[mid] < p[0] /\ p[mid] < p[n - 1]
      BY <1>1, <2>6, <2>7, <2>8
    <2>10. p[0] \in Int /\ p[mid] \in Int /\ p[n - 1] \in Int
           /\ p[MostLikely(a)] \in Int
      <3>1. \A i \in 0..(n - 1) : p[i] \in Int
        <4> TAKE i \in 0..(n - 1)
        <4> HIDE DEF p, n
        <4>1. p[i] \in 0..D
          BY <2>3
        <4> QED
          BY <2>3, <4>1
      <3>2. 0 \in 0..(n - 1) /\ n - 1 \in 0..(n - 1)
        BY <1>1, <2>6
      <3> HIDE DEF p, n, mid
      <3> QED
        BY <2>6, <2>8, <3>1, <3>2
    <2>11. mid # MostLikely(a)
      <3> HIDE DEF p, mid
      <3> QED
        BY <2>9, <2>10
    <2>12. mid # 0 /\ mid # n - 1
      <3> HIDE DEF p, mid, n
      <3> QED
        BY <2>9, <2>10
    <2> QED
      BY <2>11, <2>12
  <1> QED
    BY <1>3, <1>4, <1>5 DEF BimodalMisleadsFor

-----------------------------------------------------------------------------
(* Products.                                                                *)
\* h[i] is the product of the first i factors.
Multiplies(h, f, n) ==
    /\ h \in [0..n -> Int]
    /\ h[0] = 1
    /\ \A i \in 1..n : h[i] = h[i - 1] * f[i]

(* There are such partial products.                                         *)
LEMMA ProductExists ==
  ASSUME NEW n \in Nat, NEW f \in [1..n -> Int]
  PROVE  \E h : Multiplies(h, f, n)
  <1> DEFINE S == Int
             a == 1
             step == [p \in (1..n) \X S |-> p[2] * f[p[1]]]
  <1>1. a \in S /\ step \in [(1..n) \X S -> S]
    <2>1. \A p \in (1..n) \X S : p[2] * f[p[1]] \in S
      <3> TAKE p \in (1..n) \X S
      <3>1. p[2] \in Int /\ f[p[1]] \in Int
        OBVIOUS
      <3> DEFINE x == p[2]
                 y == f[p[1]]
      <3> HIDE DEF x, y
      <3>2. x * y \in Int
        BY <3>1 DEF x, y
      <3> QED
        BY <3>2 DEF x, y
    <2> QED
      BY <2>1
  <1>2. \A i \in 1..n, b \in Int : step[<<i, b>>] = b * f[i]
    OBVIOUS
  <1> HIDE DEF step, a, S
  <1>3. PICK h : Recurs(h, S, a, step, n)
    BY <1>1, Recursion, Zenon
  <1>4. h \in [0..n -> Int] /\ h[0] = 1
    BY <1>3 DEF Recurs, S, a
  <1>5. ASSUME NEW i \in 1..n PROVE h[i] = h[i - 1] * f[i]
    <2>1. i - 1 \in 0..n
      OBVIOUS
    <2>2. h[i - 1] \in Int
      BY <1>4, <2>1
    <2>3. h[i] = step[<<i, h[i - 1]>>]
      BY <1>3 DEF Recurs
    <2>4. step[<<i, h[i - 1]>>] = h[i - 1] * f[i]
      BY <1>2, <2>2, Zenon
    <2> QED
      BY <2>3, <2>4, Zenon
  <1> QED
    BY <1>4, <1>5, Zenon DEF Multiplies

(* Product is the last of them.                                             *)
LEMMA ProductIs ==
  ASSUME NEW n \in Nat, NEW f, DOMAIN f = 1..n, Len(f) = n,
         NEW h, Multiplies(h, f, n)
  PROVE  Product(f) = h[n]
  <1> DEFINE out[i \in 0..n] == IF i = 0 THEN 1 ELSE out[i - 1] * f[i]
             Row(g) == g = [i \in 0..n |-> IF i = 0 THEN 1 ELSE g[i - 1] * f[i]]
  <1>1. Row(h)
    <2>1. \A i \in 0..n : i # 0 => i \in 1..n
      OBVIOUS
    <2>2. \A i \in 0..n : h[i] = IF i = 0 THEN 1 ELSE h[i - 1] * f[i]
      <3> TAKE i \in 0..n
      <3>1. CASE i = 0
        BY <3>1 DEF Multiplies
      <3>2. CASE i # 0
        <4>1. h[i] = h[i - 1] * f[i]
          BY <2>1, <3>2, Zenon DEF Multiplies
        <4> QED
          BY <3>2, <4>1, Zenon
      <3> QED
        BY <3>1, <3>2
    <2>3. h \in [0..n -> Int]
      BY DEF Multiplies
    <2>4. h = [i \in 0..n |-> h[i]]
      BY <2>3
    <2> QED
      BY <2>2, <2>4, Zenon
  <1> HIDE DEF out
  <1>2. Row(out)
    BY <1>1, Zenon DEF out
  <1>3. Product(f) = out[n]
    BY Zenon DEF Product, out
  <1>4. \A i \in 0..n : out[i] = IF i = 0 THEN 1 ELSE out[i - 1] * f[i]
    BY <1>2, Zenon
  <1>5. Alike(h, out, n)
    <2>1. \A i \in 1..n : i \in 0..n /\ i # 0
      OBVIOUS
    <2>2. 0 \in 0..n
      OBVIOUS
    <2>3. h[0] = 1 /\ out[0] = 1
      BY <1>4, <2>2, Zenon DEF Multiplies
    <2>4. ASSUME NEW i \in 1..n, h[i - 1] = out[i - 1] PROVE h[i] = out[i]
      <3>1. h[i] = h[i - 1] * f[i]
        BY Zenon DEF Multiplies
      <3>2. out[i] = out[i - 1] * f[i]
        BY <1>4, <2>1, Zenon
      <3> QED
        BY <2>4, <3>1, <3>2, Zenon
    <2> QED
      BY <2>3, <2>4, Zenon DEF Alike
  <1>6. h[n] = out[n]
    BY <1>5, GoOnAlike, Zenon
  <1> QED
    BY <1>3, <1>6

(* A function on 1..n is a list of n.                                       *)
LEMMA LenOfDomain ==
  ASSUME NEW n \in Nat, NEW T, NEW f \in [1..n -> T]
  PROVE  DOMAIN f = 1..n /\ Len(f) = n
  OBVIOUS

AllButLast(f, n) == [i \in 1..(n - 1) |-> f[i]]

(* A product by its last factor.                                            *)
LEMMA ProductRec ==
  ASSUME NEW n \in Nat, NEW f \in [1..n -> Int]
  PROVE  /\ Product(f) \in Int
         /\ n = 0 => Product(f) = 1
         /\ n > 0 => /\ AllButLast(f, n) \in [1..(n - 1) -> Int]
                     /\ Product(AllButLast(f, n)) \in Int
                     /\ Product(f) = Product(AllButLast(f, n)) * f[n]
  <1>1. PICK h : Multiplies(h, f, n)
    BY ProductExists
  <1>2. DOMAIN f = 1..n /\ Len(f) = n
    BY LenOfDomain
  <1>3. Product(f) = h[n]
    BY <1>1, <1>2, ProductIs, Zenon
  <1>4. h \in [0..n -> Int] /\ n \in 0..n /\ h[0] = 1
    BY <1>1 DEF Multiplies
  <1>5. ASSUME n > 0
        PROVE  /\ AllButLast(f, n) \in [1..(n - 1) -> Int]
               /\ Product(AllButLast(f, n)) \in Int
               /\ Product(f) = Product(AllButLast(f, n)) * f[n]
    <2> DEFINE m == n - 1
               f1 == AllButLast(f, n)
               h1 == [i \in 0..m |-> h[i]]
    <2>1. m \in Nat /\ n \in 1..n
      BY <1>5
    <2>2. f1 \in [1..m -> Int] /\ \A i \in 1..m : f1[i] = f[i]
      BY <2>1 DEF AllButLast
    <2>3. \A i \in 1..m : i \in 1..n /\ i \in 0..m /\ i - 1 \in 0..m
      BY <2>1
    <2>4. 0 \in 0..m /\ \A i \in 0..m : i \in 0..n
      BY <2>1
    <2> HIDE DEF m, f1
    <2>5. Multiplies(h1, f1, m)
      <3>1. h1 \in [0..m -> Int] /\ h1[0] = 1
        BY <1>4, <2>4
      <3>2. ASSUME NEW i \in 1..m PROVE h1[i] = h1[i - 1] * f1[i]
        <4>1. h[i] = h[i - 1] * f[i]
          BY <1>1, <2>3, Zenon DEF Multiplies
        <4>2. h1[i] = h[i] /\ h1[i - 1] = h[i - 1] /\ f1[i] = f[i]
          BY <2>2, <2>3
        <4> QED
          BY <4>1, <4>2, Zenon
      <3> HIDE DEF h1
      <3> QED
        BY <3>1, <3>2, Zenon DEF Multiplies
    <2>6. DOMAIN f1 = 1..m /\ Len(f1) = m
      BY <2>1, <2>2, LenOfDomain
    <2>7. Product(f1) = h1[m]
      <3> HIDE DEF h1
      <3> QED
        BY <2>1, <2>5, <2>6, ProductIs, Zenon
    <2>8. m \in 0..m /\ m \in 0..n
      BY <2>1, <2>4
    <2>9. Product(f1) = h[m] /\ h[m] \in Int
      BY <1>4, <2>7, <2>8
    <2>10. h[n] = h[n - 1] * f[n]
      BY <1>1, <2>1, Zenon DEF Multiplies
    <2>11. h[n] = Product(f1) * f[n]
      BY <2>9, <2>10, Zenon DEF m
    <2>12. Product(f) = Product(f1) * f[n]
      BY <1>3, <2>11, Zenon
    <2> QED
      BY <2>2, <2>9, <2>12, Zenon DEF m, f1
  <1> QED
    BY <1>3, <1>4, <1>5

(* A certainty about one more event.                                        *)
LEMMA PowerRec ==
  ASSUME NEW n \in Nat
  PROVE  /\ Power(n) \in Nat \ {0}
         /\ Power(0) = 1
         /\ n > 0 => Power(n) = Power(n - 1) * D
  <1> DEFINE f(m) == [i \in 1..m |-> D]
             T == {m \in Nat : Power(m) \notin Nat \ {0}}
  <1>1. D \in Nat \ {0} /\ D \in Int
    BY ProbabilityAssumption
  <1>2. ASSUME NEW m \in Nat
        PROVE  /\ m = 0 => Power(m) = 1
               /\ m > 0 => Power(m) = Power(m - 1) * D
    <2>1. f(m) \in [1..m -> Int]
      BY <1>1
    <2>2. /\ m = 0 => Product(f(m)) = 1
          /\ m > 0 => Product(f(m)) = Product(AllButLast(f(m), m)) * f(m)[m]
      <3> DEFINE g == f(m)
      <3> HIDE DEF g
      <3>1. /\ m = 0 => Product(g) = 1
            /\ m > 0 => Product(g) = Product(AllButLast(g, m)) * g[m]
        <4>1. g \in [1..m -> Int]
          BY <2>1 DEF g
        <4> QED
          BY <4>1, ProductRec, Zenon
      <3> QED
        BY <3>1, Zenon DEF g
    <2>3. m > 0 => f(m)[m] = D /\ AllButLast(f(m), m) = f(m - 1)
      <3> SUFFICES ASSUME m > 0 PROVE f(m)[m] = D /\ AllButLast(f(m), m) = f(m - 1)
        OBVIOUS
      <3>1. m \in 1..m /\ \A i \in 1..(m - 1) : i \in 1..m
        OBVIOUS
      <3> QED
        BY <3>1 DEF AllButLast
    <2> HIDE DEF f
    <2> QED
      BY <2>2, <2>3, Zenon DEF Power, f
  <1>3. T = {}
    <2>1. SUFFICES ASSUME T # {} PROVE FALSE
      OBVIOUS
    <2>2. PICK m \in T : \A l \in T : m <= l
      <3> HIDE DEF T
      <3>1. T \in SUBSET Nat
        BY DEF T
      <3> QED
        BY <2>1, <3>1, Least
    <2>3. m \in Nat /\ Power(m) \notin Nat \ {0}
      BY <2>2
    <2>4. m > 0
      BY <1>2, <2>3
    <2>5. m - 1 \in Nat /\ ~(m <= m - 1)
      BY <2>3, <2>4
    <2>6. Power(m - 1) \in Nat \ {0}
      BY <2>2, <2>5
    <2>7. Power(m) = Power(m - 1) * D
      BY <1>2, <2>3, <2>4
    <2> DEFINE w == Power(m - 1)
    <2>8. w \in Nat \ {0} /\ Power(m) = w * D
      BY <2>6, <2>7
    <2> HIDE DEF w
    <2>9. w * D \in Nat \ {0}
      BY <1>1, <2>8
    <2> QED
      BY <2>3, <2>8, <2>9
  <1>4. Power(n) \in Nat \ {0}
    BY <1>3
  <1> HIDE DEF T, f
  <1> QED
    BY <1>2, <1>4

(* A product of chances is no more than any of them among certainties.      *)
LEMMA ProductBounds ==
  ASSUME NEW n \in Nat, NEW f \in [1..n -> 0..D]
  PROVE  /\ Product(f) \in 0..Power(n)
         /\ \A j \in 1..n : Product(f) <= f[j] * Power(n - 1)
  <1> DEFINE Good(m, g) == /\ Product(g) \in 0..Power(m)
                           /\ \A j \in 1..m : Product(g) <= g[j] * Power(m - 1)
             T == {m \in Nat : \E g \in [1..m -> 0..D] : ~Good(m, g)}
  <1>1. SUFFICES ASSUME T # {} PROVE FALSE
    <2>1. T = {} => Good(n, f)
      OBVIOUS
    <2> QED
      BY <2>1
  <1>2. PICK m \in T : \A l \in T : m <= l
    <2> HIDE DEF T
    <2>1. T \in SUBSET Nat
      BY DEF T
    <2> QED
      BY <1>1, <2>1, Least
  <1>3. m \in Nat
    BY <1>2
  <1>4. PICK g \in [1..m -> 0..D] : ~Good(m, g)
    BY <1>2
  <1>5. D \in Nat \ {0}
    BY ProbabilityAssumption
  <1>6. g \in [1..m -> Int]
    BY <1>4, <1>5
  <1>7. m # 0
    <2>1. SUFFICES ASSUME m = 0 PROVE Good(m, g)
      BY <1>4
    <2>2. Product(g) = 1 /\ Power(0) = 1
      BY <1>3, <1>6, <2>1, ProductRec, PowerRec
    <2>3. 1..m = {}
      BY <2>1
    <2> QED
      BY <2>1, <2>2, <2>3
  <1>8. m > 0 /\ m - 1 \in Nat /\ ~(m <= m - 1) /\ m \in 1..m
    BY <1>3, <1>7
  <1> DEFINE f1 == AllButLast(g, m)
  <1>9. f1 \in [1..(m - 1) -> 0..D] /\ \A j \in 1..(m - 1) : f1[j] = g[j]
    <2>1. \A i \in 1..(m - 1) : i \in 1..m
      BY <1>8
    <2> QED
      BY <1>4, <2>1 DEF AllButLast
  <1>10. Good(m - 1, f1)
    <2>1. m - 1 \notin T
      BY <1>2, <1>8
    <2> HIDE DEF Good, f1
    <2> QED
      BY <1>8, <1>9, <2>1
  <1>11. Product(g) = Product(f1) * g[m]
    BY <1>3, <1>6, <1>8, ProductRec, Zenon
  <1> DEFINE x == Product(f1)
             y == g[m]
             w == Power(m - 1)
  <1>12. x \in Int /\ x \in 0..w /\ w \in Nat \ {0} /\ y \in 0..D /\ Power(m) = w * D
    <2>1. w \in Nat \ {0} /\ Power(m) = w * D
      BY <1>3, <1>8, PowerRec
    <2>2. y \in 0..D
      BY <1>4, <1>8
    <2> QED
      BY <1>10, <2>1, <2>2
  <1>13. \A j \in 1..(m - 1) : x <= g[j] * Power((m - 1) - 1)
    BY <1>9, <1>10
  <1> HIDE DEF x, y, w, f1
  <1>14. Product(g) \in Int /\ 0 <= Product(g) /\ Product(g) <= w * y
    <2>1. Product(g) = x * y
      BY <1>11 DEF x, y
    <2>2. x * y <= w * y /\ 0 * y <= x * y
      BY <1>12, Grows
    <2>3. x * y \in Int /\ w * y \in Int /\ 0 * y = 0
      BY <1>5, <1>12
    <2> QED
      BY <2>1, <2>2, <2>3
  <1>15. w * y <= w * D
    <2>1. y * w <= D * w
      BY <1>5, <1>12, Grows
    <2>2. y * w = w * y /\ D * w = w * D
      BY <1>5, <1>12
    <2> QED
      BY <2>1, <2>2
  <1>16. Product(g) \in 0..Power(m)
    <2> DEFINE u == w * y
               v == w * D
    <2>1. u \in Int /\ v \in Int /\ u <= v /\ Product(g) <= u /\ Power(m) = v
      BY <1>5, <1>12, <1>14, <1>15
    <2> HIDE DEF u, v
    <2> QED
      BY <1>14, <2>1
  <1>17. ASSUME NEW j \in 1..m PROVE Product(g) <= g[j] * Power(m - 1)
    <2>1. CASE j = m
      <3>1. g[j] * Power(m - 1) = w * y
        BY <1>5, <1>12, <2>1 DEF y, w
      <3> QED
        BY <1>14, <3>1
    <2>2. CASE j # m
      <3>1. j \in 1..(m - 1) /\ m - 1 > 0
        BY <1>3, <2>2
      <3> DEFINE z == g[j]
                 w1 == Power((m - 1) - 1)
      <3>2. x <= z * w1 /\ z \in 0..D
        BY <1>4, <1>13, <3>1
      <3>3. w1 \in Nat \ {0} /\ w = w1 * D
        <4>1. w = w1 * D
          BY <1>8, <3>1, PowerRec DEF w
        <4>2. (m - 1) - 1 \in Nat
          BY <1>8, <3>1
        <4>3. w1 \in Nat \ {0}
          <5> DEFINE k == (m - 1) - 1
          <5>1. k \in Nat
            BY <4>2
          <5> HIDE DEF k
          <5>2. Power(k) \in Nat \ {0}
            BY <5>1, PowerRec
          <5> QED
            BY <5>2 DEF k
        <4> QED
          BY <4>1, <4>3
      <3>4. Product(g) = x * y
        BY <1>11 DEF x, y
      <3> HIDE DEF z, w1
      <3>5. x * y <= x * D
        <4>1. y * x <= D * x
          BY <1>5, <1>12, Grows
        <4>2. y * x = x * y /\ D * x = x * D
          BY <1>5, <1>12
        <4> QED
          BY <4>1, <4>2
      <3>6. x * D <= (z * w1) * D
        <4> DEFINE u == z * w1
        <4>1. u \in Int /\ x <= u
          BY <1>5, <3>2, <3>3
        <4> HIDE DEF u
        <4>2. x * D <= u * D
          BY <1>5, <1>12, <4>1, Grows
        <4> QED
          BY <4>2 DEF u
      <3>7. (z * w1) * D = z * (w1 * D)
        BY <1>5, <3>2, <3>3
      <3>8. Product(g) <= z * w
        <4> DEFINE u == x * y
                   v == x * D
                   t == z * w
        <4>1. u \in Int /\ v \in Int /\ t \in Int
          BY <1>5, <1>12, <3>2
        <4>2. u <= v /\ v <= t
          BY <3>3, <3>5, <3>6, <3>7
        <4> HIDE DEF u, v, t
        <4>3. u <= t
          BY <4>1, <4>2
        <4> QED
          BY <3>4, <4>3 DEF u, t
      <3> QED
        BY <3>8 DEF z, w
    <2> QED
      BY <2>1, <2>2
  <1> QED
    BY <1>4, <1>16, <1>17

(* The cleaned probabilities of some events, and of their negations.        *)
Cleaned(ps) == [i \in DOMAIN ps |-> Clamp(ps[i])]
Negated(ps) == [i \in DOMAIN ps |-> Not(ps[i])]

(* They are parts of D, and two of a kind make D.                           *)
LEMMA ChancesType ==
  ASSUME NEW ps \in Seq(Int)
  PROVE  /\ Len(ps) \in Nat /\ DOMAIN ps = 1..Len(ps)
         /\ Cleaned(ps) \in [1..Len(ps) -> 0..D]
         /\ Negated(ps) \in [1..Len(ps) -> 0..D]
         /\ \A i \in 1..Len(ps) : Negated(ps)[i] = D - Cleaned(ps)[i]
  <1>1. Len(ps) \in Nat /\ DOMAIN ps = 1..Len(ps) /\ \A i \in 1..Len(ps) : ps[i] \in Int
    OBVIOUS
  <1>2. D \in Nat
    BY ProbabilityAssumption
  <1>3. \A i \in 1..Len(ps) : Clamp(ps[i]) \in 0..D /\ Not(ps[i]) \in 0..D
                              /\ Not(ps[i]) = D - Clamp(ps[i])
    <2> TAKE i \in 1..Len(ps)
    <2>1. Clamp(ps[i]) \in 0..D
      BY <1>1, ClampType
    <2> QED
      BY <1>2, <2>1 DEF Not
  <1> QED
    BY <1>1, <1>3 DEF Cleaned, Negated

(* The least member of a set of naturals.                                   *)
LEMMA MinIs ==
  ASSUME NEW S \in SUBSET Nat, S # {}
  PROVE  Min(S) \in S /\ \A x \in S : Min(S) <= x
  <1>1. \E x \in S : \A y \in S : x <= y
    BY Least
  <1> QED
    BY <1>1 DEF Min

(* The greatest member of a bounded set of naturals.                        *)
LEMMA MaxIs ==
  ASSUME NEW b \in Nat, NEW S \in SUBSET (0..b), S # {}
  PROVE  Max(S) \in S /\ \A x \in S : x <= Max(S)
  <1> DEFINE T == {b - x : x \in S}
  <1>1. T \in SUBSET Nat /\ T # {}
    <2>1. \A x \in S : b - x \in Nat
      <3> TAKE x \in S
      <3>1. x \in 0..b
        OBVIOUS
      <3> QED
        BY <3>1
    <2> QED
      BY <2>1
  <1>2. PICK v \in T : \A w \in T : v <= w
    <2> HIDE DEF T
    <2> QED
      BY <1>1, Least
  <1>3. PICK m \in S : v = b - m
    BY <1>2
  <1>4. \A x \in S : m >= x
    <2> TAKE x \in S
    <2>1. b - x \in T
      OBVIOUS
    <2>2. v <= b - x
      BY <1>2, <2>1
    <2>3. x \in 0..b /\ m \in 0..b
      OBVIOUS
    <2> QED
      BY <1>3, <2>2, <2>3
  <1>5. Max(S) \in S /\ \A x \in S : Max(S) >= x
    BY <1>3, <1>4 DEF Max
  <1>6. \A x \in S : x \in Int
    OBVIOUS
  <1> QED
    BY <1>5, <1>6

(* A product of two factors.                                                *)
LEMMA ProductOfTwo ==
  ASSUME NEW f \in [1..2 -> Int]
  PROVE  Product(f) = f[1] * f[2]
  <1> DEFINE n == 2
             g == AllButLast(f, n)
             h == AllButLast(g, 1)
  <1>1. n \in Nat /\ n > 0 /\ n - 1 = 1 /\ f \in [1..n -> Int]
    OBVIOUS
  <1>2. Product(f) = Product(g) * f[n] /\ g \in [1..1 -> Int]
    <2> HIDE DEF n
    <2> QED
      BY <1>1, ProductRec
  <1>3. g[1] = f[1]
    BY DEF AllButLast
  <1>4. Product(g) = Product(h) * g[1] /\ h \in [1..0 -> Int]
    <2> DEFINE m == 1
    <2>1. m \in Nat /\ m > 0 /\ m - 1 = 0 /\ g \in [1..m -> Int]
      BY <1>2
    <2> HIDE DEF m, g
    <2>2. Product(g) = Product(AllButLast(g, m)) * g[m] /\ AllButLast(g, m) \in [1..0 -> Int]
      BY <2>1, ProductRec
    <2> QED
      BY <2>2 DEF m
  <1>5. Product(h) = 1
    <2> HIDE DEF h
    <2>1. \A k \in Nat : \A u \in [1..k -> Int] : k = 0 => Product(u) = 1
      BY ProductRec
    <2> QED
      BY <1>4, <2>1
  <1> HIDE DEF g, h
  <1>6. f[1] \in Int
    OBVIOUS
  <1> QED
    BY <1>2, <1>3, <1>4, <1>5, <1>6

(* algebra.go: for any probabilities, clean or not.                         *)
THEOREM AlgebraIsSound ==
  ASSUME NEW ps \in Seq(Int)
  PROVE  AlgebraSoundFor(ps)
  <1> DEFINE n == Len(ps)
             c == Cleaned(ps)
             d == Negated(ps)
             w == Power(n - 1)
  <1> SUFFICES ASSUME n > 0
               PROVE  /\ AllOf(ps) <= MinAll(ps) * w
                      /\ MaxAny(ps) * w <= AnyOf(ps)
                      /\ AnyOf(ps) = Power(n) - AllOf([i \in DOMAIN ps |-> Not(ps[i])])
                      /\ AnyOf(ps) \in 0..Power(n)
                      /\ n = 2 => Or(ps[1], ps[2]) = AnyOf(ps)
                                  /\ And(ps[1], ps[2]) = AllOf(ps)
    BY DEF AlgebraSoundFor
  <1>1. /\ n \in Nat /\ DOMAIN ps = 1..n /\ D \in Nat \ {0}
        /\ c \in [1..n -> 0..D] /\ d \in [1..n -> 0..D]
        /\ \A i \in 1..n : d[i] = D - c[i]
    BY ChancesType, ProbabilityAssumption
  <1>2. n - 1 \in Nat /\ w \in Nat \ {0} /\ Power(n) = w * D
        /\ Power(n) \in Nat
    <2> DEFINE m == n - 1
    <2>1. m \in Nat
      BY <1>1
    <2> HIDE DEF m
    <2>2. Power(m) \in Nat \ {0}
      BY <2>1, PowerRec
    <2> HIDE DEF n
    <2>3. Power(n) = Power(n - 1) * D /\ Power(n) \in Nat
      BY <1>1, PowerRec
    <2> QED
      BY <2>1, <2>2, <2>3 DEF m
  <1>3. AllOf(ps) = Product(c) /\ AnyOf(ps) = Power(n) - Product(d)
    BY DEF AllOf, AnyOf, Cleaned, Negated
  <1>4. /\ Product(c) \in 0..Power(n) /\ Product(d) \in 0..Power(n)
        /\ \A j \in 1..n : Product(c) <= c[j] * w /\ Product(d) <= d[j] * w
    <2> HIDE DEF c, d, n
    <2> QED
      BY <1>1, ProductBounds
  <1>5. \A j \in 1..n : c[j] \in 0..D /\ c[j] = Clamp(ps[j])
    BY <1>1 DEF Cleaned
  <1>6. Product(c) <= MinAll(ps) * w
    <2> DEFINE S == {D} \cup {Clamp(ps[i]) : i \in DOMAIN ps}
    <2>1. S \in SUBSET Nat /\ S # {}
      <3>1. \A i \in DOMAIN ps : Clamp(ps[i]) \in Nat
        BY <1>1, <1>5
      <3> QED
        BY <1>1, <3>1
    <2>2. Min(S) \in S
      <3> HIDE DEF S
      <3> QED
        BY <2>1, MinIs
    <2>3. MinAll(ps) = Min(S)
      BY DEF MinAll
    <2>4. CASE Min(S) = D
      <3>1. D * w = Power(n)
        BY <1>1, <1>2
      <3> QED
        BY <1>2, <1>4, <2>3, <2>4, <3>1
    <2>5. CASE \E i \in DOMAIN ps : Min(S) = Clamp(ps[i])
      BY <1>1, <1>4, <1>5, <2>3, <2>5
    <2> HIDE DEF c
    <2> QED
      BY <2>2, <2>4, <2>5
  <1>7. MaxAny(ps) * w <= Power(n) - Product(d)
    <2> DEFINE S == {0} \cup {Clamp(ps[i]) : i \in DOMAIN ps}
    <2>1. S \in SUBSET (0..D) /\ S # {}
      <3>1. \A i \in DOMAIN ps : Clamp(ps[i]) \in 0..D
        BY <1>1, <1>5
      <3>2. 0 \in 0..D
        BY <1>1
      <3> QED
        BY <3>1, <3>2
    <2>2. Max(S) \in S
      <3> DEFINE b == D
      <3>1. b \in Nat /\ S \in SUBSET (0..b)
        BY <1>1, <2>1
      <3> HIDE DEF S, b
      <3> QED
        BY <2>1, <3>1, MaxIs
    <2>3. MaxAny(ps) = Max(S)
      BY DEF MaxAny
    <2>4. CASE Max(S) = 0
      <3>1. 0 * w = 0
        BY <1>2
      <3> HIDE DEF w, d, S
      <3> QED
        BY <1>2, <1>4, <2>3, <2>4, <3>1
    <2>5. CASE \E i \in DOMAIN ps : Max(S) = Clamp(ps[i])
      <3>1. PICK i \in 1..n : Max(S) = c[i]
        BY <1>1, <1>5, <2>5
      <3> DEFINE x == c[i]
                 q == Product(d)
      <3>2. x \in 0..D /\ q \in Int /\ q <= (D - x) * w
        BY <1>1, <1>2, <1>4, <1>5
      <3> HIDE DEF x, q, w
      <3>3. (D - x) * w = w * D - x * w /\ x * w \in Int /\ w * D \in Int
        BY <1>1, <1>2, <3>2
      <3> DEFINE u == w * D
                 v == x * w
      <3>4. u \in Int /\ v \in Int /\ q <= u - v /\ q \in Int
        BY <3>2, <3>3
      <3> HIDE DEF u, v
      <3>5. v <= u - q
        BY <3>4
      <3>6. MaxAny(ps) * w = v
        BY <2>3, <3>1 DEF v, x
      <3>7. Power(n) = u
        BY <1>2 DEF u
      <3> HIDE DEF n, d
      <3> QED
        BY <3>5, <3>6, <3>7 DEF q
    <2> HIDE DEF w, d, c
    <2> QED
      BY <2>2, <2>4, <2>5
  <1>8. AllOf([i \in DOMAIN ps |-> Not(ps[i])]) = Product(d)
    <2>1. \A x \in 0..D : Clamp(x) = x
      BY ProbabilityAssumption DEF Clamp
    <2>2. [i \in DOMAIN ps |-> Not(ps[i])] = d
      BY DEF Negated
    <2>3. AllOf(d) = Product([i \in DOMAIN d |-> Clamp(d[i])])
      BY DEF AllOf
    <2>4. [i \in DOMAIN d |-> Clamp(d[i])] = d
      <3> HIDE DEF d, n
      <3>1. DOMAIN d = 1..n /\ \A i \in 1..n : d[i] \in 0..D
        BY <1>1
      <3>2. \A i \in DOMAIN d : Clamp(d[i]) = d[i]
        BY <2>1, <3>1
      <3>3. d = [i \in DOMAIN d |-> d[i]]
        BY <1>1
      <3> QED
        BY <3>2, <3>3, Zenon
    <2> HIDE DEF d
    <2> QED
      BY <2>2, <2>3, <2>4
  <1>9. AnyOf(ps) \in 0..Power(n)
    <2> HIDE DEF d, n
    <2> QED
      BY <1>2, <1>3, <1>4
  <1>10. ASSUME n = 2
         PROVE  Or(ps[1], ps[2]) = AnyOf(ps) /\ And(ps[1], ps[2]) = AllOf(ps)
    <2> DEFINE x == c[1]
               y == c[2]
    <2>1. x \in 0..D /\ y \in 0..D /\ x = Clamp(ps[1]) /\ y = Clamp(ps[2])
      BY <1>5, <1>10
    <2>2. Product(c) = x * y /\ Product(d) = d[1] * d[2]
      <3>1. c \in [1..2 -> Int] /\ d \in [1..2 -> Int]
        BY <1>1, <1>10
      <3> HIDE DEF c, d
      <3> QED
        BY <3>1, ProductOfTwo
    <2>3. d[1] = D - x /\ d[2] = D - y
      BY <1>1, <1>10
    <2>4. Power(2) = D * D
      <3> DEFINE g == [i \in 1..2 |-> D]
      <3>1. g \in [1..2 -> Int] /\ g[1] = D /\ g[2] = D
        BY <1>1
      <3>2. Power(2) = Product(g)
        BY DEF Power
      <3> HIDE DEF g
      <3> QED
        BY <3>1, <3>2, ProductOfTwo
    <2> HIDE DEF c, d, x, y
    <2>5. D * D - (D - x) * (D - y) = D * (x + y) - x * y
      BY <1>1, <2>1
    <2>6. AnyOf(ps) = D * D - (D - x) * (D - y)
      BY <1>3, <1>10, <2>2, <2>3, <2>4
    <2>7. Or(ps[1], ps[2]) = D * (x + y) - x * y /\ And(ps[1], ps[2]) = x * y
      BY <2>1 DEF Or, And
    <2> QED
      BY <1>3, <2>2, <2>5, <2>6, <2>7
  <1> HIDE DEF c, d, n, w
  <1> QED
    BY <1>3, <1>6, <1>7, <1>8, <1>9, <1>10

-----------------------------------------------------------------------------
(* The table of AtLeast and Exactly.                                        *)
\* rows[m] is the table after the first m events.
Tabulates(rows, ps) ==
    /\ rows \in [0..Len(ps) -> [0..Len(ps) -> Int]]
    /\ rows[0] = FirstRow(ps)
    /\ \A m \in 1..Len(ps) : rows[m] = NextRow(rows[m - 1], Cleaned(ps)[m])

(* A row made from a row.                                                   *)
LEMMA NextRowIs ==
  ASSUME NEW n \in Nat, NEW row \in [0..n -> Int], NEW c \in 0..D
  PROVE  /\ NextRow(row, c) \in [0..n -> Int]
         /\ \A k \in 0..n : NextRow(row, c)[k] =
               row[k] * (D - c) + IF k = 0 THEN 0 ELSE row[k - 1] * c
  <1>1. D \in Int /\ c \in Int
    BY ProbabilityAssumption
  <1>2. ASSUME NEW k \in 0..n
        PROVE  row[k] * (D - c) + (IF k = 0 THEN 0 ELSE row[k - 1] * c) \in Int
    <2>1. row[k] \in Int /\ (k # 0 => row[k - 1] \in Int)
      BY <1>2
    <2>2. row[k] * (D - c) \in Int
      BY <1>1, <2>1
    <2>3. k # 0 => row[k - 1] * c \in Int
      BY <1>1, <2>1
    <2> DEFINE x == row[k] * (D - c)
               y == row[k - 1] * c
    <2> HIDE DEF x, y
    <2>4. x + (IF k = 0 THEN 0 ELSE y) \in Int
      BY <2>2, <2>3 DEF x, y
    <2> QED
      BY <2>4 DEF x, y
  <1>3. NextRow(row, c) = [k \in 0..n |->
           row[k] * (D - c) + IF k = 0 THEN 0 ELSE row[k - 1] * c]
    BY DEF NextRow
  <1> QED
    BY <1>2, <1>3

(* Table is the last of such rows.                                          *)
LEMMA TableExists ==
  ASSUME NEW ps \in Seq(Int)
  PROVE  \E rows : Tabulates(rows, ps) /\ Table(ps) = rows[Len(ps)]
  <1> DEFINE n == Len(ps)
             c == Cleaned(ps)
             S == [0..n -> Int]
             a == FirstRow(ps)
             step == [p \in (1..n) \X S |-> NextRow(p[2], c[p[1]])]
  <1>1. n \in Nat /\ DOMAIN ps = 1..n /\ c \in [1..n -> 0..D]
    BY ChancesType
  <1>2. a \in S
    <2>1. \A k \in 0..n : (IF k = 0 THEN 1 ELSE 0) \in Int
      OBVIOUS
    <2> QED
      BY <2>1 DEF FirstRow
  <1> HIDE DEF n, c, a
  <1>3. step \in [(1..n) \X S -> S]
    <2>1. \A p \in (1..n) \X S : NextRow(p[2], c[p[1]]) \in S
      <3> TAKE p \in (1..n) \X S
      <3>1. p[2] \in S /\ c[p[1]] \in 0..D
        BY <1>1
      <3> QED
        BY <1>1, <3>1, NextRowIs
    <2> HIDE DEF S
    <2> QED
      BY <2>1
  <1>4. \A i \in 1..n, r \in S : step[<<i, r>>] = NextRow(r, c[i])
    <2> HIDE DEF S
    <2> QED
      OBVIOUS
  <1> HIDE DEF step, S
  <1>5. PICK h : Recurs(h, S, a, step, n)
    BY <1>1, <1>2, <1>3, Recursion, Zenon
  <1>6. h \in [0..n -> S] /\ h[0] = a
    BY <1>5 DEF Recurs
  <1>7. ASSUME NEW i \in 1..n PROVE h[i] = NextRow(h[i - 1], c[i])
    <2>1. i - 1 \in 0..n
      BY <1>1
    <2>2. h[i - 1] \in S
      BY <1>6, <2>1
    <2>3. h[i] = step[<<i, h[i - 1]>>]
      BY <1>5 DEF Recurs
    <2> QED
      BY <1>4, <2>2, <2>3, Zenon
  <1>8. Tabulates(h, ps)
    BY <1>6, <1>7, Zenon DEF Tabulates, S, a, n, c
  <1>9. Table(ps) = h[n]
    <2> DEFINE dp[i \in 0..n] ==
                  IF i = 0 THEN FirstRow(ps) ELSE NextRow(dp[i - 1], Clamp(ps[i]))
               Row(g) == g = [i \in 0..n |->
                  IF i = 0 THEN FirstRow(ps) ELSE NextRow(g[i - 1], Clamp(ps[i]))]
    <2>1. Row(h)
      <3>1. \A i \in 0..n : h[i] = IF i = 0 THEN FirstRow(ps)
                                   ELSE NextRow(h[i - 1], Clamp(ps[i]))
        <4> TAKE i \in 0..n
        <4>1. CASE i = 0
          BY <1>6, <4>1, Zenon DEF a
        <4>2. CASE i # 0
          <5>1. i \in 1..n
            BY <1>1, <4>2
          <5>2. c[i] = Clamp(ps[i])
            BY <1>1, <5>1 DEF c, Cleaned
          <5> QED
            BY <1>7, <4>2, <5>1, <5>2, Zenon
        <4> QED
          BY <4>1, <4>2, Zenon
      <3>2. h = [i \in 0..n |-> h[i]]
        BY <1>6
      <3> QED
        BY <3>1, <3>2, Zenon
    <2> HIDE DEF dp
    <2>2. Row(dp)
      BY <2>1, Zenon DEF dp
    <2>3. Table(ps) = dp[n]
      BY Zenon DEF Table, dp, n
    <2>4. Alike(h, dp, n)
      <3>1. \A i \in 1..n : i \in 0..n /\ i # 0
        BY <1>1
      <3>2. 0 \in 0..n
        BY <1>1
      <3>3. h[0] = FirstRow(ps) /\ dp[0] = FirstRow(ps)
        BY <2>1, <2>2, <3>2, Zenon
      <3>4. ASSUME NEW i \in 1..n, h[i - 1] = dp[i - 1] PROVE h[i] = dp[i]
        <4>1. h[i] = NextRow(h[i - 1], Clamp(ps[i]))
          BY <2>1, <3>1, Zenon
        <4>2. dp[i] = NextRow(dp[i - 1], Clamp(ps[i]))
          BY <2>2, <3>1, Zenon
        <4> QED
          BY <3>4, <4>1, <4>2, Zenon
      <3> QED
        BY <3>3, <3>4, Zenon DEF Alike
    <2>5. h[n] = dp[n]
      BY <1>1, <2>4, GoOnAlike, Zenon
    <2> QED
      BY <2>3, <2>5
  <1> QED
    BY <1>8, <1>9, Zenon DEF n

(* Each row from the one before it, entry by entry.                         *)
LEMMA RowStep ==
  ASSUME NEW ps \in Seq(Int), NEW rows, Tabulates(rows, ps), NEW m \in 1..Len(ps)
  PROVE  LET n == Len(ps)
             c == Cleaned(ps)[m]
             old == rows[m - 1]
             new == rows[m]
         IN  /\ n \in Nat /\ c \in 0..D /\ D \in Nat /\ m - 1 \in 0..n
             /\ old \in [0..n -> Int] /\ new \in [0..n -> Int]
             /\ \A k \in 0..n : new[k] = old[k] * (D - c)
                                         + IF k = 0 THEN 0 ELSE old[k - 1] * c
  <1> DEFINE n == Len(ps)
             c == Cleaned(ps)[m]
             old == rows[m - 1]
             new == rows[m]
  <1>1. n \in Nat /\ Cleaned(ps) \in [1..n -> 0..D] /\ D \in Nat
    BY ChancesType, ProbabilityAssumption
  <1>2. m - 1 \in 0..n /\ m \in 0..n
    BY <1>1
  <1>3. c \in 0..D
    BY <1>1
  <1>4. old \in [0..n -> Int] /\ new \in [0..n -> Int]
    BY <1>2 DEF Tabulates
  <1>5. new = NextRow(old, c)
    BY Zenon DEF Tabulates
  <1> HIDE DEF n, c, old, new
  <1>6. \A k \in 0..n : NextRow(old, c)[k] =
           old[k] * (D - c) + IF k = 0 THEN 0 ELSE old[k - 1] * c
    BY <1>1, <1>3, <1>4, NextRowIs
  <1>7. \A k \in 0..n : new[k] = old[k] * (D - c) + IF k = 0 THEN 0 ELSE old[k - 1] * c
    BY <1>5, <1>6, Zenon
  <1> QED
    BY <1>1, <1>2, <1>3, <1>4, <1>7, Zenon DEF n, c, old, new

(* No more of the events happen than there are.                             *)
LEMMA RowEnds ==
  ASSUME NEW ps \in Seq(Int), NEW rows, Tabulates(rows, ps)
  PROVE  \A m \in 0..Len(ps) : \A k \in 0..Len(ps) : k > m => rows[m][k] = 0
  <1> DEFINE n == Len(ps)
             G == {m \in 0..n : \A k \in 0..n : k > m => rows[m][k] = 0}
  <1>1. n \in Nat
    BY ChancesType
  <1>2. 0 \in G
    <2>1. \A k \in 0..n : rows[0][k] = IF k = 0 THEN 1 ELSE 0
      BY DEF Tabulates, FirstRow
    <2> QED
      BY <1>1, <2>1
  <1>3. ASSUME NEW m \in 1..n, m - 1 \in G PROVE m \in G
    <2> DEFINE c == Cleaned(ps)[m]
               old == rows[m - 1]
               new == rows[m]
    <2>1. /\ c \in 0..D /\ D \in Nat /\ m \in 0..n
          /\ \A k \in 0..n : new[k] = old[k] * (D - c)
                                      + IF k = 0 THEN 0 ELSE old[k - 1] * c
      BY <1>1, RowStep
    <2>2. \A k \in 0..n : k > m - 1 => old[k] = 0
      BY <1>3
    <2> HIDE DEF c, old, new
    <2>3. ASSUME NEW k \in 0..n, k > m PROVE new[k] = 0
      <3>1. k # 0 /\ k > m - 1 /\ k - 1 \in 0..n /\ k - 1 > m - 1
        BY <1>1, <2>3
      <3>2. old[k] = 0 /\ old[k - 1] = 0
        BY <2>2, <3>1
      <3>3. new[k] = old[k] * (D - c) + old[k - 1] * c
        BY <2>1, <3>1
      <3>4. 0 * (D - c) + 0 * c = 0
        BY <2>1
      <3> QED
        BY <3>2, <3>3, <3>4
    <2> HIDE DEF n
    <2> QED
      BY <2>1, <2>3 DEF new
  <1> HIDE DEF G
  <1>4. \A m \in 0..n : m \in G
    <2> HIDE DEF n
    <2> QED
      BY <1>1, <1>2, <1>3, UpTo
  <1> QED
    BY <1>4 DEF G

(* None of the events, and all of them.                                     *)
Pre(f, m) == [i \in 1..m |-> f[i]]

(* The product of one factor more.                                          *)
LEMMA PreStep ==
  ASSUME NEW n \in Nat, NEW f \in [1..n -> Int], NEW m \in 0..n
  PROVE  /\ Product(Pre(f, m)) \in Int
         /\ m = 0 => Product(Pre(f, m)) = 1
         /\ m > 0 => Product(Pre(f, m)) = Product(Pre(f, m - 1)) * f[m]
  <1> DEFINE g == Pre(f, m)
  <1>1. m \in Nat /\ g \in [1..m -> Int]
    <2>1. \A i \in 1..m : i \in 1..n
      OBVIOUS
    <2> QED
      BY <2>1 DEF Pre
  <1>2. m > 0 => g[m] = f[m] /\ AllButLast(g, m) = Pre(f, m - 1)
    <2> SUFFICES ASSUME m > 0 PROVE g[m] = f[m] /\ AllButLast(g, m) = Pre(f, m - 1)
      OBVIOUS
    <2>1. m \in 1..m /\ \A i \in 1..(m - 1) : i \in 1..m
      BY <1>1
    <2> QED
      BY <2>1 DEF Pre, AllButLast
  <1> HIDE DEF g
  <1>3. /\ Product(g) \in Int
        /\ m = 0 => Product(g) = 1
        /\ m > 0 => Product(g) = Product(AllButLast(g, m)) * g[m]
    BY <1>1, ProductRec
  <1> QED
    BY <1>2, <1>3 DEF g

(* None of the first m events, and all of them.                             *)
LEMMA RowCorners ==
  ASSUME NEW ps \in Seq(Int), NEW rows, Tabulates(rows, ps)
  PROVE  \A m \in 0..Len(ps) : /\ rows[m][0] = Product(Pre(Negated(ps), m))
                               /\ rows[m][m] = Product(Pre(Cleaned(ps), m))
  <1> DEFINE n == Len(ps)
             c == Cleaned(ps)
             d == Negated(ps)
             G == {m \in 0..n : /\ rows[m][0] = Product(Pre(d, m))
                                /\ rows[m][m] = Product(Pre(c, m))}
  <1>1. /\ n \in Nat /\ c \in [1..n -> 0..D] /\ d \in [1..n -> 0..D]
        /\ \A i \in 1..n : d[i] = D - c[i]
    BY ChancesType
  <1>2. c \in [1..n -> Int] /\ d \in [1..n -> Int]
    BY <1>1
  <1> HIDE DEF c, d
  <1>3. \A m \in 0..n : /\ m = 0 => Product(Pre(c, m)) = 1 /\ Product(Pre(d, m)) = 1
                        /\ m > 0 => /\ Product(Pre(c, m)) = Product(Pre(c, m - 1)) * c[m]
                                    /\ Product(Pre(d, m)) = Product(Pre(d, m - 1)) * d[m]
    <2> HIDE DEF n
    <2> QED
      BY <1>1, <1>2, PreStep
  <1>4. 0 \in G
    <2>1. 0 \in 0..n
      BY <1>1
    <2>2. rows[0][0] = 1
      BY <2>1 DEF Tabulates, FirstRow
    <2> QED
      BY <1>3, <2>1, <2>2
  <1>5. ASSUME NEW m \in 1..n, m - 1 \in G PROVE m \in G
    <2> DEFINE b == c[m]
               old == rows[m - 1]
               new == rows[m]
    <2>1. /\ b \in 0..D /\ D \in Nat /\ m \in 0..n /\ m - 1 \in 0..n
          /\ old \in [0..n -> Int]
          /\ \A k \in 0..n : new[k] = old[k] * (D - b)
                                      + IF k = 0 THEN 0 ELSE old[k - 1] * b
      BY <1>1, RowStep, SMTT(60) DEF c
    <2>2. old[0] = Product(Pre(d, m - 1)) /\ old[m - 1] = Product(Pre(c, m - 1))
      BY <1>5
    <2>3. old[m] = 0
      <3>1. \A j \in 0..n : \A k \in 0..n : k > j => rows[j][k] = 0
        BY RowEnds
      <3>2. m > m - 1
        BY <1>1
      <3> HIDE DEF n
      <3> QED
        BY <2>1, <3>1, <3>2
    <2>4. d[m] = D - b
      BY <1>1
    <2> HIDE DEF b, old, new
    <2>5. m # 0 /\ m > 0 /\ 0 \in 0..n
      BY <1>1
    <2>6. old[0] \in Int /\ old[m - 1] \in Int
      BY <2>1, <2>5
    <2>7. new[0] = old[0] * (D - b)
      <3>1. new[0] = old[0] * (D - b) + 0
        BY <2>1, <2>5
      <3>2. old[0] * (D - b) \in Int
        BY <2>1, <2>6
      <3> QED
        BY <3>1, <3>2
    <2>8. new[m] = old[m - 1] * b
      <3>1. new[m] = old[m] * (D - b) + old[m - 1] * b
        BY <2>1, <2>5
      <3>2. 0 * (D - b) = 0 /\ old[m - 1] * b \in Int
        BY <2>1, <2>6
      <3> QED
        BY <2>3, <3>1, <3>2
    <2>9. /\ Product(Pre(c, m)) = Product(Pre(c, m - 1)) * c[m]
          /\ Product(Pre(d, m)) = Product(Pre(d, m - 1)) * d[m]
      BY <1>3, <2>1, <2>5
    <2>10. new[0] = Product(Pre(d, m)) /\ new[m] = Product(Pre(c, m))
      BY <2>2, <2>4, <2>7, <2>8, <2>9, Zenon DEF b
    <2> HIDE DEF n
    <2> QED
      BY <2>1, <2>10 DEF new
  <1> HIDE DEF G
  <1>6. \A m \in 0..n : m \in G
    <2> HIDE DEF n
    <2> QED
      BY <1>1, <1>4, <1>5, UpTo
  <1> QED
    BY <1>6 DEF G, c, d

(* A row moved up by one loses its last entry.                              *)
Moved(row, n) == [k \in 0..n |-> IF k = 0 THEN 0 ELSE row[k - 1]]

(* A row without its last entry, moved up, has the same sum.                *)
LEMMA MovedSum ==
  ASSUME NEW n \in Nat, NEW row \in [0..n -> Int]
  PROVE  /\ Moved(row, n) \in [0..n -> Int]
         /\ SumFunctionOnSet(row, 0..n) = row[n] + SumFunctionOnSet(Moved(row, n), 0..n)
         /\ SumFunctionOnSet(Moved(row, n), 0..n) \in Int
  <1> DEFINE g == Moved(row, n)
             S == 0..(n - 1)
             T == 1..n
             up == [x \in S |-> x + 1]
  <1>1. g \in [0..n -> Int]
    <2>1. \A k \in 0..n : k # 0 => k - 1 \in 0..n
      OBVIOUS
    <2> QED
      BY <2>1 DEF Moved
  <1>2. IsFiniteSet(S) /\ IsFiniteSet(T) /\ IsFiniteSet(0..n)
    <2>1. 0 \in Int /\ n - 1 \in Int /\ 1 \in Int /\ n \in Int
      OBVIOUS
    <2> QED
      BY <2>1, FS_Interval
  <1>3. 0..n = S \cup {n} /\ n \notin S /\ 0..n = T \cup {0} /\ 0 \notin T
    OBVIOUS
  <1>4. {up[x] : x \in S} = T
    <2>1. \A x \in S : x + 1 \in T
      OBVIOUS
    <2>2. \A k \in T : k - 1 \in S /\ k = (k - 1) + 1
      OBVIOUS
    <2> QED
      BY <2>1, <2>2
  <1>5. \A x, y \in S : up[x] = up[y] => x = y
    OBVIOUS
  <1>6. \A x \in S : row[x] \in Int /\ g[up[x]] = row[x]
    <2> TAKE x \in S
    <2>1. x \in 0..n /\ x + 1 \in 0..n /\ x + 1 # 0 /\ (x + 1) - 1 = x
      OBVIOUS
    <2>2. g[x + 1] = row[(x + 1) - 1]
      BY <2>1 DEF Moved
    <2> HIDE DEF g
    <2> QED
      BY <2>1, <2>2
  <1>7. g[0] = 0
    BY DEF Moved
  <1> HIDE DEF g, S, T, up
  <1>8. SumFunctionOnSet(g, T) = SumFunctionOnSet(row, S)
    BY <1>2, <1>4, <1>5, <1>6, SumImage
  <1>9. SumFunctionOnSet(row, S \cup {n}) = row[n] + SumFunctionOnSet(row, S)
    <2>1. \A x \in S \cup {n} : row[x] \in Int
      BY <1>3
    <2> QED
      BY <1>2, <1>3, <2>1, SumMore
  <1>10. SumFunctionOnSet(g, T \cup {0}) = g[0] + SumFunctionOnSet(g, T)
    <2>1. \A x \in T \cup {0} : g[x] \in Int
      BY <1>1, <1>3
    <2> QED
      BY <1>2, <1>3, <2>1, SumMore
  <1>11. SumFunctionOnSet(g, 0..n) \in Int
    BY <1>1, <1>2, SumIsInt
  <1>12. SumFunctionOnSet(g, T) \in Int
    <2>1. \A x \in T : g[x] \in Int
      BY <1>1, <1>3
    <2> QED
      BY <1>2, <2>1, SumIsInt
  <1>13. SumFunctionOnSet(g, 0..n) = SumFunctionOnSet(row, S)
    <2>1. SumFunctionOnSet(g, 0..n) = g[0] + SumFunctionOnSet(g, T)
      BY <1>3, <1>10, Zenon
    <2> QED
      BY <1>7, <1>8, <1>12, <2>1
  <1>14. SumFunctionOnSet(row, 0..n) = row[n] + SumFunctionOnSet(g, 0..n)
    BY <1>3, <1>9, <1>13
  <1> QED
    BY <1>1, <1>11, <1>14 DEF g

(* A new row is made of the old one and of the old one moved.               *)
LEMMA RowMade ==
  ASSUME NEW ps \in Seq(Int), NEW rows, Tabulates(rows, ps), NEW m \in 1..Len(ps)
  PROVE  LET n == Len(ps)
             c == Cleaned(ps)[m]
             old == rows[m - 1]
             new == rows[m]
         IN  \A k \in 0..n : /\ old[k] \in Int /\ Moved(old, n)[k] \in Int
                             /\ new[k] = (D - c) * old[k] + c * Moved(old, n)[k]
  <1> DEFINE n == Len(ps)
             c == Cleaned(ps)[m]
             old == rows[m - 1]
             new == rows[m]
  <1>1. /\ n \in Nat /\ c \in 0..D /\ D \in Nat /\ old \in [0..n -> Int]
        /\ \A k \in 0..n : new[k] = old[k] * (D - c)
                                    + IF k = 0 THEN 0 ELSE old[k - 1] * c
    BY RowStep
  <1> HIDE DEF n, c, old, new
  <1>2. Moved(old, n) \in [0..n -> Int]
    BY <1>1, MovedSum
  <1>3. ASSUME NEW k \in 0..n
        PROVE  /\ old[k] \in Int /\ Moved(old, n)[k] \in Int
               /\ new[k] = (D - c) * old[k] + c * Moved(old, n)[k]
    <2> DEFINE x == old[k]
               y == Moved(old, n)[k]
    <2>1. x \in Int /\ y \in Int
      BY <1>1, <1>2
    <2>2. y = IF k = 0 THEN 0 ELSE old[k - 1]
      BY DEF Moved
    <2> HIDE DEF x, y
    <2>3. CASE k = 0
      <3>1. new[k] = x * (D - c) + 0 /\ y = 0
        BY <1>1, <2>2, <2>3 DEF x
      <3>2. x * (D - c) + 0 = (D - c) * x + c * 0
        BY <1>1, <2>1
      <3> QED
        BY <2>1, <3>1, <3>2 DEF x, y
    <2>4. CASE k # 0
      <3>1. new[k] = x * (D - c) + y * c
        BY <1>1, <2>2, <2>4, Zenon DEF x
      <3>2. x * (D - c) + y * c = (D - c) * x + c * y
        BY <1>1, <2>1
      <3> QED
        BY <2>1, <3>1, <3>2 DEF x, y
    <2> QED
      BY <2>3, <2>4
  <1> QED
    BY <1>3 DEF n, c, old, new

(* Some number of the events happens; how many on average is their sum.     *)
Times(row, n) == [k \in 0..n |-> k * row[k]]

(* A row adds up to a certainty, and its mean is the number to expect.      *)
LEMMA RowSums ==
  ASSUME NEW ps \in Seq(Int), NEW rows, Tabulates(rows, ps)
  PROVE  \A m \in 0..Len(ps) :
            /\ SumFunctionOnSet(rows[m], 0..Len(ps)) = Power(m)
            /\ D * SumFunctionOnSet(Times(rows[m], Len(ps)), 0..Len(ps))
                  = SumFunctionOnSet(Cleaned(ps), 1..m) * Power(m)
  <1> DEFINE n == Len(ps)
             N == 0..n
             C == Cleaned(ps)
             E(m) == SumFunctionOnSet(C, 1..m)
             total(m) == SumFunctionOnSet(rows[m], N)
             mean(m) == SumFunctionOnSet(Times(rows[m], n), N)
             G == {m \in 0..n : total(m) = Power(m) /\ D * mean(m) = E(m) * Power(m)}
  <1>1. /\ n \in Nat /\ C \in [1..n -> 0..D] /\ D \in Nat \ {0}
        /\ C \in [1..n -> Int]
    <2>1. n \in Nat /\ C \in [1..n -> 0..D] /\ D \in Nat \ {0}
      BY ChancesType, ProbabilityAssumption
    <2> HIDE DEF C, n
    <2> QED
      BY <2>1
  <1>2. IsFiniteSet(N)
    <2>1. 0 \in Int /\ n \in Int
      BY <1>1
    <2> QED
      BY <2>1, FS_Interval
  <1>3. Power(0) = 1
    BY PowerRec
  <1>4. 0 \in G
    <2>1. 0 \in N /\ 0 \in 0..n
      BY <1>1
    <2>2. \A k \in N : /\ rows[0][k] = IF k = 0 THEN 1 ELSE 0
                       /\ Times(rows[0], n)[k] = 0
      <3>1. \A k \in N : rows[0][k] = IF k = 0 THEN 1 ELSE 0
        BY DEF Tabulates, FirstRow
      <3> TAKE k \in N
      <3>2. Times(rows[0], n)[k] = k * rows[0][k]
        BY DEF Times
      <3>3. k \in Int
        BY <1>1
      <3> QED
        BY <3>1, <3>2, <3>3
    <2> HIDE DEF N, n
    <2>3. mean(0) = 0
      BY <1>2, <2>2, SumZero
    <2>4. total(0) = 1
      <3> DEFINE f == rows[0]
                 S == N \ {0}
      <3>1. \A k \in N : f[k] \in Int
        BY <2>2
      <3>2. IsFiniteSet(S) /\ \A k \in S : f[k] = 0
        BY <1>2, <2>2, FS_Subset
      <3>3. f[0] = 1
        BY <2>1, <2>2
      <3> HIDE DEF f
      <3>4. SumFunctionOnSet(f, N) = f[0] + SumFunctionOnSet(f, S)
        BY <1>2, <2>1, <3>1, SumLess
      <3>5. SumFunctionOnSet(f, S) = 0
        <4> HIDE DEF S
        <4> QED
          BY <3>2, SumZero
      <3> QED
        BY <3>3, <3>4, <3>5 DEF f
    <2>5. E(0) = 0
      <3>1. 1..0 = {} /\ IsFiniteSet({})
        BY FS_EmptySet
      <3> HIDE DEF C
      <3>2. SumFunctionOnSet(C, {}) = 0
        BY <3>1, SumZero
      <3> QED
        BY <3>1, <3>2
    <2> HIDE DEF total, mean, E
    <2>6. D * 0 = 0 * 1
      BY <1>1
    <2> QED
      BY <1>3, <2>1, <2>3, <2>4, <2>5, <2>6
  <1>5. ASSUME NEW m \in 1..n, m - 1 \in G PROVE m \in G
    <2> DEFINE c == C[m]
               old == rows[m - 1]
               new == rows[m]
               mov == Moved(old, n)
    <2>1. /\ c \in 0..D /\ m \in 0..n /\ m - 1 \in 0..n /\ m - 1 \in Nat /\ m > m - 1
          /\ old \in [0..n -> Int] /\ m > 0 /\ m \in Nat
      BY <1>1, RowStep
    <2>2. total(m - 1) = Power(m - 1) /\ D * mean(m - 1) = E(m - 1) * Power(m - 1)
      BY <1>5
    <2>3. \A k \in 0..n : /\ old[k] \in Int /\ mov[k] \in Int
                          /\ new[k] = (D - c) * old[k] + c * mov[k]
      BY RowMade
    <2>4. old[n] = 0
      <3>1. \A j \in 0..n : \A k \in 0..n : k > j => rows[j][k] = 0
        BY RowEnds
      <3>2. n \in 0..n /\ n > m - 1
        BY <1>1
      <3> HIDE DEF n
      <3> QED
        BY <2>1, <3>1, <3>2
    <2>5. Power(m) = Power(m - 1) * D /\ Power(m - 1) \in Nat
      <3> DEFINE l == m - 1
      <3>1. l \in Nat
        BY <2>1
      <3> HIDE DEF l
      <3>2. Power(l) \in Nat
        BY <3>1, PowerRec
      <3>3. Power(m) = Power(m - 1) * D
        BY <2>1, PowerRec
      <3> QED
        BY <3>2, <3>3 DEF l
    <2>6. E(m) = c + E(m - 1) /\ E(m - 1) \in Int
      <3> DEFINE S == 1..(m - 1)
      <3>1. 1..m = S \cup {m} /\ m \notin S /\ \A x \in S \cup {m} : x \in 1..n
        BY <2>1
      <3>2. IsFiniteSet(S)
        <4>1. 1 \in Int /\ m - 1 \in Int
          BY <2>1
        <4> QED
          BY <4>1, FS_Interval
      <3>3. \A x \in S \cup {m} : C[x] \in Int
        BY <1>1, <3>1
      <3> HIDE DEF S, C
      <3>4. SumFunctionOnSet(C, S \cup {m}) = C[m] + SumFunctionOnSet(C, S)
        BY <3>1, <3>2, <3>3, SumMore
      <3>5. SumFunctionOnSet(C, S) \in Int
        BY <3>2, <3>3, SumIsInt
      <3> QED
        BY <3>1, <3>4, <3>5 DEF S
    <2> HIDE DEF c, old, new, mov
    <2>7. D - c \in Int /\ c \in Int
      BY <1>1, <2>1
    <2>8. SumFunctionOnSet(mov, N) = SumFunctionOnSet(old, N)
          /\ SumFunctionOnSet(old, N) \in Int
      <3>1. /\ SumFunctionOnSet(old, 0..n)
                  = old[n] + SumFunctionOnSet(Moved(old, n), 0..n)
            /\ SumFunctionOnSet(Moved(old, n), 0..n) \in Int
        <4> HIDE DEF n
        <4> QED
          BY <1>1, <2>1, MovedSum
      <3> QED
        BY <2>4, <3>1 DEF mov
    <2>9. SumFunctionOnSet(new, N)
             = (D - c) * SumFunctionOnSet(old, N) + c * SumFunctionOnSet(mov, N)
      <3> HIDE DEF n, N
      <3>1. \A k \in N : /\ old[k] \in Int /\ mov[k] \in Int
                         /\ new[k] = (D - c) * old[k] + c * mov[k]
        BY <2>3 DEF N
      <3>0. c \in Int
        BY <2>7
      <3> DEFINE b == D - c
      <3>2. b \in Int
        BY <2>7
      <3>3. \A k \in N : /\ old[k] \in Int /\ mov[k] \in Int
                         /\ new[k] = b * old[k] + c * mov[k]
        BY <3>1
      <3> HIDE DEF b
      <3>4. SumFunctionOnSet(new, N)
             = b * SumFunctionOnSet(old, N) + c * SumFunctionOnSet(mov, N)
        BY <1>2, <3>0, <3>2, <3>3, SumLinear
      <3> QED
        BY <3>4 DEF b
    <2>10. total(m) = Power(m)
      <3> DEFINE s == SumFunctionOnSet(old, N)
      <3>1. s = Power(m - 1)
        BY <2>2 DEF old
      <3>2. SumFunctionOnSet(new, N) = (D - c) * s + c * s /\ s \in Int
        BY <2>8, <2>9
      <3> HIDE DEF s
      <3>3. (D - c) * s + c * s = s * D
        BY <1>1, <2>7, <3>2
      <3> QED
        BY <2>5, <3>1, <3>2, <3>3 DEF new
    \* The same for k times the row, which is the old (k + 1) times the row moved.
    <2> DEFINE tOld == Times(old, n)
               tNew == Times(new, n)
               next == [k \in 0..n |-> (k + 1) * old[k]]
               tMov == Moved(next, n)
    <2>11. ASSUME NEW k \in 0..n
           PROVE  /\ tOld[k] \in Int /\ next[k] \in Int
                  /\ next[k] = 1 * tOld[k] + 1 * old[k]
                  /\ tOld[k] = k * old[k] /\ tNew[k] = k * new[k]
      <3>1. tOld[k] = k * old[k] /\ tNew[k] = k * new[k] /\ next[k] = (k + 1) * old[k]
        BY DEF Times
      <3> DEFINE x == old[k]
      <3>2. x \in Int /\ k \in Int
        BY <1>1, <2>3
      <3> HIDE DEF x
      <3>3. k * x \in Int /\ (k + 1) * x \in Int /\ (k + 1) * x = 1 * (k * x) + 1 * x
        BY <3>2
      <3> QED
        BY <3>1, <3>3, Zenon DEF x
    <2>12. next \in [0..n -> Int] /\ next[n] = 0
      <3>1. \A k \in 0..n : next[k] \in Int
        BY <2>11
      <3>2. next = [k \in 0..n |-> next[k]]
        OBVIOUS
      <3>3. next \in [0..n -> Int]
        <4> HIDE DEF next
        <4> QED
          BY <3>1, <3>2, Zenon
      <3>4. n \in 0..n
        BY <1>1
      <3>5. next[n] = (n + 1) * old[n]
        BY <3>4
      <3>6. (n + 1) * 0 = 0
        BY <1>1
      <3> HIDE DEF next
      <3> QED
        BY <2>4, <3>3, <3>5, <3>6
    <2>13. \A k \in 0..n : /\ tMov[k] \in Int /\ tMov[k] = k * mov[k]
                           /\ tNew[k] = (D - c) * tOld[k] + c * tMov[k]
      <3> TAKE k \in 0..n
      <3>1. tMov[k] = IF k = 0 THEN 0 ELSE next[k - 1]
        BY DEF Moved
      <3>2. mov[k] = IF k = 0 THEN 0 ELSE old[k - 1]
        BY DEF Moved, mov
      <3>3. k # 0 => k - 1 \in 0..n /\ (k - 1) + 1 = k
        BY <1>1
      <3>4. k # 0 => next[k - 1] = k * old[k - 1]
        BY <3>3
      <3>5. k \in Int
        BY <1>1
      <3>6. tMov[k] = k * mov[k]
        <4> HIDE DEF next, tMov
        <4>1. CASE k = 0
          BY <3>1, <3>2, <3>5, <4>1
        <4>2. CASE k # 0
          BY <3>1, <3>2, <3>4, <4>2, Zenon
        <4> QED
          BY <4>1, <4>2
      <3> DEFINE x == old[k]
                 y == mov[k]
      <3>7. x \in Int /\ y \in Int /\ new[k] = (D - c) * x + c * y
        BY <2>3
      <3>8. tOld[k] = k * x /\ tNew[k] = k * new[k]
        BY <2>11
      <3> HIDE DEF x, y
      <3>9. /\ k * y \in Int
            /\ k * ((D - c) * x + c * y) = (D - c) * (k * x) + c * (k * y)
        BY <2>7, <3>5, <3>7
      <3> QED
        BY <3>6, <3>7, <3>8, <3>9, Zenon DEF y
    <2>14. SumFunctionOnSet(next, N) = SumFunctionOnSet(tMov, N)
           /\ SumFunctionOnSet(tMov, N) \in Int
      <3> HIDE DEF next
      <3>1. /\ SumFunctionOnSet(next, 0..n)
                  = next[n] + SumFunctionOnSet(Moved(next, n), 0..n)
            /\ SumFunctionOnSet(Moved(next, n), 0..n) \in Int
        <4> HIDE DEF n
        <4> QED
          BY <1>1, <2>12, MovedSum
      <3> QED
        BY <2>12, <3>1
    <2> HIDE DEF tOld, tNew, next, tMov
    <2>15. SumFunctionOnSet(next, N)
             = 1 * SumFunctionOnSet(tOld, N) + 1 * SumFunctionOnSet(old, N)
      <3> DEFINE one == 1
      <3>1. one \in Int
        OBVIOUS
      <3>2. \A k \in N : /\ tOld[k] \in Int /\ old[k] \in Int
                         /\ next[k] = one * tOld[k] + one * old[k]
        BY <2>3, <2>11
      <3> HIDE DEF one, N
      <3>3. SumFunctionOnSet(next, N)
             = one * SumFunctionOnSet(tOld, N) + one * SumFunctionOnSet(old, N)
        BY <1>2, <3>1, <3>2, SumLinear
      <3> QED
        BY <3>3 DEF one
    <2>16. SumFunctionOnSet(tNew, N)
             = (D - c) * SumFunctionOnSet(tOld, N) + c * SumFunctionOnSet(tMov, N)
      <3>0. c \in Int
        BY <2>7
      <3> DEFINE b == D - c
      <3>1. b \in Int
        BY <2>7
      <3>2. \A k \in N : /\ tOld[k] \in Int /\ tMov[k] \in Int
                         /\ tNew[k] = b * tOld[k] + c * tMov[k]
        BY <2>11, <2>13
      <3> HIDE DEF b, N
      <3>3. SumFunctionOnSet(tNew, N)
             = b * SumFunctionOnSet(tOld, N) + c * SumFunctionOnSet(tMov, N)
        BY <1>2, <3>0, <3>1, <3>2, SumLinear, SMTT(60)
      <3> QED
        BY <3>3 DEF b
    <2>17. SumFunctionOnSet(tOld, N) \in Int
      <3>1. \A k \in N : tOld[k] \in Int
        BY <2>11
      <3> HIDE DEF N
      <3> QED
        BY <1>2, <3>1, SumIsInt
    <2>18. D * mean(m) = E(m) * Power(m)
      <3> DEFINE x == SumFunctionOnSet(tOld, N)
                 s == SumFunctionOnSet(old, N)
                 y == SumFunctionOnSet(tMov, N)
                 e == E(m - 1)
                 w == Power(m - 1)
                 z == mean(m)
      <3>1. s = w /\ D * x = e * w /\ e \in Int /\ s \in Int /\ x \in Int
        BY <2>2, <2>6, <2>8, <2>17 DEF old, tOld
      <3>2. z = (D - c) * x + c * y /\ y = 1 * x + 1 * s
        BY <2>14, <2>15, <2>16 DEF tNew, new
      <3>3. E(m) = c + e /\ Power(m) = w * D /\ w \in Int
        BY <2>5, <2>6
      <3> HIDE DEF x, s, y, e, w, z
      <3>4. y = x + s /\ y \in Int
        BY <3>1, <3>2
      <3>5. (D - c) * x + c * (x + s) = D * x + c * s /\ D * x \in Int /\ c * s \in Int
        BY <1>1, <2>7, <3>1
      <3>6. z = e * w + c * w
        BY <3>1, <3>2, <3>4, <3>5
      <3>7. D * (e * w + c * w) = (c + e) * (w * D)
        BY <1>1, <2>7, <3>1, <3>3
      <3>8. D * z = E(m) * Power(m)
        BY <3>3, <3>6, <3>7
      <3> QED
        BY <3>8 DEF z
    <2> HIDE DEF total, mean, E, n
    <2> QED
      BY <2>1, <2>10, <2>18
  <1> HIDE DEF G
  <1>6. \A m \in 0..n : m \in G
    <2> HIDE DEF n
    <2> QED
      BY <1>1, <1>4, <1>5, UpTo
  <1> QED
    BY <1>6 DEF G

-----------------------------------------------------------------------------
(* The ways the events may fall.                                            *)
\* How likely it is that of the first m events exactly those of S happen, and
\* in which ways k of them can.
Chances(ps, m, S) ==
    [i \in 1..m |-> IF i \in S THEN Cleaned(ps)[i] ELSE Negated(ps)[i]]
WaysOf(ps, m) == [S \in SUBSET (1..m) |-> Product(Chances(ps, m, S))]
Selections(m, k) == {S \in SUBSET (1..m) : Cardinality(S) = k}

(* There are finitely many ways to choose.                                  *)
LEMMA ChosenFinite ==
  ASSUME NEW m \in Nat, NEW k
  PROVE  /\ IsFiniteSet(Selections(m, k))
         /\ \A S \in SUBSET (1..m) : IsFiniteSet(S) /\ Cardinality(S) \in Nat
  <1>1. IsFiniteSet(1..m)
    <2>1. 1 \in Int /\ m \in Int
      OBVIOUS
    <2> QED
      BY <2>1, FS_Interval
  <1>2. IsFiniteSet(SUBSET (1..m))
    BY <1>1, FS_SUBSET
  <1>3. Selections(m, k) \in SUBSET (SUBSET (1..m))
    BY DEF Selections
  <1>4. \A S \in SUBSET (1..m) : IsFiniteSet(S) /\ Cardinality(S) \in Nat
    BY <1>1, FS_Subset, FS_CardinalityType
  <1>5. IsFiniteSet(Selections(m, k))
    BY <1>2, <1>3, FS_Subset
  <1> QED
    BY <1>4, <1>5

(* To choose k of m is to choose them of the others, or one less and m.     *)
LEMMA ChooseOneMore ==
  ASSUME NEW m \in Nat \ {0}, NEW k \in Nat
  PROVE  LET with == {S \cup {m} : S \in Selections(m - 1, k - 1)}
         IN  /\ Selections(m, k) = Selections(m - 1, k) \cup with
             /\ Selections(m - 1, k) \cap with = {}
             /\ k = 0 => with = {}
             /\ \A S \in SUBSET (1..(m - 1)) : m \notin S /\ S \in SUBSET (1..m)
                                               /\ S \cup {m} \in SUBSET (1..m)
  <1> DEFINE with == {S \cup {m} : S \in Selections(m - 1, k - 1)}
  <1>1. m - 1 \in Nat /\ m \in 1..m /\ m \notin 1..(m - 1)
        /\ 1..(m - 1) \subseteq 1..m /\ (1..m) \ {m} = 1..(m - 1)
    OBVIOUS
  <1>2. \A S \in SUBSET (1..(m - 1)) : m \notin S /\ S \in SUBSET (1..m)
                                       /\ S \cup {m} \in SUBSET (1..m)
    BY <1>1
  <1>3. \A S \in SUBSET (1..m) : IsFiniteSet(S) /\ Cardinality(S) \in Nat
    BY ChosenFinite
  <1>4. ASSUME NEW S \in SUBSET (1..(m - 1))
        PROVE  Cardinality(S \cup {m}) = Cardinality(S) + 1
    <2>1. IsFiniteSet(S) /\ m \notin S
      BY <1>2, <1>3
    <2> QED
      BY <2>1, FS_AddElement
  <1>5. ASSUME NEW S \in Selections(m, k), m \notin S PROVE S \in Selections(m - 1, k)
    <2>1. S \in SUBSET (1..m) /\ Cardinality(S) = k
      BY DEF Selections
    <2>2. S \in SUBSET (1..(m - 1))
      BY <1>1, <1>5, <2>1
    <2> QED
      BY <2>1, <2>2 DEF Selections
  <1>6. ASSUME NEW S \in Selections(m, k), m \in S PROVE S \in with
    <2> DEFINE R == S \ {m}
    <2>1. S \in SUBSET (1..m) /\ Cardinality(S) = k
      BY DEF Selections
    <2>2. R \in SUBSET (1..(m - 1)) /\ S = R \cup {m}
      BY <1>1, <1>6, <2>1
    <2> HIDE DEF R
    <2>3. Cardinality(S) = Cardinality(R) + 1 /\ Cardinality(R) \in Nat
      BY <1>2, <1>3, <1>4, <2>2
    <2>4. R \in Selections(m - 1, k - 1)
      BY <2>1, <2>2, <2>3 DEF Selections
    <2> QED
      BY <2>2, <2>4
  <1>7. ASSUME NEW S \in Selections(m - 1, k) PROVE S \in Selections(m, k) /\ m \notin S
    BY <1>2 DEF Selections
  <1>8. ASSUME NEW S \in Selections(m - 1, k - 1)
        PROVE  S \cup {m} \in Selections(m, k) /\ Cardinality(S) = k - 1
               /\ Cardinality(S) \in Nat
    <2>1. S \in SUBSET (1..(m - 1)) /\ Cardinality(S) = k - 1
      BY DEF Selections
    <2>2. S \cup {m} \in SUBSET (1..m) /\ Cardinality(S \cup {m}) = k
          /\ Cardinality(S) \in Nat
      BY <1>2, <1>3, <1>4, <2>1
    <2> QED
      BY <2>1, <2>2 DEF Selections
  <1>9. Selections(m, k) = Selections(m - 1, k) \cup with
    BY <1>5, <1>6, <1>7, <1>8
  <1>10. Selections(m - 1, k) \cap with = {}
    BY <1>7
  <1>11. k = 0 => with = {}
    <2> SUFFICES ASSUME k = 0, NEW S \in Selections(m - 1, k - 1) PROVE FALSE
      OBVIOUS
    <2>1. Cardinality(S) = k - 1 /\ Cardinality(S) \in Nat
      BY <1>8
    <2> QED
      BY <2>1
  <1> HIDE DEF with
  <1> QED
    BY <1>2, <1>9, <1>10, <1>11, Zenon DEF with

(* What the last event adds to a way.                                       *)
LEMMA WayStep ==
  ASSUME NEW ps \in Seq(Int), NEW m \in 1..Len(ps), NEW S \in SUBSET (1..(m - 1))
  PROVE  /\ WaysOf(ps, m - 1)[S] \in Int
         /\ WaysOf(ps, m)[S] = Negated(ps)[m] * WaysOf(ps, m - 1)[S]
         /\ WaysOf(ps, m)[S \cup {m}] = Cleaned(ps)[m] * WaysOf(ps, m - 1)[S]
  <1> DEFINE n == Len(ps)
             c == Cleaned(ps)
             d == Negated(ps)
             f(l, R) == Chances(ps, l, R)
  <1>1. n \in Nat /\ c \in [1..n -> Int] /\ d \in [1..n -> Int]
    <2>1. n \in Nat /\ c \in [1..n -> 0..D] /\ d \in [1..n -> 0..D] /\ D \in Nat
      BY ChancesType, ProbabilityAssumption
    <2> HIDE DEF c, d, n
    <2> QED
      BY <2>1
  <1>2. m \in Nat /\ m > 0 /\ m - 1 \in Nat /\ m \in 1..m /\ m \notin 1..(m - 1)
        /\ \A i \in 1..m : i \in 1..n
    BY <1>1
  <1> HIDE DEF c, d, n
  <1>3. \A l \in 0..m : \A R : /\ f(l, R) \in [1..l -> Int]
                               /\ f(l, R) = [i \in 1..l |-> IF i \in R THEN c[i] ELSE d[i]]
    <2> TAKE l \in 0..m
    <2> TAKE R
    <2>1. \A i \in 1..l : i \in 1..n
      BY <1>2
    <2>2. \A i \in 1..l : (IF i \in R THEN c[i] ELSE d[i]) \in Int
      BY <1>1, <2>1
    <2> QED
      BY <2>2 DEF Chances, c, d
  <1>4. m \in 0..m /\ m - 1 \in 0..m
    BY <1>2
  <1>5. Product(f(m - 1, S)) \in Int
    <2> DEFINE g == f(m - 1, S)
               l == m - 1
    <2>1. l \in Nat /\ g \in [1..l -> Int]
      BY <1>2, <1>3, <1>4
    <2> HIDE DEF g, l
    <2>2. Product(g) \in Int
      BY <2>1, ProductRec
    <2> QED
      BY <2>2 DEF g
  <1>6. ASSUME NEW R, \A i \in 1..(m - 1) : i \in R <=> i \in S
        PROVE  Product(f(m, R)) = Product(f(m - 1, S)) * IF m \in R THEN c[m] ELSE d[m]
    <2> DEFINE g == f(m, R)
    <2>1. g \in [1..m -> Int] /\ g[m] = IF m \in R THEN c[m] ELSE d[m]
      BY <1>2, <1>3, <1>4
    <2>2. AllButLast(g, m) = f(m - 1, S)
      <3>1. \A i \in 1..(m - 1) : i \in 1..m
        BY <1>2
      <3>2. \A i \in 1..(m - 1) : g[i] = IF i \in S THEN c[i] ELSE d[i]
        BY <1>3, <1>4, <1>6, <3>1
      <3>3. f(m - 1, S) = [i \in 1..(m - 1) |-> IF i \in S THEN c[i] ELSE d[i]]
        BY <1>3, <1>4
      <3> HIDE DEF f
      <3> QED
        BY <3>2, <3>3 DEF AllButLast
    <2> HIDE DEF g
    <2>3. Product(g) = Product(AllButLast(g, m)) * g[m]
      BY <1>2, <2>1, ProductRec
    <2> QED
      BY <2>1, <2>2, <2>3, Zenon DEF g
  <1>7. m \notin S /\ S \in SUBSET (1..m) /\ S \cup {m} \in SUBSET (1..m)
    <2>1. \A i \in 1..(m - 1) : i \in 1..m
      BY <1>2
    <2> QED
      BY <1>2, <2>1
  <1>8. /\ WaysOf(ps, m)[S] = Product(f(m, S))
        /\ WaysOf(ps, m)[S \cup {m}] = Product(f(m, S \cup {m}))
        /\ WaysOf(ps, m - 1)[S] = Product(f(m - 1, S))
    BY <1>7 DEF WaysOf
  <1>9. Product(f(m, S)) = Product(f(m - 1, S)) * d[m]
    BY <1>6, <1>7, Zenon
  <1>10. Product(f(m, S \cup {m})) = Product(f(m - 1, S)) * c[m]
    <2>1. \A i \in 1..(m - 1) : i \in S \cup {m} <=> i \in S
      BY <1>2
    <2>2. m \in S \cup {m}
      OBVIOUS
    <2> QED
      BY <1>6, <2>1, <2>2, Zenon
  <1>11. c[m] \in Int /\ d[m] \in Int
    BY <1>1, <1>2
  <1> DEFINE w == Product(f(m - 1, S))
             x == c[m]
             y == d[m]
  <1>12. w \in Int /\ x \in Int /\ y \in Int
    BY <1>5, <1>11
  <1> HIDE DEF f, w, x, y
  <1>13. w * x = x * w /\ w * y = y * w
    BY <1>12
  <1> QED
    BY <1>5, <1>8, <1>9, <1>10, <1>13, Zenon DEF w, x, y, c, d

(* The entry for k is the sum over the ways to choose k.                    *)
LEMMA RowIsWays ==
  ASSUME NEW ps \in Seq(Int), NEW rows, Tabulates(rows, ps)
  PROVE  \A m \in 0..Len(ps) : \A k \in 0..Len(ps) :
            rows[m][k] = SumFunctionOnSet(WaysOf(ps, m), Selections(m, k))
  <1> DEFINE n == Len(ps)
             Sum(m, k) == SumFunctionOnSet(WaysOf(ps, m), Selections(m, k))
             G == {m \in 0..n : \A k \in 0..n : rows[m][k] = Sum(m, k)}
  <1>1. n \in Nat /\ D \in Nat
    BY ChancesType, ProbabilityAssumption
  <1>2. 0 \in G
    <2>1. 0 \in 0..n
      BY <1>1
    <2>2. \A k \in 0..n : rows[0][k] = IF k = 0 THEN 1 ELSE 0
      BY DEF Tabulates, FirstRow
    <2>3. 1..0 = {} /\ Cardinality({}) = 0 /\ IsFiniteSet({})
      BY FS_EmptySet
    <2>4. Selections(0, 0) = {{}} /\ \A k \in 0..n : k # 0 => Selections(0, k) = {}
      BY <2>3 DEF Selections
    <2>5. WaysOf(ps, 0)[{}] = 1
      <3> DEFINE g == Chances(ps, 0, {})
                 z == 0
      <3>1. z \in Nat /\ z = 0 /\ g \in [1..z -> Int]
        BY DEF Chances
      <3> HIDE DEF g, z
      <3>2. Product(g) = 1
        BY <3>1, ProductRec
      <3>3. WaysOf(ps, 0)[{}] = Product(g)
        BY <2>3 DEF WaysOf, g
      <3> QED
        BY <3>2, <3>3
    <2>6. Sum(0, 0) = 1
      <3> DEFINE f == WaysOf(ps, 0)
                 S == {}
                 e == {}
      <3>1. IsFiniteSet(S) /\ e \notin S /\ \A x \in S \cup {e} : f[x] \in Int
        BY <2>3, <2>5
      <3>2. f[e] = 1 /\ S \cup {e} = Selections(0, 0) /\ S = {}
        BY <2>4, <2>5
      <3> HIDE DEF f, e, S
      <3>3. /\ SumFunctionOnSet(f, {}) = 0
            /\ SumFunctionOnSet(f, S \cup {e}) = f[e] + SumFunctionOnSet(f, S)
        BY <3>1, SumMore
      <3>4. SumFunctionOnSet(f, S) = 0 /\ SumFunctionOnSet(f, Selections(0, 0)) = 1 + 0
        BY <3>2, <3>3, Zenon
      <3> QED
        BY <3>4 DEF f
    <2>7. \A k \in 0..n : k # 0 => Sum(0, k) = 0
      <3>1. \A f : SumFunctionOnSet(f, {}) = 0
        BY <2>3, SumRec
      <3> QED
        BY <2>4, <3>1
    <2> HIDE DEF Sum, n
    <2> QED
      BY <2>1, <2>2, <2>6, <2>7
  <1>3. ASSUME NEW m \in 1..n, m - 1 \in G PROVE m \in G
    <2> DEFINE c == Cleaned(ps)[m]
               d == Negated(ps)[m]
               old == rows[m - 1]
               new == rows[m]
               was == WaysOf(ps, m - 1)
               now == WaysOf(ps, m)
    <2>1. /\ c \in 0..D /\ m \in 0..n /\ m \in Nat \ {0} /\ m - 1 \in Nat
          /\ old \in [0..n -> Int]
          /\ \A k \in 0..n : new[k] = old[k] * (D - c)
                                      + IF k = 0 THEN 0 ELSE old[k - 1] * c
      BY <1>1, RowStep
    <2>2. \A k \in 0..n : old[k] = SumFunctionOnSet(was, Selections(m - 1, k))
      BY <1>3
    <2>3. d = D - c
      BY ChancesType
    <2>4. \A S \in SUBSET (1..(m - 1)) : /\ was[S] \in Int
                                         /\ now[S] = d * was[S]
                                         /\ now[S \cup {m}] = c * was[S]
      BY WayStep
    <2> HIDE DEF c, d, old, new, was, now
    <2>5. c \in Int /\ d \in Int
      BY <1>1, <2>1, <2>3
    <2>6. \A k : \A S \in Selections(m - 1, k) : S \in SUBSET (1..(m - 1))
      BY DEF Selections
    <2>7. \A k : IsFiniteSet(Selections(m - 1, k))
      BY <2>1, ChosenFinite
    <2>8. ASSUME NEW k \in 0..n PROVE new[k] = Sum(m, k)
      <3> DEFINE A == Selections(m - 1, k)
                 F == Selections(m - 1, k - 1)
                 with == {S \cup {m} : S \in F}
                 phi == [S \in F |-> S \cup {m}]
                 cw == [S \in F |-> c * was[S]]
      <3>1. /\ Selections(m, k) = A \cup with /\ A \cap with = {}
            /\ k = 0 => with = {}
        <4>1. k \in Nat
          BY <1>1
        <4> QED
          BY <2>1, <4>1, ChooseOneMore, Zenon
      <3>2. \A S \in A \cup F : S \in SUBSET (1..(m - 1)) /\ m \notin S
        <4>1. m \notin 1..(m - 1)
          BY <2>1
        <4> QED
          BY <2>6, <4>1
      <3>3. IsFiniteSet(A) /\ IsFiniteSet(F)
        BY <2>7
      <3>4. SumFunctionOnSet(now, A) = d * SumFunctionOnSet(was, A)
            /\ SumFunctionOnSet(was, A) \in Int
        <4>1. \A S \in A : was[S] \in Int /\ now[S] = d * was[S]
          BY <2>4, <3>2
        <4> HIDE DEF A
        <4> QED
          BY <2>5, <3>3, <4>1, SumScaled, SumIsInt
      <3>5. SumFunctionOnSet(cw, F) = c * SumFunctionOnSet(was, F)
            /\ SumFunctionOnSet(was, F) \in Int
        <4>1. \A S \in F : was[S] \in Int /\ cw[S] = c * was[S]
          BY <2>4, <3>2
        <4> HIDE DEF F, cw
        <4> QED
          BY <2>5, <3>3, <4>1, SumScaled, SumIsInt
      <3>6. /\ IsFiniteSet(with)
            /\ SumFunctionOnSet(now, with) = SumFunctionOnSet(cw, F)
        <4>1. \A S, R \in F : phi[S] = phi[R] => S = R
          <5> SUFFICES ASSUME NEW S \in F, NEW R \in F, phi[S] = phi[R] PROVE S = R
            OBVIOUS
          <5>1. S \cup {m} = R \cup {m}
            BY DEF F
          <5>2. m \notin S /\ m \notin R
            BY <3>2
          <5>3. S = (S \cup {m}) \ {m} /\ R = (R \cup {m}) \ {m}
            BY <5>2
          <5> QED
            BY <5>1, <5>3, Zenon
        <4>2. \A S \in F : cw[S] \in Int /\ now[phi[S]] = cw[S]
          <5> TAKE S \in F
          <5>1. was[S] \in Int /\ now[S \cup {m}] = c * was[S]
            BY <2>4, <3>2
          <5>2. phi[S] = S \cup {m} /\ cw[S] = c * was[S]
            OBVIOUS
          <5>3. c * was[S] \in Int
            <6> DEFINE x == was[S]
            <6>1. x \in Int
              BY <5>1
            <6> HIDE DEF x
            <6>2. c * x \in Int
              BY <2>5, <6>1
            <6> QED
              BY <6>2 DEF x
          <5> HIDE DEF phi, cw, F
          <5> QED
            BY <5>1, <5>2, <5>3, Zenon
        <4>3. with = {phi[S] : S \in F}
          OBVIOUS
        <4> HIDE DEF F, phi, cw, with
        <4>4. IsFiniteSet(F)
          BY <3>3
        <4>5. \A S \in F : \A R \in F : phi[S] = phi[R] => S = R
          BY <4>1, Zenon
        <4> QED
          BY <4>2, <4>3, <4>4, <4>5, SumImage
      <3>7. \A S \in A \cup with : now[S] \in Int
        <4>1. \A S \in A : now[S] \in Int
          <5> TAKE S \in A
          <5>1. was[S] \in Int /\ now[S] = d * was[S]
            BY <2>4, <3>2
          <5> QED
            BY <2>5, <5>1
        <4>2. \A S \in F : now[S \cup {m}] \in Int
          <5> TAKE S \in F
          <5>1. was[S] \in Int /\ now[S \cup {m}] = c * was[S]
            BY <2>4, <3>2
          <5> QED
            BY <2>5, <5>1
        <4> HIDE DEF A, F
        <4> QED
          BY <4>1, <4>2
      <3>8. Sum(m, k) = SumFunctionOnSet(now, A) + SumFunctionOnSet(now, with)
        <4>1. Sum(m, k) = SumFunctionOnSet(now, A \cup with)
          BY <3>1 DEF now
        <4> HIDE DEF A, with
        <4>2. SumFunctionOnSet(now, A \cup with)
                 = SumFunctionOnSet(now, A) + SumFunctionOnSet(now, with)
          BY <3>1, <3>3, <3>6, <3>7, SumDisjoint
        <4> QED
          BY <4>1, <4>2
      <3>9. old[k] = SumFunctionOnSet(was, A)
        BY <2>2
      <3> DEFINE x == SumFunctionOnSet(was, A)
                 y == SumFunctionOnSet(was, F)
                 z == SumFunctionOnSet(now, with)
      <3>10. x \in Int /\ y \in Int /\ Sum(m, k) = d * x + z /\ z = c * y /\ old[k] = x
        BY <3>4, <3>5, <3>6, <3>8, <3>9
      <3>11. k = 0 => z = 0
        <4>1. \A f : SumFunctionOnSet(f, {}) = 0
          BY FS_EmptySet, SumRec
        <4> QED
          BY <3>1, <4>1
      <3>12. k # 0 => old[k - 1] = y
        <4>1. k # 0 => k - 1 \in 0..n
          BY <1>1
        <4> QED
          BY <2>2, <4>1
      <3> HIDE DEF x, y, z, Sum
      <3>13. CASE k = 0
        <4>1. new[k] = x * (D - c) + 0
          BY <2>1, <3>10, <3>13
        <4>2. x * (D - c) + 0 = (D - c) * x + 0
          BY <1>1, <2>5, <3>10
        <4> QED
          BY <2>3, <3>10, <3>11, <3>13, <4>1, <4>2
      <3>14. CASE k # 0
        <4>1. new[k] = x * (D - c) + y * c
          BY <2>1, <3>10, <3>12, <3>14
        <4>2. x * (D - c) + y * c = (D - c) * x + c * y
          BY <1>1, <2>5, <3>10
        <4> QED
          BY <2>3, <3>10, <4>1, <4>2, Zenon
      <3> QED
        BY <3>13, <3>14
    <2> HIDE DEF n, Sum
    <2> QED
      BY <2>1, <2>8 DEF new
  <1> HIDE DEF G
  <1>4. \A m \in 0..n : m \in G
    <2> HIDE DEF n
    <2> QED
      BY <1>1, <1>2, <1>3, UpTo
  <1> QED
    BY <1>4 DEF G

-----------------------------------------------------------------------------
(* Tails.                                                                   *)
\* Each entry as often as its place says, but at most j times.
Capped(row, n, j) == [k \in 0..n |-> (IF k < j THEN k ELSE j) * row[k]]
UpperPart(row, n, j) == [k \in 0..n |-> IF k >= j THEN row[k] ELSE 0]

(* Its sum is that of the entries from j on.                                *)
LEMMA TailOfRow ==
  ASSUME NEW n \in Nat, NEW row \in [0..n -> Int], NEW j \in 1..n
  PROVE  /\ SumFunctionOnSet(UpperPart(row, n, j), 0..n) = SumFunctionOnSet(row, j..n)
         /\ SumFunctionOnSet(row, j..n) \in Int
  <1> DEFINE T == UpperPart(row, n, j)
             L == 0..(j - 1)
             H == j..n
  <1>1. IsFiniteSet(L) /\ IsFiniteSet(H)
    <2>1. 0 \in Int /\ j - 1 \in Int /\ j \in Int /\ n \in Int
      OBVIOUS
    <2> QED
      BY <2>1, FS_Interval
  <1>2. L \cap H = {} /\ L \cup H = 0..n
    OBVIOUS
  <1>3. \A k \in H : T[k] = row[k] /\ row[k] \in Int
    BY DEF UpperPart
  <1>4. \A k \in L : T[k] = 0
    <2> TAKE k \in L
    <2>1. k \in 0..n /\ ~(k >= j)
      OBVIOUS
    <2> QED
      BY <2>1 DEF UpperPart
  <1> HIDE DEF T, L, H
  <1>5. \A k \in L \cup H : T[k] \in Int
    BY <1>3, <1>4
  <1>6. SumFunctionOnSet(T, L \cup H) = SumFunctionOnSet(T, L) + SumFunctionOnSet(T, H)
    BY <1>1, <1>2, <1>5, SumDisjoint
  <1>7. SumFunctionOnSet(T, L) = 0
    BY <1>1, <1>4, SumZero
  <1>8. SumFunctionOnSet(T, H) = SumFunctionOnSet(row, H)
    BY <1>1, <1>3, SumSame
  <1>9. SumFunctionOnSet(row, H) \in Int
    BY <1>1, <1>3, SumIsInt
  <1>10. SumFunctionOnSet(T, 0..n) = 0 + SumFunctionOnSet(row, H)
    BY <1>2, <1>6, <1>7, <1>8, Zenon
  <1>11. SumFunctionOnSet(T, 0..n) = SumFunctionOnSet(row, H)
    BY <1>9, <1>10
  <1> QED
    BY <1>9, <1>11, Zenon DEF T, H

(* The sum of all tails takes each entry as often as its place says.        *)
LEMMA TailsSum ==
  ASSUME NEW n \in Nat, NEW row \in [0..n -> Int], NEW tails,
         \A j \in 1..n : tails[j] = SumFunctionOnSet(row, j..n)
  PROVE  SumFunctionOnSet(tails, 1..n) = SumFunctionOnSet(Times(row, n), 0..n)
  <1> DEFINE Low(j) == SumFunctionOnSet(Capped(row, n, j), 0..n)
             G == {j \in 0..n : SumFunctionOnSet(tails, 1..j) = Low(j)}
  <1>1. IsFiniteSet(0..n)
    <2>1. 0 \in Int /\ n \in Int
      OBVIOUS
    <2> QED
      BY <2>1, FS_Interval
  <1>2. \A j \in 0..n : \A k \in 0..n :
           /\ row[k] \in Int
           /\ Capped(row, n, j)[k] = (IF k < j THEN k ELSE j) * row[k]
    BY DEF Capped
  <1>3. 0 \in G
    <2>1. \A k \in 0..n : Capped(row, n, 0)[k] = 0
      <3> TAKE k \in 0..n
      <3>1. ~(k < 0) /\ row[k] \in Int /\ 0 \in 0..n
        OBVIOUS
      <3>2. Capped(row, n, 0)[k] = 0 * row[k]
        BY <1>2, <3>1
      <3> QED
        BY <3>1, <3>2
    <2>2. Low(0) = 0
      BY <1>1, <2>1, SumZero
    <2>3. 1..0 = {} /\ 0 \in 0..n
      OBVIOUS
    <2>4. SumFunctionOnSet(tails, {}) = 0
      BY FS_EmptySet, SumRec
    <2> HIDE DEF Low
    <2> QED
      BY <2>2, <2>3, <2>4
  <1>4. ASSUME NEW j \in 1..n, j - 1 \in G PROVE j \in G
    <2> DEFINE old == Capped(row, n, j - 1)
               new == Capped(row, n, j)
               t == UpperPart(row, n, j)
               S == 1..(j - 1)
    <2>1. \A k \in 0..n : old[k] \in Int /\ t[k] \in Int /\ new[k] = 1 * old[k] + 1 * t[k]
      <3> TAKE k \in 0..n
      <3> DEFINE r == row[k]
      <3>1. r \in Int /\ k \in Nat /\ j \in Nat /\ j - 1 \in Nat /\ j - 1 \in 0..n /\ j \in 0..n
        OBVIOUS
      <3>2. /\ old[k] = (IF k < j - 1 THEN k ELSE j - 1) * r
            /\ new[k] = (IF k < j THEN k ELSE j) * r
        BY <1>2, <3>1
      <3>3. t[k] = IF k >= j THEN r ELSE 0
        BY DEF UpperPart
      <3> HIDE DEF r, old, new, t
      <3>4. CASE k < j
        <4>1. (IF k < j - 1 THEN k ELSE j - 1) = k
          BY <3>1, <3>4
        <4>2. old[k] = k * r /\ new[k] = k * r /\ t[k] = 0
          BY <3>1, <3>2, <3>3, <3>4, <4>1
        <4>3. k * r \in Int
          BY <3>1
        <4> QED
          BY <4>2, <4>3
      <3>5. CASE k >= j
        <4>1. ~(k < j - 1) /\ ~(k < j)
          BY <3>1, <3>5
        <4>2. old[k] = (j - 1) * r /\ new[k] = j * r /\ t[k] = r
          BY <3>2, <3>3, <3>5, <4>1
        <4>3. (j - 1) * r \in Int /\ j * r = 1 * ((j - 1) * r) + 1 * r
          BY <3>1
        <4> QED
          BY <3>1, <4>2, <4>3
      <3> QED
        BY <3>1, <3>4, <3>5
    <2>2. SumFunctionOnSet(t, 0..n) = tails[j] /\ tails[j] \in Int
      BY TailOfRow
    <2> HIDE DEF old, new, t
    <2>3. SumFunctionOnSet(new, 0..n)
             = 1 * SumFunctionOnSet(old, 0..n) + 1 * SumFunctionOnSet(t, 0..n)
      <3>1. 1 \in Int
        OBVIOUS
      <3> QED
        BY <1>1, <2>1, <3>1, SumLinear, SMTT(60)
    <2>4. SumFunctionOnSet(old, 0..n) \in Int
      BY <1>1, <2>1, SumIsInt
    <2>5. SumFunctionOnSet(tails, S \cup {j}) = tails[j] + SumFunctionOnSet(tails, S)
      <3>1. IsFiniteSet(S) /\ j \notin S
        <4>1. 1 \in Int /\ j - 1 \in Int
          OBVIOUS
        <4> QED
          BY <4>1, FS_Interval
      <3>2. \A l \in S \cup {j} : tails[l] \in Int
        <4>1. \A l \in S \cup {j} : l \in 1..n
          OBVIOUS
        <4> QED
          BY <4>1, TailOfRow
      <3> HIDE DEF S
      <3> QED
        BY <3>1, <3>2, SumMore
    <2>6. S \cup {j} = 1..j /\ j \in 0..n
      OBVIOUS
    <2>7. SumFunctionOnSet(tails, S) = SumFunctionOnSet(old, 0..n)
      BY <1>4 DEF old
    <2>8. SumFunctionOnSet(tails, 1..j) = SumFunctionOnSet(new, 0..n)
      <3> DEFINE x == tails[j]
                 y == SumFunctionOnSet(old, 0..n)
      <3>1. SumFunctionOnSet(tails, 1..j) = x + y
        BY <2>5, <2>6, <2>7, Zenon
      <3>2. SumFunctionOnSet(new, 0..n) = 1 * y + 1 * x
        BY <2>2, <2>3, Zenon
      <3>3. x \in Int /\ y \in Int
        BY <2>2, <2>4
      <3> HIDE DEF x, y, S
      <3> QED
        BY <3>1, <3>2, <3>3
    <2> QED
      BY <2>6, <2>8 DEF new
  <1> HIDE DEF G
  <1>5. \A j \in 0..n : j \in G
    BY <1>3, <1>4, UpTo
  <1>6. SumFunctionOnSet(tails, 1..n) = Low(n)
    BY <1>5 DEF G
  <1>7. \A k \in 0..n : Capped(row, n, n)[k] = Times(row, n)[k]
    <2> TAKE k \in 0..n
    <2>1. n \in 0..n /\ (IF k < n THEN k ELSE n) = k
      OBVIOUS
    <2>2. Capped(row, n, n)[k] = k * row[k]
      BY <1>2, <2>1
    <2> QED
      BY <2>2 DEF Times
  <1>8. Low(n) = SumFunctionOnSet(Times(row, n), 0..n)
    BY <1>1, <1>7, SumSame
  <1> QED
    BY <1>6, <1>8

-----------------------------------------------------------------------------
(* What the operators of algebra.go say of the table.                       *)
\* The sum, over the ways to choose k of the events, of how likely they are.
Combined(ps, S) ==
    Product([i \in DOMAIN ps |-> IF i \in S THEN Clamp(ps[i]) ELSE Not(ps[i])])
Combinations(ps, k) ==
    SumFunction([S \in {T \in SUBSET DOMAIN ps : Cardinality(T) = k} |->
                    Combined(ps, S)])

(* That sum is the entry of the table.                                      *)
LEMMA CombinationsAre ==
  ASSUME NEW ps \in Seq(Int), NEW rows, Tabulates(rows, ps)
  PROVE  \A k \in 0..Len(ps) : Combinations(ps, k) = rows[Len(ps)][k]
  <1> DEFINE n == Len(ps)
             w == WaysOf(ps, n)
  <1>1. n \in Nat /\ DOMAIN ps = 1..n
    BY ChancesType
  <1>2. \A S \in SUBSET (1..n) : w[S] = Combined(ps, S)
    <2> TAKE S \in SUBSET (1..n)
    <2>1. w[S] = Product(Chances(ps, n, S))
      BY DEF WaysOf
    <2>2. Chances(ps, n, S) =
             [i \in DOMAIN ps |-> IF i \in S THEN Clamp(ps[i]) ELSE Not(ps[i])]
      BY <1>1 DEF Chances, Cleaned, Negated
    <2> HIDE DEF n, w
    <2> QED
      BY <2>1, <2>2 DEF Combined
  <1>3. ASSUME NEW k \in 0..n PROVE Combinations(ps, k) = rows[n][k]
    <2> DEFINE C == Selections(n, k)
               f == [S \in C |-> Combined(ps, S)]
    <2>1. Combinations(ps, k) = SumFunctionOnSet(f, C)
      BY <1>1 DEF Combinations, SumFunction, Selections
    <2>2. \A S \in C : f[S] = w[S]
      BY <1>2 DEF Selections
    <2>3. IsFiniteSet(C)
      BY <1>1, ChosenFinite
    <2>4. n \in 0..n
      BY <1>1
    <2>5. rows[n][k] = SumFunctionOnSet(w, C)
      BY <2>4, RowIsWays
    <2> HIDE DEF f, w, C, n
    <2>6. SumFunctionOnSet(f, C) = SumFunctionOnSet(w, C)
      BY <2>2, <2>3, SumSame
    <2> QED
      BY <2>1, <2>5, <2>6
  <1> QED
    BY <1>3

(* AtLeast is the sum of the entries that are no less.                      *)
LEMMA AtLeastIs ==
  ASSUME NEW ps \in Seq(Int), NEW rows, Tabulates(rows, ps),
         Table(ps) = rows[Len(ps)], NEW k \in -1..(Len(ps) + 1)
  PROVE  AtLeast(k, ps)
            = SumFunctionOnSet(rows[Len(ps)], {j \in 0..Len(ps) : j >= k})
  <1> DEFINE n == Len(ps)
             row == rows[n]
  <1>1. n \in Nat /\ n \in 0..n
    BY ChancesType
  <1>2. CASE k <= 0
    <2>1. {j \in 0..n : j >= k} = 0..n
      BY <1>1, <1>2
    <2>2. AtLeast(k, ps) = Power(n)
      BY <1>2 DEF AtLeast
    <2>3. SumFunctionOnSet(row, 0..n) = Power(n)
      BY <1>1, RowSums
    <2> QED
      BY <2>1, <2>2, <2>3
  <1>3. CASE ~(k <= 0)
    <2>1. {j \in 0..n : j >= k} = k..n
      BY <1>1, <1>3
    <2>2. AtLeast(k, ps) = SumFunctionOnSet(row, k..n)
      BY <1>3 DEF AtLeast
    <2> QED
      BY <2>1, <2>2
  <1> QED
    BY <1>2, <1>3
(* algebra.go: AtLeast and Exactly are the tail and the terms of the sum over
   all the ways the events may fall, and agree with AllOf, AnyOf and Expected. *)
THEOREM TailsAreExact ==
  ASSUME NEW ps \in Seq(Int)
  PROVE  TailsExactFor(ps)
  <1> DEFINE n == Len(ps)
  <1>1. PICK rows : Tabulates(rows, ps) /\ Table(ps) = rows[Len(ps)]
    BY TableExists
  <1> DEFINE row == rows[n]
             NoLess(k) == {j \in 0..n : j >= k}
             tail == [k \in 1..n |-> AtLeast(k, ps)]
  <1>2. n \in Nat /\ n \in 0..n /\ DOMAIN ps = 1..n
    BY ChancesType
  <1>3. row \in [0..n -> Int]
    BY <1>1, <1>2 DEF Tabulates
  <1>4. \A k \in 0..n : Combinations(ps, k) = row[k]
    BY <1>1, CombinationsAre
  <1>5. \A k \in -1..(n + 1) : AtLeast(k, ps) = SumFunctionOnSet(row, NoLess(k))
    BY <1>1, AtLeastIs
  <1>6. \A k : NoLess(k) \in SUBSET (0..n) /\ IsFiniteSet(NoLess(k))
    <2>1. IsFiniteSet(0..n)
      <3>1. 0 \in Int /\ n \in Int
        BY <1>2
      <3> QED
        BY <3>1, FS_Interval
    <2> QED
      BY <2>1, FS_Subset
  <1>7. \A k \in -1..(n + 1) :
           /\ Exactly(k, ps) = IF k \in 0..n THEN Combinations(ps, k) ELSE 0
           /\ AtLeast(k, ps)
                 = SumFunction([j \in {i \in 0..n : i >= k} |-> Combinations(ps, j)])
    <2> TAKE k \in -1..(n + 1)
    <2>1. Exactly(k, ps) = IF k \in 0..n THEN row[k] ELSE 0
      BY <1>1, <1>2 DEF Exactly
    <2>2. Exactly(k, ps) = IF k \in 0..n THEN Combinations(ps, k) ELSE 0
      BY <1>4, <2>1
    <2> DEFINE f == [j \in NoLess(k) |-> Combinations(ps, j)]
               A == NoLess(k)
    <2>3. SumFunction(f) = SumFunctionOnSet(f, A)
      BY DEF SumFunction
    <2>4. \A j \in A : f[j] = row[j]
      BY <1>4
    <2>5. IsFiniteSet(A) /\ AtLeast(k, ps) = SumFunctionOnSet(row, A)
      BY <1>5, <1>6
    <2>6. AtLeast(k, ps) = SumFunction(f)
      <3> HIDE DEF f, A, row
      <3> QED
        BY <2>3, <2>4, <2>5, SumSame
    <2> QED
      BY <2>2, <2>6, Zenon
  <1>8. ASSUME n > 0 PROVE AtLeast(1, ps) = AnyOf(ps)
    <2> DEFINE A == NoLess(1)
               B == 0..n
    <2>1. A = B \ {0} /\ 0 \in B /\ 1 \in -1..(n + 1)
      BY <1>2
    <2>2. IsFiniteSet(A) /\ IsFiniteSet(B) /\ \A k \in B : row[k] \in Int
      <3>1. B = NoLess(0)
        OBVIOUS
      <3> QED
        BY <1>3, <1>6, <3>1
    <2>3. SumFunctionOnSet(row, B) = Power(n)
      BY <1>1, <1>2, RowSums
    <2>4. row[0] = Product(Negated(ps))
      <3>1. row[0] = Product(Pre(Negated(ps), n))
        BY <1>1, <1>2, RowCorners
      <3>2. Pre(Negated(ps), n) = Negated(ps)
        BY <1>2 DEF Pre, Negated
      <3> QED
        BY <3>1, <3>2
    <2>5. AnyOf(ps) = Power(n) - row[0]
      BY <2>4 DEF AnyOf, Negated
    <2>6. AtLeast(1, ps) = SumFunctionOnSet(row, A)
      BY <1>5, <2>1
    <2> HIDE DEF A, B, row, n
    <2>7. SumFunctionOnSet(row, B) = row[0] + SumFunctionOnSet(row, B \ {0})
      BY <2>1, <2>2, SumLess
    <2>8. SumFunctionOnSet(row, A) \in Int
      <3>1. \A k \in A : row[k] \in Int
        BY <2>1, <2>2
      <3> QED
        BY <2>2, <3>1, SumIsInt
    <2>9. row[0] \in Int
      BY <2>1, <2>2
    <2> DEFINE x == SumFunctionOnSet(row, A)
               y == row[0]
    <2>10. x \in Int /\ y \in Int /\ Power(n) = y + x
      BY <2>1, <2>3, <2>7, <2>8, <2>9, Zenon
    <2>11. AnyOf(ps) = Power(n) - y /\ AtLeast(1, ps) = x
      BY <2>5, <2>6
    <2> HIDE DEF x, y
    <2> QED
      BY <2>10, <2>11
  <1>9. ASSUME n > 0 PROVE AtLeast(n, ps) = AllOf(ps)
    <2>1. NoLess(n) = {} \cup {n} /\ n \notin {} /\ n \in -1..(n + 1)
      BY <1>2
    <2>2. row[n] = Product(Cleaned(ps))
      <3>1. row[n] = Product(Pre(Cleaned(ps), n))
        BY <1>1, <1>2, RowCorners
      <3>2. Pre(Cleaned(ps), n) = Cleaned(ps)
        BY <1>2 DEF Pre, Cleaned
      <3> QED
        BY <3>1, <3>2
    <2>3. AllOf(ps) = row[n]
      BY <2>2 DEF AllOf, Cleaned
    <2>4. AtLeast(n, ps) = SumFunctionOnSet(row, {} \cup {n})
      BY <1>5, <2>1
    <2>5. row[n] \in Int
      BY <1>2, <1>3
    <2>6. \A x \in {} \cup {n} : row[x] \in Int
      BY <2>5
    <2> HIDE DEF row, n
    <2>7. SumFunctionOnSet(row, {}) = 0
          /\ SumFunctionOnSet(row, {} \cup {n}) = row[n] + SumFunctionOnSet(row, {})
      BY <2>1, <2>6, FS_EmptySet, SumMore
    <2>8. AtLeast(n, ps) = row[n] + 0
      BY <2>4, <2>7, Zenon
    <2> QED
      BY <2>3, <2>5, <2>8
  <1>10. ASSUME n > 0
         PROVE  SumFunction([k \in 1..n |-> AtLeast(k, ps)]) * D = Expected(ps) * Power(n)
    <2>1. \A k \in 1..n : tail[k] = SumFunctionOnSet(row, k..n)
      <3> TAKE k \in 1..n
      <3>1. k \in -1..(n + 1) /\ NoLess(k) = k..n
        BY <1>2
      <3> QED
        BY <1>5, <3>1
    <2>2. SumFunction(tail) = SumFunctionOnSet(tail, 1..n)
      BY DEF SumFunction
    <2>3. Expected(ps) = SumFunctionOnSet(Cleaned(ps), 1..n)
      BY <1>2 DEF Expected, SumFunction, Cleaned
    <2>4. D * SumFunctionOnSet(Times(row, n), 0..n)
             = SumFunctionOnSet(Cleaned(ps), 1..n) * Power(n)
      BY <1>1, <1>2, RowSums
    <2>5. SumFunctionOnSet(Times(row, n), 0..n) \in Int
      <3>1. \A k \in 0..n : Times(row, n)[k] \in Int
        <4> TAKE k \in 0..n
        <4> DEFINE r == row[k]
        <4>1. r \in Int /\ k \in Int
          BY <1>2, <1>3
        <4>2. Times(row, n)[k] = k * r
          BY DEF Times
        <4> HIDE DEF r
        <4> QED
          BY <4>1, <4>2
      <3>2. IsFiniteSet(0..n)
        <4>1. NoLess(0) = 0..n
          BY <1>2
        <4> QED
          BY <1>6, <4>1
      <3> QED
        BY <3>1, <3>2, SumIsInt
    <2> HIDE DEF tail, row, n
    <2>6. SumFunctionOnSet(tail, 1..n) = SumFunctionOnSet(Times(row, n), 0..n)
      BY <1>2, <1>3, <2>1, TailsSum
    <2> DEFINE x == SumFunctionOnSet(Times(row, n), 0..n)
    <2>7. x \in Int /\ D \in Int /\ SumFunction(tail) = x
          /\ D * x = Expected(ps) * Power(n)
      BY <2>2, <2>3, <2>4, <2>5, <2>6, ProbabilityAssumption
    <2> HIDE DEF x
    <2>8. x * D = D * x
      BY <2>7
    <2>9. SumFunction(tail) * D = Expected(ps) * Power(n)
      BY <2>7, <2>8, Zenon
    <2> QED
      BY <2>9 DEF tail
  <1> HIDE DEF n
  <1>11. n > 0 => /\ AtLeast(1, ps) = AnyOf(ps)
                  /\ AtLeast(n, ps) = AllOf(ps)
                  /\ SumFunction([k \in 1..n |-> AtLeast(k, ps)]) * D
                        = Expected(ps) * Power(n)
    BY <1>8, <1>9, <1>10
  <1> QED
    BY <1>7, <1>11, Zenon DEF TailsExactFor, Combinations, Combined, n

(* The algebra of decision/algebra.go and the distributions of score.go say
   what probability theory says, for every list of probabilities and every
   score answer, unclean ones too.                                          *)
THEOREM ProbabilitiesAreSound ==
  ASSUME InputSane
  PROVE  ProbabilitiesSound
  <1>1. TailsExact
    BY TailsAreExact DEF TailsExact, InputSane
  <1>2. AlgebraSound
    BY AlgebraIsSound DEF AlgebraSound, InputSane
  <1>3. RangesAgree
    BY RangesAlwaysAgree DEF RangesAgree, InputSane
  <1>4. BimodalMisleads
    BY BimodalAlwaysMisleads DEF BimodalMisleads, InputSane
  <1> QED
    BY <1>1, <1>2, <1>3, <1>4 DEF ProbabilitiesSound
=============================================================================
