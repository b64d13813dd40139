------------------------- MODULE ResponseCacheProofs ------------------------
(***************************************************************************)
(* Proofs about ResponseCache, for every set of requesters and questions,  *)
(* every lifetime, capacity and latency, and however often the alias moves.*)
(***************************************************************************)
EXTENDS ResponseCache, SequenceTheorems, TLAPS

(* An entry is stored under its answer's model and content.  On disk it was *)
(* added while the answer arrived; in memory possibly one lifetime later,   *)
(* by a promotion.                                                          *)
KeyFits(e) == e.key = <<e.answer.model, e.answer.content>>
DiskEntry(e) == KeyFits(e) /\ e.added <= e.answer.at + Latency
MemoryEntry(e) == KeyFits(e) /\ e.added <= e.answer.at + Latency + TTL

TiersInv ==
    /\ \A k \in 1..Len(lru) : MemoryEntry(lru[k])
    /\ \A k \in 1..Len(disk) : DiskEntry(disk[k])

(* What a live answer is worth until it is stored, and a cached one until   *)
(* it is served.                                                            *)
LiveAnswer(t) ==
    /\ t.answer.content = t.content
    /\ t.answer.at <= now /\ now <= t.answer.at + Latency
CachedAnswer(t, lifetimes) ==
    /\ <<t.model, t.content>> = <<t.answer.model, t.answer.content>>
    /\ now <= t.answer.at + Latency + lifetimes * TTL
AnswerInv(t) ==
    /\ t.pc \in {"answered", "store", "write"} => LiveAnswer(t)
    /\ t.pc = "promote" => CachedAnswer(t, 1)
    /\ t.pc = "hit" => CachedAnswer(t, 2)

(* A model other than the current one was left by the service at movedAt:   *)
(* an answer from it is older, a mapping to it was learned while such an    *)
(* answer could arrive, and a lookup trusted it within its lifetime.        *)
Lagging(model, time, slack) ==
    /\ model <= current
    /\ model < current => time <= movedAt[model] + slack
AliasInv ==
    /\ alias.at <= now
    /\ alias.model # 0 => Lagging(alias.model, alias.at, Latency)
ModelInv(t) ==
    /\ t.pc \in {"answered", "store"} =>
          Lagging(t.answer.model, t.answer.at, 0)
    /\ t.pc \in {"memory", "disk", "expired", "promote", "hit"} =>
          Lagging(t.model, now, TTL + Latency)

TaskInv == \A r \in Requesters : AnswerInv(task[r]) /\ ModelInv(task[r])

IInv == TypeOK /\ TiersInv /\ AliasInv /\ TaskInv

-----------------------------------------------------------------------------
(* A sequence without its i-th element.                                     *)
LEMMA RemoveAtProperties ==
  ASSUME NEW S, NEW s \in Seq(S), NEW i \in 1..Len(s)
  PROVE  /\ RemoveAt(s, i) \in Seq(S)
         /\ Len(RemoveAt(s, i)) = Len(s) - 1
         /\ \A k \in 1..(Len(s) - 1) :
               RemoveAt(s, i)[k] = IF k < i THEN s[k] ELSE s[k + 1]
  <1> DEFINE front == SubSeq(s, 1, i - 1)
             back == SubSeq(s, i + 1, Len(s))
  <1>1. Len(s) \in Nat /\ i \in Nat /\ i >= 1 /\ i <= Len(s)
    BY LenProperties
  <1>2. \A k \in 1..Len(s) : s[k] \in S
    BY ElementOfSeq
  <1>3. /\ front \in Seq(S) /\ Len(front) = i - 1
        /\ \A k \in 1..(i - 1) : front[k] = s[k]
    <2>1. \A k \in 1..(i - 1) : s[k] \in S
      BY <1>1, <1>2
    <2>2. /\ front \in Seq(S)
          /\ Len(front) = IF 1 <= i - 1 THEN (i - 1) - 1 + 1 ELSE 0
          /\ \A k \in 1..((i - 1) - 1 + 1) : front[k] = s[1 + k - 1]
      BY <1>1, <2>1, SubSeqProperties
    <2>3. QED
      BY <1>1, <2>2
  <1>4. /\ back \in Seq(S) /\ Len(back) = Len(s) - i
        /\ \A k \in 1..(Len(s) - i) : back[k] = s[i + k]
    <2>1. \A k \in (i + 1)..Len(s) : s[k] \in S
      BY <1>1, <1>2
    <2>2. /\ back \in Seq(S)
          /\ Len(back) = IF i + 1 <= Len(s) THEN Len(s) - (i + 1) + 1 ELSE 0
          /\ \A k \in 1..(Len(s) - (i + 1) + 1) : back[k] = s[(i + 1) + k - 1]
      BY <1>1, <2>1, SubSeqProperties
    <2>3. QED
      BY <1>1, <2>2
  <1> DEFINE both == front \o back
  <1>5. RemoveAt(s, i) = both
    BY DEF RemoveAt
  <1> HIDE DEF front, back
  <1>6. /\ both \in Seq(S)
        /\ Len(both) = Len(front) + Len(back)
        /\ \A k \in 1..(Len(front) + Len(back)) : both[k] =
              IF k <= Len(front) THEN front[k] ELSE back[k - Len(front)]
    BY <1>3, <1>4, ConcatProperties
  <1> HIDE DEF both
  <1>7. ASSUME NEW k \in 1..(Len(s) - 1)
        PROVE  both[k] = IF k < i THEN s[k] ELSE s[k + 1]
    <2>1. k \in 1..(Len(front) + Len(back))
      BY <1>1, <1>3, <1>4
    <2>2. CASE k < i
      BY <1>1, <1>3, <1>6, <2>1, <2>2
    <2>3. CASE ~(k < i)
      <3>1. k - (i - 1) \in 1..(Len(s) - i) /\ i + (k - (i - 1)) = k + 1
        BY <1>1, <2>3
      <3>2. ~(k <= Len(front)) /\ k - Len(front) = k - (i - 1)
        BY <1>1, <1>3, <2>3
      <3>3. both[k] = back[k - (i - 1)]
        BY <1>6, <2>1, <3>2
      <3>4. back[k - (i - 1)] = s[k + 1]
        BY <1>4, <3>1
      <3>5. QED
        BY <2>3, <3>3, <3>4
    <2>4. QED
      BY <2>2, <2>3
  <1>8. QED
    BY <1>1, <1>3, <1>4, <1>5, <1>6, <1>7

(* Every entry of t is one of s.                                            *)
Within(t, s) == \A k \in 1..Len(t) : \E j \in 1..Len(s) : t[k] = s[j]

(* What is found under a key is an entry of the tier, stored under it.      *)
LEMMA FoundProperties ==
  ASSUME NEW s \in Seq(Entry), NEW key, Holds(s, key)
  PROVE  /\ Place(s, key) \in 1..Len(s)
         /\ Found(s, key) \in Entry
         /\ Found(s, key).key = key
         /\ \E j \in 1..Len(s) : Found(s, key) = s[j]
  <1>1. DOMAIN s = 1..Len(s)
    BY LenProperties
  <1>2. Place(s, key) \in 1..Len(s) /\ s[Place(s, key)].key = key
    BY <1>1 DEF Holds, Place
  <1>3. QED
    BY <1>2, ElementOfSeq DEF Found

(* The tier without a key holds it no more, and nothing new.                *)
LEMMA WithoutProperties ==
  ASSUME NEW s \in Seq(Entry), Unique(s), NEW key
  PROVE  /\ Without(s, key) \in Seq(Entry)
         /\ Len(Without(s, key)) <= Len(s)
         /\ Unique(Without(s, key))
         /\ \A k \in 1..Len(Without(s, key)) : Without(s, key)[k].key # key
         /\ Within(Without(s, key), s)
  <1>1. Len(s) \in Nat /\ DOMAIN s = 1..Len(s)
    BY LenProperties
  <1>2. CASE ~Holds(s, key)
    BY <1>1, <1>2 DEF Without, Holds, Within
  <1>3. CASE Holds(s, key)
    <2> DEFINE p == Place(s, key)
               t == RemoveAt(s, p)
    <2>1. p \in 1..Len(s) /\ s[p].key = key
      BY <1>3, FoundProperties DEF Found
    <2> HIDE DEF p
    <2>2. /\ t \in Seq(Entry) /\ Len(t) = Len(s) - 1
          /\ \A k \in 1..(Len(s) - 1) : t[k] = IF k < p THEN s[k] ELSE s[k + 1]
      BY <2>1, RemoveAtProperties
    <2>3. DOMAIN t = 1..Len(t)
      BY <2>2, LenProperties
    <2>4. Without(s, key) = t
      BY <1>3 DEF Without, p
    <2> HIDE DEF t
    <2> DEFINE from(k) == IF k < p THEN k ELSE k + 1
    <2>5. \A k \in 1..Len(t) : /\ from(k) \in 1..Len(s) /\ from(k) # p
                               /\ t[k] = s[from(k)]
      BY <1>1, <2>1, <2>2
    <2>6. \A j, k \in 1..Len(t) : from(j) = from(k) => j = k
      BY <1>1, <2>1, <2>2
    <2>7. \A j, k \in 1..Len(s) : s[j].key = s[k].key => j = k
      BY <1>1 DEF Unique
    <2> HIDE DEF from
    <2>8. \A j, k \in 1..Len(t) : t[j].key = t[k].key => j = k
      BY <2>5, <2>6, <2>7
    <2>9. \A k \in 1..Len(t) : t[k].key # key
      BY <2>1, <2>5, <2>7
    <2>10. Within(t, s)
      BY <2>5 DEF Within
    <2>11. QED
      BY <1>1, <2>2, <2>3, <2>4, <2>8, <2>9, <2>10 DEF Unique
  <1>4. QED
    BY <1>2, <1>3

(* A tier with an entry put, or moved, to its front.                        *)
LEMMA FrontProperties ==
  ASSUME NEW s \in Seq(Entry), Unique(s), NEW e \in Entry
  PROVE  LET t == <<e>> \o Without(s, e.key)
         IN  /\ t \in Seq(Entry)
             /\ Len(t) = Len(Without(s, e.key)) + 1
             /\ Unique(t)
             /\ \A k \in 1..Len(t) : t[k] = e \/ \E j \in 1..Len(s) : t[k] = s[j]
  <1> DEFINE w == Without(s, e.key)
             t == <<e>> \o w
  <1>1. /\ w \in Seq(Entry) /\ Unique(w) /\ Within(w, s)
        /\ \A k \in 1..Len(w) : w[k].key # e.key
    BY WithoutProperties
  <1>2. Len(w) \in Nat /\ DOMAIN w = 1..Len(w)
    BY <1>1, LenProperties
  <1> HIDE DEF w
  <1>3. <<e>> \in Seq(Entry) /\ Len(<<e>>) = 1 /\ <<e>>[1] = e
    OBVIOUS
  <1>4. /\ t \in Seq(Entry) /\ Len(t) = 1 + Len(w)
        /\ \A k \in 1..(1 + Len(w)) : t[k] = IF k <= 1 THEN <<e>>[k] ELSE w[k - 1]
    BY <1>1, <1>3, ConcatProperties
  <1>5. DOMAIN t = 1..Len(t)
    BY <1>4, LenProperties
  <1> HIDE DEF t
  <1>6. t[1] = e /\ \A k \in 2..Len(t) : k - 1 \in 1..Len(w) /\ t[k] = w[k - 1]
    BY <1>2, <1>3, <1>4
  <1>7. \A j, k \in 1..Len(t) : t[j].key = t[k].key => j = k
    <2> SUFFICES ASSUME NEW j \in 1..Len(t), NEW k \in 1..Len(t),
                        t[j].key = t[k].key
                 PROVE  j = k
      OBVIOUS
    <2>0. \A n \in 2..Len(t) : t[n].key # t[1].key
      BY <1>1, <1>6
    <2>1. CASE j = 1 \/ k = 1
      <3>1. (j = 1 \/ j \in 2..Len(t)) /\ (k = 1 \/ k \in 2..Len(t))
        BY <1>2, <1>4
      <3>2. QED
        BY <2>0, <2>1, <3>1
    <2>2. CASE j # 1 /\ k # 1
      <3>1. j \in 2..Len(t) /\ k \in 2..Len(t)
        BY <1>2, <1>4, <2>2
      <3>2. j - 1 \in DOMAIN w /\ k - 1 \in DOMAIN w
            /\ w[j - 1].key = w[k - 1].key
        BY <1>2, <1>6, <3>1
      <3>3. j - 1 = k - 1
        BY <1>1, <3>2 DEF Unique
      <3>4. QED
        BY <3>1, <3>3
    <2>3. QED
      BY <2>1, <2>2
  <1>8. \A k \in 1..Len(t) : t[k] = e \/ \E j \in 1..Len(s) : t[k] = s[j]
    <2> SUFFICES ASSUME NEW k \in 1..Len(t), k # 1
                 PROVE  \E j \in 1..Len(s) : t[k] = s[j]
      BY <1>6
    <2>1. k \in 2..Len(t)
      BY <1>2, <1>4
    <2>2. QED
      BY <1>1, <1>6, <2>1 DEF Within
  <1>9. Unique(t)
    BY <1>5, <1>7 DEF Unique
  <1>10. QED
    BY <1>2, <1>4, <1>8, <1>9 DEF t, w

(* A stretch of a tier.                                                     *)
LEMMA StretchProperties ==
  ASSUME NEW s \in Seq(Entry), Unique(s), NEW m \in 1..(Len(s) + 1),
         NEW n \in Nat, n <= Len(s)
  PROVE  LET t == SubSeq(s, m, n)
         IN  /\ t \in Seq(Entry)
             /\ Len(t) = IF m <= n THEN n - m + 1 ELSE 0
             /\ Unique(t) /\ Within(t, s)
  <1> DEFINE t == SubSeq(s, m, n)
  <1>1. Len(s) \in Nat /\ DOMAIN s = 1..Len(s)
    BY LenProperties
  <1>2. \A k \in m..n : s[k] \in Entry
    BY <1>1, ElementOfSeq
  <1>3. /\ t \in Seq(Entry)
        /\ Len(t) = IF m <= n THEN n - m + 1 ELSE 0
        /\ \A k \in 1..(n - m + 1) : t[k] = s[m + k - 1]
    BY <1>1, <1>2, SubSeqProperties
  <1>4. DOMAIN t = 1..Len(t)
    BY <1>3, LenProperties
  <1> HIDE DEF t
  <1>5. \A k \in 1..Len(t) : m + k - 1 \in 1..Len(s) /\ t[k] = s[m + k - 1]
    BY <1>1, <1>3
  <1>6. \A j, k \in 1..Len(t) : m + j - 1 = m + k - 1 => j = k
    BY <1>1, <1>3
  <1>7. Unique(t)
    <2>1. \A j, k \in 1..Len(s) : s[j].key = s[k].key => j = k
      BY <1>1 DEF Unique
    <2>2. \A j, k \in 1..Len(t) : t[j].key = t[k].key => m + j - 1 = m + k - 1
      <3> SUFFICES ASSUME NEW j \in 1..Len(t), NEW k \in 1..Len(t),
                          t[j].key = t[k].key
                   PROVE  m + j - 1 = m + k - 1
        OBVIOUS
      <3>1. m + j - 1 \in 1..Len(s) /\ t[j] = s[m + j - 1]
        BY <1>5
      <3>2. m + k - 1 \in 1..Len(s) /\ t[k] = s[m + k - 1]
        BY <1>5
      <3>3. s[m + j - 1].key = s[m + k - 1].key
        BY <3>1, <3>2
      <3> HIDE DEF t
      <3>4. QED
        BY <2>1, <3>1, <3>2, <3>3
    <2>3. QED
      BY <1>4, <1>6, <2>2 DEF Unique
  <1>8. Within(t, s)
    BY <1>5 DEF Within
  <1>9. QED
    BY <1>3, <1>7, <1>8 DEF t

(* A tier with an entry put at its end.                                     *)
LEMMA BackProperties ==
  ASSUME NEW s \in Seq(Entry), Unique(s), NEW e \in Entry
  PROVE  LET t == Append(Without(s, e.key), e)
         IN  /\ t \in Seq(Entry) /\ Unique(t)
             /\ \A k \in 1..Len(t) : t[k] = e \/ \E j \in 1..Len(s) : t[k] = s[j]
  <1> DEFINE w == Without(s, e.key)
             t == Append(w, e)
  <1>1. /\ w \in Seq(Entry) /\ Unique(w) /\ Within(w, s)
        /\ \A k \in 1..Len(w) : w[k].key # e.key
    BY WithoutProperties
  <1>2. Len(w) \in Nat /\ DOMAIN w = 1..Len(w)
    BY <1>1, LenProperties
  <1> HIDE DEF w
  <1>3. /\ t \in Seq(Entry) /\ Len(t) = Len(w) + 1
        /\ \A k \in 1..Len(w) : t[k] = w[k]
        /\ t[Len(w) + 1] = e
    BY <1>1, AppendProperties
  <1>4. DOMAIN t = 1..Len(t)
    BY <1>3, LenProperties
  <1> HIDE DEF t
  <1>5. \A k \in 1..Len(t) : k \in 1..Len(w) \/ k = Len(w) + 1
    BY <1>2, <1>3
  <1>6. \A j, k \in 1..Len(t) : t[j].key = t[k].key => j = k
    <2>1. \A j, k \in 1..Len(w) : w[j].key = w[k].key => j = k
      BY <1>1, <1>2 DEF Unique
    <2>2. QED
      BY <1>1, <1>3, <1>5, <2>1
  <1>7. \A k \in 1..Len(t) : t[k] = e \/ \E j \in 1..Len(s) : t[k] = s[j]
    BY <1>1, <1>3, <1>5 DEF Within
  <1>8. QED
    BY <1>3, <1>4, <1>6, <1>7 DEF Unique, t, w

-----------------------------------------------------------------------------
(* The parts of the invariant that are about the tiers.                     *)
TierTypes ==
    /\ lru \in Seq(Entry) /\ Len(lru) <= MaxEntries /\ Unique(lru)
    /\ disk \in Seq(Entry) /\ Unique(disk)

(* Constants and types that the arithmetic of the steps needs.              *)
LEMMA Numbers ==
  /\ TTL \in Nat /\ MaxEntries \in Nat \ {0} /\ DiskMax \in Nat \ {0}
  /\ Versions \in Nat /\ Latency \in Nat /\ Horizon \in Nat
  /\ Idle \in TaskState /\ Idle.pc = "idle"
  BY CacheAssumption
     DEF Idle, NoAnswer, TaskState, Phase, Models, Answer, Times

(* One requester moves, within a moment; the tiers and the alias are good.  *)
LEMMA OneTask ==
  ASSUME IInv, UNCHANGED <<now, service, closed>>,
         TierTypes', TiersInv',
         alias' \in [model: Models \cup {0}, at: Times], AliasInv',
         NEW r \in Requesters, NEW t \in TaskState,
         AnswerInv(t), ModelInv(t),
         task' = [task EXCEPT ![r] = t]
  PROVE  IInv'
  <1>1. task' \in [Requesters -> TaskState]
    BY DEF IInv, TypeOK
  <1>2. TypeOK'
    BY <1>1 DEF IInv, TypeOK, TierTypes, service
  <1>3. \A q \in Requesters : AnswerInv(task'[q]) /\ ModelInv(task'[q])
    BY DEF IInv, TypeOK, TaskInv
  <1>4. TaskInv'
    BY <1>3 DEF TaskInv, AnswerInv, LiveAnswer, CachedAnswer, ModelInv,
                Lagging, service
  <1>5. QED
    BY <1>2, <1>4 DEF IInv

(* The same when nothing but the requester changes.                         *)
LEMMA TaskOnly ==
  ASSUME IInv, UNCHANGED <<now, service, alias, lru, disk, closed>>,
         NEW r \in Requesters, NEW t \in TaskState,
         AnswerInv(t), ModelInv(t),
         task' = [task EXCEPT ![r] = t]
  PROVE  IInv'
  <1>1. TierTypes' /\ TiersInv'
    BY DEF IInv, TypeOK, TierTypes, TiersInv, Unique
  <1>2. alias' \in [model: Models \cup {0}, at: Times] /\ AliasInv'
    BY DEF IInv, TypeOK, AliasInv, Lagging, service
  <1>3. QED
    BY <1>1, <1>2, OneTask

(* A requester that gives up its key has a call to make.                    *)
LEMMA MissProperties ==
  ASSUME IInv, NEW r \in Requesters, Miss(r)
  PROVE  \E t \in TaskState : /\ t.pc = "call"
                              /\ task' = [task EXCEPT ![r] = t]
  <1> DEFINE t == [task[r] EXCEPT !.pc = "call", !.model = Idle.model]
  <1>1. task[r] \in TaskState
    BY DEF IInv, TypeOK
  <1>2. Idle.model \in Models
    BY Numbers DEF TaskState
  <1>3. t \in TaskState /\ t.pc = "call"
    BY <1>1, <1>2 DEF TaskState, Phase
  <1>4. task' = [task EXCEPT ![r] = t]
    BY DEF Miss, IInv, TypeOK
  <1>5. QED
    BY <1>3, <1>4

(* A requester that moves on keeps its key and its answer.                  *)
LEMMA GotoProperties ==
  ASSUME IInv, NEW r \in Requesters, NEW pc \in Phase, Goto(r, pc)
  PROVE  \E t \in TaskState :
            /\ t.pc = pc /\ t.model = task[r].model
            /\ t.content = task[r].content /\ t.answer = task[r].answer
            /\ task' = [task EXCEPT ![r] = t]
  <1> DEFINE t == [task[r] EXCEPT !.pc = pc]
  <1>1. task[r] \in TaskState
    BY DEF IInv, TypeOK
  <1>2. /\ t \in TaskState
        /\ t.pc = pc /\ t.model = task[r].model
        /\ t.content = task[r].content /\ t.answer = task[r].answer
    BY <1>1 DEF TaskState
  <1>3. task' = [task EXCEPT ![r] = t]
    BY DEF Goto, IInv, TypeOK
  <1>4. QED
    BY <1>2, <1>3

(* One that finds an answer under its key.                                  *)
LEMMA FoundTask ==
  ASSUME IInv, NEW r \in Requesters, NEW pc \in Phase, NEW a \in Answer,
         Hold(r, pc, a)
  PROVE  \E t \in TaskState :
            /\ t.pc = pc /\ t.model = task[r].model
            /\ t.content = task[r].content /\ t.answer = a
            /\ task' = [task EXCEPT ![r] = t]
  <1> DEFINE t == [task[r] EXCEPT !.pc = pc, !.answer = a]
  <1>1. task[r] \in TaskState
    BY DEF IInv, TypeOK
  <1>2. /\ t \in TaskState
        /\ t.pc = pc /\ t.model = task[r].model
        /\ t.content = task[r].content /\ t.answer = a
    BY <1>1 DEF TaskState
  <1>3. task' = [task EXCEPT ![r] = t]
    BY DEF Hold, IInv, TypeOK
  <1>4. QED
    BY <1>2, <1>3

-----------------------------------------------------------------------------
LEMMA InitIInv == Init => IInv
  <1> SUFFICES ASSUME Init PROVE IInv
    OBVIOUS
  <1> USE Numbers DEF Init
  <1>1. TypeOK
    <2>1. /\ lru \in Seq(Entry) /\ Len(lru) = 0 /\ DOMAIN lru = {}
          /\ disk \in Seq(Entry) /\ DOMAIN disk = {}
      OBVIOUS
    <2>2. now \in Times /\ current \in Models /\ movedAt \in [Models -> Times]
      BY CacheAssumption DEF Times, Models
    <2>3. alias \in [model: Models \cup {0}, at: Times]
      BY DEF Nothing, Times
    <2>4. closed \in BOOLEAN
      OBVIOUS
    <2>5. QED
      BY <2>1, <2>2, <2>3, <2>4 DEF TypeOK, Unique
  <1>2. TiersInv
    BY DEF TiersInv
  <1>3. AliasInv
    BY DEF AliasInv, Nothing
  <1>4. TaskInv
    BY DEF TaskInv, AnswerInv, ModelInv
  <1>5. QED
    BY <1>1, <1>2, <1>3, <1>4 DEF IInv

(* A lookup resolves by a mapping that is at most one lifetime old.         *)
LEMMA LookupIInv ==
  ASSUME IInv, NEW r \in Requesters, Lookup(r)
  PROVE  IInv'
  <1>1. UNCHANGED <<now, service, alias, lru, disk, closed>>
    BY DEF Lookup
  <1>2. PICK content \in Asks[r] : task' = [task EXCEPT ![r] =
             IF Resolved
             THEN [Idle EXCEPT !.pc = "memory", !.model = alias.model,
                               !.content = content]
             ELSE [Idle EXCEPT !.pc = "call", !.content = content]]
    BY DEF Lookup
  <1>3. content \in Contents
    BY CacheAssumption
  <1>4. CASE Resolved
    <2> DEFINE t == [Idle EXCEPT !.pc = "memory", !.model = alias.model,
                                 !.content = content]
    <2>1. alias.model \in Models /\ alias.at \in Times
      BY <1>4 DEF Resolved, IInv, TypeOK
    <2>2. t \in TaskState /\ t.pc = "memory" /\ t.model = alias.model
      BY <1>3, <2>1, Numbers DEF TaskState, Phase
    <2>3. task' = [task EXCEPT ![r] = t]
      BY <1>2, <1>4
    <2> HIDE DEF t
    <2>4. AnswerInv(t)
      BY <2>2 DEF AnswerInv
    <2>5. Lagging(alias.model, alias.at, Latency) /\ now - alias.at <= TTL
      BY <1>4 DEF Resolved, Fresh, IInv, AliasInv
    <2>6. Lagging(alias.model, now, TTL + Latency)
      <3> SUFFICES ASSUME alias.model < current
                   PROVE  now <= movedAt[alias.model] + (TTL + Latency)
        BY <2>5 DEF Lagging
      <3>1. movedAt[alias.model] \in Int /\ alias.at \in Int /\ now \in Int
        BY <2>1, Numbers DEF IInv, TypeOK, Times
      <3>2. alias.at <= movedAt[alias.model] + Latency
        BY <2>5 DEF Lagging
      <3>3. QED
        BY <2>5, <3>1, <3>2, Numbers
    <2>7. ModelInv(t)
      BY <2>2, <2>6 DEF ModelInv
    <2>8. QED
      BY <1>1, <2>2, <2>3, <2>4, <2>7, TaskOnly
  <1>5. CASE ~Resolved
    <2> DEFINE t == [Idle EXCEPT !.pc = "call", !.content = content]
    <2>1. t \in TaskState /\ t.pc = "call"
      BY <1>3, Numbers DEF TaskState, Phase
    <2>2. task' = [task EXCEPT ![r] = t]
      BY <1>2, <1>5
    <2> HIDE DEF t
    <2>3. AnswerInv(t) /\ ModelInv(t)
      BY <2>1 DEF AnswerInv, ModelInv
    <2>4. QED
      BY <1>1, <2>1, <2>2, <2>3, TaskOnly
  <1>6. QED
    BY <1>4, <1>5

(* Steps that leave the requester without an answer and nothing changed.    *)
LEMMA FinishIInv ==
  ASSUME IInv, NEW r \in Requesters, Finish(r),
         UNCHANGED <<now, service, closed>>, TierTypes', TiersInv',
         alias' \in [model: Models \cup {0}, at: Times], AliasInv'
  PROVE  IInv'
  <1>1. Idle \in TaskState /\ AnswerInv(Idle) /\ ModelInv(Idle)
    BY Numbers DEF AnswerInv, ModelInv
  <1>2. task' = [task EXCEPT ![r] = Idle]
    BY DEF Finish
  <1>3. QED
    BY <1>1, <1>2, OneTask

LEMMA MissIInv ==
  ASSUME IInv, NEW r \in Requesters, Miss(r),
         UNCHANGED <<now, service, closed>>, TierTypes', TiersInv',
         alias' \in [model: Models \cup {0}, at: Times], AliasInv'
  PROVE  IInv'
  <1>1. PICK t \in TaskState : t.pc = "call" /\ task' = [task EXCEPT ![r] = t]
    BY MissProperties
  <1>2. AnswerInv(t) /\ ModelInv(t)
    BY <1>1 DEF AnswerInv, ModelInv
  <1>3. QED
    BY <1>1, <1>2, OneTask

(* The tiers and the alias, in steps that leave them alone.                 *)
LEMMA SameTiers ==
  ASSUME IInv, UNCHANGED <<lru, disk>>
  PROVE  TierTypes' /\ TiersInv'
  BY DEF IInv, TypeOK, TierTypes, TiersInv, Unique

LEMMA SameAlias ==
  ASSUME IInv, UNCHANGED <<now, service, alias>>
  PROVE  alias' \in [model: Models \cup {0}, at: Times] /\ AliasInv'
  BY DEF IInv, TypeOK, AliasInv, Lagging, service

(* The memory tier, when it gets an entry at its front and loses some.      *)
LEMMA MemoryFront ==
  ASSUME IInv, UNCHANGED disk, NEW e \in Entry, MemoryEntry(e),
         lru' \in Seq(Entry), Len(lru') <= MaxEntries, Unique(lru'),
         \A k \in 1..Len(lru') :
            lru'[k] = e \/ \E j \in 1..Len(lru) : lru'[k] = lru[j]
  PROVE  TierTypes' /\ TiersInv'
  <1>1. \A k \in 1..Len(lru') : MemoryEntry(lru'[k])
    BY DEF IInv, TiersInv
  <1>2. QED
    BY <1>1 DEF IInv, TypeOK, TierTypes, TiersInv, Unique

(* lru.put keeps the tier within its bound and its keys apart.              *)
LEMMA LruPutTiers ==
  ASSUME IInv, UNCHANGED disk, NEW key \in Keys, NEW a \in Answer,
         MemoryEntry(Entered(key, a)), LruPut(key, a)
  PROVE  TierTypes' /\ TiersInv'
  <1> DEFINE e == Entered(key, a)
             all == <<e>> \o Without(lru, key)
             n == IF Len(all) > MaxEntries THEN MaxEntries ELSE Len(all)
  <1>1. e \in Entry /\ e.key = key
    BY DEF Entered, Entry, IInv, TypeOK
  <1>2. lru \in Seq(Entry) /\ Unique(lru)
    BY DEF IInv, TypeOK
  <1>3. lru' = SubSeq(all, 1, n)
    BY DEF LruPut
  <1>4. /\ all \in Seq(Entry) /\ Unique(all)
        /\ \A k \in 1..Len(all) : all[k] = e \/ \E j \in 1..Len(lru) : all[k] = lru[j]
    BY <1>1, <1>2, FrontProperties
  <1> HIDE DEF all, e
  <1>5. Len(all) \in Nat
    BY <1>4, LenProperties
  <1>6. /\ n \in Nat /\ n <= Len(all) /\ n <= MaxEntries
        /\ 1 \in 1..(Len(all) + 1)
    BY <1>5, Numbers
  <1> HIDE DEF n
  <1>7. /\ lru' \in Seq(Entry) /\ Unique(lru') /\ Within(lru', all)
        /\ Len(lru') = IF 1 <= n THEN n - 1 + 1 ELSE 0
    BY <1>3, <1>4, <1>6, StretchProperties
  <1>8. Len(lru') <= MaxEntries
    BY <1>6, <1>7, Numbers
  <1>9. \A k \in 1..Len(lru') :
           lru'[k] = e \/ \E j \in 1..Len(lru) : lru'[k] = lru[j]
    BY <1>4, <1>7 DEF Within
  <1>10. MemoryEntry(e)
    BY DEF e
  <1>11. QED
    BY <1>1, <1>7, <1>8, <1>9, <1>10, MemoryFront

-----------------------------------------------------------------------------
(* What memory serves was added within a lifetime, and entered it at most   *)
(* one lifetime after it arrived.                                           *)
LEMMA MemoryGetIInv ==
  ASSUME IInv, NEW r \in Requesters, MemoryGet(r)
  PROVE  IInv'
  <1> DEFINE key == Key(r)
             found == Found(lru, key)
  <1>1. UNCHANGED <<now, service, alias, disk, closed>> /\ task[r].pc = "memory"
    BY DEF MemoryGet, At
  <1>2. alias' \in [model: Models \cup {0}, at: Times] /\ AliasInv'
    BY <1>1, SameAlias
  <1>3. /\ task[r] \in TaskState /\ lru \in Seq(Entry) /\ Unique(lru)
        /\ Len(lru) <= MaxEntries
        /\ ModelInv(task[r]) /\ Lagging(task[r].model, now, TTL + Latency)
    BY <1>1 DEF IInv, TypeOK, TaskInv, ModelInv
  <1>4. ASSUME Miss(r), UNCHANGED lru
        PROVE  IInv'
    BY <1>1, <1>2, <1>4, SameTiers, MissIInv
  <1>5. ASSUME Holds(lru, key), Fresh(found.added),
               lru' = <<found>> \o Without(lru, key),
               Hold(r, "hit", found.answer)
        PROVE  IInv'
    <2>1. /\ found \in Entry /\ found.key = key
          /\ \E j \in 1..Len(lru) : found = lru[j]
      BY <1>3, <1>5, FoundProperties
    <2>2. MemoryEntry(found)
      BY <2>1 DEF IInv, TiersInv
    <2> HIDE DEF found
    <2>3. /\ lru' \in Seq(Entry) /\ Unique(lru')
          /\ Len(lru') = Len(Without(lru, key)) + 1
          /\ \A k \in 1..Len(lru') :
                lru'[k] = found \/ \E j \in 1..Len(lru) : lru'[k] = lru[j]
      <3>1. lru' = <<found>> \o Without(lru, found.key)
        BY <1>5, <2>1
      <3> HIDE DEF key
      <3>2. QED
        BY <1>3, <2>1, <3>1, FrontProperties
    <2>4. Len(lru') <= MaxEntries
      <3>1. Place(lru, key) \in 1..Len(lru)
        BY <1>3, <1>5, FoundProperties
      <3>2. Len(Without(lru, key)) = Len(lru) - 1
        BY <1>3, <1>5, <3>1, RemoveAtProperties DEF Without
      <3>3. Len(lru) \in Nat
        BY <1>3, LenProperties
      <3>4. QED
        BY <1>3, <2>3, <3>2, <3>3, Numbers
    <2>5. TierTypes' /\ TiersInv'
      BY <1>1, <2>1, <2>2, <2>3, <2>4, MemoryFront
    <2>6. found.answer \in Answer /\ found.added \in Times
      BY <2>1 DEF Entry
    <2>7. PICK t \in TaskState :
             /\ t.pc = "hit" /\ t.model = task[r].model
             /\ t.content = task[r].content /\ t.answer = found.answer
             /\ task' = [task EXCEPT ![r] = t]
      BY <1>5, <2>6, FoundTask DEF Phase
    <2>8. CachedAnswer(t, 2)
      <3>1. <<t.model, t.content>> = <<t.answer.model, t.answer.content>>
        BY <2>1, <2>2, <2>7 DEF MemoryEntry, KeyFits, key, Key
      <3>2. now - found.added <= TTL /\ found.added <= t.answer.at + Latency + TTL
        BY <1>5, <2>2, <2>7 DEF MemoryEntry, Fresh
      <3>3. t.answer.at \in Int /\ found.added \in Int /\ now \in Int
        <4>1. t.answer \in Answer
          BY DEF TaskState
        <4>2. \A n \in Times : n \in Int
          BY Numbers DEF Times
        <4>3. now \in Times
          BY DEF IInv, TypeOK
        <4>4. QED
          BY <2>6, <4>1, <4>2, <4>3 DEF Answer
      <3>4. now <= t.answer.at + Latency + 2 * TTL
        BY <3>2, <3>3, Numbers
      <3>5. QED
        BY <3>1, <3>4 DEF CachedAnswer
    <2>9. AnswerInv(t) /\ ModelInv(t)
      BY <1>3, <2>7, <2>8 DEF AnswerInv, ModelInv
    <2>10. QED
      BY <1>1, <1>2, <2>5, <2>7, <2>9, OneTask
  <1>6. ASSUME Goto(r, "disk"), UNCHANGED lru \/ lru' = Without(lru, key)
        PROVE  IInv'
    <2>1. TierTypes' /\ TiersInv'
      <3>1. CASE UNCHANGED lru
        BY <1>1, <3>1, SameTiers
      <3>2. CASE lru' = Without(lru, key)
        <4>1. /\ lru' \in Seq(Entry) /\ Unique(lru') /\ Len(lru') <= Len(lru)
              /\ Within(lru', lru)
          BY <1>3, <3>2, WithoutProperties
        <4>2. Len(lru') \in Nat /\ Len(lru) \in Nat
          BY <1>3, <4>1, LenProperties
        <4>3. Len(lru') <= MaxEntries
          BY <1>3, <4>1, <4>2, Numbers
        <4>4. \A k \in 1..Len(lru') : MemoryEntry(lru'[k])
          BY <4>1 DEF Within, IInv, TiersInv
        <4>5. QED
          BY <1>1, <4>1, <4>3, <4>4
             DEF IInv, TypeOK, TierTypes, TiersInv, Unique
      <3>3. QED
        BY <1>6, <3>1, <3>2
    <2>2. PICK t \in TaskState :
             /\ t.pc = "disk" /\ t.model = task[r].model
             /\ task' = [task EXCEPT ![r] = t]
      BY <1>6, GotoProperties DEF Phase
    <2>3. AnswerInv(t) /\ ModelInv(t)
      BY <1>3, <2>2 DEF AnswerInv, ModelInv
    <2>4. QED
      BY <1>1, <1>2, <2>1, <2>2, <2>3, OneTask
  <1>7. QED
    BY <1>4, <1>5, <1>6 DEF MemoryGet, Touched

(* A fresh file was written within a lifetime of the answer's arrival.      *)
LEMMA DiskGetIInv ==
  ASSUME IInv, NEW r \in Requesters, DiskGet(r)
  PROVE  IInv'
  <1> DEFINE key == Key(r)
             found == Found(disk, key)
  <1>1. /\ UNCHANGED <<now, service, alias, lru, disk, closed>>
        /\ task[r].pc = "disk"
    BY DEF DiskGet, At
  <1>2. /\ TierTypes' /\ TiersInv'
        /\ alias' \in [model: Models \cup {0}, at: Times] /\ AliasInv'
    BY <1>1, SameTiers, SameAlias
  <1>3. /\ task[r] \in TaskState /\ disk \in Seq(Entry)
        /\ Lagging(task[r].model, now, TTL + Latency)
    BY <1>1 DEF IInv, TypeOK, TaskInv, ModelInv
  <1>4. CASE Miss(r)
    BY <1>1, <1>2, <1>4, MissIInv
  <1>5. CASE Goto(r, "expired")
    <2>1. PICK t \in TaskState :
             /\ t.pc = "expired" /\ t.model = task[r].model
             /\ task' = [task EXCEPT ![r] = t]
      BY <1>5, GotoProperties DEF Phase
    <2>2. AnswerInv(t) /\ ModelInv(t)
      BY <1>3, <2>1 DEF AnswerInv, ModelInv
    <2>3. QED
      BY <1>1, <1>2, <2>1, <2>2, OneTask
  <1>6. ASSUME Holds(disk, key), Fresh(found.added),
               Hold(r, "promote", found.answer)
        PROVE  IInv'
    <2>1. /\ found \in Entry /\ found.key = key
          /\ \E j \in 1..Len(disk) : found = disk[j]
      BY <1>3, <1>6, FoundProperties
    <2>2. DiskEntry(found)
      BY <2>1 DEF IInv, TiersInv
    <2> HIDE DEF found
    <2>3. found.answer \in Answer /\ found.added \in Times
      BY <2>1 DEF Entry
    <2>4. PICK t \in TaskState :
             /\ t.pc = "promote" /\ t.model = task[r].model
             /\ t.content = task[r].content /\ t.answer = found.answer
             /\ task' = [task EXCEPT ![r] = t]
      BY <1>6, <2>3, FoundTask DEF Phase
    <2>5. CachedAnswer(t, 1)
      <3>1. <<t.model, t.content>> = <<t.answer.model, t.answer.content>>
        BY <2>1, <2>2, <2>4 DEF DiskEntry, KeyFits, key, Key
      <3>2. now - found.added <= TTL /\ found.added <= t.answer.at + Latency
        BY <1>6, <2>2, <2>4 DEF DiskEntry, Fresh
      <3>3. t.answer.at \in Int /\ found.added \in Int /\ now \in Int
        <4>1. t.answer \in Answer
          BY DEF TaskState
        <4>2. \A n \in Times : n \in Int
          BY Numbers DEF Times
        <4>3. now \in Times
          BY DEF IInv, TypeOK
        <4>4. QED
          BY <2>3, <4>1, <4>2, <4>3 DEF Answer
      <3>4. now <= t.answer.at + Latency + 1 * TTL
        BY <3>2, <3>3, Numbers
      <3>5. QED
        BY <3>1, <3>4 DEF CachedAnswer
    <2>6. AnswerInv(t) /\ ModelInv(t)
      BY <1>3, <2>4, <2>5 DEF AnswerInv, ModelInv
    <2>7. QED
      BY <1>1, <1>2, <2>4, <2>6, OneTask
  <1>7. QED
    BY <1>4, <1>5, <1>6 DEF DiskGet

LEMMA DiskRemoveIInv ==
  ASSUME IInv, NEW r \in Requesters, DiskRemove(r)
  PROVE  IInv'
  <1>1. /\ UNCHANGED <<now, service, alias, lru, closed>> /\ Miss(r)
        /\ disk' = Without(disk, Key(r))
    BY DEF DiskRemove
  <1>2. disk' \in Seq(Entry) /\ Unique(disk') /\ Within(disk', disk)
    BY <1>1, WithoutProperties DEF IInv, TypeOK
  <1>3. TierTypes' /\ TiersInv'
    BY <1>1, <1>2 DEF Within, IInv, TypeOK, TierTypes, TiersInv, Unique
  <1>4. QED
    BY <1>1, <1>3, SameAlias, MissIInv

(* A promotion enters memory while the answer is one lifetime old at most.  *)
LEMMA PromoteIInv ==
  ASSUME IInv, NEW r \in Requesters, Promote(r)
  PROVE  IInv'
  <1>1. /\ UNCHANGED <<now, service, alias, disk, closed>>
        /\ task[r].pc = "promote"
        /\ LruPut(Key(r), task[r].answer) /\ Goto(r, "hit")
    BY DEF Promote, At
  <1>2. /\ task[r] \in TaskState /\ CachedAnswer(task[r], 1)
        /\ Lagging(task[r].model, now, TTL + Latency)
        /\ now \in Int
    BY <1>1, Numbers
       DEF IInv, TypeOK, TaskInv, AnswerInv, ModelInv, Times
  <1>3. /\ Key(r) \in Keys /\ task[r].answer \in Answer
        /\ task[r].answer.at \in Int
    BY <1>2, Numbers DEF Key, Keys, TaskState, Answer, Times
  <1>4. MemoryEntry(Entered(Key(r), task[r].answer))
    BY <1>2, <1>3, Numbers
       DEF MemoryEntry, KeyFits, Entered, CachedAnswer, Key
  <1>5. TierTypes' /\ TiersInv'
    BY <1>1, <1>3, <1>4, LruPutTiers
  <1>6. PICK t \in TaskState :
           /\ t.pc = "hit" /\ t.model = task[r].model
           /\ t.content = task[r].content /\ t.answer = task[r].answer
           /\ task' = [task EXCEPT ![r] = t]
    BY <1>1, GotoProperties DEF Phase
  <1>7. CachedAnswer(t, 2)
    BY <1>2, <1>3, <1>6, Numbers DEF CachedAnswer
  <1>8. AnswerInv(t) /\ ModelInv(t)
    BY <1>2, <1>6, <1>7 DEF AnswerInv, ModelInv
  <1>9. QED
    BY <1>1, <1>5, <1>6, <1>8, SameAlias, OneTask

LEMMA EndsIInv ==
  ASSUME IInv, NEW r \in Requesters, ServeHit(r) \/ CallFails(r)
  PROVE  IInv'
  <1>1. UNCHANGED <<now, service, alias, lru, disk, closed>> /\ Finish(r)
    BY DEF ServeHit, CallFails
  <1>2. QED
    BY <1>1, SameTiers, SameAlias, FinishIInv

-----------------------------------------------------------------------------
(* The service answers with the model of the moment.                        *)
LEMMA EvaluateIInv ==
  ASSUME IInv, NEW r \in Requesters, Evaluate(r)
  PROVE  IInv'
  <1> DEFINE a == [model |-> current, content |-> task[r].content, at |-> now]
             t == [task[r] EXCEPT !.pc = "answered", !.answer = a]
  <1>1. UNCHANGED <<now, service, alias, lru, disk, closed>>
    BY DEF Evaluate
  <1>2. /\ task[r] \in TaskState /\ current \in Models /\ now \in Times
        /\ now \in Int
    BY Numbers DEF IInv, TypeOK, Times
  <1>3. a \in Answer
    BY <1>2 DEF TaskState, Answer
  <1>4. /\ t \in TaskState /\ t.pc = "answered" /\ t.answer = a
        /\ t.content = task[r].content
    BY <1>2, <1>3 DEF TaskState, Phase
  <1>5. task' = [task EXCEPT ![r] = t]
    BY DEF Evaluate, IInv, TypeOK
  <1> HIDE DEF t
  <1>6. LiveAnswer(t)
    BY <1>2, <1>4, Numbers DEF LiveAnswer
  <1>7. Lagging(t.answer.model, t.answer.at, 0)
    BY <1>2, <1>4 DEF Lagging, Models
  <1>8. AnswerInv(t) /\ ModelInv(t)
    BY <1>4, <1>6, <1>7 DEF AnswerInv, ModelInv
  <1>9. QED
    BY <1>1, <1>4, <1>5, <1>8, TaskOnly

(* A mapping is learned when the answer arrives, at most Latency after the  *)
(* service still gave it.                                                   *)
LEMMA LearnIInv ==
  ASSUME IInv, NEW r \in Requesters, Learn(r)
  PROVE  IInv'
  <1>1. /\ UNCHANGED <<now, service, lru, disk, closed>>
        /\ task[r].pc = "answered" /\ Goto(r, "store")
        /\ alias' = [model |-> task[r].answer.model, at |-> now]
    BY DEF Learn, At
  <1>2. /\ task[r] \in TaskState /\ LiveAnswer(task[r])
        /\ Lagging(task[r].answer.model, task[r].answer.at, 0)
        /\ now \in Times /\ now \in Int /\ current \in Models
        /\ movedAt \in [Models -> Times]
    BY <1>1, Numbers DEF IInv, TypeOK, TaskInv, AnswerInv, ModelInv, Times
  <1>3. task[r].answer.model \in Models /\ task[r].answer.at \in Int
    BY <1>2, Numbers DEF TaskState, Answer, Times
  <1>4. movedAt[task[r].answer.model] \in Int
    BY <1>2, <1>3, Numbers DEF Times
  <1>5. alias' \in [model: Models \cup {0}, at: Times]
    BY <1>1, <1>2, <1>3
  <1>6. AliasInv'
    <2>1. Lagging(task[r].answer.model, now, Latency)
      BY <1>2, <1>3, <1>4, Numbers DEF Lagging, LiveAnswer
    <2>2. QED
      BY <1>1, <1>2, <2>1 DEF AliasInv, Lagging, service
  <1>7. PICK t \in TaskState :
           /\ t.pc = "store" /\ t.model = task[r].model
           /\ t.content = task[r].content /\ t.answer = task[r].answer
           /\ task' = [task EXCEPT ![r] = t]
    BY <1>1, GotoProperties DEF Phase
  <1>8. AnswerInv(t) /\ ModelInv(t)
    BY <1>2, <1>7 DEF AnswerInv, ModelInv, LiveAnswer
  <1>9. QED
    BY <1>1, <1>5, <1>6, <1>7, <1>8, SameTiers, OneTask

(* A live answer enters memory under its own model and content.             *)
LEMMA StoreIInv ==
  ASSUME IInv, NEW r \in Requesters, Store(r)
  PROVE  IInv'
  <1>1. /\ UNCHANGED <<now, service, alias, disk, closed>>
        /\ task[r].pc = "store"
    BY DEF Store, At
  <1>2. CASE Finish(r) /\ UNCHANGED lru
    BY <1>1, <1>2, SameTiers, SameAlias, FinishIInv
  <1>3. CASE LruPut(StoreKey(r), task[r].answer) /\ Goto(r, "write")
    <2>1. task[r] \in TaskState /\ LiveAnswer(task[r]) /\ now \in Int
      BY <1>1, Numbers DEF IInv, TypeOK, TaskInv, AnswerInv, Times
    <2>2. /\ StoreKey(r) \in Keys /\ task[r].answer \in Answer
          /\ task[r].answer.at \in Int
      BY <2>1, Numbers DEF StoreKey, Keys, TaskState, Answer, Times
    <2>3. MemoryEntry(Entered(StoreKey(r), task[r].answer))
      BY <2>1, <2>2, Numbers
         DEF MemoryEntry, KeyFits, Entered, LiveAnswer, StoreKey
    <2>4. TierTypes' /\ TiersInv'
      BY <1>1, <1>3, <2>2, <2>3, LruPutTiers
    <2>5. PICK t \in TaskState :
             /\ t.pc = "write" /\ t.model = task[r].model
             /\ t.content = task[r].content /\ t.answer = task[r].answer
             /\ task' = [task EXCEPT ![r] = t]
      BY <1>3, GotoProperties DEF Phase
    <2>6. AnswerInv(t) /\ ModelInv(t)
      BY <2>1, <2>5 DEF AnswerInv, ModelInv, LiveAnswer
    <2>7. QED
      BY <1>1, <2>4, <2>5, <2>6, SameAlias, OneTask
  <1>4. QED
    BY <1>2, <1>3 DEF Store

(* The file of an answer carries the time of its arrival.                   *)
LEMMA WriteIInv ==
  ASSUME IInv, NEW r \in Requesters, Write(r)
  PROVE  IInv'
  <1>1. /\ UNCHANGED <<now, service, alias, lru, closed>>
        /\ task[r].pc = "write"
    BY DEF Write, At
  <1>2. CASE Finish(r) /\ UNCHANGED disk
    BY <1>1, <1>2, SameTiers, SameAlias, FinishIInv
  <1>3. CASE /\ disk' = Append(Without(disk, StoreKey(r)),
                               Entered(StoreKey(r), task[r].answer))
             /\ Goto(r, "prune")
    <2> DEFINE e == Entered(StoreKey(r), task[r].answer)
    <2>1. task[r] \in TaskState /\ LiveAnswer(task[r]) /\ now \in Int
      BY <1>1, Numbers DEF IInv, TypeOK, TaskInv, AnswerInv, Times
    <2>2. /\ StoreKey(r) \in Keys /\ task[r].answer \in Answer
          /\ task[r].answer.at \in Int
      BY <2>1, Numbers DEF StoreKey, Keys, TaskState, Answer, Times
    <2>3. e \in Entry /\ e.key = StoreKey(r)
      BY <2>2 DEF Entered, Entry, IInv, TypeOK
    <2>4. DiskEntry(e)
      BY <2>1, <2>2, Numbers
         DEF DiskEntry, KeyFits, Entered, LiveAnswer, StoreKey
    <2>5. disk' = Append(Without(disk, e.key), e)
      BY <1>3, <2>3
    <2> HIDE DEF e
    <2>6. /\ disk' \in Seq(Entry) /\ Unique(disk')
          /\ \A k \in 1..Len(disk') :
                disk'[k] = e \/ \E j \in 1..Len(disk) : disk'[k] = disk[j]
      BY <2>3, <2>5, BackProperties DEF IInv, TypeOK
    <2>7. \A k \in 1..Len(disk') : DiskEntry(disk'[k])
      BY <2>4, <2>6 DEF IInv, TiersInv
    <2>8. TierTypes' /\ TiersInv'
      BY <1>1, <2>6, <2>7 DEF IInv, TypeOK, TierTypes, TiersInv, Unique
    <2>9. PICK t \in TaskState :
             t.pc = "prune" /\ task' = [task EXCEPT ![r] = t]
      BY <1>3, GotoProperties DEF Phase
    <2>10. AnswerInv(t) /\ ModelInv(t)
      BY <2>9 DEF AnswerInv, ModelInv
    <2>11. QED
      BY <1>1, <2>8, <2>9, <2>10, SameAlias, OneTask
  <1>4. QED
    BY <1>2, <1>3 DEF Write

LEMMA PruneIInv ==
  ASSUME IInv, NEW r \in Requesters, Prune(r)
  PROVE  IInv'
  <1>1. /\ UNCHANGED <<now, service, alias, lru, closed>> /\ Finish(r)
        /\ disk' = IF Len(disk) > DiskMax
                   THEN SubSeq(disk, Len(disk) - DiskMax + 1, Len(disk))
                   ELSE disk
    BY DEF Prune
  <1>2. CASE ~(Len(disk) > DiskMax)
    BY <1>1, <1>2, SameTiers, SameAlias, FinishIInv
  <1>3. CASE Len(disk) > DiskMax
    <2>1. disk \in Seq(Entry) /\ Unique(disk) /\ Len(disk) \in Nat
      BY LenProperties DEF IInv, TypeOK
    <2>2. /\ Len(disk) - DiskMax + 1 \in 1..(Len(disk) + 1)
          /\ Len(disk) <= Len(disk)
      BY <1>3, <2>1, Numbers
    <2>3. disk' \in Seq(Entry) /\ Unique(disk') /\ Within(disk', disk)
      BY <1>1, <1>3, <2>1, <2>2, StretchProperties
    <2>4. TierTypes' /\ TiersInv'
      BY <1>1, <2>3 DEF Within, IInv, TypeOK, TierTypes, TiersInv, Unique
    <2>5. QED
      BY <1>1, <2>4, SameAlias, FinishIInv
  <1>4. QED
    BY <1>2, <1>3

-----------------------------------------------------------------------------
(* An empty tier, and a tier that is left alone, keep what they promise.    *)
LEMMA EmptyTiers ==
  ASSUME IInv, UNCHANGED lru \/ lru' = <<>>, UNCHANGED disk \/ disk' = <<>>
  PROVE  TierTypes' /\ TiersInv'
  <1>1. /\ <<>> \in Seq(Entry) /\ Len(<<>>) = 0 /\ Unique(<<>>)
        /\ 0 <= MaxEntries
    BY Numbers DEF Unique
  <1>2. lru' \in Seq(Entry) /\ Len(lru') <= MaxEntries /\ Unique(lru)'
    BY <1>1 DEF IInv, TypeOK, Unique
  <1>3. disk' \in Seq(Entry) /\ Unique(disk)'
    BY <1>1 DEF IInv, TypeOK, Unique
  <1>4. \A k \in 1..Len(lru') : MemoryEntry(lru'[k])
    BY <1>1 DEF IInv, TiersInv
  <1>5. \A k \in 1..Len(disk') : DiskEntry(disk'[k])
    BY <1>1 DEF IInv, TiersInv
  <1>6. QED
    BY <1>2, <1>3, <1>4, <1>5
       DEF TierTypes, TiersInv, MemoryEntry, DiskEntry, KeyFits

(* Purge, PurgeDisk, Close and ForgetAliases disturb no requester.          *)
LEMMA EmptyingIInv ==
  ASSUME IInv, Purge \/ ForgetAliases \/ PurgeDisk \/ Close
  PROVE  IInv'
  <1>1. /\ UNCHANGED <<now, service, task>>
        /\ UNCHANGED alias \/ alias' = Nothing
        /\ UNCHANGED lru \/ lru' = <<>>
        /\ UNCHANGED disk \/ disk' = <<>>
        /\ closed' \in BOOLEAN
    BY DEF Purge, ForgetAliases, PurgeDisk, Close, IInv, TypeOK
  <1>2. TierTypes' /\ TiersInv'
    BY <1>1, EmptyTiers
  <1>3. now \in Times /\ now \in Int /\ 0 \in Times /\ 0 <= now
    BY Numbers DEF IInv, TypeOK, Times
  <1>4. /\ Nothing.model = 0 /\ Nothing.at = 0
        /\ Nothing \in [model: Models \cup {0}, at: Times]
    BY <1>3 DEF Nothing
  <1>5. alias' \in [model: Models \cup {0}, at: Times]
    BY <1>1, <1>4 DEF IInv, TypeOK
  <1>6. AliasInv'
    BY <1>1, <1>3, <1>4 DEF IInv, AliasInv, Lagging, service
  <1>7. TaskInv'
    BY <1>1 DEF IInv, TaskInv, AnswerInv, ModelInv, LiveAnswer, CachedAnswer,
                Lagging, service
  <1>8. QED
    BY <1>1, <1>2, <1>5, <1>6, <1>7 DEF IInv, TypeOK, TierTypes, service

(* After a restart the files are all there is.                              *)
LEMMA RestartIInv ==
  ASSUME IInv, Restart
  PROVE  IInv'
  <1>1. /\ UNCHANGED <<now, service, disk>> /\ lru' = <<>>
        /\ alias' = Nothing /\ closed' = FALSE
        /\ task' = [r \in Requesters |-> Idle]
    BY DEF Restart
  <1>2. TierTypes' /\ TiersInv'
    BY <1>1, EmptyTiers
  <1>3. 0 \in Times /\ 0 <= now
    BY Numbers DEF IInv, TypeOK, Times
  <1>4. alias' \in [model: Models \cup {0}, at: Times] /\ AliasInv'
    BY <1>1, <1>3 DEF Nothing, AliasInv
  <1>5. task' \in [Requesters -> TaskState]
    BY <1>1, Numbers
  <1>6. TaskInv'
    BY <1>1, Numbers DEF TaskInv, AnswerInv, ModelInv
  <1>7. QED
    BY <1>1, <1>2, <1>4, <1>5, <1>6 DEF IInv, TypeOK, TierTypes, service

(* What was good for the current model lags when the alias moves on, by no  *)
(* more than it may: it is not younger than the move.                       *)
LEMMA LaggingOnMove ==
  ASSUME IInv, AliasMoves, NEW m \in Models, NEW time \in Int,
         NEW slack \in Nat, time <= now, Lagging(m, time, slack)
  PROVE  m <= current' /\ (m < current' => time <= movedAt'[m] + slack)
  <1>1. /\ current \in Models /\ now \in Int
        /\ movedAt \in [Models -> Times] /\ m \in Int /\ current \in Int
    BY Numbers DEF IInv, TypeOK, Models, Times
  <1>2. current' = current + 1 /\ movedAt' = [movedAt EXCEPT ![current] = now]
    BY DEF AliasMoves
  <1>3. m <= current /\ (m < current => time <= movedAt[m] + slack)
    BY DEF Lagging
  <1>4. movedAt'[current] = now
    BY <1>1, <1>2
  <1>5. m # current => movedAt'[m] = movedAt[m]
    BY <1>1, <1>2
  <1>6. CASE m = current
    BY <1>1, <1>2, <1>4, <1>6
  <1>7. CASE m # current
    BY <1>1, <1>2, <1>3, <1>5, <1>7
  <1>8. QED
    BY <1>6, <1>7

LEMMA AliasMovesIInv ==
  ASSUME IInv, AliasMoves
  PROVE  IInv'
  <1>1. /\ UNCHANGED <<now, alias, lru, disk, closed, task>>
        /\ current < Versions /\ current' = current + 1
        /\ movedAt' = [movedAt EXCEPT ![current] = now]
    BY DEF AliasMoves
  <1>2. TierTypes' /\ TiersInv'
    BY <1>1, EmptyTiers
  <1>3. now \in Times /\ now \in Int /\ current \in Models
    BY Numbers DEF IInv, TypeOK, Times
  <1>4. current' \in Models /\ movedAt' \in [Models -> Times]
    BY <1>1, <1>3, Numbers DEF IInv, TypeOK, Models
  <1>5. TypeOK'
    BY <1>1, <1>2, <1>4 DEF IInv, TypeOK, TierTypes
  <1>6. AliasInv'
    <2>1. alias.at <= now /\ alias.at \in Int
      BY Numbers DEF IInv, AliasInv, TypeOK, Times
    <2>2. ASSUME alias.model # 0
          PROVE  /\ alias.model <= current'
                 /\ alias.model < current' =>
                       alias.at <= movedAt'[alias.model] + Latency
      <3>1. alias.model \in Models /\ Lagging(alias.model, alias.at, Latency)
        BY <2>2 DEF IInv, AliasInv, TypeOK
      <3>2. QED
        BY <2>1, <3>1, LaggingOnMove, Numbers
    <2>3. QED
      BY <1>1, <2>1, <2>2 DEF AliasInv, Lagging
  <1>7. TaskInv'
    <2> SUFFICES ASSUME NEW r \in Requesters
                 PROVE  AnswerInv(task[r])' /\ ModelInv(task[r])'
      BY DEF TaskInv
    <2>1. task[r] \in TaskState /\ AnswerInv(task[r]) /\ ModelInv(task[r])
      BY DEF IInv, TypeOK, TaskInv
    <2>2. /\ task[r].model \in Models /\ task[r].answer \in Answer
          /\ task[r].answer.model \in Models /\ task[r].answer.at \in Int
      BY <2>1, Numbers DEF TaskState, Answer, Times
    <2>3. AnswerInv(task[r])'
      BY <1>1, <2>1 DEF AnswerInv, LiveAnswer, CachedAnswer
    <2>4. task[r].pc \in {"answered", "store"} =>
             /\ task[r].answer.model <= current'
             /\ task[r].answer.model < current' =>
                   task[r].answer.at <= movedAt'[task[r].answer.model] + 0
      BY <2>1, <2>2, LaggingOnMove DEF ModelInv, AnswerInv, LiveAnswer
    <2>5. task[r].pc \in {"memory", "disk", "expired", "promote", "hit"} =>
             /\ task[r].model <= current'
             /\ task[r].model < current' =>
                   now <= movedAt'[task[r].model] + (TTL + Latency)
      BY <1>3, <2>1, <2>2, LaggingOnMove, Numbers DEF ModelInv
    <2>6. ModelInv(task[r])'
      BY <1>1, <2>4, <2>5 DEF ModelInv, Lagging
    <2>7. QED
      BY <2>3, <2>6
  <1>8. QED
    BY <1>2, <1>5, <1>6, <1>7 DEF IInv

(* Time passes only over requesters that wait for the service.              *)
LEMMA TickIInv ==
  ASSUME IInv, Tick
  PROVE  IInv'
  <1>1. /\ UNCHANGED <<service, alias, lru, disk, closed, task>>
        /\ now < Horizon /\ now' = now + 1
        /\ \A r \in Requesters :
              \/ task[r].pc \in {"idle", "call"}
              \/ task[r].pc = "answered" /\ now < task[r].answer.at + Latency
    BY DEF Tick, At
  <1>2. TierTypes' /\ TiersInv'
    BY <1>1, EmptyTiers
  <1>3. now \in Int /\ now' \in Int /\ now' \in Times
    BY <1>1, Numbers DEF IInv, TypeOK, Times
  <1>4. TypeOK'
    BY <1>1, <1>2, <1>3 DEF IInv, TypeOK, TierTypes, service
  <1>5. AliasInv'
    <2>1. alias.at \in Int
      BY Numbers DEF IInv, TypeOK, Times
    <2>2. alias.at <= now'
      BY <1>1, <1>3, <2>1 DEF IInv, AliasInv
    <2>3. QED
      BY <1>1, <2>2 DEF IInv, AliasInv, Lagging, service
  <1>6. TaskInv'
    <2> SUFFICES ASSUME NEW r \in Requesters
                 PROVE  AnswerInv(task[r])' /\ ModelInv(task[r])'
      BY DEF TaskInv
    <2>1. task[r] \in TaskState /\ AnswerInv(task[r]) /\ ModelInv(task[r])
      BY DEF IInv, TypeOK, TaskInv
    <2>2. task[r].answer.at \in Int
      BY <2>1, Numbers DEF TaskState, Answer, Times
    <2>3. CASE task[r].pc \in {"idle", "call"}
      BY <1>1, <2>3 DEF AnswerInv, ModelInv
    <2>4. CASE task[r].pc = "answered" /\ now < task[r].answer.at + Latency
      <3>1. /\ LiveAnswer(task[r])
            /\ Lagging(task[r].answer.model, task[r].answer.at, 0)
        BY <2>1, <2>4 DEF AnswerInv, ModelInv
      <3>2. task[r].answer.at <= now' /\ now' <= task[r].answer.at + Latency
        BY <1>1, <1>3, <2>2, <2>4, <3>1, Numbers DEF LiveAnswer
      <3>3. LiveAnswer(task[r])'
        BY <1>1, <3>1, <3>2 DEF LiveAnswer
      <3>4. Lagging(task[r].answer.model, task[r].answer.at, 0)'
        BY <1>1, <3>1 DEF Lagging, service
      <3>5. task'[r].pc = "answered"
        BY <1>1, <2>4
      <3>6. QED
        BY <3>3, <3>4, <3>5 DEF AnswerInv, ModelInv
    <2>5. QED
      BY <1>1, <2>3, <2>4
  <1>7. QED
    BY <1>2, <1>4, <1>5, <1>6 DEF IInv

LEMMA NextIInv == IInv /\ [Next]_vars => IInv'
  <1> SUFFICES ASSUME IInv, [Next]_vars PROVE IInv'
    OBVIOUS
  <1>1. ASSUME NEW r \in Requesters,
               \/ Lookup(r) \/ MemoryGet(r) \/ DiskGet(r) \/ DiskRemove(r)
               \/ Promote(r) \/ ServeHit(r)
               \/ Evaluate(r) \/ CallFails(r) \/ Learn(r)
               \/ Store(r) \/ Write(r) \/ Prune(r)
        PROVE  IInv'
    BY <1>1, LookupIInv, MemoryGetIInv, DiskGetIInv, DiskRemoveIInv,
       PromoteIInv, EndsIInv, EvaluateIInv, LearnIInv, StoreIInv, WriteIInv,
       PruneIInv
  <1>2. CASE Purge \/ ForgetAliases \/ PurgeDisk \/ Close
    BY <1>2, EmptyingIInv
  <1>3. CASE Restart
    BY <1>3, RestartIInv
  <1>4. CASE AliasMoves
    BY <1>4, AliasMovesIInv
  <1>5. CASE Tick
    BY <1>5, TickIInv
  <1>6. CASE UNCHANGED vars
    BY <1>6 DEF vars, service, IInv, TypeOK, Unique, TiersInv, MemoryEntry,
                DiskEntry, KeyFits, AliasInv, TaskInv, AnswerInv, ModelInv,
                LiveAnswer, CachedAnswer, Lagging
  <1>7. QED
    BY <1>1, <1>2, <1>3, <1>4, <1>5, <1>6 DEF Next

(* The invariant of the cache holds in every reachable state.               *)
THEOREM Inductive == Spec => []IInv
  BY InitIInv, NextIInv, PTL DEF Spec

(* Types; the memory tier keeps within its capacity and neither tier ever   *)
(* holds two entries of a key.                                              *)
THEOREM TypeCorrect == Spec => []TypeOK
  <1>1. IInv => TypeOK
    BY DEF IInv
  <1>2. QED
    BY <1>1, Inductive, PTL

(* A cached answer answers the question that was asked, with the model the  *)
(* lookup resolved the alias to.                                            *)
THEOREM HitsMatchTheirLookups == Spec => []HitMatchesLookup
  <1>1. IInv => HitMatchesLookup
    BY DEF IInv, TaskInv, AnswerInv, CachedAnswer, HitMatchesLookup, At, Key
  <1>2. QED
    BY <1>1, Inductive, PTL

(* A cached answer of a model that the alias left is served for at most the *)
(* lifetime of a mapping, and the latency of an answer, after the move.     *)
THEOREM AliasMovesAreNoticed == Spec => []MoveNoticed
  <1>1. IInv => MoveNoticed
    <2> SUFFICES ASSUME IInv, NEW r \in Requesters, At(r, "hit"),
                        task[r].answer.model < current
                 PROVE  now <= movedAt[task[r].answer.model] + TTL + Latency
      BY DEF MoveNoticed
    <2>1. /\ task[r] \in TaskState /\ movedAt \in [Models -> Times]
          /\ CachedAnswer(task[r], 2)
          /\ Lagging(task[r].model, now, TTL + Latency)
      BY DEF At, IInv, TypeOK, TaskInv, AnswerInv, ModelInv
    <2>2. task[r].answer.model = task[r].model
      BY <2>1 DEF CachedAnswer
    <2>3. movedAt[task[r].model] \in Int
      BY <2>1, Numbers DEF TaskState, Times
    <2>4. QED
      BY <2>1, <2>2, <2>3, Numbers DEF Lagging
  <1>2. QED
    BY <1>1, Inductive, PTL

(* No cached answer outlives two lifetimes, whichever tiers it went through *)
(* and whatever was purged, closed or restarted on its way.                 *)
THEOREM AnswersLiveTwoLifetimes == Spec => []ServedWithinTwoTTLs
  <1>1. IInv => ServedWithinTwoTTLs
    BY DEF IInv, TaskInv, AnswerInv, CachedAnswer, ServedWithinTwoTTLs, At
  <1>2. QED
    BY <1>1, Inductive, PTL
=============================================================================
