----------------------------- MODULE ServicesProofs ----------------------------
(***************************************************************************)
(* Proofs about the components around the client that share nothing: the   *)
(* policy server, for any number of policies, tool calls and replacements; *)
(* the mock and the recording server, for any script and any clients;      *)
(* cassettes, for any requests, workers and sessions and a process that    *)
(* may end at any point; and the tracer, the metrics and the hooks, for    *)
(* any number of calls and of retries.                                     *)
(***************************************************************************)
EXTENDS PolicyServer, Cassette, TestDoubles, Instrumentation,
        FiniteSetTheorems, SequenceTheorems, TLAPS

-----------------------------------------------------------------------------
(* The policy server.                                                       *)

Specs == [version: Int, asks: SUBSET QuestionIds, weighs: SUBSET QuestionIds,
          onMissing: MissingPolicies]
ToolState == [pc: {"idle", "asking", "evaluating", "error", "verdict", "failed"},
              name: Names \cup {Blank}, spec: Specs,
              answered: SUBSET QuestionIds, readable: SUBSET QuestionIds,
              verdict: Int, counted: SUBSET QuestionIds,
              lacks: SUBSET QuestionIds, known: SUBSET (Names \cup {Blank})]

PolicyTypeInv ==
    /\ policies \in [Names \cup {Blank} -> Specs]
    /\ version \in Int
    /\ tool \in [Tools -> ToolState]

(* What AddPolicy lets in, and a tool call keeps after it has been replaced. *)
SoundSpec(spec) == spec.weighs \subseteq spec.asks /\ spec.asks # {}

(* A verdict is the policy's own and counts every readable answer that the  *)
(* policy weighs; a failure names questions that were answered unreadably.  *)
JudgedSoundly(t) ==
    /\ t.verdict = t.spec.version
    /\ t.counted \subseteq t.spec.weighs
    /\ t.spec.weighs \cap t.readable \subseteq t.counted
    /\ t.spec.onMissing = "error" => t.spec.weighs \subseteq t.readable
FailedSoundly(t) ==
    /\ t.lacks # {}
    /\ t.lacks \subseteq t.answered \ t.readable
    /\ t.spec.onMissing = "error"

(* A tool call works on a specification that was registered when it looked, *)
(* and the service has answered all of its questions or none.               *)
ToolInv(t) ==
    /\ t.pc \in {"asking", "evaluating"} => SoundSpec(t.spec)
    /\ t.pc \in {"evaluating", "verdict"} => t.answered = t.spec.asks
    /\ t.pc = "verdict" => JudgedSoundly(t)
    /\ t.pc = "failed" => FailedSoundly(t)

PolicyIInv ==
    /\ PolicyTypeInv
    /\ \A n \in Names \cup {Blank} : policies[n] = NoSpec \/ SoundSpec(policies[n])
    /\ \A t \in Tools : ToolInv(tool[t])

LEMMA NoSpecAndIdle ==
  /\ NoSpec \in Specs /\ Idle \in ToolState /\ Idle.pc = "idle"
  BY DEF NoSpec, Idle, Specs, ToolState, MissingPolicies

LEMMA PolicyInitIInv == PolicyInit => PolicyIInv
  BY NoSpecAndIdle DEF PolicyInit, PolicyIInv, PolicyTypeInv, ToolInv

(* One tool call moves; the others and the policies stay.                   *)
LEMMA OneTool ==
  ASSUME PolicyIInv, UNCHANGED <<policies, version>>,
         NEW t \in Tools, NEW s \in ToolState, ToolInv(s),
         tool' = [tool EXCEPT ![t] = s]
  PROVE  PolicyIInv'
  <1>1. PolicyTypeInv'
    BY DEF PolicyIInv, PolicyTypeInv
  <1>2. \A u \in Tools : ToolInv(tool'[u])
    BY DEF PolicyIInv, PolicyTypeInv
  <1>3. QED
    BY <1>1, <1>2 DEF PolicyIInv, ToolInv, SoundSpec

(* AddPolicy registers what weighs only what it asks; no tool call notices. *)
LEMMA AddPolicyIInv ==
  ASSUME PolicyIInv, NEW n \in Names \cup {Blank}, NEW asks \in SUBSET QuestionIds,
         NEW weighs \in SUBSET QuestionIds, NEW onMissing \in MissingPolicies,
         NEW valid \in BOOLEAN, AddPolicy(n, asks, weighs, onMissing, valid)
  PROVE  PolicyIInv'
  <1> DEFINE spec == [version |-> version + 1, asks |-> asks, weighs |-> weighs,
                      onMissing |-> onMissing]
  <1>1. /\ version' = version + 1 /\ UNCHANGED tool
        /\ policies' = IF Acceptable(n, spec, valid)
                       THEN [policies EXCEPT ![n] = spec] ELSE policies
    BY DEF AddPolicy
  <1>2. spec \in Specs /\ version' \in Int
    BY <1>1 DEF PolicyIInv, PolicyTypeInv, Specs
  <1>3. Acceptable(n, spec, valid) => SoundSpec(spec)
    BY DEF Acceptable, SoundSpec
  <1> HIDE DEF spec
  <1>4. PolicyTypeInv'
    BY <1>1, <1>2 DEF PolicyIInv, PolicyTypeInv
  <1>5. \A m \in Names \cup {Blank} : policies'[m] = NoSpec \/ SoundSpec(policies'[m])
    BY <1>1, <1>3 DEF PolicyIInv, PolicyTypeInv
  <1>6. QED
    BY <1>1, <1>4, <1>5 DEF PolicyIInv, ToolInv, SoundSpec

(* A tool call looks a policy up and keeps what it found.                   *)
LEMMA LookIInv ==
  ASSUME PolicyIInv, NEW t \in Tools, NEW n \in Names \cup {Blank}, Look(t, n)
  PROVE  PolicyIInv'
  <1> DEFINE s == [Idle EXCEPT
                     !.pc = IF policies[n] = NoSpec THEN "error" ELSE "asking",
                     !.name = n, !.spec = policies[n], !.known = Policies]
  <1>1. /\ UNCHANGED <<policies, version>> /\ tool' = [tool EXCEPT ![t] = s]
    BY DEF Look
  <1>2. /\ s \in ToolState /\ s.spec = policies[n]
        /\ s.pc = IF policies[n] = NoSpec THEN "error" ELSE "asking"
    BY NoSpecAndIdle DEF PolicyIInv, PolicyTypeInv, ToolState, Policies
  <1> HIDE DEF s
  <1>3. ToolInv(s)
    BY <1>2 DEF PolicyIInv, ToolInv
  <1>4. QED
    BY <1>1, <1>2, <1>3, OneTool

LEMMA AnsweredIInv ==
  ASSUME PolicyIInv, NEW t \in Tools, Answered(t)
  PROVE  PolicyIInv'
  <1> DEFINE failed == [tool[t] EXCEPT !.pc = "error"]
             answered(readable) == [tool[t] EXCEPT !.pc = "evaluating",
                                                   !.answered = tool[t].spec.asks,
                                                   !.readable = readable]
  <1>1. /\ tool[t].pc = "asking" /\ UNCHANGED <<policies, version>>
        /\ \/ tool' = [tool EXCEPT ![t] = failed]
           \/ \E readable \in SUBSET tool[t].spec.asks :
                 tool' = [tool EXCEPT ![t] = answered(readable)]
    BY DEF Answered, PolicyIInv, PolicyTypeInv
  <1>2. tool[t] \in ToolState /\ ToolInv(tool[t])
    BY DEF PolicyIInv, PolicyTypeInv
  <1>3. failed \in ToolState /\ ToolInv(failed)
    BY <1>2 DEF ToolState, ToolInv
  <1>4. ASSUME NEW readable \in SUBSET tool[t].spec.asks
        PROVE  answered(readable) \in ToolState /\ ToolInv(answered(readable))
    <2>1. /\ tool[t].spec.asks \in SUBSET QuestionIds
          /\ readable \in SUBSET QuestionIds
      BY <1>2 DEF ToolState, Specs
    <2>2. /\ answered(readable) \in ToolState
          /\ answered(readable).pc = "evaluating"
          /\ answered(readable).spec = tool[t].spec
          /\ answered(readable).answered = tool[t].spec.asks
      BY <1>2, <2>1 DEF ToolState
    <2> HIDE DEF answered
    <2>3. QED
      BY <1>1, <1>2, <2>2 DEF ToolInv
  <1>5. QED
    BY <1>1, <1>3, <1>4, OneTool

(* The specification that was read weighs nothing that was not answered.    *)
LEMMA EvaluateIInv ==
  ASSUME PolicyIInv, NEW t \in Tools, EvaluatePolicy(t)
  PROVE  PolicyIInv'
  <1> DEFINE s == [tool[t] EXCEPT !.pc = "verdict",
                                  !.verdict = tool[t].spec.version,
                                  !.counted = Composed(t)]
             f == [tool[t] EXCEPT !.pc = "failed", !.lacks = Unread(t)]
  <1>1. tool[t].pc = "evaluating" /\ UNCHANGED <<policies, version>>
    BY DEF EvaluatePolicy
  <1>2. tool[t] \in ToolState /\ ToolInv(tool[t])
    BY DEF PolicyIInv, PolicyTypeInv
  <1>3. /\ tool[t].spec.weighs \subseteq tool[t].answered
        /\ tool[t].answered = tool[t].spec.asks
        /\ tool[t].spec.weighs \in SUBSET QuestionIds
    BY <1>1, <1>2 DEF ToolInv, SoundSpec, ToolState, Specs
  <1>4. tool' = [tool EXCEPT ![t] = IF Fails(t) THEN f ELSE s]
    BY DEF EvaluatePolicy, Judge, PolicyIInv, PolicyTypeInv
  <1>5. CASE ~Fails(t)
    <2>1. /\ s \in ToolState /\ s.pc = "verdict" /\ s.spec = tool[t].spec
          /\ s.answered = tool[t].answered /\ s.readable = tool[t].readable
          /\ s.verdict = s.spec.version /\ s.counted = Composed(t)
      BY <1>2, <1>3 DEF ToolState, Specs, Composed, Unread, Judge
    <2> HIDE DEF s
    <2>2. JudgedSoundly(s)
      BY <1>5, <2>1 DEF JudgedSoundly, Fails, Composed, Unread, Judge
    <2>3. ToolInv(s)
      BY <1>3, <2>1, <2>2 DEF ToolInv
    <2> QED
      BY <1>1, <1>4, <1>5, <2>1, <2>3, OneTool
  <1>6. CASE Fails(t)
    <2>1. /\ f \in ToolState /\ f.pc = "failed" /\ f.spec = tool[t].spec
          /\ f.answered = tool[t].answered /\ f.readable = tool[t].readable
          /\ f.lacks = Unread(t)
      BY <1>2, <1>3 DEF ToolState, Specs, Unread, Judge
    <2> HIDE DEF f
    <2>2. FailedSoundly(f)
      BY <1>3, <1>6, <2>1 DEF FailedSoundly, Fails, Unread, Judge
    <2>3. ToolInv(f)
      BY <2>1, <2>2 DEF ToolInv
    <2> QED
      BY <1>1, <1>4, <1>6, <2>1, <2>3, OneTool
  <1>7. QED
    BY <1>5, <1>6

LEMMA DoneIInv ==
  ASSUME PolicyIInv, NEW t \in Tools, Done(t)
  PROVE  PolicyIInv'
  <1>1. UNCHANGED <<policies, version>> /\ tool' = [tool EXCEPT ![t] = Idle]
    BY DEF Done
  <1>2. ToolInv(Idle)
    BY NoSpecAndIdle DEF ToolInv
  <1>3. QED
    BY <1>1, <1>2, NoSpecAndIdle, OneTool

(* What a tool call relies on holds in every reachable state.               *)
THEOREM PolicyIsInductive == PolicySpec => []PolicyIInv
  <1>1. PolicyIInv /\ [PolicyNext]_policyVars => PolicyIInv'
    <2> SUFFICES ASSUME PolicyIInv, [PolicyNext]_policyVars PROVE PolicyIInv'
      OBVIOUS
    <2>1. ASSUME NEW n \in Names \cup {Blank}, NEW asks \in SUBSET QuestionIds,
                 NEW weighs \in SUBSET QuestionIds,
                 NEW onMissing \in MissingPolicies, NEW valid \in BOOLEAN,
                 AddPolicy(n, asks, weighs, onMissing, valid)
          PROVE  PolicyIInv'
      BY <2>1, AddPolicyIInv
    <2>2. ASSUME NEW t \in Tools, Answered(t) \/ EvaluatePolicy(t) \/ Done(t)
          PROVE  PolicyIInv'
      BY <2>2, AnsweredIInv, EvaluateIInv, DoneIInv
    <2>3. ASSUME NEW t \in Tools, NEW n \in Names \cup {Blank}, Look(t, n)
          PROVE  PolicyIInv'
      BY <2>3, LookIInv
    <2>4. CASE UNCHANGED policyVars
      BY <2>4 DEF policyVars, PolicyIInv, PolicyTypeInv, ToolInv, SoundSpec
    <2>5. QED
      BY <2>1, <2>2, <2>3, <2>4 DEF PolicyNext
  <1>2. QED
    BY <1>1, PolicyInitIInv, PTL DEF PolicySpec

(* However often policies are replaced while the service answers, and       *)
(* whichever answers can be read, a verdict is of the policy whose          *)
(* questions were asked and counts all it could read of what that policy    *)
(* weighs; a policy that fails on what is missing fails only for a question *)
(* it asked and the service answered, by something other than a noul.       *)
THEOREM VerdictsKeepPolicies == PolicySpec => []VerdictsKeepTheirPolicy
  <1>1. PolicyIInv => VerdictsKeepTheirPolicy
    <2> SUFFICES ASSUME PolicyIInv PROVE VerdictsKeepTheirPolicy
      OBVIOUS
    <2>1. \A t \in Tools : ToolInv(tool[t])
      BY DEF PolicyIInv
    <2>2. VerdictOfAskedPolicy /\ VerdictOfItsWeights
      BY <2>1 DEF ToolInv, JudgedSoundly, VerdictOfAskedPolicy, VerdictOfItsWeights
    <2>3. FailsOnlyOnUnreadable
      BY <2>1 DEF ToolInv, FailedSoundly, FailsOnlyOnUnreadable
    <2> QED
      BY <2>2, <2>3 DEF VerdictsKeepTheirPolicy
  <1>2. QED
    BY <1>1, PolicyIsInductive, PTL

-----------------------------------------------------------------------------
(* Test doubles.                                                            *)

(* The mock has answered each call it recorded, and given out its outcomes  *)
(* one by one.                                                              *)
ToldAs == (SUBSET QuestionNames) \X BOOLEAN
             \X (MockReplies \cup {"standing", "not programmed"})
             \X (QueuedOutcomes \cup {NoOutcome})

MockInv ==
    /\ mock \in [standing: SUBSET QuestionNames, queue: Seq(QueuedOutcomes),
                 calls: Seq(SUBSET QuestionNames)]
    /\ script \in Seq(QueuedOutcomes)
    /\ told \in Seq(ToldAs)
    /\ ScriptFollowed

(* The server s has given number n to a request that client c sent, and to  *)
(* it the response h belongs.                                               *)
Numbered(s, c, n, h) ==
    /\ n \in 0..(s.calls - 1)
    /\ s.requests[n + 1] = c
    /\ h = Handler(n)

ServerInv ==
    /\ server \in [requests: Seq(Clients), calls: Nat]
    /\ server.calls = Len(server.requests)
    /\ DOMAIN pending = Clients
    /\ \A c \in Clients : pending[c] # <<>> =>
          Numbered(server, c, pending[c][1], pending[c][2])
    /\ \A r \in replies : Numbered(server, r[1], r[2], r[3])

DoublesIInv == MockInv /\ ServerInv

LEMMA DoublesInitIInv == DoublesInit => DoublesIInv
  <1> SUFFICES ASSUME DoublesInit PROVE DoublesIInv
    OBVIOUS
  <1>1. \A S : <<>> \in Seq(S) /\ Len(<<>>) = 0 /\ DOMAIN <<>> = {}
    BY EmptySeq
  <1>2. Got(<<>>, 0) = {} /\ Cardinality({}) = 0
    BY FS_EmptySet DEF Got
  <1>3. ScriptFollowed
    <2>1. Len(told) = 0 /\ Len(mock.queue) = 0 /\ Len(mock.calls) = 0
          /\ Len(script) = 0 /\ DOMAIN told = {} /\ DOMAIN mock.queue = {}
      BY <1>1 DEF DoublesInit
    <2>2. /\ Got(told, Len(told)) = {}
          /\ Cardinality(Got(told, Len(told))) = 0
      BY <1>2, <2>1 DEF DoublesInit
    <2> QED
      BY <2>1, <2>2 DEF ScriptFollowed
  <1>4. MockInv
    BY <1>1, <1>3 DEF DoublesInit, MockInv
  <1>5. ServerInv
    BY <1>1 DEF DoublesInit, ServerInv
  <1> QED
    BY <1>4, <1>5 DEF DoublesIInv

(* The outcomes among the first n answers are finitely many.                *)
LEMMA GotFinite ==
  ASSUME NEW answers, NEW n \in Nat
  PROVE  IsFiniteSet(Got(answers, n)) /\ Cardinality(Got(answers, n)) \in Nat
  <1>1. IsFiniteSet(1..n)
    BY FS_Interval
  <1>2. Got(answers, n) \subseteq 1..n
    BY DEF Got
  <1> QED
    BY <1>1, <1>2, FS_Subset, FS_CardinalityType

(* One more answer: it is counted when it was queued.                       *)
LEMMA GotOfAppend ==
  ASSUME NEW s \in Seq(ToldAs), NEW t \in ToldAs
  PROVE  LET n   == Len(s)
             all == Append(s, t)
         IN  /\ all \in Seq(ToldAs) /\ DOMAIN all = 1..(n + 1)
             /\ n \in Nat /\ Len(all) = n + 1
             /\ \A i \in 1..n : all[i] = s[i] /\ Got(all, i) = Got(s, i)
             /\ all[n + 1] = t
             /\ Got(all, n + 1) = IF t[4] \in QueuedOutcomes
                                  THEN Got(s, n) \cup {n + 1} ELSE Got(s, n)
             /\ Cardinality(Got(s, n)) \in Nat
             /\ t[4] \in QueuedOutcomes => Cardinality(Got(all, n + 1)) =
                                        Cardinality(Got(s, n)) + 1
  <1> DEFINE n == Len(s)
             all == Append(s, t)
  <1>1. /\ all \in Seq(ToldAs)
        /\ n \in Nat /\ Len(all) = n + 1
        /\ \A i \in 1..n : all[i] = s[i]
        /\ all[n + 1] = t
    BY AppendProperties, LenProperties
  <1> HIDE DEF n, all
  <1>2. DOMAIN all = 1..(n + 1)
    BY <1>1, LenProperties
  <1>3. \A m \in 0..n : Got(all, m) = Got(s, m)
    BY <1>1 DEF Got
  <1>4. Got(all, n + 1) = IF t[4] \in QueuedOutcomes THEN Got(s, n) \cup {n + 1}
                          ELSE Got(s, n)
    <2>1. \A i : i \in 1..(n + 1) <=> i \in 1..n \/ i = n + 1
      BY <1>1
    <2>2. \A i : /\ i \in Got(s, n) <=> i \in 1..n /\ all[i][4] \in QueuedOutcomes
                 /\ i \in Got(all, n + 1)
                       <=> i \in 1..(n + 1) /\ all[i][4] \in QueuedOutcomes
      BY <1>1 DEF Got
    <2> QED
      BY <1>1, <2>1, <2>2
  <1>5. /\ IsFiniteSet(Got(s, n)) /\ Cardinality(Got(s, n)) \in Nat
        /\ n + 1 \notin Got(s, n)
    <2>1. n + 1 \notin 1..n
      BY <1>1
    <2> QED
      BY <1>1, <2>1, GotFinite DEF Got
  <1>6. Cardinality(Got(s, n) \cup {n + 1}) = Cardinality(Got(s, n)) + 1
    BY <1>5, FS_AddElement
  <1>7. \A i \in 1..n : Got(all, i) = Got(s, i)
    BY <1>1, <1>3
  <1> QED
    BY <1>1, <1>2, <1>4, <1>5, <1>6, <1>7, Zenon DEF n, all

(* A call that the mock accepts.                                            *)
LEMMA AcceptedMockInv ==
  ASSUME MockInv, NEW qs \in SUBSET QuestionNames,
         NEW live \in BOOLEAN, Accepted(qs, live), SystemOne(qs, live)
  PROVE  MockInv'
  <1> DEFINE t == <<qs, live, Told(qs), Taken>>
             queue == mock.queue
             n == Len(told)
             given == Cardinality(Got(told, n))
  <1>1. /\ told' = Append(told, t) /\ script' = script
        /\ mock' = [mock EXCEPT !.calls = Append(@, qs),
                                !.queue = IF @ = <<>> THEN @ ELSE Tail(@)]
    BY DEF SystemOne
  <1>2. /\ queue \in Seq(QueuedOutcomes) /\ mock.calls \in Seq(SUBSET QuestionNames)
        /\ script \in Seq(QueuedOutcomes) /\ told \in Seq(ToldAs)
        /\ mock.standing \in SUBSET QuestionNames
        /\ Len(queue) \in Nat /\ DOMAIN queue = 1..Len(queue)
        /\ DOMAIN told = 1..Len(told)
    BY LenProperties DEF MockInv
  <1>3. /\ mock'.calls = Append(mock.calls, qs)
        /\ mock'.queue = IF queue = <<>> THEN queue ELSE Tail(queue)
        /\ mock'.standing = mock.standing
        /\ mock' = [standing |-> mock'.standing, queue |-> mock'.queue,
                    calls |-> mock'.calls]
    BY <1>1 DEF MockInv
  <1>4. /\ \A i \in Got(told, n) :
              told[i][4] = script[Cardinality(Got(told, i))]
        /\ given + Len(queue) = Len(script)
        /\ \A k \in 1..Len(queue) : queue[k] = script[given + k]
        /\ Len(mock.calls) = n
        /\ \A i \in 1..n : /\ told[i][2] /\ told[i][1] # {}
                          /\ ToldWhatItTook(told[i])
    BY <1>2 DEF MockInv, ScriptFollowed
  <1>5. /\ t \in ToldAs /\ t[1] = qs /\ t[2] = live /\ t[4] = Taken
        /\ ToldWhatItTook(t)
        /\ live /\ qs # {}
    <2>1. queue # <<>> => Head(queue) \in QueuedOutcomes
      BY <1>2, HeadTailProperties
    <2>2. Taken \in QueuedOutcomes \cup {NoOutcome}
      BY <2>1 DEF Taken
    <2>3. Unscripted(qs) \in {"standing", "not programmed"}
      BY DEF Unscripted
    <2>4. /\ Taken \in MockReplies => Told(qs) = Taken
          /\ Taken \notin MockReplies => Told(qs) = Unscripted(qs)
      BY <2>1, OutcomesAssumption DEF Told, Taken, QueuedOutcomes
    <2>5. Told(qs) \in MockReplies \cup {"standing", "not programmed"}
      BY <2>3, <2>4
    <2>6. t \in ToldAs /\ t[1] = qs /\ t[2] = live /\ t[3] = Told(qs)
          /\ t[4] = Taken
      BY <2>2, <2>5 DEF ToldAs
    <2> HIDE DEF t
    <2> QED
      BY <2>3, <2>4, <2>6 DEF Accepted, ToldWhatItTook
  <1>6. /\ told' \in Seq(ToldAs) /\ DOMAIN told' = 1..(n + 1)
        /\ n \in Nat /\ Len(told') = n + 1
        /\ \A i \in 1..n : /\ told'[i] = told[i]
                           /\ Got(told', i) = Got(told, i)
        /\ told'[n + 1] = t
        /\ Got(told', n + 1) =
              IF t[4] \in QueuedOutcomes THEN Got(told, n) \cup {n + 1}
              ELSE Got(told, n)
        /\ given \in Nat
        /\ t[4] \in QueuedOutcomes =>
              Cardinality(Got(told', n + 1)) = given + 1
    <2>1. n = Len(told) /\ given = Cardinality(Got(told, n))
      OBVIOUS
    <2>2. told \in Seq(ToldAs) /\ t \in ToldAs /\ told' = Append(told, t)
      BY <1>1, <1>2, <1>5
    <2> HIDE DEF t, n, given
    <2>3. LET all == Append(told, t)
          IN  /\ all \in Seq(ToldAs) /\ DOMAIN all = 1..(n + 1)
              /\ n \in Nat /\ Len(all) = n + 1
              /\ \A i \in 1..n : /\ all[i] = told[i]
                                 /\ Got(all, i) = Got(told, i)
              /\ all[n + 1] = t
              /\ Got(all, n + 1) =
                    IF t[4] \in QueuedOutcomes THEN Got(told, n) \cup {n + 1}
                    ELSE Got(told, n)
              /\ given \in Nat
              /\ t[4] \in QueuedOutcomes => Cardinality(Got(all, n + 1)) = given + 1
      BY <2>1, <2>2, GotOfAppend
    <2> QED
      BY <2>2, <2>3, Zenon
  <1>7. /\ Len(mock'.calls) = Len(told') /\ mock'.calls \in Seq(SUBSET QuestionNames)
        /\ \A i \in DOMAIN told' : /\ told'[i][2] /\ told'[i][1] # {}
                                  /\ ToldWhatItTook(told'[i])
    <2>2. /\ Len(mock'.calls) = Len(mock.calls) + 1
          /\ mock'.calls \in Seq(SUBSET QuestionNames)
      BY <1>2, <1>3, AppendProperties
    <2> HIDE DEF t
    <2>3. \A i \in 1..(n + 1) : i \in 1..n \/ i = n + 1
      BY <1>6
    <2> QED
      BY <1>4, <1>5, <1>6, <2>2, <2>3
  <1>11. /\ given = Cardinality(Got(told, n))
         /\ Len(queue) \in Nat /\ DOMAIN queue = 1..Len(queue)
    BY <1>2
  <1> HIDE DEF t, n, given, queue
  <1>8. \A i \in Got(told, n) :
           told'[i][4] = script'[Cardinality(Got(told', i))]
    <2>1. \A i \in Got(told, n) : i \in 1..n
      BY DEF Got
    <2> QED
      BY <1>1, <1>4, <1>6, <2>1
  <1>9. CASE queue = <<>>
    <2>1. t[4] \notin QueuedOutcomes
      BY <1>5, <1>9, OutcomesAssumption DEF Taken, queue
    <2>2. Got(told', n + 1) = Got(told, n)
      BY <1>6, <2>1
    <2>3. mock'.queue = queue
      BY <1>3, <1>9
    <2>4. ScriptFollowed'
      <3>1. /\ Cardinality(Got(told', Len(told'))) = given
            /\ Got(told', Len(told')) = Got(told, n)
        BY <1>6, <1>11, <2>2
      <3>2. /\ given + Len(mock'.queue) = Len(script')
            /\ \A k \in DOMAIN mock'.queue :
                  mock'.queue[k] = script'[given + k]
        BY <1>1, <1>4, <1>11, <2>3
      <3> QED
        BY <1>7, <1>8, <3>1, <3>2 DEF ScriptFollowed
    <2> QED
      BY <1>1, <1>2, <1>3, <1>6, <1>7, <2>3, <2>4 DEF MockInv, queue
  <1>10. CASE queue # <<>>
    <2>1. t[4] = queue[1] /\ t[4] \in QueuedOutcomes
      <3>1. Head(queue) = queue[1] /\ Head(queue) \in QueuedOutcomes
        BY <1>2, <1>10, HeadTailProperties
      <3> QED
        BY <1>5, <1>10, <3>1 DEF Taken, queue
    <2>2. /\ mock'.queue = Tail(queue) /\ Tail(queue) \in Seq(QueuedOutcomes)
          /\ Len(queue) > 0 /\ Len(Tail(queue)) = Len(queue) - 1
          /\ DOMAIN Tail(queue) = 1..(Len(queue) - 1)
          /\ \A k \in 1..(Len(queue) - 1) : Tail(queue)[k] = queue[k + 1]
      <3>1. /\ Tail(queue) \in Seq(QueuedOutcomes)
            /\ Len(Tail(queue)) = Len(queue) - 1
            /\ \A k \in 1..Len(Tail(queue)) : Tail(queue)[k] = queue[k + 1]
        BY <1>2, <1>10, HeadTailProperties
      <3>2. Len(queue) > 0
        BY <1>2, <1>10, EmptySeq
      <3> QED
        BY <1>3, <1>10, <3>1, <3>2, LenProperties
    <2>3. /\ Got(told', n + 1) = Got(told, n) \cup {n + 1}
          /\ Cardinality(Got(told', n + 1)) = given + 1
      BY <1>6, <2>1
    <2>4. \A i \in Got(told', n + 1) :
             told'[i][4] = script'[Cardinality(Got(told', i))]
      <3>1. told'[n + 1][4] = script[given + 1]
        BY <1>2, <1>4, <1>6, <2>1, <2>2
      <3>2. script'[Cardinality(Got(told', n + 1))] = script[given + 1]
        BY <1>1, <2>3
      <3> QED
        BY <1>8, <2>3, <3>1, <3>2
    <2>5. \A k \in 1..(Len(queue) - 1) :
             Tail(queue)[k] = script[(given + 1) + k]
      <3> TAKE k \in 1..(Len(queue) - 1)
      <3>1. k + 1 \in 1..Len(queue) /\ given + (k + 1) = (given + 1) + k
        BY <1>6, <1>11
      <3> QED
        BY <1>4, <2>2, <3>1
    <2>6. (given + 1) + Len(Tail(queue)) = Len(script)
      BY <1>4, <1>6, <1>11, <2>2
    <2>7. ScriptFollowed'
      <3>1. /\ Cardinality(Got(told', Len(told'))) = given + 1
            /\ Got(told', Len(told')) = Got(told', n + 1)
        BY <1>6, <2>3
      <3>2. /\ (given + 1) + Len(mock'.queue) = Len(script')
            /\ \A k \in DOMAIN mock'.queue :
                  mock'.queue[k] = script'[(given + 1) + k]
        BY <1>1, <2>2, <2>5, <2>6
      <3> QED
        BY <1>7, <2>4, <3>1, <3>2 DEF ScriptFollowed
    <2> QED
      BY <1>1, <1>2, <1>3, <1>6, <1>7, <2>2, <2>7 DEF MockInv
  <1> QED
    BY <1>9, <1>10

(* A test queues one more outcome.                                          *)
LEMMA QueueMockInv ==
  ASSUME MockInv, NEW o \in QueuedOutcomes, Queue(o)
  PROVE  MockInv'
  <1> DEFINE queue == mock.queue
             given == Cardinality(Got(told, Len(told)))
  <1>1. /\ told' = told /\ script' = Append(script, o)
        /\ mock' = [mock EXCEPT !.queue = Append(@, o)]
    BY DEF Queue
  <1>2. /\ queue \in Seq(QueuedOutcomes) /\ script \in Seq(QueuedOutcomes)
        /\ Len(queue) \in Nat /\ DOMAIN queue = 1..Len(queue)
        /\ Len(script) \in Nat /\ Len(told) \in Nat
        /\ given \in Nat
    BY LenProperties, GotFinite DEF MockInv
  <1>3. /\ mock'.queue = Append(queue, o) /\ mock'.calls = mock.calls
        /\ mock' \in [standing: SUBSET QuestionNames, queue: Seq(QueuedOutcomes),
                      calls: Seq(SUBSET QuestionNames)]
    <2>1. Append(queue, o) \in Seq(QueuedOutcomes)
      BY <1>2, AppendProperties
    <2> QED
      BY <1>1, <2>1 DEF MockInv
  <1>4. /\ \A i \in Got(told, Len(told)) :
              told[i][4] = script[Cardinality(Got(told, i))]
        /\ given + Len(queue) = Len(script)
        /\ \A k \in 1..Len(queue) : queue[k] = script[given + k]
        /\ Len(mock.calls) = Len(told)
        /\ \A i \in DOMAIN told : /\ told[i][2] /\ told[i][1] # {}
                                 /\ ToldWhatItTook(told[i])
    BY <1>2 DEF MockInv, ScriptFollowed
  <1>5. /\ script' \in Seq(QueuedOutcomes) /\ Len(script') = Len(script) + 1
        /\ \A k \in 1..Len(script) : script'[k] = script[k]
        /\ script'[Len(script) + 1] = o
    BY <1>1, <1>2, AppendProperties
  <1>6. /\ mock'.queue \in Seq(QueuedOutcomes)
        /\ Len(mock'.queue) = Len(queue) + 1
        /\ DOMAIN mock'.queue = 1..(Len(queue) + 1)
        /\ \A k \in 1..Len(queue) : mock'.queue[k] = queue[k]
        /\ mock'.queue[Len(queue) + 1] = o
    <2>1. /\ mock'.queue \in Seq(QueuedOutcomes)
          /\ Len(mock'.queue) = Len(queue) + 1
          /\ \A k \in 1..Len(queue) : mock'.queue[k] = queue[k]
          /\ mock'.queue[Len(queue) + 1] = o
      BY <1>2, <1>3, AppendProperties
    <2> QED
      BY <2>1, LenProperties
  <1>7. \A i \in Got(told, Len(told)) : /\ i \in 1..Len(told)
                                       /\ Cardinality(Got(told, i)) \in Nat
    <2>1. \A i \in Got(told, Len(told)) : i \in 1..Len(told) /\ i \in Nat
      BY <1>2 DEF Got
    <2> QED
      BY <2>1, GotFinite
  <1>8. \A i \in Got(told, Len(told)) :
           Cardinality(Got(told, i)) \in 1..Len(script)
    <2> SUFFICES ASSUME NEW i \in Got(told, Len(told))
                 PROVE  Cardinality(Got(told, i)) \in 1..Len(script)
      OBVIOUS
    <2>1. i \in Got(told, i) /\ Got(told, i) \subseteq Got(told, Len(told))
      BY <1>2, <1>7 DEF Got
    <2>2. /\ IsFiniteSet(Got(told, Len(told))) /\ IsFiniteSet(Got(told, i))
          /\ Cardinality(Got(told, i)) <= given
          /\ Cardinality(Got(told, i)) # 0
      <3>1. IsFiniteSet(Got(told, Len(told)))
        BY <1>2, GotFinite
      <3>2. /\ IsFiniteSet(Got(told, i))
            /\ Cardinality(Got(told, i)) <= given
        BY <2>1, <3>1, FS_Subset
      <3> QED
        BY <2>1, <3>1, <3>2, FS_EmptySet
    <2> HIDE DEF given
    <2> QED
      BY <1>2, <1>4, <1>7, <2>2
  <1> HIDE DEF given, queue
  <1>9. \A k \in DOMAIN mock'.queue : mock'.queue[k] = script'[given + k]
    <2> SUFFICES ASSUME NEW k \in 1..(Len(queue) + 1)
                 PROVE  mock'.queue[k] = script'[given + k]
      BY <1>6
    <2>1. CASE k \in 1..Len(queue)
      <3>1. given + k \in 1..Len(script)
        BY <1>2, <1>4, <2>1
      <3> QED
        BY <1>4, <1>5, <1>6, <2>1, <3>1
    <2>2. CASE k = Len(queue) + 1
      <3>1. given + k = Len(script) + 1
        BY <1>2, <1>4, <2>2
      <3> QED
        BY <1>5, <1>6, <2>2, <3>1
    <2> QED
      BY <1>2, <2>1, <2>2
  <1>10. given + Len(mock'.queue) = Len(script')
    BY <1>2, <1>4, <1>5, <1>6
  <1>11. ScriptFollowed'
    <2>1. \A i \in Got(told', Len(told')) :
             told'[i][4] = script'[Cardinality(Got(told', i))]
      BY <1>1, <1>4, <1>5, <1>8
    <2> QED
      BY <1>1, <1>3, <1>4, <1>9, <1>10, <2>1 DEF ScriptFollowed, given
  <1> QED
    BY <1>1, <1>3, <1>5, <1>11 DEF MockInv

(* Standing answers and refused calls leave the script alone; a reset ends  *)
(* it.                                                                      *)
LEMMA OtherMockInv ==
  ASSUME MockInv,
         \/ \E q \in QuestionNames : On(q)
         \/ \E qs \in SUBSET QuestionNames, live \in BOOLEAN :
               SystemOne(qs, live) /\ ~Accepted(qs, live)
         \/ Reset
         \/ UNCHANGED <<mock, script, told>>
  PROVE  MockInv'
  <1>1. ASSUME UNCHANGED <<script, told>>,
               mock' \in [standing: SUBSET QuestionNames, queue: Seq(QueuedOutcomes),
                          calls: Seq(SUBSET QuestionNames)],
               mock'.queue = mock.queue, mock'.calls = mock.calls
        PROVE  MockInv'
    BY <1>1 DEF MockInv, ScriptFollowed
  <1>2. ASSUME NEW q \in QuestionNames, On(q) PROVE MockInv'
    <2>1. /\ mock' = [mock EXCEPT !.standing = @ \cup {q}]
          /\ UNCHANGED <<script, told>>
      BY <1>2 DEF On
    <2> QED
      BY <1>1, <2>1 DEF MockInv
  <1>3. ASSUME NEW qs \in SUBSET QuestionNames, NEW live \in BOOLEAN,
               SystemOne(qs, live), ~Accepted(qs, live)
        PROVE  MockInv'
    <2>1. UNCHANGED <<mock, script, told>>
      BY <1>3 DEF SystemOne
    <2> QED
      BY <1>1, <2>1 DEF MockInv
  <1>4. CASE Reset
    <2>1. /\ script' = <<>> /\ told' = <<>>
          /\ mock' = [mock EXCEPT !.calls = <<>>, !.queue = <<>>]
      BY <1>4 DEF Reset
    <2>2. \A S : <<>> \in Seq(S) /\ Len(<<>>) = 0 /\ DOMAIN <<>> = {}
      BY EmptySeq
    <2>3. /\ mock'.calls = <<>> /\ mock'.queue = <<>>
          /\ mock' \in [standing: SUBSET QuestionNames, queue: Seq(QueuedOutcomes),
                        calls: Seq(SUBSET QuestionNames)]
      BY <2>1, <2>2 DEF MockInv
    <2>4. Got(told', Len(told')) = {} /\ Cardinality({}) = 0
      BY <2>1, <2>2, FS_EmptySet DEF Got
    <2>5. ScriptFollowed'
      <3>1. /\ Len(told') = 0 /\ Len(mock'.queue) = 0 /\ Len(mock'.calls) = 0
            /\ Len(script') = 0 /\ DOMAIN told' = {} /\ DOMAIN mock'.queue = {}
        BY <2>1, <2>2, <2>3
      <3> QED
        BY <2>4, <3>1 DEF ScriptFollowed
    <2> QED
      BY <2>1, <2>2, <2>3, <2>5 DEF MockInv
  <1>5. CASE UNCHANGED <<mock, script, told>>
    BY <1>1, <1>5 DEF MockInv
  <1> QED
    BY <1>2, <1>3, <1>4, <1>5

(* A request gets the number of those before it.                            *)
LEMMA ServeServerInv ==
  ASSUME ServerInv, NEW c \in Clients, Serve(c)
  PROVE  ServerInv'
  <1> DEFINE n == server.calls
  <1>1. /\ n \in Nat /\ n = Len(server.requests)
        /\ server.requests \in Seq(Clients)
    BY DEF ServerInv
  <1>2. /\ server' = [requests |-> Append(server.requests, c), calls |-> n + 1]
        /\ pending' = [pending EXCEPT ![c] = <<n, Handler(n)>>]
        /\ replies' = replies
    BY DEF Serve
  <1>3. /\ server'.requests \in Seq(Clients) /\ server'.calls = n + 1
        /\ server'.calls = Len(server'.requests)
        /\ \A k \in 1..n : server'.requests[k] = server.requests[k]
        /\ server'.requests[n + 1] = c
    BY <1>1, <1>2, AppendProperties
  <1> HIDE DEF n
  <1>4. ASSUME NEW d, NEW m, NEW h, Numbered(server, d, m, h)
        PROVE  Numbered(server', d, m, h)
    <2>1. m \in 0..(n - 1) /\ server.requests[m + 1] = d /\ h = Handler(m)
      BY <1>4 DEF Numbered, n
    <2>2. m \in 0..(server'.calls - 1) /\ m + 1 \in 1..n
      BY <1>1, <1>3, <2>1
    <2> QED
      BY <1>3, <2>1, <2>2 DEF Numbered
  <1>5. Numbered(server', c, n, Handler(n))
    <2>1. n \in 0..(server'.calls - 1)
      BY <1>1, <1>3
    <2> QED
      BY <1>2, <1>3, <2>1 DEF Numbered
  <1>6. DOMAIN pending' = Clients
    BY <1>2 DEF ServerInv
  <1>7. \A d \in Clients : pending'[d] # <<>> =>
           Numbered(server', d, pending'[d][1], pending'[d][2])
    <2> SUFFICES ASSUME NEW d \in Clients, pending'[d] # <<>>
                 PROVE  Numbered(server', d, pending'[d][1], pending'[d][2])
      OBVIOUS
    <2>1. CASE d = c
      <3>1. pending'[d][1] = n /\ pending'[d][2] = Handler(n)
        BY <1>2, <2>1 DEF ServerInv
      <3> QED
        BY <1>5, <2>1, <3>1
    <2>2. CASE d # c
      <3>1. pending'[d] = pending[d]
        BY <1>2, <2>2 DEF ServerInv
      <3>2. Numbered(server, d, pending[d][1], pending[d][2])
        BY <3>1 DEF ServerInv
      <3> QED
        BY <1>4, <3>1, <3>2
    <2> QED
      BY <2>1, <2>2
  <1>8. \A r \in replies' : Numbered(server', r[1], r[2], r[3])
    <2>1. \A r \in replies' : Numbered(server, r[1], r[2], r[3])
      BY <1>2 DEF ServerInv
    <2> QED
      BY <1>4, <2>1
  <1>9. server' \in [requests: Seq(Clients), calls: Nat]
    BY <1>1, <1>2, <1>3
  <1> QED
    BY <1>3, <1>6, <1>7, <1>8, <1>9 DEF ServerInv

(* The reply is written with the number its request was given.              *)
LEMMA ReplyServerInv ==
  ASSUME ServerInv, NEW c \in Clients, Reply(c)
  PROVE  ServerInv'
  <1>1. /\ pending[c] # <<>> /\ server' = server
        /\ replies' = replies \cup {<<c, pending[c][1], pending[c][2]>>}
        /\ pending' = [pending EXCEPT ![c] = <<>>]
    BY DEF Reply
  <1>2. Numbered(server, c, pending[c][1], pending[c][2])
    BY <1>1 DEF ServerInv
  <1>3. \A r \in replies' : Numbered(server', r[1], r[2], r[3])
    BY <1>1, <1>2 DEF ServerInv
  <1>4. /\ DOMAIN pending' = Clients
        /\ \A d \in Clients : pending'[d] # <<>> =>
              /\ pending'[d] = pending[d]
              /\ Numbered(server', d, pending'[d][1], pending'[d][2])
    BY <1>1 DEF ServerInv
  <1> QED
    BY <1>1, <1>3, <1>4 DEF ServerInv

LEMMA DoublesNextIInv ==
  ASSUME DoublesIInv, [DoublesNext]_doublesVars
  PROVE  DoublesIInv'
  <1>1. ASSUME MockInv', UNCHANGED <<server, pending, replies>>
        PROVE  DoublesIInv'
    BY <1>1 DEF DoublesIInv, ServerInv
  <1>2. ASSUME ServerInv', UNCHANGED <<mock, script, told>>
        PROVE  DoublesIInv'
    BY <1>2, OtherMockInv DEF DoublesIInv
  <1>3. ASSUME NEW q \in QuestionNames, On(q) PROVE DoublesIInv'
    BY <1>1, <1>3, OtherMockInv DEF DoublesIInv, On, MockOnly
  <1>4. ASSUME NEW o \in QueuedOutcomes, Queue(o) PROVE DoublesIInv'
    BY <1>1, <1>4, QueueMockInv DEF DoublesIInv, Queue, MockOnly
  <1>5. ASSUME NEW qs \in SUBSET QuestionNames, NEW live \in BOOLEAN,
               SystemOne(qs, live)
        PROVE  DoublesIInv'
    <2>1. MockInv'
      BY <1>5, AcceptedMockInv, OtherMockInv DEF DoublesIInv
    <2> QED
      BY <1>1, <1>5, <2>1 DEF SystemOne, MockOnly
  <1>6. CASE Reset
    BY <1>1, <1>6, OtherMockInv DEF DoublesIInv, Reset, MockOnly
  <1>7. ASSUME NEW c \in Clients, Serve(c) \/ Reply(c) PROVE DoublesIInv'
    <2>1. ServerInv'
      BY <1>7, ServeServerInv, ReplyServerInv DEF DoublesIInv
    <2> QED
      BY <1>2, <1>7, <2>1 DEF Serve, Reply, ServerOnly
  <1>8. CASE UNCHANGED doublesVars
    <2>1. MockInv'
      BY <1>8, OtherMockInv DEF DoublesIInv, doublesVars
    <2> QED
      BY <1>1, <1>8, <2>1 DEF doublesVars
  <1> QED
    BY <1>3, <1>4, <1>5, <1>6, <1>7, <1>8 DEF DoublesNext

(* For any script, any answers and any number of goroutines: the mock gives *)
(* its outcomes in order and each once, a reset ends the script, a refused  *)
(* call takes nothing, and a queued nil is used up by a call that is then   *)
(* answered as if nothing were queued; the server's replies carry the       *)
(* numbers of the requests they answer.                                     *)
THEOREM DoublesAreFaithful == DoublesSpec => []DoublesFaithful
  <1>1. DoublesIInv /\ [DoublesNext]_doublesVars => DoublesIInv'
    BY DoublesNextIInv
  <1>2. DoublesIInv => DoublesFaithful
    <2> SUFFICES ASSUME DoublesIInv PROVE DoublesFaithful
      OBVIOUS
    <2>1. \A r \in replies : Numbered(server, r[1], r[2], r[3])
      BY DEF DoublesIInv, ServerInv
    <2>2. RepliesMatchRequests
      BY <2>1 DEF DoublesIInv, ServerInv, RepliesMatchRequests, Numbered,
                  Handler, Last
    <2> QED
      BY <2>2 DEF DoublesIInv, MockInv, DoublesFaithful
  <1> QED
    BY <1>1, <1>2, DoublesInitIInv, PTL DEF DoublesSpec

-----------------------------------------------------------------------------
(* Cassettes.                                                               *)

(* A nonempty set of numbers has a least member: induction, in the form    *)
(* that needs no predicate as a parameter.                                 *)
LEMMA Least ==
  ASSUME NEW T \in SUBSET Nat, T # {}
  PROVE  \E n \in T : \A m \in T : n <= m
  <1> DEFINE R == {ss \in Nat \X Nat : ss[1] < ss[2]}
  <1>1. IsWellFoundedOn(R, Nat)
    BY NatLessThanWellFounded DEF OpToRel
  <1> HIDE DEF R
  <1>2. PICK n \in T : \A m \in T : ~(<<m, n>> \in R)
    BY <1>1, WFMin, Zenon
  <1>3. \A m \in T : ~(m < n)
    BY <1>2 DEF R
  <1> QED
    BY <1>3

Pairs == Keys \X Responses

(* Every key that has a response is in the order, once.                     *)
Kept(c) ==
    /\ c \in [order: Seq(Keys), byKey: [Keys -> Responses \cup {None}],
              plays: [Keys -> Nat]]
    /\ \A i, j \in 1..Len(c.order) : c.order[i] = c.order[j] => i = j
    /\ \A k \in Keys :
          c.byKey[k] # None <=> \E i \in 1..Len(c.order) : c.order[i] = k

(* a is the beginning of b.                                                 *)
Begins(a, b) == Len(a) <= Len(b) /\ \A i \in 1..Len(a) : a[i] = b[i]

(* A file that Save wrote names each key once.                              *)
Distinct(lines) ==
    \A i, j \in 1..Len(lines) : lines[i][1] = lines[j][1] => i = j

(* The cassette has, of each key, the last response that was added.         *)
LastAdded(k) ==
    \/ cass.byKey[k] = None /\ \A i \in 1..Len(log) : log[i][1] # k
    \/ \E i \in 1..Len(log) :
          /\ log[i] = <<k, cass.byKey[k]>>
          /\ \A j \in 1..Len(log) : log[j][1] = k => j <= i

TapeTypeInv ==
    /\ session \in [mode: {"closed", "record", "saving", "replay"},
                    exchanges: Int, number: Int]
    /\ Kept(cass)
    /\ flight \in [Workers -> {<<>>} \cup Pairs]
    /\ file \in [lines: Seq(Pairs), torn: BOOLEAN, exists: BOOLEAN]
    /\ log \in Seq(Pairs)
    /\ saved \in Seq(Pairs) /\ Distinct(saved)
    /\ hits \in [Keys -> Nat]

TapeIInv ==
    /\ TapeTypeInv
    /\ Begins(file.lines, saved)
    /\ session.mode = "saving" => saved = Lines(cass)
    /\ session.mode \in {"record", "saving"} => \A k \in Keys : LastAdded(k)
    /\ session.mode = "replay" => Begins(Lines(cass), saved)
                                  /\ cass.plays = hits

(* No response is the mark of a request that has none.                      *)
ResponsesApart == None \notin Responses

LEMMA KeptNew == Kept(New) /\ New.order = <<>> /\ New.plays = [k \in Keys |-> 0]
                 /\ \A k \in Keys : New.byKey[k] = None
  <1>1. \A S : <<>> \in Seq(S) /\ Len(<<>>) = 0
    BY EmptySeq
  <1>2. New \in [order: Seq(Keys), byKey: [Keys -> Responses \cup {None}],
                 plays: [Keys -> Nat]]
    BY <1>1 DEF New
  <1> QED
    BY <1>1, <1>2 DEF New, Kept

(* Adding a response to a cassette.                                         *)
LEMMA KeptAdd ==
  ASSUME ResponsesApart, NEW c, Kept(c), NEW k \in Keys, NEW resp \in Responses
  PROVE  /\ Kept(Add(c, k, resp))
         /\ Add(c, k, resp).byKey[k] = resp
         /\ \A l \in Keys : l # k => Add(c, k, resp).byKey[l] = c.byKey[l]
         /\ Add(c, k, resp).plays = c.plays
         /\ c.byKey[k] = None => Add(c, k, resp).order = Append(c.order, k)
  <1> DEFINE d == Add(c, k, resp)
  <1>1. /\ c.order \in Seq(Keys) /\ Len(c.order) \in Nat
        /\ c.byKey \in [Keys -> Responses \cup {None}]
        /\ c.plays \in [Keys -> Nat]
        /\ c = [order |-> c.order, byKey |-> c.byKey, plays |-> c.plays]
    BY LenProperties DEF Kept
  <1>2. /\ d.order = IF c.byKey[k] = None THEN Append(c.order, k) ELSE c.order
        /\ d.byKey = [c.byKey EXCEPT ![k] = resp]
        /\ d.plays = c.plays
        /\ d = [order |-> d.order, byKey |-> d.byKey, plays |-> d.plays]
    <2> DEFINE o == IF c.byKey[k] = None THEN Append(c.order, k) ELSE c.order
               b == [c.byKey EXCEPT ![k] = resp]
    <2>1. d = [c EXCEPT !.byKey = b, !.order = o]
      BY Zenon DEF Add
    <2> HIDE DEF d, o, b
    <2>2. d = [order |-> o, byKey |-> b, plays |-> c.plays]
      BY <1>1, <2>1
    <2>3. /\ d.order = o /\ d.byKey = b /\ d.plays = c.plays
          /\ d = [order |-> d.order, byKey |-> d.byKey, plays |-> d.plays]
      BY <2>2
    <2> QED
      BY <2>3 DEF o, b
  <1>3. /\ resp # None
        /\ \A i, j \in 1..Len(c.order) : c.order[i] = c.order[j] => i = j
        /\ \A l \in Keys : c.byKey[l] # None
                              <=> \E i \in 1..Len(c.order) : c.order[i] = l
    BY DEF ResponsesApart, Kept
  <1> HIDE DEF d
  <1>4. /\ d.byKey \in [Keys -> Responses \cup {None}]
        /\ d.byKey[k] = resp
        /\ \A l \in Keys : l # k => d.byKey[l] = c.byKey[l]
    BY <1>1, <1>2
  <1>5. CASE c.byKey[k] = None
    <2>1. /\ d.order = Append(c.order, k) /\ d.order \in Seq(Keys)
          /\ Len(d.order) = Len(c.order) + 1
          /\ \A i \in 1..Len(c.order) : d.order[i] = c.order[i]
          /\ d.order[Len(c.order) + 1] = k
      BY <1>1, <1>2, <1>5, AppendProperties
    <2>2. \A i : i \in 1..Len(d.order)
                    <=> i \in 1..Len(c.order) \/ i = Len(c.order) + 1
      BY <1>1, <2>1
    <2>3. \A i \in 1..Len(c.order) : d.order[i] # k
      BY <1>3, <1>5, <2>1
    <2>4. \A i, j \in 1..Len(d.order) : d.order[i] = d.order[j] => i = j
      BY <1>3, <2>1, <2>2, <2>3
    <2>5. \A l \in Keys : d.byKey[l] # None
                             <=> \E i \in 1..Len(d.order) : d.order[i] = l
      <3> TAKE l \in Keys
      <3>1. CASE l = k
        BY <1>3, <1>4, <2>1, <2>2, <3>1
      <3>2. CASE l # k
        BY <1>3, <1>4, <2>1, <2>2, <3>2
      <3> QED
        BY <3>1, <3>2
    <2>6. Kept(d)
      <3>1. d \in [order: Seq(Keys), byKey: [Keys -> Responses \cup {None}],
                   plays: [Keys -> Nat]]
        BY <1>1, <1>2, <1>4, <2>1
      <3> QED
        BY <2>4, <2>5, <3>1 DEF Kept
    <2> QED
      BY <1>2, <1>4, <2>1, <2>6 DEF d
  <1>6. CASE c.byKey[k] # None
    <2>1. \A l \in Keys : d.byKey[l] # None <=> c.byKey[l] # None
      BY <1>3, <1>4, <1>6
    <2>2. Kept(d)
      <3>1. d \in [order: Seq(Keys), byKey: [Keys -> Responses \cup {None}],
                   plays: [Keys -> Nat]]
        BY <1>1, <1>2, <1>4, <1>6
      <3>2. d.order = c.order
        BY <1>2, <1>6
      <3> QED
        BY <1>3, <2>1, <3>1, <3>2 DEF Kept
    <2> QED
      BY <1>2, <1>4, <1>6, <2>2 DEF d
  <1> QED
    BY <1>5, <1>6

(* The lines that Save writes.                                              *)
LEMMA LinesOfKept ==
  ASSUME ResponsesApart, NEW c, Kept(c)
  PROVE  /\ Lines(c) \in Seq(Pairs) /\ Len(Lines(c)) = Len(c.order)
         /\ Len(c.order) \in Nat
         /\ \A i \in 1..Len(c.order) :
               Lines(c)[i] = <<c.order[i], c.byKey[c.order[i]]>>
         /\ Distinct(Lines(c))
  <1>1. /\ c.order \in Seq(Keys) /\ Len(c.order) \in Nat
        /\ DOMAIN c.order = 1..Len(c.order)
        /\ \A i \in 1..Len(c.order) : c.order[i] \in Keys
    BY LenProperties, ElementOfSeq DEF Kept
  <1>2. \A i \in 1..Len(c.order) : c.byKey[c.order[i]] \in Responses
    BY <1>1 DEF Kept
  <1>3. Lines(c) = [i \in 1..Len(c.order) |->
                      <<c.order[i], c.byKey[c.order[i]]>>]
    BY <1>1 DEF Lines
  <1>4. /\ Lines(c) \in [1..Len(c.order) -> Pairs]
        /\ \A i \in 1..Len(c.order) :
              Lines(c)[i] = <<c.order[i], c.byKey[c.order[i]]>>
    BY <1>1, <1>2, <1>3 DEF Pairs
  <1>5. Lines(c) \in Seq(Pairs) /\ Len(Lines(c)) = Len(c.order)
    <2>1. Lines(c) \in Seq(Pairs)
      BY <1>1, <1>4, SeqDef
    <2>2. /\ Len(Lines(c)) \in Nat
          /\ 1..Len(Lines(c)) = 1..Len(c.order)
      BY <1>4, <2>1, LenProperties
    <2> QED
      BY <1>1, <2>1, <2>2
  <1>6. Distinct(Lines(c))
    <2> SUFFICES ASSUME NEW i \in 1..Len(c.order), NEW j \in 1..Len(c.order),
                        Lines(c)[i][1] = Lines(c)[j][1]
                 PROVE  i = j
      BY <1>5 DEF Distinct
    <2>1. c.order[i] = c.order[j]
      BY <1>4
    <2> QED
      BY <2>1 DEF Kept
  <1> QED
    BY <1>1, <1>4, <1>5, <1>6

(* after[i] is the cassette when i lines have been added.                   *)
Loads(after, lines) ==
    after = [i \in 0..Len(lines) |->
               IF i = 0 THEN New
               ELSE Add(after[i - 1], lines[i][1], lines[i][2])]

(* The recursion that defines Load has a solution: a first place where it   *)
(* had none could be filled in from the one before.                         *)
LEMMA LoadExists ==
  ASSUME NEW lines, Len(lines) \in Nat
  PROVE  \E after : Loads(after, lines)
  <1> DEFINE Following(g, i) == IF i = 0 THEN New
                           ELSE Add(g[i - 1], lines[i][1], lines[i][2])
             To(n) == \E g : g = [i \in 0..n |-> Following(g, i)]
             T == {n \in Nat : ~To(n)}
  <1>1. SUFFICES To(Len(lines))
    BY DEF Loads
  <1>2. SUFFICES ASSUME T # {} PROVE FALSE
    OBVIOUS
  <1>3. PICK n \in T : \A m \in T : n <= m
    BY <1>2, Least
  <1>4. n # 0
    <2>1. To(0)
      <3> DEFINE g == [i \in 0..0 |-> New]
      <3>1. g = [i \in 0..0 |-> Following(g, i)]
        OBVIOUS
      <3> QED
        BY <3>1
    <2> QED
      BY <1>3, <2>1
  <1>5. PICK h : h = [i \in 0..(n - 1) |-> Following(h, i)]
    <2>1. n - 1 \in Nat /\ ~(n <= n - 1)
      BY <1>3, <1>4
    <2> HIDE DEF To
    <2>2. To(n - 1)
      BY <1>3, <2>1
    <2> QED
      BY <2>2 DEF To
  <1> DEFINE g == [i \in 0..n |-> IF i = n THEN Following(h, n) ELSE h[i]]
  <1>6. \A i \in 0..n : g[i] = Following(g, i)
    <2> TAKE i \in 0..n
    <2>1. i # 0 => i - 1 \in 0..(n - 1) /\ g[i - 1] = h[i - 1]
      BY <1>3
    <2>2. Following(g, i) = Following(h, i)
      BY <2>1
    <2>3. i # n => h[i] = Following(h, i)
      <3>1. i # n => i \in 0..(n - 1)
        BY <1>3
      <3> HIDE DEF Following
      <3> QED
        BY <1>5, <3>1, Zenon
    <2> QED
      BY <2>2, <2>3
  <1>7. g = [i \in 0..n |-> Following(g, i)]
    BY <1>6
  <1> QED
    BY <1>3, <1>7

LEMMA LoadIsLast ==
  ASSUME NEW lines, Len(lines) \in Nat
  PROVE  \E after : Loads(after, lines) /\ Load(lines) = after[Len(lines)]
  <1>1. PICK g : Loads(g, lines)
    BY LoadExists
  <1> DEFINE after[i \in 0..Len(lines)] ==
               IF i = 0 THEN New
               ELSE Add(after[i - 1], lines[i][1], lines[i][2])
  <1>2. Loads(after, lines)
    BY <1>1 DEF Loads
  <1>3. Load(lines) = after[Len(lines)]
    BY DEF Load
  <1> QED
    BY <1>2, <1>3

(* Loading the lines that a save wrote gives back those lines, unplayed.    *)
LEMMA LoadRestores ==
  ASSUME ResponsesApart, NEW lines \in Seq(Pairs), Distinct(lines)
  PROVE  /\ Kept(Load(lines))
         /\ Lines(Load(lines)) = lines
         /\ Load(lines).plays = [k \in Keys |-> 0]
  <1> DEFINE n == Len(lines)
  <1>1. /\ n \in Nat
        /\ \A i \in 1..n : /\ lines[i][1] \in Keys /\ lines[i][2] \in Responses
                           /\ lines[i] = <<lines[i][1], lines[i][2]>>
    <2>1. \A i \in 1..n : lines[i] \in Pairs
      BY ElementOfSeq
    <2> QED
      BY <2>1, LenProperties DEF Pairs
  <1>2. PICK after : Loads(after, lines) /\ Load(lines) = after[n]
    BY <1>1, LoadIsLast
  <1>3. /\ after[0] = New
        /\ \A i \in 1..n :
              after[i] = Add(after[i - 1], lines[i][1], lines[i][2])
    BY <1>1, <1>2 DEF Loads
  <1>4. \A i, j \in 1..n : lines[i][1] = lines[j][1] => i = j
    BY DEF Distinct
  <1> DEFINE Good(i) ==
               LET c == after[i] IN
               /\ Kept(c) /\ c.plays = [k \in Keys |-> 0]
               /\ Len(c.order) = i
               /\ \A j \in 1..i : /\ c.order[j] = lines[j][1]
                                  /\ c.byKey[lines[j][1]] = lines[j][2]
             T == {i \in 0..n : ~Good(i)}
  <1> HIDE DEF n
  <1>5. Good(0)
    <2>1. Len(New.order) = 0
      BY KeptNew, EmptySeq
    <2> QED
      BY <1>3, <2>1, KeptNew
  <1>6. ASSUME NEW i \in 1..n, Good(i - 1)
        PROVE  Good(i)
    <2> DEFINE c == after[i - 1]
               k == lines[i][1]
               resp == lines[i][2]
    <2>1. /\ Kept(c) /\ c.plays = [l \in Keys |-> 0]
          /\ Len(c.order) = i - 1 /\ c.order \in Seq(Keys)
          /\ \A j \in 1..(i - 1) : /\ c.order[j] = lines[j][1]
                                   /\ c.byKey[lines[j][1]] = lines[j][2]
      BY <1>6 DEF Kept
    <2>2. /\ k \in Keys /\ resp \in Responses
          /\ after[i] = Add(c, k, resp)
      BY <1>1, <1>3
    <2>3. \A j \in 1..(i - 1) : lines[j][1] # k /\ lines[j][1] \in Keys
      BY <1>1, <1>4
    <2> HIDE DEF c, k, resp
    <2>4. c.byKey[k] = None
      BY <2>1, <2>2, <2>3 DEF Kept
    <2>5. /\ Kept(after[i]) /\ after[i].plays = c.plays
          /\ after[i].order = Append(c.order, k)
          /\ after[i].byKey[k] = resp
          /\ \A l \in Keys : l # k => after[i].byKey[l] = c.byKey[l]
      BY <2>1, <2>2, <2>4, KeptAdd
    <2>6. /\ Len(after[i].order) = i
          /\ \A j \in 1..(i - 1) : after[i].order[j] = c.order[j]
          /\ after[i].order[i] = k
      BY <2>1, <2>2, <2>5, AppendProperties
    <2>7. \A j \in 1..i : /\ after[i].order[j] = lines[j][1]
                          /\ after[i].byKey[lines[j][1]] = lines[j][2]
      <3> TAKE j \in 1..i
      <3>1. CASE j \in 1..(i - 1)
        BY <2>1, <2>3, <2>5, <2>6, <3>1
      <3>2. CASE j = i
        BY <2>5, <2>6, <3>2 DEF k, resp
      <3> QED
        BY <3>1, <3>2
    <2> QED
      BY <2>1, <2>5, <2>6, <2>7
  <1>7. T = {}
    <2> SUFFICES ASSUME T # {} PROVE FALSE
      OBVIOUS
    <2>1. PICK i \in T : \A j \in T : i <= j
      <3>1. T \in SUBSET Nat
        BY <1>1
      <3> HIDE DEF T
      <3> QED
        BY <3>1, Least
    <2>2. i # 0 /\ i \in 1..n /\ ~Good(i)
      BY <1>1, <1>5, <2>1
    <2>3. Good(i - 1)
      BY <1>1, <2>1, <2>2
    <2> HIDE DEF Good
    <2> QED
      BY <1>6, <2>2, <2>3
  <1>8. Good(n)
    BY <1>1, <1>7
  <1>9. Lines(Load(lines)) = lines
    <2>1. /\ Lines(Load(lines)) \in Seq(Pairs)
          /\ Len(Lines(Load(lines))) = n
          /\ \A i \in 1..n : Lines(Load(lines))[i] = lines[i]
      <3> DEFINE c == Load(lines)
      <3>1. /\ Kept(c) /\ Len(c.order) = n
            /\ \A i \in 1..n : /\ c.order[i] = lines[i][1]
                               /\ c.byKey[lines[i][1]] = lines[i][2]
        BY <1>2, <1>8
      <3> HIDE DEF c
      <3>2. /\ Lines(c) \in Seq(Pairs) /\ Len(Lines(c)) = n
            /\ \A i \in 1..n : Lines(c)[i] = <<c.order[i], c.byKey[c.order[i]]>>
        BY <3>1, LinesOfKept
      <3> QED
        BY <1>1, <3>1, <3>2 DEF c
    <2> QED
      BY <2>1, SeqEqual DEF n
  <1> QED
    BY <1>2, <1>8, <1>9

-----------------------------------------------------------------------------
LEMMA BeginsNothing ==
  ASSUME NEW a, NEW b, Len(a) = 0, Len(b) \in Nat
  PROVE  Begins(a, b)
  BY DEF Begins

LEMMA TapeInitIInv == CassetteInit => TapeIInv
  <1> SUFFICES ASSUME CassetteInit PROVE TapeIInv
    OBVIOUS
  <1>1. \A S : <<>> \in Seq(S) /\ Len(<<>>) = 0
    BY EmptySeq
  <1>2. TapeTypeInv
    BY <1>1, KeptNew DEF CassetteInit, TapeTypeInv, Distinct
  <1>3. Begins(file.lines, saved)
    BY <1>1, BeginsNothing DEF CassetteInit
  <1> QED
    BY <1>2, <1>3 DEF CassetteInit, TapeIInv

LEMMA NewRecordIInv ==
  ASSUME TapeIInv, NewRecord
  PROVE  TapeIInv'
  <1>1. /\ session' = [mode |-> "record", exchanges |-> 0,
                       number |-> session.number + 1]
        /\ cass' = New /\ log' = <<>>
        /\ UNCHANGED <<flight, file, saved, hits>>
    BY DEF NewRecord, Opened
  <1>2. \A S : <<>> \in Seq(S) /\ Len(<<>>) = 0
    BY EmptySeq
  <1>3. TapeTypeInv'
    BY <1>1, <1>2, KeptNew DEF TapeIInv, TapeTypeInv
  <1>4. \A k \in Keys : LastAdded(k)'
    BY <1>1, <1>2, KeptNew DEF LastAdded
  <1>5. session'.mode = "record"
    BY <1>1
  <1> QED
    BY <1>1, <1>3, <1>4, <1>5 DEF TapeIInv

(* What the file holds is a beginning of what was saved, and names no key   *)
(* twice.                                                                   *)
LEMMA NewReplayIInv ==
  ASSUME ResponsesApart, TapeIInv, NewReplay
  PROVE  TapeIInv'
  <1> DEFINE mode == IF file.exists /\ ~file.torn THEN "replay" ELSE "closed"
  <1>1. /\ session' = [mode |-> mode, exchanges |-> 0,
                       number |-> session.number + 1]
        /\ cass' = IF file.exists /\ ~file.torn THEN Load(file.lines) ELSE cass
        /\ hits' = [k \in Keys |-> 0]
        /\ UNCHANGED <<flight, file, log, saved>>
    BY DEF NewReplay, Opened
  <1>2. /\ file.lines \in Seq(Pairs) /\ saved \in Seq(Pairs)
        /\ Len(file.lines) \in Nat /\ Len(saved) \in Nat
        /\ Begins(file.lines, saved)
    BY LenProperties DEF TapeIInv, TapeTypeInv
  <1>3. Distinct(file.lines)
    <2> SUFFICES ASSUME NEW i \in 1..Len(file.lines),
                        NEW l \in 1..Len(file.lines),
                        file.lines[i][1] = file.lines[l][1]
                 PROVE  i = l
      BY DEF Distinct
    <2>1. /\ i \in 1..Len(saved) /\ l \in 1..Len(saved)
          /\ file.lines[i] = saved[i] /\ file.lines[l] = saved[l]
      BY <1>2 DEF Begins
    <2> QED
      BY <2>1 DEF TapeIInv, TapeTypeInv, Distinct
  <1>4. /\ Kept(Load(file.lines)) /\ Lines(Load(file.lines)) = file.lines
        /\ Load(file.lines).plays = [k \in Keys |-> 0]
    BY <1>2, <1>3, LoadRestores
  <1>5. session' \in [mode: {"closed", "record", "saving", "replay"},
                      exchanges: Int, number: Int]
    BY <1>1 DEF TapeIInv, TapeTypeInv
  <1>6. TapeTypeInv'
    BY <1>1, <1>4, <1>5 DEF TapeIInv, TapeTypeInv
  <1>7. session'.mode = mode
    BY <1>1
  <1>8. CASE file.exists /\ ~file.torn
    <2>1. session'.mode = "replay" /\ cass' = Load(file.lines)
      BY <1>1, <1>7, <1>8
    <2>2. Lines(cass)' = file.lines /\ cass'.plays = hits'
      BY <1>1, <1>4, <2>1
    <2> QED
      BY <1>1, <1>2, <1>6, <2>1, <2>2 DEF TapeIInv
  <1>9. CASE ~(file.exists /\ ~file.torn)
    <2>1. session'.mode = "closed"
      BY <1>7, <1>9
    <2> QED
      BY <1>1, <1>2, <1>6, <2>1 DEF TapeIInv
  <1> QED
    BY <1>8, <1>9

LEMMA ExchangeIInv ==
  ASSUME TapeIInv, NEW w \in Workers, NEW r \in Request,
         NEW resp \in Responses, Exchange(w, r, resp)
  PROVE  TapeIInv'
  <1>1. /\ session.mode = "record"
        /\ flight' = [flight EXCEPT ![w] = <<Key(r), resp>>]
        /\ session' = [session EXCEPT !.exchanges = @ + 1]
        /\ UNCHANGED <<cass, file, log, saved, hits>>
    BY DEF Exchange
  <1>2. <<Key(r), resp>> \in Pairs
    BY DEF Keys, Pairs
  <1>3. /\ session' \in [mode: {"closed", "record", "saving", "replay"},
                         exchanges: Int, number: Int]
        /\ session'.mode = "record"
    <2>1. /\ session \in [mode: {"closed", "record", "saving", "replay"},
                          exchanges: Int, number: Int]
          /\ session.exchanges + 1 \in Int
      BY DEF TapeIInv, TapeTypeInv
    <2> QED
      BY <1>1, <2>1
  <1>4. TapeTypeInv'
    BY <1>1, <1>2, <1>3 DEF TapeIInv, TapeTypeInv
  <1>5. \A k \in Keys : LastAdded(k)'
    BY <1>1 DEF TapeIInv, LastAdded
  <1> QED
    BY <1>1, <1>3, <1>4, <1>5 DEF TapeIInv

(* A worker adds its answer, which is then the last of its key.             *)
LEMMA RecordIInv ==
  ASSUME ResponsesApart, TapeIInv, NEW w \in Workers, RecordAnswer(w)
  PROVE  TapeIInv'
  <1> DEFINE k == flight[w][1]
             resp == flight[w][2]
             n == Len(log)
  <1>1. /\ session.mode = "record" /\ flight[w] # <<>>
        /\ flight' = [flight EXCEPT ![w] = <<>>]
        /\ UNCHANGED <<session, file, saved, hits>>
        /\ \/ UNCHANGED <<cass, log>>
           \/ cass' = Add(cass, k, resp) /\ log' = Append(log, flight[w])
    BY DEF RecordAnswer
  <1>2. /\ flight[w] \in Pairs /\ flight[w] = <<k, resp>>
        /\ k \in Keys /\ resp \in Responses
    BY <1>1 DEF TapeIInv, TapeTypeInv, Pairs
  <1>3. \A l \in Keys : LastAdded(l)
    BY <1>1 DEF TapeIInv
  <1> HIDE DEF k, resp
  <1>4. CASE UNCHANGED <<cass, log>>
    <2>1. TapeTypeInv'
      BY <1>1, <1>4 DEF TapeIInv, TapeTypeInv
    <2>2. \A l \in Keys : LastAdded(l)'
      BY <1>3, <1>4 DEF LastAdded
    <2> QED
      BY <1>1, <1>4, <2>1, <2>2 DEF TapeIInv
  <1>5. CASE cass' = Add(cass, k, resp) /\ log' = Append(log, flight[w])
    <2>1. /\ Kept(cass') /\ cass'.byKey[k] = resp
          /\ \A l \in Keys : l # k => cass'.byKey[l] = cass.byKey[l]
      BY <1>2, <1>5, KeptAdd DEF TapeIInv, TapeTypeInv
    <2>2. /\ log' \in Seq(Pairs) /\ n \in Nat /\ Len(log') = n + 1
          /\ \A i \in 1..n : log'[i] = log[i]
          /\ log'[n + 1] = <<k, resp>>
      BY <1>2, <1>5, AppendProperties, LenProperties DEF TapeIInv, TapeTypeInv
    <2>3. TapeTypeInv'
      BY <1>1, <2>1, <2>2 DEF TapeIInv, TapeTypeInv
    <2>4. \A i : i \in 1..Len(log') <=> i \in 1..n \/ i = n + 1
      BY <2>2
    <2>5. \A l \in Keys : LastAdded(l)'
      <3> TAKE l \in Keys
      <3>1. CASE l = k
        <4>1. /\ n + 1 \in 1..Len(log') /\ log'[n + 1] = <<l, cass'.byKey[l]>>
              /\ \A i \in 1..Len(log') : i <= n + 1
          BY <2>1, <2>2, <3>1
        <4> QED
          BY <4>1 DEF LastAdded
      <3>2. CASE l # k /\ \A i \in 1..n : log[i][1] # l
        <4>1. cass'.byKey[l] = None
          <5>1. cass.byKey[l] = None
            BY <1>3, <3>2 DEF LastAdded
          <5> QED
            BY <2>1, <3>2, <5>1
        <4>2. \A i \in 1..Len(log') : log'[i][1] # l
          BY <2>2, <2>4, <3>2
        <4> QED
          BY <4>1, <4>2 DEF LastAdded
      <3>3. CASE l # k /\ ~(\A i \in 1..n : log[i][1] # l)
        <4>1. PICK i \in 1..n : /\ log[i] = <<l, cass.byKey[l]>>
                                /\ \A m \in 1..n : log[m][1] = l => m <= i
          BY <1>3, <3>3 DEF LastAdded
        <4>2. /\ i \in 1..Len(log') /\ log'[i] = <<l, cass'.byKey[l]>>
          BY <2>1, <2>2, <3>3, <4>1
        <4>3. \A m \in 1..Len(log') : log'[m][1] = l => m <= i
          BY <2>2, <2>4, <3>3, <4>1
        <4> QED
          BY <4>2, <4>3 DEF LastAdded
      <3> QED
        BY <3>1, <3>2, <3>3
    <2> QED
      BY <1>1, <2>3, <2>5 DEF TapeIInv
  <1> QED
    BY <1>1, <1>4, <1>5

LEMMA BeginSaveIInv ==
  ASSUME ResponsesApart, TapeIInv, BeginSave
  PROVE  TapeIInv'
  <1>1. /\ session.mode = "record"
        /\ session' = [session EXCEPT !.mode = "saving"]
        /\ flight' = [w \in Workers |-> <<>>]
        /\ file' = [lines |-> <<>>, torn |-> FALSE, exists |-> TRUE]
        /\ saved' = Lines(cass)
        /\ UNCHANGED <<cass, log, hits>>
    BY DEF BeginSave
  <1>2. Lines(cass) \in Seq(Pairs) /\ Distinct(Lines(cass))
    BY LinesOfKept DEF TapeIInv, TapeTypeInv
  <1>3. /\ session' \in [mode: {"closed", "record", "saving", "replay"},
                         exchanges: Int, number: Int]
        /\ session'.mode = "saving"
    BY <1>1 DEF TapeIInv, TapeTypeInv
  <1>4. file' \in [lines: Seq(Pairs), torn: BOOLEAN, exists: BOOLEAN]
        /\ file'.lines = <<>> /\ Len(<<>>) = 0
    BY <1>1, EmptySeq
  <1>5. TapeTypeInv'
    BY <1>1, <1>2, <1>3, <1>4 DEF TapeIInv, TapeTypeInv
  <1>6. Begins(file.lines, saved)'
    BY <1>1, <1>2, <1>4, BeginsNothing, LenProperties
  <1>7. \A k \in Keys : LastAdded(k)'
    BY <1>1 DEF TapeIInv, LastAdded
  <1>8. saved' = Lines(cass)'
    BY <1>1
  <1> QED
    BY <1>3, <1>5, <1>6, <1>7, <1>8 DEF TapeIInv

(* The end of a session, with a file that begins what was saved.            *)
LEMMA ClosedIInv ==
  ASSUME TapeIInv, session' = [session EXCEPT !.mode = "closed"],
         flight' \in [Workers -> {<<>>} \cup Pairs],
         file' \in [lines: Seq(Pairs), torn: BOOLEAN, exists: BOOLEAN],
         Begins(file'.lines, saved),
         UNCHANGED <<cass, log, saved, hits>>
  PROVE  TapeIInv'
  <1>1. /\ session' \in [mode: {"closed", "record", "saving", "replay"},
                         exchanges: Int, number: Int]
        /\ session'.mode = "closed"
    BY DEF TapeIInv, TapeTypeInv
  <1>2. TapeTypeInv'
    BY <1>1 DEF TapeIInv, TapeTypeInv
  <1> QED
    BY <1>1, <1>2 DEF TapeIInv

LEMMA FailSaveIInv ==
  ASSUME TapeIInv, FailSave
  PROVE  TapeIInv'
  <1>1. /\ session.mode = "record"
        /\ session' = [session EXCEPT !.mode = "closed"]
        /\ flight' = [w \in Workers |-> <<>>]
        /\ UNCHANGED <<cass, file, log, saved, hits>>
    BY DEF FailSave
  <1>2. flight' \in [Workers -> {<<>>} \cup Pairs]
    BY <1>1
  <1> QED
    BY <1>1, <1>2, ClosedIInv DEF TapeIInv, TapeTypeInv

LEMMA EndSaveIInv ==
  ASSUME TapeIInv, EndSave
  PROVE  TapeIInv'
  <1>1. /\ session.mode = "saving"
        /\ session' = [session EXCEPT !.mode = "closed"]
        /\ file' = [file EXCEPT !.lines = Lines(cass)]
        /\ UNCHANGED <<cass, flight, log, saved, hits>>
    BY DEF EndSave
  <1>2. Lines(cass) = saved /\ saved \in Seq(Pairs) /\ Len(saved) \in Nat
    BY <1>1, LenProperties DEF TapeIInv, TapeTypeInv
  <1>3. /\ file' \in [lines: Seq(Pairs), torn: BOOLEAN, exists: BOOLEAN]
        /\ file'.lines = saved
    BY <1>1, <1>2 DEF TapeIInv, TapeTypeInv
  <1>4. Begins(file'.lines, saved)
    BY <1>2, <1>3 DEF Begins
  <1>5. flight' \in [Workers -> {<<>>} \cup Pairs]
    BY <1>1 DEF TapeIInv, TapeTypeInv
  <1> QED
    BY <1>1, <1>3, <1>4, <1>5, ClosedIInv

(* A write that is cut short leaves a beginning of the lines.               *)
LEMMA CrashIInv ==
  ASSUME ResponsesApart, TapeIInv, Crash
  PROVE  TapeIInv'
  <1>1. /\ session.mode \in {"record", "saving"}
        /\ session' = [session EXCEPT !.mode = "closed"]
        /\ flight' = [w \in Workers |-> <<>>]
        /\ UNCHANGED <<cass, log, saved, hits>>
    BY DEF Crash
  <1>2. flight' \in [Workers -> {<<>>} \cup Pairs]
    BY <1>1
  <1>3. CASE session.mode = "record"
    <2>1. file' = file
      BY <1>3 DEF Crash
    <2> QED
      BY <1>1, <1>2, <2>1, ClosedIInv DEF TapeIInv, TapeTypeInv
  <1>4. CASE session.mode = "saving"
    <2>1. PICK n \in 0..Len(cass.order), cut \in BOOLEAN :
             file' = [file EXCEPT !.lines = SubSeq(Lines(cass), 1, n),
                                  !.torn = cut]
      BY <1>4 DEF Crash
    <2>2. /\ saved = Lines(cass) /\ Lines(cass) \in Seq(Pairs)
          /\ Len(Lines(cass)) = Len(cass.order) /\ Len(cass.order) \in Nat
      BY <1>4, LinesOfKept DEF TapeIInv, TapeTypeInv
    <2>3. /\ SubSeq(saved, 1, n) \in Seq(Pairs)
          /\ Len(SubSeq(saved, 1, n)) = n
          /\ \A i \in 1..n : SubSeq(saved, 1, n)[i] = saved[i]
      <3>1. \A i \in 1..n : saved[i] \in Pairs
        BY <2>2, ElementOfSeq
      <3>2. n \in Int /\ n - 1 + 1 = n /\ (IF 1 <= n THEN n - 1 + 1 ELSE 0) = n
        BY <2>2
      <3>3. /\ SubSeq(saved, 1, n) \in Seq(Pairs)
            /\ Len(SubSeq(saved, 1, n)) = IF 1 <= n THEN n - 1 + 1 ELSE 0
            /\ \A i \in 1..(n - 1 + 1) : SubSeq(saved, 1, n)[i] = saved[1 + i - 1]
        BY <3>1, <3>2, SubSeqProperties
      <3> QED
        BY <3>2, <3>3
    <2>4. /\ file' \in [lines: Seq(Pairs), torn: BOOLEAN, exists: BOOLEAN]
          /\ file'.lines = SubSeq(saved, 1, n)
      BY <2>1, <2>2, <2>3 DEF TapeIInv, TapeTypeInv
    <2>5. Begins(file'.lines, saved)
      BY <2>2, <2>3, <2>4 DEF Begins
    <2> QED
      BY <1>1, <1>2, <2>4, <2>5, ClosedIInv
  <1> QED
    BY <1>1, <1>3, <1>4

(* A replayed exchange changes only the plays, and they are counted.        *)
LEMMA ReplayIInv ==
  ASSUME TapeIInv, NEW r \in Request, Replay(r)
  PROVE  TapeIInv'
  <1> DEFINE k == Key(r)
  <1>1. /\ session.mode = "replay"
        /\ session' = [session EXCEPT !.exchanges = @ + 1]
        /\ cass' = Counted(k)
        /\ hits' = [hits EXCEPT ![k] =
              IF cass.byKey[k] = None THEN @ ELSE @ + 1]
        /\ UNCHANGED <<flight, file, log, saved>>
    BY DEF Replay
  <1>2. k \in Keys
    BY DEF Keys
  <1> HIDE DEF k
  <1>3. /\ session' \in [mode: {"closed", "record", "saving", "replay"},
                         exchanges: Int, number: Int]
        /\ session'.mode = "replay"
    <2>1. /\ session \in [mode: {"closed", "record", "saving", "replay"},
                          exchanges: Int, number: Int]
          /\ session.exchanges + 1 \in Int
      BY DEF TapeIInv, TapeTypeInv
    <2> QED
      BY <1>1, <2>1
  <1>4. /\ cass.plays = hits /\ hits \in [Keys -> Nat] /\ Kept(cass)
        /\ Begins(Lines(cass), saved)
    BY <1>1 DEF TapeIInv, TapeTypeInv
  <1>5. CASE cass.byKey[k] = None
    <2>1. cass' = cass /\ hits' = hits
      BY <1>1, <1>4, <1>5 DEF Counted
    <2>2. TapeTypeInv'
      BY <1>1, <1>3, <2>1 DEF TapeIInv, TapeTypeInv
    <2> QED
      BY <1>1, <1>3, <1>4, <2>1, <2>2 DEF TapeIInv
  <1>6. CASE cass.byKey[k] # None
    <2> DEFINE p == [cass.plays EXCEPT ![k] = @ + 1]
    <2>1. /\ cass' = [cass EXCEPT !.plays = p]
          /\ hits' = [hits EXCEPT ![k] = @ + 1]
      <3>1. cass' = [cass EXCEPT !.plays = p]
        <4>1. Counted(k) = IF cass.byKey[k] = None THEN cass
                           ELSE [cass EXCEPT !.plays = p]
          BY Zenon DEF Counted
        <4> HIDE DEF p
        <4> QED
          BY <1>1, <1>6, <4>1, Zenon
      <3> QED
        BY <1>1, <1>6, <3>1
    <2>7. p = hits' /\ p \in [Keys -> Nat]
      BY <1>2, <1>4, <2>1
    <2> HIDE DEF p
    <2>2. /\ cass'.order = cass.order /\ cass'.byKey = cass.byKey
          /\ cass'.plays = hits' /\ hits' \in [Keys -> Nat]
          /\ cass' \in [order: Seq(Keys), byKey: [Keys -> Responses \cup {None}],
                        plays: [Keys -> Nat]]
      BY <1>4, <2>1, <2>7 DEF Kept
    <2>3. Kept(cass')
      BY <1>4, <2>2 DEF Kept
    <2>4. Lines(cass') = Lines(cass)
      BY <2>2 DEF Lines
    <2>5. TapeTypeInv'
      BY <1>1, <1>3, <2>2, <2>3 DEF TapeIInv, TapeTypeInv
    <2> QED
      BY <1>1, <1>3, <1>4, <2>2, <2>4, <2>5 DEF TapeIInv
  <1> QED
    BY <1>5, <1>6

LEMMA TapeNextIInv ==
  ASSUME ResponsesApart, TapeIInv, [CassetteNext]_cassetteVars
  PROVE  TapeIInv'
  <1>1. CASE NewRecord \/ NewReplay \/ BeginSave \/ FailSave \/ EndSave \/ Crash
    BY <1>1, NewRecordIInv, NewReplayIInv, BeginSaveIInv, FailSaveIInv,
       EndSaveIInv, CrashIInv
  <1>2. CASE EndReplay
    <2>1. /\ session' = [session EXCEPT !.mode = "closed"]
          /\ UNCHANGED <<cass, flight, file, log, saved, hits>>
      BY <1>2 DEF EndReplay
    <2> QED
      BY <2>1, ClosedIInv DEF TapeIInv, TapeTypeInv
  <1>3. ASSUME NEW w \in Workers, NEW r \in Request, NEW resp \in Responses,
               Exchange(w, r, resp)
        PROVE  TapeIInv'
    BY <1>3, ExchangeIInv
  <1>4. ASSUME NEW w \in Workers, RecordAnswer(w) PROVE TapeIInv'
    BY <1>4, RecordIInv
  <1>5. ASSUME NEW r \in Request, Replay(r) PROVE TapeIInv'
    BY <1>5, ReplayIInv
  <1>6. CASE UNCHANGED cassetteVars
    BY <1>6 DEF cassetteVars, TapeIInv, TapeTypeInv, LastAdded
  <1> QED
    BY <1>1, <1>2, <1>3, <1>4, <1>5, <1>6 DEF CassetteNext

(* The last response of a key is the one the cassette holds.                *)
LEMMA RecordsLastHolds ==
  ASSUME TapeIInv
  PROVE  RecordsLast
  <1> SUFFICES ASSUME session.mode \in {"record", "saving"},
                      NEW f \in Forms, NEW s \in Spellings, NEW t \in Spellings
               PROVE  /\ cass.byKey[Key(<<f, s>>)] = LastSeen(<<f, t>>)
                      /\ IsInjective(cass.order)
    BY DEF RecordsLast
  <1>1. Key(<<f, s>>) = f /\ Key(<<f, t>>) = f /\ f \in Keys
    <2>1. Key(<<f, s>>) = f /\ Key(<<f, t>>) = f
      BY DEF Key
    <2>2. <<f, s>> \in Request
      BY DEF Request
    <2> QED
      BY <2>1, <2>2, Zenon DEF Keys
  <1>2. /\ LastAdded(f) /\ log \in Seq(Pairs) /\ Kept(cass)
        /\ Len(log) \in Nat /\ DOMAIN log = 1..Len(log)
        /\ DOMAIN cass.order = 1..Len(cass.order)
    BY <1>1, LenProperties DEF TapeIInv, TapeTypeInv, Kept
  <1>3. IsInjective(cass.order)
    BY <1>2 DEF IsInjective, Kept
  <1> DEFINE of == {i \in DOMAIN log : log[i][1] = f}
  <1> DEFINE newest == CHOOSE i \in of : \A j \in of : j <= i
  <1>4. LastSeen(<<f, t>>) = IF of = {} THEN None ELSE log[newest][2]
    <2> DEFINE of1 == {i \in DOMAIN log : log[i][1] = Key(<<f, t>>)}
    <2>1. of1 = of
      BY <1>1
    <2>2. LastSeen(<<f, t>>) =
             IF of1 = {} THEN None
             ELSE log[CHOOSE i \in of1 : \A j \in of1 : j <= i][2]
      BY Zenon DEF LastSeen
    <2> HIDE DEF of1, of
    <2> QED
      BY <2>1, <2>2, Zenon
  <1> HIDE DEF newest
  <1>5. CASE cass.byKey[f] = None /\ \A i \in 1..Len(log) : log[i][1] # f
    <2>1. of = {}
      BY <1>2, <1>5
    <2> QED
      BY <1>1, <1>3, <1>4, <1>5, <2>1
  <1>6. ASSUME NEW i \in 1..Len(log), log[i] = <<f, cass.byKey[f]>>,
               \A j \in 1..Len(log) : log[j][1] = f => j <= i
        PROVE  cass.byKey[f] = LastSeen(<<f, t>>)
    <2>1. i \in of /\ \A j \in of : j <= i /\ j \in Nat
      BY <1>2, <1>6
    <2>2. newest \in of /\ \A y \in of : y <= newest
      BY <2>1 DEF newest
    <2>3. newest = i /\ of # {}
      BY <2>1, <2>2
    <2>4. LastSeen(<<f, t>>) = log[i][2]
      BY <1>4, <2>3
    <2> QED
      BY <1>6, <2>4
  <1> QED
    BY <1>1, <1>2, <1>3, <1>5, <1>6 DEF LastAdded

LEMMA ReplaysSavedHolds ==
  ASSUME ResponsesApart, TapeIInv
  PROVE  ReplaysSaved
  <1> SUFFICES ASSUME session.mode = "replay"
               PROVE  IsPrefix(Lines(cass), saved)
    BY DEF ReplaysSaved, Key
  <1> DEFINE a == Lines(cass)
             n == Len(a)
  <1>1. /\ a \in Seq(Pairs) /\ saved \in Seq(Pairs)
        /\ n \in Nat /\ Len(saved) \in Nat /\ n <= Len(saved)
        /\ \A i \in 1..n : a[i] = saved[i]
    BY LinesOfKept, LenProperties DEF TapeIInv, TapeTypeInv, Begins
  <1> HIDE DEF a
  <1>2. /\ \A i \in 1..n : a[i] \in Pairs /\ saved[i] \in Pairs
        /\ n \in Int /\ n - 1 + 1 = n
        /\ (IF 1 <= n THEN n - 1 + 1 ELSE 0) = n
    BY <1>1, ElementOfSeq
  <1>3. /\ SubSeq(a, 1, n) \in Seq(Pairs) /\ Len(SubSeq(a, 1, n)) = n
        /\ \A i \in 1..n : SubSeq(a, 1, n)[i] = a[1 + i - 1]
    BY <1>2, SubSeqProperties
  <1>4. /\ SubSeq(saved, 1, n) \in Seq(Pairs)
        /\ Len(SubSeq(saved, 1, n)) = n
        /\ \A i \in 1..n : SubSeq(saved, 1, n)[i] = saved[1 + i - 1]
    BY <1>2, SubSeqProperties
  <1>5. \A i \in 1..n : 1 + i - 1 = i
    BY <1>1
  <1>6. SubSeq(a, 1, n) = SubSeq(saved, 1, n)
    BY <1>1, <1>3, <1>4, <1>5, SeqEqual
  <1> QED
    BY <1>1, <1>6 DEF IsPrefix, a

LEMMA PlaysCountedHolds ==
  ASSUME TapeIInv
  PROVE  PlaysCounted
  <1> SUFFICES ASSUME session.mode = "replay" PROVE PlaysCounted
    BY DEF PlaysCounted
  <1>1. cass.plays = hits
    BY DEF TapeIInv
  <1> QED
    BY <1>1, Zenon DEF PlaysCounted, Unplayed

(* For any requests and spellings, any answers, any number of workers and   *)
(* of sessions, with the process ending at any point: a cassette records    *)
(* the last answer of each request, a replay serves a beginning of what was *)
(* saved, in order and each interaction once, and the plays are counted.    *)
THEOREM TapeIsFaithful ==
  ASSUME ResponsesApart
  PROVE  CassetteSpec => []TapeFaithful
  <1>1. TapeIInv /\ [CassetteNext]_cassetteVars => TapeIInv'
    BY TapeNextIInv
  <1>2. TapeIInv => TapeFaithful
    BY RecordsLastHolds, ReplaysSavedHolds, PlaysCountedHolds DEF TapeFaithful
  <1> QED
    BY <1>1, <1>2, TapeInitIInv, PTL DEF CassetteSpec

-----------------------------------------------------------------------------
(* Instrumentation.                                                         *)

Hooks == Seq({"request", "response", "error"})

(* A call on its way in has no outcome; on its way out it has one, and what *)
(* panicked does not come past the hooks.                                   *)
StageInv(k) ==
    /\ k.going = "in" =>
          /\ k.at \in {"async", "otel", "prom", "hooks", "systemOne",
                       "attempt", "backoff"}
          /\ k.outcome = "none"
    /\ k.going = "out" =>
          /\ k.at \in {"hooks", "prom", "otel", "send", "close", "done"}
          /\ k.outcome \in Outcomes
          /\ k.at = "hooks" => k.outcome # "panic"

Ends(k) == k.at \in {"send", "close", "done"}

(* The spans of a call: one for each attempt that was retried, then, unless *)
(* the call panicked, one for the last attempt or for none.                 *)
SpanInv(k, s) ==
    /\ Ends(k) => ~s.open
    /\ Len(s.attempts) =
          IF Ends(k) /\ k.outcome # "panic" THEN s.retries + 1 ELSE s.retries
    /\ \A i \in 1..Len(s.attempts) : s.attempts[i] = i
    /\ k.going = "in" =>
          k.made = IF k.at = "attempt" THEN s.retries + 1 ELSE s.retries
    /\ k.made = s.retries \/ k.made = s.retries + 1
    /\ k.outcome = "ok" => k.made = s.retries + 1

HookInv(k, h) ==
    /\ k.going = "in" =>
          h = IF k.at \in {"systemOne", "attempt", "backoff"}
              THEN <<"request">> ELSE <<>>
    /\ k.going = "out" /\ k.at = "hooks" => h = <<"request">>
    /\ k.going = "out" /\ k.at # "hooks" =>
          /\ k.outcome = "ok" => h = <<"request", "response">>
          /\ k.outcome = "error" => h = <<"request", "error">>
          /\ h \in {<<"request">>, <<"request", "response">>,
                    <<"request", "error">>}

(* The result of a call is in its channel from the send until it is         *)
(* collected, when the calls before it have been.                           *)
Sent(k) == k.at \in {"close", "done"}
ChanInv(k, q, collected) ==
    /\ collected => Sent(k)
    /\ q.queue = IF Sent(k) /\ ~collected THEN <<k.outcome>> ELSE <<>>
    /\ q.closed => k.at = "done"

CallInv(k, s, h) == StageInv(k) /\ SpanInv(k, s) /\ HookInv(k, h)

CallsInv ==
    /\ \A c \in Calls : CallInv(call[c], span[c], hook[c])
    /\ \A c \in Calls : ChanInv(call[c], chan[c], c <= Len(results))
    /\ Len(results) <= N
    /\ Positional

IInv == TypeOK /\ CallsInv /\ GaugeCounts /\ MetricsAgree

-----------------------------------------------------------------------------
LEMMA CallsFinite ==
  /\ N \in Nat /\ MaxRetries \in Nat
  /\ \A S \in SUBSET Calls :
        IsFiniteSet(S) /\ Cardinality(S) \in Nat /\ Cardinality(S) <= N
  <1>1. N \in Nat /\ MaxRetries \in Nat
    BY CallsAssumption
  <1>2. IsFiniteSet(Calls) /\ Cardinality(Calls) = N
    <2>1. /\ IsFiniteSet(1..N)
          /\ Cardinality(1..N) = IF 1 > N THEN 0 ELSE N - 1 + 1
      BY <1>1, FS_Interval
    <2>2. QED
      BY <1>1, <2>1 DEF Calls
  <1>3. QED
    BY <1>1, <1>2, FS_Subset, FS_CardinalityType

(* How the size of a set of calls follows one of them.                      *)
LEMMA CountStep ==
  ASSUME NEW S \in SUBSET Calls, NEW T \in SUBSET Calls, NEW c \in Calls,
         \A d \in Calls \ {c} : d \in S <=> d \in T
  PROVE  /\ (c \in S <=> c \in T) => T = S
         /\ c \in T /\ c \notin S => Cardinality(T) = Cardinality(S) + 1
         /\ c \in S /\ c \notin T => Cardinality(T) = Cardinality(S) - 1
  <1>1. IsFiniteSet(S)
    BY CallsFinite
  <1>2. (c \in S <=> c \in T) => T = S
    OBVIOUS
  <1>3. ASSUME c \in T, c \notin S
        PROVE  Cardinality(T) = Cardinality(S) + 1
    <2>1. T = S \cup {c}
      BY <1>3
    <2>2. QED
      BY <1>1, <1>3, <2>1, FS_AddElement
  <1>4. ASSUME c \in S, c \notin T
        PROVE  Cardinality(T) = Cardinality(S) - 1
    <2>1. T = S \ {c}
      BY <1>4
    <2>2. QED
      BY <1>1, <1>4, <2>1, FS_RemoveElement
  <1>5. QED
    BY <1>2, <1>3, <1>4

(* The parts of a call's state, and what updating one with itself does.     *)
LEMMA Parts ==
  ASSUME IInv, NEW c \in Calls
  PROVE  /\ call[c] \in CallState /\ span[c] \in SpanState
         /\ hook[c] \in Hooks /\ chan[c] \in ChanState
         /\ CallInv(call[c], span[c], hook[c])
         /\ ChanInv(call[c], chan[c], c <= Len(results))
         /\ span = [span EXCEPT ![c] = span[c]]
         /\ hook = [hook EXCEPT ![c] = hook[c]]
         /\ chan = [chan EXCEPT ![c] = chan[c]]
         /\ call = [call EXCEPT ![c] = call[c]]
  <1>1. /\ call \in [Calls -> CallState] /\ span \in [Calls -> SpanState]
        /\ hook \in [Calls -> Hooks] /\ chan \in [Calls -> ChanState]
    BY DEF IInv, TypeOK, Hooks
  <1>2. /\ CallInv(call[c], span[c], hook[c])
        /\ ChanInv(call[c], chan[c], c <= Len(results))
    BY DEF IInv, CallsInv
  <1>3. QED
    BY <1>1, <1>2

CallTypes ==
    /\ call \in [Calls -> CallState] /\ span \in [Calls -> SpanState]
    /\ hook \in [Calls -> Hooks] /\ chan \in [Calls -> ChanState]
    /\ results \in Seq(Outcomes \cup {"zero"})

(* One goroutine moves: its call stays good, and so do the others.          *)
LEMMA CallStep ==
  ASSUME IInv, NEW c \in Calls, NEW k \in CallState, NEW s \in SpanState,
         NEW h \in Hooks, NEW q \in ChanState,
         call' = [call EXCEPT ![c] = k], span' = [span EXCEPT ![c] = s],
         hook' = [hook EXCEPT ![c] = h], chan' = [chan EXCEPT ![c] = q],
         UNCHANGED results,
         CallInv(k, s, h), ChanInv(k, q, c <= Len(results)),
         Sent(call[c]) => k.outcome = call[c].outcome
  PROVE  CallTypes' /\ CallsInv'
  <1>1. CallTypes
    BY DEF IInv, TypeOK, CallTypes, Hooks
  <1>2. CallTypes'
    BY <1>1 DEF CallTypes
  <1>3. \A d \in Calls : CallInv(call'[d], span'[d], hook'[d])
    BY <1>1 DEF CallTypes, IInv, CallsInv
  <1>4. \A d \in Calls : ChanInv(call'[d], chan'[d], d <= Len(results))
    BY <1>1 DEF CallTypes, IInv, CallsInv
  <1>5. Positional'
    <2>1. DOMAIN results = 1..Len(results) /\ Len(results) \in Nat
      BY <1>1, LenProperties DEF CallTypes
    <2>2. \A i \in DOMAIN results : i \in Calls /\ i <= Len(results)
      BY <2>1, CallsFinite DEF IInv, CallsInv, Calls
    <2>3. \A i \in DOMAIN results : Sent(call[i])
      BY <2>2 DEF IInv, CallsInv, ChanInv
    <2>4. \A i \in DOMAIN results : call'[i].outcome = call[i].outcome
      BY <1>1, <2>2, <2>3 DEF CallTypes
    <2>5. QED
      BY <2>4 DEF Positional, IInv, CallsInv
  <1>6. QED
    BY <1>2, <1>3, <1>4, <1>5 DEF CallsInv, IInv

(* What the metrics make of a call's state.                                 *)
InsideState(k) ==
    \/ k.at = "prom" /\ k.going = "out"
    \/ k.at \in {"hooks", "systemOne", "attempt", "backoff"}
RecordedState(k, outcome) ==
    /\ Ends(k) \/ (k.at = "otel" /\ k.going = "out")
    /\ k.outcome = outcome

(* The sets that the gauge and the counters count, after one call moved.    *)
LEMMA CountedStep ==
  ASSUME IInv, NEW c \in Calls, NEW k \in CallState,
         call' = [call EXCEPT ![c] = k]
  PROVE  /\ LET S == {d \in Calls : Inside(d)}
                T == {d \in Calls : Inside(d)'}
            IN  /\ (InsideState(call[c]) <=> InsideState(k)) => T = S
                /\ ~InsideState(call[c]) /\ InsideState(k) =>
                      Cardinality(T) = Cardinality(S) + 1
                /\ InsideState(call[c]) /\ ~InsideState(k) =>
                      Cardinality(T) = Cardinality(S) - 1
         /\ \A o \in {"ok", "error"} :
            LET S == {d \in Calls : Recorded(d, o)}
                T == {d \in Calls : Recorded(d, o)'}
            IN  /\ (RecordedState(call[c], o) <=> RecordedState(k, o)) => T = S
                /\ ~RecordedState(call[c], o) /\ RecordedState(k, o) =>
                      Cardinality(T) = Cardinality(S) + 1
  <1>1. \A d \in Calls : call'[d] = IF d = c THEN k ELSE call[d]
    BY DEF IInv, TypeOK
  <1>2. LET S == {d \in Calls : Inside(d)}
            T == {d \in Calls : Inside(d)'}
        IN  /\ (InsideState(call[c]) <=> InsideState(k)) => T = S
            /\ ~InsideState(call[c]) /\ InsideState(k) =>
                  Cardinality(T) = Cardinality(S) + 1
            /\ InsideState(call[c]) /\ ~InsideState(k) =>
                  Cardinality(T) = Cardinality(S) - 1
    <2> DEFINE S == {d \in Calls : Inside(d)}
               T == {d \in Calls : Inside(d)'}
    <2>1. S \in SUBSET Calls /\ T \in SUBSET Calls
      OBVIOUS
    <2>2. \A d \in Calls : /\ d \in S <=> InsideState(call[d])
                           /\ d \in T <=> InsideState(call'[d])
      BY DEF Inside, InsideState, At
    <2> HIDE DEF S, T
    <2>3. \A d \in Calls \ {c} : d \in S <=> d \in T
      BY <1>1, <2>2
    <2>4. /\ c \in S <=> InsideState(call[c])
          /\ c \in T <=> InsideState(k)
      BY <1>1, <2>2
    <2>5. /\ (c \in S <=> c \in T) => T = S
          /\ c \in T /\ c \notin S => Cardinality(T) = Cardinality(S) + 1
          /\ c \in S /\ c \notin T => Cardinality(T) = Cardinality(S) - 1
      BY <2>1, <2>3, CountStep
    <2>6. QED
      BY <2>4, <2>5 DEF S, T
  <1>3. ASSUME NEW o \in {"ok", "error"}
        PROVE  LET S == {d \in Calls : Recorded(d, o)}
                   T == {d \in Calls : Recorded(d, o)'}
               IN  /\ (RecordedState(call[c], o) <=> RecordedState(k, o)) =>
                         T = S
                   /\ ~RecordedState(call[c], o) /\ RecordedState(k, o) =>
                         Cardinality(T) = Cardinality(S) + 1
    <2> DEFINE S == {d \in Calls : Recorded(d, o)}
               T == {d \in Calls : Recorded(d, o)'}
    <2>1. S \in SUBSET Calls /\ T \in SUBSET Calls
      OBVIOUS
    <2>2. \A d \in Calls : /\ d \in S <=> RecordedState(call[d], o)
                           /\ d \in T <=> RecordedState(call'[d], o)
      BY DEF Recorded, RecordedState, At, Over, Ends
    <2> HIDE DEF S, T
    <2>3. \A d \in Calls \ {c} : d \in S <=> d \in T
      BY <1>1, <2>2
    <2>4. /\ c \in S <=> RecordedState(call[c], o)
          /\ c \in T <=> RecordedState(k, o)
      BY <1>1, <2>2
    <2>5. /\ (c \in S <=> c \in T) => T = S
          /\ c \in T /\ c \notin S => Cardinality(T) = Cardinality(S) + 1
      BY <2>1, <2>3, CountStep
    <2>6. QED
      BY <2>4, <2>5 DEF S, T
  <1>4. QED
    BY <1>2, <1>3

(* The retries of the traces, after one more or none.                       *)
LEMMA RetriesStep ==
  ASSUME IInv, NEW c \in Calls, NEW s \in SpanState,
         span' = [span EXCEPT ![c] = s]
  PROVE  /\ s.retries = span[c].retries => TracedRetries' = TracedRetries
         /\ s.retries = span[c].retries + 1 =>
               Cardinality(TracedRetries') = Cardinality(TracedRetries) + 1
  <1>1. /\ span \in [Calls -> SpanState]
        /\ \A d \in Calls : span'[d] = IF d = c THEN s ELSE span[d]
    BY DEF IInv, TypeOK
  <1>2. span[c].retries \in 0..MaxRetries /\ s.retries \in 0..MaxRetries
    BY <1>1 DEF SpanState
  <1>3. ASSUME s.retries = span[c].retries
        PROVE  TracedRetries' = TracedRetries
    <2>1. \A d \in Calls : span'[d].retries = span[d].retries
      BY <1>1, <1>3
    <2>2. QED
      BY <2>1 DEF TracedRetries
  <1>4. ASSUME s.retries = span[c].retries + 1
        PROVE  Cardinality(TracedRetries') = Cardinality(TracedRetries) + 1
    <2> DEFINE new == <<c, s.retries>>
               n == span[c].retries
    <2>1. new \in Calls \X (1..MaxRetries) /\ s.retries = n + 1
      BY <1>2, <1>4, CallsFinite
    <2>2. /\ \A d \in Calls, m \in 1..MaxRetries : 
                m <= span'[d].retries <=>
                   (m <= span[d].retries \/ <<d, m>> = new)
      BY <1>1, <1>2, <1>4, CallsFinite
    <2>3. TracedRetries' = TracedRetries \cup {new}
      BY <2>1, <2>2 DEF TracedRetries
    <2>4. new \notin TracedRetries
      BY <1>2, <2>1, CallsFinite DEF TracedRetries
    <2>5. IsFiniteSet(TracedRetries)
      <3>1. IsFiniteSet(Calls) /\ IsFiniteSet(1..MaxRetries)
        BY CallsFinite, FS_Interval
      <3>2. IsFiniteSet(Calls \X (1..MaxRetries))
        BY <3>1, FS_Product
      <3>3. QED
        BY <3>2, FS_Subset DEF TracedRetries
    <2>6. QED
      BY <2>3, <2>4, <2>5, FS_AddElement
  <1>5. QED
    BY <1>3, <1>4

(* A step that no instrument counts.                                        *)
LEMMA QuietStep ==
  ASSUME IInv, NEW c \in Calls, NEW k \in CallState, NEW s \in SpanState,
         call' = [call EXCEPT ![c] = k], span' = [span EXCEPT ![c] = s],
         InsideState(call[c]) <=> InsideState(k),
         \A o \in {"ok", "error"} :
            RecordedState(call[c], o) <=> RecordedState(k, o),
         s.retries = span[c].retries,
         UNCHANGED <<inFlight, counts>>,
         CallTypes', CallsInv'
  PROVE  IInv'
  <1>1. {d \in Calls : Inside(d)'} = {d \in Calls : Inside(d)}
    BY CountedStep
  <1>2. /\ {d \in Calls : Recorded(d, "ok")'} =
              {d \in Calls : Recorded(d, "ok")}
        /\ {d \in Calls : Recorded(d, "error")'} =
              {d \in Calls : Recorded(d, "error")}
    BY CountedStep
  <1>3. TracedRetries' = TracedRetries
    BY RetriesStep
  <1>4. GaugeCounts' /\ MetricsAgree'
    BY <1>1, <1>2, <1>3 DEF IInv, GaugeCounts, MetricsAgree
  <1>5. TypeOK'
    BY DEF IInv, TypeOK, CallTypes, Hooks
  <1>6. QED
    BY <1>4, <1>5 DEF IInv

Places == Layers \cup {"attempt", "backoff", "send", "close", "done"}

(* The state of a call that goes on, and of one that returns.               *)
LEMMA GoesState ==
  ASSUME IInv, NEW c \in Calls, NEW layer \in Places, Goes(c, layer)
  PROVE  \E k \in CallState :
            /\ k.at = layer /\ k.going = call[c].going
            /\ k.made = call[c].made /\ k.outcome = call[c].outcome
            /\ call' = [call EXCEPT ![c] = k]
  <1> DEFINE k == [call[c] EXCEPT !.at = layer]
  <1>1. call[c] \in CallState
    BY Parts
  <1>2. /\ k \in CallState
        /\ k.at = layer /\ k.going = call[c].going
        /\ k.made = call[c].made /\ k.outcome = call[c].outcome
    BY <1>1 DEF CallState, Places
  <1>3. call' = [call EXCEPT ![c] = k]
    BY DEF Goes, IInv, TypeOK
  <1>4. QED
    BY <1>2, <1>3

LEMMA ReturnsState ==
  ASSUME IInv, NEW c \in Calls, NEW layer \in Places,
         NEW outcome \in Outcomes, Returns(c, layer, outcome)
  PROVE  \E k \in CallState :
            /\ k.at = layer /\ k.going = "out"
            /\ k.made = call[c].made /\ k.outcome = outcome
            /\ call' = [call EXCEPT ![c] = k]
  <1> DEFINE k == [call[c] EXCEPT !.at = layer, !.going = "out",
                                  !.outcome = outcome]
  <1>1. call[c] \in CallState
    BY Parts
  <1>2. /\ k \in CallState
        /\ k.at = layer /\ k.going = "out"
        /\ k.made = call[c].made /\ k.outcome = outcome
    BY <1>1 DEF CallState, Places
  <1>3. call' = [call EXCEPT ![c] = k]
    BY DEF Returns, IInv, TypeOK
  <1>4. QED
    BY <1>2, <1>3

(* A step of the chain, before the result is sent: nothing is counted and   *)
(* the channel is as it was.                                                *)
LEMMA ChainStep ==
  ASSUME IInv, NEW c \in Calls, NEW k \in CallState, NEW s \in SpanState,
         NEW h \in Hooks,
         call' = [call EXCEPT ![c] = k], span' = [span EXCEPT ![c] = s],
         hook' = [hook EXCEPT ![c] = h],
         UNCHANGED <<chan, results>>,
         CallInv(k, s, h), ~Sent(call[c]), ~Sent(k)
  PROVE  /\ CallTypes' /\ CallsInv'
         /\ /\ InsideState(call[c]) <=> InsideState(k)
            /\ \A o \in {"ok", "error"} :
                  RecordedState(call[c], o) <=> RecordedState(k, o)
            /\ s.retries = span[c].retries
            /\ UNCHANGED <<inFlight, counts>>
            => IInv'
  <1>1. /\ chan[c] \in ChanState /\ chan' = [chan EXCEPT ![c] = chan[c]]
        /\ ChanInv(call[c], chan[c], c <= Len(results))
    BY Parts
  <1>2. ChanInv(k, chan[c], c <= Len(results))
    BY <1>1 DEF ChanInv, Sent
  <1>3. CallTypes' /\ CallsInv'
    BY <1>1, <1>2, CallStep
  <1>4. QED
    BY <1>3, QuietStep

LEMMA InitIInv == CallsInit => IInv
  <1> SUFFICES ASSUME CallsInit PROVE IInv
    OBVIOUS
  <1> DEFINE k == [at |-> "async", going |-> "in", made |-> 0,
                   outcome |-> "none"]
             s == [open |-> FALSE, retries |-> 0, attempts |-> <<>>]
             q == [queue |-> <<>>, closed |-> FALSE]
  <1>1. /\ k \in CallState /\ s \in SpanState /\ q \in ChanState
        /\ <<>> \in Hooks /\ <<>> \in Seq(Outcomes \cup {"zero"})
    BY CallsFinite DEF CallState, SpanState, ChanState, Layers, Hooks
  <1>2. TypeOK
    BY <1>1, CallsFinite DEF CallsInit, TypeOK, Hooks
  <1>3. StageInv(k) /\ SpanInv(k, s) /\ HookInv(k, <<>>)
    BY DEF StageInv, SpanInv, HookInv, Ends
  <1>4. \A c \in Calls : /\ CallInv(call[c], span[c], hook[c])
                         /\ ChanInv(call[c], chan[c], c <= Len(results))
    <2> SUFFICES ASSUME NEW c \in Calls
                 PROVE  /\ CallInv(k, s, <<>>)
                        /\ ChanInv(k, q, c <= Len(<<>>))
      BY DEF CallsInit
    <2>1. ~(c <= Len(<<>>))
      BY CallsFinite DEF Calls
    <2>2. QED
      BY <1>3, <2>1 DEF CallInv, ChanInv, Sent
  <1>5. CallsInv
    BY <1>4, CallsFinite DEF CallsInv, Positional, CallsInit
  <1>6. GaugeCounts
    <2>1. {c \in Calls : Inside(c)} = {}
      BY DEF CallsInit, Inside, At
    <2>2. QED
      BY <2>1, FS_EmptySet DEF GaugeCounts, CallsInit
  <1>7. MetricsAgree
    <2>1. /\ {c \in Calls : Recorded(c, "ok")} = {}
          /\ {c \in Calls : Recorded(c, "error")} = {}
      BY DEF CallsInit, Recorded, Over, At
    <2>2. TracedRetries = {}
      BY CallsFinite DEF CallsInit, TracedRetries
    <2>3. QED
      BY <2>1, <2>2, FS_EmptySet DEF MetricsAgree, CallsInit
  <1>8. QED
    BY <1>2, <1>5, <1>6, <1>7 DEF IInv

-----------------------------------------------------------------------------
(* Steps on the way in that only move the call.                             *)
LEMMA MovesIInv ==
  ASSUME IInv, NEW c \in Calls,
         SystemOneAsync(c) \/ Refuse(c) \/ AttemptEnds(c) \/ EndBackoff(c)
  PROVE  IInv'
  <1>1. /\ UNCHANGED <<span, inFlight, counts, hook, chan, results>>
        /\ \/ /\ call[c].at = "async" /\ Goes(c, "otel")
           \/ /\ call[c].at = "systemOne" /\ Returns(c, "hooks", "error")
           \/ /\ call[c].at = "attempt"
              /\ \E outcome \in {"ok", "error"} : Returns(c, "hooks", outcome)
           \/ /\ call[c].at = "backoff"
              /\ Goes(c, "systemOne") \/ Returns(c, "hooks", "error")
        /\ call[c].going = "in"
    BY DEF SystemOneAsync, Refuse, AttemptEnds, EndBackoff, At
  <1>2. /\ call[c] \in CallState /\ span[c] \in SpanState /\ hook[c] \in Hooks
        /\ span' = [span EXCEPT ![c] = span[c]]
        /\ hook' = [hook EXCEPT ![c] = hook[c]]
        /\ CallInv(call[c], span[c], hook[c])
    BY <1>1, Parts
  <1>3. PICK k \in CallState :
          /\ call' = [call EXCEPT ![c] = k]
          /\ k.made = call[c].made
          /\ \/ /\ call[c].at = "async" /\ k.at = "otel"
                /\ k.going = "in" /\ k.outcome = call[c].outcome
             \/ /\ call[c].at = "backoff" /\ k.at = "systemOne"
                /\ k.going = "in" /\ k.outcome = call[c].outcome
             \/ /\ call[c].at \in {"systemOne", "attempt", "backoff"}
                /\ k.at = "hooks" /\ k.going = "out"
                /\ k.outcome \in {"ok", "error"}
                /\ k.outcome = "ok" => call[c].at = "attempt"
    <2>1. CASE call[c].at = "async" /\ Goes(c, "otel")
      BY <1>1, <2>1, GoesState DEF Places, Layers
    <2>2. CASE call[c].at = "backoff" /\ Goes(c, "systemOne")
      BY <1>1, <2>2, GoesState DEF Places, Layers
    <2>3. ASSUME NEW o \in {"ok", "error"}, Returns(c, "hooks", o),
                 call[c].at \in {"systemOne", "attempt", "backoff"},
                 o = "ok" => call[c].at = "attempt"
          PROVE  \E k \in CallState :
                    /\ call' = [call EXCEPT ![c] = k]
                    /\ k.made = call[c].made
                    /\ k.at = "hooks" /\ k.going = "out" /\ k.outcome = o
      BY <2>3, ReturnsState DEF Places, Layers, Outcomes
    <2>4. QED
      BY <1>1, <2>1, <2>2, <2>3
  <1>4. CallInv(k, span[c], hook[c])
    <2>1. StageInv(k)
      BY <1>1, <1>2, <1>3 DEF CallInv, StageInv, Outcomes
    <2>2. SpanInv(k, span[c])
      BY <1>1, <1>2, <1>3 DEF CallInv, StageInv, SpanInv, Ends
    <2>3. HookInv(k, hook[c])
      BY <1>1, <1>2, <1>3 DEF CallInv, HookInv
    <2>4. QED
      BY <2>1, <2>2, <2>3 DEF CallInv
  <1>5. /\ ~Sent(call[c]) /\ ~Sent(k)
        /\ InsideState(call[c]) <=> InsideState(k)
        /\ \A o \in {"ok", "error"} :
              RecordedState(call[c], o) <=> RecordedState(k, o)
    BY <1>1, <1>3 DEF Sent, InsideState, RecordedState, Ends
  <1>6. QED
    BY <1>1, <1>2, <1>3, <1>4, <1>5, ChainStep

LEMMA OpenSpanIInv ==
  ASSUME IInv, NEW c \in Calls, OpenSpan(c)
  PROVE  IInv'
  <1> DEFINE s == [span[c] EXCEPT !.open = TRUE]
  <1>1. /\ UNCHANGED <<inFlight, counts, hook, chan, results>>
        /\ call[c].at = "otel" /\ call[c].going = "in" /\ Goes(c, "prom")
        /\ span' = [span EXCEPT ![c] = s]
    BY DEF OpenSpan, At, IInv, TypeOK
  <1>2. /\ span[c] \in SpanState /\ hook[c] \in Hooks
        /\ hook' = [hook EXCEPT ![c] = hook[c]]
        /\ CallInv(call[c], span[c], hook[c])
    BY <1>1, Parts
  <1>3. /\ s \in SpanState /\ s.retries = span[c].retries
        /\ s.attempts = span[c].attempts
    BY <1>2 DEF SpanState
  <1> HIDE DEF s
  <1>4. PICK k \in CallState :
          /\ k.at = "prom" /\ k.going = "in" /\ k.made = call[c].made
          /\ k.outcome = call[c].outcome /\ call' = [call EXCEPT ![c] = k]
    BY <1>1, GoesState DEF Places, Layers
  <1>5. CallInv(k, s, hook[c])
    <2>1. StageInv(k)
      BY <1>1, <1>2, <1>4 DEF CallInv, StageInv
    <2>2. SpanInv(k, s)
      BY <1>1, <1>2, <1>3, <1>4 DEF CallInv, SpanInv, Ends
    <2>3. HookInv(k, hook[c])
      BY <1>1, <1>2, <1>4 DEF CallInv, HookInv
    <2>4. QED
      BY <2>1, <2>2, <2>3 DEF CallInv
  <1>6. /\ ~Sent(call[c]) /\ ~Sent(k)
        /\ InsideState(call[c]) <=> InsideState(k)
        /\ \A o \in {"ok", "error"} :
              RecordedState(call[c], o) <=> RecordedState(k, o)
    BY <1>1, <1>4 DEF Sent, InsideState, RecordedState, Ends
  <1>7. QED
    BY <1>1, <1>2, <1>3, <1>4, <1>5, <1>6, ChainStep

(* The gauge counts the call in.                                            *)
LEMMA EnterIInv ==
  ASSUME IInv, NEW c \in Calls, Enter(c)
  PROVE  IInv'
  <1>1. /\ UNCHANGED <<span, counts, hook, chan, results>>
        /\ call[c].at = "prom" /\ call[c].going = "in" /\ Goes(c, "hooks")
        /\ inFlight' = inFlight + 1
    BY DEF Enter, At
  <1>2. /\ span[c] \in SpanState /\ hook[c] \in Hooks
        /\ span' = [span EXCEPT ![c] = span[c]]
        /\ hook' = [hook EXCEPT ![c] = hook[c]]
        /\ CallInv(call[c], span[c], hook[c])
    BY <1>1, Parts
  <1>3. PICK k \in CallState :
          /\ k.at = "hooks" /\ k.going = "in" /\ k.made = call[c].made
          /\ k.outcome = call[c].outcome /\ call' = [call EXCEPT ![c] = k]
    BY <1>1, GoesState DEF Places, Layers
  <1>4. CallInv(k, span[c], hook[c])
    <2>1. StageInv(k)
      BY <1>1, <1>2, <1>3 DEF CallInv, StageInv
    <2>2. SpanInv(k, span[c])
      BY <1>1, <1>2, <1>3 DEF CallInv, SpanInv, Ends
    <2>3. HookInv(k, hook[c])
      BY <1>1, <1>2, <1>3 DEF CallInv, HookInv
    <2>4. QED
      BY <2>1, <2>2, <2>3 DEF CallInv
  <1>5. CallTypes' /\ CallsInv'
    <2>1. ~Sent(call[c]) /\ ~Sent(k)
      BY <1>1, <1>3 DEF Sent
    <2>2. QED
      BY <1>1, <1>2, <1>3, <1>4, <2>1, ChainStep
  <1>6. GaugeCounts'
    <2>1. ~InsideState(call[c]) /\ InsideState(k)
      BY <1>1, <1>3 DEF InsideState
    <2>2. Cardinality({d \in Calls : Inside(d)'}) =
             Cardinality({d \in Calls : Inside(d)}) + 1
      BY <1>3, <2>1, CountedStep
    <2>3. QED
      BY <1>1, <2>2 DEF IInv, GaugeCounts
  <1>7. MetricsAgree'
    <2>1. \A o \in {"ok", "error"} :
             RecordedState(call[c], o) <=> RecordedState(k, o)
      BY <1>1, <1>3 DEF RecordedState, Ends
    <2>2. \A o \in {"ok", "error"} :
             {d \in Calls : Recorded(d, o)'} = {d \in Calls : Recorded(d, o)}
      BY <1>3, <2>1, CountedStep
    <2>3. TracedRetries' = TracedRetries
      BY <1>2, RetriesStep
    <2>4. QED
      BY <1>1, <2>2, <2>3 DEF IInv, MetricsAgree
  <1>8. TypeOK'
    <2>1. inFlight' \in 0..N
      <3>1. {d \in Calls : Inside(d)'} \in SUBSET Calls
        OBVIOUS
      <3>2. QED
        BY <1>6, <3>1, CallsFinite DEF GaugeCounts
    <2>2. QED
      BY <1>1, <1>5, <2>1 DEF IInv, TypeOK, CallTypes, Hooks
  <1>9. QED
    BY <1>5, <1>6, <1>7, <1>8 DEF IInv

(* Hooks that were run, and one more.                                       *)
LEMMA HookAppend ==
  /\ Append(<<>>, "request") = <<"request">>
  /\ Append(<<"request">>, "response") = <<"request", "response">>
  /\ Append(<<"request">>, "error") = <<"request", "error">>
  /\ {<<"request">>, <<"request", "response">>, <<"request", "error">>}
        \subseteq Hooks
  <1>1. Append(<<>>, "request") = <<"request">>
    OBVIOUS
  <1>2. /\ Append(<<"request">>, "response") = <<"request", "response">>
        /\ Append(<<"request">>, "error") = <<"request", "error">>
    <2> SUFFICES ASSUME NEW x \in {"response", "error"}
                 PROVE  Append(<<"request">>, x) = <<"request", x>>
      OBVIOUS
    <2> DEFINE S == {"request", "response", "error"}
               t == Append(<<"request">>, x)
    <2>1. <<"request">> \in Seq(S) /\ x \in S /\ Len(<<"request">>) = 1
      OBVIOUS
    <2>2. t \in Seq(S) /\ Len(t) = 2 /\ t[1] = "request" /\ t[2] = x
      BY <2>1, AppendProperties
    <2>3. /\ <<"request", x>> \in Seq(S) /\ Len(<<"request", x>>) = 2
          /\ <<"request", x>>[1] = "request" /\ <<"request", x>>[2] = x
      BY <2>1
    <2> HIDE DEF t
    <2>4. \A i \in 1..2 : t[i] = <<"request", x>>[i]
      BY <2>2, <2>3
    <2>5. t = <<"request", x>>
      BY <2>2, <2>3, <2>4, SeqEqual
    <2>6. QED
      BY <2>5 DEF t
  <1>3. /\ <<"request">> \in Hooks /\ <<"request", "response">> \in Hooks
        /\ <<"request", "error">> \in Hooks
    BY DEF Hooks
  <1>4. QED
    BY <1>1, <1>2, <1>3

LEMMA OnRequestIInv ==
  ASSUME IInv, NEW c \in Calls, OnRequest(c)
  PROVE  IInv'
  <1>1. /\ UNCHANGED <<span, inFlight, counts, chan, results>>
        /\ call[c].at = "hooks" /\ call[c].going = "in"
        /\ Goes(c, "systemOne") \/ Returns(c, "prom", "panic")
        /\ hook' = [hook EXCEPT ![c] = Append(hook[c], "request")]
    BY DEF OnRequest, At, Panics, IInv, TypeOK
  <1>2. /\ span[c] \in SpanState /\ span' = [span EXCEPT ![c] = span[c]]
        /\ CallInv(call[c], span[c], hook[c])
    BY <1>1, Parts
  <1>3. hook[c] = <<>> /\ call[c].outcome = "none"
    BY <1>1, <1>2 DEF CallInv, HookInv, StageInv
  <1>4. hook' = [hook EXCEPT ![c] = <<"request">>] /\ <<"request">> \in Hooks
    BY <1>1, <1>3, HookAppend
  <1>5. PICK k \in CallState :
          /\ call' = [call EXCEPT ![c] = k] /\ k.made = call[c].made
          /\ \/ k.at = "systemOne" /\ k.going = "in" /\ k.outcome = "none"
             \/ k.at = "prom" /\ k.going = "out" /\ k.outcome = "panic"
    <2>1. CASE Goes(c, "systemOne")
      BY <1>1, <1>3, <2>1, GoesState DEF Places, Layers
    <2>2. CASE Returns(c, "prom", "panic")
      BY <2>2, ReturnsState DEF Places, Layers, Outcomes
    <2>3. QED
      BY <1>1, <2>1, <2>2
  <1>6. CallInv(k, span[c], <<"request">>)
    <2>1. StageInv(k)
      BY <1>5 DEF StageInv, Outcomes
    <2>2. SpanInv(k, span[c])
      BY <1>1, <1>2, <1>5 DEF CallInv, SpanInv, Ends
    <2>3. HookInv(k, <<"request">>)
      BY <1>5 DEF HookInv
    <2>4. QED
      BY <2>1, <2>2, <2>3 DEF CallInv
  <1>7. /\ ~Sent(call[c]) /\ ~Sent(k)
        /\ InsideState(call[c]) <=> InsideState(k)
        /\ \A o \in {"ok", "error"} :
              RecordedState(call[c], o) <=> RecordedState(k, o)
    BY <1>1, <1>5 DEF Sent, InsideState, RecordedState, Ends
  <1>8. QED
    BY <1>1, <1>2, <1>4, <1>5, <1>6, <1>7, ChainStep

(* An attempt is made only while the policy grants one.                     *)
LEMMA AttemptIInv ==
  ASSUME IInv, NEW c \in Calls, Attempt(c)
  PROVE  IInv'
  <1> DEFINE k == [call[c] EXCEPT !.at = "attempt", !.made = @ + 1]
  <1>1. /\ UNCHANGED <<span, inFlight, counts, hook, chan, results>>
        /\ call[c].at = "systemOne" /\ call[c].going = "in"
        /\ call' = [call EXCEPT ![c] = k]
    BY DEF Attempt, At, IInv, TypeOK
  <1>2. /\ call[c] \in CallState /\ span[c] \in SpanState /\ hook[c] \in Hooks
        /\ span' = [span EXCEPT ![c] = span[c]]
        /\ hook' = [hook EXCEPT ![c] = hook[c]]
        /\ CallInv(call[c], span[c], hook[c])
    BY <1>1, Parts
  <1>3. /\ call[c].made = span[c].retries /\ span[c].retries \in 0..MaxRetries
        /\ call[c].outcome = "none"
    BY <1>1, <1>2 DEF CallInv, SpanInv, SpanState, StageInv
  <1>4. call[c].made + 1 \in 0..(MaxRetries + 1)
    BY <1>3, CallsFinite
  <1>5. /\ k \in CallState /\ k.at = "attempt" /\ k.going = "in"
        /\ k.made = call[c].made + 1 /\ k.outcome = "none"
    BY <1>1, <1>2, <1>3, <1>4 DEF CallState
  <1> HIDE DEF k
  <1>6. CallInv(k, span[c], hook[c])
    <2>1. StageInv(k)
      BY <1>5 DEF StageInv
    <2>2. SpanInv(k, span[c])
      BY <1>1, <1>2, <1>3, <1>5 DEF CallInv, SpanInv, Ends
    <2>3. HookInv(k, hook[c])
      BY <1>1, <1>2, <1>5 DEF CallInv, HookInv
    <2>4. QED
      BY <2>1, <2>2, <2>3 DEF CallInv
  <1>7. /\ ~Sent(call[c]) /\ ~Sent(k)
        /\ InsideState(call[c]) <=> InsideState(k)
        /\ \A o \in {"ok", "error"} :
              RecordedState(call[c], o) <=> RecordedState(k, o)
    BY <1>1, <1>5 DEF Sent, InsideState, RecordedState, Ends
  <1>8. QED
    BY <1>1, <1>2, <1>5, <1>6, <1>7, ChainStep

(* A trace with the span of one more attempt.                               *)
LEMMA FinishAttemptProperties ==
  ASSUME NEW s \in SpanState, Len(s.attempts) = s.retries,
         \A i \in 1..Len(s.attempts) : s.attempts[i] = i
  PROVE  LET t == FinishAttempt(s)
         IN  /\ t \in SpanState /\ t.retries = s.retries /\ t.open = s.open
             /\ Len(t.attempts) = s.retries + 1
             /\ \A i \in 1..Len(t.attempts) : t.attempts[i] = i
  <1> DEFINE a == Append(s.attempts, s.retries + 1)
             t == FinishAttempt(s)
  <1>1. /\ s.attempts \in Seq(Nat) /\ s.retries \in Nat /\ s.retries + 1 \in Nat
        /\ Len(s.attempts) \in Nat
    BY CallsFinite DEF SpanState
  <1>2. /\ a \in Seq(Nat) /\ Len(a) = Len(s.attempts) + 1
        /\ \A i \in 1..Len(s.attempts) : a[i] = s.attempts[i]
        /\ a[Len(s.attempts) + 1] = s.retries + 1
    BY <1>1, AppendProperties
  <1> HIDE DEF a
  <1>3. \A i \in 1..Len(a) : a[i] = i
    <2> SUFFICES ASSUME NEW i \in 1..Len(a) PROVE a[i] = i
      OBVIOUS
    <2>1. i \in 1..Len(s.attempts) \/ i = Len(s.attempts) + 1
      BY <1>1, <1>2
    <2>2. QED
      BY <1>2, <2>1
  <1>4. t = [s EXCEPT !.attempts = a]
    BY DEF FinishAttempt, a
  <1>5. /\ t \in SpanState /\ t.retries = s.retries /\ t.open = s.open
        /\ t.attempts = a
    BY <1>2, <1>4 DEF SpanState
  <1>6. QED
    BY <1>2, <1>3, <1>5

(* A failure that will be retried is counted and traced once, or, when an   *)
(* observer panics, not at all.                                             *)
LEMMA ObserveIInv ==
  ASSUME IInv, NEW c \in Calls, Observe(c)
  PROVE  IInv'
  <1>1. /\ UNCHANGED <<inFlight, hook, chan, results>>
        /\ call[c].at = "attempt" /\ call[c].going = "in" /\ RetriesLeft(c)
    BY DEF Observe, At
  <1>2. /\ span[c] \in SpanState /\ hook[c] \in Hooks
        /\ hook' = [hook EXCEPT ![c] = hook[c]]
        /\ CallInv(call[c], span[c], hook[c])
    BY <1>1, Parts
  <1>3. /\ call[c].made = span[c].retries + 1 /\ call[c].made <= MaxRetries
        /\ span[c].retries \in 0..MaxRetries /\ call[c].outcome = "none"
        /\ hook[c] = <<"request">> /\ ~Sent(call[c])
        /\ Len(span[c].attempts) = span[c].retries
        /\ \A i \in 1..Len(span[c].attempts) : span[c].attempts[i] = i
    BY <1>1, <1>2 DEF CallInv, SpanInv, SpanState, StageInv, HookInv,
                      RetriesLeft, Sent, Ends
  <1>4. CASE Returns(c, "prom", "panic") /\ UNCHANGED <<span, counts>>
    <2>1. span' = [span EXCEPT ![c] = span[c]]
      BY <1>4, Parts
    <2>2. PICK k \in CallState :
            /\ k.at = "prom" /\ k.going = "out" /\ k.made = call[c].made
            /\ k.outcome = "panic" /\ call' = [call EXCEPT ![c] = k]
      BY <1>4, ReturnsState DEF Places, Layers, Outcomes
    <2>3. CallInv(k, span[c], hook[c])
      <3>1. StageInv(k)
        BY <2>2 DEF StageInv, Outcomes
      <3>2. SpanInv(k, span[c])
        BY <1>3, <2>2 DEF SpanInv, Ends
      <3>3. HookInv(k, hook[c])
        BY <1>3, <2>2 DEF HookInv
      <3>4. QED
        BY <3>1, <3>2, <3>3 DEF CallInv
    <2>4. /\ ~Sent(k)
          /\ InsideState(call[c]) <=> InsideState(k)
          /\ \A o \in {"ok", "error"} :
                RecordedState(call[c], o) <=> RecordedState(k, o)
      BY <1>1, <2>2 DEF Sent, InsideState, RecordedState, Ends
    <2>5. QED
      BY <1>1, <1>2, <1>3, <1>4, <2>1, <2>2, <2>3, <2>4, ChainStep
  <1>5. CASE /\ Goes(c, "backoff")
             /\ span' = [span EXCEPT ![c] =
                   [FinishAttempt(span[c]) EXCEPT !.retries = @ + 1]]
             /\ Bump("retries")
    <2> DEFINE f == FinishAttempt(span[c])
               s == [f EXCEPT !.retries = @ + 1]
    <2>1. span' = [span EXCEPT ![c] = s]
      BY <1>5 DEF IInv, TypeOK
    <2>2. /\ f \in SpanState /\ f.retries = span[c].retries
          /\ Len(f.attempts) = span[c].retries + 1
          /\ \A i \in 1..Len(f.attempts) : f.attempts[i] = i
      BY <1>2, <1>3, FinishAttemptProperties
    <2>3. span[c].retries + 1 \in 0..MaxRetries
      BY <1>3, CallsFinite
    <2> HIDE DEF f
    <2>4. /\ s \in SpanState /\ s.retries = span[c].retries + 1
          /\ s.attempts = f.attempts
      BY <2>2, <2>3 DEF SpanState
    <2> HIDE DEF s
    <2>5. PICK k \in CallState :
            /\ k.at = "backoff" /\ k.going = "in" /\ k.made = call[c].made
            /\ k.outcome = "none" /\ call' = [call EXCEPT ![c] = k]
      BY <1>1, <1>3, <1>5, GoesState DEF Places, Layers
    <2>6. CallInv(k, s, hook[c])
      <3>1. StageInv(k)
        BY <2>5 DEF StageInv
      <3>2. SpanInv(k, s)
        BY <1>3, <2>2, <2>4, <2>5 DEF SpanInv, Ends
      <3>3. HookInv(k, hook[c])
        BY <1>3, <2>5 DEF HookInv
      <3>4. QED
        BY <3>1, <3>2, <3>3 DEF CallInv
    <2>7. /\ ~Sent(k)
          /\ InsideState(call[c]) <=> InsideState(k)
          /\ \A o \in {"ok", "error"} :
                RecordedState(call[c], o) <=> RecordedState(k, o)
      BY <1>1, <2>5 DEF Sent, InsideState, RecordedState, Ends
    <2>8. CallTypes' /\ CallsInv'
      BY <1>1, <1>2, <1>3, <2>1, <2>4, <2>5, <2>6, <2>7, ChainStep
    <2>9. /\ counts \in [{"retries", "errors", "ok", "failed"} -> Nat]
          /\ counts' = [counts EXCEPT !["retries"] = @ + 1]
      BY <1>5 DEF Bump, IInv, TypeOK
    <2>10. GaugeCounts'
      <3>1. {d \in Calls : Inside(d)'} = {d \in Calls : Inside(d)}
        BY <2>5, <2>7, CountedStep
      <3>2. QED
        BY <1>1, <3>1 DEF IInv, GaugeCounts
    <2>11. MetricsAgree'
      <3>1. /\ {d \in Calls : Recorded(d, "ok")'} =
                  {d \in Calls : Recorded(d, "ok")}
            /\ {d \in Calls : Recorded(d, "error")'} =
                  {d \in Calls : Recorded(d, "error")}
        BY <2>5, <2>7, CountedStep
      <3>2. Cardinality(TracedRetries') = Cardinality(TracedRetries) + 1
        BY <2>1, <2>4, RetriesStep
      <3>3. /\ counts'["retries"] = counts["retries"] + 1
            /\ counts'["ok"] = counts["ok"]
            /\ counts'["errors"] = counts["errors"]
            /\ counts'["failed"] = counts["failed"]
        BY <2>9
      <3>4. QED
        BY <3>1, <3>2, <3>3 DEF IInv, MetricsAgree
    <2>12. TypeOK'
      BY <1>1, <2>8, <2>9 DEF IInv, TypeOK, CallTypes, Hooks
    <2>13. QED
      BY <2>8, <2>10, <2>11, <2>12 DEF IInv
  <1>6. QED
    BY <1>4, <1>5 DEF Observe, Panics

(* The second hook is of the kind the call ended with.                      *)
LEMMA AfterIInv ==
  ASSUME IInv, NEW c \in Calls, After(c)
  PROVE  IInv'
  <1> DEFINE second == IF call[c].outcome = "ok" THEN "response" ELSE "error"
             h == <<"request", second>>
  <1>1. /\ UNCHANGED <<span, inFlight, counts, chan, results>>
        /\ call[c].at = "hooks" /\ call[c].going = "out"
        /\ Returns(c, "prom", call[c].outcome) \/ Returns(c, "prom", "panic")
        /\ hook' = [hook EXCEPT ![c] = Append(hook[c], second)]
    BY DEF After, At, Panics, IInv, TypeOK
  <1>2. /\ span[c] \in SpanState /\ span' = [span EXCEPT ![c] = span[c]]
        /\ CallInv(call[c], span[c], hook[c])
    BY <1>1, Parts
  <1>3. /\ hook[c] = <<"request">> /\ call[c].outcome \in {"ok", "error"}
        /\ ~Sent(call[c])
    BY <1>1, <1>2 DEF CallInv, HookInv, StageInv, Outcomes, Sent
  <1>4. hook' = [hook EXCEPT ![c] = h] /\ h \in Hooks
    BY <1>1, <1>3, HookAppend
  <1>5. PICK k \in CallState :
          /\ k.at = "prom" /\ k.going = "out" /\ k.made = call[c].made
          /\ k.outcome \in {call[c].outcome, "panic"}
          /\ call' = [call EXCEPT ![c] = k]
    BY <1>1, <1>3, ReturnsState DEF Places, Layers, Outcomes
  <1>6. CallInv(k, span[c], h)
    <2>1. StageInv(k)
      BY <1>3, <1>5 DEF StageInv, Outcomes
    <2>2. SpanInv(k, span[c])
      BY <1>1, <1>2, <1>3, <1>5 DEF CallInv, SpanInv, Ends
    <2>3. HookInv(k, h)
      BY <1>3, <1>5 DEF HookInv
    <2>4. QED
      BY <2>1, <2>2, <2>3 DEF CallInv
  <1>7. /\ ~Sent(k)
        /\ InsideState(call[c]) <=> InsideState(k)
        /\ \A o \in {"ok", "error"} :
              RecordedState(call[c], o) <=> RecordedState(k, o)
    BY <1>1, <1>5 DEF Sent, InsideState, RecordedState, Ends
  <1> HIDE DEF h
  <1>8. QED
    BY <1>1, <1>2, <1>3, <1>4, <1>5, <1>6, <1>7, ChainStep

(* The gauge counts the call out, and the counters count how it ended.      *)
LEMMA RecordMetricsIInv ==
  ASSUME IInv, NEW c \in Calls, Record(c)
  PROVE  IInv'
  <1>1. /\ UNCHANGED <<span, hook, chan, results>>
        /\ call[c].at = "prom" /\ call[c].going = "out" /\ Goes(c, "otel")
        /\ inFlight' = inFlight - 1
    BY DEF Record, At, Dec
  <1>2. /\ span[c] \in SpanState /\ hook[c] \in Hooks
        /\ span' = [span EXCEPT ![c] = span[c]]
        /\ hook' = [hook EXCEPT ![c] = hook[c]]
        /\ CallInv(call[c], span[c], hook[c])
    BY <1>1, Parts
  <1>3. PICK k \in CallState :
          /\ k.at = "otel" /\ k.going = "out" /\ k.made = call[c].made
          /\ k.outcome = call[c].outcome /\ call' = [call EXCEPT ![c] = k]
    BY <1>1, GoesState DEF Places, Layers
  <1>4. CallInv(k, span[c], hook[c])
    <2>1. StageInv(k)
      BY <1>1, <1>2, <1>3 DEF CallInv, StageInv
    <2>2. SpanInv(k, span[c])
      BY <1>1, <1>2, <1>3 DEF CallInv, SpanInv, Ends
    <2>3. HookInv(k, hook[c])
      BY <1>1, <1>2, <1>3 DEF CallInv, HookInv
    <2>4. QED
      BY <2>1, <2>2, <2>3 DEF CallInv
  <1>5. CallTypes' /\ CallsInv'
    <2>1. ~Sent(call[c]) /\ ~Sent(k)
      BY <1>1, <1>3 DEF Sent
    <2>2. QED
      BY <1>1, <1>2, <1>3, <1>4, <2>1, ChainStep
  <1>6. GaugeCounts'
    <2>1. InsideState(call[c]) /\ ~InsideState(k)
      BY <1>1, <1>3 DEF InsideState
    <2>2. Cardinality({d \in Calls : Inside(d)'}) =
             Cardinality({d \in Calls : Inside(d)}) - 1
      BY <1>3, <2>1, CountedStep
    <2>3. QED
      BY <1>1, <2>2 DEF IInv, GaugeCounts
  <1>7. counts \in [{"retries", "errors", "ok", "failed"} -> Nat]
    BY DEF IInv, TypeOK
  <1>8. TracedRetries' = TracedRetries
    BY <1>2, RetriesStep
  <1>9. /\ ~RecordedState(call[c], "ok") /\ ~RecordedState(call[c], "error")
        /\ RecordedState(k, "ok") <=> call[c].outcome = "ok"
        /\ RecordedState(k, "error") <=> call[c].outcome = "error"
    BY <1>1, <1>3 DEF RecordedState, Ends
  <1> DEFINE was(o) == {d \in Calls : Recorded(d, o)}
             is(o) == {d \in Calls : Recorded(d, o)'}
  <1>10. \A o \in {"ok", "error"} :
            IF call[c].outcome = o
            THEN Cardinality(is(o)) = Cardinality(was(o)) + 1
            ELSE is(o) = was(o)
    BY <1>3, <1>9, CountedStep, ZenonT(60)
  <1> HIDE DEF was, is
  <1>11. /\ counts' \in [{"retries", "errors", "ok", "failed"} -> Nat]
         /\ counts'["ok"] = Cardinality(is("ok"))
         /\ counts'["errors"] = counts'["failed"]
         /\ counts'["failed"] = Cardinality(is("error"))
         /\ counts'["retries"] = counts["retries"]
    <2>1. /\ counts["ok"] = Cardinality(was("ok"))
          /\ counts["errors"] = counts["failed"]
          /\ counts["failed"] = Cardinality(was("error"))
      BY DEF IInv, MetricsAgree, was
    <2>2. CASE call[c].outcome = "panic" /\ UNCHANGED counts
      BY <1>7, <1>10, <2>1, <2>2
    <2>3. CASE call[c].outcome = "ok" /\ Bump("ok")
      <3>1. counts' = [counts EXCEPT !["ok"] = counts["ok"] + 1]
        BY <1>7, <2>3 DEF Bump
      <3>2. /\ counts' \in [{"retries", "errors", "ok", "failed"} -> Nat]
            /\ counts'["ok"] = counts["ok"] + 1
            /\ counts'["errors"] = counts["errors"]
            /\ counts'["failed"] = counts["failed"]
            /\ counts'["retries"] = counts["retries"]
        BY <1>7, <3>1
      <3>3. QED
        BY <1>10, <2>1, <2>3, <3>2
    <2>4. CASE /\ call[c].outcome = "error"
               /\ counts' = [counts EXCEPT !["failed"] = @ + 1,
                                           !["errors"] = @ + 1]
      <3>1. /\ counts' \in [{"retries", "errors", "ok", "failed"} -> Nat]
            /\ counts'["ok"] = counts["ok"]
            /\ counts'["errors"] = counts["errors"] + 1
            /\ counts'["failed"] = counts["failed"] + 1
            /\ counts'["retries"] = counts["retries"]
        BY <1>7, <2>4
      <3>2. QED
        BY <1>10, <2>1, <2>4, <3>1
    <2>5. QED
      BY <2>2, <2>3, <2>4 DEF Record
  <1>12. MetricsAgree'
    BY <1>8, <1>11 DEF IInv, MetricsAgree, is
  <1>13. TypeOK'
    <2>1. inFlight' \in 0..N
      <3>1. {d \in Calls : Inside(d)'} \in SUBSET Calls
        OBVIOUS
      <3>2. QED
        BY <1>6, <3>1, CallsFinite DEF GaugeCounts
    <2>2. QED
      BY <1>1, <1>5, <1>11, <2>1 DEF IInv, TypeOK, CallTypes, Hooks
  <1>14. QED
    BY <1>5, <1>6, <1>12, <1>13 DEF IInv

(* The span is closed in any case; the last attempt only without a panic.   *)
LEMMA EndSpanIInv ==
  ASSUME IInv, NEW c \in Calls, EndSpan(c)
  PROVE  IInv'
  <1> DEFINE f == IF call[c].outcome = "panic" THEN span[c]
                  ELSE FinishAttempt(span[c])
             s == [f EXCEPT !.open = FALSE]
  <1>1. /\ UNCHANGED <<inFlight, counts, hook, chan, results>>
        /\ call[c].at = "otel" /\ call[c].going = "out" /\ Goes(c, "send")
        /\ span' = [span EXCEPT ![c] = s]
    BY DEF EndSpan, At, Ended
  <1>2. /\ span[c] \in SpanState /\ hook[c] \in Hooks
        /\ hook' = [hook EXCEPT ![c] = hook[c]]
        /\ CallInv(call[c], span[c], hook[c])
    BY <1>1, Parts
  <1>3. /\ Len(span[c].attempts) = span[c].retries
        /\ \A i \in 1..Len(span[c].attempts) : span[c].attempts[i] = i
    BY <1>1, <1>2 DEF CallInv, SpanInv, Ends
  <1>4. /\ f \in SpanState /\ f.retries = span[c].retries
        /\ Len(f.attempts) = IF call[c].outcome = "panic" THEN span[c].retries
                             ELSE span[c].retries + 1
        /\ \A i \in 1..Len(f.attempts) : f.attempts[i] = i
    BY <1>2, <1>3, FinishAttemptProperties
  <1> HIDE DEF f
  <1>5. /\ s \in SpanState /\ s.retries = span[c].retries /\ ~s.open
        /\ s.attempts = f.attempts
    BY <1>4 DEF SpanState
  <1> HIDE DEF s
  <1>6. PICK k \in CallState :
          /\ k.at = "send" /\ k.going = "out" /\ k.made = call[c].made
          /\ k.outcome = call[c].outcome /\ call' = [call EXCEPT ![c] = k]
    BY <1>1, GoesState DEF Places, Layers
  <1>7. CallInv(k, s, hook[c])
    <2>1. StageInv(k)
      BY <1>1, <1>2, <1>6 DEF CallInv, StageInv
    <2>2. SpanInv(k, s)
      BY <1>1, <1>2, <1>4, <1>5, <1>6 DEF CallInv, SpanInv, Ends
    <2>3. HookInv(k, hook[c])
      BY <1>1, <1>2, <1>6 DEF CallInv, HookInv
    <2>4. QED
      BY <2>1, <2>2, <2>3 DEF CallInv
  <1>8. /\ ~Sent(call[c]) /\ ~Sent(k)
        /\ InsideState(call[c]) <=> InsideState(k)
        /\ \A o \in {"ok", "error"} :
              RecordedState(call[c], o) <=> RecordedState(k, o)
    BY <1>1, <1>6 DEF Sent, InsideState, RecordedState, Ends
  <1>9. QED
    BY <1>1, <1>2, <1>5, <1>6, <1>7, <1>8, ChainStep

(* The goroutine sends its one result, then closes the channel.             *)
LEMMA SendCloseIInv ==
  ASSUME IInv, NEW c \in Calls, Send(c) \/ Close(c)
  PROVE  IInv'
  <1> DEFINE sent == [chan[c] EXCEPT !.queue = Append(@, call[c].outcome)]
             closed == [chan[c] EXCEPT !.closed = TRUE]
  <1>1. /\ UNCHANGED <<span, inFlight, counts, hook, results>>
        /\ call[c].going = "out"
        /\ \/ /\ call[c].at = "send" /\ Goes(c, "close")
              /\ chan' = [chan EXCEPT ![c] = sent]
           \/ /\ call[c].at = "close" /\ Goes(c, "done")
              /\ chan' = [chan EXCEPT ![c] = closed]
    BY DEF Send, Close, At, IInv, TypeOK
  <1>2. /\ span[c] \in SpanState /\ hook[c] \in Hooks /\ chan[c] \in ChanState
        /\ span' = [span EXCEPT ![c] = span[c]]
        /\ hook' = [hook EXCEPT ![c] = hook[c]]
        /\ CallInv(call[c], span[c], hook[c])
        /\ ChanInv(call[c], chan[c], c <= Len(results))
    BY <1>1, Parts
  <1>3. call[c].outcome \in Outcomes
    BY <1>1, <1>2 DEF CallInv, StageInv
  <1>4. PICK k \in CallState :
          /\ k.at = IF call[c].at = "send" THEN "close" ELSE "done"
          /\ k.going = "out" /\ k.made = call[c].made
          /\ k.outcome = call[c].outcome /\ call' = [call EXCEPT ![c] = k]
    <2>1. CASE call[c].at = "send"
      BY <1>1, <2>1, GoesState DEF Places, Layers
    <2>2. CASE call[c].at = "close"
      BY <1>1, <2>2, GoesState DEF Places, Layers
    <2>3. QED
      BY <1>1, <2>1, <2>2
  <1>5. CallInv(k, span[c], hook[c])
    <2>1. StageInv(k)
      BY <1>1, <1>2, <1>4 DEF CallInv, StageInv
    <2>2. SpanInv(k, span[c])
      BY <1>1, <1>2, <1>4 DEF CallInv, SpanInv, Ends
    <2>3. HookInv(k, hook[c])
      BY <1>1, <1>2, <1>4 DEF CallInv, HookInv
    <2>4. QED
      BY <2>1, <2>2, <2>3 DEF CallInv
  <1>6. PICK q \in ChanState : /\ chan' = [chan EXCEPT ![c] = q]
                               /\ ChanInv(k, q, c <= Len(results))
    <2>1. CASE call[c].at = "send" /\ chan' = [chan EXCEPT ![c] = sent]
      <3>1. chan[c].queue = <<>> /\ ~(c <= Len(results)) /\ ~chan[c].closed
        BY <1>2, <2>1 DEF ChanInv, Sent
      <3>2. Append(chan[c].queue, call[c].outcome) = <<call[c].outcome>>
        BY <3>1
      <3>3. <<call[c].outcome>> \in Seq(Outcomes)
        BY <1>3
      <3>4. /\ sent \in ChanState /\ sent.queue = <<call[c].outcome>>
            /\ ~sent.closed
        BY <1>2, <3>1, <3>2, <3>3 DEF ChanState
      <3>5. ChanInv(k, sent, c <= Len(results))
        BY <1>4, <2>1, <3>1, <3>4 DEF ChanInv, Sent
      <3>6. QED
        BY <2>1, <3>4, <3>5
    <2>2. CASE call[c].at = "close" /\ chan' = [chan EXCEPT ![c] = closed]
      <3>1. closed \in ChanState /\ closed.queue = chan[c].queue
        BY <1>2 DEF ChanState
      <3>2. ChanInv(k, closed, c <= Len(results))
        BY <1>2, <1>4, <2>2, <3>1 DEF ChanInv, Sent
      <3>3. QED
        BY <2>2, <3>1, <3>2
    <2>3. QED
      BY <1>1, <2>1, <2>2
  <1>7. CallTypes' /\ CallsInv'
    BY <1>1, <1>2, <1>4, <1>5, <1>6, CallStep
  <1>8. /\ InsideState(call[c]) <=> InsideState(k)
        /\ \A o \in {"ok", "error"} :
              RecordedState(call[c], o) <=> RecordedState(k, o)
    BY <1>1, <1>4 DEF InsideState, RecordedState, Ends
  <1>9. QED
    BY <1>1, <1>2, <1>4, <1>7, <1>8, QuietStep

(* The caller takes the result of the next request, never the zero Result.  *)
LEMMA CollectIInv ==
  ASSUME IInv, NEW c \in Calls, Collect(c)
  PROVE  IInv'
  <1> DEFINE x == Received(c)
             q == [chan[c] EXCEPT !.queue = IF @ = <<>> THEN @ ELSE Tail(@)]
  <1>1. /\ UNCHANGED <<call, span, inFlight, counts, hook>>
        /\ c = Len(results) + 1
        /\ chan[c].queue # <<>> \/ chan[c].closed
        /\ results' = Append(results, x)
        /\ chan' = [chan EXCEPT ![c] = q]
    BY DEF Collect, IInv, TypeOK
  <1>2. /\ call[c] \in CallState /\ chan[c] \in ChanState
        /\ CallInv(call[c], span[c], hook[c])
        /\ ChanInv(call[c], chan[c], c <= Len(results))
    BY Parts
  <1>3. /\ results \in Seq(Outcomes \cup {"zero"}) /\ Len(results) \in Nat
        /\ Len(results) <= N /\ c \in 1..N
    BY LenProperties DEF IInv, TypeOK, CallsInv, Calls
  <1>4. ~(c <= Len(results))
    BY <1>1, <1>3
  <1>5. Sent(call[c]) /\ chan[c].queue = <<call[c].outcome>>
    BY <1>1, <1>2, <1>4 DEF ChanInv, Sent
  <1>6. call[c].outcome \in Outcomes
    BY <1>2, <1>5 DEF CallInv, StageInv, Sent, CallState
  <1>7. x = call[c].outcome
    BY <1>5 DEF Received
  <1>8. /\ q \in ChanState /\ q.queue = <<>> /\ q.closed = chan[c].closed
    <2> DEFINE o == call[c].outcome
    <2>1. <<o>> # <<>> /\ Tail(<<o>>) = <<>>
      OBVIOUS
    <2>2. q = [chan[c] EXCEPT !.queue = <<>>]
      BY <1>5, <2>1
    <2>3. <<>> \in Seq(Outcomes)
      OBVIOUS
    <2>4. QED
      BY <1>2, <2>2, <2>3 DEF ChanState
  <1> HIDE DEF q, x
  <1>9. /\ results' \in Seq(Outcomes \cup {"zero"})
        /\ Len(results') = Len(results) + 1
        /\ \A i \in 1..Len(results) : results'[i] = results[i]
        /\ results'[Len(results) + 1] = x
    BY <1>1, <1>3, <1>6, <1>7, AppendProperties
  <1>10. chan' \in [Calls -> ChanState]
    BY <1>1, <1>8 DEF IInv, TypeOK
  <1>11. \A d \in Calls : ChanInv(call[d], chan'[d], d <= Len(results'))
    <2> SUFFICES ASSUME NEW d \in Calls
                 PROVE  ChanInv(call[d], chan'[d], d <= Len(results'))
      OBVIOUS
    <2>1. CASE d = c
      <3>1. d <= Len(results') /\ chan'[d] = q
        BY <1>1, <1>3, <1>9, <2>1 DEF IInv, TypeOK
      <3>2. QED
        BY <1>2, <1>5, <1>8, <2>1, <3>1 DEF ChanInv, Sent
    <2>2. CASE d # c
      <3>1. d <= Len(results') <=> d <= Len(results)
        BY <1>1, <1>3, <1>9, <2>2 DEF Calls
      <3>2. chan'[d] = chan[d]
        BY <1>1, <2>2 DEF IInv, TypeOK
      <3>3. QED
        BY <3>1, <3>2, Parts
    <2>3. QED
      BY <2>1, <2>2
  <1>12. Positional'
    <2>1. /\ DOMAIN results' = 1..(Len(results) + 1)
          /\ DOMAIN results = 1..Len(results)
      BY <1>3, <1>9, LenProperties
    <2>2. \A i \in 1..Len(results) : results[i] = call[i].outcome
      BY <2>1 DEF IInv, CallsInv, Positional
    <2>3. \A i \in 1..(Len(results) + 1) : results'[i] = call[i].outcome
      <3> SUFFICES ASSUME NEW i \in 1..(Len(results) + 1)
                   PROVE  results'[i] = call[i].outcome
        OBVIOUS
      <3>1. CASE i = Len(results) + 1
        BY <1>1, <1>7, <1>9, <3>1
      <3>2. CASE i # Len(results) + 1
        <4>1. i \in 1..Len(results)
          BY <1>3, <3>2
        <4>2. QED
          BY <1>9, <2>2, <4>1
      <3>3. QED
        BY <3>1, <3>2
    <2>4. QED
      BY <1>1, <2>1, <2>3 DEF Positional
  <1>13. CallsInv'
    <2>1. Len(results') <= N
      BY <1>1, <1>3, <1>9
    <2>2. QED
      BY <1>1, <1>11, <1>12, <2>1 DEF IInv, CallsInv
  <1>14. GaugeCounts' /\ MetricsAgree'
    BY <1>1 DEF IInv, GaugeCounts, MetricsAgree, Inside, Recorded, Over, At,
                TracedRetries
  <1>15. TypeOK'
    BY <1>1, <1>9, <1>10 DEF IInv, TypeOK
  <1>16. QED
    BY <1>13, <1>14, <1>15 DEF IInv

LEMMA NextIInv == IInv /\ [CallsNext]_callVars => IInv'
  <1> SUFFICES ASSUME IInv, [CallsNext]_callVars PROVE IInv'
    OBVIOUS
  <1>1. ASSUME NEW c \in Calls, Goroutine(c)
        PROVE  IInv'
    BY <1>1, MovesIInv, OpenSpanIInv, EnterIInv, OnRequestIInv, AttemptIInv,
       ObserveIInv, AfterIInv, RecordMetricsIInv, EndSpanIInv, SendCloseIInv
       DEF Goroutine
  <1>2. ASSUME NEW c \in Calls, Collect(c)
        PROVE  IInv'
    BY <1>2, CollectIInv
  <1>3. CASE UNCHANGED callVars
    BY <1>3 DEF callVars, IInv, TypeOK, CallsInv, Positional, GaugeCounts,
                MetricsAgree, Inside, Recorded, Over, At, TracedRetries
  <1>4. QED
    BY <1>1, <1>2, <1>3 DEF CallsNext

(* The invariant of the calls holds in every reachable state.               *)
THEOREM Inductive == CallsSpec => []IInv
  BY InitIInv, NextIInv, PTL DEF CallsSpec

(* The trace of a call that is over shows its attempts, and is closed.      *)
LEMMA IInvTraceComplete == IInv => TraceComplete
  <1> SUFFICES ASSUME IInv, NEW c \in Calls, Over(c)
               PROVE  LET shown == Len(span[c].attempts) IN
                      /\ ~span[c].open
                      /\ \A i \in DOMAIN span[c].attempts :
                            span[c].attempts[i] = i
                      /\ ~Panicked(c) =>
                            shown \in {call[c].made, call[c].made + 1}
                      /\ call[c].outcome = "ok" => shown = call[c].made
    BY DEF TraceComplete
  <1>1. /\ SpanInv(call[c], span[c]) /\ Ends(call[c])
        /\ call[c] \in CallState /\ span[c] \in SpanState
    BY Parts DEF CallInv, Over, Ends
  <1>2. /\ DOMAIN span[c].attempts = 1..Len(span[c].attempts)
        /\ span[c].retries \in Int
    BY <1>1, LenProperties, CallsFinite DEF SpanState
  <1>3. QED
    BY <1>1, <1>2 DEF SpanInv, Panicked

LEMMA IInvHooksPaired == IInv => HooksPaired
  <1> SUFFICES ASSUME IInv, NEW c \in Calls
               PROVE  /\ hook[c] \in {<<>>, <<"request">>,
                                       <<"request", "response">>,
                                       <<"request", "error">>}
                      /\ Over(c) =>
                            \/ Panicked(c)
                            \/ hook[c][2] = IF call[c].outcome = "ok"
                                            THEN "response" ELSE "error"
    BY DEF HooksPaired
  <1>1. /\ HookInv(call[c], hook[c]) /\ StageInv(call[c])
        /\ call[c] \in CallState
    BY Parts DEF CallInv
  <1>2. call[c].going = "in" \/ call[c].going = "out"
    BY <1>1 DEF CallState
  <1>3. hook[c] \in {<<>>, <<"request">>, <<"request", "response">>,
                     <<"request", "error">>}
    BY <1>1, <1>2 DEF HookInv
  <1>4. ASSUME Over(c), ~Panicked(c)
        PROVE  hook[c][2] = IF call[c].outcome = "ok"
                            THEN "response" ELSE "error"
    <2>1. call[c].going = "out" /\ call[c].at # "hooks"
      BY <1>1, <1>2, <1>4 DEF StageInv, Over
    <2>2. call[c].outcome \in {"ok", "error"}
      BY <1>1, <1>4, <2>1 DEF StageInv, Panicked, Outcomes
    <2>3. QED
      BY <1>1, <2>1, <2>2 DEF HookInv
  <1>5. QED
    BY <1>3, <1>4

LEMMA IInvOneResult == IInv => OneResult
  <1> SUFFICES ASSUME IInv, NEW c \in Calls
               PROVE  /\ Len(chan[c].queue) <= 1
                      /\ chan[c].closed =>
                            chan[c].queue # <<>> \/ Len(results) >= c
    BY DEF OneResult
  <1>1. ChanInv(call[c], chan[c], c <= Len(results))
    BY Parts
  <1>2. Len(results) \in Nat /\ c \in Int
    BY LenProperties DEF IInv, TypeOK, Calls
  <1>3. chan[c].queue = <<call[c].outcome>> \/ chan[c].queue = <<>>
    BY <1>1 DEF ChanInv
  <1>4. chan[c].closed => chan[c].queue = <<call[c].outcome>> \/ c <= Len(results)
    BY <1>1 DEF ChanInv, Sent
  <1>5. /\ Len(<<call[c].outcome>>) = 1 /\ <<call[c].outcome>> # <<>>
        /\ Len(<<>>) = 0
    OBVIOUS
  <1>6. Len(chan[c].queue) <= 1
    <2>1. CASE chan[c].queue = <<call[c].outcome>>
      <3>1. Len(chan[c].queue) = 1
        BY <2>1
      <3>2. QED
        BY <3>1
    <2>2. CASE chan[c].queue = <<>>
      <3>1. Len(chan[c].queue) = 0
        BY <2>2
      <3>2. QED
        BY <3>1
    <2>3. QED
      BY <1>3, <2>1, <2>2
  <1>7. chan[c].closed => chan[c].queue # <<>> \/ Len(results) >= c
    BY <1>2, <1>4, <1>5
  <1>8. QED
    BY <1>6, <1>7

(* For any number of calls, retries and panics: the gauge is the calls       *)
(* inside, the counters agree with the traces and with how calls ended, the  *)
(* traces and hooks are complete, every channel carries one result and every *)
(* result is at the position of its request.                                *)
THEOREM EveryoneAgrees == CallsSpec => []CallsAccounted
  <1>1. IInv => CallsAccounted
    BY IInvTraceComplete, IInvHooksPaired, IInvOneResult
       DEF IInv, CallsInv, CallsAccounted
  <1>2. QED
    BY <1>1, Inductive, PTL
=============================================================================
