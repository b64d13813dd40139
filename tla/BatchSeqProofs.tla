--------------------------- MODULE BatchSeqProofs ---------------------------
(***************************************************************************)
(* Proofs about BatchSeq, for every number of inputs and every ceiling.    *)
(***************************************************************************)
EXTENDS BatchSeq, FiniteSetTheorems, SequenceTheorems, TLAPS

(* The items whose goroutine holds a slot of the limiter.                   *)
Holding == {"call", "send", "release"}
Running == {i \in Items : worker[i] \in Holding}

(* A result was sent when it is in the buffer or has been yielded; an item  *)
(* is open while some goroutine is still to send for it.                    *)
Buffered(i) == \E k \in 1..Len(results) : results[k] = i
Sent(i) == yielded[i] > 0 \/ Buffered(i)
Open(i) == worker[i] \in {"call", "send"} \/ (worker[i] = "none" /\ i >= next)

(* acquire is entered for an input only, and its watchdog lives only while  *)
(* it is past the fast path.                                                *)
AcquireInv ==
    /\ acq # "out" => dispatcher = "launching" /\ next <= N
    /\ acq \in {"out", "fast"} => watchdog = "none"
    /\ inFlight = Cardinality(Running)

(* What each stage of the dispatcher and of the consumer implies.           *)
StageInv ==
    /\ dispatcher \in {"joining", "closed"} => next > N \/ stopped
    /\ dispatcher = "closed" => AllDone
    /\ consumer = "returned" => dispatcher = "closed"
    /\ consumer \in {"ranging", "broke"} => ~stopped
    /\ consumer \in {"stopping", "draining"} => stopped

(* The inputs before next, and only those, have been dealt with.            *)
LaunchInv == \A i \in Items :
    /\ i >= next => worker[i] = "none"
    /\ dispatcher = "launching" /\ i < next => worker[i] # "none"

(* A result is in the buffer or yielded at most once, none comes from an    *)
(* open item, and until the loop is left none is lost.                      *)
SentInv ==
    /\ \A j, k \in 1..Len(results) : results[j] = results[k] => j = k
    /\ \A k \in 1..Len(results) : yielded[results[k]] = 0
    /\ \A i \in Items : Open(i) => ~Sent(i)
    /\ ~stopped => \A i \in Items : ~Open(i) => Sent(i)

IInv == TypeOK /\ AcquireInv /\ StageInv /\ LaunchInv /\ SentInv

-----------------------------------------------------------------------------
LEMMA ItemsFinite ==
  ASSUME NEW S \in SUBSET Items
  PROVE  IsFiniteSet(S) /\ Cardinality(S) \in Nat
  <1>1. IsFiniteSet(1..N)
    BY BatchSeqAssumption, FS_Interval
  <1>2. QED
    BY <1>1, FS_Subset, FS_CardinalityType DEF Items

(* A launch adds one to the holders of a slot, and a release takes one off. *)
LEMMA OneMoreRunning ==
  ASSUME NEW i \in Items, worker \in [Items -> Phase], Moves(i, "none", "call")
  PROVE  Cardinality(Running)' = Cardinality(Running) + 1
  <1>1. Running' = Running \cup {i} /\ i \notin Running
    BY DEF Running, Moves, Holding
  <1>2. Running \in SUBSET Items
    BY DEF Running
  <1>3. QED
    BY <1>1, <1>2, ItemsFinite, FS_AddElement

LEMMA OneRunningLess ==
  ASSUME NEW i \in Items, worker \in [Items -> Phase],
         Moves(i, "release", "wake")
  PROVE  /\ Cardinality(Running)' = Cardinality(Running) - 1
         /\ Cardinality(Running) \in Nat \ {0}
  <1>1. Running' = Running \ {i} /\ i \in Running
    BY DEF Running, Moves, Holding
  <1>2. Running \in SUBSET Items
    BY DEF Running
  <1>3. IsFiniteSet(Running) /\ Cardinality(Running) \in Nat
    BY <1>2, ItemsFinite
  <1>4. Cardinality(Running \ {i}) = Cardinality(Running) - 1
    BY <1>1, <1>3, FS_RemoveElement
  <1>5. Cardinality(Running) # 0
    BY <1>1, <1>3, FS_EmptySet
  <1>6. QED
    BY <1>1, <1>3, <1>4, <1>5

(* The buffer after a send, and after a receive.                            *)
LEMMA BufferAfterSend ==
  ASSUME results \in Seq(Items), NEW i \in Items, Send(i)
  PROVE  /\ results' \in Seq(Items)
         /\ Len(results) \in Nat
         /\ Len(results') = Len(results) + 1 /\ Len(results') <= Ceiling
         /\ \A k \in 1..Len(results) : results'[k] = results[k]
         /\ results'[Len(results) + 1] = i
  <1>1. Len(results) \in Nat
    BY LenProperties
  <1>2. Len(results) < Ceiling /\ results' = Append(results, i)
    BY DEF Send, Buffer
  <1>3. QED
    BY <1>1, <1>2, LimiterAssumption, AppendProperties

LEMMA BufferAfterReceive ==
  ASSUME results \in Seq(Items), results # <<>>, results' = Tail(results)
  PROVE  /\ Len(results) \in Nat \ {0}
         /\ Head(results) = results[1] /\ results[1] \in Items
         /\ results' \in Seq(Items)
         /\ Len(results') = Len(results) - 1
         /\ \A k \in 1..Len(results') : results'[k] = results[k + 1]
  <1>1. Len(results) \in Nat \ {0}
    BY EmptySeq
  <1>2. Head(results) = results[1] /\ results[1] \in Items
    BY <1>1, ElementOfSeq
  <1>3. QED
    BY <1>1, <1>2, HeadTailProperties

(* What was sent is not forgotten while no result moves and nobody opens or *)
(* closes an item.                                                          *)
LEMMA SentSame ==
  ASSUME SentInv, UNCHANGED <<results, yielded>>, stopped => stopped',
         \A i \in Items : Open(i)' <=> Open(i)
  PROVE  SentInv'
  <1>1. \A i \in Items : Sent(i)' <=> Sent(i)
    BY DEF Sent, Buffered
  <1>2. QED
    BY <1>1 DEF SentInv

(* A send for an open item that is thereby closed.                          *)
LEMMA SentMore ==
  ASSUME TypeOK, SentInv, NEW i \in Items, Open(i), ~Open(i)', Send(i),
         \A j \in Items : j # i => (Open(j)' <=> Open(j)),
         UNCHANGED <<yielded, stopped>>
  PROVE  SentInv'
  <1>1. /\ Len(results) \in Nat
        /\ Len(results') = Len(results) + 1
        /\ \A k \in 1..Len(results) : results'[k] = results[k]
        /\ results'[Len(results) + 1] = i
    BY BufferAfterSend DEF TypeOK
  <1>2. ~Sent(i)
    BY DEF SentInv
  <1>3. yielded[i] = 0 /\ \A k \in 1..Len(results) : results[k] # i
    BY <1>2 DEF Sent, Buffered, TypeOK
  <1>4. \A k \in 1..Len(results') : k \in 1..Len(results) \/ k = Len(results) + 1
    BY <1>1
  <1>5. \A j, k \in 1..Len(results') : results'[j] = results'[k] => j = k
    BY <1>1, <1>3, <1>4 DEF SentInv
  <1>6. \A k \in 1..Len(results') : yielded'[results'[k]] = 0
    BY <1>1, <1>3, <1>4 DEF SentInv
  <1>7. \A j \in Items : Sent(j)' <=> Sent(j) \/ j = i
    <2> SUFFICES ASSUME NEW j \in Items PROVE Sent(j)' <=> Sent(j) \/ j = i
      OBVIOUS
    <2>1. Buffered(j)' <=> Buffered(j) \/ j = i
      BY <1>1, <1>4 DEF Buffered
    <2>2. QED
      BY <2>1, <1>3 DEF Sent
  <1>8. QED
    BY <1>5, <1>6, <1>7 DEF SentInv

(* A receive makes what was buffered at the head yielded.                   *)
LEMMA SentReceived ==
  ASSUME TypeOK, SentInv, Yield
  PROVE  SentInv'
  <1> DEFINE h == Head(results)
  <1>1. /\ Len(results) \in Nat \ {0}
        /\ h = results[1] /\ h \in Items
        /\ Len(results') = Len(results) - 1
        /\ \A k \in 1..Len(results') : results'[k] = results[k + 1]
    BY BufferAfterReceive DEF TypeOK, Yield
  <1>2. /\ yielded' = [yielded EXCEPT ![h] = @ + 1]
        /\ UNCHANGED <<next, worker, stopped>>
    BY DEF Yield
  <1>3. \A k \in 1..Len(results') : k + 1 \in 1..Len(results)
    BY <1>1
  <1> HIDE DEF h
  <1>4. \A k \in 1..Len(results') : results'[k] # h
    BY <1>1, <1>3 DEF SentInv
  <1>5. \A j, k \in 1..Len(results') : results'[j] = results'[k] => j = k
    BY <1>1, <1>3 DEF SentInv
  <1>6. \A k \in 1..Len(results') : yielded'[results'[k]] = 0
    <2> SUFFICES ASSUME NEW k \in 1..Len(results')
                 PROVE  yielded'[results'[k]] = 0
      OBVIOUS
    <2>1. results'[k] = results[k + 1] /\ k + 1 \in 1..Len(results)
      BY <1>1, <1>3
    <2>2. results[k + 1] \in Items
      BY <2>1, ElementOfSeq DEF TypeOK
    <2>3. yielded[results[k + 1]] = 0
      BY <2>1 DEF SentInv
    <2>4. QED
      BY <1>2, <1>4, <2>1, <2>2, <2>3 DEF TypeOK
  <1>7. \A i \in Items : Sent(i)' <=> Sent(i)
    <2> SUFFICES ASSUME NEW i \in Items PROVE Sent(i)' <=> Sent(i)
      OBVIOUS
    <2>1. CASE i = h
      <3>1. 1 \in 1..Len(results)
        BY <1>1
      <3>2. Buffered(i)
        BY <2>1, <1>1, <3>1 DEF Buffered
      <3>3. yielded'[i] > 0
        BY <2>1, <1>1, <1>2 DEF TypeOK
      <3>4. QED
        BY <3>2, <3>3 DEF Sent
    <2>2. CASE i # h
      <3>1. yielded'[i] = yielded[i]
        BY <2>2, <1>1, <1>2 DEF TypeOK
      <3>2. Buffered(i)' => Buffered(i)
        BY <1>1, <1>3 DEF Buffered
      <3>3. ASSUME Buffered(i) PROVE Buffered(i)'
        <4>1. PICK k \in 1..Len(results) : results[k] = i
          BY <3>3 DEF Buffered
        <4>2. k # 1
          BY <4>1, <2>2, <1>1
        <4>3. k - 1 \in 1..Len(results') /\ (k - 1) + 1 = k
          BY <4>1, <4>2, <1>1
        <4>4. results'[k - 1] = i
          BY <4>1, <4>3, <1>1
        <4>5. QED
          BY <4>3, <4>4 DEF Buffered
      <3>4. QED
        BY <3>1, <3>2, <3>3 DEF Sent
    <2>3. QED
      BY <2>1, <2>2
  <1>8. \A i \in Items : Open(i)' <=> Open(i)
    BY <1>2 DEF Open
  <1>9. QED
    BY <1>2, <1>5, <1>6, <1>7, <1>8 DEF SentInv

-----------------------------------------------------------------------------
LEMMA InitIInv == Init => IInv
  <1> SUFFICES ASSUME Init PROVE IInv
    OBVIOUS
  <1> USE LimiterAssumption, BatchSeqAssumption DEF Init, LimiterInit
  <1>1. TypeOK
    <2>1. cancelled \in BOOLEAN /\ stopped \in BOOLEAN
      OBVIOUS
    <2>2. results \in Seq(Items) /\ Len(results) = 0
      BY EmptySeq
    <2>3. LimiterType
      BY <2>1 DEF LimiterType
    <2>4. QED
      BY <2>1, <2>2, <2>3 DEF TypeOK, Phase, Items
  <1>2. Running = {}
    BY DEF Running, Holding
  <1>3. AcquireInv
    BY <1>2, FS_EmptySet DEF AcquireInv
  <1>4. StageInv /\ LaunchInv
    BY DEF StageInv, LaunchInv, Items
  <1>5. SentInv
    <2>1. Len(results) = 0
      BY EmptySeq
    <2>2. \A i \in Items : ~Sent(i)
      BY <2>1 DEF Sent, Buffered
    <2>3. \A i \in Items : Open(i)
      BY DEF Open, Items
    <2>4. QED
      BY <2>1, <2>2, <2>3 DEF SentInv
  <1>6. QED
    BY <1>1, <1>3, <1>4, <1>5 DEF IInv

(* The steps of acquire that take no slot, and the cancellation.            *)
LEMMA WaitingIInv ==
  ASSUME IInv, AskForSlot \/ Wait \/ Watchdog \/ CallerCancels
  PROVE  IInv'
  <1> USE DEF IInv
  <1>1. UNCHANGED <<counters, streamVars>>
    BY DEF AskForSlot, Wait, Watchdog, CallerCancels, EnterAcquire, GoSlow,
           DecideToWait, Park, WatchdogFires, WatchdogLeaves, Cancel
  <1>2. /\ acq' \in {"out", "fast", "slow", "waiting", "parked"}
        /\ watchdog' \in {"none", "armed", "spent"}
        /\ cancelled' \in BOOLEAN
        /\ acq' \in {"out", "fast"} => watchdog' = "none"
        /\ acq' # "out" => dispatcher = "launching" /\ next <= N
    BY DEF AskForSlot, Wait, Watchdog, CallerCancels, EnterAcquire, GoSlow,
           DecideToWait, Park, WatchdogFires, WatchdogLeaves, Cancel, Broadcast, TypeOK,
           LimiterType, AcquireInv
  <1>0. leaving' \in Nat
    <2>1. leaving \in Nat
      BY DEF TypeOK, LimiterType
    <2>2. leaving' = leaving \/ (leaving > 0 /\ leaving' = leaving - 1)
      BY DEF AskForSlot, Wait, Watchdog, CallerCancels, EnterAcquire, GoSlow,
             DecideToWait, Park, WatchdogFires, WatchdogLeaves, Cancel
    <2>3. QED
      BY <2>1, <2>2
  <1>3. TypeOK'
    BY <1>0, <1>1, <1>2 DEF TypeOK, LimiterType, counters, streamVars
  <1>4. AcquireInv'
    BY <1>1, <1>2 DEF AcquireInv, Running, counters, streamVars
  <1>5. StageInv' /\ LaunchInv'
    BY <1>1 DEF StageInv, LaunchInv, AllDone, streamVars
  <1>6. SentInv'
    BY <1>1, SentSame DEF Open, streamVars
  <1>7. QED
    BY <1>3, <1>4, <1>5, <1>6

(* A launch takes the slot it counts, and its item stays open.              *)
LEMMA LaunchIInv ==
  ASSUME IInv, Launch
  PROVE  IInv'
  <1> USE LimiterAssumption, BatchSeqAssumption DEF IInv
  <1>0. next \in Items /\ next' = next + 1 /\ next' \in 1..(N + 1)
    BY DEF Launch, TypeOK, Items
  <1>1. /\ inFlight < limit /\ inFlight' = inFlight + 1
        /\ peak' = (IF inFlight + 1 > peak THEN inFlight + 1 ELSE peak)
        /\ limit' = limit /\ successes' = successes /\ low' = low
        /\ acq' = "out" /\ watchdog' = "none" /\ cancelled' = cancelled
        /\ leaving' \in Nat
    BY DEF Launch, Acquire, HasRoom, Take, Dismiss, TypeOK, LimiterType
  <1>2. /\ worker' = [worker EXCEPT ![next] = "call"]
        /\ worker[next] = "none" /\ dispatcher = "launching"
        /\ UNCHANGED <<dispatcher, results, consumer, stopped, yielded>>
    BY DEF Launch, Moves
  <1>3. Cardinality(Running)' = Cardinality(Running) + 1
    BY <1>0, OneMoreRunning DEF Launch, TypeOK
  <1>4. TypeOK'
    <2>1. LimiterType'
      BY <1>1 DEF TypeOK, LimiterType
    <2>2. QED
      BY <1>0, <1>2, <2>1 DEF TypeOK, Phase
  <1>5. AcquireInv'
    BY <1>1, <1>3 DEF AcquireInv
  <1>6. StageInv' /\ LaunchInv'
    BY <1>0, <1>2 DEF StageInv, LaunchInv, TypeOK, Phase, Items
  <1>7. \A i \in Items : Open(i)' <=> Open(i)
    BY <1>0, <1>2 DEF Open, TypeOK, Items
  <1>8. SentInv'
    BY <1>2, <1>7, SentSame
  <1>9. QED
    BY <1>4, <1>5, <1>6, <1>8

(* The dispatcher leaves its loop.                                          *)
LEMMA StartFillIInv ==
  ASSUME IInv, StartFill
  PROVE  IInv'
  <1> USE DEF IInv
  <1>1. /\ UNCHANGED <<counters, cancelled, next, worker, results, consumer,
                       stopped, yielded>>
        /\ acq' = "out" /\ watchdog' = "none" /\ leaving' \in Nat
        /\ dispatcher = "launching" /\ dispatcher' = "filling"
    BY DEF StartFill, GiveUp, Dismiss, TypeOK, LimiterType
  <1>2. TypeOK' /\ AcquireInv'
    BY <1>1 DEF TypeOK, LimiterType, AcquireInv, Running, counters
  <1>3. StageInv' /\ LaunchInv'
    BY <1>1 DEF StageInv, LaunchInv
  <1>4. SentInv'
    BY <1>1, SentSame DEF Open
  <1>5. QED
    BY <1>2, <1>3, <1>4

LEMMA StartJoinIInv ==
  ASSUME IInv, StartJoin
  PROVE  IInv'
  <1> USE DEF IInv
  <1>1. /\ UNCHANGED <<limiterVars, next, worker, results, consumer, stopped,
                       yielded>>
        /\ dispatcher \in {"launching", "filling"} /\ dispatcher' = "joining"
        /\ next > N \/ (dispatcher = "filling" /\ stopped)
    BY DEF StartJoin, NobodyListens
  <1>2. TypeOK'
    BY <1>1 DEF TypeOK, LimiterType, limiterVars
  <1>3. AcquireInv'
    BY <1>1, BatchSeqAssumption
       DEF AcquireInv, Running, limiterVars, TypeOK
  <1>4. StageInv' /\ LaunchInv'
    BY <1>1 DEF StageInv, LaunchInv
  <1>5. SentInv'
    BY <1>1, SentSame DEF Open
  <1>6. QED
    BY <1>2, <1>3, <1>4, <1>5

LEMMA CloseResultsIInv ==
  ASSUME IInv, CloseResults
  PROVE  IInv'
  <1> USE DEF IInv
  <1>1. /\ UNCHANGED <<limiterVars, next, worker, results, consumer, stopped,
                       yielded>>
        /\ dispatcher = "joining" /\ dispatcher' = "closed" /\ AllDone
    BY DEF CloseResults
  <1>2. TypeOK' /\ AcquireInv'
    BY <1>1 DEF TypeOK, LimiterType, AcquireInv, Running, limiterVars
  <1>3. StageInv' /\ LaunchInv'
    BY <1>1 DEF StageInv, LaunchInv, AllDone
  <1>4. SentInv'
    BY <1>1, SentSame DEF Open
  <1>5. QED
    BY <1>2, <1>3, <1>4

(* The fill loop sends for an input that was never launched.                *)
LEMMA FillOneIInv ==
  ASSUME IInv, FillOne
  PROVE  IInv'
  <1> USE DEF IInv
  <1>1. /\ UNCHANGED <<limiterVars, dispatcher, worker, consumer, stopped,
                       yielded>>
        /\ dispatcher = "filling" /\ next <= N /\ next' = next + 1
        /\ Send(next)
    BY DEF FillOne
  <1>2. PICK i \in Items : i = next
    BY <1>1, BatchSeqAssumption DEF TypeOK, Items
  <1>0. i \in Nat /\ next' = i + 1 /\ next' \in 1..(N + 1)
    BY <1>1, <1>2, BatchSeqAssumption DEF TypeOK, Items
  <1>3. TypeOK'
    BY <1>0, <1>1, <1>2, BufferAfterSend DEF TypeOK, LimiterType, limiterVars
  <1>4. AcquireInv'
    BY <1>1 DEF AcquireInv, Running, limiterVars
  <1>5. StageInv' /\ LaunchInv'
    BY <1>0, <1>1, <1>2 DEF StageInv, LaunchInv, TypeOK, Items
  <1>6. worker[i] = "none"
    BY <1>0, <1>2 DEF LaunchInv
  <1>7. /\ Open(i) /\ ~Open(i)'
        /\ \A j \in Items : j # i => (Open(j)' <=> Open(j))
    BY <1>0, <1>1, <1>2, <1>6 DEF Open, Items
  <1>8. Send(i)
    BY <1>1, <1>2
  <1>9. SentInv'
    BY <1>1, <1>7, <1>8, SentMore
  <1>10. QED
    BY <1>3, <1>4, <1>5, <1>9

-----------------------------------------------------------------------------
(* A worker's steps leave the stages and the launch order as they are.      *)
LEMMA WorkerStages ==
  ASSUME IInv, NEW i \in Items, NEW p \in Phase \ {"none", "done"},
         NEW q \in Phase \ {"none"}, Moves(i, p, q),
         UNCHANGED <<dispatcher, next, consumer, stopped>>
  PROVE  StageInv' /\ LaunchInv'
  <1> USE DEF IInv
  <1>1. worker[i] = p /\ worker' = [worker EXCEPT ![i] = q]
    BY DEF Moves
  <1>2. ~AllDone
    BY <1>1 DEF AllDone
  <1>3. StageInv'
    BY <1>2 DEF StageInv
  <1>4. LaunchInv'
    BY <1>1 DEF LaunchInv, TypeOK
  <1>5. QED
    BY <1>3, <1>4

(* observe moves the limit within its range and no slot.                    *)
LEMMA ObserveTypes ==
  ASSUME LimiterType, NEW o, Observe(o)
  PROVE  /\ LimiterType'
         /\ inFlight' = inFlight /\ watchdog' = watchdog
         /\ acq' = acq \/ (acq = "parked" /\ acq' = "slow")
  <1> USE LimiterAssumption DEF LimiterType
  <1>1. CASE Throttle /\ UNCHANGED <<watchdog, leaving, cancelled>>
    <2>1. Halved \in 1..Ceiling
      BY DEF Halved, MinAdaptiveConcurrency
    <2>2. QED
      BY <1>1, <2>1 DEF Throttle
  <1>2. CASE Recover /\ UNCHANGED <<watchdog, leaving, cancelled>>
    BY <1>2 DEF Recover, Broadcast, counters
  <1>3. CASE UNCHANGED <<counters, acq, watchdog, leaving, cancelled>>
    BY <1>3 DEF counters
  <1>4. QED
    BY <1>1, <1>2, <1>3 DEF Observe

LEMMA EndCallIInv ==
  ASSUME IInv, NEW i \in Items, EndCall(i)
  PROVE  IInv'
  <1> USE DEF IInv
  <1>1. PICK o \in Outcomes : Observe(o)
    BY DEF EndCall
  <1>2. /\ UNCHANGED <<dispatcher, next, results, consumer, stopped, yielded>>
        /\ worker[i] = "call" /\ worker' = [worker EXCEPT ![i] = "send"]
        /\ Moves(i, "call", "send")
    BY DEF EndCall, Moves
  <1>3. /\ LimiterType'
        /\ inFlight' = inFlight /\ watchdog' = watchdog
        /\ acq' = acq \/ (acq = "parked" /\ acq' = "slow")
    BY <1>1, ObserveTypes DEF TypeOK
  <1>4. TypeOK'
    BY <1>2, <1>3 DEF TypeOK, Phase
  <1>5. Running' = Running
    BY <1>2 DEF Running, Holding, TypeOK
  <1>6. AcquireInv'
    BY <1>2, <1>3, <1>5 DEF AcquireInv
  <1>7. StageInv' /\ LaunchInv'
    BY <1>2, WorkerStages DEF Phase
  <1>8. \A j \in Items : Open(j)' <=> Open(j)
    BY <1>2 DEF Open, TypeOK
  <1>9. SentInv'
    BY <1>2, <1>8, SentSame
  <1>10. QED
    BY <1>4, <1>6, <1>7, <1>9

LEMMA SendItemIInv ==
  ASSUME IInv, NEW i \in Items, SendItem(i)
  PROVE  IInv'
  <1> USE DEF IInv
  <1>1. /\ UNCHANGED <<limiterVars, dispatcher, next, consumer, stopped,
                       yielded>>
        /\ worker[i] = "send" /\ worker' = [worker EXCEPT ![i] = "release"]
        /\ Moves(i, "send", "release")
        /\ Send(i) \/ (stopped /\ UNCHANGED results)
    BY DEF SendItem, Moves, NobodyListens
  <1>2. results' \in Seq(Items) /\ Len(results') <= Ceiling
    BY <1>1, BufferAfterSend DEF TypeOK
  <1>3. TypeOK'
    BY <1>1, <1>2 DEF TypeOK, LimiterType, limiterVars, Phase
  <1>4. Running' = Running
    BY <1>1 DEF Running, Holding, TypeOK
  <1>5. AcquireInv'
    BY <1>1, <1>4 DEF AcquireInv, limiterVars
  <1>6. StageInv' /\ LaunchInv'
    BY <1>1, WorkerStages DEF Phase
  <1>7. /\ Open(i) /\ ~Open(i)'
        /\ \A j \in Items : j # i => (Open(j)' <=> Open(j))
    BY <1>1 DEF Open, TypeOK
  <1>8. CASE Send(i)
    BY <1>1, <1>3, <1>5, <1>6, <1>7, <1>8, SentMore
  <1>9. CASE stopped /\ UNCHANGED results
    <2>1. \A j \in Items : Open(j)' => Open(j)
      BY <1>7
    <2>2. SentInv'
      BY <1>1, <1>9, <2>1 DEF SentInv, Sent, Buffered
    <2>3. QED
      BY <1>3, <1>5, <1>6, <2>2
  <1>10. QED
    BY <1>1, <1>8, <1>9

LEMMA ReleaseItemIInv ==
  ASSUME IInv, NEW i \in Items, ReleaseItem(i)
  PROVE  IInv'
  <1> USE LimiterAssumption DEF IInv
  <1>1. /\ UNCHANGED <<dispatcher, next, results, consumer, stopped, yielded>>
        /\ UNCHANGED <<limit, successes, peak, low, acq, watchdog, leaving, cancelled>>
        /\ inFlight' = inFlight - 1
        /\ worker[i] = "release" /\ worker' = [worker EXCEPT ![i] = "wake"]
        /\ Moves(i, "release", "wake")
    BY DEF ReleaseItem, Release, Moves
  <1>2. /\ Cardinality(Running)' = Cardinality(Running) - 1
        /\ Cardinality(Running) \in Nat \ {0}
    BY <1>1, OneRunningLess DEF TypeOK
  <1>3. AcquireInv'
    BY <1>1, <1>2 DEF AcquireInv
  <1>4. TypeOK'
    <2>1. inFlight' \in 0..Ceiling
      BY <1>1, <1>2 DEF AcquireInv, TypeOK, LimiterType
    <2>2. QED
      BY <1>1, <2>1 DEF TypeOK, LimiterType, Phase
  <1>5. StageInv' /\ LaunchInv'
    BY <1>1, WorkerStages DEF Phase
  <1>6. \A j \in Items : Open(j)' <=> Open(j)
    BY <1>1 DEF Open, TypeOK
  <1>7. SentInv'
    BY <1>1, <1>6, SentSame
  <1>8. QED
    BY <1>3, <1>4, <1>5, <1>7

LEMMA FinishItemIInv ==
  ASSUME IInv, NEW i \in Items, FinishItem(i)
  PROVE  IInv'
  <1> USE DEF IInv
  <1>1. /\ UNCHANGED <<dispatcher, next, results, consumer, stopped, yielded>>
        /\ UNCHANGED <<counters, watchdog, leaving, cancelled>>
        /\ acq' = (IF acq = "parked" THEN "slow" ELSE acq)
        /\ worker[i] = "wake" /\ worker' = [worker EXCEPT ![i] = "done"]
        /\ Moves(i, "wake", "done")
    BY DEF FinishItem, ReleaseBroadcast, Broadcast, Moves
  <1>2. TypeOK'
    BY <1>1 DEF TypeOK, LimiterType, Phase, counters
  <1>3. Running' = Running
    BY <1>1 DEF Running, Holding, TypeOK
  <1>4. AcquireInv'
    BY <1>1, <1>3 DEF AcquireInv, counters
  <1>5. StageInv' /\ LaunchInv'
    BY <1>1, WorkerStages DEF Phase
  <1>6. \A j \in Items : Open(j)' <=> Open(j)
    BY <1>1 DEF Open, TypeOK
  <1>7. SentInv'
    BY <1>1, <1>6, SentSame
  <1>8. QED
    BY <1>2, <1>4, <1>5, <1>7

-----------------------------------------------------------------------------
LEMMA YieldIInv ==
  ASSUME IInv, Yield
  PROVE  IInv'
  <1> USE DEF IInv
  <1>1. /\ UNCHANGED <<limiterVars, dispatcher, next, worker, stopped>>
        /\ consumer = "ranging" /\ consumer' \in {"ranging", "broke"}
        /\ yielded' = [yielded EXCEPT ![Head(results)] = @ + 1]
        /\ results # <<>> /\ results' = Tail(results)
    BY DEF Yield
  <1>2. /\ results' \in Seq(Items)
        /\ Len(results') = Len(results) - 1 /\ Len(results) \in Nat
    BY <1>1, BufferAfterReceive DEF TypeOK
  <1>3. TypeOK'
    BY <1>1, <1>2, LimiterAssumption DEF TypeOK, LimiterType, limiterVars
  <1>4. AcquireInv' /\ StageInv' /\ LaunchInv'
    BY <1>1 DEF AcquireInv, Running, StageInv, LaunchInv, AllDone, limiterVars
  <1>5. SentInv'
    BY SentReceived
  <1>6. QED
    BY <1>3, <1>4, <1>5

LEMMA StopIInv ==
  ASSUME IInv, Stop
  PROVE  IInv'
  <1> USE DEF IInv
  <1>1. /\ UNCHANGED <<limiterVars, dispatcher, next, worker, results,
                       yielded>>
        /\ consumer' = "stopping" /\ stopped' = TRUE
    BY DEF Stop
  <1>2. TypeOK' /\ AcquireInv'
    BY <1>1 DEF TypeOK, LimiterType, AcquireInv, Running, limiterVars
  <1>3. StageInv' /\ LaunchInv'
    BY <1>1 DEF StageInv, LaunchInv, AllDone
  <1>4. SentInv'
    BY <1>1, SentSame DEF Open
  <1>5. QED
    BY <1>2, <1>3, <1>4

(* Draining forgets results nobody will be given.                           *)
LEMMA DrainIInv ==
  ASSUME IInv, Drain
  PROVE  IInv'
  <1> USE DEF IInv
  <1>1. /\ UNCHANGED <<limiterVars, dispatcher, next, worker, consumer,
                       stopped, yielded>>
        /\ consumer = "draining" /\ stopped
        /\ results # <<>> /\ results' = Tail(results)
    BY DEF Drain, StageInv
  <1>2. /\ results' \in Seq(Items)
        /\ Len(results') = Len(results) - 1 /\ Len(results) \in Nat
        /\ \A k \in 1..Len(results') : results'[k] = results[k + 1]
    BY <1>1, BufferAfterReceive DEF TypeOK
  <1>3. TypeOK'
    BY <1>1, <1>2, LimiterAssumption DEF TypeOK, LimiterType, limiterVars
  <1>4. AcquireInv' /\ StageInv' /\ LaunchInv'
    BY <1>1 DEF AcquireInv, Running, StageInv, LaunchInv, AllDone, limiterVars
  <1>5. \A k \in 1..Len(results') : k + 1 \in 1..Len(results)
    BY <1>2
  <1>6. \A i \in Items : Sent(i)' => Sent(i)
    BY <1>1, <1>2, <1>5 DEF Sent, Buffered
  <1>7. \A i \in Items : Open(i)' <=> Open(i)
    BY <1>1 DEF Open
  <1>8. SentInv'
    BY <1>1, <1>2, <1>5, <1>6, <1>7 DEF SentInv
  <1>9. QED
    BY <1>3, <1>4, <1>8

LEMMA CancelIInv ==
  ASSUME IInv, CancelAfterStop \/ Return
  PROVE  IInv'
  <1> USE DEF IInv
  <1>1. /\ UNCHANGED <<counters, acq, watchdog, leaving, dispatcher, next,
                       worker, results, stopped, yielded>>
        /\ cancelled' = TRUE
        /\ \/ consumer = "stopping" /\ consumer' = "draining"
           \/ dispatcher = "closed" /\ consumer' = "returned"
    BY DEF CancelAfterStop, Return, RangeEnds, Cancel
  <1>2. TypeOK' /\ AcquireInv'
    BY <1>1 DEF TypeOK, LimiterType, AcquireInv, Running, counters
  <1>3. StageInv' /\ LaunchInv'
    BY <1>1 DEF StageInv, LaunchInv, AllDone
  <1>4. SentInv'
    BY <1>1, SentSame DEF Open
  <1>5. QED
    BY <1>2, <1>3, <1>4

(* The invariant is inductive.                                              *)
LEMMA NextIInv == IInv /\ [Next]_vars => IInv'
  <1> SUFFICES ASSUME IInv, [Next]_vars PROVE IInv'
    OBVIOUS
  <1>1. CASE AskForSlot \/ Wait \/ Watchdog \/ CallerCancels
    BY <1>1, WaitingIInv
  <1>2. CASE Launch
    BY <1>2, LaunchIInv
  <1>3. CASE StartFill \/ StartJoin \/ CloseResults \/ FillOne
    BY <1>3, StartFillIInv, StartJoinIInv, CloseResultsIInv, FillOneIInv
  <1>4. CASE Yield \/ Stop \/ Drain \/ CancelAfterStop \/ Return
    BY <1>4, YieldIInv, StopIInv, DrainIInv, CancelIInv
  <1>5. ASSUME NEW i \in Items,
               EndCall(i) \/ SendItem(i) \/ ReleaseItem(i) \/ FinishItem(i)
        PROVE  IInv'
    BY <1>5, EndCallIInv, SendItemIInv, ReleaseItemIInv, FinishItemIInv
  <1>6. CASE UNCHANGED vars
    <2>1. UNCHANGED <<limiterVars, streamVars>>
      BY <1>6 DEF vars
    <2>2. TypeOK' /\ AcquireInv' /\ StageInv' /\ LaunchInv'
      BY <2>1 DEF IInv, TypeOK, LimiterType, AcquireInv, Running, StageInv,
                  LaunchInv, AllDone, limiterVars, streamVars
    <2>3. SentInv'
      BY <2>1, SentSame DEF IInv, Open, streamVars
    <2>4. QED
      BY <2>2, <2>3 DEF IInv
  <1>7. QED
    BY <1>1, <1>2, <1>3, <1>4, <1>5, <1>6 DEF Next

(* Every reachable state of a streamed batch satisfies the invariant.       *)
THEOREM Inductive == Spec => []IInv
  BY InitIInv, NextIInv, PTL DEF Spec

-----------------------------------------------------------------------------
(* Every variable keeps its type, the limit its range and the buffer its    *)
(* capacity.                                                                *)
THEOREM TypeCorrect == Spec => []TypeOK
  <1>1. IInv => TypeOK
    BY DEF IInv
  <1>2. QED
    BY <1>1, Inductive, PTL

(* When the call returns, the dispatcher has closed the channel, every      *)
(* worker has finished and no slot of the limiter is taken.                 *)
THEOREM NothingIsLeftRunning == Spec => []NothingOutlives
  <1>1. IInv => NothingOutlives
    <2> SUFFICES ASSUME IInv, consumer = "returned"
                 PROVE  /\ dispatcher = "closed" /\ inFlight = 0 /\ AllDone
      BY DEF NothingOutlives, AllDone
    <2>1. dispatcher = "closed" /\ AllDone
      BY DEF IInv, StageInv
    <2>2. Running = {}
      BY <2>1 DEF AllDone, Running, Holding
    <2>3. QED
      BY <2>1, <2>2, FS_EmptySet DEF IInv, AcquireInv
  <1>2. QED
    BY <1>1, Inductive, PTL

(* No goroutine that is yet to send lives when the channel is closed.       *)
THEOREM NobodySendsAfterClose == Spec => []NoSendAfterClose
  <1>1. IInv => NoSendAfterClose
    BY DEF IInv, StageInv, AllDone, NoSendAfterClose
  <1>2. QED
    BY <1>1, Inductive, PTL

(* As many items as the buffer has results, at the most, are buffered.      *)
LEMMA BufferedBound ==
  ASSUME TypeOK
  PROVE  LET held == {i \in Items : Buffered(i)}
         IN  Cardinality(held) <= Ceiling
  <1> DEFINE held == {i \in Items : Buffered(i)}
             n == Len(results)
  <1>1. /\ n \in Nat /\ n <= Ceiling
        /\ results \in [1..n -> Items]
    BY LenProperties DEF TypeOK
  <1>2. results \in Surjection(1..n, held)
    <2>1. \A k \in 1..n : results[k] \in held
      BY <1>1 DEF Buffered
    <2>2. \A i \in held : \E k \in 1..n : results[k] = i
      BY DEF Buffered
    <2>3. results \in [1..n -> held]
      BY <1>1, <2>1
    <2>4. QED
      BY <2>2, <2>3 DEF Surjection
  <1>3. IsFiniteSet(1..n) /\ Cardinality(1..n) = n
    BY <1>1, FS_Interval
  <1>4. Cardinality(held) <= Cardinality(1..n)
    BY <1>2, <1>3, FS_Surjection
  <1>5. held \in SUBSET Items
    OBVIOUS
  <1>6. Cardinality(held) \in Nat
    BY <1>5, ItemsFinite
  <1>7. QED
    BY <1>1, <1>3, <1>4, <1>6, LimiterAssumption

(* The union of three sets of items has no more members than they have.     *)
LEMMA ThreeSets ==
  ASSUME NEW A \in SUBSET Items, NEW B \in SUBSET Items, NEW C \in SUBSET Items
  PROVE  Cardinality(A \cup B \cup C)
            <= Cardinality(A) + Cardinality(B) + Cardinality(C)
  <1>1. /\ IsFiniteSet(A) /\ IsFiniteSet(B) /\ IsFiniteSet(C)
        /\ IsFiniteSet(A \cup B)
        /\ Cardinality(A) \in Nat /\ Cardinality(B) \in Nat
        /\ Cardinality(C) \in Nat /\ Cardinality(A \cup B) \in Nat
        /\ Cardinality(A \cap B) \in Nat
        /\ Cardinality((A \cup B) \cap C) \in Nat
    BY ItemsFinite
  <1>2. Cardinality(A \cup B)
           = Cardinality(A) + Cardinality(B) - Cardinality(A \cap B)
    BY <1>1, FS_Union
  <1>3. Cardinality((A \cup B) \cup C)
           = Cardinality(A \cup B) + Cardinality(C)
                - Cardinality((A \cup B) \cap C)
    BY <1>1, FS_Union
  <1>4. Cardinality((A \cup B) \cup C)
           <= Cardinality(A) + Cardinality(B) + Cardinality(C)
    BY <1>1, <1>2, <1>3
  <1>5. QED
    BY <1>4

(* Until the loop is left, a launched item holds a slot, waits in the       *)
(* buffer or was yielded, so the stream is ahead of its reader by no more   *)
(* than the buffer and the slots in use.                                    *)
THEOREM StreamIsBoundedAhead == Spec => []BoundedAhead
  <1>1. IInv => BoundedAhead
    <2> SUFFICES ASSUME IInv, ~stopped
                 PROVE  Cardinality(Launched)
                           <= Cardinality(Yielded) + Ceiling + inFlight
      BY DEF BoundedAhead
    <2> DEFINE held == {i \in Items : Buffered(i)}
    <2>1. /\ Launched \in SUBSET Items /\ Yielded \in SUBSET Items
          /\ Running \in SUBSET Items /\ held \in SUBSET Items
          /\ (Yielded \cup Running \cup held) \in SUBSET Items
      BY DEF Launched, Yielded, Running
    <2>2. Launched \subseteq Yielded \cup Running \cup held
      <3> SUFFICES ASSUME NEW i \in Items, worker[i] # "none",
                          worker[i] \notin Holding
                   PROVE  yielded[i] > 0 \/ Buffered(i)
        BY DEF Launched, Yielded, Running
      <3>1. ~Open(i)
        BY DEF Open, Holding
      <3>2. QED
        BY <3>1 DEF IInv, SentInv, Sent
    <2>3. Cardinality(Launched) <= Cardinality(Yielded \cup Running \cup held)
      BY <2>1, <2>2, ItemsFinite, FS_Subset
    <2>4. Cardinality(Running) = inFlight
      BY DEF IInv, AcquireInv
    <2>5. Cardinality(held) <= Ceiling
      BY BufferedBound DEF IInv
    <2>6. Cardinality(Yielded \cup Running \cup held)
             <= Cardinality(Yielded) + Cardinality(Running) + Cardinality(held)
      BY <2>1, ThreeSets
    <2>7. /\ Cardinality(Launched) \in Nat /\ Cardinality(Yielded) \in Nat
          /\ Cardinality(Running) \in Nat /\ Cardinality(held) \in Nat
          /\ Cardinality(Yielded \cup Running \cup held) \in Nat
      BY <2>1, ItemsFinite
    <2> HIDE DEF held
    <2>8. QED
      BY <2>3, <2>4, <2>5, <2>6, <2>7, LimiterAssumption
  <1>2. QED
    BY <1>1, Inductive, PTL

-----------------------------------------------------------------------------
(* A yield gives a result that was missing, or leaves early.                *)
LEMMA YieldGives ==
  ASSUME IInv, Yield
  PROVE  Results!Give
  <1> DEFINE h == Head(results)
  <1>1. /\ consumer = "ranging" /\ consumer' \in {"ranging", "broke"}
        /\ yielded' = [yielded EXCEPT ![h] = @ + 1]
    BY DEF Yield
  <1>2. h \in Items /\ yielded[h] = 0
    <2>1. Len(results) \in Nat \ {0} /\ h = results[1] /\ h \in Items
      BY BufferAfterReceive DEF IInv, TypeOK, Yield
    <2>2. 1 \in 1..Len(results)
      BY <2>1
    <2>3. QED
      BY <2>1, <2>2 DEF IInv, SentInv
  <1> HIDE DEF h
  <1>3. h \in Results!Missing
    BY <1>2 DEF Results!Missing
  <1>4. yielded' = [i \in Items |->
                      IF i \in Results!Missing THEN yielded'[i] ELSE yielded[i]]
    BY <1>1, <1>3 DEF IInv, TypeOK
  <1>5. QED
    BY <1>1, <1>4 DEF Results!Give

(* A loop that was not left ends with every result yielded.                 *)
LEMMA ReturnEnds ==
  ASSUME IInv, Return
  PROVE  Results!End
  <1>1. /\ consumer \in {"ranging", "draining"} /\ consumer' = "returned"
        /\ UNCHANGED yielded /\ dispatcher = "closed" /\ results = <<>>
    BY DEF Return, RangeEnds
  <1>2. CASE consumer = "draining"
    BY <1>1, <1>2 DEF Results!End
  <1>3. CASE consumer = "ranging"
    <2>1. ~stopped /\ next > N /\ AllDone
      BY <1>1, <1>3 DEF IInv, StageInv
    <2>2. \A i \in Items : ~Open(i)
      BY <2>1, BatchSeqAssumption DEF Open, AllDone, Items, IInv, TypeOK
    <2>3. Len(results) = 0
      BY <1>1, EmptySeq
    <2>4. \A i \in Items : yielded[i] > 0
      BY <2>1, <2>2, <2>3 DEF IInv, SentInv, Sent, Buffered
    <2>5. Results!Missing = {}
      BY <2>4 DEF Results!Missing
    <2>6. QED
      BY <1>1, <1>3, <2>5 DEF Results!End
  <1>4. QED
    BY <1>1, <1>2, <1>3

(* Each step of the stream gives a missing result, ends with none missing   *)
(* or after being left, or is invisible to the caller.                      *)
LEMMA StepGives ==
  ASSUME IInv, [Next]_vars
  PROVE  [Results!ResultsNext]_(Results!resultsVars)
  <1>1. CASE Yield
    BY <1>1, YieldGives DEF Results!ResultsNext
  <1>2. CASE Return
    BY <1>2, ReturnEnds DEF Results!ResultsNext
  <1>3. CASE Stop \/ CancelAfterStop
    BY <1>3 DEF Stop, CancelAfterStop, Results!resultsVars
  <1>4. CASE UNCHANGED <<consumer, yielded>>
    BY <1>4 DEF Results!resultsVars
  <1>5. CASE UNCHANGED vars
    BY <1>4, <1>5 DEF vars, streamVars
  <1>6. ASSUME Next, ~Yield, ~Return, ~Stop, ~CancelAfterStop
        PROVE  UNCHANGED <<consumer, yielded>>
    BY <1>6 DEF Next, AskForSlot, Wait, Launch, StartFill, FillOne, StartJoin,
                CloseResults, Drain, Watchdog, CallerCancels, EndCall,
                SendItem, ReleaseItem, FinishItem, streamVars
  <1>7. QED
    BY <1>1, <1>2, <1>3, <1>4, <1>5, <1>6

(* A streamed batch gives its loop body what ItemResults promises: every    *)
(* index at most once, and all of them unless the loop is left.             *)
THEOREM StreamGivesResults == Spec => GivesResults
  <1>1. Init => Results!ResultsInit
    BY DEF Init, Results!ResultsInit
  <1>2. QED
    BY <1>1, StepGives, Inductive, PTL
       DEF Spec, GivesResults, Results!ResultsSpec
=============================================================================
