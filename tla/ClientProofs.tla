----------------------------- MODULE ClientProofs ----------------------------
(***************************************************************************)
(* What holds of the client around a call.  Of Budget, for all caps,       *)
(* windows, sizes and clocks: types, the request cap of every minute of    *)
(* the past, and that its windows decide as the whole history does.  Of    *)
(* the functions of FunctionProperties, for every input that InputSane     *)
(* allows: settings, questions, answers, and what is said beforehand of a  *)
(* request, of a command or of generated code, which are the estimate a    *)
(* budget is asked for, the commands of typesafe and the rubrics of        *)
(* typesafe-gen.                                                           *)
(***************************************************************************)
EXTENDS Budget, FunctionProofs

(* The log is in time order and ends now at the latest.                     *)
LogInv ==
    /\ totalRequests = Len(log)
    /\ totalTokens = Quota!Tokens(DOMAIN log)
    /\ \A i \in DOMAIN log : log[i].at <= now
    /\ \A i, j \in DOMAIN log : i <= j => log[i].at <= log[j].at

(* What comes before the last kept events of the log is too old to count.   *)
OldAreGone(kept, span) ==
    \A i \in 1..(Len(log) - kept) : log[i].at + span < now

(* times, or events, are the end of the log.                                *)
EndsLog(times, span) ==
    /\ \A k \in 1..Len(times) : times[k] = log[Len(log) - Len(times) + k].at
    /\ OldAreGone(Len(times), span)
EventsEndLog(events) ==
    /\ \A k \in 1..Len(events) : events[k] = log[Len(log) - Len(events) + k]
    /\ OldAreGone(Len(events), Second)

IInv ==
    /\ BudgetType
    /\ LogInv
    /\ EndsLog(requestTimes, Minute)
    /\ EventsEndLog(tokenEvents)
    /\ RequestsPerMinuteHold
    /\ TokensPerSecondHold

-----------------------------------------------------------------------------
(* What is left of a list when its first i events are dropped.              *)
LEMMA FromProperties ==
  ASSUME NEW S, NEW s \in Seq(S), NEW i \in 0..Len(s)
  PROVE  /\ From(s, i) \in Seq(S)
         /\ Len(From(s, i)) = Len(s) - i
         /\ \A k \in 1..(Len(s) - i) : From(s, i)[k] = s[i + k]
  <1>1. i + 1 \in 1..(Len(s) + 1) /\ Len(s) \in (i + 1) - 1..Len(s)
    BY LenProperties
  <1>2. /\ SubSeq(s, i + 1, Len(s)) \in Seq(S)
        /\ Len(SubSeq(s, i + 1, Len(s))) = Len(s) - (i + 1) + 1
        /\ \A k \in 1..(Len(s) - (i + 1) + 1) :
              SubSeq(s, i + 1, Len(s))[k] = s[(i + 1) + k - 1]
    BY <1>1, SubSeqProperties
  <1> QED
    BY <1>2, LenProperties DEF From

(* A list with one more event.                                              *)
LEMMA AppendLast ==
  ASSUME NEW S, NEW s \in Seq(S), NEW e \in S
  PROVE  /\ Append(s, e) \in Seq(S)
         /\ Len(Append(s, e)) = Len(s) + 1
         /\ \A k \in 1..Len(s) : Append(s, e)[k] = s[k]
         /\ Append(s, e)[Len(s) + 1] = e
  BY AppendProperties

(* Events are dated, and their sizes are numbers.                           *)
LEMMA Dated ==
  ASSUME NEW s \in Seq(Event), NEW i \in 1..Len(s)
  PROVE  s[i].at \in Nat /\ s[i].tokens \in Nat
  <1>1. s[i] \in Event
    BY ElementOfSeq
  <1> QED
    BY <1>1, BudgetAssumption DEF Event

(* Eviction keeps a window of times the end of the log; what it drops is    *)
(* older than the window is long, and what it keeps is not.                 *)
LEMMA Evicted ==
  ASSUME BudgetType, LogInv, NEW span \in Nat, NEW window \in Seq(Nat),
         Len(window) <= Len(log), EndsLog(window, span),
         NEW i \in Stale(window, now - span)
  PROVE  /\ i \in 0..Len(window)
         /\ EndsLog(From(window, i), span)
         /\ From(window, i) \in Seq(Nat)
         /\ Len(From(window, i)) = Len(window) - i
         /\ Quota!Recent(span) = (Len(log) - Len(window) + i + 1)..Len(log)
  <1> DEFINE times == From(window, i)
             n == Len(log)
             gone == n - Len(times)
             dropped == n - Len(window)
  <1>1. /\ Len(window) \in Nat /\ n \in Nat /\ now \in Nat
        /\ log \in Seq(Event) /\ DOMAIN log = 1..n
    BY LenProperties, BudgetAssumption DEF BudgetType
  <1>2. /\ i \in 0..Len(window)
        /\ \A k \in 1..i : window[k] < now - span
        /\ i < Len(window) => window[i + 1] >= now - span
    BY DEF Stale
  <1>3. /\ times \in Seq(Nat)
        /\ Len(times) = Len(window) - i
        /\ \A k \in 1..Len(times) : times[k] = window[i + k]
    BY <1>1, <1>2, FromProperties
  <1>4. gone = dropped + i /\ dropped \in Nat /\ gone \in Nat
    BY <1>1, <1>2, <1>3
  <1>5. /\ \A k \in 1..Len(window) : window[k] = log[dropped + k].at
        /\ \A k \in 1..dropped : log[k].at + span < now
    BY DEF EndsLog, OldAreGone
  <1>6. \A k \in 1..n : log[k].at \in Nat
    BY <1>1, Dated
  <1> HIDE DEF gone, dropped, n, times
  <1>7. \A k \in 1..Len(times) : times[k] = log[gone + k].at
    <2> TAKE k \in 1..Len(times)
    <2>1. i + k \in 1..Len(window)
      BY <1>1, <1>2, <1>3
    <2>2. times[k] = log[dropped + (i + k)].at
      BY <1>3, <1>5, <2>1
    <2>3. dropped + (i + k) = gone + k
      BY <1>1, <1>2, <1>4
    <2> QED
      BY <2>2, <2>3
  <1>8. \A k \in 1..gone : log[k].at + span < now
    <2> TAKE k \in 1..gone
    <2>1. CASE k <= dropped
      BY <2>1, <1>4, <1>5
    <2>2. CASE k > dropped
      <3>1. k - dropped \in 1..i /\ k - dropped \in 1..Len(window)
        BY <2>2, <1>1, <1>2, <1>4
      <3>2. window[k - dropped] = log[dropped + (k - dropped)].at
        BY <3>1, <1>5
      <3>3. dropped + (k - dropped) = k
        BY <1>4
      <3>4. window[k - dropped] < now - span
        BY <3>1, <1>2
      <3>5. window[k - dropped] \in Nat
        BY <3>1, <1>1, ElementOfSeq
      <3> QED
        BY <3>2, <3>3, <3>4, <3>5, <1>1
    <2> QED
      BY <2>1, <2>2, <1>2, <1>4
  <1>9. EndsLog(times, span)
    BY <1>7, <1>8 DEF EndsLog, OldAreGone, gone, n
  <1>10. \A k \in 1..n : log[k].at >= now - span <=> k > gone
    <2> TAKE k \in 1..n
    <2>1. CASE k <= gone
      BY <2>1, <1>1, <1>4, <1>6, <1>8
    <2>2. CASE k > gone
      <3>1. i < Len(window) /\ i + 1 \in 1..Len(window) /\ gone + 1 \in 1..n
        <4>1. dropped = n - Len(window)
          BY DEF dropped, n
        <4>2. gone + 1 \in 1..n /\ gone + 1 <= k
          BY <2>2, <1>1, <1>4
        <4>3. i \in Nat /\ Len(window) \in Nat /\ i <= Len(window)
          BY <1>1, <1>2
        <4>4. i < Len(window)
          BY <4>1, <4>2, <4>3, <1>1, <1>4
        <4> QED
          BY <4>2, <4>3, <4>4
      <3>2. window[i + 1] = log[gone + 1].at
        <4>1. window[i + 1] = log[dropped + (i + 1)].at
          BY <3>1, <1>5
        <4>2. dropped + (i + 1) = gone + 1
          BY <1>2, <1>4
        <4> QED
          BY <4>1, <4>2
      <3>3. log[gone + 1].at <= log[k].at
        <4>1. gone + 1 <= k
          BY <2>2, <1>1, <1>4
        <4>2. \A a, b \in 1..n : a <= b => log[a].at <= log[b].at
          BY <1>1 DEF LogInv
        <4> QED
          BY <3>1, <4>1, <4>2
      <3> QED
        BY <2>2, <3>1, <3>2, <3>3, <1>1, <1>2, <1>6
    <2> QED
      BY <2>1, <2>2, <1>4
  <1>11. Quota!Recent(span) = (gone + 1)..n
    BY <1>1, <1>4, <1>10 DEF Quota!Recent
  <1> QED
    BY <1>2, <1>3, <1>4, <1>9, <1>11 DEF times, gone, dropped, n

(* The request window after eviction, and how many it counts.               *)
LEMMA TimesEvicted ==
  ASSUME IInv, NEW i \in Stale(requestTimes, now - Minute), NEW times,
         times = From(requestTimes, i)
  PROVE  /\ times \in Seq(Nat)
         /\ Len(times) \in Nat /\ Len(times) <= Len(requestTimes)
         /\ EndsLog(times, Minute)
         /\ Cardinality(Quota!Recent(Minute)) = Len(times)
  <1>1. /\ requestTimes \in Seq(Nat) /\ Len(requestTimes) \in Nat
        /\ Len(log) \in Nat /\ Len(requestTimes) <= Len(log)
        /\ Minute \in Nat
    BY LenProperties, BudgetAssumption DEF IInv, BudgetType, LogInv
  <1>2. /\ i \in 0..Len(requestTimes)
        /\ EndsLog(times, Minute)
        /\ times \in Seq(Nat)
        /\ Len(times) = Len(requestTimes) - i
        /\ Quota!Recent(Minute) =
              (Len(log) - Len(requestTimes) + i + 1)..Len(log)
    BY <1>1, Evicted DEF IInv
  <1>3. Cardinality(Quota!Recent(Minute)) = Len(times)
    <2> DEFINE a == Len(log) - Len(requestTimes) + i + 1
    <2>1. a \in Int /\ Len(log) - a + 1 = Len(times)
      BY <1>1, <1>2
    <2>2. Quota!Recent(Minute) = a..Len(log)
      BY <1>2
    <2> HIDE DEF a
    <2>3. Cardinality(a..Len(log)) =
             IF a > Len(log) THEN 0 ELSE Len(log) - a + 1
      <3>1. Len(log) \in Int
        BY <1>1
      <3> QED
        BY <2>1, <3>1, FS_Interval, Zenon
    <2>4. Len(times) \in Nat
      BY <1>1, <1>2
    <2> QED
      BY <1>1, <2>1, <2>2, <2>3, <2>4
  <1> QED
    BY <1>1, <1>2, <1>3

(* A window of events gives a window of times.                              *)
LEMMA EventTimesEndLog ==
  ASSUME BudgetType, LogInv, EventsEndLog(tokenEvents)
  PROVE  /\ EventTimes \in Seq(Nat)
         /\ Len(EventTimes) = Len(tokenEvents)
         /\ EndsLog(EventTimes, Second)
  <1>1. tokenEvents \in Seq(Event) /\ Len(tokenEvents) \in Nat
    BY LenProperties DEF BudgetType
  <1>2. /\ EventTimes \in [1..Len(tokenEvents) -> Nat]
        /\ \A k \in 1..Len(tokenEvents) : EventTimes[k] = tokenEvents[k].at
    <2>1. DOMAIN tokenEvents = 1..Len(tokenEvents)
      BY <1>1, LenProperties
    <2>2. \A i \in 1..Len(tokenEvents) : tokenEvents[i].at \in Nat
      BY <1>1, Dated
    <2> QED
      BY <2>1, <2>2 DEF EventTimes
  <1>3. EventTimes \in Seq(Nat) /\ Len(EventTimes) = Len(tokenEvents)
    <2>1. EventTimes \in Seq(Nat)
      BY <1>1, <1>2, SeqDef
    <2>2. /\ Len(EventTimes) \in Nat
          /\ 1..Len(EventTimes) = 1..Len(tokenEvents)
      BY <1>2, <2>1, LenProperties
    <2> QED
      BY <1>1, <2>1, <2>2
  <1> QED
    BY <1>1, <1>2, <1>3 DEF EndsLog, EventsEndLog

(* The sizes of a list of events.                                           *)
TokensOf(events) == [i \in DOMAIN events |-> events[i].tokens]

LEMMA TokensOfLog ==
  ASSUME NEW indices
  PROVE  Quota!Tokens(indices) = SumFunctionOnSet(TokensOf(log), indices)
  <1>1. TokensOf(log) = [i \in DOMAIN log |-> log[i].tokens]
    BY Zenon DEF TokensOf
  <1>2. Quota!Tokens(indices) =
           SumFunctionOnSet([i \in DOMAIN log |-> log[i].tokens], indices)
    BY Zenon DEF Quota!Tokens, Quota!SumFunctionOnSet, SumFunctionOnSet,
                 Quota!FoldFunctionOnSet, FoldFunctionOnSet,
                 Quota!MapThenFoldSet, MapThenFoldSet
  <1> QED
    BY <1>1, <1>2, Zenon

(* The same of the log a step leaves.                                       *)
LEMMA TokensOfLogNext ==
  Quota!Tokens(DOMAIN log)' = SumFunctionOnSet(TokensOf(log'), DOMAIN log')
  <1>1. TokensOf(log') = [i \in DOMAIN log' |-> log'[i].tokens]
    BY Zenon DEF TokensOf
  <1>2. Quota!Tokens(DOMAIN log)' =
           SumFunctionOnSet([i \in DOMAIN log' |-> log'[i].tokens],
                            DOMAIN log')
    BY Zenon DEF Quota!Tokens, Quota!SumFunctionOnSet, SumFunctionOnSet,
                 Quota!FoldFunctionOnSet, FoldFunctionOnSet,
                 Quota!MapThenFoldSet, MapThenFoldSet
  <1> QED
    BY <1>1, <1>2, Zenon

(* The end of a log has the sum of its sizes.                               *)
LEMMA WindowSum ==
  ASSUME NEW s \in Seq(Event), NEW events \in Seq(Event),
         Len(events) <= Len(s),
         \A k \in 1..Len(events) : events[k] = s[Len(s) - Len(events) + k]
  PROVE  /\ SumTokens(events) =
              SumFunctionOnSet(TokensOf(s),
                               (Len(s) - Len(events) + 1)..Len(s))
         /\ SumTokens(events) \in Nat
  <1> DEFINE gone == Len(s) - Len(events)
             n == Len(events)
  <1>1. /\ n \in Nat /\ gone \in Nat /\ gone + n = Len(s)
        /\ DOMAIN events = 1..n /\ DOMAIN s = 1..Len(s)
        /\ Len(s) \in Nat
    BY LenProperties
  <1>2. \A k \in 1..n : events[k].tokens \in Nat
    BY Dated
  <1>3. \A k \in 1..n : /\ TokensOf(events)[k] = events[k].tokens
                        /\ gone + k \in 1..Len(s)
                        /\ TokensOf(s)[gone + k] = events[k].tokens
    BY <1>1 DEF TokensOf
  <1> HIDE DEF n, gone
  <1>4. SumFunctionOnSet(TokensOf(s), (gone + 1)..(gone + n)) =
           SumFunctionOnSet(TokensOf(events), 1..n)
    <2>1. \A k \in 1..n : /\ TokensOf(events)[k] \in Nat
                          /\ TokensOf(s)[gone + k] = TokensOf(events)[k]
      BY <1>2, <1>3
    <2>2. Shifted(TokensOf(events), TokensOf(s), gone, n)
      BY <1>1, <2>1 DEF Shifted
    <2> QED
      BY <2>2, SumShifted
  <1>5. SumTokens(events) = SumFunctionOnSet(TokensOf(events), 1..n)
    <2>1. DOMAIN TokensOf(events) = 1..n
      BY <1>1 DEF TokensOf
    <2> QED
      BY <2>1 DEF SumTokens, SumFunction, TokensOf
  <1>6. SumFunctionOnSet(TokensOf(events), 1..n) \in Nat
    <2>1. \A k \in 1..n : TokensOf(events)[k] \in Nat
      BY <1>2, <1>3
    <2>2. IsFiniteSet(1..n)
      BY <1>1, FS_Interval
    <2> QED
      BY <2>1, <2>2, SumType
  <1> QED
    BY <1>1, <1>4, <1>5, <1>6 DEF n, gone

(* The token window after eviction, and what it sums to.                    *)
LEMMA TokensEvicted ==
  ASSUME IInv, NEW j \in Stale(EventTimes, now - Second), NEW events,
         events = From(tokenEvents, j)
  PROVE  /\ events \in Seq(Event)
         /\ Len(events) \in Nat /\ Len(events) <= Len(tokenEvents)
         /\ EventsEndLog(events)
         /\ SumTokens(events) \in Nat
         /\ SumTokens(events) = Quota!Tokens(Quota!Recent(Second))
  <1>1. /\ tokenEvents \in Seq(Event) /\ Len(tokenEvents) \in Nat
        /\ log \in Seq(Event) /\ Len(log) \in Nat
        /\ Len(tokenEvents) <= Len(log) /\ Second \in Nat
    BY LenProperties, BudgetAssumption DEF IInv, BudgetType, LogInv
  <1>2. /\ EventTimes \in Seq(Nat)
        /\ Len(EventTimes) = Len(tokenEvents)
        /\ EndsLog(EventTimes, Second)
    BY EventTimesEndLog DEF IInv
  <1>3. /\ j \in 0..Len(tokenEvents)
        /\ EndsLog(From(EventTimes, j), Second)
        /\ Len(From(EventTimes, j)) = Len(tokenEvents) - j
        /\ Quota!Recent(Second) =
              (Len(log) - Len(tokenEvents) + j + 1)..Len(log)
    BY <1>1, <1>2, Evicted DEF IInv
  <1>4. /\ events \in Seq(Event)
        /\ Len(events) = Len(tokenEvents) - j
        /\ \A k \in 1..Len(events) : events[k] = tokenEvents[j + k]
    BY <1>1, <1>3, FromProperties
  <1>5. \A k \in 1..Len(events) :
           events[k] = log[Len(log) - Len(events) + k]
    <2> TAKE k \in 1..Len(events)
    <2>1. j + k \in 1..Len(tokenEvents)
      BY <1>1, <1>3, <1>4
    <2>2. tokenEvents[j + k] = log[Len(log) - Len(tokenEvents) + (j + k)]
      BY <2>1 DEF IInv, EventsEndLog
    <2>3. Len(log) - Len(tokenEvents) + (j + k)
             = Len(log) - Len(events) + k
      BY <1>1, <1>3, <1>4
    <2> QED
      BY <1>4, <2>2, <2>3
  <1>6. EventsEndLog(events)
    BY <1>3, <1>4, <1>5 DEF EventsEndLog, EndsLog
  <1>7. /\ SumTokens(events) =
              SumFunctionOnSet(TokensOf(log),
                               (Len(log) - Len(events) + 1)..Len(log))
        /\ SumTokens(events) \in Nat
    <2>1. Len(events) <= Len(log)
      BY <1>1, <1>3, <1>4
    <2> QED
      BY <1>1, <1>4, <1>5, <2>1, WindowSum
  <1>8. Quota!Recent(Second) = (Len(log) - Len(events) + 1)..Len(log)
    BY <1>1, <1>3, <1>4
  <1>9. SumTokens(events) = Quota!Tokens(Quota!Recent(Second))
    BY <1>7, <1>8, TokensOfLog
  <1> QED
    BY <1>1, <1>3, <1>4, <1>6, <1>7, <1>9

(* The total of a log with one more event.                                  *)
LEMMA TotalOfAppend ==
  ASSUME NEW s \in Seq(Event), NEW e \in Event
  PROVE  SumFunctionOnSet(TokensOf(Append(s, e)), DOMAIN Append(s, e)) =
            SumFunctionOnSet(TokensOf(s), DOMAIN s) + e.tokens
  <1> DEFINE n == Len(s)
             all == Append(s, e)
  <1>1. /\ n \in Nat /\ all \in Seq(Event)
        /\ DOMAIN s = 1..n /\ DOMAIN all = 1..(n + 1)
        /\ \A k \in 1..n : all[k] = s[k]
        /\ all[n + 1] = e
    BY AppendLast, LenProperties
  <1>2. \A k \in 1..n : s[k].tokens \in Nat
    BY Dated
  <1>3. e.tokens \in Nat
    BY BudgetAssumption DEF Event
  <1> HIDE DEF n, all
  <1>4. /\ \A k \in 1..n : /\ TokensOf(s)[k] = s[k].tokens
                           /\ TokensOf(all)[0 + k] = s[k].tokens
        /\ TokensOf(all)[n + 1] = e.tokens
    BY <1>1 DEF TokensOf
  <1>5. SumFunctionOnSet(TokensOf(all), (0 + 1)..(0 + n)) =
           SumFunctionOnSet(TokensOf(s), 1..n)
    <2>1. \A k \in 1..n : /\ TokensOf(s)[k] \in Nat
                          /\ TokensOf(all)[0 + k] = TokensOf(s)[k]
      BY <1>2, <1>4
    <2>2. Shifted(TokensOf(s), TokensOf(all), 0, n)
      BY <1>1, <2>1 DEF Shifted
    <2> QED
      BY <2>2, SumShifted
  <1>6. \A k \in 1..(n + 1) : TokensOf(all)[k] \in Nat
    BY <1>1, <1>2, <1>3, <1>4
  <1>7. /\ IsFiniteSet(1..(n + 1)) /\ n + 1 \in 1..(n + 1)
        /\ (1..(n + 1)) \ {n + 1} = (0 + 1)..(0 + n)
    <2>1. IsFiniteSet(1..(n + 1))
      BY <1>1, FS_Interval
    <2>2. /\ n + 1 \in 1..(n + 1)
          /\ (1..(n + 1)) \ {n + 1} = (0 + 1)..(0 + n)
      BY <1>1
    <2> QED
      BY <2>1, <2>2
  <1>8. SumFunctionOnSet(TokensOf(all), 1..(n + 1)) =
           TokensOf(all)[n + 1]
              + SumFunctionOnSet(TokensOf(all), (1..(n + 1)) \ {n + 1})
    BY <1>6, <1>7, SumWithout, Zenon
  <1>9. SumFunctionOnSet(TokensOf(s), 1..n) \in Nat
    <2>1. \A k \in 1..n : TokensOf(s)[k] \in Nat
      BY <1>2, <1>4
    <2>2. IsFiniteSet(1..n)
      BY <1>1, FS_Interval
    <2> QED
      BY <2>1, <2>2, SumType
  <1>10. SumFunctionOnSet(TokensOf(all), 1..(n + 1)) =
            SumFunctionOnSet(TokensOf(s), 1..n) + e.tokens
    <2>1. SumFunctionOnSet(TokensOf(all), (1..(n + 1)) \ {n + 1}) =
             SumFunctionOnSet(TokensOf(s), 1..n)
      BY <1>5, <1>7, Zenon
    <2> QED
      BY <1>3, <1>4, <1>8, <1>9, <2>1
  <1> QED
    BY <1>1, <1>10, Zenon DEF all

LEMMA EmptyTotal ==
  ASSUME DOMAIN log = {}
  PROVE  Quota!Tokens(DOMAIN log) = 0
  BY TokensOfLog, SumRec, FS_EmptySet

LEMMA InitIInv == BudgetInit => IInv
  <1> SUFFICES ASSUME BudgetInit PROVE IInv
    OBVIOUS
  <1>1. requestTimes = <<>> /\ tokenEvents = <<>> /\ log = <<>>
    BY DEF BudgetInit
  <1>2. \A S : <<>> \in Seq(S) /\ Len(<<>>) = 0 /\ DOMAIN <<>> = {}
    BY EmptySeq
  <1>3. BudgetType
    BY <1>1, <1>2, BudgetAssumption DEF BudgetInit, BudgetType
  <1>4. Quota!Tokens(DOMAIN log) = 0
    BY <1>1, <1>2, EmptyTotal
  <1>5. LogInv
    BY <1>1, <1>2, <1>4 DEF BudgetInit, LogInv
  <1>6. /\ EndsLog(requestTimes, Minute) /\ EventsEndLog(tokenEvents)
        /\ RequestsPerMinuteHold /\ TokensPerSecondHold
    BY <1>1, <1>2 DEF EndsLog, EventsEndLog, OldAreGone,
                      RequestsPerMinuteHold, TokensPerSecondHold
  <1> QED
    BY <1>3, <1>5, <1>6 DEF IInv

(* A refused request leaves what eviction has left.                         *)
LEMMA RefusedIInv ==
  ASSUME IInv,
         NEW i \in Stale(requestTimes, now - Minute),
         NEW j \in Stale(EventTimes, now - Second),
         requestTimes' = From(requestTimes, i),
         tokenEvents' = From(tokenEvents, j),
         verdict' \in {"none", "admitted", "refused"},
         UNCHANGED <<now, totalRequests, totalTokens, log>>
  PROVE  IInv'
  <1>1. /\ requestTimes' \in Seq(Nat)
        /\ Len(requestTimes') \in Nat /\ Len(requestTimes') <= Len(requestTimes)
        /\ EndsLog(requestTimes', Minute)
    BY TimesEvicted
  <1>2. /\ tokenEvents' \in Seq(Event)
        /\ Len(tokenEvents') \in Nat /\ Len(tokenEvents') <= Len(tokenEvents)
        /\ EventsEndLog(tokenEvents')
    BY TokensEvicted
  <1>3. BudgetType'
    <2>1. Len(requestTimes) \in Nat /\ Len(tokenEvents) \in Nat
      BY LenProperties DEF IInv, BudgetType
    <2> QED
      BY <1>1, <1>2, <2>1 DEF IInv, BudgetType, Event
  <1>4. LogInv' /\ RequestsPerMinuteHold' /\ TokensPerSecondHold'
    <2>1. Quota!Tokens(DOMAIN log)' = Quota!Tokens(DOMAIN log)
      BY DEF Quota!Tokens
    <2> QED
      BY <2>1 DEF IInv, LogInv, RequestsPerMinuteHold, TokensPerSecondHold
  <1>5. EndsLog(requestTimes, Minute)' /\ EventsEndLog(tokenEvents)'
    BY <1>1, <1>2 DEF EndsLog, EventsEndLog, OldAreGone
  <1> QED
    BY <1>3, <1>4, <1>5 DEF IInv

(* A request that fits in with those of the last second leaves every second *)
(* of the log within the cap.                                               *)
LEMMA SecondOfAppend ==
  ASSUME IInv, NEW tokens \in Sizes, now' = now,
         log' = Append(log, [at |-> now, tokens |-> tokens]),
         MaxTokensPerSecond > 0 =>
            SumFunctionOnSet(TokensOf(log), Quota!Recent(Second)) + tokens
               <= MaxTokensPerSecond
  PROVE  TokensPerSecondHold'
  <1> DEFINE n == Len(log)
             e == [at |-> now, tokens |-> tokens]
             f == TokensOf(log)
             g == TokensOf(log')
  <1> SUFFICES ASSUME MaxTokensPerSecond > 0,
                      NEW i \in DOMAIN log', NEW j \in DOMAIN log',
                      log'[j].at <= log'[i].at + Second
               PROVE  SumFunctionOnSet(g, i..j) <= MaxTokensPerSecond
    BY Zenon DEF TokensPerSecondHold, TokensOf
  <1>1. /\ now \in Nat /\ n \in Nat /\ Second \in Nat /\ tokens \in Nat
        /\ MaxTokensPerSecond \in Nat
        /\ log \in Seq(Event) /\ e \in Event /\ DOMAIN log = 1..n
    BY LenProperties, BudgetAssumption DEF IInv, BudgetType, Event
  <1>2. /\ DOMAIN log' = 1..(n + 1)
        /\ \A k \in 1..n : log'[k] = log[k]
        /\ log'[n + 1].at = now /\ log'[n + 1].tokens = tokens
    <2>1. /\ log' \in Seq(Event) /\ Len(log') = n + 1
          /\ \A k \in 1..n : log'[k] = log[k]
          /\ log'[n + 1] = e
      BY <1>1, AppendLast
    <2> QED
      BY <2>1, LenProperties
  <1>3. \A k \in 1..n : log[k].at \in Nat /\ log[k].tokens \in Nat
    BY <1>1, Dated
  <1>4. /\ \A k \in 1..n : g[k] = f[k] /\ f[k] \in Nat /\ f[k] = log[k].tokens
        /\ g[n + 1] = tokens
    BY <1>1, <1>2, <1>3 DEF TokensOf
  <1>5. \A k, l \in 1..n : k <= l => log[k].at <= log[l].at
    BY <1>1 DEF IInv, LogInv
  <1>6. i \in 1..(n + 1) /\ j \in 1..(n + 1)
    BY <1>2
  <1>7. /\ SumFunctionOnSet(f, Quota!Recent(Second)) + tokens
              <= MaxTokensPerSecond
        /\ Quota!Recent(Second) = {k \in 1..n : log[k].at >= now - Second}
    BY <1>1 DEF Quota!Recent
  <1> HIDE DEF n, e, f, g
  <1>8. ASSUME NEW k \in 1..(n + 1), NEW l \in 0..n
        PROVE  /\ SumFunctionOnSet(g, k..l) = SumFunctionOnSet(f, k..l)
               /\ SumFunctionOnSet(g, k..l) \in Nat
               /\ IsFiniteSet(k..l)
    <2>1. IsFiniteSet(k..l)
      BY <1>1, FS_Interval
    <2>2. \A x \in k..l : g[x] = f[x] /\ g[x] \in Nat
      BY <1>1, <1>4
    <2>3. SumFunctionOnSet(g, k..l) \in Nat
      BY <2>1, <2>2, SumType
    <2>4. SumFunctionOnSet(g, k..l) = SumFunctionOnSet(f, k..l)
      BY <2>1, <2>2, SumSame
    <2> QED
      BY <2>1, <2>3, <2>4
  <1>9. CASE j \in 1..n /\ i \in 1..n
    <2>1. SumFunctionOnSet(f, i..j) <= MaxTokensPerSecond
      BY <1>1, <1>2, <1>9 DEF IInv, TokensPerSecondHold, f, TokensOf
    <2> QED
      BY <1>1, <1>8, <1>9, <2>1
  <1>10. CASE j \in 1..n /\ i = n + 1
    <2>1. i..j = {}
      BY <1>1, <1>10
    <2>2. SumFunctionOnSet(g, {}) = 0
      BY SumRec, FS_EmptySet
    <2> QED
      BY <1>1, <2>1, <2>2
  <1>11. CASE j = n + 1
    <2>1. SumFunctionOnSet(g, i..j) = tokens + SumFunctionOnSet(f, i..n)
      <3>1. IsFiniteSet(i..j) /\ j \in i..j /\ (i..j) \ {j} = i..n
        <4>1. i \in Int /\ j \in Int
          BY <1>1, <1>6
        <4>2. IsFiniteSet(i..j)
          BY <4>1, FS_Interval
        <4> QED
          BY <1>1, <1>6, <1>11, <4>2
      <3>2. \A x \in i..j : g[x] \in Nat
        BY <1>1, <1>4, <1>6, <1>11
      <3>3. SumFunctionOnSet(g, i..j) =
               g[j] + SumFunctionOnSet(g, (i..j) \ {j})
        BY <3>1, <3>2, SumWithout, Zenon
      <3>4. SumFunctionOnSet(g, i..n) = SumFunctionOnSet(f, i..n)
        BY <1>1, <1>6, <1>8
      <3> QED
        BY <1>4, <1>11, <3>1, <3>3, <3>4
    <2>2. i..n \subseteq Quota!Recent(Second)
      <3> SUFFICES ASSUME NEW k \in i..n
                   PROVE  k \in 1..n /\ log[k].at >= now - Second
        BY <1>7
      <3>1. k \in 1..n /\ i \in 1..n /\ i <= k
        BY <1>1, <1>6
      <3>2. log[i].at <= log[k].at /\ now <= log[i].at + Second
        BY <1>2, <1>5, <1>11, <3>1
      <3> QED
        BY <1>1, <1>3, <3>1, <3>2
    <2>3. /\ IsFiniteSet(Quota!Recent(Second))
          /\ \A x \in Quota!Recent(Second) : f[x] \in Nat
      <3>1. IsFiniteSet(1..n)
        BY <1>1, FS_Interval
      <3>2. Quota!Recent(Second) \subseteq 1..n
        BY <1>7
      <3> QED
        BY <1>4, <3>1, <3>2, FS_Subset
    <2>4. SumFunctionOnSet(f, i..n)
             <= SumFunctionOnSet(f, Quota!Recent(Second))
      BY <2>2, <2>3, SumOfPart
    <2>5. SumFunctionOnSet(f, i..n) \in Nat
      BY <1>1, <1>6, <1>8
    <2>6. SumFunctionOnSet(f, Quota!Recent(Second)) \in Nat
      BY <2>3, SumType
    <2> QED
      BY <1>1, <1>7, <2>1, <2>4, <2>5, <2>6
  <1>12. /\ j \in 1..n \/ j = n + 1
         /\ i \in 1..n \/ i = n + 1
    BY <1>1, <1>6
  <1> QED
    BY <1>9, <1>10, <1>11, <1>12

(* An admitted request is put at the end of the log and of both windows; it *)
(* was admitted because the window had room, so the event a full cap before *)
(* it is one of those dropped.                                              *)
LEMMA AdmittedIInv ==
  ASSUME IInv, NEW tokens \in Sizes,
         NEW i \in Stale(requestTimes, now - Minute),
         NEW j \in Stale(EventTimes, now - Second),
         MaxRequestsPerMinute > 0 =>
            ~(Len(From(requestTimes, i)) >= MaxRequestsPerMinute),
         MaxTokensPerSecond > 0 =>
            ~(SumTokens(From(tokenEvents, j)) + tokens > MaxTokensPerSecond),
         requestTimes' = Append(From(requestTimes, i), now),
         tokenEvents' =
            Append(From(tokenEvents, j), [at |-> now, tokens |-> tokens]),
         totalRequests' = totalRequests + 1,
         totalTokens' = totalTokens + tokens,
         log' = Append(log, [at |-> now, tokens |-> tokens]),
         verdict' = "admitted",
         now' = now
  PROVE  IInv'
  <1> DEFINE times == From(requestTimes, i)
             events == From(tokenEvents, j)
             event == [at |-> now, tokens |-> tokens]
             n == Len(log)
             gone == n - Len(times)
  <1>1. /\ now \in Nat /\ n \in Nat /\ Minute \in Nat /\ tokens \in Nat
        /\ MaxRequestsPerMinute \in Nat
        /\ Len(requestTimes) \in Nat /\ Len(requestTimes) <= n
        /\ log \in Seq(Event) /\ event \in Event /\ event.at = now
    BY LenProperties, BudgetAssumption DEF IInv, BudgetType, LogInv, Event
  <1>2. /\ times \in Seq(Nat)
        /\ Len(times) \in Nat /\ Len(times) <= Len(requestTimes)
        /\ EndsLog(times, Minute)
    BY TimesEvicted
  <1>3. /\ events \in Seq(Event)
        /\ Len(events) \in Nat /\ Len(events) <= Len(tokenEvents)
        /\ EventsEndLog(events)
    BY TokensEvicted
  <1>14. /\ MaxTokensPerSecond > 0 => SumTokens(events) + tokens
                                         <= MaxTokensPerSecond
         /\ SumTokens(events) =
               SumFunctionOnSet(TokensOf(log), Quota!Recent(Second))
    <2>1. /\ SumTokens(events) = Quota!Tokens(Quota!Recent(Second))
          /\ SumTokens(events) \in Nat
      BY TokensEvicted
    <2>2. tokens \in Nat /\ MaxTokensPerSecond \in Nat
      BY BudgetAssumption
    <2> HIDE DEF events
    <2>3. MaxTokensPerSecond > 0 =>
             ~(SumTokens(events) + tokens > MaxTokensPerSecond)
      BY DEF events
    <2> QED
      BY <2>1, <2>2, <2>3, TokensOfLog
  <1>4. /\ \A k \in 1..Len(times) : times[k] = log[gone + k].at
        /\ \A k \in 1..gone : log[k].at + Minute < now
    BY <1>2 DEF EndsLog, OldAreGone
  <1>5. /\ log' \in Seq(Event) /\ Len(log') = n + 1
        /\ DOMAIN log' = 1..(n + 1) /\ DOMAIN log = 1..n
        /\ \A k \in 1..n : log'[k] = log[k]
        /\ log'[n + 1] = event /\ log'[n + 1].at = now
    BY <1>1, AppendLast, LenProperties
  <1>6. /\ requestTimes' \in Seq(Nat) /\ Len(requestTimes') = Len(times) + 1
        /\ \A k \in 1..Len(times) : requestTimes'[k] = times[k]
        /\ requestTimes'[Len(times) + 1] = now
    BY <1>1, <1>2, AppendLast
  <1>7. /\ tokenEvents' \in Seq(Event) /\ Len(tokenEvents') = Len(events) + 1
        /\ \A k \in 1..Len(events) : tokenEvents'[k] = events[k]
        /\ tokenEvents'[Len(events) + 1] = event
    BY <1>1, <1>3, AppendLast
  <1> HIDE DEF times, events, event, n, gone
  <1>8. BudgetType'
    <2>1. Len(tokenEvents) \in Nat
      BY LenProperties DEF IInv, BudgetType
    <2>2. /\ totalRequests \in Nat /\ totalTokens \in Nat
          /\ Len(requestTimes) <= totalRequests
          /\ Len(tokenEvents) <= totalRequests
      BY DEF IInv, BudgetType
    <2>3. totalRequests' \in Nat /\ totalTokens' \in Nat
      BY <1>1, <2>2
    <2>4. Len(requestTimes') <= totalRequests'
      BY <1>1, <1>2, <1>6, <2>2
    <2>5. Len(tokenEvents') <= totalRequests'
      BY <1>3, <1>7, <2>1, <2>2
    <2> QED
      BY <1>5, <1>6, <1>7, <2>3, <2>4, <2>5 DEF IInv, BudgetType, Event
  <1>9. LogInv'
    <2>1. /\ totalRequests = n
          /\ \A k \in 1..n : log[k].at <= now
          /\ \A k, l \in 1..n : k <= l => log[k].at <= log[l].at
      BY <1>5 DEF IInv, LogInv, n
    <2>2. totalRequests' = Len(log')
      BY <1>5, <2>1
    <2>5. totalTokens' = Quota!Tokens(DOMAIN log)'
      <3>1. totalTokens' = Quota!Tokens(DOMAIN log) + tokens
        BY DEF IInv, LogInv
      <3>2. Quota!Tokens(DOMAIN log) =
               SumFunctionOnSet(TokensOf(log), DOMAIN log)
        BY TokensOfLog
      <3>3. Quota!Tokens(DOMAIN log)' =
               SumFunctionOnSet(TokensOf(log'), DOMAIN log')
        BY TokensOfLogNext
      <3>4. log' = Append(log, event) /\ event.tokens = tokens
        BY DEF event
      <3>5. SumFunctionOnSet(TokensOf(log'), DOMAIN log') =
               SumFunctionOnSet(TokensOf(log), DOMAIN log) + tokens
        BY <1>1, <3>4, TotalOfAppend
      <3> QED
        BY <3>1, <3>2, <3>3, <3>5
    <2>3. \A k \in DOMAIN log' : log'[k].at <= now'
      BY <1>1, <1>5, <2>1
    <2>4. \A k, l \in DOMAIN log' : k <= l => log'[k].at <= log'[l].at
      BY <1>1, <1>5, <2>1
    <2> QED
      BY <2>2, <2>3, <2>4, <2>5 DEF LogInv
  <1>10. gone \in Nat /\ gone + Len(times) = n
    BY <1>1, <1>2 DEF gone
  <1>11. EndsLog(requestTimes, Minute)'
    <2>1. Len(log') - Len(requestTimes') = gone
      BY <1>1, <1>2, <1>5, <1>6, <1>10
    <2>2. \A k \in 1..Len(requestTimes') : requestTimes'[k] = log'[gone + k].at
      <3> TAKE k \in 1..Len(requestTimes')
      <3>1. CASE k \in 1..Len(times)
        <4>1. gone + k \in 1..n
          BY <3>1, <1>2, <1>10, <1>1
        <4> QED
          BY <3>1, <4>1, <1>4, <1>5, <1>6
      <3>2. CASE k = Len(times) + 1
        BY <3>2, <1>2, <1>5, <1>6, <1>10
      <3>3. k \in 1..Len(times) \/ k = Len(times) + 1
        BY <1>2, <1>6, SMTT(60)
      <3> QED
        BY <3>1, <3>2, <3>3
    <2>3. \A k \in 1..gone : log'[k].at + Minute < now'
      BY <1>1, <1>2, <1>4, <1>5, <1>10
    <2> QED
      BY <2>1, <2>2, <2>3 DEF EndsLog, OldAreGone
  <1>12. RequestsPerMinuteHold'
    <2> SUFFICES ASSUME MaxRequestsPerMinute > 0, NEW k \in 1..(n + 1),
                        k + MaxRequestsPerMinute <= n + 1
                 PROVE  log'[k + MaxRequestsPerMinute].at
                           > log'[k].at + Minute
      BY <1>5 DEF RequestsPerMinuteHold
    <2>1. CASE k + MaxRequestsPerMinute <= n
      <3>1. k \in 1..n /\ k + MaxRequestsPerMinute \in 1..n
        BY <2>1, <1>1
      <3>2. log[k + MaxRequestsPerMinute].at > log[k].at + Minute
        BY <2>1, <3>1, <1>5 DEF IInv, RequestsPerMinuteHold, n
      <3> QED
        BY <3>1, <3>2, <1>5
    <2>2. CASE k + MaxRequestsPerMinute = n + 1
      <3>1. Len(times) < MaxRequestsPerMinute
        BY <1>1, <1>2 DEF times
      <3>2. k \in 1..gone /\ k \in 1..n
        <4>1. /\ n \in Nat /\ gone \in Nat /\ Len(times) \in Nat
              /\ MaxRequestsPerMinute \in Nat
          BY <1>1, <1>2, <1>10
        <4>2. k <= gone /\ gone <= n
          BY <2>2, <3>1, <4>1, <1>10
        <4> QED
          BY <4>1, <4>2
      <3>3. log'[k].at + Minute < now /\ log'[k].at \in Nat
        BY <3>2, <1>1, <1>4, <1>5, Dated DEF n
      <3> QED
        BY <2>2, <3>3, <1>1, <1>5
    <2>3. \/ k + MaxRequestsPerMinute <= n
          \/ k + MaxRequestsPerMinute = n + 1
      BY <1>1
    <2> QED
      BY <2>1, <2>2, <2>3
  <1>13. EventsEndLog(tokenEvents)'
    <2> DEFINE old == n - Len(events)
    <2>1. old \in Nat /\ old + Len(events) = n
      <3>1. Len(tokenEvents) \in Nat /\ Len(tokenEvents) <= n
        BY LenProperties DEF IInv, BudgetType, LogInv, n
      <3> QED
        BY <1>1, <1>3, <3>1
    <2>2. /\ \A k \in 1..Len(events) : events[k] = log[old + k]
          /\ \A k \in 1..old : log[k].at + Second < now
      BY <1>3 DEF EventsEndLog, OldAreGone, n
    <2> HIDE DEF old
    <2>3. Len(log') - Len(tokenEvents') = old
      BY <1>1, <1>3, <1>5, <1>7, <2>1, SMTT(60)
    <2>4. \A k \in 1..Len(tokenEvents') : tokenEvents'[k] = log'[old + k]
      <3> TAKE k \in 1..Len(tokenEvents')
      <3>1. CASE k \in 1..Len(events)
        <4>1. old + k \in 1..n
          BY <3>1, <1>1, <1>3, <2>1
        <4> QED
          BY <3>1, <4>1, <1>5, <1>7, <2>2
      <3>2. CASE k = Len(events) + 1
        BY <3>2, <1>3, <1>5, <1>7, <2>1, SMTT(60)
      <3>3. k \in 1..Len(events) \/ k = Len(events) + 1
        BY <1>3, <1>7
      <3> QED
        BY <3>1, <3>2, <3>3
    <2>5. \A k \in 1..old : log'[k].at + Second < now'
      BY <1>1, <1>3, <1>5, <2>1, <2>2
    <2> QED
      BY <2>3, <2>4, <2>5 DEF EventsEndLog, OldAreGone
  <1>15. TokensPerSecondHold'
    BY <1>1, <1>5, <1>14, SecondOfAppend DEF IInv, event
  <1> QED
    BY <1>8, <1>9, <1>11, <1>12, <1>13, <1>15 DEF IInv

LEMMA CheckIInv ==
  ASSUME IInv, NEW tokens \in Sizes, Check(tokens)
  PROVE  IInv'
  <1>1. PICK i \in Stale(requestTimes, now - Minute),
             j \in Stale(EventTimes, now - Second) :
           LET times  == From(requestTimes, i)
               events == From(tokenEvents, j)
           IN  \/ /\ Refused(times, events, tokens)
                  /\ requestTimes' = times /\ tokenEvents' = events
                  /\ verdict' = "refused"
                  /\ UNCHANGED <<totalRequests, totalTokens, log>>
               \/ /\ ~Refused(times, events, tokens)
                  /\ requestTimes' = Append(times, now)
                  /\ tokenEvents' =
                        Append(events, [at |-> now, tokens |-> tokens])
                  /\ totalRequests' = totalRequests + 1
                  /\ totalTokens' = totalTokens + tokens
                  /\ log' = Append(log, [at |-> now, tokens |-> tokens])
                  /\ verdict' = "admitted"
    BY DEF Check
  <1>2. now' = now
    BY DEF Check
  <1>3. CASE Refused(From(requestTimes, i), From(tokenEvents, j), tokens)
    BY <1>1, <1>2, <1>3, RefusedIInv
  <1>4. CASE ~Refused(From(requestTimes, i), From(tokenEvents, j), tokens)
    <2>1. /\ MaxRequestsPerMinute > 0 =>
                ~(Len(From(requestTimes, i)) >= MaxRequestsPerMinute)
          /\ MaxTokensPerSecond > 0 =>
                ~(SumTokens(From(tokenEvents, j)) + tokens
                     > MaxTokensPerSecond)
      BY <1>4 DEF Refused
    <2> QED
      BY <1>1, <1>2, <1>4, <2>1, AdmittedIInv
  <1> QED
    BY <1>3, <1>4

LEMMA UsageIInv ==
  ASSUME IInv, Usage
  PROVE  IInv'
  <1>1. PICK i \in Stale(requestTimes, now - Minute) :
           requestTimes' = From(requestTimes, i)
    BY DEF Usage, EvictLocked
  <1>2. PICK j \in Stale(EventTimes, now - Second) :
           tokenEvents' = From(tokenEvents, j)
    BY DEF Usage, EvictLocked
  <1>3. /\ UNCHANGED <<now, totalRequests, totalTokens, log>>
        /\ verdict' \in {"none", "admitted", "refused"}
    BY DEF Usage, IInv, BudgetType
  <1> QED
    BY <1>1, <1>2, <1>3, RefusedIInv

LEMMA ResetIInv ==
  ASSUME IInv, ResetBudget
  PROVE  IInv'
  <1>1. \A S : <<>> \in Seq(S) /\ Len(<<>>) = 0 /\ DOMAIN <<>> = {}
    BY EmptySeq
  <1>2. BudgetType'
    BY <1>1 DEF IInv, BudgetType, ResetBudget, Event
  <1>3. /\ EndsLog(requestTimes, Minute)' /\ EventsEndLog(tokenEvents)'
        /\ RequestsPerMinuteHold' /\ TokensPerSecondHold'
    BY <1>1 DEF ResetBudget, EndsLog, EventsEndLog, OldAreGone,
                RequestsPerMinuteHold, TokensPerSecondHold
  <1>4. Quota!Tokens(DOMAIN log)' = 0
    <2>1. DOMAIN log' = {}
      BY <1>1 DEF ResetBudget
    <2> QED
      BY <2>1, TokensOfLogNext, SumRec, FS_EmptySet
  <1>5. LogInv'
    BY <1>1, <1>4 DEF ResetBudget, LogInv
  <1> QED
    BY <1>2, <1>3, <1>5 DEF IInv

LEMMA TickIInv ==
  ASSUME IInv, BudgetTick
  PROVE  IInv'
  <1>1. /\ now \in Nat /\ now' = now + 1 /\ now' \in 0..Horizon
        /\ Minute \in Nat /\ log \in Seq(Event)
        /\ Len(requestTimes) \in Nat /\ Len(log) \in Nat
        /\ Len(requestTimes) <= Len(log)
    BY LenProperties, BudgetAssumption DEF IInv, BudgetType, LogInv, BudgetTick
  <1>2. \A i \in 1..Len(log) : log[i].at \in Nat
    BY <1>1, Dated
  <1>3. BudgetType'
    BY <1>1 DEF IInv, BudgetType, BudgetTick, windows, Event
  <1>4. DOMAIN log = 1..Len(log)
    BY <1>1, LenProperties
  <1>5. LogInv'
    <2>1. Quota!Tokens(DOMAIN log)' = Quota!Tokens(DOMAIN log)
      BY DEF Quota!Tokens, BudgetTick
    <2> QED
      BY <1>1, <1>2, <1>4, <2>1 DEF IInv, LogInv, BudgetTick, windows
  <1>6. EndsLog(requestTimes, Minute)' /\ EventsEndLog(tokenEvents)'
    <2>1. ASSUME NEW kept \in Nat, NEW span \in Nat, kept <= Len(log),
                 OldAreGone(kept, span)
          PROVE  \A i \in 1..(Len(log) - kept) : log[i].at + span < now'
      BY <1>1, <1>2, <2>1 DEF OldAreGone
    <2>2. /\ OldAreGone(Len(requestTimes), Minute)
          /\ OldAreGone(Len(tokenEvents), Second)
      BY DEF IInv, EndsLog, EventsEndLog
    <2>3. /\ Second \in Nat
          /\ Len(tokenEvents) \in Nat /\ Len(tokenEvents) <= Len(log)
      BY LenProperties, BudgetAssumption DEF IInv, BudgetType, LogInv
    <2> QED
      BY <1>1, <2>1, <2>2, <2>3
         DEF IInv, EndsLog, EventsEndLog, OldAreGone, BudgetTick, windows
  <1>7. RequestsPerMinuteHold' /\ TokensPerSecondHold'
    BY DEF IInv, RequestsPerMinuteHold, TokensPerSecondHold, BudgetTick
  <1> QED
    BY <1>3, <1>5, <1>6, <1>7 DEF IInv

LEMMA NextIInv == IInv /\ [BudgetNext]_budgetVars => IInv'
  <1> SUFFICES ASSUME IInv, [BudgetNext]_budgetVars PROVE IInv'
    OBVIOUS
  <1>1. ASSUME NEW tokens \in Sizes, Check(tokens) PROVE IInv'
    BY <1>1, CheckIInv
  <1>2. CASE Usage
    BY <1>2, UsageIInv
  <1>3. CASE ResetBudget
    BY <1>3, ResetIInv
  <1>4. CASE BudgetTick
    BY <1>4, TickIInv
  <1>5. CASE UNCHANGED budgetVars
    BY <1>5 DEF IInv, BudgetType, LogInv, EndsLog, EventsEndLog, OldAreGone,
                RequestsPerMinuteHold, TokensPerSecondHold, budgetVars, windows, Event, Quota!Tokens
  <1> QED
    BY <1>1, <1>2, <1>3, <1>4, <1>5 DEF BudgetNext

(* The invariant: types, a log in time order, a window that ends it, and    *)
(* the request cap.                                                         *)
THEOREM Inductive == BudgetSpec => []IInv
  BY InitIInv, NextIInv, PTL DEF BudgetSpec

(* The windows and totals stay in range for all caps, windows and sizes;    *)
(* neither window holds more than has been admitted.                        *)
THEOREM TypeCorrect == BudgetSpec => []BudgetType
  <1>1. IInv => BudgetType
    BY DEF IInv
  <1> QED
    BY <1>1, Inductive, PTL

(* For every cap, and for every pair of requests a cap apart, however far   *)
(* back: they were admitted more than a minute apart.  Budget forgets       *)
(* requests as they age; this says that it never forgets one too early.     *)
THEOREM RequestCapHolds == BudgetSpec => []RequestsPerMinuteHold
  <1>1. IInv => RequestsPerMinuteHold
    BY DEF IInv
  <1> QED
    BY <1>1, Inductive, PTL

(* The same of tokens, for every cap and every two requests a second apart  *)
(* at most: with those between them they come to no more than the cap.      *)
THEOREM TokenCapHolds == BudgetSpec => []TokensPerSecondHold
  <1>1. IInv => TokensPerSecondHold
    BY DEF IInv
  <1> QED
    BY <1>1, Inductive, PTL

-----------------------------------------------------------------------------
(* Counted over the whole log, a request is within the caps exactly when    *)
(* the windows that eviction leaves do not refuse it.                       *)
LEMMA WindowsDecide ==
  ASSUME IInv, NEW tokens \in Sizes,
         NEW i \in Stale(requestTimes, now - Minute),
         NEW j \in Stale(EventTimes, now - Second)
  PROVE  Refused(From(requestTimes, i), From(tokenEvents, j), tokens)
            <=> ~Quota!WithinCaps(tokens)
  <1> DEFINE times == From(requestTimes, i)
             events == From(tokenEvents, j)
  <1>1. Cardinality(Quota!Recent(Minute)) = Len(times) /\ Len(times) \in Nat
    BY TimesEvicted
  <1>2. /\ SumTokens(events) = Quota!Tokens(Quota!Recent(Second))
        /\ SumTokens(events) \in Nat
    BY TokensEvicted
  <1>3. /\ totalRequests = Len(log) /\ totalRequests \in Nat
        /\ totalTokens = Quota!Tokens(DOMAIN log) /\ totalTokens \in Nat
    BY DEF IInv, LogInv, BudgetType
  <1>4. /\ {MaxRequestsPerMinute, MaxTokensPerSecond, MaxTotalRequests,
            MaxTotalTokens} \subseteq Nat
        /\ tokens \in Nat
    BY BudgetAssumption
  <1> HIDE DEF times, events
  <1>5. Refused(times, events, tokens) <=> ~Quota!WithinCaps(tokens)
    <2>1. (MaxTotalRequests > 0 /\ totalRequests >= MaxTotalRequests)
             <=> ~Quota!Below(MaxTotalRequests, Len(log) + 1)
      BY <1>3, <1>4 DEF Quota!Below
    <2>2. (MaxTotalTokens > 0 /\ totalTokens + tokens > MaxTotalTokens)
             <=> ~Quota!Below(MaxTotalTokens,
                              Quota!Tokens(DOMAIN log) + tokens)
      BY <1>3, <1>4 DEF Quota!Below
    <2>3. (MaxRequestsPerMinute > 0 /\ Len(times) >= MaxRequestsPerMinute)
             <=> ~Quota!Below(MaxRequestsPerMinute,
                              Cardinality(Quota!Recent(Minute)) + 1)
      BY <1>1, <1>4 DEF Quota!Below
    <2>4. (/\ MaxTokensPerSecond > 0
           /\ SumTokens(events) + tokens > MaxTokensPerSecond)
             <=> ~Quota!Below(MaxTokensPerSecond,
                              Quota!Tokens(Quota!Recent(Second)) + tokens)
      BY <1>2, <1>4 DEF Quota!Below
    <2>5. Quota!Cardinality(Quota!Recent(Minute)) =
             Cardinality(Quota!Recent(Minute))
      BY Zenon DEF Cardinality, Quota!Cardinality
    <2> QED
      BY <2>1, <2>2, <2>3, <2>4, <2>5, Zenon DEF Refused, Quota!WithinCaps
  <1> QED
    BY <1>5 DEF times, events

(* A check is a request of the gate.                                        *)
LEMMA CheckRequests ==
  ASSUME IInv, NEW tokens \in Sizes, Check(tokens)
  PROVE  Quota!Request(tokens)
  <1>1. PICK i \in Stale(requestTimes, now - Minute),
             j \in Stale(EventTimes, now - Second) :
           \/ /\ Refused(From(requestTimes, i), From(tokenEvents, j), tokens)
              /\ verdict' = "refused"
              /\ UNCHANGED log
           \/ /\ ~Refused(From(requestTimes, i), From(tokenEvents, j), tokens)
              /\ log' = Append(log, [at |-> now, tokens |-> tokens])
              /\ verdict' = "admitted"
    BY DEF Check
  <1>2. UNCHANGED now
    BY DEF Check
  <1>3. Refused(From(requestTimes, i), From(tokenEvents, j), tokens)
           <=> ~Quota!WithinCaps(tokens)
    BY WindowsDecide
  <1> QED
    BY <1>1, <1>2, <1>3 DEF Quota!Request

(* Each step of Budget is one of the gate, or invisible to it.              *)
LEMMA StepOfQuota ==
  ASSUME IInv, [BudgetNext]_budgetVars
  PROVE  [Quota!QuotaNext]_(Quota!quotaVars)
  <1>1. ASSUME NEW tokens \in Sizes, Check(tokens) PROVE Quota!QuotaNext
    BY <1>1, CheckRequests DEF Quota!QuotaNext
  <1>2. CASE Usage
    BY <1>2 DEF Usage, Quota!quotaVars
  <1>3. CASE ResetBudget
    BY <1>3 DEF ResetBudget, Quota!Forget, Quota!QuotaNext
  <1>4. CASE BudgetTick
    BY <1>4 DEF BudgetTick, windows, Quota!TimePasses, Quota!QuotaNext
  <1>5. CASE UNCHANGED budgetVars
    BY <1>5 DEF budgetVars, Quota!quotaVars
  <1> QED
    BY <1>1, <1>2, <1>3, <1>4, <1>5 DEF BudgetNext

(* Budget implements QuotaGate: for all caps, window lengths and sizes it   *)
(* admits and refuses exactly what the whole history says, although it      *)
(* keeps only two windows of it, and evicts, reports and resets them.       *)
THEOREM WindowsDecideAsHistory == BudgetSpec => ImplementsQuota
  <1>1. BudgetInit => Quota!QuotaInit
    BY DEF BudgetInit, Quota!QuotaInit
  <1> QED
    BY <1>1, StepOfQuota, Inductive, PTL
       DEF BudgetSpec, ImplementsQuota, Quota!QuotaSpec

-----------------------------------------------------------------------------

(* Any text, those that are spelled out below among them.                   *)
Text == STRING \cup {"", "url", "default url", "jev-latest"}

(* The settings of a client while its options are applied.                  *)
Settings ==
    [key : Text, url : Text, model : Text, timeout : Int, http : Int,
     retries : Int, headers : SUBSET Text, interceptors : Seq(STRING),
     idHeader : Text, generates : BOOLEAN, refused : BOOLEAN]

(* What an option that is not refused changes, and what it leaves.          *)
Applied(c, opt, a) ==
    /\ a.key = IF opt[1] = "key" THEN opt[2] ELSE c.key
    /\ a.url = IF opt[1] = "url" THEN "url" ELSE c.url
    /\ a.model = IF opt[1] = "model" THEN opt[2] ELSE c.model
    /\ a.timeout = IF opt[1] = "timeout" THEN opt[2] ELSE c.timeout
    /\ a.http = IF opt[1] = "http" THEN opt[2] ELSE c.http
    /\ a.retries = IF opt[1] \in {"retries", "policy"} THEN opt[2] ELSE c.retries
    /\ a.interceptors = IF opt[1] = "interceptor" THEN c.interceptors \o opt[2]
                        ELSE c.interceptors

(* The kinds of options.                                                    *)
LEMMA OptionKinds ==
  ASSUME NEW opt \in OptionValues
  PROVE  /\ opt = <<opt[1], opt[2]>>
         /\ opt[1] \in {"key", "url", "model", "header", "timeout", "retries",
                        "policy", "http", "interceptor", "id"}
         /\ opt[1] \in {"key", "url", "model", "header"} => opt[2] \in STRING
         /\ opt[1] \in {"timeout", "retries", "policy"} => opt[2] \in Int
         /\ opt[1] = "http" => opt[2] \in Nat
         /\ opt[1] = "interceptor" => opt[2] \in Seq(STRING)
         /\ opt[1] = "id" => opt[2] \in Seq(STRING) /\ Len(opt[2]) <= 1
  BY DEF OptionValues

(* options.go: an option refuses, once and for all, or sets what is its.    *)
LEMMA AppliedIs ==
  ASSUME NEW c \in Settings, NEW opt \in OptionValues,
         NEW a, a = Setup!Apply(c, opt)
  PROVE  /\ a \in Settings
         /\ a.refused <=> c.refused \/ Setup!Refuses(opt)
         /\ ~a.refused => Applied(c, opt, a)
  <1> DEFINE v == opt[2]
             kind == opt[1]
  <1>1. CASE c.refused \/ Setup!Refuses(opt)
    <2>1. a = [c EXCEPT !.refused = TRUE]
      BY <1>1 DEF Setup!Apply
    <2> QED
      BY <1>1, <2>1 DEF Settings
  <1>2. CASE ~(c.refused \/ Setup!Refuses(opt))
    <2>1. /\ kind \in {"key", "url", "model", "header", "timeout", "retries",
                       "policy", "http", "interceptor", "id"}
          /\ kind \in {"key", "url", "model", "header"} => v \in Text
          /\ kind \in {"timeout", "retries", "policy"} => v \in Int
          /\ kind = "http" => v \in Nat
          /\ kind = "interceptor" => v \in Seq(STRING)
          /\ kind = "id" => v \in Seq(STRING) /\ Len(v) <= 1
      BY OptionKinds DEF Text
    <2>2. c.refused = FALSE
      BY <1>2 DEF Settings
    <2> HIDE DEF kind, v
    <2>3. a = CASE kind = "key" -> [c EXCEPT !.key = v]
               [] kind = "url" -> [c EXCEPT !.url = "url"]
               [] kind = "model" -> [c EXCEPT !.model = v]
               [] kind = "timeout" -> [c EXCEPT !.timeout = v]
               [] kind = "http" -> [c EXCEPT !.http = v]
               [] kind \in {"retries", "policy"} -> [c EXCEPT !.retries = v]
               [] kind = "header" -> [c EXCEPT !.headers = @ \cup {v}]
               [] kind = "interceptor" -> [c EXCEPT !.interceptors = @ \o v]
               [] kind = "id" -> [c EXCEPT !.generates = TRUE,
                      !.idHeader = IF v = <<>> THEN @ ELSE v[1]]
      BY <1>2 DEF Setup!Apply, kind, v
    <2>4. Applied(c, opt, a) <=>
            /\ a.key = IF kind = "key" THEN v ELSE c.key
            /\ a.url = IF kind = "url" THEN "url" ELSE c.url
            /\ a.model = IF kind = "model" THEN v ELSE c.model
            /\ a.timeout = IF kind = "timeout" THEN v ELSE c.timeout
            /\ a.http = IF kind = "http" THEN v ELSE c.http
            /\ a.retries = IF kind \in {"retries", "policy"} THEN v ELSE c.retries
            /\ a.interceptors = IF kind = "interceptor" THEN c.interceptors \o v
                                ELSE c.interceptors
      BY DEF Applied, kind, v
    <2>5. CASE kind = "key"
      <3>1. a = [c EXCEPT !.key = v]
        BY <2>3, <2>5
      <3> QED
        BY <1>2, <2>1, <2>2, <2>4, <2>5, <3>1 DEF Settings
    <2>6. CASE kind = "url"
      <3>1. a = [c EXCEPT !.url = "url"]
        BY <2>3, <2>6
      <3>2. "url" \in Text
        BY DEF Text
      <3> QED
        BY <1>2, <2>1, <2>2, <2>4, <2>6, <3>1, <3>2 DEF Settings
    <2>7. CASE kind = "model"
      <3>1. a = [c EXCEPT !.model = v]
        BY <2>3, <2>7
      <3> QED
        BY <1>2, <2>1, <2>2, <2>4, <2>7, <3>1 DEF Settings
    <2>8. CASE kind = "timeout"
      <3>1. a = [c EXCEPT !.timeout = v]
        BY <2>3, <2>8
      <3> QED
        BY <1>2, <2>1, <2>2, <2>4, <2>8, <3>1 DEF Settings
    <2>9. CASE kind = "http"
      <3>1. a = [c EXCEPT !.http = v]
        BY <2>3, <2>9
      <3> QED
        BY <1>2, <2>1, <2>2, <2>4, <2>9, <3>1 DEF Settings
    <2>10. CASE kind \in {"retries", "policy"}
      <3>1. a = [c EXCEPT !.retries = v]
        BY <2>3, <2>10
      <3> QED
        BY <1>2, <2>1, <2>2, <2>4, <2>10, <3>1 DEF Settings
    <2>11. CASE kind = "header"
      <3>1. a = [c EXCEPT !.headers = c.headers \cup {v}]
        BY <2>3, <2>11
      <3> QED
        BY <1>2, <2>1, <2>2, <2>4, <2>11, <3>1 DEF Settings
    <2>12. CASE kind = "interceptor"
      <3>1. c.interceptors \o v \in Seq(STRING)
        BY <2>1, <2>12 DEF Settings
      <3>2. a = [c EXCEPT !.interceptors = c.interceptors \o v]
        BY <2>3, <2>12
      <3> QED
        BY <1>2, <2>1, <2>2, <2>4, <2>12, <3>1, <3>2 DEF Settings
    <2>13. CASE kind = "id"
      <3> DEFINE name == IF v = <<>> THEN c.idHeader ELSE v[1]
      <3>1. name \in Text
        <4>1. v # <<>> => v[1] \in STRING
          BY <2>1, <2>13
        <4>2. c.idHeader \in Text /\ \A t \in STRING : t \in Text
          BY DEF Settings, Text
        <4> QED
          BY <4>1, <4>2
      <3>2. a = [c EXCEPT !.generates = TRUE, !.idHeader = name]
        BY <2>3, <2>13
      <3> HIDE DEF name
      <3> QED
        BY <1>2, <2>1, <2>2, <2>4, <2>13, <3>1, <3>2 DEF Settings
    <2> QED
      BY <1>2, <2>1, <2>5, <2>6, <2>7, <2>8, <2>9, <2>10, <2>11, <2>12, <2>13
  <1> QED
    BY <1>1, <1>2

-----------------------------------------------------------------------------
(* client.go New: the variables it reads; an unset one is the empty text.   *)
Environment == [key : STRING, url : STRING, model : STRING]

(* The first of a text and one that is not blank.                           *)
LEMMA FirstNonEmptyIs ==
  ASSUME NEW s, NEW t, ~Setup!Blank(t)
  PROVE  Setup!FirstNonEmpty(<<s, t>>) = IF Setup!Blank(s) THEN t ELSE s
  <1> DEFINE said == {i \in DOMAIN <<s, t>> : ~Setup!Blank(<<s, t>>[i])}
  <1>1. said = {i \in 1..2 : ~Setup!Blank(<<s, t>>[i])}
    OBVIOUS
  <1>2. 2 \in said /\ said \subseteq 1..2 /\ (1 \in said <=> ~Setup!Blank(s))
    BY <1>1
  <1>3. Setup!FirstNonEmpty(<<s, t>>) =
          IF said = {} THEN "" ELSE <<s, t>>[Setup!Min(said)]
    BY DEF Setup!FirstNonEmpty
  <1>4. Setup!Min(said) = Min(said)
    BY DEF Setup!Min, Min
  <1> HIDE DEF said
  <1>5. Min(said) \in said /\ \A x \in said : Min(said) <= x
    BY <1>2, MinIs
  <1>6. said # {} /\ Setup!FirstNonEmpty(<<s, t>>) = <<s, t>>[Min(said)]
    BY <1>2, <1>3, <1>4
  <1>7. CASE Setup!Blank(s)
    <2>1. Min(said) \in 1..2 /\ Min(said) # 1
      BY <1>2, <1>5, <1>7
    <2>2. Min(said) = 2
      BY <2>1
    <2> QED
      BY <1>6, <1>7, <2>2
  <1>8. CASE ~Setup!Blank(s)
    <2>1. Min(said) \in 1..2 /\ Min(said) <= 1
      BY <1>2, <1>5, <1>8
    <2>2. Min(said) = 1
      BY <2>1
    <2> QED
      BY <1>6, <1>8, <2>2
  <1> QED
    BY <1>7, <1>8

(* client.go config: what a client has before any option.                   *)
LEMMA ConfigIs ==
  ASSUME NEW env \in Environment
  PROVE  LET c == Setup!Config(env) IN
         /\ c \in Settings
         /\ ~c.refused /\ c.key = env.key /\ c.http = -1
         /\ c.model = IF Setup!Blank(env.model) THEN "jev-latest" ELSE env.model
         /\ ~Setup!Blank(c.model) /\ ~Setup!Blank(c.url)
         /\ c.timeout = DefaultTimeout /\ c.retries = DefaultRetries
         /\ c.interceptors = <<>>
  <1> DEFINE url == IF Setup!Blank(env.url) THEN "default url" ELSE env.url
             model == IF Setup!Blank(env.model) THEN "jev-latest" ELSE env.model
             none == ""
  <1>1. ~Setup!Blank("default url") /\ ~Setup!Blank("jev-latest")
    BY DEF Setup!Blank
  <1>2. /\ Setup!FirstNonEmpty(<<env.url, "default url">>) = url
        /\ Setup!FirstNonEmpty(<<env.model, "jev-latest">>) = model
    BY <1>1, FirstNonEmptyIs, Zenon
  <1>3. ~Setup!Blank(url) /\ ~Setup!Blank(model)
    <2>1. url = "default url" \/ (url = env.url /\ ~Setup!Blank(env.url))
      OBVIOUS
    <2>2. model = "jev-latest" \/ (model = env.model /\ ~Setup!Blank(env.model))
      OBVIOUS
    <2> HIDE DEF url, model
    <2> QED
      BY <1>1, <2>1, <2>2, Zenon
  <1>4. env.key \in Text /\ url \in Text /\ model \in Text /\ none \in Text
    <2>1. {"", "default url", "jev-latest"} \subseteq Text
      BY DEF Text
    <2>2. env.key \in Text /\ env.url \in Text /\ env.model \in Text
      BY DEF Environment, Text
    <2> QED
      BY <2>1, <2>2
  <1>5. Setup!Config(env) =
          [key |-> env.key, url |-> url, model |-> model,
           timeout |-> DefaultTimeout, http |-> -1, retries |-> DefaultRetries,
           headers |-> {}, interceptors |-> <<>>, idHeader |-> none,
           generates |-> FALSE, refused |-> FALSE]
    BY <1>2 DEF Setup!Config
  <1>6. DefaultTimeout \in Int /\ DefaultRetries \in Int
    BY SetupAssumption
  <1> HIDE DEF url, none
  <1>7. Setup!Config(env) \in Settings
    <2> HIDE DEF model
    <2> QED
      BY <1>4, <1>5, <1>6 DEF Settings
  <1> QED
    BY <1>3, <1>5, <1>7

(* The settings after each option.                                          *)
Configures(g, env, opts) ==
    /\ g \in [0..Len(opts) -> Settings]
    /\ g[0] = Setup!Config(env)
    /\ \A i \in 1..Len(opts) : g[i] = Setup!Apply(g[i - 1], opts[i])

(* client.go New: what settings make of a client.                           *)
Made(cfg) ==
    [ok |-> ~cfg.refused /\ ~Setup!Blank(cfg.key), cfg |-> cfg,
     timeout |-> Setup!TimeoutOf(cfg)]

(* Its parts.                                                               *)
LEMMA MadeIs ==
  ASSUME NEW c
  PROVE  /\ Made(c).ok <=> ~c.refused /\ ~Setup!Blank(c.key)
         /\ Made(c).cfg = c /\ Made(c).timeout = Setup!TimeoutOf(c)
  BY DEF Made

(* client.go NewClient: the loop over the options, and what it ends with.   *)
LEMMA NewClientIs ==
  ASSUME NEW env \in Environment, NEW opts \in Seq(OptionValues)
  PROVE  \E g : Configures(g, env, opts)
                /\ Setup!NewClient(env, opts) = Made(g[Len(opts)])
  <1> DEFINE n == Len(opts)
             a == Setup!Config(env)
             step == [p \in (1..n) \X Settings |-> Setup!Apply(p[2], opts[p[1]])]
  <1>1. n \in Nat /\ \A i \in 1..n : opts[i] \in OptionValues
    OBVIOUS
  <1>2. a \in Settings
    BY ConfigIs
  <1> HIDE DEF n, a
  <1>3. step \in [(1..n) \X Settings -> Settings]
    <2>1. \A p \in (1..n) \X Settings : Setup!Apply(p[2], opts[p[1]]) \in Settings
      <3> TAKE p \in (1..n) \X Settings
      <3>1. p[2] \in Settings /\ opts[p[1]] \in OptionValues
        BY <1>1
      <3> QED
        BY <3>1, AppliedIs
    <2> QED
      BY <2>1
  <1>4. \A i \in 1..n, c \in Settings : step[<<i, c>>] = Setup!Apply(c, opts[i])
    OBVIOUS
  <1> HIDE DEF step
  <1>5. PICK h : Recurs(h, Settings, a, step, n)
    BY <1>1, <1>2, <1>3, Recursion, Zenon
  <1>6. h \in [0..n -> Settings] /\ h[0] = a
    BY <1>5 DEF Recurs
  <1>7. ASSUME NEW i \in 1..n PROVE h[i] = Setup!Apply(h[i - 1], opts[i])
    <2>1. i - 1 \in 0..n
      BY <1>1
    <2>2. h[i - 1] \in Settings
      BY <1>6, <2>1
    <2>3. h[i] = step[<<i, h[i - 1]>>]
      BY <1>5 DEF Recurs
    <2> QED
      BY <1>4, <2>2, <2>3, Zenon
  <1>8. Configures(h, env, opts)
    BY <1>6, <1>7, Zenon DEF Configures, a, n
  <1>9. Setup!NewClient(env, opts) = Made(h[n])
    <2> DEFINE after[i \in 0..n] ==
                  IF i = 0 THEN a ELSE Setup!Apply(after[i - 1], opts[i])
               Row(g) == g = [i \in 0..n |->
                  IF i = 0 THEN a ELSE Setup!Apply(g[i - 1], opts[i])]
    <2>1. Row(h)
      <3>1. \A i \in 0..n : i # 0 => i \in 1..n
        BY <1>1
      <3>2. \A i \in 0..n : h[i] = IF i = 0 THEN a ELSE Setup!Apply(h[i - 1], opts[i])
        BY <1>6, <1>7, <3>1, Zenon
      <3>3. h = [i \in 0..n |-> h[i]]
        BY <1>6
      <3> QED
        BY <3>2, <3>3, Zenon
    <2> HIDE DEF after
    <2>2. Row(after)
      BY <2>1, Zenon DEF after
    <2>3. Setup!NewClient(env, opts) = Made(after[n])
      BY Zenon DEF Setup!NewClient, Made, after, n, a
    <2>4. Alike(h, after, n)
      <3>1. 0 \in 0..n /\ \A i \in 1..n : i \in 0..n /\ i # 0
        BY <1>1
      <3>2. h[0] = a /\ after[0] = a
        BY <2>1, <2>2, <3>1, Zenon
      <3>3. ASSUME NEW i \in 1..n, h[i - 1] = after[i - 1] PROVE h[i] = after[i]
        <4>1. /\ h[i] = Setup!Apply(h[i - 1], opts[i])
              /\ after[i] = Setup!Apply(after[i - 1], opts[i])
          BY <2>1, <2>2, <3>1, Zenon
        <4> QED
          BY <3>3, <4>1, Zenon
      <3> QED
        BY <3>2, <3>3, Zenon DEF Alike
    <2>5. h[n] = after[n]
      BY <1>1, <2>4, GoOnAlike, Zenon
    <2> QED
      BY <2>3, <2>5, Zenon
  <1> QED
    BY <1>8, <1>9, Zenon DEF n

-----------------------------------------------------------------------------
(* The options of some kinds among the first i, and what the last said.     *)
Saying(opts, kinds, i) == {j \in 1..i : opts[j][1] \in kinds}
LastIn(opts, kinds, otherwise, i) ==
    IF Saying(opts, kinds, i) = {} THEN otherwise
    ELSE opts[Max(Saying(opts, kinds, i))][2]

(* One more option either is the last of its kind or changes nothing.       *)
LEMMA LastStep ==
  ASSUME NEW opts, NEW kinds, NEW otherwise, NEW i \in Nat \ {0}
  PROVE  LastIn(opts, kinds, otherwise, i) =
           IF opts[i][1] \in kinds THEN opts[i][2]
           ELSE LastIn(opts, kinds, otherwise, i - 1)
  <1> DEFINE new == Saying(opts, kinds, i)
             old == Saying(opts, kinds, i - 1)
  <1>1. CASE opts[i][1] \in kinds
    <2>1. i \in new /\ new \in SUBSET (0..i)
      BY <1>1 DEF Saying
    <2> HIDE DEF new
    <2>2. Max(new) \in new /\ \A x \in new : x <= Max(new)
      BY <2>1, MaxIs
    <2>3. Max(new) \in 0..i /\ i <= Max(new)
      BY <2>1, <2>2
    <2>4. Max(new) = i
      BY <2>3
    <2> QED
      BY <1>1, <2>1, <2>4 DEF LastIn, new
  <1>2. CASE opts[i][1] \notin kinds
    <2>1. \A j \in 1..i : j # i => j \in 1..(i - 1)
      OBVIOUS
    <2>2. \A j \in 1..(i - 1) : j \in 1..i
      OBVIOUS
    <2>3. new = old
      BY <1>2, <2>1, <2>2, Zenon DEF Saying
    <2> QED
      BY <1>2, <2>3, Zenon DEF LastIn
  <1> QED
    BY <1>1, <1>2

(* From none of the options to all of them.                                 *)
LEMMA LastEnds ==
  ASSUME NEW opts \in Seq(OptionValues), NEW kinds, NEW otherwise
  PROVE  /\ LastIn(opts, kinds, otherwise, 0) = otherwise
         /\ Setup!LastOf(opts, kinds, otherwise) = LastIn(opts, kinds, otherwise, Len(opts))
  <1>1. Saying(opts, kinds, 0) = {}
    BY DEF Saying
  <1>2. DOMAIN opts = 1..Len(opts)
    OBVIOUS
  <1> DEFINE said == Saying(opts, kinds, Len(opts))
  <1>3. said = {j \in DOMAIN opts : opts[j][1] \in kinds}
    BY <1>2, Zenon DEF Saying
  <1>4. Setup!LastOf(opts, kinds, otherwise) =
          IF said = {} THEN otherwise ELSE opts[Setup!Max(said)][2]
    BY <1>3, Zenon DEF Setup!LastOf
  <1>5. Setup!Max(said) = Max(said)
    BY DEF Setup!Max, Max
  <1> QED
    BY <1>1, <1>4, <1>5, Zenon DEF LastIn

(* What the settings after i options owe to the options.                    *)
AsAsked(c, env, opts, i) ==
    ~c.refused =>
        /\ c.key = LastIn(opts, {"key"}, env.key, i)
        /\ c.model = LastIn(opts, {"model"},
                        IF Setup!Blank(env.model) THEN "jev-latest" ELSE env.model, i)
        /\ c.retries = LastIn(opts, {"retries", "policy"}, DefaultRetries, i)
        /\ c.timeout = LastIn(opts, {"timeout"}, DefaultTimeout, i)
        /\ c.http = LastIn(opts, {"http"}, -1, i)
        /\ c.timeout > 0 /\ c.retries >= 0 /\ c.http >= -1
        /\ ~Setup!Blank(c.model) /\ ~Setup!Blank(c.url)

(* An option more keeps it so.                                              *)
LEMMA AsAskedStep ==
  ASSUME NEW env, NEW opts, NEW i \in Nat \ {0}, opts[i] \in OptionValues,
         NEW c \in Settings, AsAsked(c, env, opts, i - 1),
         NEW a, a = Setup!Apply(c, opts[i])
  PROVE  AsAsked(a, env, opts, i)
  <1> DEFINE opt == opts[i]
             v == opts[i][2]
             kind == opts[i][1]
  <1>1. /\ a \in Settings
        /\ a.refused <=> c.refused \/ Setup!Refuses(opt)
        /\ ~a.refused => Applied(c, opt, a)
    BY AppliedIs
  <1> SUFFICES ASSUME ~a.refused PROVE AsAsked(a, env, opts, i)
    BY DEF AsAsked
  <1>2. ~c.refused /\ ~Setup!Refuses(opt) /\ Applied(c, opt, a)
    BY <1>1
  <1>3. ASSUME NEW kinds, NEW otherwise
        PROVE  LastIn(opts, kinds, otherwise, i) =
                 IF kind \in kinds THEN v ELSE LastIn(opts, kinds, otherwise, i - 1)
    BY LastStep
  <1> DEFINE model == IF Setup!Blank(env.model) THEN "jev-latest" ELSE env.model
  <1>4. /\ c.key = LastIn(opts, {"key"}, env.key, i - 1)
        /\ c.model = LastIn(opts, {"model"}, model, i - 1)
        /\ c.retries = LastIn(opts, {"retries", "policy"}, DefaultRetries, i - 1)
        /\ c.timeout = LastIn(opts, {"timeout"}, DefaultTimeout, i - 1)
        /\ c.http = LastIn(opts, {"http"}, -1, i - 1)
        /\ c.timeout > 0 /\ c.retries >= 0 /\ c.http >= -1
        /\ ~Setup!Blank(c.model) /\ ~Setup!Blank(c.url)
    BY <1>2, Zenon DEF AsAsked
  <1>5. /\ a.key = IF kind = "key" THEN v ELSE c.key
        /\ a.url = IF kind = "url" THEN "url" ELSE c.url
        /\ a.model = IF kind = "model" THEN v ELSE c.model
        /\ a.timeout = IF kind = "timeout" THEN v ELSE c.timeout
        /\ a.http = IF kind = "http" THEN v ELSE c.http
        /\ a.retries = IF kind \in {"retries", "policy"} THEN v ELSE c.retries
    BY <1>2, Zenon DEF Applied
  <1>6. /\ kind = "model" => ~Setup!Blank(v)
        /\ kind = "timeout" => ~(v <= 0)
        /\ kind \in {"retries", "policy"} => ~(v < 0)
    BY <1>2, Zenon DEF Setup!Refuses
  <1>7. /\ kind \in {"timeout", "retries", "policy"} => v \in Int
        /\ kind = "http" => v \in Nat
    BY OptionKinds, Zenon
  <1> HIDE DEF kind, v, model
  <1>8. /\ a.key = LastIn(opts, {"key"}, env.key, i)
        /\ a.model = LastIn(opts, {"model"}, model, i)
        /\ a.retries = LastIn(opts, {"retries", "policy"}, DefaultRetries, i)
        /\ a.timeout = LastIn(opts, {"timeout"}, DefaultTimeout, i)
        /\ a.http = LastIn(opts, {"http"}, -1, i)
    <2>1. /\ LastIn(opts, {"key"}, env.key, i) = IF kind = "key" THEN v ELSE c.key
          /\ LastIn(opts, {"model"}, model, i) = IF kind = "model" THEN v ELSE c.model
          /\ LastIn(opts, {"retries", "policy"}, DefaultRetries, i)
               = IF kind \in {"retries", "policy"} THEN v ELSE c.retries
          /\ LastIn(opts, {"timeout"}, DefaultTimeout, i)
               = IF kind = "timeout" THEN v ELSE c.timeout
          /\ LastIn(opts, {"http"}, -1, i) = IF kind = "http" THEN v ELSE c.http
      BY <1>3, <1>4
    <2> QED
      BY <1>5, <2>1, Zenon
  <1>9. a.timeout > 0 /\ a.retries >= 0 /\ a.http >= -1
    BY <1>4, <1>5, <1>6, <1>7
  <1>10. ~Setup!Blank(a.model) /\ ~Setup!Blank(a.url)
    <2>1. ~Setup!Blank("url")
      BY DEF Setup!Blank
    <2>2. a.url = "url" \/ a.url = c.url
      BY <1>5
    <2>3. (kind = "model" /\ a.model = v) \/ a.model = c.model
      BY <1>5
    <2> QED
      BY <1>4, <1>6, <2>1, <2>2, <2>3, Zenon
  <1> QED
    BY <1>8, <1>9, <1>10, Zenon DEF AsAsked, model

(* client.go, options.go: for any options in any order, a client that is    *)
(* built has a key, a model and a timeout, each setting the last option's   *)
(* that sets it, before the environment and the default.                    *)
THEOREM SettingsAreSound ==
  ASSUME NEW env \in Environment, NEW opts \in Seq(OptionValues)
  PROVE  Setup!SetupSoundFor(env, opts)
  <1> DEFINE n == Len(opts)
             model == IF Setup!Blank(env.model) THEN "jev-latest" ELSE env.model
  <1>1. PICK g : Configures(g, env, opts)
                 /\ Setup!NewClient(env, opts) = Made(g[n])
    BY NewClientIs
  <1>2. n \in Nat /\ \A i \in 1..n : opts[i] \in OptionValues
    OBVIOUS
  <1> HIDE DEF n
  <1>3. /\ g[0] = Setup!Config(env)
        /\ \A i \in 0..n : g[i] \in Settings
        /\ \A i \in 1..n : g[i] = Setup!Apply(g[i - 1], opts[i])
    BY <1>1 DEF Configures, n
  <1> DEFINE G == {i \in 0..n : AsAsked(g[i], env, opts, i)}
  <1>4. \A i \in 0..n : i \in G
    <2>1. 0 \in G
      <3> DEFINE c == g[0]
      <3>1. /\ c.key = env.key /\ c.http = -1 /\ c.model = model
            /\ ~Setup!Blank(c.model) /\ ~Setup!Blank(c.url)
            /\ c.timeout = DefaultTimeout /\ c.retries = DefaultRetries
        BY <1>3, ConfigIs
      <3>2. /\ DefaultTimeout > 0 /\ DefaultRetries >= 0 /\ -1 >= -1
        BY SetupAssumption
      <3>3. \A kinds, o : LastIn(opts, kinds, o, 0) = o
        BY LastEnds
      <3> HIDE DEF c
      <3>4. AsAsked(c, env, opts, 0)
        BY <3>1, <3>2, <3>3 DEF AsAsked, model
      <3> QED
        BY <1>2, <3>4 DEF c
    <2>2. ASSUME NEW i \in 1..n, i - 1 \in G PROVE i \in G
      <3>1. i - 1 \in 0..n /\ i \in 0..n /\ i \in Nat \ {0}
        BY <1>2
      <3>2. AsAsked(g[i - 1], env, opts, i - 1)
        BY <2>2
      <3>3. g[i - 1] \in Settings /\ opts[i] \in OptionValues
        BY <1>2, <1>3, <3>1
      <3>4. AsAsked(g[i], env, opts, i)
        BY <1>3, <3>1, <3>2, <3>3, AsAskedStep
      <3> QED
        BY <3>1, <3>4
    <2> HIDE DEF G
    <2> QED
      BY <1>2, <2>1, <2>2, UpTo
  <1> DEFINE c == g[n]
             cl == Setup!NewClient(env, opts)
  <1>5. c \in Settings /\ AsAsked(c, env, opts, n)
    BY <1>2, <1>3, <1>4
  <1>6. /\ cl.ok <=> ~c.refused /\ ~Setup!Blank(c.key)
        /\ cl.cfg = c /\ cl.timeout = Setup!TimeoutOf(c)
    <2>1. cl = Made(c)
      BY <1>1
    <2> HIDE DEF c, cl
    <2> QED
      BY <2>1, MadeIs
  <1> HIDE DEF c, cl
  <1>7. \A kinds, o : Setup!LastOf(opts, kinds, o) = LastIn(opts, kinds, o, n)
    BY LastEnds DEF n
  <1> SUFFICES ASSUME cl.ok
               PROVE
        /\ cl.timeout > 0 /\ c.retries >= 0
        /\ ~Setup!Blank(c.key) /\ ~Setup!Blank(c.model) /\ ~Setup!Blank(c.url)
        /\ c.key = Setup!LastOf(opts, {"key"}, env.key)
        /\ c.model = Setup!LastOf(opts, {"model"}, model)
        /\ c.retries = Setup!LastOf(opts, {"retries", "policy"}, DefaultRetries)
        /\ cl.timeout = LET given == Setup!LastOf(opts, {"http"}, -1) IN
              IF given > 0 THEN given ELSE Setup!LastOf(opts, {"timeout"}, DefaultTimeout)
        /\ Setup!Sent(c, "any")["Authorization"] = "sdk"
    BY <1>6, Zenon DEF Setup!SetupSoundFor, cl, model
  <1>8. /\ c.key = LastIn(opts, {"key"}, env.key, n)
        /\ c.model = LastIn(opts, {"model"}, model, n)
        /\ c.retries = LastIn(opts, {"retries", "policy"}, DefaultRetries, n)
        /\ c.timeout = LastIn(opts, {"timeout"}, DefaultTimeout, n)
        /\ c.http = LastIn(opts, {"http"}, -1, n)
        /\ c.timeout > 0 /\ c.retries >= 0 /\ c.http >= -1
        /\ ~Setup!Blank(c.model) /\ ~Setup!Blank(c.url)
    BY <1>5, <1>6, Zenon DEF AsAsked, model
  <1>9. c.http \in Int /\ c.timeout \in Int
    BY <1>5 DEF Settings
  <1>10. cl.timeout = IF c.http > 0 THEN c.http ELSE c.timeout
    BY <1>6, <1>8, <1>9 DEF Setup!TimeoutOf
  <1>11. Setup!Sent(c, "any")["Authorization"] = "sdk"
    BY DEF Setup!Sent, Setup!Fixed
  <1> HIDE DEF model
  <1> QED
    BY <1>6, <1>7, <1>8, <1>9, <1>10, <1>11

-----------------------------------------------------------------------------
(* middleware.go: an interceptor, or one of the two ends of the chain.      *)
Nested == STRING \cup {"systemOne", "recoverPanic"}

(* middleware.go chain: the loop from the last interceptor inwards to out    *)
(* leaves the first outermost.                                              *)
LEMMA ChainIs ==
  ASSUME NEW xs \in Seq(Nested)
  PROVE  Setup!Chain(xs) = xs \o <<"systemOne">>
  <1> DEFINE n == Len(xs)
             core == <<"systemOne">>
             Wrapped(i) == SubSeq(xs, n + 1 - i, n) \o core
             h == [i \in 0..n |-> Wrapped(i)]
             wrapped[i \in 0..n] ==
                 IF i = 0 THEN core ELSE Setup!Wrap(xs[n + 1 - i], wrapped[i - 1])
             Row(g) == g = [i \in 0..n |->
                 IF i = 0 THEN core ELSE Setup!Wrap(xs[n + 1 - i], g[i - 1])]
  <1>1. n \in Nat /\ core \in Seq(Nested)
    BY DEF Nested
  <1>2. ASSUME NEW i \in 1..n
        PROVE  Wrapped(i) = Setup!Wrap(xs[n + 1 - i], Wrapped(i - 1))
    <2> DEFINE m == n + 1 - i
               rest == SubSeq(xs, m + 1, n)
    <2>1. m \in 1..n /\ n \in m..n /\ n + 1 - (i - 1) = m + 1 /\ xs[m] \in Nested
      BY <1>1
    <2>2. SubSeq(xs, m, n) = <<xs[m]>> \o rest
      BY <2>1, SubSeqRecursiveFirst
    <2>3. rest \in Seq(Nested) /\ <<xs[m]>> \in Seq(Nested)
      <3>1. \A j \in (m + 1)..n : xs[j] \in Nested
        BY <2>1
      <3>2. m + 1 \in Int /\ n \in Int
        BY <2>1
      <3> QED
        BY <2>1, <3>1, <3>2, SubSeqProperties
    <2>4. Wrapped(i - 1) = rest \o core
      BY <2>1
    <2> HIDE DEF core, rest, n
    <2>5. (<<xs[m]>> \o rest) \o core = <<xs[m]>> \o (rest \o core)
      BY <1>1, <2>3, ConcatAssociative
    <2> QED
      BY <2>2, <2>4, <2>5 DEF Setup!Wrap
  <1>3. Wrapped(0) = core
    <2>1. SubSeq(xs, n + 1, n) = <<>>
      BY <1>1, SubSeqEmpty
    <2>2. <<>> \o core = core
      BY <1>1, ConcatEmptySeq, Zenon
    <2>3. n + 1 - 0 = n + 1
      BY <1>1
    <2> QED
      BY <2>1, <2>2, <2>3, Zenon
  <1> HIDE DEF core, Wrapped
  <1>4. \A i \in 0..n : h[i] = IF i = 0 THEN core ELSE Setup!Wrap(xs[n + 1 - i], h[i - 1])
    <2> TAKE i \in 0..n
    <2>1. CASE i = 0
      BY <1>3, <2>1
    <2>2. CASE i # 0
      <3>1. i \in 1..n /\ i - 1 \in 0..n
        BY <1>1, <2>2
      <3>2. h[i] = Wrapped(i) /\ h[i - 1] = Wrapped(i - 1)
        BY <3>1
      <3> QED
        BY <1>2, <2>2, <3>1, <3>2, Zenon
    <2> QED
      BY <2>1, <2>2
  <1>5. Row(h)
    <2>1. h = [i \in 0..n |-> h[i]]
      OBVIOUS
    <2> HIDE DEF h
    <2> QED
      BY <1>4, <2>1, Zenon
  <1> HIDE DEF wrapped
  <1>6. Row(wrapped)
    <2> HIDE DEF h
    <2> QED
      BY <1>5, Zenon DEF wrapped
  <1>7. Setup!Chain(xs) = wrapped[n]
    BY Zenon DEF Setup!Chain, wrapped, n, core
  <1> HIDE DEF h, n
  <1>8. Alike(h, wrapped, n)
    <2>1. 0 \in 0..n /\ \A i \in 1..n : i \in 0..n /\ i # 0
      BY <1>1
    <2>2. h[0] = core /\ wrapped[0] = core
      BY <1>5, <1>6, <2>1, Zenon
    <2>3. ASSUME NEW i \in 1..n, h[i - 1] = wrapped[i - 1] PROVE h[i] = wrapped[i]
      <3>1. /\ h[i] = Setup!Wrap(xs[n + 1 - i], h[i - 1])
            /\ wrapped[i] = Setup!Wrap(xs[n + 1 - i], wrapped[i - 1])
        BY <1>5, <1>6, <2>1, Zenon
      <3> QED
        BY <2>3, <3>1, Zenon
    <2> QED
      BY <2>2, <2>3, Zenon DEF Alike
  <1>9. h[n] = wrapped[n]
    BY <1>1, <1>8, GoOnAlike, Zenon
  <1>10. h[n] = xs \o core
    <2>1. n \in 0..n /\ n + 1 - n = 1
      BY <1>1
    <2>2. h[n] = SubSeq(xs, 1, n) \o core
      BY <2>1 DEF h, Wrapped
    <2>3. SubSeq(xs, 1, n) = xs
      BY SubSeqFull DEF n
    <2> QED
      BY <2>2, <2>3
  <1> QED
    BY <1>7, <1>9, <1>10 DEF core

(* middleware.go: for any options, interceptors nest in the order they were *)
(* given, with the recovery outside of the first.                           *)
THEOREM InterceptorsNest ==
  ASSUME NEW env \in Environment, NEW opts \in Seq(OptionValues)
  PROVE  Setup!NestedInOrderFor(env, opts)
  <1> DEFINE n == Len(opts)
  <1>1. PICK g : Configures(g, env, opts)
                 /\ Setup!NewClient(env, opts) = Made(g[n])
    BY NewClientIs
  <1>2. n \in Nat /\ \A i \in 1..n : opts[i] \in OptionValues
    OBVIOUS
  <1> HIDE DEF n
  <1>3. /\ g[0] = Setup!Config(env)
        /\ \A i \in 0..n : g[i] \in Settings
        /\ \A i \in 1..n : g[i] = Setup!Apply(g[i - 1], opts[i])
    BY <1>1 DEF Configures, n
  <1>4. /\ Setup!NewClient(env, opts).ok => ~g[n].refused
        /\ Setup!NewClient(env, opts).cfg = g[n]
    <2> DEFINE c == g[n]
               cl == Setup!NewClient(env, opts)
    <2>1. cl = Made(c)
      BY <1>1
    <2> HIDE DEF c, cl
    <2>2. (cl.ok => ~c.refused) /\ cl.cfg = c
      BY <2>1, MadeIs
    <2> QED
      BY <2>2 DEF c, cl
  <1> DEFINE given[i \in 0..n] ==
                IF i = 0 THEN <<>>
                ELSE IF opts[i][1] = "interceptor" THEN given[i - 1] \o opts[i][2]
                ELSE given[i - 1]
             Row(h) == h = [i \in 0..n |->
                IF i = 0 THEN <<>>
                ELSE IF opts[i][1] = "interceptor" THEN h[i - 1] \o opts[i][2]
                ELSE h[i - 1]]
             h == [i \in 0..n |-> g[i].interceptors]
  <1> HIDE DEF given
  <1> SUFFICES ASSUME ~g[n].refused
               PROVE  Setup!Handler(g[n]) =
                        <<"recoverPanic">> \o given[n] \o <<"systemOne">>
    BY <1>4, Zenon DEF Setup!NestedInOrderFor, given, n
  <1>5. \A i \in 0..n : ~g[i].refused
    <2> DEFINE G == {m \in 0..n : ~g[n - m].refused}
    <2>1. 0 \in G
      BY <1>2
    <2>2. ASSUME NEW m \in 1..n, m - 1 \in G PROVE m \in G
      <3> DEFINE i == n - (m - 1)
      <3>1. i \in 1..n /\ i - 1 = n - m /\ i - 1 \in 0..n /\ m \in 0..n
        BY <1>2
      <3>2. ~g[i].refused
        BY <2>2
      <3>3. g[i - 1] \in Settings /\ opts[i] \in OptionValues
            /\ g[i] = Setup!Apply(g[i - 1], opts[i])
        BY <1>2, <1>3, <3>1
      <3> HIDE DEF i
      <3>4. ~g[i - 1].refused
        BY <3>2, <3>3, AppliedIs
      <3> QED
        BY <3>1, <3>4
    <2> HIDE DEF G
    <2>3. \A m \in 0..n : m \in G
      BY <1>2, <2>1, <2>2, UpTo
    <2>4. ASSUME NEW i \in 0..n PROVE ~g[i].refused
      <3>1. n - i \in 0..n /\ n - (n - i) = i
        BY <1>2
      <3> QED
        BY <2>3, <3>1 DEF G
    <2> QED
      BY <2>4
  <1>6. \A i \in 0..n : h[i] = IF i = 0 THEN <<>>
                ELSE IF opts[i][1] = "interceptor" THEN h[i - 1] \o opts[i][2]
                ELSE h[i - 1]
    <2> TAKE i \in 0..n
    <2>1. CASE i = 0
      <3>1. Setup!Config(env).interceptors = <<>>
        BY ConfigIs
      <3> QED
        BY <1>3, <2>1, <3>1
    <2>2. CASE i # 0
      <3>1. i \in 1..n /\ i - 1 \in 0..n
        BY <1>2, <2>2
      <3>2. g[i - 1] \in Settings /\ opts[i] \in OptionValues
            /\ g[i] = Setup!Apply(g[i - 1], opts[i])
        BY <1>2, <1>3, <3>1
      <3>3. Applied(g[i - 1], opts[i], g[i])
        BY <1>5, <3>2, AppliedIs
      <3>4. h[i] = g[i].interceptors /\ h[i - 1] = g[i - 1].interceptors
        BY <3>1
      <3> HIDE DEF h
      <3> QED
        BY <2>2, <3>3, <3>4, Zenon DEF Applied
    <2> QED
      BY <2>1, <2>2
  <1>7. h = [i \in 0..n |-> h[i]]
    OBVIOUS
  <1>8. h[n] = g[n].interceptors /\ h[n] \in Seq(STRING)
    BY <1>2, <1>3 DEF Settings
  <1> HIDE DEF h
  <1>9. Row(h)
    BY <1>6, <1>7, Zenon
  <1>10. Row(given)
    BY <1>9, Zenon DEF given
  <1>11. Alike(h, given, n)
    <2>1. 0 \in 0..n /\ \A i \in 1..n : i \in 0..n /\ i # 0
      BY <1>2
    <2>2. h[0] = <<>> /\ given[0] = <<>>
      BY <1>9, <1>10, <2>1, Zenon
    <2>3. ASSUME NEW i \in 1..n, h[i - 1] = given[i - 1] PROVE h[i] = given[i]
      <3>1. /\ h[i] = IF opts[i][1] = "interceptor" THEN h[i - 1] \o opts[i][2]
                      ELSE h[i - 1]
            /\ given[i] = IF opts[i][1] = "interceptor" THEN given[i - 1] \o opts[i][2]
                          ELSE given[i - 1]
        BY <1>9, <1>10, <2>1, Zenon
      <3> QED
        BY <2>3, <3>1, Zenon
    <2> QED
      BY <2>2, <2>3, Zenon DEF Alike
  <1>12. h[n] = given[n]
    BY <1>2, <1>11, GoOnAlike, Zenon
  <1> DEFINE xs == given[n]
             core == <<"systemOne">>
             around == <<"recoverPanic">>
  <1>13. /\ xs \in Seq(Nested) /\ core \in Seq(Nested) /\ around \in Seq(Nested)
         /\ g[n].interceptors = xs
    <2>1. xs \in Seq(STRING) /\ STRING \subseteq Nested
      BY <1>8, <1>12 DEF Nested
    <2>2. xs \in Seq(Nested)
      <3> HIDE DEF xs
      <3> QED
        BY <2>1, SeqMonotonic
    <2>3. core \in Seq(Nested) /\ around \in Seq(Nested)
      BY DEF Nested
    <2> QED
      BY <1>8, <1>12, <2>2, <2>3
  <1>14. Setup!Handler(g[n]) = around \o Setup!Chain(xs)
    BY <1>13, Zenon DEF Setup!Handler, Setup!Wrap
  <1>15. Setup!Chain(xs) = xs \o core
    <2> HIDE DEF xs
    <2> QED
      BY <1>13, ChainIs
  <1> HIDE DEF xs, core, around
  <1>16. around \o (xs \o core) = (around \o xs) \o core
    <2>1. \A s, t, u \in Seq(Nested) : (s \o t) \o u = s \o (t \o u)
      BY ConcatAssociative, SMTT(60)
    <2> QED
      BY <1>13, <2>1, Zenon
  <1> QED
    BY <1>14, <1>15, <1>16, Zenon DEF xs, core, around

-----------------------------------------------------------------------------
(* nethttp.go firstHeader: a value that is not empty, if any header has one. *)
LEMMA FirstHeaderIs ==
  ASSUME NEW inbound, NEW names \in Seq(DOMAIN inbound)
  PROVE  /\ \A h \in Setup!ToSet(names) : inbound[h] # "" =>
               Setup!FirstHeader(inbound, names) # ""
         /\ (\A h \in DOMAIN inbound : inbound[h] = "") =>
               Setup!FirstHeader(inbound, names) = ""
  <1> DEFINE said == {i \in DOMAIN names : inbound[names[i]] # ""}
  <1>1. Setup!FirstHeader(inbound, names) =
          IF said = {} THEN "" ELSE inbound[names[Setup!Min(said)]]
    BY Zenon DEF Setup!FirstHeader
  <1>2. Setup!Min(said) = Min(said)
    BY DEF Setup!Min, Min
  <1>3. DOMAIN names \in SUBSET Nat /\ \A i \in DOMAIN names : names[i] \in DOMAIN inbound
    <2> DEFINE S == DOMAIN inbound
    <2> HIDE DEF S
    <2>1. names \in Seq(S)
      BY Zenon DEF S
    <2>2. DOMAIN names \in SUBSET Nat /\ \A i \in DOMAIN names : names[i] \in S
      BY <2>1
    <2> QED
      BY <2>2 DEF S
  <1>4. \A h \in Setup!ToSet(names) : inbound[h] # "" => said # {}
    BY Zenon DEF Setup!ToSet
  <1>5. (\A h \in DOMAIN inbound : inbound[h] = "") => said = {}
    BY <1>3, Zenon
  <1>6. said # {} => inbound[names[Min(said)]] # ""
    <2>1. \A i \in said : inbound[names[i]] # ""
      OBVIOUS
    <2>2. said \in SUBSET Nat
      BY <1>3
    <2> HIDE DEF said
    <2> QED
      BY <2>1, <2>2, MinIs
  <1> HIDE DEF said
  <1> QED
    BY <1>1, <1>2, <1>4, <1>5, <1>6

(* nethttp.go, middleware.go: whatever headers a request came with, its id  *)
(* is that of every call of its handler and of every attempt.               *)
THEOREM OneIdTiesTheCalls ==
  ASSUME NEW names, NEW values, NEW cfg, Inbound(names, values, cfg)
  PROVE  Setup!OneIdFor(cfg, values, names)
  <1> DEFINE blank == [h \in DOMAIN values |-> ""]
             outer == Setup!Correlation("", values, names)
             ctx == Setup!Correlation(outer, blank, names)
             seen(n) == Setup!SystemOne(cfg, ctx, n)
             some == \E h \in Setup!ToSet(names) : values[h] # ""
  <1>1. names \in Seq(DOMAIN values) /\ cfg.generates \in BOOLEAN
    BY DEF Inbound
  <1>2. Setup!FirstHeader(blank, names) = ""
    <2>1. DOMAIN blank = DOMAIN values /\ \A h \in DOMAIN blank : blank[h] = ""
      OBVIOUS
    <2> HIDE DEF blank
    <2>2. names \in Seq(DOMAIN blank)
      BY <1>1, <2>1, Zenon
    <2> QED
      BY <2>1, <2>2, FirstHeaderIs
  <1>3. ctx = outer
    BY <1>2, Zenon DEF Setup!Correlation, Setup!ContextWithRequestID
  <1>4. some => outer # ""
    <2>1. \A h \in Setup!ToSet(names) : values[h] # "" =>
             Setup!FirstHeader(values, names) # ""
      BY <1>1, FirstHeaderIs
    <2>2. Setup!FirstHeader(values, names) # "" => outer # ""
      BY DEF Setup!Correlation, Setup!ContextWithRequestID
    <2> HIDE DEF outer
    <2> QED
      BY <2>1, <2>2
  <1>5. \A n \in 1..2 : seen(n) = IF cfg.generates /\ ctx = "" THEN Setup!Generated(n) ELSE ctx
    BY DEF Setup!SystemOne
  <1>6. Setup!Generated(1) # Setup!Generated(2)
    BY DEF Setup!Generated
  <1> HIDE DEF ctx, outer, seen, some
  <1>7. some => \A n \in 1..2 : seen(n) = outer /\ seen(n) # ""
    BY <1>3, <1>4, <1>5, Zenon
  <1>8. ctx = "" /\ cfg.generates => seen(1) # seen(2)
    <2>1. 1 \in 1..2 /\ 2 \in 1..2
      OBVIOUS
    <2> QED
      BY <1>5, <1>6, <2>1, Zenon
  <1>9. ASSUME NEW n \in 1..2, cfg.idHeader \notin Setup!Fixed \cup {""}
        PROVE  IF seen(n) # "" THEN Setup!Sent(cfg, seen(n))[cfg.idHeader] = seen(n)
               ELSE cfg.idHeader \in DOMAIN Setup!Sent(cfg, "") => cfg.idHeader \in cfg.headers
    <2>1. ASSUME seen(n) # ""
          PROVE  Setup!Sent(cfg, seen(n))[cfg.idHeader] = seen(n)
      BY <1>9, <2>1 DEF Setup!Sent
    <2>2. cfg.idHeader \in DOMAIN Setup!Sent(cfg, "") => cfg.idHeader \in cfg.headers
      BY <1>9 DEF Setup!Sent
    <2> QED
      BY <2>1, <2>2
  <1> QED
    BY <1>7, <1>8, <1>9, Zenon DEF Setup!OneIdFor, seen, ctx, outer, some

(* Settings and ids, for every environment, list of options and request.    *)
THEOREM ClientsDoAsAsked == InputSane => ClientsAsAsked
  <1> SUFFICES ASSUME InputSane PROVE ClientsAsAsked
    OBVIOUS
  <1>1. SetupSound
    BY SettingsAreSound DEF SetupSound, InputSane, Environment
  <1>2. NestedInOrder
    BY InterceptorsNest DEF NestedInOrder, InputSane, Environment
  <1>3. OneId
    BY OneIdTiesTheCalls DEF OneId, InputSane
  <1> QED
    BY <1>1, <1>2, <1>3 DEF ClientsAsAsked

-----------------------------------------------------------------------------

(* A question read back from its wire form is itself, whichever the texts.  *)
LEMMA ReadsBack ==
  ASSUME NEW q, QuestionSane(q)
  PROVE  Writing!DecodeQuestion(Writing!Wire(q)) = q
  <1> DEFINE w == Writing!Wire(q)
             ins == IF "instructions" \in w.fields THEN w.instructions ELSE "nil"
             meant == [i \in 1..2 |-> IF i \in DOMAIN w.criteria
                                      THEN w.criteria[i] ELSE "nil"]
  <1>1. q = Writing!Question(q.kind, q.instructions, q.criteria)
    BY DEF QuestionSane
  <1>2. w.type = q.kind
    BY DEF Writing!Wire
  <1>3. ins = q.instructions
    <2>1. "instructions" \in w.fields <=> q.instructions # "nil"
      BY DEF Writing!Wire
    <2>2. w.instructions = q.instructions
      BY DEF Writing!Wire
    <2> HIDE DEF w
    <2> QED
      BY <2>1, <2>2
  <1>4. CASE q.kind = "noul"
    <2>1. q.criteria = Writing!NoCriteria \/ q.criteria \in [1..2 -> Texts]
      BY <1>4 DEF QuestionSane, CriteriaOf
    <2>2. "criteria" \in w.fields <=> q.criteria # Writing!NoCriteria
      BY <1>4 DEF Writing!Wire
    <2>3. w.criteria = Writing!Present(q.criteria)
      BY <1>4 DEF Writing!Wire
    <2>4. q.criteria # Writing!NoCriteria => meant = q.criteria
      <3> HIDE DEF w
      <3> SUFFICES ASSUME q.criteria \in [1..2 -> Texts]
                   PROVE  meant = q.criteria
        BY <2>1
      <3>1. \A i \in 1..2 : meant[i] = q.criteria[i]
        BY <2>3 DEF Writing!Present
      <3> HIDE DEF meant
      <3>2. meant = [i \in 1..2 |-> meant[i]]
        BY DEF meant
      <3> QED
        BY <3>1, <3>2
    <2>5. Writing!DecodeQuestion(w) =
            Writing!Question("noul", ins,
                IF "criteria" \in w.fields THEN meant ELSE Writing!NoCriteria)
      <3> HIDE DEF w
      <3> QED
        BY <1>2, <1>4 DEF Writing!DecodeQuestion
    <2>6. (IF "criteria" \in w.fields THEN meant ELSE Writing!NoCriteria) = q.criteria
      <3> HIDE DEF w, meant
      <3> QED
        BY <2>2, <2>4
    <2> HIDE DEF w, ins, meant
    <2> QED
      BY <1>1, <1>3, <1>4, <2>5, <2>6 DEF w
  <1>5. CASE q.kind \in {"choice", "score"}
    <2>1. w.criteria = q.criteria
      BY <1>5 DEF Writing!Wire
    <2>2. Writing!DecodeQuestion(w) = Writing!Question(q.kind, ins, w.criteria)
      <3> HIDE DEF w
      <3> QED
        BY <1>2, <1>5 DEF Writing!DecodeQuestion
    <2> HIDE DEF w, ins
    <2> QED
      BY <1>1, <1>3, <2>1, <2>2 DEF w
  <1> QED
    BY <1>4, <1>5 DEF QuestionSane

(* request.go, builder.go: no wrapping changes what is validated, labelled  *)
(* or sent of any question, and its wire form reads back as itself.         *)
THEOREM FormsOfAQuestionAgree ==
  ASSUME NEW q, QuestionSane(q)
  PROVE  Writing!FormsAgreeFor(q)
  <1>1. q = Writing!Question(q.kind, q.instructions, q.criteria)
    BY DEF QuestionSane
  <1>2. PICK kind, ins, crit :
            q = [kind |-> kind, instructions |-> ins, criteria |-> crit,
                 form |-> "struct", self |-> TRUE]
    BY <1>1, Zenon DEF Writing!Question
  <1> DEFINE Around(w) ==
                /\ w.kind = q.kind /\ w.instructions = q.instructions
                /\ w.criteria = q.criteria /\ w.self = q.self
                /\ q.form = "struct" /\ w.form \in {"typed", "builder"}
  <1>3. ASSUME NEW w, Around(w), q.kind \in {"noul", "choice", "score"}
        PROVE  /\ Writing!ValidateQuestion(w) = Writing!ValidateQuestion(q)
               /\ Writing!QuestionType(w) = Writing!QuestionType(q)
               /\ Writing!Wire(w) = Writing!Wire(q)
    <2>1. Around(w)
      BY <1>3
    <2>2. Writing!Wire(w) = Writing!Wire(q)
      BY <2>1, Zenon DEF Writing!Wire
    <2>3. Writing!Few(w) = Writing!Few(q) /\ Writing!Quiet(w) = Writing!Quiet(q)
          /\ Writing!Unexplained(w) = Writing!Unexplained(q)
      BY <2>1, Zenon DEF Writing!Few, Writing!Quiet, Writing!Unexplained
    <2>4. Writing!ValidateQuestion(w) = Writing!ValidateQuestion(q)
      <3>1. CASE q.kind = "noul"
        BY <2>1, <3>1 DEF Writing!ValidateQuestion
      <3>2. CASE q.kind = "choice"
        BY <2>1, <2>3, <3>2 DEF Writing!ValidateQuestion
      <3>3. CASE q.kind = "score"
        BY <2>1, <2>3, <3>3 DEF Writing!ValidateQuestion
      <3> QED
        BY <1>3, <3>1, <3>2, <3>3
    <2>5. Writing!QuestionType(q) = q.kind /\ Writing!QuestionType(w) = q.kind
      BY <2>1 DEF Writing!QuestionType, Writing!Wire
    <2> QED
      BY <2>2, <2>4, <2>5
  <1>4. Around(Writing!Built(q)) /\ Around(Writing!Typed(q, TRUE))
    <2>1. Around(Writing!Built(q))
      BY <1>2 DEF Writing!Built
    <2>2. Around(Writing!Typed(q, TRUE))
      BY <1>2 DEF Writing!Typed
    <2> QED
      BY <2>1, <2>2
  <1>5. /\ Writing!ToRaw(q).wire = Writing!Wire(q)
        /\ q.kind \in {"noul", "choice", "score"} => Writing!ToRaw(q).valid
    BY DEF Writing!ToRaw, Writing!Wire
  <1>6. Writing!DecodeQuestion(Writing!Wire(q)) = q
    BY ReadsBack
  <1>7. SUFFICES ASSUME q.kind \in {"noul", "choice", "score"},
                        NEW w \in {Writing!Built(q), Writing!Typed(q, TRUE)}
                 PROVE  /\ Writing!ValidateQuestion(w) = Writing!ValidateQuestion(q)
                        /\ Writing!QuestionType(w) = Writing!QuestionType(q)
                        /\ Writing!Wire(w) = Writing!Wire(q)
    <2>1. \A w : w \in {Writing!Built(q)} \cup
                     (IF q.kind = "noul" THEN {} ELSE {Writing!Typed(q, TRUE)})
               => w \in {Writing!Built(q), Writing!Typed(q, TRUE)}
      OBVIOUS
    <2> QED
      BY <1>5, <1>6, <2>1, Zenon DEF Writing!FormsAgreeFor
  <1>8. CASE w = Writing!Built(q)
    BY <1>3, <1>4, <1>7, <1>8
  <1>9. CASE w = Writing!Typed(q, TRUE)
    BY <1>3, <1>4, <1>7, <1>9
  <1> QED
    BY <1>7, <1>8, <1>9

-----------------------------------------------------------------------------
(* The rubric builders and their arrays: each builder has an array of its   *)
(* own, and has filled it.                                                  *)
Rubrics ==
    {m \in [arrays : Seq(Seq(STRING)), builder : Seq([array : Nat, len : Nat])] :
        /\ Len(m.arrays) = Len(m.builder)
        /\ \A b \in 1..Len(m.builder) :
              m.builder[b] = [array |-> b, len |-> Len(m.arrays[b])]}

(* builder.go: the first builder is empty.                                  *)
LEMMA NewScoreIs ==
  /\ Writing!NewScore \in Rubrics
  /\ Writing!NewScore.arrays = << <<>> >>
  BY DEF Rubrics, Writing!NewScore

(* builder.go Level: a builder of its own, with one more level than its     *)
(* base; the others as they were.                                           *)
LEMMA LevelIs ==
  ASSUME NEW m \in Rubrics, NEW b \in 1..Len(m.builder), NEW text \in STRING
  PROVE  /\ Writing!Level(m, b, text) \in Rubrics
         /\ Writing!Level(m, b, text).arrays
              = Append(m.arrays, Append(m.arrays[b], text))
  <1> DEFINE n == Len(m.arrays)
             new == Append(m.arrays[b], text)
             l == Writing!Level(m, b, text)
  <1>1. /\ m.arrays \in Seq(Seq(STRING)) /\ n = Len(m.builder) /\ n \in Nat
        /\ m.builder \in Seq([array : Nat, len : Nat])
        /\ m.arrays[b] \in Seq(STRING)
        /\ m.builder[b].array = b /\ m.builder[b].len = Len(m.arrays[b])
    <2>1. /\ m.arrays \in Seq(Seq(STRING)) /\ n = Len(m.builder)
          /\ m.builder \in Seq([array : Nat, len : Nat])
          /\ m.builder[b] = [array |-> b, len |-> Len(m.arrays[b])]
      BY DEF Rubrics
    <2>2. b \in 1..n
      BY <2>1
    <2>3. m.arrays[b] \in Seq(STRING) /\ n \in Nat
      BY <2>1, <2>2
    <2> QED
      BY <2>1, <2>3
  <1>2. SubSeq(m.arrays[b], 1, Len(m.arrays[b])) = m.arrays[b]
    BY <1>1, SubSeqFull
  <1>3. /\ l.arrays = Append(m.arrays, new)
        /\ l.builder = Append(m.builder, [array |-> n + 1, len |-> Len(m.arrays[b]) + 1])
        /\ l = [arrays |-> l.arrays, builder |-> l.builder]
    BY <1>1, <1>2 DEF Writing!Level
  <1>4. new \in Seq(STRING) /\ Len(new) = Len(m.arrays[b]) + 1
    BY <1>1
  <1> HIDE DEF new, l
  <1> DEFINE E == Seq(STRING)
             F == [array : Nat, len : Nat]
             last == [array |-> n + 1, len |-> Len(m.arrays[b]) + 1]
  <1>11. n = Len(m.arrays) /\ new \in E /\ m.arrays \in Seq(E)
    BY <1>1, <1>4
  <1> HIDE DEF E
  <1>5. /\ l.arrays \in Seq(E) /\ Len(l.arrays) = n + 1
        /\ l.arrays[n + 1] = new
        /\ \A c \in 1..n : l.arrays[c] = m.arrays[c]
    <2>1. l.arrays = Append(m.arrays, new)
      BY <1>3
    <2> QED
      BY <1>11, <2>1
  <1>6. last \in F /\ m.builder \in Seq(F)
    BY <1>1, <1>4
  <1> HIDE DEF F
  <1>7. /\ l.builder \in Seq(F) /\ Len(l.builder) = n + 1
        /\ l.builder[n + 1] = last
        /\ \A c \in 1..n : l.builder[c] = m.builder[c]
    <2> HIDE DEF last
    <2>1. l.builder = Append(m.builder, last)
      BY <1>3 DEF last
    <2> QED
      BY <1>1, <1>6, <2>1, SMTT(60)
  <1>8. \A c \in 1..Len(l.builder) :
           l.builder[c] = [array |-> c, len |-> Len(l.arrays[c])]
    <2> TAKE c \in 1..Len(l.builder)
    <2>1. CASE c = n + 1
      BY <1>4, <1>5, <1>7, <2>1
    <2>2. CASE c # n + 1
      <3>1. c \in 1..n
        BY <1>1, <1>7, <2>2
      <3>2. m.builder[c] = [array |-> c, len |-> Len(m.arrays[c])]
        BY <1>1, <3>1 DEF Rubrics
      <3> QED
        BY <1>5, <1>7, <3>1, <3>2
    <2> QED
      BY <2>1, <2>2
  <1>9. l \in [arrays : Seq(Seq(STRING)), builder : Seq([array : Nat, len : Nat])]
    BY <1>3, <1>5, <1>7, Zenon DEF E, F
  <1>10. l \in Rubrics
    BY <1>5, <1>7, <1>8, <1>9 DEF Rubrics
  <1> QED
    BY <1>3, <1>10 DEF l, new

(* builder.go: however builders are derived from each other, each builds    *)
(* the levels on its own path from the start.                               *)
THEOREM BuildersStayIndependent ==
  ASSUME NEW ops, BuiltUpon(ops)
  PROVE  Writing!BuildersIndependentFor(ops)
  <1> DEFINE n == Len(ops)
             step == [p \in (1..n) \X Rubrics |->
                IF ops[p[1]][1] \in 1..Len(p[2].builder)
                THEN Writing!Level(p[2], ops[p[1]][1], ops[p[1]][2])
                ELSE p[2]]
  <1>1. /\ n \in Nat
        /\ \A i \in 1..n : ops[i][1] \in 1..i /\ ops[i][2] \in STRING
    BY DEF BuiltUpon
  <1> HIDE DEF n
  <1>2. step \in [(1..n) \X Rubrics -> Rubrics]
    <2>1. ASSUME NEW p \in (1..n) \X Rubrics
          PROVE  (IF ops[p[1]][1] \in 1..Len(p[2].builder)
                  THEN Writing!Level(p[2], ops[p[1]][1], ops[p[1]][2])
                  ELSE p[2]) \in Rubrics
      <3>1. p[1] \in 1..n /\ p[2] \in Rubrics
        OBVIOUS
      <3>2. ops[p[1]][2] \in STRING
        BY <1>1, <3>1
      <3> QED
        BY <3>1, <3>2, LevelIs
    <2> QED
      BY <2>1
  <1>3. \A i \in 1..n, m \in Rubrics :
           step[<<i, m>>] = IF ops[i][1] \in 1..Len(m.builder)
                            THEN Writing!Level(m, ops[i][1], ops[i][2]) ELSE m
    OBVIOUS
  <1> HIDE DEF step
  <1>4. PICK h : Recurs(h, Rubrics, Writing!NewScore, step, n)
    BY <1>1, <1>2, NewScoreIs, Recursion, Zenon
  <1>5. /\ h \in [0..n -> Rubrics] /\ h[0] = Writing!NewScore
        /\ \A i \in 1..n : h[i] = step[<<i, h[i - 1]>>]
    BY <1>4 DEF Recurs
  <1> DEFINE Path(m, b) ==
                m.arrays[b] = IF b = 1 THEN <<>>
                              ELSE Append(m.arrays[ops[b - 1][1]], ops[b - 1][2])
             G == {i \in 0..n :
                     /\ Len(h[i].builder) = i + 1
                     /\ \A b \in 1..(i + 1) : Path(h[i], b)}
  <1>6. ASSUME NEW i \in 1..n, i - 1 \in G
        PROVE  i \in G /\ h[i] = Writing!Level(h[i - 1], ops[i][1], ops[i][2])
    <2> DEFINE m == h[i - 1]
               base == ops[i][1]
               text == ops[i][2]
               new == Append(m.arrays[base], text)
    <2>1. /\ i - 1 \in 0..n /\ i \in 0..n /\ m \in Rubrics /\ h[i] \in Rubrics
          /\ base \in 1..i /\ text \in STRING
      BY <1>1, <1>5
    <2>2. Len(m.builder) = i /\ \A b \in 1..i : Path(m, b)
      BY <1>6
    <2>3. h[i] = Writing!Level(m, base, text)
      <3>1. base \in 1..Len(m.builder)
        BY <2>1, <2>2
      <3>2. h[i] = step[<<i, m>>]
        BY <1>5
      <3> QED
        BY <1>3, <2>1, <3>1, <3>2, Zenon
    <2> HIDE DEF m, base, text
    <2>4. h[i].arrays = Append(m.arrays, new)
      BY <2>1, <2>2, <2>3, LevelIs, SMTT(60)
    <2>5. /\ m.arrays \in Seq(Seq(STRING)) /\ Len(m.arrays) = i
          /\ Len(h[i].arrays) = Len(h[i].builder)
      BY <2>1, <2>2 DEF Rubrics
    <2>6. new \in Seq(STRING)
      BY <2>1, <2>5
    <2> DEFINE E == Seq(STRING)
    <2>7. new \in E /\ m.arrays \in Seq(E)
      BY <2>5, <2>6
    <2> HIDE DEF E, new
    <2>8. /\ Len(h[i].arrays) = i + 1 /\ h[i].arrays[i + 1] = new
          /\ \A b \in 1..i : h[i].arrays[b] = m.arrays[b]
      BY <2>4, <2>5, <2>7
    <2>9. ASSUME NEW b \in 1..(i + 1) PROVE Path(h[i], b)
      <3>1. CASE b = i + 1
        <4>1. b - 1 = i /\ b # 1
          BY <3>1
        <4>2. h[i].arrays[base] = m.arrays[base]
          BY <2>1, <2>8
        <4>3. ops[b - 1][1] = base /\ ops[b - 1][2] = text
          BY <4>1 DEF base, text
        <4> QED
          BY <2>8, <3>1, <4>1, <4>2, <4>3 DEF new
      <3>2. CASE b = 1
        <4>1. 1 \in 1..i
          BY <2>1
        <4>2. h[i].arrays[1] = m.arrays[1]
          BY <2>8, <4>1
        <4>3. m.arrays[1] = <<>>
          BY <2>2, <4>1
        <4>4. h[i].arrays[b] = <<>>
          BY <3>2, <4>2, <4>3
        <4> QED
          BY <3>2, <4>4
      <3>3. CASE b # 1 /\ b # i + 1
        <4>1. b \in 1..i /\ b - 1 \in 1..n
          BY <1>1, <3>3
        <4>2. ops[b - 1][1] \in 1..(b - 1)
          BY <1>1, <4>1
        <4>3. ops[b - 1][1] \in 1..i
          BY <4>1, <4>2
        <4> QED
          BY <2>2, <2>8, <3>3, <4>1, <4>3
      <3> QED
        BY <3>1, <3>2, <3>3
    <2>10. Len(h[i].builder) = i + 1
      BY <2>5, <2>8
    <2> QED
      BY <2>1, <2>3, <2>9, <2>10 DEF m, base, text
  <1>7. \A i \in 0..n : i \in G
    <2>1. 0 \in G
      <3>1. Len(h[0].builder) = 1 /\ h[0].arrays[1] = <<>> /\ 0 \in 0..n
        BY <1>1, <1>5 DEF Writing!NewScore
      <3> QED
        BY <3>1
    <2> HIDE DEF G
    <2> QED
      BY <1>1, <1>6, <2>1, UpTo
  <1> DEFINE mem[i \in 0..n] ==
                IF i = 0 THEN Writing!NewScore
                ELSE Writing!Level(mem[i - 1], ops[i][1], ops[i][2])
             MemRow(g) == g = [i \in 0..n |->
                IF i = 0 THEN Writing!NewScore
                ELSE Writing!Level(g[i - 1], ops[i][1], ops[i][2])]
             path[b \in 1..(n + 1)] ==
                IF b = 1 THEN <<>> ELSE Append(path[ops[b - 1][1]], ops[b - 1][2])
             PathRow(g) == g = [b \in 1..(n + 1) |->
                IF b = 1 THEN <<>> ELSE Append(g[ops[b - 1][1]], ops[b - 1][2])]
  <1>8. MemRow(h)
    <2>1. \A i \in 0..n : h[i] = IF i = 0 THEN Writing!NewScore
                ELSE Writing!Level(h[i - 1], ops[i][1], ops[i][2])
      <3> TAKE i \in 0..n
      <3>1. i # 0 => i \in 1..n /\ i - 1 \in 0..n
        BY <1>1
      <3> HIDE DEF G
      <3> QED
        BY <1>5, <1>6, <1>7, <3>1, Zenon
    <2>2. h = [i \in 0..n |-> h[i]]
      BY <1>5
    <2> QED
      BY <2>1, <2>2, Zenon
  <1> HIDE DEF mem
  <1>9. MemRow(mem)
    BY <1>8, Zenon DEF mem
  <1>10. h[n] = mem[n]
    <2>1. 0 \in 0..n /\ \A i \in 1..n : i \in 0..n /\ i # 0
      BY <1>1
    <2>2. h[0] = mem[0]
      BY <1>8, <1>9, <2>1, Zenon
    <2>3. ASSUME NEW i \in 1..n, h[i - 1] = mem[i - 1] PROVE h[i] = mem[i]
      <3>1. /\ h[i] = Writing!Level(h[i - 1], ops[i][1], ops[i][2])
            /\ mem[i] = Writing!Level(mem[i - 1], ops[i][1], ops[i][2])
        BY <1>8, <1>9, <2>1, Zenon
      <3> QED
        BY <2>3, <3>1, Zenon
    <2>4. Alike(h, mem, n)
      BY <2>2, <2>3, Zenon DEF Alike
    <2> QED
      BY <1>1, <2>4, GoOnAlike, Zenon
  <1> DEFINE m == h[n]
             own == [b \in 1..(n + 1) |-> m.arrays[b]]
  <1>11. /\ m \in Rubrics /\ Len(m.builder) = n + 1
         /\ \A b \in 1..(n + 1) : Path(m, b)
    <2>1. n \in 0..n
      BY <1>1
    <2> QED
      BY <1>5, <1>7, <2>1
  <1> HIDE DEF m, G
  <1>12. \A b \in 2..(n + 1) : ops[b - 1][1] \in 1..(b - 1) /\ ops[b - 1][1] \in 1..(n + 1)
    <2> TAKE b \in 2..(n + 1)
    <2>1. b - 1 \in 1..n
      BY <1>1
    <2>2. ops[b - 1][1] \in 1..(b - 1)
      BY <1>1, <2>1
    <2> QED
      BY <1>1, <2>1, <2>2
  <1>13. \A b \in 1..(n + 1) : own[b] = IF b = 1 THEN <<>>
             ELSE Append(own[ops[b - 1][1]], ops[b - 1][2])
    <2> TAKE b \in 1..(n + 1)
    <2>1. b # 1 => b \in 2..(n + 1)
      BY <1>1
    <2> QED
      BY <1>11, <1>12, <2>1
  <1>14. own = [b \in 1..(n + 1) |-> own[b]]
    OBVIOUS
  <1>15. \A b \in 1..(n + 1) : own[b] = Writing!Build(m, b)
    <2> TAKE b \in 1..(n + 1)
    <2>1. b \in 1..Len(m.builder)
      BY <1>11
    <2>2. m.builder[b] = [array |-> b, len |-> Len(m.arrays[b])]
          /\ m.arrays \in Seq(Seq(STRING)) /\ Len(m.arrays) = Len(m.builder)
      BY <1>11, <2>1 DEF Rubrics
    <2>3. m.builder[b].array = b /\ m.builder[b].len = Len(m.arrays[b])
      BY <2>2
    <2>4. m.arrays[b] \in Seq(STRING)
      BY <2>1, <2>2
    <2>5. SubSeq(m.arrays[b], 1, Len(m.arrays[b])) = m.arrays[b]
      BY <2>4, SubSeqFull
    <2>6. own[b] = m.arrays[b]
      OBVIOUS
    <2> QED
      BY <2>3, <2>5, <2>6, Zenon DEF Writing!Build
  <1> HIDE DEF own
  <1>16. PathRow(own)
    BY <1>13, <1>14, Zenon
  <1> HIDE DEF path
  <1>17. PathRow(path)
    BY <1>16, Zenon DEF path
  <1>18. \A b \in 1..(n + 1) : own[b] = path[b]
    <2> DEFINE T == {b \in 1..(n + 1) : own[b] # path[b]}
    <2>1. SUFFICES ASSUME T # {} PROVE FALSE
      OBVIOUS
    <2>2. T \in SUBSET Nat
      BY <1>1
    <2>3. PICK b \in T : \A c \in T : b <= c
      <3> HIDE DEF T
      <3> QED
        BY <2>1, <2>2, Least
    <2>4. b \in 1..(n + 1) /\ own[b] # path[b]
      BY <2>3
    <2>5. /\ own[b] = IF b = 1 THEN <<>> ELSE Append(own[ops[b - 1][1]], ops[b - 1][2])
          /\ path[b] = IF b = 1 THEN <<>> ELSE Append(path[ops[b - 1][1]], ops[b - 1][2])
      BY <1>16, <1>17, <2>4, Zenon
    <2>6. b # 1 /\ b \in 2..(n + 1)
      BY <1>1, <2>4, <2>5
    <2>7. ops[b - 1][1] \in 1..(b - 1) /\ ops[b - 1][1] \in 1..(n + 1)
      BY <1>12, <2>6
    <2>8. ~(b <= ops[b - 1][1])
      BY <1>1, <2>6, <2>7
    <2>9. own[ops[b - 1][1]] = path[ops[b - 1][1]]
      BY <2>3, <2>7, <2>8
    <2> QED
      BY <2>4, <2>5, <2>6, <2>9
  <1>19. \A b \in 1..(n + 1) : Writing!Build(mem[n], b) = path[b]
    BY <1>10, <1>15, <1>18, Zenon DEF m
  <1> QED
    BY <1>19, Zenon DEF Writing!BuildersIndependentFor, mem, path, n

-----------------------------------------------------------------------------
(* cmd/typesafe request.go splitList: what is left are the pieces that are  *)
(* not blank.                                                               *)
LEMMA SplitListIs ==
  ASSUME NEW pieces \in Seq(Int)
  PROVE  Writing!SplitList(pieces) \in Seq(Int \ {NoName})
  <1> DEFINE n == Len(pieces)
             S == Seq(Int \ {NoName})
             step == [p \in (1..n) \X S |->
                IF pieces[p[1]] = NoName THEN p[2] ELSE Append(p[2], pieces[p[1]])]
  <1>1. n \in Nat /\ \A i \in 1..n : pieces[i] \in Int
    OBVIOUS
  <1>2. <<>> \in S
    OBVIOUS
  <1>3. step \in [(1..n) \X S -> S]
    <2>1. ASSUME NEW p \in (1..n) \X S
          PROVE  (IF pieces[p[1]] = NoName THEN p[2]
                  ELSE Append(p[2], pieces[p[1]])) \in S
      <3>1. p[1] \in 1..n /\ p[2] \in S
        OBVIOUS
      <3>2. pieces[p[1]] \in Int
        BY <1>1, <3>1
      <3> QED
        BY <3>1, <3>2
    <2> QED
      BY <2>1
  <1>4. \A i \in 1..n, s \in S :
           step[<<i, s>>] = IF pieces[i] = NoName THEN s ELSE Append(s, pieces[i])
    OBVIOUS
  <1> HIDE DEF step, S, n
  <1>5. PICK h : Recurs(h, S, <<>>, step, n)
    BY <1>1, <1>2, <1>3, Recursion, Zenon
  <1>6. h \in [0..n -> S] /\ h[0] = <<>> /\ \A i \in 1..n : h[i] = step[<<i, h[i - 1]>>]
    BY <1>5 DEF Recurs
  <1> DEFINE out[i \in 0..n] ==
                IF i = 0 THEN <<>>
                ELSE IF pieces[i] = NoName THEN out[i - 1] ELSE Append(out[i - 1], pieces[i])
             Row(g) == g = [i \in 0..n |->
                IF i = 0 THEN <<>>
                ELSE IF pieces[i] = NoName THEN g[i - 1] ELSE Append(g[i - 1], pieces[i])]
  <1>7. Row(h)
    <2>1. \A i \in 0..n : h[i] = IF i = 0 THEN <<>>
                ELSE IF pieces[i] = NoName THEN h[i - 1] ELSE Append(h[i - 1], pieces[i])
      <3> TAKE i \in 0..n
      <3>1. i # 0 => i \in 1..n /\ i - 1 \in 0..n
        BY <1>1
      <3>2. i # 0 => h[i - 1] \in S
        BY <1>6, <3>1
      <3> QED
        BY <1>4, <1>6, <3>1, <3>2, Zenon
    <2>2. h = [i \in 0..n |-> h[i]]
      BY <1>6
    <2> QED
      BY <2>1, <2>2, Zenon
  <1> HIDE DEF out
  <1>8. Row(out)
    BY <1>7, Zenon DEF out
  <1>9. h[n] = out[n]
    <2>1. 0 \in 0..n /\ \A i \in 1..n : i \in 0..n /\ i # 0
      BY <1>1
    <2>2. h[0] = <<>> /\ out[0] = <<>>
      BY <1>7, <1>8, <2>1, Zenon
    <2>3. ASSUME NEW i \in 1..n, h[i - 1] = out[i - 1] PROVE h[i] = out[i]
      <3>1. /\ h[i] = IF pieces[i] = NoName THEN h[i - 1] ELSE Append(h[i - 1], pieces[i])
            /\ out[i] = IF pieces[i] = NoName THEN out[i - 1]
                        ELSE Append(out[i - 1], pieces[i])
        BY <1>7, <1>8, <2>1, Zenon
      <3> QED
        BY <2>3, <3>1, Zenon
    <2>4. Alike(h, out, n)
      BY <2>2, <2>3, Zenon DEF Alike
    <2> QED
      BY <1>1, <2>4, GoOnAlike, Zenon
  <1>10. h[n] \in S
    <2>1. n \in 0..n
      BY <1>1
    <2> QED
      BY <1>6, <2>1
  <1> QED
    BY <1>9, <1>10, Zenon DEF Writing!SplitList, out, n, S

(* validate.go: a rubric with a number of levels in the bounds is valid,    *)
(* with or without texts.                                                   *)
LEMMA RubricIs ==
  ASSUME NEW q, NEW n \in Nat, q.self = TRUE, q.kind = "score",
         DOMAIN q.criteria = 1..n, Len(q.criteria) = n,
         n >= 1, n <= MaxScoreLevels
  PROVE  Writing!ValidateQuestion(q) # Writing!Invalid
  <1>1. n \in MinScoreLevels..MaxScoreLevels
    BY LevelAssumption
  <1>2. Writing!ValidateQuestion(q)
          = Writing!Few(q) + Writing!Unexplained(q) + Writing!Quiet(q)
    BY <1>1 DEF Writing!ValidateQuestion
  <1>3. Writing!Unexplained(q) \in Nat
    <2> DEFINE T == {i \in DOMAIN q.criteria : q.criteria[i] = "nil"}
    <2>1. IsFiniteSet(1..n) /\ T \subseteq 1..n
      BY FS_Interval
    <2> HIDE DEF T
    <2>2. IsFiniteSet(T)
      BY <2>1, FS_Subset
    <2>3. Cardinality(T) \in Nat
      BY <2>2, FS_CardinalityType
    <2>4. Writing!Unexplained(q) = Cardinality(T)
      <3>1. Writing!Cardinality(T) = Cardinality(T)
        BY Zenon DEF Cardinality, Writing!Cardinality
      <3> QED
        BY <3>1, Zenon DEF T, Writing!Unexplained
    <2> QED
      BY <2>3, <2>4
  <1>4. Writing!Few(q) \in {0, 1} /\ Writing!Quiet(q) \in {0, 1}
    BY DEF Writing!Few, Writing!Quiet
  <1> HIDE DEF Writing!Few, Writing!Quiet, Writing!Unexplained
  <1> QED
    BY <1>2, <1>3, <1>4 DEF Writing!Invalid

(* cmd/typesafe request.go, validate.go: a question that the flags make is  *)
(* valid unless it has too many levels, whatever stood between the commas.  *)
THEOREM FlagsMakeValidQuestions ==
  ASSUME NEW flag, flag.kind \in {"noul", "choice", "score"},
         flag.pieces \in Seq(Int)
  PROVE  Writing!FlagsValidFor(flag)
  <1> DEFINE ps == Writing!SplitList(flag.pieces)
             q == Writing!FromFlag(flag)
             all == [id \in {flag.id} |-> q]
  <1>1. ps \in Seq(Int \ {NoName})
    BY SplitListIs
  <1> HIDE DEF ps
  <1>2. Len(ps) \in Nat /\ DOMAIN ps = 1..Len(ps)
        /\ \A i \in 1..Len(ps) : ps[i] # NoName
    BY <1>1
  <1> SUFFICES ASSUME flag.id # NoName,
                      flag.kind = "choice" => Len(ps) >= 2,
                      flag.kind = "score" => ps # <<>> /\ Len(ps) <= MaxScoreLevels
               PROVE  Writing!Validate(all)
    BY <1>2, LevelAssumption DEF Writing!FlagsValidFor, Writing!FromFlagRefuses, ps
  <1>3. Writing!ValidateQuestion(q) # Writing!Invalid
    <2>1. CASE flag.kind = "noul"
      <3>1. q = Writing!Question("noul", "text", Writing!NoCriteria)
        BY <2>1 DEF Writing!FromFlag
      <3> HIDE DEF q
      <3> QED
        BY <3>1 DEF Writing!Question, Writing!ValidateQuestion, Writing!Invalid
    <2>2. CASE flag.kind = "choice"
      <3> DEFINE crit == [o \in Writing!ToSet(ps) |-> "nil"]
      <3>1. q = Writing!Question("choice", "nil", crit)
        BY <2>2 DEF Writing!FromFlag, ps
      <3>2. DOMAIN crit # {} /\ NoName \notin DOMAIN crit
        <4>1. ps[1] \in Writing!ToSet(ps)
          BY <1>2, <2>2 DEF Writing!ToSet
        <4>2. NoName \notin Writing!ToSet(ps)
          BY <1>2 DEF Writing!ToSet
        <4> QED
          BY <4>1, <4>2
      <3> HIDE DEF q, crit
      <3>3. /\ q.kind = "choice" /\ q.self = TRUE /\ q.criteria = crit
        BY <3>1 DEF Writing!Question
      <3>4. Writing!ValidateQuestion(q) = Writing!Few(q) + Writing!Quiet(q)
        BY <3>2, <3>3 DEF Writing!ValidateQuestion
      <3> QED
        BY <3>4 DEF Writing!Few, Writing!Quiet, Writing!Invalid
    <2>3. CASE flag.kind = "score"
      <3> DEFINE crit == [i \in DOMAIN ps |-> "text"]
      <3>1. q = Writing!Question("score", "nil", crit)
        BY <2>3 DEF Writing!FromFlag, ps
      <3>2. Len(crit) = Len(ps) /\ DOMAIN crit = 1..Len(ps) /\ Len(ps) >= 1
        BY <1>1, <1>2, <2>3
      <3> HIDE DEF q, crit
      <3> QED
        <4>1. q.kind = "score" /\ q.self = TRUE /\ q.criteria = crit
          BY <3>1 DEF Writing!Question
        <4>2. Len(ps) <= MaxScoreLevels
          BY <2>3
        <4> QED
          BY <1>2, <3>2, <4>1, <4>2, RubricIs
    <2> QED
      BY <2>1, <2>2, <2>3
  <1>4. DOMAIN all = {flag.id} /\ all[flag.id] = q
    OBVIOUS
  <1> HIDE DEF all, q
  <1> QED
    BY <1>3, <1>4 DEF Writing!Validate

(* mcp.go buildQuestions: what an MCP call asks is valid, is sent as the    *)
(* type it named or as a noul, and sends no empty description of an option. *)
THEOREM ToolsAskTheSame ==
  ASSUME NEW arg, ToolArgument(arg)
  PROVE  Writing!ToolAgreesFor(arg)
  <1> DEFINE q == Writing!BuildQuestion(arg)
  <1> SUFFICES ASSUME ~Writing!BuildQuestionRefuses(arg), arg.instructions = "text",
                      arg.type = "choice" => NoName \notin DOMAIN arg.options
               PROVE  /\ Writing!ValidateQuestion(q) # Writing!Invalid
                            \/ (arg.type = "score" /\ Len(arg.levels) > MaxScoreLevels)
                      /\ Writing!Wire(q).type = IF arg.type = "empty" THEN "noul" ELSE arg.type
                      /\ arg.type \in {"noul", "empty"} =>
                            ("criteria" \in Writing!Wire(q).fields
                                <=> \E i \in DOMAIN arg.means : arg.means[i] = "text")
                      /\ arg.type = "choice" =>
                            /\ DOMAIN Writing!Wire(q).criteria = DOMAIN arg.options
                            /\ \A o \in DOMAIN arg.options :
                                  Writing!Wire(q).criteria[o] # "empty"
    BY Zenon DEF Writing!ToolAgreesFor
  <1>1. CASE arg.type \in {"noul", "empty"}
    <2> DEFINE crit == IF arg.means = <<"empty", "empty">> THEN Writing!NoCriteria
                       ELSE arg.means
    <2>1. q = Writing!Question("noul", arg.instructions, crit)
      BY <1>1 DEF Writing!BuildQuestion
    <2> HIDE DEF q, crit
    <2>2. Writing!ValidateQuestion(q) # Writing!Invalid
      BY <2>1 DEF Writing!Question, Writing!ValidateQuestion, Writing!Invalid
    <2>3. q.kind = "noul" /\ q.criteria = crit
      BY <2>1 DEF Writing!Question
    <2>4. Writing!Wire(q).type = "noul"
      BY <2>3 DEF Writing!Wire
    <2>5. "criteria" \in Writing!Wire(q).fields <=> q.criteria # Writing!NoCriteria
      BY <2>3 DEF Writing!Wire
    <2>6. crit # Writing!NoCriteria <=> \E i \in DOMAIN arg.means : arg.means[i] = "text"
      <3>1. /\ arg.means \in [1..2 -> {"empty", "text"}]
            /\ <<"empty", "empty">> \in [1..2 -> {"empty", "text"}]
        BY DEF ToolArgument
      <3>2. arg.means = <<"empty", "empty">> <=> arg.means[1] = "empty" /\ arg.means[2] = "empty"
        BY <3>1
      <3>3. arg.means # <<>>
        BY <3>1
      <3>4. DOMAIN arg.means = 1..2 /\ arg.means[1] \in {"empty", "text"}
            /\ arg.means[2] \in {"empty", "text"}
        BY <3>1
      <3> QED
        BY <3>2, <3>3, <3>4 DEF crit, Writing!NoCriteria
    <2>7. "criteria" \in Writing!Wire(q).fields <=> \E i \in DOMAIN arg.means : arg.means[i] = "text"
      BY <2>3, <2>5, <2>6, Zenon
    <2>8. arg.type # "choice"
      BY <1>1
    <2>9. Writing!Wire(q).type = IF arg.type = "empty" THEN "noul" ELSE arg.type
      BY <1>1, <2>4
    <2> QED
      BY <2>2, <2>7, <2>8, <2>9, Zenon
  <1>2. CASE arg.type = "choice"
    <2> DEFINE crit == [o \in DOMAIN arg.options |-> Writing!Described(arg.options[o])]
    <2>1. q = Writing!Question("choice", arg.instructions, crit)
      BY <1>2 DEF Writing!BuildQuestion
    <2>2. /\ DOMAIN crit = DOMAIN arg.options
          /\ \A o \in DOMAIN arg.options : crit[o] # "empty"
      BY DEF Writing!Described
    <2>3. DOMAIN arg.options # {} /\ NoName \notin DOMAIN arg.options
      BY <1>2 DEF Writing!BuildQuestionRefuses
    <2> HIDE DEF q, crit
    <2>4. q.kind = "choice" /\ q.self = TRUE /\ q.criteria = crit
      BY <2>1 DEF Writing!Question
    <2>5. Writing!ValidateQuestion(q) = Writing!Few(q) + Writing!Quiet(q)
      BY <2>2, <2>3, <2>4 DEF Writing!ValidateQuestion
    <2>6. Writing!ValidateQuestion(q) # Writing!Invalid
      BY <2>5 DEF Writing!Few, Writing!Quiet, Writing!Invalid
    <2>7. Writing!Wire(q).criteria = crit
      BY <2>4 DEF Writing!Wire
    <2>8. Writing!Wire(q).type = "choice"
      BY <2>4 DEF Writing!Wire
    <2>9. arg.type \notin {"noul", "empty"}
      BY <1>2
    <2>10. Writing!Wire(q).type = IF arg.type = "empty" THEN "noul" ELSE arg.type
      BY <1>2, <2>8
    <2> QED
      BY <2>2, <2>6, <2>7, <2>9, <2>10, Zenon
  <1>3. CASE arg.type = "score"
    <2>1. q = Writing!Question("score", arg.instructions, arg.levels)
      BY <1>3 DEF Writing!BuildQuestion
    <2>2. arg.levels \in Seq({"empty", "text"}) /\ arg.levels # <<>>
      BY <1>3 DEF Writing!BuildQuestionRefuses, ToolArgument
    <2>3. /\ DOMAIN arg.levels = 1..Len(arg.levels) /\ Len(arg.levels) \in Nat
          /\ Len(arg.levels) >= 1
      BY <2>2
    <2> HIDE DEF q
    <2>4. q.kind = "score" /\ q.self = TRUE /\ q.criteria = arg.levels
      BY <2>1 DEF Writing!Question
    <2>5. Len(arg.levels) <= MaxScoreLevels => Writing!ValidateQuestion(q) # Writing!Invalid
      BY <2>3, <2>4, RubricIs
    <2>6. Writing!Wire(q).type = "score"
      BY <2>4 DEF Writing!Wire
    <2>7. arg.type \notin {"noul", "empty", "choice"}
      BY <1>3
    <2>8. Writing!Wire(q).type = IF arg.type = "empty" THEN "noul" ELSE arg.type
      BY <1>3, <2>6
    <2>9. Writing!ValidateQuestion(q) # Writing!Invalid \/ Len(arg.levels) > MaxScoreLevels
      BY <2>3, <2>5, LevelAssumption
    <2>10. arg.type \notin {"noul", "empty"} /\ arg.type # "choice"
      BY <2>7
    <2> QED
      BY <1>3, <2>8, <2>9, <2>10, Zenon
  <1>4. arg.type \in {"noul", "empty", "choice", "score"}
    BY DEF Writing!BuildQuestionRefuses
  <1> QED
    BY <1>1, <1>2, <1>3, <1>4

-----------------------------------------------------------------------------
(* A question is the same question in whatever way it was written, whatever *)
(* the bounds on levels.                                                    *)
THEOREM QuestionsDoAgree == InputSane => QuestionsAgree
  <1> SUFFICES ASSUME InputSane PROVE QuestionsAgree
    OBVIOUS
  <1>1. FormsAgree
    BY FormsOfAQuestionAgree DEF InputSane, FormsAgree
  <1>2. BuildersIndependent
    BY BuildersStayIndependent DEF InputSane, BuildersIndependent
  <1>3. FlagsValid
    BY FlagsMakeValidQuestions DEF InputSane, FlagsValid
  <1>4. ToolAgrees
    BY ToolsAskTheSame DEF InputSane, ToolAgrees
  <1> QED
    BY <1>1, <1>2, <1>3, <1>4 DEF QuestionsAgree
-----------------------------------------------------------------------------

(* A finite set with a strict order is listed by it.                        *)
LEMMA Listed ==
  ASSUME NEW S, IsFiniteSet(S), NEW R,
         \A x \in S : <<x, x>> \notin R,
         \A x, y, z \in S : <<x, y>> \in R /\ <<y, z>> \in R => <<x, z>> \in R,
         \A x, y \in S : x # y => <<x, y>> \in R \/ <<y, x>> \in R
  PROVE  \E s \in [1..Cardinality(S) -> S] :
            \A i, j \in 1..Cardinality(S) : i < j => <<s[i], s[j]>> \in R
  <1> DEFINE n == Cardinality(S)
             Below(x) == {y \in S : <<y, x>> \in R}
             rank == [x \in S |-> Cardinality(Below(x)) + 1]
             s == [i \in 1..n |-> CHOOSE x \in S : rank[x] = i]
  <1>1. n \in Nat /\ \A x \in S : IsFiniteSet(Below(x)) /\ Cardinality(Below(x)) \in Nat
    <2>1. \A x \in S : Below(x) \in SUBSET S
      OBVIOUS
    <2> HIDE DEF Below
    <2> QED
      BY <2>1, FS_Subset, FS_CardinalityType
  <1>2. ASSUME NEW x \in S PROVE rank[x] \in 1..n
    <2>1. Below(x) \in SUBSET S /\ Below(x) # S
      OBVIOUS
    <2> HIDE DEF Below
    <2>2. Cardinality(Below(x)) <= n /\ Cardinality(Below(x)) # n
      BY <2>1, FS_Subset
    <2> QED
      BY <1>1, <2>2
  <1>3. ASSUME NEW x \in S, NEW y \in S, <<x, y>> \in R PROVE rank[x] < rank[y]
    <2>1. Below(x) \in SUBSET Below(y) /\ x \in Below(y) /\ x \notin Below(x)
      BY <1>3
    <2> HIDE DEF Below
    <2>2. Cardinality(Below(x)) <= Cardinality(Below(y))
          /\ Cardinality(Below(x)) # Cardinality(Below(y))
      BY <1>1, <2>1, FS_Subset
    <2> QED
      BY <1>1, <2>2
  <1> HIDE DEF rank
  <1>4. rank \in Injection(S, 1..n)
    <2>1. rank \in [S -> 1..n]
      BY <1>2 DEF rank
    <2>2. ASSUME NEW x \in S, NEW y \in S, x # y PROVE rank[x] # rank[y]
      <3>1. rank[x] \in Int /\ rank[y] \in Int
        BY <1>2
      <3>2. <<x, y>> \in R => rank[x] < rank[y]
        BY <1>3
      <3>3. <<y, x>> \in R => rank[y] < rank[x]
        BY <1>3
      <3>4. <<x, y>> \in R \/ <<y, x>> \in R
        BY <2>2
      <3> QED
        BY <3>1, <3>2, <3>3, <3>4
    <2> QED
      BY <2>1, <2>2 DEF Injection, IsInjective
  <1>5. \A i \in 1..n : \E x \in S : rank[x] = i
    <2>1. IsFiniteSet(1..n) /\ Cardinality(1..n) = n
      BY <1>1, FS_Interval
    <2> HIDE DEF n
    <2>2. rank \in Surjection(S, 1..n)
      BY <1>4, <2>1, FS_Injection DEF n
    <2> QED
      BY <2>2 DEF Surjection
  <1>6. \A i \in 1..n : s[i] \in S /\ rank[s[i]] = i
    BY <1>5
  <1>7. s \in [1..n -> S]
    BY <1>5
  <1> HIDE DEF s
  <1>8. ASSUME NEW i \in 1..n, NEW j \in 1..n, i < j PROVE <<s[i], s[j]>> \in R
    <2>1. s[i] \in S /\ s[j] \in S /\ rank[s[i]] = i /\ rank[s[j]] = j
      BY <1>6
    <2>2. s[i] # s[j]
      BY <1>8, <2>1
    <2>3. ~(<<s[j], s[i]>> \in R)
      <3>1. <<s[j], s[i]>> \in R => rank[s[j]] < rank[s[i]]
        BY <1>3, <2>1
      <3> QED
        BY <1>8, <2>1, <3>1
    <2> QED
      BY <2>1, <2>2, <2>3
  <1> QED
    BY <1>7, <1>8

(* A list of as many different members as a set has, has them all.          *)
LEMMA AllListed ==
  ASSUME NEW S, IsFiniteSet(S), NEW s \in [1..Cardinality(S) -> S],
         \A i, j \in 1..Cardinality(S) : i # j => s[i] # s[j]
  PROVE  \A x \in S : \E i \in 1..Cardinality(S) : s[i] = x
  <1>1. Cardinality(S) \in Nat
    BY FS_CardinalityType
  <1>2. Cardinality(1..Cardinality(S)) = Cardinality(S)
    BY <1>1, FS_Interval
  <1>3. s \in Injection(1..Cardinality(S), S)
    BY DEF Injection, IsInjective
  <1>4. s \in Surjection(1..Cardinality(S), S)
    BY <1>2, <1>3, FS_Injection
  <1> QED
    BY <1>4 DEF Surjection

-----------------------------------------------------------------------------
(* choice.go, typesafetest: x is ranked before y.                           *)
Ahead(p, x, y) == Better(p[x], p[y], x, y)
Leads(p, x) == x \in DOMAIN p /\ \A y \in DOMAIN p : x # y => Ahead(p, x, y)

(* choice.go: only one option leads.                                        *)
LEMMA OneLeads ==
  ASSUME NEW p, CannedChoice(p), NEW x, NEW y, Leads(p, x), Leads(p, y)
  PROVE  x = y
  <1> SUFFICES ASSUME x # y PROVE FALSE
    OBVIOUS
  <1>1. x \in Nat /\ y \in Nat /\ p[x] \in Nat /\ p[y] \in Nat
    BY DEF Leads, CannedChoice
  <1>2. Ahead(p, x, y) /\ Ahead(p, y, x)
    BY DEF Leads
  <1> QED
    BY <1>1, <1>2 DEF Ahead, Better

(* choice.go Ranked: all the options, the leading one first.                *)
LEMMA RankedIs ==
  ASSUME NEW p, CannedChoice(p), NEW a, a.probabilities = p,
         NEW s, s = Ranked(a), NEW n, n = Cardinality(DOMAIN p)
  PROVE  /\ n \in Nat /\ s \in [1..n -> DOMAIN p] /\ Len(s) = n
         /\ \A i, j \in 1..n : i < j => Ahead(p, s[i], s[j])
         /\ n > 0 => Leads(p, s[1])
  <1> DEFINE S == DOMAIN p
             R == {r \in S \X S : Ahead(p, r[1], r[2])}
             InOrder(t) == \A i, j \in DOMAIN t : i < j => Ahead(p, t[i], t[j])
  <1>1. IsFiniteSet(S) /\ S \subseteq Nat /\ \A x \in S : p[x] \in Nat
    BY DEF CannedChoice
  <1>2. n \in Nat /\ n = Cardinality(S)
    BY <1>1, FS_CardinalityType
  <1>3. \A x, y \in S : <<x, y>> \in R <=> Ahead(p, x, y)
    OBVIOUS
  <1>4. /\ \A x \in S : ~Ahead(p, x, x)
        /\ \A x, y, z \in S : Ahead(p, x, y) /\ Ahead(p, y, z) => Ahead(p, x, z)
        /\ \A x, y \in S : x # y => Ahead(p, x, y) \/ Ahead(p, y, x)
    BY <1>1 DEF Ahead, Better
  <1> HIDE DEF R, S
  <1>5. PICK t \in [1..n -> S] : \A i, j \in 1..n : i < j => <<t[i], t[j]>> \in R
    <2>1. \A x \in S : <<x, x>> \notin R
      BY <1>3, <1>4
    <2>2. \A x, y, z \in S : <<x, y>> \in R /\ <<y, z>> \in R => <<x, z>> \in R
      BY <1>3, <1>4
    <2>3. \A x, y \in S : x # y => <<x, y>> \in R \/ <<y, x>> \in R
      BY <1>3, <1>4
    <2> QED
      BY <1>1, <1>2, <2>1, <2>2, <2>3, Listed
  <1>6. t \in [1..n -> S] /\ InOrder(t)
    BY <1>3, <1>5
  <1>7. s = CHOOSE u \in [1..n -> S] : InOrder(u)
    BY <1>2, Zenon DEF Ranked, S, Ahead
  <1>8. s \in [1..n -> S] /\ InOrder(s)
    <2> HIDE DEF InOrder
    <2> QED
      BY <1>6, <1>7, Zenon
  <1>9. \A i, j \in 1..n : i < j => Ahead(p, s[i], s[j])
    BY <1>8
  <1>10. ASSUME n > 0 PROVE Leads(p, s[1])
    <2>1. 1 \in 1..n /\ s[1] \in S
      BY <1>2, <1>8, <1>10
    <2>2. \A i, j \in 1..n : i # j => s[i] # s[j]
      <3> SUFFICES ASSUME NEW i \in 1..n, NEW j \in 1..n, i # j, s[i] = s[j]
                   PROVE  FALSE
        OBVIOUS
      <3>1. i < j \/ j < i
        BY <1>2
      <3>2. s[i] \in S
        BY <1>8
      <3> QED
        BY <1>4, <1>9, <3>1, <3>2
    <2>3. \A x \in S : \E i \in 1..n : s[i] = x
      BY <1>1, <1>2, <1>8, <2>2, AllListed
    <2>4. ASSUME NEW x \in S, s[1] # x PROVE Ahead(p, s[1], x)
      <3>1. PICK i \in 1..n : s[i] = x
        BY <2>3
      <3>2. 1 < i
        BY <1>2, <2>4, <3>1
      <3> QED
        BY <1>9, <2>1, <3>1, <3>2
    <2> QED
      BY <2>1, <2>4 DEF Leads, S
  <1>11. Len(s) = n
    BY <1>2, <1>8
  <1> QED
    BY <1>2, <1>8, <1>9, <1>10, <1>11 DEF S

(* typesafetest Choice: the leading option, in whatever order the map is    *)
(* walked.                                                                  *)
LEMMA BuiltChoiceIs ==
  ASSUME NEW p, CannedChoice(p), DOMAIN p # {}, NEW order \in SetToSeqs(DOMAIN p)
  PROVE  Leads(p, BuiltChoice(p, order))
  <1> DEFINE S == DOMAIN p
             n == Len(order)
             Lead(i, c) == IF c = 0 \/ Better(p[order[i]], p[c], order[i], c)
                           THEN order[i] ELSE c
             step == [q \in (1..n) \X Nat |-> Lead(q[1], q[2])]
  <1>1. IsFiniteSet(S) /\ S \subseteq Nat \ {0} /\ \A x \in S : p[x] \in Nat
    BY DEF CannedChoice
  <1>2. /\ order \in [1..Cardinality(S) -> S] /\ Cardinality(S) \in Nat
        /\ \A i, j \in 1..Cardinality(S) : i # j => order[i] # order[j]
    BY <1>1, FS_CardinalityType DEF SetToSeqs
  <1>3. n = Cardinality(S) /\ n \in Nat
    BY <1>2
  <1>4. \A x \in S : \E i \in 1..n : order[i] = x
    BY <1>1, <1>2, <1>3, AllListed
  <1>5. \A i \in 1..n : order[i] \in S /\ order[i] \in Nat /\ order[i] # 0
    BY <1>1, <1>2, <1>3
  <1>6. n > 0
    BY <1>3, <1>4
  <1> HIDE DEF n, S
  <1>7. step \in [(1..n) \X Nat -> Nat]
    <2>1. ASSUME NEW q \in (1..n) \X Nat PROVE Lead(q[1], q[2]) \in Nat
      <3>1. q[1] \in 1..n /\ q[2] \in Nat
        OBVIOUS
      <3> QED
        BY <1>5, <3>1
    <2> HIDE DEF Lead
    <2> QED
      BY <2>1
  <1>8. \A i \in 1..n, c \in Nat : step[<<i, c>>] = Lead(i, c)
    OBVIOUS
  <1> HIDE DEF step, Lead
  <1>9. PICK h : Recurs(h, Nat, 0, step, n)
    <2>1. 0 \in Nat
      OBVIOUS
    <2> QED
      BY <1>3, <1>7, <2>1, Recursion, Zenon
  <1>10. /\ h \in [0..n -> Nat] /\ h[0] = 0
         /\ \A i \in 1..n : h[i] = Lead(i, h[i - 1])
    <2>1. h \in [0..n -> Nat] /\ h[0] = 0
      BY <1>9 DEF Recurs
    <2>2. ASSUME NEW i \in 1..n PROVE h[i] = Lead(i, h[i - 1])
      <3>1. i - 1 \in 0..n
        BY <1>3
      <3>2. h[i - 1] \in Nat /\ h[i] = step[<<i, h[i - 1]>>]
        BY <1>9, <2>1, <3>1 DEF Recurs
      <3> QED
        BY <1>8, <3>2, Zenon
    <2> QED
      BY <2>1, <2>2
  <1> DEFINE best[i \in 0..n] ==
                IF i = 0 THEN 0
                ELSE IF best[i - 1] = 0
                        \/ Better(p[order[i]], p[best[i - 1]], order[i], best[i - 1])
                     THEN order[i] ELSE best[i - 1]
             Row(g) == g = [i \in 0..n |->
                IF i = 0 THEN 0
                ELSE IF g[i - 1] = 0
                        \/ Better(p[order[i]], p[g[i - 1]], order[i], g[i - 1])
                     THEN order[i] ELSE g[i - 1]]
  <1>11. Row(h)
    <2>1. \A i \in 0..n : h[i] = IF i = 0 THEN 0
                ELSE IF h[i - 1] = 0
                        \/ Better(p[order[i]], p[h[i - 1]], order[i], h[i - 1])
                     THEN order[i] ELSE h[i - 1]
      <3> TAKE i \in 0..n
      <3>1. i # 0 => i \in 1..n
        BY <1>3
      <3> QED
        BY <1>10, <3>1, Zenon DEF Lead
    <2>2. h = [i \in 0..n |-> h[i]]
      BY <1>10
    <2> QED
      BY <2>1, <2>2, Zenon
  <1> HIDE DEF best
  <1>12. Row(best)
    BY <1>11, Zenon DEF best
  <1>13. h[n] = best[n]
    <2>1. 0 \in 0..n /\ \A i \in 1..n : i \in 0..n /\ i # 0
      BY <1>3
    <2>2. h[0] = 0 /\ best[0] = 0
      BY <1>11, <1>12, <2>1, Zenon
    <2>3. ASSUME NEW i \in 1..n, h[i - 1] = best[i - 1] PROVE h[i] = best[i]
      <3>1. h[i] = Lead(i, h[i - 1]) /\ best[i] = Lead(i, best[i - 1])
        BY <1>11, <1>12, <2>1, Zenon DEF Lead
      <3> QED
        BY <2>3, <3>1, Zenon
    <2>4. Alike(h, best, n)
      BY <2>2, <2>3, Zenon DEF Alike
    <2> QED
      BY <1>3, <2>4, GoOnAlike, Zenon
  <1> DEFINE Ahead1(x, y) == x = y \/ Ahead(p, x, y)
             G == {i \in 0..n : i > 0 =>
                     h[i] \in S /\ \A j \in 1..i : Ahead1(h[i], order[j])}
  <1>14. \A i \in 0..n : i \in G
    <2>1. 0 \in G
      BY <1>3
    <2>2. ASSUME NEW i \in 1..n, i - 1 \in G PROVE i \in G
      <3> DEFINE c == h[i - 1]
                 x == order[i]
      <3>1. x \in S /\ c \in Nat /\ h[i] = Lead(i, c) /\ i - 1 \in 0..n /\ i \in 0..n
        BY <1>3, <1>5, <1>10
      <3>2. i = 1 => c = 0
        BY <1>10
      <3>3. i # 1 => c \in S /\ c # 0 /\ \A j \in 1..(i - 1) : Ahead1(c, order[j])
        BY <1>1, <2>2
      <3>4. \A j \in 1..i : j = i \/ (i # 1 /\ j \in 1..(i - 1))
        OBVIOUS
      <3>5. Lead(i, c) = IF c = 0 \/ Ahead(p, x, c) THEN x ELSE c
        BY Zenon DEF Lead, Ahead
      <3> HIDE DEF c, x
      <3>6. \A j \in 1..n : order[j] \in S
        BY <1>5
      <3>7. CASE c = 0
        <4>1. i = 1 /\ h[i] = x
          BY <3>1, <3>3, <3>5, <3>7
        <4>2. \A j \in 1..i : order[j] = x
          BY <4>1 DEF x
        <4> QED
          BY <3>1, <4>1, <4>2
      <3>8. CASE c # 0 /\ Ahead(p, x, c)
        <4>1. h[i] = x /\ i # 1 /\ c \in S
          BY <3>1, <3>2, <3>3, <3>5, <3>8
        <4>2. ASSUME NEW j \in 1..i PROVE Ahead1(x, order[j])
          <5>1. CASE j = i
            BY <5>1 DEF x
          <5>2. CASE j # i
            <6>1. j \in 1..(i - 1) /\ j \in 1..n
              BY <1>3, <5>2
            <6> DEFINE y == order[j]
            <6>2. Ahead1(c, y) /\ y \in S
              BY <3>3, <3>6, <4>1, <6>1
            <6>3. /\ x \in Nat /\ c \in Nat /\ y \in Nat
                  /\ p[x] \in Nat /\ p[c] \in Nat /\ p[y] \in Nat
              BY <1>1, <3>1, <4>1, <6>2
            <6> HIDE DEF y
            <6>4. Ahead(p, x, y)
              BY <3>8, <6>2, <6>3 DEF Ahead, Better
            <6> QED
              BY <6>4 DEF y
          <5> QED
            BY <5>1, <5>2
        <4> QED
          BY <3>1, <4>1, <4>2
      <3>9. CASE c # 0 /\ ~Ahead(p, x, c)
        <4>1. h[i] = c /\ i # 1 /\ c \in S
          BY <3>1, <3>2, <3>3, <3>5, <3>9
        <4>2. ASSUME NEW j \in 1..i PROVE Ahead1(c, order[j])
          <5>1. CASE j = i
            <6>1. Ahead1(c, x)
              BY <1>1, <3>1, <3>9, <4>1 DEF Ahead, Better
            <6> QED
              BY <5>1, <6>1 DEF x
          <5>2. CASE j # i
            BY <3>3, <4>1, <5>2
          <5> QED
            BY <5>1, <5>2
        <4> QED
          BY <3>1, <4>1, <4>2
      <3> QED
        BY <3>7, <3>8, <3>9
    <2> HIDE DEF G
    <2> QED
      BY <1>3, <2>1, <2>2, UpTo
  <1>15. h[n] \in S /\ \A j \in 1..n : Ahead1(h[n], order[j])
    <2>1. n \in G
      BY <1>3, <1>14
    <2> QED
      BY <1>6, <2>1
  <1>16. \A y \in S : h[n] # y => Ahead(p, h[n], y)
    BY <1>4, <1>15
  <1>17. BuiltChoice(p, order) = best[n]
    BY Zenon DEF BuiltChoice, best, n
  <1> QED
    BY <1>13, <1>15, <1>16, <1>17 DEF Leads, S

(* typesafetest, choice.go: the option a canned choice is built around is   *)
(* the one that is ranked first, by no negative margin.                     *)
THEOREM CannedChoicesLead ==
  ASSUME NEW p, CannedChoice(p)
  PROVE  BuiltChoiceLeadsFor(p)
  <1> DEFINE a == [probabilities |-> p]
             s == Ranked(a)
             n == Cardinality(DOMAIN p)
  <1> SUFFICES ASSUME DOMAIN p # {}
               PROVE  /\ \A order \in SetToSeqs(DOMAIN p) : BuiltChoice(p, order) = s[1]
                      /\ Margin(a) \in 0..p[s[1]]
    BY Zenon DEF BuiltChoiceLeadsFor
  <1>1. a.probabilities = p
    OBVIOUS
  <1> HIDE DEF a
  <1>2. /\ n \in Nat /\ s \in [1..n -> DOMAIN p] /\ Len(s) = n
        /\ \A i, j \in 1..n : i < j => Ahead(p, s[i], s[j])
        /\ n > 0 => Leads(p, s[1])
    <2> HIDE DEF n, s
    <2> QED
      BY <1>1, RankedIs DEF n, s
  <1>3. n > 0
    BY <1>2, FS_EmptySet DEF CannedChoice
  <1> HIDE DEF n
  <1>4. ASSUME NEW order \in SetToSeqs(DOMAIN p) PROVE BuiltChoice(p, order) = s[1]
    BY <1>2, <1>3, BuiltChoiceIs, OneLeads
  <1>5. \A x \in DOMAIN p : p[x] \in Nat
    BY DEF CannedChoice
  <1>6. Margin(a) \in 0..p[s[1]]
    <2>1. CASE n = 1
      <3>1. Margin(a) = p[s[1]]
        BY <1>1, <1>2, <2>1 DEF Margin
      <3>2. p[s[1]] \in Nat
        BY <1>2, <1>5, <2>1
      <3> QED
        BY <3>1, <3>2
    <2>2. CASE n # 1
      <3>1. Margin(a) = p[s[1]] - p[s[2]]
        BY <1>1, <1>2, <1>3, <2>2 DEF Margin
      <3>2. 1 \in 1..n /\ 2 \in 1..n
        BY <1>2, <1>3, <2>2
      <3>3. p[s[1]] \in Nat /\ p[s[2]] \in Nat
        BY <1>2, <1>5, <3>2
      <3>4. p[s[1]] >= p[s[2]]
        <4>1. Ahead(p, s[1], s[2])
          BY <1>2, <3>2
        <4> QED
          BY <3>3, <4>1 DEF Ahead, Better
      <3> QED
        BY <3>1, <3>3, <3>4
    <2> QED
      BY <2>1, <2>2
  <1> QED
    BY <1>4, <1>6

-----------------------------------------------------------------------------
(* answer.go, mcp.go, otel.go: for every response, whichever of its answers *)
(* decode.                                                                  *)
THEOREM ConsumersAlwaysAgree ==
  ASSUME NEW resp, ResponseSane(resp)
  PROVE  ConsumersAgreeFor(resp)
  <1>1. ASSUME NEW id \in DOMAIN resp, NEW t
        PROVE  Read(resp, id, t) = "ok" <=> resp[id].type = t /\ resp[id].decodes
    BY DEF Read
  <1>2. ASSUME NEW id \in DOMAIN resp
        PROVE  id \in All(resp) <=> resp[id].type \in Primitives /\ resp[id].decodes
    <2>1. Answer(resp, id) = "ok" <=> resp[id].type \in Primitives /\ resp[id].decodes
      <3>1. CASE resp[id].type \in Primitives
        <4>1. Answer(resp, id) = Read(resp, id, resp[id].type)
          BY <3>1 DEF Answer
        <4> QED
          BY <1>1, <3>1, <4>1
      <3>2. CASE resp[id].type \notin Primitives
        BY <3>2 DEF Answer
      <3> QED
        BY <3>1, <3>2
    <2> QED
      BY <2>1 DEF All
  <1>3. ASSUME NEW id \in DOMAIN resp, NEW t
        PROVE  id \in Grouped(resp, t) <=> resp[id].type = t /\ resp[id].decodes
    BY <1>1 DEF Grouped
  <1>4. \A t : Grouped(resp, t) \subseteq DOMAIN resp
    BY DEF Grouped
  <1>5. All(resp) \subseteq DOMAIN resp
    BY DEF All
  <1>6. All(resp) = UNION {Grouped(resp, t) : t \in Primitives}
    BY <1>2, <1>3, <1>4, <1>5
  <1>7. ASSUME NEW t1 \in Primitives, NEW t2 \in Primitives, t1 # t2
        PROVE  Grouped(resp, t1) \cap Grouped(resp, t2) = {}
    BY <1>3, <1>4, <1>7
  <1>8. ASSUME NEW id \in DOMAIN resp
        PROVE  /\ Confidence(resp, id) # NoConfidence
                    <=> id \in Grouped(resp, "choice") \cup Grouped(resp, "score")
               /\ id \in All(resp) =>
                    Summarize(resp)[id].confidence = Confidence(resp, id)
               /\ id \in Grouped(resp, "choice") \cup Grouped(resp, "score") =>
                    Observed(resp)[id][2] = Confidence(resp, id)
    <2>1. resp[id].confidence \in Nat
      BY DEF ResponseSane
    <2>2. Confidence(resp, id) =
            IF id \in All(resp) /\ resp[id].type # "noul"
            THEN resp[id].confidence ELSE NoConfidence
      BY DEF Confidence, All
    <2>3. id \in Grouped(resp, "choice") \cup Grouped(resp, "score")
            <=> id \in All(resp) /\ resp[id].type # "noul"
      BY <1>2, <1>3 DEF Primitives
    <2>4. ASSUME id \in All(resp)
          PROVE  /\ Summarize(resp)[id].confidence =
                      IF resp[id].type = "noul" THEN NoConfidence
                      ELSE resp[id].confidence
                 /\ Observed(resp)[id][2] =
                      IF resp[id].type = "noul" THEN resp[id].noul
                      ELSE resp[id].confidence
      BY <2>4 DEF Summarize, Observed
    <2> QED
      BY <2>1, <2>2, <2>3, <2>4 DEF NoConfidence
  <1> QED
    BY <1>6, <1>7, <1>8 DEF ConsumersAgreeFor

(* typed.go Exhaustive: for any declared options and any answer.            *)
THEOREM DriftIsNoticed ==
  ASSUME NEW options \in Seq(Nat), NEW a
  PROVE  DriftNoticedFor(options, a)
  <1> SUFFICES ASSUME options # <<>>, ~TypedChoiceAnswer(options, a).error
               PROVE  \E i \in DOMAIN options : options[i] = a.choice
    BY DEF DriftNoticedFor, TypedChoiceAnswer
  <1>1. ToSet(options) # {}
    <2>1. 1 \in DOMAIN options
      OBVIOUS
    <2> QED
      BY <2>1 DEF ToSet
  <1>2. Exhaustive(a, ToSet(options))
    BY DEF TypedChoiceAnswer
  <1>3. a.choice \in ToSet(options)
    BY <1>1, <1>2 DEF Exhaustive
  <1> QED
    BY <1>3 DEF ToSet

-----------------------------------------------------------------------------
(* typed.go: an answer whose keys are all levels.                           *)
Keyed(t) ==
    /\ IsFiniteSet(LevelKeys(t)) /\ LevelKeys(t) \subseteq Nat
    /\ \A k \in LevelKeys(t) : t.probabilities[k] \in Nat

(* score.go sortedIndexKeys: all the keys, in the order of the levels.      *)
LEMMA KeysInOrder ==
  ASSUME NEW t, Keyed(t), NEW s, s = SortedIndexKeys(t),
         NEW n, n = Cardinality(LevelKeys(t))
  PROVE  /\ n \in Nat /\ s \in [1..n -> LevelKeys(t)] /\ Len(s) = n
         /\ \A i, j \in 1..n : i < j => s[i] < s[j]
         /\ \A k \in LevelKeys(t) : \E i \in 1..n : s[i] = k
  <1> DEFINE K == LevelKeys(t)
             R == {r \in K \X K : r[1] < r[2]}
             InOrder(u) == \A i, j \in DOMAIN u : i < j => Before(u[i], u[j])
  <1>1. IsFiniteSet(K) /\ K \subseteq Nat
    BY DEF Keyed
  <1>2. n \in Nat /\ n = Cardinality(K)
    BY <1>1, FS_CardinalityType
  <1>3. \A x, y \in K : (<<x, y>> \in R <=> x < y) /\ (Before(x, y) <=> x < y)
    BY <1>1, ProbabilityAssumption DEF Before
  <1> HIDE DEF R, K
  <1>4. PICK u \in [1..n -> K] : \A i, j \in 1..n : i < j => <<u[i], u[j]>> \in R
    <2>1. \A x \in K : <<x, x>> \notin R
      BY <1>1, <1>3
    <2>2. \A x, y, z \in K : <<x, y>> \in R /\ <<y, z>> \in R => <<x, z>> \in R
      <3> TAKE x, y, z \in K
      <3>1. x \in Nat /\ y \in Nat /\ z \in Nat
        BY <1>1
      <3> QED
        BY <1>3, <3>1
    <2>3. \A x, y \in K : x # y => <<x, y>> \in R \/ <<y, x>> \in R
      <3> TAKE x, y \in K
      <3>1. x \in Nat /\ y \in Nat
        BY <1>1
      <3> QED
        BY <1>3, <3>1
    <2> QED
      BY <1>1, <1>2, <2>1, <2>2, <2>3, Listed
  <1>5. u \in [1..n -> K] /\ InOrder(u)
    BY <1>3, <1>4
  <1>6. s = CHOOSE v \in [1..n -> K] : InOrder(v)
    BY <1>2, Zenon DEF SortedIndexKeys, K
  <1>7. s \in [1..n -> K] /\ InOrder(s)
    <2> HIDE DEF InOrder
    <2> QED
      BY <1>5, <1>6, Zenon
  <1>8. \A i, j \in 1..n : i < j => s[i] < s[j]
    BY <1>3, <1>7
  <1>9. \A i, j \in 1..n : i # j => s[i] # s[j]
    <2> TAKE i, j \in 1..n
    <2>1. s[i] \in K /\ s[j] \in K
      BY <1>7
    <2>3. s[i] \in Nat /\ s[j] \in Nat
      BY <1>1, <2>1
    <2>4. i < j \/ j < i \/ i = j
      BY <1>2
    <2>2. (i < j => s[i] < s[j]) /\ (j < i => s[j] < s[i])
      BY <1>8
    <2> QED
      BY <2>2, <2>3, <2>4
  <1>10. \A k \in K : \E i \in 1..n : s[i] = k
    BY <1>1, <1>2, <1>7, <1>9, AllListed
  <1>11. Len(s) = n
    BY <1>2, <1>7
  <1> QED
    BY <1>2, <1>7, <1>8, <1>10, <1>11 DEF K

(* The lowest of the levels that no other is more likely than.              *)
LowestBest(t, r) ==
    /\ r \in LevelKeys(t)
    /\ \A k \in LevelKeys(t) :
          /\ t.probabilities[k] <= t.probabilities[r]
          /\ t.probabilities[k] = t.probabilities[r] => r <= k

(* typed.go MostLikely: the loop over the sorted levels, which keeps the     *)
(* first of the likeliest, ends at the lowest of them.                      *)
LEMMA TypedMostLikelyIs ==
  ASSUME NEW t, Keyed(t)
  PROVE  IF LevelKeys(t) = {} THEN TypedMostLikely(t) = 0
         ELSE LowestBest(t, TypedMostLikely(t))
  <1> DEFINE K == LevelKeys(t)
             p == t.probabilities
             s == SortedIndexKeys(t)
             n == Len(s)
             Lead(i, c) == IF c = -1 \/ p[s[i]] > p[c] THEN s[i] ELSE c
             step == [q \in (1..n) \X Int |-> Lead(q[1], q[2])]
  <1>1. IsFiniteSet(K) /\ K \subseteq Nat /\ \A k \in K : p[k] \in Nat
    BY DEF Keyed
  <1>2. /\ n \in Nat /\ s \in [1..n -> K]
        /\ \A i, j \in 1..n : i < j => s[i] < s[j]
        /\ \A k \in K : \E i \in 1..n : s[i] = k
    <2> DEFINE c == Cardinality(K)
    <2>1. /\ c \in Nat /\ s \in [1..c -> K] /\ Len(s) = c
          /\ \A i, j \in 1..c : i < j => s[i] < s[j]
          /\ \A k \in K : \E i \in 1..c : s[i] = k
      <3> HIDE DEF c, s
      <3> QED
        BY KeysInOrder DEF c, s
    <2> HIDE DEF c, s
    <2> QED
      BY <2>1
  <1> HIDE DEF n, s, K, p
  <1>3. \A i \in 1..n : s[i] \in K /\ s[i] \in Nat /\ p[s[i]] \in Nat
    BY <1>1, <1>2
  <1>4. step \in [(1..n) \X Int -> Int]
    <2>1. ASSUME NEW q \in (1..n) \X Int PROVE Lead(q[1], q[2]) \in Int
      <3>1. q[1] \in 1..n /\ q[2] \in Int
        OBVIOUS
      <3> QED
        BY <1>3, <3>1
    <2> HIDE DEF Lead
    <2> QED
      BY <2>1
  <1>5. \A i \in 1..n, c \in Int : step[<<i, c>>] = Lead(i, c)
    OBVIOUS
  <1> HIDE DEF step, Lead
  <1>6. PICK h : Recurs(h, Int, -1, step, n)
    <2>1. -1 \in Int
      OBVIOUS
    <2> QED
      BY <1>2, <1>4, <2>1, Recursion, Zenon
  <1>7. /\ h \in [0..n -> Int] /\ h[0] = -1
        /\ \A i \in 1..n : h[i] = Lead(i, h[i - 1])
    <2>1. h \in [0..n -> Int] /\ h[0] = -1
      BY <1>6 DEF Recurs
    <2>2. ASSUME NEW i \in 1..n PROVE h[i] = Lead(i, h[i - 1])
      <3>1. i - 1 \in 0..n
        BY <1>2
      <3>2. h[i - 1] \in Int /\ h[i] = step[<<i, h[i - 1]>>]
        BY <1>6, <2>1, <3>1 DEF Recurs
      <3> QED
        BY <1>5, <3>2, Zenon
    <2> QED
      BY <2>1, <2>2
  <1> DEFINE best[i \in 0..n] ==
                IF i = 0 THEN -1
                ELSE IF best[i - 1] = -1 \/ p[s[i]] > p[best[i - 1]]
                     THEN s[i] ELSE best[i - 1]
             Row(g) == g = [i \in 0..n |->
                IF i = 0 THEN -1
                ELSE IF g[i - 1] = -1 \/ p[s[i]] > p[g[i - 1]]
                     THEN s[i] ELSE g[i - 1]]
  <1>8. Row(h)
    <2>1. \A i \in 0..n : h[i] = IF i = 0 THEN -1
                ELSE IF h[i - 1] = -1 \/ p[s[i]] > p[h[i - 1]]
                     THEN s[i] ELSE h[i - 1]
      <3> TAKE i \in 0..n
      <3>1. i # 0 => i \in 1..n
        BY <1>2
      <3> QED
        BY <1>7, <3>1, Zenon DEF Lead
    <2>2. h = [i \in 0..n |-> h[i]]
      BY <1>7
    <2> QED
      BY <2>1, <2>2, Zenon
  <1> HIDE DEF best
  <1>9. Row(best)
    BY <1>8, Zenon DEF best
  <1>10. h[n] = best[n]
    <2>1. 0 \in 0..n /\ \A i \in 1..n : i \in 0..n /\ i # 0
      BY <1>2
    <2>2. h[0] = -1 /\ best[0] = -1
      BY <1>8, <1>9, <2>1, Zenon
    <2>3. ASSUME NEW i \in 1..n, h[i - 1] = best[i - 1] PROVE h[i] = best[i]
      <3>1. h[i] = Lead(i, h[i - 1]) /\ best[i] = Lead(i, best[i - 1])
        BY <1>8, <1>9, <2>1, Zenon DEF Lead
      <3> QED
        BY <2>3, <3>1, Zenon
    <2>4. Alike(h, best, n)
      BY <2>2, <2>3, Zenon DEF Alike
    <2> QED
      BY <1>2, <2>4, GoOnAlike, Zenon
  <1>11. TypedMostLikely(t) = IF s = <<>> THEN 0 ELSE best[n]
    BY Zenon DEF TypedMostLikely, best, n, s, p
  <1>16. s = <<>> <=> n = 0
    BY <1>2 DEF n
  <1> DEFINE Best(c, j) == p[s[j]] <= p[c] /\ (p[s[j]] = p[c] => c <= s[j])
             Among(c, i) == \E l \in 1..i : c = s[l]
             G == {i \in 0..n : i > 0 =>
                     Among(h[i], i) /\ \A j \in 1..i : Best(h[i], j)}
  <1>12. \A i \in 0..n : i \in G
    <2>1. 0 \in G
      BY <1>2
    <2>2. ASSUME NEW i \in 1..n, i - 1 \in G PROVE i \in G
      <3> DEFINE c == h[i - 1]
                 x == s[i]
      <3>1. /\ x \in K /\ x \in Nat /\ p[x] \in Nat /\ h[i] = Lead(i, c)
            /\ i - 1 \in 0..n /\ i \in 0..n /\ i \in Nat
        BY <1>2, <1>3, <1>7, SMTT(60)
      <3>2. i = 1 => c = -1
        BY <1>7
      <3>3. i # 1 => Among(c, i - 1) /\ \A j \in 1..(i - 1) : Best(c, j)
        BY <2>2
      <3>4. Lead(i, c) = IF c = -1 \/ p[x] > p[c] THEN x ELSE c
        BY Zenon DEF Lead
      <3>5. \A j \in 1..(i - 1) : /\ s[j] < x /\ j \in 1..n
                                  /\ s[j] \in Nat /\ p[s[j]] \in Nat
        <4> TAKE j \in 1..(i - 1)
        <4>1. j \in 1..n /\ j < i
          BY <1>2
        <4> QED
          BY <1>2, <1>3, <4>1
      <3>6. Best(x, i)
        BY <3>1
      <3>10. i # 1 => c \in Nat /\ p[c] \in Nat /\ c < x
        <4> SUFFICES ASSUME i # 1 PROVE c \in Nat /\ p[c] \in Nat /\ c < x
          OBVIOUS
        <4>1. PICK l \in 1..(i - 1) : c = s[l]
          BY <3>3
        <4> HIDE DEF c, x
        <4> QED
          BY <3>5, <4>1
      <3>11. Among(x, i)
        BY <3>1
      <3>12. i # 1 => Among(c, i)
        <4>1. 1..(i - 1) \subseteq 1..i
          BY <3>1
        <4> HIDE DEF c
        <4> QED
          BY <3>3, <4>1
      <3> HIDE DEF c, x
      <3> HIDE DEF Among
      <3>7. CASE c = -1
        <4>1. i = 1 /\ h[i] = x
          BY <3>1, <3>10, <3>4, <3>7
        <4>2. \A j \in 1..i : j = i
          BY <4>1
        <4> HIDE DEF Best
        <4> QED
          BY <3>1, <3>6, <3>11, <4>1, <4>2
      <3>8. CASE c # -1 /\ p[x] > p[c]
        <4>1. h[i] = x /\ i # 1
          BY <3>1, <3>2, <3>4, <3>8
        <4>2. ASSUME NEW j \in 1..i PROVE Best(x, j)
          <5>1. CASE j = i
            BY <3>6, <5>1
          <5>2. CASE j # i
            <6>1. j \in 1..(i - 1)
              BY <3>1, <5>2
            <6>2. Best(c, j) /\ s[j] \in Nat /\ p[s[j]] \in Nat /\ p[c] \in Nat
              BY <3>3, <3>5, <3>10, <4>1, <6>1
            <6> QED
              BY <3>1, <3>8, <6>2
          <5> QED
            BY <5>1, <5>2
        <4> HIDE DEF Best
        <4> QED
          BY <3>1, <3>11, <4>1, <4>2
      <3>9. CASE c # -1 /\ ~(p[x] > p[c])
        <4>1. h[i] = c /\ i # 1
          BY <3>1, <3>2, <3>4, <3>9
        <4>2. ASSUME NEW j \in 1..i PROVE Best(c, j)
          <5>1. CASE j = i
            <6>1. c <= x
              BY <3>1, <3>10, <4>1
            <6>2. p[c] \in Nat /\ p[x] \in Nat /\ s[j] = x
              BY <3>1, <3>10, <4>1, <5>1 DEF x
            <6> QED
              BY <3>9, <6>1, <6>2
          <5>2. CASE j # i
            BY <3>1, <3>3, <4>1, <5>2
          <5> QED
            BY <5>1, <5>2
        <4> HIDE DEF Best
        <4> QED
          BY <3>1, <3>12, <4>1, <4>2
      <3> QED
        BY <3>7, <3>8, <3>9
    <2> HIDE DEF G
    <2> QED
      BY <1>2, <2>1, <2>2, UpTo
  <1>13. n \in G
    BY <1>2, <1>12
  <1>14. CASE K = {}
    <2>1. n = 0
      BY <1>2, <1>3, <1>14
    <2> QED
      BY <1>11, <1>14, <1>16, <2>1 DEF K
  <1>15. CASE K # {}
    <2>1. n > 0
      BY <1>2, <1>15
    <2> DEFINE r == h[n]
    <2>2. r \in K /\ \A j \in 1..n : Best(r, j)
      BY <1>3, <1>13, <2>1
    <2> HIDE DEF r
    <2>3. \A k \in K : p[k] <= p[r] /\ (p[k] = p[r] => r <= k)
      BY <1>2, <2>2
    <2>4. TypedMostLikely(t) = r
      BY <1>10, <1>11, <1>16, <2>1 DEF r
    <2> QED
      BY <1>15, <2>2, <2>3, <2>4 DEF LowestBest, K, p
  <1> QED
    BY <1>14, <1>15

(* typed.go: nothing is lost in the typed reading of a score answer.        *)
THEOREM TypedAlwaysReadsSame ==
  ASSUME NEW a, ScoreSane(a)
  PROVE  TypedReadsSameFor(a)
  <1> DEFINE t == TypedScoreAnswer(a)
             p == a.probabilities
             K == LevelKeys(a)
  <1> SUFFICES ASSUME ~t.error
               PROVE  /\ IF K # {} THEN TypedMostLikely(t) = MostLikely(a)
                         ELSE TypedMostLikely(t) = 0 /\ MostLikely(a) = -1
                      /\ \A k \in -1..a.levels : TypedAtOrAbove(t, k) = AtOrAbove(a, k)
                      /\ a.levels > 0 => t.level = Nearest(a)
    BY Zenon DEF TypedReadsSameFor
  <1>1. /\ t.error = (Unparsed \in LevelKeys(a) \/ ~a.legendParses)
        /\ t.level = TypedLevel(a) /\ t.probabilities = p
    BY DEF TypedScoreAnswer
  <1>2. LevelKeys(t) = K /\ Numbered(a) = K /\ Unparsed \notin K
    BY <1>1 DEF LevelKeys, Numbered
  <1>3. IsFiniteSet(K) /\ K \subseteq Nat /\ p \in [K -> 0..D] /\ D \in Nat
    BY <1>2, ProbabilityAssumption DEF ScoreSane
  <1> HIDE DEF t, p, K
  <1>4. IF K # {} THEN TypedMostLikely(t) = MostLikely(a)
        ELSE TypedMostLikely(t) = 0 /\ MostLikely(a) = -1
    <2>1. \A k \in K : p[k] \in Nat
      BY <1>3
    <2>2. Keyed(t)
      BY <1>1, <1>2, <1>3, <2>1 DEF Keyed
    <2>3. CASE K = {}
      BY <1>2, <2>2, <2>3, TypedMostLikelyIs DEF MostLikely
    <2>4. CASE K # {}
      <3> DEFINE r == TypedMostLikely(t)
                 best == {k \in K : \A j \in K : p[j] <= p[k]}
                 m == Min(best)
      <3>1. /\ r \in K
            /\ \A k \in K : p[k] <= p[r] /\ (p[k] = p[r] => r <= k)
        BY <1>1, <1>2, <2>2, <2>4, TypedMostLikelyIs DEF LowestBest
      <3> HIDE DEF r
      <3>2. r \in best /\ best \in SUBSET Nat
        BY <1>3, <3>1
      <3>3. m \in best /\ m <= r
        <4> HIDE DEF best
        <4> QED
          BY <3>2, MinIs
      <3> HIDE DEF m
      <3>4. m \in K /\ p[r] <= p[m] /\ p[m] <= p[r]
        BY <3>1, <3>3
      <3>5. p[m] = p[r]
        BY <2>1, <3>1, <3>4
      <3>6. r <= m /\ r \in Nat /\ m \in Nat
        BY <1>3, <3>1, <3>4, <3>5
      <3>7. MostLikely(a) = m
        BY <1>2, <2>4, Zenon DEF MostLikely, m, p
      <3> QED
        BY <3>3, <3>6, <3>7 DEF r
    <2> QED
      BY <2>3, <2>4
  <1>5. ASSUME NEW k \in -1..a.levels PROVE TypedAtOrAbove(t, k) = AtOrAbove(a, k)
    <2>1. DOMAIN t.probabilities = Numbered(a)
      BY <1>2 DEF LevelKeys
    <2> QED
      BY <1>1, <2>1, Zenon DEF TypedAtOrAbove, AtOrAbove, Mass, p
  <1>6. ASSUME a.levels > 0 PROVE t.level = Nearest(a)
    <2>1. a.levels \in Nat \ {0} /\ a.score \in Int
      BY <1>6 DEF ScoreSane
    <2> DEFINE q == (2 * a.score + D) \div (2 * D)
    <2>2. q \in Int /\ Nearest(a) = IF q < 0 THEN 0
                             ELSE IF q > a.levels - 1 THEN a.levels - 1 ELSE q
      BY <2>1, NearestIs
    <2> HIDE DEF q
    <2>3. Nearest(a) >= 0
      BY <2>1, <2>2
    <2> QED
      BY <1>1, <2>3 DEF TypedLevel
  <1> QED
    BY <1>4, <1>5, <1>6

-----------------------------------------------------------------------------
(* score.go Nearest: the middle of a level is rounded to that level.        *)
LEMMA WholeScoreIs ==
  ASSUME NEW m \in Nat, NEW s, s = m * D
  PROVE  (2 * s + D) \div (2 * D) = m
  <1> DEFINE x == 2 * s + D
             y == 2 * D
             q == x \div y
             w == m * D
  <1>1. D \in Nat \ {0} /\ w \in Int /\ s = w
    BY ProbabilityAssumption
  <1>2. x \in Int /\ y \in Nat \ {0} /\ m * y = 2 * w /\ (m + 1) * y = 2 * w + y
    BY <1>1
  <1>3. m * y <= x /\ x < (m + 1) * y
    <2> DEFINE u == m * y
               v == (m + 1) * y
    <2>1. u = 2 * w /\ v = 2 * w + 2 * D /\ x = 2 * w + D
      BY <1>1, <1>2
    <2> HIDE DEF u, v, x, w
    <2>2. u <= x /\ x < v
      BY <1>1, <2>1
    <2> QED
      BY <2>2 DEF u, v
  <1> HIDE DEF x, y, w
  <1>4. q \in Int /\ q * y <= x /\ x < (q + 1) * y
    BY <1>2, FloorQuotient
  <1> HIDE DEF q
  <1>5. ~(q < m)
    <2> SUFFICES ASSUME q < m PROVE FALSE
      OBVIOUS
    <2>1. (q + 1) * y <= m * y
      <3>1. q + 1 \in Int /\ m \in Int /\ y \in Nat /\ q + 1 <= m
        BY <1>2, <1>4
      <3> QED
        BY <3>1, Grows
    <2> DEFINE u == (q + 1) * y
               v == m * y
    <2>2. u \in Int /\ v \in Int /\ u <= v /\ v <= x /\ x < u
      BY <1>2, <1>3, <1>4, <2>1
    <2> HIDE DEF u, v
    <2> QED
      BY <1>2, <2>2
  <1>6. ~(m < q)
    <2> SUFFICES ASSUME m < q PROVE FALSE
      OBVIOUS
    <2>1. (m + 1) * y <= q * y
      <3>1. m + 1 \in Int /\ q \in Int /\ y \in Nat /\ m + 1 <= q
        BY <1>2, <1>4
      <3> QED
        BY <3>1, Grows
    <2> DEFINE u == (m + 1) * y
               v == q * y
    <2>2. u \in Int /\ v \in Int /\ u <= v /\ v <= x /\ x < u
      BY <1>2, <1>3, <1>4, <2>1
    <2> HIDE DEF u, v
    <2> QED
      BY <1>2, <2>2
  <1>7. q = m
    BY <1>4, <1>5, <1>6
  <1> QED
    BY <1>7 DEF q, x, y

(* typesafetest Score: an answer that is certain of one level.              *)
Sure(n, i) == [j \in 1..n |-> IF j = i THEN D ELSE 0]
Certain(b, n, i) ==
    /\ b.levels = n /\ b.legendParses = TRUE /\ b.score = (i - 1) * D
    /\ LevelKeys(b) = 0..(n - 1)
    /\ \A k \in 0..(n - 1) : b.probabilities[k] = IF k = i - 1 THEN D ELSE 0

(* It is built from its probabilities.                                      *)
LEMMA CertainScore ==
  ASSUME NEW n \in Nat, NEW i \in 1..n
  PROVE  Certain(BuiltScore(n, Sure(n, i)), n, i)
  <1> DEFINE only == Sure(n, i)
             b == BuiltScore(n, only)
             p(k) == IF k < Len(only) THEN only[k + 1] ELSE 0
             f == [k \in 0..(n - 1) |-> k * p(k)]
             S == 0..(n - 1)
             e == i - 1
  <1>1. D \in Nat /\ Len(only) = n /\ e \in S /\ IsFiniteSet(S)
    <2>1. Len(only) = n
      BY DEF Sure
    <2>2. IsFiniteSet(S)
      BY FS_Interval
    <2> QED
      BY <2>1, <2>2, ProbabilityAssumption
  <1>2. \A k \in S : p(k) = IF k = e THEN D ELSE 0
    <2> TAKE k \in S
    <2>1. k + 1 \in 1..n /\ k < n /\ (k + 1 = i <=> k = e)
      OBVIOUS
    <2> QED
      BY <1>1, <2>1 DEF Sure
  <1>3. /\ b.levels = n /\ b.legendParses = TRUE
        /\ b.score = SumFunction(f)
        /\ b.probabilities = [k \in S |-> p(k)]
    BY DEF BuiltScore
  <1>4. DOMAIN f = S /\ \A k \in S : f[k] = k * p(k)
    OBVIOUS
  <1> HIDE DEF f, p, S, b
  <1>5. \A k \in S : f[k] = IF k = e THEN e * D ELSE 0
    <2> TAKE k \in S
    <2>1. CASE k = e
      BY <1>2, <1>4, <2>1
    <2>2. CASE k # e
      <3>1. f[k] = k * 0
        BY <1>2, <1>4, <2>2
      <3>2. k \in Int
        BY DEF S
      <3> QED
        BY <2>2, <3>1, <3>2
    <2> QED
      BY <2>1, <2>2
  <1>6. e \in Nat /\ e * D \in Nat
    BY <1>1
  <1>7. SumFunctionOnSet(f, S) = e * D
    <2>1. \A k \in S : f[k] \in Nat
      BY <1>5, <1>6
    <2>2. IsFiniteSet(S \ {e})
      BY <1>1, FS_RemoveElement
    <2>3. \A k \in S \ {e} : f[k] = 0
      BY <1>5
    <2>4. SumFunctionOnSet(f, S \ {e}) = 0
      BY <2>2, <2>3, SumZero
    <2>5. SumFunctionOnSet(f, S) = f[e] + SumFunctionOnSet(f, S \ {e})
      BY <1>1, <2>1, SumWithout
    <2> HIDE DEF e
    <2>6. f[e] = e * D
      BY <1>1, <1>5
    <2> QED
      BY <1>6, <2>4, <2>5, <2>6
  <1>8. SumFunction(f) = SumFunctionOnSet(f, S)
    BY <1>4, Zenon DEF SumFunction
  <1>9. LevelKeys(b) = S /\ \A k \in S : b.probabilities[k] = p(k)
    BY <1>3 DEF LevelKeys
  <1> QED
    BY <1>2, <1>3, <1>7, <1>8, <1>9 DEF S, Certain, b, only

(* typed.go validateSelf: what is read off a certain answer is the constant *)
(* that was declared there, for a rubric of any length.                     *)
THEOREM LevelsMeanTheirConstants ==
  ASSUME NEW levels \in Seq(Int)
  PROVE  LevelMeantFor(levels)
  <1> DEFINE n == Len(levels)
             sure(i) == [j \in DOMAIN levels |-> IF j = i THEN D ELSE 0]
             built(i) == BuiltScore(n, sure(i))
             read(i) == TypedScoreAnswer(built(i))
  <1> SUFFICES ASSUME TypedScoreValid(levels), NEW i \in DOMAIN levels
               PROVE  /\ read(i).level = levels[i]
                      /\ TypedMostLikely(read(i)) = levels[i]
    BY Zenon DEF LevelMeantFor
  <1>1. /\ n \in Nat /\ DOMAIN levels = 1..n /\ i \in 1..n
        /\ levels[i] = i - 1 /\ i - 1 \in Nat
    BY DEF TypedScoreValid
  <1>2. D \in Nat \ {0} /\ Unparsed \notin Nat
    BY ProbabilityAssumption
  <1> DEFINE b == built(i)
             t == read(i)
  <1>3. /\ b.levels = n /\ b.legendParses = TRUE /\ b.score = (i - 1) * D
        /\ LevelKeys(b) = 0..(n - 1)
        /\ \A k \in 0..(n - 1) : b.probabilities[k] = IF k = i - 1 THEN D ELSE 0
    <2>1. sure(i) = Sure(n, i)
      BY <1>1 DEF Sure
    <2>2. b = BuiltScore(n, Sure(n, i))
      BY <2>1, Zenon
    <2>3. Certain(b, n, i)
      <3>1. n \in Nat /\ i \in 1..n
        BY <1>1
      <3> HIDE DEF n, b
      <3> QED
        BY <2>2, <3>1, CertainScore
    <2> QED
      BY <2>3 DEF Certain
  <1> HIDE DEF built
  <1>4. t.level = TypedLevel(b) /\ t.probabilities = b.probabilities
    BY DEF TypedScoreAnswer
  <1> HIDE DEF b, t, n
  <1>5. t.level = levels[i]
    <2> DEFINE q == (2 * b.score + D) \div (2 * D)
    <2>1. b.levels \in Nat \ {0} /\ b.score \in Int
      BY <1>1, <1>2, <1>3
    <2>2. Nearest(b) = IF q < 0 THEN 0
                       ELSE IF q > b.levels - 1 THEN b.levels - 1 ELSE q
      BY <2>1, NearestIs
    <2>3. q = i - 1
      BY <1>1, <1>3, WholeScoreIs
    <2> HIDE DEF q
    <2>4. Nearest(b) = i - 1
      BY <1>1, <1>3, <2>2, <2>3
    <2> QED
      BY <1>1, <1>4, <2>4 DEF TypedLevel
  <1>6. TypedMostLikely(t) = levels[i]
    <2> DEFINE r == TypedMostLikely(t)
    <2>1. LevelKeys(t) = 0..(n - 1)
      BY <1>3, <1>4 DEF LevelKeys
    <2>2. i - 1 \in 0..(n - 1) /\ IsFiniteSet(0..(n - 1))
      <3>1. 0 \in Int /\ n - 1 \in Int /\ i - 1 \in 0..(n - 1)
        BY <1>1
      <3> QED
        BY <3>1, FS_Interval
    <2>3. \A k \in 0..(n - 1) : t.probabilities[k] = IF k = i - 1 THEN D ELSE 0
      BY <1>3, <1>4
    <2>4. Keyed(t)
      BY <1>2, <2>1, <2>2, <2>3 DEF Keyed
    <2>5. r \in 0..(n - 1) /\ t.probabilities[i - 1] <= t.probabilities[r]
      BY <2>1, <2>2, <2>4, TypedMostLikelyIs DEF LowestBest
    <2> HIDE DEF r
    <2>6. r = i - 1
      BY <1>2, <2>2, <2>3, <2>5
    <2> QED
      BY <1>1, <2>6 DEF r
  <1> QED
    BY <1>5, <1>6 DEF t

-----------------------------------------------------------------------------
(* All readings of any answer agree.                                        *)
THEOREM AnswersDoAgree == InputSane => AnswersAgree
  <1> SUFFICES ASSUME InputSane PROVE AnswersAgree
    OBVIOUS
  <1>1. ConsumersAgree
    BY ConsumersAlwaysAgree DEF InputSane, ConsumersAgree
  <1>2. BuiltChoiceLeads
    BY CannedChoicesLead DEF InputSane, BuiltChoiceLeads
  <1>3. DriftNoticed
    BY DriftIsNoticed DEF InputSane, DriftNoticed
  <1>4. LevelMeant
    BY LevelsMeanTheirConstants DEF InputSane, LevelMeant
  <1>5. TypedReadsSame
    BY TypedAlwaysReadsSame DEF InputSane, TypedReadsSame
  <1> QED
    BY <1>1, <1>2, <1>3, <1>4, <1>5 DEF AnswersAgree

-----------------------------------------------------------------------------
(* cmd/typesafe: a command ends with the first of its returns that applies. *)
LEMMA FirstReturn ==
  ASSUME NEW s, NEW n \in Nat, DOMAIN s = 1..n, n \in 1..n, s[n].when
  PROVE  \E k \in 1..n : /\ s[k].when /\ \A j \in 1..(k - 1) : ~s[j].when
                         /\ Line!First(s) = s[k].result
  <1> DEFINE Applies(k) == s[k].when /\ \A j \in 1..(k - 1) : ~s[j].when
             T == {k \in 1..n : s[k].when}
             c == CHOOSE k \in DOMAIN s : Applies(k)
  <1>1. PICK k \in T : \A l \in T : k <= l
    <2>1. T \in SUBSET Nat /\ n \in T
      OBVIOUS
    <2> HIDE DEF T
    <2> QED
      BY <2>1, Least
  <1>2. k \in DOMAIN s /\ Applies(k)
    <2>1. ASSUME NEW j \in 1..(k - 1), s[j].when PROVE FALSE
      <3>1. j \in T /\ ~(k <= j)
        BY <2>1
      <3> QED
        BY <1>1, <3>1
    <2> QED
      BY <1>1, <2>1
  <1>3. c \in DOMAIN s /\ Applies(c)
    <2> HIDE DEF Applies
    <2> QED
      BY <1>2, Zenon
  <1>4. Line!First(s) = s[c].result
    BY Zenon DEF Line!First
  <1> HIDE DEF c
  <1> QED
    BY <1>3, <1>4

(* A command of three returns.                                              *)
LEMMA OfThree ==
  ASSUME NEW s, DOMAIN s = 1..3, s[3].when
  PROVE  Line!First(s) =
           IF s[1].when THEN s[1].result
           ELSE IF s[2].when THEN s[2].result
           ELSE s[3].result
  <1>0. 3 \in 1..3 /\ 3 \in Nat
    OBVIOUS
  <1>1. PICK k \in 1..3 : /\ s[k].when /\ \A j \in 1..(k - 1) : ~s[j].when
                          /\ Line!First(s) = s[k].result
    BY <1>0, FirstReturn
  <1>2. /\ k > 1 => ~s[1].when
        /\ k > 2 => ~s[2].when
    BY <1>1
  <1>3. k \in {1, 2, 3}
    OBVIOUS
  <1> QED
    BY <1>1, <1>2, <1>3

(* A command of four returns.                                               *)
LEMMA OfFour ==
  ASSUME NEW s, DOMAIN s = 1..4, s[4].when
  PROVE  Line!First(s) =
           IF s[1].when THEN s[1].result
           ELSE IF s[2].when THEN s[2].result
           ELSE IF s[3].when THEN s[3].result
           ELSE s[4].result
  <1>0. 4 \in 1..4 /\ 4 \in Nat
    OBVIOUS
  <1>1. PICK k \in 1..4 : /\ s[k].when /\ \A j \in 1..(k - 1) : ~s[j].when
                          /\ Line!First(s) = s[k].result
    BY <1>0, FirstReturn
  <1>2. /\ k > 1 => ~s[1].when
        /\ k > 2 => ~s[2].when
        /\ k > 3 => ~s[3].when
    BY <1>1
  <1>3. k \in {1, 2, 3, 4}
    OBVIOUS
  <1> QED
    BY <1>1, <1>2, <1>3

(* A command of five returns.                                               *)
LEMMA OfFive ==
  ASSUME NEW s, DOMAIN s = 1..5, s[5].when
  PROVE  Line!First(s) =
           IF s[1].when THEN s[1].result
           ELSE IF s[2].when THEN s[2].result
           ELSE IF s[3].when THEN s[3].result
           ELSE IF s[4].when THEN s[4].result
           ELSE s[5].result
  <1>0. 5 \in 1..5 /\ 5 \in Nat
    OBVIOUS
  <1>1. PICK k \in 1..5 : /\ s[k].when /\ \A j \in 1..(k - 1) : ~s[j].when
                          /\ Line!First(s) = s[k].result
    BY <1>0, FirstReturn
  <1>2. /\ k > 1 => ~s[1].when
        /\ k > 2 => ~s[2].when
        /\ k > 3 => ~s[3].when
        /\ k > 4 => ~s[4].when
    BY <1>1
  <1>3. k \in {1, 2, 3, 4, 5}
    OBVIOUS
  <1> QED
    BY <1>1, <1>2, <1>3

(* A command of six returns.                                                *)
LEMMA OfSix ==
  ASSUME NEW s, DOMAIN s = 1..6, s[6].when
  PROVE  Line!First(s) =
           IF s[1].when THEN s[1].result
           ELSE IF s[2].when THEN s[2].result
           ELSE IF s[3].when THEN s[3].result
           ELSE IF s[4].when THEN s[4].result
           ELSE IF s[5].when THEN s[5].result
           ELSE s[6].result
  <1>0. 6 \in 1..6 /\ 6 \in Nat
    OBVIOUS
  <1>1. PICK k \in 1..6 : /\ s[k].when /\ \A j \in 1..(k - 1) : ~s[j].when
                          /\ Line!First(s) = s[k].result
    BY <1>0, FirstReturn
  <1>2. /\ k > 1 => ~s[1].when
        /\ k > 2 => ~s[2].when
        /\ k > 3 => ~s[3].when
        /\ k > 4 => ~s[4].when
        /\ k > 5 => ~s[5].when
    BY <1>1
  <1>3. k \in {1, 2, 3, 4, 5, 6}
    OBVIOUS
  <1> QED
    BY <1>1, <1>2, <1>3

(* commands.go: which exit each command ends with.                          *)
LEMMA LintIs ==
  ASSUME NEW a, NEW w
  PROVE  Line!Lint(a, w) =
           IF Line!Unusable(a) THEN Line!UsageExit(a)
           ELSE IF Line!LintRefuses(a) THEN Line!Result("invalid", 0)
           ELSE IF a.strict /\ (a.warned \/ a.size = "near") THEN Line!Result("invalid", 0)
           ELSE Line!Result("ok", 0)
  <1> DEFINE s == <<Line!At(Line!Unusable(a), Line!UsageExit(a)),
                    Line!At(Line!LintRefuses(a), Line!Result("invalid", 0)),
                    Line!At(a.strict /\ (a.warned \/ a.size = "near"), Line!Result("invalid", 0)),
                    Line!At(TRUE, Line!Result("ok", 0))>>
  <1>1. Line!Lint(a, w) = Line!First(s)
    BY Zenon DEF Line!Lint
  <1>2. DOMAIN s = 1..4 /\ s[4].when
    BY DEF Line!At
  <1>3. /\ s[1].when = (Line!Unusable(a))
        /\ s[2].when = (Line!LintRefuses(a))
        /\ s[3].when = (a.strict /\ (a.warned \/ a.size = "near"))
    BY DEF Line!At
  <1>4. /\ s[1].result = Line!UsageExit(a)
        /\ s[2].result = Line!Result("invalid", 0)
        /\ s[3].result = Line!Result("invalid", 0)
        /\ s[4].result = Line!Result("ok", 0)
    BY DEF Line!At
  <1> HIDE DEF s
  <1> QED
    BY <1>1, <1>2, <1>3, <1>4, OfFour

(* commands.go: run.                                                        *)
LEMMA RunIs ==
  ASSUME NEW a, NEW w
  PROVE  Line!Run(a, w) =
           IF Line!Unusable(a) THEN Line!UsageExit(a)
           ELSE IF a.format = "bad" THEN Line!Result("usage", 0)
           ELSE IF ~a.valid THEN Line!Result("invalid", 0)
           ELSE IF a.dry THEN Line!Result("ok", 0)
           ELSE IF Line!NewClientFails(w) THEN Line!Result("auth", 0)
           ELSE Line!SystemOne(a, w)
  <1> DEFINE s == <<Line!At(Line!Unusable(a), Line!UsageExit(a)),
                    Line!At(a.format = "bad", Line!Result("usage", 0)),
                    Line!At(~a.valid, Line!Result("invalid", 0)),
                    Line!At(a.dry, Line!Result("ok", 0)),
                    Line!At(Line!NewClientFails(w), Line!Result("auth", 0)),
                    Line!At(TRUE, Line!SystemOne(a, w))>>
  <1>1. Line!Run(a, w) = Line!First(s)
    BY Zenon DEF Line!Run
  <1>2. DOMAIN s = 1..6 /\ s[6].when
    BY DEF Line!At
  <1>3. /\ s[1].when = (Line!Unusable(a))
        /\ s[2].when = (a.format = "bad")
        /\ s[3].when = (~a.valid)
        /\ s[4].when = (a.dry)
        /\ s[5].when = (Line!NewClientFails(w))
    BY DEF Line!At
  <1>4. /\ s[1].result = Line!UsageExit(a)
        /\ s[2].result = Line!Result("usage", 0)
        /\ s[3].result = Line!Result("invalid", 0)
        /\ s[4].result = Line!Result("ok", 0)
        /\ s[5].result = Line!Result("auth", 0)
        /\ s[6].result = Line!SystemOne(a, w)
    BY DEF Line!At
  <1> HIDE DEF s
  <1> QED
    BY <1>1, <1>2, <1>3, <1>4, OfSix

(* commands.go: estimate.                                                   *)
LEMMA EstimateIs ==
  ASSUME NEW a, NEW w
  PROVE  Line!Estimate(a, w) =
           IF Line!Unusable(a) THEN Line!UsageExit(a)
           ELSE IF a.format # "json" /\ a.size = "over" THEN Line!Result("invalid", 0)
           ELSE Line!Result("ok", 0)
  <1> DEFINE s == <<Line!At(Line!Unusable(a), Line!UsageExit(a)),
                    Line!At(a.format # "json" /\ a.size = "over", Line!Result("invalid", 0)),
                    Line!At(TRUE, Line!Result("ok", 0))>>
  <1>1. Line!Estimate(a, w) = Line!First(s)
    BY Zenon DEF Line!Estimate
  <1>2. DOMAIN s = 1..3 /\ s[3].when
    BY DEF Line!At
  <1>3. /\ s[1].when = (Line!Unusable(a))
        /\ s[2].when = (a.format # "json" /\ a.size = "over")
    BY DEF Line!At
  <1>4. /\ s[1].result = Line!UsageExit(a)
        /\ s[2].result = Line!Result("invalid", 0)
        /\ s[3].result = Line!Result("ok", 0)
    BY DEF Line!At
  <1> HIDE DEF s
  <1> QED
    BY <1>1, <1>2, <1>3, <1>4, OfThree

(* commands.go: models.                                                     *)
LEMMA ModelsIs ==
  ASSUME NEW a, NEW w
  PROVE  Line!Models(a, w) =
           IF a.flags # "ok" THEN Line!UsageExit(a)
           ELSE IF Line!NewClientFails(w) THEN Line!Result("auth", 0)
           ELSE Line!Result(Line!Reached(w), Line!Sent(w))
  <1> DEFINE s == <<Line!At(a.flags # "ok", Line!UsageExit(a)),
                    Line!At(Line!NewClientFails(w), Line!Result("auth", 0)),
                    Line!At(TRUE, Line!Result(Line!Reached(w), Line!Sent(w)))>>
  <1>1. Line!Models(a, w) = Line!First(s)
    BY Zenon DEF Line!Models
  <1>2. DOMAIN s = 1..3 /\ s[3].when
    BY DEF Line!At
  <1>3. /\ s[1].when = (a.flags # "ok")
        /\ s[2].when = (Line!NewClientFails(w))
    BY DEF Line!At
  <1>4. /\ s[1].result = Line!UsageExit(a)
        /\ s[2].result = Line!Result("auth", 0)
        /\ s[3].result = Line!Result(Line!Reached(w), Line!Sent(w))
    BY DEF Line!At
  <1> HIDE DEF s
  <1> QED
    BY <1>1, <1>2, <1>3, <1>4, OfThree

(* commands.go: record.                                                     *)
LEMMA RecordIs ==
  ASSUME NEW a, NEW w
  PROVE  Line!Record(a, w) =
           IF Line!Unusable(a) THEN Line!UsageExit(a)
           ELSE IF ~a.out THEN Line!Result("usage", 0)
           ELSE IF Line!NewClientFails(w) THEN Line!Result("auth", 0)
           ELSE IF ~w.writable THEN Line!Result("error", Line!SystemOne(a, w).calls)
           ELSE Line!SystemOne(a, w)
  <1> DEFINE s == <<Line!At(Line!Unusable(a), Line!UsageExit(a)),
                    Line!At(~a.out, Line!Result("usage", 0)),
                    Line!At(Line!NewClientFails(w), Line!Result("auth", 0)),
                    Line!At(~w.writable, Line!Result("error", Line!SystemOne(a, w).calls)),
                    Line!At(TRUE, Line!SystemOne(a, w))>>
  <1>1. Line!Record(a, w) = Line!First(s)
    BY Zenon DEF Line!Record
  <1>2. DOMAIN s = 1..5 /\ s[5].when
    BY DEF Line!At
  <1>3. /\ s[1].when = (Line!Unusable(a))
        /\ s[2].when = (~a.out)
        /\ s[3].when = (Line!NewClientFails(w))
        /\ s[4].when = (~w.writable)
    BY DEF Line!At
  <1>4. /\ s[1].result = Line!UsageExit(a)
        /\ s[2].result = Line!Result("usage", 0)
        /\ s[3].result = Line!Result("auth", 0)
        /\ s[4].result = Line!Result("error", Line!SystemOne(a, w).calls)
        /\ s[5].result = Line!SystemOne(a, w)
    BY DEF Line!At
  <1> HIDE DEF s
  <1> QED
    BY <1>1, <1>2, <1>3, <1>4, OfFive

(* commands.go: replay, whose client has a key of its own.                  *)
LEMMA ReplayIs ==
  ASSUME NEW a, NEW w
  PROVE  Line!Replay(a, w) =
           IF Line!Unusable(a) THEN Line!UsageExit(a)
           ELSE IF w.tape = "none" THEN Line!Result("usage", 0)
           ELSE IF w.tape = "unreadable" THEN Line!Result("error", 0)
           ELSE IF Line!PreFlight(a) /\ w.baseParses /\ w.tape = "answer" THEN Line!Result("ok", 0)
           ELSE Line!Result("mismatch", 0)
  <1> DEFINE s == <<Line!At(Line!Unusable(a), Line!UsageExit(a)),
                    Line!At(w.tape = "none", Line!Result("usage", 0)),
                    Line!At(w.tape = "unreadable", Line!Result("error", 0)),
                    Line!At(Line!NewClientFails([key |-> "replay"]), Line!Result("auth", 0)),
                    Line!At(Line!PreFlight(a) /\ w.baseParses /\ w.tape = "answer", Line!Result("ok", 0)),
                    Line!At(TRUE, Line!Result("mismatch", 0))>>
  <1>1. Line!Replay(a, w) = Line!First(s)
    BY Zenon DEF Line!Replay
  <1>2. DOMAIN s = 1..6 /\ s[6].when
    BY DEF Line!At
  <1>3. /\ s[1].when = (Line!Unusable(a))
        /\ s[2].when = (w.tape = "none")
        /\ s[3].when = (w.tape = "unreadable")
        /\ s[4].when = (Line!NewClientFails([key |-> "replay"]))
        /\ s[5].when = (Line!PreFlight(a) /\ w.baseParses /\ w.tape = "answer")
    BY DEF Line!At
  <1>4. /\ s[1].result = Line!UsageExit(a)
        /\ s[2].result = Line!Result("usage", 0)
        /\ s[3].result = Line!Result("error", 0)
        /\ s[4].result = Line!Result("auth", 0)
        /\ s[5].result = Line!Result("ok", 0)
        /\ s[6].result = Line!Result("mismatch", 0)
    BY DEF Line!At
  <1> HIDE DEF s
  <1> QED
    BY <1>1, <1>2, <1>3, <1>4, OfSix, ZenonT(60) DEF Line!NewClientFails

(* completion.go: completion.                                               *)
LEMMA CompletionIs ==
  ASSUME NEW a, NEW w
  PROVE  Line!Completion(a, w) =
           IF a.flags # "ok" THEN Line!UsageExit(a)
           ELSE IF a.shell # "known" THEN Line!Result("usage", 0)
           ELSE Line!Result("ok", 0)
  <1> DEFINE s == <<Line!At(a.flags # "ok", Line!UsageExit(a)),
                    Line!At(a.shell # "known", Line!Result("usage", 0)),
                    Line!At(TRUE, Line!Result("ok", 0))>>
  <1>1. Line!Completion(a, w) = Line!First(s)
    BY Zenon DEF Line!Completion
  <1>2. DOMAIN s = 1..3 /\ s[3].when
    BY DEF Line!At
  <1>3. /\ s[1].when = (a.flags # "ok")
        /\ s[2].when = (a.shell # "known")
    BY DEF Line!At
  <1>4. /\ s[1].result = Line!UsageExit(a)
        /\ s[2].result = Line!Result("usage", 0)
        /\ s[3].result = Line!Result("ok", 0)
    BY DEF Line!At
  <1> HIDE DEF s
  <1> QED
    BY <1>1, <1>2, <1>3, <1>4, OfThree

(* cmd/typesafe: explain ends with one of its returns, none of which calls. *)
LEMMA ExplainCallsNothing ==
  ASSUME NEW a, NEW w
  PROVE  Line!Explain(a, w).calls = 0
  <1> DEFINE e == a.explain
             s == <<Line!At(a.flags # "ok", Line!UsageExit(a)),
                    Line!At(e.policy = "none", Line!Result("usage", 0)),
                    Line!At(e.policy = "unreadable", Line!Result("error", 0)),
                    Line!At(e.policy = "invalid", Line!Result("invalid", 0)),
                    Line!At(e.answers = "unreadable", Line!Result("error", 0)),
                    Line!At(e.answers = "invalid", Line!Result("invalid", 0)),
                    Line!At(e.inline = "malformed", Line!Result("usage", 0)),
                    Line!At(e.answers = "none" /\ e.inline = "none", Line!Result("usage", 0)),
                    Line!At(~e.evaluates, Line!Result("invalid", 0)),
                    Line!At(TRUE, Line!Result("ok", 0))>>
  <1>1. Line!Explain(a, w) = Line!First(s)
    BY Zenon DEF Line!Explain
  <1>2. DOMAIN s = 1..10 /\ s[10].when /\ 10 \in 1..10 /\ 10 \in Nat
    BY DEF Line!At
  <1>3. \A i \in 1..10 : s[i].result.calls = 0
    <2> SUFFICES ASSUME NEW i \in 1..10 PROVE s[i].result.calls = 0
      OBVIOUS
    <2>1. i \in {1, 2, 3, 4, 5, 6, 7, 8, 9, 10}
      OBVIOUS
    <2> QED
      BY <2>1 DEF Line!At, Line!Result, Line!UsageExit
  <1> HIDE DEF s
  <1> HIDE DEF e
  <1>4. PICK k \in 1..10 : /\ s[k].when /\ \A j \in 1..(k - 1) : ~s[j].when
                           /\ Line!First(s) = s[k].result
    BY <1>2, FirstReturn
  <1> QED
    BY <1>1, <1>3, <1>4

-----------------------------------------------------------------------------
(* cmd/typesafe: no invocation of an offline command calls, whatever key and *)
(* network surround it.                                                     *)
THEOREM OfflineIsOffline ==
  ASSUME NEW a \in Invocations, NEW w \in Worlds
  PROVE  Line!OfflineStaysOfflineFor(a, w)
  <1> DEFINE v == [w EXCEPT !.key = "missing", !.network = "down"]
  <1>1. v.tape = w.tape /\ v.baseParses = w.baseParses
    BY DEF Worlds
  <1>2. /\ Line!Estimate(a, w).calls = 0 /\ Line!Estimate(a, w) = Line!Estimate(a, v)
        /\ Line!Lint(a, w).calls = 0 /\ Line!Lint(a, w) = Line!Lint(a, v)
    BY EstimateIs, LintIs DEF Line!Result, Line!UsageExit
  <1>3. Line!Replay(a, w).calls = 0 /\ Line!Replay(a, w) = Line!Replay(a, v)
    BY <1>1, ReplayIs DEF Line!Result, Line!UsageExit
  <1>4. Line!Explain(a, w).calls = 0 /\ Line!Explain(a, w) = Line!Explain(a, v)
    BY ExplainCallsNothing, Zenon DEF Line!Explain
  <1>6. Line!Completion(a, w).calls = 0 /\ Line!Completion(a, w) = Line!Completion(a, v)
    BY CompletionIs DEF Line!Result, Line!UsageExit
  <1> HIDE DEF v
  <1>5. ASSUME NEW name \in Line!Offline
        PROVE  /\ Line!Command(name, a, w).calls = 0
               /\ Line!Command(name, a, w) = Line!Command(name, a, v)
    <2>1. CASE name = "estimate"
      BY <1>2, <2>1 DEF Line!Command
    <2>2. CASE name = "lint"
      BY <1>2, <2>2 DEF Line!Command
    <2>3. CASE name = "explain"
      BY <1>4, <2>3 DEF Line!Command
    <2>4. CASE name = "replay"
      BY <1>3, <2>4 DEF Line!Command
    <2>5. CASE name = "version"
      BY <2>5 DEF Line!Command, Line!Result, Line!UsageExit
    <2>6. CASE name = "completion"
      BY <1>6, <2>6 DEF Line!Command
    <2> QED
      BY <2>1, <2>2, <2>3, <2>4, <2>5, <2>6 DEF Line!Offline
  <1> QED
    BY <1>5 DEF v, Line!OfflineStaysOfflineFor

(* cmd/typesafe: what lint refuses is what is refused before it is sent.    *)
THEOREM LintDoesForetell ==
  ASSUME NEW a \in Invocations, NEW w \in Worlds
  PROVE  Line!LintForetellsFor(a, w)
  <1> DEFINE b == [a EXCEPT !.strict = FALSE]
             c == [a EXCEPT !.dry = FALSE, !.format = "json"]
             v == [w EXCEPT !.key = "ok"]
  <1>1. /\ b.strict = FALSE /\ c.dry = FALSE /\ c.format = "json"
        /\ \A x \in {b, c} : /\ x.flags = a.flags /\ x.builds = a.builds
                             /\ x.valid = a.valid /\ x.size = a.size
        /\ a.flags \in {"ok", "help", "bad"} /\ a.valid \in BOOLEAN
    BY DEF Invocations
  <1>2. v.key = "ok"
    BY DEF Worlds
  <1> HIDE DEF b, c, v
  <1>3. Line!Lint(b, w).exit = "invalid" <=> ~Line!Unusable(a) /\ Line!LintRefuses(a)
    BY <1>1, LintIs DEF Line!Unusable, Line!LintRefuses, Line!Result, Line!UsageExit
  <1>4. Line!Run(c, v) =
           IF Line!Unusable(a) THEN Line!UsageExit(a)
           ELSE IF ~a.valid THEN Line!Result("invalid", 0)
           ELSE Line!SystemOne(c, v)
    BY <1>1, <1>2, RunIs DEF Line!Unusable, Line!UsageExit, Line!NewClientFails
  <1>5. Line!SystemOne(c, v) = Line!Result("invalid", 0) <=> ~Line!PreFlight(a)
    <2>1. Line!PreFlight(c) <=> Line!PreFlight(a)
      BY <1>1 DEF Line!PreFlight
    <2>2. Line!Evaluated(c.model, v) # "invalid"
      BY DEF Line!Evaluated, Line!Reached
    <2> QED
      BY <2>1, <2>2 DEF Line!SystemOne, Line!Result
  <1>6. Line!LintRefuses(a) <=> ~a.valid \/ ~Line!PreFlight(a)
    BY DEF Line!LintRefuses, Line!PreFlight
  <1> QED
    BY <1>3, <1>4, <1>5, <1>6 DEF b, c, v, Line!LintForetellsFor

(* cmd/typesafe: doctor ends as a sound request then does, but that the two *)
(* may name different models.                                               *)
THEOREM DoctorDoesForetell ==
  ASSUME NEW a \in Invocations, NEW w \in Worlds
  PROVE  Line!DoctorForetellsFor(a, w)
  <1> SUFFICES ASSUME ~Line!Unusable(a), Line!PreFlight(a), ~a.dry, a.format # "bad"
               PROVE  \/ Line!Doctor(a, w).exit = Line!Run(a, w).exit
                      \/ /\ a.checks # a.model
                         /\ {Line!Doctor(a, w).exit, Line!Run(a, w).exit} = {"ok", "unknown_model"}
    BY Zenon DEF Line!DoctorForetellsFor
  <1>1. a.flags = "ok" /\ a.valid
    BY DEF Line!Unusable, Line!PreFlight
  <1>2. Line!Run(a, w) = IF Line!NewClientFails(w) THEN Line!Result("auth", 0)
                         ELSE Line!Result(Line!Evaluated(a.model, w), Line!Sent(w))
    BY <1>1, RunIs DEF Line!SystemOne
  <1>3. Line!Models(a, w) = IF Line!NewClientFails(w) THEN Line!Result("auth", 0)
                            ELSE Line!Result(Line!Reached(w), Line!Sent(w))
    BY <1>1, ModelsIs
  <1>4. Line!Doctor(a, w) = IF Line!Models(a, w).exit = "ok"
                            THEN Line!Result(Line!Evaluated(a.checks, w), 2)
                            ELSE Line!Models(a, w)
    BY <1>1 DEF Line!Doctor, Line!Probe
  <1> DEFINE told == Line!Evaluated(a.checks, w)
             met == Line!Evaluated(a.model, w)
  <1>5. Line!Reached(w) # "ok" => told = Line!Reached(w) /\ met = Line!Reached(w)
    BY DEF Line!Evaluated
  <1>6. Line!Reached(w) = "ok" => told \in {"ok", "unknown_model"} /\ met \in {"ok", "unknown_model"}
    BY DEF Line!Evaluated
  <1>7. a.checks = a.model => told = met
    BY Zenon
  <1> HIDE DEF told, met
  <1> DEFINE said == Line!Doctor(a, w).exit
             done == Line!Run(a, w).exit
  <1>8. CASE Line!NewClientFails(w)
    <2>1. said = "auth" /\ done = "auth"
      BY <1>2, <1>3, <1>4, <1>8 DEF Line!Result
    <2> QED
      BY <2>1
  <1>9. CASE ~Line!NewClientFails(w) /\ Line!Reached(w) # "ok"
    <2>1. said = Line!Reached(w) /\ done = Line!Reached(w)
      BY <1>2, <1>3, <1>4, <1>5, <1>9 DEF Line!Result, told, met
    <2> QED
      BY <2>1
  <1>10. CASE ~Line!NewClientFails(w) /\ Line!Reached(w) = "ok"
    <2>1. said = told /\ done = met
      BY <1>2, <1>3, <1>4, <1>10 DEF Line!Result, told, met
    <2> HIDE DEF said, done
    <2>2. said = done \/ (a.checks # a.model /\ {said, done} = {"ok", "unknown_model"})
      BY <1>6, <1>7, <1>10, <2>1
    <2> QED
      BY <2>2 DEF said, done
  <1> QED
    BY <1>8, <1>9, <1>10

(* cmd/typesafe: what record puts on a tape replays as it went.             *)
THEOREM RecordingsDoReplay ==
  ASSUME NEW a \in Invocations, NEW w \in Worlds
  PROVE  Line!RecordedReplaysFor(a, w)
  <1> DEFINE v == [w EXCEPT !.tape = Line!TapeAfter(a, w), !.key = "missing", !.network = "down"]
  <1> SUFFICES ASSUME Line!RecordRuns(a, w), w.writable
               PROVE  /\ (Line!Record(a, w).exit = "ok") = (Line!Replay(a, v).exit = "ok")
                      /\ Line!Record(a, w).exit \in {"limited", "auth", "unknown_model"}
                            => v.tape = "failure"
    BY Zenon DEF Line!RecordedReplaysFor
  <1>1. v.tape = Line!Taped(a, w) /\ v.baseParses = w.baseParses
    BY DEF Worlds, Line!TapeAfter
  <1> HIDE DEF v
  <1>2. ~Line!Unusable(a) /\ a.out /\ ~Line!NewClientFails(w)
    BY DEF Line!RecordRuns
  <1>3. Line!Record(a, w) = IF Line!PreFlight(a)
                            THEN Line!Result(Line!Evaluated(a.model, w), Line!Sent(w))
                            ELSE Line!Result("invalid", 0)
    BY <1>2, RecordIs DEF Line!SystemOne
  <1>4. Line!Replay(a, v) =
           IF v.tape = "none" THEN Line!Result("usage", 0)
           ELSE IF v.tape = "unreadable" THEN Line!Result("error", 0)
           ELSE IF Line!PreFlight(a) /\ v.baseParses /\ v.tape = "answer" THEN Line!Result("ok", 0)
           ELSE Line!Result("mismatch", 0)
    BY <1>2, ReplayIs
  <1>5. /\ ~w.baseParses => Line!Evaluated(a.model, w) = "error"
        /\ w.baseParses /\ w.network = "down" => Line!Evaluated(a.model, w) = "network"
    BY DEF Line!Evaluated, Line!Reached
  <1>6. Line!Record(a, w).exit = "ok" <=> v.tape = "answer"
    BY <1>1, <1>3, <1>5 DEF Line!Taped, Line!Result
  <1>7. Line!Replay(a, v).exit = "ok"
          <=> Line!PreFlight(a) /\ v.baseParses /\ v.tape = "answer"
    BY <1>4 DEF Line!Result
  <1>8. v.tape = "answer" => Line!PreFlight(a) /\ v.baseParses
    BY <1>1 DEF Line!Taped
  <1>9. Line!Record(a, w).exit \in {"limited", "auth", "unknown_model"} => v.tape = "failure"
    BY <1>1, <1>3, <1>5 DEF Line!Taped, Line!Result
  <1> QED
    BY <1>6, <1>7, <1>8, <1>9

-----------------------------------------------------------------------------
(* tokens.go: the sizes of encoded questions, and which is the dearer.      *)
Sized(q) ==
    /\ IsFiniteSet(DOMAIN q) /\ DOMAIN q \subseteq Nat \ {0}
    /\ \A x \in DOMAIN q : q[x] \in Nat \ {0}
Dearer(q, x, y) == q[x] > q[y] \/ (q[x] = q[y] /\ x < y)
Dearest(q, x) == x \in DOMAIN q /\ \A y \in DOMAIN q : x = y \/ Dearer(q, x, y)

(* tokens.go: only one question is the dearest.                             *)
LEMMA OneIsDearest ==
  ASSUME NEW q, Sized(q), NEW x, NEW y, Dearest(q, x), Dearest(q, y)
  PROVE  x = y
  <1> SUFFICES ASSUME x # y PROVE FALSE
    OBVIOUS
  <1>1. x \in Nat /\ y \in Nat /\ q[x] \in Nat /\ q[y] \in Nat
    BY DEF Dearest, Sized
  <1>2. Dearer(q, x, y) /\ Dearer(q, y, x)
    BY DEF Dearest
  <1> QED
    BY <1>1, <1>2 DEF Dearer

(* tokens.go Of: whatever order the map is walked in, the question that     *)
(* drives the estimate is the dearest, if there is one.                     *)
LEMMA LongestIs ==
  ASSUME NEW q, Sized(q), NEW order \in SetToSeqs(DOMAIN q)
  PROVE  IF DOMAIN q = {} THEN Cost!Longest(q, order) = [id |-> 0, bytes |-> 0]
         ELSE /\ Dearest(q, Cost!Longest(q, order).id)
              /\ Cost!Longest(q, order).bytes = q[Cost!Longest(q, order).id]
  <1> DEFINE S == DOMAIN q
             n == Len(order)
             B == [id : Nat, bytes : Nat]
             None == [id |-> 0, bytes |-> 0]
             Kept(i, c) == IF Cost!Longer(q[order[i]], c, order[i])
                           THEN [id |-> order[i], bytes |-> q[order[i]]] ELSE c
             step == [r \in (1..n) \X B |-> Kept(r[1], r[2])]
  <1>1. IsFiniteSet(S) /\ S \subseteq Nat \ {0} /\ \A x \in S : q[x] \in Nat \ {0}
    BY DEF Sized
  <1>2. /\ order \in [1..Cardinality(S) -> S] /\ Cardinality(S) \in Nat
        /\ \A i, j \in 1..Cardinality(S) : i # j => order[i] # order[j]
    BY <1>1, FS_CardinalityType DEF SetToSeqs
  <1>3. n = Cardinality(S) /\ n \in Nat
    BY <1>2
  <1>4. \A x \in S : \E i \in 1..n : order[i] = x
    BY <1>1, <1>2, <1>3, AllListed
  <1>5. \A i \in 1..n : order[i] \in S /\ order[i] \in Nat /\ q[order[i]] \in Nat \ {0}
    BY <1>1, <1>2, <1>3
  <1> HIDE DEF n, S
  <1>6. None \in B
    OBVIOUS
  <1>7. step \in [(1..n) \X B -> B]
    <2>1. ASSUME NEW i \in 1..n, NEW c \in B PROVE Kept(i, c) \in B
      BY <1>5, <2>1
    <2> HIDE DEF Kept, B
    <2> QED
      BY <2>1
  <1>8. \A i \in 1..n, c \in B : step[<<i, c>>] = Kept(i, c)
    OBVIOUS
  <1> HIDE DEF step, Kept, B, None
  <1>9. PICK h : Recurs(h, B, None, step, n)
    BY <1>3, <1>6, <1>7, Recursion, Zenon
  <1>10. /\ h \in [0..n -> B] /\ h[0] = None
         /\ \A i \in 1..n : h[i] = Kept(i, h[i - 1])
    <2>1. h \in [0..n -> B] /\ h[0] = None
      BY <1>9 DEF Recurs
    <2>2. ASSUME NEW i \in 1..n PROVE h[i] = Kept(i, h[i - 1])
      <3>1. i - 1 \in 0..n
        BY <1>3
      <3>2. h[i - 1] \in B /\ h[i] = step[<<i, h[i - 1]>>]
        BY <1>9, <2>1, <3>1 DEF Recurs
      <3> QED
        BY <1>8, <3>2, Zenon
    <2> QED
      BY <2>1, <2>2
  <1> DEFINE best[i \in 0..n] ==
                IF i = 0 THEN [id |-> 0, bytes |-> 0]
                ELSE IF Cost!Longer(q[order[i]], best[i - 1], order[i])
                     THEN [id |-> order[i], bytes |-> q[order[i]]]
                ELSE best[i - 1]
             Row(g) == g = [i \in 0..n |->
                IF i = 0 THEN [id |-> 0, bytes |-> 0]
                ELSE IF Cost!Longer(q[order[i]], g[i - 1], order[i])
                     THEN [id |-> order[i], bytes |-> q[order[i]]]
                ELSE g[i - 1]]
  <1>11. Row(h)
    <2>1. \A i \in 0..n : h[i] = IF i = 0 THEN [id |-> 0, bytes |-> 0]
                ELSE IF Cost!Longer(q[order[i]], h[i - 1], order[i])
                     THEN [id |-> order[i], bytes |-> q[order[i]]]
                ELSE h[i - 1]
      <3> TAKE i \in 0..n
      <3>1. i # 0 => i \in 1..n
        BY <1>3
      <3> QED
        BY <1>10, <3>1, Zenon DEF Kept, None
    <2>2. h = [i \in 0..n |-> h[i]]
      BY <1>10
    <2> QED
      BY <2>1, <2>2, Zenon
  <1> HIDE DEF best
  <1>12. Row(best)
    BY <1>11, Zenon DEF best
  <1>13. h[n] = best[n]
    <2>1. 0 \in 0..n /\ \A i \in 1..n : i \in 0..n /\ i # 0
      BY <1>3
    <2>2. h[0] = None /\ best[0] = None
      BY <1>11, <1>12, <2>1, Zenon DEF None
    <2>3. ASSUME NEW i \in 1..n, h[i - 1] = best[i - 1] PROVE h[i] = best[i]
      <3>1. h[i] = Kept(i, h[i - 1]) /\ best[i] = Kept(i, best[i - 1])
        BY <1>11, <1>12, <2>1, Zenon DEF Kept
      <3> QED
        BY <2>3, <3>1, Zenon
    <2>4. Alike(h, best, n)
      BY <2>2, <2>3, Zenon DEF Alike
    <2> QED
      BY <1>3, <2>4, GoOnAlike, Zenon
  <1> DEFINE First(x, y) == x = y \/ Dearer(q, x, y)
             G == {i \in 0..n : i > 0 =>
                     /\ h[i].id \in S /\ h[i].bytes = q[h[i].id]
                     /\ \A j \in 1..i : First(h[i].id, order[j])}
  <1>14. \A i \in 0..n : i \in G
    <2>1. 0 \in G
      BY <1>3
    <2>2. ASSUME NEW i \in 1..n, i - 1 \in G PROVE i \in G
      <3> DEFINE c == h[i - 1]
                 x == order[i]
      <3>1. /\ x \in S /\ x \in Nat /\ q[x] \in Nat \ {0} /\ c \in B
            /\ h[i] = Kept(i, c) /\ i - 1 \in 0..n /\ i \in 0..n
        BY <1>3, <1>5, <1>10
      <3>2. i = 1 => c = None
        BY <1>10
      <3>3. i # 1 => c.id \in S /\ c.bytes = q[c.id] /\ \A j \in 1..(i - 1) : First(c.id, order[j])
        BY <1>1, <2>2
      <3>4. Kept(i, c) = IF Cost!Longer(q[x], c, x) THEN [id |-> x, bytes |-> q[x]] ELSE c
        BY Zenon DEF Kept
      <3>5. x = order[i]
        OBVIOUS
      <3> HIDE DEF c, x
      <3>6. \A j \in 1..n : order[j] \in S
        BY <1>5
      <3>7. CASE i = 1
        <4>1. Cost!Longer(q[x], c, x)
          BY <3>1, <3>2, <3>7 DEF Cost!Longer, None
        <4>2. h[i].id = x /\ h[i].bytes = q[x]
          BY <3>1, <3>4, <4>1
        <4>3. \A j \in 1..i : order[j] = x
          BY <3>5, <3>7
        <4> QED
          BY <3>1, <4>2, <4>3
      <3>8. CASE i # 1 /\ Cost!Longer(q[x], c, x)
        <4>1. h[i].id = x /\ h[i].bytes = q[x] /\ c.id \in S /\ c.bytes = q[c.id]
          BY <3>1, <3>3, <3>4, <3>8
        <4> DEFINE k == c.id
        <4>2. Dearer(q, x, k)
          BY <3>8, <4>1 DEF Dearer, Cost!Longer
        <4>3. ASSUME NEW j \in 1..i PROVE First(x, order[j])
          <5>1. CASE j = i
            BY <3>5, <5>1
          <5>2. CASE j # i
            <6>1. j \in 1..(i - 1) /\ j \in 1..n
              BY <1>3, <5>2
            <6> DEFINE y == order[j]
            <6>2. First(k, y) /\ y \in S
              BY <3>3, <3>6, <3>8, <6>1
            <6>3. /\ x \in Nat /\ k \in Nat /\ y \in Nat
                  /\ q[x] \in Nat /\ q[k] \in Nat /\ q[y] \in Nat
              BY <1>1, <3>1, <4>1, <6>2
            <6> HIDE DEF y, k
            <6>4. Dearer(q, x, y)
              BY <4>2, <6>2, <6>3 DEF Dearer
            <6> QED
              BY <6>4 DEF y
          <5> QED
            BY <5>1, <5>2
        <4> QED
          BY <3>1, <4>1, <4>3
      <3>9. CASE i # 1 /\ ~Cost!Longer(q[x], c, x)
        <4>1. h[i] = c /\ c.id \in S /\ c.bytes = q[c.id]
          BY <3>1, <3>3, <3>4, <3>9
        <4> DEFINE k == c.id
        <4>2. First(k, x)
          <5>1. q[k] \in Nat /\ k \in Nat
            BY <1>1, <4>1
          <5>2. ~(q[x] > q[k]) /\ ~(q[x] = q[k] /\ x < k)
            BY <3>9, <4>1 DEF Cost!Longer
          <5> HIDE DEF k
          <5> QED
            BY <3>1, <5>1, <5>2 DEF Dearer
        <4>3. ASSUME NEW j \in 1..i PROVE First(k, order[j])
          <5>1. CASE j = i
            BY <3>5, <4>2, <5>1
          <5>2. CASE j # i
            BY <3>3, <3>9, <5>2
          <5> QED
            BY <5>1, <5>2
        <4> QED
          BY <3>1, <4>1, <4>3
      <3> QED
        BY <3>7, <3>8, <3>9
    <2> HIDE DEF G
    <2> QED
      BY <1>3, <2>1, <2>2, UpTo
  <1>15. Cost!Longest(q, order) = h[n]
    <2>1. Cost!Longest(q, order) = best[n]
      BY Zenon DEF Cost!Longest, best, n
    <2> QED
      BY <1>13, <2>1
  <1>16. CASE S = {}
    <2>1. n = 0
      BY <1>1, <1>3, <1>16, FS_EmptySet
    <2> QED
      BY <1>10, <1>15, <1>16, <2>1 DEF S, None
  <1>17. CASE S # {}
    <2>1. n > 0
      BY <1>3, <1>4, <1>17
    <2>2. n \in G
      BY <1>3, <1>14
    <2>3. h[n].id \in S /\ h[n].bytes = q[h[n].id] /\ \A j \in 1..n : First(h[n].id, order[j])
      BY <2>1, <2>2
    <2>4. \A y \in S : First(h[n].id, y)
      BY <1>4, <2>3
    <2> HIDE DEF G
    <2> QED
      BY <1>15, <1>17, <2>3, <2>4 DEF Dearest, S
  <1> QED
    BY <1>16, <1>17

(* What an instance of a module took from the library is the library's.     *)
LEMMA SameOperators ==
  ASSUME NEW f, NEW S
  PROVE  /\ Cost!SumFunctionOnSet(f, S) = SumFunctionOnSet(f, S)
         /\ Cost!SetToSeqs(S) = SetToSeqs(S)
         /\ Gen!Cardinality(S) = Cardinality(S)
  <1>1. Cost!SumFunctionOnSet(f, S) = SumFunctionOnSet(f, S)
    BY Zenon DEF Cost!SumFunctionOnSet, SumFunctionOnSet, Cost!FoldFunctionOnSet,
                 FoldFunctionOnSet, Cost!MapThenFoldSet, MapThenFoldSet
  <1>2. Cost!Cardinality(S) = Cardinality(S) /\ Gen!Cardinality(S) = Cardinality(S)
    BY Zenon DEF Cost!Cardinality, Gen!Cardinality, Cardinality
  <1>3. Cost!SetToSeqs(S) = SetToSeqs(S)
    BY <1>2, Zenon DEF Cost!SetToSeqs, SetToSeqs
  <1> QED
    BY <1>1, <1>2, <1>3

(* The sum of sizes is a size.                                              *)
LEMMA SumOfSizes ==
  ASSUME NEW f, IsFiniteSet(DOMAIN f), \A x \in DOMAIN f : f[x] \in Nat
  PROVE  Cost!Sum(f) \in Nat
  <1>1. SumFunctionOnSet(f, DOMAIN f) \in Nat
    BY SumType
  <1> QED
    BY <1>1, SameOperators, Zenon DEF Cost!Sum, Cost!SumFunction

\* What is counted around the state and the questions.
Counted(r) == Cost!Around(r, Cost!Named(r, 12))

LEMMA CountedType ==
  ASSUME NEW r, RequestSane(r), NEW model \in Nat
  PROVE  /\ Cost!Around(r, model) \in Nat /\ Counted(r) \in Nat
         /\ Cost!Sum(r.keys) \in Nat /\ Cost!Named(r, 12) \in Nat
  <1>1. Cost!Sum(r.keys) \in Nat
    <2>1. DOMAIN r.keys = DOMAIN r.questions
      BY DEF RequestSane
    <2>2. IsFiniteSet(DOMAIN r.keys) /\ \A x \in DOMAIN r.keys : r.keys[x] \in Nat
      BY <2>1 DEF RequestSane
    <2> QED
      BY <2>2, SumOfSizes
  <1>2. Cost!Named(r, 12) \in Nat
    BY DEF RequestSane, Cost!Named
  <1>3. \A m \in Nat : Cost!Around(r, m) \in Nat
    BY <1>1 DEF Cost!Around, Cost!Frame
  <1> QED
    BY <1>1, <1>2, <1>3 DEF Counted

(* budget.go EstimateTokens: the sizes that are handed over.                *)
LEMMA SizesAre ==
  ASSUME NEW r, RequestSane(r), NEW s, s = Cost!Sizes(r)
  PROVE  /\ Sized(s.questions) /\ Cost!Orders(r) = SetToSeqs(DOMAIN s.questions)
         /\ Cost!Encodes(r) =>
              /\ s.questions = r.questions /\ s.state = r.state
              /\ Cost!Sum(r.questions) \in Nat /\ r.state \in Nat
              /\ s.full = Counted(r) + r.state + Cost!Sum(r.questions)
              /\ Cost!Envelope(s) = Counted(r)
  <1> DEFINE E == {id \in DOMAIN r.questions : r.questions[id] # -1}
  <1>1. s.questions = [id \in E |-> r.questions[id]] /\ DOMAIN s.questions = E
    BY DEF Cost!Sizes
  <1>2. IsFiniteSet(E) /\ E \subseteq Nat \ {0} /\ \A x \in E : r.questions[x] \in Nat \ {0}
    <2>1. IsFiniteSet(E)
      BY FS_Subset DEF RequestSane
    <2> QED
      BY <2>1 DEF RequestSane
  <1>3. Sized(s.questions)
    BY <1>1, <1>2 DEF Sized
  <1>4. Cost!Orders(r) = SetToSeqs(DOMAIN s.questions)
    <2> HIDE DEF E
    <2>1. Cost!Orders(r) = Cost!SetToSeqs(E)
      BY Zenon DEF Cost!Orders, E
    <2>2. Cost!SetToSeqs(E) = SetToSeqs(E)
      BY SameOperators, Zenon
    <2> QED
      BY <1>1, <2>1, <2>2, Zenon
  <1>5. ASSUME Cost!Encodes(r)
        PROVE  /\ s.questions = r.questions /\ s.state = r.state
               /\ Cost!Sum(r.questions) \in Nat /\ r.state \in Nat
               /\ s.full = Counted(r) + r.state + Cost!Sum(r.questions)
               /\ Cost!Envelope(s) = Counted(r)
    <2>1. E = DOMAIN r.questions /\ r.state # -1
      BY <1>5 DEF Cost!Encodes
    <2>2. r.questions = [id \in DOMAIN r.questions |-> r.questions[id]]
      BY DEF RequestSane
    <2>3. s.questions = r.questions
      BY <1>1, <2>1, <2>2
    <2>4. s.state = r.state /\ s.full = Counted(r) + r.state + Cost!Sum(r.questions)
      BY <1>5, <2>1, Zenon DEF Cost!Sizes, Cost!Sent, Cost!Bytes, Counted
    <2>5. r.state \in Nat /\ Counted(r) \in Nat
      BY <2>1, CountedType DEF RequestSane
    <2>6. Cost!Sum(r.questions) \in Nat
      BY <1>2, <2>1, SumOfSizes DEF RequestSane
    <2> DEFINE all == Cost!Sum(r.questions)
    <2>7. Cost!Envelope(s) = LET rest == s.full - s.state - all IN IF rest < 0 THEN 0 ELSE rest
      BY <2>3 DEF Cost!Envelope
    <2> HIDE DEF all
    <2>8. Cost!Envelope(s) = Counted(r)
      BY <2>4, <2>5, <2>6, <2>7 DEF all
    <2> QED
      BY <2>3, <2>4, <2>5, <2>6, <2>8
  <1> QED
    BY <1>3, <1>4, <1>5

(* tokens.go Of: the parts of an estimate.                                  *)
LEMMA EstimatedIs ==
  ASSUME NEW r, NEW order, NEW s, s = Cost!Sizes(r), NEW longest,
         longest = Cost!Longest(s.questions, order), NEW e, e = Cost!Estimate(r, order)
  PROVE  LET total == Cost!Total(s)
             single == 240 + Cost!TokensFor(s.state + longest.bytes + Cost!Envelope(s))
         IN /\ e = [total |-> total, longestSingle |-> single,
                    longestQuestionID |-> longest.id,
                    exceedsTotal |-> total > MaxContextTokens,
                    exceedsSingle |-> single > MaxSingleQuestionTokens]
            /\ e.total = total /\ e.longestSingle = single
            /\ e.longestQuestionID = longest.id
            /\ e.exceedsTotal = (total > MaxContextTokens)
            /\ e.exceedsSingle = (single > MaxSingleQuestionTokens)
  <1> DEFINE total == Cost!Total(s)
             single == 240 + Cost!TokensFor(s.state + longest.bytes + Cost!Envelope(s))
             over == total > MaxContextTokens
             long == single > MaxSingleQuestionTokens
  <1>1. e = [total |-> total, longestSingle |-> single, longestQuestionID |-> longest.id,
             exceedsTotal |-> over, exceedsSingle |-> long]
    BY SMTT(60) DEF Cost!Estimate
  <1> HIDE DEF total, single, over, long
  <1>2. /\ e.total = total /\ e.longestSingle = single
        /\ e.longestQuestionID = longest.id
        /\ e.exceedsTotal = over /\ e.exceedsSingle = long
    BY <1>1
  <1> QED
    BY <1>1, <1>2, Zenon DEF total, single, over, long

(* tokens.go Of: the estimate is settled, whatever order the map is walked  *)
(* in.                                                                      *)
THEOREM EstimatesAreSettled ==
  ASSUME NEW r, RequestSane(r)
  PROVE  Cost!LongestSettledFor(r)
  <1> DEFINE s == Cost!Sizes(r)
             q == s.questions
  <1> SUFFICES ASSUME NEW o1 \in Cost!Orders(r), NEW o2 \in Cost!Orders(r)
               PROVE  Cost!Estimate(r, o1) = Cost!Estimate(r, o2)
    BY DEF Cost!LongestSettledFor
  <1>1. Sized(q) /\ o1 \in SetToSeqs(DOMAIN q) /\ o2 \in SetToSeqs(DOMAIN q)
    BY SizesAre
  <1> HIDE DEF s
  <1>2. /\ Cost!Longest(q, o1).id = Cost!Longest(q, o2).id
        /\ Cost!Longest(q, o1).bytes = Cost!Longest(q, o2).bytes
    BY <1>1, LongestIs, OneIsDearest
  <1> DEFINE total == Cost!Total(s)
             single(l) == 240 + Cost!TokensFor(s.state + l.bytes + Cost!Envelope(s))
             For(l) == [total |-> total, longestSingle |-> single(l),
                        longestQuestionID |-> l.id,
                        exceedsTotal |-> total > MaxContextTokens,
                        exceedsSingle |-> single(l) > MaxSingleQuestionTokens]
  <1>3. \A order : Cost!Estimate(r, order) = For(Cost!Longest(q, order))
    BY Zenon DEF s, Cost!Estimate
  <1>4. For(Cost!Longest(q, o1)) = For(Cost!Longest(q, o2))
    BY <1>2, Zenon
  <1> QED
    BY <1>3, <1>4, SMTT(60)

(* tokens.go TokensFor: more bytes are never fewer tokens, and the count is *)
(* rounded up.                                                              *)
LEMMA TokensForIs ==
  ASSUME NEW b \in Nat
  PROVE  /\ Cost!TokensFor(b) \in Nat
         /\ 413 * b <= 1000 * Cost!TokensFor(b)
         /\ 1000 * Cost!TokensFor(b) <= 413 * b + 999
         /\ \A c \in Nat : b <= c => Cost!TokensFor(b) <= Cost!TokensFor(c)
  <1>1. ASSUME NEW x \in Nat
        PROVE  /\ Cost!TokensFor(x) \in Nat
               /\ 413 * x <= 1000 * Cost!TokensFor(x)
               /\ 1000 * Cost!TokensFor(x) <= 413 * x + 999
    <2> DEFINE n == x * 413 + 1000 - 1
               q == n \div 1000
    <2>1. n \in Nat /\ n = 413 * x + 999
      OBVIOUS
    <2>2. Cost!TokensFor(x) = IF x <= 0 THEN 0 ELSE q
      BY DEF Cost!TokensFor
    <2> HIDE DEF n
    <2>3. q \in Nat /\ 1000 * q <= n /\ n <= 1000 * q + 999
      BY <2>1
    <2> HIDE DEF q
    <2> QED
      BY <2>1, <2>2, <2>3
  <1> DEFINE tokens(x) == Cost!TokensFor(x)
  <1>2. ASSUME NEW c \in Nat, b <= c PROVE tokens(b) <= tokens(c)
    <2>1. /\ tokens(b) \in Nat /\ tokens(c) \in Nat
          /\ 1000 * tokens(b) <= 413 * b + 999 /\ 413 * c <= 1000 * tokens(c)
      BY <1>1
    <2> HIDE DEF tokens
    <2> QED
      BY <1>2, <2>1
  <1> QED
    BY <1>1, <1>2

(* tokens.go Of: what the estimate of a request that encodes comes to.      *)
LEMMA EstimatedCost ==
  ASSUME NEW r, RequestSane(r), Cost!Encodes(r), NEW order \in Cost!Orders(r),
         NEW e, e = Cost!Estimate(r, order)
  PROVE  /\ e.total = 240 + Cost!TokensFor(Counted(r) + r.state + Cost!Sum(r.questions))
         /\ e.exceedsSingle = (e.longestSingle > MaxSingleQuestionTokens)
         /\ DOMAIN r.questions # {} =>
              /\ Dearest(r.questions, e.longestQuestionID)
              /\ e.longestSingle = 240 + Cost!TokensFor(
                    Counted(r) + r.state + r.questions[e.longestQuestionID])
  <1> DEFINE s == Cost!Sizes(r)
             q == r.questions
             l == Cost!Longest(q, order)
  <1>1. /\ Sized(q) /\ order \in SetToSeqs(DOMAIN q) /\ s.questions = q
        /\ s.state = r.state /\ r.state \in Nat /\ Counted(r) \in Nat
        /\ s.full = Counted(r) + r.state + Cost!Sum(q)
        /\ Cost!Envelope(s) = Counted(r)
    <2>1. Counted(r) \in Nat
      BY CountedType
    <2> HIDE DEF s
    <2>2. s = Cost!Sizes(r)
      BY DEF s
    <2> QED
      BY <2>1, <2>2, SizesAre
  <1> HIDE DEF s
  <1>2. /\ e.total = Cost!Total(s) /\ e.longestQuestionID = l.id
        /\ e.longestSingle = 240 + Cost!TokensFor(s.state + l.bytes + Cost!Envelope(s))
        /\ e.exceedsSingle = (e.longestSingle > MaxSingleQuestionTokens)
    <2>1. /\ e.total = Cost!Total(s) /\ e.longestQuestionID = l.id
          /\ e.longestSingle = 240 + Cost!TokensFor(s.state + l.bytes + Cost!Envelope(s))
          /\ e.exceedsSingle =
               (240 + Cost!TokensFor(s.state + l.bytes + Cost!Envelope(s)) > MaxSingleQuestionTokens)
      <3>1. s = Cost!Sizes(r) /\ l = Cost!Longest(s.questions, order)
        BY <1>1 DEF s
      <3> HIDE DEF l
      <3> QED
        BY <3>1, EstimatedIs
    <2> QED
      BY <2>1, Zenon
  <1>3. e.total = 240 + Cost!TokensFor(Counted(r) + r.state + Cost!Sum(q))
    BY <1>1, <1>2 DEF Cost!Total
  <1>4. ASSUME DOMAIN q # {}
        PROVE  Dearest(q, l.id) /\ l.bytes = q[l.id] /\ l.bytes \in Nat
    BY <1>1, <1>4, LongestIs DEF Dearest, Sized
  <1>5. ASSUME DOMAIN q # {}
        PROVE  s.state + l.bytes + Cost!Envelope(s) = Counted(r) + r.state + q[l.id]
    BY <1>1, <1>4, <1>5
  <1> HIDE DEF l
  <1> QED
    BY <1>2, <1>3, <1>4, <1>5

(* A size is part of the sum of sizes.                                      *)
LEMMA SumHolds ==
  ASSUME NEW f, IsFiniteSet(DOMAIN f), \A x \in DOMAIN f : f[x] \in Nat, NEW id \in DOMAIN f
  PROVE  Cost!Sum(f) \in Nat /\ f[id] <= Cost!Sum(f)
  <1> DEFINE rest == SumFunctionOnSet(f, DOMAIN f \ {id})
  <1>1. rest \in Nat
    <2>1. IsFiniteSet(DOMAIN f \ {id}) /\ \A x \in DOMAIN f \ {id} : f[x] \in Nat
      BY FS_RemoveElement
    <2> QED
      BY <2>1, SumType
  <1>2. SumFunctionOnSet(f, DOMAIN f) = f[id] + rest
    BY SumLess
  <1>3. Cost!Sum(f) = SumFunctionOnSet(f, DOMAIN f)
    BY SameOperators, Zenon DEF Cost!Sum, Cost!SumFunction
  <1> HIDE DEF rest
  <1> QED
    BY <1>1, <1>2, <1>3

(* A single size is its sum.                                                *)
LEMMA SumOfOne ==
  ASSUME NEW id, NEW f, DOMAIN f = {id}, f[id] \in Nat
  PROVE  Cost!Sum(f) = f[id]
  <1>1. IsFiniteSet({id}) /\ \A x \in {id} : f[x] \in Int
    BY FS_Singleton
  <1> DEFINE S == {id}
  <1>2. SumFunctionOnSet(f, S) = f[id] + SumFunctionOnSet(f, S \ {id})
    <2>1. IsFiniteSet(S) /\ (\A x \in S : f[x] \in Int) /\ id \in S
      BY <1>1
    <2> HIDE DEF S
    <2>2. SumFunctionOnSet(f, S) = f[id] + SumFunctionOnSet(f, S \ {id})
      BY <2>1, SumLess
    <2> QED
      BY <2>2
  <1> HIDE DEF S
  <1>3. S \ {id} = {}
    BY DEF S
  <1>4. SumFunctionOnSet(f, {}) = 0
    BY SumRec, FS_EmptySet
  <1>5. SumFunctionOnSet(f, S) = f[id]
    BY <1>2, <1>3, <1>4
  <1>6. DOMAIN f = S
    BY DEF S
  <1> QED
    BY <1>5, <1>6, SameOperators, Zenon DEF Cost!Sum, Cost!SumFunction

(* tokens.go TokensFor: two counts rounded up are no less than their sum's. *)
LEMMA TokensAdd ==
  ASSUME NEW b \in Nat, NEW c \in Nat
  PROVE  Cost!TokensFor(b + c) <= Cost!TokensFor(b) + Cost!TokensFor(c)
  <1> DEFINE t == Cost!TokensFor(b + c)
             tb == Cost!TokensFor(b)
             tc == Cost!TokensFor(c)
  <1>1. t \in Nat /\ 1000 * t <= 413 * (b + c) + 999
    BY TokensForIs
  <1>2. tb \in Nat /\ 413 * b <= 1000 * tb
    BY TokensForIs
  <1>3. tc \in Nat /\ 413 * c <= 1000 * tc
    BY TokensForIs
  <1> HIDE DEF t, tb, tc
  <1>4. t <= tb + tc
    BY <1>1, <1>2, <1>3
  <1> QED
    BY <1>4 DEF t, tb, tc

(* What a question costs alone, and what it then does not carry along.      *)
Others(r, id) == Cost!Sum(r.keys) - r.keys[id]
Solo(r, id) == 33 + Cost!Named(r, 12) + r.keys[id] + r.state + r.questions[id]

LEMMA SoloIs ==
  ASSUME NEW r, RequestSane(r), Cost!Encodes(r), NEW id \in DOMAIN r.questions
  PROVE  /\ Others(r, id) \in Nat /\ Solo(r, id) \in Nat
         /\ Counted(r) + r.state + r.questions[id] = Solo(r, id) + Others(r, id)
  <1>1. Cost!Sum(r.keys) \in Nat /\ r.keys[id] \in Nat /\ r.keys[id] <= Cost!Sum(r.keys)
    <2>1. DOMAIN r.keys = DOMAIN r.questions
      BY DEF RequestSane
    <2>2. IsFiniteSet(DOMAIN r.keys) /\ \A x \in DOMAIN r.keys : r.keys[x] \in Nat
      BY <2>1 DEF RequestSane
    <2> QED
      BY <2>1, <2>2, SumHolds
  <1>2. r.state \in Nat /\ r.questions[id] \in Nat
    BY DEF RequestSane, Cost!Encodes
  <1>3. Cost!Named(r, 12) \in Nat
    BY DEF RequestSane, Cost!Named
  <1>4. Counted(r) = 33 + Cost!Named(r, 12) + Cost!Sum(r.keys)
    BY DEF Counted, Cost!Around, Cost!Frame
  <1> QED
    BY <1>1, <1>2, <1>3, <1>4 DEF Solo, Others

(* budget.go: what the estimate of a question asked alone comes to.         *)
LEMMA AloneIs ==
  ASSUME NEW r, RequestSane(r), Cost!Encodes(r), NEW id \in DOMAIN r.questions,
         NEW f, f = Cost!Estimate(Cost!Alone(r, id), <<id>>)
  PROVE  /\ f.total = 240 + Cost!TokensFor(Solo(r, id))
         /\ f.longestSingle = f.total
         /\ f.exceedsSingle = (f.longestSingle > MaxSingleQuestionTokens)
  <1> DEFINE a == Cost!Alone(r, id)
             one == [i \in {id} |-> r.questions[id]]
             key == [i \in {id} |-> r.keys[id]]
  <1>1. /\ a = [model |-> a.model, keys |-> a.keys, state |-> a.state, questions |-> a.questions]
        /\ a.questions = one /\ a.keys = key /\ a.state = r.state /\ a.model = r.model
    <2>1. r = [model |-> r.model, keys |-> r.keys, state |-> r.state, questions |-> r.questions]
      BY DEF RequestSane
    <2>2. a = [model |-> r.model, keys |-> key, state |-> r.state, questions |-> one]
      <3>1. a = [r EXCEPT !.questions = one, !.keys = key]
        BY DEF Cost!Alone
      <3> HIDE DEF a, one, key
      <3>2. \A m, k, s, q : [[model |-> m, keys |-> k, state |-> s, questions |-> q]
                               EXCEPT !.questions = one, !.keys = key]
                             = [model |-> m, keys |-> key, state |-> s, questions |-> one]
        <4> TAKE m, k, s, q
        <4> DEFINE w == [model |-> m, keys |-> k, state |-> s, questions |-> q]
                   x == [w EXCEPT !.questions = one]
        <4>1. x = [model |-> m, keys |-> k, state |-> s, questions |-> one]
          OBVIOUS
        <4> HIDE DEF x
        <4>2. [x EXCEPT !.keys = key] = [model |-> m, keys |-> key, state |-> s, questions |-> one]
          BY <4>1
        <4> QED
          BY <4>2 DEF x
      <3>3. [[model |-> r.model, keys |-> r.keys, state |-> r.state, questions |-> r.questions]
               EXCEPT !.questions = one, !.keys = key] = a
        BY <2>1, <3>1, Zenon
      <3> QED
        BY <3>2, <3>3, Zenon
    <2> HIDE DEF a
    <2> QED
      BY <2>2
  <1>2. IsFiniteSet({id}) /\ Cardinality({id}) = 1
        /\ DOMAIN one = {id} /\ one[id] = r.questions[id]
        /\ DOMAIN key = {id} /\ key[id] = r.keys[id]
    BY FS_Singleton
  <1>3. /\ id \in Nat \ {0} /\ r.questions[id] \in Nat \ {0} /\ r.questions[id] # -1
        /\ r.keys[id] \in Nat \ {0} /\ r.state \in Nat \ {0} /\ r.state # -1 /\ r.model \in Nat
    BY DEF RequestSane, Cost!Encodes
  <1>4. one \in [{id} -> {-1} \cup (Nat \ {0})] /\ key \in [{id} -> Nat \ {0}]
    BY <1>3
  <1> HIDE DEF a, one, key
  <1>5. Cost!Encodes(a)
    BY <1>1, <1>2, <1>3 DEF Cost!Encodes
  <1>6. RequestSane(a)
    BY <1>1, <1>2, <1>3, <1>4 DEF RequestSane
  <1>7. <<id>> \in Cost!Orders(a)
    <2>1. <<id>> \in SetToSeqs({id})
      BY <1>2 DEF SetToSeqs
    <2>2. {x \in DOMAIN a.questions : a.questions[x] # -1} = {id}
      BY <1>1, <1>2, <1>3
    <2> QED
      BY <2>1, <2>2, SameOperators, Zenon DEF Cost!Orders
  <1>8. Counted(a) + a.state + Cost!Sum(one) = Solo(r, id)
        /\ Counted(a) + a.state + one[id] = Solo(r, id)
    <2>1. Cost!Sum(one) = r.questions[id] /\ Cost!Sum(key) = r.keys[id]
      BY <1>2, <1>3, SumOfOne
    <2>2. Cost!Named(a, 12) = Cost!Named(r, 12) /\ Cost!Named(r, 12) \in Nat
      BY <1>1, <1>3 DEF Cost!Named
    <2>3. Cost!Frame(a) = 33
      BY <1>1, <1>2 DEF Cost!Frame
    <2>4. Counted(a) = 33 + Cost!Named(r, 12) + r.keys[id]
      BY <1>1, <2>1, <2>2, <2>3 DEF Counted, Cost!Around
    <2> QED
      BY <1>1, <1>2, <1>3, <2>1, <2>2, <2>4 DEF Solo
  <1>9. /\ f.total = 240 + Cost!TokensFor(Solo(r, id))
        /\ f.exceedsSingle = (f.longestSingle > MaxSingleQuestionTokens)
        /\ Dearest(one, f.longestQuestionID)
        /\ f.longestSingle = 240 + Cost!TokensFor(Counted(a) + a.state + one[f.longestQuestionID])
    <2>1. f = Cost!Estimate(a, <<id>>)
      BY DEF a
    <2> QED
      BY <1>1, <1>2, <1>5, <1>6, <1>7, <1>8, <2>1, EstimatedCost
  <1>10. f.longestQuestionID = id
    BY <1>2, <1>9 DEF Dearest
  <1> QED
    BY <1>8, <1>9, <1>10

(* tokens.go Of: no question asked alone costs more than the single-        *)
(* question figure, which the ids of the others alone can raise.            *)
THEOREM SinglesAreDearest ==
  ASSUME NEW r, RequestSane(r)
  PROVE  Cost!SingleIsDearestAloneFor(r)
  <1> DEFINE q == r.questions
             alone(id) == Cost!Estimate(Cost!Alone(r, id), <<id>>)
  <1> SUFFICES ASSUME Cost!Encodes(r), DOMAIN q # {}, NEW order \in Cost!Orders(r), NEW e,
                      e = Cost!Estimate(r, order)
               PROVE  /\ \A id \in DOMAIN q : alone(id).total <= e.longestSingle
                      /\ e.longestSingle <= e.total
                      /\ e.longestSingle <= alone(e.longestQuestionID).total
                             + Cost!TokensFor(Others(r, e.longestQuestionID))
                      /\ ~e.exceedsSingle => \A id \in DOMAIN q : ~alone(id).exceedsSingle
    BY Zenon DEF Cost!SingleIsDearestAloneFor, Others
  <1> DEFINE top == e.longestQuestionID
             bytes(id) == Counted(r) + r.state + q[id]
             whole == Counted(r) + r.state + Cost!Sum(q)
  <1>1. /\ Dearest(q, top) /\ e.longestSingle = 240 + Cost!TokensFor(bytes(top))
        /\ e.total = 240 + Cost!TokensFor(whole)
        /\ e.exceedsSingle = (e.longestSingle > MaxSingleQuestionTokens)
    BY EstimatedCost
  <1>2. Counted(r) \in Nat /\ r.state \in Nat /\ \A id \in DOMAIN q : q[id] \in Nat
    <2>1. r.state # -1 /\ \A id \in DOMAIN q : q[id] # -1
      BY DEF Cost!Encodes
    <2> QED
      BY <2>1, CountedType DEF RequestSane
  <1>3. top \in DOMAIN q /\ \A id \in DOMAIN q : q[id] <= q[top]
    BY <1>1, <1>2 DEF Dearest, Dearer
  <1>4. Cost!Sum(q) \in Nat /\ q[top] <= Cost!Sum(q)
    <2>1. IsFiniteSet(DOMAIN q)
      BY DEF RequestSane
    <2> QED
      BY <1>2, <1>3, <2>1, SumHolds
  <1>5. whole \in Nat /\ bytes(top) \in Nat /\ bytes(top) <= whole
    BY <1>2, <1>3, <1>4
  <1>6. \A id \in DOMAIN q : /\ Others(r, id) \in Nat /\ Solo(r, id) \in Nat
                            /\ bytes(id) = Solo(r, id) + Others(r, id)
                            /\ Solo(r, id) <= bytes(top)
    <2> SUFFICES ASSUME NEW id \in DOMAIN q
                 PROVE  /\ Others(r, id) \in Nat /\ Solo(r, id) \in Nat
                        /\ bytes(id) = Solo(r, id) + Others(r, id)
                        /\ Solo(r, id) <= bytes(top)
      OBVIOUS
    <2>1. /\ Others(r, id) \in Nat /\ Solo(r, id) \in Nat
          /\ bytes(id) = Solo(r, id) + Others(r, id)
      BY SoloIs
    <2>2. bytes(id) <= bytes(top)
      BY <1>2, <1>3
    <2> HIDE DEF bytes
    <2> QED
      BY <1>5, <2>1, <2>2
  <1>7. \A id \in DOMAIN q : /\ alone(id).total = 240 + Cost!TokensFor(Solo(r, id))
                            /\ alone(id).exceedsSingle = (alone(id).total > MaxSingleQuestionTokens)
    <2> SUFFICES ASSUME NEW id \in DOMAIN q
                 PROVE  /\ alone(id).total = 240 + Cost!TokensFor(Solo(r, id))
                        /\ alone(id).exceedsSingle = (alone(id).total > MaxSingleQuestionTokens)
      OBVIOUS
    <2> DEFINE f == alone(id)
    <2>1. f = Cost!Estimate(Cost!Alone(r, id), <<id>>)
      OBVIOUS
    <2> HIDE DEF f
    <2>2. /\ f.total = 240 + Cost!TokensFor(Solo(r, id)) /\ f.longestSingle = f.total
          /\ f.exceedsSingle = (f.longestSingle > MaxSingleQuestionTokens)
      BY <2>1, AloneIs
    <2>3. f.exceedsSingle = (f.total > MaxSingleQuestionTokens)
      BY <2>2, Zenon
    <2> QED
      BY <2>2, <2>3, Zenon DEF f
  <1> HIDE DEF alone, bytes, whole, q, top
  <1>8. \A id \in DOMAIN q : /\ Cost!TokensFor(Solo(r, id)) <= Cost!TokensFor(bytes(top))
                            /\ Cost!TokensFor(Solo(r, id)) \in Nat
    BY <1>5, <1>6, TokensForIs
  <1>9. Cost!TokensFor(bytes(top)) <= Cost!TokensFor(whole)
        /\ Cost!TokensFor(bytes(top)) \in Nat /\ Cost!TokensFor(whole) \in Nat
    BY <1>5, TokensForIs
  <1>10. \A id \in DOMAIN q : alone(id).total <= e.longestSingle
    BY <1>1, <1>7, <1>8, <1>9
  <1>11. e.longestSingle <= e.total
    BY <1>1, <1>9
  <1>12. e.longestSingle <= alone(top).total + Cost!TokensFor(Others(r, top))
    <2>1. Cost!TokensFor(bytes(top)) <= Cost!TokensFor(Solo(r, top)) + Cost!TokensFor(Others(r, top))
      BY <1>3, <1>6, TokensAdd
    <2>2. Cost!TokensFor(Others(r, top)) \in Nat
      BY <1>3, <1>6, TokensForIs
    <2> QED
      BY <1>1, <1>3, <1>7, <1>8, <1>9, <2>1, <2>2
  <1>13. ASSUME ~e.exceedsSingle, NEW id \in DOMAIN q PROVE ~alone(id).exceedsSingle
    <2>1. e.longestSingle \in Int /\ alone(id).total \in Int
      BY <1>1, <1>7, <1>8, <1>9
    <2>2. ~(e.longestSingle > MaxSingleQuestionTokens) /\ MaxSingleQuestionTokens \in Nat
      BY <1>1, <1>13, PriceAssumption
    <2>3. ~(alone(id).total > MaxSingleQuestionTokens)
      BY <1>10, <2>1, <2>2
    <2> QED
      BY <1>7, <2>3
  <1> QED
    BY <1>10, <1>11, <1>12, <1>13 DEF q, top

(* tokens.go, budget.go: an estimate never falls short of the measured cost *)
(* and is at most a quarter and a token above it; nor does its price, nor   *)
(* that of the bytes sent unless the client's default has a longer name.    *)
THEOREM EstimatesCoverTheCost ==
  ASSUME NEW r, RequestSane(r), NEW rate \in Int, NEW default \in Nat
  PROVE  Cost!NeverUnderCountsFor(r, rate, default)
  <1> DEFINE full == Cost!Sizes(r).full
             measured == 239000 + 331 * full
             price == Cost!Price(rate)
  <1> SUFFICES ASSUME Cost!Encodes(r), NEW order \in Cost!Orders(r),
                      NEW e, e = Cost!Estimate(r, order)
               PROVE  /\ 1000 * e.total >= measured
                      /\ 4 * 1000 * e.total <= 5 * measured + 8000
                      /\ 1000 * Cost!EstimateCost(r, order, rate) >= measured * price
                      /\ Cost!EstimateCost(r, order, rate) > 0
                      /\ (r.model # 0 \/ default <= 12) =>
                            1000 * e.total >= 239000 + 331 * Cost!Sent(r, default)
    BY SMT DEF Cost!NeverUnderCountsFor
  <1>1. full \in Nat /\ e.total = 240 + Cost!TokensFor(full)
    <2>1. Counted(r) \in Nat
      BY CountedType
    <2>2. /\ full = Counted(r) + r.state + Cost!Sum(r.questions)
          /\ r.state \in Nat /\ Cost!Sum(r.questions) \in Nat
      BY SizesAre
    <2>3. e.total = 240 + Cost!TokensFor(Counted(r) + r.state + Cost!Sum(r.questions))
      BY EstimatedCost
    <2> QED
      BY <2>1, <2>2, <2>3
  <1> DEFINE sent == Cost!Sent(r, default)
  <1>0. (r.model # 0 \/ default <= 12) => sent \in Nat /\ sent <= full
    <2>1. /\ full = Counted(r) + r.state + Cost!Sum(r.questions)
          /\ r.state \in Nat /\ Cost!Sum(r.questions) \in Nat
      BY SizesAre
    <2>2. sent = Cost!Around(r, Cost!Named(r, default)) + r.state + Cost!Sum(r.questions)
      BY DEF Cost!Sent, Cost!Bytes
    <2>3. r.model \in Nat /\ Cost!Sum(r.keys) \in Nat /\ Cost!Frame(r) \in Nat
      BY CountedType DEF RequestSane, Cost!Frame
    <2>4. Counted(r) = Cost!Frame(r) + Cost!Named(r, 12) + Cost!Sum(r.keys)
      BY DEF Counted, Cost!Around
    <2>5. Cost!Around(r, Cost!Named(r, default))
            = Cost!Frame(r) + Cost!Named(r, default) + Cost!Sum(r.keys)
      BY DEF Cost!Around
    <2>6. (r.model # 0 \/ default <= 12) =>
             /\ Cost!Named(r, default) \in Nat /\ Cost!Named(r, 12) \in Nat
             /\ Cost!Named(r, default) <= Cost!Named(r, 12)
      BY <2>3 DEF Cost!Named
    <2> HIDE DEF sent, full
    <2> QED
      BY <2>1, <2>2, <2>3, <2>4, <2>5, <2>6
  <1>2. price \in Nat \ {0}
    BY PriceAssumption DEF Cost!Price
  <1>3. Cost!EstimateCost(r, order, rate) = e.total * price
    BY DEF Cost!EstimateCost
  <1> HIDE DEF full, price, sent
  <1> DEFINE t == e.total
  <1>4. /\ t \in Nat /\ t >= 240 /\ 1000 * t >= measured
        /\ 4 * 1000 * t <= 5 * measured + 8000 /\ measured \in Nat
    <2> DEFINE n == Cost!TokensFor(full)
    <2>1. n \in Nat /\ 413 * full <= 1000 * n /\ 1000 * n <= 413 * full + 999
      BY <1>1, TokensForIs
    <2>2. t = 240 + n
      BY <1>1
    <2> HIDE DEF n, t
    <2> QED
      BY <1>1, <2>1, <2>2, SMT
  <1> HIDE DEF t, measured
  <1>5. measured * price <= (1000 * t) * price
    <2>1. 1000 * t \in Int /\ measured \in Int /\ price \in Nat
      BY <1>2, <1>4
    <2> QED
      BY <1>4, <2>1, Grows
  <1>6. (1000 * t) * price = 1000 * (t * price) /\ t * price > 0
    BY <1>2, <1>4
  <1> DEFINE cost == t * price
  <1>7. cost \in Int /\ 1000 * cost >= measured * price /\ cost > 0
    BY <1>2, <1>4, <1>5, <1>6
  <1>8. Cost!EstimateCost(r, order, rate) = cost
    BY <1>3 DEF t
  <1> HIDE DEF cost
  <1>9. (r.model # 0 \/ default <= 12) => 1000 * t >= 239000 + 331 * sent
    BY <1>0, <1>1, <1>4 DEF measured
  <1> QED
    BY <1>4, <1>7, <1>8, <1>9 DEF t, sent

-----------------------------------------------------------------------------
(* A set that another counts one by one has as many members.                *)
LEMMA AsMany ==
  ASSUME NEW S, IsFiniteSet(S), NEW T, NEW f \in [S -> T],
         \A x, y \in S : f[x] = f[y] => x = y,
         \A y \in T : \E x \in S : f[x] = y
  PROVE  IsFiniteSet(T) /\ Cardinality(T) = Cardinality(S)
  <1>1. f \in Bijection(S, T)
    BY DEF Bijection, Injection, Surjection, IsInjective
  <1>2. ExistsBijection(S, T)
    BY <1>1 DEF ExistsBijection
  <1> QED
    BY <1>2, FS_Bijection

Lower(S, x) == {y \in S : y < x}

(* A member of a list in ascending order has as many before it as are       *)
(* listed before it.                                                        *)
LEMMA RankOfListed ==
  ASSUME NEW S, IsFiniteSet(S), S \subseteq Nat, NEW n, n = Cardinality(S),
         NEW s \in [1..n -> S], \A i, j \in 1..n : i < j => s[i] < s[j]
  PROVE  \A k \in 1..n : Cardinality(Lower(S, s[k])) = k - 1
  <1> DEFINE Below(k) == Lower(S, s[k])
             rank == [k \in 1..n |-> Cardinality(Below(k))]
  <1>1. n \in Nat
    BY FS_CardinalityType
  <1>2. \A k \in 1..n : s[k] \in S /\ s[k] \in Nat
    OBVIOUS
  <1>3. ASSUME NEW k \in 1..n
        PROVE  /\ IsFiniteSet(Below(k)) /\ rank[k] = Cardinality(Below(k))
               /\ rank[k] \in 0..(n - 1)
    <2>1. Below(k) \in SUBSET S /\ Below(k) # S
      BY <1>2 DEF Lower
    <2>2. rank[k] = Cardinality(Below(k))
      OBVIOUS
    <2> HIDE DEF Below
    <2>3. /\ IsFiniteSet(Below(k)) /\ Cardinality(Below(k)) \in Nat
          /\ Cardinality(Below(k)) <= n /\ Cardinality(Below(k)) # n
      BY <2>1, FS_Subset, FS_CardinalityType
    <2> HIDE DEF rank
    <2> QED
      BY <1>1, <2>2, <2>3
  <1>4. ASSUME NEW i \in 1..n, NEW j \in 1..n, i < j PROVE rank[i] < rank[j]
    <2>1. s[i] < s[j] /\ s[i] \in S /\ s[i] \in Nat /\ s[j] \in Nat
      BY <1>2, <1>4
    <2>2. Below(i) \in SUBSET Below(j) /\ s[i] \in Below(j) /\ s[i] \notin Below(i)
      <3> DEFINE a == s[i]
                 c == s[j]
      <3>1. a \in S /\ a \in Nat /\ c \in Nat /\ a < c
        BY <2>1
      <3> HIDE DEF a, c
      <3>2. {x \in S : x < a} \subseteq {x \in S : x < c}
        <4> SUFFICES ASSUME NEW x \in S, x < a PROVE x < c
          OBVIOUS
        <4>1. x \in Nat
          OBVIOUS
        <4> QED
          BY <3>1, <4>1
      <3>3. a \in {x \in S : x < c} /\ a \notin {x \in S : x < a}
        BY <3>1
      <3> QED
        BY <3>2, <3>3 DEF a, c, Lower
    <2> HIDE DEF Below, rank
    <2>3. Cardinality(Below(i)) <= Cardinality(Below(j))
          /\ Cardinality(Below(i)) # Cardinality(Below(j))
      BY <1>3, <2>2, FS_Subset
    <2> QED
      BY <1>3, <2>3
  <1> DEFINE L == 0..(n - 1)
  <1>5. rank \in [1..n -> L]
    <2> HIDE DEF L, Below
    <2> QED
      BY <1>3 DEF L
  <1> HIDE DEF rank
  <1>6. \A k \in 1..n : rank[k] = k - 1
    BY <1>1, <1>4, <1>5, Ascending
  <1> QED
    BY <1>3, <1>6

-----------------------------------------------------------------------------
(* What an instance of a module took from the library is the library's.     *)
LEMMA OfTheLibrary ==
  ASSUME NEW S, NEW x
  PROVE  Gen!Max(S) = Max(S) /\ (Gen!Contains(S, x) <=> Contains(S, x))
  BY Zenon DEF Gen!Max, Max, Gen!Contains, Contains

PackageSane(package) == package \in Seq(Seq(ConstantSpecs))

(* collectEnum: the constants of a type, in source order.                   *)
LEMMA FoundIs ==
  ASSUME NEW package, PackageSane(package), NEW T, NEW P, P = Gen!Places(package, T),
         NEW n, n = Cardinality(P), NEW s, s = Gen!Found(package, T)
  PROVE  /\ IsFiniteSet(P) /\ n \in Nat /\ s \in [1..n -> P] /\ Len(s) = n
         /\ P = {p \in Nat \X Nat : p[1] \in DOMAIN package /\ p[2] \in Gen!Of(package[p[1]], T)}
         /\ \A i, j \in 1..n : i < j => Gen!Precedes(s[i], s[j])
         /\ \A p \in P : \E i \in 1..n : s[i] = p
  <1> DEFINE B == DOMAIN package
             Of(b) == Gen!Of(package[b], T)
             R == {r \in P \X P : Gen!Precedes(r[1], r[2])}
             InOrder(t) == \A i, j \in DOMAIN t : i < j => Gen!Precedes(t[i], t[j])
  <1>1. B = 1..Len(package) /\ Len(package) \in Nat /\ \A b \in B : package[b] \in Seq(ConstantSpecs)
    BY DEF PackageSane
  <1>2. ASSUME NEW b \in B PROVE IsFiniteSet(Of(b)) /\ Of(b) \subseteq Nat
    <2>1. DOMAIN package[b] = 1..Len(package[b]) /\ Len(package[b]) \in Nat
      BY <1>1
    <2>2. Of(b) \subseteq DOMAIN package[b]
      BY Zenon DEF Gen!Of
    <2>3. IsFiniteSet(DOMAIN package[b])
      BY <2>1, FS_Interval
    <2> HIDE DEF Of
    <2>4. Of(b) \in SUBSET DOMAIN package[b]
      BY <2>2
    <2> QED
      BY <2>1, <2>3, <2>4, FS_Subset
  <1>3. P = UNION {{b} \X Of(b) : b \in B}
    BY DEF Gen!Places
  <1> HIDE DEF Of
  <1>4. P = {p \in Nat \X Nat : p[1] \in B /\ p[2] \in Of(p[1])}
    <2>1. \A b \in B : b \in Nat
      BY <1>1
    <2> QED
      BY <1>2, <1>3, <2>1
  <1>5. IsFiniteSet(P)
    <2> DEFINE F == {{b} \X Of(b) : b \in B}
    <2>1. IsFiniteSet(B)
      BY <1>1, FS_Interval
    <2>2. IsFiniteSet(F)
      <3> DEFINE f == [b \in B |-> {b} \X Of(b)]
      <3>1. f \in Surjection(B, F)
        BY DEF Surjection
      <3> HIDE DEF f, F
      <3> QED
        BY <2>1, <3>1, FS_Surjection
    <2>3. \A x \in F : IsFiniteSet(x)
      <3> SUFFICES ASSUME NEW b \in B PROVE IsFiniteSet({b} \X Of(b))
        OBVIOUS
      <3> QED
        BY <1>2, FS_Singleton, FS_Product
    <2> HIDE DEF F
    <2>4. IsFiniteSet(UNION F)
      BY <2>2, <2>3, FS_UNION
    <2> QED
      BY <1>3, <2>4 DEF F
  <1>6. n \in Nat /\ n = Cardinality(P)
    BY <1>5, FS_CardinalityType
  <1>7. \A x, y \in P : <<x, y>> \in R <=> Gen!Precedes(x, y)
    OBVIOUS
  <1>8. \A p \in P : p[1] \in Nat /\ p[2] \in Nat /\ p = <<p[1], p[2]>>
    BY <1>4
  <1> HIDE DEF R
  <1>9. /\ \A x \in P : ~Gen!Precedes(x, x)
        /\ \A x, y, z \in P : Gen!Precedes(x, y) /\ Gen!Precedes(y, z) => Gen!Precedes(x, z)
        /\ \A x, y \in P : x # y => Gen!Precedes(x, y) \/ Gen!Precedes(y, x)
    BY <1>8 DEF Gen!Precedes
  <1>10. PICK t \in [1..n -> P] : \A i, j \in 1..n : i < j => <<t[i], t[j]>> \in R
    <2>1. \A x \in P : <<x, x>> \notin R
      BY <1>7, <1>9
    <2>2. \A x, y, z \in P : <<x, y>> \in R /\ <<y, z>> \in R => <<x, z>> \in R
      BY <1>7, <1>9
    <2>3. \A x, y \in P : x # y => <<x, y>> \in R \/ <<y, x>> \in R
      BY <1>7, <1>9
    <2> QED
      BY <1>5, <2>1, <2>2, <2>3, Listed
  <1>11. t \in [1..n -> P] /\ InOrder(t)
    BY <1>7, <1>10
  <1>12. s = CHOOSE u \in [1..n -> P] : InOrder(u)
    <2>1. Gen!Cardinality(P) = n
      BY SameOperators
    <2> QED
      BY <2>1, Zenon DEF Gen!Found
  <1>13. s \in [1..n -> P] /\ InOrder(s)
    <2> HIDE DEF InOrder
    <2> QED
      BY <1>11, <1>12, Zenon
  <1>14. \A i, j \in 1..n : i < j => Gen!Precedes(s[i], s[j])
    BY <1>13
  <1>15. \A i, j \in 1..n : i # j => s[i] # s[j]
    <2> SUFFICES ASSUME NEW i \in 1..n, NEW j \in 1..n, i # j, s[i] = s[j]
                 PROVE  FALSE
      OBVIOUS
    <2>1. i < j \/ j < i
      BY <1>6
    <2>2. s[i] \in P
      BY <1>13
    <2> QED
      BY <1>9, <1>14, <2>1, <2>2
  <1>16. \A p \in P : \E i \in 1..n : s[i] = p
    BY <1>5, <1>6, <1>13, <1>15, AllListed
  <1>17. Len(s) = n
    BY <1>6, <1>13
  <1> QED
    BY <1>4, <1>5, <1>6, <1>13, <1>14, <1>16, <1>17 DEF Of

(* The last of some places up to a place.                                   *)
LEMMA LastOf ==
  ASSUME NEW i \in Nat, NEW S, S \subseteq 1..i, NEW w \in S, \A j \in S : j <= w
  PROVE  Gen!Max(S) = w
  <1>1. S \in SUBSET (0..i) /\ S # {} /\ w \in Nat
    OBVIOUS
  <1>2. Max(S) \in S /\ w <= Max(S)
    BY <1>1, MaxIs
  <1>3. Max(S) <= w /\ Max(S) \in Nat
    <2> DEFINE m == Max(S)
    <2>1. m \in S
      BY <1>2
    <2> HIDE DEF m
    <2>2. m \in 1..i /\ m <= w
      BY <2>1
    <2> QED
      BY <2>2 DEF m
  <1>4. Max(S) = w
    BY <1>1, <1>2, <1>3
  <1> QED
    BY <1>4, OfTheLibrary

(* constBlock: the type a constant is taken to have.                        *)
LEMMA CurrentTypeIs ==
  ASSUME NEW block, NEW i \in Nat, NEW w \in 1..i, block[w].type # Gen!NoType,
         \A j \in 1..i : j > w => block[j].type = Gen!NoType
  PROVE  Gen!CurrentType(block, i) = block[w].type
  <1> DEFINE typed == {j \in 1..i : block[j].type # Gen!NoType}
  <1>1. typed \subseteq 1..i /\ w \in typed /\ \A j \in typed : j <= w
    OBVIOUS
  <1>2. Gen!CurrentType(block, i) = IF typed = {} THEN Gen!NoType ELSE block[Gen!Max(typed)].type
    BY Zenon DEF Gen!CurrentType
  <1> HIDE DEF typed
  <1>3. Gen!Max(typed) = w
    BY <1>1, LastOf
  <1> QED
    BY <1>1, <1>2, <1>3

(* The constant whose type and value Go repeats for another.                *)
LEMMA WrittenIs ==
  ASSUME NEW block, NEW i \in Nat, NEW w \in 1..i, block[w].value[1] # "omitted",
         \A j \in 1..i : j > w => block[j].value[1] = "omitted"
  PROVE  Gen!Written(block, i) = w
  <1> DEFINE S == {j \in 1..i : block[j].value[1] # "omitted"}
  <1>1. S \subseteq 1..i /\ w \in S /\ \A j \in S : j <= w
    OBVIOUS
  <1>2. Gen!Written(block, i) = Gen!Max(S)
    BY Zenon DEF Gen!Written
  <1> HIDE DEF S
  <1> QED
    BY <1>1, <1>2, LastOf

(* It is there, when the block begins with a value.                         *)
LEMMA SomeWritten ==
  ASSUME NEW block, NEW i \in Nat \ {0}, block[1].value[1] # "omitted"
  PROVE  LET w == Gen!Written(block, i)
         IN /\ w \in 1..i /\ block[w].value[1] # "omitted"
            /\ \A j \in 1..i : j > w => block[j].value[1] = "omitted"
  <1> DEFINE S == {j \in 1..i : block[j].value[1] # "omitted"}
             w == Gen!Written(block, i)
  <1>1. S \in SUBSET (0..i) /\ 1 \in S
    OBVIOUS
  <1>2. w = Max(S)
    <2>1. Gen!Written(block, i) = Gen!Max(S)
      BY Zenon DEF Gen!Written
    <2> QED
      BY <2>1, OfTheLibrary
  <1> HIDE DEF w
  <1>3. w \in S /\ \A j \in S : j <= w
    <2> HIDE DEF S
    <2> QED
      BY <1>1, <1>2, MaxIs
  <1>4. \A j \in 1..i : j > w => block[j].value[1] = "omitted"
    <2> SUFFICES ASSUME NEW j \in 1..i, j > w, j \in S PROVE FALSE
      OBVIOUS
    <2>1. j <= w /\ w \in 1..i
      BY <1>3
    <2> QED
      BY <2>1
  <1> QED
    BY <1>3, <1>4 DEF w

(* typesafe-gen: no constant whose type is written, there or where it is    *)
(* repeated from, is left out.                                              *)
LEMMA NoneLeftOut ==
  ASSUME NEW package, PackageSane(package), NEW T, T # Gen!NoType, Gen!Compiles(package, T),
         NEW b \in DOMAIN package, NEW i \in DOMAIN package[b],
         package[b][Gen!Written(package[b], i)].type = T, package[b][i].name # Gen!Blank
  PROVE  Gen!Contains(Gen!Found(package, T), <<b, i>>)
  <1> DEFINE block == package[b]
             w == Gen!Written(block, i)
  <1>1. /\ DOMAIN block = 1..Len(block) /\ Len(block) \in Nat
        /\ DOMAIN package = 1..Len(package) /\ Len(package) \in Nat
    BY DEF PackageSane
  <1>2. /\ block[1].value[1] # "omitted"
        /\ \A j \in DOMAIN block : block[j].value[1] = "omitted" => block[j].type = Gen!NoType
    BY Zenon DEF Gen!Compiles
  <1>3. block[w].type = T
    OBVIOUS
  <1> HIDE DEF block
  <1>4. i \in Nat \ {0} /\ i \in DOMAIN block
    BY <1>1 DEF block
  <1>5. w \in 1..i /\ \A j \in 1..i : j > w => block[j].value[1] = "omitted"
    BY <1>2, <1>4, SomeWritten
  <1> HIDE DEF w
  <1>6. \A j \in 1..i : j > w => block[j].type = Gen!NoType
    BY <1>1, <1>2, <1>4, <1>5
  <1>7. Gen!CurrentType(block, i) = T
    BY <1>3, <1>4, <1>5, <1>6, CurrentTypeIs
  <1>8. i \in Gen!Of(block, T)
    BY <1>4, <1>7, Zenon DEF Gen!Of, block
  <1> DEFINE P == Gen!Places(package, T)
             s == Gen!Found(package, T)
             p == <<b, i>>
  <1>9. p \in P
    <2>1. p \in Nat \X Nat /\ p[1] = b /\ p[2] = i
      BY <1>1, <1>4
    <2> HIDE DEF p, P
    <2>2. P = {r \in Nat \X Nat : r[1] \in DOMAIN package /\ r[2] \in Gen!Of(package[r[1]], T)}
      BY FoundIs DEF P
    <2> QED
      BY <1>8, <2>1, <2>2 DEF block
  <1>10. \E k \in 1..Len(s) : s[k] = p
    <2> HIDE DEF p
    <2>1. \A r \in P : \E k \in 1..Len(s) : s[k] = r
      <3>1. P = Gen!Places(package, T) /\ s = Gen!Found(package, T)
        OBVIOUS
      <3> HIDE DEF P, s
      <3> QED
        BY <3>1, FoundIs
    <2> QED
      BY <1>9, <2>1
  <1> QED
    BY <1>10, OfTheLibrary, Zenon DEF Contains

(* collectEnum: the constants of the only block of a package.               *)
LEMMA OneBlock ==
  ASSUME NEW block \in Seq(ConstantSpecs), NEW T, NEW package, package = <<block>>,
         NEW S, S = Gen!Of(block, T), NEW n, n = Cardinality(S),
         NEW s, s = Gen!Found(package, T)
  PROVE  /\ IsFiniteSet(S) /\ S \subseteq DOMAIN block /\ n \in Nat /\ DOMAIN s = 1..n
         /\ \A k \in 1..n : s[k][1] = 1 /\ s[k][2] \in S
         /\ \A i, j \in 1..n : i < j => s[i][2] < s[j][2]
         /\ \A x \in S : \E k \in 1..n : s[k][2] = x
         /\ \A k \in 1..n : Gen!Cardinality({x \in S : x < s[k][2]}) = k - 1
         /\ Gen!Base(package, 1, T) = 0
  <1> DEFINE P == Gen!Places(package, T)
             at == [k \in 1..n |-> s[k][2]]
  <1>1. PackageSane(package) /\ DOMAIN package = {1} /\ package[1] = block
    BY DEF PackageSane
  <1>2. DOMAIN block = 1..Len(block) /\ Len(block) \in Nat
    OBVIOUS
  <1>3. S \subseteq DOMAIN block
    BY Zenon DEF Gen!Of
  <1>4. IsFiniteSet(S) /\ S \subseteq Nat
    <2>1. IsFiniteSet(DOMAIN block)
      BY <1>2, FS_Interval
    <2>2. S \in SUBSET DOMAIN block
      BY <1>3
    <2> QED
      BY <1>2, <2>1, <2>2, FS_Subset
  <1>5. n \in Nat
    BY <1>4, FS_CardinalityType
  <1>6. /\ IsFiniteSet(P) /\ s \in [1..Cardinality(P) -> P]
        /\ P = {p \in Nat \X Nat : p[1] \in DOMAIN package /\ p[2] \in Gen!Of(package[p[1]], T)}
        /\ \A i, j \in 1..Cardinality(P) : i < j => Gen!Precedes(s[i], s[j])
        /\ \A p \in P : \E i \in 1..Cardinality(P) : s[i] = p
    <2>1. P = Gen!Places(package, T)
      OBVIOUS
    <2> HIDE DEF P
    <2> QED
      BY <1>1, <2>1, FoundIs, SMTT(60)
  <1> HIDE DEF P
  <1>7. P = {p \in Nat \X Nat : p[1] = 1 /\ p[2] \in S}
    BY <1>1, <1>6
  <1>8. Cardinality(P) = n
    <2> DEFINE f == [x \in S |-> <<1, x>>]
    <2>1. f \in [S -> P]
      BY <1>4, <1>7
    <2>2. \A x, y \in S : f[x] = f[y] => x = y
      OBVIOUS
    <2>3. \A p \in P : \E x \in S : f[x] = p
      <3> SUFFICES ASSUME NEW p \in P PROVE \E x \in S : f[x] = p
        OBVIOUS
      <3>1. p[2] \in S /\ p = <<1, p[2]>>
        BY <1>7
      <3> QED
        BY <3>1
    <2> HIDE DEF f
    <2> QED
      BY <1>4, <2>1, <2>2, <2>3, AsMany
  <1>9. s \in [1..n -> P] /\ \A k \in 1..n : s[k] \in P
    BY <1>6, <1>8
  <1>10. \A k \in 1..n : s[k][1] = 1 /\ s[k][2] \in S
    BY <1>7, <1>9
  <1>11. \A i, j \in 1..n : i < j => s[i][2] < s[j][2]
    <2> SUFFICES ASSUME NEW i \in 1..n, NEW j \in 1..n, i < j PROVE s[i][2] < s[j][2]
      OBVIOUS
    <2>1. Gen!Precedes(s[i], s[j])
      BY <1>6, <1>8
    <2>2. s[i][1] = 1 /\ s[j][1] = 1
      BY <1>10
    <2> QED
      BY <2>1, <2>2 DEF Gen!Precedes
  <1>12. \A x \in S : \E k \in 1..n : s[k][2] = x
    <2> SUFFICES ASSUME NEW x \in S PROVE \E k \in 1..n : s[k][2] = x
      OBVIOUS
    <2> DEFINE p == <<1, x>>
    <2>1. p \in P /\ p[2] = x
      BY <1>4, <1>7
    <2> HIDE DEF p
    <2>2. PICK k \in 1..n : s[k] = p
      BY <1>6, <1>8, <2>1
    <2> QED
      BY <2>1, <2>2
  <1>13. \A k \in 1..n : Gen!Cardinality({x \in S : x < s[k][2]}) = k - 1
    <2>1. at \in [1..n -> S] /\ \A k \in 1..n : at[k] = s[k][2]
      BY <1>10
    <2>2. \A i, j \in 1..n : i < j => at[i] < at[j]
      BY <1>11, <2>1
    <2> HIDE DEF at
    <2>3. \A k \in 1..n : Cardinality(Lower(S, at[k])) = k - 1
      <3>1. \A t \in [1..n -> S] : (\A i, j \in 1..n : i < j => t[i] < t[j])
               => \A k \in 1..n : Cardinality(Lower(S, t[k])) = k - 1
        <4> SUFFICES ASSUME NEW t \in [1..n -> S], \A i, j \in 1..n : i < j => t[i] < t[j]
                     PROVE  \A k \in 1..n : Cardinality(Lower(S, t[k])) = k - 1
          OBVIOUS
        <4>1. IsFiniteSet(S) /\ S \subseteq Nat /\ n = Cardinality(S)
          BY <1>4
        <4> QED
          BY ONLY <4>1, RankOfListed, t \in [1..n -> S], \A i, j \in 1..n : i < j => t[i] < t[j]
      <3> QED
        BY <2>1, <2>2, <3>1
    <2> SUFFICES ASSUME NEW k \in 1..n
                 PROVE  Gen!Cardinality({x \in S : x < s[k][2]}) = k - 1
      OBVIOUS
    <2> DEFINE Z == {x \in S : x < s[k][2]}
    <2>4. Cardinality(Z) = k - 1
      <3>1. Z = Lower(S, at[k])
        BY <2>1, Zenon DEF Lower
      <3> QED
        BY <2>3, <3>1
    <2> HIDE DEF Z
    <2>5. Gen!Cardinality(Z) = k - 1
      BY <2>4, SameOperators
    <2> QED
      BY <2>5 DEF Z
  <1>14. Gen!Base(package, 1, T) = 0
    <2>1. {p \in P : p[1] < 1} = {}
      BY <1>7
    <2>2. Gen!Base(package, 1, T) = Gen!Cardinality({p \in P : p[1] < 1})
      BY Zenon DEF Gen!Base, P
    <2>3. Cardinality({}) = 0
      BY FS_EmptySet
    <2> QED
      BY <2>1, <2>2, <2>3, SameOperators
  <1>15. DOMAIN s = 1..n
    BY <1>9
  <1> QED
    BY <1>3, <1>4, <1>5, <1>10, <1>11, <1>12, <1>13, <1>14, <1>15

(* What collectEnum asks of the only block of a package.                    *)
LEMMA OneBlockCollects ==
  ASSUME NEW block \in Seq(ConstantSpecs), NEW T, NEW package, package = <<block>>,
         NEW S, S = Gen!Of(block, T), NEW n, n = Cardinality(S),
         NEW s, s = Gen!Found(package, T)
  PROVE  Gen!CollectEnum(package, T, "score") <=>
            n # 0 /\ \A k \in 1..n : Gen!Index(block, T, s[k][2], 0) = k - 1
  <1>1. /\ DOMAIN package = {1} /\ package[1] = block /\ Gen!Base(package, 1, T) = 0
        /\ n \in Nat /\ DOMAIN s = 1..n
        /\ \A k \in 1..n : s[k][2] \in S
        /\ \A x \in S : \E k \in 1..n : s[k][2] = x
        /\ \A k \in 1..n : Gen!Cardinality({x \in S : x < s[k][2]}) = k - 1
    BY OneBlock, SMTT(60)
  <1>2. s # <<>> <=> n # 0
    <2>1. DOMAIN <<>> = 1..0
      OBVIOUS
    <2>2. s = <<>> => 1..n = 1..0
      BY <1>1, <2>1
    <2>3. n = 0 => s = <<>>
      <3> SUFFICES ASSUME n = 0 PROVE s = <<>>
        OBVIOUS
      <3>1. DOMAIN s = {}
        BY <1>1
      <3>2. s \in [1..Cardinality(Gen!Places(package, T)) -> Gen!Places(package, T)]
        <4>1. PackageSane(package)
          BY DEF PackageSane
        <4> QED
          BY <4>1, FoundIs
      <3>3. s = [k \in DOMAIN s |-> s[k]]
        BY <3>2
      <3> QED
        BY <3>1, <3>3
    <2> QED
      BY <1>1, <2>2, <2>3
  <1>3. Gen!CollectEnum(package, T, "score") <=>
           s # <<>> /\ \A x \in S : Gen!Positioned(block, T, x, 0)
    BY <1>1, SMTT(60) DEF Gen!CollectEnum, Gen!BlockAccepted
  <1>4. ASSUME NEW k \in 1..n
        PROVE  Gen!Positioned(block, T, s[k][2], 0) <=> Gen!Index(block, T, s[k][2], 0) = k - 1
    <2>1. Gen!Cardinality({x \in S : x < s[k][2]}) = k - 1 /\ k - 1 \in Nat
      BY <1>1, SMTT(60)
    <2> DEFINE c == Gen!Cardinality({x \in S : x < s[k][2]})
    <2>2. Gen!Positioned(block, T, s[k][2], 0) <=> Gen!Index(block, T, s[k][2], 0) = 0 + c
      BY Zenon DEF Gen!Positioned
    <2> HIDE DEF c
    <2>3. c = k - 1 /\ 0 + c = k - 1
      BY <2>1 DEF c
    <2> QED
      BY <2>2, <2>3
  <1>5. (\A x \in S : Gen!Positioned(block, T, x, 0)) <=>
           \A k \in 1..n : Gen!Index(block, T, s[k][2], 0) = k - 1
    BY <1>1, <1>4, SMTT(60)
  <1> QED
    BY <1>2, <1>3, <1>5

-----------------------------------------------------------------------------
(* One iota block of a type alone: the generator and Go number it alike.    *)
LEMMA PlainBlock ==
  ASSUME NEW block \in Seq(ConstantSpecs), block # <<>>, NEW T, T # Gen!NoType,
         block[1].type = T, block[1].value[1] = "iota",
         \A i \in DOMAIN block :
            block[i].name # Gen!Blank /\ (i > 1 => block[i].value[1] = "omitted"),
         NEW package, package = <<block>>, Gen!Compiles(package, T),
         NEW s, s = Gen!Found(package, T)
  PROVE  /\ Gen!CollectEnum(package, T, "score")
         /\ \A k \in DOMAIN s : s[k][1] = 1 /\ Gen!GoValue(block, s[k][2]) = k - 1
  <1> DEFINE n == Len(block)
             S == Gen!Of(block, T)
  <1>1. DOMAIN block = 1..n /\ n \in Nat \ {0}
    <2>1. DOMAIN block = 1..n /\ n \in Nat
      OBVIOUS
    <2>2. n # 0
      OBVIOUS
    <2> QED
      BY <2>1, <2>2
  <1> HIDE DEF n
  <1>2. \A i \in 1..n : i > 1 => block[i].type = Gen!NoType
    <2>1. 1 \in DOMAIN package /\ package[1] = block
      OBVIOUS
    <2>2. \A i \in DOMAIN block : block[i].value[1] = "omitted" => block[i].type = Gen!NoType
      BY <2>1, SMTT(60) DEF Gen!Compiles
    <2> QED
      BY <1>1, <2>2
  <1>3. ASSUME NEW i \in 1..n
        PROVE  Gen!CurrentType(block, i) = T
    <2>1. i \in Nat /\ 1 \in 1..i /\ \A j \in 1..i : j > 1 => block[j].type = Gen!NoType
      BY <1>1, <1>2
    <2> QED
      BY <2>1, CurrentTypeIs
  <1>4. S = 1..n
    <2>1. S = {i \in 1..n : Gen!CurrentType(block, i) = T /\ block[i].name # Gen!Blank}
      BY <1>1, Zenon DEF Gen!Of
    <2> QED
      BY <1>1, <1>3, <2>1
  <1>5. Cardinality(S) = n
    <2>1. 1 \in Int /\ n \in Int /\ ~(1 > n)
      BY <1>1
    <2>2. Cardinality(1..n) = n - 1 + 1
      <3>1. Cardinality(1..n) = IF 1 > n THEN 0 ELSE n - 1 + 1
        BY <2>1, FS_Interval, Zenon
      <3> QED
        BY <2>1, <3>1
    <2> HIDE DEF S
    <2> QED
      BY <1>1, <1>4, <2>2
  <1>6. /\ DOMAIN s = 1..n
        /\ \A k \in 1..n : s[k][1] = 1 /\ s[k][2] \in 1..n
        /\ \A i, j \in 1..n : i < j => s[i][2] < s[j][2]
    <2>1. S = Gen!Of(block, T) /\ n = Cardinality(S)
      BY <1>5
    <2> HIDE DEF S
    <2> QED
      BY <1>4, <2>1, OneBlock
  <1>7. \A k \in 1..n : s[k][2] = k
    <2> DEFINE L == 0..(n - 1)
               r == [k \in 1..n |-> s[k][2] - 1]
    <2>1. r \in [1..n -> L]
      BY <1>1, <1>6, SMTT(60)
    <2>2. \A i, j \in 1..n : i < j => r[i] < r[j]
      BY <1>1, <1>6, SMTT(60)
    <2>3. \A k \in 1..n : r[k] = s[k][2] - 1
      OBVIOUS
    <2> HIDE DEF r
    <2>4. \A k \in 1..n : r[k] = k - 1
      BY <1>1, <2>1, <2>2, Ascending
    <2> SUFFICES ASSUME NEW k \in 1..n PROVE s[k][2] = k
      OBVIOUS
    <2> DEFINE p == s[k][2]
    <2>5. p \in Int /\ k \in Int /\ p - 1 = k - 1
      BY <1>1, <1>6, <2>3, <2>4
    <2> HIDE DEF p
    <2>6. p = k
      BY <2>5
    <2> QED
      BY <2>6 DEF p
  <1>8. ASSUME NEW k \in 1..n
        PROVE  Gen!GoValue(block, k) = k - 1
    <2>1. /\ k \in Nat /\ 1 \in 1..k /\ block[1].value[1] # "omitted"
          /\ \A j \in 1..k : j > 1 => block[j].value[1] = "omitted"
      BY <1>1
    <2>2. Gen!Written(block, k) = 1
      BY <2>1, WrittenIs
    <2> QED
      BY <2>2, Zenon DEF Gen!GoValue
  <1>9. ASSUME NEW k \in 1..n
        PROVE  Gen!Index(block, T, k, 0) = k - 1
    <2>1. block[k].value[1] = "iota"
          \/ (block[k].value[1] = "omitted" /\ Gen!IotaForm(block, T, k))
      <3>1. CASE k = 1
        BY <3>1
      <3>2. CASE k # 1
        <4>1. k > 1 /\ 1 < k /\ 1 \in S
          BY <1>1, <1>4, <3>2
        <4> HIDE DEF S
        <4>2. Gen!IotaForm(block, T, k)
          BY <4>1, Zenon DEF Gen!IotaForm, S
        <4> QED
          BY <1>1, <4>1, <4>2
      <3> QED
        BY <3>1, <3>2
    <2>2. Gen!Index(block, T, k, 0) = 0 + (k - 1)
      BY <2>1, Zenon DEF Gen!Index
    <2> QED
      BY <1>1, <2>2
  <1>10. Gen!CollectEnum(package, T, "score")
    <2>1. \A k \in 1..n : Gen!Index(block, T, s[k][2], 0) = k - 1
      BY <1>7, <1>9
    <2>2. S = Gen!Of(block, T) /\ n = Cardinality(S) /\ n # 0
      BY <1>1, <1>5
    <2> HIDE DEF S
    <2> QED
      BY <2>1, <2>2, OneBlockCollects
  <1> QED
    BY <1>6, <1>7, <1>8, <1>10

(* What the generator reads off a constant is what Go reads, if it reads    *)
(* anything and what the constant repeats, if it repeats one, is iota.      *)
LEMMA ReadsAsGo ==
  ASSUME NEW block \in Seq(ConstantSpecs), NEW T, NEW i \in DOMAIN block,
         block[1].value[1] # "omitted",
         block[i].value[1] = "omitted" => block[Gen!Written(block, i)].value[1] = "iota",
         Gen!Index(block, T, i, 0) # -1
  PROVE  Gen!GoValue(block, i) = Gen!Index(block, T, i, 0)
  <1> DEFINE form == block[i].value[1]
             lit == block[i].value[2]
             x == Gen!Index(block, T, i, 0)
  <1>1. i \in Nat \ {0} /\ block[i] \in ConstantSpecs
    <2>1. DOMAIN block = 1..Len(block) /\ Len(block) \in Nat
      OBVIOUS
    <2> QED
      BY <2>1
  <1>2. lit \in Int /\ i - 1 \in Int
    BY <1>1 DEF ConstantSpecs
  <1>3. "int" # "omitted" /\ "int" # "iota" /\ "iota" # "omitted"
    OBVIOUS
  <1>4. ASSUME form # "omitted" PROVE Gen!Written(block, i) = i
    <2>1. i \in Nat /\ i \in 1..i /\ \A j \in 1..i : ~(j > i)
      BY <1>1
    <2> QED
      BY <1>4, <2>1, WrittenIs
  <1>5. CASE form = "iota"
    <2>1. x = 0 + (i - 1)
      BY <1>5, Zenon DEF Gen!Index
    <2>2. Gen!GoValue(block, i) = i - 1
      BY <1>3, <1>4, <1>5, Zenon DEF Gen!GoValue
    <2> HIDE DEF x
    <2> QED
      BY <1>2, <2>1, <2>2 DEF x
  <1>6. CASE form = "int"
    <2>1. x = 0 + lit
      BY <1>3, <1>6, Zenon DEF Gen!Index
    <2>2. Gen!GoValue(block, i) = lit
      BY <1>3, <1>4, <1>6, Zenon DEF Gen!GoValue
    <2> HIDE DEF x, lit
    <2> QED
      BY <1>2, <2>1, <2>2 DEF x
  <1>7. CASE form = "omitted" /\ Gen!IotaForm(block, T, i)
    <2>1. x = 0 + (i - 1)
      BY <1>7, Zenon DEF Gen!Index
    <2>2. Gen!GoValue(block, i) = i - 1
      BY <1>7, Zenon DEF Gen!GoValue
    <2> HIDE DEF x
    <2> QED
      BY <1>2, <2>1, <2>2 DEF x
  <1>8. CASE form # "iota" /\ form # "int" /\ ~(form = "omitted" /\ Gen!IotaForm(block, T, i))
    <2>1. x = Gen!NoIndex
      BY <1>8, Zenon DEF Gen!Index
    <2> QED
      BY <2>1, Zenon DEF Gen!NoIndex
  <1> QED
    BY <1>5, <1>6, <1>7, <1>8

(* Which levels a list of values is right for.                              *)
LEMMA SelfValidIs ==
  ASSUME NEW package, NEW T, NEW levels, levels = Gen!Found(package, T)
  PROVE  Gen!SelfValid(Gen!Values(package, T)) <=>
           \A k \in DOMAIN levels : Gen!GoValue(package[levels[k][1]], levels[k][2]) = k - 1
  <1> DEFINE value(k) == Gen!GoValue(package[levels[k][1]], levels[k][2])
             values == [k \in DOMAIN levels |-> value(k)]
  <1>1. Gen!Values(package, T) = values
    BY Zenon DEF Gen!Values
  <1>2. DOMAIN values = DOMAIN levels /\ \A k \in DOMAIN levels : values[k] = value(k)
    OBVIOUS
  <1> HIDE DEF values, value
  <1>3. Gen!SelfValid(values) <=> \A k \in DOMAIN levels : value(k) = k - 1
    BY <1>2 DEF Gen!SelfValid
  <1> QED
    BY <1>1, <1>3 DEF value

(* The only block of a package, as a block of constants.                    *)
LEMMA OnlyBlock ==
  ASSUME NEW package, PackageSane(package), Len(package) = 1
  PROVE  package[1] \in Seq(ConstantSpecs) /\ package = <<package[1]>> /\ 1 \in DOMAIN package
  <1> DEFINE Blocks == Seq(ConstantSpecs)
  <1>1. package \in Seq(Blocks)
    BY Zenon DEF PackageSane
  <1> HIDE DEF Blocks
  <1>2. package[1] \in Blocks /\ package = <<package[1]>> /\ 1 \in DOMAIN package
    BY <1>1
  <1> QED
    BY <1>2 DEF Blocks

(* An enum accepted from one block numbers its levels by their positions.   *)
LEMMA OneBlockIsNumbered ==
  ASSUME NEW package, PackageSane(package), NEW T, T # Gen!NoType, Len(package) = 1
  PROVE  Gen!NumberedFor(package, T)
  <1> DEFINE block == package[1]
             S == Gen!Of(block, T)
             n == Cardinality(S)
             s == Gen!Found(package, T)
  <1> SUFFICES ASSUME Gen!Compiles(package, T), Gen!Settled(package, T),
                      Gen!CollectEnum(package, T, "score")
               PROVE  Gen!SelfValid(Gen!Values(package, T))
    BY Zenon DEF Gen!NumberedFor
  <1>1. block \in Seq(ConstantSpecs) /\ package = <<block>> /\ 1 \in DOMAIN package
    BY OnlyBlock
  <1>2. \A i \in S : block[i].value[1] = "omitted" =>
                       block[Gen!Written(block, i)].value[1] = "iota"
    BY <1>1, Zenon DEF Gen!Settled
  <1>3. ASSUME NEW i \in DOMAIN block PROVE block[1].value[1] # "omitted"
    BY <1>1, <1>3, Zenon DEF Gen!Compiles
  <1> HIDE DEF block
  <1>4. /\ S \subseteq DOMAIN block /\ n \in Nat /\ DOMAIN s = 1..n
        /\ \A k \in 1..n : s[k][1] = 1 /\ s[k][2] \in S
        /\ \A k \in 1..n : Gen!Index(block, T, s[k][2], 0) = k - 1
    <2>1. S = Gen!Of(block, T) /\ n = Cardinality(S) /\ s = Gen!Found(package, T)
      OBVIOUS
    <2> HIDE DEF S, n, s
    <2>2. /\ S \subseteq DOMAIN block /\ n \in Nat /\ DOMAIN s = 1..n
          /\ \A k \in 1..n : s[k][1] = 1 /\ s[k][2] \in S
      BY <1>1, <2>1, OneBlock
    <2>3. \A k \in 1..n : Gen!Index(block, T, s[k][2], 0) = k - 1
      BY <1>1, <2>1, OneBlockCollects
    <2> QED
      BY <2>2, <2>3
  <1> HIDE DEF S, n, s
  <1>5. ASSUME NEW k \in DOMAIN s
        PROVE  Gen!GoValue(package[s[k][1]], s[k][2]) = k - 1
    <2>1. s[k][2] \in S /\ s[k][2] \in DOMAIN block /\ s[k][1] = 1 /\ k - 1 # -1
          /\ Gen!Index(block, T, s[k][2], 0) = k - 1
      BY <1>4
    <2>2. Gen!GoValue(block, s[k][2]) = k - 1
      BY <1>1, <1>2, <1>3, <2>1, ReadsAsGo
    <2> QED
      BY <2>1, <2>2 DEF block
  <1> QED
    BY <1>5, SelfValidIs DEF s

(* RubricMeant: a rubric made from one block means, level by level, what the *)
(* constants mean to Go; none with its type written is left out, and a plain *)
(* iota block is always accepted.                                            *)
THEOREM RubricsMean ==
  ASSUME NEW package, PackageSane(package), NEW T, T # Gen!NoType
  PROVE  Gen!RubricMeantFor(package, T)
  <1> DEFINE levels == Gen!Found(package, T)
             plain == /\ Len(package) = 1 /\ package[1] # <<>>
                      /\ package[1][1].type = T /\ package[1][1].value[1] = "iota"
                      /\ \A i \in DOMAIN package[1] :
                           package[1][i].name # Gen!Blank
                           /\ (i > 1 => package[1][i].value[1] = "omitted")
  <1>1. Len(package) = 1 => Gen!NumberedFor(package, T)
    BY OneBlockIsNumbered
  <1>2. Gen!Compiles(package, T) =>
          \A b \in DOMAIN package : \A i \in DOMAIN package[b] :
             package[b][Gen!Written(package[b], i)].type = T /\ package[b][i].name # Gen!Blank
                => Gen!Contains(levels, <<b, i>>)
    BY NoneLeftOut
  <1>3. ASSUME Gen!Compiles(package, T), plain
        PROVE  Gen!CollectEnum(package, T, "score") /\ Gen!SelfValid(Gen!Values(package, T))
    <2> DEFINE block == package[1]
    <2>1. block \in Seq(ConstantSpecs) /\ package = <<block>>
      BY <1>3, OnlyBlock
    <2>2. levels = Gen!Found(package, T)
      OBVIOUS
    <2>3. /\ block # <<>> /\ block[1].type = T /\ block[1].value[1] = "iota"
          /\ \A i \in DOMAIN block :
                block[i].name # Gen!Blank /\ (i > 1 => block[i].value[1] = "omitted")
      BY <1>3
    <2> HIDE DEF levels, block
    <2>4. /\ Gen!CollectEnum(package, T, "score")
          /\ \A k \in DOMAIN levels : levels[k][1] = 1 /\ Gen!GoValue(block, levels[k][2]) = k - 1
      BY <1>3, <2>1, <2>2, <2>3, PlainBlock
    <2>5. \A k \in DOMAIN levels : Gen!GoValue(package[levels[k][1]], levels[k][2]) = k - 1
      BY <2>4, Zenon DEF block
    <2> QED
      BY <2>2, <2>4, <2>5, SelfValidIs
  <1> HIDE DEF levels, plain
  <1> QED
    BY <1>1, <1>2, <1>3, Zenon DEF Gen!RubricMeantFor, levels, plain

(* LiteralsChecked: a block of literals is accepted exactly when they are    *)
(* the positions.                                                            *)
THEOREM LiteralsAreChecked ==
  ASSUME NEW block \in Seq(ConstantSpecs), NEW T
  PROVE  Gen!LiteralsCheckedFor(block, T)
  <1> DEFINE package == <<block>>
             levels == Gen!Found(package, T)
             values == [k \in DOMAIN levels |-> Gen!GoValue(block, levels[k][2])]
             S == Gen!Of(block, T)
             n == Cardinality(S)
  <1> SUFFICES ASSUME \A i \in DOMAIN block :
                         block[i].value[1] = "int" /\ block[i].type # Gen!NoType
               PROVE  Gen!CollectEnum(package, T, "score") <=>
                         levels # <<>> /\ Gen!SelfValid(values)
    BY Zenon DEF Gen!LiteralsCheckedFor
  <1>1. /\ IsFiniteSet(S) /\ S \subseteq DOMAIN block /\ n \in Nat /\ DOMAIN levels = 1..n
        /\ \A k \in 1..n : levels[k][2] \in S
        /\ (Gen!CollectEnum(package, T, "score") <=>
              n # 0 /\ \A k \in 1..n : Gen!Index(block, T, levels[k][2], 0) = k - 1)
    <2>1. S = Gen!Of(block, T) /\ n = Cardinality(S) /\ levels = Gen!Found(package, T)
          /\ package = <<block>>
      OBVIOUS
    <2> HIDE DEF S, n, levels, package
    <2> QED
      BY <2>1, OneBlock, OneBlockCollects, SMTT(60)
  <1>2. Gen!SelfValid(values) <=>
           \A k \in 1..n : Gen!GoValue(block, levels[k][2]) = k - 1
    <2>1. DOMAIN values = DOMAIN levels
          /\ \A k \in DOMAIN levels : values[k] = Gen!GoValue(block, levels[k][2])
      OBVIOUS
    <2> HIDE DEF values, levels, n, S
    <2> QED
      BY <1>1, <2>1 DEF Gen!SelfValid
  <1> HIDE DEF package, levels, values, S, n
  <1>3. ASSUME NEW i \in DOMAIN block
        PROVE  Gen!GoValue(block, i) = block[i].value[2]
               /\ Gen!Index(block, T, i, 0) = block[i].value[2]
    <2>1. DOMAIN block = 1..Len(block) /\ Len(block) \in Nat /\ block[i] \in ConstantSpecs
      OBVIOUS
    <2>2. i \in Nat /\ i \in 1..i /\ \A j \in 1..i : ~(j > i)
      BY <2>1
    <2>3. block[i].value[1] = "int"
      OBVIOUS
    <2>4. "int" # "omitted" /\ "int" # "iota"
      OBVIOUS
    <2>5. Gen!Written(block, i) = i
      BY <2>2, <2>3, <2>4, WrittenIs
    <2>6. Gen!GoValue(block, i) = block[i].value[2]
      BY <2>3, <2>4, <2>5, Zenon DEF Gen!GoValue
    <2>7. Gen!Index(block, T, i, 0) = 0 + block[i].value[2]
      BY <2>3, <2>4, Zenon DEF Gen!Index
    <2>8. block[i].value[2] \in Int
      BY <2>1 DEF ConstantSpecs
    <2> QED
      BY <2>6, <2>7, <2>8
  <1>4. levels # <<>> <=> n # 0
    <2>1. n = 0 => levels = <<>>
      <3>1. PackageSane(package)
        BY DEF PackageSane, package
      <3>2. levels \in [1..Cardinality(Gen!Places(package, T)) -> Gen!Places(package, T)]
        BY <3>1, FoundIs DEF levels
      <3> SUFFICES ASSUME n = 0 PROVE levels = <<>>
        OBVIOUS
      <3>3. DOMAIN levels = {}
        BY <1>1
      <3> QED
        BY <3>2, <3>3
    <2>2. levels = <<>> => n = 0
      <3> SUFFICES ASSUME levels = <<>> PROVE n = 0
        OBVIOUS
      <3>1. 1..n = 1..0 /\ n \in Nat
        BY <1>1
      <3> SUFFICES ASSUME n # 0 PROVE FALSE
        OBVIOUS
      <3>2. 1 \in 1..n /\ 1 \notin 1..0
        BY <3>1
      <3> QED
        BY <3>1, <3>2
    <2> QED
      BY <2>1, <2>2
  <1>5. \A k \in 1..n : levels[k][2] \in DOMAIN block
    BY <1>1
  <1> QED
    BY <1>1, <1>2, <1>3, <1>4, <1>5

-----------------------------------------------------------------------------
(* Names are made of strings: the provers do not know these to be some.      *)
Letters == STRING \cup {"question", "answer", "questions", "capitalized"}
Names == Seq(Letters \X Letters)

LEMMA WordsAreNames == Words \subseteq Names
  <1> DEFINE C == STRING \X STRING
             E == Letters \X Letters
  <1>1. STRING \subseteq Letters
    BY Zenon DEF Letters
  <1>2. C \subseteq E
    BY <1>1
  <1>3. Words = Seq(C) /\ Names = Seq(E)
    BY Zenon DEF Words, Names
  <1> HIDE DEF C, E
  <1>4. \A p \in Seq(C) : p \in Seq(E)
    BY <1>2
  <1> QED
    BY <1>3, <1>4, Zenon

(* The generated method names of the fields differ.                         *)
LEMMA MethodNamesDiffer ==
  ASSUME NEW p \in Names, NEW q \in Names, NEW v \in Letters, NEW w \in Letters
  PROVE  /\ Gen!Method(p, v) = Gen!Method(q, w) => p = q /\ v = w
         /\ Gen!Method(p, v) = Gen!Word(w) => v = w
  <1> DEFINE C == Letters \X Letters
             a == <<v, "capitalized">>
             c == <<w, "capitalized">>
             none == <<>>
  <1>1. p \in Seq(C) /\ q \in Seq(C) /\ a \in C /\ c \in C /\ none \in Seq(C)
    <2>1. p \in Seq(C) /\ q \in Seq(C)
      BY Zenon DEF Names
    <2>2. "capitalized" \in Letters
      BY DEF Letters
    <2>3. a \in C /\ c \in C
      <3> DEFINE cased == "capitalized"
      <3>1. cased \in Letters
        BY <2>2
      <3> HIDE DEF cased
      <3>2. <<v, cased>> \in Letters \X Letters /\ <<w, cased>> \in Letters \X Letters
        BY <3>1
      <3> QED
        BY <3>2 DEF cased
    <2>4. none \in Seq(C)
      OBVIOUS
    <2> QED
      BY <2>1, <2>3, <2>4
  <1>2. a = c => v = w
    OBVIOUS
  <1>3. Gen!Word(w) = <<c>> /\ Gen!Method(p, v) = p \o <<a>> /\ Gen!Method(q, w) = q \o <<c>>
    BY Zenon DEF Gen!Word, Gen!Method
  <1>4. Append(none, c) = <<c>>
    <2> HIDE DEF c
    <2> QED
      OBVIOUS
  <1> HIDE DEF C, a, c, none
  <1>5. Append(p, a) = p \o <<a>> /\ Append(q, c) = q \o <<c>>
    BY <1>1, AppendIsConcat
  <1>6. Append(p, a) = Append(q, c) => p = q /\ a = c
    BY <1>1, AppendInjective
  <1>7. Append(p, a) = Append(none, c) => a = c
    BY <1>1, AppendInjective
  <1> QED
    BY <1>2, <1>3, <1>4, <1>5, <1>6, <1>7

(* A method for every field and word, none named by another word alone.     *)
LEMMA ManyMethods ==
  ASSUME NEW X, IsFiniteSet(X), NEW W, IsFiniteSet(W), W \subseteq Letters,
         NEW name \in [X -> Names], \A i, j \in X : name[i] = name[j] => i = j,
         NEW A, A = {Gen!Method(name[i], w) : i \in X, w \in W}
  PROVE  /\ IsFiniteSet(A) /\ Cardinality(A) = Cardinality(X) * Cardinality(W)
         /\ \A v \in Letters : v \notin W => Gen!Word(v) \notin A
  <1> DEFINE Z == X \X W
             f == [z \in Z |-> Gen!Method(name[z[1]], z[2])]
  <1>1. IsFiniteSet(Z) /\ Cardinality(Z) = Cardinality(X) * Cardinality(W)
    BY FS_Product
  <1>2. ASSUME NEW y \in Z, NEW z \in Z, f[y] = f[z]
        PROVE  y = z
    <2>1. /\ y[1] \in X /\ z[1] \in X /\ y[2] \in Letters /\ z[2] \in Letters
          /\ y = <<y[1], y[2]>> /\ z = <<z[1], z[2]>>
      OBVIOUS
    <2>2. Gen!Method(name[y[1]], y[2]) = Gen!Method(name[z[1]], z[2])
      BY <1>2
    <2>3. name[y[1]] \in Names /\ name[z[1]] \in Names
      BY <2>1
    <2>4. name[y[1]] = name[z[1]] /\ y[2] = z[2]
      BY <2>1, <2>2, <2>3, MethodNamesDiffer
    <2>5. y[1] = z[1]
      BY <2>1, <2>4
    <2> QED
      BY <2>1, <2>4, <2>5
  <1>3. f \in [Z -> A]
    OBVIOUS
  <1>4. ASSUME NEW a \in A
        PROVE  \E z \in Z : f[z] = a
    <2>1. PICK i \in X, w \in W : a = Gen!Method(name[i], w)
      OBVIOUS
    <2> DEFINE z == <<i, w>>
    <2>2. z \in Z /\ z[1] = i /\ z[2] = w
      OBVIOUS
    <2> HIDE DEF z
    <2>3. f[z] = a
      BY <2>1, <2>2
    <2> QED
      BY <2>2, <2>3
  <1> HIDE DEF Z, f
  <1>5. IsFiniteSet(A) /\ Cardinality(A) = Cardinality(Z)
    BY <1>1, <1>2, <1>3, <1>4, AsMany
  <1>6. ASSUME NEW v \in Letters, v \notin W, Gen!Word(v) \in A
        PROVE  FALSE
    <2>1. PICK i \in X, w \in W : Gen!Method(name[i], w) = Gen!Word(v)
      BY <1>6
    <2>2. name[i] \in Names /\ w \in Letters
      OBVIOUS
    <2>3. w = v
      BY <2>1, <2>2, MethodNamesDiffer
    <2> QED
      BY <1>6, <2>3
  <1> QED
    BY <1>1, <1>5, <1>6

(* EveryFieldAsked: no tagged field replaces another in the request, and no  *)
(* generated method has the name of another or of a field that declares it.  *)
THEOREM EveryFieldIsAsked ==
  ASSUME NEW fields, FieldSane(fields)
  PROVE  Gen!EveryFieldAskedFor(fields)
  <1> DEFINE I == DOMAIN fields
             X == Gen!Tagged(fields)
             C == Gen!Declared(fields)
             N == {fields[i].name : i \in C}
             M == Gen!Methods(fields)
  <1> SUFFICES ASSUME Gen!Generate(fields)
               PROVE  /\ Gen!Cardinality(DOMAIN Gen!Questions(fields)) = Gen!Cardinality(X)
                      /\ Gen!Cardinality(M \cup N) = 2 * Gen!Cardinality(X) + 1 + Gen!Cardinality(C)
    BY Zenon DEF Gen!EveryFieldAskedFor
  <1>1. /\ I = 1..Len(fields) /\ Len(fields) \in Nat
        /\ \A i \in I : fields[i].name \in Words
        /\ \A i, j \in I : fields[i].name = fields[j].name => i = j
    <2> DEFINE F == [name : Words, names : {"one", "shared", "embedded"}, typeNamed : BOOLEAN,
                     kind : STRING, id : Seq(STRING), documented : BOOLEAN]
    <2>1. fields \in Seq(F) /\ \A i, j \in I : fields[i].name = fields[j].name => i = j
      BY Zenon DEF FieldSane
    <2>2. \A e \in F : e.name \in Words
      OBVIOUS
    <2> HIDE DEF F
    <2>3. I = 1..Len(fields) /\ Len(fields) \in Nat /\ \A i \in I : fields[i] \in F
      BY <2>1
    <2> QED
      BY <2>1, <2>2, <2>3
  <1>2. /\ \A i, j \in X : i # j => Gen!Id(fields[i]) # Gen!Id(fields[j])
        /\ \A i \in C : fields[i].name \notin M
    BY Zenon DEF Gen!Generate, Gen!CollectQuestions, Gen!DistinctIds
  <1>3. IsFiniteSet(I) /\ Cardinality(I) = Len(fields)
    <2>1. 1 \in Int /\ Len(fields) \in Int
      BY <1>1
    <2>2. IsFiniteSet(1..Len(fields))
          /\ Cardinality(1..Len(fields)) = IF 1 <= Len(fields) THEN Len(fields) - 1 + 1 ELSE 0
      BY <2>1, FS_Interval
    <2>3. I = 1..Len(fields) /\ Len(fields) \in Nat
      BY <1>1
    <2> HIDE DEF I
    <2> QED
      BY <2>2, <2>3
  <1>4. X \subseteq I /\ C \subseteq I
    BY Zenon DEF Gen!Tagged, Gen!Declared
  <1> HIDE DEF I, X, C
  <1>5. IsFiniteSet(X) /\ Cardinality(X) \in Nat
    <2>1. X \in SUBSET I
      BY <1>4
    <2> QED
      BY <1>3, <2>1, FS_Subset, FS_CardinalityType
  <1>6. Cardinality(DOMAIN Gen!Questions(fields)) = Cardinality(X)
    <2> DEFINE Y == {Gen!Id(fields[i]) : i \in X}
               f == [i \in X |-> Gen!Id(fields[i])]
    <2>1. DOMAIN Gen!Questions(fields) = Y
      BY DEF Gen!Questions, X
    <2>2. f \in [X -> Y] /\ \A i, j \in X : f[i] = f[j] => i = j
      BY <1>2
    <2>3. \A y \in Y : \E i \in X : f[i] = y
      OBVIOUS
    <2> HIDE DEF f, Y
    <2>4. Cardinality(Y) = Cardinality(X)
      BY <1>5, <2>2, <2>3, AsMany
    <2> QED
      BY <2>1, <2>4
  <1>7. IsFiniteSet(N) /\ Cardinality(N) = Cardinality(C) /\ Cardinality(C) \in Nat
    <2> DEFINE f == [i \in C |-> fields[i].name]
    <2>1. f \in [C -> N] /\ \A i, j \in C : f[i] = f[j] => i = j
      BY <1>1, <1>4 DEF I
    <2>2. \A y \in N : \E i \in C : f[i] = y
      OBVIOUS
    <2>3. IsFiniteSet(C) /\ Cardinality(C) \in Nat
      <3>1. C \in SUBSET I
        BY <1>4
      <3> QED
        BY <1>3, <3>1, FS_Subset, FS_CardinalityType
    <2> HIDE DEF f, N
    <2> QED
      BY <2>1, <2>2, <2>3, AsMany
  <1> DEFINE W == {"question", "answer"}
             A == {Gen!Method(fields[i].name, w) : i \in X, w \in W}
             first == Gen!Word("questions")
  <1>8. M = {first} \cup A
    BY DEF Gen!Methods, X
  <1>9. IsFiniteSet(W) /\ Cardinality(W) = 2
    <2>1. IsFiniteSet({"question"}) /\ Cardinality({"question"}) = 1
      BY FS_Singleton
    <2>2. W = {"question"} \cup {"answer"} /\ "answer" \notin {"question"}
      OBVIOUS
    <2> HIDE DEF W
    <2> QED
      BY <2>1, <2>2, FS_AddElement
  <1>10. W \subseteq Letters /\ "questions" \in Letters /\ "questions" \notin W
    <2>1. "question" \in Letters /\ "answer" \in Letters /\ "questions" \in Letters
      BY DEF Letters
    <2>2. "questions" \notin W
      OBVIOUS
    <2>3. W \subseteq Letters
      <3> SUFFICES ASSUME NEW w \in W PROVE w \in Letters
        BY Zenon
      <3>1. w = "question" \/ w = "answer"
        BY Zenon
      <3> QED
        BY <2>1, <3>1, Zenon
    <2> QED
      BY <2>1, <2>2, <2>3
  <1> HIDE DEF W
  <1>11. IsFiniteSet(A) /\ Cardinality(A) = Cardinality(X) * 2 /\ first \notin A
    <2> DEFINE name == [i \in X |-> fields[i].name]
    <2>1. name \in [X -> Names] /\ \A i, j \in X : name[i] = name[j] => i = j
      BY <1>1, <1>4, WordsAreNames DEF I
    <2>2. A = {Gen!Method(name[i], w) : i \in X, w \in W}
      <3>1. \A i \in X : name[i] = fields[i].name
        OBVIOUS
      <3> HIDE DEF name
      <3> QED
        BY <3>1
    <2> HIDE DEF name, A
    <2>3. /\ IsFiniteSet(A) /\ Cardinality(A) = Cardinality(X) * Cardinality(W)
          /\ \A v \in Letters : v \notin W => Gen!Word(v) \notin A
      BY <1>5, <1>9, <1>10, <2>1, <2>2, ManyMethods
    <2> QED
      BY <1>9, <1>10, <2>3
  <1> HIDE DEF A, first
  <1>12. IsFiniteSet(M) /\ Cardinality(M) = Cardinality(X) * 2 + 1
    <2>1. IsFiniteSet(A \cup {first}) /\ Cardinality(A \cup {first}) = Cardinality(A) + 1
      BY <1>11, FS_AddElement
    <2>2. M = A \cup {first}
      BY <1>8
    <2> QED
      BY <1>5, <1>11, <2>1, <2>2
  <1>13. M \cap N = {}
    BY <1>2
  <1> HIDE DEF M, N
  <1>14. Cardinality(M \cup N) = 2 * Cardinality(X) + 1 + Cardinality(C)
    <2>1. Cardinality(M \cap N) = 0
      BY <1>13, FS_EmptySet
    <2>2. Cardinality(M \cup N) = Cardinality(M) + Cardinality(N) - Cardinality(M \cap N)
      BY <1>7, <1>12, FS_Union
    <2> QED
      BY <1>5, <1>7, <1>12, <2>1, <2>2
  <1> QED
    BY <1>6, <1>14, SameOperators DEF X, M, N, C

(* ToolsForetell: what is said beforehand of a request, of a command or of   *)
(* generated code is what happens, for every input.                          *)
THEOREM ToolsDoForetell == InputSane => ToolsForetell
  <1> SUFFICES ASSUME InputSane PROVE ToolsForetell
    OBVIOUS
  <1>1. LongestSettled /\ SingleIsDearestAlone /\ NeverUnderCounts
    <2>1. input[1] = "sizes" => RequestSane(input[2].r) /\ input[2].rate \in Int
                              /\ input[2].default \in Nat
      BY Zenon DEF InputSane
    <2> QED
      BY <2>1, EstimatesAreSettled, SinglesAreDearest, EstimatesCoverTheCost, Zenon
         DEF LongestSettled, SingleIsDearestAlone, NeverUnderCounts
  <1>2. OfflineStaysOffline /\ LintForetells /\ DoctorForetells /\ RecordedReplays
    <2>1. input[1] = "invocation" => input[2] \in Invocations
      BY Zenon DEF InputSane
    <2> QED
      BY <2>1, OfflineIsOffline, LintDoesForetell, DoctorDoesForetell, RecordingsDoReplay, Zenon
         DEF OfflineStaysOffline, LintForetells, DoctorForetells, RecordedReplays
  <1>3. RubricMeant /\ LiteralsChecked
    <2>1. input[1] = "package" => PackageSane(input[2])
      BY Zenon DEF InputSane, PackageSane
    <2>2. "T" # Gen!NoType
      BY DEF Gen!NoType
    <2>3. PackageSane(input[2]) => \A b \in DOMAIN input[2] : input[2][b] \in Seq(ConstantSpecs)
      <3> DEFINE Blocks == Seq(ConstantSpecs)
      <3>1. PackageSane(input[2]) => input[2] \in Seq(Blocks)
        BY Zenon DEF PackageSane
      <3> HIDE DEF Blocks
      <3>2. PackageSane(input[2]) => \A b \in DOMAIN input[2] : input[2][b] \in Blocks
        BY <3>1
      <3> QED
        BY <3>2 DEF Blocks
    <2>4. RubricMeant
      <3> DEFINE t == "T"
      <3>1. t # Gen!NoType
        BY <2>2
      <3>2. RubricMeant <=> (input[1] = "package" => Gen!RubricMeantFor(input[2], t))
        BY Zenon DEF RubricMeant
      <3> HIDE DEF t
      <3>3. PackageSane(input[2]) => Gen!RubricMeantFor(input[2], t)
        BY <3>1, RubricsMean
      <3> QED
        BY <2>1, <3>2, <3>3
    <2>5. LiteralsChecked
      BY <2>1, <2>3, LiteralsAreChecked, Zenon DEF LiteralsChecked
    <2> QED
      BY <2>4, <2>5
  <1>4. EveryFieldAsked
    <2>1. input[1] = "fields" => FieldSane(input[2])
      BY Zenon DEF InputSane
    <2> QED
      BY <2>1, EveryFieldIsAsked, Zenon DEF EveryFieldAsked
  <1> QED
    BY <1>1, <1>2, <1>3, <1>4, Zenon DEF ToolsForetell
=============================================================================
