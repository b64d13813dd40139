------------------------------ MODULE TestDoubles -----------------------------
(***************************************************************************)
(* The stand-ins of the typesafetest package.  Mock answers from a script  *)
(* of queued outcomes and from standing answers by question; Server gives  *)
(* each request the next of its canned responses and the last one from     *)
(* then on.  Both are used by concurrent goroutines under their own mutex. *)
(*                                                                         *)
(* A request is the set of its questions; the empty set is one that does   *)
(* not validate.                                                           *)
(***************************************************************************)
EXTENDS Integers, Sequences, FiniteSets, SequencesExt

CONSTANTS
    QuestionNames, \* question ids
    MockReplies, \* errors and responses a test queues on the mock
    NilReply,    \* ReturnError(nil) or ReturnResponse(nil), not among them
    Canned,      \* responses a test gives the server, in order
    Clients,     \* goroutines that talk to the server
    MaxSteps     \* bound on the operations of one test, a natural number

VARIABLES
    mock,      \* standing answers, queued outcomes, the calls recorded
    script,    \* outcomes queued since the last Reset, in order
    told,      \* each mock call since the last Reset, in order: request,
               \* context alive, answer, queued outcome it used up
    server,    \* requests recorded and the count of calls
    pending,   \* each client's request that has its handler but no reply
    replies,   \* replies written: request, number in the id header, response
    steps

doublesVars == <<mock, script, told, server, pending, replies, steps>>

Empty == "empty answers"
NoOutcome == "nothing queued"
QueuedOutcomes == MockReplies \cup {NilReply}

ASSUME OutcomesAssumption == NilReply \notin MockReplies /\ NoOutcome \notin QueuedOutcomes

DoublesInit ==
    /\ mock = [standing |-> {}, queue |-> <<>>, calls |-> <<>>]
    /\ script = <<>> /\ told = <<>>
    /\ server = [requests |-> <<>>, calls |-> 0]
    /\ pending = [c \in Clients |-> <<>>]
    /\ replies = {}
    /\ steps = 0

Step == steps < MaxSteps /\ steps' = steps + 1
MockOnly == Step /\ UNCHANGED <<server, pending, replies>>
ServerOnly == Step /\ UNCHANGED <<mock, script, told>>

-----------------------------------------------------------------------------
(* On, and ReturnError or ReturnResponse.                                   *)
On(q) ==
    /\ MockOnly
    /\ mock' = [mock EXCEPT !.standing = @ \cup {q}]
    /\ UNCHANGED <<script, told>>
Queue(o) ==
    /\ MockOnly
    /\ mock' = [mock EXCEPT !.queue = Append(@, o)]
    /\ script' = Append(script, o)
    /\ UNCHANGED told

(* What a call is told: the queued outcome it takes, unless that is neither *)
(* an error nor a response; else its standing answers, else which question  *)
(* has none.                                                                *)
Unscripted(qs) ==
    IF qs \subseteq mock.standing THEN "standing" ELSE "not programmed"
Taken == IF mock.queue = <<>> THEN NoOutcome ELSE Head(mock.queue)
Told(qs) == IF mock.queue # <<>> /\ Taken # NilReply THEN Taken
            ELSE Unscripted(qs)

(* SystemOne: a cancelled or invalid request never reaches the lock.        *)
Accepted(qs, live) == live /\ qs # {}
SystemOne(qs, live) ==
    /\ MockOnly
    /\ IF Accepted(qs, live)
       THEN /\ told' = Append(told, <<qs, live, Told(qs), Taken>>)
            /\ mock' = [mock EXCEPT
                  !.calls = Append(@, qs),
                  !.queue = IF @ = <<>> THEN @ ELSE Tail(@)]
       ELSE UNCHANGED <<told, mock>>
    /\ UNCHANGED script

(* Reset keeps the standing answers.                                        *)
Reset ==
    /\ MockOnly
    /\ mock' = [mock EXCEPT !.calls = <<>>, !.queue = <<>>]
    /\ script' = <<>> /\ told' = <<>>

-----------------------------------------------------------------------------
(* The handler of call number n, from zero.                                 *)
HandlerWrapping(n) ==
    IF Canned = <<>> THEN Empty ELSE Canned[(n % Len(Canned)) + 1]
Handler(n) == CASE Canned = <<>> -> Empty
                [] Canned # <<>> /\ n < Len(Canned) -> Canned[n + 1]
                [] OTHER -> Last(Canned)

(* serve records the request and takes its handler in one critical section. *)
Serve(c) ==
    /\ ServerOnly
    /\ pending[c] = <<>>
    /\ server' = [requests |-> Append(server.requests, c),
                  calls |-> server.calls + 1]
    /\ pending' = [pending EXCEPT ![c] =
          <<server.calls, Handler(server.calls)>>]
    /\ UNCHANGED replies
(* Outside it, the handler writes the reply.                                *)
Reply(c) ==
    /\ ServerOnly
    /\ pending[c] # <<>>
    /\ replies' = replies \cup {<<c, pending[c][1], pending[c][2]>>}
    /\ pending' = [pending EXCEPT ![c] = <<>>]
    /\ UNCHANGED server

DoublesNext ==
    \/ \E q \in QuestionNames : On(q)
    \/ \E o \in QueuedOutcomes : Queue(o)
    \/ \E qs \in SUBSET QuestionNames, live \in BOOLEAN : SystemOne(qs, live)
    \/ Reset
    \/ \E c \in Clients : Serve(c) \/ Reply(c)

DoublesSpec == DoublesInit /\ [][DoublesNext]_doublesVars

-----------------------------------------------------------------------------
(* A script is followed: since the last Reset the accepted calls used up    *)
(* the queued outcomes in order and each once, whatever came between, a     *)
(* refused call took none, and a call that took an error or a response was  *)
(* told that one and nothing else.                                          *)
Got(answers, n) == {i \in 1..n : answers[i][4] \in QueuedOutcomes}
ToldWhatItTook(answer) ==
    IF answer[4] \in MockReplies THEN answer[3] = answer[4]
    ELSE answer[3] \in {"standing", "not programmed"}
ScriptFollowed ==
    LET given == Cardinality(Got(told, Len(told)))
    IN /\ \A i \in Got(told, Len(told)) :
             told[i][4] = script[Cardinality(Got(told, i))]
       /\ \A i \in DOMAIN told : ToldWhatItTook(told[i])
       /\ given + Len(mock.queue) = Len(script)
       /\ \A k \in DOMAIN mock.queue : mock.queue[k] = script[given + k]
       /\ Len(mock.calls) = Len(told)
       /\ \A i \in DOMAIN told : told[i][2] /\ told[i][1] # {}

(* The request that the server recorded at position i is the one whose      *)
(* reply carries number i - 1 and the i-th canned response, or the last.    *)
RepliesMatchRequests ==
    /\ server.calls = Len(server.requests)
    /\ \A r \in replies :
          /\ server.requests[r[2] + 1] = r[1]
          /\ r[3] = IF Canned = <<>> THEN Empty
                    ELSE Canned[IF r[2] < Len(Canned) THEN r[2] + 1
                                ELSE Len(Canned)]

(* A test double answers by its script, in order, whichever goroutine asks  *)
(* first (mock.go, server.go).                                              *)
DoublesFaithful == ScriptFollowed /\ RepliesMatchRequests
=============================================================================
