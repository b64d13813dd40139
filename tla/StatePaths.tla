------------------------------ MODULE StatePaths ------------------------------
(***************************************************************************)
(* References into the state that a question writes between backticks       *)
(* (internal/statepath and references.go), found and resolved before the    *)
(* request is sent.                                                         *)
(*                                                                         *)
(* A path is the sequence of its dot-separated parts, each a name, "" if    *)
(* absent, and the brackets after it: an index, or NoIndex for one that is  *)
(* not closed or not a number.  A string is the sequence of the pieces that *)
(* its backticks separate.  A JSON value is <<"null">>, <<"str", pieces>>,   *)
(* <<"arr", elements>> or <<"obj", function from keys>>.                      *)
(***************************************************************************)
EXTENDS Integers, FiniteSets, Sequences, SequencesExt

CONSTANTS NoIndex, KeyOrder

\* The spans of a string: every second piece, but the last one is not closed.
Backticked(pieces) ==
    LET spans == [i \in 1..(Len(pieces) - 1) |-> IF i % 2 = 0 THEN pieces[i] ELSE <<>>]
    IN SelectSeq(spans, LAMBDA span : span # <<>>)

RECURSIVE Spans(_)
Spans(v) ==
    CASE v[1] = "str" -> Backticked(v[2])
      [] v[1] = "arr" -> FlattenSeq([i \in DOMAIN v[2] |-> Spans(v[2][i])])
      [] v[1] = "obj" ->
            LET keys == SelectSeq(KeyOrder, LAMBDA k : k \in DOMAIN v[2])
            IN FlattenSeq([i \in DOMAIN keys |-> Spans(v[2][keys[i]])])
      [] OTHER -> <<>>
Once(spans) ==
    FoldLeft(LAMBDA out, p : IF Contains(out, p) THEN out ELSE Append(out, p), <<>>, spans)
Extract(v) == Once(Spans(v))

Parses(path) ==
    /\ path # <<>>
    /\ \A i \in DOMAIN path :
         /\ path[i].name # "" \/ path[i].brackets # <<>>
         /\ ~Contains(path[i].brackets, NoIndex)
Segments(path) ==
    FlattenSeq([i \in DOMAIN path |->
        (IF path[i].name = "" THEN <<>> ELSE <<[key |-> path[i].name]>>)
        \o [j \in DOMAIN path[i].brackets |-> [index |-> path[i].brackets[j]]]])

IsKey(seg) == "key" \in DOMAIN seg
Missing == <<"missing">>
Member(cur, k) == IF cur[1] = "obj" /\ k \in DOMAIN cur[2] THEN cur[2][k] ELSE Missing
Element(cur, i) == IF cur[1] = "arr" /\ i \in 0..(Len(cur[2]) - 1) THEN cur[2][i + 1] ELSE Missing
Step(cur, seg) == IF IsKey(seg) THEN Member(cur, seg.key) ELSE Element(cur, seg.index)
Resolve(state, path) == FoldLeft(Step, state, Segments(path))

LooksLikePath(path) == Parses(path) /\ Len(Segments(path)) > 1
Unresolved(state, path) == LooksLikePath(path) /\ Resolve(state, path) = Missing

Check(state, v) == SelectSeq(Extract(v), LAMBDA path : Unresolved(state, path))

Report(out, id, paths) == out \o [i \in DOMAIN paths |-> [id |-> id, path |-> paths[i]]]

\* The questions in the order of their ids; what does not encode is skipped, and a
\* state that does not encode, or is not there, resolves nothing.
Encodes(v) == v[1] # "func"
CheckReferences(state, questions) ==
    IF state[1] = "nil" \/ ~Encodes(state) THEN <<>>
    ELSE FoldLeft(LAMBDA out, id :
                    IF Encodes(questions[id])
                    THEN Report(out, id, Check(state, questions[id])) ELSE out,
                  <<>>, SelectSeq(KeyOrder, LAMBDA id : id \in DOMAIN questions))

-----------------------------------------------------------------------------
\* The segment sequences that lead somewhere in a value, null included.
RECURSIVE Positions(_)
Positions(v) ==
    {<<>>} \cup
    CASE v[1] = "arr" ->
            UNION {{<<[index |-> i - 1]>> \o rest : rest \in Positions(v[2][i])} : i \in DOMAIN v[2]}
      [] v[1] = "obj" ->
            UNION {{<<[key |-> k]>> \o rest : rest \in Positions(v[2][k])} : k \in DOMAIN v[2]}
      [] OTHER -> {}

\* A reference is reported exactly when it is shaped like a path and leads nowhere
\* in the state: a null or a last element is somewhere, however it is spelled.
WarnedIffNowhereFor(state, path) ==
    (CheckReferences(state, [q \in {KeyOrder[1]} |-> <<"str", <<<<>>, path, <<>>>>>>]) # <<>>)
        <=> LooksLikePath(path) /\ Segments(path) \notin Positions(state)

\* Every question that writes such a reference is named with it, once, however often
\* and wherever in its instructions it is written, and the questions come in order.
EveryQuestionWarnedFor(state, questions) ==
    LET out == CheckReferences(state, questions)
        wrong(id) == {p \in ToSet(Spans(questions[id])) : Unresolved(state, p)}
    IN Encodes(state) /\ state[1] # "nil" =>
        /\ IsInjective(out)
        /\ ToSet(out) = UNION {{[id |-> id, path |-> p] : p \in wrong(id)} :
                               id \in {i \in DOMAIN questions : Encodes(questions[i])}}
        /\ \A i, j \in DOMAIN out : i < j =>
             SelectInSeq(KeyOrder, LAMBDA k : k = out[i].id)
                <= SelectInSeq(KeyOrder, LAMBDA k : k = out[j].id)
=============================================================================
