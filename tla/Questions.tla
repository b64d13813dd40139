------------------------------ MODULE Questions ------------------------------
(***************************************************************************)
(* Questions and the ways they are written: as structs, with the fluent    *)
(* builders, typed by constants, from a request file or the flags of the   *)
(* command line, from an MCP tool call, and as the raw input of a Temporal *)
(* activity; what Validate says of each; and their wire form.              *)
(*                                                                         *)
(* A text is nil, empty or something.  A question is its kind, its         *)
(* instructions and its criteria: of a noul none or what true and false    *)
(* mean, of a choice a text for each option, of a score a sequence of      *)
(* texts, of a raw question empty unless it sets its type.  Options are     *)
(* numbers, Blank stands for a name of spaces.                             *)
(***************************************************************************)
EXTENDS Integers, Sequences, FiniteSets, SequencesExt

CONSTANTS
    Blank,           \* the name that is empty once trimmed
    MinScoreLevels,
    MaxScoreLevels

NoCriteria == <<>>
Question(kind, instructions, criteria) ==
    [kind |-> kind, instructions |-> instructions, criteria |-> criteria,
     form |-> "struct", self |-> TRUE]

(* A typed question that is inconsistent in itself fails validateSelf.      *)
Typed(q, consistent) == [q EXCEPT !.form = "typed", !.self = consistent]
Built(q) == [q EXCEPT !.form = "builder"]

(* validateQuestion, the wrapper first and then what is underneath it: an   *)
(* error, or the number of warnings.                                        *)
Invalid == -1
Few(q) == IF Cardinality(DOMAIN q.criteria) = 1 THEN 1 ELSE 0
Quiet(q) == IF q.instructions = "nil" THEN 1 ELSE 0
Unexplained(q) == Cardinality({i \in DOMAIN q.criteria : q.criteria[i] = "nil"})
ValidateQuestion(q) ==
    CASE ~q.self \/ q.kind = "nil" -> Invalid
      [] q.self /\ q.kind = "noul" ->
            IF q.instructions = "nil" /\ q.criteria = NoCriteria THEN 1 ELSE 0
      [] q.self /\ q.kind = "choice" ->
            IF DOMAIN q.criteria = {} \/ Blank \in DOMAIN q.criteria THEN Invalid
            ELSE Few(q) + Quiet(q)
      [] q.self /\ q.kind = "score" ->
            IF Len(q.criteria) \notin MinScoreLevels..MaxScoreLevels THEN Invalid
            ELSE Few(q) + Unexplained(q) + Quiet(q)
      [] q.self /\ q.kind = "raw" -> IF q.criteria = NoCriteria THEN Invalid ELSE 0

(* Validate of a whole request.                                             *)
Validate(questions) ==
    DOMAIN questions # {}
    /\ \A id \in DOMAIN questions : id # Blank /\ ValidateQuestion(questions[id]) # Invalid

(* MarshalJSON: the fields that are present.  Nil texts are omitted, except *)
(* where the key itself says something; nil criteria of a choice or score   *)
(* are sent as empty.                                                       *)
Present(texts) == [i \in {j \in DOMAIN texts : texts[j] # "nil"} |-> texts[i]]
Wire(q) ==
    LET head == IF q.instructions = "nil" THEN {} ELSE {"instructions"}
        body == IF q.kind = "noul" /\ q.criteria = NoCriteria THEN {} ELSE {"criteria"}
    IN [type |-> q.kind, fields |-> head \cup body,
        instructions |-> q.instructions,
        criteria |-> IF q.kind = "noul" THEN Present(q.criteria) ELSE q.criteria]

(* Each observer names a question's type: by its form where it knows it,    *)
(* and by its wire form where it does not.                                  *)
QuestionType(q) ==
    IF q.form = "typed" THEN Wire(q).type ELSE q.kind

-----------------------------------------------------------------------------
(* The fluent builders.  Each Level copies the rubric it was called on, and *)
(* Option the map, so a base may be shared; memory is the arrays.           *)
LevelInPlace(mem, b, text) ==
    LET old == mem.arrays[mem.builder[b].array]
        n == mem.builder[b].len
    IN [arrays |-> [mem.arrays EXCEPT ![mem.builder[b].array] =
                       SubSeq(old, 1, n) \o <<text>> \o SubSeq(old, n + 2, Len(old))],
        builder |-> Append(mem.builder, [array |-> mem.builder[b].array, len |-> n + 1])]
Level(mem, b, text) ==
    LET base == SubSeq(mem.arrays[mem.builder[b].array], 1, mem.builder[b].len)
    IN [arrays |-> Append(mem.arrays, Append(base, text)),
        builder |-> Append(mem.builder,
            [array |-> Len(mem.arrays) + 1, len |-> mem.builder[b].len + 1])]
NewScore == [arrays |-> << <<>> >>, builder |-> <<[array |-> 1, len |-> 0]>>]
Build(mem, b) == SubSeq(mem.arrays[mem.builder[b].array], 1, mem.builder[b].len)

-----------------------------------------------------------------------------
(* decodeQuestion: what a request file makes of a wire form.  A type it     *)
(* does not know passes through raw.                                        *)
DecodeQuestion(wire) ==
    LET instructions == IF "instructions" \in wire.fields THEN wire.instructions ELSE "nil"
        meant == [i \in 1..2 |-> IF i \in DOMAIN wire.criteria
                                 THEN wire.criteria[i] ELSE "nil"]
    IN CASE wire.type = "noul" ->
              Question("noul", instructions,
                       IF "criteria" \in wire.fields THEN meant ELSE NoCriteria)
         [] wire.type \in {"choice", "score"} ->
              Question(wire.type, instructions, wire.criteria)
         [] OTHER -> Question("raw", wire.instructions, wire.criteria)

(* fromFlags: one flag, its id and the pieces between its commas; a blank   *)
(* id or value is refused, and a choice of fewer than two pieces.           *)
SplitList(pieces) ==
    LET out[i \in 0..Len(pieces)] ==
            IF i = 0 THEN <<>>
            ELSE IF pieces[i] = Blank THEN out[i - 1] ELSE Append(out[i - 1], pieces[i])
    IN out[Len(pieces)]
FromFlagRefuses(flag) ==
    \/ flag.id = Blank \/ flag.pieces = <<Blank>>
    \/ flag.kind = "choice" /\ Len(SplitList(flag.pieces)) < 2
    \/ flag.kind = "score" /\ SplitList(flag.pieces) = <<>>
FromFlag(flag) ==
    LET pieces == SplitList(flag.pieces)
    IN CASE flag.kind = "noul" -> Question("noul", "text", NoCriteria)
         [] flag.kind = "choice" ->
              Question("choice", "nil", [o \in ToSet(pieces) |-> "nil"])
         [] flag.kind = "score" ->
              Question("score", "nil", [i \in DOMAIN pieces |-> "text"])

(* buildQuestions of the MCP tool: texts are never nil there, but an empty  *)
(* description of an option is made so.  A type that is left empty asks for *)
(* a noul, whatever else was given.                                         *)
Described(text) == IF text = "empty" THEN "nil" ELSE text
BuildQuestion(arg) ==
    CASE arg.type \in {"noul", "empty"} ->
           Question("noul", arg.instructions,
                    IF arg.means = <<"empty", "empty">> THEN NoCriteria ELSE arg.means)
      [] arg.type = "choice" ->
           Question("choice", arg.instructions,
                    [o \in DOMAIN arg.options |-> Described(arg.options[o])])
      [] arg.type = "score" -> Question("score", arg.instructions, arg.levels)
BuildQuestionRefuses(arg) ==
    \/ arg.type = "choice" /\ DOMAIN arg.options = {}
    \/ arg.type = "score" /\ arg.levels = <<>>
    \/ arg.type \notin {"noul", "empty", "choice", "score"}

(* NewInput for Temporal: the wire form, raw.  Its type is all that is left *)
(* to validate.                                                             *)
ToRaw(q) == [wire |-> Wire(q), valid |-> Wire(q).type # ""]

-----------------------------------------------------------------------------
(* However a question is wrapped, it is validated, labelled and sent as the *)
(* struct underneath, and a file that holds its wire form is the same       *)
(* question: nothing is lost between a program, its requests on disk and    *)
(* the command line (request.go and builder.go claim it).                   *)
FormsAgreeFor(q) ==
    q.kind \in {"noul", "choice", "score"} =>
    /\ \A w \in {Built(q)} \cup IF q.kind = "noul" THEN {} ELSE {Typed(q, TRUE)} :
          /\ ValidateQuestion(w) = ValidateQuestion(q)
          /\ QuestionType(w) = QuestionType(q)
          /\ Wire(w) = Wire(q)
    /\ ValidateQuestion(DecodeQuestion(Wire(q))) = ValidateQuestion(q)
    /\ Wire(DecodeQuestion(Wire(q))) = Wire(q)
    /\ ToRaw(q).wire = Wire(q) /\ ToRaw(q).valid

(* Builders derived from a shared base stay independent: each builds its    *)
(* own path from the start, whatever was derived from it or next to it.     *)
BuildersIndependentFor(ops) ==
    LET mem[i \in 0..Len(ops)] ==
            IF i = 0 THEN NewScore ELSE Level(mem[i - 1], ops[i][1], ops[i][2])
        path[b \in 1..(Len(ops) + 1)] ==
            IF b = 1 THEN <<>> ELSE Append(path[ops[b - 1][1]], ops[b - 1][2])
    IN \A b \in 1..(Len(ops) + 1) : Build(mem[Len(ops)], b) = path[b]

(* What the flags of the command line make is valid unless it is a rubric   *)
(* of too many levels: no blank piece becomes an option or a level.         *)
FlagsValidFor(flag) ==
    ~FromFlagRefuses(flag)
    /\ ~(flag.kind = "score" /\ Len(SplitList(flag.pieces)) > MaxScoreLevels) =>
        Validate([id \in {flag.id} |-> FromFlag(flag)])

(* The question of an MCP call is the one a program would have written with *)
(* the same texts: it is sent as the type that was asked for, a noul if     *)
(* none was, with what yes and no mean if either was said, and an option    *)
(* without a description is null.                                           *)
ToolAgreesFor(arg) ==
    ~BuildQuestionRefuses(arg) /\ arg.instructions = "text"
    /\ (arg.type = "choice" => Blank \notin DOMAIN arg.options) =>
        /\ ValidateQuestion(BuildQuestion(arg)) # Invalid
              \/ (arg.type = "score" /\ Len(arg.levels) > MaxScoreLevels)
        /\ Wire(BuildQuestion(arg)).type = IF arg.type = "empty" THEN "noul" ELSE arg.type
        /\ arg.type \in {"noul", "empty"} =>
              ("criteria" \in Wire(BuildQuestion(arg)).fields
                  <=> \E i \in DOMAIN arg.means : arg.means[i] = "text")
        /\ arg.type = "choice" =>
              /\ DOMAIN Wire(BuildQuestion(arg)).criteria = DOMAIN arg.options
              /\ \A o \in DOMAIN arg.options :
                    Wire(BuildQuestion(arg)).criteria[o] # "empty"
=============================================================================
