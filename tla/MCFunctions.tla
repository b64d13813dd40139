------------------------------ MODULE MCFunctions ------------------------------
(***************************************************************************)
(* Bounded inputs for the modules of pure functions.  A state is the name   *)
(* of a module's subject with one input of it; each property says what     *)
(* must hold of every input of its subject.  Most properties are those of  *)
(* FunctionProperties; here are those of byte forms and paths, whose       *)
(* modules go down nested values with recursive operators.                 *)
(***************************************************************************)
EXTENDS FunctionProperties, TLC

J == INSTANCE Canonical WITH KeyOrder <- <<"a", "b">>
L == INSTANCE StatePaths WITH NoIndex <- 99, KeyOrder <- <<"a", "b">>

FunctionsInit == input = <<"none">>
Give(subject, value) ==
    /\ input' = <<subject, value>>
    /\ Assert(InputSane', <<"outside of what is proved", subject, value>>)

-----------------------------------------------------------------------------
(* Retry delays, headers and errors.                                        *)
GiveDelay ==
    \E i \in -1..15, m \in -1..15, j \in {0, 50, 100, 150}, n \in 0..4 :
        LET p == [initial |-> i, max |-> m, jitter |-> j]
        IN ValidateRetry(p) /\ Give("delay", [p |-> p, n |-> n])
GiveHeader ==
    \E f \in HeaderForms, n \in -2..20, status \in {429, 503, 529} :
        Give("header", [h |-> [form |-> f, n |-> n], status |-> status])
Bodies == {[shape |-> "array", n |-> 2, reason |-> "none"],
           [shape |-> "object", n |-> 0, reason |-> "unknown_model"],
           [shape |-> "string", n |-> 0, reason |-> "unknown_model"],
           [shape |-> "junk", n |-> 0, reason |-> "none"]}
Plain == {<<"circuit_open">>, <<"budget_exceeded">>, <<"no_api_key">>,
          <<"invalid_request">>, <<"panic">>}
GiveError ==
    \/ \E s \in {302, 400, 401, 403, 404, 408, 409, 422, 429, 500, 503, 529, 599},
          body \in Bodies : Give("error", NewAPIError(s, 3, body))
    \/ \E cause \in Causes, ctx \in {"alive", "canceled", "deadline"} :
          Give("error", TransportError(cause, ctx))
    \/ \E chain \in Plain : Give("error", Error(chain))
    \/ Give("error", ResponseValidationError)
    \/ Give("error", PanicError(TransportError("refused", "alive")))
GiveCancel ==
    \E cause \in Causes, ctx \in {"alive", "canceled"} :
        Give("cancel", [cause |-> cause, ctx |-> ctx])

-----------------------------------------------------------------------------
(* Probabilities, score answers, policies, routers, calibration.            *)
GiveProbabilities ==
    \E n \in 0..3 : \E ps \in [1..n -> {NotANumber, -1, 0, 1, 2, 4, 5}] : Give("ps", ps)
GiveScore ==
    \E n \in 0..4 : \E ps \in [0..(n - 1) -> 0..4], share \in {1, 2} :
        /\ n = 0 \/ Mass([probabilities |-> ps], 0..(n - 1)) = 4
        /\ \E extra \in {{}, {Unparsed}}, off \in {-10, 0, 10} :
              Give("score", [share |-> share,
                 a |-> [levels |-> n, legendParses |-> TRUE,
                        score |-> off + SumFunction([k \in 0..(n - 1) |-> k * ps[k]]),
                        probabilities |->
                           [k \in (0..(n - 1)) \cup extra |-> IF k = Unparsed THEN 1 ELSE ps[k]]]])
PolicySpace ==
    [weights : UNION {[ids -> {-1, 1, 2}] : ids \in SUBSET Signals},
     above : [1..3 -> {0, 1, 3}], normalize : BOOLEAN,
     onMissing : {"zero", "default", "skipped", "error"}]
GivePolicy == \E p \in PolicySpace : Ordered(p.above) /\ Give("policy", p)
GiveRoute ==
    \E routed \in SUBSET {"a", "b"}, fallback \in BOOLEAN, min \in {0, 2},
       choice \in {"a", "b", "z"}, confidence \in 0..4 :
        Give("route", [router |-> [routes |-> [c \in routed |-> c],
                                   hasFallback |-> fallback, minConf |-> min],
                       a |-> [choice |-> choice, confidence |-> confidence,
                              options |-> {"a", "b"}]])
GiveBands ==
    \E act, confirm \in 0..4 : Give("bands", [act |-> act, confirm |-> confirm])
GiveFit ==
    \E n \in 0..3 : \E ps \in [1..n -> 0..4], labels \in [1..n -> BOOLEAN] :
        Give("fit", [ps |-> ps, labels |-> labels])
GiveExamples ==
    \E n \in 0..5, min \in 0..3, questions \in 0..1, holdout \in -1..5 :
        \E labels \in [1..n -> BOOLEAN], complete \in BOOLEAN :
            Give("examples", [labels |-> labels, complete |-> complete,
                              questions |-> questions, min |-> min, holdout |-> holdout])
GiveCoefficients ==
    \E ids \in SUBSET {"p", "q", "r"} : \E coef \in [ids -> -2..2] : Give("coef", coef)

-----------------------------------------------------------------------------
(* Answers, questions, settings.                                            *)
RawAnswers == [type : {"noul", "choice", "score", "other"}, decodes : BOOLEAN,
               noul : {2}, confidence : {0, 3}]
GiveResponse ==
    \E ids \in SUBSET {"p", "q"} : \E resp \in [ids -> RawAnswers] : Give("response", resp)
GiveOptions ==
    \E n \in 0..3 : \E ps \in [1..n -> 0..4] : Give("options", ps)
GiveDrift ==
    \E n \in 0..3 : \E options \in [1..n -> 1..3] : \E seen \in SUBSET (1..3), choice \in 1..3 :
        Give("drift", [options |-> options,
                       a |-> [choice |-> choice, probabilities |-> [x \in seen |-> 1]]])
GiveLevels ==
    \E n \in 0..3 : \E levels \in [1..n -> 0..3] : Give("levels", levels)
QuestionSpace ==
    UNION {{Writing!Question("noul", i, c) : c \in {Writing!NoCriteria} \cup [1..2 -> Texts]} : i \in Texts}
    \cup UNION {{Writing!Question("choice", i, c) : c \in UNION {[ids -> Texts] : ids \in SUBSET (0..2)}} : i \in Texts}
    \cup UNION {{Writing!Question("score", i, c) : c \in UNION {[1..n -> Texts] : n \in 0..4}} : i \in Texts}
GiveQuestion == \E q \in QuestionSpace : Give("question", q)
GiveBuilders ==
    \E b \in {<<1, x, y, z>> : x \in 1..2, y \in 1..3, z \in 1..4}, n \in 0..4 :
        \E texts \in [1..n -> {"l", "m"}] :
            Give("builders", [i \in 1..n |-> <<b[i], texts[i]>>])
GiveFlag ==
    \E id \in 0..1, kind \in {"noul", "choice", "score"}, n \in 1..4 :
        \E pieces \in [1..n -> 0..2] :
            Give("flag", [id |-> id, kind |-> kind, pieces |-> pieces])
GiveArg ==
    \E type \in {"noul", "choice", "score", "other", "empty"}, instructions \in {"empty", "text"},
       means \in [1..2 -> {"empty", "text"}], options \in UNION {[ids -> {"empty", "text"}] : ids \in SUBSET (0..1)},
       n \in 0..4 :
        Give("arg", [type |-> type, instructions |-> instructions, means |-> means,
                     options |-> options, levels |-> [i \in 1..n |-> "text"]])
Environments == [key : {"", " ", "env key"}, url : {"", "env url"}, model : {" ", "env model"}]
Opt(kind, values) == {kind} \X values
Options == <<Opt("key", {" ", "k"}), Opt("url", {"no url", "url/"}), Opt("model", {"", "m"}),
             Opt("timeout", {0, 7}), Opt("http", {0, 3}), Opt("retries", {-1, 0}),
             Opt("policy", {1}), Opt("header", {"Authorization", "x-id"}),
             Opt("interceptor", {<<"i1">>, <<"i2", "i3">>}), Opt("id", {<<>>, <<"">>, <<"x-id">>})>>
GiveSettings ==
    \E env \in Environments, i, j \in 1..10 :
        \E first \in Options[i], second \in Options[j] :
            Give("settings", [env |-> env, opts |-> <<first, second>>])
GiveInbound ==
    \E names \in {<<"x-request-id">>, <<"x-request-id", "x-trace">>},
       values \in [{"x-request-id", "x-trace"} -> {"", "one inbound", "another"}],
       idHeader \in {"", "x-id", "Accept"}, headers \in {{}, {"x-id"}}, generates \in BOOLEAN :
        Give("inbound", [names |-> names, values |-> values,
             cfg |-> [idHeader |-> idHeader, headers |-> headers, generates |-> generates]])

-----------------------------------------------------------------------------
(* Sizes, byte forms, paths.                                                *)
GiveSizes ==
    \E ids \in SUBSET (1..3), model \in {0, 40}, state \in {-1, 2, 60}, rate \in {-1, 0, 5},
       default \in {12, 90}, name \in {1, 30} :
        \E questions \in [ids -> {-1, 2, 40, 41}] :
            Give("sizes", [rate |-> rate, default |-> default,
                           r |-> [model |-> model, state |-> state, questions |-> questions,
                                  keys |-> [id \in ids |-> 4 + id * name]]])
Lits == {<<"lit", "1">>, <<"lit", "1.0">>}
Arr(texts) == {<<"arr", seq>> : seq \in UNION {[1..n -> texts] : n \in 0..2}}
Obj(texts) == {<<"obj", seq>> : seq \in UNION {[1..n -> {"a", "b"} \X texts] : n \in 0..2}}
Inner == {<<"lit", "1">>, <<"arr", <<>>>>, <<"arr", <<<<"lit", "1">>>>>>, <<"obj", <<>>>>}
JSON == {<<"blank">>} \cup Lits \cup Arr(Lits) \cup Obj(Lits) \cup Arr(Inner) \cup Obj(Inner)
GiveText == \E text \in JSON : Give("text", text)
Parts == {<<"text", seq>> : seq \in UNION {[1..n -> {"POST", "1"}] : n \in 0..2}}
         \cup {<<"json", text>> : text \in {<<"blank">>} \cup Lits \cup Arr({<<"lit", "1">>})}
PartLists == UNION {[1..n -> Parts] : n \in 1..2}
GiveParts == \E parts \in PartLists : Give("parts", parts)
PathPart == [name : {"", "a", "c"}, brackets : {<<>>} \cup {<<i>> : i \in {-1, 0, 1, 99}}]
Leaves == {<<"null">>, <<"str", <<<<>>>>>>}
Holding(values) == {<<"arr", seq>> : seq \in UNION {[1..n -> values] : n \in 0..2}}
                   \cup {<<"obj", f>> : f \in UNION {[ids -> values] : ids \in SUBSET {"a", "b"}}}
States == Leaves \cup Holding(Leaves) \cup Holding({<<"null">>} \cup {<<"arr", <<l>>>> : l \in Leaves})
          \cup Holding({<<"obj", [k \in {"a"} |-> l]>> : l \in Leaves})
GivePath ==
    \E state \in States, n \in 1..2 : \E path \in [1..n -> PathPart] :
        Give("path", [state |-> state, path |-> path])
Path(name, i) == <<[name |-> name, brackets |-> <<i>>]>>
Sentences == {<<"str", <<<<>>>>>>, <<"str", <<<<>>, Path("c", 0)>>>>}
             \cup {<<"str", <<<<>>, p, <<>>, q, <<>>>>>> :
                        p \in {Path("a", 0), Path("c", 0)}, q \in {Path("a", 1), Path("c", 0), Path("c", 99)}}
Asked == {<<"func">>} \cup Sentences \cup {<<"arr", <<x, y>>>> : x \in Sentences, y \in Sentences}
GiveAsked ==
    \E ids \in SUBSET {"a", "b"} : \E questions \in [ids -> Asked], state \in {<<"nil">>, <<"func">>,
         <<"obj", [k \in {"a"} |-> <<"arr", <<<<"null">>>>>>]>>} :
        Give("asked", [state |-> state, questions |-> questions])

Plainly == [policy |-> "ok", answers |-> "ok", inline |-> "none", evaluates |-> TRUE]
Invoked ==
    [flags : {"ok", "help"}, builds : BOOLEAN, format : {"table", "json", "bad"},
     valid : BOOLEAN, warned : BOOLEAN, size : {"within", "near", "over"}, dry : BOOLEAN,
     strict : BOOLEAN, out : BOOLEAN, explain : {Plainly},
     model : {"unset"}, checks : {"unset"}, shell : {"known"}]
    \cup [flags : {"ok", "help", "bad"}, builds : {TRUE}, format : {"table"}, valid : {TRUE},
          warned : {FALSE}, size : {"within"}, dry : {FALSE}, strict : {FALSE}, out : {TRUE},
          explain : Explanations, model : {"unset"}, checks : {"unset"}, shell : {"known"}]
    \cup [flags : {"ok", "help"}, builds : {TRUE}, format : {"table"}, valid : BOOLEAN,
          warned : {FALSE}, size : {"within"}, dry : {FALSE}, strict : {FALSE}, out : {TRUE},
          explain : {Plainly}, model : ModelNames, checks : ModelNames, shell : Shells]
GiveInvocation == \E a \in Invoked : Give("invocation", a)

Constant(types, values) ==
    [type : types, name : {"x"}, value : values]
    \cup [type : {"T"}, name : {Gen!Blank}, value : {<<"omitted", 0>>, <<"iota", 0>>}]
    \cup [type : {Gen!NoType}, name : {"x"}, value : {<<"typed", 1>>}]
ConstantForms == {<<"omitted", 0>>, <<"iota", 0>>, <<"int", 0>>, <<"int", 1>>, <<"int", 2>>, <<"string", 0>>}
Blocks(n, types, values) == UNION {[1..k -> Constant(types, values)] : k \in 1..n}
Packages == {<<block>> : block \in Blocks(3, {Gen!NoType, "T", "U"}, ConstantForms)}
            \cup {<<b, c>> : b, c \in Blocks(2, {Gen!NoType, "T"}, ConstantForms \ {<<"string", 0>>})}
GivePackage ==
    \E package \in Packages : Gen!Compiles(package, "T") /\ Give("package", package)
Capital(w) == <<w, "capitalized">>
FieldNames == {<<Capital("api")>>, <<<<"api", "capitals">>>>, <<Capital("api"), Capital("question")>>,
               <<Capital("questions")>>, <<Capital("key")>>}
Ordinary == [documented |-> TRUE, typeNamed |-> TRUE, names |-> "one"]
FirstField == {Ordinary, [Ordinary EXCEPT !.documented = FALSE], [Ordinary EXCEPT !.typeNamed = FALSE],
               [Ordinary EXCEPT !.names = "shared"], [Ordinary EXCEPT !.names = "embedded"]}
GiveFields ==
    \E n \in 1..3 : \E names \in [1..n -> FieldNames] :
        /\ IsInjective(names)
        /\ \E kinds \in [1..n -> {"choice", "none", "odd"}], ids \in [1..n -> {<<>>, <<"api">>}],
              first \in FirstField :
              Give("fields", [i \in 1..n |->
                  [name |-> names[i], kind |-> kinds[i], id |-> ids[i],
                   documented |-> first.documented \/ i > 1, typeNamed |-> first.typeNamed \/ i > 1,
                   names |-> IF i = 1 THEN first.names ELSE "one"]])

\* canonical.go: two bodies share a hash exactly when they hold the same value.
OneHashPerValue == input[1] = "text" => \A text \in JSON : J!OneHashPerValueFor(input[2], text)
\* canonical.go HashParts: no regrouping of the parts collides.
PartsApart == input[1] = "parts" => \A parts \in PartLists : J!PartsApartFor(input[2], parts)
\* statepath.go: a reference is reported exactly when it is shaped like a path
\* and leads nowhere.
WarnedIffNowhere == input[1] = "path" => L!WarnedIffNowhereFor(input[2].state, input[2].path)
\* references.go: each question that writes such a path is named with it, once,
\* in order.
EveryQuestionWarned == input[1] = "asked" =>
    L!EveryQuestionWarnedFor(input[2].state, input[2].questions)

\* What is said of a request depends on what it says only: its hash on its value,
\* its warnings on where its references lead (canonical.go, statepath.go,
\* references.go).
RequestsAsWritten ==
    /\ OneHashPerValue
    /\ PartsApart
    /\ WarnedIffNowhere
    /\ EveryQuestionWarned

-----------------------------------------------------------------------------
GiveNumbers == GiveDelay \/ GiveHeader \/ GiveProbabilities \/ GiveScore
GiveFailure == GiveError \/ GiveCancel
GiveDecision ==
    \/ GiveBands \/ GiveFit \/ GivePolicy \/ GiveRoute \/ GiveExamples \/ GiveCoefficients
GiveAnswer == GiveLevels \/ GiveResponse \/ GiveOptions \/ GiveDrift
GiveWriting == GiveQuestion \/ GiveBuilders \/ GiveFlag \/ GiveArg
GiveClient == GiveSettings \/ GiveInbound
GiveForm == GiveSizes \/ GiveText \/ GiveParts \/ GivePath \/ GiveAsked
            \/ GiveInvocation \/ GivePackage \/ GiveFields
FunctionsNext ==
    /\ input = <<"none">>
    /\ \/ GiveNumbers \/ GiveFailure \/ GiveDecision
       \/ GiveAnswer \/ GiveWriting \/ GiveClient \/ GiveForm
FunctionsSpec == FunctionsInit /\ [][FunctionsNext]_input
=============================================================================
