--------------------------- MODULE FunctionProperties --------------------------
(***************************************************************************)
(* What must hold of the pure functions of the client and of the decision  *)
(* package, for every input.  A state is the name of a subject with one    *)
(* input of it; a run gives a few inputs of each, the proofs are about all *)
(* that InputSane allows.                                                  *)
(***************************************************************************)
EXTENDS Errors, Decisions, Answers

CONSTANTS
    Signals,   \* the ids a policy may weigh
    Readings,  \* the values an answer to one of them may have
    DefaultTimeout,   \* of a client
    DefaultRetries,   \* of DefaultRetryPolicy
    NoName,           \* the name of an option or a question that trims to nothing
    MinScoreLevels,
    MaxScoreLevels,
    MaxContextTokens,
    MaxSingleQuestionTokens,
    DefaultRate       \* the published price of a token

ASSUME SignalAssumption == IsFiniteSet(Signals) /\ Readings \subseteq Int
ASSUME SetupAssumption == DefaultTimeout \in Nat \ {0} /\ DefaultRetries \in Nat
ASSUME LevelAssumption ==
    {MinScoreLevels, MaxScoreLevels} \subseteq Nat /\ MinScoreLevels <= 1
ASSUME PriceAssumption ==
    {MaxContextTokens, MaxSingleQuestionTokens} \subseteq Nat /\ DefaultRate \in Nat \ {0}

Setup == INSTANCE ClientSetup
Writing == INSTANCE Questions WITH Blank <- NoName
Cost == INSTANCE TokenEstimates WITH FixedOverhead <- 240, RateNum <- 413, RateDen <- 1000,
            Unencodable <- -1, DefaultModelBytes <- 12
Line == INSTANCE Commands
Gen == INSTANCE QuestionGenerator

VARIABLE input

-----------------------------------------------------------------------------
(* The inputs the program can be given: any numbers, but of the right types *)
(* and from constructors that check what they are told to check.            *)
HeaderForms == {"absent", "junk", "nan", "infinite", "seconds", "date"}
Causes == {"canceled", "deadline", "net_timeout", "refused", "tls"}
DefaultPolicy == [predicate |-> "none", onTimeout |-> TRUE, onConnection |-> TRUE,
                  respectAfter |-> TRUE]

\* What NewAPIError, transportError and the errors without a cause make.
Raised(chain, status) ==
    \/ chain = Typed(status) \o <<"api">>
    \/ status = 0 /\ Len(chain) = 1
    \/ status = 0 /\ \E cause \in Causes, kind \in {"timeout", "connection"} :
                        chain = <<kind, cause>>
FailureValues ==
    [chain : Seq(STRING), status : Int, after : Int, reason : STRING, details : Nat]
Failure(err) ==
    /\ err \in FailureValues
    /\ \/ Raised(err.chain, err.status)
       \/ err.chain # <<>> /\ Head(err.chain) = "panic"
          /\ Raised(Tail(err.chain), err.status)

ScoreSane(a) ==
    /\ a.levels \in Nat /\ a.score \in Int
    /\ IsFiniteSet(LevelKeys(a)) /\ LevelKeys(a) \subseteq Nat \cup {Unparsed}
    /\ a.probabilities \in [LevelKeys(a) -> 0..D]

PolicyValues(ids) ==
    [weights : [ids -> Int],
     above : [1..3 -> Int], normalize : BOOLEAN,
     onMissing : {"zero", "default", "skipped", "error"}]

\* A confidence that was sent is no less than nothing; a canned choice has options
\* with names, and probabilities.
ResponseSane(resp) == \A id \in DOMAIN resp : resp[id].confidence \in Nat
CannedChoice(p) ==
    /\ IsFiniteSet(DOMAIN p) /\ DOMAIN p \subseteq Nat \ {0}
    /\ p \in [DOMAIN p -> Nat]

\* The value of an option, by its kind; the Timeout of an http.Client is not below
\* zero, and the header of a generated id is named once or not at all.
OptionValues ==
    ({"key", "url", "model", "header"} \X STRING)
    \cup ({"timeout", "retries", "policy"} \X Int)
    \cup ({"http"} \X Nat)
    \cup ({"interceptor"} \X Seq(STRING))
    \cup ({"id"} \X {names \in Seq(STRING) : Len(names) <= 1})
Inbound(names, values, cfg) ==
    /\ values \in [DOMAIN values -> STRING] /\ names \in Seq(DOMAIN values)
    /\ cfg.idHeader \in STRING /\ cfg.generates \in BOOLEAN

\* A question as a program writes it; the map of a choice has any keys.
Texts == {"nil", "empty", "text"}
CriteriaOf(kind) ==
    CASE kind = "noul" -> {Writing!NoCriteria} \cup [1..2 -> Texts]
      [] kind = "score" -> Seq(Texts)
QuestionSane(q) ==
    /\ q = Writing!Question(q.kind, q.instructions, q.criteria)
    /\ q.instructions \in Texts
    /\ \/ q.kind \in {"noul", "score"} /\ q.criteria \in CriteriaOf(q.kind)
       \/ q.kind = "choice" /\ q.criteria \in [DOMAIN q.criteria -> Texts]
\* A level is added to a builder that is there.
BuiltUpon(ops) ==
    /\ ops \in Seq(Nat \X STRING)
    /\ \A i \in DOMAIN ops : ops[i][1] \in 1..i
\* What the schema of the tool lets through.
ToolArgument(arg) ==
    /\ {arg.instructions} \subseteq {"empty", "text"}
    /\ arg.means \in [1..2 -> {"empty", "text"}]
    /\ arg.options \in [DOMAIN arg.options -> {"empty", "text"}]
    /\ arg.levels \in Seq({"empty", "text"})

\* The parts of a request have at least a byte if they encode; every question has a key.
RequestSane(r) ==
    /\ r = [model |-> r.model, keys |-> r.keys, state |-> r.state, questions |-> r.questions]
    /\ r.model \in Nat /\ r.state \in {-1} \cup (Nat \ {0})
    /\ IsFiniteSet(DOMAIN r.questions) /\ DOMAIN r.questions \subseteq Nat \ {0}
    /\ r.keys \in [DOMAIN r.questions -> Nat \ {0}]
    /\ r.questions \in [DOMAIN r.questions -> {-1} \cup (Nat \ {0})]

\* What a command is told, and what surrounds it.
Explanations ==
    [policy : {"none", "unreadable", "invalid", "ok"},
     answers : {"none", "unreadable", "invalid", "ok"},
     inline : {"none", "malformed", "ok"}, evaluates : BOOLEAN]
ModelNames == {"unset", "known", "unknown"}
Shells == {"none", "known", "unknown"}
Invocations ==
    [flags : {"ok", "help", "bad"}, builds : BOOLEAN, format : {"table", "json", "bad"},
     valid : BOOLEAN, warned : BOOLEAN, size : {"within", "near", "over"}, dry : BOOLEAN,
     strict : BOOLEAN, out : BOOLEAN, explain : Explanations,
     model : ModelNames, checks : ModelNames, shell : Shells]
Worlds == [key : {"missing", "rejected", "ok"}, baseParses : BOOLEAN,
           network : {"up", "down", "limited"}, modelKnown : BOOLEAN, writable : BOOLEAN,
           tape : {"none", "unreadable", "empty", "answer", "failure"}]

\* The constants of a package, in blocks, and the fields of a struct, whose names
\* the language keeps apart.
ConstantSpecs ==
    [type : STRING, name : STRING,
     value : {"omitted", "iota", "string", "int", "other", "typed"} \X Int]
Words == Seq(STRING \X STRING)
FieldSane(fields) ==
    /\ fields \in Seq([name : Words, names : {"one", "shared", "embedded"}, typeNamed : BOOLEAN,
                       kind : STRING, id : Seq(STRING), documented : BOOLEAN])
    /\ \A i, j \in DOMAIN fields : fields[i].name = fields[j].name => i = j

InputSane ==
    /\ input[1] = "delay" => input[2].p \in RetryPolicies /\ input[2].n \in Nat
    /\ input[1] = "header" => input[2].h.form \in HeaderForms /\ input[2].h.n \in Int
    /\ input[1] = "error" => Failure(input[2])
    /\ input[1] = "ps" => input[2] \in Seq(Int)
    /\ input[1] = "score" => ScoreSane(input[2].a) /\ input[2].share \in Int
    /\ input[1] = "policy" => \E ids \in SUBSET Signals : input[2] \in PolicyValues(ids)
    /\ input[1] = "route" => input[2].router.minConf \in Int /\ input[2].a.confidence \in Nat
    /\ input[1] = "bands" => {input[2].act, input[2].confirm} \subseteq 0..D
    /\ input[1] = "examples" =>
          /\ input[2].labels \in Seq(BOOLEAN) /\ input[2].complete \in BOOLEAN
          /\ input[2].questions \in Nat /\ {input[2].min, input[2].holdout} \subseteq Int
    /\ input[1] = "fit" => input[2].ps \in Seq(Int)
                           /\ input[2].labels \in [DOMAIN input[2].ps -> BOOLEAN]
    /\ input[1] = "coef" => input[2] \in [DOMAIN input[2] -> Int]
    /\ input[1] = "settings" =>
          /\ input[2].env \in [key : STRING, url : STRING, model : STRING]
          /\ input[2].opts \in Seq(OptionValues)
    /\ input[1] = "question" => QuestionSane(input[2])
    /\ input[1] = "builders" => BuiltUpon(input[2])
    /\ input[1] = "response" => ResponseSane(input[2])
    /\ input[1] = "options" => CannedChoice(input[2])
    /\ input[1] = "levels" => input[2] \in Seq(Int)
    /\ input[1] = "drift" => input[2].options \in Seq(Nat)
    /\ input[1] = "flag" =>
          /\ input[2].kind \in {"noul", "choice", "score"}
          /\ input[2].pieces \in Seq(Int) \ {<<>>}
    /\ input[1] = "arg" => ToolArgument(input[2])
    /\ input[1] = "inbound" => Inbound(input[2].names, input[2].values, input[2].cfg)
    /\ input[1] = "sizes" => RequestSane(input[2].r) /\ input[2].rate \in Int /\ input[2].default \in Nat
    /\ input[1] = "invocation" => input[2] \in Invocations
    /\ input[1] = "package" => input[2] \in Seq(Seq(ConstantSpecs))
    /\ input[1] = "fields" => FieldSane(input[2])

-----------------------------------------------------------------------------
(* Retries.                                                                 *)
\* retry.go backoff: the doubled initial delay, cut at the cap; a cap in the
\* upper half of the durations may be missed by less than one doubling.
BackoffClamped == input[1] = "delay" => BackoffClampedFor(input[2].p, input[2].n)
\* retry.go delayFor: no jitter or overflow makes a delay negative, and one that
\* did not overflow is within the jitter of nominal.
DelayUsable == input[1] = "delay" => DelayUsableFor(input[2].p, input[2].n)
\* retryAfterFrom: whatever a Retry-After header says, no retry sleeps a negative
\* time for it.
ServerDelayUsable == input[1] = "header" =>
    ServerDelayUsableFor(input[2].status, input[2].h, DefaultPolicy)
\* errors.go: a failure means the same after the retry loop wrapped it as
\* exhausted or behind the breaker's rejection.
WrappingKeepsMeaning == input[1] = "error" => WrappingKeepsMeaningOf(input[2])
\* What Temporal is told not to retry the default policy does not retry; what
\* narrows a batch Temporal retries; a retried status has its own label.
LayersAgree == input[1] = "error" => LayersAgreeOn(input[2], DefaultPolicy)
\* transportError: a cancelled call is not retried, not labelled a timeout and no
\* network failure at exit, whatever the transport said.
CancelStaysCancel == input[1] = "cancel" =>
    CancelStaysCancelOf(input[2].cause, input[2].ctx, DefaultPolicy)

\* A retry is what the failure calls for: its delay can be slept and is the policy's
\* or the server's (retry.go, errors.go), and the failure means the same to the
\* retry loop, the limiter, Temporal, the exit code and the metrics, wrapped or
\* not, cancelled or not.
RetriesSound ==
    /\ BackoffClamped
    /\ DelayUsable
    /\ ServerDelayUsable
    /\ WrappingKeepsMeaning
    /\ LayersAgree
    /\ CancelStaysCancel

-----------------------------------------------------------------------------
(* Probabilities.                                                           *)
\* algebra.go AtLeast, Exactly: the tails and terms of the sum over all the ways
\* independent events fall.
TailsExact == input[1] = "ps" => TailsExactFor(input[2])
\* algebra.go: what independence makes of all is no more than the least of them
\* (algebra_test.go TestConservativeBoundsDominate; the comment on MinAll says the
\* contrary), of any no less than the greatest, and the negation of all is any of
\* the negations.
AlgebraSound == input[1] = "ps" => AlgebraSoundFor(input[2])
\* score.go: the ways to ask for a range of levels agree, and a level that is
\* asked for exists.
RangesAgree == input[1] = "score" => RangesAgreeFor(input[2].a)
\* score.go: a bimodal answer's nearest level is not its most likely one, and
\* Nearest is always a level.
BimodalMisleads == input[1] = "score" => BimodalMisleadsFor(input[2].a, input[2].share)

\* The algebra of decision/algebra.go and the distributions of score.go say what
\* probability theory says, for unclean inputs too.
ProbabilitiesSound ==
    /\ TailsExact
    /\ AlgebraSound
    /\ RangesAgree
    /\ BimodalMisleads

-----------------------------------------------------------------------------
(* Policies, routers, bands, calibration.                                   *)
AnsweredBy(ids) == [ids -> Readings]

\* policy.go: raising an answer never lowers the verdict of a policy that
\* Validate accepts.
VerdictMonotone == input[1] = "policy" =>
    \A ids \in SUBSET Signals : \A low, high \in AnsweredBy(ids) :
         VerdictMonotoneFor(input[2], low, high)
\* policy.go: an enabled verdict whose threshold differs from the others is given
\* to the answer that just reaches it.
NoDeadVerdict == input[1] = "policy" => NoDeadVerdictFor(input[2])
\* policy.go: skipping the missing questions is deciding by the policy without
\* them.
SkippedIsRestricted == input[1] = "policy" =>
    \A ids \in SUBSET Signals : \A given \in AnsweredBy(ids) :
         SkippedIsRestrictedFor(input[2], given)
\* route.go: a router without a hole never fails for want of a route, and no
\* answer below the confidence gets a route of its own.
RoutingSafe == input[1] = "route" => RoutingSafeFor(input[2].router, input[2].a)
\* route.go: more confidence never means more caution, each band is that of some
\* confidence unless its thresholds leave it none, and a noul is never banded.
BandsUsable == input[1] = "bands" => BandsUsableFor(input[2])
\* calibrate.go: a fit has something to learn from and something to be judged on,
\* and the two are disjoint unless the holdout was disabled.
SplitSound == input[1] = "examples" =>
    SplitSoundFor(Calibrate(input[2].labels, input[2].complete, input[2].questions,
                            input[2].min, input[2].holdout), input[2].holdout)
\* calibrate.go: the suggested threshold is the lowest of the most accurate.
ThresholdBest == input[1] = "fit" =>
    ThresholdBestFor(input[2].ps, input[2].labels, Cutoffs)
\* calibrate.go: the weights of a report validate, unless there are none, and
\* weigh only what argued for the positive class.
WeightsUsable == input[1] = "coef" => WeightsUsableFor(input[2])

\* What Validate and Calibrate let through decides soundly (policy.go, weights.go,
\* route.go, calibrate.go): more of a signal is never judged more mildly, no
\* verdict, band or route is dead or wrong, and no fit is judged on what it saw
\* unless its holdout was disabled.
PoliciesSound ==
    /\ VerdictMonotone
    /\ NoDeadVerdict
    /\ SkippedIsRestricted
    /\ RoutingSafe
    /\ BandsUsable
    /\ SplitSound
    /\ ThresholdBest
    /\ WeightsUsable

-----------------------------------------------------------------------------
(* Settings.                                                                *)
\* client.go, options.go: a client has a key, a model and a timeout, each the
\* last option's, then the environment's, then the default.
SetupSound == input[1] = "settings" => Setup!SetupSoundFor(input[2].env, input[2].opts)
\* middleware.go: interceptors nest in the order given, over all options, inside
\* the recovery.
NestedInOrder == input[1] = "settings" => Setup!NestedInOrderFor(input[2].env, input[2].opts)
\* nethttp.go, middleware.go: one id ties an inbound request to every call of its
\* handler and every attempt.
OneId == input[1] = "inbound" => Setup!OneIdFor(input[2].cfg, input[2].values, input[2].names)

\* A client does what its options asked for, in their order, and its calls carry
\* the id they came with (options.go, client.go, middleware.go, nethttp.go).
ClientsAsAsked ==
    /\ SetupSound
    /\ NestedInOrder
    /\ OneId

-----------------------------------------------------------------------------
(* Questions.                                                               *)
\* request.go, builder.go: a question is validated, labelled and sent alike in
\* every form, and its wire form reads back as itself.
FormsAgree == input[1] = "question" => Writing!FormsAgreeFor(input[2])
\* builder.go: two questions built from one prefix do not write over each other.
BuildersIndependent == input[1] = "builders" => Writing!BuildersIndependentFor(input[2])
\* cmd/typesafe request.go: a question made from flags is valid unless it is a
\* rubric of too many levels.
FlagsValid == input[1] = "flag" => Writing!FlagsValidFor(input[2])
\* mcp.go buildQuestions: the question of a call is the one a program would
\* write, a noul if the call names no type; an option without a description is null.
ToolAgrees == input[1] = "arg" => Writing!ToolAgreesFor(input[2])

\* A question is the same question in whatever way it was written: by struct,
\* builder, type, file, flags or tool call (validate.go, builder.go, request.go,
\* mcp.go).
QuestionsAgree ==
    /\ FormsAgree
    /\ BuildersIndependent
    /\ FlagsValid
    /\ ToolAgrees

-----------------------------------------------------------------------------
(* Answers.                                                                 *)
\* answer.go, mcp.go, otel.go: everyone who goes through a response sees the same
\* answers, and confidences for the same ids.
ConsumersAgree == input[1] = "response" => ConsumersAgreeFor(input[2])
\* typesafetest Choice: a canned choice is ranked first by every reading, and no
\* margin is negative.
BuiltChoiceLeads == input[1] = "options" => BuiltChoiceLeadsFor(input[2])
\* typed.go Exhaustive: a typed question that validates yields only a choice that
\* was declared.
DriftNoticed == input[1] = "drift" => DriftNoticedFor(input[2].options, input[2].a)
\* typed.go validateSelf: the level read off an answer is the constant declared
\* with that text.
LevelMeant == input[1] = "levels" => LevelMeantFor(input[2])
\* typed.go: the typed reading of a score answer is the plain one, but that of no
\* levels the plain one says -1 and the typed one level zero.
TypedReadsSame == input[1] = "score" => TypedReadsSameFor(input[2].a)

\* All readings of an answer agree (answer.go, typed.go, the observers and the
\* canned answers), except on the likeliest of no levels, and a typed one is of a
\* declared option or level.
AnswersAgree ==
    /\ ConsumersAgree
    /\ BuiltChoiceLeads
    /\ TypedReadsSame
    /\ DriftNoticed
    /\ LevelMeant

-----------------------------------------------------------------------------
(* Estimates, the command line, the generator.                              *)
\* tokens.go Of: the estimate does not depend on the order Go ranges over the
\* questions.
LongestSettled == input[1] = "sizes" => Cost!LongestSettledFor(input[2].r)
\* tokens.go Of: no question asked alone costs more than the single-question figure,
\* which is above that of the question it names by no more than the other ids.
SingleIsDearestAlone == input[1] = "sizes" => Cost!SingleIsDearestAloneFor(input[2].r)
\* tokens.go, budget.go: the estimate and its price are never below the measured
\* cost, nor a quarter and a token above; nor is that of the bytes that are sent,
\* unless the client has a default model with a longer name.
NeverUnderCounts == input[1] = "sizes" =>
    Cost!NeverUnderCountsFor(input[2].r, input[2].rate, input[2].default)
\* cmd/typesafe: a command listed as offline makes no call and needs no key.
OfflineStaysOffline == input[1] = "invocation" =>
    \A w \in Worlds : Line!OfflineStaysOfflineFor(input[2], w)
\* cmd/typesafe: a request is refused before it leaves exactly when lint, not
\* being strict, exits with "invalid".
LintForetells == input[1] = "invocation" => \A w \in Worlds : Line!LintForetellsFor(input[2], w)
\* cmd/typesafe: doctor exits with the code a sound request then exits with, unless
\* the one and the other name different models of which one is unknown.
DoctorForetells == input[1] = "invocation" => \A w \in Worlds : Line!DoctorForetellsFor(input[2], w)
\* cmd/typesafe: a recording replays without key and network; one of a failure
\* does not replay as a success.
RecordedReplays == input[1] = "invocation" => \A w \in Worlds : Line!RecordedReplaysFor(input[2], w)
\* typesafe-gen collectEnum, constBlock: position i of a rubric made from one block
\* is the constant of value i, and no constant with its type written is left out.
RubricMeant == input[1] = "package" => Gen!RubricMeantFor(input[2], "T")
\* typesafe-gen constBlock: a block of literals is accepted exactly when they are
\* the positions.
LiteralsChecked == input[1] = "package" => \A b \in DOMAIN input[2] : Gen!LiteralsCheckedFor(input[2][b], "T")
\* typesafe-gen collectQuestions: no field replaces another, and no generated
\* method is named as another or as a field that declares its name.
EveryFieldAsked == input[1] = "fields" => Gen!EveryFieldAskedFor(input[2])

\* What is said beforehand is what happens: an estimate is settled and does not
\* fall short, a command does what another announced, and what typesafe-gen
\* accepts of one block means what the Go constants mean (tokens.go, budget.go,
\* cmd/typesafe, cmd/typesafe-gen).
ToolsForetell ==
    /\ LongestSettled
    /\ SingleIsDearestAlone
    /\ NeverUnderCounts
    /\ OfflineStaysOffline
    /\ LintForetells
    /\ DoctorForetells
    /\ RecordedReplays
    /\ RubricMeant
    /\ LiteralsChecked
    /\ EveryFieldAsked
=============================================================================
