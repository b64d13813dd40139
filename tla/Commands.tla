------------------------------- MODULE Commands -------------------------------
(***************************************************************************)
(* The typesafe command line (cmd/typesafe): which exit code a command ends  *)
(* with, whether it called the API, and what record leaves on its tape.     *)
(*                                                                         *)
(* An invocation a is what the flags and files say: how the flags parse     *)
(* ("ok", "help" or "bad"), whether a request can be built from them, is    *)
(* valid, draws warnings, and is within, near or over the token ceilings;   *)
(* which model the request names and which one doctor is given, "unset",    *)
(* "known" or "unknown"; and the shell that completion is given.            *)
(* A world w is what surrounds it: the key, whether the base URL parses,    *)
(* the network, whether the default model is known, the tape of a cassette  *)
(* file and whether a file can be written.                                  *)
(***************************************************************************)
EXTENDS Naturals

Result(exit, calls) == [exit |-> exit, calls |-> calls]

\* A command is its early returns in order, the last of which always applies.
At(when, result) == [when |-> when, result |-> result]
First(returns) ==
    returns[CHOOSE i \in DOMAIN returns :
              returns[i].when /\ \A j \in 1..(i - 1) : ~returns[j].when].result

\* The flags ask for help or do not parse, or no request can be built from them.
Unusable(a) == a.flags # "ok" \/ ~a.builds
UsageExit(a) == Result(IF a.flags = "help" THEN "ok" ELSE "usage", 0)

\* client.Models and client.SystemOne as the commands see them.  NewClient looks at the
\* key only: a base URL from the environment fails when the request is built from it.
NewClientFails(w) == w.key = "missing"
Reached(w) ==
    IF ~w.baseParses THEN "error"
    ELSE IF w.network = "down" THEN "network"
    ELSE IF w.key = "rejected" THEN "auth"
    ELSE IF w.network = "limited" THEN "limited" ELSE "ok"
Sent(w) == IF w.baseParses THEN 1 ELSE 0
Resolves(model, w) == model = "known" \/ (model = "unset" /\ w.modelKnown)
Evaluated(model, w) ==
    IF Reached(w) = "ok" /\ ~Resolves(model, w) THEN "unknown_model" ELSE Reached(w)
PreFlight(a) == a.valid /\ a.size # "over"
SystemOne(a, w) ==
    IF PreFlight(a) THEN Result(Evaluated(a.model, w), Sent(w)) ELSE Result("invalid", 0)

Run(a, w) ==
    First(<<At(Unusable(a), UsageExit(a)),
            At(a.format = "bad", Result("usage", 0)),
            At(~a.valid, Result("invalid", 0)),
            At(a.dry, Result("ok", 0)),
            At(NewClientFails(w), Result("auth", 0)),
            At(TRUE, SystemOne(a, w))>>)

\* The ceilings are looked at for the table only.
Estimate(a, w) ==
    First(<<At(Unusable(a), UsageExit(a)),
            At(a.format # "json" /\ a.size = "over", Result("invalid", 0)),
            At(TRUE, Result("ok", 0))>>)

LintRefuses(a) == ~a.valid \/ a.size = "over"
Lint(a, w) ==
    First(<<At(Unusable(a), UsageExit(a)),
            At(LintRefuses(a), Result("invalid", 0)),
            At(a.strict /\ (a.warned \/ a.size = "near"), Result("invalid", 0)),
            At(TRUE, Result("ok", 0))>>)

\* A policy is read, then answers from a file and from flags.
Explain(a, w) ==
    LET e == a.explain
    IN First(<<At(a.flags # "ok", UsageExit(a)),
               At(e.policy = "none", Result("usage", 0)),
               At(e.policy = "unreadable", Result("error", 0)),
               At(e.policy = "invalid", Result("invalid", 0)),
               At(e.answers = "unreadable", Result("error", 0)),
               At(e.answers = "invalid", Result("invalid", 0)),
               At(e.inline = "malformed", Result("usage", 0)),
               At(e.answers = "none" /\ e.inline = "none", Result("usage", 0)),
               At(~e.evaluates, Result("invalid", 0)),
               At(TRUE, Result("ok", 0))>>)

Models(a, w) ==
    First(<<At(a.flags # "ok", UsageExit(a)),
            At(NewClientFails(w), Result("auth", 0)),
            At(TRUE, Result(Reached(w), Sent(w)))>>)

\* Doctor's probe is a request of its own, with the model doctor was given.
Probe(a, w) == Result(Evaluated(a.checks, w), 2)
Doctor(a, w) ==
    IF a.flags = "ok" /\ Models(a, w).exit = "ok" THEN Probe(a, w) ELSE Models(a, w)

Taped(a, w) ==
    IF ~PreFlight(a) \/ ~w.baseParses \/ w.network = "down" THEN "empty"
    ELSE IF Evaluated(a.model, w) = "ok" THEN "answer" ELSE "failure"
RecordRuns(a, w) == ~Unusable(a) /\ a.out /\ ~NewClientFails(w)
Record(a, w) ==
    First(<<At(Unusable(a), UsageExit(a)),
            At(~a.out, Result("usage", 0)),
            At(NewClientFails(w), Result("auth", 0)),
            At(~w.writable, Result("error", SystemOne(a, w).calls)),
            At(TRUE, SystemOne(a, w))>>)
TapeAfter(a, w) == IF RecordRuns(a, w) /\ w.writable THEN Taped(a, w) ELSE w.tape

\* Replay brings a key of its own, but not a base URL.  A failure on the tape, and a
\* request refused before it is matched, exit as a mismatch does.
Replay(a, w) ==
    First(<<At(Unusable(a), UsageExit(a)),
            At(w.tape = "none", Result("usage", 0)),
            At(w.tape = "unreadable", Result("error", 0)),
            At(NewClientFails([key |-> "replay"]), Result("auth", 0)),
            At(PreFlight(a) /\ w.baseParses /\ w.tape = "answer", Result("ok", 0)),
            At(TRUE, Result("mismatch", 0))>>)

\* One shell that has a script is wanted.
Completion(a, w) ==
    First(<<At(a.flags # "ok", UsageExit(a)),
            At(a.shell # "known", Result("usage", 0)),
            At(TRUE, Result("ok", 0))>>)

Offline == {"estimate", "lint", "explain", "replay", "version", "completion"}
Command(name, a, w) ==
    CASE name = "run" -> Run(a, w)
      [] name = "estimate" -> Estimate(a, w)
      [] name = "lint" -> Lint(a, w)
      [] name = "explain" -> Explain(a, w)
      [] name = "models" -> Models(a, w)
      [] name = "doctor" -> Doctor(a, w)
      [] name = "replay" -> Replay(a, w)
      [] name = "record" -> Record(a, w)
      [] name = "completion" -> Completion(a, w)
      [] name = "version" -> IF a.flags = "ok" THEN Result("ok", 0) ELSE UsageExit(a)
      [] name = "help" -> Result("ok", 0)
      [] OTHER -> Result("usage", 0)

-----------------------------------------------------------------------------
\* A command the usage text marks offline makes no call and ends the same whatever
\* key and network it runs with.
OfflineStaysOfflineFor(a, w) ==
    \A name \in Offline :
        /\ Command(name, a, w).calls = 0
        /\ Command(name, a, w) =
             Command(name, a, [w EXCEPT !.key = "missing", !.network = "down"])

\* What lint finds is what run meets: with a setup that works, a request is refused
\* before it leaves exactly when lint, not being strict, exits with "invalid".
LintForetellsFor(a, w) ==
    Lint([a EXCEPT !.strict = FALSE], w).exit = "invalid"
        <=> ~Unusable(a) /\ Run([a EXCEPT !.dry = FALSE, !.format = "json"],
                               [w EXCEPT !.key = "ok"]) = Result("invalid", 0)

\* doctor exits with the code a sound request then exits with, so a script can branch
\* on it, if doctor was given the model that the request names.  Given another, it still
\* tells everything else: the two then differ only on whether a model is known.
DoctorForetellsFor(a, w) ==
    ~Unusable(a) /\ PreFlight(a) /\ ~a.dry /\ a.format # "bad" =>
        LET told == Doctor(a, w).exit
            met == Run(a, w).exit
        IN told = met \/ (a.checks # a.model /\ {told, met} = {"ok", "unknown_model"})

\* A recording that was made replays, without key and network; one of a call that
\* failed is on the tape too, but does not replay as a success.
RecordedReplaysFor(a, w) ==
    LET later == [w EXCEPT !.tape = TapeAfter(a, w), !.key = "missing", !.network = "down"]
    IN RecordRuns(a, w) /\ w.writable =>
         /\ (Record(a, w).exit = "ok") = (Replay(a, later).exit = "ok")
         /\ Record(a, w).exit \in {"limited", "auth", "unknown_model"} => later.tape = "failure"
=============================================================================
