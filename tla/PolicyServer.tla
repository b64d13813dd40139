----------------------------- MODULE PolicyServer -----------------------------
(***************************************************************************)
(* The MCP server of integrations/mcp: named policies that can be replaced *)
(* while tools are called, each evaluation reading its policy under the    *)
(* read lock and then waiting for the service without it.                  *)
(*                                                                         *)
(* A policy specification is a version number, the questions it asks, the   *)
(* questions it weighs and what its OnMissing says of a weighed question    *)
(* without a readable answer.  A question is asked whatever its type, and   *)
(* a policy can read only the answer of a noul.                             *)
(***************************************************************************)
EXTENDS Integers, FiniteSets

CONSTANTS
    Names,       \* policy names
    QuestionIds,   \* question ids
    Tools,       \* concurrent tool calls
    MaxVersions  \* bound on the specifications registered

VARIABLES
    policies,    \* the map: a specification or none
    version,     \* specifications offered to AddPolicy so far
    tool         \* each tool call: its step, the policy it names and read, the
                 \* questions answered and those answered readably, the verdict
                 \* and the questions counted in it, or the question it fails on

policyVars == <<policies, version, tool>>

\* A policy has no value to give a missing answer, so its MissingIsDefault counts zero too.
MissingPolicies == {"error", "skipped", "zero"}
Blank == "blank"
NoSpec == [version |-> 0, asks |-> {}, weighs |-> {}, onMissing |-> "error"]
Idle == [pc |-> "idle", name |-> Blank, spec |-> NoSpec, answered |-> {},
         readable |-> {}, verdict |-> 0, counted |-> {}, lacks |-> {}, known |-> {}]

PolicyInit ==
    /\ policies = [n \in Names \cup {Blank} |-> NoSpec]
    /\ version = 0
    /\ tool = [t \in Tools |-> Idle]

(* AddPolicy: the policy has a name, its weights and thresholds validate,   *)
(* it weighs something and only questions that are asked.                   *)
Acceptable(n, spec, valid) ==
    /\ n # Blank
    /\ valid /\ spec.weighs # {}
    /\ spec.weighs \subseteq spec.asks /\ spec.asks # {}
AddPolicy(n, asks, weighs, onMissing, valid) ==
    LET spec == [version |-> version + 1, asks |-> asks, weighs |-> weighs,
                 onMissing |-> onMissing] IN
    /\ version < MaxVersions
    /\ version' = version + 1
    /\ policies' = IF Acceptable(n, spec, valid)
                   THEN [policies EXCEPT ![n] = spec] ELSE policies
    /\ UNCHANGED tool

(* Policies: the names registered.                                          *)
Policies == {n \in DOMAIN policies : policies[n] # NoSpec}

(* evaluate_policy takes its specification, or an error that lists the      *)
(* policies there are.                                                      *)
Look(t, n) ==
    /\ tool[t].pc = "idle"
    /\ tool' = [tool EXCEPT ![t] =
          [Idle EXCEPT !.pc = IF policies[n] = NoSpec THEN "error" ELSE "asking",
                       !.name = n, !.spec = policies[n], !.known = Policies]]
    /\ UNCHANGED <<policies, version>>

(* system_one and models are calls of the client and keep nothing here.     *)

(* SystemOne fails, or answers every question asked: the client requires    *)
(* an answer to each, of whatever type, and none need decode as a noul.     *)
Answered(t) ==
    /\ tool[t].pc = "asking"
    /\ \/ tool' = [tool EXCEPT ![t].pc = "error"]
       \/ \E readable \in SUBSET tool[t].spec.asks :
             tool' = [tool EXCEPT ![t].pc = "evaluating",
                                  ![t].answered = tool[t].spec.asks,
                                  ![t].readable = readable]
    /\ UNCHANGED <<policies, version>>

(* Evaluate, by the specification that was read: a weighed question that    *)
(* cannot be read fails it, is left out of the sum, or counts as zero.      *)
JudgeCurrent(t) == policies[tool[t].name]
Judge(t) == tool[t].spec
Unread(t) == Judge(t).weighs \ tool[t].readable
Fails(t) == Judge(t).onMissing = "error" /\ Unread(t) # {}
Composed(t) == IF Judge(t).onMissing = "skipped"
              THEN Judge(t).weighs \ Unread(t) ELSE Judge(t).weighs
EvaluatePolicy(t) ==
    /\ tool[t].pc = "evaluating"
    /\ tool' = [tool EXCEPT ![t] =
          IF Fails(t)
          THEN [@ EXCEPT !.pc = "failed", !.lacks = Unread(t)]
          ELSE [@ EXCEPT !.pc = "verdict", !.verdict = Judge(t).version,
                         !.counted = Composed(t)]]
    /\ UNCHANGED <<policies, version>>

(* The tool call is over.                                                   *)
Done(t) ==
    /\ tool[t].pc \in {"error", "verdict", "failed"}
    /\ tool' = [tool EXCEPT ![t] = Idle]
    /\ UNCHANGED <<policies, version>>

PolicyNext ==
    \/ \E n \in Names \cup {Blank}, asks, weighs \in SUBSET QuestionIds,
          onMissing \in MissingPolicies, valid \in BOOLEAN :
          AddPolicy(n, asks, weighs, onMissing, valid)
    \/ \E t \in Tools : Answered(t) \/ EvaluatePolicy(t) \/ Done(t)
    \/ \E t \in Tools, n \in Names \cup {Blank} : Look(t, n)

PolicySpec == PolicyInit /\ [][PolicyNext]_policyVars

-----------------------------------------------------------------------------
(* A verdict belongs to the policy whose questions were asked, although the *)
(* policy may have been replaced while the service answered.                *)
VerdictOfAskedPolicy ==
    \A t \in Tools : tool[t].pc = "verdict" =>
        /\ tool[t].verdict = tool[t].spec.version
        /\ tool[t].answered = tool[t].spec.asks

(* It is composed of the questions the policy weighs.  Whatever may be said *)
(* of the unread ones, every readable answer of a weighed question counts,  *)
(* and a policy that fails on what is missing has read them all.            *)
VerdictOfItsWeights ==
    \A t \in Tools : tool[t].pc = "verdict" =>
        LET spec == tool[t].spec IN
        /\ tool[t].counted \subseteq spec.weighs
        /\ spec.weighs \cap tool[t].readable \subseteq tool[t].counted
        /\ spec.onMissing = "error" => spec.weighs \subseteq tool[t].readable

(* No evaluation of a registered policy fails for a question that was not   *)
(* asked: AddPolicy has seen to that.  One can fail for a question that was *)
(* asked and answered, when the answer is not a noul.                       *)
FailsOnlyOnUnreadable ==
    \A t \in Tools : tool[t].pc = "failed" =>
        /\ tool[t].lacks # {}
        /\ tool[t].lacks \subseteq tool[t].answered \ tool[t].readable
        /\ tool[t].spec.onMissing = "error"

(* A policy that is replaced while the service answers does not lend its    *)
(* weights to the questions of another, nor misses an answer that it would  *)
(* have asked for (mcp.go).                                                 *)
VerdictsKeepTheirPolicy ==
    /\ VerdictOfAskedPolicy
    /\ VerdictOfItsWeights
    /\ FailsOnlyOnUnreadable
=============================================================================
