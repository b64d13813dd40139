------------------------------ MODULE MCServices ------------------------------
(***************************************************************************)
(* Components that share nothing, checked as alternatives: a behaviour is   *)
(* one of the tracer, metrics and hooks, of the policy server, of the       *)
(* cassette or of the test doubles, or one input of the pure functions,     *)
(* while the others stay as they begin.                                     *)
(***************************************************************************)
EXTENDS MCFunctions, Instrumentation, PolicyServer, Cassette, TestDoubles

VARIABLE component   \* the one that moves

TwoCanned == <<"c1", "c2">>
FarBelow == -99
NoLevel == -7

vars == <<component, callVars, policyVars, cassetteVars, doublesVars, input>>

Init ==
    /\ component \in {"calls", "policies", "cassette", "doubles", "functions"}
    /\ CallsInit /\ PolicyInit /\ CassetteInit /\ DoublesInit /\ FunctionsInit

CallsAlone ==
    /\ component = "calls"
    /\ UNCHANGED <<component, policyVars, cassetteVars, doublesVars, input>>
PoliciesAlone ==
    /\ component = "policies"
    /\ UNCHANGED <<component, callVars, cassetteVars, doublesVars, input>>
CassetteAlone ==
    /\ component = "cassette"
    /\ UNCHANGED <<component, callVars, policyVars, doublesVars, input>>
DoublesAlone ==
    /\ component = "doubles"
    /\ UNCHANGED <<component, callVars, policyVars, cassetteVars, input>>
FunctionsAlone ==
    /\ component = "functions"
    /\ UNCHANGED <<component, callVars, policyVars, cassetteVars, doublesVars>>

Next == \/ CallsAlone /\ CallsNext
        \/ PoliciesAlone /\ PolicyNext
        \/ CassetteAlone /\ CassetteNext
        \/ DoublesAlone /\ DoublesNext
        \/ FunctionsAlone /\ FunctionsNext
Fair(c) == /\ WF_vars(CallsAlone /\ Goroutine(c)) /\ WF_vars(CallsAlone /\ Collect(c))
Spec == Init /\ [][Next]_vars /\ \A c \in 1..N : Fair(c)
=============================================================================
