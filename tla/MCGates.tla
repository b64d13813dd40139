------------------------------- MODULE MCGates ------------------------------
(***************************************************************************)
(* The two gates that stand before a request and share nothing, checked as  *)
(* alternatives: a behaviour is one of the circuit breaker with its         *)
(* callers, or one of the budget, while the other stays as it begins.       *)
(***************************************************************************)
EXTENDS MCCircuitClients, Budget

VARIABLE gate   \* the one that moves

SmallAndLarge == {1, 2}

gatesVars == <<gate, vars, budgetVars>>

BreakerAlone == gate = "breaker" /\ UNCHANGED <<gate, budgetVars>>
BudgetAlone == gate = "budget" /\ UNCHANGED <<gate, vars>>

GatesInit == gate \in {"breaker", "budget"} /\ Init /\ BudgetInit
GatesNext == \/ BreakerAlone /\ Next
             \/ BudgetAlone /\ BudgetNext

(* The fairness of CircuitClients; a budget owes nobody a step.             *)
GatesSpec ==
    /\ GatesInit /\ [][GatesNext]_gatesVars
    /\ WF_gatesVars(BreakerAlone /\ Tick)
    /\ \A c \in Callers : /\ WF_gatesVars(BreakerAlone /\ Begin(c))
                          /\ WF_gatesVars(BreakerAlone /\ End(c))
=============================================================================
