----------------------------- MODULE ItemResults ----------------------------
(***************************************************************************)
(* What both kinds of batch promise their caller: every input gets a       *)
(* result, a result that was given is not taken back or given again, and   *)
(* the call ends with nothing missing unless the caller left it early.     *)
(***************************************************************************)
CONSTANTS Items, Nothing

VARIABLES
    result,   \* of each input, Nothing until it is given
    phase     \* open, left (by the caller) or over

resultsVars == <<result, phase>>

ResultsInit == result = [i \in Items |-> Nothing] /\ phase = "open"

Missing == {i \in Items : result[i] = Nothing}

(* Any of the missing results, in any order; the caller may leave then.     *)
Give ==
    /\ phase = "open"
    /\ phase' \in {"open", "left"}
    /\ result' = [i \in Items |-> IF i \in Missing THEN result'[i] ELSE result[i]]

End ==
    /\ phase = "left" \/ (phase = "open" /\ Missing = {})
    /\ phase' = "over"
    /\ UNCHANGED result

ResultsNext == Give \/ End
ResultsSpec == ResultsInit /\ [][ResultsNext]_resultsVars
=============================================================================
