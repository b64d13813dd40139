------------------------------ MODULE QuotaGate -----------------------------
(***************************************************************************)
(* What a Budget promises, over the whole history of what it admitted: a   *)
(* request is admitted exactly when, counted with everything admitted      *)
(* before it, it stays within every cap that is set.  Budget does the same *)
(* with two windows from which it drops what it no longer needs.           *)
(***************************************************************************)
EXTENDS Integers, Sequences, FiniteSets, Functions

CONSTANTS
    MaxRequestsPerMinute, MaxTokensPerSecond, MaxTotalRequests,
    MaxTotalTokens, Minute, Second, Sizes, Horizon   \* as in Budget

VARIABLES
    now,      \* the clock
    log,      \* requests admitted since the last Reset
    verdict   \* on the last request: none, admitted or refused

quotaVars == <<now, log, verdict>>

QuotaInit == now = 0 /\ log = <<>> /\ verdict = "none"

-----------------------------------------------------------------------------
(* The admitted requests of the last span ticks, both ends included.        *)
Recent(span) == {i \in DOMAIN log : log[i].at >= now - span}

Tokens(indices) ==
    SumFunctionOnSet([i \in DOMAIN log |-> log[i].tokens], indices)

Below(cap, n) == cap > 0 => n <= cap

WithinCaps(tokens) ==
    /\ Below(MaxTotalRequests, Len(log) + 1)
    /\ Below(MaxTotalTokens, Tokens(DOMAIN log) + tokens)
    /\ Below(MaxRequestsPerMinute, Cardinality(Recent(Minute)) + 1)
    /\ Below(MaxTokensPerSecond, Tokens(Recent(Second)) + tokens)

Request(tokens) ==
    /\ \/ /\ WithinCaps(tokens)
          /\ log' = Append(log, [at |-> now, tokens |-> tokens])
          /\ verdict' = "admitted"
       \/ /\ ~WithinCaps(tokens)
          /\ verdict' = "refused"
          /\ UNCHANGED log
    /\ UNCHANGED now

Forget ==
    /\ log' = <<>>
    /\ UNCHANGED <<now, verdict>>

TimePasses ==
    /\ now < Horizon
    /\ now' = now + 1
    /\ UNCHANGED <<log, verdict>>

QuotaNext ==
    \/ \E tokens \in Sizes : Request(tokens)
    \/ Forget
    \/ TimePasses

QuotaSpec == QuotaInit /\ [][QuotaNext]_quotaVars
=============================================================================
