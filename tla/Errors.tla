------------------------------- MODULE Errors -------------------------------
(***************************************************************************)
(* The error values of the client and what each consumer makes of them:    *)
(* the retry loop, the batch's limiter, the Temporal activity, the command *)
(* line's exit code and the Prometheus label.                              *)
(*                                                                         *)
(* An error is its chain, outermost first, in the order errors.Is walks    *)
(* it, with the status and the retry-after of the APIError in it, and the  *)
(* reason and details parsed from the body.                                *)
(***************************************************************************)
EXTENDS Integers, Sequences, RetryPolicy

Error(chain) ==
    [chain |-> chain, status |-> 0, after |-> 0,
     reason |-> "none", details |-> 0]

(* errors.Is and errors.As: the kind is somewhere in the chain.             *)
Is(err, kind) == \E i \in DOMAIN err.chain : err.chain[i] = kind
IsAny(err, kinds) == \E k \in kinds : Is(err, k)

(* The typed error of a status.                                             *)
Typed(status) ==
    CASE status = 400 -> <<"bad_request">>
      [] status = 401 -> <<"authentication">>
      [] status = 403 -> <<"permission_denied">>
      [] status = 404 -> <<"not_found">>
      [] status = 422 -> <<"invalid_request">>
      [] status = 429 -> <<"rate_limit">>
      [] status = 529 -> <<"overloaded">>
      [] status >= 500 /\ status # 529 -> <<"server_error">>
      [] OTHER -> <<>>

(* The shapes of the detail field: none, an array of n failures, an object  *)
(* or a bare string that names a reason, or anything else.                  *)
ParseErrorBody(body) ==
    CASE body.shape = "array" -> [details |-> body.n, reason |-> "none"]
      [] body.shape \in {"object", "string"} ->
            [details |-> 0, reason |-> body.reason]
      [] OTHER -> [details |-> 0, reason |-> "none"]

NewAPIError(status, after, body) ==
    [chain |-> Typed(status) \o <<"api">>,
     status |-> status,
     after |-> IF status \in {429, 529} THEN after ELSE 0,
     reason |-> ParseErrorBody(body).reason,
     details |-> ParseErrorBody(body).details]

(* A failure without a usable response, by its cause and the context.       *)
Timeouts == {"deadline", "net_timeout"}
CancelledByCause(cause, ctx) == cause = "canceled"
Cancelled(cause, ctx) == cause = "canceled" \/ ctx = "canceled"
TransportError(cause, ctx) ==
    IF Cancelled(cause, ctx) THEN Error(<<"canceled">>)
    ELSE IF cause \in Timeouts THEN Error(<<"timeout", cause>>)
    ELSE Error(<<"connection", cause>>)

(* A 2xx whose body is not an answer to every question.                     *)
ResponseValidationError == Error(<<"invalid_response">>)

(* The retry loop's endings: the last error after retries, and a rejection  *)
(* joined with the failure before it.                                       *)
Exhausted(err) == [err EXCEPT !.chain = <<"exhausted">> \o @]
RejectedAfter(err) == [err EXCEPT !.chain = <<"circuit_open">> \o @]

(* A recovered panic, wrapping its value when that is an error.             *)
PanicError(value) == [value EXCEPT !.chain = <<"panic">> \o @]

-----------------------------------------------------------------------------
(* defaultRetryStatuses, and a policy's decisions.                          *)
DefaultStatuses == {408, 429} \cup 500..599

ShouldRetry(policy, err) ==
    /\ err.chain # <<>>
    /\ ~Is(err, "canceled")
    /\ IF policy.predicate # "none" THEN policy.predicate = "always"
       ELSE \/ Is(err, "timeout") /\ policy.onTimeout
            \/ ~Is(err, "timeout") /\ Is(err, "connection")
               /\ policy.onConnection
            \/ ~IsAny(err, {"timeout", "connection"}) /\ Is(err, "api")
               /\ err.status \in DefaultStatuses

(* The delay the server asked for, zero when it counts for nothing.         *)
RetryAfterFrom(policy, err) ==
    IF /\ policy.respectAfter
       /\ IsAny(err, {"rate_limit", "overloaded"})
       /\ err.after > 0
    THEN err.after ELSE 0

(* observe: an outcome that halves the batch's concurrency.                 *)
Throttled(err) == IsAny(err, {"rate_limit", "overloaded", "budget_exceeded"})

(* The Temporal activity's classify: the type of a non-retryable error, or  *)
(* retryable.                                                               *)
TemporalType(err) ==
    CASE Is(err, "authentication") -> "Authentication"
      [] Is(err, "permission_denied") /\ ~Is(err, "authentication") ->
            "PermissionDenied"
      [] IsAny(err, {"bad_request", "invalid_request"}) -> "InvalidRequest"
      [] Is(err, "not_found") -> "NotFound"
      [] OTHER -> "retryable"

(* The command line's classify.                                             *)
IsUnknownModel(err) == Is(err, "api") /\ err.reason = "unknown_model"
ExitCode(err) ==
    CASE err.chain = <<>> -> 0
      [] IsAny(err, {"no_api_key", "authentication", "permission_denied"}) -> 3
      [] IsAny(err, {"connection", "timeout"}) -> 4
      [] IsAny(err, {"rate_limit", "overloaded", "budget_exceeded"}) -> 6
      [] IsUnknownModel(err) -> 7
      [] ~IsUnknownModel(err) /\ IsAny(err, {"invalid_request", "bad_request"})
            -> 5
      [] OTHER -> 1

(* ErrorClass tries these in order and takes the first that is in the       *)
(* chain; a deadline counts as a timeout.                                   *)
ClassOrder ==
    <<"rate_limit", "overloaded", "invalid_request", "budget_exceeded",
      "canceled", "deadline", "authentication", "permission_denied",
      "not_found", "server_error", "connection", "timeout",
      "invalid_response", "panic">>
ErrorClass(err) ==
    LET hits == {i \in DOMAIN ClassOrder : Is(err, ClassOrder[i])}
        first == CHOOSE i \in hits : \A j \in hits : i <= j
    IN IF err.chain = <<>> THEN "none"
       ELSE IF hits = {} THEN "other"
       ELSE IF ClassOrder[first] = "deadline" THEN "timeout"
       ELSE IF ClassOrder[first] = "invalid_response"
       THEN "response_validation" ELSE ClassOrder[first]

StatusLabel(status) ==
    CASE status = 0 -> "none"
      [] status = 408 -> "408"
      [] status = 429 -> "429"
      [] status \in 500..599 -> "5xx"
      [] status \in 400..499 /\ status \notin {408, 429} -> "4xx"
      [] OTHER -> "other"

-----------------------------------------------------------------------------
(* A failure means the same to every consumer after the retry loop has      *)
(* wrapped it, as exhausted or behind the breaker's rejection.              *)
WrappingKeepsMeaningOf(err) ==
    err.chain # <<>> =>
        \A w \in {Exhausted(err), RejectedAfter(err)} :
            /\ TemporalType(w) = TemporalType(err)
            /\ ExitCode(w) = ExitCode(err)
            /\ ErrorClass(w) = ErrorClass(err)
            /\ Throttled(w) = Throttled(err)

(* The layers agree on what a retry cannot fix: what Temporal is told not   *)
(* to retry the default policy does not retry either, what narrows a batch  *)
(* is retryable in Temporal, and a retried status has a label of its own.   *)
LayersAgreeOn(err, default) ==
    /\ ShouldRetry(default, err) => TemporalType(err) = "retryable"
    /\ Throttled(err) => TemporalType(err) = "retryable"
    /\ ShouldRetry(default, err) => StatusLabel(err.status) \notin {"4xx"}
    /\ ShouldRetry(default, err) => ExitCode(err) # 5

(* Whatever a Retry-After header says, and whatever the conversion of its   *)
(* seconds gives (parseRetryAfter may return a negative duration for a NaN  *)
(* or a number that does not fit), no retry sleeps a negative time for it.  *)
ServerDelayUsableFor(status, header, policy) ==
    \A after \in ParseRetryAfter(header) :
        RetryAfterFrom(policy,
            NewAPIError(status, after, [shape |-> "junk"])) \in 0..MaxInt

(* A cancelled call is never taken for a fault of the service: whatever the *)
(* transport failed with, it is not retried, not labelled a timeout and     *)
(* does not exit as a network failure.                                      *)
CancelStaysCancelOf(cause, ctx, policy) ==
    ctx = "canceled" =>
        LET err == TransportError(cause, ctx) IN
        /\ ~ShouldRetry(policy, err)
        /\ ErrorClass(err) = "canceled"
        /\ ExitCode(err) # 4
=============================================================================
