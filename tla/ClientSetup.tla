----------------------------- MODULE ClientSetup -----------------------------
(***************************************************************************)
(* How a client comes to its settings, and what of them reaches a request: *)
(* NewClient applies the options in order over the environment and the     *)
(* defaults, composes the interceptors, and each call carries one          *)
(* correlation id from the inbound request, through the web middlewares,   *)
(* to the log and the header of every attempt.                             *)
(*                                                                         *)
(* Texts are strings; the blank ones are "" and " ".  An option is its     *)
(* kind and value.                                                         *)
(***************************************************************************)
EXTENDS Integers, Sequences, SequencesExt

CONSTANTS
    DefaultTimeout,   \* a positive number
    DefaultRetries    \* retries of DefaultRetryPolicy

Blank(text) == text \in {"", " "}
FirstNonEmpty(texts) ==
    LET said == {i \in DOMAIN texts : ~Blank(texts[i])}
    IN IF said = {} THEN "" ELSE texts[Min(said)]

(* config: what the environment says, else the defaults.                    *)
Config(env) ==
    [key |-> env.key, url |-> FirstNonEmpty(<<env.url, "default url">>),
     model |-> FirstNonEmpty(<<env.model, "jev-latest">>),
     timeout |-> DefaultTimeout, http |-> -1, retries |-> DefaultRetries,
     headers |-> {}, interceptors |-> <<>>, idHeader |-> "", generates |-> FALSE,
     refused |-> FALSE]

(* What an option refuses: blanks, a URL without scheme or host, what is    *)
(* not positive, a header for the credential, an empty name for the id.     *)
Refuses(opt) ==
    \/ opt[1] \in {"key", "model"} /\ Blank(opt[2])
    \/ opt[1] = "url" /\ opt[2] \notin {"url", "url/"}
    \/ opt[1] = "timeout" /\ opt[2] <= 0
    \/ opt[1] \in {"retries", "policy"} /\ opt[2] < 0
    \/ opt[1] = "header" /\ opt[2] = "Authorization"
    \/ opt[1] = "id" /\ opt[2] = <<"">>

(* The options, each a closure over the config.                             *)
Apply(cfg, opt) ==
    LET v == opt[2] IN
    CASE cfg.refused \/ Refuses(opt) -> [cfg EXCEPT !.refused = TRUE]
      [] OTHER ->
         CASE opt[1] = "key" -> [cfg EXCEPT !.key = v]
           [] opt[1] = "url" -> [cfg EXCEPT !.url = "url"]
           [] opt[1] = "model" -> [cfg EXCEPT !.model = v]
           [] opt[1] = "timeout" -> [cfg EXCEPT !.timeout = v]
           [] opt[1] = "http" -> [cfg EXCEPT !.http = v]
           [] opt[1] \in {"retries", "policy"} -> [cfg EXCEPT !.retries = v]
           [] opt[1] = "header" -> [cfg EXCEPT !.headers = @ \cup {v}]
           [] opt[1] = "interceptor" -> [cfg EXCEPT !.interceptors = @ \o v]
           [] opt[1] = "id" -> [cfg EXCEPT !.generates = TRUE,
                  !.idHeader = IF v = <<>> THEN @ ELSE v[1]]

(* A caller's http.Client without a timeout is copied before it is given    *)
(* one; the others are used as they are.                                    *)
TimeoutOf(cfg) == IF cfg.http \in {-1, 0} THEN cfg.timeout ELSE cfg.http
NewClient(env, opts) ==
    LET after[i \in 0..Len(opts)] ==
            IF i = 0 THEN Config(env) ELSE Apply(after[i - 1], opts[i])
        cfg == after[Len(opts)]
    IN [ok |-> ~cfg.refused /\ ~Blank(cfg.key), cfg |-> cfg,
        timeout |-> TimeoutOf(cfg)]

(* chain wraps from the last interceptor inwards to out, recoverPanic       *)
(* around them all.                                                         *)
Wrap(interceptor, handler) == <<interceptor>> \o handler
Chain(interceptors) ==
    LET wrapped[i \in 0..Len(interceptors)] ==
            IF i = 0 THEN <<"systemOne">>
            ELSE Wrap(interceptors[Len(interceptors) + 1 - i], wrapped[i - 1])
    IN wrapped[Len(interceptors)]
Handler(cfg) == Wrap("recoverPanic", Chain(cfg.interceptors))

-----------------------------------------------------------------------------
(* The context of a call holds an id or "".  An empty one blanks nothing.   *)
ContextBlanked(ctx, id) == id
ContextWithRequestID(ctx, id) == IF id = "" THEN ctx ELSE id

(* The correlation middlewares of net/http, gin, echo and fiber take the    *)
(* first inbound header that is set.                                        *)
FirstHeader(inbound, names) ==
    LET set == {i \in DOMAIN names : inbound[names[i]] # ""}
    IN IF set = {} THEN "" ELSE inbound[names[Min(set)]]
Correlation(ctx, inbound, names) ==
    ContextWithRequestID(ctx, FirstHeader(inbound, names))

(* SystemOne, for the n-th call of a handler: a generated id if there is    *)
(* none yet.                                                                *)
Generated(n) == <<"one", "two", "three">>[n]
SystemOne(cfg, ctx, n) == IF cfg.generates /\ ctx = "" THEN Generated(n) ELSE ctx

(* attempt: the client's headers, the id, and the four that are always the  *)
(* SDK's own.                                                               *)
Fixed == {"Authorization", "Accept", "User-Agent", "Content-Type"}
Sent(cfg, id) ==
    LET idSent == cfg.idHeader # "" /\ id # "" IN
    [h \in cfg.headers \cup Fixed \cup (IF idSent THEN {cfg.idHeader} ELSE {}) |->
        IF h \in Fixed THEN "sdk"
        ELSE IF idSent /\ h = cfg.idHeader THEN id ELSE "option"]

-----------------------------------------------------------------------------
LastOf(opts, kinds, otherwise) ==
    LET said == {i \in DOMAIN opts : opts[i][1] \in kinds}
    IN IF said = {} THEN otherwise ELSE opts[Max(said)][2]

(* A client that is built works: it has a key and a model, a timeout although *)
(* the caller's http.Client may have none, and each setting is the last      *)
(* option's that sets it, before the environment and the default.           *)
SetupSoundFor(env, opts) ==
    LET c == NewClient(env, opts) IN
    c.ok =>
        /\ c.timeout > 0 /\ c.cfg.retries >= 0
        /\ ~Blank(c.cfg.key) /\ ~Blank(c.cfg.model) /\ ~Blank(c.cfg.url)
        /\ c.cfg.key = LastOf(opts, {"key"}, env.key)
        /\ c.cfg.model = LastOf(opts, {"model"}, IF Blank(env.model) THEN "jev-latest" ELSE env.model)
        /\ c.cfg.retries = LastOf(opts, {"retries", "policy"}, DefaultRetries)
        /\ c.timeout = LET given == LastOf(opts, {"http"}, -1) IN
              IF given > 0 THEN given ELSE LastOf(opts, {"timeout"}, DefaultTimeout)
        /\ Sent(c.cfg, "any")["Authorization"] = "sdk"

(* Interceptors nest in the order they were given, over however many        *)
(* options, with the recovery outside of the first.                         *)
NestedInOrderFor(env, opts) ==
    LET c == NewClient(env, opts)
        given[i \in 0..Len(opts)] ==
            IF i = 0 THEN <<>>
            ELSE IF opts[i][1] = "interceptor" THEN given[i - 1] \o opts[i][2]
            ELSE given[i - 1]
    IN c.ok => Handler(c.cfg) = <<"recoverPanic">> \o given[Len(opts)] \o <<"systemOne">>

(* One id ties an inbound request to its calls: an id that came with the    *)
(* request survives an inner middleware whose headers are missing, is what  *)
(* every call of the handler carries, and what every attempt sends; without *)
(* one the calls have ids of their own, if the client generates any.        *)
OneIdFor(cfg, inbound, names) ==
    LET outer == Correlation("", inbound, names)
        ctx == Correlation(outer, [h \in DOMAIN inbound |-> ""], names)
        seen(n) == SystemOne(cfg, ctx, n)
    IN /\ (\E h \in ToSet(names) : inbound[h] # "") =>
             \A n \in 1..2 : seen(n) = outer /\ seen(n) # ""
       /\ ctx = "" /\ cfg.generates => seen(1) # seen(2)
       /\ \A n \in 1..2 : cfg.idHeader \notin Fixed \cup {""} =>
             IF seen(n) # "" THEN Sent(cfg, seen(n))[cfg.idHeader] = seen(n)
             ELSE cfg.idHeader \in DOMAIN Sent(cfg, "") => cfg.idHeader \in cfg.headers
=============================================================================
