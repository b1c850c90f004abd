------------------------------ MODULE Options ------------------------------
(***************************************************************************)
(* New and the options of options.go.  An option is a record with the name *)
(* of its constructor and the argument v; New folds them over a Client,    *)
(* twice.  A URL is what the guard tells apart: whether it parses, whether *)
(* its scheme is https (or missing), whether its host is a loopback.       *)
(* Objects are names; Nil is nil and the empty string.                     *)
(***************************************************************************)
EXTENDS RetryPolicy, SequencesExt

CONSTANTS defaultBaseDelay,   \* 500 ms
          defaultMaxDelay,    \* 30 s
          Nil

ASSUME OptionsAssumption ==
    /\ {defaultBaseDelay, defaultMaxDelay} \subseteq Nat \ {0}
    /\ Nil \notin BOOLEAN
    /\ Nil \notin {"Personal", "TokenAuth", "RequestIDAuth"}

Url(name, parses, https, loopback) ==
    [name |-> name, parses |-> parses, https |-> https, loopback |-> loopback]

defaultBaseURL == Url("https://api.monobank.ua", TRUE, TRUE, FALSE)

defaultRetry == [maxAttempts |-> 4, baseDelay |-> defaultBaseDelay,
                 maxDelay |-> defaultMaxDelay]

\* The Client before any option.
client == [http      |-> [kind |-> "client", of |-> "default", transport |-> "default"],
           auth      |-> "Public",
           baseURL   |-> defaultBaseURL,
           retry     |-> [maxAttempts |-> 0, baseDelay |-> 0, maxDelay |-> 0],
           limiter   |-> Nil, userAgent |-> Nil, logger |-> Nil, onReq |-> Nil, onResp |-> Nil,
           unsafeRetries |-> FALSE, allowInsecureBaseURL |-> FALSE, optErr |-> "none"]

-----------------------------------------------------------------------------

\* Seeded fault: the client that was configured is replaced, not cloned.
httpOptionsFresh(c, o) ==
    IF o.v = Nil THEN c ELSE
    CASE o.opt = "WithHTTPClient"   ->
            [c EXCEPT !.http = [kind |-> "client", of |-> o.v, transport |-> o.v]]
      [] o.opt = "WithHTTPDoer"     ->
            [c EXCEPT !.http = [kind |-> "doer", of |-> o.v, transport |-> o.v]]
      [] o.opt = "WithRoundTripper" ->
            [c EXCEPT !.http = [kind |-> "client", of |-> "new", transport |-> o.v]]

\* WithHTTPClient, WithHTTPDoer and WithRoundTripper, which replaces the
\* transport of a copy of the *http.Client it finds.
httpOptions(c, o) ==
    IF o.v = Nil THEN c ELSE
    CASE o.opt = "WithHTTPClient"   ->
            [c EXCEPT !.http = [kind |-> "client", of |-> o.v, transport |-> o.v]]
      [] o.opt = "WithHTTPDoer"     ->
            [c EXCEPT !.http = [kind |-> "doer", of |-> o.v, transport |-> o.v]]
      [] o.opt = "WithRoundTripper" ->
            [c EXCEPT !.http = [kind |-> "client",
                                of |-> IF @.kind = "client" THEN @.of ELSE "new",
                                transport |-> o.v]]

\* WithAuth, WithLogger, WithRequestHook, WithResponseHook: nil is ignored.
attachments(c, o) ==
    IF o.v = Nil THEN c ELSE
    CASE o.opt = "WithAuth"         -> [c EXCEPT !.auth = o.v]
      [] o.opt = "WithLogger"       -> [c EXCEPT !.logger = o.v]
      [] o.opt = "WithRequestHook"  -> [c EXCEPT !.onReq = o.v]
      [] o.opt = "WithResponseHook" -> [c EXCEPT !.onResp = o.v]

isInsecureBaseURL(u) == u.parses /\ ~u.https /\ ~u.loopback

\* The first option error stays; a URL that does not parse changes nothing.
SetBaseURL(c, u) ==
    IF u.parses THEN [c EXCEPT !.baseURL = u]
    ELSE [c EXCEPT !.optErr = IF @ = "none" THEN "ErrInvalidURL" ELSE @]

WithBaseURL(c, u) ==
    IF isInsecureBaseURL(u) /\ ~c.allowInsecureBaseURL
    THEN [c EXCEPT !.optErr = "ErrInsecureBaseURL"]
    ELSE SetBaseURL(c, u)

WithInsecureBaseURL(c, allow) == [c EXCEPT !.allowInsecureBaseURL = allow]

\* Seeded fault: the delays are taken as they are given.
WithRetryPlain(c, v) ==
    [c EXCEPT !.retry = [maxAttempts |-> v.attempts, baseDelay |-> v.base, maxDelay |-> v.max]]

WithRetry(c, v) ==
    LET or(given, current, default) ==
            IF given > 0 THEN given ELSE IF current = 0 THEN default ELSE current
    IN  IF v.attempts = 0 THEN [c EXCEPT !.retry = defaultRetry]
        ELSE [c EXCEPT !.retry =
                 [maxAttempts |-> v.attempts,
                  baseDelay   |-> or(v.base, @.baseDelay, defaultBaseDelay),
                  maxDelay    |-> or(v.max, @.maxDelay, defaultMaxDelay)]]

\* WithUserAgent, WithUnsafeRetries, WithRateLimiter.
limits(c, o) ==
    IF o.v = Nil THEN c ELSE
    CASE o.opt = "WithUnsafeRetries" -> [c EXCEPT !.unsafeRetries = o.v]
      [] o.opt = "WithUserAgent"     -> [c EXCEPT !.userAgent = o.v]
      [] o.opt = "WithRateLimiter"   -> [c EXCEPT !.limiter = o.v]

Apply(c, o) ==
    CASE o.opt \in {"WithHTTPClient", "WithHTTPDoer", "WithRoundTripper"} -> httpOptions(c, o)
      [] o.opt \in {"WithAuth", "WithLogger", "WithRequestHook", "WithResponseHook"} ->
            attachments(c, o)
      [] o.opt = "WithBaseURL"         -> WithBaseURL(c, o.v)
      [] o.opt = "WithInsecureBaseURL" -> WithInsecureBaseURL(c, o.v)
      [] o.opt = "WithRetry"           -> WithRetry(c, o.v)
      [] OTHER                         -> limits(c, o)

\* for _, o := range opts { o(c) }
Applied(c, opts) ==
    LET after[n \in 0..Len(opts)] == IF n = 0 THEN c ELSE Apply(after[n - 1], opts[n])
    IN  after[Len(opts)]

\* Seeded fault: one pass over the options.
NewOnePass(opts) == Applied(client, opts)

\* Two passes: the first, on a copy, finds out whether an insecure URL is allowed.
New(opts) ==
    LET probe == Applied(client, opts)
    IN  Applied([client EXCEPT !.allowInsecureBaseURL = probe.allowInsecureBaseURL], opts)

-----------------------------------------------------------------------------
(* The New of the packages: their own options come first                   *)

Option(name, v) == [opt |-> name, v |-> v]

personalNew(opts)    == New(<<Option("WithAuth", "Personal")>> \o opts)
businessNew(opts)    == New(<<Option("WithBaseURL", Url("https://corp-api.monobank.ua", TRUE, TRUE, FALSE)),
                              Option("WithAuth", "TokenAuth")>> \o opts)
acquiringNew(opts)   == New(<<Option("WithBaseURL", defaultBaseURL),
                              Option("WithAuth", "TokenAuth")>> \o opts)
openbankingNew(opts) == New(<<Option("WithBaseURL", Url("BaseURLProduction", TRUE, TRUE, FALSE)),
                              Option("WithAuth", "RequestIDAuth")>> \o opts)
=============================================================================
