--------------------------- MODULE MCAlgorithms ---------------------------
(***************************************************************************)
(* The parts of the SDK that are functions of their arguments, each        *)
(* evaluated on every input of a small range and compared with a reference *)
(* definition; and the LRU set under every sequence of calls.              *)
(***************************************************************************)
EXTENDS Options, Redaction, FiniteSets

CONSTANTS Bases, Ceilings, Attempts, Numbers,   \* retry policy
          Names, NoId, capacity,                \* the LRU set
          MaxOptions,                           \* bound: options passed to New
          Objects,                              \* clients, doers, hooks, agents, ...
          RetryAttempts, RetryDelays,           \* arguments of WithRetry
          Magnitudes, Digits, Decimals,         \* money
          IntDigits, FracDigits, LongFrac,      \* bounds: digits of a text
          Minus, Bad,
          Lengths                               \* lengths of a logged value

http(name, loopback) == Url(name, TRUE, FALSE, loopback)

\* The arguments of WithBaseURL.
BaseURLs == {Url("https", TRUE, TRUE, FALSE), http("local", TRUE), http("remote", FALSE),
             Url("broken", FALSE, FALSE, FALSE)}

ASSUME AlgorithmsAssumption ==
    /\ Bases \cup Ceilings \cup Numbers \subseteq Int
    /\ Attempts \subseteq Nat
    /\ Magnitudes \subseteq 0..MaxInt
    /\ Digits \subseteq 0..9 /\ Decimals \subseteq Nat /\ 100 <= MaxInt
    /\ {IntDigits, FracDigits, LongFrac} \subseteq Nat
    /\ Minus \notin 0..9 /\ Bad \notin 0..9
    /\ capacity \in Nat \ {0}
    /\ MaxOptions \in Nat
    /\ RetryAttempts \cup RetryDelays \subseteq Int
    /\ \A u \in BaseURLs : u # Nil

VARIABLES in, out, order, added, others

vars == <<in, out, order, added, others>>

D == INSTANCE MemoryDeduper
M == INSTANCE Money

-----------------------------------------------------------------------------
(* Inputs                                                                  *)

\* Seconds and dates, the past ones included.
Signed == Numbers \cup {-n : n \in Numbers}

OptionSet ==
    [opt : {"WithBaseURL"}, v : BaseURLs]
    \cup [opt : {"WithInsecureBaseURL", "WithUnsafeRetries"}, v : BOOLEAN]
    \cup [opt : {"WithRetry"},
          v : [attempts : RetryAttempts, base : RetryDelays, max : RetryDelays]]
    \cup [opt : {"WithHTTPClient", "WithAuth"}, v : Objects \cup {Nil}]
    \cup [opt : {"WithHTTPDoer", "WithRoundTripper", "WithLogger", "WithRequestHook",
                 "WithResponseHook", "WithUserAgent", "WithRateLimiter"}, v : Objects]

\* Amounts around the ends of the range and around their roots.
Minors == Magnitudes \cup {-m : m \in Magnitudes} \cup {MinInt}

Money == [minor : Minors, code : {"UAH", "USD"}]

Texts == M!Texts(Digits, IntDigits, FracDigits) \cup M!Texts(Digits, 1, LongFrac)

\* The types of the packages that redact.  AuthorisationLinks has no LogValue of
\* its own: it is covered as a part of its response only.
Logged == (DOMAIN bankTypes \cup DOMAIN businessTypes \cup DOMAIN openbankingTypes)
          \ {"openbanking.AuthorisationLinks"}

Inputs ==
    [op : {"backoff"}, base : Bases, ceiling : Ceilings, attempt : Attempts]
    \cup [op : {"header"}, h : Header(Signed), x : Header(Signed)]
    \cup [op : {"new"}, package : {"monobank", "personal", "business", "acquiring", "openbanking"},
          opts : SeqOf(OptionSet, MaxOptions)]
    \cup [op : {"add", "sub"}, a : Money, b : Money]
    \cup [op : {"mul"}, a : Money, n : Minors]
    \cup [op : {"parse"}, text : Texts, decimals : Decimals]
    \cup [op : {"parseKopecks"}, text : Texts]
    \cup [op : {"string"}, kopecks : Minors]
    \cup [op : {"log"}, type : Logged, n : Lengths]
    \cup [op : {"decode"}, type : DOMAIN Types, known : BOOLEAN, given : BOOLEAN]
    \cup [op : {"lru"}]

Built ==
    CASE in.package = "monobank"    -> New(in.opts)
      [] in.package = "personal"    -> personalNew(in.opts)
      [] in.package = "business"    -> businessNew(in.opts)
      [] in.package = "acquiring"   -> acquiringNew(in.opts)
      [] in.package = "openbanking" -> openbankingNew(in.opts)

Init == in \in Inputs /\ out = Nil /\ D!Init

Evaluate ==
    /\ out = Nil
    /\ \/ in.op = "backoff" /\ out' = backoff(in.base, in.ceiling, in.attempt)
       \/ in.op = "header" /\ out' = parseRetryAfter(in.h, in.x)
       \/ in.op = "new" /\ out' = Built
       \/ in.op = "add" /\ out' = M!Add(in.a, in.b)
       \/ in.op = "sub" /\ out' = M!Sub(in.a, in.b)
       \/ in.op = "mul" /\ out' = M!Mul(in.a, in.n)
       \/ in.op = "parse" /\ out' = M!ParseMajor(in.text, in.decimals)
       \/ in.op = "parseKopecks" /\ out' = M!parseDecimalKopecks(in.text)
       \/ in.op = "string" /\ out' = M!String(in.kopecks)
       \/ in.op = "log" /\ out' = {<<s[1], Mask(s[2], s[3], in.n)>> : s \in Shown[in.type]}
       \/ in.op = "decode" /\ out' = Attached(in.type, in.known, in.given)
    /\ UNCHANGED <<in, order, added, others>>

UseDeduper == in.op = "lru" /\ D!Next /\ UNCHANGED <<in, out>>

Next == Evaluate \/ UseDeduper

Spec == Init /\ [][Next]_vars

Of(op) == in.op = op /\ out # Nil

-----------------------------------------------------------------------------
(* Retry policy                                                            *)

\* The exponential growth the code approximates, in unbounded integers.  A
\* value that does not fit, or a shift by maxShift or more, counts as infinite:
\* it is the ceiling, and without a ceiling it falls back to base.
Exponential ==
    LET d == in.base * 2^in.attempt
        fits == d <= MaxInt /\ in.attempt < W - 1
    IN  IF in.ceiling > 0 THEN IF fits THEN Min2(d, in.ceiling) ELSE in.ceiling
        ELSE IF fits THEN d ELSE in.base

\* backoff (its comment "exponential growth with EQUAL jitter ... clamped at
\* ceiling", retry.go:91): no delay is negative, below half of the exponential
\* value or above it, except for the floor; the int64 shift never distorts it.
\* WithRetry's comment (options.go:234) calls the same delays "full jitter", which
\* would start at zero: what is checked is backoff's own, not that one.
EqualJitter ==
    (Of("backoff") /\ in.base > 0) => \A d \in out :
        /\ Exponential \div 2 <= d
        /\ d <= Max2(Exponential, minBackoffFloor)

\* parseRetryAfter keeps a positive hint positive and capped, however large the
\* number of seconds: it never wraps into noRetryAfter or into "retry now".
HintSurvives ==
    Of("header") =>
        LET effective == IF in.h.kind = "absent" THEN in.x ELSE in.h IN
        /\ out \in {noRetryAfter} \cup 0..maxRetryAfter
        /\ (effective.kind = "int" /\ effective.n > 0) =>
              out = Min2(effective.n * Second, maxRetryAfter)

-----------------------------------------------------------------------------
(* Options                                                                 *)

\* The positions of the options called name that have an argument, and the last
\* such argument.
At(name) == {i \in DOMAIN in.opts : in.opts[i].opt = name /\ in.opts[i].v # Nil}
Given(name, default) == IF At(name) = {} THEN default ELSE in.opts[Max(At(name))].v

\* However New, WithRetry and the packages combine the delays, a client that
\* retries after a failure without Retry-After always pauses: at least the floor,
\* unless the caller's own maxDelay is below it.
NoInstantRetry ==
    (Of("new") /\ out.retry.maxAttempts > 1) =>
        \A attempt \in 0..(out.retry.maxAttempts - 2) :
            \A d \in delays(out.retry.baseDelay, out.retry.maxDelay, attempt, noRetryAfter) :
                d >= Min2(minBackoffFloor, out.retry.maxDelay) /\ d > 0

\* WithBaseURL's comment: the token never travels to a plain http host that is no
\* loopback unless WithInsecureBaseURL(true) was given, wherever it stands; a
\* refused or broken URL makes Do fail instead of going to another host.
BaseURLGuard ==
    Of("new") =>
        LET urls == {in.opts[i].v : i \in At("WithBaseURL")}
            flags == {in.opts[i].v : i \in At("WithInsecureBaseURL")}
            wanted == Given("WithBaseURL", out.baseURL)
        IN  /\ isInsecureBaseURL(out.baseURL) => TRUE \in flags
            /\ out.optErr = "none" => out.baseURL = wanted
            /\ Cardinality(At("WithInsecureBaseURL")) <= 1 =>
                  (out.optErr = "none" <=>
                      \A u \in urls : u.parses /\ (isInsecureBaseURL(u) => TRUE \in flags))

\* Of the authorization, the HTTP client and its transport, the rate limiter and
\* WithUnsafeRetries the last non-nil one counts, the packages' own included;
\* WithRoundTripper changes the transport only, and keeps the *http.Client that
\* was configured before it.
AsConfigured ==
    Of("new") =>
        LET own == CASE in.package = "monobank"    -> "Public"
                     [] in.package = "personal"    -> "Personal"
                     [] in.package = "openbanking" -> "RequestIDAuth"
                     [] OTHER                      -> "TokenAuth"
            bases == At("WithHTTPClient") \cup At("WithHTTPDoer")
            wrapped == \E i \in At("WithRoundTripper") : \A j \in bases : j < i
            base == IF bases = {} THEN "default" ELSE in.opts[Max(bases)].v
            doer == bases # {} /\ in.opts[Max(bases)].opt = "WithHTTPDoer"
        IN  /\ out.auth = Given("WithAuth", own)
            /\ out.http.transport = IF wrapped THEN Given("WithRoundTripper", Nil) ELSE base
            /\ out.http.of = IF wrapped /\ doer THEN "new" ELSE base
            /\ out.limiter = Given("WithRateLimiter", Nil)
            /\ out.unsafeRetries = Given("WithUnsafeRetries", FALSE)

-----------------------------------------------------------------------------
(* Money                                                                   *)

\* The exact sum, difference or product.
Exact ==
    CASE in.op = "add" -> in.a.minor + in.b.minor
      [] in.op = "sub" -> in.a.minor - in.b.minor
      [] in.op = "mul" -> in.a.minor * in.n

\* ErrOverflow's comment: Add, Sub and Mul return the exact result, or an error
\* exactly when it does not fit or the currencies differ; nothing wraps.
ExactOrOverflow ==
    (in.op \in {"add", "sub", "mul"} /\ out # Nil) =>
        LET same == in.op = "mul" \/ in.a.code = in.b.code
        IN  out = IF same /\ Fits(Exact) THEN M!Ok(Exact) ELSE M!Err

\* The value a text spells in units of 10^-places, rounded half away from zero.
Value(t, places) ==
    LET n == M!Number(t.int \o t.frac)
        k == Len(t.frac)
        abs == IF k <= places THEN n * M!TenTo(places - k)
               ELSE (n + 5 * M!TenTo(k - places - 1)) \div M!TenTo(k - places)
    IN  IF t.sign = "-" THEN -abs ELSE abs

Spelled(t) == M!Valid(t.int) /\ M!Valid(t.frac) /\ t.int \o t.frac # <<>>

\* "Decoding is exact": a decimal text that fits is read without losing or
\* shifting a kopeck, by ParseMajor (which refuses what it would have to round)
\* and by parseDecimalKopecks, and String writes what reads back as the same
\* amount.  Only the least amount may be refused although it fits.
ParseExact ==
    /\ Of("parse") =>
          LET fine == Spelled(in.text) /\ Len(in.text.frac) <= in.decimals
              value == Value(in.text, in.decimals)
          IN  /\ ~fine => ~out.ok
              /\ fine /\ Fits(value) => out = M!Ok(value) \/ (value = MinInt /\ ~out.ok)
    /\ (Of("parseKopecks") /\ Spelled(in.text) /\ Fits(Value(in.text, 2))) =>
          out = M!Ok(Value(in.text, 2))
    /\ (Of("string") /\ in.kopecks # MinInt) =>
          /\ out.kop \in 0..99 /\ out.hr >= 0
          /\ in.kopecks = IF out.neg THEN -(100 * out.hr + out.kop) ELSE 100 * out.hr + out.kop

-----------------------------------------------------------------------------
(* Data types                                                              *)

\* How much of a secret a reader of the log may see.
Allowed(kind, n) ==
    CASE kind = "name" /\ n > 1 -> {1}
      [] kind = "iban" /\ n > 6 -> 1..2 \cup (n - 3)..n
      [] kind = "card" /\ n > 4 -> (n - 3)..n
      [] OTHER                  -> {}

\* Handing a value of any of these types to slog, a slice or a response with
\* records in it included, shows no more of a name, an account, a card or a tax
\* number than its mask allows, at any length and at any depth of nesting.  Of
\* the links only those of an authorisation, which a stranger could follow, count
\* as secret; the ones of consents, payments and reports do not.
Redacted == Of("log") => \A s \in out : s[2] \subseteq Allowed(s[1], in.n)

\* After json.Unmarshal no amount inside a response, in nested records and slices
\* too, has the currency of any record but the innermost one around it that has a
\* field for it, and each has that one if it is there and currency.Parse knows it.
\* Where the record's is missing (QRDetails, CancelOp) the amount has none at all:
\* a cancellation does not "also pick up" the response's (acquiring/types.go:350).
\* The property says nothing of an amount whose currency is not in the body:
\* bank.Transaction.Amount, of the account (bank/data.go:459), gets the operation's.
CurrencyAttached ==
    Of("decode") =>
        /\ \A p \in MoneyPaths[in.type] : out[p] \subseteq Denominator[in.type][p]
        /\ (in.known /\ in.given) => out = Denominator[in.type]

-----------------------------------------------------------------------------

\* What the webhook handlers rely on: an id that was added is remembered until
\* at least capacity other ids were used after it.
RecentRemembered == D!RecentRemembered
=============================================================================
