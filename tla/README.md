# A TLA+ model of go-monobank-sdk

Modules, TLC configurations and TLAPS proofs for the parts of the SDK in which
order, concurrency, failure or arithmetic decide whether it is correct: the rate
limiters, the retry policy, `Client.Do` with every endpoint method that goes
through it, client construction, the two webhook handlers with their
deduplication, the iterators, invoice polling and its tracing, money, the
decoding of amounts and the redaction of logs. Every definition that models code
is listed under `map` in `PROJECT.json` with the lines it stands for; small ones
whose lines lie inside another entry are left to their comment.

## 1. Inventory

| Component | State | Operations | What is hard |
|---|---|---|---|
| `Limiter` (`ratelimit.go`) | tokens, last, every, burst | `NewLimiter`, `Wait` | goroutines refill, take and sleep in any order; a timer computed under the lock is used after it; starvation |
| `KeyedLimiter` (`ratelimit.go`) | map of key to bucket and last access, ticker, stop channel | `Wait`, `WaitKey`, sweeper, `Stop` | with a short TTL a bucket is evicted while callers wait on it; ticks are dropped or stale |
| Retry policy (`retry.go`) | none | `backoff`, `parseRetryAfter`, `run` | int64 overflow, floors and ceilings, which delay wins |
| HTTP core (`client.go`) | one request per call: body, attempt, tokens, context | `Do`, `attempt`, `shouldRetry` | the bank may have performed what looks failed; body replay; cancellation in every wait |
| Webhook handler (`webhook/`) | cached key, lastRefreshAt, singleflight, deduper | `ServeHTTP`, `refreshCoalesced` | concurrent requests during a key rotation; redelivery, lost answers, crashes |
| Acquiring webhook handler (`acquiring/`) | the same | `ServeHTTP`, `verify`, `DedupKey`, freshness | a bad signature triggers the refresh; the dedup key decides what is "the same" |
| Dedupers (`*/dedup.go`) | LRU list of ids | `Has`, `Add` | eviction at capacity; the empty id |
| Statement ranges (`bank/statement.go`, `personal`, `corporate`) | cursor, window, boundary second, seen ids | `DrainWindow`, `TransactionsRange`, `TransactionsRangeIter` | capped pages without a cursor; rows that share a second; inclusive bounds |
| Business iterators (`business/iter.go`) | cursor, boundary second, seen ids; an offset | `StatementAll`, `ContactsAll`, `SearchContactsAll` | the bound moves past a second that is not finished; pages shorter than asked for |
| Subscription iterators (`acquiring/subscription.go`) | page number | `SubscriptionListAll`, `SubscriptionPaymentsAll` | a total that is stale |
| Invoice polling (`acquiring/reconcile.go`) | the deadline, the timer, the last status | `PollInvoice` | timer, deadline and cancellation race; the client retries beneath it |
| Span store (`otelmonobank/`) | map of requests to spans and their order | request and response hook | a transport error does not say which request it belongs to, and a response may carry another request |
| Options (`options.go`) | the `Client` under construction | `New`, 13 options, `SetBaseURL` | order, two passes, the guard against plain http |
| Endpoint methods (seven packages) | none | 107 methods, one request each | which of them may be repeated, and who says so |
| Authentication (`auth/`) | key | `SetAuth` | one signature serves all attempts |
| Money (`money/`, `installment/money.go`) | none | add, subtract, multiply, parse, print | int64 overflow, rounding, signs |
| Data types (`bank`, `business`, `openbanking`, `acquiring`) | none | `UnmarshalJSON`, `LogValue` | nesting: an amount without its currency, a secret without its mask |
| Jar, test helpers, lookup tables, examples | none | | see section 7 |

How they interact. Every endpoint method builds a request and calls `Client.Do`.
`Do` signs it once, then runs the retry loop; every attempt first waits for the
`RateLimiter` (a `Limiter`, or a `KeyedLimiter` that takes its key from the
context). The iterators and `PollInvoice` call
`Do` once per page or poll; `WithTracer` hooks into every attempt. The webhook handlers
are HTTP servers called by the bank; they call `Do` through `KeyProvider` to
fetch the bank's public key, and the user's `OnEvent` between `Deduper.Has` and
`Deduper.Add`.

What makes each part correct, informally: a limiter never lets more through than
`every`/`burst` allow and never leaves a caller asleep for good; a retry never
repeats an operation that must not be repeated, never comes at once, and a call
returns success only for something that happened; a handler acknowledges only
what was processed, processes once what it can, follows key rotations promptly
and does not hammer the key endpoint; an iterator yields every row once and
ends; a poll reports what the bank said and stops in time; a client is what its
options say, in any order, and does not talk to a plain http host unasked; an
amount is exact or an error, and has its currency; a log shows no secret.

The list of hazards, each at its line and with the properties aimed at it, is in
`PROJECT.json`.

## 2. Modules

| Module | Models | Remarks |
|---|---|---|
| `TokenBucket` | the arithmetic inside `Limiter.Wait` | tokens are counted in units of time: one token is `every` units, so that the float64 of the code becomes an exact integer |
| `Limiter` | `Limiter` shared by goroutines | the critical section is one step, the `select` a state |
| `LimiterProofs` | theorems about `Limiter` | |
| `KeyedLimiter` | map, sweeper, ticker and callers | buckets are objects on a heap, so a caller can hold one that left the map |
| `KeyedLimiterProofs` | theorems about `KeyedLimiter` | |
| `Int64` | integers of `W` value bits that wrap | |
| `RetryPolicy` | `backoff`, `parseRetryAfter`, the delay of `run` | extends `Int64` |
| `RetryPolicyProofs` | lemmas about `Int64` and `RetryPolicy` | powers of two, wrapping, `backoff`, the delay of `run` |
| `Catalogue` | the endpoint methods: HTTP method, key, body, statuses, checks | a set per source file |
| `ClientDo` | `Client.Do`, `attempt`, `run` over an unreliable network | extends `RetryPolicy`, `Catalogue` |
| `Promise` | what a call promises, without attempts, timers or messages | abstract; `ClientDo` implements it |
| `ClientDoProofs` | theorems about `ClientDo`, the refinement of `Promise` | extends `RetryPolicyProofs` |
| `Options` | the options, `New`, the `New` of the packages | an option is a record; `New` applies the list twice |
| `Money` | `money.Money` and `installment.Money` | a text is its sign and its digits |
| `DataTypes` | which parts, secrets and amounts a type has | one record per Go type |
| `Redaction` | masks, every `LogValue`, what `slog` does without one | extends `DataTypes` |
| `LRU` | the list inside both `MemoryDeduper`s | |
| `MemoryDeduper` | the deduper on its own | |
| `WebhookBase` | refresh, dedup and the environment both handlers share | the two `refreshCoalesced` are the same code |
| `WebhookHandler` | `webhook.Handler` | extends `WebhookBase` |
| `AcquiringHandler` | `acquiring.WebhookHandler` | extends `WebhookBase` |
| `WebhookProofs` | lemmas about `LRU` and `WebhookBase` (the refresh, the age of a key, what passed the signature), theorems about the two handlers | the lemmas hold for any step that both handlers can take; the handlers are instances |
| `Ledger` | the bank's statement endpoint | external |
| `DrainWindow` | `bank.DrainWindow` inside the range functions | extends `Ledger` |
| `Iterators` | all iterators of the SDK | extends `DrainWindow` |
| `IteratorsProofs` | theorems about `Iterators` | |
| `SpanStore` | the store of `otelmonobank` | |
| `PollInvoice` | `PollInvoice` over a traced client | extends `SpanStore` |
| `PollInvoiceProofs` | theorems about `PollInvoice` and the span store | |
| `MCAlgorithms` | the functions above on every input of a small range | evaluates `RetryPolicy`, `Options`, `Money`, `DataTypes`, `Redaction`, `MemoryDeduper` |
| `AlgorithmsProofs` | theorems about retry delays, options, money and the LRU set of `MCAlgorithms` | extends `RetryPolicyProofs` |
| `MC*` | instances for TLC | symmetry sets, event records, bounds |

Where steps end. A step is what the code does between two points at which
another goroutine, the network or the clock can come in: a lock that is
released, a call that leaves the process, a channel operation, a sleep. For
example `Wait` is `Enter`, `Acquire` (lock to unlock), `Wake` or `Abandon`;
`refreshCoalesced` is the outer check, joining the singleflight group, the inner
check, the answer, storing the key, stamping the time; the delivery of an event
is `Has`, `OnEvent`, `Add` and the answer.

Definitions whose comment starts with "Seeded fault" are not part of the models.
Each is a plausible bug in the definition that follows; `PROJECT.json` names,
for every property of every passing run, a fault that makes TLC report it.

## 3. What the runs check

Run one with `tlc -workers 2 -config X.cfg M`.

**limiter** (`Limiter`, `Limiter.cfg`). Two callers with two calls each, a
limiter that is off (`every = 0`) and one with `every = 2` and bursts of at
least one, goroutines up to one unit late, cancellation at any time.
`RateBound`: over any window at most `burst` plus one per elapsed `every` calls
return nil. `Allowance` is its inductive form. `NoOversleep`: no timer is set
past the moment at which the bucket holds a whole token. `WaitReturns`: every
call returns although nothing orders the sleepers.
The history variables `mark` and `granted` observe one window that may be opened
again at any time, which covers all of them.

**keyed** (`MCKeyedLimiter`, `KeyedLimiter.cfg`). Two callers, the default key
and another; buckets are evicted and made again. `PerKeyRate` is about how long
the TTL has to be: long enough for everybody who waits on a bucket to get a token
and for the bucket to fill again, which is a full bucket (with the burst
`NewLimiter` corrects a value below one to), `every` for each waiter, and whatever
the goroutines are late. Then no bucket is evicted under a caller that waits on
it, and `RateBound` holds for a key across all its buckets. With a shorter TTL
neither is true, and the code does not check it: waiting on a bucket is no access,
`evictIdle` removes it under its waiters (`ratelimit.go:211`) and the next call
gets a full one beside it. With `every` 2, a burst of 1, a TTL of 2 and three
callers one key is granted at 0, 2, 3 and 4. The doc comment neither promises the
rate nor states the condition, so this is not kept as a violated run. `IdleBound`: while the
sweeper runs, no key stays in the map without an access for longer than the TTL,
one interval and twice what the sweeper may be late: once for the sweep that just
missed the key, during which a tick can be dropped, and once for the next.

**algorithms** (`MCAlgorithms`, `MCAlgorithms.cfg`). The parts that are functions
of their arguments, each on every input of sets that straddle its limits and
against a reference definition over unbounded integers or plain sets. Integers
have nine value bits; the seconds of a Retry-After, the floor and the ceilings
are scaled with them, so every product and shift of the code can overflow.

* Retry: the delay lies between half and the whole of the exponential value
  (`EqualJitter`; `options.go:234` says "full jitter", `retry.go:121` and the code
  do equal jitter); a positive Retry-After stays positive and capped
  (`HintSurvives`).
* Construction, for every list of up to three options and each package's `New`:
  a client that retries always pauses (`NoInstantRetry`: `WithRetry` must fill
  in what it was not given); the base URL is https or a loopback unless allowed,
  wherever the permission stands, and a refused URL is an error, not another
  host (`BaseURLGuard`); of every setting the last one counts and
  `WithRoundTripper` keeps the client it found (`AsConfigured`). The order does
  matter in one case, when `WithInsecureBaseURL` is given twice with different
  values; the property leaves it out.
* Money: `Add`, `Sub` and `Mul` are exact or an error, exactly when they must be
  (`ExactOrOverflow`). A text that spells an amount that fits is read exactly
  (`ParseExact`), with one exception: `ParseMajor` refuses the least amount when
  the digits before the point alone reach 2^63, because its overflow test looks at
  the sum before the sign. With nine bits that is the text "-512", which the digits
  of the run can spell. About texts that do not fit nothing is claimed: the shift into
  minor units in `ParseMajor` wraps without a test. Neither is it about texts
  that spell no number: `parseDecimalKopecks` accepts a minus inside the fraction
  ("1.-5") and ignores what follows its third digit.
* Data: whatever type is handed to `slog`, a slice or a nested record included,
  no more of a secret is shown than its mask allows, at any length (`Redacted`);
  links count as secret only where they authorise somebody.
  `openbanking.AuthorisationLinks`, which has no `LogValue`, is covered as part
  of its response only.
  An amount of a decoded response has the currency of the innermost record around
  it that has a field for one, never that of another record, and does have it
  when the field is there and known (`CurrencyAttached`). Where the field is
  missing the amount stays without: so a cancellation (`CancelOp`) does not fall
  back on the response's currency, as `acquiring/types.go:350` would have it. And
  the rule itself is not always right: `bank.Transaction.Amount` is "in the account
  currency" (`bank/data.go:459`), which the body does not contain, and gets the
  operation's.
* The LRU set under every sequence of calls: an id is remembered until as many
  others as fit have been used after it (`RecentRemembered`).

**client_do** (`MCClientDo`, `ClientDo.cfg`). One call of every method of
`Catalogue`, through every client, also with a user's own requests, and two
concurrent calls of one keyed operation. The bank may perform a request before
or after its answer, or behind a 5xx, a transport error or a cancellation.
`KeepsPromise` is the refinement: `ClientDo` implements `Promise`, in which a
call is refused without effect or is live, an operation is performed again only
where it may be (a GET, PUT or DELETE, or `WithUnsafeRetries`), and a call
succeeds only when its operation has been performed. The mapping keeps the
operation of each call, folds `pc` and `result` into a phase and takes the
bank's count as the effects; attempts, bodies, tokens, sleeps and messages
disappear. `AddsOnce`: no method that moves money or creates something (the set
`Adds`, an assumption about the bank) is performed twice by one call.
`TokenPerAttempt`: retries pay for their tokens. `BodyIntact`: every attempt
carries the whole body. `HintOrCeiling`: a retry never comes before the server's
hint or `maxDelay`, whichever is less. (A Retry-After above `maxDelay` is
therefore cut, `retry.go:71`, although the comment at `options.go:234` says it is
honoured when present.) `SignatureAge`: the sleeps a signature lives through
never add up to more than `maxDelay` times the retries; without a ceiling
nothing bounds them, and waits for the limiter or for an answer are not counted. `CanceledReturns`: a canceled call returns wherever it
waits.

**webhook_keys** (`MCWebhookHandler`, `WebhookHandler_keys.cfg`). Two goroutines,
an event delivered twice, a stray request of each form, a key rotation, a fetch
that fails. `KeyNeverGoesBack`: no interleaving restores an old key.
`PausedAfterSuccess`: the endpoint is left alone for `minRefreshInterval` after a
success, waves that passed the outer check included. `OutageBounded`: after a
rotation a genuine delivery that comes later than the throttle plus one fetch is
refused only if the very fetch it led or waited for failed; a failure before it,
or of a call it took no part in, is no reason. `Answered`: as long as every call
of the key endpoint ends, nobody is left waiting for one that somebody else leads.

**webhook_delivery** (`MCWebhookHandler`, `WebhookHandler_delivery.cfg`). Four
events (one without an id, one that does not parse), two deliveries each, lost
answers, failing callbacks, a restart with a durable deduper.
`AckedWasProcessed`: no 200 for an event that `OnEvent` has not processed.
`OnceIfSequential`: processed at most once if deliveries do not overlap and no
crash falls between `OnEvent` and `Add`.

**acquiring** (`MCAcquiringHandler`, `AcquiringHandler.cfg`). Two dated states of
one invoice, a state of another without a date, and a body that does not parse,
with and without `MaxAge`, a deduper with room for one key, a fetch that fails.
The constraint `Focus` bounds the environment: it is busy with keys or with
redelivery and a restart, not with both. `RefusedForReason`: a genuine delivery
is refused only inside the throttle window of a rotation, because the fetch it led
or waited for failed, or for its age or missing date.
`AckedStateProcessed`: a dated state is never acknowledged on account of another.

**statements** (`Iterators`, `Iterators.cfg`). Every ledger of up to seven rows
over four seconds, every range, pages of three rows, windows of three seconds
(both ends are included), a row booked meanwhile, a consumer that stops, a fetch
that fails; and every list of up to seven entries, read by offset (short pages,
a stale `hasMore`) or by page number (a stale total). `YieldedOnce`: no row twice
within an iteration, across windows, boundary seconds and pages.
`RangeComplete`: nothing of a range is missing at the end unless a second holds a
whole page. `ListComplete`: a list is yielded completely and in order. `Ends`:
every loop ends, on crowded seconds too.

**polling** (`MCPollInvoice`, `PollInvoice.cfg`). A poller with a deadline and an
interval below the floor, and one with the defaults that may be canceled, on one
invoice and one traced client that retries. `ResultIsReal`: a state returned with
nil is one the bank has reached and the caller waits for; a timeout is reported
only after the deadline and never in place of a final state. `PollSpacing`: polls
are a floor apart whatever wins the select. `PollEnds`: a poll with a deadline
ends although the bank may never answer. `SpansSound`: the store's list and map
agree, so the fallback for transport errors never takes a missing span; and every
span ends with the outcome of its own attempt, and the store holds the spans of
the attempts in flight only, but for two exceptions the property names.
(1) `guessed`: the fallback takes the most recent span, so an attempt that
overlapped another may end that one's; `otel.go:103` calls it "correct" with one
goroutine in mind. Overlapping calls that get responses stay apart. (2) `missed`:
the hook looks a response up by `resp.Request`, and that is the client's own
request only if the `Doer` leaves it so. `net/http` sends a copy when the
`http.Client` has a `Timeout`, and after a redirect the response carries the last
hop. The span is then neither ended nor removed until the same request is
retried, also when calls are sequential, although `otel.go:67-70` says that the
map never grows unbounded. In the run a response carries its own or another
request; one without (`"nil"`) takes the path of a transport error, and the proof
covers it.

Three runs show where a comment of the repository says more than the code does:

* **acquiring_overlap**: a redelivery that arrives while `OnEvent` runs passes
  `Has` and runs `OnEvent` again; `acquiring/dedup.go:36` says such deliveries
  "should run OnEvent once".
* **statements_crowded**: a second with exactly `StatementMaxRows` rows ends the
  drain of its window, and older rows, in seconds that are not crowded, are
  missing without an error; `bank/statement.go:42` says that only *more than*
  `StatementMaxRows` rows in one second are out of reach.
* **business_operations**: `StatementAll` moves its bound to one second before
  the oldest row of a page. What that second holds beyond the page is lost, and
  when the bound reaches `from` so are the rows at `from`; `business/iter.go:47`
  promises the operations "within [from, to]".

More, met while modelling and not kept as runs of their own; the first four are
findings of the passing runs whose properties describe what the code does:

* "full jitter" at `options.go:234` is equal jitter (`EqualJitter`);
* a cancellation without `ccy` has no currency (`CurrencyAttached`,
  `acquiring/types.go:350`);
* the amount of a transaction gets the operation's currency (`CurrencyAttached`,
  `bank/data.go:459`);
* spans leak when a response carries another request (`SpansSound`,
  `otelmonobank/otel.go:96`);
* `lastRefreshAt` is stamped only on success, so after a failed fetch the next
  mismatching webhook calls the key endpoint again at once (`webhook/handler.go:23`
  calls the interval "the minimum pause between calls");
* `PollInvoice` returns the bare `context.DeadlineExceeded` when the deadline passes
  during a request or the client's own sleep, where `acquiring/reconcile.go:61`
  promises `ErrPollTimeout`.

### Bounds, and why they are enough

All bounds are constants with a comment. Times are small integers in an
arbitrary unit; what matters is their order relative to each other (throttle
against retry gap, TTL against burst, due time against clock), and the chosen
values let each inequality go both ways. Two goroutines suffice for the races
modelled: a leader and a follower, a delivery and its redelivery, a sleeper and
a newcomer; goroutines are interchangeable and the shared state keeps no
identities. Pages of two or three rows, capacities of one to three and six or nine
value bits put every limit within reach. Requests that `Do` cannot tell apart are
one request: the methods of the catalogue fall into a dozen profiles (HTTP
method, key, body, decoding, refusal), and all of them occur. Three options are
enough for a setting, one that overrides it and one that permits it; two objects
stand for all clients, doers, hooks and limiters a caller may pass. Texts have up
to three digits before and two after the point, or one and three.
`CHECK_DEADLOCK FALSE` is used where the bounded environment runs out of things
to do and the program rightly stops. The type invariants of `Limiter`,
`KeyedLimiter`, `ClientDo`, `WebhookBase` and `PollInvoice` are theorems; `Limiter`'s is also part
of its run, the others hold on the same instances.

### Fairness

* Limiter: the clock advances, a goroutine in `Wait` is scheduled, due timers and
  closed channels are delivered. Nothing is assumed about who wins a race.
* ClientDo: the goroutine is scheduled and a canceled context ends the transport's
  wait and the limiter's. Nothing makes the bank answer or the limiter grant: the
  default `http.Client` has no timeout.
* WebhookHandler: goroutines run, `OnEvent` returns and answers leave. Nothing makes
  a fetch of the key end: the default `http.Client` has no timeout, and those who
  joined a singleflight call do not watch their own contexts, so a fetch that hangs
  hangs them all. That fetches end is therefore a hypothesis inside `Answered`, not
  fairness. Deliveries are not assumed.
* Iterators: the consumer keeps asking and the bank answers.
* PollInvoice: the clock advances, the goroutine runs, and a context that is done
  ends the transport's wait and both selects. Nothing makes the bank answer.

## 4. What is proved

The theorems hold for every value of the constants: any sets of callers, calls,
requests, events, pollers and options, any width of the integers, any times and
any bounds on the environment. What they assume is the ASSUME of each module,
which TLC evaluates on the runs; the assumptions that are more than types are
named below.

### Limiter (`LimiterProofs`)

`TypeCorrect`, `AllowanceHolds`, `RateBoundHolds`, `NoOversleepHolds`, from
`LimiterAssumption` (numbers), also for the bursts `NewLimiter` corrects.

`RateBound` alone is not inductive: a state in which the window's allowance is
used up and the bucket is full satisfies it and the next grant breaks it.
`Allowance` adds what the bucket could hand out now, credited up to the clock and
clamped: every grant moves a token from one summand to the other, a tick raises
the left side by at most what it raises the right, the clamp only lowers it, and
opening a window starts with at most a full bucket. `TypeOK` supplies
`last <= now` and `tokens <= burst * every`. The lemmas say what `Refill`, `Take`
and `NewLimiter` preserve. `NoOversleep` follows from `Refill` and `Take` never
moving the moment of the next whole token past what a sleeper computed.

### Keyed limiter (`KeyedLimiterProofs`)

* `KeyedTypeCorrect`: types, and that buckets differ in nothing but their tokens
  and times, those that callers hold after an eviction included. There must be a
  bucket for every key and every caller, so that a new one can always be made.
* `PerKeyRateHolds`: the TTL of `PerKeyRate` (`Long`) is long enough. `Metered` is
  `Allowance` for one key, where a bucket yet to be made counts as full. It
  survives an eviction only if the bucket that goes is full and nobody waits on it
  (`Attached`, the first conclusion of `PerKeyRate`). Both follow from `Timely`: a
  bucket's debt ends, and its waiters come back, at most one turn per waiter after
  it was last asked for. Turns are counted in `Spare`: who joins the wait takes
  one, who is served gives it back.
  `Waiting` supplies that no two keys share a bucket and that a sleeper is due
  within one period.
* `IdleBoundHolds` from `Ticking`: the ticker is on time, a tick waits no longer
  than the lateness, and what a sweep leaves was asked for within the TTL before
  the tick it acts on. The first version of `IdleBound` allowed the lateness once
  and was not provable: while a late sweep is pending the next tick is dropped.

### Retry delays and money (`RetryPolicyProofs`, `AlgorithmsProofs`)

`EqualJitterHolds`, `HintSurvivesHolds`, `ExactOrOverflowHolds`: the reference
definitions over unbounded integers are met for every width `W`, every base,
ceiling, attempt, header and amount.

The provers know no law of `2^n`, so
`PowerDoubles` (`2^(n+1) = 2 * 2^n`) counts the subsets of `1..n` instead: the
library states the cardinality of a power set, and the subsets of `1..n+1` are
those of `1..n` with and without `n+1`. From it `Wrap` is exact inside the range
(`WrapExact`) and off by `2^(W+1)` just outside (`WrapOver`), the shift in
`backoff` tests its own overflow correctly (`ShiftTest`, `GrowthExact`), and the
jittered delay lies between half and the whole (`BackoffJitters`, `DelayBounds`).
For money: a wrapped sum has the wrong sign exactly when it does not fit
(`AddExact`, `SubExact`), and dividing a wrapped product by a factor gives back the
other factor only if nothing was lost (`MulTest`, with Go's division that rounds
toward zero). The invariant is `Evaluated`: `out` is the function at `in`.

`ParseExactHolds`: for texts of any length, any number of decimals and any width
both parsers are exact and `String` writes what adds up. The theorems of the
library that do induction take an operator the provers cannot instantiate. What
they can use is that every nonempty set of naturals has a least element
(`LeastNumber`, from the well-foundedness of strict inclusion on finite sets);
`UpTo` is induction over `0..n` with a set in place of the operator. With it:
a loop over digits has a state after every pass (`Loop`), which makes the
recursive functions of `Money` what their equations say (`NumberIs`, `TenToIs`,
`ReadIntIs`, `ReadFracIs`); the leading digits of a number bound it (`Leading`,
`Grows`), so no partial result overflows before the whole does; two parts of a
text join as `Joined` says; up to 2^W one wrap commutes with the rest of
`ParseMajor` (`MinorIs`) and is undone by the sign (`Signed64`), which settles the
least amount; and the third digit alone decides the rounding of a fraction of any
length (`LongFraction`). The attempt showed that `ParseExact` was too strong, see
section 3. Assumed: digits are digits, a minus is none, and 100 fits.

### Options (`AlgorithmsProofs`)

`NoInstantRetryHolds`, `BaseURLGuardHolds`, `AsConfiguredHolds`, for option lists
of every length and all arguments. `New` applies the list twice and a package's
`New` puts its own options in front; both are runs from a client to a client
(`AppliedRuns`, `OwnRunsFirst`, `ApplyIs`), and an invariant of a run is kept
option by option: `Configured` (each setting is the last one given, or that of the
client the pass began with; the HTTP client is what the last of three options
left), `Paused` (delays are positive once there are attempts) and, for the second
pass, `Guarded` (no insecure URL without a permit; the last URL or an error; no
error without a reason). The first pass matters for one thing, the permit that
the second finds. Assumed: the default delays are positive, and nil is neither a
boolean nor one of the packages' own authentications.

### The LRU set (`AlgorithmsProofs`)

`RecentRememberedHolds` from `Recency`: the list has every id once, and the ids
used since an id are those that stand before it, so that an id which falls off
the end has seen `capacity` others.

### Client.Do (`ClientDoProofs`)

* `DoTypeCorrect`: `attempt` stays below the attempts of the policy and a sleep is
  never negative, although delays are computed in wrapping integers.
* `TokenPerAttemptHolds` from `TokenInHand`: a call that is ready to send has a
  token more than it has sent requests.
* `BodyIntactHolds` from `Replayable`: after the head of `Do` there is a
  `GetBody` or no body.
* `HintOrCeilingHolds` from the lemmas about `backoff`; `SignatureAgeHolds` from
  `SleptPerAttempt`: every sleep belongs to an attempt and is at most `maxDelay`.
* `AtMostOnceHolds` and `DoKeepsPromise`: `Spec => KeepsPromise`, the refinement of
  `Promise`, step by step. `Promise` allows an effect only while the call is live
  or over, a second effect only for what may be repeated, and success only after
  an effect. That takes: `Returned` (a result exists exactly when the call has
  returned), `CheckedFirst` (a refused call has sent nothing), `Numbered` and
  `Accounted` (a message belongs to an attempt; what was performed was sent; what
  is marked performed was), `OneShot` (what `shouldRetry` refuses is sent once) and
  `Spent` (once the operation of a lone, unrepeatable call has been performed, no
  message can perform it again). `AtMostOnce` follows for lone calls from `Spent`
  and for keyed concurrent calls from the bank's deduplication of keys.
* `AddsOnceHolds`: the methods of `Adds` are POSTs of `Catalogue`, so their
  operations are outside `MayRepeat` and `AtMostOnce` applies.

Assumed beyond types: hints are not negative, and the mark for "no result yet" is
no result.

### The handlers (`WebhookProofs`)

The two handlers share `WebhookBase`, so its invariants are proved once, for
any step of the shared code and of the environment that leaves them their
variables (`LocalStep`, `EnvStep`), and each handler shows that its actions are
such steps.

* `WebhookTypeCorrect`. `KeyNeverGoesBackHolds`, `AcqKeyNeverGoesBack`: `Leading`
  (only the leader of the singleflight call is inside it) makes `Ahead` (a key
  that was fetched is at least the cached one) inductive. `PausedAfterSuccessHolds`:
  `Stamped` (a success is stamped, or its leader is about to stamp it).
* `OutageBoundedHolds`, `RefusedForReasonHolds`: a chain of facts about a cached
  key that is out of date. A fetch takes at most `MaxFetch` (`InTime`), so one
  that returns the old key began before the rotation (`Predates`), the last stamp
  lies within `MaxFetch` of the rotation (`Outdated`), and a genuine request that
  came out of the refresh in vain arrived within the throttle after that
  (`Waited`). `Genuine` ties the signature of a request to the bank's key,
  `Unfailed` says that who takes the error path took part in a failed fetch, `Dated` (acquiring) that
  the date of a delivery in progress is fixed.
* `AckedWasProcessedHolds`, `AckedStateProcessedHolds`: bank, goroutines and
  deduper agree. What is recorded was processed (`Recorded`), and who is about to
  record or to answer 200 has processed the event or found it recorded
  (`Answering`). In the acquiring handler this holds per invoice and date; it
  needs that no invoice id looks like an id with a date (has a `|` in it).
* `OnceIfSequentialHolds`: an event that is not excused is in the hands of one
  goroutine (`Sole`), and what was processed is recorded or about to be (`Once`).
  With room for every event `Add` never evicts (`RoomLeft`, by counting).

Assumed beyond types: `minRefreshInterval` is positive, there are finitely many
events, and the empty id is not an event's.

### Iterators (`IteratorsProofs`)

`YieldedOnceHolds`, `RangeCompleteHolds`, `ListCompleteHolds`, for every ledger,
range, window, page size, list and failure. The invariant has a part per
iterator (`IInv`):

* `Account`: the ledger is sorted with one id per row, and what was yielded is
  rows of it, none twice.
* `RangeYields`: what a range has yielded lies before its window, above the upper
  bound, or at the bound and among the remembered ids, and the remembered ids are
  of that second only. So a page, which holds rows up to the bound, brings
  nothing again but what `Unlisted` filters.
* `RangeCovers`: the converse for the rows of the start, as long as no second
  holds a whole page: a full page whose rows all share the bound's second is the
  one way to leave something behind (`NoProgress`).
* `StatementYields`: the same going back only. `ListYields`: what was yielded is
  the list up to the offset or the page, whatever `hasMore` or the total say.

The lemmas under it say what a page is (`PageIs`, `PageOrder`) and what filtering
a sequence leaves (`FilterExists`, `UnlistedIs`).

### Polling and spans (`PollInvoiceProofs`)

* `PollTypeCorrect`. `PollSpacingHolds` from `Spaced`: the timer a poller waits for
  was set a floor after its last answer.
* `ResultIsRealHolds` from `Seen`: a state that can end a poll, once read, stays
  true or was left by a capture or a reversal, and a state kept as the last
  answer did not end the poll. That the bank leaves final states in no other way
  is `BankAssumption`; without it a returned state could be undone arbitrarily.
* `SpansSoundHolds` from `Stored`: the list and the map of the store hold the same
  requests, once each, through `set`, `pop` and `popAny` (`Ordered`); a span
  belongs to its request (`Numbered`); and as long as `popAny` had no choice
  (`Kept`) the map holds what is in flight and what was missed, every attempt in
  flight has its span there (`Own`), and one that has met no other has the most
  recent (`Alone`), which is why `popAny` takes the right one. `SetIsLast` is what
  the order of the list contributes.

### Only model-checked

* Liveness under fairness: `WaitReturns`, `CanceledReturns`, `Answered`, `Ends`,
  `PollEnds`. The prover does not treat fairness.
* `Redacted`, `CurrencyAttached`: tables of finitely many types, all of which TLC
  looks at. There is no constant to generalise but the length of a value, and the
  lengths of the run lie on both sides of every limit of the masks.

## 5. Abstractions

* float64 token counts are exact integers; rounding of the code's division is not
  modelled.
* Signatures: a message is signed with one key and verifies with that key only.
  JSON: a body parses, has an unknown type, or does not parse. The bank always
  sends `X-Key-Id` with personal webhooks; a request without it is the form
  "plain".
* The first key fetch in `NewHandler` succeeds and is one step; a handler is not
  made otherwise. The 503 for a missing key is unreachable after that.
* `OnEvent` either succeeds or returns an error; a panic looks like an error whose
  answer is lost.
* HTTP answers carry what the code looks at: expected, refused, transient with a
  Retry-After, or a transport error.
* Endpoint methods: what `Do` or its caller can tell of them. A method's own
  checks refuse or do not; the contents of a body are not modelled. The
  installment client is a `Do` with one attempt and no limiter.
* `PollInvoice`'s client makes at most two attempts per call; the length of its
  sleeps is free. Clock ticks are as fine as the shortest interval.
* A secret is its length and the positions that are shown; an amount is the record
  whose currency it has. The conversions between float64 and minor units are left
  out.
* Statement times are whole seconds, as the API sends them. Rows are booked at or
  after the newest one. The guard against time overflow in the range loops is
  unreachable with such times.

## 6. Plan

Done: limiters, retry policy, construction, `Do` and its abstract specification,
the catalogue of endpoints, dedup, both handlers, all iterators, polling and
tracing, money, data types and redaction, and the theorems above: every safety
property of a passing run but `Redacted` and `CurrencyAttached` is a theorem.
Left:

1. Abstract specifications for deliveries (accepted, processed, acknowledged) and
   for rates, implemented by both handlers and both limiters.
2. `ReconcileStatement` as a comparison of two tables, the acquiring life cycle.

## 7. Not modelled

* Request bodies, enumerations and error texts of the endpoint packages: nothing
  decides on them but the bank.
* Floating-point conversions (`FromMajor`, `Scale`, the basket sums):
  rounding of float64 is out of TLC's reach.
* `LogValue` of the installment types and of the clients.
* Cryptography, PEM, JSON and date layouts: the handlers use their verdicts.
* Currency and MCC tables, examples and test helpers: data and presentation. The
  test server's behaviour is part of the models' environment.
* The jar scraper: one public HTTP request.
