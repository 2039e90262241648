# A TLA+ verification of GoGateway

GoGateway is an HTTP API gateway in Go: it matches a request to a route,
authenticates it, applies a rate limit, chooses an upstream endpoint, asks the
circuit breaker of that endpoint, proxies the request, and accounts for it in
Prometheus metrics. This directory models that program in TLA+, checks the models
with TLC on small instances, and proves their safety with TLAPS for every
instance. Line numbers refer to the files of the repository.

## 1. Inventory

| Component | Source | State | Operations |
|---|---|---|---|
| Circuit breaker | `internal/middleware/circuitbreaker.go` | `State`, `FailureCount`, `LastFailure`, `OpenTime`, under one mutex | `Allow`, `RecordFailure`, `RecordSuccess`, `StateSnapshot` |
| Breaker store | same file | map (route, endpoint) → breaker, under a RWMutex | `GetOrCreate` (double check), `Snapshot` |
| Rate limiter | `internal/middleware/ratelimit.go` | optional Redis client; map key → (count, resetAt) under a mutex | `Allow`, `ResolveClientID`, `cleanExpired`, `StartCleanup` |
| Redis client | `internal/store/redis.go` | counters with an expiry, in Redis | `NewRedisClient`, `CheckRateLimit` (one Lua script) |
| Request path | `internal/server/server.go` | per request: status recorder, route, target | `serveRoute`, `authenticate`, `checkRateLimit`, `writeJSON` |
| Authentication | `internal/middleware/jwt.go`, `apikey.go` | none (secret) | `Validate`, `ForwardClaims` |
| Balancers | `internal/balancer/*.go` | round robin: a counter; least connections: counts | `Next`, `Done` |
| Router, proxy rewriting | `internal/router/router.go`, `server.go:428-466` | the route table | `Match`, `dynamicDirector` |
| Registry, configuration | `internal/discovery`, `internal/config` | fixed after start | `GetEndpoints`, `Load`, `validate` |
| API key store | `internal/store/store.go` | map hash → key under a RWMutex | `Lookup`, `Revoke`, `LoadKeyFile` |
| Metrics | `internal/metrics/prometheus.go` | counters, gauges, histogram | `RecordRequest`, `SetBreakerStates`, `RunBreakerStateLoop` |
| Process lifecycle | `cmd/gogateway/main.go`, `server.go:481-514` | `errCh`, `sigCh`, two HTTP servers | `main`, `Start`, `Shutdown` |
| Request ID, health, logger | `requestid.go`, `prometheus.go:354-367`, `logger.go` | none | header, constant answer, output |

**How they interact.** One goroutine per request runs `serveRoute`. The handlers
share the limiter, the balancers, the breaker store and the metrics; each of these
protects itself with a lock, so a single call is atomic, but nothing spans two
calls. In particular a handler calls `Allow` on a breaker, proxies for an unbounded
time, and then records an outcome on a breaker that other handlers have moved
meanwhile. Several gateways may share one Redis. Background goroutines clean the
limiter's map and export breaker states. `main` starts and stops all of this.

**What is hard here.**

- *Late outcomes.* The result of a request admitted by a closed circuit may be
  recorded when the circuit is open or half-open.
- *Three meanings of `FailureCount`*: run of failures, probe failures, and failures
  that arrive on an open circuit.
- *Retries against a shared counter.* go-redis repeats a command whose reply is
  late; the first copy may have been executed, or may be executed later.
- *Losing state.* Redis keeps its counters in memory, and so does every replica.
- *Ways out of a handler.* An early return, an upstream answer, an informational
  response before the answer, a transport error, a client that leaves, a panic.
- *Two looks at one store.* `GetOrCreate` reads under one lock and creates under
  another, `Validate` reads a key's flag after the lock is gone, and the exporter
  reads breakers that move under it.
- *Pages made of several moments.* Handlers write up to five collectors and a scrape
  reads them one by one; only the two orders relate what it finds.
- *Tables keyed by ID*, filled by one rule (the last route wins) and consulted by
  another (the first match wins), with characters deciding the match.
- *Shutting down* with requests and scrapes that never end, while a signal, a
  listener failure and the end of `Start` race for two `select` statements.

`PROJECT.json` lists each of these under `hazards`, at its line, with the
properties that would notice it going wrong.

**What correctness means**, component by component: a breaker opens after exactly
`Threshold` failures in a row, rejects for a full timeout, and closes again once the
upstream is healthy; a window of a counter never permits more than the limit and
never denies early, and every limiter call returns; every request is accounted for
once, on every way out, and no request gets past a denial; endpoints are used
equally; an outcome reaches the breaker that admitted the request; a key has one
breaker, and its gauge follows it; a page of metrics is consistent with itself; a
request goes to the first route that takes it; a revoked key lets nobody in; the
process stops within a bound and never drops a request it could still have waited for.

## 2. Modules

| Module | What it is |
|---|---|
| `Breaker` | One circuit breaker as operators on a record: `AfterAllow`, `AfterFailure`, `AfterSuccess`, `Elapse`. |
| `BreakerContract` | Abstract specification: what a breaker promises (run of failures, cooldown, probes). |
| `CircuitBreaker` | One breaker used by concurrent handlers; extends `Breaker`, refines `BreakerContract`. |
| `CircuitBreakerProofs`, `RateLimiterProofs`, `GatewayProofs`, `BreakerStoreProofs`, `MetricsProofs`, `KeyStoreProofs`, `LifecycleProofs`, `RoutingProofs` | The inductive invariant and the theorems about each module. |
| `FixedWindow` | The in-memory and the Redis counter as operators on one entry. |
| `RateLimiter` | `RateLimiter.Allow` on several replicas with one Redis; extends `FixedWindow`. |
| `Gateway` | `serveRoute` by concurrent handlers; composes `Breaker`, `FixedWindow`, round robin, metrics, authentication, and instantiates `BreakerContract` for every endpoint. |
| `BreakerStore` | `GetOrCreate` and `Snapshot` under the store's RWMutex, and the export loop with its gauges. |
| `Metrics` | Handlers that write the request collectors, and a scrape that reads them. |
| `Routing` | `validate`, `server.New`'s tables, the router, round robin with a counter that wraps, path joining. |
| `KeyStore` | `LoadKeyFile`, `Add`, `Revoke` and `APIKeyAuth.Validate`. |
| `Lifecycle` | `main`, `Start`, `Shutdown`, the metrics server. |
| `MC*` | Constants and symmetry sets for TLC; `RateLimiter` needs none. |

An operator whose comment starts with "Mutant" is not part of a model. It is a
deliberately wrong variant of the definition that follows it, and shows that some
property notices that mistake.

### Breaker and CircuitBreaker

The record `cb` has the fields of the Go struct. `OpenTime` is used only in
`time.Since(OpenTime) >= Timeout`, so the record keeps that age, in ticks, saturated
at `Timeout` (`OpenAge`); of `LastFailure`, whether it is set. Each method runs
under `cb.mu` and is one step. `admitted[r]` says for each handler slot whether it
is idle, or in which state the breaker admitted the request it is working on: the
slot of `Allow` is freed by `RecordFailure`, `RecordSuccess`, or `Abort` (the proxy
panicked and recording was skipped). A slot serves any number of requests.
`HalfOpenMaxReqs` is left out: no Go code reads it.

### FixedWindow and RateLimiter

An entry is a count and the instant after which its window is over. `MemoryCharge`
and `RedisCharge` follow the Go code and the Lua script: "over" is strict in both
(`now.After`, and Redis' expiry rule), `INCR` creates a key without an expiry, and
the script adds one when the count is 1. A call of `Allow` is `waiting` for Redis at
some attempt, then `returned`, or goes to `fallback` and to the memory counter.
`script.Run` sends `EVALSHA` and, when Redis answers that it does not hold the script
(`NoScript`, the call is `refused`), `EVAL` (`Eval`); each is attempted `MaxRetries` + 1
times, and the attempts of both are numbered through up to `LastTry`. Redis may or may
not hold the script at the start, keeps it once an `EVAL` was executed, and loses it
when it restarts, so an `EVALSHA` may be executed with its reply lost, or on the wire
still, when a later attempt of it is refused.
Commands travel in `wire`; a command stays there as long as the network or a slow
Redis likes, and outlives the attempt, the call, and the replica that sent it.
`charges` is a history of every increment with its verdict. A counter that lost its
state gets a new `epoch`: quotas are stated per counter and epoch, because nothing
in the code could make them hold across a restart of Redis or between Redis and the
memory fallback. The `remaining` and `reset` values of a reply only feed headers and
are left out.

### Gateway

`handler[r]` is the local state of one handler: where it stands in `serveRoute`,
the request (its route and the identities its credentials prove), the status the
recorder kept, the status last sent to the client, the rate-limit window and client
it was counted for, its turn at the balancer. A step ends where shared state is
touched: `Arrive` (gauge, route, authentication), `CheckRateLimit`, `Balance`,
`Admit` (`GetOrCreate` and `Allow`), the outcomes of `proxy.ServeHTTP`
(`Informational`, `Answer`, `Abort`, `TransportError`, which is also what becomes of
a request whose client leaves), `Record`, and
`Finish`, the deferred function that also runs when the proxy panics. The limiter is
the in-memory one. `httputil.ReverseProxy` is external and modelled by the calls it
makes on the response writer. A breaker that has not been created reads as a new
one; the store creates exactly that on first use.

`BreakerStore` shows that looking the breaker up and creating it may be taken as one
step, `Routing` that a matched route always has an endpoint, and `Lifecycle` relies
on the timeout that `Routing` shows to be positive.

### BreakerStore

`readers` and `writer` are the store's RWMutex; a writer that waits holds back new
readers, as in Go. A handler goes through `Lookup`, `Found` or `Missed`, `Lock`,
`Create`, twice per request. A breaker is named by its key and its creator, so that
two breakers of one key could be told apart, and has only its `State`;
`MCBreakerStore` checks by an `ASSUME` that the moves allowed here are exactly those
of the operators of `Breaker`. The exporter walks through `BeginSnapshot`,
`ReadBreaker`, `EndSnapshot`, `Reset`, `SetGauge`, `EndExport`. `had` is a history of
the states a breaker was in while an export ran. A tick that fires during an export
is kept by the ticker's channel: `TickerFires` is enabled whenever the loop selects.

### Metrics

A handler's `next` is the collector it updates next, and `HandlerOrder` the order of
`checkRateLimit` and of the deferred function; `ScrapeOrder` is the order of
`ServeHTTP`. Every update and every rendering is one step, as each holds the lock of
its collector. The histogram's sum and the method label are left out. An outcome says
whether it is the limiter that `denied` the request: an upstream's own 429 is counted
under the same label (`server.go:193-198`) with no rejection, so a page may show more
429s of a route than rejections. `shown` is a history of the requests that the
counters on a page count; `DenialsExplained` says that the 429s beyond the rejections
are ones among them that upstreams answered.

### Routing

The start takes a configuration through `Validate` (with the defaults it fills in)
and `New`, either of which may refuse it. Patterns and paths are sequences of
characters, `"%2F"` being one. A request is then one step: the mux (which takes `/health`
and redirects doubled slashes), the first match, the endpoints, `Next`, and the path
that goes upstream. Since Go 1.22 the mux looks for doubled slashes in the path as it is
escaped, and not at all for a `CONNECT` (`Redirected`), while the code sees the path
unescaped (`Parsed`): `/%2Fa` reaches `serveRoute` as `//a`. `turns` counts how often each endpoint was chosen and `wraps` how often
the counter wrapped: the order of endpoints jumps there unless their number divides
`Modulus` (2^64 in the code).

### KeyStore

`keys` maps a key to an object of `objects`, as the Go map holds pointers; objects are
named by numbers, those of the key file by their place in it. `Validate`
is three steps: it takes the header, `Lookup` runs under the read lock, and `Check`
reads the flag with no lock at all, so it finds the flag as it is or, the read being
a race, as it was at `Lookup`. `seen` collects what the store said of the key at
every moment of the call.

### Lifecycle

A request comes on a connection: `Accept` needs an open listener, `Begin` only the
connection, so a request may begin while the others drain. Two requests on one
connection that is kept alive count as two connections. `CloseIdle` is what
`http.Server` does to connections without a request when `Shutdown` returns; that it
closes some of them earlier only takes away requests.
`pc` is main's position. `Select` is the first `select`; then come
`ShutdownMetricsServer`, `Shutdown` (which closes the listener), `Drained` or
`ForceClose` (whose `context.DeadlineExceeded` takes the place of an error of closing the
listener), and `DrainErrors`, the second `select`. The goroutine of `Start`
listens, fails to, fails later, or returns `ErrServerClosed` after `Shutdown`.
Requests and scrapes may hang for ever. `waited` counts ticks in the current
Shutdown call, `elapsed` ticks since `Server.Shutdown` was entered.

## 3. Runs

Passing runs:

| Run | Instance | Shows |
|---|---|---|
| `breaker` | 4 handlers, threshold 2, timeout 2 | `CooldownMeansOpen`, `CountFitsState`, `LateFailuresBounded`; the breaker implements `BreakerContract`; `Recovery` |
| `limiter_retries` | 1 replica, 2 calls, 2 attempts of `EVALSHA` and 2 of `EVAL` each, limit 1, 2 restarts of Redis or the replica, within one window | `WindowQuota`, `DenialJustified`; every call returns (`Decided`) |
| `limiter_replicas` | 2 replicas, 2 calls, limit 1, window 1 and a clock of 3 ticks, 1 restart | `WindowQuota` and `WindowsDisjoint` with one Redis and two memory counters in play; entries are reclaimed (`Reclaimed`) |
| `gateway` | 3 requests with a token, a key, nothing, or no route; 2 endpoints | `Accounted`, `ForwardQuota`, `BalancedTurns`, `BreakersKeepContract` |
| `gateway_liveness` | 2 requests, with and without breakers and limits | `EveryRequestEnds`, if upstreams end every round trip |
| `lifecycle` | 2 requests, 1 scrape, timeout 2 | `GracefulStop`, `StopBounded`, `CleanExit`, `StopsEventually` |
| `breaker_store` | 2 handlers, 1 key, the exporter | `OneBreaker`, `ExportsFresh`; `CallsReturn`, `EventuallyExported`, `ExporterStops` |
| `metrics` | 3 requests, a route and none, 2 durations, 2 buckets, any number of scrapes | `PagesAddUp`, `DenialsExplained`, `HistogramsAgree` |
| `routing` | all pairs of 4 sound routes, and each with 5 faulty ones; 38 requests, up to 9 served; a counter of 2 bits | `AssumptionsHold`, `RoutesTakeTheirRequests`, `TurnsBalanced`, `JoinsLikeHttputil` |
| `key_store` | 2 keys, 2 IDs, 2 calls, 3 objects | `AnswersJustified` |

**Bounds.** `CircuitBreaker` has no artificial bound: the failure count is bounded
by the property itself, and the clock saturates. Four handlers are enough for one
handler each to be a stale success, a stale failure and two competing probes while
a threshold of two distinguishes "the last failure" from "a failure".
The two runs of `RateLimiter` share the work. In `limiter_retries`, `MaxRetries` = 1 lets
either command be executed twice for one call, two faults let Redis lose its counters
and the script twice, or once each with the replica, and two calls against a limit of one
give a permit and a denial; the clock stands still, as one window is what their
properties are about. In `limiter_replicas` the clock gives each counter a full window,
the instant of its end, and the start of the next, with the cleanup in between; a
command is not retried (`MaxRetries` = 0), but an `EVAL` follows a refused `EVALSHA` and a
call may fall back while it is executed. Retries across the end of a window, and more
calls, are covered by the theorems only (`QuotaKept`, `DenialsJustified`, `WindowsApart`).
In `Gateway` three requests with limit, threshold and window of
one meet a denial, an open circuit, a probe and a reopened circuit; the upstream
codes are one success (429, so that an upstream's own 429 is told apart from the
gateway's) and one failure. Two ticks of shutdown timeout distinguish "a whole
timeout" from "some waiting". In `BreakerStore` two handlers and one key are
the race for one breaker, with the exporter as a third party at the lock; slots are
reused for ever, so nothing else is bounded. Two keys, which would only add an order
among gauges, already pass fourteen million states. In `Metrics` three requests let
one be over, one be in the middle of its accounting, and one arrive while a page is
rendered; one duration lies on a bucket's bound and one above all buckets. In
`Routing` a counter of two bits wraps twice within nine requests, and the routes have
one, two and three endpoints, of which three does not divide four; the paths are the
prefix itself, the prefix with a slash, below it, beside it, the root, and paths with
slashes doubled or escaped; the
configurations contain routes that share an ID, overlap, and have every fault
`validate` and `New` look for. In `KeyStore` three objects are a key that is loaded
or added, revoked, and added again under another ID. Deadlock checking is off where the system may stop:
the clock or the calls run out, or the process has exited.

**Fairness.** Weak fairness, except in `BreakerStore`. Handler goroutines are scheduled by the Go
runtime. go-redis bounds each attempt by dial and read timeouts, so a waiting
attempt ends; nothing is assumed of Redis, the network or clients. The cleanup
ticker fires for ever. `breaker` assumes time passes, admitted requests end, and
clients keep coming; `Recovery` has the healthy upstream as its premise: failures
end, and probes do not all break off without an outcome.
`gateway_liveness` assumes that each round trip ends (`UpstreamsAnswer`), which the
code does not guarantee: see the observations below. Of the handlers it assumes only
that, while some handler can step, some handler does.
`BreakerStore` needs strong fairness twice: for `GetOrCreate` and the exporter at the
RWMutex, whose implementation starves neither readers nor writers although the lock
is again and again held by others, and for the exporter's `select`, which chooses at
random between the ticker and the closed channel and so takes the latter at last.
`Lifecycle` assumes scheduling and time, never that a request or scrape ends or that
a signal comes.

Two runs find a disagreement between the code and what is written about it:

| Run | The code | The text |
|---|---|---|
| `gateway_status` | the recorder keeps the first header, also a forwarded 1xx: a final 500 then counts as success | "capture the HTTP status code written by the upstream proxy response" (`server.go:401`) |
| `routing_wildcard` | the prefix is compared without its slash: `/api/*` takes `/apix` | "any path starting with "/api/"" (`router.go:4-5`), "exactly or as a parent directory" (`router.go:60`) |

**Observations.** Further disagreements met while modelling, which are plain from the
source and have no run:

- `half_open_max_requests` (`schema.md:46`), the route's `timeout` and `retry`
  (`schema.md:47-48`) and an upstream's `weight` (`schema.md:30`) are read by no code.
  A half-open circuit therefore admits every request, where
  `circuitbreaker.go:16` says "limited requests allowed" and `roadmap.md:84` "single probe
request", and a silent upstream
  holds its handler for ever, where `risk_log.md:10` and `roadmap.md:87` ("fast-fails
  instead of hanging") count on the timeout: `EveryRequestEnds` needs
  `UpstreamsAnswer`.
- Whichever outcome comes first decides a half-open circuit (`circuitbreaker.go:120`),
  also one of a request admitted before it opened; the comment at
  `circuitbreaker.go:41` speaks of a probe. `BreakerContract` states what holds.
- A client that disconnects makes the proxy write 502, which `server.go:257` records
  as a failure of the upstream (`circuitbreaker.go:88`: "5xx or transport error").
- A listener error that arrives in main's first `select` is logged and consumed
  (`main.go:74`), and the process exits with status 0; seen in the second one
  (`main.go:87-96`) it leads to `os.Exit(1)`. `CleanExit` states the half that holds.
- Routes may share an ID. The router returns the first that matches, with its own
  authentication and limits, and the request goes to the endpoints of the last
  (`discovery.go:40`, `Entries` in `Routing`).
- The sample route `/health` of `schema.md:51` is never reached: the mux answers
  that path itself (`server.go:169`).
- The breaker gauge gets `route:url` as its route label and an empty upstream
  (`prometheus.go:177`).
- `singleJoiningSlash` is not "equivalent to the unexported helper in
  net/http/httputil" (`server.go:457-458`) when the upstream's path ends in two slashes
  or the request's begins with two: it removes all of them, httputil one. The second
  case takes an escaped slash (`/%2Fa`, sent upstream as `/a`, with httputil as `//a`) or a
  `CONNECT`. `JoinsLikeHttputil` says that these are the only cases.
- A 429 on the metrics page may be the limiter's or an upstream's (`server.go:193-198`);
  only the rejections tell them apart (`DenialsExplained`).

Two smaller remarks the passing properties make precise: the limiter has fixed
windows (`docs/GoGateway/README.md:29` says "sliding window"), so twice the limit can
almost be used around the end of a window, and no more (`WindowsDisjoint`, and
`IntervalQuota` in `RateLimiterProofs`); and stopping may take two timeouts, not one, since the metrics
server and the gateway are shut down one after the other (`StopBounded`).

## 4. Proofs

A run shows a property on a small instance; the theorems show it for every value of
the constants, under the named assumptions below. Every safety property that a run
checks is proved. Each `*Proofs` module has one lemma per action (`...KeepsInv`), the
theorem `Invariance` (`Spec => []Inv`), and a theorem per property; some properties
have no run and are stated beside their proof. Every `Inv` and each such property was
checked by TLC on its component's run before it was proved.

| Module | Theorem | Property | For every |
|---|---|---|---|
| `CircuitBreakerProofs` | `TypeCorrect`, `Cooldown`, `CountSound`, `LateFailures` | `TypeOK`, `CooldownMeansOpen`, `CountFitsState`, `LateFailuresBounded` | threshold and timeout in `Nat`, zero included; finite non-empty set of handlers |
| | `Refinement` | `ImplementsContract` | |
| `RateLimiterProofs` | `TypeCorrect`, `QuotaKept`, `DenialsJustified`, `WindowsApart` | `TypeOK`, `WindowQuota`, `DenialJustified`, `WindowsDisjoint` | finite set of replicas; any keys, calls, limit, window, retries, faults |
| | `HistorySound`, `IntervalsBounded`, `RefusalsCostNothing`, `CallsCost` | `Opened`, `AttemptsApart`, `IntervalQuota`, `RefusalsFree`, `CallCost` (stated there) | |
| `GatewayProofs` | `TypeCorrect`, `EveryRequestAccounted`, `ForwardQuotaKept`, `TurnsBalanced` | `TypeOK`, `Accounted`, `ForwardQuota`, `BalancedTurns` | finite set of requests; any routes, valid configuration, inputs, limit, window, threshold, timeout |
| | `ContractsRefined` | `BreakersKeepContract` | |
| `BreakerStoreProofs` | `TypeCorrect`, `BreakerIsUnique`, `GaugesAreFresh` | `TypeOK`, `OneBreaker`, `ExportsFresh` | sets of handlers and keys, finite or not |
| | `MapIsGuarded` | `MapGuarded` (stated there) | |
| `MetricsProofs` | `TypeCorrect`, `PagesConsistent`, `RejectionsExplain`, `HistogramsFit` | `TypeOK`, `PagesAddUp`, `DenialsExplained`, `HistogramsAgree` | finite sets of requests, routes and statuses; any durations and buckets |
| `KeyStoreProofs` | `TypeCorrect`, `AnswersOfOneMoment` | `TypeOK`, `AnswersJustified` | keys, key files, headers, calls; any bound on objects |
| | `RevocationIsFinal` | `RevocationSticks` (stated there) | |
| `LifecycleProofs` | `TypeCorrect`, `StopsGracefully`, `StopsInTime`, `ExitsCleanly` | `TypeOK`, `GracefulStop`, `StopBounded`, `CleanExit` | sets of requests and scrapes, finite or not; positive timeout |
| | `ClosedForGood` | `NoLateRequests` (stated there) | |
| `RoutingProofs` | `StartIsSound`, `RoutesServe`, `TurnsAreBalanced`, `PathsJoin` | `AssumptionsHold`, `RoutesTakeTheirRequests`, `TurnsBalanced`, `JoinsLikeHttputil` | sets of configurations and requests, patterns, paths and lists of any length; positive modulus |

**Assumptions.** They are those the modules declare, and each run's TLC evaluates
them. Beyond numbers being numbers they say: what is counted is finite (requests,
replicas, the labels of a page); names differ that are different things in the code
(`None` is no breaker, the exporter is no handler, `NoRoute` no route, an absent
header no key); a bound leaves room for at least one tick (`MaxTime`). Three are facts
about inputs. `ConfigAssumption` gives each route at least one upstream, which
`validate` demands and `AssumptionsHold` in `Routing` checks, a remote address to
each request, and upstream statuses between 200 and 599. `KeyStoreAssumption` says
that what the key file lists is of the right kind, and `RoutingAssumption` that lists
of routes and upstreams, patterns and paths are finite sequences; valid they need not
be. The bounds `MaxTime`, `MaxFaults`
and `MaxObjects` may be any number (the last at least that of the file's entries), so
the theorems do not rest on them.

### The breaker

`Inv == TypeOK /\ CooldownMeansOpen /\ CountFitsState` speaks of the breaker record
and of the type of `admitted`. For each operation one lemma (`AllowLeaves`,
`FailureLeaves`, `SuccessLeaves`, `TickLeaves`) says what record it leaves, and one
concludes that the step keeps `Inv`. `Allow` leaves the open state only when
`OpenAge >= Timeout`, and it takes the range of `OpenAge` in `TypeOK` to conclude that
the cooldown is over. `CountFitsState` is inductive only because every way into the
closed and the half-open state resets the count. The gateway has a breaker per
endpoint; its proofs use the same facts as lemmas on the record operators, where
`Sound(c)` is `Inv` for one record.

`LateFailuresBounded` is `FailureCount + pending < TripAt + handlers`, inductive
relative to `Inv`. A recorded failure moves one from `pending` to the count. The
step that could break it is an admission, which raises `pending`; it happens only
when the circuit is closed or half-open, and there `CountFitsState` bounds the count
by itself while a free slot bounds `pending` (`PendingSize`, `PendingShrinks`).

The refinement maps `run` to the count while closed and to 0 otherwise, `cooldown`
to `Timeout - OpenAge`, `pending` to the busy slots. `CooldownMeansOpen` is what
makes an admission of the code an `Admit` of the contract (`cooldown = 0`), and
`CountFitsState` what makes a failure while closed open the circuit exactly at the
end of a run.

### The rate limiter

The three properties speak of the history of increments and are not inductive: they
say nothing of the live entry, which decides the next verdict. `CounterInv` ties the
two together for every counter: the entry's window is the last one, every other
window is over (and lies a whole window before a live entry's), and the entry's
count, cut off at the limit, is the number of permits its window has given. A charge
that permits then adds one to both. That it adds a new increment and does not repeat
one needs `CallInv`: an attempt is on the wire at most once and not after it has been
executed, and the attempts of a call carry increasing numbers. Memory and Redis are
treated alike (`ChargeFields`): both charges start a window when
there is none or it is over, and count into it otherwise.

Two results follow for a client. `IntervalQuota`: however its calls are timed, one
counter gives it at most `2 * Limit - 1` permits in an interval as long as the window.
Windows that are a whole window apart leave room for two of them in such an interval
(`TwoWindows`), and the permit that began the first one, which `Opened` says there is,
lies before it. With a limit of 2 TLC finds an interval of 3, so the bound is exact.
`CallCost`: a call costs at most `2 * (MaxRetries + 1)` increments. No attempt is counted
twice (`AttemptsApart`), although attempts that were given up on may still be executed:
one restart of Redis is enough for a call to have an `EVALSHA` counted before it and an
`EVAL` after it. That would be one increment for each attempt of the two commands and
one for the fallback; but an `EVAL` is sent only after an `EVALSHA` was refused, which is
counted nowhere, then or later (`RefusalsFree`, whose proof follows each attempt from the
wire to its refusal: `Orderly`, `RefusalsKept`). With one retry TLC finds a call that costs
four and none that costs five.

### The request path

Each promise counts handlers, so the lemmas say which counted set a step changes and
by which handler. `HandlersOK` ties a handler's fields to its stage, so that a step
puts it into a set once. `MemoryInv` ties the limiter's entries to the requests that
passed them, as in `RateLimiter`; `TurnsInv` says that a counter is `pos` turns into
a lap of the endpoints, each of which was chosen once per lap before and the first
`pos` once more, from which `BalancedTurns` follows; `BreakersSound` is `Sound` of
every breaker.

`ContractsRefined` proves, for every key of the breaker store, that `Contract(k)`
starts in its initial states and that every step of the gateway is a step of it or
leaves its variables alone. An admission, an outcome and a tick are mapped with the
lemmas on the record; every other step moves neither the breaker nor the set of
requests pending on it, and a step at one endpoint leaves every other endpoint's
contract alone. What it takes from `HandlersOK` is that a handler on its way to
`Record` has the endpoint it was admitted for.

### The breaker store

`OneBreaker` needs to know that a stored breaker is never replaced and that a handler
in `hit` finds the entry that it saw (`HandlerInv`), and that handlers in `create`
hold the write lock (`LockInv`). `ExportsFresh` is a property of steps: when the
export ends, `ExportInv` says of each gauge that it shows what the snapshot said, and
of each entry of the snapshot that it is in the history of its breaker, whose present
state the history always holds (`HadInv`). `MapGuarded` is a property of steps: when the map changes, its
writer holds the write lock, no handler and no snapshot reads it (Go's runtime stops a
program that does), and the change is the breaker of the one key that the writer was
asked for and found without one, so that no breaker loses the failures it has counted.

### The metrics

`CountersInv` and `HistogramsInv` say that every collector is the number of handlers
past its update. `PageInv` compares a page under way with the collectors as they are
now: what has been rendered is no more, and misses no request of `before`. A handler's
step can only make the collectors larger, so `PageInv` holds on; the step that renders
the gauge is where the order of the handler matters (`Raised` and `Counted` are
disjoint), and the one that renders the counters is where a denial has been recorded
before its request was counted: of the 429s it renders, `CountersInv` says that they are
the requests counted so far, of which those that were denied are past their rejection,
and the others are the ones that upstreams answered.

The sums over a page are folds, and the module proves what it needs of them: that
they are natural numbers, zero over zeros, and grow by one when one term does. The
induction theorems of the library cannot be instantiated here, but the least element
of a set of numbers can: a sum that failed one of these facts would fail it on a set
of indices of least size, and removing the picked index gives a smaller one (`Least`,
`SumsExist`, `SumGrows`).

### The key store

`AnswersJustified` is about finished calls. `RunningInv` is about the others: the
history of a running call holds what the store says now of its key, and what the
object found would have it answer, revoked or not. An object that was found may be
revoked when its key has another object already; `KeysApart` says that only `Revoke`
of the key it was added under reaches it, so that its call has seen "revoked" too.
`RevocationSticks` is a property of steps: a key that the store calls revoked can be
let in again by `Add` of that key and nothing else.

### The stop

`GracefulStop` needs that nothing is accepted after `Server.Shutdown` has returned
(`NotServing`), when no connection is left either, and that requests are cut off at the
deadline only (`CutAtDeadline`), `StopBounded` how much of the elapsed time went to each of the two shutdowns
(`TimeSpent`), `CleanExit` where an error on `errCh` comes from (`ErrorsReported`).
`NoLateRequests` is a property of steps: while requests drain no connection is accepted,
by `NotServing` also when main stops a server whose `Start` has not yet begun to listen
(before, with main in the shutdown of the metrics server, it may be); requests
may still begin on connections accepted before. Once `Server.Shutdown` has returned, by
`GracefulStop`, none begins, ends or is cut off.

### The routes

`ConfigInv` says what `Validate` leaves, `TablesInv` what `New` makes of it, `LastInv`
what the last answer has to do with the route it took. `AssumptionsHold` then rests on
two facts about lists: every ID that a route has is that of some last route
(`LastWithProps`), and the endpoints of a valid route are not empty (`EntriesProps`).
`Match` is a least index, which a non-empty set of numbers has (`Least`), so
`RoutesTakeTheirRequests` comes down to `DocumentedPathMatches`: a path in the
documented sense of a pattern is one that `matchPath` takes. The converse fails, as
the run `routing_wildcard` shows.

`TurnsBalanced` is not inductive; that every endpoint has been chosen exactly
`wraps * Share(Modulus, n, i) + Share(counter, n, i)` times is, where `Share(c, n, i)`
is how often `c` counts from zero reach endpoint `i` of `n`: the quotient of `c` by `n`,
or one more (`ShareGrows`, `TurnCounted`). Shares of the same count differ by one at
most (`ShareIsFair`), those of `Modulus` not at all when `n` divides it; hence one turn
for the present round and one for each round that was cut short.

`JoinsLikeHttputil` is two lemmas about sequences. When the first path ends, and the
second begins, in at most one slash, trimming all of them is trimming that one
(`TrimRightOne`, `TrimLeftOne`), and four cases remain (`SinglePathsJoin`). Otherwise more
is trimmed than httputil trims, and the two results differ in length
(`TrimRightLength`, `TrimLeftLength`, `DoubledPathsDiffer`).

### Only model-checked

- Liveness: `Recovery`, `Decided`, `Reclaimed`, `EveryRequestEnds`, `StopsEventually`,
  `CallsReturn`, `EventuallyExported`, `ExporterStops`. Fairness and ENABLED are out
  of the prover's reach.
- The two disagreements of `gateway_status` and `routing_wildcard`, which are
  counterexamples and not theorems.

## 5. What is not modelled

- Parsing and verifying JWTs: a request carries the identity its token proves. Header
  values, JSON bodies, logging, the text of a metrics page.
- Query strings, schemes and the `User-Agent` header of a proxied request; `.` and `..` in
  paths, escapes other than that of a slash, and `URL.RawPath`, which the director leaves
  as it came.
- `LeastConnections` (`leastconn.go`): nothing constructs it but its test.
  `server.New` builds a round-robin balancer for every route (`server.go:74`), and
  `serveRoute` has no call of `Done`, so there is no use of it to be faithful to.
- The request ID, a header that is copied or generated, and the logger: no state.
- Reading files and YAML: a configuration or a key file is given as what it says.
- A rate-limit window below one millisecond. It is not validated, and `PEXPIRE 0`
  deletes the key at once; the model assumes a positive window.
- Overflow of the failure count (2^63 steps): `LateFailuresBounded` rules it out.
- A signal that arrives between the launch of `Start` and `signal.Notify`: the
  runtime kills the process.

## 6. Plan

Every part of the system with behaviour of its own has a module, and every safety
property of every module is proved. What is left, should the code or the tools change:

1. Liveness, once the prover handles ENABLED. The invariants it would start from are
   proved; what is missing is one step of fairness at a time.
2. The hazards without a property (see `PROJECT.json`), if the code comes to handle
   them: a limit on half-open probes, windows below a millisecond.
3. More properties of steps of the kind of `MapGuarded`, `NoLateRequests` and
   `RevocationSticks`.
