------------------------------ MODULE Gateway ------------------------------
(***************************************************************************)
(* The request path of one gateway: Server.serveRoute                      *)
(* (internal/server/server.go:184-267) run by many handler goroutines that *)
(* share the rate limiter, the balancers, the circuit breakers and the     *)
(* metrics.  A handler's step ends where it touches shared state, so steps *)
(* of different handlers interleave between any two such points.           *)
(*                                                                         *)
(* The limiter is the in-memory one (a gateway without Redis); the shared  *)
(* Redis counter is the subject of RateLimiter.  The request carries the   *)
(* route the router picks for it, and the identities its credentials prove *)
(* when they are valid.                                                    *)
(***************************************************************************)
EXTENDS Breaker, FixedWindow, FiniteSets, Sequences, Functions

CONSTANTS
    Requests,   \* requests, each sent at most once
    Routes,     \* route IDs
    NoRoute,    \* the request matches no route: label "unknown"
    Config,     \* per route: jwt, apiKey, limited, perClient, breaker, upstreams
    Inputs,     \* what a request may carry: its route, the identities its token and
                \* its API key prove (NoID when invalid), and the headers it comes with
    NoID,       \* an absent header or credential
    Codes,      \* final status codes an upstream answers with
    MaxTime     \* bound on the clock

\* config.validate: every route has an upstream.  The NO_UPSTREAM answer of
\* serveRoute is therefore never given.  net/http always sets RemoteAddr.
ASSUME ConfigAssumption ==
    /\ IsFiniteSet(Requests)
    /\ \A rt \in Routes :
          LET ups == Config[rt].upstreams IN ups # << >> /\ ups \in Seq(Range(ups))
    /\ NoRoute \notin Routes
    /\ \A in \in Inputs : in.route \in Routes \cup {NoRoute} /\ in.addr # NoID
    /\ Codes \subseteq 200..599
    /\ MaxTime \in Nat \ {0}

Targets == UNION {Range(Config[rt].upstreams) : rt \in Routes}

\* Keys of the limiter's map and of the breaker store.
ClientIDs ==
    Routes \cup UNION {{in.jwt, in.apiKey, in.user, in.keyID, in.forwarded, in.addr} : in \in Inputs}
LimitKeys == Routes \X ClientIDs
BreakerKeys == Routes \X Targets

\* Statuses: 0 before any header, 103 for an informational response, the
\* gateway's own answers, and what upstreams send.
Statuses == {0, 103, 401, 404, 429, 502, 503} \cup Codes

Stage == {"new", "limit", "balance", "admit", "proxy", "record", "finish", "done"}

VARIABLES
    now,            \* the clock
    handler,        \* per request: the local state of its handler
    active,         \* metrics.ActiveConnections
    requestsTotal,  \* metrics.RequestsTotal, per <<route label, status>>
    rejections,     \* metrics.RateLimitRejections
    memory,         \* rateLimiter.memory.entries
    counter,        \* per route: the round-robin counter
    breakers        \* breakerStore: a key that is absent reads as a new breaker

vars == <<now, handler, active, requestsTotal, rejections, memory, counter, breakers>>

\* status is rec.Status(); sent is the last status written to the client;
\* window is the end of the rate-limit window that counted the request, zero
\* when none did; turn is the balancer's index, zero before it chose.
NewHandler(in) ==
    [stage |-> "new", in |-> in, status |-> 0, sent |-> 0, window |-> 0,
     client |-> NoID, turn |-> 0]

Unsent == [stage |-> "new"]

\* registry.GetEndpoints
Endpoints(rt) == Config[rt].upstreams

RouteOf(r) == handler[r].in.route
BreakerKey(r) == <<RouteOf(r), Endpoints(RouteOf(r))[handler[r].turn]>>

\* The labels of a request, as routeLabel and rec.Status give them.
Labels == (Routes \cup {NoRoute}) \X Statuses
LabelOf(r) == <<RouteOf(r), handler[r].status>>

\* Gauge.Inc, Gauge.Dec and CounterVec.Inc.
GaugeInc == active' = active + 1
GaugeDec == active' = active - 1
CounterInc(vec, label) == [vec EXCEPT ![label] = @ + 1]

Init ==
    /\ now = 1
    /\ handler = [r \in Requests |-> Unsent]
    /\ active = 0
    /\ requestsTotal = [l \in Labels |-> 0]
    /\ rejections = [rt \in Routes |-> 0]
    /\ memory = [k \in LimitKeys |-> NoEntry]
    /\ counter = [rt \in Routes |-> 0]
    /\ breakers = [k \in BreakerKeys |-> NewCircuitBreaker]

-----------------------------------------------------------------------------
(* statusRecorder: the first WriteHeader is the one that is kept.          *)

WriteHeader(h, code) ==
    [h EXCEPT !.status = IF @ = 0 THEN code ELSE @, !.sent = code]

\* writeJSON: the gateway answers the request itself, and serveRoute returns.
WriteJSON(h, code) == [WriteHeader(h, code) EXCEPT !.stage = "finish"]

-----------------------------------------------------------------------------
(* authenticate: JWT first, then the API key; one success is enough.       *)

JWTValid(in) == Config[in.route].jwt /\ in.jwt # NoID
APIKeyValid(in) == Config[in.route].apiKey /\ in.apiKey # NoID

Authenticated(in) ==
    \/ ~Config[in.route].jwt /\ ~Config[in.route].apiKey
    \/ JWTValid(in)
    \/ APIKeyValid(in)

\* The identity headers after authenticate: X-User-ID is the subject of a valid
\* token, X-API-Key-ID the ID of a valid key, tried only when the token did not
\* decide; otherwise each is what the request came with.
UserHeader(in) == IF JWTValid(in) THEN in.jwt ELSE in.user
KeyHeader(in) == IF ~JWTValid(in) /\ APIKeyValid(in) THEN in.apiKey ELSE in.keyID

\* ResolveClientID: the route itself, or the first identity that is present.
ResolveClientID(in) ==
    LET ids == <<UserHeader(in), KeyHeader(in), in.forwarded, in.addr>>
        first == CHOOSE i \in DOMAIN ids : ids[i] # NoID /\ \A j \in 1..(i - 1) : ids[j] = NoID
    IN  IF Config[in.route].perClient THEN ids[first] ELSE in.route

-----------------------------------------------------------------------------
(* serveRoute, step by step.                                               *)

\* Mutant: the gauge is raised only for requests that pass authentication.
ArriveUncounted(r, in) ==
    /\ handler[r] = Unsent
    /\ in.route # NoRoute
    /\ active' = IF Authenticated(in) THEN active + 1 ELSE active
    /\ handler' = [handler EXCEPT ![r] = IF Authenticated(in)
                                         THEN [NewHandler(in) EXCEPT !.stage = "limit"]
                                         ELSE WriteJSON(NewHandler(in), 401)]
    /\ UNCHANGED <<now, requestsTotal, rejections, memory, counter, breakers>>

\* ActiveConnections.Inc, router.Match and authenticate.
Arrive(r, in) ==
    /\ handler[r] = Unsent
    /\ GaugeInc
    /\ LET h == NewHandler(in)
       IN  \/ /\ in.route = NoRoute
              /\ handler' = [handler EXCEPT ![r] = WriteJSON(h, 404)]
           \/ /\ in.route # NoRoute /\ ~Authenticated(in)
              /\ handler' = [handler EXCEPT ![r] = WriteJSON(h, 401)]
           \/ /\ in.route # NoRoute /\ Authenticated(in)
              /\ handler' = [handler EXCEPT ![r] = [h EXCEPT !.stage = "limit"]]
    /\ UNCHANGED <<now, requestsTotal, rejections, memory, counter, breakers>>

\* Mutant: a denied request is answered 429 and then handled all the same.
CheckRateLimitFallsThrough(r) ==
    /\ handler[r].stage = "limit"
    /\ LET in == handler[r].in
           k == <<in.route, ResolveClientID(in)>>
           e == MemoryCharge(memory[k], now)
       IN  /\ memory' = [memory EXCEPT ![k] = e]
           /\ handler' = [handler EXCEPT ![r].stage = "balance", ![r].window = e.resetAt,
                                         ![r].client = ResolveClientID(in)]
    /\ UNCHANGED <<now, active, requestsTotal, rejections, counter, breakers>>

\* checkRateLimit, with the answer 429 and its metric.
CheckRateLimit(r) ==
    /\ handler[r].stage = "limit"
    /\ \/ /\ ~Config[RouteOf(r)].limited
          /\ handler' = [handler EXCEPT ![r].stage = "balance"]
          /\ UNCHANGED <<memory, rejections>>
       \/ /\ Config[RouteOf(r)].limited
          /\ LET client == ResolveClientID(handler[r].in)
                 k == <<RouteOf(r), client>>
                 e == MemoryCharge(memory[k], now)
                 h == [handler[r] EXCEPT !.window = e.resetAt, !.client = client]
             IN  /\ memory' = [memory EXCEPT ![k] = e]
                 /\ \/ /\ WithinLimit(e)
                       /\ handler' = [handler EXCEPT ![r] = [h EXCEPT !.stage = "balance"]]
                       /\ UNCHANGED rejections
                    \/ /\ ~WithinLimit(e)
                       /\ handler' = [handler EXCEPT ![r] = WriteJSON(h, 429)]
                       /\ rejections' = CounterInc(rejections, RouteOf(r))
    /\ UNCHANGED <<now, active, requestsTotal, counter, breakers>>

\* Mutant: without the mutex the increment of one handler may be lost.
NextUnlocked(r, rt) ==
    /\ counter' \in {counter, [counter EXCEPT ![rt] = @ + 1]}
    /\ handler' = [handler EXCEPT ![r].turn = (counter[rt] % Len(Endpoints(rt))) + 1,
                                  ![r].stage = IF Config[rt].breaker THEN "admit" ELSE "proxy"]

\* RoundRobin.Next: the endpoint in turn, and the step that follows.
NextTurn(r, rt) ==
    /\ counter' = [counter EXCEPT ![rt] = @ + 1]
    /\ handler' = [handler EXCEPT ![r].turn = (counter[rt] % Len(Endpoints(rt))) + 1,
                                  ![r].stage = IF Config[rt].breaker THEN "admit" ELSE "proxy"]

Balance(r) ==
    /\ handler[r].stage = "balance"
    /\ NextTurn(r, RouteOf(r))
    /\ UNCHANGED <<now, active, requestsTotal, rejections, memory, breakers>>

\* Mutant: a request that is not admitted waits for the circuit in place of failing fast.
AdmitWaits(r) ==
    /\ handler[r].stage = "admit"
    /\ Allowed(breakers[BreakerKey(r)])
    /\ breakers' = [breakers EXCEPT ![BreakerKey(r)] = AfterAllow(@)]
    /\ handler' = [handler EXCEPT ![r].stage = "proxy"]
    /\ UNCHANGED <<now, active, requestsTotal, rejections, memory, counter>>

\* breakerStore.GetOrCreate and CircuitBreaker.Allow.
Admit(r) ==
    /\ handler[r].stage = "admit"
    /\ LET cb == breakers[BreakerKey(r)]
       IN  /\ breakers' = [breakers EXCEPT ![BreakerKey(r)] = AfterAllow(cb)]
           /\ \/ /\ Allowed(cb)
                 /\ handler' = [handler EXCEPT ![r].stage = "proxy"]
              \/ /\ ~Allowed(cb)
                 /\ handler' = [handler EXCEPT ![r] = WriteJSON(@, 503)]
    /\ UNCHANGED <<now, active, requestsTotal, rejections, memory, counter>>

-----------------------------------------------------------------------------
(* proxy.ServeHTTP, as httputil.ReverseProxy drives the status recorder.   *)

AfterProxy(r) == IF Config[RouteOf(r)].breaker THEN "record" ELSE "finish"

ProxyUnchanged == UNCHANGED <<now, active, requestsTotal, rejections, memory, counter, breakers>>

\* The upstream sends an informational response, which the proxy forwards.
Informational(r) ==
    /\ handler[r].stage = "proxy"
    /\ handler' = [handler EXCEPT ![r] = WriteHeader(@, 103)]
    /\ ProxyUnchanged

\* The upstream answers and the whole body reaches the client.
Answer(r, code) ==
    /\ handler[r].stage = "proxy"
    /\ handler' = [handler EXCEPT ![r] = [WriteHeader(@, code) EXCEPT !.stage = AfterProxy(r)]]
    /\ ProxyUnchanged

\* The body breaks off: the proxy panics with http.ErrAbortHandler and only
\* the deferred function of serveRoute still runs.
Abort(r, code) ==
    /\ handler[r].stage = "proxy"
    /\ handler' = [handler EXCEPT ![r] = [WriteHeader(@, code) EXCEPT !.stage = "finish"]]
    /\ ProxyUnchanged

\* The round trip fails: the upstream cannot be reached or breaks off before its
\* answer, or the client goes away and its context is cancelled.  In both cases
\* the proxy's error handler answers 502.
TransportError(r) ==
    /\ handler[r].stage = "proxy"
    /\ handler' = [handler EXCEPT ![r] = [WriteHeader(@, 502) EXCEPT !.stage = AfterProxy(r)]]
    /\ ProxyUnchanged

ProxyEnds(r) ==
    \/ \E code \in Codes : Answer(r, code) \/ Abort(r, code)
    \/ TransportError(r)

-----------------------------------------------------------------------------
(* The end of serveRoute.                                                  *)

\* Mutant: the outcome is recorded against whichever endpoint is next in turn.
RecordOther(r) ==
    /\ handler[r].stage = "record"
    /\ LET eps == Endpoints(RouteOf(r))
           k == <<RouteOf(r), eps[(handler[r].turn % Len(eps)) + 1]>>
       IN  breakers' = [breakers EXCEPT ![k] = IF handler[r].status >= 500
                                               THEN AfterFailure(@) ELSE AfterSuccess(@)]
    /\ handler' = [handler EXCEPT ![r].stage = "finish"]
    /\ UNCHANGED <<now, active, requestsTotal, rejections, memory, counter>>

\* RecordFailure or RecordSuccess, by the status the recorder kept; neither
\* when it kept none.
Record(r) ==
    /\ handler[r].stage = "record"
    /\ breakers' = [breakers EXCEPT ![BreakerKey(r)] =
                       CASE handler[r].status >= 500     -> AfterFailure(@)
                         [] handler[r].status \in 1..499 -> AfterSuccess(@)
                         [] handler[r].status = 0        -> @]
    /\ handler' = [handler EXCEPT ![r].stage = "finish"]
    /\ UNCHANGED <<now, active, requestsTotal, rejections, memory, counter>>

\* A handler that is done keeps what the accounts below refer to.
Ended(h) == [h EXCEPT !.stage = "done", !.sent = 0]

\* Mutant: the accounting is skipped when the request failed.
FinishUnlessFailed(r) ==
    /\ handler[r].stage = "finish"
    /\ handler' = [handler EXCEPT ![r] = Ended(@)]
    /\ \/ handler[r].status < 500 /\ GaugeDec /\ requestsTotal' = CounterInc(requestsTotal, LabelOf(r))
       \/ handler[r].status >= 500 /\ UNCHANGED <<active, requestsTotal>>
    /\ UNCHANGED <<now, rejections, memory, counter, breakers>>

\* The deferred function: ActiveConnections.Dec and RecordRequest.
Finish(r) ==
    /\ handler[r].stage = "finish"
    /\ handler' = [handler EXCEPT ![r] = Ended(@)]
    /\ GaugeDec
    /\ requestsTotal' = CounterInc(requestsTotal, LabelOf(r))
    /\ UNCHANGED <<now, rejections, memory, counter, breakers>>

Tick ==
    /\ now < MaxTime
    /\ now' = now + 1
    /\ breakers' = [k \in BreakerKeys |-> Elapse(breakers[k])]
    /\ UNCHANGED <<handler, active, requestsTotal, rejections, memory, counter>>

\* The steps a handler takes by itself.
LocalStep(r) == CheckRateLimit(r) \/ Balance(r) \/ Admit(r) \/ Record(r) \/ Finish(r)

Next ==
    \/ \E r \in Requests :
          \/ \E in \in Inputs : Arrive(r, in)
          \/ LocalStep(r)
          \/ Informational(r)
          \/ ProxyEnds(r)
    \/ Tick

Spec == Init /\ [][Next]_vars

\* As long as a handler can take a step, some handler does: the weakest thing
\* to ask of Go's scheduler.
HandlersFair == WF_vars(\E r \in Requests : LocalStep(r))

\* As long as a round trip is under way, some round trip ends.
UpstreamsAnswer == WF_vars(\E r \in Requests : ProxyEnds(r))

FairSpec == Spec /\ HandlersFair
AnsweringSpec == FairSpec /\ UpstreamsAnswer

-----------------------------------------------------------------------------
(* Safety.                                                                 *)

Handler ==
    {Unsent} \cup
    [stage: Stage \ {"new"}, in: Inputs, status: Statuses, sent: Statuses, window: Nat,
     client: ClientIDs \cup {NoID}, turn: Nat]

TypeOK ==
    /\ now \in 1..MaxTime
    /\ handler \in [Requests -> Handler]
    /\ active \in 0..Cardinality(Requests)
    /\ requestsTotal \in [Labels -> 0..Cardinality(Requests)]
    /\ rejections \in [Routes -> Nat]
    /\ memory \in [LimitKeys -> Entry]
    /\ counter \in [Routes -> Nat]
    /\ breakers \in [BreakerKeys -> Circuit]

Arrived == {r \in Requests : handler[r] # Unsent}
Done == {r \in Arrived : handler[r].stage = "done"}

\* The metrics account for every request exactly once, however it ends: the
\* gauge is the number of handlers that are running, each finished request is
\* counted under its own route and status, and the rate-limit rejections are
\* the requests answered 429 by the gateway, not those of an upstream that
\* answers 429 itself (serveRoute's deferred function, checkRateLimit).
Accounted ==
    /\ active = Cardinality(Arrived \ Done)
    /\ \A l \in Labels :
          requestsTotal[l] = Cardinality({r \in Done : LabelOf(r) = l})
    /\ \A rt \in Routes :
          rejections[rt] = Cardinality({r \in Arrived : /\ RouteOf(r) = rt /\ handler[r].turn = 0
                                                        /\ handler[r].status = 429})

\* Of the requests one client has counted in one window, at most Limit get past
\* the limiter to a balancer, a breaker or an upstream.
ForwardQuota ==
    \A r \in Arrived :
        handler[r].window # 0 =>
            Cardinality({q \in Arrived : /\ RouteOf(q) = RouteOf(r)
                                         /\ handler[q].client = handler[r].client
                                         /\ handler[q].window = handler[r].window
                                         /\ handler[q].stage = "balance" \/ handler[q].turn # 0})
                <= Limit

Turns(rt, i) == Cardinality({r \in Arrived : RouteOf(r) = rt /\ handler[r].turn = i})

\* However handlers interleave and whatever breakers decide, the endpoints of a
\* route are chosen equally often, up to one (RoundRobin.Next).
BalancedTurns ==
    \A rt \in Routes :
        \A i, j \in DOMAIN Endpoints(rt) : Turns(rt, i) <= Turns(rt, j) + 1

\* The requests a breaker let through and that have not recorded an outcome.
PendingOn(k) ==
    {r \in Arrived : /\ handler[r].stage \in {"proxy", "record"}
                     /\ Config[RouteOf(r)].breaker /\ BreakerKey(r) = k}

Contract(k) == INSTANCE BreakerContract WITH
    state    <- breakers[k].State,
    run      <- IF breakers[k].State = StateClosed THEN breakers[k].FailureCount ELSE 0,
    cooldown <- Timeout - breakers[k].OpenAge,
    pending  <- PendingOn(k)

\* The breaker of each endpoint keeps its contract with the requests sent to
\* that endpoint: it is moved by their outcomes only, and outcomes of one
\* endpoint never open, close or delay the circuit of another.
BreakersKeepContract ==
    /\ \A k \in BreakerKeys : Contract(k)!Init
    /\ [][\A k \in BreakerKeys : UNCHANGED Contract(k)!vars \/ Contract(k)!Next]_vars

-----------------------------------------------------------------------------
(* Liveness.                                                               *)

\* Every request that arrives is answered and accounted for.  It rests on the
\* upstream to end the round trip; docs/GoGateway/risk_log.md:10 and
\* roadmap.md:87 ("fast-fails instead of hanging") expect the route's timeout
\* to end it.
EveryRequestEnds == \A r \in Requests : r \in Arrived ~> r \in Done

-----------------------------------------------------------------------------
(* What comments and documents say of the request path.                    *)

\* "capture the HTTP status code written by the upstream proxy response"
\* (server.go:401-402): the status that decides the breaker's outcome and the
\* metric's label is the one the client got.
RecordsFinalStatus ==
    \A r \in Arrived : handler[r].stage \in {"record", "finish"} => handler[r].status = handler[r].sent
=============================================================================
