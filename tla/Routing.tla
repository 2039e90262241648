------------------------------ MODULE Routing ------------------------------
(***************************************************************************)
(* From a configuration to the upstream of a request: config.Load and      *)
(* validate, the tables server.New builds from the routes, and what        *)
(* serveRoute does with them: router.Match, GetEndpoints, RoundRobin.Next  *)
(* and dynamicDirector.                                                    *)
(*                                                                         *)
(* The tables are written once, before the first request, except for the   *)
(* balancers' counters, which RoundRobin.Next reads and increments under a *)
(* mutex.  Serving a request is therefore one step here; Gateway has the   *)
(* interleavings.                                                          *)
(*                                                                         *)
(* Paths and patterns are sequences of characters: which paths a wildcard  *)
(* takes and how two paths are joined are questions about characters.      *)
(* "%2F" is one of them, the slash that a request escapes: net/http looks  *)
(* for doubled slashes in what the request says, the gateway's code sees   *)
(* the path with its escapes undone.  Queries, headers, schemes, "." and   *)
(* "..", and the escaped form of the path that is sent upstream            *)
(* (URL.RawPath) are left out.                                             *)
(***************************************************************************)
EXTENDS Integers, FiniteSets, SequencesExt

CONSTANTS
    Configs,        \* what the configuration file may say
    Requests,       \* what a request may ask for: method, host, path as it is written
    Modulus,        \* the counter of a balancer counts modulo Modulus (2^64 in the code)
    MaxRequests,    \* bound on the requests served
    HealthPath,     \* the path "/health"
    NoRoute         \* no route matches

IsSequence(s) == s \in Seq(Range(s))

\* A configuration has the fields of config.Config, a route and an upstream
\* those of theirs.
ASSUME RoutingAssumption ==
    /\ Modulus \in Nat \ {0} /\ MaxRequests \in Nat
    /\ NoRoute \notin Nat
    /\ \A c \in Configs :
          /\ c \in [listen: {c.listen}, shutdownTimeout: Int, routes: Seq(Range(c.routes))]
          /\ \A r \in Range(c.routes) :
                /\ IsSequence(r.path) /\ IsSequence(r.upstreams)
                /\ \A up \in Range(r.upstreams) : IsSequence(up.path)
    /\ \A req \in Requests :
          /\ req \in [method: {req.method}, host: {req.host}, path: {req.path}]
          /\ IsSequence(req.path) /\ IsPrefix(<<"/">>, req.path)

VARIABLES
    stage,      \* how far the start is: loaded, valid, serving, or failed
    cfg,        \* the configuration: listen, shutdownTimeout, routes
    registry,   \* StaticRegistry.entries: endpoints per route ID
    balancers,  \* per route ID: the counter
    last,       \* the request served last, its route, endpoint and path upstream
    turns,      \* history: how often each endpoint of a route ID was chosen
    wraps       \* history: how often the counter of a route ID has wrapped

vars == <<stage, cfg, registry, balancers, last, turns, wraps>>

IDs(c) == {c.routes[i].id : i \in DOMAIN c.routes}

-----------------------------------------------------------------------------
(* Config: validate checks, and fills in defaults.                         *)

\* Mutant: a route may be without upstreams.
ValidNoUpstreams(c) ==
    /\ c.listen # ""
    /\ c.routes # << >>
    /\ \A i \in DOMAIN c.routes : c.routes[i].id # "" /\ c.routes[i].path # << >>

Valid(c) ==
    /\ c.listen # ""
    /\ c.routes # << >>
    /\ \A i \in DOMAIN c.routes :
          LET r == c.routes[i]
          IN  /\ r.id # "" /\ r.path # << >> /\ r.upstreams # << >>
              /\ \A j \in DOMAIN r.upstreams : r.upstreams[j].url # ""

DefaultShutdownTimeout == 15

WithDefaults(c) ==
    IF c.shutdownTimeout <= 0 THEN [c EXCEPT !.shutdownTimeout = DefaultShutdownTimeout] ELSE c

-----------------------------------------------------------------------------
(* Router: the first route that admits the method, the host and the path.  *)

Wildcard == <<"/", "*">>

\* Mutant: a wildcard takes what lies below its prefix, but not the prefix.
MatchPathBelow(pattern, path) ==
    IF IsSuffix(Wildcard, pattern)
    THEN IsPrefix(Front(pattern), path)
    ELSE pattern = path

MatchPath(pattern, path) ==
    IF IsSuffix(Wildcard, pattern)
    THEN IsPrefix(Front(Front(pattern)), path)
    ELSE pattern = path

MatchRoute(r, req) ==
    /\ r.methods # {} => req.method \in r.methods
    /\ r.hosts # {} => req.host \in r.hosts
    /\ MatchPath(r.path, req.path)

Match(req) ==
    LET matching == {i \in DOMAIN cfg.routes : MatchRoute(cfg.routes[i], req)}
    IN  IF matching = {} THEN NoRoute
        ELSE CHOOSE i \in matching : \A j \in matching : i <= j

-----------------------------------------------------------------------------
(* dynamicDirector: the endpoint's path and the request's, with one slash  *)
(* between them.                                                           *)

NotSlash(char) == char # "/"
TrimRight(s) == SubSeq(s, 1, SelectLastInSeq(s, NotSlash))
TrimLeft(s) ==
    IF SelectInSeq(s, NotSlash) = 0 THEN << >> ELSE SubSeq(s, SelectInSeq(s, NotSlash), Len(s))

\* Mutant: the slashes the second path begins with are kept.
JoinedPlainly(a, b) == TrimRight(a) \o <<"/">> \o b

SingleJoiningSlash(a, b) == TrimRight(a) \o <<"/">> \o TrimLeft(b)

-----------------------------------------------------------------------------
(* The start: main loads the configuration and calls server.New.           *)

TablesUnchanged == UNCHANGED <<registry, balancers, turns, wraps>>

None == [outcome |-> "none"]

Init ==
    /\ cfg \in Configs
    /\ stage = "loaded"
    /\ registry = << >> /\ balancers = << >> /\ turns = << >> /\ wraps = << >>
    /\ last = None

Validate ==
    /\ stage = "loaded"
    /\ \/ Valid(cfg) /\ stage' = "valid" /\ cfg' = WithDefaults(cfg)
       \/ ~Valid(cfg) /\ stage' = "failed" /\ UNCHANGED cfg
    /\ UNCHANGED last /\ TablesUnchanged

\* NewStaticRegistry: of routes that share an ID, which nothing forbids, the
\* last one declared fills the entry.
LastWith(id) ==
    CHOOSE i \in DOMAIN cfg.routes :
        /\ cfg.routes[i].id = id
        /\ \A j \in DOMAIN cfg.routes : cfg.routes[j].id = id => j <= i

Entries == [id \in IDs(cfg) |-> cfg.routes[LastWith(id)].upstreams]

Parses == \A i \in DOMAIN cfg.routes : \A j \in DOMAIN cfg.routes[i].upstreams : cfg.routes[i].upstreams[j].parses

New ==
    /\ stage = "valid"
    /\ \/ /\ Parses
          /\ stage' = "serving"
          /\ registry' = Entries
          /\ balancers' = [id \in IDs(cfg) |-> 0]
          /\ turns' = [id \in IDs(cfg) |-> [j \in DOMAIN Entries[id] |-> 0]]
          /\ wraps' = [id \in IDs(cfg) |-> 0]
       \/ ~Parses /\ stage' = "failed" /\ TablesUnchanged
    /\ UNCHANGED <<cfg, last>>

-----------------------------------------------------------------------------
(* A request.                                                              *)

Served ==
    LET total(id) == FoldFunction(+, 0, turns[id])
    IN  FoldFunction(+, 0, [id \in DOMAIN turns |-> total(id)])

TwoSlashes == <<"/", "/">>

\* net/url.ParseRequestURI: the path of a request with its escapes undone.
Unescape(path) == [i \in DOMAIN path |-> IF path[i] = "%2F" THEN "/" ELSE path[i]]
Parsed(req) == [req EXCEPT !.path = Unescape(@)]

\* http.ServeMux, not the gateway, answers a request whose path is written with
\* a doubled slash, unless it is a CONNECT: it redirects it.
Redirected(req) ==
    /\ req.method # "CONNECT"
    /\ \E i \in 1..(Len(req.path) - 1) : <<req.path[i], req.path[i + 1]>> = TwoSlashes

\* HealthHandler: the mux takes the path before the routes see it.
Health(req) ==
    /\ req.path = HealthPath
    /\ last' = [outcome |-> IF req.method = "GET" THEN "ok" ELSE "method_not_allowed", req |-> req]
    /\ TablesUnchanged

NotFound(req) ==
    /\ req.path # HealthPath /\ Match(req) = NoRoute
    /\ last' = [outcome |-> "not_found", req |-> req]
    /\ TablesUnchanged

\* Mutant: the index is taken modulo one endpoint too few.
NextSkipsLast(count, n) == [turn |-> count % (IF n = 1 THEN 1 ELSE n - 1), counter |-> (count + 1) % Modulus]

\* RoundRobin.Next
NextEndpoint(count, n) == [turn |-> count % n, counter |-> (count + 1) % Modulus]

\* serveRoute from the registry to the director.
Forward(req) ==
    /\ req.path # HealthPath /\ Match(req) # NoRoute
    /\ LET id == cfg.routes[Match(req)].id
           eps == registry[id]
           next == NextEndpoint(balancers[id], Len(eps))
           i == next.turn + 1
       IN  IF eps = << >>
           THEN /\ last' = [outcome |-> "no_upstream", req |-> req]
                /\ TablesUnchanged
           ELSE /\ last' = [outcome |-> "forwarded", req |-> req, route |-> Match(req), target |-> eps[i],
                            path |-> SingleJoiningSlash(eps[i].path, req.path)]
                /\ balancers' = [balancers EXCEPT ![id] = next.counter]
                /\ turns' = [turns EXCEPT ![id][i] = @ + 1]
                /\ wraps' = IF next.counter = 0 THEN [wraps EXCEPT ![id] = @ + 1] ELSE wraps
                /\ UNCHANGED registry

Serve(req) ==
    /\ stage = "serving" /\ Served < MaxRequests
    /\ ~Redirected(req)
    /\ Health(Parsed(req)) \/ NotFound(Parsed(req)) \/ Forward(Parsed(req))
    /\ UNCHANGED <<stage, cfg>>

Next == Validate \/ New \/ \E req \in Requests : Serve(req)

Spec == Init /\ [][Next]_vars

-----------------------------------------------------------------------------
(* Safety.                                                                 *)

Forwarded == last.outcome = "forwarded"
Routed == last.outcome \in {"forwarded", "not_found"}

\* What the other modules assume of their constants, and the code of its
\* callers, holds of every configuration that gets to serve: a positive
\* shutdown timeout (Lifecycle), and an upstream for every request that matches
\* a route (Gateway), so that no balancer sees an empty slice
\* (balancer.go:12-13) and NO_UPSTREAM is never answered.
AssumptionsHold ==
    /\ stage = "serving" => cfg.shutdownTimeout > 0
    /\ last.outcome # "no_upstream"

\* The paths a pattern is documented to match: "/a/*" matches "/a" and what is
\* below it, "/*" everything, any other pattern itself (the comment of
\* matchPath, router.go:53-56).
Documented(pattern, path) ==
    IF pattern = Wildcard THEN TRUE
    ELSE IF IsSuffix(Wildcard, pattern)
    THEN LET directory == Front(pattern)
         IN  path = Front(directory) \/ IsPrefix(directory, path)
    ELSE path = pattern

DocumentedFor(r, req) ==
    /\ r.methods # {} => req.method \in r.methods
    /\ r.hosts # {} => req.host \in r.hosts
    /\ Documented(r.path, req.path)

\* No request passes by a route that is documented to take it: it is served by
\* that route or one declared before it (router.Match, "the first match wins").
RoutesTakeTheirRequests ==
    Routed => \A i \in DOMAIN cfg.routes :
                 DocumentedFor(cfg.routes[i], last.req) => Forwarded /\ last.route <= i

\* The endpoints of a route take turns: none is ahead of another by more than
\* one, and by one more each time the counter has wrapped, unless the number of
\* endpoints divides its modulus (RoundRobin.Next).
TurnsBalanced ==
    stage = "serving" =>
        \A id \in DOMAIN turns :
            LET n == Len(registry[id])
                jumps == IF Modulus % n = 0 THEN 0 ELSE wraps[id]
            IN  \A i, j \in 1..n : turns[id][i] <= turns[id][j] + 1 + jumps

\* httputil's own helper.
HttputilJoin(a, b) ==
    LET aslash == IsSuffix(<<"/">>, a)
        bslash == IsPrefix(<<"/">>, b)
    IN  IF aslash /\ bslash THEN a \o Tail(b)
        ELSE IF aslash \/ bslash THEN a \o b
        ELSE a \o <<"/">> \o b

\* "This is equivalent to the unexported helper in net/http/httputil"
\* (server.go:457-458): it is, unless the upstream's path ends in two slashes or
\* the request's begins with two, and then it never is.  The request's may:
\* the mux lets "/%2Fa" through, and a CONNECT of "//a"; the code sends "/a" for
\* both, the helper's "//a".
JoinsLikeHttputil ==
    Forwarded =>
        LET a == last.target.path
            b == last.req.path
        IN  (last.path = HttputilJoin(a, b)) <=> (~IsSuffix(TwoSlashes, a) /\ ~IsPrefix(TwoSlashes, b))

-----------------------------------------------------------------------------
(* What comments say of the router.                                        *)

\* "'/api/*' matches any path starting with '/api/'" (router.go:4-5) and "Match
\* the prefix exactly or as a parent directory" (router.go:60): a route takes
\* no path outside of its pattern.
RoutesTakeOnlyTheirs == Forwarded => DocumentedFor(cfg.routes[last.route], last.req)
=============================================================================
