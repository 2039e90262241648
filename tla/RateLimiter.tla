---------------------------- MODULE RateLimiter ----------------------------
(***************************************************************************)
(* RateLimiter.Allow (internal/middleware/ratelimit.go) on several gateway *)
(* replicas that share one Redis (internal/store/redis.go).                *)
(*                                                                         *)
(* A call asks Redis first when the replica holds a client, and falls back *)
(* to the replica's own memory when that fails.  Asking is script.Run: an  *)
(* EVALSHA, which Redis refuses when it does not hold the script, and then *)
(* an EVAL, which also loads it.  go-redis gives up on a command after a   *)
(* read timeout and sends it again, up to MaxRetries times each; a command *)
(* it gave up on may still reach Redis, or have been executed with only    *)
(* the reply lost.  Redis runs without persistence: a restart loses every  *)
(* counter and the script.  A replica that finds Redis unreachable when it *)
(* starts never asks it again.                                             *)
(***************************************************************************)
EXTENDS FixedWindow, FiniteSets

CONSTANTS
    Gateways,       \* replicas
    Keys,           \* "route:client" counter keys
    Calls,          \* calls of Allow, each made at most once
    Redis,          \* names the shared counter among the sources of verdicts
    MaxRetries,     \* go-redis Options.MaxRetries
    MaxTime,        \* bound on the clock
    MaxFaults       \* bound on restarts of Redis and of replicas

ASSUME LimiterAssumption ==
    /\ IsFiniteSet(Gateways) /\ Redis \notin Gateways
    /\ MaxRetries \in Nat /\ MaxTime \in Nat \ {0} /\ MaxFaults \in Nat

\* The attempts of a call are numbered through, those of its EVALSHA first and
\* then those of its EVAL.
Attempts == MaxRetries + 1
LastTry == 2 * Attempts

VARIABLES
    now,            \* the clock, common to all
    call,           \* per call: where Allow stands, its replica, key and attempt
    connected,      \* per replica: rl.redis is not nil
    memory,         \* per replica and key: memoryLimiter.entries
    redisUp,
    redis,          \* per key: the Redis counter
    cached,         \* Redis holds the script
    wire,           \* commands sent and not executed: one that stays is a lost one
    epoch,          \* per source: how often it lost its counters
    charges         \* history: every increment of a counter, with its verdict

vars == <<now, call, connected, memory, redisUp, redis, cached, wire, epoch, charges>>

Sources == Gateways \cup {Redis}

\* A call of Allow: not made; waiting for Redis at some attempt, which Redis may
\* have refused with NOSCRIPT; about to use the memory counter; returned; gone
\* with its replica.
Unmade   == [stage |-> "new"]
Returned == [stage |-> "returned"]
Lost     == [stage |-> "lost"]
Waiting  == [stage: {"waiting"}, gw: Gateways, key: Keys, try: 1..LastTry]
Refused  == [stage: {"refused"}, gw: Gateways, key: Keys, try: 1..Attempts]
Fallback == [stage: {"fallback"}, gw: Gateways, key: Keys]
Call == {Unmade, Returned, Lost} \cup Waiting \cup Refused \cup Fallback

InProgress(c) == call[c].stage \in {"waiting", "refused", "fallback"}

Command == [call: Calls, key: Keys, try: 1..LastTry]

Charge ==
    [call: Calls, try: 0..LastTry, src: Sources, epoch: 0..MaxFaults,
     key: Keys, win: Nat, at: 1..MaxTime, ok: BOOLEAN]

Faults == epoch[Redis] + Cardinality({f \in Gateways \X (1..MaxFaults) : f[2] <= epoch[f[1]]})

Init ==
    /\ now = 1
    /\ call = [c \in Calls |-> Unmade]
    /\ connected \in [Gateways -> BOOLEAN]
    /\ memory = [g \in Gateways |-> [k \in Keys |-> NoEntry]]
    /\ redisUp = TRUE
    /\ redis = [k \in Keys |-> NoEntry]
    /\ cached \in BOOLEAN
    /\ wire = {}
    /\ epoch = [s \in Sources |-> 0]
    /\ charges = {}

-----------------------------------------------------------------------------
(* RateLimiter.Allow                                                       *)

\* A command leaves the replica; it is lost at once when Redis is down.
Send(c, k, try) ==
    wire' = IF redisUp THEN wire \cup {[call |-> c, key |-> k, try |-> try]} ELSE wire

FallBack(c, g, k) ==
    /\ call' = [call EXCEPT ![c] = [stage |-> "fallback", gw |-> g, key |-> k]]
    /\ UNCHANGED wire

Allow(c, g, k) ==
    /\ call[c] = Unmade
    /\ \/ /\ connected[g]
          /\ call' = [call EXCEPT ![c] = [stage |-> "waiting", gw |-> g, key |-> k, try |-> 1]]
          /\ Send(c, k, 1)
       \/ ~connected[g] /\ FallBack(c, g, k)
    /\ UNCHANGED <<now, connected, memory, redisUp, redis, cached, epoch, charges>>

\* The verdict of the increment that produced entry e.
Verdict(c, try, src, k, e) ==
    [call |-> c, try |-> try, src |-> src, epoch |-> epoch[src], key |-> k,
     win |-> e.resetAt, at |-> now, ok |-> WithinLimit(e)]

\* Redis runs the script; the caller may have given up on it by now.
CheckRateLimit(m) ==
    /\ redisUp
    /\ m \in wire
    /\ cached \/ m.try > Attempts
    /\ cached' = TRUE
    /\ LET e == RedisCharge(redis[m.key], now)
       IN  /\ redis' = [redis EXCEPT ![m.key] = e]
           /\ charges' = charges \cup {Verdict(m.call, m.try, Redis, m.key, e)}
    /\ wire' = wire \ {m}
    /\ UNCHANGED <<now, call, connected, memory, redisUp, epoch>>

\* Redis does not hold the script that the EVALSHA names, and answers NOSCRIPT.
\* One that nobody waits for any more may stay on the wire as a lost one.
NoScript(m) ==
    /\ redisUp
    /\ m \in wire
    /\ ~cached /\ m.try <= Attempts
    /\ call[m.call].stage = "waiting" /\ call[m.call].try = m.try
    /\ call' = [call EXCEPT ![m.call].stage = "refused"]
    /\ wire' = wire \ {m}
    /\ UNCHANGED <<now, connected, memory, redisUp, redis, cached, epoch, charges>>

\* The reply to the attempt the call is waiting for arrives: err == nil.
Reply(c) ==
    /\ call[c].stage = "waiting"
    /\ \E v \in charges : v.call = c /\ v.try = call[c].try
    /\ call' = [call EXCEPT ![c] = Returned]
    /\ UNCHANGED <<now, connected, memory, redisUp, redis, cached, wire, epoch, charges>>

\* The client has call c at its next attempt.
Attempt(c, try) ==
    /\ call' = [call EXCEPT ![c] = [stage |-> "waiting", gw |-> @.gw, key |-> @.key, try |-> try]]
    /\ Send(c, call[c].key, try)

\* The NOSCRIPT arrives: script.Run goes on with EVAL.
Eval(c) ==
    /\ call[c].stage = "refused"
    /\ Attempt(c, Attempts + 1)
    /\ UNCHANGED <<now, connected, memory, redisUp, redis, cached, epoch, charges>>

\* Mutant: the retries start over for ever and the fallback is never taken.
RedisErrorRetriesForever(c) ==
    /\ call[c].stage \in {"waiting", "refused"}
    /\ Attempt(c, 1)
    /\ UNCHANGED <<now, connected, memory, redisUp, redis, cached, epoch, charges>>

\* Mutant: nothing bounds the attempts.
RedisErrorUnbounded(c) ==
    /\ call[c].stage \in {"waiting", "refused"}
    /\ Attempt(c, call[c].try + 1) \/ FallBack(c, call[c].gw, call[c].key)
    /\ UNCHANGED <<now, connected, memory, redisUp, redis, cached, epoch, charges>>

\* A timeout, a broken connection or an error reply ends the attempt: the
\* client sends the command again, or returns the error and Allow falls back.
\* An error that is not worth a retry is returned at any attempt.
RedisError(c) ==
    /\ call[c].stage \in {"waiting", "refused"}
    /\ \/ call[c].try \notin {Attempts, LastTry} /\ Attempt(c, call[c].try + 1)
       \/ FallBack(c, call[c].gw, call[c].key)
    /\ UNCHANGED <<now, connected, memory, redisUp, redis, cached, epoch, charges>>

\* memoryLimiter.allow
MemoryAllow(c) ==
    /\ call[c].stage = "fallback"
    /\ LET g == call[c].gw
           k == call[c].key
           e == MemoryCharge(memory[g][k], now)
       IN  /\ memory' = [memory EXCEPT ![g][k] = e]
           /\ charges' = charges \cup {Verdict(c, 0, g, k, e)}
    /\ call' = [call EXCEPT ![c] = Returned]
    /\ UNCHANGED <<now, connected, redisUp, redis, cached, wire, epoch>>

-----------------------------------------------------------------------------
(* Background work, failures and time.                                     *)

\* One pass of the goroutine that StartCleanup launches.
CleanExpired(g) ==
    /\ memory' = [memory EXCEPT ![g] = [k \in Keys |-> MemoryClean(memory[g][k], now)]]
    /\ UNCHANGED <<now, call, connected, redisUp, redis, cached, wire, epoch, charges>>

\* Redis stops; its counters, the script and the commands in its buffers are gone.
RedisCrash ==
    /\ redisUp
    /\ Faults < MaxFaults
    /\ redisUp' = FALSE
    /\ redis' = [k \in Keys |-> NoEntry]
    /\ cached' = FALSE
    /\ wire' = {}
    /\ epoch' = [epoch EXCEPT ![Redis] = @ + 1]
    /\ UNCHANGED <<now, call, connected, memory, charges>>

RedisStart ==
    /\ ~redisUp
    /\ redisUp' = TRUE
    /\ UNCHANGED <<now, call, connected, memory, redis, cached, wire, epoch, charges>>

\* A replica dies with its calls and its memory and starts again; whether it
\* will use Redis depends on the Ping of NewRedisClient alone.
Restart(g) ==
    /\ Faults < MaxFaults
    /\ \E ping \in BOOLEAN :
          /\ ping => redisUp
          /\ connected' = [connected EXCEPT ![g] = ping]
    /\ memory' = [memory EXCEPT ![g] = [k \in Keys |-> NoEntry]]
    /\ call' = [c \in Calls |-> IF InProgress(c) /\ call[c].gw = g THEN Lost ELSE call[c]]
    /\ epoch' = [epoch EXCEPT ![g] = @ + 1]
    /\ UNCHANGED <<now, redisUp, redis, cached, wire, charges>>

Tick ==
    /\ now < MaxTime
    /\ now' = now + 1
    /\ UNCHANGED <<call, connected, memory, redisUp, redis, cached, wire, epoch, charges>>

CallStep(c) == Reply(c) \/ Eval(c) \/ RedisError(c) \/ MemoryAllow(c)

Next ==
    \/ \E c \in Calls, g \in Gateways, k \in Keys : Allow(c, g, k)
    \/ \E c \in Calls : CallStep(c)
    \/ \E m \in wire : CheckRateLimit(m) \/ NoScript(m)
    \/ \E g \in Gateways : CleanExpired(g) \/ Restart(g)
    \/ RedisCrash \/ RedisStart \/ Tick

Spec == Init /\ [][Next]_vars

\* A handler goroutine is scheduled, go-redis bounds every attempt by its read
\* and dial timeouts, and the cleanup ticker fires.  Nothing is assumed of
\* Redis, of the network or of the clients.
Fairness ==
    /\ \A c \in Calls : WF_vars(CallStep(c))
    /\ \A g \in Gateways : WF_vars(CleanExpired(g))

FairSpec == Spec /\ Fairness

-----------------------------------------------------------------------------
(* Safety.                                                                 *)

TypeOK ==
    /\ now \in 1..MaxTime
    /\ call \in [Calls -> Call]
    /\ connected \in [Gateways -> BOOLEAN]
    /\ memory \in [Gateways -> [Keys -> Entry]]
    /\ redisUp \in BOOLEAN
    /\ redis \in [Keys -> Entry]
    /\ cached \in BOOLEAN
    /\ wire \subseteq Command
    /\ epoch \in [Sources -> 0..MaxFaults]
    /\ charges \subseteq Charge

\* The increments of one counter in one window: a counter that lost its state
\* is another counter.
InWindow(v) ==
    {u \in charges : u.src = v.src /\ u.epoch = v.epoch /\ u.key = v.key /\ u.win = v.win}

Permitted(S) == {v \in S : v.ok}

\* No window of any counter permits more than Limit calls, whatever the
\* retries, late commands, cleanups and fallbacks in between
\* (memoryLimiter.allow, cleanExpired, the script of CheckRateLimit).
WindowQuota == \A v \in charges : Cardinality(Permitted(InWindow(v))) <= Limit

\* A call is denied only when the window it was counted in has given all its
\* permits away.  A retried command may have taken more than one of them.
DenialJustified ==
    \A v \in charges : ~v.ok => Cardinality(Permitted(InWindow(v))) = Limit

\* The windows of a counter are apart and last as long as configured: a call is
\* counted inside its window, and the next window starts only after the last one
\* is over.  So no call, denied ones included, prolongs a denial, no Redis key is
\* left without an expiry, and with WindowQuota every interval as long as the
\* window sees less than twice the limit.  (docs/GoGateway/README.md:29 says
\* "sliding window"; a sliding one would keep to the limit itself.)
WindowsDisjoint ==
    \A v \in charges :
        /\ v.at \in (v.win - Window)..v.win
        /\ \A u \in charges :
              u.src = v.src /\ u.epoch = v.epoch /\ u.key = v.key /\ u.win < v.win =>
                  u.win < v.win - Window

-----------------------------------------------------------------------------
(* Liveness.                                                               *)

\* Every call of Allow returns, whatever happens to Redis, unless its replica
\* dies: "degraded but not broken" (internal/server/server.go:121).
Decided ==
    \A c \in Calls :
        InProgress(c) ~> call[c] \in {Returned, Lost}

\* An entry whose window is over does not stay in the map (cleanExpired).
Reclaimed ==
    \A g \in Gateways, k \in Keys :
        memory[g][k] # NoEntry /\ Over(memory[g][k], now)
            ~> memory[g][k] = NoEntry \/ ~Over(memory[g][k], now)

=============================================================================
