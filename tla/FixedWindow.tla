---------------------------- MODULE FixedWindow ----------------------------
(***************************************************************************)
(* The two fixed-window counters of the rate limiter, as operators on one  *)
(* entry: the in-memory map of ratelimit.go and the Redis key that the Lua *)
(* script of internal/store/redis.go increments.  An entry holds the calls *)
(* counted in the window and the instant after which the window is over.   *)
(* The Go mutex and Redis' single-threaded execution make each charge one  *)
(* atomic step.                                                            *)
(***************************************************************************)
EXTENDS Integers

CONSTANTS
    Limit,      \* RateLimitCfg.Requests: calls allowed in a window
    Window      \* RateLimitCfg.Window, in ticks

\* A window that rounds to zero milliseconds makes PEXPIRE delete the key at
\* once; the model leaves that configuration out.
ASSUME WindowAssumption == Limit \in Nat /\ Window \in Nat \ {0}

\* No entry in the map, no key in Redis.  Clocks start at 1.
NoEntry == [count |-> 0, resetAt |-> 0]

Entry == [count: Nat, resetAt: Nat]

\* now.After(resetAt), and Redis' rule for an expired key: strictly later.
Over(e, now) == now > e.resetAt

\* Mutants: off by one, in both directions.
WithinLimitOneMore(e) == e.count <= Limit + 1
WithinLimitOneLess(e) == e.count < Limit

\* entry.count <= limit, in Go and in Lua.
WithinLimit(e) == e.count <= Limit

-----------------------------------------------------------------------------
(* memoryLimiter.allow: a window that is over is replaced by a new one.    *)

MemoryCharge(e, now) ==
    LET entry == IF Over(e, now) THEN [count |-> 0, resetAt |-> now + Window] ELSE e
    IN  [entry EXCEPT !.count = @ + 1]

\* Mutant: the cleanup takes the entries whose window is still running.
MemoryCleanLive(e, now) == IF Over(e, now) THEN e ELSE NoEntry

\* cleanExpired, for one entry.
MemoryClean(e, now) == IF Over(e, now) THEN NoEntry ELSE e

-----------------------------------------------------------------------------
(* CheckRateLimit's script: INCR creates the key without an expiry, and    *)
(* the script then sets one.                                               *)

NoTTL == 0

Gone(e, now) == e.count = 0 \/ (e.resetAt # NoTTL /\ Over(e, now))

Incr(e, now) ==
    IF Gone(e, now) THEN [count |-> 1, resetAt |-> NoTTL] ELSE [e EXCEPT !.count = @ + 1]

\* Mutant: the expiry is never set.
RedisChargeNoExpire(e, now) == Incr(e, now)

RedisCharge(e, now) ==
    LET key == Incr(e, now)
    IN  IF key.count = 1 THEN [key EXCEPT !.resetAt = now + Window] ELSE key
=============================================================================
