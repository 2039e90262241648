------------------------- MODULE RateLimiterProofs -------------------------
(***************************************************************************)
(* What RateLimiter promises of its counters, for every finite set of      *)
(* replicas, every set of keys and calls, every limit, window, number of   *)
(* retries and number of failures.                                         *)
(*                                                                         *)
(* WindowQuota, DenialJustified and WindowsDisjoint speak of the history   *)
(* of increments.  They are inductive together with CounterInv, which says *)
(* what the live entry of each counter, in memory or in Redis, knows of    *)
(* that history: its window is the last one, and its count, cut off at the *)
(* limit, is the number of permits of that window.  That a charge adds a   *)
(* permit and never repeats one needs CallInv: a retry is a new attempt,   *)
(* and no attempt is executed twice.                                       *)
(***************************************************************************)
EXTENDS RateLimiter, TLAPS, FiniteSetTheorems, FunctionTheorems

-----------------------------------------------------------------------------
(* The inductive invariant.                                                *)

\* The live entry of a counter.
EntryOf(s, k) == IF s = Redis THEN redis[k] ELSE memory[s][k]

\* Of the increments in S, those of one counter, and those of one window of it.
Of(S, s, n, k) == {v \in S : v.src = s /\ v.epoch = n /\ v.key = k}
In(S, s, n, k, w) == {v \in S : v.src = s /\ v.epoch = n /\ v.key = k /\ v.win = w}

\* An entry at some time: none, or one whose window began by then.
EntryOK(e, t) ==
    /\ e \in Entry
    /\ e.count = 0 => e = NoEntry
    /\ e.count > 0 => e.resetAt > 0 /\ e.resetAt <= t + Window

AtMostLimit(n) == IF n <= Limit THEN n ELSE Limit

\* What an entry knows of the increments S of its counter.
CounterOK(e, S, s, n, k, t) ==
    /\ EntryOK(e, t)
    /\ \A v \in Of(S, s, n, k) :
          v.win # e.resetAt => v.win < t /\ (e.count > 0 => v.win < e.resetAt - Window)
    /\ e.count > 0 => Cardinality(Permitted(In(S, s, n, k, e.resetAt))) = AtMostLimit(e.count)

CounterInv == \A s \in Sources, k \in Keys : CounterOK(EntryOf(s, k), charges, s, epoch[s], k, now)

\* Every increment is one of an attempt that was made, and none is repeated:
\* an attempt is on the wire at most once, and no longer when it is executed.
CallInv ==
    /\ \A v \in charges :
          /\ v.epoch <= epoch[v.src] /\ v.win > 0
          /\ call[v.call].stage # "new"
          /\ call[v.call].stage \in {"waiting", "refused"} => v.try <= call[v.call].try
          /\ v.try = 0 => ~InProgress(v.call)
    /\ \A m \in wire :
          /\ call[m.call].stage # "new"
          /\ call[m.call].stage \in {"waiting", "refused"} => m.try <= call[m.call].try
          /\ \A v \in charges : v.call = m.call => v.try # m.try
          /\ \A w \in wire : w.call = m.call /\ w.try = m.try => w = m

Inv ==
    /\ TypeOK /\ IsFiniteSet(charges) /\ CallInv /\ CounterInv
    /\ WindowQuota /\ DenialJustified /\ WindowsDisjoint

-----------------------------------------------------------------------------
(* The two counters do the same to an entry.                               *)

\* c is the entry e with one more call counted at time t.
IsCharge(e, t, c) ==
    /\ c \in Entry
    /\ IF e.count = 0 \/ Over(e, t) THEN c.count = 1 /\ c.resetAt = t + Window
                                  ELSE c.count = e.count + 1 /\ c.resetAt = e.resetAt

\* memoryLimiter.allow and the script of CheckRateLimit charge an entry alike.
LEMMA ChargeFields ==
    ASSUME NEW t \in Nat \ {0}, NEW e, EntryOK(e, t)
    PROVE  IsCharge(e, t, MemoryCharge(e, t)) /\ IsCharge(e, t, RedisCharge(e, t))
<1>1. e \in Entry /\ e.count \in Nat /\ e.resetAt \in Nat /\ Window \in Nat
  BY WindowAssumption DEF WindowAssumption, EntryOK, Entry
<1>2. IsCharge(e, t, MemoryCharge(e, t))
  BY <1>1 DEF EntryOK, IsCharge, MemoryCharge, Over, Entry, NoEntry
<1>3. IsCharge(e, t, RedisCharge(e, t))
  BY <1>1 DEF EntryOK, IsCharge, RedisCharge, Incr, Gone, NoTTL, Over, Entry, NoEntry
<1> QED
  BY <1>2, <1>3

\* A charge leaves an entry whose window has not ended and began at most Window ago.
LEMMA ChargeOK ==
    ASSUME NEW t \in Nat \ {0}, NEW e, EntryOK(e, t), NEW c, IsCharge(e, t, c)
    PROVE  /\ EntryOK(c, t) /\ c.count > 0
           /\ t >= c.resetAt - Window /\ t <= c.resetAt
           /\ c.resetAt # e.resetAt => c.count = 1 /\ c.resetAt - Window = t
BY WindowAssumption DEF WindowAssumption, EntryOK, IsCharge, Over, Entry, NoEntry

-----------------------------------------------------------------------------
(* What a charge does to the history.                                      *)

\* An increment that was permitted is one permit more of its window.
LEMMA PermitAdded ==
    ASSUME NEW S, IsFiniteSet(S), NEW v, v \notin S, v.ok
    PROVE  LET P == Permitted(In(S, v.src, v.epoch, v.key, v.win))
               Q == Permitted(In(S \cup {v}, v.src, v.epoch, v.key, v.win))
           IN  Cardinality(P) \in Nat /\ Cardinality(Q) = Cardinality(P) + 1
<1> DEFINE P == Permitted(In(S, v.src, v.epoch, v.key, v.win))
           Q == Permitted(In(S \cup {v}, v.src, v.epoch, v.key, v.win))
<1>1. P \subseteq S /\ Q = P \cup {v} /\ v \notin P
  BY DEF Permitted, In
<1>2. IsFiniteSet(P)
  BY <1>1, FS_Subset
<1> QED
  BY <1>1, <1>2, FS_AddElement, FS_CardinalityType

\* Other increments, and denied ones, leave the permits of a window as they are.
LEMMA PermitsKept ==
    ASSUME NEW S, NEW v, NEW s, NEW n, NEW k, NEW w,
           v.ok => ~(v.src = s /\ v.epoch = n /\ v.key = k /\ v.win = w)
    PROVE  Permitted(In(S \cup {v}, s, n, k, w)) = Permitted(In(S, s, n, k, w))
BY DEF Permitted, In

\* A charged entry knows of the history what the entry it came from knew, with
\* the increment v that the charge adds.
LEMMA ChargeCounter ==
    ASSUME NEW S \in SUBSET Charge, IsFiniteSet(S), \A u \in S : u.win > 0,
           NEW s, NEW n, NEW k, NEW t \in Nat \ {0},
           NEW e, CounterOK(e, S, s, n, k, t), NEW c, IsCharge(e, t, c),
           NEW v \in Charge, v \notin S,
           v.src = s, v.epoch = n, v.key = k, v.win = c.resetAt, v.ok <=> WithinLimit(c)
    PROVE  /\ CounterOK(c, S \cup {v}, s, n, k, t)
           /\ Cardinality(Permitted(In(S \cup {v}, s, n, k, c.resetAt))) = AtMostLimit(c.count)
           /\ In(S, s, n, k, c.resetAt) # {} => c.resetAt = e.resetAt /\ c.count = e.count + 1 /\ e.count > 0
<1> DEFINE P == Permitted(In(S, s, n, k, c.resetAt))
           Q == Permitted(In(S \cup {v}, s, n, k, c.resetAt))
<1>1. EntryOK(e, t) /\ EntryOK(c, t) /\ c.count > 0 /\ Limit \in Nat /\ Window \in Nat \ {0}
  BY ChargeOK, WindowAssumption DEF WindowAssumption, CounterOK
<1>2. e \in Entry /\ c \in Entry /\ e.count \in Nat /\ e.resetAt \in Nat /\ c.count \in Nat /\ c.resetAt \in Nat
  BY <1>1 DEF EntryOK, Entry
<1>3. \A u \in S \cup {v} : u.win \in Nat
  BY DEF Charge
<1>4. CASE e.count = 0 \/ Over(e, t)
  <2>1. c.count = 1 /\ c.resetAt = t + Window
    BY <1>4 DEF IsCharge
  <2>2. \A u \in Of(S, s, n, k) : u.win < t
    BY <1>1, <1>2, <1>3, <1>4 DEF CounterOK, EntryOK, Of, Over, NoEntry
  <2>3. In(S, s, n, k, c.resetAt) = {}
    BY <1>1, <1>3, <2>1, <2>2 DEF In, Of
  <2>4. P = {}
    BY <2>3 DEF Permitted
  <2>5. Cardinality(P) = 0
    BY <2>4, FS_EmptySet
  <2>6. Cardinality(Q) = AtMostLimit(c.count)
    <3>2. CASE v.ok
      <4>1. Cardinality(Q) = Cardinality(P) + 1
        BY <3>2, PermitAdded
      <4> QED
        BY <1>1, <2>1, <2>5, <3>2, <4>1 DEF WithinLimit, AtMostLimit
    <3>3. CASE ~v.ok
      <4>1. Q = P
        BY <3>3, PermitsKept
      <4> QED
        BY <1>1, <2>1, <2>5, <3>3, <4>1 DEF WithinLimit, AtMostLimit
    <3> QED
      BY <3>2, <3>3
  <2>7. \A u \in Of(S \cup {v}, s, n, k) :
          u.win # c.resetAt => u.win < t /\ u.win < c.resetAt - Window
    BY <1>1, <1>3, <2>1, <2>2 DEF Of
  <2> QED
    BY <1>1, <2>3, <2>6, <2>7 DEF CounterOK
<1>5. CASE ~(e.count = 0 \/ Over(e, t))
  <2>1. c.count = e.count + 1 /\ c.resetAt = e.resetAt /\ e.count > 0
    BY <1>2, <1>5 DEF IsCharge
  <2>2. Cardinality(P) = AtMostLimit(e.count)
    BY <2>1 DEF CounterOK
  <2>3. Cardinality(Q) = AtMostLimit(c.count)
    <3>2. CASE v.ok
      <4>1. Cardinality(Q) = Cardinality(P) + 1
        BY <3>2, PermitAdded
      <4> QED
        BY <1>1, <1>2, <2>1, <2>2, <3>2, <4>1 DEF WithinLimit, AtMostLimit
    <3>3. CASE ~v.ok
      <4>1. Q = P
        BY <3>3, PermitsKept
      <4> QED
        BY <1>1, <1>2, <2>1, <2>2, <3>3, <4>1 DEF WithinLimit, AtMostLimit
    <3> QED
      BY <3>2, <3>3
  <2>4. \A u \in Of(S \cup {v}, s, n, k) :
          u.win # c.resetAt => u.win < t /\ u.win < c.resetAt - Window
    BY <2>1 DEF CounterOK, Of
  <2> QED
    BY <1>1, <2>1, <2>3, <2>4 DEF CounterOK
<1> QED
  BY <1>4, <1>5

-----------------------------------------------------------------------------
(* What the other steps do to what an entry knows.                         *)

\* An increment of another counter is none of this one's.
LEMMA OtherCounter ==
    ASSUME NEW S, NEW s, NEW n, NEW k, NEW t, NEW e, CounterOK(e, S, s, n, k, t),
           NEW v, ~(v.src = s /\ v.epoch = n /\ v.key = k)
    PROVE  CounterOK(e, S \cup {v}, s, n, k, t)
<1>1. Of(S \cup {v}, s, n, k) = Of(S, s, n, k)
  BY DEF Of
<1>2. Permitted(In(S \cup {v}, s, n, k, e.resetAt)) = Permitted(In(S, s, n, k, e.resetAt))
  BY PermitsKept
<1> QED
  BY <1>1, <1>2 DEF CounterOK

\* A window that is over stays over, and one that is running stays the last.
LEMMA CounterAges ==
    ASSUME NEW S \in SUBSET Charge, NEW s, NEW n, NEW k, NEW t \in Nat, NEW e, CounterOK(e, S, s, n, k, t)
    PROVE  CounterOK(e, S, s, n, k, t + 1)
<1>1. \A u \in S : u.win \in Nat
  BY DEF Charge
<1> QED
  BY <1>1, WindowAssumption DEF WindowAssumption, CounterOK, EntryOK, Of, Entry

\* The cleanup takes an entry only when its window is over (cleanExpired).
LEMMA CounterCleaned ==
    ASSUME NEW S \in SUBSET Charge, \A u \in S : u.win > 0,
           NEW s, NEW n, NEW k, NEW t \in Nat, NEW e, CounterOK(e, S, s, n, k, t)
    PROVE  CounterOK(MemoryClean(e, t), S, s, n, k, t)
<1>1. CASE Over(e, t)
  <2>1. MemoryClean(e, t) = NoEntry /\ NoEntry.count = 0 /\ NoEntry \in Entry
    BY <1>1 DEF MemoryClean, NoEntry, Entry
  <2>2. \A u \in Of(S, s, n, k) : u.win < t
    BY <1>1 DEF CounterOK, Of, Over
  <2> QED
    BY <2>1, <2>2 DEF CounterOK, EntryOK, NoEntry
<1>2. CASE ~Over(e, t)
  BY <1>2 DEF MemoryClean
<1> QED
  BY <1>1, <1>2

\* A counter that has just lost its state has no increments.
LEMMA CounterLost ==
    ASSUME NEW S, NEW s, NEW n, NEW k, NEW t, \A u \in S : ~(u.src = s /\ u.epoch = n)
    PROVE  CounterOK(NoEntry, S, s, n, k, t)
<1>1. NoEntry.count = 0 /\ NoEntry \in Entry
  BY DEF NoEntry, Entry
<1>2. Of(S, s, n, k) = {}
  BY DEF Of
<1> QED
  BY <1>1, <1>2 DEF CounterOK, EntryOK

-----------------------------------------------------------------------------
(* What a charge does to the system.                                       *)

\* The step counts one call more in the entry of counter k of s, which becomes c,
\* and remembers it as v.
ChargesCounter(s, k, c, v) ==
    /\ IsCharge(EntryOf(s, k), now, c)
    /\ v \in Charge /\ v \notin charges
    /\ v.src = s /\ v.epoch = epoch[s] /\ v.key = k
    /\ v.win = c.resetAt /\ v.at = now /\ (v.ok <=> WithinLimit(c))
    /\ charges' = charges \cup {v} /\ now' = now /\ epoch' = epoch
    /\ \A r \in Sources, j \in Keys : EntryOf(r, j)' = IF r = s /\ j = k THEN c ELSE EntryOf(r, j)

\* One counter is charged: the promises hold of the window it is charged in,
\* and are not touched for any other.
LEMMA ChargeStep ==
    ASSUME Inv, NEW s \in Sources, NEW k \in Keys, NEW c, NEW v, ChargesCounter(s, k, c, v)
    PROVE  IsFiniteSet(charges') /\ CounterInv' /\ WindowQuota' /\ DenialJustified' /\ WindowsDisjoint'
<1> USE DEF ChargesCounter
<1> DEFINE e == EntryOf(s, k)
           n == epoch[s]
           same(u) == u.src = s /\ u.epoch = n /\ u.key = k /\ u.win = c.resetAt
           Q == Permitted(In(charges \cup {v}, s, n, k, c.resetAt))
<1>1. charges \in SUBSET Charge /\ IsFiniteSet(charges) /\ (\A u \in charges : u.win > 0) /\ now \in Nat \ {0}
      /\ Limit \in Nat /\ Window \in Nat \ {0}
  BY LimiterAssumption, WindowAssumption DEF LimiterAssumption, WindowAssumption, Inv, TypeOK, CallInv
<1>2. CounterOK(e, charges, s, n, k, now)
  BY DEF Inv, CounterInv
<1>3. /\ CounterOK(c, charges \cup {v}, s, n, k, now)
      /\ Cardinality(Q) = AtMostLimit(c.count)
      /\ In(charges, s, n, k, c.resetAt) # {} =>
             c.resetAt = e.resetAt /\ c.count = e.count + 1 /\ e.count > 0
  <2>1. IsCharge(e, now, c) /\ v.src = s /\ v.epoch = n /\ v.key = k
    OBVIOUS
  <2> HIDE DEF e, n
  <2> QED
    BY <1>1, <1>2, <2>1, ChargeCounter, SMTT(30)
<1>4. /\ c.count \in Nat /\ c.resetAt \in Nat /\ c.count > 0
      /\ now >= c.resetAt - Window /\ now <= c.resetAt
  BY <1>1, <1>2, ChargeOK DEF CounterOK, EntryOK, IsCharge, Entry
<1>5. IsFiniteSet(charges')
  BY <1>1, FS_AddElement
<1>6. CounterInv'
  <2> SUFFICES ASSUME NEW r \in Sources, NEW j \in Keys
               PROVE  CounterOK(EntryOf(r, j)', charges \cup {v}, r, epoch[r], j, now)
    BY DEF CounterInv
  <2>1. CASE r = s /\ j = k
    BY <1>3, <2>1
  <2>2. CASE ~(r = s /\ j = k)
    <3>1. CounterOK(EntryOf(r, j), charges, r, epoch[r], j, now)
      BY DEF Inv, CounterInv
    <3>2. CounterOK(EntryOf(r, j), charges \cup {v}, r, epoch[r], j, now)
      BY <2>2, <3>1, OtherCounter
    <3> QED
      BY <2>2, <3>2
  <2> QED
    BY <2>1, <2>2
<1>7. \A u \in charges' : InWindow(u)' = In(charges \cup {v}, u.src, u.epoch, u.key, u.win)
  BY DEF InWindow, In
<1>8. \A u \in charges : InWindow(u) = In(charges, u.src, u.epoch, u.key, u.win)
  BY DEF InWindow, In
<1>9. ASSUME NEW u \in charges', same(u)
      PROVE  Permitted(InWindow(u)') = Q
  BY <1>7, <1>9
<1>10. ASSUME NEW u \in charges', ~same(u)
       PROVE  u \in charges /\ Permitted(InWindow(u)') = Permitted(InWindow(u))
  <2>1. u \in charges
    BY <1>10
  <2> QED
    BY <1>7, <1>8, <1>10, <2>1, PermitsKept
<1>11. Cardinality(Q) <= Limit /\ (~v.ok => Cardinality(Q) = Limit)
  BY <1>1, <1>3, <1>4 DEF AtMostLimit, WithinLimit
<1>12. WindowQuota'
  <2> SUFFICES ASSUME NEW u \in charges'
               PROVE  Cardinality(Permitted(InWindow(u)')) <= Limit
    BY DEF WindowQuota, Permitted, InWindow
  <2>1. CASE same(u)
    BY <1>9, <1>11, <2>1
  <2>2. CASE ~same(u)
    BY <1>10, <2>2 DEF Inv, WindowQuota
  <2> QED
    BY <2>1, <2>2
<1>13. DenialJustified'
  <2> SUFFICES ASSUME NEW u \in charges', ~u.ok
               PROVE  Cardinality(Permitted(InWindow(u)')) = Limit
    BY DEF DenialJustified, Permitted, InWindow
  <2>1. CASE u = v
    BY <1>9, <1>11, <2>1
  <2>2. CASE u # v /\ same(u)
    <3>1. u \in In(charges, s, n, k, c.resetAt) /\ u \in charges
      BY <2>2 DEF In
    <3>2. c.resetAt = e.resetAt /\ c.count = e.count + 1 /\ e.count > 0 /\ e.count \in Nat
      BY <1>2, <1>3, <3>1 DEF CounterOK, EntryOK, Entry
    <3>3. Cardinality(Permitted(InWindow(u))) = Limit
      BY <3>1 DEF Inv, DenialJustified
    <3>4. Cardinality(Permitted(In(charges, s, n, k, e.resetAt))) = AtMostLimit(e.count)
      BY <1>2, <3>2 DEF CounterOK
    <3>5. AtMostLimit(e.count) = Limit
      BY <1>8, <2>2, <3>1, <3>2, <3>3, <3>4
    <3>6. AtMostLimit(c.count) = Limit
      BY <1>1, <3>2, <3>5 DEF AtMostLimit
    <3> QED
      BY <1>3, <1>9, <2>2, <3>6
  <2>3. CASE ~same(u)
    BY <1>10, <2>3 DEF Inv, DenialJustified
  <2> QED
    BY <2>1, <2>2, <2>3
<1>14. WindowsDisjoint'
  <2>1. \A u \in charges' : u.win \in Nat /\ (u.src = s /\ u.epoch = n /\ u.key = k /\ u.win # c.resetAt =>
                                          u.win < c.resetAt - Window)
    BY <1>3, <1>4 DEF CounterOK, Of, Charge, Inv, TypeOK
  <2>2. ASSUME NEW u \in charges'
        PROVE  u.at \in (u.win - Window)..u.win
    BY <1>1, <1>4 DEF Inv, WindowsDisjoint
  <2>3. ASSUME NEW u \in charges', NEW x \in charges',
               x.src = u.src, x.epoch = u.epoch, x.key = u.key, x.win < u.win
        PROVE  x.win < u.win - Window
    <3>1. CASE u = v
      BY <1>1, <1>4, <2>1, <2>3, <3>1
    <3>2. CASE x = v
      BY <1>1, <1>4, <2>1, <2>3, <3>2
    <3>3. CASE u \in charges /\ x \in charges
      BY <2>3, <3>3 DEF Inv, WindowsDisjoint
    <3> QED
      BY <3>1, <3>2, <3>3
  <2> QED
    BY <2>2, <2>3 DEF WindowsDisjoint
<1> QED
  BY <1>5, <1>6, <1>12, <1>13, <1>14

-----------------------------------------------------------------------------
(* Facts the steps share.                                                  *)

\* What the stage of a call says of it.
LEMMA CallStage ==
    ASSUME TypeOK, NEW c \in Calls
    PROVE  /\ call[c].stage = "waiting" =>
                 /\ call[c] = [stage |-> "waiting", gw |-> call[c].gw, key |-> call[c].key, try |-> call[c].try]
                 /\ call[c].gw \in Gateways /\ call[c].key \in Keys /\ call[c].try \in 1..LastTry
           /\ call[c].stage = "refused" =>
                 /\ call[c] = [stage |-> "refused", gw |-> call[c].gw, key |-> call[c].key, try |-> call[c].try]
                 /\ call[c].gw \in Gateways /\ call[c].key \in Keys /\ call[c].try \in 1..Attempts
           /\ call[c].stage = "fallback" => call[c].gw \in Gateways /\ call[c].key \in Keys
           /\ call[c].stage \in {"new", "returned", "lost", "waiting", "refused", "fallback"}
<1>1. call[c] \in Call
  BY DEF TypeOK
<1>2. CASE call[c] \in {Unmade, Returned, Lost}
  BY <1>2 DEF Unmade, Returned, Lost
<1>3. CASE call[c] \in Waiting
  BY <1>3 DEF Waiting
<1>4. CASE call[c] \in Refused
  BY <1>4 DEF Refused
<1>5. CASE call[c] \in Fallback
  BY <1>5 DEF Fallback
<1> QED
  BY <1>1, <1>2, <1>3, <1>4, <1>5 DEF Call

\* The constants and the state in numbers.
LEMMA Numbers ==
    ASSUME TypeOK
    PROVE  /\ Limit \in Nat /\ Window \in Nat \ {0} /\ MaxRetries \in Nat /\ MaxTime \in Nat /\ MaxFaults \in Nat
           /\ Attempts \in Nat \ {0} /\ LastTry \in Nat /\ LastTry = Attempts + Attempts
           /\ now \in 1..MaxTime /\ now \in Nat \ {0}
           /\ \A s \in Sources : epoch[s] \in 0..MaxFaults
           /\ Redis \notin Gateways
BY LimiterAssumption, WindowAssumption DEF LimiterAssumption, WindowAssumption, TypeOK, Attempts, LastTry

\* What is known of a call that is at Redis.
LEMMA AtRedis ==
    ASSUME TypeOK, NEW c \in Calls, call[c].stage \in {"waiting", "refused"}
    PROVE  /\ call[c] = [stage |-> call[c].stage, gw |-> call[c].gw, key |-> call[c].key, try |-> call[c].try]
           /\ call[c].gw \in Gateways /\ call[c].key \in Keys /\ call[c].try \in 1..LastTry
           /\ call[c].stage = "refused" => call[c].try \in 1..Attempts
<1>1. 1..Attempts \subseteq 1..LastTry
  <2>1. Attempts \in Nat /\ LastTry \in Nat /\ Attempts <= LastTry
    BY Numbers
  <2> QED
    BY <2>1
<1>2. CASE call[c].stage = "waiting"
  <2>1. /\ call[c] = [stage |-> "waiting", gw |-> call[c].gw, key |-> call[c].key, try |-> call[c].try]
        /\ call[c].gw \in Gateways /\ call[c].key \in Keys /\ call[c].try \in 1..LastTry
    BY <1>2, CallStage
  <2> QED
    BY <1>2, <2>1, Zenon
<1>3. CASE call[c].stage = "refused"
  <2>1. /\ call[c] = [stage |-> "refused", gw |-> call[c].gw, key |-> call[c].key, try |-> call[c].try]
        /\ call[c].gw \in Gateways /\ call[c].key \in Keys /\ call[c].try \in 1..Attempts
    BY <1>3, CallStage
  <2>2. call[c].try \in 1..LastTry
    BY <1>1, <2>1
  <2> QED
    BY <1>3, <2>1, <2>2, Zenon
<1> QED
  BY <1>2, <1>3

\* A step that charges no counter and moves no clock back keeps the promises.
LEMMA HistoryKept ==
    ASSUME Inv, UNCHANGED charges
    PROVE  IsFiniteSet(charges') /\ WindowQuota' /\ DenialJustified' /\ WindowsDisjoint'
<1>1. IsFiniteSet(charges')
  BY DEF Inv
<1>2. \A v : InWindow(v)' = InWindow(v)
  BY DEF InWindow
<1>3. WindowQuota' /\ DenialJustified'
  BY <1>2 DEF Inv, WindowQuota, DenialJustified, Permitted, InWindow
<1>4. WindowsDisjoint'
  BY DEF Inv, WindowsDisjoint
<1> QED
  BY <1>1, <1>3, <1>4

\* A step that leaves the counters, the clock and the history alone keeps CounterInv.
LEMMA CountersKept ==
    ASSUME Inv, UNCHANGED <<now, memory, redis, epoch, charges>>
    PROVE  CounterInv'
<1>1. \A s \in Sources, k \in Keys : EntryOf(s, k)' = EntryOf(s, k)
  BY DEF EntryOf
<1> QED
  BY <1>1 DEF Inv, CounterInv

-----------------------------------------------------------------------------
(* The initial states.                                                     *)

\* Nothing has been counted yet.
LEMMA InvInit == Init => Inv
<1> SUFFICES ASSUME Init PROVE Inv
  OBVIOUS
<1> USE DEF Init
<1>1. NoEntry \in Entry /\ NoEntry.count = 0
  BY DEF NoEntry, Entry
<1>2. TypeOK
  <2>1. now \in 1..MaxTime
    BY LimiterAssumption DEF LimiterAssumption
  <2>2. call \in [Calls -> Call]
    BY DEF Call
  <2>3. memory \in [Gateways -> [Keys -> Entry]] /\ redis \in [Keys -> Entry]
    BY <1>1
  <2>4. epoch \in [Sources -> 0..MaxFaults]
    BY LimiterAssumption DEF LimiterAssumption
  <2> QED
    BY <2>1, <2>2, <2>3, <2>4 DEF TypeOK
<1>3. IsFiniteSet(charges)
  BY FS_EmptySet
<1>4. CounterInv
  <2> SUFFICES ASSUME NEW s \in Sources, NEW k \in Keys
               PROVE  CounterOK(NoEntry, charges, s, epoch[s], k, now)
    BY DEF CounterInv, EntryOf, Sources
  <2> QED
    BY CounterLost
<1>5. CallInv /\ WindowQuota /\ DenialJustified /\ WindowsDisjoint
  BY DEF CallInv, WindowQuota, DenialJustified, WindowsDisjoint
<1> QED
  BY <1>2, <1>3, <1>4, <1>5 DEF Inv

-----------------------------------------------------------------------------
(* One lemma per action.                                                   *)

\* Allow: the first command of a call, or its fallback, is sent for no charge yet.
LEMMA AllowKeepsInv ==
    ASSUME Inv, NEW c \in Calls, NEW g \in Gateways, NEW k \in Keys, Allow(c, g, k)
    PROVE  Inv'
<1>1. TypeOK /\ CallInv /\ call[c].stage = "new"
  BY DEF Inv, Allow, Unmade
<1> DEFINE m == [call |-> c, key |-> k, try |-> 1]
<1>2. 1 \in 1..LastTry /\ m \in Command
  BY <1>1, Numbers DEF Command
<1>3. PICK r \in Call : /\ r.stage \in {"waiting", "fallback"}
                        /\ r.stage \in {"waiting", "refused"} => r.try = 1
                        /\ call' = [call EXCEPT ![c] = r]
  <2>1. CASE call' = [call EXCEPT ![c] = [stage |-> "waiting", gw |-> g, key |-> k, try |-> 1]]
    <3>1. [stage |-> "waiting", gw |-> g, key |-> k, try |-> 1] \in Call
      BY <1>2 DEF Call, Waiting
    <3> QED
      BY <2>1, <3>1
  <2>2. CASE call' = [call EXCEPT ![c] = [stage |-> "fallback", gw |-> g, key |-> k]]
    <3>1. [stage |-> "fallback", gw |-> g, key |-> k] \in Call
      BY DEF Call, Fallback
    <3> QED
      BY <2>2, <3>1
  <2> QED
    BY <2>1, <2>2 DEF Allow, FallBack
<1>4. wire \subseteq wire' /\ wire' \subseteq wire \cup {m}
  BY DEF Allow, FallBack, Send
<1>5. UNCHANGED <<now, connected, memory, redisUp, redis, cached, epoch, charges>>
  BY DEF Allow
<1>6. TypeOK'
  BY <1>1, <1>2, <1>3, <1>4, <1>5 DEF TypeOK
<1>7. CallInv'
  <2>1. \A d \in Calls : d # c => call'[d] = call[d]
    BY <1>1, <1>3 DEF TypeOK
  <2>2. call'[c].stage # "new" /\ (call'[c].stage \in {"waiting", "refused"} => call'[c].try = 1)
    BY <1>1, <1>3 DEF TypeOK
  <2>3. \A v \in charges : v.call \in Calls /\ v.call # c
    BY <1>1 DEF TypeOK, CallInv, Charge
  <2>4. \A w \in wire : w.call \in Calls /\ w.call # c
    BY <1>1 DEF TypeOK, CallInv, Command
  <2>5. \A v \in charges' : /\ v.epoch <= epoch'[v.src] /\ v.win > 0
                            /\ call'[v.call].stage # "new"
                            /\ call'[v.call].stage \in {"waiting", "refused"} => v.try <= call'[v.call].try
                            /\ v.try = 0 => ~InProgress(v.call)'
    BY <1>1, <1>5, <2>1, <2>3 DEF CallInv, InProgress
  <2>6. ASSUME NEW w \in wire'
        PROVE  /\ call'[w.call].stage # "new"
               /\ call'[w.call].stage \in {"waiting", "refused"} => w.try <= call'[w.call].try
               /\ \A v \in charges' : v.call = w.call => v.try # w.try
               /\ \A u \in wire' : u.call = w.call /\ u.try = w.try => u = w
    <3>1. CASE w \in wire
      BY <1>1, <1>4, <1>5, <2>1, <2>4, <3>1 DEF CallInv
    <3>2. CASE w = m
      BY <1>4, <1>5, <2>2, <2>3, <2>4, <3>2
    <3> QED
      BY <1>4, <3>1, <3>2
  <2> QED
    BY <2>5, <2>6 DEF CallInv
<1> QED
  BY <1>5, <1>6, <1>7, HistoryKept, CountersKept DEF Inv

\* A call that a command was sent for, and that no longer waits at Redis, leaves
\* its commands behind.
LEMMA LeavingRedisKeepsInv ==
    ASSUME Inv, NEW c \in Calls, call[c].stage # "new",
           NEW r \in Call, r.stage \notin {"new", "waiting", "refused"},
           InProgress(c) \/ r.stage # "fallback",
           call' = [call EXCEPT ![c] = r],
           UNCHANGED <<now, connected, memory, redisUp, redis, cached, wire, epoch, charges>>
    PROVE  Inv'
<1>1. TypeOK /\ CallInv
  BY DEF Inv
<1>2. \A d \in Calls : call'[d] = IF d = c THEN r ELSE call[d]
  BY <1>1 DEF TypeOK
<1>3. (\A v \in charges : v.call \in Calls) /\ (\A w \in wire : w.call \in Calls)
  BY <1>1 DEF TypeOK, Charge, Command
<1>4. TypeOK'
  BY <1>1 DEF TypeOK
<1>5. CallInv'
  BY <1>1, <1>2, <1>3 DEF CallInv, InProgress
<1> QED
  BY <1>4, <1>5, HistoryKept, CountersKept DEF Inv

\* Reply: the call returns, its counter was charged before.
LEMMA ReplyKeepsInv ==
    ASSUME Inv, NEW c \in Calls, Reply(c)
    PROVE  Inv'
<1>1. call[c].stage = "waiting" /\ call' = [call EXCEPT ![c] = Returned]
  BY DEF Reply
<1>2. Returned \in Call /\ Returned.stage = "returned"
  BY DEF Call, Returned
<1>3. UNCHANGED <<now, connected, memory, redisUp, redis, cached, wire, epoch, charges>>
  BY DEF Reply
<1> QED
  BY <1>1, <1>2, <1>3, LeavingRedisKeepsInv

\* An attempt with a new number is one that was never charged and is not on the wire.
LEMMA AttemptKeepsInv ==
    ASSUME Inv, NEW c \in Calls, call[c].stage \in {"waiting", "refused"},
           NEW n \in 1..LastTry, n > call[c].try, Attempt(c, n),
           UNCHANGED <<now, connected, memory, redisUp, redis, cached, epoch, charges>>
    PROVE  Inv'
<1> DEFINE m == [call |-> c, key |-> call[c].key, try |-> n]
           r == [stage |-> "waiting", gw |-> call[c].gw, key |-> call[c].key, try |-> n]
<1>1. TypeOK /\ CallInv
  BY DEF Inv
<1>2. call[c].gw \in Gateways /\ call[c].key \in Keys /\ call[c].try \in Nat \ {0} /\ LastTry \in Nat
  <2>1. LastTry \in Nat
    BY <1>1, Numbers
  <2>2. call[c].gw \in Gateways /\ call[c].key \in Keys /\ call[c].try \in 1..LastTry
    BY <1>1, AtRedis
  <2> QED
    BY <2>1, <2>2
<1>3. (\A v \in charges : v.call \in Calls /\ v.try \in Nat) /\ (\A w \in wire : w.call \in Calls /\ w.try \in Nat)
  BY <1>1, <1>2 DEF TypeOK, Charge, Command
<1>4. m \in Command /\ r \in Call /\ r.stage = "waiting" /\ r.try = n
  BY <1>2 DEF Command, Call, Waiting
<1>5. call' = [call EXCEPT ![c] = r]
  BY <1>1 DEF Attempt, TypeOK
<1>6. wire \subseteq wire' /\ wire' \subseteq wire \cup {m}
  BY DEF Attempt, Send
<1>7. \A d \in Calls : call'[d] = IF d = c THEN r ELSE call[d]
  BY <1>1, <1>5 DEF TypeOK
<1>8. m.call = c /\ m.try = n
  OBVIOUS
<1> HIDE DEF m, r
<1>9. TypeOK'
  BY <1>1, <1>4, <1>5, <1>6 DEF TypeOK
<1>10. \A v \in charges' : /\ v.epoch <= epoch'[v.src] /\ v.win > 0
                           /\ call'[v.call].stage # "new"
                           /\ call'[v.call].stage \in {"waiting", "refused"} => v.try <= call'[v.call].try
                           /\ v.try = 0 => ~InProgress(v.call)'
  BY <1>1, <1>2, <1>3, <1>4, <1>7 DEF CallInv, InProgress
<1>11. ASSUME NEW w \in wire'
       PROVE  /\ call'[w.call].stage # "new"
              /\ call'[w.call].stage \in {"waiting", "refused"} => w.try <= call'[w.call].try
              /\ \A v \in charges' : v.call = w.call => v.try # w.try
              /\ \A u \in wire' : u.call = w.call /\ u.try = w.try => u = w
  <2>1. CASE w \in wire
    BY <1>1, <1>2, <1>3, <1>4, <1>6, <1>7, <1>8, <2>1 DEF CallInv
  <2>2. CASE w = m
    BY <1>1, <1>2, <1>3, <1>4, <1>6, <1>7, <1>8, <2>2 DEF CallInv
  <2> QED
    BY <1>6, <2>1, <2>2
<1>12. CallInv'
  BY <1>10, <1>11 DEF CallInv
<1> QED
  BY <1>9, <1>12, HistoryKept, CountersKept DEF Inv

\* RedisError: a retry is a new attempt, and a fallback leaves the old ones behind.
LEMMA RedisErrorKeepsInv ==
    ASSUME Inv, NEW c \in Calls, RedisError(c)
    PROVE  Inv'
<1>1. TypeOK /\ call[c].stage \in {"waiting", "refused"}
  BY DEF Inv, RedisError
<1>2. /\ call[c].gw \in Gateways /\ call[c].key \in Keys
      /\ call[c].try \in 1..LastTry /\ LastTry \in Nat
  <2>1. LastTry \in Nat
    BY <1>1, Numbers
  <2> QED
    BY <1>1, <2>1, AtRedis
<1>3. UNCHANGED <<now, connected, memory, redisUp, redis, cached, epoch, charges>>
  BY DEF RedisError
<1>4. CASE call[c].try \notin {Attempts, LastTry} /\ Attempt(c, call[c].try + 1)
  <2>1. call[c].try + 1 \in 1..LastTry /\ call[c].try + 1 > call[c].try
    BY <1>2, <1>4
  <2> QED
    BY <1>1, <1>3, <1>4, <2>1, AttemptKeepsInv
<1>5. CASE FallBack(c, call[c].gw, call[c].key)
  <2> DEFINE r == [stage |-> "fallback", gw |-> call[c].gw, key |-> call[c].key]
  <2>1. r \in Call /\ r.stage = "fallback"
    BY <1>2 DEF Call, Fallback
  <2>2. call' = [call EXCEPT ![c] = r] /\ wire' = wire
    BY <1>5 DEF FallBack
  <2>3. InProgress(c)
    BY <1>1 DEF InProgress
  <2> HIDE DEF r
  <2> QED
    BY <1>1, <1>3, <2>1, <2>2, <2>3, LeavingRedisKeepsInv
<1> QED
  BY <1>4, <1>5 DEF RedisError

\* Eval: the first attempt of the EVAL is a new one.
LEMMA EvalKeepsInv ==
    ASSUME Inv, NEW c \in Calls, Eval(c)
    PROVE  Inv'
<1>1. TypeOK /\ call[c].stage = "refused"
  BY DEF Inv, Eval
<1>2. Attempts + 1 \in 1..LastTry /\ Attempts + 1 > call[c].try
  <2>1. call[c].try \in 1..Attempts
    BY <1>1, AtRedis
  <2> QED
    BY <1>1, <2>1, Numbers
<1> QED
  BY <1>1, <1>2, AttemptKeepsInv DEF Eval

\* NoScript: the refused attempt is off the wire and was not charged.
LEMMA NoScriptKeepsInv ==
    ASSUME Inv, NEW m \in wire, NoScript(m)
    PROVE  Inv'
<1> DEFINE c == m.call
           r == [stage |-> "refused", gw |-> call[c].gw, key |-> call[c].key, try |-> call[c].try]
<1>1. TypeOK /\ CallInv /\ call[c].stage = "waiting" /\ call[c].try = m.try /\ m.try <= Attempts
  BY DEF Inv, NoScript
<1>2. c \in Calls /\ m \in Command
  BY <1>1 DEF TypeOK, Command
<1>3. /\ call[c].gw \in Gateways /\ call[c].key \in Keys
      /\ call[c].try \in 1..LastTry /\ LastTry \in Nat /\ Attempts \in Nat
  <2>1. LastTry \in Nat /\ Attempts \in Nat
    BY <1>1, Numbers
  <2> QED
    BY <1>1, <1>2, <2>1, AtRedis
<1>4. r \in Call /\ r.stage = "refused" /\ r.try = call[c].try
  BY <1>1, <1>3 DEF Call, Refused
<1>5. call' = [call EXCEPT ![c] = r]
  <2>1. [call[c] EXCEPT !.stage = "refused"] = r
    <3>1. call[c] = [stage |-> call[c].stage, gw |-> call[c].gw, key |-> call[c].key, try |-> call[c].try]
      BY <1>1, <1>2, AtRedis
    <3> QED
      BY <3>1
  <2>2. call' = [call EXCEPT ![c] = [call[c] EXCEPT !.stage = "refused"]]
    BY <1>1, <1>2 DEF NoScript, TypeOK
  <2> QED
    BY <2>1, <2>2
<1>6. wire' = wire \ {m} /\ UNCHANGED <<now, connected, memory, redisUp, redis, cached, epoch, charges>>
  BY DEF NoScript
<1>7. \A d \in Calls : call'[d] = IF d = c THEN r ELSE call[d]
  BY <1>1, <1>2, <1>5 DEF TypeOK
<1>8. (\A v \in charges : v.call \in Calls) /\ (\A w \in wire : w.call \in Calls)
  BY <1>1 DEF TypeOK, Charge, Command
<1> HIDE DEF c, r
<1>9. TypeOK'
  BY <1>1, <1>4, <1>5, <1>6 DEF TypeOK
<1>10. CallInv'
  BY <1>1, <1>4, <1>6, <1>7, <1>8 DEF CallInv, InProgress
<1> QED
  BY <1>6, <1>9, <1>10, HistoryKept, CountersKept DEF Inv

\* A charge, whatever it is made by: the call's verdict is a new one.
LEMMA VerdictFields ==
    ASSUME Inv, NEW d \in Calls, NEW try \in 0..LastTry, NEW s \in Sources, NEW k \in Keys,
           NEW c, IsCharge(EntryOf(s, k), now, c)
    PROVE  LET v == Verdict(d, try, s, k, c)
           IN  /\ v \in Charge /\ v.call = d /\ v.try = try
               /\ v.src = s /\ v.epoch = epoch[s] /\ v.key = k
               /\ v.win = c.resetAt /\ v.at = now /\ v.ok = WithinLimit(c)
               /\ v.win > 0
<1>1. TypeOK /\ CounterOK(EntryOf(s, k), charges, s, epoch[s], k, now)
  BY DEF Inv, CounterInv
<1>2. EntryOK(c, now) /\ c.count > 0 /\ now \in 1..MaxTime
  BY <1>1, ChargeOK, Numbers DEF CounterOK
<1>3. c.resetAt \in Nat /\ c.resetAt > 0
  BY <1>2 DEF EntryOK, Entry
<1>4. epoch[s] \in 0..MaxFaults
  BY <1>1, Numbers
<1>5. WithinLimit(c) \in BOOLEAN
  BY DEF WithinLimit
<1> QED
  BY <1>2, <1>3, <1>4, <1>5 DEF Verdict, Charge

\* memoryLimiter.allow charges the replica's own counter, for a call that has
\* charged none in memory before.
LEMMA MemoryAllowCharges ==
    ASSUME Inv, NEW d \in Calls, MemoryAllow(d)
    PROVE  LET g == call[d].gw
               k == call[d].key
               c == MemoryCharge(memory[g][k], now)
               v == Verdict(d, 0, g, k, c)
           IN  /\ g \in Gateways /\ k \in Keys /\ ChargesCounter(g, k, c, v)
               /\ v.call = d /\ v.try = 0 /\ v.win > 0
               /\ \A u \in charges : ~(u.call = d /\ u.try = 0)
<1> DEFINE g == call[d].gw
           k == call[d].key
           c == MemoryCharge(memory[g][k], now)
           v == Verdict(d, 0, g, k, c)
<1>1. TypeOK /\ CallInv /\ CounterInv /\ call[d].stage = "fallback"
  BY DEF Inv, MemoryAllow
<1>2. g \in Gateways /\ k \in Keys /\ g \in Sources /\ g # Redis /\ now \in Nat \ {0} /\ 0 \in 0..LastTry
  <2>1. g \in Gateways /\ k \in Keys
    BY <1>1, CallStage
  <2>2. now \in Nat \ {0} /\ LastTry \in Nat /\ Redis \notin Gateways
    BY <1>1, Numbers
  <2> QED
    BY <2>1, <2>2 DEF Sources
<1>3. EntryOf(g, k) = memory[g][k]
  BY <1>2 DEF EntryOf
<1>4. /\ memory' = [memory EXCEPT ![g][k] = c] /\ charges' = charges \cup {v}
      /\ UNCHANGED <<now, connected, redisUp, redis, cached, wire, epoch>>
  BY DEF MemoryAllow
<1> HIDE DEF g, k
<1>5. EntryOK(EntryOf(g, k), now)
  BY <1>1, <1>2 DEF CounterInv, CounterOK
<1>6. IsCharge(EntryOf(g, k), now, c)
  BY <1>2, <1>3, <1>5, ChargeFields
<1>7. /\ v \in Charge /\ v.call = d /\ v.try = 0
      /\ v.src = g /\ v.epoch = epoch[g] /\ v.key = k
      /\ v.win = c.resetAt /\ v.at = now /\ v.ok = WithinLimit(c)
      /\ v.win > 0
  BY <1>2, <1>6, VerdictFields
<1>8. \A u \in charges : ~(u.call = d /\ u.try = 0)
  BY <1>1 DEF CallInv, InProgress
<1> HIDE DEF c, v
<1>9. \A r \in Sources, j \in Keys : EntryOf(r, j)' = IF r = g /\ j = k THEN c ELSE EntryOf(r, j)
  BY <1>1, <1>2, <1>4 DEF EntryOf, Sources, TypeOK
<1>10. ChargesCounter(g, k, c, v)
  BY <1>4, <1>6, <1>7, <1>8, <1>9 DEF ChargesCounter
<1> QED
  BY <1>2, <1>7, <1>8, <1>10 DEF g, k, c, v

\* memoryLimiter.allow keeps what is known of calls and counters.
LEMMA MemoryAllowKeepsInv ==
    ASSUME Inv, NEW d \in Calls, MemoryAllow(d)
    PROVE  Inv'
<1> DEFINE g == call[d].gw
           k == call[d].key
           c == MemoryCharge(memory[g][k], now)
           v == Verdict(d, 0, g, k, c)
<1>1. TypeOK /\ CallInv
  BY DEF Inv
<1>2. /\ memory' = [memory EXCEPT ![g][k] = c] /\ charges' = charges \cup {v}
      /\ call' = [call EXCEPT ![d] = Returned]
      /\ UNCHANGED <<now, connected, redisUp, redis, cached, wire, epoch>>
  BY DEF MemoryAllow
<1>3. /\ g \in Gateways /\ k \in Keys /\ g \in Sources /\ ChargesCounter(g, k, c, v)
      /\ v.call = d /\ v.try = 0 /\ v.win > 0
  BY MemoryAllowCharges DEF Sources
<1> HIDE DEF g, k, c, v
<1>4. v \in Charge /\ v.src = g /\ v.epoch = epoch[g] /\ c \in Entry
  BY <1>3 DEF ChargesCounter, IsCharge
<1>5. IsFiniteSet(charges') /\ CounterInv' /\ WindowQuota' /\ DenialJustified' /\ WindowsDisjoint'
  BY <1>3, ChargeStep
<1>6. \A e \in Calls : call'[e] = IF e = d THEN Returned ELSE call[e]
  BY <1>1, <1>2 DEF TypeOK
<1>7. TypeOK'
  <2>1. memory' \in [Gateways -> [Keys -> Entry]]
    BY <1>1, <1>2, <1>3, <1>4 DEF TypeOK
  <2>2. call' \in [Calls -> Call]
    BY <1>1, <1>2 DEF TypeOK, Call
  <2> QED
    BY <1>1, <1>2, <1>4, <2>1, <2>2 DEF TypeOK
<1>8. CallInv'
  <2>1. Returned.stage = "returned"
    BY DEF Returned
  <2>2. (\A u \in charges : u.call \in Calls) /\ (\A w \in wire : w.call \in Calls /\ w.try # 0)
    BY <1>1 DEF TypeOK, Charge, Command
  <2>3. epoch[g] \in Nat
    BY <1>1, <1>3 DEF TypeOK
  <2>4. \A u \in charges' : /\ u.epoch <= epoch'[u.src] /\ u.win > 0
                            /\ call'[u.call].stage # "new"
                            /\ call'[u.call].stage \in {"waiting", "refused"} => u.try <= call'[u.call].try
                            /\ u.try = 0 => ~InProgress(u.call)'
    BY <1>1, <1>2, <1>3, <1>4, <1>6, <2>1, <2>2, <2>3 DEF CallInv, InProgress
  <2>5. \A w \in wire' : /\ call'[w.call].stage # "new"
                         /\ call'[w.call].stage \in {"waiting", "refused"} => w.try <= call'[w.call].try
                         /\ \A u \in charges' : u.call = w.call => u.try # w.try
                         /\ \A u \in wire' : u.call = w.call /\ u.try = w.try => u = w
    BY <1>1, <1>2, <1>3, <1>4, <1>6, <2>1, <2>2 DEF CallInv
  <2> QED
    BY <2>4, <2>5 DEF CallInv
<1> QED
  BY <1>5, <1>7, <1>8 DEF Inv

\* The script of CheckRateLimit charges the counter in Redis, for an attempt
\* that was not executed before.
LEMMA CheckRateLimitCharges ==
    ASSUME Inv, NEW m \in wire, CheckRateLimit(m)
    PROVE  LET c == RedisCharge(redis[m.key], now)
               v == Verdict(m.call, m.try, Redis, m.key, c)
           IN  /\ m.call \in Calls /\ m.key \in Keys /\ m.try \in 1..LastTry
               /\ ChargesCounter(Redis, m.key, c, v)
               /\ v.call = m.call /\ v.try = m.try /\ v.win > 0
               /\ \A u \in charges : ~(u.call = m.call /\ u.try = m.try)
<1> DEFINE k == m.key
           c == RedisCharge(redis[k], now)
           v == Verdict(m.call, m.try, Redis, k, c)
<1>1. TypeOK /\ CallInv /\ CounterInv
  BY DEF Inv
<1>2. /\ m \in Command /\ m.call \in Calls /\ k \in Keys /\ m.try \in 1..LastTry /\ m.try \in 0..LastTry
      /\ Redis \in Sources /\ now \in Nat \ {0}
  BY <1>1, Numbers DEF TypeOK, Command, Sources
<1>3. EntryOf(Redis, k) = redis[k]
  BY DEF EntryOf
<1>4. /\ redis' = [redis EXCEPT ![k] = c] /\ charges' = charges \cup {v}
      /\ UNCHANGED <<now, call, connected, memory, redisUp, epoch>>
  BY DEF CheckRateLimit
<1> HIDE DEF k
<1>5. EntryOK(EntryOf(Redis, k), now)
  BY <1>1, <1>2 DEF CounterInv, CounterOK
<1>6. IsCharge(EntryOf(Redis, k), now, c)
  BY <1>2, <1>3, <1>5, ChargeFields
<1>7. /\ v \in Charge /\ v.call = m.call /\ v.try = m.try
      /\ v.src = Redis /\ v.epoch = epoch[Redis] /\ v.key = k
      /\ v.win = c.resetAt /\ v.at = now /\ v.ok = WithinLimit(c)
      /\ v.win > 0
  BY <1>2, <1>6, VerdictFields
<1>8. \A u \in charges : ~(u.call = m.call /\ u.try = m.try)
  BY <1>1 DEF CallInv
<1> HIDE DEF c, v
<1>9. \A r \in Sources, j \in Keys : EntryOf(r, j)' = IF r = Redis /\ j = k THEN c ELSE EntryOf(r, j)
  BY <1>1, <1>2, <1>4 DEF EntryOf, Sources, TypeOK
<1>10. ChargesCounter(Redis, k, c, v)
  BY <1>4, <1>6, <1>7, <1>8, <1>9 DEF ChargesCounter
<1> QED
  BY <1>2, <1>7, <1>8, <1>10 DEF k, c, v

\* CheckRateLimit keeps what is known of calls, commands and counters.
LEMMA CheckRateLimitKeepsInv ==
    ASSUME Inv, NEW m \in wire, CheckRateLimit(m)
    PROVE  Inv'
<1> DEFINE k == m.key
           c == RedisCharge(redis[k], now)
           v == Verdict(m.call, m.try, Redis, k, c)
<1>1. TypeOK /\ CallInv /\ Redis \in Sources
  BY DEF Inv, Sources
<1>2. /\ redis' = [redis EXCEPT ![k] = c] /\ charges' = charges \cup {v} /\ wire' = wire \ {m}
      /\ cached' = TRUE /\ UNCHANGED <<now, call, connected, memory, redisUp, epoch>>
  BY DEF CheckRateLimit
<1>3. /\ k \in Keys /\ m.try \in 1..LastTry /\ ChargesCounter(Redis, k, c, v)
      /\ v.call = m.call /\ v.try = m.try /\ v.win > 0
  BY CheckRateLimitCharges
<1> HIDE DEF k, c, v
<1>4. v \in Charge /\ v.src = Redis /\ v.epoch = epoch[Redis] /\ c \in Entry
  BY <1>3 DEF ChargesCounter, IsCharge
<1>5. IsFiniteSet(charges') /\ CounterInv' /\ WindowQuota' /\ DenialJustified' /\ WindowsDisjoint'
  BY <1>1, <1>3, ChargeStep
<1>6. TypeOK'
  BY <1>1, <1>2, <1>3, <1>4 DEF TypeOK
<1>7. CallInv'
  <2>1. epoch[Redis] \in Nat /\ m.try # 0
    BY <1>1, <1>3 DEF TypeOK
  <2>2. \A u \in charges' : /\ u.epoch <= epoch'[u.src] /\ u.win > 0
                            /\ call'[u.call].stage # "new"
                            /\ call'[u.call].stage \in {"waiting", "refused"} => u.try <= call'[u.call].try
                            /\ u.try = 0 => ~InProgress(u.call)'
    BY <1>1, <1>2, <1>3, <1>4, <2>1 DEF CallInv, InProgress
  <2>3. \A w \in wire' : ~(w.call = m.call /\ w.try = m.try)
    BY <1>1, <1>2 DEF CallInv
  <2>4. \A w \in wire' : /\ call'[w.call].stage # "new"
                         /\ call'[w.call].stage \in {"waiting", "refused"} => w.try <= call'[w.call].try
                         /\ \A u \in charges' : u.call = w.call => u.try # w.try
                         /\ \A u \in wire' : u.call = w.call /\ u.try = w.try => u = w
    BY <1>1, <1>2, <1>3, <1>4, <2>3 DEF CallInv
  <2> QED
    BY <2>2, <2>4 DEF CallInv
<1> QED
  BY <1>5, <1>6, <1>7 DEF Inv

\* No source has lost its counters more often than there were faults.
LEMMA FaultsBound ==
    ASSUME TypeOK, Faults < MaxFaults, NEW s \in Sources
    PROVE  epoch[s] < MaxFaults
<1> DEFINE F == {f \in Gateways \X (1..MaxFaults) : f[2] <= epoch[f[1]]}
<1>1. MaxFaults \in Nat /\ epoch[Redis] \in Nat /\ \A g \in Gateways : epoch[g] \in 0..MaxFaults
  BY LimiterAssumption DEF LimiterAssumption, TypeOK, Sources
<1>2. IsFiniteSet(F)
  <2>1. IsFiniteSet(1..MaxFaults)
    BY <1>1, FS_Interval
  <2>2. IsFiniteSet(Gateways \X (1..MaxFaults))
    BY <2>1, LimiterAssumption, FS_Product DEF LimiterAssumption
  <2> QED
    BY <2>2, FS_Subset
<1>3. Cardinality(F) \in Nat
  BY <1>2, FS_CardinalityType
<1>4. epoch[Redis] + Cardinality(F) < MaxFaults
  BY DEF Faults
<1>5. CASE s = Redis
  BY <1>1, <1>3, <1>4, <1>5
<1>6. CASE s \in Gateways
  <2> DEFINE G == {s} \X (1..epoch[s])
  <2>1. epoch[s] \in 0..MaxFaults
    BY <1>1, <1>6
  <2>2. IsFiniteSet({s}) /\ Cardinality({s}) = 1
    BY FS_Singleton
  <2>3. IsFiniteSet(1..epoch[s]) /\ Cardinality(1..epoch[s]) = epoch[s]
    <3>1. \A n \in Nat : IsFiniteSet(1..n) /\ Cardinality(1..n) = n
      BY FS_Interval
    <3>2. epoch[s] \in Nat
      BY <2>1
    <3> QED
      BY <3>1, <3>2
  <2>4. Cardinality(G) = epoch[s]
    <3>1. Cardinality(G) = Cardinality({s}) * Cardinality(1..epoch[s])
      BY <2>2, <2>3, FS_Product
    <3> QED
      BY <2>1, <2>2, <2>3, <3>1
  <2>5. G \subseteq F
    BY <1>1, <1>6, <2>1
  <2>6. Cardinality(G) <= Cardinality(F)
    BY <1>2, <2>5, FS_Subset
  <2> HIDE DEF F, G
  <2> QED
    BY <1>1, <1>3, <1>4, <2>1, <2>4, <2>6
<1> QED
  BY <1>5, <1>6 DEF Sources

\* cleanExpired
LEMMA CleanExpiredKeepsInv ==
    ASSUME Inv, NEW g \in Gateways, CleanExpired(g)
    PROVE  Inv'
<1>1. TypeOK /\ CallInv /\ CounterInv /\ g \in Sources /\ now \in Nat /\ (\A u \in charges : u.win > 0)
  BY Numbers DEF Inv, Sources, CallInv
<1>2. memory' = [memory EXCEPT ![g] = [k \in Keys |-> MemoryClean(memory[g][k], now)]]
  BY DEF CleanExpired
<1>3. UNCHANGED <<now, call, connected, redisUp, redis, cached, wire, epoch, charges>>
  BY DEF CleanExpired
<1>4. CounterInv'
  <2> SUFFICES ASSUME NEW s \in Sources, NEW k \in Keys
               PROVE  CounterOK(EntryOf(s, k)', charges, s, epoch[s], k, now)
    BY <1>3 DEF CounterInv
  <2>1. CounterOK(EntryOf(s, k), charges, s, epoch[s], k, now) /\ charges \in SUBSET Charge
    BY <1>1 DEF CounterInv, TypeOK
  <2>2. CASE s = g
    <3>1. EntryOf(s, k)' = MemoryClean(EntryOf(s, k), now)
      BY <1>1, <1>2, <2>2, Numbers DEF EntryOf, TypeOK
    <3> QED
      BY <1>1, <2>1, <3>1, CounterCleaned
  <2>3. CASE s # g
    <3>1. EntryOf(s, k)' = EntryOf(s, k)
      BY <1>1, <1>2, <1>3, <2>3 DEF EntryOf, TypeOK, Sources
    <3> QED
      BY <2>1, <3>1
  <2> QED
    BY <2>2, <2>3
<1>5. TypeOK'
  <2>1. \A k \in Keys : MemoryClean(memory[g][k], now) \in Entry
    BY <1>1 DEF TypeOK, MemoryClean, NoEntry, Entry
  <2> QED
    BY <1>1, <1>2, <1>3, <2>1 DEF TypeOK
<1>6. CallInv'
  BY <1>1, <1>3 DEF CallInv, InProgress
<1> QED
  BY <1>3, <1>4, <1>5, <1>6, HistoryKept DEF Inv

\* A counter that loses its state is another counter from then on, in Redis ...
LEMMA RedisCrashKeepsInv ==
    ASSUME Inv, RedisCrash
    PROVE  Inv'
<1>1. TypeOK /\ CallInv /\ CounterInv /\ Redis \in Sources
  BY DEF Inv, Sources
<1>2. epoch[Redis] < MaxFaults /\ epoch[Redis] \in Nat /\ MaxFaults \in Nat
  BY <1>1, FaultsBound, Numbers DEF RedisCrash
<1>3. /\ redisUp' = FALSE /\ redis' = [k \in Keys |-> NoEntry] /\ cached' = FALSE /\ wire' = {}
      /\ epoch' = [epoch EXCEPT ![Redis] = @ + 1]
      /\ UNCHANGED <<now, call, connected, memory, charges>>
  BY DEF RedisCrash
<1>4. \A s \in Sources : epoch'[s] = IF s = Redis THEN epoch[s] + 1 ELSE epoch[s]
  BY <1>1, <1>3 DEF TypeOK
<1>5. \A u \in charges : u.src \in Sources /\ u.epoch \in Nat /\ epoch[u.src] \in Nat /\ u.epoch <= epoch[u.src]
  BY <1>1, Numbers DEF TypeOK, Charge, CallInv
<1>6. TypeOK'
  <2>1. NoEntry \in Entry
    BY DEF NoEntry, Entry
  <2>2. epoch' \in [Sources -> 0..MaxFaults]
    BY <1>1, <1>2, <1>3 DEF TypeOK
  <2> QED
    BY <1>1, <1>3, <2>1, <2>2 DEF TypeOK
<1>7. CallInv'
  BY <1>1, <1>3, <1>4, <1>5 DEF CallInv, InProgress
<1>8. CounterInv'
  <2> SUFFICES ASSUME NEW s \in Sources, NEW k \in Keys
               PROVE  CounterOK(EntryOf(s, k)', charges, s, epoch'[s], k, now)
    BY <1>3 DEF CounterInv
  <2>1. CASE s = Redis
    <3>1. EntryOf(s, k)' = NoEntry
      BY <1>3, <2>1 DEF EntryOf
    <3>2. \A u \in charges : ~(u.src = s /\ u.epoch = epoch'[s])
      BY <1>4, <1>5, <2>1
    <3> QED
      BY <3>1, <3>2, CounterLost
  <2>2. CASE s # Redis
    <3>1. EntryOf(s, k)' = EntryOf(s, k) /\ epoch'[s] = epoch[s]
      BY <1>3, <1>4, <2>2 DEF EntryOf
    <3> QED
      BY <1>1, <3>1 DEF CounterInv
  <2> QED
    BY <2>1, <2>2
<1> QED
  BY <1>3, <1>6, <1>7, <1>8, HistoryKept DEF Inv

\* Redis comes back with no counters, in a new epoch.
LEMMA RedisStartKeepsInv ==
    ASSUME Inv, RedisStart
    PROVE  Inv'
<1>1. redisUp' = TRUE /\ UNCHANGED <<now, call, connected, memory, redis, cached, wire, epoch, charges>>
  BY DEF RedisStart
<1>2. TypeOK'
  BY <1>1 DEF Inv, TypeOK
<1>3. CallInv'
  BY <1>1 DEF Inv, CallInv, InProgress
<1> QED
  BY <1>1, <1>2, <1>3, HistoryKept, CountersKept DEF Inv

\* ... and in the memory of a replica.
LEMMA RestartKeepsInv ==
    ASSUME Inv, NEW g \in Gateways, Restart(g)
    PROVE  Inv'
<1>1. TypeOK /\ CallInv /\ CounterInv /\ g \in Sources /\ g # Redis
  BY Numbers DEF Inv, Sources
<1>2. epoch[g] < MaxFaults /\ epoch[g] \in Nat /\ MaxFaults \in Nat
  BY <1>1, FaultsBound, Numbers DEF Restart
<1>3. /\ memory' = [memory EXCEPT ![g] = [k \in Keys |-> NoEntry]]
      /\ call' = [c \in Calls |-> IF InProgress(c) /\ call[c].gw = g THEN Lost ELSE call[c]]
      /\ epoch' = [epoch EXCEPT ![g] = @ + 1]
      /\ UNCHANGED <<now, redisUp, redis, cached, wire, charges>>
  BY DEF Restart
<1>4. \A s \in Sources : epoch'[s] = IF s = g THEN epoch[s] + 1 ELSE epoch[s]
  BY <1>1, <1>3 DEF TypeOK
<1>5. \A u \in charges : /\ u.src \in Sources /\ u.epoch \in Nat /\ epoch[u.src] \in Nat /\ u.epoch <= epoch[u.src]
                         /\ u.call \in Calls
  BY <1>1, Numbers DEF TypeOK, Charge, CallInv
<1>6. \A c \in Calls : call'[c] = call[c] \/ (InProgress(c) /\ call'[c].stage = "lost")
  BY <1>3 DEF Lost
<1>7. TypeOK'
  <2>1. NoEntry \in Entry
    BY DEF NoEntry, Entry
  <2>2. epoch' \in [Sources -> 0..MaxFaults]
    BY <1>1, <1>2, <1>3 DEF TypeOK
  <2>3. connected' \in [Gateways -> BOOLEAN]
    BY <1>1 DEF Restart, TypeOK
  <2>4. call' \in [Calls -> Call]
    BY <1>1, <1>3 DEF TypeOK, Call
  <2>5. memory' \in [Gateways -> [Keys -> Entry]]
    BY <1>1, <1>3, <2>1 DEF TypeOK
  <2> QED
    BY <1>1, <1>3, <2>2, <2>3, <2>4, <2>5 DEF TypeOK
<1>8. CallInv'
  <2>1. \A w \in wire : w.call \in Calls
    BY <1>1 DEF TypeOK, Command
  <2>2. \A u \in charges' : /\ u.epoch <= epoch'[u.src] /\ u.win > 0
                            /\ call'[u.call].stage # "new"
                            /\ call'[u.call].stage \in {"waiting", "refused"} => u.try <= call'[u.call].try
                            /\ u.try = 0 => ~InProgress(u.call)'
    BY <1>1, <1>3, <1>4, <1>5, <1>6 DEF CallInv, InProgress
  <2>3. \A w \in wire' : /\ call'[w.call].stage # "new"
                         /\ call'[w.call].stage \in {"waiting", "refused"} => w.try <= call'[w.call].try
                         /\ \A u \in charges' : u.call = w.call => u.try # w.try
                         /\ \A x \in wire' : x.call = w.call /\ x.try = w.try => x = w
    BY <1>1, <1>3, <1>6, <2>1 DEF CallInv
  <2> QED
    BY <2>2, <2>3 DEF CallInv
<1>9. CounterInv'
  <2> SUFFICES ASSUME NEW s \in Sources, NEW k \in Keys
               PROVE  CounterOK(EntryOf(s, k)', charges, s, epoch'[s], k, now)
    BY <1>3 DEF CounterInv
  <2>1. CASE s = g
    <3>1. EntryOf(s, k)' = NoEntry
      BY <1>1, <1>3, <2>1 DEF EntryOf, TypeOK
    <3>2. \A u \in charges : ~(u.src = s /\ u.epoch = epoch'[s])
      BY <1>4, <1>5, <2>1
    <3> QED
      BY <3>1, <3>2, CounterLost
  <2>2. CASE s # g
    <3>1. EntryOf(s, k)' = EntryOf(s, k) /\ epoch'[s] = epoch[s]
      BY <1>1, <1>3, <1>4, <2>2 DEF EntryOf, TypeOK, Sources
    <3> QED
      BY <1>1, <3>1 DEF CounterInv
  <2> QED
    BY <2>1, <2>2
<1> QED
  BY <1>3, <1>7, <1>8, <1>9, HistoryKept DEF Inv

\* Time passes: windows end, none begins.
LEMMA TickKeepsInv ==
    ASSUME Inv, Tick
    PROVE  Inv'
<1>1. TypeOK /\ CallInv /\ CounterInv /\ now \in 1..MaxTime /\ MaxTime \in Nat
  BY Numbers DEF Inv
<1>2. now < MaxTime /\ now' = now + 1 /\ UNCHANGED <<call, connected, memory, redisUp, redis, cached, wire, epoch, charges>>
  BY DEF Tick
<1>3. TypeOK'
  BY <1>1, <1>2 DEF TypeOK
<1>4. CallInv'
  BY <1>1, <1>2 DEF CallInv, InProgress
<1>5. CounterInv'
  <2> SUFFICES ASSUME NEW s \in Sources, NEW k \in Keys
               PROVE  CounterOK(EntryOf(s, k), charges, s, epoch[s], k, now + 1)
    BY <1>2 DEF CounterInv, EntryOf
  <2>1. CounterOK(EntryOf(s, k), charges, s, epoch[s], k, now) /\ charges \in SUBSET Charge /\ now \in Nat
    BY <1>1 DEF CounterInv, TypeOK
  <2> QED
    BY <2>1, CounterAges
<1> QED
  BY <1>2, <1>3, <1>4, <1>5, HistoryKept DEF Inv

-----------------------------------------------------------------------------
(* The theorems.                                                           *)

\* Every step keeps the inductive invariant.
LEMMA InvNext == Inv /\ [Next]_vars => Inv'
<1> SUFFICES ASSUME Inv, [Next]_vars PROVE Inv'
  OBVIOUS
<1>1. ASSUME NEW c \in Calls, NEW g \in Gateways, NEW k \in Keys, Allow(c, g, k) PROVE Inv'
  BY <1>1, AllowKeepsInv
<1>2. ASSUME NEW c \in Calls, CallStep(c) PROVE Inv'
  BY <1>2, ReplyKeepsInv, EvalKeepsInv, RedisErrorKeepsInv, MemoryAllowKeepsInv DEF CallStep
<1>3. ASSUME NEW m \in wire, CheckRateLimit(m) \/ NoScript(m) PROVE Inv'
  BY <1>3, CheckRateLimitKeepsInv, NoScriptKeepsInv
<1>4. ASSUME NEW g \in Gateways, CleanExpired(g) \/ Restart(g) PROVE Inv'
  BY <1>4, CleanExpiredKeepsInv, RestartKeepsInv
<1>5. ASSUME RedisCrash \/ RedisStart \/ Tick PROVE Inv'
  BY <1>5, RedisCrashKeepsInv, RedisStartKeepsInv, TickKeepsInv
<1>6. ASSUME UNCHANGED vars PROVE Inv'
  <2>1. UNCHANGED <<now, memory, redis, epoch, charges>>
    BY <1>6 DEF vars
  <2>2. TypeOK'
    BY <1>6 DEF Inv, TypeOK, vars
  <2>3. CallInv'
    BY <1>6 DEF Inv, CallInv, InProgress, vars
  <2> QED
    BY <2>1, <2>2, <2>3, HistoryKept, CountersKept DEF Inv
<1> QED
  BY <1>1, <1>2, <1>3, <1>4, <1>5, <1>6 DEF Next

\* The inductive invariant holds throughout.
THEOREM Invariance == Spec => []Inv
BY InvInit, InvNext, PTL DEF Spec

\* Every variable of the limiter keeps its type (rateLimitEntry, RateLimiter,
\* the keys of Redis); a source of verdicts never fails more often than allowed.
THEOREM TypeCorrect == Spec => []TypeOK
<1>1. Inv => TypeOK
  BY DEF Inv
<1> QED
  BY <1>1, Invariance, PTL

\* No window of a counter permits more than the limit, in memory or in Redis,
\* however many replicas, retries, late commands and restarts there are
\* (memoryLimiter.allow, the script of CheckRateLimit).
THEOREM QuotaKept == Spec => []WindowQuota
<1>1. Inv => WindowQuota
  BY DEF Inv
<1> QED
  BY <1>1, Invariance, PTL

\* A denied call was counted in a window that gave all its permits away.
THEOREM DenialsJustified == Spec => []DenialJustified
<1>1. Inv => DenialJustified
  BY DEF Inv
<1> QED
  BY <1>1, Invariance, PTL

\* A counter's windows never overlap, and a call is counted inside its window.
THEOREM WindowsApart == Spec => []WindowsDisjoint
<1>1. Inv => WindowsDisjoint
  BY DEF Inv
<1> QED
  BY <1>1, Invariance, PTL

-----------------------------------------------------------------------------
(* What follows for a client: any interval, and any one call.              *)

\* The permits a counter gives from instant t on, for as long as a window lasts.
PermitsFrom(s, n, k, t) ==
    {v \in charges : v.src = s /\ v.epoch = n /\ v.key = k /\ v.ok /\ v.at \in t..(t + Window)}

\* Around the end of a window a client may use more than the limit, but less
\* than twice of it, however its calls are timed (docs/GoGateway/README.md:29
\* says "sliding window", which would keep to the limit itself).
IntervalQuota ==
    \A s \in Sources, n \in 0..MaxFaults, k \in Keys, t \in Nat :
        Cardinality(PermitsFrom(s, n, k, t)) <= IF Limit = 0 THEN 0 ELSE 2 * Limit - 1

\* One call of Allow costs at most two increments for each attempt that go-redis
\* makes of a command, however late its commands are executed: an EVAL is only
\* sent when Redis refused an EVALSHA, which cost nothing and makes up for the
\* increment of the fallback.
CallCost == \A c \in Calls : Cardinality({v \in charges : v.call = c}) <= 2 * (MaxRetries + 1)

\* The increment that began a window was permitted, and is in the history.
Opened == Limit > 0 => \A v \in charges : \E u \in InWindow(v) : u.ok /\ u.at = u.win - Window

\* No attempt is counted twice.
AttemptsApart == \A u, v \in charges : u.call = v.call /\ u.try = v.try => u = v

\* A step that adds to the history is one of memoryLimiter.allow or of the
\* script, and counts an attempt that was not counted before.
LEMMA StepCharges ==
    ASSUME Inv, [Next]_vars, charges' # charges
    PROVE  \E s \in Sources, k \in Keys : \E c, v :
              ChargesCounter(s, k, c, v) /\ \A u \in charges : ~(u.call = v.call /\ u.try = v.try)
<1>1. (\E d \in Calls : MemoryAllow(d)) \/ (\E m \in wire : CheckRateLimit(m))
  BY DEF Next, vars, Allow, CallStep, Reply, Eval, RedisError, NoScript, CleanExpired, Restart, RedisCrash, RedisStart, Tick
<1>2. ASSUME NEW d \in Calls, MemoryAllow(d)
      PROVE  \E s \in Sources, k \in Keys : \E c, v :
                ChargesCounter(s, k, c, v) /\ \A u \in charges : ~(u.call = v.call /\ u.try = v.try)
  <2> DEFINE g == call[d].gw
             k == call[d].key
             c == MemoryCharge(memory[g][k], now)
             v == Verdict(d, 0, g, k, c)
  <2>1. /\ g \in Sources /\ k \in Keys /\ ChargesCounter(g, k, c, v) /\ v.call = d /\ v.try = 0
        /\ \A u \in charges : ~(u.call = d /\ u.try = 0)
    BY <1>2, MemoryAllowCharges DEF Sources
  <2> HIDE DEF g, k, c, v
  <2> QED
    BY <2>1
<1>3. ASSUME NEW m \in wire, CheckRateLimit(m)
      PROVE  \E s \in Sources, k \in Keys : \E c, v :
                ChargesCounter(s, k, c, v) /\ \A u \in charges : ~(u.call = v.call /\ u.try = v.try)
  <2> DEFINE c == RedisCharge(redis[m.key], now)
             v == Verdict(m.call, m.try, Redis, m.key, c)
  <2>1. /\ Redis \in Sources /\ m.key \in Keys /\ ChargesCounter(Redis, m.key, c, v)
        /\ v.call = m.call /\ v.try = m.try
        /\ \A u \in charges : ~(u.call = m.call /\ u.try = m.try)
    BY <1>3, CheckRateLimitCharges DEF Sources
  <2> HIDE DEF c, v
  <2> QED
    BY <2>1
<1> QED
  BY <1>1, <1>2, <1>3

\* A charge begins a window, with a permit, or finds one that a permit began.
LEMMA ChargeOpens ==
    ASSUME Inv, Opened, NEW s \in Sources, NEW k \in Keys, NEW c, NEW v, ChargesCounter(s, k, c, v)
    PROVE  Opened'
<1> SUFFICES ASSUME Limit > 0, NEW x \in charges'
             PROVE  \E u \in InWindow(x)' : u.ok /\ u.at = u.win - Window
  BY DEF Opened, InWindow
<1>1. charges \subseteq charges' /\ charges' = charges \cup {v}
  BY DEF ChargesCounter
<1>2. CASE x \in charges
  <2>1. PICK u \in InWindow(x) : u.ok /\ u.at = u.win - Window
    BY <1>2 DEF Opened
  <2> QED
    BY <1>1, <2>1 DEF InWindow
<1>3. CASE x = v
  <2> DEFINE e == EntryOf(s, k)
             n == epoch[s]
  <2>1. CounterOK(e, charges, s, n, k, now) /\ IsCharge(e, now, c) /\ Limit \in Nat
    BY WindowAssumption DEF WindowAssumption, Inv, CounterInv, ChargesCounter
  <2>2. v.src = s /\ v.epoch = n /\ v.key = k /\ v.win = c.resetAt /\ v.at = now /\ (v.ok <=> WithinLimit(c))
    BY DEF ChargesCounter
  <2>3. now \in Nat /\ Window \in Nat /\ e.count \in Nat
    BY <2>1, WindowAssumption, Numbers DEF WindowAssumption, Inv, CounterOK, EntryOK, Entry
  <2> HIDE DEF e, n
  <2>4. CASE e.count = 0 \/ Over(e, now)
    <3>1. c.count = 1 /\ c.resetAt = now + Window
      BY <2>1, <2>4 DEF IsCharge
    <3>2. v.ok /\ v.at = v.win - Window
      BY <2>1, <2>2, <2>3, <3>1 DEF WithinLimit
    <3>3. v \in InWindow(v)'
      BY <1>1 DEF InWindow
    <3> QED
      BY <1>3, <3>2, <3>3
  <2>5. CASE ~(e.count = 0 \/ Over(e, now))
    <3>1. c.resetAt = e.resetAt /\ e.count > 0
      BY <2>1, <2>3, <2>5 DEF IsCharge
    <3>2. Cardinality(Permitted(In(charges, s, n, k, e.resetAt))) > 0
      BY <2>1, <2>3, <3>1 DEF CounterOK, AtMostLimit
    <3>3. Permitted(In(charges, s, n, k, e.resetAt)) # {}
      BY <3>2, FS_EmptySet
    <3>4. PICK y \in charges : y.src = s /\ y.epoch = n /\ y.key = k /\ y.win = e.resetAt
      BY <3>3 DEF Permitted, In
    <3>5. PICK u \in InWindow(y) : u.ok /\ u.at = u.win - Window
      BY <3>4 DEF Opened
    <3>6. u \in InWindow(x)'
      BY <1>1, <1>3, <2>2, <3>1, <3>4, <3>5 DEF InWindow
    <3> QED
      BY <3>5, <3>6
  <2> QED
    BY <2>4, <2>5
<1> QED
  BY <1>1, <1>2, <1>3

\* Every window in the history was opened, and no attempt is counted twice.
THEOREM HistorySound == Spec => [](Opened /\ AttemptsApart)
<1>1. Init => Opened /\ AttemptsApart
  BY DEF Init, Opened, AttemptsApart
<1>2. Inv /\ Opened /\ AttemptsApart /\ [Next]_vars => (Opened /\ AttemptsApart)'
  <2> SUFFICES ASSUME Inv, Opened, AttemptsApart, [Next]_vars
               PROVE  (Opened /\ AttemptsApart)'
    OBVIOUS
  <2>1. CASE charges' = charges
    BY <2>1 DEF Opened, AttemptsApart, InWindow
  <2>2. CASE charges' # charges
    <3>0. PICK s \in Sources, k \in Keys : \E c, v :
              ChargesCounter(s, k, c, v) /\ \A u \in charges : ~(u.call = v.call /\ u.try = v.try)
      BY <2>2, StepCharges
    <3>1. PICK c, v : ChargesCounter(s, k, c, v) /\ \A u \in charges : ~(u.call = v.call /\ u.try = v.try)
      BY <3>0
    <3>2. Opened'
      BY <3>1, ChargeOpens
    <3>3. charges' = charges \cup {v}
      BY <3>1 DEF ChargesCounter
    <3>4. AttemptsApart'
      BY <3>1, <3>3 DEF AttemptsApart
    <3> QED
      BY <3>2, <3>4
  <2> QED
    BY <2>1, <2>2
<1> QED
  BY <1>1, <1>2, Invariance, PTL DEF Spec

\* No three windows of a counter meet an interval as long as one of them.
LEMMA TwoWindows ==
    ASSUME Inv, NEW s, NEW n, NEW k, NEW t \in Nat,
           NEW u \in PermitsFrom(s, n, k, t), NEW v \in PermitsFrom(s, n, k, t), u.win < v.win,
           NEW x \in PermitsFrom(s, n, k, t)
    PROVE  (x.win = u.win \/ x.win = v.win) /\ u.win < t + Window
<1>1. Window \in Nat \ {0}
  BY WindowAssumption DEF WindowAssumption
<1>2. \A y \in {u, v, x} : /\ y \in charges /\ y.win \in Nat /\ y.at \in Nat /\ y.at \in t..(t + Window)
                           /\ y.src = s /\ y.epoch = n /\ y.key = k
                           /\ y.at \in (y.win - Window)..y.win
  BY DEF PermitsFrom, Inv, TypeOK, Charge, WindowsDisjoint
<1>3. \A y \in {u, v, x}, z \in {u, v, x} : y.win < z.win => y.win < z.win - Window
  BY <1>2 DEF Inv, WindowsDisjoint
<1> QED
  BY <1>1, <1>2, <1>3

\* The permits of the window that v was counted in.
PermitsWith(v) == Permitted(InWindow(v))

\* However its calls are timed, a client gets less than twice the limit out of
\* one counter within the length of a window.
THEOREM IntervalsBounded == Spec => []IntervalQuota
<1>1. ASSUME Inv, Opened, NEW s \in Sources, NEW n \in 0..MaxFaults, NEW k \in Keys, NEW t \in Nat
      PROVE  Cardinality(PermitsFrom(s, n, k, t)) <= IF Limit = 0 THEN 0 ELSE 2 * Limit - 1
  <2> DEFINE P == PermitsFrom(s, n, k, t)
  <2>1. Limit \in Nat /\ Window \in Nat \ {0} /\ IsFiniteSet(charges) /\ P \subseteq charges
    BY <1>1, WindowAssumption DEF WindowAssumption, Inv, PermitsFrom
  <2>2. \A v \in P : /\ v \in PermitsWith(v) /\ IsFiniteSet(PermitsWith(v))
                     /\ Cardinality(PermitsWith(v)) \in Nat /\ Cardinality(PermitsWith(v)) <= Limit
    <3> TAKE v \in P
    <3>1. v \in PermitsWith(v) /\ PermitsWith(v) \subseteq charges
      BY <2>1 DEF PermitsWith, Permitted, InWindow, PermitsFrom
    <3>2. IsFiniteSet(PermitsWith(v))
      BY <2>1, <3>1, FS_Subset
    <3>3. Cardinality(PermitsWith(v)) <= Limit
      BY <1>1, <2>1 DEF PermitsWith, Inv, WindowQuota
    <3> QED
      BY <3>1, <3>2, <3>3, FS_CardinalityType
  <2>3. CASE P = {}
    BY <2>1, <2>3, FS_EmptySet
  <2>4. CASE P # {} /\ \A u \in P, v \in P : u.win = v.win
    <3>1. PICK v \in P : TRUE
      BY <2>4
    <3>2. P \subseteq PermitsWith(v)
      BY <2>1, <2>4, <3>1 DEF PermitsWith, Permitted, InWindow, PermitsFrom
    <3>3. Cardinality(P) <= Cardinality(PermitsWith(v)) /\ Cardinality(P) \in Nat
      BY <2>2, <3>1, <3>2, FS_Subset, FS_CardinalityType
    <3>4. Cardinality(PermitsWith(v)) # 0
      BY <2>2, <3>1, FS_EmptySet
    <3> HIDE DEF P
    <3>5. Cardinality(PermitsWith(v)) \in Nat /\ Cardinality(PermitsWith(v)) <= Limit
      BY <2>2, <3>1
    <3>6. Cardinality(P) <= Limit /\ Limit >= 1
      BY <2>1, <3>3, <3>4, <3>5
    <3> QED
      BY <2>1, <3>3, <3>6 DEF P
  <2>5. CASE \E u \in P, v \in P : u.win # v.win
    <3>1. PICK u \in P, v \in P : u.win < v.win
      <4>1. \A y \in P : y.win \in Nat
        BY <1>1, <2>1 DEF Inv, TypeOK, Charge
      <4> HIDE DEF P
      <4> QED
        BY <2>5, <4>1
    <3>2. Cardinality(PermitsWith(u)) \in Nat /\ Cardinality(PermitsWith(u)) <= Limit
          /\ Cardinality(PermitsWith(v)) \in Nat /\ Cardinality(PermitsWith(v)) <= Limit
          /\ IsFiniteSet(PermitsWith(u)) /\ IsFiniteSet(PermitsWith(v)) /\ u \in PermitsWith(u)
      BY <2>2, <3>1
    <3>3. Limit >= 1
      <4>1. Cardinality(PermitsWith(u)) # 0
        BY <3>2, FS_EmptySet
      <4> QED
        BY <2>1, <3>2, <4>1
    <3>4. PICK o \in InWindow(u) : o.ok /\ o.at = o.win - Window
      BY <1>1, <2>1, <3>1, <3>3 DEF Opened
    <3>5. o \in PermitsWith(u) /\ o.win = u.win
      BY <3>4 DEF PermitsWith, Permitted, InWindow
    <3>6. o \notin P
      <4>1. u.win < t + Window /\ u.win \in Nat
        BY <1>1, <2>1, <3>1, TwoWindows DEF Inv, TypeOK, Charge
      <4>2. o.at < t
        BY <2>1, <3>4, <3>5, <4>1
      <4> QED
        BY <4>2 DEF PermitsFrom
    <3>7. P \subseteq (PermitsWith(u) \ {o}) \cup PermitsWith(v)
      <4> SUFFICES ASSUME NEW x \in P
                   PROVE  x \in (PermitsWith(u) \ {o}) \cup PermitsWith(v)
        OBVIOUS
      <4>1. x.win = u.win \/ x.win = v.win
        BY <1>1, <3>1, TwoWindows
      <4>2. x \in PermitsWith(u) \/ x \in PermitsWith(v)
        BY <2>1, <3>1, <4>1 DEF PermitsWith, Permitted, InWindow, PermitsFrom
      <4> QED
        BY <3>6, <4>2
    <3> DEFINE A == PermitsWith(u) \ {o}
    <3>8. IsFiniteSet(A) /\ Cardinality(A) = Cardinality(PermitsWith(u)) - 1
      BY <3>2, <3>5, FS_RemoveElement
    <3>9. /\ IsFiniteSet(A \cup PermitsWith(v)) /\ Cardinality(A) \in Nat
          /\ Cardinality(A \cup PermitsWith(v)) <= Cardinality(A) + Cardinality(PermitsWith(v))
      <4>1. IsFiniteSet(A \cup PermitsWith(v)) /\ IsFiniteSet(A \cap PermitsWith(v))
        BY <3>2, <3>8, FS_Union, FS_Intersection
      <4>2. Cardinality(A \cup PermitsWith(v)) = Cardinality(A) + Cardinality(PermitsWith(v)) - Cardinality(A \cap PermitsWith(v))
        BY <3>2, <3>8, FS_Union
      <4>3. Cardinality(A \cap PermitsWith(v)) \in Nat /\ Cardinality(A) \in Nat
        BY <3>8, <4>1, FS_CardinalityType
      <4> HIDE DEF A
      <4> QED
        BY <3>2, <4>1, <4>2, <4>3
    <3>10. Cardinality(P) <= Cardinality(A \cup PermitsWith(v)) /\ Cardinality(P) \in Nat /\ Cardinality(A \cup PermitsWith(v)) \in Nat
      BY <3>7, <3>9, FS_Subset, FS_CardinalityType
    <3> HIDE DEF P, A
    <3>11. Cardinality(P) <= 2 * Limit - 1
      BY <2>1, <3>2, <3>8, <3>9, <3>10
    <3> QED
      BY <2>1, <3>3, <3>11 DEF P
  <2> HIDE DEF P
  <2> QED
    BY <2>3, <2>4, <2>5 DEF P
<1>2. Inv /\ Opened => IntervalQuota
  BY <1>1 DEF IntervalQuota
<1> QED
  BY <1>2, Invariance, HistorySound, PTL

\* Attempt t of call c cost nothing, and never will.
Unspent(c, t) ==
    /\ call[c].stage # "new"
    /\ call[c].stage \in {"waiting", "refused"} => t <= call[c].try
    /\ \A v \in charges : v.call = c => v.try # t
    /\ \A w \in wire : w.call = c => w.try # t

\* Redis has refused an EVALSHA of call c.
PastNoScript(c) ==
    \/ call[c].stage = "refused"
    \/ call[c].stage = "waiting" /\ call[c].try > Attempts
    \/ \E v \in charges : v.call = c /\ v.try > Attempts
    \/ \E w \in wire : w.call = c /\ w.try > Attempts

\* A call whose script was refused was refused an attempt that cost nothing.
RefusalsFree == \A c \in Calls : PastNoScript(c) => \E t \in 1..Attempts : Unspent(c, t)

\* What a step may do to a call that it does not have refused: it charges an
\* attempt that was on the wire, or the fallback, and sends attempts that are
\* new, the first of an EVAL only after a refusal.
Orderly(c) ==
    /\ call[c].stage # "new" => call'[c].stage # "new"
    /\ call'[c].stage \in {"waiting", "refused"} =>
          \/ call'[c].stage = call[c].stage /\ call'[c].try = call[c].try
          \/ call[c].stage = "new" /\ call'[c].stage = "waiting" /\ call'[c].try = 1
          \/ /\ call[c].stage \in {"waiting", "refused"} /\ call'[c].stage = "waiting"
             /\ call'[c].try \in Nat /\ call'[c].try > call[c].try
             /\ call'[c].try > Attempts => PastNoScript(c)
    /\ \A v \in charges' : v.call = c /\ v \notin charges =>
          v.try = 0 \/ \E w \in wire : w.call = c /\ w.try = v.try
    /\ \A w \in wire' : w.call = c /\ w \notin wire =>
          call'[c].stage = "waiting" /\ w.try = call'[c].try /\ (call[c].stage = "new" \/ w.try > call[c].try)

\* An attempt of the client leaves every call in order.
LEMMA AttemptOrderly ==
    ASSUME TypeOK, NEW d \in Calls, call[d].stage \in {"waiting", "refused"},
           NEW n \in Nat, n > call[d].try, n > Attempts => PastNoScript(d),
           Attempt(d, n), UNCHANGED charges, NEW c \in Calls
    PROVE  Orderly(c)
<1>1. call' = [call EXCEPT ![d] = [stage |-> "waiting", gw |-> call[d].gw, key |-> call[d].key, try |-> n]]
      /\ \A w \in wire' : w \in wire \/ (w.call = d /\ w.try = n)
  BY DEF Attempt, Send, TypeOK
<1>2. \A e \in Calls : e # d => call'[e] = call[e]
  BY <1>1 DEF TypeOK
<1>3. call'[d].stage = "waiting" /\ call'[d].try = n
  BY <1>1 DEF TypeOK
<1>4. CASE c = d
  BY <1>1, <1>3, <1>4 DEF Orderly
<1>5. CASE c # d
  BY <1>1, <1>2, <1>5 DEF Orderly
<1> QED
  BY <1>4, <1>5

\* A call that leaves Redis, or is left alone, and whose commands are at most
\* executed, is in order.
LEMMA QuietOrderly ==
    ASSUME NEW c \in Calls, wire' \subseteq wire,
           \/ call'[c] = call[c]
           \/ call'[c].stage \notin {"new", "waiting", "refused"},
           \A v \in charges' : v.call = c /\ v \notin charges =>
              v.try = 0 \/ \E w \in wire : w.call = c /\ w.try = v.try
    PROVE  Orderly(c)
BY DEF Orderly

\* Every step leaves a call in order, unless it has that call refused.
LEMMA StepOrderly ==
    ASSUME Inv, [Next]_vars, NEW c \in Calls, \A m \in wire : NoScript(m) => m.call # c
    PROVE  Orderly(c)
<1>1. TypeOK /\ Attempts \in Nat \ {0} /\ LastTry \in Nat
  BY Numbers DEF Inv
<1>2. ASSUME NEW d \in Calls, NEW g \in Gateways, NEW k \in Keys, Allow(d, g, k)
      PROVE  Orderly(c)
  <2>1. PICK r : /\ call' = [call EXCEPT ![d] = r]
                 /\ r.stage \in {"waiting", "fallback"} /\ (r.stage = "waiting" => r.try = 1)
                 /\ \A w \in wire' : w \in wire \/ (w.call = d /\ w.try = 1 /\ r.stage = "waiting")
    <3> DEFINE q == [stage |-> "waiting", gw |-> g, key |-> k, try |-> 1]
               f == [stage |-> "fallback", gw |-> g, key |-> k]
    <3>1. CASE call' = [call EXCEPT ![d] = q] /\ Send(d, k, 1)
      <4>1. \A w \in wire' : w \in wire \/ (w.call = d /\ w.try = 1)
        BY <3>1 DEF Send
      <4>2. q.stage = "waiting" /\ q.try = 1
        OBVIOUS
      <4> HIDE DEF q
      <4> QED
        BY <3>1, <4>1, <4>2
    <3>2. CASE FallBack(d, g, k)
      <4>1. f.stage = "fallback" /\ call' = [call EXCEPT ![d] = f] /\ wire' = wire
        BY <3>2 DEF FallBack
      <4> HIDE DEF f
      <4> QED
        BY <4>1
    <3> QED
      BY <1>2, <3>1, <3>2 DEF Allow
  <2>2. \A e \in Calls : call'[e] = IF e = d THEN r ELSE call[e]
    BY <1>1, <2>1 DEF TypeOK
  <2>3. call[d].stage = "new" /\ charges' = charges
    BY <1>2 DEF Allow, Unmade
  <2> QED
    BY <2>1, <2>2, <2>3 DEF Orderly
<1>3. ASSUME NEW d \in Calls, Reply(d)
      PROVE  Orderly(c)
  <2>1. call'[c] = call[c] \/ call'[c].stage = "returned"
    BY <1>1, <1>3 DEF Reply, Returned, TypeOK
  <2> QED
    BY <1>3, <2>1, QuietOrderly DEF Reply
<1>4. ASSUME NEW d \in Calls, Eval(d)
      PROVE  Orderly(c)
  <2>1. call[d].stage = "refused" /\ call[d].try \in 1..Attempts
    BY <1>1, <1>4, AtRedis DEF Eval
  <2>2. Attempts + 1 \in Nat /\ Attempts + 1 > call[d].try /\ PastNoScript(d)
    BY <1>1, <2>1 DEF PastNoScript
  <2> QED
    BY <1>1, <1>4, <2>1, <2>2, AttemptOrderly DEF Eval
<1>5. ASSUME NEW d \in Calls, RedisError(d)
      PROVE  Orderly(c)
  <2>1. call[d].stage \in {"waiting", "refused"} /\ charges' = charges
    BY <1>5 DEF RedisError
  <2>2. call[d].try \in 1..LastTry
    BY <1>1, <2>1, AtRedis
  <2>3. CASE call[d].try \notin {Attempts, LastTry} /\ Attempt(d, call[d].try + 1)
    <3> DEFINE n == call[d].try + 1
    <3>1. n \in Nat /\ n > call[d].try
      BY <1>1, <2>2
    <3>2. n > Attempts => PastNoScript(d)
      BY <1>1, <2>1, <2>2, <2>3 DEF PastNoScript
    <3> HIDE DEF n
    <3> QED
      BY <1>1, <2>1, <2>3, <3>1, <3>2, AttemptOrderly DEF n
  <2>4. CASE FallBack(d, call[d].gw, call[d].key)
    <3>1. call'[c] = call[c] \/ call'[c].stage = "fallback"
      BY <1>1, <2>4 DEF FallBack, TypeOK
    <3> QED
      BY <2>1, <2>4, <3>1, QuietOrderly DEF FallBack
  <2> QED
    BY <1>5, <2>3, <2>4 DEF RedisError
<1>6. ASSUME NEW d \in Calls, MemoryAllow(d)
      PROVE  Orderly(c)
  <2>1. call'[c] = call[c] \/ call'[c].stage = "returned"
    BY <1>1, <1>6 DEF MemoryAllow, Returned, TypeOK
  <2>2. \A v \in charges' : v \notin charges => v.try = 0
    BY <1>6 DEF MemoryAllow, Verdict
  <2> QED
    BY <1>6, <2>1, <2>2, QuietOrderly DEF MemoryAllow
<1>7. ASSUME NEW m \in wire, CheckRateLimit(m)
      PROVE  Orderly(c)
  <2>1. \A v \in charges' : v \notin charges => v.call = m.call /\ v.try = m.try
    BY <1>7 DEF CheckRateLimit, Verdict
  <2> QED
    BY <1>7, <2>1, QuietOrderly DEF CheckRateLimit
<1>8. ASSUME NEW m \in wire, NoScript(m)
      PROVE  Orderly(c)
  <2>1. m.call # c
    BY <1>8
  <2>2. call'[c] = call[c]
    BY <1>1, <1>8, <2>1 DEF NoScript, TypeOK
  <2> QED
    BY <1>8, <2>2, QuietOrderly DEF NoScript
<1>9. ASSUME NEW g \in Gateways, CleanExpired(g) \/ Restart(g)
      PROVE  Orderly(c)
  <2>1. call'[c] = call[c] \/ call'[c].stage = "lost"
    BY <1>9 DEF CleanExpired, Restart, Lost
  <2> QED
    BY <1>9, <2>1, QuietOrderly DEF CleanExpired, Restart
<1>10. ASSUME RedisCrash \/ RedisStart \/ Tick \/ UNCHANGED vars
       PROVE  Orderly(c)
  BY <1>10, QuietOrderly DEF RedisCrash, RedisStart, Tick, vars
<1> QED
  BY <1>2, <1>3, <1>4, <1>5, <1>6, <1>7, <1>8, <1>9, <1>10 DEF Next, CallStep

\* The script of a call was refused no later than some attempt that cost nothing.
LEMMA RefusalsKept ==
    ASSUME Inv, RefusalsFree, [Next]_vars, NEW c \in Calls, PastNoScript(c)'
    PROVE  \E t \in 1..Attempts : Unspent(c, t)'
<1>1. TypeOK /\ CallInv /\ Attempts \in Nat \ {0} /\ LastTry \in Nat
  BY Numbers DEF Inv
<1>2. CASE \A m \in wire : NoScript(m) => m.call # c
  <2>1. Orderly(c)
    BY <1>2, StepOrderly
  <2>2. PastNoScript(c)
    BY <1>1, <2>1 DEF Orderly, PastNoScript
  <2>3. PICK t \in 1..Attempts : Unspent(c, t)
    BY <2>2 DEF RefusalsFree
  <2>4. call[c].stage \in {"waiting", "refused"} => call[c].try \in Nat
    <3>1. 1..LastTry \subseteq Nat
      BY <1>1
    <3> QED
      BY <1>1, <3>1, AtRedis
  <2>5. t \in Nat /\ t # 0
    BY <1>1
  <2>6. /\ call'[c].stage # "new"
        /\ \A v \in charges' : v.call = c => v.try # t
    BY <2>1, <2>3, <2>5 DEF Orderly, Unspent
  <2>7. call'[c].stage \in {"waiting", "refused"} => t <= call'[c].try /\ call'[c].try \in Nat
    BY <2>1, <2>3, <2>4, <2>5 DEF Orderly, Unspent
  <2>8. \A w \in wire' : w.call = c => w.try # t
    BY <2>1, <2>3, <2>4, <2>5, <2>7 DEF Orderly, Unspent
  <2> QED
    BY <2>6, <2>7, <2>8 DEF Unspent
<1>3. CASE \E m \in wire : NoScript(m) /\ m.call = c
  <2>1. PICK m \in wire : NoScript(m) /\ m.call = c
    BY <1>3
  <2>2. m.try \in 1..Attempts
    <3>1. m.try \in 1..LastTry
      BY <1>1 DEF TypeOK, Command
    <3> QED
      BY <1>1, <2>1, <3>1 DEF NoScript
  <2>3. call'[c].stage = "refused" /\ call'[c].try = m.try
    <3>1. call[c] = [stage |-> call[c].stage, gw |-> call[c].gw, key |-> call[c].key, try |-> call[c].try]
      BY <1>1, <2>1, AtRedis DEF NoScript
    <3>2. call'[c] = [call[c] EXCEPT !.stage = "refused"] /\ call[c].try = m.try
      BY <1>1, <2>1 DEF NoScript, TypeOK
    <3> QED
      BY <3>1, <3>2
  <2>4. \A v \in charges' : v.call = c => v.try # m.try
    BY <1>1, <2>1 DEF NoScript, CallInv
  <2>5. \A w \in wire' : w.call = c => w.try # m.try
    BY <1>1, <2>1 DEF NoScript, CallInv
  <2>6. Unspent(c, m.try)'
    BY <2>2, <2>3, <2>4, <2>5 DEF Unspent
  <2> QED
    BY <2>2, <2>6
<1> QED
  BY <1>2, <1>3

\* Whatever becomes of its commands, a call that got as far as an EVAL has an
\* EVALSHA that cost nothing.
THEOREM RefusalsCostNothing == Spec => []RefusalsFree
<1>1. Init => RefusalsFree
  BY DEF Init, RefusalsFree, PastNoScript, Unmade
<1>2. Inv /\ RefusalsFree /\ [Next]_vars => RefusalsFree'
  BY RefusalsKept DEF RefusalsFree
<1> QED
  BY <1>1, <1>2, Invariance, PTL DEF Spec

\* A call has not cost more than it has attempts to be counted by.
LEMMA CountedByAttempts ==
    ASSUME Inv, AttemptsApart, NEW c \in Calls, NEW T, IsFiniteSet(T),
           \A v \in charges : v.call = c => v.try \in T
    PROVE  Cardinality({v \in charges : v.call = c}) <= Cardinality(T)
<1> DEFINE S == {v \in charges : v.call = c}
           f == [v \in S |-> v.try]
<1>1. f \in Injection(S, T)
  <2>1. \A v \in S : v.try \in T
    OBVIOUS
  <2>2. \A u, v \in S : u.try = v.try => u = v
    BY DEF AttemptsApart
  <2> QED
    BY <2>1, <2>2, Fun_IsInj
<1> QED
  BY <1>1, FS_Injection

\* A call whose commands were repeated or executed late has still not cost its
\* client more than the attempts of the two commands account for.
THEOREM CallsCost == Spec => []CallCost
<1>1. ASSUME Inv, AttemptsApart, RefusalsFree, NEW c \in Calls
      PROVE  Cardinality({v \in charges : v.call = c}) <= 2 * (MaxRetries + 1)
  <2> DEFINE S == {v \in charges : v.call = c}
  <2>1. Attempts \in Nat \ {0} /\ LastTry \in Nat /\ LastTry = Attempts + Attempts /\ LastTry = 2 * (MaxRetries + 1)
    BY <1>1, Numbers DEF Inv, LastTry, Attempts
  <2>2. \A n \in Nat : IsFiniteSet(0..n) /\ Cardinality(0..n) = n + 1
    BY FS_Interval
  <2>3. \A v \in charges : v.try \in 0..LastTry
    BY <1>1 DEF Inv, TypeOK, Charge
  <2>4. IsFiniteSet(S) /\ Cardinality(S) \in Nat
    <3>1. IsFiniteSet(S)
      BY <1>1, FS_Subset DEF Inv
    <3> QED
      BY <3>1, FS_CardinalityType
  <2>5. CASE PastNoScript(c)
    <3>1. PICK t \in 1..Attempts : Unspent(c, t)
      BY <1>1, <2>5 DEF RefusalsFree
    <3> DEFINE U == 0..LastTry
               T == U \ {t}
    <3>2. t \in U
      BY <2>1
    <3>3. IsFiniteSet(T) /\ Cardinality(T) = LastTry + 1 - 1
      <4>1. IsFiniteSet(U) /\ Cardinality(U) = LastTry + 1
        BY <2>1, <2>2
      <4> HIDE DEF U
      <4> QED
        BY <2>1, <3>2, <4>1, FS_RemoveElement
    <3>4. \A v \in charges : v.call = c => v.try \in T
      BY <2>3, <3>1 DEF Unspent
    <3>5. Cardinality(S) <= Cardinality(T)
      BY <1>1, <3>3, <3>4, CountedByAttempts
    <3> QED
      BY <2>1, <3>3, <3>5
  <2>6. CASE ~PastNoScript(c)
    <3>1. \A v \in charges : v.call = c => v.try \in 0..Attempts
      BY <2>1, <2>3, <2>6 DEF PastNoScript
    <3>2. Cardinality(S) <= Attempts + 1
      BY <1>1, <2>1, <2>2, <3>1, CountedByAttempts
    <3> HIDE DEF S
    <3> QED
      BY <2>1, <2>4, <3>2 DEF S
  <2> QED
    BY <2>5, <2>6
<1>2. Inv /\ AttemptsApart /\ RefusalsFree => CallCost
  BY <1>1 DEF CallCost
<1> QED
  BY <1>2, Invariance, HistorySound, RefusalsCostNothing, PTL
=============================================================================
