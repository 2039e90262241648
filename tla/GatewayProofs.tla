--------------------------- MODULE GatewayProofs ---------------------------
(***************************************************************************)
(* What the request path promises, for every finite set of requests, every *)
(* configuration that config.validate accepts, every limit, window,        *)
(* threshold and timeout, and every interleaving of the handlers.          *)
(*                                                                         *)
(* Each promise counts handlers.  HandlersOK ties a handler's fields to    *)
(* its stage, so that a step puts it into a counted set once and takes it  *)
(* out once.  On top of it MemoryInv ties the limiter's entries to the     *)
(* requests that passed them, and TurnsInv the round-robin counter to the  *)
(* requests that took a turn: by how many laps each endpoint has been      *)
(* chosen, and which ones once more.                                       *)
(***************************************************************************)
EXTENDS Gateway, TLAPS, FiniteSetTheorems

-----------------------------------------------------------------------------
(* The counted sets.                                                       *)

Running == Arrived \ Done
DoneWith(l) == {r \in Done : LabelOf(r) = l}
Denied(rt) == {r \in Arrived : RouteOf(r) = rt /\ handler[r].turn = 0 /\ handler[r].status = 429}
Chosen(rt, i) == {r \in Arrived : RouteOf(r) = rt /\ handler[r].turn = i}

\* The handler got past the limiter.
Past(h) == h.stage = "balance" \/ h.turn # 0

Passed(rt, id, w) ==
    {q \in Arrived : RouteOf(q) = rt /\ handler[q].client = id /\ handler[q].window = w /\ Past(handler[q])}

-----------------------------------------------------------------------------
(* The inductive invariant.                                                *)

\* What the stage of a handler says of its fields.
HandlerOK(h) ==
    /\ h.stage \in {"limit", "balance", "admit", "proxy", "record"} => h.in.route \in Routes
    /\ h.stage \in {"limit", "balance"} => h.turn = 0 /\ h.status = 0
    /\ h.stage = "limit" => h.window = 0
    /\ h.stage \in {"admit", "proxy", "record"} => h.turn # 0
    /\ h.stage \in {"admit", "record"} => Config[h.in.route].breaker
    /\ h.turn # 0 => h.in.route \in Routes /\ h.turn \in 1..Len(Endpoints(h.in.route))
    /\ h.window # 0 => h.in.route \in Routes /\ h.client \in ClientIDs

HandlersOK == \A r \in Arrived : HandlerOK(handler[r])

AtMostLimit(n) == IF n <= Limit THEN n ELSE Limit

\* An entry of the limiter has counted no request before its own window, and as
\* many as its count says, up to the limit, have passed it in that window.
EntryInv(e, rt, id) ==
    /\ e \in Entry
    /\ IF e.count = 0 THEN e = NoEntry ELSE e.resetAt > 0
    /\ \A q \in Arrived : RouteOf(q) = rt /\ handler[q].client = id => handler[q].window <= e.resetAt
    /\ \A w \in {e.resetAt} : e.count > 0 => Cardinality(Passed(rt, id, w)) = AtMostLimit(e.count)

MemoryInv == \A rt \in Routes, id \in ClientIDs : EntryInv(memory[<<rt, id>>], rt, id)

\* The counter is pos turns into a lap of the endpoints: each of them has been
\* chosen once per lap before, the first pos of them once more.
InLap(rt, laps, pos) ==
    /\ counter[rt] = laps * Len(Endpoints(rt)) + pos
    /\ \A i \in DOMAIN Endpoints(rt) : Turns(rt, i) = IF i <= pos THEN laps + 1 ELSE laps

TurnsInv ==
    \A rt \in Routes :
        \E laps \in 0..counter[rt], pos \in 0..(Len(Endpoints(rt)) - 1) : InLap(rt, laps, pos)

\* What every operation keeps of a breaker: its timeout runs only while it is
\* open, and its failure count is the one its state relies on.
Sound(c) ==
    /\ c \in Circuit
    /\ c.OpenAge < Timeout => c.State = StateOpen
    /\ c.State = StateClosed => c.FailureCount < TripAt
    /\ c.State = StateHalfOpen => c.FailureCount = 0 /\ c.LastFailure = ZeroTime
    /\ c.State = StateOpen => c.FailureCount >= 1 /\ c.LastFailure = SomeTime

BreakersSound == \A k \in BreakerKeys : Sound(breakers[k])

Inv ==
    /\ TypeOK /\ HandlersOK /\ BreakersSound
    /\ Accounted
    /\ MemoryInv /\ ForwardQuota
    /\ TurnsInv

-----------------------------------------------------------------------------
(* What the operations of one breaker do to its record.                    *)

\* A new breaker is sound (NewCircuitBreaker).
LEMMA NewSound == Sound(NewCircuitBreaker)
BY BreakerAssumption DEF BreakerAssumption, Sound, NewCircuitBreaker, Circuit, CircuitState,
   StateClosed, StateOpen, StateHalfOpen, ZeroTime, SomeTime, TripAt

\* The fields of a breaker after Allow.
LEMMA AllowFields ==
    ASSUME NEW c \in Circuit
    PROVE  /\ AfterAllow(c) \in Circuit
           /\ AfterAllow(c).OpenAge = c.OpenAge
           /\ c.State = StateOpen /\ Expired(c) =>
                /\ AfterAllow(c).State = StateHalfOpen
                /\ AfterAllow(c).FailureCount = 0
                /\ AfterAllow(c).LastFailure = ZeroTime
           /\ ~(c.State = StateOpen /\ Expired(c)) => AfterAllow(c) = c
BY DEF AfterAllow, Circuit, CircuitState

\* The fields of a breaker after RecordFailure.
LEMMA FailureFields ==
    ASSUME NEW c \in Circuit
    PROVE  /\ AfterFailure(c) \in Circuit
           /\ AfterFailure(c).FailureCount = c.FailureCount + 1
           /\ AfterFailure(c).LastFailure = SomeTime
           /\ AfterFailure(c).State = IF Trips(c) THEN StateOpen ELSE c.State
           /\ AfterFailure(c).OpenAge = IF Trips(c) THEN 0 ELSE c.OpenAge
BY BreakerAssumption DEF BreakerAssumption, AfterFailure, Trips, Circuit, CircuitState

\* Allow keeps a breaker sound.
LEMMA AllowSound == ASSUME NEW c, Sound(c) PROVE Sound(AfterAllow(c))
BY AllowFields, BreakerAssumption DEF BreakerAssumption, Sound, Expired, Circuit, CircuitState,
   StateClosed, StateOpen, StateHalfOpen

\* RecordFailure keeps a breaker sound.
LEMMA FailureSound == ASSUME NEW c, Sound(c) PROVE Sound(AfterFailure(c))
BY FailureFields, BreakerAssumption DEF BreakerAssumption, Sound, Trips, Circuit, CircuitState,
   StateClosed, StateOpen, StateHalfOpen, ZeroTime, SomeTime, TripAt

\* RecordSuccess keeps a breaker sound.
LEMMA SuccessSound == ASSUME NEW c, Sound(c) PROVE Sound(AfterSuccess(c))
BY BreakerAssumption, NewSound DEF BreakerAssumption, Sound, AfterSuccess, NewCircuitBreaker, Circuit, CircuitState,
   StateClosed, StateOpen, StateHalfOpen, ZeroTime, SomeTime, TripAt

\* The passing of time keeps a breaker sound.
LEMMA ElapseSound == ASSUME NEW c, Sound(c) PROVE Sound(Elapse(c))
BY BreakerAssumption DEF BreakerAssumption, Sound, Elapse, Expired, Circuit, CircuitState,
   StateClosed, StateOpen, StateHalfOpen, ZeroTime, SomeTime, TripAt

\* A breaker that admits a request has waited its timeout out, and is then
\* half-open if it was open.
LEMMA AllowMaps ==
    ASSUME NEW c, Sound(c), Allowed(c)
    PROVE  /\ c.OpenAge = Timeout /\ AfterAllow(c).OpenAge = Timeout
           /\ AfterAllow(c).State = IF c.State = StateOpen THEN StateHalfOpen ELSE c.State
           /\ AfterAllow(c).State = StateClosed => AfterAllow(c).FailureCount = c.FailureCount
<1>1. c \in Circuit /\ c.OpenAge \in 0..Timeout /\ Timeout \in Nat
  BY BreakerAssumption DEF BreakerAssumption, Sound, Circuit
<1>2. c.OpenAge = Timeout
  BY <1>1 DEF Sound, Allowed, Expired
<1>3. CASE c.State = StateOpen
  BY <1>1, <1>2, <1>3, AllowFields DEF Expired, StateClosed, StateHalfOpen
<1>4. CASE c.State # StateOpen
  BY <1>1, <1>2, <1>4, AllowFields
<1> QED
  BY <1>2, <1>3, <1>4

\* A request that is not admitted leaves the breaker as it is.
LEMMA RejectMaps ==
    ASSUME NEW c, ~Allowed(c)
    PROVE  AfterAllow(c) = c
BY DEF Allowed, AfterAllow

\* A success closes a half-open circuit and ends the run of failures of a closed one.
LEMMA SuccessMaps ==
    ASSUME NEW c, Sound(c)
    PROVE  /\ AfterSuccess(c).State = IF c.State = StateHalfOpen THEN StateClosed ELSE c.State
           /\ AfterSuccess(c).OpenAge = c.OpenAge
           /\ AfterSuccess(c).State = StateClosed => AfterSuccess(c).FailureCount = 0
BY BreakerAssumption DEF BreakerAssumption, Sound, AfterSuccess, NewCircuitBreaker, Circuit, CircuitState,
   StateClosed, StateOpen, StateHalfOpen

\* Time only brings the end of a timeout that runs nearer.
LEMMA ElapseMaps ==
    ASSUME NEW c, Sound(c)
    PROVE  /\ Elapse(c).State = c.State /\ Elapse(c).FailureCount = c.FailureCount
           /\ Elapse(c).OpenAge = IF c.OpenAge < Timeout THEN c.OpenAge + 1 ELSE c.OpenAge
BY BreakerAssumption DEF BreakerAssumption, Sound, Elapse, Expired, Circuit, CircuitState

-----------------------------------------------------------------------------
(* Facts the steps share.                                                  *)

\* What the configuration gives a route: at least one endpoint, each a target.
LEMMA RouteHasEndpoints ==
    ASSUME NEW rt \in Routes
    PROVE  /\ Len(Endpoints(rt)) \in Nat \ {0}
           /\ DOMAIN Endpoints(rt) = 1..Len(Endpoints(rt))
           /\ \A i \in 1..Len(Endpoints(rt)) : <<rt, Endpoints(rt)[i]>> \in BreakerKeys
<1> DEFINE ups == Config[rt].upstreams
<1>1. ups # << >> /\ ups \in Seq(Range(ups))
  BY ConfigAssumption DEF ConfigAssumption
<1>2. Len(ups) \in Nat /\ DOMAIN ups = 1..Len(ups) /\ Len(ups) # 0
  BY <1>1
<1>3. \A i \in DOMAIN ups : ups[i] \in Targets
  BY DEF Targets, Range
<1> QED
  BY <1>2, <1>3 DEF Endpoints, BreakerKeys

\* A set of requests is finite and no larger than all of them.
LEMMA Small ==
    ASSUME NEW S \in SUBSET Requests
    PROVE  IsFiniteSet(S) /\ Cardinality(S) \in 0..Cardinality(Requests)
BY ConfigAssumption, FS_Subset, FS_CardinalityType DEF ConfigAssumption

\* One request more,
LEMMA OneMore ==
    ASSUME NEW S \in SUBSET Requests, NEW r \in Requests, r \notin S
    PROVE  Cardinality(S \cup {r}) = Cardinality(S) + 1
BY Small, FS_AddElement

\* and one less.
LEMMA OneLess ==
    ASSUME NEW S \in SUBSET Requests, NEW r \in S
    PROVE  Cardinality(S \ {r}) = Cardinality(S) - 1
BY Small, FS_RemoveElement

\* A handler's record.
Record0 ==
    [stage: Stage \ {"new"}, in: Inputs, status: Statuses, sent: Statuses, window: Nat,
     client: ClientIDs \cup {NoID}, turn: Nat]

\* A request has not arrived, or its handler is past the first stage.
LEMMA HandlerSplit ==
    ASSUME TypeOK, NEW r \in Requests
    PROVE  /\ r \in Arrived <=> handler[r] \in Record0
           /\ r \notin Arrived <=> handler[r] = Unsent
           /\ r \in Arrived => handler[r].stage \in Stage \ {"new"} /\ handler[r].in.route \in Routes \cup {NoRoute}
<1>1. handler[r] \in {Unsent} \cup Record0
  BY DEF TypeOK, Handler, Record0
<1>2. Unsent \notin Record0
  BY DEF Unsent, Record0
<1> QED
  BY <1>1, <1>2, ConfigAssumption DEF Arrived, Record0, ConfigAssumption

\* A handler that moves leaves the others where they are.
LEMMA Moved ==
    ASSUME TypeOK, NEW r \in Requests, NEW h \in Record0, handler' = [handler EXCEPT ![r] = h]
    PROVE  /\ handler' \in [Requests -> Handler]
           /\ \A q \in Requests : handler'[q] = IF q = r THEN h ELSE handler[q]
           /\ Arrived' = Arrived \cup {r}
<1>1. \A q \in Requests : handler'[q] = IF q = r THEN h ELSE handler[q]
  BY DEF TypeOK
<1>2. h # Unsent
  BY DEF Unsent, Record0
<1>3. handler' \in [Requests -> Handler]
  BY DEF TypeOK, Handler, Record0
<1> QED
  BY <1>1, <1>2, <1>3 DEF Arrived

\* The bounds of the metrics follow from what they count.
LEMMA Bounds ==
    ASSUME Accounted', handler' \in [Requests -> Handler], requestsTotal' \in [Labels -> Nat]
    PROVE  active' \in 0..Cardinality(Requests) /\ requestsTotal' \in [Labels -> 0..Cardinality(Requests)]
<1>1. (Arrived \ Done)' \in SUBSET Requests /\ \A l : {r \in Done' : LabelOf(r)' = l} \in SUBSET Requests
  BY DEF Arrived, Done
<1>2. active' \in 0..Cardinality(Requests)
  BY <1>1, Small DEF Accounted
<1>3. \A l \in Labels : requestsTotal'[l] \in 0..Cardinality(Requests)
  BY <1>1, Small DEF Accounted
<1> QED
  BY <1>2, <1>3

-----------------------------------------------------------------------------
(* What a move of one handler does to the counted sets.                    *)

\* Handler r becomes h.
Becomes(r, h) ==
    /\ r \in Requests /\ h \in Record0
    /\ handler' = [handler EXCEPT ![r] = h]

\* No other handler moves with it.
LEMMA OneMoves ==
    ASSUME TypeOK, NEW r, NEW h, Becomes(r, h)
    PROVE  Arrived' = Arrived \cup {r} /\ \A q \in Requests : handler'[q] = IF q = r THEN h ELSE handler[q]
BY Moved DEF Becomes

\* ... and it was running before and still is, with the request it had.
Proceeds(r, h) ==
    /\ Becomes(r, h)
    /\ r \in Arrived /\ handler[r].stage # "done" /\ h.stage # "done"
    /\ h.in = handler[r].in

\* A request that arrives is in none of the sets but the running handlers.
LEMMA Arrives ==
    ASSUME TypeOK, NEW r, NEW h, Becomes(r, h), r \notin Arrived,
           h.stage # "done", h.stage # "balance", h.turn = 0, h.status # 429
    PROVE  /\ r \notin Running /\ Running' = Running \cup {r}
           /\ \A l : DoneWith(l)' = DoneWith(l)
           /\ \A rt : Denied(rt)' = Denied(rt)
           /\ \A rt, i : i # 0 => Chosen(rt, i)' = Chosen(rt, i)
           /\ \A rt, id, w : Passed(rt, id, w)' = Passed(rt, id, w)
<1>1. Arrived' = Arrived \cup {r} /\ \A q \in Requests : handler'[q] = IF q = r THEN h ELSE handler[q]
  BY OneMoves
<1>2. Arrived \in SUBSET Requests /\ r \in Requests
  BY DEF Arrived, Becomes
<1>3. Done' = Done
  BY <1>1, <1>2 DEF Done
<1>4. r \notin Running /\ Running' = Running \cup {r}
  BY <1>1, <1>2, <1>3 DEF Running, Done
<1>5. \A l : DoneWith(l)' = DoneWith(l)
  BY <1>1, <1>2, <1>3 DEF DoneWith, Done, LabelOf, RouteOf
<1>6. \A rt : Denied(rt)' = Denied(rt)
  BY <1>1, <1>2 DEF Denied, RouteOf
<1>7. \A rt, i : i # 0 => Chosen(rt, i)' = Chosen(rt, i)
  BY <1>1, <1>2 DEF Chosen, RouteOf
<1>8. \A rt, id, w : Passed(rt, id, w)' = Passed(rt, id, w)
  BY <1>1, <1>2 DEF Passed, Past, RouteOf
<1> QED
  BY <1>4, <1>5, <1>6, <1>7, <1>8

\* A handler that proceeds is counted as running, and not as done.
LEMMA Goes ==
    ASSUME TypeOK, NEW r, NEW h, Proceeds(r, h)
    PROVE  /\ Arrived' = Arrived
           /\ \A q \in Requests : handler'[q] = IF q = r THEN h ELSE handler[q]
           /\ \A q \in Arrived : RouteOf(q)' = RouteOf(q)
           /\ Running' = Running /\ \A l : DoneWith(l)' = DoneWith(l)
<1>0. Arrived' = Arrived \cup {r} /\ \A q \in Requests : handler'[q] = IF q = r THEN h ELSE handler[q]
  BY OneMoves DEF Proceeds
<1>1. Arrived' = Arrived /\ \A q \in Requests : handler'[q] = IF q = r THEN h ELSE handler[q]
  BY <1>0 DEF Proceeds
<1>2. Arrived \in SUBSET Requests /\ r \in Requests
  BY DEF Arrived, Proceeds, Becomes
<1>3. \A q \in Arrived : RouteOf(q)' = RouteOf(q)
  BY <1>1, <1>2 DEF RouteOf, Proceeds
<1>4. Done' = Done
  BY <1>1, <1>2 DEF Done, Proceeds
<1>5. \A l : DoneWith(l)' = DoneWith(l)
  BY <1>1, <1>2, <1>4 DEF DoneWith, Done, LabelOf, RouteOf, Proceeds
<1> QED
  BY <1>1, <1>3, <1>4, <1>5 DEF Running

\* Of the requests the gateway answered 429 it stays one, or none.
LEMMA DeniedKept ==
    ASSUME TypeOK, NEW r, NEW h, Proceeds(r, h),
           (h.turn = 0 /\ h.status = 429) <=> (handler[r].turn = 0 /\ handler[r].status = 429)
    PROVE  \A rt : Denied(rt)' = Denied(rt)
<1>1. Arrived \in SUBSET Requests /\ r \in Requests
  BY DEF Arrived, Proceeds, Becomes
<1> QED
  BY <1>1, Goes DEF Denied, RouteOf, Proceeds

\* It keeps its turn.
LEMMA ChosenKept ==
    ASSUME TypeOK, NEW r, NEW h, Proceeds(r, h), h.turn = handler[r].turn
    PROVE  \A rt, i : Chosen(rt, i)' = Chosen(rt, i)
<1>1. Arrived \in SUBSET Requests /\ r \in Requests
  BY DEF Arrived, Proceeds, Becomes
<1> QED
  BY <1>1, Goes DEF Chosen, RouteOf, Proceeds

\* It stays on its side of the limiter.
LEMMA PassedKept ==
    ASSUME TypeOK, NEW r, NEW h, Proceeds(r, h),
           h.client = handler[r].client, h.window = handler[r].window, Past(h) <=> Past(handler[r])
    PROVE  \A rt, id, w : Passed(rt, id, w)' = Passed(rt, id, w)
<1>1. Arrived \in SUBSET Requests /\ r \in Requests
  BY DEF Arrived, Proceeds, Becomes
<1>2. \A q \in Arrived : Past(handler'[q]) <=> Past(handler[q])
  BY <1>1, Goes
<1> QED
  BY <1>1, <1>2, Goes DEF Passed, RouteOf, Proceeds

\* A handler that ends is counted under its label from then on.
LEMMA Ends ==
    ASSUME TypeOK, NEW r, NEW h, Becomes(r, h), r \in Arrived, handler[r].stage = "finish", h.stage = "done",
           h.in = handler[r].in, h.status = handler[r].status, h.turn = handler[r].turn,
           h.client = handler[r].client, h.window = handler[r].window
    PROVE  /\ Arrived' = Arrived
           /\ \A q \in Requests : handler'[q] = IF q = r THEN h ELSE handler[q]
           /\ r \in Running /\ Running' = Running \ {r}
           /\ \A l : /\ r \notin DoneWith(l)
                     /\ DoneWith(l)' = IF l = LabelOf(r) THEN DoneWith(l) \cup {r} ELSE DoneWith(l)
           /\ \A rt : Denied(rt)' = Denied(rt)
           /\ \A rt, i : Chosen(rt, i)' = Chosen(rt, i)
           /\ \A rt, id, w : Passed(rt, id, w)' = Passed(rt, id, w)
<1>0. Arrived' = Arrived \cup {r} /\ \A q \in Requests : handler'[q] = IF q = r THEN h ELSE handler[q]
  BY OneMoves
<1>1. Arrived' = Arrived /\ \A q \in Requests : handler'[q] = IF q = r THEN h ELSE handler[q]
  BY <1>0
<1>2. Arrived \in SUBSET Requests /\ r \in Requests
  BY DEF Arrived, Becomes
<1>3. Done' = Done \cup {r} /\ r \notin Done
  BY <1>1, <1>2 DEF Done
<1>4. r \in Running /\ Running' = Running \ {r}
  BY <1>1, <1>3 DEF Running
<1>5. \A q \in Arrived : LabelOf(q)' = LabelOf(q)
  BY <1>1, <1>2 DEF LabelOf, RouteOf
<1>6. \A l : /\ r \notin DoneWith(l)
             /\ DoneWith(l)' = IF l = LabelOf(r) THEN DoneWith(l) \cup {r} ELSE DoneWith(l)
  BY <1>3, <1>5 DEF DoneWith, Done
<1>7. \A rt : Denied(rt)' = Denied(rt)
  BY <1>1, <1>2 DEF Denied, RouteOf
<1>8. \A rt, i : Chosen(rt, i)' = Chosen(rt, i)
  BY <1>1, <1>2 DEF Chosen, RouteOf
<1>9. \A q \in Arrived : Past(handler'[q]) <=> Past(handler[q])
  BY <1>1, <1>2 DEF Past
<1>10. \A rt, id, w : Passed(rt, id, w)' = Passed(rt, id, w)
  BY <1>1, <1>2, <1>9 DEF Passed, RouteOf
<1> QED
  BY <1>1, <1>4, <1>6, <1>7, <1>8, <1>10

-----------------------------------------------------------------------------
(* What the writes of serveRoute leave of a handler's record.              *)

AnyRecord ==
    [stage: Stage, in: Inputs, status: Statuses, sent: Statuses, window: Nat,
     client: ClientIDs \cup {NoID}, turn: Nat]

\* A record of which only the stage is in question.
LEMMA RecordsAreAny == Record0 \subseteq AnyRecord /\ \A h \in AnyRecord : h.stage # "new" => h \in Record0
BY DEF Record0, AnyRecord

\* All but the status, the last status sent and the stage stay.
SameButAnswer(g, h) ==
    g.in = h.in /\ g.window = h.window /\ g.client = h.client /\ g.turn = h.turn

\* The recorder keeps the first status (statusRecorder.WriteHeader).
LEMMA WriteHeaderFields ==
    ASSUME NEW h \in AnyRecord, NEW code \in Statuses
    PROVE  /\ WriteHeader(h, code) \in AnyRecord
           /\ SameButAnswer(WriteHeader(h, code), h)
           /\ WriteHeader(h, code).stage = h.stage
           /\ WriteHeader(h, code).status = IF h.status = 0 THEN code ELSE h.status
BY DEF WriteHeader, AnyRecord, SameButAnswer

\* A handler goes on to its next stage.
LEMMA StageFields ==
    ASSUME NEW h \in AnyRecord, NEW st \in Stage
    PROVE  LET g == [h EXCEPT !.stage = st]
           IN  /\ g \in AnyRecord /\ SameButAnswer(g, h)
               /\ g.stage = st /\ g.status = h.status
BY DEF AnyRecord, SameButAnswer

\* The gateway's own answer (writeJSON).
LEMMA WriteJSONFields ==
    ASSUME NEW h \in AnyRecord, NEW code \in Statuses
    PROVE  /\ WriteJSON(h, code) \in Record0
           /\ SameButAnswer(WriteJSON(h, code), h)
           /\ WriteJSON(h, code).stage = "finish"
           /\ WriteJSON(h, code).status = IF h.status = 0 THEN code ELSE h.status
<1> DEFINE g == WriteHeader(h, code)
<1>1. /\ g \in AnyRecord /\ SameButAnswer(g, h)
      /\ g.status = IF h.status = 0 THEN code ELSE h.status
  BY WriteHeaderFields
<1>2. "finish" \in Stage
  BY DEF Stage
<1>3. WriteJSON(h, code) = [g EXCEPT !.stage = "finish"]
  BY DEF WriteJSON
<1> HIDE DEF g
<1> DEFINE f == [g EXCEPT !.stage = "finish"]
<1>4. f \in AnyRecord /\ SameButAnswer(f, g) /\ f.stage = "finish" /\ f.status = g.status
  BY <1>1, <1>2, StageFields
<1> HIDE DEF f
<1>5. WriteJSON(h, code) = f
  BY <1>3 DEF f
<1> QED
  BY <1>1, <1>4, <1>5, RecordsAreAny DEF SameButAnswer

\* The end of a handler.
LEMMA EndedFields ==
    ASSUME NEW h \in AnyRecord
    PROVE  /\ Ended(h) \in AnyRecord /\ SameButAnswer(Ended(h), h)
           /\ Ended(h).stage = "done" /\ Ended(h).status = h.status
<1>1. "done" \in Stage /\ 0 \in Statuses
  BY DEF Stage, Statuses
<1> QED
  BY <1>1 DEF Ended, AnyRecord, SameButAnswer

\* What a handler starts with.
LEMMA NewHandlerFields ==
    ASSUME NEW in \in Inputs
    PROVE  /\ NewHandler(in) \in AnyRecord /\ NewHandler(in).in = in
           /\ NewHandler(in).status = 0 /\ NewHandler(in).turn = 0 /\ NewHandler(in).window = 0
BY DEF NewHandler, AnyRecord, Stage, Statuses

-----------------------------------------------------------------------------
(* What a step keeps of the invariant when the counted sets stay.          *)

\* One handler moves on, to a record that is in order.
LEMMA HandlersKept ==
    ASSUME TypeOK, HandlersOK, NEW r, NEW h, Becomes(r, h), HandlerOK(h)
    PROVE  HandlersOK'
<1>1. Arrived' = Arrived \cup {r} /\ \A q \in Requests : handler'[q] = IF q = r THEN h ELSE handler[q]
  BY OneMoves
<1>2. Arrived \in SUBSET Requests /\ r \in Requests
  BY DEF Arrived, Becomes
<1>3. \A q \in Arrived' : HandlerOK(handler'[q])
  BY <1>1, <1>2 DEF HandlersOK
<1> QED
  BY <1>3 DEF HandlersOK, HandlerOK

\* ForwardQuota in terms of the set that MemoryInv counts.
LEMMA QuotaCounts ==
    ForwardQuota <=>
        \A r \in Arrived :
            handler[r].window # 0 =>
                Cardinality(Passed(RouteOf(r), handler[r].client, handler[r].window)) <= Limit
BY DEF ForwardQuota, Passed, Past

\* The quota after a step, in the counted sets.
LEMMA QuotaCountsNext ==
    ForwardQuota' <=>
        \A r \in Arrived' : \A rt, id, w :
            RouteOf(r)' = rt /\ handler'[r].client = id /\ handler'[r].window = w /\ w # 0 =>
                Cardinality(Passed(rt, id, w)') <= Limit
BY DEF ForwardQuota, Passed, Past

\* Turns counts the handlers that chose an endpoint.
LEMMA TurnsCount == \A rt, i : Turns(rt, i) = Cardinality(Chosen(rt, i)) /\ Turns(rt, i)' = Cardinality(Chosen(rt, i)')
BY DEF Turns, Chosen

\* A step that charges no entry and takes no request past the limiter.
LEMMA LimiterKept ==
    ASSUME Inv, UNCHANGED memory,
           \A rt, id, w : w # 0 => Passed(rt, id, w)' = Passed(rt, id, w),
           \A q \in Arrived' : \/ handler'[q].window = 0
                               \/ /\ q \in Arrived /\ RouteOf(q)' = RouteOf(q)
                                  /\ handler'[q].client = handler[q].client
                                  /\ handler'[q].window = handler[q].window
    PROVE  MemoryInv' /\ ForwardQuota'
<1>1. MemoryInv'
  <2> SUFFICES ASSUME NEW rt \in Routes, NEW id \in ClientIDs
               PROVE  EntryInv(memory[<<rt, id>>], rt, id)'
    BY DEF MemoryInv
  <2>1. EntryInv(memory[<<rt, id>>], rt, id) /\ memory[<<rt, id>>].resetAt \in Nat
    BY DEF Inv, MemoryInv, EntryInv, Entry
  <2>2. \A q \in Arrived' : RouteOf(q)' = rt /\ handler'[q].client = id => handler'[q].window <= memory[<<rt, id>>].resetAt
    BY <2>1 DEF EntryInv
  <2> QED
    BY <2>1, <2>2 DEF EntryInv
<1>2. ForwardQuota'
  BY QuotaCounts, QuotaCountsNext DEF Inv
<1> QED
  BY <1>1, <1>2

\* A step that takes no turn.
LEMMA TurnsKept ==
    ASSUME Inv, UNCHANGED counter, \A rt, i : i # 0 => Chosen(rt, i)' = Chosen(rt, i)
    PROVE  TurnsInv'
<1> SUFFICES ASSUME NEW rt \in Routes
             PROVE  \E laps \in 0..counter'[rt], pos \in 0..(Len(Endpoints(rt)) - 1) : InLap(rt, laps, pos)'
  BY DEF TurnsInv, Endpoints
<1>1. PICK laps \in 0..counter[rt], pos \in 0..(Len(Endpoints(rt)) - 1) : InLap(rt, laps, pos)
  BY DEF Inv, TurnsInv
<1>2. \A i \in DOMAIN Endpoints(rt) : Turns(rt, i)' = Turns(rt, i)
  BY TurnsCount, RouteHasEndpoints
<1>3. InLap(rt, laps, pos)'
  BY <1>1, <1>2 DEF InLap, Endpoints
<1> QED
  BY <1>1, <1>3

\* Accounted in terms of the counted sets.
LEMMA AccountedCounts ==
    Accounted <=> /\ active = Cardinality(Running)
                  /\ \A l \in Labels : requestsTotal[l] = Cardinality(DoneWith(l))
                  /\ \A rt \in Routes : rejections[rt] = Cardinality(Denied(rt))
BY DEF Accounted, Running, DoneWith, Denied

\* The accounts after a step, in the counted sets.
LEMMA AccountedCountsNext ==
    Accounted' <=> /\ active' = Cardinality(Running')
                   /\ \A l \in Labels : requestsTotal'[l] = Cardinality(DoneWith(l)')
                   /\ \A rt \in Routes : rejections'[rt] = Cardinality(Denied(rt)')
BY DEF Accounted, Running, DoneWith, Denied

\* A step that moves no breaker keeps them sound.
LEMMA BreakersKept == ASSUME Inv, UNCHANGED breakers PROVE BreakersSound'
BY DEF Inv, BreakersSound

\* The parts of the invariant make it up again.
LEMMA InvNextParts ==
    ASSUME Inv, now' \in 1..MaxTime, handler' \in [Requests -> Handler], requestsTotal' \in [Labels -> Nat],
           rejections' \in [Routes -> Nat], memory' \in [LimitKeys -> Entry], counter' \in [Routes -> Nat],
           HandlersOK', BreakersSound', breakers' \in [BreakerKeys -> Circuit],
           Accounted', MemoryInv', ForwardQuota', TurnsInv'
    PROVE  Inv'
BY Bounds DEF Inv, TypeOK

-----------------------------------------------------------------------------
(* One lemma per action.                                                   *)

\* ActiveConnections.Inc, router.Match and authenticate
LEMMA ArriveKeepsInv ==
    ASSUME Inv, NEW r \in Requests, NEW in \in Inputs, Arrive(r, in)
    PROVE  Inv'
<1>1. TypeOK /\ HandlersOK /\ r \notin Arrived /\ active' = active + 1
      /\ UNCHANGED <<now, requestsTotal, rejections, memory, counter, breakers>>
  BY DEF Inv, Arrive, Arrived, GaugeInc
<1> DEFINE n == NewHandler(in)
<1>2. /\ n \in AnyRecord /\ n.in = in /\ n.status = 0 /\ n.turn = 0 /\ n.window = 0
      /\ {401, 404} \subseteq Statuses /\ "limit" \in Stage
  BY NewHandlerFields DEF Statuses, Stage
<1> HIDE DEF n
<1> DEFINE As(h) == /\ h \in Record0 /\ handler' = [handler EXCEPT ![r] = h]
                    /\ h.in = in /\ h.turn = 0 /\ h.window = 0
                    /\ \/ h.stage = "limit" /\ in.route # NoRoute /\ h.status = 0
                       \/ h.stage = "finish" /\ h.status \in {401, 404}
<1>3. PICK h : As(h)
  <2>1. CASE in.route = NoRoute /\ handler' = [handler EXCEPT ![r] = WriteJSON(n, 404)]
    <3>1. As(WriteJSON(n, 404))
      BY <1>2, <2>1, WriteJSONFields DEF SameButAnswer
    <3> HIDE DEF As
    <3> QED
      BY <3>1
  <2>2. CASE in.route # NoRoute /\ handler' = [handler EXCEPT ![r] = WriteJSON(n, 401)]
    <3>1. As(WriteJSON(n, 401))
      BY <1>2, <2>2, WriteJSONFields DEF SameButAnswer
    <3> HIDE DEF As
    <3> QED
      BY <3>1
  <2>3. CASE in.route # NoRoute /\ handler' = [handler EXCEPT ![r] = [n EXCEPT !.stage = "limit"]]
    <3> DEFINE h == [n EXCEPT !.stage = "limit"]
    <3>1. h \in AnyRecord /\ SameButAnswer(h, n) /\ h.stage = "limit" /\ h.status = 0
      BY <1>2, StageFields
    <3>2. h \in Record0
      BY <3>1, RecordsAreAny
    <3>3. handler' = [handler EXCEPT ![r] = h]
      BY <2>3
    <3> HIDE DEF h
    <3>4. As(h)
      BY <1>2, <2>3, <3>1, <3>2, <3>3, ZenonT(30) DEF SameButAnswer
    <3> HIDE DEF As
    <3> QED
      BY <3>4
  <2> QED
    BY <2>1, <2>2, <2>3 DEF Arrive, n
<1>4. in.route # NoRoute => in.route \in Routes
  BY ConfigAssumption DEF ConfigAssumption
<1>5. Becomes(r, h) /\ HandlerOK(h)
  BY <1>3, <1>4 DEF Becomes, HandlerOK
<1>6. /\ r \notin Running /\ Running' = Running \cup {r}
      /\ \A l : DoneWith(l)' = DoneWith(l)
      /\ \A rt : Denied(rt)' = Denied(rt)
      /\ \A rt, i : i # 0 => Chosen(rt, i)' = Chosen(rt, i)
      /\ \A rt, id, w : Passed(rt, id, w)' = Passed(rt, id, w)
  BY <1>1, <1>3, <1>5, Arrives
<1>7. Accounted'
  <2>1. Cardinality(Running \cup {r}) = Cardinality(Running) + 1
    BY <1>6, OneMore DEF Running, Arrived
  <2> QED
    BY <1>1, <1>6, <2>1, AccountedCounts, AccountedCountsNext DEF Inv
<1>8. handler' \in [Requests -> Handler] /\ \A q \in Requests : handler'[q] = IF q = r THEN h ELSE handler[q]
  BY <1>1, <1>5, Moved DEF Becomes
<1>9. MemoryInv' /\ ForwardQuota'
  <2>1. Arrived' = Arrived \cup {r} /\ Arrived \in SUBSET Requests
    BY <1>1, <1>5, Moved DEF Becomes, Arrived
  <2> QED
    BY <1>1, <1>3, <1>6, <1>8, <2>1, LimiterKept DEF RouteOf
<1>10. TurnsInv' /\ BreakersSound' /\ HandlersOK'
  BY <1>1, <1>5, <1>6, TurnsKept, BreakersKept, HandlersKept
<1> QED
  BY <1>1, <1>7, <1>8, <1>9, <1>10, InvNextParts DEF TypeOK

\* From the breaker to the end of the proxying a handler only changes its stage
\* and its answer, and touches no metric.
LEMMA PastBalancerKeepsInv ==
    ASSUME Inv, NEW r, NEW h, Becomes(r, h), r \in Arrived,
           handler[r].stage \in {"admit", "proxy", "record"},
           h.stage \in {"proxy", "record", "finish"}, SameButAnswer(h, handler[r]),
           h.stage = "record" => Config[RouteOf(r)].breaker,
           UNCHANGED <<now, active, requestsTotal, rejections, memory, counter>>,
           breakers' \in [BreakerKeys -> Circuit], BreakersSound'
    PROVE  Inv'
<1>1. TypeOK /\ HandlersOK /\ HandlerOK(handler[r]) /\ handler[r].turn # 0
  BY DEF Inv, HandlersOK, HandlerOK
<1>2. Proceeds(r, h)
  BY DEF Proceeds, SameButAnswer
<1>3. HandlerOK(h)
  BY <1>1 DEF HandlerOK, SameButAnswer, RouteOf
<1>4. Past(h) /\ Past(handler[r])
  BY <1>1 DEF Past, SameButAnswer
<1>5. /\ Arrived' = Arrived
      /\ \A q \in Requests : handler'[q] = IF q = r THEN h ELSE handler[q]
      /\ \A q \in Arrived : RouteOf(q)' = RouteOf(q)
      /\ Running' = Running /\ \A l : DoneWith(l)' = DoneWith(l)
  BY <1>1, <1>2, Goes
<1>6. \A rt : Denied(rt)' = Denied(rt)
  BY <1>1, <1>2, DeniedKept DEF SameButAnswer
<1>7. \A rt, i : Chosen(rt, i)' = Chosen(rt, i)
  BY <1>1, <1>2, ChosenKept DEF SameButAnswer
<1>8. \A rt, id, w : Passed(rt, id, w)' = Passed(rt, id, w)
  BY <1>1, <1>2, <1>4, PassedKept DEF SameButAnswer
<1>9. Accounted'
  BY <1>5, <1>6, AccountedCounts, AccountedCountsNext DEF Inv
<1>10. MemoryInv' /\ ForwardQuota'
  BY <1>5, <1>8, LimiterKept DEF SameButAnswer, Arrived
<1>11. TurnsInv'
  BY <1>7, TurnsKept
<1>12. HandlersOK' /\ handler' \in [Requests -> Handler]
  BY <1>1, <1>3, HandlersKept, Moved DEF Becomes
<1> QED
  BY <1>1, <1>9, <1>10, <1>11, <1>12, InvNextParts DEF TypeOK

\* A handler with a turn has an endpoint, and the endpoint a breaker.
LEMMA HasBreaker ==
    ASSUME Inv, NEW r \in Arrived, handler[r].turn # 0
    PROVE  BreakerKey(r) \in BreakerKeys /\ RouteOf(r) \in Routes
BY RouteHasEndpoints DEF Inv, HandlersOK, HandlerOK, BreakerKey, RouteOf

\* One breaker moves.
LEMMA BreakerMoves ==
    ASSUME Inv, NEW k \in BreakerKeys, NEW c, Sound(c), breakers' = [breakers EXCEPT ![k] = c]
    PROVE  /\ breakers' \in [BreakerKeys -> Circuit] /\ BreakersSound'
           /\ \A j \in BreakerKeys : breakers'[j] = IF j = k THEN c ELSE breakers[j]
BY DEF Inv, TypeOK, BreakersSound, Sound

\* Statuses can be compared.
LEMMA StatusesAreNumbers == Statuses \subseteq Nat
<1>1. Codes \subseteq 200..599
  BY ConfigAssumption DEF ConfigAssumption
<1> QED
  BY <1>1 DEF Statuses

\* What is known of a handler at a stage.
LEMMA AtStage ==
    ASSUME Inv, NEW r \in Requests, handler[r].stage # "new"
    PROVE  /\ r \in Arrived /\ handler[r] \in AnyRecord /\ handler[r] \in Record0
           /\ HandlerOK(handler[r])
BY HandlerSplit, RecordsAreAny DEF Inv, HandlersOK, Unsent, Arrived

\* GetOrCreate and Allow
LEMMA AdmitKeepsInv ==
    ASSUME Inv, NEW r \in Requests, Admit(r)
    PROVE  Inv'
<1> DEFINE cb == breakers[BreakerKey(r)]
<1>1. r \in Arrived /\ handler[r] \in AnyRecord /\ HandlerOK(handler[r]) /\ handler[r].stage = "admit"
  BY AtStage DEF Admit
<1>2. BreakerKey(r) \in BreakerKeys
  BY <1>1, HasBreaker DEF HandlerOK
<1>3. Sound(AfterAllow(cb))
  BY <1>2, AllowSound DEF Inv, BreakersSound
<1>4. breakers' = [breakers EXCEPT ![BreakerKey(r)] = AfterAllow(cb)]
      /\ UNCHANGED <<now, active, requestsTotal, rejections, memory, counter>>
  BY DEF Admit
<1>5. breakers' \in [BreakerKeys -> Circuit] /\ BreakersSound'
  BY <1>2, <1>3, <1>4, BreakerMoves
<1>6. CASE handler' = [handler EXCEPT ![r].stage = "proxy"]
  <2> DEFINE h == [handler[r] EXCEPT !.stage = "proxy"]
  <2>1. h \in AnyRecord /\ SameButAnswer(h, handler[r]) /\ h.stage = "proxy"
    BY <1>1, StageFields DEF Stage
  <2>2. handler' = [handler EXCEPT ![r] = h]
    BY <1>6
  <2> HIDE DEF h
  <2>3. Becomes(r, h)
    BY <2>1, <2>2, RecordsAreAny DEF Becomes
  <2> QED
    BY <1>1, <1>4, <1>5, <2>1, <2>3, PastBalancerKeepsInv
<1>7. CASE handler' = [handler EXCEPT ![r] = WriteJSON(@, 503)]
  <2> DEFINE h == WriteJSON(handler[r], 503)
  <2>1. h \in Record0 /\ SameButAnswer(h, handler[r]) /\ h.stage = "finish"
    BY <1>1, WriteJSONFields DEF Statuses
  <2>2. handler' = [handler EXCEPT ![r] = h]
    BY <1>7
  <2> HIDE DEF h
  <2>3. Becomes(r, h)
    BY <2>1, <2>2 DEF Becomes
  <2> QED
    BY <1>1, <1>4, <1>5, <2>1, <2>3, PastBalancerKeepsInv
<1> QED
  BY <1>6, <1>7 DEF Admit

\* A call of the proxy on the response writer, and where the handler goes on.
ProxyStep(r, code, st) ==
    /\ handler[r].stage = "proxy"
    /\ code \in Statuses
    /\ st \in {"proxy", "record", "finish"}
    /\ st = "record" => Config[RouteOf(r)].breaker
    /\ handler' = [handler EXCEPT ![r] = [WriteHeader(handler[r], code) EXCEPT !.stage = st]]
    /\ ProxyUnchanged

\* The proxy writes an answer, and the handler stays in it or goes on.
LEMMA ProxyWrites ==
    ASSUME Inv, NEW r \in Requests, NEW code, NEW st, ProxyStep(r, code, st)
    PROVE  Inv'
<1> USE DEF ProxyStep
<1> DEFINE g == WriteHeader(handler[r], code)
           h == [g EXCEPT !.stage = st]
<1>1. r \in Arrived /\ handler[r] \in AnyRecord
  BY AtStage
<1>2. g \in AnyRecord /\ SameButAnswer(g, handler[r])
  BY <1>1, WriteHeaderFields
<1>3. handler' = [handler EXCEPT ![r] = h]
  OBVIOUS
<1>3a. st \in Stage
  BY DEF Stage
<1> HIDE DEF g
<1>4. h \in AnyRecord /\ SameButAnswer(h, g) /\ h.stage = st
  BY <1>2, <1>3a, StageFields
<1> HIDE DEF h
<1>5. Becomes(r, h) /\ SameButAnswer(h, handler[r])
  BY <1>2, <1>3, <1>4, RecordsAreAny DEF Becomes, SameButAnswer
<1>6. breakers' \in [BreakerKeys -> Circuit] /\ BreakersSound'
  BY BreakersKept DEF ProxyUnchanged, Inv, TypeOK
<1>7. UNCHANGED <<now, active, requestsTotal, rejections, memory, counter>>
  BY DEF ProxyUnchanged
<1> QED
  BY <1>1, <1>4, <1>5, <1>6, <1>7, PastBalancerKeepsInv

\* httputil.ReverseProxy
LEMMA ProxyKeepsInv ==
    ASSUME Inv, NEW r \in Requests, Informational(r) \/ ProxyEnds(r)
    PROVE  Inv'
<1>1. AfterProxy(r) \in {"record", "finish"} /\ (AfterProxy(r) = "record" => Config[RouteOf(r)].breaker)
  BY DEF AfterProxy
<1>2. {103, 502} \subseteq Statuses /\ Codes \subseteq Statuses
  BY DEF Statuses
<1>3. ASSUME Informational(r) PROVE Inv'
  <2>1. handler[r].stage = "proxy" /\ ProxyUnchanged
    BY <1>3 DEF Informational
  <2> DEFINE g == WriteHeader(handler[r], 103)
  <2>2. g \in AnyRecord /\ g.stage = "proxy"
    BY <1>2, <2>1, AtStage, WriteHeaderFields
  <2>3. g = [g EXCEPT !.stage = "proxy"]
    <3> HIDE DEF g
    <3> QED
      BY <2>2 DEF AnyRecord
  <2>4. handler' = [handler EXCEPT ![r] = [g EXCEPT !.stage = "proxy"]]
    BY <1>3, <2>3 DEF Informational
  <2>5. ProxyStep(r, 103, "proxy")
    BY <1>2, <2>1, <2>4 DEF ProxyStep
  <2> QED
    BY <2>5, ProxyWrites
<1>4. ASSUME NEW code \in Codes, Answer(r, code) PROVE Inv'
  <2>1. ProxyStep(r, code, AfterProxy(r))
    BY <1>1, <1>2, <1>4 DEF Answer, ProxyStep
  <2> QED
    BY <2>1, ProxyWrites
<1>5. ASSUME NEW code \in Codes, Abort(r, code) PROVE Inv'
  <2>1. ProxyStep(r, code, "finish")
    BY <1>1, <1>2, <1>5 DEF Abort, ProxyStep
  <2> QED
    BY <2>1, ProxyWrites
<1>6. ASSUME TransportError(r) PROVE Inv'
  <2> DEFINE code == 502
  <2>1. code \in Statuses /\ AfterProxy(r) \in {"proxy", "record", "finish"}
    BY <1>1, <1>2
  <2>2. /\ handler[r].stage = "proxy" /\ ProxyUnchanged
        /\ handler' = [handler EXCEPT ![r] = [WriteHeader(handler[r], code) EXCEPT !.stage = AfterProxy(r)]]
    BY <1>6 DEF TransportError
  <2>3. ProxyStep(r, code, AfterProxy(r))
    BY <1>1, <2>1, <2>2 DEF ProxyStep
  <2> QED
    BY <2>3, ProxyWrites
<1> QED
  BY <1>3, <1>4, <1>5, <1>6 DEF ProxyEnds

\* RecordFailure and RecordSuccess
LEMMA RecordKeepsInv ==
    ASSUME Inv, NEW r \in Requests, Record(r)
    PROVE  Inv'
<1> DEFINE k == BreakerKey(r)
           cb == breakers[k]
           h == [handler[r] EXCEPT !.stage = "finish"]
<1>1. r \in Arrived /\ handler[r] \in AnyRecord /\ HandlerOK(handler[r]) /\ handler[r].stage = "record"
  BY AtStage DEF Record
<1>2. k \in BreakerKeys /\ Sound(cb)
  BY <1>1, HasBreaker DEF HandlerOK, Inv, BreakersSound
<1>3. UNCHANGED <<now, active, requestsTotal, rejections, memory, counter>>
  BY DEF Record
<1>4. h \in AnyRecord /\ SameButAnswer(h, handler[r]) /\ h.stage = "finish"
  BY <1>1, StageFields DEF Stage
<1>5. handler' = [handler EXCEPT ![r] = h]
  BY DEF Record
<1> HIDE DEF h, k
<1>6. Becomes(r, h)
  BY <1>4, <1>5, RecordsAreAny DEF Becomes
<1>9. breakers' = [breakers EXCEPT ![k] = CASE handler[r].status >= 500     -> AfterFailure(cb)
                                           [] handler[r].status \in 1..499 -> AfterSuccess(cb)
                                           [] handler[r].status = 0        -> cb]
  BY DEF Record, k
<1>7. PICK c : Sound(c) /\ breakers' = [breakers EXCEPT ![k] = c]
  <2> DEFINE status == handler[r].status
             c == CASE status >= 500     -> AfterFailure(cb)
                    [] status \in 1..499 -> AfterSuccess(cb)
                    [] status = 0        -> cb
  <2>1. status \in Nat
    BY <1>1, StatusesAreNumbers DEF AnyRecord
  <2>5. breakers' = [breakers EXCEPT ![k] = c]
    BY <1>9
  <2>6. Sound(AfterFailure(cb)) /\ Sound(AfterSuccess(cb))
    BY <1>2, FailureSound, SuccessSound
  <2>2. CASE status >= 500
    <3>1. c = AfterFailure(cb)
      BY <2>2
    <3> HIDE DEF c
    <3>2. Sound(c)
      BY <2>6, <3>1
    <3> QED
      BY <2>5, <3>2
  <2>3. CASE status \in 1..499
    <3>1. c = AfterSuccess(cb)
      <4>1. ~(status >= 500) /\ status # 0
        <5>1. \A n \in 1..499 : ~(n >= 500) /\ n # 0
          OBVIOUS
        <5> HIDE DEF status
        <5> QED
          BY <2>3, <5>1
      <4> HIDE DEF status
      <4> QED
        BY <2>3, <4>1
    <3> HIDE DEF c
    <3>2. Sound(c)
      BY <2>6, <3>1
    <3> QED
      BY <2>5, <3>2
  <2>4. CASE status = 0
    <3>1. c = cb
      BY <2>4
    <3> QED
      BY <1>2, <1>9, <3>1
  <2> QED
    BY <2>1, <2>2, <2>3, <2>4
<1>8. breakers' \in [BreakerKeys -> Circuit] /\ BreakersSound'
  BY <1>2, <1>7, BreakerMoves
<1> QED
  BY <1>1, <1>3, <1>4, <1>6, <1>8, PastBalancerKeepsInv

\* No request has arrived yet.
LEMMA InvInit == Init => Inv
<1> SUFFICES ASSUME Init PROVE Inv
  OBVIOUS
<1>1. Arrived = {} /\ Done = {}
  BY DEF Init, Arrived, Done
<1>2. Running = {} /\ (\A l : DoneWith(l) = {}) /\ (\A rt : Denied(rt) = {})
      /\ (\A rt, i : Chosen(rt, i) = {}) /\ \A rt, id, w : Passed(rt, id, w) = {}
  BY <1>1 DEF Running, DoneWith, Denied, Chosen, Passed
<1>3. Cardinality({}) = 0 /\ Cardinality(Requests) \in Nat /\ MaxTime \in Nat \ {0}
  BY FS_EmptySet, FS_CardinalityType, ConfigAssumption DEF ConfigAssumption
<1>4. TypeOK
  <2>1. NewCircuitBreaker \in Circuit
    BY NewSound DEF Sound
  <2>2. NoEntry \in Entry
    BY DEF NoEntry, Entry
  <2> QED
    BY <1>3, <2>1, <2>2 DEF Init, TypeOK, Handler
<1>5. HandlersOK /\ BreakersSound
  BY <1>1, NewSound DEF HandlersOK, BreakersSound, Init
<1>6. Accounted
  BY <1>2, <1>3, AccountedCounts DEF Init
<1>7. MemoryInv
  BY <1>1 DEF MemoryInv, EntryInv, Init, LimitKeys, NoEntry, Entry
<1>8. ForwardQuota
  BY <1>1 DEF ForwardQuota
<1>9. TurnsInv
  <2> SUFFICES ASSUME NEW rt \in Routes
               PROVE  \E laps \in 0..counter[rt], pos \in 0..(Len(Endpoints(rt)) - 1) : InLap(rt, laps, pos)
    BY DEF TurnsInv
  <2>1. counter[rt] = 0 /\ \A i : Turns(rt, i) = 0
    BY <1>2, <1>3, TurnsCount DEF Init
  <2>2. InLap(rt, 0, 0)
    BY <2>1, RouteHasEndpoints DEF InLap
  <2> QED
    BY <2>1, <2>2, RouteHasEndpoints
<1> QED
  BY <1>4, <1>5, <1>6, <1>7, <1>8, <1>9 DEF Inv

\* The deferred function of serveRoute: ActiveConnections.Dec and RecordRequest
LEMMA FinishKeepsInv ==
    ASSUME Inv, NEW r \in Requests, Finish(r)
    PROVE  Inv'
<1> DEFINE h == Ended(handler[r])
           l0 == LabelOf(r)
<1>1. r \in Arrived /\ handler[r] \in AnyRecord /\ HandlerOK(handler[r]) /\ handler[r].stage = "finish"
  BY AtStage DEF Finish
<1>2. /\ h \in Record0 /\ h.stage = "done" /\ h.in = handler[r].in /\ h.status = handler[r].status
      /\ h.turn = handler[r].turn /\ h.client = handler[r].client /\ h.window = handler[r].window
  BY <1>1, EndedFields, RecordsAreAny DEF SameButAnswer
<1>3. /\ handler' = [handler EXCEPT ![r] = h]
      /\ active' = active - 1 /\ requestsTotal' = [requestsTotal EXCEPT ![l0] = @ + 1]
      /\ UNCHANGED <<now, rejections, memory, counter, breakers>>
  BY DEF Finish, GaugeDec, CounterInc
<1>4. l0 \in Labels
  BY <1>1, HandlerSplit DEF LabelOf, Labels, RouteOf, AnyRecord, Inv
<1> HIDE DEF h, l0
<1>5. TypeOK /\ HandlersOK /\ Becomes(r, h) /\ HandlerOK(h)
  BY <1>1, <1>2, <1>3 DEF Inv, Becomes, HandlerOK
<1>6. /\ Arrived' = Arrived
      /\ \A q \in Requests : handler'[q] = IF q = r THEN h ELSE handler[q]
      /\ r \in Running /\ Running' = Running \ {r}
      /\ \A l : /\ r \notin DoneWith(l)
                /\ DoneWith(l)' = IF l = l0 THEN DoneWith(l) \cup {r} ELSE DoneWith(l)
      /\ \A rt : Denied(rt)' = Denied(rt)
      /\ \A rt, i : Chosen(rt, i)' = Chosen(rt, i)
      /\ \A rt, id, w : Passed(rt, id, w)' = Passed(rt, id, w)
  BY <1>1, <1>2, <1>5, Ends DEF l0
<1>7. Running \in SUBSET Requests /\ DoneWith(l0) \in SUBSET Requests /\ Arrived \in SUBSET Requests
  BY DEF Running, DoneWith, Done, Arrived
<1>8. Accounted'
  <2>1. Cardinality(Running \ {r}) = Cardinality(Running) - 1
    BY <1>6, <1>7, OneLess
  <2>2. Cardinality(DoneWith(l0) \cup {r}) = Cardinality(DoneWith(l0)) + 1
    BY <1>6, <1>7, OneMore
  <2>3. \A l \in Labels : requestsTotal'[l] = IF l = l0 THEN requestsTotal[l] + 1 ELSE requestsTotal[l]
    BY <1>3, <1>4 DEF Inv, TypeOK
  <2>4. \A l \in Labels : requestsTotal'[l] = Cardinality(DoneWith(l)')
    BY <1>4, <1>6, <2>2, <2>3, AccountedCounts DEF Inv
  <2> QED
    BY <1>3, <1>6, <2>1, <2>4, AccountedCounts, AccountedCountsNext DEF Inv
<1>9. requestsTotal' \in [Labels -> Nat]
  BY <1>3, <1>4 DEF Inv, TypeOK
<1>10. MemoryInv' /\ ForwardQuota'
  BY <1>2, <1>3, <1>6, <1>7, LimiterKept DEF RouteOf
<1>11. TurnsInv' /\ BreakersSound'
  BY <1>3, <1>6, TurnsKept, BreakersKept
<1>12. HandlersOK' /\ handler' \in [Requests -> Handler]
  BY <1>5, HandlersKept, Moved DEF Becomes
<1> QED
  BY <1>3, <1>5, <1>8, <1>9, <1>10, <1>11, <1>12, InvNextParts DEF TypeOK

\* A step that leaves the handlers and what they share but the breakers alone.
LEMMA HandlersStay ==
    ASSUME Inv, UNCHANGED <<handler, active, requestsTotal, rejections, memory, counter>>,
           now' \in 1..MaxTime, breakers' \in [BreakerKeys -> Circuit], BreakersSound'
    PROVE  Inv'
<1>1. Arrived' = Arrived /\ Done' = Done
  BY DEF Arrived, Done
<1>2. HandlersOK'
  BY <1>1 DEF Inv, HandlersOK, HandlerOK
<1>3. Accounted'
  BY <1>1 DEF Inv, Accounted, LabelOf, RouteOf
<1>4. \A rt, id, w : Passed(rt, id, w)' = Passed(rt, id, w)
  BY <1>1 DEF Passed, RouteOf, Past
<1>5. \A rt, i : Chosen(rt, i)' = Chosen(rt, i)
  BY <1>1 DEF Chosen, RouteOf
<1>6. MemoryInv' /\ ForwardQuota'
  BY <1>1, <1>4, LimiterKept DEF RouteOf
<1>7. TurnsInv'
  BY <1>5, TurnsKept
<1> QED
  BY <1>2, <1>3, <1>6, <1>7, InvNextParts DEF Inv, TypeOK

\* Time passes
LEMMA TickKeepsInv == Inv /\ Tick => Inv'
<1> SUFFICES ASSUME Inv, Tick PROVE Inv'
  OBVIOUS
<1>1. now' \in 1..MaxTime
  BY ConfigAssumption DEF ConfigAssumption, Inv, TypeOK, Tick
<1>2. \A k \in BreakerKeys : Sound(breakers'[k])
  BY ElapseSound DEF Inv, BreakersSound, Tick
<1>3. breakers' \in [BreakerKeys -> Circuit] /\ BreakersSound'
  BY <1>2 DEF Tick, BreakersSound, Sound
<1> QED
  BY <1>1, <1>3, HandlersStay DEF Tick

\* Nothing happens.
LEMMA StutterKeepsInv == Inv /\ UNCHANGED vars => Inv'
<1> SUFFICES ASSUME Inv, UNCHANGED vars PROVE Inv'
  OBVIOUS
<1>1. now' \in 1..MaxTime /\ breakers' \in [BreakerKeys -> Circuit] /\ BreakersSound'
  BY BreakersKept DEF vars, Inv, TypeOK
<1> QED
  BY <1>1, HandlersStay DEF vars

\* The index RoundRobin.Next computes from a counter that is pos turns into a lap.
LEMMA LapTurn ==
    ASSUME NEW laps \in Nat, NEW size \in Nat \ {0}, NEW pos \in 0..(size - 1), NEW c, c = laps * size + pos
    PROVE  /\ c % size = pos
           /\ c + 1 = laps * size + (pos + 1)
           /\ pos + 1 = size => c + 1 = (laps + 1) * size + 0
<1>1. c % size = pos
  OBVIOUS
<1>2. pos + 1 = size => c + 1 = (laps + 1) * size + 0
  OBVIOUS
<1> QED
  BY <1>1, <1>2

\* RoundRobin.Next
LEMMA BalanceKeepsInv ==
    ASSUME Inv, NEW r \in Requests, Balance(r)
    PROVE  Inv'
<1> DEFINE rt == RouteOf(r)
           size == Len(Endpoints(rt))
           t == (counter[rt] % size) + 1
           st == IF Config[rt].breaker THEN "admit" ELSE "proxy"
           h == [handler[r] EXCEPT !.turn = t, !.stage = st]
<1>1. /\ r \in Arrived /\ handler[r] \in AnyRecord /\ HandlerOK(handler[r])
      /\ handler[r].stage = "balance" /\ handler[r].turn = 0 /\ handler[r].status = 0
      /\ rt \in Routes
  BY AtStage DEF Balance, HandlerOK, RouteOf
<1>2. /\ handler' = [handler EXCEPT ![r] = h] /\ counter' = [counter EXCEPT ![rt] = @ + 1]
      /\ UNCHANGED <<now, active, requestsTotal, rejections, memory, breakers>>
  BY DEF Balance, NextTurn
<1>3. counter[rt] \in Nat /\ size \in Nat \ {0}
  BY <1>1, RouteHasEndpoints DEF Inv, TypeOK
<1>4. t \in 1..size
  BY <1>3
<1>5. /\ h \in AnyRecord /\ h.stage = st /\ h.turn = t /\ h.in = handler[r].in /\ h.status = 0
      /\ h.window = handler[r].window /\ h.client = handler[r].client
      /\ st \in {"admit", "proxy"} /\ (st = "admit" => Config[rt].breaker)
  <2>1. t \in Nat /\ st \in Stage
    BY <1>3, <1>4 DEF Stage
  <2> HIDE DEF t, st
  <2>2. /\ h \in AnyRecord /\ h.stage = st /\ h.turn = t /\ h.in = handler[r].in /\ h.status = handler[r].status
        /\ h.window = handler[r].window /\ h.client = handler[r].client
    BY <1>1, <2>1 DEF AnyRecord
  <2> QED
    BY <1>1, <2>2 DEF st
<1> HIDE DEF h, st, t
<1>6. Becomes(r, h) /\ HandlerOK(h) /\ TypeOK /\ HandlersOK
  BY <1>1, <1>2, <1>4, <1>5, RecordsAreAny DEF Becomes, HandlerOK, Inv, RouteOf
<1>7. Proceeds(r, h) /\ Past(h) /\ Past(handler[r])
  BY <1>1, <1>4, <1>5, <1>6 DEF Proceeds, Past
<1>8. /\ Arrived' = Arrived
      /\ \A q \in Requests : handler'[q] = IF q = r THEN h ELSE handler[q]
      /\ \A q \in Arrived : RouteOf(q)' = RouteOf(q)
      /\ Running' = Running /\ \A l : DoneWith(l)' = DoneWith(l)
  BY <1>6, <1>7, Goes
<1>9. \A p : Denied(p)' = Denied(p)
  BY <1>1, <1>5, <1>6, <1>7, DeniedKept
<1>10. \A p, id, w : Passed(p, id, w)' = Passed(p, id, w)
  BY <1>5, <1>6, <1>7, PassedKept
<1>11. Accounted'
  BY <1>2, <1>8, <1>9, AccountedCounts, AccountedCountsNext DEF Inv
<1>12. MemoryInv' /\ ForwardQuota'
  BY <1>2, <1>5, <1>8, <1>10, LimiterKept DEF Arrived
<1>13. \A p, i : i # 0 => Chosen(p, i)' = IF p = rt /\ i = t THEN Chosen(p, i) \cup {r} ELSE Chosen(p, i)
  <2>1. Arrived \in SUBSET Requests
    BY DEF Arrived
  <2> QED
    BY <1>1, <1>4, <1>5, <1>8, <2>1 DEF Chosen, RouteOf
<1>14. r \notin Chosen(rt, t) /\ Chosen(rt, t) \in SUBSET Requests
  BY <1>1, <1>4 DEF Chosen, Arrived
<1>14a. \A p \in Routes : \A i \in DOMAIN Endpoints(p) :
          Turns(p, i)' = IF p = rt /\ i = t THEN Turns(p, i) + 1 ELSE Turns(p, i)
  <2>1. Cardinality(Chosen(rt, t) \cup {r}) = Cardinality(Chosen(rt, t)) + 1
    BY <1>14, OneMore
  <2> SUFFICES ASSUME NEW p \in Routes, NEW i \in DOMAIN Endpoints(p)
               PROVE  Turns(p, i)' = IF p = rt /\ i = t THEN Turns(p, i) + 1 ELSE Turns(p, i)
    OBVIOUS
  <2>2. i # 0
    BY RouteHasEndpoints
  <2>3. CASE p = rt /\ i = t
    <3>1. Chosen(p, i)' = Chosen(p, i) \cup {r}
      BY <1>13, <2>2, <2>3
    <3> QED
      BY <2>1, <2>3, <3>1, TurnsCount
  <2>4. CASE ~(p = rt /\ i = t)
    <3>1. Chosen(p, i)' = Chosen(p, i)
      BY <1>13, <2>2, <2>4
    <3> QED
      BY <2>4, <3>1, TurnsCount
  <2> QED
    BY <2>3, <2>4
<1>15. TurnsInv'
  <2> SUFFICES ASSUME NEW p \in Routes
               PROVE  \E laps \in 0..counter'[p], pos \in 0..(Len(Endpoints(p)) - 1) : InLap(p, laps, pos)'
    BY DEF TurnsInv, Endpoints
  <2>1. PICK laps \in 0..counter[p], pos \in 0..(Len(Endpoints(p)) - 1) : InLap(p, laps, pos)
    BY DEF Inv, TurnsInv
  <2>2. Len(Endpoints(p)) \in Nat \ {0} /\ DOMAIN Endpoints(p) = 1..Len(Endpoints(p)) /\ counter[p] \in Nat
    BY RouteHasEndpoints DEF Inv, TypeOK
  <2>3. CASE p # rt
    <3>1. counter'[p] = counter[p] /\ \A i \in DOMAIN Endpoints(p) : Turns(p, i)' = Turns(p, i)
      BY <1>2, <1>14a, <2>3 DEF Inv, TypeOK
    <3>2. InLap(p, laps, pos)'
      BY <2>1, <3>1 DEF InLap, Endpoints
    <3> QED
      BY <2>1, <3>1, <3>2
  <2>4. CASE p = rt
    <3>1. counter[p] = laps * size + pos /\ laps \in Nat /\ pos \in 0..(size - 1)
      BY <2>1, <2>2, <2>4 DEF InLap
    <3>2. t = pos + 1
      <4>1. counter[p] % size = pos
        BY <2>2, <2>4, <3>1, LapTurn
      <4> QED
        BY <2>4, <4>1 DEF t
    <3>3. \A i \in 1..size : Turns(p, i)' = IF i = t THEN Turns(p, i) + 1 ELSE Turns(p, i)
      BY <1>14a, <2>2, <2>4
    <3>4. \A i \in 1..size : Turns(p, i)' = IF i <= pos + 1 THEN laps + 1 ELSE laps
      BY <2>1, <2>2, <2>4, <3>1, <3>2, <3>3 DEF InLap
    <3>5. counter'[p] = counter[p] + 1
      BY <1>2, <2>4 DEF Inv, TypeOK
    <3>6. CASE pos + 1 < size
      <4>1. counter'[p] = laps * size + (pos + 1)
        BY <2>2, <2>4, <3>1, <3>5
      <4>2. InLap(p, laps, pos + 1)'
        BY <2>2, <2>4, <3>4, <4>1 DEF InLap, Endpoints
      <4> QED
        BY <2>2, <2>4, <3>1, <3>5, <3>6, <4>2
    <3>7. CASE pos + 1 = size
      <4>1. counter'[p] = (laps + 1) * size + 0
        BY <2>2, <2>4, <3>1, <3>5, <3>7
      <4>2. \A i \in 1..size : Turns(p, i)' = IF i <= 0 THEN laps + 1 + 1 ELSE laps + 1
        BY <3>4, <3>7, <3>1
      <4>3. InLap(p, laps + 1, 0)'
        BY <2>2, <2>4, <4>1, <4>2 DEF InLap, Endpoints
      <4>4. laps + 1 \in 0..counter'[p] /\ 0 \in 0..(size - 1)
        BY <1>3, <2>1, <2>2, <3>1, <3>5
      <4> QED
        BY <2>4, <4>3, <4>4
    <3> QED
      BY <3>1, <3>6, <3>7, <1>3
  <2> QED
    BY <2>3, <2>4
<1>16. HandlersOK' /\ handler' \in [Requests -> Handler]
  BY <1>6, HandlersKept, Moved DEF Becomes
<1>17. BreakersSound' /\ counter' \in [Routes -> Nat]
  BY <1>1, <1>2, BreakersKept DEF Inv, TypeOK
<1> QED
  BY <1>2, <1>6, <1>11, <1>12, <1>15, <1>16, <1>17, InvNextParts DEF TypeOK
\* A request that a route takes has a client (ResolveClientID): net/http always
\* sets the last of the identities, RemoteAddr.
LEMMA ClientResolved ==
    ASSUME NEW in \in Inputs, in.route \in Routes
    PROVE  ResolveClientID(in) \in ClientIDs
<1> DEFINE ids == <<UserHeader(in), KeyHeader(in), in.forwarded, in.addr>>
           First(i) == i \in DOMAIN ids /\ ids[i] # NoID /\ \A j \in 1..(i - 1) : ids[j] = NoID
<1>1. DOMAIN ids = 1..4 /\ ids[4] = in.addr /\ ids[4] # NoID
  BY ConfigAssumption DEF ConfigAssumption
<1>2. \A i \in 1..4 : ids[i] \in {in.jwt, in.apiKey, in.user, in.keyID, in.forwarded, in.addr}
  BY DEF UserHeader, KeyHeader
<1>3. \A i \in 1..4 : ids[i] \in ClientIDs
  BY <1>2 DEF ClientIDs
<1> HIDE DEF ids
<1>4. \E i : First(i)
  <2>1. CASE ids[1] # NoID
    BY <1>1, <2>1
  <2>2. CASE ids[1] = NoID /\ ids[2] # NoID
    <3>1. First(2)
      BY <1>1, <2>2
    <3> QED
      BY <3>1
  <2>3. CASE ids[1] = NoID /\ ids[2] = NoID /\ ids[3] # NoID
    <3>1. First(3)
      BY <1>1, <2>3
    <3> QED
      BY <3>1
  <2>4. CASE ids[1] = NoID /\ ids[2] = NoID /\ ids[3] = NoID
    <3>1. First(4)
      BY <1>1, <2>4
    <3> QED
      BY <3>1
  <2> QED
    BY <2>1, <2>2, <2>3, <2>4
<1>5. (CHOOSE i : First(i)) \in 1..4
  BY <1>1, <1>4
<1>6. (CHOOSE i \in DOMAIN ids : ids[i] # NoID /\ \A j \in 1..(i - 1) : ids[j] = NoID) \in 1..4
  BY <1>1, <1>4
<1>7. in.route \in ClientIDs
  BY DEF ClientIDs
<1> QED
  BY <1>3, <1>6, <1>7 DEF ResolveClientID, ids

\* memoryLimiter.allow opens a later window, or counts in the one that runs.
LEMMA ChargeFields ==
    ASSUME NEW e \in Entry, IF e.count = 0 THEN e = NoEntry ELSE e.resetAt > 0, NEW t \in Nat \ {0},
           NEW c, c = MemoryCharge(e, t)
    PROVE  /\ c \in Entry /\ c.count > 0 /\ c.resetAt > 0 /\ c.resetAt >= e.resetAt
           /\ \/ c.count = 1 /\ c.resetAt > e.resetAt
              \/ e.count > 0 /\ c.resetAt = e.resetAt /\ c.count = e.count + 1
BY WindowAssumption DEF WindowAssumption, MemoryCharge, Over, Entry, NoEntry

\* Request r of route rt is counted for client id in the entry c, and goes on or
\* is answered 429.
Charges(r, h, rt, id, c) ==
    /\ Proceeds(r, h) /\ handler[r].stage = "limit"
    /\ rt \in Routes /\ id \in ClientIDs /\ RouteOf(r) = rt
    /\ c = MemoryCharge(memory[<<rt, id>>], now) /\ memory' = [memory EXCEPT ![<<rt, id>>] = c]
    /\ h.window = c.resetAt /\ h.client = id /\ h.turn = 0
    /\ h.stage = IF WithinLimit(c) THEN "balance" ELSE "finish"

\* What the charged entry counts.
LEMMA ChargeCounts ==
    ASSUME Inv, NEW r, NEW h, NEW rt, NEW id, NEW c, Charges(r, h, rt, id, c)
    PROVE  /\ c \in Entry /\ c.count > 0 /\ c.resetAt > 0
           /\ \A q \in Arrived : RouteOf(q) = rt /\ handler[q].client = id => handler[q].window <= c.resetAt
           /\ \A p, i, w : w # 0 => Passed(p, i, w)' = IF /\ p = rt /\ i = id /\ w = c.resetAt
                                                          /\ WithinLimit(c)
                                                       THEN Passed(p, i, w) \cup {r} ELSE Passed(p, i, w)
           /\ \A w \in {c.resetAt} : Cardinality(Passed(rt, id, w)') = AtMostLimit(c.count)
<1> DEFINE e == memory[<<rt, id>>]
           w0 == c.resetAt
<1>1. EntryInv(e, rt, id) /\ now \in Nat \ {0} /\ Limit \in Nat
  BY WindowAssumption DEF WindowAssumption, Charges, Inv, MemoryInv, TypeOK
<1>2. /\ c \in Entry /\ c.count > 0 /\ c.resetAt > 0 /\ c.resetAt >= e.resetAt
      /\ \/ c.count = 1 /\ c.resetAt > e.resetAt
         \/ e.count > 0 /\ c.resetAt = e.resetAt /\ c.count = e.count + 1
  BY <1>1, ChargeFields DEF EntryInv, Charges
<1>3. c.count \in Nat /\ w0 \in Nat /\ e.count \in Nat /\ e.resetAt \in Nat
  BY <1>1, <1>2 DEF Entry, EntryInv
<1>4. \A q \in Arrived : handler[q].window \in Nat
  BY HandlerSplit DEF Inv, Arrived, Record0
<1>5. \A q \in Arrived : RouteOf(q) = rt /\ handler[q].client = id => handler[q].window <= c.resetAt
  BY <1>1, <1>2, <1>3, <1>4 DEF EntryInv
<1>6. r \in Arrived /\ Arrived \in SUBSET Requests /\ TypeOK /\ ~Past(handler[r])
  BY DEF Charges, Proceeds, Arrived, Inv, Past, HandlersOK, HandlerOK
<1>7. /\ Arrived' = Arrived
      /\ \A q \in Requests : handler'[q] = IF q = r THEN h ELSE handler[q]
      /\ \A q \in Arrived : RouteOf(q)' = RouteOf(q)
  BY <1>6, Goes DEF Charges
<1>8. Past(h) <=> WithinLimit(c)
  BY DEF Past, Charges
<1>9. \A q \in Arrived : q # r => (Past(handler'[q]) <=> Past(handler[q]))
  BY <1>6, <1>7
<1>10. \A p, i, w : Passed(p, i, w)' = IF p = rt /\ i = id /\ w = c.resetAt /\ WithinLimit(c)
                                       THEN Passed(p, i, w) \cup {r} ELSE Passed(p, i, w)
  BY <1>6, <1>7, <1>8, <1>9 DEF Passed, Charges
<1>11. \A w \in {w0} : Cardinality(Passed(rt, id, w)) = AtMostLimit(c.count - 1)
  <2>1. CASE c.count = 1 /\ c.resetAt > e.resetAt
    <3>1. Passed(rt, id, w0) = {}
      BY <1>1, <1>3, <1>4, <2>1 DEF Passed, EntryInv
    <3> QED
      BY <1>1, <2>1, <3>1, FS_EmptySet DEF AtMostLimit
  <2>2. CASE e.count > 0 /\ c.resetAt = e.resetAt /\ c.count = e.count + 1
    BY <1>1, <1>3, <2>2 DEF EntryInv
  <2> QED
    BY <1>2, <2>1, <2>2
<1>12. \A w \in {w0} : Cardinality(Passed(rt, id, w)') = AtMostLimit(c.count)
  <2> SUFFICES ASSUME NEW w \in {w0} PROVE Cardinality(Passed(rt, id, w)') = AtMostLimit(c.count)
    OBVIOUS
  <2>1. Passed(rt, id, w) \in SUBSET Requests /\ r \notin Passed(rt, id, w) /\ r \in Requests
    BY <1>6 DEF Passed
  <2>2. CASE WithinLimit(c)
    <3>1. Passed(rt, id, w)' = Passed(rt, id, w) \cup {r}
      BY <1>10, <2>2
    <3>2. Cardinality(Passed(rt, id, w) \cup {r}) = Cardinality(Passed(rt, id, w)) + 1
      BY <2>1, OneMore
    <3> QED
      BY <1>1, <1>2, <1>3, <1>11, <2>2, <3>1, <3>2 DEF WithinLimit, AtMostLimit
  <2>3. CASE ~WithinLimit(c)
    <3>1. Passed(rt, id, w)' = Passed(rt, id, w)
      BY <1>10, <2>3
    <3> QED
      BY <1>1, <1>2, <1>3, <1>11, <2>3, <3>1 DEF WithinLimit, AtMostLimit
  <2> QED
    BY <2>2, <2>3
<1> QED
  BY <1>2, <1>5, <1>10, <1>12

\* A request that is charged to its client's entry keeps the limiter's promises.
LEMMA ChargeKeepsLimiter ==
    ASSUME Inv, NEW r, NEW h, NEW rt, NEW id, NEW c, Charges(r, h, rt, id, c)
    PROVE  MemoryInv' /\ ForwardQuota' /\ memory' \in [LimitKeys -> Entry]
<1>1. /\ c \in Entry /\ c.count > 0 /\ c.resetAt > 0
      /\ \A q \in Arrived : RouteOf(q) = rt /\ handler[q].client = id => handler[q].window <= c.resetAt
      /\ \A p, i, w : w # 0 => Passed(p, i, w)' = IF p = rt /\ i = id /\ w = c.resetAt /\ WithinLimit(c)
                                                  THEN Passed(p, i, w) \cup {r} ELSE Passed(p, i, w)
      /\ \A w \in {c.resetAt} : Cardinality(Passed(rt, id, w)') = AtMostLimit(c.count)
  BY ChargeCounts
<1>2. r \in Arrived /\ Arrived \in SUBSET Requests /\ TypeOK /\ r \in Requests
  BY DEF Charges, Proceeds, Arrived, Inv
<1>3. /\ Arrived' = Arrived
      /\ \A q \in Requests : handler'[q] = IF q = r THEN h ELSE handler[q]
      /\ \A q \in Arrived : RouteOf(q)' = RouteOf(q)
  BY <1>2, Goes DEF Charges
<1>4. /\ rt \in Routes /\ id \in ClientIDs /\ RouteOf(r) = rt /\ h.window = c.resetAt /\ h.client = id
      /\ memory' = [memory EXCEPT ![<<rt, id>>] = c]
  BY DEF Charges
<1>5. /\ memory' \in [LimitKeys -> Entry]
      /\ \A p \in Routes, i \in ClientIDs :
            memory'[<<p, i>>] = IF p = rt /\ i = id THEN c ELSE memory[<<p, i>>]
  BY <1>1, <1>2, <1>4 DEF TypeOK, LimitKeys
<1>6. c.resetAt \in Nat /\ Limit \in Nat
  BY <1>1, WindowAssumption DEF WindowAssumption, Entry
<1>7. MemoryInv'
  <2> SUFFICES ASSUME NEW p \in Routes, NEW i \in ClientIDs
               PROVE  EntryInv(memory[<<p, i>>], p, i)'
    BY DEF MemoryInv, ClientIDs
  <2>1. CASE p = rt /\ i = id
    <3>1. memory'[<<p, i>>] = c
      BY <1>5, <2>1
    <3>2. \A q \in Arrived' : RouteOf(q)' = p /\ handler'[q].client = i => handler'[q].window <= c.resetAt
      BY <1>1, <1>2, <1>3, <1>4, <1>6, <2>1
    <3> QED
      BY <1>1, <2>1, <3>1, <3>2 DEF EntryInv, AtMostLimit
  <2>2. CASE ~(p = rt /\ i = id)
    <3>1. memory'[<<p, i>>] = memory[<<p, i>>]
      BY <1>5, <2>2
    <3>2. EntryInv(memory[<<p, i>>], p, i) /\ memory[<<p, i>>].resetAt \in Nat
      BY DEF Inv, MemoryInv, EntryInv, Entry
    <3>3. \A q \in Arrived' : RouteOf(q)' = p /\ handler'[q].client = i => handler'[q].window <= memory[<<p, i>>].resetAt
      BY <1>2, <1>3, <1>4, <2>2, <3>2 DEF EntryInv
    <3>4. \A w : w # 0 => Passed(p, i, w)' = Passed(p, i, w)
      BY <1>1, <2>2
    <3> QED
      BY <3>1, <3>2, <3>3, <3>4 DEF EntryInv, AtMostLimit
  <2> QED
    BY <2>1, <2>2
<1>8. ForwardQuota'
  <2> SUFFICES ASSUME NEW q \in Arrived', NEW p, NEW i, NEW w,
                      RouteOf(q)' = p, handler'[q].client = i, handler'[q].window = w, w # 0
               PROVE  Cardinality(Passed(p, i, w)') <= Limit
    BY QuotaCountsNext
  <2>1. CASE p = rt /\ i = id /\ w = c.resetAt
    <3>1. c.count \in Nat
      BY <1>1 DEF Entry
    <3> QED
      BY <1>1, <1>6, <2>1, <3>1 DEF AtMostLimit
  <2>2. CASE ~(p = rt /\ i = id /\ w = c.resetAt)
    <3>1. q # r /\ q \in Arrived /\ q \in Requests
      BY <1>2, <1>3, <1>4, <2>2
    <3>2. RouteOf(q) = p /\ handler[q].client = i /\ handler[q].window = w
      BY <1>3, <3>1
    <3>3. Passed(p, i, w)' = Passed(p, i, w)
      BY <1>1, <2>2
    <3> QED
      BY <3>1, <3>2, <3>3, QuotaCounts DEF Inv
  <2> QED
    BY <2>1, <2>2
<1> QED
  BY <1>5, <1>7, <1>8
\* checkRateLimit
LEMMA CheckRateLimitKeepsInv ==
    ASSUME Inv, NEW r \in Requests, CheckRateLimit(r)
    PROVE  Inv'
<1> DEFINE rt == RouteOf(r)
           client == ResolveClientID(handler[r].in)
           c == MemoryCharge(memory[<<rt, client>>], now)
           g == [handler[r] EXCEPT !.window = c.resetAt, !.client = client]
<1>1. /\ r \in Arrived /\ handler[r] \in AnyRecord /\ HandlerOK(handler[r]) /\ handler[r].stage = "limit"
      /\ handler[r].turn = 0 /\ handler[r].status = 0 /\ handler[r].window = 0 /\ ~Past(handler[r])
      /\ rt \in Routes /\ TypeOK /\ HandlersOK
      /\ UNCHANGED <<now, active, requestsTotal, counter, breakers>>
  BY AtStage DEF CheckRateLimit, HandlerOK, RouteOf, Past, Inv
<1>2. Arrived \in SUBSET Requests
  BY DEF Arrived
<1>3. BreakersSound' /\ {"balance", "finish"} \subseteq Stage /\ 429 \in Statuses
  BY <1>1, BreakersKept DEF Stage, Statuses
<1>4. ASSUME ~Config[rt].limited, handler' = [handler EXCEPT ![r].stage = "balance"],
             UNCHANGED <<memory, rejections>>
      PROVE  Inv'
  <2> DEFINE h == [handler[r] EXCEPT !.stage = "balance"]
  <2>1. h \in AnyRecord /\ SameButAnswer(h, handler[r]) /\ h.stage = "balance" /\ h.status = 0
    BY <1>1, <1>3, StageFields
  <2>2. handler' = [handler EXCEPT ![r] = h]
    BY <1>4
  <2> HIDE DEF h
  <2>3. Becomes(r, h) /\ Proceeds(r, h) /\ HandlerOK(h)
    BY <1>1, <2>1, <2>2, RecordsAreAny DEF Becomes, Proceeds, HandlerOK, SameButAnswer
  <2>4. /\ Arrived' = Arrived
        /\ \A q \in Requests : handler'[q] = IF q = r THEN h ELSE handler[q]
        /\ \A q \in Arrived : RouteOf(q)' = RouteOf(q)
        /\ Running' = Running /\ \A l : DoneWith(l)' = DoneWith(l)
    BY <1>1, <2>3, Goes
  <2>5. \A p : Denied(p)' = Denied(p)
    BY <1>1, <2>1, <2>3, DeniedKept
  <2>6. \A p, i : Chosen(p, i)' = Chosen(p, i)
    BY <1>1, <2>1, <2>3, ChosenKept DEF SameButAnswer
  <2>7. \A p, id, w : w # 0 => Passed(p, id, w)' = Passed(p, id, w)
    <3>1. h.window = 0
      BY <1>1, <2>1 DEF SameButAnswer
    <3>2. \A q \in Arrived : q # r => (Past(handler'[q]) <=> Past(handler[q]))
      BY <1>2, <2>4
    <3> QED
      BY <1>1, <1>2, <2>4, <3>1, <3>2 DEF Passed
  <2>8. Accounted'
    BY <1>1, <1>4, <2>4, <2>5, AccountedCounts, AccountedCountsNext DEF Inv
  <2>9. MemoryInv' /\ ForwardQuota'
    BY <1>2, <1>4, <2>1, <2>4, <2>7, LimiterKept DEF SameButAnswer
  <2>10. TurnsInv'
    BY <1>1, <2>6, TurnsKept
  <2>11. HandlersOK' /\ handler' \in [Requests -> Handler]
    BY <1>1, <2>3, HandlersKept, Moved DEF Becomes
  <2> QED
    BY <1>1, <1>3, <1>4, <2>8, <2>9, <2>10, <2>11, InvNextParts DEF TypeOK
<1>5. client \in ClientIDs
  BY <1>1, ClientResolved DEF RouteOf, AnyRecord
<1>6. c \in Entry
  BY <1>1, <1>5, ChargeFields DEF Inv, MemoryInv, EntryInv, TypeOK
<1>7. /\ g \in AnyRecord /\ g.in = handler[r].in /\ g.stage = "limit" /\ g.status = 0 /\ g.turn = 0
      /\ g.window = c.resetAt /\ g.client = client
  <2> HIDE DEF c, client
  <2> QED
    BY <1>1, <1>5, <1>6 DEF AnyRecord, Entry
<1> HIDE DEF g
<1>8. ASSUME NEW h, Charges(r, h, rt, client, c), h.in = handler[r].in, h.client \in ClientIDs,
             IF WithinLimit(c) THEN h.status = 0 /\ UNCHANGED rejections
             ELSE h.status = 429 /\ rejections' = CounterInc(rejections, rt)
      PROVE  Inv'
  <2> HIDE DEF c, client
  <2>1. Proceeds(r, h) /\ Becomes(r, h) /\ h.turn = 0 /\ h.stage \in {"balance", "finish"}
        /\ h.stage = IF WithinLimit(c) THEN "balance" ELSE "finish"
    BY <1>8 DEF Charges, Proceeds
  <2>2. HandlerOK(h)
    BY <1>1, <1>8, <2>1 DEF HandlerOK, RouteOf
  <2>3. /\ Arrived' = Arrived
        /\ \A q \in Requests : handler'[q] = IF q = r THEN h ELSE handler[q]
        /\ \A q \in Arrived : RouteOf(q)' = RouteOf(q)
        /\ Running' = Running /\ \A l : DoneWith(l)' = DoneWith(l)
    BY <1>1, <2>1, Goes
  <2>4. \A p, i : Chosen(p, i)' = Chosen(p, i)
    BY <1>1, <2>1, ChosenKept
  <2>5. \A p \in Routes : rejections'[p] = Cardinality(Denied(p)') /\ rejections'[p] \in Nat
    <3>1. \A p \in Routes : rejections[p] = Cardinality(Denied(p)) /\ rejections[p] \in Nat
      BY <1>1, AccountedCounts DEF Inv, TypeOK
    <3>2. CASE WithinLimit(c)
      <4>1. \A p : Denied(p)' = Denied(p)
        BY <1>1, <1>8, <2>1, <3>2, DeniedKept
      <4> QED
        BY <1>8, <3>1, <3>2, <4>1
    <3>3. CASE ~WithinLimit(c)
      <4>1. \A p : Denied(p)' = IF p = rt THEN Denied(p) \cup {r} ELSE Denied(p)
        BY <1>1, <1>2, <1>8, <2>1, <2>3, <3>3 DEF Denied
      <4>2. r \notin Denied(rt) /\ Denied(rt) \in SUBSET Requests
        BY <1>1, <1>2 DEF Denied
      <4>3. Cardinality(Denied(rt) \cup {r}) = Cardinality(Denied(rt)) + 1
        BY <4>2, OneMore
      <4>4. \A p \in Routes : rejections'[p] = IF p = rt THEN rejections[p] + 1 ELSE rejections[p]
        BY <1>1, <1>8, <3>3 DEF CounterInc, TypeOK
      <4> QED
        BY <3>1, <4>1, <4>3, <4>4
    <3> QED
      BY <3>2, <3>3
  <2>6. Accounted'
    BY <1>1, <2>3, <2>5, AccountedCounts, AccountedCountsNext DEF Inv
  <2>7. MemoryInv' /\ ForwardQuota' /\ memory' \in [LimitKeys -> Entry]
    BY <1>8, ChargeKeepsLimiter
  <2>8. TurnsInv'
    BY <1>1, <2>4, TurnsKept
  <2>9. HandlersOK' /\ handler' \in [Requests -> Handler]
    BY <1>1, <2>1, <2>2, HandlersKept, Moved DEF Becomes
  <2>10. rejections' \in [Routes -> Nat]
    BY <1>1, <1>8, <2>5 DEF CounterInc, TypeOK
  <2> QED
    BY <1>1, <1>3, <2>6, <2>7, <2>8, <2>9, <2>10, InvNextParts DEF TypeOK
<1>9. ASSUME memory' = [memory EXCEPT ![<<rt, client>>] = c], WithinLimit(c),
             handler' = [handler EXCEPT ![r] = [g EXCEPT !.stage = "balance"]], UNCHANGED rejections
      PROVE  Inv'
  <2> DEFINE h == [g EXCEPT !.stage = "balance"]
  <2>1. h \in AnyRecord /\ SameButAnswer(h, g) /\ h.stage = "balance" /\ h.status = 0
    BY <1>3, <1>7, StageFields
  <2>2. handler' = [handler EXCEPT ![r] = h]
    BY <1>9
  <2> HIDE DEF h
  <2>3. Charges(r, h, rt, client, c)
    BY <1>1, <1>5, <1>7, <1>9, <2>1, <2>2, RecordsAreAny DEF Charges, Proceeds, Becomes, SameButAnswer
  <2> QED
    BY <1>5, <1>7, <1>8, <1>9, <2>1, <2>3 DEF SameButAnswer
<1>10. ASSUME memory' = [memory EXCEPT ![<<rt, client>>] = c], ~WithinLimit(c),
              handler' = [handler EXCEPT ![r] = WriteJSON(g, 429)], rejections' = CounterInc(rejections, rt)
       PROVE  Inv'
  <2> DEFINE h == WriteJSON(g, 429)
  <2>1. h \in Record0 /\ SameButAnswer(h, g) /\ h.stage = "finish" /\ h.status = 429
    BY <1>3, <1>7, WriteJSONFields
  <2>2. handler' = [handler EXCEPT ![r] = h]
    BY <1>10
  <2> HIDE DEF h
  <2>3. Charges(r, h, rt, client, c)
    <3>1. Proceeds(r, h)
      BY <1>1, <1>7, <2>1, <2>2 DEF Proceeds, Becomes, SameButAnswer
    <3>2. h.window = c.resetAt /\ h.client = client /\ h.turn = 0
      BY <1>7, <2>1 DEF SameButAnswer
    <3>3. c = MemoryCharge(memory[<<rt, client>>], now)
      OBVIOUS
    <3> HIDE DEF c, client
    <3> QED
      BY <1>1, <1>5, <1>10, <2>1, <3>1, <3>2, <3>3 DEF Charges
  <2> QED
    BY <1>5, <1>7, <1>8, <1>10, <2>1, <2>3 DEF SameButAnswer
<1> QED
  BY <1>4, <1>9, <1>10 DEF CheckRateLimit, g

-----------------------------------------------------------------------------
(* The theorems.                                                           *)

\* Every step keeps the inductive invariant.
LEMMA InvNext == Inv /\ [Next]_vars => Inv'
<1> SUFFICES ASSUME Inv, [Next]_vars PROVE Inv'
  OBVIOUS
<1>1. ASSUME NEW r \in Requests, NEW in \in Inputs, Arrive(r, in) PROVE Inv'
  BY <1>1, ArriveKeepsInv
<1>2. ASSUME NEW r \in Requests, LocalStep(r) PROVE Inv'
  BY <1>2, CheckRateLimitKeepsInv, BalanceKeepsInv, AdmitKeepsInv, RecordKeepsInv, FinishKeepsInv DEF LocalStep
<1>3. ASSUME NEW r \in Requests, Informational(r) \/ ProxyEnds(r) PROVE Inv'
  BY <1>3, ProxyKeepsInv
<1> QED
  BY <1>1, <1>2, <1>3, TickKeepsInv, StutterKeepsInv DEF Next

\* The inductive invariant holds throughout.
THEOREM Invariance == Spec => []Inv
BY InvInit, InvNext, PTL DEF Spec

\* The handlers, the metrics, the limiter's entries, the counters and the
\* breakers stay within their types, the metrics within the number of requests.
THEOREM TypeCorrect == Spec => []TypeOK
<1>1. Inv => TypeOK
  BY DEF Inv
<1> QED
  BY <1>1, Invariance, PTL

\* The metrics account for every request exactly once, however it ends
\* (the deferred function of serveRoute, checkRateLimit).
THEOREM EveryRequestAccounted == Spec => []Accounted
<1>1. Inv => Accounted
  BY DEF Inv
<1> QED
  BY <1>1, Invariance, PTL

\* No client gets more than Limit requests of one window past the limiter,
\* however the handlers interleave (checkRateLimit, memoryLimiter.allow).
THEOREM ForwardQuotaKept == Spec => []ForwardQuota
<1>1. Inv => ForwardQuota
  BY DEF Inv
<1> QED
  BY <1>1, Invariance, PTL

\* The endpoints of a route are chosen equally often, up to one, for any number
\* of endpoints (RoundRobin.Next).
THEOREM TurnsBalanced == Spec => []BalancedTurns
<1>1. Inv => BalancedTurns
  <2> SUFFICES ASSUME Inv, NEW rt \in Routes, NEW i \in DOMAIN Endpoints(rt), NEW j \in DOMAIN Endpoints(rt)
               PROVE  Turns(rt, i) <= Turns(rt, j) + 1
    BY DEF BalancedTurns
  <2>1. PICK laps \in 0..counter[rt], pos \in 0..(Len(Endpoints(rt)) - 1) : InLap(rt, laps, pos)
    BY DEF Inv, TurnsInv
  <2> QED
    BY <2>1 DEF InLap
<1> QED
  BY <1>1, Invariance, PTL
-----------------------------------------------------------------------------
(* Every breaker keeps its contract with the requests sent to its endpoint.*)

\* The handler is one of those its endpoint's breaker let through and that have
\* not recorded an outcome.
Waits(h) == h.stage \in {"proxy", "record"} /\ Config[h.in.route].breaker
KeyOf(h) == <<h.in.route, Endpoints(h.in.route)[h.turn]>>

\* A request is pending on the breaker of its own endpoint.
LEMMA PendingMember ==
    ASSUME NEW r \in Requests, NEW k
    PROVE  r \in PendingOn(k) <=> r \in Arrived /\ Waits(handler[r]) /\ KeyOf(handler[r]) = k
BY DEF PendingOn, Arrived, Waits, KeyOf, RouteOf, BreakerKey

\* The requests pending on a breaker, when one handler moves.
LEMMA PendingMoves ==
    ASSUME TypeOK, NEW r, NEW h, Becomes(r, h), NEW k
    PROVE  PendingOn(k)' = IF Waits(h) /\ KeyOf(h) = k THEN PendingOn(k) \cup {r} ELSE PendingOn(k) \ {r}
<1>1. Arrived' = Arrived \cup {r} /\ \A q \in Requests : handler'[q] = IF q = r THEN h ELSE handler[q]
  BY OneMoves
<1>2. Arrived \in SUBSET Requests /\ r \in Requests
  BY DEF Arrived, Becomes
<1>3. PendingOn(k) = {q \in Arrived : Waits(handler[q]) /\ KeyOf(handler[q]) = k}
  BY DEF PendingOn, Waits, KeyOf, RouteOf, BreakerKey
<1>4. PendingOn(k)' = {q \in Arrived' : Waits(handler'[q]) /\ KeyOf(handler'[q]) = k}
  BY DEF PendingOn, Waits, KeyOf, RouteOf, BreakerKey
<1>5. \A q \in Arrived : q # r => handler'[q] = handler[q]
  BY <1>1, <1>2
<1>6. handler'[r] = h
  BY <1>1, <1>2
<1> QED
  BY <1>1, <1>3, <1>4, <1>5, <1>6

\* Contract steps keep to one breaker and its requests.
LEMMA ContractStays ==
    ASSUME NEW k \in BreakerKeys, breakers'[k] = breakers[k], PendingOn(k)' = PendingOn(k)
    PROVE  UNCHANGED Contract(k)!vars
BY DEF Contract!vars

\* A handler that waits for no outcome, neither before nor after, or that still
\* waits for the outcome of the same endpoint.
LEMMA WaitsAsBefore ==
    ASSUME Inv, NEW r, NEW h, Becomes(r, h), UNCHANGED breakers,
           \/ ~Waits(h) /\ ~(r \in Arrived /\ Waits(handler[r]))
           \/ /\ r \in Arrived /\ (Waits(h) <=> Waits(handler[r]))
              /\ h.in = handler[r].in /\ h.turn = handler[r].turn
    PROVE  \A k \in BreakerKeys : UNCHANGED Contract(k)!vars
<1> SUFFICES ASSUME NEW k \in BreakerKeys PROVE UNCHANGED Contract(k)!vars
  OBVIOUS
<1>1. PendingOn(k)' = IF Waits(h) /\ KeyOf(h) = k THEN PendingOn(k) \cup {r} ELSE PendingOn(k) \ {r}
  BY PendingMoves DEF Inv
<1>2. r \in PendingOn(k) <=> r \in Arrived /\ Waits(handler[r]) /\ KeyOf(handler[r]) = k
  BY PendingMember DEF Becomes
<1>3. PendingOn(k)' = PendingOn(k)
  BY <1>1, <1>2 DEF KeyOf
<1> QED
  BY <1>3, ContractStays

\* Only the handler of r may have changed, and has not gone back to the start.
OnlyMoved(r) == handler'[r].stage # "new" /\ \A q \in Requests : q # r => handler'[q] = handler[q]

\* The step of one handler, by the record it leaves.
LEMMA HandlerBecomes ==
    ASSUME Inv, Inv', NEW r \in Requests, OnlyMoved(r), NEW h, h = handler'[r]
    PROVE  Becomes(r, h)
<1> USE DEF OnlyMoved
<1>1. handler \in [Requests -> Handler] /\ handler' \in [Requests -> Handler]
  BY DEF Inv, TypeOK
<1>2. h \in Record0
  BY <1>1 DEF Handler, Record0, Unsent
<1>3. handler' = [handler EXCEPT ![r] = h]
  BY <1>1
<1> QED
  BY <1>2, <1>3 DEF Becomes

\* writeJSON and a move to another stage set the stage.
LEMMA StageSet ==
    ASSUME NEW h, "stage" \in DOMAIN h, NEW st, NEW code
    PROVE  [h EXCEPT !.stage = st].stage = st /\ WriteJSON(h, code).stage = "finish"
BY DEF WriteJSON, WriteHeader

\* The handlers that ask for no breaker leave the contracts alone.
LEMMA OthersKeepContract ==
    ASSUME Inv, Inv', NEW r \in Requests,
           \/ \E in \in Inputs : Arrive(r, in)
           \/ CheckRateLimit(r) \/ Balance(r) \/ Finish(r)
    PROVE  \A k \in BreakerKeys : UNCHANGED Contract(k)!vars
<1>1. handler \in [Requests -> Handler]
  BY DEF Inv, TypeOK
<1> DEFINE h == handler'[r]
<1>2. ASSUME NEW in \in Inputs, Arrive(r, in)
      PROVE  /\ ~(r \in Arrived /\ Waits(handler[r])) /\ UNCHANGED breakers
             /\ h.stage \in {"limit", "finish"} /\ \A q \in Requests : q # r => handler'[q] = handler[q]
  <2> DEFINE n == NewHandler(in)
  <2>1. r \notin Arrived /\ UNCHANGED breakers /\ \A q \in Requests : q # r => handler'[q] = handler[q]
    BY <1>1, <1>2 DEF Arrive, Arrived
  <2>2. n \in AnyRecord
    BY NewHandlerFields
  <2>3. h \in {WriteJSON(n, 404), WriteJSON(n, 401), [n EXCEPT !.stage = "limit"]}
    BY <1>1, <1>2 DEF Arrive
  <2> HIDE DEF n, h
  <2>4. "stage" \in DOMAIN n
    BY <2>2 DEF AnyRecord
  <2>5. h.stage \in {"limit", "finish"}
    BY <2>3, <2>4, StageSet
  <2> QED
    BY <2>1, <2>5
<1>3. ASSUME CheckRateLimit(r)
      PROVE  /\ ~Waits(handler[r]) /\ UNCHANGED breakers
             /\ h.stage \in {"balance", "finish"} /\ \A q \in Requests : q # r => handler'[q] = handler[q]
  <2>1. /\ ~Waits(handler[r]) /\ UNCHANGED breakers /\ \A q \in Requests : q # r => handler'[q] = handler[q]
    BY <1>1, <1>3 DEF CheckRateLimit, Waits
  <2>2. "stage" \in DOMAIN handler[r]
    BY <1>3, AtStage DEF CheckRateLimit, AnyRecord
  <2> DEFINE client == ResolveClientID(handler[r].in)
             g == [handler[r] EXCEPT !.window = MemoryCharge(memory[<<RouteOf(r), client>>], now).resetAt,
                                     !.client = client]
  <2>3. h \in {[handler[r] EXCEPT !.stage = "balance"], [g EXCEPT !.stage = "balance"], WriteJSON(g, 429)}
    <3>1. \/ handler' = [handler EXCEPT ![r].stage = "balance"]
          \/ handler' = [handler EXCEPT ![r] = [g EXCEPT !.stage = "balance"]]
          \/ handler' = [handler EXCEPT ![r] = WriteJSON(g, 429)]
      BY <1>3 DEF CheckRateLimit
    <3> HIDE DEF g
    <3> QED
      BY <1>1, <3>1
  <2>4. "stage" \in DOMAIN g
    BY <2>2
  <2> HIDE DEF h, g
  <2> QED
    BY <2>1, <2>2, <2>3, <2>4, StageSet
<1>4. ASSUME Balance(r)
      PROVE  /\ ~Waits(handler[r]) /\ UNCHANGED breakers /\ \A q \in Requests : q # r => handler'[q] = handler[q]
             /\ h.stage \in {"admit", "proxy"} /\ ~Waits(h)
  <2>1. /\ ~Waits(handler[r]) /\ UNCHANGED breakers /\ \A q \in Requests : q # r => handler'[q] = handler[q]
    BY <1>1, <1>4 DEF Balance, NextTurn, Waits
  <2>2. handler[r] \in AnyRecord
    BY <1>4, AtStage DEF Balance
  <2> DEFINE t == (counter[RouteOf(r)] % Len(Endpoints(RouteOf(r)))) + 1
             st == IF Config[RouteOf(r)].breaker THEN "admit" ELSE "proxy"
  <2>3. h = [handler[r] EXCEPT !.turn = t, !.stage = st]
    BY <1>1, <1>4 DEF Balance, NextTurn
  <2> HIDE DEF t, st, h
  <2>4. h.stage = st /\ h.in = handler[r].in
    BY <2>2, <2>3 DEF AnyRecord
  <2> QED
    BY <2>1, <2>4 DEF Waits, RouteOf, st
<1>5. ASSUME Finish(r)
      PROVE  /\ ~Waits(handler[r]) /\ UNCHANGED breakers /\ \A q \in Requests : q # r => handler'[q] = handler[q]
             /\ h.stage = "done"
  <2>1. /\ ~Waits(handler[r]) /\ UNCHANGED breakers /\ \A q \in Requests : q # r => handler'[q] = handler[q]
        /\ h = Ended(handler[r])
    BY <1>1, <1>5 DEF Finish, Waits
  <2>2. handler[r] \in AnyRecord
    BY <1>5, AtStage DEF Finish
  <2> HIDE DEF h
  <2> QED
    BY <2>1, <2>2, EndedFields
<1>6. /\ ~(r \in Arrived /\ Waits(handler[r])) /\ UNCHANGED breakers
      /\ \A q \in Requests : q # r => handler'[q] = handler[q]
      /\ h.stage # "new" /\ ~Waits(h)
  <2>1. h.stage \in {"limit", "balance", "admit", "finish", "done"} => ~Waits(h)
    BY DEF Waits
  <2> HIDE DEF h
  <2> QED
    BY <1>2, <1>3, <1>4, <1>5, <2>1
<1>7. PICK g : g = h
  OBVIOUS
<1>8. Becomes(r, g) /\ ~Waits(g)
  <2>1. OnlyMoved(r)
    BY <1>6 DEF OnlyMoved
  <2>2. g = handler'[r]
    BY <1>7
  <2>3. Becomes(r, g)
    BY <2>1, <2>2, HandlerBecomes
  <2> QED
    BY <1>6, <1>7, <2>3
<1> QED
  BY <1>6, <1>8, WaitsAsBefore
\* A handler that leaves the proxy without an outcome is dropped by its breaker.
LEMMA Drops ==
    ASSUME Inv, NEW r, NEW h, Becomes(r, h), UNCHANGED breakers, r \in Arrived, ~Waits(h),
           NEW k \in BreakerKeys, k = KeyOf(handler[r]), Waits(handler[r])
    PROVE  Contract(k)!Drop(r)
<1>1. PendingOn(k)' = PendingOn(k) \ {r} /\ r \in PendingOn(k)
  BY PendingMoves, PendingMember DEF Inv, Becomes
<1> QED
  BY <1>1 DEF Contract!Drop

\* The proxy's writes leave the contracts alone; a response that breaks off
\* drops the request.
LEMMA ProxyKeepsContract ==
    ASSUME Inv, Inv', NEW r \in Requests, Informational(r) \/ ProxyEnds(r), NEW k \in BreakerKeys
    PROVE  UNCHANGED Contract(k)!vars \/ Contract(k)!Next
<1> DEFINE h == handler'[r]
<1>1. /\ handler \in [Requests -> Handler] /\ handler[r].stage = "proxy"
      /\ r \in Arrived /\ handler[r] \in AnyRecord
  BY AtStage DEF Inv, TypeOK, Informational, ProxyEnds, Answer, Abort, TransportError
<1>2. UNCHANGED breakers /\ \A q \in Requests : q # r => handler'[q] = handler[q]
  BY <1>1 DEF Informational, ProxyEnds, Answer, Abort, TransportError, ProxyUnchanged
<1>3. \E code \in Statuses :
          LET g == WriteHeader(handler[r], code)
          IN  h \in {g, [g EXCEPT !.stage = AfterProxy(r)], [g EXCEPT !.stage = "finish"]}
  <2>1. {103, 502} \subseteq Statuses /\ Codes \subseteq Statuses
    BY DEF Statuses
  <2>2. CASE Informational(r)
    BY <1>1, <2>1, <2>2 DEF Informational
  <2>3. ASSUME NEW code \in Codes, Answer(r, code) \/ Abort(r, code)
        PROVE  h \in {[WriteHeader(handler[r], code) EXCEPT !.stage = AfterProxy(r)],
                      [WriteHeader(handler[r], code) EXCEPT !.stage = "finish"]}
    BY <1>1, <2>3 DEF Answer, Abort
  <2>4. CASE TransportError(r)
    BY <1>1, <2>1, <2>4 DEF TransportError
  <2> QED
    BY <2>1, <2>2, <2>3, <2>4 DEF ProxyEnds
<1>4. PICK code \in Statuses :
          LET g == WriteHeader(handler[r], code)
          IN  h \in {g, [g EXCEPT !.stage = AfterProxy(r)], [g EXCEPT !.stage = "finish"]}
  BY <1>3
<1> DEFINE g == WriteHeader(handler[r], code)
<1>5. g \in AnyRecord /\ SameButAnswer(g, handler[r]) /\ g.stage = "proxy"
  BY <1>1, WriteHeaderFields
<1>6. AfterProxy(r) \in Stage /\ "finish" \in Stage
      /\ AfterProxy(r) = IF Config[handler[r].in.route].breaker THEN "record" ELSE "finish"
  BY DEF AfterProxy, Stage, RouteOf
<1>7. h \in {g, [g EXCEPT !.stage = AfterProxy(r)], [g EXCEPT !.stage = "finish"]}
  BY <1>4
<1> HIDE DEF g, h
<1>8. /\ h.in = handler[r].in /\ h.turn = handler[r].turn
      /\ h.stage \in {"proxy", AfterProxy(r), "finish"}
  <2> DEFINE To(st) == [g EXCEPT !.stage = st]
  <2>1. \A st \in Stage : To(st).in = g.in /\ To(st).turn = g.turn /\ To(st).stage = st
    BY <1>5, StageFields DEF SameButAnswer
  <2>2. h \in {g, To(AfterProxy(r)), To("finish")}
    BY <1>7
  <2> HIDE DEF To
  <2> QED
    BY <1>5, <1>6, <2>1, <2>2 DEF SameButAnswer
<1>9. Becomes(r, h)
  <2>1. OnlyMoved(r)
    BY <1>2, <1>6, <1>8 DEF OnlyMoved, h
  <2>2. PICK f : f = h
    OBVIOUS
  <2>3. Becomes(r, f)
    BY <2>1, <2>2, HandlerBecomes DEF h
  <2> QED
    BY <2>2, <2>3
<1>10. CASE Waits(h) <=> Waits(handler[r])
  BY <1>1, <1>2, <1>8, <1>9, <1>10, WaitsAsBefore
<1>11. CASE Waits(handler[r]) /\ ~Waits(h) /\ k = KeyOf(handler[r])
  BY <1>1, <1>2, <1>9, <1>11, Drops DEF Contract!Next
<1>12. CASE Waits(handler[r]) /\ ~Waits(h) /\ k # KeyOf(handler[r])
  <2>1. PendingOn(k)' = PendingOn(k)
    <3>1. PendingOn(k)' = PendingOn(k) \ {r}
      BY <1>9, <1>12, PendingMoves DEF Inv
    <3>2. r \notin PendingOn(k)
      BY <1>12, PendingMember
    <3> QED
      BY <3>1, <3>2
  <2> QED
    BY <1>2, <2>1, ContractStays
<1>13. CASE ~Waits(handler[r]) /\ Waits(h)
  <2>1. h.stage # "finish" /\ h.stage \in {"proxy", "record"}
    BY <1>13 DEF Waits
  <2>2. h.in = handler[r].in /\ handler[r].stage = "proxy"
    BY <1>1, <1>8
  <2> QED
    BY <1>13, <2>1, <2>2 DEF Waits, RouteOf
<1> QED
  BY <1>10, <1>11, <1>12, <1>13

\* Time passes for every breaker.
LEMMA TickKeepsContract ==
    ASSUME Inv, Tick, NEW k \in BreakerKeys
    PROVE  UNCHANGED Contract(k)!vars \/ Contract(k)!Next
<1> DEFINE c == breakers[k]
<1>1. Sound(c) /\ breakers'[k] = Elapse(c)
  BY DEF Inv, BreakersSound, Tick
<1>2. PendingOn(k)' = PendingOn(k)
  BY DEF Tick, PendingOn, Arrived, RouteOf, BreakerKey
<1>3. /\ Elapse(c).State = c.State /\ Elapse(c).FailureCount = c.FailureCount
      /\ Elapse(c).OpenAge = IF c.OpenAge < Timeout THEN c.OpenAge + 1 ELSE c.OpenAge
  BY <1>1, ElapseMaps
<1>4. c.OpenAge \in 0..Timeout /\ Timeout \in Nat
  BY <1>1, BreakerAssumption DEF BreakerAssumption, Sound, Circuit
<1>5. CASE c.OpenAge < Timeout
  <2>1. Contract(k)!Tick
    BY <1>1, <1>2, <1>3, <1>4, <1>5 DEF Contract!Tick
  <2> QED
    BY <2>1 DEF Contract!Next
<1>6. CASE c.OpenAge = Timeout
  BY <1>1, <1>2, <1>3, <1>4, <1>6 DEF Contract!vars
<1> QED
  BY <1>4, <1>5, <1>6
\* A request at another breaker leaves this one and its requests alone.
LEMMA OtherBreaker ==
    ASSUME Inv, NEW r, NEW h, Becomes(r, h), r \in Arrived, h.in = handler[r].in, h.turn = handler[r].turn,
           NEW k \in BreakerKeys, KeyOf(handler[r]) # k, breakers'[k] = breakers[k]
    PROVE  UNCHANGED Contract(k)!vars
<1>1. KeyOf(h) = KeyOf(handler[r])
  BY DEF KeyOf
<1>2. PendingOn(k)' = PendingOn(k) \ {r}
  BY <1>1, PendingMoves DEF Inv
<1>3. r \notin PendingOn(k)
  BY PendingMember DEF Becomes
<1>4. PendingOn(k)' = PendingOn(k)
  BY <1>2, <1>3
<1> QED
  BY <1>4, ContractStays

\* GetOrCreate and Allow are Admit, or nothing when the request is rejected.
LEMMA AdmitKeepsContract ==
    ASSUME Inv, Inv', NEW r \in Requests, Admit(r), NEW k \in BreakerKeys
    PROVE  UNCHANGED Contract(k)!vars \/ Contract(k)!Next
<1> DEFINE h == handler'[r]
           b == KeyOf(handler[r])
           c == breakers[b]
<1>1. /\ handler \in [Requests -> Handler] /\ r \in Arrived /\ handler[r] \in AnyRecord /\ HandlerOK(handler[r])
      /\ handler[r].stage = "admit" /\ Config[handler[r].in.route].breaker /\ BreakerKey(r) = b
  <2>1. handler[r].stage = "admit" /\ handler \in [Requests -> Handler]
    BY DEF Admit, Inv, TypeOK
  <2>2. r \in Arrived /\ handler[r] \in AnyRecord /\ HandlerOK(handler[r])
    BY <2>1, AtStage
  <2>3. BreakerKey(r) = b
    BY DEF BreakerKey, KeyOf, RouteOf
  <2> QED
    BY <2>1, <2>2, <2>3 DEF HandlerOK
<1>2. b \in BreakerKeys
  BY <1>1, HasBreaker DEF HandlerOK
<1>3. Sound(c) /\ \A j \in BreakerKeys : breakers'[j] = IF j = b THEN AfterAllow(c) ELSE breakers[j]
  BY <1>1, <1>2 DEF Inv, BreakersSound, TypeOK, Admit
<1>4. /\ \A q \in Requests : q # r => handler'[q] = handler[q]
      /\ h.in = handler[r].in /\ h.turn = handler[r].turn
      /\ h.stage = IF Allowed(c) THEN "proxy" ELSE "finish"
  <2>1. 503 \in Statuses /\ "proxy" \in Stage
    BY DEF Statuses, Stage
  <2>2. CASE Allowed(c)
    <3>1. handler' = [handler EXCEPT ![r].stage = "proxy"]
      BY <1>1, <2>2 DEF Admit
    <3> HIDE DEF b, c
    <3>2. h = [handler[r] EXCEPT !.stage = "proxy"]
      BY <1>1, <3>1
    <3> QED
      BY <1>1, <2>1, <2>2, <3>1, <3>2, StageFields DEF SameButAnswer
  <2>3. CASE ~Allowed(c)
    <3>1. handler' = [handler EXCEPT ![r] = WriteJSON(handler[r], 503)]
      BY <1>1, <2>3 DEF Admit
    <3> HIDE DEF b, c
    <3>2. h = WriteJSON(handler[r], 503)
      BY <1>1, <3>1
    <3> QED
      BY <1>1, <2>1, <2>3, <3>1, <3>2, WriteJSONFields DEF SameButAnswer
  <2> QED
    BY <2>2, <2>3
<1> HIDE DEF b, c, h
<1>5. Becomes(r, h)
  <2>1. OnlyMoved(r)
    BY <1>4 DEF OnlyMoved, h
  <2>2. PICK f : f = h
    OBVIOUS
  <2>3. Becomes(r, f)
    BY <2>1, <2>2, HandlerBecomes DEF h
  <2> QED
    BY <2>2, <2>3
<1>6. CASE k # b
  BY <1>1, <1>3, <1>4, <1>5, <1>6, OtherBreaker DEF b
<1>7. CASE k = b /\ Allowed(c)
  <2>1. Waits(h) /\ KeyOf(h) = k /\ r \notin PendingOn(k)
    BY <1>1, <1>4, <1>7, PendingMember DEF Waits, KeyOf, b
  <2>2. PendingOn(k)' = PendingOn(k) \cup {r}
    BY <1>5, <2>1, PendingMoves DEF Inv
  <2>3. /\ c.OpenAge = Timeout /\ AfterAllow(c).OpenAge = Timeout
        /\ AfterAllow(c).State = IF c.State = StateOpen THEN StateHalfOpen ELSE c.State
        /\ AfterAllow(c).State = StateClosed => AfterAllow(c).FailureCount = c.FailureCount
    BY <1>3, <1>7, AllowMaps
  <2>4. breakers[k] = c /\ breakers'[k] = AfterAllow(c) /\ Timeout \in Nat
    BY <1>3, <1>7, BreakerAssumption DEF BreakerAssumption, c
  <2>5. Contract(k)!Admit(r)
    BY <2>1, <2>2, <2>3, <2>4 DEF Contract!Admit, StateClosed, StateOpen, StateHalfOpen
  <2> QED
    BY <2>5 DEF Contract!Next
<1>8. CASE k = b /\ ~Allowed(c)
  <2>1. breakers'[k] = breakers[k]
    BY <1>3, <1>8, RejectMaps DEF c
  <2>2. PendingOn(k)' = PendingOn(k)
    <3>1. ~Waits(h) /\ r \notin PendingOn(k)
      BY <1>1, <1>4, <1>8, PendingMember DEF Waits
    <3> QED
      BY <1>5, <3>1, PendingMoves DEF Inv
  <2> QED
    BY <2>1, <2>2, ContractStays
<1> QED
  BY <1>6, <1>7, <1>8

\* RecordFailure is Fail and RecordSuccess is Succeed, for the endpoint that
\* served the request; without a status the request is dropped.
LEMMA RecordKeepsContract ==
    ASSUME Inv, Inv', NEW r \in Requests, Record(r), NEW k \in BreakerKeys
    PROVE  UNCHANGED Contract(k)!vars \/ Contract(k)!Next
<1> DEFINE h == handler'[r]
           b == KeyOf(handler[r])
           c == breakers[b]
           status == handler[r].status
<1>1. /\ handler \in [Requests -> Handler] /\ r \in Arrived /\ handler[r] \in AnyRecord /\ HandlerOK(handler[r])
      /\ handler[r].stage = "record" /\ Waits(handler[r]) /\ BreakerKey(r) = b
  <2>1. handler[r].stage = "record"
    BY DEF Record
  <2>2. r \in Arrived /\ handler[r] \in AnyRecord /\ HandlerOK(handler[r]) /\ handler \in [Requests -> Handler]
    BY <2>1, AtStage DEF Inv, TypeOK
  <2> QED
    BY <2>1, <2>2 DEF HandlerOK, BreakerKey, KeyOf, RouteOf, Waits
<1>2. b \in BreakerKeys /\ status \in Nat
  BY <1>1, HasBreaker, StatusesAreNumbers DEF HandlerOK, AnyRecord
<1>3. /\ Sound(c)
      /\ \A j \in BreakerKeys : j # b => breakers'[j] = breakers[j]
      /\ status >= 500 => breakers'[b] = AfterFailure(c)
      /\ status \in 1..499 => breakers'[b] = AfterSuccess(c)
      /\ status = 0 => breakers'[b] = c
  <2> DEFINE o == CASE status >= 500     -> AfterFailure(c)
                    [] status \in 1..499 -> AfterSuccess(c)
                    [] status = 0        -> c
  <2>1. breakers' = [breakers EXCEPT ![b] = o]
    BY <1>1 DEF Record
  <2>2. breakers \in [BreakerKeys -> Circuit] /\ Sound(c)
    BY <1>2 DEF Inv, TypeOK, BreakersSound
  <2> HIDE DEF b, status, c
  <2>3. status >= 500 => o = AfterFailure(c)
    BY <1>2
  <2>4. status \in 1..499 => o = AfterSuccess(c)
    BY <1>2
  <2>5. status = 0 => o = c
    BY <1>2
  <2> HIDE DEF o
  <2> QED
    BY <1>2, <2>1, <2>2, <2>3, <2>4, <2>5
<1>4. /\ \A q \in Requests : q # r => handler'[q] = handler[q]
      /\ h.in = handler[r].in /\ h.turn = handler[r].turn /\ h.stage = "finish"
  <2>1. h = [handler[r] EXCEPT !.stage = "finish"] /\ \A q \in Requests : q # r => handler'[q] = handler[q]
    BY <1>1 DEF Record
  <2> HIDE DEF h
  <2> QED
    BY <1>1, <2>1, StageFields DEF SameButAnswer, Stage
<1> HIDE DEF b, c, h, status
<1>5. Becomes(r, h) /\ ~Waits(h)
  <2>1. OnlyMoved(r)
    BY <1>4 DEF OnlyMoved, h
  <2>2. PICK f : f = h
    OBVIOUS
  <2>3. Becomes(r, f)
    BY <2>1, <2>2, HandlerBecomes DEF h
  <2> QED
    BY <1>4, <2>2, <2>3 DEF Waits
<1>6. CASE k # b
  BY <1>1, <1>3, <1>4, <1>5, <1>6, OtherBreaker DEF b
<1>7. CASE k = b
  <2>1. PendingOn(k)' = PendingOn(k) \ {r} /\ r \in PendingOn(k)
    BY <1>1, <1>5, <1>7, PendingMoves, PendingMember DEF Inv, b
  <2>2. breakers[k] = c /\ Timeout \in Nat /\ Threshold \in Nat /\ c \in Circuit
        /\ c.OpenAge \in 0..Timeout /\ c.FailureCount \in Nat /\ c.State \in CircuitState
        /\ (c.State # StateOpen => c.OpenAge = Timeout) /\ (c.State = StateHalfOpen => c.FailureCount = 0)
    BY <1>3, <1>7, BreakerAssumption DEF BreakerAssumption, Sound, Circuit, c
  <2>3. CASE status >= 500
    <3>1. breakers'[k] = AfterFailure(c)
      BY <1>3, <1>7, <2>3
    <3>2. Contract(k)!Fail(r)
      BY <2>1, <2>2, <3>1, FailureFields
         DEF Contract!Fail, Contract!Open, Trips, CircuitState, StateClosed, StateOpen, StateHalfOpen
    <3> QED
      BY <3>2 DEF Contract!Next
  <2>4. CASE status \in 1..499
    <3>1. breakers'[k] = AfterSuccess(c)
      BY <1>3, <1>7, <2>4
    <3>2. Contract(k)!Succeed(r)
      BY <1>3, <2>1, <2>2, <3>1, SuccessMaps DEF Contract!Succeed, StateClosed, StateOpen, StateHalfOpen
    <3> QED
      BY <3>2 DEF Contract!Next
  <2>5. CASE status = 0
    <3>1. breakers'[k] = breakers[k]
      BY <1>3, <1>7, <2>2, <2>5
    <3>2. Contract(k)!Drop(r)
      BY <2>1, <3>1 DEF Contract!Drop
    <3> QED
      BY <3>2 DEF Contract!Next
  <2> QED
    BY <1>2, <2>3, <2>4, <2>5
<1> QED
  BY <1>6, <1>7

\* Every step of the gateway is, for every breaker, nothing or a step of its contract.
LEMMA ContractsKept ==
    Inv /\ Inv' /\ Next => \A k \in BreakerKeys : UNCHANGED Contract(k)!vars \/ Contract(k)!Next
<1> SUFFICES ASSUME Inv, Inv', Next, NEW k \in BreakerKeys
             PROVE  UNCHANGED Contract(k)!vars \/ Contract(k)!Next
  OBVIOUS
<1>1. CASE Tick
  BY <1>1, TickKeepsContract
<1>2. ASSUME NEW r \in Requests, \E in \in Inputs : Arrive(r, in)
      PROVE  UNCHANGED Contract(k)!vars
  BY <1>2, OthersKeepContract
<1>3. ASSUME NEW r \in Requests, LocalStep(r)
      PROVE  UNCHANGED Contract(k)!vars \/ Contract(k)!Next
  BY <1>3, OthersKeepContract, AdmitKeepsContract, RecordKeepsContract DEF LocalStep
<1>4. ASSUME NEW r \in Requests, Informational(r) \/ ProxyEnds(r)
      PROVE  UNCHANGED Contract(k)!vars \/ Contract(k)!Next
  BY <1>4, ProxyKeepsContract
<1> QED
  BY <1>1, <1>2, <1>3, <1>4 DEF Next

\* The breaker of every endpoint implements BreakerContract with the requests
\* sent to that endpoint, whatever the handlers of other endpoints do
\* (breakerStore.GetOrCreate, CircuitBreaker and the calls in serveRoute).
THEOREM ContractsRefined == Spec => BreakersKeepContract
<1>1. Init => \A k \in BreakerKeys : Contract(k)!Init
  <2> SUFFICES ASSUME Init, NEW k \in BreakerKeys PROVE Contract(k)!Init
    OBVIOUS
  <2>1. breakers[k] = NewCircuitBreaker /\ PendingOn(k) = {} /\ Timeout \in Nat
    BY BreakerAssumption DEF BreakerAssumption, Init, PendingOn, Arrived
  <2> QED
    BY <2>1 DEF Contract!Init, NewCircuitBreaker, StateClosed
<1>2. Inv /\ Inv' /\ [Next]_vars => [\A k \in BreakerKeys : UNCHANGED Contract(k)!vars \/ Contract(k)!Next]_vars
  BY ContractsKept
<1> QED
  BY <1>1, <1>2, Invariance, PTL DEF Spec, BreakersKeepContract
=============================================================================
