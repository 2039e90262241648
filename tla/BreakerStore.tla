---------------------------- MODULE BreakerStore ----------------------------
(***************************************************************************)
(* The breakers of one gateway: the store that hands them to the request   *)
(* handlers (BreakerStore of internal/middleware/circuitbreaker.go) and    *)
(* the background loop that exports their states as Prometheus gauges      *)
(* (RunBreakerStateLoop of internal/metrics/prometheus.go, started by New  *)
(* and stopped by Shutdown).                                               *)
(*                                                                         *)
(* Both share the store's RWMutex.  A handler looks its breaker up under   *)
(* the read lock, creates a missing one under the write lock, and does so  *)
(* twice per request: once to ask Allow and once to record the outcome.    *)
(* The exporter holds the read lock while it reads the breakers one after  *)
(* the other, and the breakers go on moving under it: their states are     *)
(* guarded by their own mutexes, not by the store's.                       *)
(*                                                                         *)
(* What moves a breaker is the subject of Breaker; here it is a state and  *)
(* the moves that exist.  A breaker is named by its key and the handler    *)
(* that created it, so that two breakers of one key can be told apart.     *)
(***************************************************************************)
EXTENDS Naturals, FiniteSets

CONSTANTS
    Handlers,   \* handler slots: a slot serves one request after another
    Keys,       \* store keys, "routeID:upstreamURL"
    None        \* no breaker, no gauge, no lock holder

Exporter == "exporter"      \* the export loop, as a holder of the lock

ASSUME StoreAssumption ==
    /\ None \notin Handlers \cup (Keys \X Handlers)
    /\ Exporter \notin Handlers

States == {"closed", "open", "half-open"}

\* The state an admitted request leaves (Allow after the timeout turns open to
\* half-open), and those its outcome may leave (RecordFailure, RecordSuccess, or
\* neither when no status was written).
AfterAllow(s) == IF s = "open" THEN "half-open" ELSE s
AfterRecord(s) == IF s = "closed" THEN {"closed", "open"} ELSE IF s = "open" THEN {"open"} ELSE States

Breakers == Keys \X Handlers

VARIABLES
    breakers,   \* the store's map
    state,      \* CircuitBreaker.State of every breaker there is or may be
    readers,    \* who holds the store's read lock
    writer,     \* who has called Lock and not yet Unlock: new readers wait
    handler,    \* per slot: stage, the key of its request, the breaker it got
    exporter,   \* the loop: stage, the breakers still to do, its snapshot
    gauges,     \* metrics.CircuitBreakerState
    done,       \* breakerDone is closed
    had         \* history: the states each breaker had since the export began

vars == <<breakers, state, readers, writer, handler, exporter, gauges, done, had>>

\* The map as Snapshot ranges over it, and an empty one.
Stored == {k \in Keys : breakers[k] # None}
Empty == [k \in Keys |-> None]
NoStates == [k \in Keys |-> {}]

IdleHandler == [stage |-> "idle", call |-> "allow", key |-> None, cb |-> None]

Init ==
    /\ breakers = Empty
    /\ state = [b \in Breakers |-> "closed"]
    /\ readers = {}
    /\ writer = None
    /\ handler = [h \in Handlers |-> IdleHandler]
    /\ exporter = [stage |-> "select", todo |-> {}, snap |-> Empty]
    /\ gauges = Empty
    /\ done = FALSE
    /\ had = NoStates

-----------------------------------------------------------------------------
(* sync.RWMutex: a writer that waits for the readers holds back new ones.  *)

RLock(p) == writer = None /\ readers' = readers \cup {p}
RUnlock(p) == readers' = readers \ {p}

-----------------------------------------------------------------------------
(* GetOrCreate, called by serveRoute before Allow and before the outcome   *)
(* is recorded.                                                            *)

ExporterUnchanged == UNCHANGED <<exporter, gauges, done, had>>
StoreUnchanged == UNCHANGED <<breakers, state, writer>>

\* serveRoute reaches the breaker of its route and endpoint.
Call(h, k) ==
    /\ handler[h].stage = "idle"
    /\ handler' = [handler EXCEPT ![h] = [@ EXCEPT !.stage = "rlock", !.key = k]]
    /\ UNCHANGED readers /\ StoreUnchanged /\ ExporterUnchanged

\* RLock and the lookup.
Lookup(h) ==
    /\ handler[h].stage = "rlock"
    /\ RLock(h)
    /\ handler' = [handler EXCEPT ![h].stage = IF breakers[handler[h].key] = None THEN "miss" ELSE "hit"]
    /\ StoreUnchanged /\ ExporterUnchanged

\* RUnlock after a hit.
Found(h) ==
    /\ handler[h].stage = "hit"
    /\ RUnlock(h)
    /\ handler' = [handler EXCEPT ![h].stage = "use", ![h].cb = breakers[handler[h].key]]
    /\ StoreUnchanged /\ ExporterUnchanged

\* Mutant: a miss is looked up again until somebody else has created the breaker.
MissedWaits(h) ==
    /\ handler[h].stage = "miss"
    /\ RUnlock(h)
    /\ handler' = [handler EXCEPT ![h].stage = "rlock"]
    /\ StoreUnchanged /\ ExporterUnchanged

\* RUnlock after a miss.
Missed(h) ==
    /\ handler[h].stage = "miss"
    /\ RUnlock(h)
    /\ handler' = [handler EXCEPT ![h].stage = "lock"]
    /\ StoreUnchanged /\ ExporterUnchanged

\* Lock is called: one writer at a time, and it waits for the readers.
Lock(h) ==
    /\ handler[h].stage = "lock" /\ writer = None
    /\ writer' = h
    /\ handler' = [handler EXCEPT ![h].stage = "create"]
    /\ UNCHANGED <<breakers, state, readers>> /\ ExporterUnchanged

\* Mutant: no second check under the write lock.
CreateUnchecked(h) ==
    /\ handler[h].stage = "create" /\ readers = {}
    /\ breakers' = [breakers EXCEPT ![handler[h].key] = <<handler[h].key, h>>]
    /\ handler' = [handler EXCEPT ![h].stage = "use", ![h].cb = <<handler[h].key, h>>]
    /\ writer' = None
    /\ UNCHANGED <<state, readers>> /\ ExporterUnchanged

\* The readers are gone: the second check, NewCircuitBreaker if the key is
\* still missing, and Unlock.
Create(h) ==
    /\ handler[h].stage = "create" /\ readers = {}
    /\ LET k == handler[h].key
           cb == IF breakers[k] = None THEN <<k, h>> ELSE breakers[k]
       IN  /\ breakers' = [breakers EXCEPT ![k] = cb]
           /\ handler' = [handler EXCEPT ![h].stage = "use", ![h].cb = cb]
    /\ writer' = None
    /\ UNCHANGED <<state, readers>> /\ ExporterUnchanged

\* A breaker's state changes under its own mutex, whatever the store's lock does.
Move(b, s) ==
    /\ state' = [state EXCEPT ![b] = s]
    /\ had' = IF had[b[1]] # {} /\ breakers[b[1]] = b THEN [had EXCEPT ![b[1]] = @ \cup {s}] ELSE had

LocksUnchanged == UNCHANGED <<breakers, readers, writer, exporter, gauges, done>>

\* Allow answers from the state, and turns an open circuit half-open once its
\* timeout has passed; a request that is not admitted is over.
Allow(h) ==
    /\ handler[h].stage = "use" /\ handler[h].call = "allow"
    /\ LET b == handler[h].cb
       IN  \/ /\ Move(b, AfterAllow(state[b]))
              /\ handler' = [handler EXCEPT ![h].stage = "proxy"]
           \/ /\ state[b] = "open" /\ Move(b, "open")
              /\ handler' = [handler EXCEPT ![h] = IdleHandler]
    /\ LocksUnchanged

\* The proxy returns, and GetOrCreate is called again to record the outcome.
Proxied(h) ==
    /\ handler[h].stage = "proxy"
    /\ handler' = [handler EXCEPT ![h] = [@ EXCEPT !.stage = "rlock", !.call = "record"]]
    /\ UNCHANGED <<state, had>> /\ LocksUnchanged

\* The proxy panics, and no outcome is recorded.
Abort(h) ==
    /\ handler[h].stage = "proxy"
    /\ handler' = [handler EXCEPT ![h] = IdleHandler]
    /\ UNCHANGED <<state, had>> /\ LocksUnchanged

\* RecordFailure or RecordSuccess.
Record(h) ==
    /\ handler[h].stage = "use" /\ handler[h].call = "record"
    /\ LET b == handler[h].cb
       IN  \E s \in AfterRecord(state[b]) : Move(b, s)
    /\ handler' = [handler EXCEPT ![h] = IdleHandler]
    /\ LocksUnchanged

-----------------------------------------------------------------------------
(* The export loop: RunBreakerStateLoop, the adapter's BreakerStates and   *)
(* Snapshot, and SetBreakerStates.                                         *)

HandlersUnchanged == UNCHANGED <<breakers, state, writer, handler, done>>

\* Mutant: a timer that fires once in place of the ticker.
TimerFires ==
    /\ exporter.stage = "select" /\ gauges = Empty
    /\ exporter' = [exporter EXCEPT !.stage = "rlock"]
    /\ UNCHANGED <<readers, gauges, had>> /\ HandlersUnchanged

\* The ticker fires and the select takes it.
TickerFires ==
    /\ exporter.stage = "select"
    /\ exporter' = [exporter EXCEPT !.stage = "rlock"]
    /\ UNCHANGED <<readers, gauges, had>> /\ HandlersUnchanged

\* Snapshot: RLock.
BeginSnapshot ==
    /\ exporter.stage = "rlock"
    /\ RLock(Exporter)
    /\ exporter' = [stage |-> "snapshot", todo |-> Stored, snap |-> Empty]
    /\ had' = [k \in Keys |-> IF k \in Stored THEN {state[breakers[k]]} ELSE {}]
    /\ UNCHANGED gauges /\ HandlersUnchanged

\* Snapshot: StateSnapshot of one breaker, in the order of the map.
ReadBreaker(k) ==
    /\ exporter.stage = "snapshot" /\ k \in exporter.todo
    /\ exporter' = [exporter EXCEPT !.todo = @ \ {k}, !.snap[k] = state[breakers[k]]]
    /\ UNCHANGED <<readers, gauges, had>> /\ HandlersUnchanged

\* Snapshot: RUnlock, and the adapter copies the map.
EndSnapshot ==
    /\ exporter.stage = "snapshot" /\ exporter.todo = {}
    /\ RUnlock(Exporter)
    /\ exporter' = [exporter EXCEPT !.stage = "reset"]
    /\ UNCHANGED <<gauges, had>> /\ HandlersUnchanged

\* Mutant: the map is set to nil and not made anew.
ResetToNil ==
    /\ exporter.stage = "reset"
    /\ gauges' = << >>
    /\ exporter' = [exporter EXCEPT !.stage = "set", !.todo = {k \in Keys : exporter.snap[k] # None}]
    /\ UNCHANGED <<readers, had>> /\ HandlersUnchanged

\* SetBreakerStates: Reset.
Reset ==
    /\ exporter.stage = "reset"
    /\ gauges' = Empty
    /\ exporter' = [exporter EXCEPT !.stage = "set", !.todo = {k \in Keys : exporter.snap[k] # None}]
    /\ UNCHANGED <<readers, had>> /\ HandlersUnchanged

\* SetBreakerStates: Set of one gauge.
SetGauge(k) ==
    /\ exporter.stage = "set" /\ k \in exporter.todo
    /\ gauges' = [gauges EXCEPT ![k] = exporter.snap[k]]
    /\ exporter' = [exporter EXCEPT !.todo = @ \ {k}]
    /\ UNCHANGED <<readers, had>> /\ HandlersUnchanged

\* Mutant: the gauges are reset after they were set.
EndExportResets ==
    /\ exporter.stage = "set" /\ exporter.todo = {}
    /\ gauges' = Empty
    /\ exporter' = [exporter EXCEPT !.stage = "select", !.snap = Empty]
    /\ had' = NoStates
    /\ UNCHANGED readers /\ HandlersUnchanged

\* The loop returns to its select; the snapshot is garbage.
EndExport ==
    /\ exporter.stage = "set" /\ exporter.todo = {}
    /\ exporter' = [exporter EXCEPT !.stage = "select", !.snap = Empty]
    /\ had' = NoStates
    /\ UNCHANGED <<readers, gauges>> /\ HandlersUnchanged

\* Mutant: a break in place of the return leaves the select and not the loop.
StopExporterBreaks ==
    /\ exporter.stage = "select" /\ done
    /\ UNCHANGED vars

\* The select finds breakerDone closed.
StopExporter ==
    /\ exporter.stage = "select" /\ done
    /\ exporter' = [exporter EXCEPT !.stage = "ended"]
    /\ UNCHANGED <<readers, gauges, had>> /\ HandlersUnchanged

\* Shutdown closes breakerDone, once.
Shutdown ==
    /\ ~done
    /\ done' = TRUE
    /\ UNCHANGED <<breakers, state, readers, writer, handler, exporter, gauges, had>>

-----------------------------------------------------------------------------
GetOrCreate(h) == Lookup(h) \/ Found(h) \/ Missed(h) \/ Lock(h) \/ Create(h)

Export ==
    \/ TickerFires \/ BeginSnapshot \/ EndSnapshot \/ Reset \/ EndExport
    \/ \E k \in Keys : ReadBreaker(k) \/ SetGauge(k)

Next ==
    \/ \E h \in Handlers :
          \/ \E k \in Keys : Call(h, k)
          \/ GetOrCreate(h)
          \/ Allow(h) \/ Proxied(h) \/ Abort(h) \/ Record(h)
    \/ Export \/ StopExporter
    \/ Shutdown

\* Goroutines are scheduled; the RWMutex starves nobody who waits for it; the
\* ticker keeps firing; and a select that often finds breakerDone closed takes
\* it at last, since Go chooses among ready cases at random.
Fairness ==
    /\ \A h \in Handlers : /\ SF_vars(GetOrCreate(h))
                           /\ WF_vars(Allow(h) \/ Record(h))
    /\ SF_vars(Export)
    /\ SF_vars(StopExporter)

Spec == Init /\ [][Next]_vars
FairSpec == Spec /\ Fairness

-----------------------------------------------------------------------------
(* Safety.                                                                 *)

TypeOK ==
    /\ breakers \in [Keys -> Breakers \cup {None}]
    /\ state \in [Breakers -> States]
    /\ readers \subseteq Handlers \cup {Exporter}
    /\ writer \in Handlers \cup {None}
    /\ handler \in [Handlers -> [stage: {"idle", "rlock", "hit", "miss", "lock", "create", "use", "proxy"},
                                 call: {"allow", "record"}, key: Keys \cup {None},
                                 cb: Breakers \cup {None}]]
    /\ exporter \in [stage: {"select", "rlock", "snapshot", "reset", "set", "ended"},
                     todo: SUBSET Keys, snap: [Keys -> States \cup {None}]]
    /\ gauges \in [Keys -> States \cup {None}]
    /\ done \in BOOLEAN
    /\ had \in [Keys -> SUBSET States]

\* However the handlers of a key race for its first breaker, there is one: the
\* breaker a handler got is the one in the store, so that all requests count
\* on the same breaker and an outcome reaches the breaker that admitted its
\* request, although the store is asked twice (GetOrCreate's second check).
OneBreaker ==
    \A h \in Handlers : handler[h].cb # None => breakers[handler[h].key] = handler[h].cb

\* What the gauges say at the end of an export was true while it ran: they are
\* those of the breakers that were stored when it began, each with a state its
\* breaker had at some moment of the export, although the breakers move under
\* the snapshot and after it, and although all gauges were gone in between
\* (Snapshot reads one breaker at a time; SetBreakerStates resets the gauges
\* and writes them one at a time).
ExportsFresh ==
    [][exporter.stage = "set" /\ exporter'.stage = "select" =>
          \A k \in Keys : IF had[k] = {} THEN gauges'[k] = None ELSE gauges'[k] \in had[k]]_vars

-----------------------------------------------------------------------------
(* Liveness.                                                               *)

\* No call of GetOrCreate hangs: not behind the exporter's read lock, not
\* behind other handlers that create breakers, not behind itself.
CallsReturn ==
    \A h \in Handlers : handler[h].stage = "rlock" ~> handler[h].stage = "use"

\* A breaker whose state stays the same is exported with that state, again and
\* again, until the gateway shuts down (RunBreakerStateLoop).
EventuallyExported ==
    \A k \in Keys, s \in States :
        <>[](~done /\ breakers[k] # None /\ state[breakers[k]] = s) => <>[](gauges[k] \in {s, None}) /\ []<>(gauges[k] = s)

\* Shutdown does not wait for the loop, but the loop ends.
ExporterStops == done ~> exporter.stage = "ended"
=============================================================================
