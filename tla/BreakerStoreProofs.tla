------------------------- MODULE BreakerStoreProofs -------------------------
(***************************************************************************)
(* What BreakerStore promises, for every set of handlers and of keys,      *)
(* finite or not: one breaker per key, a map that nobody changes under a   *)
(* reader, and gauges that were true while they were exported.             *)
(*                                                                         *)
(* OneBreaker is not inductive alone: an idle handler must hold no breaker *)
(* and a hit must stay a hit after the lock is given back (HandlerInv),    *)
(* which it does because a stored breaker is never replaced.  ExportsFresh *)
(* is a promise about steps; it needs what the exporter still has to do at *)
(* each of its stages (ExportInv) and that the history had holds the state *)
(* of every breaker under export at every moment (HadInv).                 *)
(***************************************************************************)
EXTENDS BreakerStore, TLAPS

-----------------------------------------------------------------------------
(* The inductive invariant.                                                *)

\* The breaker of a key is stored under that key.
KeyInv == \A k \in Keys : breakers[k] # None => breakers[k] \in {k} \X Handlers

HandlerRecord ==
    [stage: {"idle", "rlock", "hit", "miss", "lock", "create", "use", "proxy"},
     call: {"allow", "record"}, key: Keys \cup {None}, cb: Breakers \cup {None}]

\* What a handler holds at each stage of its request, given the map.
Holds(rec, store) ==
    /\ rec.stage = "idle" => rec = IdleHandler
    /\ rec.stage # "idle" => rec.key \in Keys
    /\ rec.stage = "hit" => store[rec.key] # None
    /\ rec.stage \in {"use", "proxy"} => rec.cb # None
    /\ rec.cb # None => store[rec.key] = rec.cb

HandlerInv == \A h \in Handlers : Holds(handler[h], breakers)

\* The RWMutex: who reads holds the read lock, who creates holds the other.
LockInv ==
    /\ \A h \in Handlers : /\ handler[h].stage \in {"hit", "miss"} <=> h \in readers
                           /\ handler[h].stage = "create" <=> writer = h
    /\ exporter.stage = "snapshot" <=> Exporter \in readers

\* The history of an export holds the present state of each of its breakers.
HadInv == \A k \in Keys : had[k] # {} => breakers[k] # None /\ state[breakers[k]] \in had[k]

\* What the history says a snapshot, or a gauge, may say of a key.
Fresh(k, s) == IF had[k] = {} THEN s = None ELSE s \in had[k]

\* What the exporter has done and what it has still to do.
ExportInv ==
    /\ exporter.stage = "snapshot" =>
          \A k \in Keys : IF k \in exporter.todo THEN had[k] # {} ELSE Fresh(k, exporter.snap[k])
    /\ exporter.stage \in {"reset", "set"} => \A k \in Keys : Fresh(k, exporter.snap[k])
    /\ exporter.stage = "set" =>
          \A k \in Keys : k \notin exporter.todo => gauges[k] = exporter.snap[k]

Inv ==
    /\ TypeOK /\ KeyInv /\ HandlerInv
    /\ LockInv /\ HadInv /\ ExportInv

\* Who changes the map holds the write lock, nobody reads the map meanwhile (Go
\* gives up on a program that does), and no stored breaker, with the failures it
\* has counted, is replaced or removed: the change is a breaker for the key that
\* the holder of the lock was asked for and that had none (GetOrCreate, Snapshot).
MapGuarded ==
    [][breakers' # breakers =>
          /\ exporter.stage # "snapshot"
          /\ \A h \in Handlers : handler[h].stage \notin {"hit", "miss"}
          /\ \E h \in Handlers :
                /\ writer = h
                /\ \A k \in Keys : breakers'[k] # breakers[k] =>
                                   k = handler[h].key /\ breakers[k] = None]_vars

-----------------------------------------------------------------------------
\* The gateway starts with an empty store and nothing exported.
LEMMA InvInit == Init => Inv
<1> SUFFICES ASSUME Init PROVE Inv
  OBVIOUS
<1>1. TypeOK
  <2>1. done \in BOOLEAN
    BY Zenon DEF Init
  <2> QED
    BY <2>1, SMT DEF Init, TypeOK, Empty, NoStates, IdleHandler, States, Breakers
<1>2. \A h \in Handlers : handler[h] = IdleHandler
  BY DEF Init
<1> QED
  BY <1>1, <1>2, StoreAssumption
     DEF StoreAssumption, Init, Inv, KeyInv, HandlerInv, Holds, LockInv, HadInv, ExportInv,
         Empty, NoStates, IdleHandler

-----------------------------------------------------------------------------
(* What the steps of a handler have in common.                             *)

\* The locks a handler holds follow from the stage it goes to.
LockFollows(h, stage) ==
    /\ readers' = IF stage \in {"hit", "miss"} THEN readers \cup {h} ELSE readers \ {h}
    /\ writer' = IF stage = "create" THEN h ELSE IF handler[h].stage = "create" THEN None ELSE writer
    /\ stage = "create" => writer = None

\* A handler goes to its new state rec and takes or gives back its lock; what is
\* stored stays stored.
LEMMA HandlerMoves ==
    ASSUME Inv, NEW h \in Handlers, NEW rec \in HandlerRecord, Holds(rec, breakers'),
           handler' = [handler EXCEPT ![h] = rec],
           \A k \in Keys : breakers[k] # None => breakers'[k] = breakers[k],
           LockFollows(h, rec.stage), exporter' = exporter
    PROVE  /\ handler' \in [Handlers -> HandlerRecord] /\ HandlerInv'
           /\ readers' \subseteq Handlers \cup {Exporter} /\ writer' \in Handlers \cup {None}
           /\ LockInv'
<1>1. handler \in [Handlers -> HandlerRecord] /\ readers \subseteq Handlers \cup {Exporter}
      /\ writer \in Handlers \cup {None}
  BY DEF Inv, TypeOK, HandlerRecord
<1>2. handler' \in [Handlers -> HandlerRecord] /\ handler'[h] = rec
      /\ \A g \in Handlers \ {h} : handler'[g] = handler[g]
  BY <1>1
<1>3. ASSUME NEW g \in Handlers \ {h}
      PROVE  Holds(handler'[g], breakers')
  BY <1>2 DEF Inv, HandlerInv, Holds, IdleHandler
<1>4. HandlerInv'
  BY <1>2, <1>3 DEF HandlerInv
<1>5. LockInv'
  BY <1>1, <1>2, StoreAssumption DEF StoreAssumption, Inv, LockInv, LockFollows
<1> QED
  BY <1>1, <1>2, <1>4, <1>5 DEF LockFollows

\* The rest of Inv, when neither the store nor the export changes.
LEMMA StoreKept ==
    ASSUME Inv, UNCHANGED <<breakers, state, exporter, gauges, done, had>>,
           handler' \in [Handlers -> HandlerRecord], HandlerInv',
           readers' \subseteq Handlers \cup {Exporter}, writer' \in Handlers \cup {None}, LockInv'
    PROVE  Inv'
BY DEF Inv, TypeOK, HandlerRecord, KeyInv, HadInv, ExportInv, Fresh

-----------------------------------------------------------------------------
(* GetOrCreate.                                                            *)

\* A handler asks for the breaker of its route and endpoint.
LEMMA CallKeepsInv == ASSUME Inv, NEW h \in Handlers, NEW k \in Keys, Call(h, k) PROVE Inv'
<1> DEFINE rec == [handler[h] EXCEPT !.stage = "rlock", !.key = k]
<1>1. handler \in [Handlers -> HandlerRecord] /\ Holds(handler[h], breakers) /\ handler[h].stage = "idle"
  BY DEF Inv, TypeOK, HandlerRecord, HandlerInv, Call
<1>2. rec \in HandlerRecord /\ rec.stage = "rlock" /\ rec.key = k /\ rec.cb = handler[h].cb
  BY <1>1 DEF HandlerRecord
<1>3. handler' = [handler EXCEPT ![h] = rec] /\ UNCHANGED <<breakers, state, exporter, gauges, done, had>>
  BY DEF Call, StoreUnchanged, ExporterUnchanged
<1> HIDE DEF rec
<1>4. Holds(rec, breakers')
  BY <1>1, <1>2, <1>3 DEF Holds, IdleHandler
<1>5. LockFollows(h, rec.stage)
  BY <1>1, <1>2 DEF LockFollows, Call, StoreUnchanged, ExporterUnchanged, Inv, LockInv
<1> QED
  BY <1>2, <1>3, <1>4, <1>5, HandlerMoves, StoreKept

\* A hit: the handler takes the breaker along.
LEMMA FoundKeepsInv == ASSUME Inv, NEW h \in Handlers, Found(h) PROVE Inv'
<1> DEFINE rec == [handler[h] EXCEPT !.stage = "use", !.cb = breakers[handler[h].key]]
<1>1. handler \in [Handlers -> HandlerRecord] /\ Holds(handler[h], breakers) /\ handler[h].stage = "hit"
  BY DEF Inv, TypeOK, HandlerRecord, HandlerInv, Found
<1>0. breakers[handler[h].key] \in Breakers /\ breakers[handler[h].key] # None /\ handler[h].key \in Keys
  BY <1>1 DEF Inv, TypeOK, Holds
<1>2. rec \in HandlerRecord /\ rec.stage = "use" /\ rec.key = handler[h].key /\ rec.cb = breakers[handler[h].key]
  BY <1>1, <1>0 DEF HandlerRecord
<1>3. handler' = [handler EXCEPT ![h] = rec] /\ UNCHANGED <<breakers, state, exporter, gauges, done, had>>
  BY DEF Found, StoreUnchanged, ExporterUnchanged, RUnlock
<1> HIDE DEF rec
<1>4. Holds(rec, breakers')
  BY <1>1, <1>2, <1>3, <1>0 DEF Holds, IdleHandler
<1>5. LockFollows(h, rec.stage)
  BY <1>1, <1>2 DEF LockFollows, Found, StoreUnchanged, ExporterUnchanged, RUnlock, Inv, LockInv
<1> QED
  BY <1>2, <1>3, <1>4, <1>5, HandlerMoves, StoreKept

\* A miss: the handler will create the breaker.
LEMMA MissedKeepsInv == ASSUME Inv, NEW h \in Handlers, Missed(h) PROVE Inv'
<1> DEFINE rec == [handler[h] EXCEPT !.stage = "lock"]
<1>1. handler \in [Handlers -> HandlerRecord] /\ Holds(handler[h], breakers) /\ handler[h].stage = "miss"
  BY DEF Inv, TypeOK, HandlerRecord, HandlerInv, Missed
<1>2. rec \in HandlerRecord /\ rec.stage = "lock" /\ rec.key = handler[h].key /\ rec.cb = handler[h].cb
  BY <1>1 DEF HandlerRecord
<1>3. handler' = [handler EXCEPT ![h] = rec] /\ UNCHANGED <<breakers, state, exporter, gauges, done, had>>
  BY DEF Missed, StoreUnchanged, ExporterUnchanged, RUnlock
<1> HIDE DEF rec
<1>4. Holds(rec, breakers')
  BY <1>1, <1>2, <1>3 DEF Holds, IdleHandler
<1>5. LockFollows(h, rec.stage)
  BY <1>1, <1>2 DEF LockFollows, Missed, StoreUnchanged, ExporterUnchanged, RUnlock, Inv, LockInv
<1> QED
  BY <1>2, <1>3, <1>4, <1>5, HandlerMoves, StoreKept

\* The handler calls Lock.
LEMMA LockKeepsInv == ASSUME Inv, NEW h \in Handlers, Lock(h) PROVE Inv'
<1> DEFINE rec == [handler[h] EXCEPT !.stage = "create"]
<1>1. handler \in [Handlers -> HandlerRecord] /\ Holds(handler[h], breakers) /\ handler[h].stage = "lock"
  BY DEF Inv, TypeOK, HandlerRecord, HandlerInv, Lock
<1>2. rec \in HandlerRecord /\ rec.stage = "create" /\ rec.key = handler[h].key /\ rec.cb = handler[h].cb
  BY <1>1 DEF HandlerRecord
<1>3. handler' = [handler EXCEPT ![h] = rec] /\ UNCHANGED <<breakers, state, exporter, gauges, done, had>>
  BY DEF Lock, ExporterUnchanged
<1> HIDE DEF rec
<1>4. Holds(rec, breakers')
  BY <1>1, <1>2, <1>3 DEF Holds, IdleHandler
<1>5. LockFollows(h, rec.stage)
  BY <1>1, <1>2 DEF LockFollows, Lock, ExporterUnchanged, Inv, LockInv
<1> QED
  BY <1>2, <1>3, <1>4, <1>5, HandlerMoves, StoreKept

\* The lookup under the read lock.
LEMMA LookupKeepsInv == ASSUME Inv, NEW h \in Handlers, Lookup(h) PROVE Inv'
<1> DEFINE rec == [handler[h] EXCEPT !.stage = IF breakers[handler[h].key] = None THEN "miss" ELSE "hit"]
<1>1. handler \in [Handlers -> HandlerRecord] /\ Holds(handler[h], breakers) /\ handler[h].stage = "rlock"
  BY DEF Inv, TypeOK, HandlerRecord, HandlerInv, Lookup
<1>2. /\ rec \in HandlerRecord /\ rec.key = handler[h].key /\ rec.cb = handler[h].cb
      /\ rec.stage = IF breakers[handler[h].key] = None THEN "miss" ELSE "hit"
  BY <1>1 DEF HandlerRecord
<1>3. handler' = [handler EXCEPT ![h] = rec] /\ UNCHANGED <<breakers, state, exporter, gauges, done, had>>
  BY DEF Lookup, StoreUnchanged, ExporterUnchanged
<1> HIDE DEF rec
<1>4. Holds(rec, breakers')
  BY <1>1, <1>2, <1>3 DEF Holds, IdleHandler
<1>5. LockFollows(h, rec.stage)
  BY <1>1, <1>2 DEF LockFollows, Lookup, RLock, StoreUnchanged
<1> QED
  BY <1>2, <1>3, <1>4, <1>5, HandlerMoves, StoreKept

\* The second check and the creation: a breaker that is stored stays, one that
\* is missing is stored under its key.
LEMMA CreateKeepsInv == ASSUME Inv, NEW h \in Handlers, Create(h) PROVE Inv'
<1> DEFINE k == handler[h].key
           cb == IF breakers[k] = None THEN <<k, h>> ELSE breakers[k]
           rec == [handler[h] EXCEPT !.stage = "use", !.cb = cb]
<1>1. handler \in [Handlers -> HandlerRecord] /\ Holds(handler[h], breakers) /\ handler[h].stage = "create"
  BY DEF Inv, TypeOK, HandlerRecord, HandlerInv, Create
<1>2. k \in Keys /\ breakers \in [Keys -> Breakers \cup {None}]
  BY <1>1 DEF Holds, Inv, TypeOK
<1>3. cb \in {k} \X Handlers /\ cb \in Breakers /\ cb # None
  BY <1>2, StoreAssumption DEF StoreAssumption, Breakers, Inv, KeyInv
<1>4. rec \in HandlerRecord /\ rec.stage = "use" /\ rec.key = k /\ rec.cb = cb
  BY <1>1, <1>3 DEF HandlerRecord
<1>5. /\ handler' = [handler EXCEPT ![h] = rec] /\ breakers' = [breakers EXCEPT ![k] = cb]
      /\ UNCHANGED <<state, readers, exporter, gauges, done, had>> /\ writer' = None
  BY DEF Create, ExporterUnchanged
<1> HIDE DEF rec
<1>6. breakers' \in [Keys -> Breakers \cup {None}] /\ breakers'[k] = cb
      /\ \A j \in Keys : breakers[j] # None => breakers'[j] = breakers[j]
  BY <1>2, <1>3, <1>5
<1>7. Holds(rec, breakers')
  BY <1>2, <1>3, <1>4, <1>6 DEF Holds
<1>8. LockFollows(h, rec.stage)
  BY <1>1, <1>4, <1>5 DEF LockFollows, Inv, LockInv
<1>9. /\ handler' \in [Handlers -> HandlerRecord] /\ HandlerInv'
      /\ readers' \subseteq Handlers \cup {Exporter} /\ writer' \in Handlers \cup {None}
      /\ LockInv'
  BY <1>4, <1>5, <1>6, <1>7, <1>8, HandlerMoves
<1>10. KeyInv'
  <2> SUFFICES ASSUME NEW j \in Keys, breakers'[j] # None
               PROVE  breakers'[j] \in {j} \X Handlers
    BY DEF KeyInv
  <2>0. breakers'[j] # None
    OBVIOUS
  <2>1. CASE j = k
    BY <1>3, <1>6, <2>1
  <2>2. CASE j # k
    <3>1. breakers'[j] = breakers[j]
      BY <1>2, <1>5, <2>2
    <3> QED
      BY <2>0, <3>1 DEF Inv, KeyInv
  <2> QED
    BY <2>1, <2>2
<1>11. HadInv' /\ ExportInv'
  BY <1>5, <1>6 DEF Inv, HadInv, ExportInv, Fresh
<1> QED
  BY <1>5, <1>6, <1>9, <1>10, <1>11 DEF Inv, TypeOK, HandlerRecord

-----------------------------------------------------------------------------
(* The use of a breaker.                                                   *)

\* Whatever breaker moves, the history follows those under export.
LEMMA MoveKeepsHistory ==
    ASSUME Inv, NEW b \in Breakers, NEW s \in States, Move(b, s),
           UNCHANGED <<breakers, exporter, gauges>>
    PROVE  /\ state' \in [Breakers -> States] /\ had' \in [Keys -> SUBSET States]
           /\ KeyInv' /\ HadInv' /\ ExportInv'
<1>1. /\ state \in [Breakers -> States] /\ had \in [Keys -> SUBSET States]
      /\ breakers \in [Keys -> Breakers \cup {None}]
      /\ b[1] \in Keys
  BY DEF Inv, TypeOK, Breakers
<1>2. state' \in [Breakers -> States] /\ state'[b] = s /\ \A c \in Breakers \ {b} : state'[c] = state[c]
  BY <1>1 DEF Move
<1>3. had' \in [Keys -> SUBSET States] /\ \A k \in Keys : had[k] \subseteq had'[k] /\ (had[k] = {} => had'[k] = {})
  BY <1>1 DEF Move
<1>4. \A k \in Keys : had[k] # {} /\ breakers[k] = b => s \in had'[k]
  BY <1>1 DEF Move, Inv, KeyInv, HadInv
<1>5. KeyInv'
  BY DEF Inv, KeyInv
<1>6. HadInv'
  <2> SUFFICES ASSUME NEW k \in Keys, had'[k] # {}
               PROVE  breakers[k] # None /\ state'[breakers[k]] \in had'[k]
    BY DEF HadInv
  <2>1. breakers[k] # None /\ state[breakers[k]] \in had[k] /\ breakers[k] \in Breakers
    BY <1>1, <1>3 DEF Inv, HadInv
  <2> QED
    BY <1>2, <1>3, <1>4, <2>1
<1>7. \A k \in Keys : \A x : Fresh(k, x) => IF had'[k] = {} THEN x = None ELSE x \in had'[k]
  BY <1>3 DEF Fresh
<1>8. ExportInv'
  BY <1>3, <1>7 DEF Inv, ExportInv, Fresh
<1> QED
  BY <1>2, <1>3, <1>5, <1>6, <1>8

\* Allow and RecordFailure or RecordSuccess: the breaker moves to a state it may
\* move to, and the request goes on or is over.
LEMMA UseKeepsInv ==
    ASSUME Inv, NEW h \in Handlers, Allow(h) \/ Record(h) PROVE Inv'
<1> DEFINE b == handler[h].cb
<1>1. handler \in [Handlers -> HandlerRecord] /\ Holds(handler[h], breakers) /\ handler[h].stage = "use"
  BY DEF Inv, TypeOK, HandlerRecord, HandlerInv, Allow, Record
<1>2. b \in Breakers /\ state[b] \in States
  BY <1>1 DEF HandlerRecord, Holds, Inv, TypeOK
<1>3. AfterAllow(state[b]) \in States /\ AfterRecord(state[b]) \subseteq States
  BY <1>2 DEF AfterAllow, AfterRecord, States
<1>4. PICK s \in States : Move(b, s)
  <2>1. CASE Allow(h)
    BY <1>2, <1>3, <2>1 DEF Allow
  <2>2. CASE Record(h)
    BY <1>3, <2>2 DEF Record
  <2> QED
    BY <2>1, <2>2
<1>5. UNCHANGED <<breakers, readers, writer, exporter, gauges, done>>
  BY DEF Allow, Record, LocksUnchanged
<1>6. /\ state' \in [Breakers -> States] /\ had' \in [Keys -> SUBSET States]
      /\ KeyInv' /\ HadInv' /\ ExportInv'
  BY <1>2, <1>4, <1>5, MoveKeepsHistory
<1>7. PICK rec \in HandlerRecord :
          /\ handler' = [handler EXCEPT ![h] = rec] /\ Holds(rec, breakers')
          /\ rec.stage \in {"idle", "proxy"}
  <2>1. CASE handler' = [handler EXCEPT ![h].stage = "proxy"]
    <3> DEFINE rec == [handler[h] EXCEPT !.stage = "proxy"]
    <3>1. rec \in HandlerRecord /\ rec.stage = "proxy" /\ rec.key = handler[h].key /\ rec.cb = handler[h].cb
      BY <1>1 DEF HandlerRecord
    <3>2. handler' = [handler EXCEPT ![h] = rec]
      BY <2>1
    <3> HIDE DEF rec
    <3>3. Holds(rec, breakers')
      BY <1>1, <1>5, <3>1 DEF Holds
    <3> QED
      BY <3>1, <3>2, <3>3
  <2>2. CASE handler' = [handler EXCEPT ![h] = IdleHandler]
    <3>1. IdleHandler \in HandlerRecord /\ Holds(IdleHandler, breakers') /\ IdleHandler.stage = "idle"
      BY DEF HandlerRecord, Holds, IdleHandler
    <3> QED
      BY <2>2, <3>1
  <2> QED
    BY <2>1, <2>2 DEF Allow, Record
<1>8. LockFollows(h, rec.stage)
  BY <1>1, <1>5, <1>7 DEF LockFollows, Inv, LockInv
<1>9. /\ handler' \in [Handlers -> HandlerRecord] /\ HandlerInv'
      /\ readers' \subseteq Handlers \cup {Exporter} /\ writer' \in Handlers \cup {None}
      /\ LockInv'
  BY <1>5, <1>7, <1>8, HandlerMoves
<1> QED
  BY <1>5, <1>6, <1>9 DEF Inv, TypeOK, HandlerRecord

\* The proxy returns: the store is asked again, for the same key.
LEMMA ProxiedKeepsInv == ASSUME Inv, NEW h \in Handlers, Proxied(h) PROVE Inv'
<1> DEFINE rec == [handler[h] EXCEPT !.stage = "rlock", !.call = "record"]
<1>1. handler \in [Handlers -> HandlerRecord] /\ Holds(handler[h], breakers) /\ handler[h].stage = "proxy"
  BY DEF Inv, TypeOK, HandlerRecord, HandlerInv, Proxied
<1>2. rec \in HandlerRecord /\ rec.stage = "rlock" /\ rec.key = handler[h].key /\ rec.cb = handler[h].cb
  BY <1>1 DEF HandlerRecord
<1>3. handler' = [handler EXCEPT ![h] = rec] /\ UNCHANGED <<breakers, state, exporter, gauges, done, had>>
  BY DEF Proxied, LocksUnchanged
<1> HIDE DEF rec
<1>4. Holds(rec, breakers')
  BY <1>1, <1>2, <1>3 DEF Holds
<1>5. LockFollows(h, rec.stage)
  BY <1>1, <1>2 DEF LockFollows, Proxied, LocksUnchanged, Inv, LockInv
<1> QED
  BY <1>2, <1>3, <1>4, <1>5, HandlerMoves, StoreKept

\* The proxy panics: the handler forgets its breaker.
LEMMA AbortKeepsInv == ASSUME Inv, NEW h \in Handlers, Abort(h) PROVE Inv'
<1>1. handler \in [Handlers -> HandlerRecord] /\ handler[h].stage = "proxy"
  BY DEF Inv, TypeOK, HandlerRecord, Abort
<1>2. IdleHandler \in HandlerRecord /\ Holds(IdleHandler, breakers') /\ IdleHandler.stage = "idle"
  BY DEF HandlerRecord, Holds, IdleHandler
<1>3. /\ handler' = [handler EXCEPT ![h] = IdleHandler]
      /\ UNCHANGED <<breakers, state, exporter, gauges, done, had>>
  BY DEF Abort, LocksUnchanged
<1>4. LockFollows(h, IdleHandler.stage)
  BY <1>1, <1>2 DEF LockFollows, Abort, LocksUnchanged, Inv, LockInv
<1> QED
  BY <1>2, <1>3, <1>4, HandlerMoves, StoreKept

-----------------------------------------------------------------------------
(* The export loop.                                                        *)

\* A step of the loop leaves the handlers and the store alone, and each stage
\* leaves to the next what ExportInv says.
LEMMA ExporterKeepsInv == ASSUME Inv, Export \/ StopExporter PROVE Inv'
<1>1. HandlersUnchanged
  BY DEF Export, StopExporter, TickerFires, BeginSnapshot, EndSnapshot, Reset, EndExport,
     ReadBreaker, SetGauge
<1>2. handler \in [Handlers -> HandlerRecord] /\ readers \subseteq Handlers \cup {Exporter}
  BY DEF Inv, TypeOK, HandlerRecord
<1>3. KeyInv' /\ HandlerInv' /\ state' = state /\ handler' = handler /\ breakers' = breakers /\ writer' = writer
  BY <1>1 DEF HandlersUnchanged, Inv, KeyInv, HandlerInv, Holds
<1> DEFINE ExporterRecord ==
             [stage: {"select", "rlock", "snapshot", "reset", "set", "ended"},
              todo: SUBSET Keys, snap: [Keys -> States \cup {None}]]
           Kept == /\ readers' \subseteq Handlers \cup {Exporter}
                   /\ exporter' \in ExporterRecord /\ gauges' \in [Keys -> States \cup {None}]
                   /\ had' \in [Keys -> SUBSET States]
                   /\ LockInv' /\ HadInv' /\ ExportInv'
<1>4. SUFFICES Kept
  BY <1>1, <1>3 DEF HandlersUnchanged, Inv, TypeOK
<1>5. exporter \in ExporterRecord /\ gauges \in [Keys -> States \cup {None}] /\ had \in [Keys -> SUBSET States]
  BY DEF Inv, TypeOK
<1>6. ASSUME NEW stage \in {"rlock", "ended"}, exporter.stage \in {"select"},
             exporter' = [exporter EXCEPT !.stage = stage], UNCHANGED <<readers, gauges, had>>
      PROVE  Kept
  <2>1. exporter' \in ExporterRecord /\ exporter'.stage = stage
    BY <1>5, <1>6
  <2> QED
    BY <1>2, <1>3, <1>5, <1>6, <2>1 DEF Inv, LockInv, HadInv, ExportInv, Fresh
<1>7. CASE BeginSnapshot
  <2>1. exporter' \in ExporterRecord /\ exporter'.stage = "snapshot" /\ exporter'.todo = Stored
    BY <1>7 DEF BeginSnapshot, Stored, Empty
  <2>2. had' \in [Keys -> SUBSET States]
    BY <1>7 DEF BeginSnapshot, Stored, Inv, TypeOK
  <2>3. LockInv'
    BY <1>2, <1>3, <1>7, <2>1, StoreAssumption DEF StoreAssumption, BeginSnapshot, RLock, Inv, LockInv
  <2>4. HadInv'
    BY <1>3, <1>7 DEF BeginSnapshot, Stored, HadInv
  <2>5. ExportInv'
    BY <1>3, <1>7, <2>1 DEF BeginSnapshot, Stored, Empty, ExportInv, Fresh
  <2> QED
    BY <1>2, <1>5, <1>7, <2>1, <2>2, <2>3, <2>4, <2>5 DEF BeginSnapshot, RLock
<1>8. ASSUME NEW k \in Keys, ReadBreaker(k)
      PROVE  Kept
  <2>1. exporter.stage = "snapshot" /\ k \in exporter.todo /\ had[k] # {}
    BY <1>8 DEF ReadBreaker, Inv, ExportInv
  <2>2. state[breakers[k]] \in had[k] /\ state[breakers[k]] \in States
    BY <1>5, <2>1 DEF Inv, HadInv
  <2>3. /\ exporter' \in ExporterRecord /\ exporter'.stage = "snapshot"
        /\ exporter'.todo = exporter.todo \ {k} /\ exporter'.snap[k] = state[breakers[k]]
        /\ \A j \in Keys \ {k} : exporter'.snap[j] = exporter.snap[j]
    BY <1>5, <1>8, <2>1, <2>2 DEF ReadBreaker
  <2>4. UNCHANGED <<readers, gauges, had>>
    BY <1>8 DEF ReadBreaker
  <2>5. LockInv' /\ HadInv'
    BY <1>3, <2>1, <2>3, <2>4 DEF Inv, LockInv, HadInv
  <2>6. ExportInv'
    BY <2>1, <2>2, <2>3, <2>4 DEF Inv, ExportInv, Fresh
  <2> QED
    BY <1>2, <1>5, <2>3, <2>4, <2>5, <2>6
<1>9. CASE EndSnapshot
  <2>1. exporter' \in ExporterRecord /\ exporter'.stage = "reset" /\ exporter'.snap = exporter.snap
    BY <1>5, <1>9 DEF EndSnapshot
  <2>2. LockInv'
    BY <1>2, <1>3, <1>9, <2>1, StoreAssumption DEF StoreAssumption, EndSnapshot, RUnlock, Inv, LockInv
  <2>3. HadInv' /\ ExportInv'
    BY <1>3, <1>9, <2>1 DEF EndSnapshot, Inv, HadInv, ExportInv, Fresh
  <2> QED
    BY <1>2, <1>5, <1>9, <2>1, <2>2, <2>3 DEF EndSnapshot, RUnlock
<1>10. CASE Reset
  <2>1. /\ exporter' \in ExporterRecord /\ exporter'.stage = "set" /\ exporter'.snap = exporter.snap
        /\ exporter'.todo = {k \in Keys : exporter.snap[k] # None}
    BY <1>5, <1>10 DEF Reset
  <2>2. gauges' \in [Keys -> States \cup {None}] /\ \A k \in Keys : gauges'[k] = None
    BY <1>10 DEF Reset, Empty
  <2>3. UNCHANGED <<readers, had>> /\ exporter.stage = "reset"
    BY <1>10 DEF Reset
  <2>4. LockInv' /\ HadInv'
    BY <1>3, <2>1, <2>3 DEF Inv, LockInv, HadInv
  <2>5. ExportInv'
    BY <2>1, <2>2, <2>3 DEF Inv, ExportInv, Fresh
  <2> QED
    BY <1>2, <1>5, <2>1, <2>2, <2>3, <2>4, <2>5
<1>11. ASSUME NEW k \in Keys, SetGauge(k)
       PROVE  Kept
  <2>1. /\ exporter' \in ExporterRecord /\ exporter'.stage = "set" /\ exporter'.snap = exporter.snap
        /\ exporter'.todo = exporter.todo \ {k} /\ exporter.stage = "set"
    BY <1>5, <1>11 DEF SetGauge
  <2>2. gauges' \in [Keys -> States \cup {None}] /\ gauges'[k] = exporter.snap[k]
        /\ \A j \in Keys \ {k} : gauges'[j] = gauges[j]
    BY <1>5, <1>11 DEF SetGauge
  <2>3. UNCHANGED <<readers, had>>
    BY <1>11 DEF SetGauge
  <2>4. LockInv' /\ HadInv'
    BY <1>3, <2>1, <2>3 DEF Inv, LockInv, HadInv
  <2>5. ExportInv'
    BY <2>1, <2>2, <2>3 DEF Inv, ExportInv, Fresh
  <2> QED
    BY <1>2, <1>5, <2>1, <2>2, <2>3, <2>4, <2>5
<1>12. CASE EndExport
  <2>1. exporter' \in ExporterRecord /\ exporter'.stage = "select" /\ exporter.stage = "set"
    BY <1>5, <1>12 DEF EndExport, Empty
  <2>2. UNCHANGED <<readers, gauges>> /\ had' = [k \in Keys |-> {}]
    BY <1>12 DEF EndExport, NoStates
  <2>3. LockInv' /\ HadInv' /\ ExportInv'
    BY <1>3, <2>1, <2>2 DEF Inv, LockInv, HadInv, ExportInv
  <2> QED
    BY <1>2, <1>5, <2>1, <2>2, <2>3
<1> QED
  BY <1>6, <1>7, <1>8, <1>9, <1>10, <1>11, <1>12 DEF Export, TickerFires, StopExporter

-----------------------------------------------------------------------------
(* What the invariant says.                                                *)

\* Inv holds in every reachable state of the store, its handlers and its exporter.
THEOREM Invariance == Spec => []Inv
<1>1. Inv /\ [Next]_vars => Inv'
  <2> SUFFICES ASSUME Inv, [Next]_vars PROVE Inv'
    OBVIOUS
  <2>1. ASSUME NEW h \in Handlers,
               (\E k \in Keys : Call(h, k)) \/ GetOrCreate(h) \/ Allow(h) \/ Proxied(h) \/ Abort(h) \/ Record(h)
        PROVE  Inv'
    BY <2>1, CallKeepsInv, LookupKeepsInv, FoundKeepsInv, MissedKeepsInv, LockKeepsInv, CreateKeepsInv,
       UseKeepsInv, ProxiedKeepsInv, AbortKeepsInv DEF GetOrCreate
  <2>2. CASE Export \/ StopExporter
    BY <2>2, ExporterKeepsInv
  <2>3. CASE Shutdown
    <3>1. done' \in BOOLEAN
      BY <2>3, Zenon DEF Shutdown
    <3>2. UNCHANGED <<breakers, state, readers, writer, handler, exporter, gauges, had>>
      BY <2>3 DEF Shutdown
    <3> QED
      BY <3>1, <3>2 DEF Inv, TypeOK, KeyInv, HandlerInv, Holds, LockInv, HadInv, ExportInv, Fresh
  <2>4. CASE UNCHANGED vars
    BY <2>4 DEF vars, Inv, TypeOK, KeyInv, HandlerInv, Holds, LockInv, HadInv, ExportInv, Fresh
  <2> QED
    BY <2>1, <2>2, <2>3, <2>4 DEF Next
<1> QED
  BY <1>1, InvInit, PTL DEF Spec

\* The map, the lock, the handlers and the gauges keep their types.
THEOREM TypeCorrect == Spec => []TypeOK
BY Invariance, PTL DEF Inv

\* However many handlers race for the first breaker of a key, and however often
\* one asks again, they all hold the one that is stored (GetOrCreate).
THEOREM BreakerIsUnique == Spec => []OneBreaker
<1>1. Inv => OneBreaker
  BY DEF Inv, HandlerInv, Holds, OneBreaker
<1> QED
  BY <1>1, Invariance, PTL

\* The map is written under the write lock, when nobody reads it, and only where
\* it has no breaker (GetOrCreate, Snapshot).
THEOREM MapIsGuarded == Spec => MapGuarded
<1> DEFINE Unread == /\ exporter.stage # "snapshot"
                     /\ \A h \in Handlers : handler[h].stage \notin {"hit", "miss"}
           Adds == \E h \in Handlers :
                      /\ writer = h
                      /\ \A k \in Keys : breakers'[k] # breakers[k] =>
                                         k = handler[h].key /\ breakers[k] = None
<1>1. ASSUME Inv, [Next]_vars, breakers' # breakers
      PROVE  Unread /\ Adds
  <2>1. PICK h \in Handlers : Create(h)
    BY <1>1 DEF Next, vars, GetOrCreate, Call, Lookup, Found, Missed, Lock, Allow, Proxied, Abort, Record,
       StoreUnchanged, LocksUnchanged, Export, StopExporter, TickerFires, BeginSnapshot, EndSnapshot,
       Reset, EndExport, ReadBreaker, SetGauge, HandlersUnchanged, Shutdown
  <2>2. writer = h /\ handler[h].key \in Keys
    BY <1>1, <2>1 DEF Create, Inv, LockInv, HandlerInv, Holds
  <2>3. ASSUME NEW k \in Keys, breakers'[k] # breakers[k]
        PROVE  k = handler[h].key /\ breakers[k] = None
    BY <1>1, <2>1, <2>2, <2>3 DEF Create, Inv, TypeOK
  <2>4. Unread
    BY <1>1, <2>1 DEF Create, Inv, LockInv
  <2> QED
    BY <2>2, <2>3, <2>4
<1>2. Inv /\ [Next]_vars => [breakers' # breakers => Unread /\ Adds]_vars
  BY <1>1
<1> QED
  BY <1>2, Invariance, PTL DEF Spec, MapGuarded

\* An export ends with gauges that say of every breaker there was when it began
\* a state the breaker had meanwhile (Snapshot, SetBreakerStates).
THEOREM GaugesAreFresh == Spec => ExportsFresh
<1> DEFINE Honest == \A k \in Keys : IF had[k] = {} THEN gauges'[k] = None ELSE gauges'[k] \in had[k]
           Ends == exporter.stage = "set" /\ exporter'.stage = "select"
<1>1. ASSUME Inv, [Next]_vars, Ends
      PROVE  Honest
  <2>1. EndExport
    <3>1. exporter' # exporter
      BY <1>1
    <3>2. Export \/ StopExporter
      BY <1>1, <3>1 DEF Next, vars, GetOrCreate, Call, Lookup, Found, Missed, Lock, Create, Allow, Proxied,
         Abort, Record, ExporterUnchanged, LocksUnchanged, Shutdown
    <3>3. ~ \E k \in Keys : SetGauge(k)
      BY <1>1 DEF SetGauge, Inv, TypeOK
    <3> QED
      BY <1>1, <3>2, <3>3 DEF Export, StopExporter, TickerFires, BeginSnapshot, ReadBreaker, EndSnapshot, Reset
  <2> QED
    BY <1>1, <2>1 DEF EndExport, Inv, ExportInv, Fresh
<1>2. Inv /\ [Next]_vars => [Ends => Honest]_vars
  BY <1>1
<1> QED
  BY <1>2, Invariance, PTL DEF Spec, ExportsFresh
=============================================================================
