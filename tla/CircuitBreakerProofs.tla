------------------------ MODULE CircuitBreakerProofs ------------------------
(***************************************************************************)
(* CircuitBreaker keeps its invariants and implements BreakerContract, for *)
(* every threshold, every timeout and every finite set of handlers.        *)
(*                                                                         *)
(* Inv is inductive.  CooldownMeansOpen is not inductive alone: a failure  *)
(* recorded in any state must leave the circuit open when it restarts the  *)
(* timeout, and Allow may leave the open state only when OpenAge has       *)
(* reached its bound, which is part of TypeOK.  LateFailuresBounded needs  *)
(* CountFitsState: when a closed circuit admits one more handler its       *)
(* counter must still be below the threshold.                              *)
(***************************************************************************)
EXTENDS CircuitBreaker, TLAPS, FiniteSetTheorems

\* The inductive invariant without the cardinality bound.
Inv == TypeOK /\ CooldownMeansOpen /\ CountFitsState

-----------------------------------------------------------------------------
(* What each operation leaves, and that it keeps Inv.                      *)

\* The states of a circuit are four different words, with the idle slot's.
LEMMA StatesDiffer ==
    /\ CircuitState = {"closed", "open", "half-open"} /\ Idle \notin CircuitState
    /\ StateClosed = "closed" /\ StateOpen = "open" /\ StateHalfOpen = "half-open"
BY DEF CircuitState, StateClosed, StateOpen, StateHalfOpen, Idle

\* Allow admits unless the timeout of an open circuit runs; an open circuit it
\* makes half-open, with a count of zero.
LEMMA AllowLeaves ==
    ASSUME Inv, NEW r \in Requests, Allow(r)
    PROVE  /\ \/ cb' = cb /\ (Allowed(cb) => cb.State # StateOpen)
              \/ /\ cb.State = StateOpen /\ Expired(cb)
                 /\ cb' = [State |-> StateHalfOpen, FailureCount |-> 0, LastFailure |-> ZeroTime,
                           OpenAge |-> cb.OpenAge]
           /\ Allowed(cb) => admitted' = [admitted EXCEPT ![r] = cb'.State]
           /\ ~Allowed(cb) => cb' = cb /\ admitted' = admitted
BY DEF Allow, AfterAllow, Allowed, Inv, TypeOK, Circuit

\* Allow keeps Inv.
LEMMA AllowKeepsInv == ASSUME Inv, NEW r \in Requests, Allow(r) PROVE Inv'
<1>1. cb' \in Circuit /\ cb'.OpenAge = cb.OpenAge
  BY AllowLeaves, StatesDiffer DEF Inv, TypeOK, Circuit, ZeroTime
<1>2. admitted' \in [Requests -> CircuitState \cup {Idle}]
  BY <1>1, AllowLeaves DEF Inv, TypeOK, Circuit
<1>3. CooldownMeansOpen' /\ CountFitsState'
  BY <1>1, AllowLeaves, BreakerAssumption, StatesDiffer
     DEF BreakerAssumption, Inv, TypeOK, Circuit, CooldownMeansOpen, CountFitsState, Expired
<1> QED
  BY <1>1, <1>2, <1>3 DEF Inv, TypeOK

\* RecordFailure counts, and opens the circuit for a whole timeout if it trips.
LEMMA FailureLeaves ==
    ASSUME Inv, NEW r \in Requests, RecordFailure(r)
    PROVE  /\ cb' \in Circuit /\ cb'.FailureCount = cb.FailureCount + 1
           /\ cb'.LastFailure = SomeTime
           /\ cb'.State = IF Trips(cb) THEN StateOpen ELSE cb.State
           /\ cb'.OpenAge = IF Trips(cb) THEN 0 ELSE cb.OpenAge
BY BreakerAssumption, StatesDiffer
   DEF BreakerAssumption, RecordFailure, AfterFailure, Inv, TypeOK, Circuit, SomeTime

\* RecordFailure keeps Inv.
LEMMA FailureKeepsInv == ASSUME Inv, NEW r \in Requests, RecordFailure(r) PROVE Inv'
<1>1. TypeOK'
  BY FailureLeaves DEF RecordFailure, Inv, TypeOK
<1>2. CooldownMeansOpen' /\ CountFitsState'
  BY FailureLeaves, BreakerAssumption, StatesDiffer
     DEF BreakerAssumption, Inv, TypeOK, Circuit, CooldownMeansOpen, CountFitsState, Trips, TripAt, ZeroTime, SomeTime
<1> QED
  BY <1>1, <1>2 DEF Inv

\* RecordSuccess closes a half-open circuit and ends a closed one's run of failures.
LEMMA SuccessLeaves ==
    ASSUME Inv, NEW r \in Requests, RecordSuccess(r)
    PROVE  /\ cb' \in Circuit /\ cb'.OpenAge = cb.OpenAge
           /\ cb'.State = IF cb.State = StateHalfOpen THEN StateClosed ELSE cb.State
           /\ cb.State = StateOpen => cb' = cb
           /\ cb.State # StateOpen => cb'.FailureCount = 0
<1>1. cb.State = StateHalfOpen => cb.OpenAge = Timeout
  BY BreakerAssumption, StatesDiffer DEF BreakerAssumption, Inv, TypeOK, Circuit, CooldownMeansOpen
<1> QED
  BY <1>1, BreakerAssumption, StatesDiffer
     DEF BreakerAssumption, RecordSuccess, AfterSuccess, NewCircuitBreaker, Inv, TypeOK, Circuit, ZeroTime

\* RecordSuccess keeps Inv.
LEMMA SuccessKeepsInv == ASSUME Inv, NEW r \in Requests, RecordSuccess(r) PROVE Inv'
<1>1. TypeOK'
  BY SuccessLeaves DEF RecordSuccess, Inv, TypeOK
<1>2. CooldownMeansOpen' /\ CountFitsState'
  BY SuccessLeaves, BreakerAssumption, StatesDiffer
     DEF BreakerAssumption, Inv, TypeOK, Circuit, CooldownMeansOpen, CountFitsState, TripAt
<1> QED
  BY <1>1, <1>2 DEF Inv

\* Time brings the end of a running timeout nearer, and changes nothing else.
LEMMA TickLeaves ==
    ASSUME Inv, Tick
    PROVE  /\ cb' \in Circuit /\ cb' = [cb EXCEPT !.OpenAge = cb.OpenAge + 1]
           /\ cb.OpenAge \in Nat /\ cb.OpenAge < Timeout
BY BreakerAssumption DEF BreakerAssumption, Tick, Elapse, Expired, Inv, TypeOK, Circuit

\* The passing of time keeps Inv.
LEMMA TickKeepsInv == ASSUME Inv, Tick PROVE Inv'
<1>1. TypeOK'
  BY TickLeaves DEF Tick, Inv, TypeOK
<1>2. CooldownMeansOpen' /\ CountFitsState'
  BY TickLeaves, BreakerAssumption
     DEF BreakerAssumption, Inv, TypeOK, Circuit, CooldownMeansOpen, CountFitsState
<1> QED
  BY <1>1, <1>2 DEF Inv

\* Every operation of every handler, and the passing of time, keeps Inv.
LEMMA InvStep == Inv /\ [Next]_vars => Inv'
<1> SUFFICES ASSUME Inv, [Next]_vars
             PROVE  Inv'
  OBVIOUS
<1>1. ASSUME NEW r \in Requests, Abort(r)
      PROVE  Inv'
  BY <1>1 DEF Abort, Inv, TypeOK, CooldownMeansOpen, CountFitsState
<1>2. CASE UNCHANGED vars
  BY <1>2 DEF vars, Inv, TypeOK, CooldownMeansOpen, CountFitsState
<1> QED
  BY <1>1, <1>2, AllowKeepsInv, FailureKeepsInv, SuccessKeepsInv, TickKeepsInv DEF Next

\* Inv holds in every reachable state of the breaker.
THEOREM Invariance == Spec => []Inv
<1>1. Init => Inv
  BY BreakerAssumption, StatesDiffer
     DEF BreakerAssumption, Init, NewCircuitBreaker, Inv, TypeOK, CooldownMeansOpen, CountFitsState,
         Circuit, TripAt, ZeroTime
<1> QED
  BY <1>1, InvStep, PTL DEF Spec

\* The fields of the breaker and the handlers' states keep their types:
\* OpenAge in particular never passes the timeout.
THEOREM TypeCorrect == Spec => []TypeOK
BY Invariance, PTL DEF Inv

\* A circuit whose timeout runs is open: no outcome recorded late, in any
\* order, ends the timeout early (Allow, RecordFailure, RecordSuccess).
THEOREM Cooldown == Spec => []CooldownMeansOpen
BY Invariance, PTL DEF Inv

\* FailureCount has the value each transition relies on in every state.
THEOREM CountSound == Spec => []CountFitsState
BY Invariance, PTL DEF Inv

-----------------------------------------------------------------------------
(* The bound on the failures an open circuit counts.                       *)

\* Pending is a finite set no larger than the set of handlers.
LEMMA PendingSize ==
    /\ IsFiniteSet(Pending) /\ Cardinality(Pending) \in Nat
    /\ Cardinality(Requests) \in Nat
    /\ Cardinality(Pending) <= Cardinality(Requests)
<1>1. Pending \subseteq Requests
  BY DEF Pending
<1> QED
  BY <1>1, RequestsAssumption, FS_Subset, FS_CardinalityType DEF RequestsAssumption

\* A handler that finishes leaves one request less in flight.
LEMMA PendingShrinks ==
    ASSUME NEW r \in Requests, admitted \in [Requests -> CircuitState \cup {Idle}],
           admitted[r] # Idle, admitted' = [admitted EXCEPT ![r] = Idle]
    PROVE  /\ Pending' = Pending \ {r}
           /\ Cardinality(Pending') = Cardinality(Pending) - 1
<1>1. Pending' = Pending \ {r} /\ r \in Pending
  BY DEF Pending
<1> QED
  BY <1>1, PendingSize, FS_RemoveElement

\* An open circuit has counted at most the failures that opened it and those
\* of the requests in flight at that moment (RecordFailure, case StateOpen).
THEOREM LateFailures == Spec => []LateFailuresBounded
<1>0. TripAt \in Nat /\ TripAt >= 1
  BY BreakerAssumption DEF BreakerAssumption, TripAt
<1>1. Init => LateFailuresBounded
  BY <1>0, PendingSize, FS_EmptySet DEF Init, NewCircuitBreaker, LateFailuresBounded, Pending
<1>2. ASSUME Inv, Inv', LateFailuresBounded, [Next]_vars
      PROVE  LateFailuresBounded'
  <2> DEFINE P == Cardinality(Pending)
             Q == Cardinality(Pending')
             N == Cardinality(Requests)
  <2>1. P \in Nat /\ Q \in Nat /\ N \in Nat /\ P <= N /\ Q <= N
    <3>1. Pending \subseteq Requests /\ Pending' \subseteq Requests
      BY DEF Pending
    <3> QED
      BY <3>1, RequestsAssumption, FS_Subset, FS_CardinalityType DEF RequestsAssumption
  <2>2. cb.FailureCount \in Nat /\ cb'.FailureCount \in Nat
    BY <1>2 DEF Inv, TypeOK, Circuit
  <2>3. cb.FailureCount + P < TripAt + N
    BY <1>2 DEF LateFailuresBounded
  <2>4. SUFFICES cb'.FailureCount + Q < TripAt + N
    BY DEF LateFailuresBounded
  <2>5. ASSUME cb'.State # StateOpen
        PROVE  cb'.FailureCount + Q < TripAt + N
    <3>1. cb'.FailureCount < TripAt
      BY <1>0, <1>2, <2>5 DEF Inv, TypeOK, Circuit, CircuitState, CountFitsState
    <3> QED
      BY <3>1, <2>1, <2>2, <1>0
  <2>6. ASSUME NEW r \in Requests, Allow(r)
        PROVE  cb'.FailureCount + Q < TripAt + N
    <3>1. CASE Allowed(cb)
      <4>1. cb'.State # StateOpen
        BY <1>2, <2>6, <3>1, AllowLeaves, StatesDiffer DEF Allowed
      <4> QED
        BY <4>1, <2>5
    <3>2. CASE ~Allowed(cb)
      <4>1. cb' = cb /\ admitted' = admitted
        BY <1>2, <2>6, <3>2, AllowLeaves
      <4> QED
        BY <4>1, <2>3 DEF Pending
    <3> QED
      BY <3>1, <3>2
  <2>7. ASSUME NEW r \in Requests, admitted[r] # Idle,
               admitted' = [admitted EXCEPT ![r] = Idle],
               cb'.FailureCount <= cb.FailureCount + 1
        PROVE  cb'.FailureCount + Q < TripAt + N
    <3>1. Q = P - 1
      BY <1>2, <2>7, PendingShrinks DEF Inv, TypeOK
    <3> QED
      BY <3>1, <2>1, <2>2, <2>3, <2>7, <1>0
  <2>8. ASSUME NEW r \in Requests, RecordFailure(r)
        PROVE  cb'.FailureCount + Q < TripAt + N
    <3>1. cb'.FailureCount <= cb.FailureCount + 1
      BY <1>2, <2>2, <2>8, FailureLeaves
    <3> QED
      BY <3>1, <2>7, <2>8 DEF RecordFailure
  <2>9. ASSUME NEW r \in Requests, RecordSuccess(r)
        PROVE  cb'.FailureCount + Q < TripAt + N
    <3>1. cb'.FailureCount <= cb.FailureCount + 1
      BY <1>2, <2>2, <2>9, SuccessLeaves
    <3> QED
      BY <3>1, <2>7, <2>9 DEF RecordSuccess
  <2>10. ASSUME NEW r \in Requests, Abort(r)
         PROVE  cb'.FailureCount + Q < TripAt + N
    <3>1. cb'.FailureCount <= cb.FailureCount + 1
      BY <2>2, <2>10 DEF Abort
    <3> QED
      BY <3>1, <2>7, <2>10 DEF Abort
  <2>11. CASE Tick
    <3>1. cb'.FailureCount = cb.FailureCount /\ Pending' = Pending
      BY <1>2, <2>11 DEF Tick, Elapse, Pending, Inv, TypeOK, Circuit
    <3> QED
      BY <3>1, <2>3 DEF Pending
  <2>12. CASE UNCHANGED vars
    <3>1. cb' = cb /\ Pending' = Pending
      BY <2>12 DEF vars, Pending
    <3> QED
      BY <3>1, <2>3 DEF Pending
  <2> QED
    BY <1>2, <2>6, <2>8, <2>9, <2>10, <2>11, <2>12 DEF Next
<1> QED
  BY <1>1, <1>2, Invariance, PTL DEF Spec

-----------------------------------------------------------------------------
(* The breaker implements its contract.                                    *)

\* Each operation maps to the contract's operation of the same meaning; a
\* rejected request is a stuttering step.
LEMMA ContractStep ==
    ASSUME Inv, Inv', [Next]_vars
    PROVE  [Contract!Next]_(Contract!vars)
<1> USE DEF Inv, TypeOK
<1>1. cb \in Circuit /\ cb' \in Circuit /\ Timeout \in Nat /\ Threshold \in Nat
  BY BreakerAssumption DEF BreakerAssumption
<1>2. ASSUME NEW r \in Requests, Allow(r), Allowed(cb)
      PROVE  Contract!Admit(r)
  <2>1. cb.OpenAge = Timeout /\ cb'.OpenAge = Timeout
    BY <1>1, <1>2, AllowLeaves DEF Allowed, Expired, Circuit, CooldownMeansOpen
  <2>2. /\ cb'.State = IF cb.State = StateOpen THEN StateHalfOpen ELSE cb.State
        /\ cb'.State = StateClosed => cb'.FailureCount = cb.FailureCount
    BY <1>1, <1>2, AllowLeaves, StatesDiffer, <2>1 DEF Allow, AfterAllow, Expired, Circuit
  <2>3. Pending' = Pending \cup {r} /\ r \notin Pending
    <3>1. cb'.State # Idle
      BY <1>1, StatesDiffer DEF Circuit
    <3> QED
      BY <1>2, <3>1, AllowLeaves DEF Allow, Pending
  <2> QED
    BY <1>1, <2>1, <2>2, <2>3, StatesDiffer DEF Contract!Admit
<1>3. ASSUME NEW r \in Requests, RecordFailure(r)
      PROVE  Contract!Fail(r)
  <2>1. Pending' = Pending \ {r} /\ r \in Pending
    BY <1>3, PendingShrinks DEF RecordFailure, Pending
  <2>2. cb.FailureCount \in Nat /\ cb.State \in CircuitState
    BY <1>1 DEF Circuit
  <2> QED
    BY <1>1, <1>3, <2>1, <2>2, FailureLeaves, StatesDiffer
       DEF Contract!Fail, Contract!Open, Trips
<1>4. ASSUME NEW r \in Requests, RecordSuccess(r)
      PROVE  Contract!Succeed(r)
  <2>1. Pending' = Pending \ {r} /\ r \in Pending
    BY <1>4, PendingShrinks DEF RecordSuccess, Pending
  <2> QED
    BY <1>4, <2>1, SuccessLeaves, StatesDiffer DEF Contract!Succeed
<1>5. ASSUME NEW r \in Requests, Abort(r)
      PROVE  Contract!Drop(r)
  <2>1. Pending' = Pending \ {r} /\ r \in Pending
    BY <1>5, PendingShrinks DEF Abort, Pending
  <2> QED
    BY <1>5, <2>1 DEF Abort, Contract!Drop
<1>6. ASSUME Tick
      PROVE  Contract!Tick
  <2>1. cb'.OpenAge = cb.OpenAge + 1 /\ cb.OpenAge < Timeout /\ cb.OpenAge \in Nat
        /\ cb'.State = cb.State /\ cb'.FailureCount = cb.FailureCount
    BY <1>6, TickLeaves DEF Circuit
  <2>2. Pending' = Pending
    BY <1>6 DEF Tick, Pending
  <2> QED
    BY <1>1, <2>1, <2>2 DEF Contract!Tick
<1>7. ASSUME cb' = cb, admitted' = admitted
      PROVE  UNCHANGED Contract!vars
  BY <1>7 DEF Contract!vars, Pending
<1>8. ASSUME NEW r \in Requests, Allow(r), ~Allowed(cb)
      PROVE  cb' = cb /\ admitted' = admitted
  BY <1>8, AllowLeaves
<1> QED
  BY <1>2, <1>3, <1>4, <1>5, <1>6, <1>7, <1>8 DEF Next, vars, Contract!Next

\* Whatever the threshold, the timeout and the interleaving of handlers, the
\* breaker behaves as BreakerContract: it opens after exactly Threshold
\* failures in a row and then admits nothing for a whole timeout.
THEOREM Refinement == Spec => ImplementsContract
<1>1. Init => Contract!Init
  BY BreakerAssumption DEF BreakerAssumption, Init, NewCircuitBreaker, Contract!Init, Pending,
     StateClosed
<1>2. Inv /\ Inv' /\ [Next]_vars => [Contract!Next]_(Contract!vars)
  BY ContractStep
<1> QED
  BY <1>1, <1>2, Invariance, PTL DEF Spec, ImplementsContract, Contract!Spec
=============================================================================
