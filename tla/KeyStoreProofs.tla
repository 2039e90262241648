--------------------------- MODULE KeyStoreProofs ---------------------------
(***************************************************************************)
(* What APIKeyAuth.Validate promises although it looks at the store twice, *)
(* for every set of keys, every key file and every number of calls,        *)
(* changes of the store and objects.                                       *)
(*                                                                         *)
(* AnswersJustified speaks of calls that are over.  For a call that runs,  *)
(* RunningInv says that the history already holds what the store says now  *)
(* of its key, and what the object the call has found would make it        *)
(* answer.  An object that was found may be revoked although its key has   *)
(* another object by then; KeysApart excludes it: only Revoke of the key   *)
(* an object was added under reaches it.                                   *)
(***************************************************************************)
EXTENDS KeyStore, TLAPS

-----------------------------------------------------------------------------
(* The inductive invariant.                                                *)

\* No two keys share an object, and an object a call has found is no other key's.
KeysApart ==
    /\ \A k, l \in Keys : keys[k] # nil /\ keys[k] = keys[l] => k = l
    /\ \A c \in Calls : call[c].stage = "check" =>
          \A k \in Keys : keys[k] = call[c].found => k = call[c].key

\* What a running call may still answer has been the store's answer.
RunningInv ==
    \A c \in Calls :
        /\ c \in Running => Status(call[c].key, keys, objects) \in seen[c]
        /\ call[c].stage = "check" =>
              LET object == objects[call[c].found]
              IN  /\ call[c].flag => object.revoked
                  /\ ~call[c].flag => Valid(object.id) \in seen[c]
                  /\ object.revoked => Refused("revoked") \in seen[c]

\* The key file is loaded before any call.
FileFirst == file # << >> => \A c \in Calls : call[c] = Idle

Inv == TypeOK /\ FileFirst /\ KeysApart /\ RunningInv /\ AnswersJustified

-----------------------------------------------------------------------------
(* Facts the steps share.                                                  *)

\* Objects of a domain D of names, and a map of keys to them.
ObjectsOK(D, ks, objs) ==
    /\ D \subseteq 1..MaxObjects
    /\ objs \in [D -> APIKey]
    /\ ks \in [Keys -> {nil} \cup D]

\* nil names no object.
LEMMA NilIsFree == ASSUME NEW D, D \subseteq 1..MaxObjects PROVE nil \notin D
BY KeyStoreAssumption DEF KeyStoreAssumption, nil

\* What the store says of a key is an answer of Validate.
LEMMA StatusOK ==
    ASSUME NEW D, NEW ks, NEW objs, ObjectsOK(D, ks, objs), NEW k \in Keys \cup {NoString}
    PROVE  Status(k, ks, objs) \in Answers
<1>1. CASE k = NoString
  BY <1>1 DEF Status, Answers
<1>2. CASE k # NoString /\ ks[k] = nil
  BY <1>2 DEF Status, Answers
<1>3. CASE k # NoString /\ ks[k] # nil
  <2>1. ks[k] \in D /\ objs[ks[k]] \in APIKey
    BY <1>3 DEF ObjectsOK
  <2>2. objs[ks[k]].id \in IDs
    BY <2>1 DEF APIKey
  <2> QED
    BY <1>3, <2>2 DEF Status, Answers
<1> QED
  BY <1>1, <1>2, <1>3

\* What the stage of a call says of it.
LEMMA CallStage ==
    ASSUME TypeOK, NEW c \in Calls
    PROVE  /\ c \in Running => call[c].key \in Keys
           /\ c \in Running <=> call[c].stage = "lookup" \/ call[c].stage = "check"
           /\ call[c].stage = "check" => call[c].found \in DOMAIN objects /\ call[c].flag \in BOOLEAN
           /\ call[c].stage = "done" => call[c].answer \in Answers
<1>1. call[c] \in Call
  BY DEF TypeOK
<1>2. CASE call[c] = Idle
  BY <1>2 DEF Idle, Running
<1>3. CASE call[c] \in [stage: {"lookup"}, key: Keys]
  BY <1>3 DEF Running
<1>4. CASE call[c] \in [stage: {"done"}, answer: Answers]
  BY <1>4 DEF Running
<1>5. CASE call[c] \in [stage: {"check"}, key: Keys, found: DOMAIN objects, flag: BOOLEAN]
  BY <1>5 DEF Running
<1> QED
  BY <1>1, <1>2, <1>3, <1>4, <1>5 DEF Call

\* A step of the store itself leaves the calls as they are.
LEMMA CallsKept ==
    ASSUME TypeOK, DOMAIN objects \subseteq DOMAIN objects', call' = call
    PROVE  call' \in [Calls -> Call'] /\ Running' = Running
<1>1. Call \subseteq Call'
  BY DEF Call
<1> QED
  BY <1>1 DEF TypeOK, Running

-----------------------------------------------------------------------------
(* The initial states, and a key file that is loaded.                      *)

\* An empty store and no call.
LEMMA InvInit == Init => Inv
<1> SUFFICES ASSUME Init PROVE Inv
  OBVIOUS
<1>1. DOMAIN objects = {}
  BY DEF Init
<1>2. \A c \in Calls : call[c].stage = "idle" /\ call[c] \in Call
  BY DEF Init, Idle, Call
<1>3. TypeOK
  BY <1>1, <1>2 DEF Init, TypeOK
<1>4. FileFirst /\ KeysApart /\ RunningInv /\ AnswersJustified
  BY <1>2 DEF Init, FileFirst, KeysApart, RunningInv, AnswersJustified, Running
<1> QED
  BY <1>3, <1>4 DEF Inv

\* LoadKeyFile
LEMMA LoadKeepsInv ==
    ASSUME Inv, LoadKeyFile
    PROVE  Inv'
<1>1. TypeOK /\ file \in Files /\ (\A c \in Calls : call[c].stage = "idle" /\ call[c] = Idle)
  BY DEF Inv, TypeOK, LoadKeyFile, FileFirst, Idle
<1>2. Entries(file) \subseteq 1..MaxObjects /\ (\A i \in Entries(file) : file[i].id \in IDs /\ file[i].key \in Keys)
  BY <1>1, KeyStoreAssumption DEF KeyStoreAssumption
<1>3. objects' = [i \in Entries(file) |-> [id |-> file[i].id, revoked |-> FALSE]]
  BY DEF LoadKeyFile
<1>4. DOMAIN objects' = Entries(file)
  BY <1>3
<1>5. /\ keys' \in [Keys -> {nil} \cup Entries(file)]
      /\ \A k \in Keys : keys'[k] # nil => file[keys'[k]].key = k
  BY DEF LoadKeyFile
<1>6. file' = << >> /\ UNCHANGED <<call, seen>>
  BY DEF LoadKeyFile
<1>7. TypeOK'
  <2>1. objects' \in [DOMAIN objects' -> APIKey]
    BY <1>2, <1>3, <1>4 DEF APIKey
  <2>2. call' \in [Calls -> Call']
    BY <1>1, <1>6 DEF Call, TypeOK
  <2> QED
    BY <1>1, <1>2, <1>4, <1>5, <1>6, <2>1, <2>2 DEF TypeOK
<1>8. FileFirst' /\ KeysApart' /\ RunningInv' /\ AnswersJustified'
  BY <1>1, <1>5, <1>6 DEF FileFirst, KeysApart, RunningInv, AnswersJustified, Running
<1> QED
  BY <1>7, <1>8 DEF Inv

-----------------------------------------------------------------------------
(* Add and Revoke: the store changes under the calls.                      *)

\* Every call that runs has seen the store's new answer.
LEMMA SeenBecomes ==
    ASSUME TypeOK, NEW ks, NEW objs, NEW D, ObjectsOK(D, ks, objs), Becomes(ks, objs)
    PROVE  /\ seen' \in [Calls -> SUBSET Answers]
           /\ \A c \in Calls : seen[c] \subseteq seen'[c]
           /\ \A c \in Running : Status(call[c].key, ks, objs) \in seen'[c]
<1>1. \A c \in Running : Status(call[c].key, ks, objs) \in Answers /\ c \in Calls
  BY CallStage, StatusOK DEF Running
<1> QED
  BY <1>1 DEF Becomes, TypeOK

\* Add puts a new object under a key.
LEMMA AddKeepsInv ==
    ASSUME Inv, NEW k \in Keys, NEW object \in APIKey, Add(k, object)
    PROVE  Inv'
<1> DEFINE new == CHOOSE i \in Free : TRUE
           D == DOMAIN objects \cup {new}
           ks == [keys EXCEPT ![k] = new]
           objs == [i \in D |-> IF i = new THEN object ELSE objects[i]]
<1>1. TypeOK /\ KeysApart /\ RunningInv /\ AnswersJustified
  BY DEF Inv
<1>2. new \in 1..MaxObjects /\ new \notin DOMAIN objects
  BY DEF Add, Free
<1>3. Becomes(ks, objs)
  BY DEF Add
<1> HIDE DEF new
<1>4. /\ objs \in [D -> APIKey] /\ DOMAIN objs = D
      /\ objs[new] = object /\ \A i \in DOMAIN objects : objs[i] = objects[i]
  BY <1>1, <1>2 DEF TypeOK
<1>5. ks \in [Keys -> {nil} \cup D] /\ ks[k] = new /\ \A l \in Keys : l # k => ks[l] = keys[l]
  BY <1>1 DEF TypeOK
<1>6. ObjectsOK(D, ks, objs)
  BY <1>1, <1>2, <1>4, <1>5 DEF ObjectsOK, TypeOK
<1>7. keys' = ks /\ objects' = objs /\ file' = file /\ call' = call
  BY <1>3 DEF Becomes
<1> HIDE DEF ks, objs
<1>8. /\ seen' \in [Calls -> SUBSET Answers]
      /\ \A c \in Calls : seen[c] \subseteq seen'[c]
      /\ \A c \in Running : Status(call[c].key, ks, objs) \in seen'[c]
  BY <1>1, <1>3, <1>6, SeenBecomes
<1>9. call' \in [Calls -> Call'] /\ Running' = Running
  BY <1>1, <1>4, <1>7, CallsKept
<1>10. TypeOK'
  BY <1>1, <1>4, <1>6, <1>7, <1>8, <1>9 DEF TypeOK, ObjectsOK
<1>11. \A c \in Calls : call[c].stage = "check" => call[c].found \in DOMAIN objects
  BY <1>1, CallStage
<1>12. KeysApart'
  <2>1. \A l \in Keys : keys[l] # new
    BY <1>1, <1>2, KeyStoreAssumption DEF TypeOK, KeyStoreAssumption, nil
  <2> QED
    BY <1>1, <1>2, <1>5, <1>7, <1>11, <2>1 DEF KeysApart
<1>13. RunningInv'
  BY <1>1, <1>4, <1>7, <1>8, <1>9, <1>11 DEF RunningInv
<1>14. FileFirst' /\ AnswersJustified'
  BY <1>1, <1>7, <1>8 DEF Inv, FileFirst, AnswersJustified
<1> QED
  BY <1>10, <1>12, <1>13, <1>14 DEF Inv

\* Revoke marks the object that is under a key, and that a call may hold.
LEMMA RevokeKeepsInv ==
    ASSUME Inv, NEW k \in Keys, Revoke(k)
    PROVE  Inv'
<1> DEFINE o == keys[k]
           D == DOMAIN objects
           objs == [objects EXCEPT ![o].revoked = TRUE]
<1>1. TypeOK /\ KeysApart /\ RunningInv /\ AnswersJustified /\ o # nil /\ o \in D
  BY DEF Inv, Revoke, TypeOK
<1>2. Becomes(keys, objs)
  BY DEF Revoke
<1>3. \A i \in D : objects[i] \in APIKey
  BY <1>1 DEF TypeOK
<1>4. /\ DOMAIN objs = D
      /\ \A i \in D : i # o => objs[i] = objects[i]
      /\ objs[o] = [objects[o] EXCEPT !.revoked = TRUE]
  BY <1>1 DEF TypeOK
<1>5. objs[o].id = objects[o].id /\ objs[o].revoked = TRUE /\ objs[o] \in APIKey
  BY <1>1, <1>3, <1>4 DEF APIKey
<1>6. objs \in [D -> APIKey]
  BY <1>1, <1>5 DEF TypeOK
<1>7. ObjectsOK(D, keys, objs)
  BY <1>1, <1>6 DEF ObjectsOK, TypeOK
<1>8. keys' = keys /\ objects' = objs /\ file' = file /\ call' = call
  BY <1>2 DEF Becomes
<1> HIDE DEF o, D, objs
<1>9. /\ seen' \in [Calls -> SUBSET Answers]
      /\ \A c \in Calls : seen[c] \subseteq seen'[c]
      /\ \A c \in Running : Status(call[c].key, keys, objs) \in seen'[c]
  BY <1>1, <1>2, <1>7, SeenBecomes
<1>10. call' \in [Calls -> Call'] /\ Running' = Running
  BY <1>1, <1>4, <1>8, CallsKept DEF D
<1>11. TypeOK'
  BY <1>1, <1>4, <1>7, <1>8, <1>9, <1>10 DEF TypeOK, ObjectsOK
<1>12. KeysApart' /\ FileFirst' /\ AnswersJustified'
  BY <1>1, <1>8, <1>9 DEF Inv, KeysApart, FileFirst, AnswersJustified
<1>13. RunningInv'
  <2> SUFFICES ASSUME NEW c \in Calls
               PROVE  /\ c \in Running => Status(call[c].key, keys, objs) \in seen'[c]
                      /\ call[c].stage = "check" =>
                            /\ call[c].flag => objs[call[c].found].revoked
                            /\ ~call[c].flag => Valid(objs[call[c].found].id) \in seen'[c]
                            /\ objs[call[c].found].revoked => Refused("revoked") \in seen'[c]
    BY <1>8, <1>10 DEF RunningInv
  <2>1. CASE call[c].stage # "check"
    BY <1>9, <2>1
  <2>2. CASE call[c].stage = "check"
    <3> DEFINE f == call[c].found
    <3>1. f \in D /\ c \in Running /\ call[c].key \in Keys
      BY <1>1, <2>2, CallStage DEF D
    <3>2. /\ call[c].flag => objects[f].revoked
          /\ ~call[c].flag => Valid(objects[f].id) \in seen'[c]
          /\ objects[f].revoked => Refused("revoked") \in seen'[c]
      BY <1>1, <1>9, <2>2 DEF RunningInv
    <3>3. CASE f # o
      BY <1>4, <1>9, <3>1, <3>2, <3>3
    <3>4. CASE f = o
      <4>1. k = call[c].key
        BY <1>1, <2>2, <3>4 DEF KeysApart, o
      <4>2. Status(call[c].key, keys, objs) = Refused("revoked")
        BY <1>1, <1>5, <4>1, KeyStoreAssumption DEF Status, KeyStoreAssumption, o
      <4> QED
        BY <1>5, <1>9, <3>1, <3>2, <3>4, <4>2
    <3> QED
      BY <3>3, <3>4
  <2> QED
    BY <2>1, <2>2
<1> QED
  BY <1>11, <1>12, <1>13 DEF Inv

-----------------------------------------------------------------------------
(* Validate, Lookup and Check: one call moves.                             *)

\* Call c becomes r, and its history S, while the store and the other calls stay.
Moves(c, r, S) ==
    /\ UNCHANGED <<file, objects, keys>> /\ file = << >>
    /\ r \in Call /\ call' = [call EXCEPT ![c] = r]
    /\ S \in SUBSET Answers /\ seen' = [seen EXCEPT ![c] = S]

\* What the invariant asks of call r with history S.
CallOK(r, S) ==
    /\ r.stage \in {"lookup", "check", "done"}
    /\ r.stage # "done" => Status(r.key, keys, objects) \in S
    /\ r.stage = "check" =>
          /\ \A k \in Keys : keys[k] = r.found => k = r.key
          /\ r.flag => objects[r.found].revoked
          /\ ~r.flag => Valid(objects[r.found].id) \in S
          /\ objects[r.found].revoked => Refused("revoked") \in S
    /\ r.stage = "done" => r.answer \in S

\* One slot changes, the store does not.
LEMMA CallMoves ==
    ASSUME Inv, NEW c \in Calls, NEW r, NEW S, Moves(c, r, S), CallOK(r, S)
    PROVE  Inv'
<1> USE DEF Moves, CallOK
<1>1. TypeOK /\ KeysApart /\ RunningInv /\ AnswersJustified
  BY DEF Inv
<1>2. \A d \in Calls : call'[d] = IF d = c THEN r ELSE call[d]
  BY <1>1 DEF TypeOK
<1>3. \A d \in Calls : seen'[d] = IF d = c THEN S ELSE seen[d]
  BY <1>1 DEF TypeOK
<1>4. TypeOK'
  <2>1. call' \in [Calls -> Call] /\ seen' \in [Calls -> SUBSET Answers]
    BY <1>1 DEF TypeOK
  <2>2. Call' = Call
    BY DEF Call
  <2> QED
    BY <1>1, <2>1, <2>2 DEF TypeOK
<1>5. FileFirst'
  BY DEF FileFirst
<1>6. KeysApart'
  BY <1>1, <1>2 DEF KeysApart
<1>7. RunningInv'
  <2> SUFFICES ASSUME NEW d \in Calls
               PROVE  /\ d \in Running' => Status(call'[d].key, keys, objects) \in seen'[d]
                      /\ call'[d].stage = "check" =>
                            /\ call'[d].flag => objects[call'[d].found].revoked
                            /\ ~call'[d].flag => Valid(objects[call'[d].found].id) \in seen'[d]
                            /\ objects[call'[d].found].revoked => Refused("revoked") \in seen'[d]
    BY DEF RunningInv
  <2>1. CASE d = c
    BY <1>2, <1>3, <2>1 DEF Running
  <2>2. CASE d # c
    <3>1. call'[d] = call[d] /\ seen'[d] = seen[d] /\ (d \in Running' <=> d \in Running)
      BY <1>2, <1>3, <2>2 DEF Running
    <3> QED
      BY <1>1, <3>1 DEF RunningInv
  <2> QED
    BY <2>1, <2>2
<1>8. AnswersJustified'
  BY <1>1, <1>2, <1>3 DEF AnswersJustified
<1> QED
  BY <1>4, <1>5, <1>6, <1>7, <1>8 DEF Inv

\* The store as it is.
LEMMA StoreOK ==
    ASSUME TypeOK
    PROVE  ObjectsOK(DOMAIN objects, keys, objects)
BY DEF TypeOK, ObjectsOK

\* A call begins: its history starts with what the store says now.
LEMMA ValidateKeepsInv ==
    ASSUME Inv, NEW c \in Calls, NEW headers \in Headers, Validate(c, headers)
    PROVE  Inv'
<1> DEFINE k == RawKey(headers)
           r == IF k = NoString THEN Done(Refused("missing")) ELSE [stage |-> "lookup", key |-> k]
<1>1. TypeOK /\ file = << >> /\ UNCHANGED <<file, objects, keys>>
  BY DEF Inv, Validate
<1>2. k \in Keys \cup {NoString}
  BY KeyStoreAssumption DEF KeyStoreAssumption, RawKey
<1>3. call' = [call EXCEPT ![c] = r] /\ seen' = [seen EXCEPT ![c] = {Status(k, keys, objects)}]
  BY DEF Validate
<1> HIDE DEF k
<1>4. Status(k, keys, objects) \in Answers
  BY <1>1, <1>2, StoreOK, StatusOK
<1>5. CASE k = NoString
  <2>1. r = Done(Refused("missing")) /\ r \in Call /\ r.stage = "done" /\ r.answer = Refused("missing")
    BY <1>5 DEF Done, Call, Answers
  <2>2. Status(k, keys, objects) = Refused("missing")
    BY <1>5 DEF Status
  <2>3. Moves(c, r, {Status(k, keys, objects)}) /\ CallOK(r, {Status(k, keys, objects)})
    BY <1>1, <1>3, <1>4, <2>1, <2>2 DEF Moves, CallOK
  <2> QED
    BY <2>3, CallMoves
<1>6. CASE k # NoString
  <2>1. r \in Call /\ r.stage = "lookup" /\ r.key = k
    BY <1>2, <1>6 DEF Call
  <2>2. Moves(c, r, {Status(k, keys, objects)}) /\ CallOK(r, {Status(k, keys, objects)})
    BY <1>1, <1>3, <1>4, <2>1 DEF Moves, CallOK
  <2> QED
    BY <2>2, CallMoves
<1> QED
  BY <1>5, <1>6

\* The read under the lock: what is found is what the history says.
LEMMA LookupKeepsInv ==
    ASSUME Inv, NEW c \in Calls, Lookup(c)
    PROVE  Inv'
<1> DEFINE k == call[c].key
           r == IF keys[k] = nil THEN Done(Refused("unknown")) ELSE Found(k)
<1>1. TypeOK /\ KeysApart /\ RunningInv /\ call[c].stage = "lookup" /\ UNCHANGED <<file, objects, keys, seen>>
  BY DEF Inv, Lookup
<1>2. k \in Keys /\ c \in Running /\ k # NoString /\ file = << >>
  BY <1>1, CallStage, KeyStoreAssumption DEF KeyStoreAssumption, Inv, FileFirst, Idle
<1>3. call' = [call EXCEPT ![c] = r]
  BY DEF Lookup
<1>4. seen' = [seen EXCEPT ![c] = seen[c]] /\ seen[c] \in SUBSET Answers
  BY <1>1 DEF TypeOK
<1>5. Status(k, keys, objects) \in seen[c]
  BY <1>1, <1>2 DEF RunningInv
<1> HIDE DEF k
<1>6. CASE keys[k] = nil
  <2>1. r \in Call /\ r.stage = "done" /\ r.answer = Refused("unknown")
    BY <1>6 DEF Done, Call, Answers
  <2>2. Status(k, keys, objects) = Refused("unknown")
    BY <1>2, <1>6 DEF Status
  <2> HIDE DEF r
  <2>3. Moves(c, r, seen[c]) /\ CallOK(r, seen[c])
    BY <1>1, <1>2, <1>3, <1>4, <1>5, <2>1, <2>2 DEF Moves, CallOK
  <2> QED
    BY <2>3, CallMoves
<1>7. CASE keys[k] # nil
  <2>1. keys[k] \in DOMAIN objects /\ objects[keys[k]] \in APIKey
    BY <1>1, <1>2, <1>7 DEF TypeOK
  <2>2. objects[keys[k]].revoked \in BOOLEAN
    BY <2>1, Zenon DEF APIKey
  <2>3. /\ r \in Call /\ r.stage = "check" /\ r.key = k /\ r.found = keys[k]
    BY <1>2, <1>7, <2>1, <2>2 DEF Call, Found
  <2>4. r.flag = objects[keys[k]].revoked
    BY <1>7 DEF Found
  <2>5. Status(k, keys, objects) = IF objects[keys[k]].revoked THEN Refused("revoked") ELSE Valid(objects[keys[k]].id)
    BY <1>2, <1>7 DEF Status
  <2>6. \A l \in Keys : keys[l] = r.found => l = r.key
    BY <1>1, <1>2, <1>7, <2>3 DEF KeysApart
  <2> HIDE DEF r
  <2>7. Moves(c, r, seen[c])
    BY <1>1, <1>2, <1>3, <1>4, <2>3 DEF Moves
  <2>8. CallOK(r, seen[c])
    BY <1>5, <2>3, <2>4, <2>5, <2>6 DEF CallOK
  <2> QED
    BY <2>7, <2>8, CallMoves
<1> QED
  BY <1>6, <1>7

\* The read without a lock: either value of the flag has been an answer of the store.
LEMMA CheckKeepsInv ==
    ASSUME Inv, NEW c \in Calls, Check(c)
    PROVE  Inv'
<1> DEFINE o == objects[call[c].found]
<1>1. TypeOK /\ RunningInv /\ call[c].stage = "check" /\ UNCHANGED <<file, objects, keys, seen>>
  BY DEF Inv, Check
<1>2. PICK revoked \in {call[c].flag, o.revoked} :
         call' = [call EXCEPT ![c] = Done(IF revoked THEN Refused("revoked") ELSE Valid(o.id))]
  BY <1>1 DEF Check, TypeOK
<1> DEFINE answer == IF revoked THEN Refused("revoked") ELSE Valid(o.id)
<1>3. file = << >>
  BY <1>1 DEF Inv, FileFirst, Idle
<1>4. seen' = [seen EXCEPT ![c] = seen[c]] /\ seen[c] \in SUBSET Answers
  BY <1>1 DEF TypeOK
<1>5. /\ call[c].flag => o.revoked
      /\ ~call[c].flag => Valid(o.id) \in seen[c]
      /\ o.revoked => Refused("revoked") \in seen[c]
  BY <1>1 DEF RunningInv
<1>6. answer \in seen[c]
  BY <1>2, <1>5
<1>7. Done(answer) \in Call /\ Done(answer).stage = "done" /\ Done(answer).answer = answer
  BY <1>4, <1>6 DEF Done, Call
<1>8. call' = [call EXCEPT ![c] = Done(answer)]
  BY <1>2
<1> HIDE DEF answer
<1>9. Moves(c, Done(answer), seen[c]) /\ CallOK(Done(answer), seen[c])
  BY <1>1, <1>3, <1>4, <1>6, <1>7, <1>8 DEF Moves, CallOK
<1> QED
  BY <1>9, CallMoves

-----------------------------------------------------------------------------
(* The theorems.                                                           *)

\* Every step keeps the inductive invariant.
LEMMA InvNext == Inv /\ [Next]_vars => Inv'
<1> SUFFICES ASSUME Inv, [Next]_vars PROVE Inv'
  OBVIOUS
<1>1. CASE LoadKeyFile
  BY <1>1, LoadKeepsInv
<1>2. ASSUME NEW k \in Keys, NEW object \in APIKey, Add(k, object) PROVE Inv'
  BY <1>2, AddKeepsInv
<1>3. ASSUME NEW k \in Keys, Revoke(k) PROVE Inv'
  BY <1>3, RevokeKeepsInv
<1>4. ASSUME NEW c \in Calls, NEW headers \in Headers, Validate(c, headers) PROVE Inv'
  BY <1>4, ValidateKeepsInv
<1>5. ASSUME NEW c \in Calls, Lookup(c) \/ Check(c) PROVE Inv'
  BY <1>5, LookupKeepsInv, CheckKeepsInv
<1>6. CASE UNCHANGED vars
  <2>1. Call' = Call /\ Running' = Running
    BY <1>6 DEF vars, Call, Running
  <2>2. TypeOK'
    BY <1>6, <2>1 DEF Inv, TypeOK, vars
  <2>3. FileFirst' /\ KeysApart' /\ RunningInv' /\ AnswersJustified'
    BY <1>6, <2>1 DEF Inv, FileFirst, KeysApart, RunningInv, AnswersJustified, vars
  <2> QED
    BY <2>2, <2>3 DEF Inv
<1> QED
  BY <1>1, <1>2, <1>3, <1>4, <1>5, <1>6 DEF Next

\* The inductive invariant holds throughout.
THEOREM Invariance == Spec => []Inv
BY InvInit, InvNext, PTL DEF Spec

\* The map of the store points at objects that exist, and every answer of
\* Validate has its form (KeyStore.keys, APIKeyAuth.Validate).
THEOREM TypeCorrect == Spec => []TypeOK
<1>1. Inv => TypeOK
  BY DEF Inv
<1> QED
  BY <1>1, Invariance, PTL

\* Validate answers what the store said of the key at some moment of the call,
\* whatever Add and Revoke do between its two reads.
THEOREM AnswersOfOneMoment == Spec => []AnswersJustified
<1>1. Inv => AnswersJustified
  BY DEF Inv
<1> QED
  BY <1>1, Invariance, PTL

\* A key that was revoked stays so until it is added again: no other change of
\* the store, to this key or another, lets it in (KeyStore.Revoke, KeyStore.Add).
RevocationSticks ==
    [][\A k \in Keys : Status(k, keys, objects) = Refused("revoked") =>
          Status(k, keys', objects') = Refused("revoked") \/ \E object \in APIKey : Add(k, object)]_vars

\* Only Add of the key itself ends its revocation.
THEOREM RevocationIsFinal == Spec => RevocationSticks
<1> DEFINE Sticks == \A k \in Keys : Status(k, keys, objects) = Refused("revoked") =>
                        Status(k, keys', objects') = Refused("revoked") \/ \E object \in APIKey : Add(k, object)
<1>1. ASSUME Inv, [Next]_vars, NEW k \in Keys, Status(k, keys, objects) = Refused("revoked")
      PROVE  Status(k, keys', objects') = Refused("revoked") \/ \E object \in APIKey : Add(k, object)
  <2>1. TypeOK /\ k # NoString
    BY <1>1, KeyStoreAssumption DEF Inv, KeyStoreAssumption
  <2>2. keys[k] # nil /\ keys[k] \in DOMAIN objects /\ objects[keys[k]].revoked
    BY <1>1, <2>1 DEF Status, Refused, Valid, TypeOK
  <2>3. ASSUME keys'[k] = keys[k], objects'[keys[k]].revoked
        PROVE  Status(k, keys', objects') = Refused("revoked")
    BY <2>1, <2>2, <2>3 DEF Status
  <2>4. CASE LoadKeyFile
    BY <2>2, <2>4 DEF LoadKeyFile
  <2>5. ASSUME NEW l \in Keys, l # k, NEW object \in APIKey, Add(l, object)
        PROVE  Status(k, keys', objects') = Refused("revoked")
    <3> DEFINE new == CHOOSE i \in Free : TRUE
    <3>1. new \notin DOMAIN objects
      BY <2>5 DEF Add, Free
    <3>2. /\ keys' = [keys EXCEPT ![l] = new]
          /\ objects' = [i \in DOMAIN objects \cup {new} |-> IF i = new THEN object ELSE objects[i]]
      BY <2>5 DEF Add, Becomes
    <3> HIDE DEF new
    <3>3. keys'[k] = keys[k]
      BY <2>1, <2>5, <3>2 DEF TypeOK
    <3>4. objects'[keys[k]].revoked
      BY <2>2, <3>1, <3>2
    <3> QED
      BY <2>3, <3>3, <3>4
  <2>6. ASSUME NEW l \in Keys, Revoke(l)
        PROVE  Status(k, keys', objects') = Refused("revoked")
    <3>1. keys' = keys /\ objects' = [objects EXCEPT ![keys[l]].revoked = TRUE]
      BY <2>6 DEF Revoke, Becomes
    <3>2. PICK o \in APIKey : o = objects[keys[k]]
      BY <2>1, <2>2 DEF TypeOK
    <3>3. objects'[keys[k]] = IF keys[k] = keys[l] THEN [o EXCEPT !.revoked = TRUE] ELSE o
      BY <2>1, <2>2, <3>1, <3>2 DEF TypeOK
    <3>4. objects'[keys[k]].revoked
      BY <2>2, <3>2, <3>3 DEF APIKey
    <3> QED
      BY <2>3, <3>1, <3>4
  <2>7. CASE UNCHANGED <<objects, keys>>
    BY <2>2, <2>3, <2>7
  <2>8. CASE UNCHANGED vars \/ \E c \in Calls : (\E headers \in Headers : Validate(c, headers)) \/ Lookup(c) \/ Check(c)
    BY <2>7, <2>8 DEF vars, Validate, Lookup, Check
  <2> QED
    BY <1>1, <2>4, <2>5, <2>6, <2>8 DEF Next
<1>2. Inv /\ [Next]_vars => [Sticks]_vars
  BY <1>1
<1> QED
  BY <1>2, Invariance, PTL DEF Spec, RevocationSticks
=============================================================================
