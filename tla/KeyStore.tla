------------------------------ MODULE KeyStore ------------------------------
(***************************************************************************)
(* The API keys: KeyStore of internal/store/store.go, filled from a file,  *)
(* changed by Add and Revoke, and read by APIKeyAuth.Validate of           *)
(* internal/middleware/apikey.go.                                          *)
(*                                                                         *)
(* The map holds pointers.  Validate takes a pointer out of it under the   *)
(* read lock and reads key.Revoked after the lock is released; meanwhile   *)
(* Revoke may set the flag of that object, and Add may put another object  *)
(* in its place.  The gateway itself only loads keys; Add and Revoke are   *)
(* the store's interface for a program that manages them while it serves.  *)
(*                                                                         *)
(* HashKey is injective: a raw key stands for its hash.  Objects are named *)
(* by numbers, those of the file by their place in it.  Of the metadata    *)
(* the ID is kept.                                                         *)
(***************************************************************************)
EXTENDS Naturals

CONSTANTS
    Keys,       \* raw keys, known or not
    IDs,        \* IDs of keys
    NoString,   \* an absent header, an empty field of the file
    Files,      \* what the key file may list: sequences of [id, key]
    Calls,      \* slots for calls of Validate
    Headers,    \* what a request may carry: [apiKey, bearer]
    MaxObjects  \* bound on the objects allocated

\* Entries without an ID or a key are skipped.
Usable(entry) == entry.id # NoString /\ entry.key # NoString

\* The places of the entries that are not.
Entries(f) == {i \in DOMAIN f : Usable(f[i])}

ASSUME KeyStoreAssumption ==
    /\ MaxObjects \in Nat /\ NoString \notin Keys
    /\ \A f \in Files :
          /\ Entries(f) \subseteq 1..MaxObjects
          /\ \A i \in Entries(f) : f[i].id \in IDs /\ f[i].key \in Keys
    /\ \A headers \in Headers : {headers.apiKey, headers.bearer} \subseteq Keys \cup {NoString}

VARIABLES
    file,       \* the key file, until it is loaded
    objects,    \* every APIKey object: its ID and whether it is revoked
    keys,       \* KeyStore.keys: per key the object, nil when absent
    call,       \* per slot: a call of Validate
    seen        \* history: what the store said of the call's key since the call

vars == <<file, objects, keys, call, seen>>

nil == 0
APIKey == [id: IDs, revoked: BOOLEAN]
Idle == [stage |-> "idle"]

\* What Validate may answer, and whom it lets in.
Valid(id) == [verdict |-> "valid", id |-> id]
Refused(why) == [verdict |-> why, id |-> NoString]

\* What a call would answer if nothing happened while it ran.
Status(k, ks, objs) ==
    IF k = NoString THEN Refused("missing")
    ELSE IF ks[k] = nil THEN Refused("unknown")
    ELSE IF objs[ks[k]].revoked THEN Refused("revoked")
    ELSE Valid(objs[ks[k]].id)

Running == {c \in Calls : call[c].stage \in {"lookup", "check"}}

Init ==
    /\ file \in Files
    /\ objects = << >>
    /\ keys = [k \in Keys |-> nil]
    /\ call = [c \in Calls |-> Idle]
    /\ seen = [c \in Calls |-> {}]

-----------------------------------------------------------------------------
(* KeyStore.                                                               *)

\* LoadKeyFile, before anything else: every usable entry is added, and of those
\* with one key the last stays.
LoadKeyFile ==
    /\ objects = << >> /\ file # << >>
    /\ objects' = [i \in Entries(file) |-> [id |-> file[i].id, revoked |-> FALSE]]
    /\ keys' \in [Keys -> {nil} \cup Entries(file)]
    /\ \A k \in Keys :
          LET places == {i \in Entries(file) : file[i].key = k}
          IN  \/ places = {} /\ keys'[k] = nil
              \/ keys'[k] \in places /\ \A i \in places : i <= keys'[k]
    /\ file' = << >>
    /\ UNCHANGED <<call, seen>>

\* The store changes, and every call that is running sees what it says then.
Becomes(ks, objs) ==
    /\ keys' = ks
    /\ objects' = objs
    /\ seen' = [c \in Calls |-> IF c \in Running THEN seen[c] \cup {Status(call[c].key, ks, objs)} ELSE seen[c]]
    /\ UNCHANGED <<file, call>>

\* Names that are not in use.
Free == (1..MaxObjects) \ DOMAIN objects

\* Add inserts the object, or puts it in the place of another.
Add(k, object) ==
    /\ file = << >> /\ Free # {}
    /\ LET new == CHOOSE i \in Free : TRUE
       IN  Becomes([keys EXCEPT ![k] = new],
                   [i \in DOMAIN objects \cup {new} |-> IF i = new THEN object ELSE objects[i]])

\* Revoke marks the object that is there; without one it does nothing.
Revoke(k) ==
    /\ file = << >> /\ keys[k] # nil
    /\ Becomes(keys, [objects EXCEPT ![keys[k]].revoked = TRUE])

-----------------------------------------------------------------------------
(* APIKeyAuth.Validate.                                                    *)

\* The key of X-API-Key, or else the bearer token.
RawKey(headers) == IF headers.apiKey # NoString THEN headers.apiKey ELSE headers.bearer

Done(answer) == [stage |-> "done", answer |-> answer]

\* A call begins, and ends at once for want of a key.
Validate(c, headers) ==
    /\ file = << >> /\ c \notin Running
    /\ LET k == RawKey(headers)
       IN  /\ seen' = [seen EXCEPT ![c] = {Status(k, keys, objects)}]
           /\ call' = [call EXCEPT ![c] = IF k = NoString THEN Done(Refused("missing"))
                                          ELSE [stage |-> "lookup", key |-> k]]
    /\ UNCHANGED <<file, objects, keys>>

Found(k) == [stage |-> "check", key |-> k, found |-> keys[k], flag |-> objects[keys[k]].revoked]

\* Mutant: an unknown key is not told from a known one.
LookupUnchecked(c) ==
    /\ call[c].stage = "lookup"
    /\ call' = [call EXCEPT ![c] = [stage |-> "check", key |-> @.key, found |-> keys[@.key], flag |-> FALSE]]
    /\ UNCHANGED <<file, objects, keys, seen>>

\* Lookup, under the read lock.
Lookup(c) ==
    /\ call[c].stage = "lookup"
    /\ call' = [call EXCEPT ![c] = IF keys[@.key] = nil THEN Done(Refused("unknown")) ELSE Found(@.key)]
    /\ UNCHANGED <<file, objects, keys, seen>>

\* Mutant: the flag is not looked at.
CheckIgnoresRevoked(c) ==
    /\ call[c].stage = "check"
    /\ call' = [call EXCEPT ![c] = Done(Valid(objects[@.found].id))]
    /\ UNCHANGED <<file, objects, keys, seen>>

\* key.Revoked of the object that was found, without a lock: a read that races
\* with Revoke may find the flag as it was when the lock was released.
Check(c) ==
    /\ call[c].stage = "check"
    /\ \E revoked \in {call[c].flag, objects[call[c].found].revoked} :
          call' = [call EXCEPT ![c] = Done(IF revoked THEN Refused("revoked")
                                           ELSE Valid(objects[@.found].id))]
    /\ UNCHANGED <<file, objects, keys, seen>>

Next ==
    \/ LoadKeyFile
    \/ \E k \in Keys :
          \/ \E object \in APIKey : Add(k, object)
          \/ Revoke(k)
    \/ \E c \in Calls : (\E headers \in Headers : Validate(c, headers)) \/ Lookup(c) \/ Check(c)

Spec == Init /\ [][Next]_vars

-----------------------------------------------------------------------------
(* Safety.                                                                 *)

Answers == {Refused(why) : why \in {"missing", "unknown", "revoked"}} \cup {Valid(id) : id \in IDs}

Call ==
    {Idle} \cup [stage: {"lookup"}, key: Keys] \cup [stage: {"done"}, answer: Answers]
    \cup [stage: {"check"}, key: Keys, found: DOMAIN objects, flag: BOOLEAN]

TypeOK ==
    /\ file \in Files \cup {<< >>}
    /\ DOMAIN objects \subseteq 1..MaxObjects
    /\ objects \in [DOMAIN objects -> APIKey]
    /\ keys \in [Keys -> {nil} \cup DOMAIN objects]
    /\ call \in [Calls -> Call]
    /\ seen \in [Calls -> SUBSET Answers]

\* Although Validate looks at the store twice and holds no lock in between,
\* its answer, with the ID it lets in under, is one the store would have given
\* at some single moment of the call.  In particular a key revoked before the
\* call, and not added again, is refused; and a key that was valid all along is
\* accepted, whatever happens to others.
AnswersJustified == \A c \in Calls : call[c].stage = "done" => call[c].answer \in seen[c]
=============================================================================
