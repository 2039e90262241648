--------------------------- MODULE RoutingProofs ---------------------------
(***************************************************************************)
(* What the start leaves in the tables, and where a request goes: for      *)
(* every set of configurations and requests, however long the patterns,    *)
(* the paths and the lists of routes and upstreams, and for a counter of   *)
(* any width.                                                              *)
(*                                                                         *)
(* TurnsBalanced follows from what each endpoint has been chosen so far:   *)
(* its share of a whole round of the counter, once for every round, and    *)
(* its share of the round under way.                                       *)
(***************************************************************************)
EXTENDS Routing, TLAPS, SequenceTheorems, WellFoundedInduction

-----------------------------------------------------------------------------
(* The inductive invariant.                                                *)

WellFormed(c) ==
    /\ c \in [listen: {c.listen}, shutdownTimeout: Int, routes: Seq(Range(c.routes))]
    /\ \A i \in DOMAIN c.routes :
          LET r == c.routes[i]
          IN  /\ IsSequence(r.path) /\ IsSequence(r.upstreams)
              /\ \A j \in DOMAIN r.upstreams : IsSequence(r.upstreams[j].path)

ConfigInv ==
    /\ stage \in {"loaded", "valid", "serving", "failed"}
    /\ WellFormed(cfg)
    /\ stage \in {"valid", "serving"} => Valid(cfg) /\ cfg.shutdownTimeout > 0

\* How often RoundRobin.Next chooses endpoint i of n while it counts to c.
Share(c, n, i) == (c \div n) + (IF i <= c % n THEN 1 ELSE 0)

\* How often endpoint i has been chosen: in each round of the counter that is
\* over, and in the present one.
Turned(id, i) ==
    wraps[id] * Share(Modulus, Len(registry[id]), i) + Share(balancers[id], Len(registry[id]), i)

TablesInv ==
    stage = "serving" =>
        /\ registry = Entries
        /\ balancers \in [IDs(cfg) -> 0..(Modulus - 1)] /\ wraps \in [IDs(cfg) -> Nat]
        /\ DOMAIN turns = IDs(cfg)
        /\ \A id \in IDs(cfg) : turns[id] = [i \in DOMAIN registry[id] |-> Turned(id, i)]

\* What the answer to the last request says of the route it took.
LastInv ==
    /\ last.outcome \in {"none", "ok", "method_not_allowed", "not_found", "forwarded"}
    /\ last.outcome # "none" => stage = "serving"
    /\ Routed => IsSequence(last.req.path)
    /\ last.outcome = "not_found" => Match(last.req) = NoRoute
    /\ Forwarded =>
          /\ last.route = Match(last.req) /\ last.route \in DOMAIN cfg.routes
          /\ IsSequence(last.target.path)
          /\ last.path = SingleJoiningSlash(last.target.path, last.req.path)

Inv == ConfigInv /\ TablesInv /\ LastInv

-----------------------------------------------------------------------------
(* The first and the last of some indices.                                 *)

\* A set of natural numbers has a least element.
LEMMA Least == ASSUME NEW T \in SUBSET Nat, T # {} PROVE \E n \in T : \A m \in T : n <= m
<1>1. IsWellFoundedOn(OpToRel(<, Nat), Nat)
  BY NatLessThanWellFounded
<1>2. PICK n \in T : \A m \in T : ~(<<m, n>> \in OpToRel(<, Nat))
  BY <1>1, WFMin
<1>3. \A m \in T : ~(m < n)
  BY <1>2 DEF OpToRel
<1> QED
  BY <1>3

\* A bounded one has a greatest element.
LEMMA Greatest ==
    ASSUME NEW n \in Nat, NEW T \in SUBSET (0..n), T # {}
    PROVE  \E m \in T : \A k \in T : k <= m
<1> DEFINE U == {u \in 0..n : n - u \in T}
<1>1. U \in SUBSET Nat /\ U # {}
  <2>1. PICK k \in T : TRUE
    OBVIOUS
  <2>2. n - k \in 0..n /\ n - (n - k) = k
    BY <2>1
  <2>3. n - k \in U
    BY <2>1, <2>2
  <2>4. \A v \in U : v \in Nat
    OBVIOUS
  <2> HIDE DEF U
  <2> QED
    BY <2>3, <2>4
<1>2. PICK u \in U : \A v \in U : u <= v
  BY <1>1, Least
<1>3. n - u \in T
  OBVIOUS
<1>4. \A k \in T : k <= n - u
  <2> TAKE k \in T
  <2>1. n - k \in U
    OBVIOUS
  <2> QED
    BY <1>2, <2>1
<1> QED
  BY <1>3, <1>4

\* The endpoints of an ID are those of the last route that has it
\* (NewStaticRegistry).
LEMMA LastWithProps ==
    ASSUME WellFormed(cfg), NEW id \in IDs(cfg)
    PROVE  LastWith(id) \in DOMAIN cfg.routes /\ cfg.routes[LastWith(id)].id = id
<1> DEFINE T == {i \in DOMAIN cfg.routes : cfg.routes[i].id = id}
<1>1. cfg.routes \in Seq(Range(cfg.routes))
  BY DEF WellFormed
<1>2. T \in SUBSET (0..Len(cfg.routes)) /\ Len(cfg.routes) \in Nat /\ T # {}
  BY <1>1 DEF IDs
<1>3. \E m \in T : \A k \in T : k <= m
  BY <1>2, Greatest
<1>4. \E i \in DOMAIN cfg.routes :
          /\ cfg.routes[i].id = id
          /\ \A j \in DOMAIN cfg.routes : cfg.routes[j].id = id => j <= i
  BY <1>3
<1> QED
  BY <1>4 DEF LastWith

\* Match answers with the first route that admits the request, or that none does.
LEMMA MatchProps ==
    ASSUME WellFormed(cfg), NEW req
    PROVE  /\ Match(req) = NoRoute =>
                \A i \in DOMAIN cfg.routes : ~MatchRoute(cfg.routes[i], req)
           /\ Match(req) # NoRoute =>
                /\ Match(req) \in DOMAIN cfg.routes /\ MatchRoute(cfg.routes[Match(req)], req)
                /\ \A i \in DOMAIN cfg.routes : MatchRoute(cfg.routes[i], req) => Match(req) <= i
<1> DEFINE T == {i \in DOMAIN cfg.routes : MatchRoute(cfg.routes[i], req)}
<1>1. cfg.routes \in Seq(Range(cfg.routes))
  BY DEF WellFormed
<1>2. T \in SUBSET Nat /\ NoRoute \notin T
  BY <1>1, RoutingAssumption DEF RoutingAssumption
<1>3. Match(req) = IF T = {} THEN NoRoute ELSE CHOOSE i \in T : \A j \in T : i <= j
  BY DEF Match
<1>4. CASE T = {}
  <2>1. Match(req) = NoRoute
    BY <1>3, <1>4
  <2> QED
    BY <1>4, <2>1
<1>5. CASE T # {}
  <2>1. \E i \in T : \A j \in T : i <= j
    BY <1>2, <1>5, Least
  <2>2. Match(req) \in T /\ \A j \in T : Match(req) <= j
    BY <1>3, <1>5, <2>1
  <2> QED
    BY <1>2, <2>2
<1> QED
  BY <1>4, <1>5

\* Every ID has its endpoints, at least one, in the tables of a valid configuration.
LEMMA EntriesProps ==
    ASSUME WellFormed(cfg), Valid(cfg), NEW id \in IDs(cfg)
    PROVE  /\ Entries[id] # << >> /\ IsSequence(Entries[id])
           /\ \A j \in DOMAIN Entries[id] : IsSequence(Entries[id][j].path)
<1>1. LastWith(id) \in DOMAIN cfg.routes
  BY LastWithProps
<1>2. Entries[id] = cfg.routes[LastWith(id)].upstreams
  BY DEF Entries
<1> QED
  BY <1>1, <1>2 DEF WellFormed, Valid

-----------------------------------------------------------------------------
(* What a pattern takes.                                                   *)

\* One sequence is a prefix of another when it agrees with it as far as it goes.
LEMMA PrefixElements ==
    ASSUME NEW S, NEW s \in Seq(S), NEW t \in Seq(S)
    PROVE  IsPrefix(s, t) <=> Len(s) <= Len(t) /\ \A i \in 1..Len(s) : s[i] = t[i]
<1>1. SubSeq(s, 1, Len(s)) = s
  BY SubSeqFull
<1>2. ASSUME Len(s) <= Len(t)
      PROVE  /\ SubSeq(t, 1, Len(s)) \in Seq(S) /\ Len(SubSeq(t, 1, Len(s))) = Len(s)
             /\ \A i \in 1..Len(s) : SubSeq(t, 1, Len(s))[i] = t[i]
  BY <1>2, SubSeqProperties
<1>3. ASSUME Len(s) <= Len(t), \A i \in 1..Len(s) : s[i] = t[i]
      PROVE  s = SubSeq(t, 1, Len(s))
  BY <1>2, <1>3, SeqEqual
<1> QED
  BY <1>1, <1>2, <1>3 DEF IsPrefix

\* All but the last character of a pattern.
LEMMA FrontElements ==
    ASSUME NEW S, NEW s \in Seq(S), Len(s) > 0
    PROVE  /\ Front(s) \in Seq(S) /\ Len(Front(s)) = Len(s) - 1
           /\ \A i \in 1..(Len(s) - 1) : Front(s)[i] = s[i]
<1> DEFINE n == Len(s) - 1
<1>1. n \in Nat /\ \A i \in 1..n : s[i] \in S
  OBVIOUS
<1> HIDE DEF n
<1>2. /\ SubSeq(s, 1, n) \in Seq(S) /\ Len(SubSeq(s, 1, n)) = IF 1 <= n THEN n - 1 + 1 ELSE 0
      /\ \A i \in 1..(n - 1 + 1) : SubSeq(s, 1, n)[i] = s[1 + i - 1]
  BY <1>1, SubSeqProperties
<1>3. \A i \in 1..n : SubSeq(s, 1, n)[i] = s[i]
  BY <1>1, <1>2
<1>4. Len(SubSeq(s, 1, n)) = n
  BY <1>1, <1>2
<1>5. n = Len(s) - 1 /\ Front(s) = SubSeq(s, 1, n)
  BY DEF Front, n
<1> QED
  BY <1>2, <1>3, <1>4, <1>5

\* A pattern that ends in the wildcard has at least its two characters.
LEMMA WildcardSuffix ==
    ASSUME NEW S, NEW s \in Seq(S), IsSuffix(Wildcard, s)
    PROVE  Len(s) >= 2
<1>1. Reverse(Wildcard) \in Seq({"/", "*"}) /\ Len(Reverse(Wildcard)) = 2
  BY DEF Reverse, Wildcard
<1>2. Len(Reverse(s)) = Len(s)
  BY DEF Reverse
<1> QED
  BY <1>1, <1>2 DEF IsSuffix, IsPrefix

\* "/*" is such a pattern.
LEMMA WildcardItself == IsSuffix(Wildcard, Wildcard)
<1>1. Reverse(Wildcard) \in Seq({"/", "*"})
  BY DEF Reverse, Wildcard
<1> QED
  BY <1>1, PrefixElements DEF IsSuffix

\* matchPath takes every path that its comment says it takes.
LEMMA DocumentedPathMatches ==
    ASSUME NEW pattern, IsSequence(pattern), NEW path, IsSequence(path), Documented(pattern, path)
    PROVE  MatchPath(pattern, path)
<1> DEFINE S == Range(pattern) \cup Range(path)
<1>1. pattern \in Seq(S) /\ path \in Seq(S)
  BY SeqMonotonic DEF IsSequence
<1>2. CASE ~IsSuffix(Wildcard, pattern)
  BY <1>2, WildcardItself DEF Documented, MatchPath
<1>3. CASE IsSuffix(Wildcard, pattern)
  <2> DEFINE directory == Front(pattern)
             prefix == Front(directory)
  <2>1. Len(pattern) >= 2
    BY <1>1, <1>3, WildcardSuffix
  <2>2. /\ directory \in Seq(S) /\ Len(directory) = Len(pattern) - 1
    BY <1>1, <2>1, FrontElements
  <2>3. /\ prefix \in Seq(S) /\ Len(prefix) = Len(directory) - 1
        /\ \A i \in 1..Len(prefix) : prefix[i] = directory[i]
    BY <2>1, <2>2, FrontElements
  <2> SUFFICES IsPrefix(prefix, path)
    BY <1>3 DEF MatchPath
  <2>4. CASE pattern = Wildcard
    <3>1. Len(prefix) = 0
      BY <2>2, <2>3, <2>4 DEF Wildcard
    <3>2. Len(prefix) <= Len(path) /\ \A i \in 1..Len(prefix) : prefix[i] = path[i]
      BY <1>1, <3>1
    <3> HIDE DEF prefix
    <3> QED
      BY <1>1, <2>3, <3>2, PrefixElements
  <2>5. CASE path = prefix
    BY <2>3, <2>5, PrefixElements
  <2>6. CASE IsPrefix(directory, path)
    <3>1. Len(directory) <= Len(path) /\ \A i \in 1..Len(directory) : directory[i] = path[i]
      BY <1>1, <2>2, <2>6, PrefixElements
    <3>2. Len(prefix) <= Len(path) /\ \A i \in 1..Len(prefix) : prefix[i] = path[i]
      BY <1>1, <2>1, <2>2, <2>3, <3>1
    <3> QED
      BY <1>1, <2>3, <3>2, PrefixElements
  <2> QED
    BY <1>3, <2>4, <2>5, <2>6 DEF Documented
<1> QED
  BY <1>2, <1>3

-----------------------------------------------------------------------------
(* How two paths are joined.                                               *)

\* The greatest and the least of some indices are what Max and Min choose.
LEMMA Extremes ==
    ASSUME NEW I \in SUBSET Nat, NEW m \in I
    PROVE  /\ (\A k \in I : k <= m) => Max(I) = m
           /\ (\A k \in I : m <= k) => Min(I) = m
<1>1. ASSUME \A k \in I : k <= m
      PROVE  Max(I) = m
  <2>1. \E x \in I : \A y \in I : x >= y
    BY <1>1
  <2>2. Max(I) \in I /\ \A y \in I : Max(I) >= y
    BY <2>1 DEF Max
  <2>3. Max(I) >= m /\ Max(I) <= m /\ Max(I) \in Nat /\ m \in Nat
    BY <1>1, <2>2
  <2> QED
    BY <2>3
<1>2. ASSUME \A k \in I : m <= k
      PROVE  Min(I) = m
  <2>1. \E x \in I : \A y \in I : x =< y
    BY <1>2
  <2>2. Min(I) \in I /\ \A y \in I : Min(I) =< y
    BY <2>1 DEF Min
  <2>3. Min(I) <= m /\ Min(I) >= m /\ Min(I) \in Nat /\ m \in Nat
    BY <1>2, <2>2
  <2> QED
    BY <2>3
<1> QED
  BY <1>1, <1>2

EndsInSlash(s) == s # << >> /\ s[Len(s)] = "/"
BeginsWithSlash(s) == s # << >> /\ s[1] = "/"

\* strings.HasSuffix(a, "/") and strings.HasPrefix(b, "/").
LEMMA SlashAtTheEnds ==
    ASSUME NEW S, NEW s \in Seq(S)
    PROVE  /\ IsSuffix(<<"/">>, s) <=> EndsInSlash(s)
           /\ IsPrefix(<<"/">>, s) <=> BeginsWithSlash(s)
<1> DEFINE T == S \cup {"/"}
<1>1. ASSUME NEW one \in Seq(T), Len(one) = 1, one[1] = "/", NEW t \in Seq(T)
      PROVE  IsPrefix(one, t) <=> Len(t) >= 1 /\ t[1] = "/"
  <2>1. 1..Len(one) = {1} /\ Len(t) \in Nat
    BY <1>1
  <2>2. IsPrefix(one, t) <=> Len(one) <= Len(t) /\ \A i \in 1..Len(one) : one[i] = t[i]
    BY PrefixElements
  <2> QED
    BY <1>1, <2>1, <2>2
<1>2. s \in Seq(T) /\ <<"/">> \in Seq(T) /\ Len(<<"/">>) = 1 /\ <<"/">>[1] = "/" /\ Len(s) \in Nat
  BY SeqMonotonic
<1>3. s # << >> <=> Len(s) >= 1
  BY <1>2, EmptySeq
<1>4. IsPrefix(<<"/">>, s) <=> BeginsWithSlash(s)
  BY <1>1, <1>2, <1>3 DEF BeginsWithSlash
<1>5. /\ Reverse(<<"/">>) \in Seq(T) /\ Len(Reverse(<<"/">>)) = 1 /\ Reverse(<<"/">>)[1] = "/"
      /\ Reverse(s) \in Seq(T) /\ Len(Reverse(s)) = Len(s) /\ (Len(s) >= 1 => Reverse(s)[1] = s[Len(s)])
  BY <1>2 DEF Reverse
<1>6. IsPrefix(Reverse(<<"/">>), Reverse(s)) <=> Len(Reverse(s)) >= 1 /\ Reverse(s)[1] = "/"
  BY <1>1, <1>5
<1>7. IsSuffix(<<"/">>, s) <=> EndsInSlash(s)
  BY <1>3, <1>5, <1>6 DEF EndsInSlash, IsSuffix
<1> QED
  BY <1>4, <1>7

EndsInTwo(s) == Len(s) >= 2 /\ s[Len(s)] = "/" /\ s[Len(s) - 1] = "/"
BeginsWithTwo(s) == Len(s) >= 2 /\ s[1] = "/" /\ s[2] = "/"

\* The same of two slashes.
LEMMA TwoAtTheEnds ==
    ASSUME NEW S, NEW s \in Seq(S)
    PROVE  /\ IsSuffix(TwoSlashes, s) <=> EndsInTwo(s)
           /\ IsPrefix(TwoSlashes, s) <=> BeginsWithTwo(s)
<1> DEFINE T == S \cup {"/"}
<1>1. ASSUME NEW two \in Seq(T), Len(two) = 2, two[1] = "/", two[2] = "/", NEW t \in Seq(T)
      PROVE  IsPrefix(two, t) <=> Len(t) >= 2 /\ t[1] = "/" /\ t[2] = "/"
  <2>1. 1..Len(two) = {1, 2} /\ Len(t) \in Nat
    BY <1>1
  <2>2. IsPrefix(two, t) <=> Len(two) <= Len(t) /\ \A i \in 1..Len(two) : two[i] = t[i]
    BY PrefixElements
  <2> QED
    BY <1>1, <2>1, <2>2
<1>2. /\ s \in Seq(T) /\ TwoSlashes \in Seq(T) /\ Len(TwoSlashes) = 2
      /\ TwoSlashes[1] = "/" /\ TwoSlashes[2] = "/" /\ Len(s) \in Nat
  BY SeqMonotonic DEF TwoSlashes
<1>3. IsPrefix(TwoSlashes, s) <=> BeginsWithTwo(s)
  BY <1>1, <1>2 DEF BeginsWithTwo
<1>4. /\ Reverse(TwoSlashes) \in Seq(T) /\ Len(Reverse(TwoSlashes)) = 2
      /\ Reverse(TwoSlashes)[1] = "/" /\ Reverse(TwoSlashes)[2] = "/"
      /\ Reverse(s) \in Seq(T) /\ Len(Reverse(s)) = Len(s)
      /\ Len(s) >= 2 => Reverse(s)[1] = s[Len(s)] /\ Reverse(s)[2] = s[Len(s) - 1]
  BY <1>2 DEF Reverse, TwoSlashes
<1>5. IsPrefix(Reverse(TwoSlashes), Reverse(s)) <=>
          Len(Reverse(s)) >= 2 /\ Reverse(s)[1] = "/" /\ Reverse(s)[2] = "/"
  BY <1>1, <1>4
<1>6. IsSuffix(TwoSlashes, s) <=> EndsInTwo(s)
  BY <1>4, <1>5 DEF EndsInTwo, IsSuffix
<1> QED
  BY <1>3, <1>6

\* strings.TrimRight and strings.TrimLeft remove one slash when there are not two.
LEMMA TrimRightOne ==
    ASSUME NEW S, NEW a \in Seq(S), ~EndsInTwo(a)
    PROVE  TrimRight(a) = IF EndsInSlash(a) THEN SubSeq(a, 1, Len(a) - 1) ELSE a
<1> DEFINE I == {i \in 1..Len(a) : NotSlash(a[i])}
           n == Len(a)
<1>1. I \in SUBSET Nat /\ n \in Nat /\ (n = 0 <=> a = << >>)
  BY EmptySeq
<1>2. TrimRight(a) = SubSeq(a, 1, IF I # {} THEN Max(I) ELSE 0)
  BY DEF TrimRight, SelectLastInSeq
<1>3. CASE EndsInSlash(a)
  <2>1. n >= 1 /\ a[n] = "/" /\ n \notin I
    BY <1>1, <1>3 DEF EndsInSlash, NotSlash
  <2>2. CASE n = 1
    <3>1. I = {}
      BY <2>1, <2>2
    <3> QED
      BY <1>2, <1>3, <2>2, <3>1
  <2>3. CASE n > 1
    <3>1. n - 1 \in 1..(Len(a) - 1) /\ n - 1 + 1 = n
      BY <1>1, <2>3
    <3>2. n - 1 \in I
      BY <1>1, <2>1, <2>3, <3>1 DEF EndsInTwo, NotSlash
    <3>3. \A k \in I : k <= n - 1
      BY <1>1, <2>1
    <3>4. Max(I) = n - 1
      BY <1>1, <3>2, <3>3, Extremes
    <3> HIDE DEF I
    <3> QED
      BY <1>2, <1>3, <3>2, <3>4
  <2>4. n = 1 \/ n > 1
    <3>1. n \in Nat /\ n >= 1
      BY <1>1, <2>1
    <3> HIDE DEF n, I
    <3> QED
      BY <3>1
  <2> QED
    BY <2>2, <2>3, <2>4
<1>4. CASE ~EndsInSlash(a)
  <2>1. CASE n = 0
    <3>1. I = {}
      BY <2>1
    <3> QED
      BY <1>1, <1>2, <1>4, <2>1, <3>1, SubSeqEmpty
  <2>2. CASE n > 0
    <3>1. n \in I
      BY <1>1, <1>4, <2>2 DEF EndsInSlash, NotSlash
    <3>2. Max(I) = n
      BY <1>1, <3>1, Extremes
    <3>3. SubSeq(a, 1, Len(a)) = a
      BY SubSeqFull
    <3> HIDE DEF I
    <3> QED
      BY <1>2, <1>4, <3>1, <3>2, <3>3
  <2>3. n = 0 \/ n > 0
    BY <1>1
  <2> QED
    BY <2>1, <2>2, <2>3
<1> QED
  BY <1>3, <1>4

\* The same of the slash that the request's path begins with (strings.TrimLeft).
LEMMA TrimLeftOne ==
    ASSUME NEW S, NEW b \in Seq(S), ~BeginsWithTwo(b)
    PROVE  TrimLeft(b) = IF BeginsWithSlash(b) THEN Tail(b) ELSE b
<1> DEFINE I == {i \in 1..Len(b) : NotSlash(b[i])}
           n == Len(b)
<1>1. I \in SUBSET Nat /\ 0 \notin I /\ n \in Nat /\ (n = 0 <=> b = << >>)
  BY EmptySeq
<1>2. TrimLeft(b) = IF I = {} \/ Min(I) = 0 THEN << >> ELSE SubSeq(b, Min(I), Len(b))
  BY DEF TrimLeft, SelectInSeq
<1>3. CASE BeginsWithSlash(b)
  <2>1. n >= 1 /\ b[1] = "/" /\ 1 \notin I
    BY <1>1, <1>3 DEF BeginsWithSlash, NotSlash
  <2>2. Tail(b) = SubSeq(b, 2, Len(b))
    BY <1>1, <2>1, TailIsSubSeq
  <2>3. CASE n = 1
    <3>1. I = {}
      BY <2>1, <2>3
    <3>2. SubSeq(b, 2, Len(b)) = << >>
      BY <2>3, SubSeqEmpty
    <3> QED
      BY <1>2, <1>3, <2>2, <3>1, <3>2
  <2>4. CASE n > 1
    <3>1. 1 \in 1..(Len(b) - 1) /\ 1 + 1 = 2 /\ 2 \in 1..Len(b)
      BY <1>1, <2>4
    <3>2. 2 \in I
      BY <1>1, <2>1, <2>4, <3>1 DEF BeginsWithTwo, NotSlash
    <3>3. \A k \in I : 2 <= k
      BY <1>1, <2>1
    <3>4. Min(I) = 2
      BY <1>1, <3>2, <3>3, Extremes
    <3> HIDE DEF I
    <3> QED
      BY <1>2, <1>3, <2>2, <3>2, <3>4
  <2>5. n = 1 \/ n > 1
    <3>1. n \in Nat /\ n >= 1
      BY <1>1, <2>1
    <3> HIDE DEF n, I
    <3> QED
      BY <3>1
  <2> QED
    BY <2>3, <2>4, <2>5
<1>4. CASE ~BeginsWithSlash(b)
  <2>1. CASE n = 0
    <3>1. I = {}
      BY <2>1
    <3> QED
      BY <1>1, <1>2, <1>4, <2>1, <3>1
  <2>2. CASE n > 0
    <3>1. 1 \in I
      BY <1>1, <1>4, <2>2 DEF BeginsWithSlash, NotSlash
    <3>2. Min(I) = 1
      BY <1>1, <3>1, Extremes
    <3>3. SubSeq(b, 1, Len(b)) = b
      BY SubSeqFull
    <3> HIDE DEF I
    <3> QED
      BY <1>2, <1>4, <3>1, <3>2, <3>3
  <2>3. n = 0 \/ n > 0
    BY <1>1
  <2> QED
    BY <2>1, <2>2, <2>3
<1> QED
  BY <1>3, <1>4

\* They remove every slash that there is at that end.
LEMMA TrimRightLength ==
    ASSUME NEW S, NEW a \in Seq(S)
    PROVE  /\ TrimRight(a) \in Seq(S) /\ Len(TrimRight(a)) <= Len(a)
           /\ EndsInSlash(a) => Len(TrimRight(a)) <= Len(a) - 1
           /\ EndsInTwo(a) => Len(TrimRight(a)) <= Len(a) - 2
<1> DEFINE I == {i \in 1..Len(a) : NotSlash(a[i])}
<1>1. Len(a) \in Nat /\ \A i \in 1..Len(a) : a[i] \in S
  OBVIOUS
<1>2. PICK m \in Nat : m = IF I # {} THEN Max(I) ELSE 0
  <2>1. ASSUME I # {} PROVE Max(I) \in Nat
    <3>1. I \in SUBSET (0..Len(a)) /\ I \in SUBSET Nat
      OBVIOUS
    <3> HIDE DEF I
    <3>2. PICK k \in I : \A j \in I : j <= k
      BY <1>1, <2>1, <3>1, Greatest
    <3> QED
      BY <3>1, <3>2, Extremes
  <2> QED
    BY <2>1
<1>3. m = 0 \/ m \in I
  <2>1. ASSUME I # {} PROVE Max(I) \in I
    <3>1. I \in SUBSET (0..Len(a)) /\ I \in SUBSET Nat
      OBVIOUS
    <3> HIDE DEF I
    <3>2. PICK k \in I : \A j \in I : j <= k
      BY <1>1, <2>1, <3>1, Greatest
    <3> QED
      BY <3>1, <3>2, Extremes
  <2> QED
    BY <1>2, <2>1
<1>4. TrimRight(a) = SubSeq(a, 1, m)
  BY <1>2 DEF TrimRight, SelectLastInSeq
<1>5. m <= Len(a) /\ (EndsInSlash(a) => m <= Len(a) - 1) /\ (EndsInTwo(a) => m <= Len(a) - 2)
  BY <1>1, <1>3, EmptySeq DEF EndsInSlash, EndsInTwo, NotSlash
<1>6. SubSeq(a, 1, m) \in Seq(S) /\ Len(SubSeq(a, 1, m)) = m
  BY <1>1, <1>5, SubSeqProperties
<1> QED
  BY <1>4, <1>5, <1>6

\* The same of strings.TrimLeft.
LEMMA TrimLeftLength ==
    ASSUME NEW S, NEW b \in Seq(S)
    PROVE  /\ TrimLeft(b) \in Seq(S) /\ Len(TrimLeft(b)) <= Len(b)
           /\ BeginsWithSlash(b) => Len(TrimLeft(b)) <= Len(b) - 1
           /\ BeginsWithTwo(b) => Len(TrimLeft(b)) <= Len(b) - 2
<1> DEFINE I == {i \in 1..Len(b) : NotSlash(b[i])}
<1>1. Len(b) \in Nat /\ \A i \in 1..Len(b) : b[i] \in S
  OBVIOUS
<1>2. CASE I = {}
  <2>1. TrimLeft(b) = << >>
    BY <1>2 DEF TrimLeft, SelectInSeq
  <2> QED
    BY <1>1, <2>1, EmptySeq DEF BeginsWithSlash, BeginsWithTwo
<1>3. CASE I # {}
  <2>1. I \in SUBSET Nat /\ I \in SUBSET (1..Len(b))
    OBVIOUS
  <2>2. PICK m \in I : \A k \in I : m <= k
    <3> HIDE DEF I
    <3> QED
      BY <1>3, <2>1, Least
  <2>3. Min(I) = m
    <3> HIDE DEF I
    <3> QED
      BY <2>1, <2>2, Extremes
  <2>4. TrimLeft(b) = SubSeq(b, m, Len(b))
    <3>1. TrimLeft(b) = IF I = {} \/ Min(I) = 0 THEN << >> ELSE SubSeq(b, Min(I), Len(b))
      BY DEF TrimLeft, SelectInSeq
    <3>2. m # 0
      BY <2>1, <2>2
    <3> HIDE DEF I
    <3> QED
      BY <1>3, <2>3, <3>1, <3>2
  <2>5. m \in 1..Len(b) /\ (BeginsWithSlash(b) => m >= 2) /\ (BeginsWithTwo(b) => m >= 3)
    BY <1>1, <2>2 DEF BeginsWithSlash, BeginsWithTwo, NotSlash
  <2>6. SubSeq(b, m, Len(b)) \in Seq(S) /\ Len(SubSeq(b, m, Len(b))) = Len(b) - m + 1
    BY <1>1, <2>5, SubSeqProperties
  <2> QED
    BY <1>1, <2>4, <2>5, <2>6
<1> QED
  BY <1>2, <1>3

\* So with two slashes at the join it loses one that httputil's helper keeps.
LEMMA DoubledPathsDiffer ==
    ASSUME NEW a, IsSequence(a), NEW b, IsSequence(b), EndsInTwo(a) \/ BeginsWithTwo(b)
    PROVE  SingleJoiningSlash(a, b) # HttputilJoin(a, b)
<1> DEFINE S == Range(a) \cup Range(b) \cup {"/"}
<1>1. a \in Seq(S) /\ b \in Seq(S) /\ <<"/">> \in Seq(S) /\ Len(<<"/">>) = 1
  BY SeqMonotonic DEF IsSequence
<1>2. /\ EndsInTwo(a) => EndsInSlash(a)
      /\ BeginsWithTwo(b) => BeginsWithSlash(b)
  BY <1>1, EmptySeq DEF EndsInTwo, EndsInSlash, BeginsWithTwo, BeginsWithSlash
<1> HIDE DEF S
<1>3. PICK r \in Seq(S) : r = TrimRight(a)
  BY <1>1, TrimRightLength
<1>4. PICK l \in Seq(S) : l = TrimLeft(b)
  BY <1>1, TrimLeftLength
<1>5. Len(SingleJoiningSlash(a, b)) = Len(r) + 1 + Len(l)
  BY <1>1, <1>3, <1>4, ConcatProperties DEF SingleJoiningSlash
<1>6. /\ Len(r) <= Len(a) /\ (EndsInSlash(a) => Len(r) <= Len(a) - 1) /\ (EndsInTwo(a) => Len(r) <= Len(a) - 2)
      /\ Len(l) <= Len(b) /\ (BeginsWithSlash(b) => Len(l) <= Len(b) - 1)
      /\ BeginsWithTwo(b) => Len(l) <= Len(b) - 2
      /\ Len(a) \in Nat /\ Len(b) \in Nat /\ Len(r) \in Nat /\ Len(l) \in Nat
  BY <1>1, <1>3, <1>4, TrimRightLength, TrimLeftLength
<1>7. CASE EndsInSlash(a) /\ BeginsWithSlash(b)
  <2>1. HttputilJoin(a, b) = a \o Tail(b)
    BY <1>1, <1>7, SlashAtTheEnds DEF HttputilJoin
  <2>2. Tail(b) \in Seq(S) /\ Len(Tail(b)) = Len(b) - 1
    BY <1>1, <1>7, HeadTailProperties DEF BeginsWithSlash
  <2>3. Len(HttputilJoin(a, b)) = Len(a) + Len(b) - 1
    BY <1>1, <1>6, <2>1, <2>2, ConcatProperties
  <2> QED
    BY <1>5, <1>6, <1>7, <2>3
<1>8. CASE ~(EndsInSlash(a) /\ BeginsWithSlash(b))
  <2>1. HttputilJoin(a, b) = a \o b
    BY <1>1, <1>2, <1>8, SlashAtTheEnds DEF HttputilJoin
  <2>2. Len(HttputilJoin(a, b)) = Len(a) + Len(b)
    BY <1>1, <2>1, ConcatProperties
  <2> QED
    BY <1>2, <1>5, <1>6, <1>8, <2>2
<1> QED
  BY <1>7, <1>8

\* Otherwise singleJoiningSlash joins two paths as httputil does.
LEMMA SinglePathsJoin ==
    ASSUME NEW a, IsSequence(a), ~EndsInTwo(a), NEW b, IsSequence(b), ~BeginsWithTwo(b)
    PROVE  SingleJoiningSlash(a, b) = HttputilJoin(a, b)
<1> DEFINE S == Range(a) \cup Range(b) \cup {"/"}
           slash == <<"/">>
<1>1. a \in Seq(S) /\ b \in Seq(S) /\ slash \in Seq(S)
  BY SeqMonotonic DEF IsSequence
<1>2. SingleJoiningSlash(a, b) =
        ((IF EndsInSlash(a) THEN SubSeq(a, 1, Len(a) - 1) ELSE a) \o slash)
            \o (IF BeginsWithSlash(b) THEN Tail(b) ELSE b)
  BY <1>1, TrimRightOne, TrimLeftOne DEF SingleJoiningSlash
<1>3. HttputilJoin(a, b) =
        IF EndsInSlash(a) /\ BeginsWithSlash(b) THEN a \o Tail(b)
        ELSE IF EndsInSlash(a) \/ BeginsWithSlash(b) THEN a \o b
        ELSE (a \o slash) \o b
  BY <1>1, SlashAtTheEnds DEF HttputilJoin
<1>4. EndsInSlash(a) => SubSeq(a, 1, Len(a) - 1) \o slash = a
  <2> SUFFICES ASSUME EndsInSlash(a)
               PROVE  SubSeq(a, 1, Len(a) - 1) \o slash = a
    OBVIOUS
  <2>1. Len(a) \in 1..Len(a) /\ 1 \in 1..Len(a) /\ a[Len(a)] = "/"
    BY <1>1, EmptySeq DEF EndsInSlash
  <2>2. SubSeq(a, 1, Len(a)) = SubSeq(a, 1, Len(a) - 1) \o <<a[Len(a)]>>
    BY <1>1, <2>1, SubSeqRecursiveSecond
  <2> QED
    BY <1>1, <2>1, <2>2, SubSeqFull
<1>5. BeginsWithSlash(b) => Tail(b) \in Seq(S) /\ slash \o Tail(b) = b
  <2> SUFFICES ASSUME BeginsWithSlash(b)
               PROVE  Tail(b) \in Seq(S) /\ slash \o Tail(b) = b
    OBVIOUS
  <2>1. Len(b) \in 1..Len(b) /\ 1 \in 1..Len(b) /\ b[1] = "/" /\ b # << >>
    BY <1>1, EmptySeq DEF BeginsWithSlash
  <2>2. SubSeq(b, 1, Len(b)) = <<b[1]>> \o SubSeq(b, 1 + 1, Len(b))
    BY <1>1, <2>1, SubSeqRecursiveFirst
  <2>3. Tail(b) = SubSeq(b, 2, Len(b)) /\ Tail(b) \in Seq(S)
    BY <1>1, <2>1, TailIsSubSeq, HeadTailProperties
  <2> QED
    BY <1>1, <2>1, <2>2, <2>3, SubSeqFull
<1>6. BeginsWithSlash(b) => (a \o slash) \o Tail(b) = a \o b
  BY <1>1, <1>5, ConcatAssociative
<1> HIDE DEF S, slash
<1>7. CASE EndsInSlash(a) /\ BeginsWithSlash(b)
  BY <1>2, <1>3, <1>4, <1>7
<1>8. CASE EndsInSlash(a) /\ ~BeginsWithSlash(b)
  BY <1>2, <1>3, <1>4, <1>8
<1>9. CASE ~EndsInSlash(a) /\ BeginsWithSlash(b)
  BY <1>2, <1>3, <1>6, <1>9
<1>10. CASE ~EndsInSlash(a) /\ ~BeginsWithSlash(b)
  BY <1>2, <1>3, <1>10
<1> QED
  BY <1>7, <1>8, <1>9, <1>10

-----------------------------------------------------------------------------
(* The turns of the endpoints.                                             *)

\* A number is so many laps and a rest in one way only.
LEMMA Division ==
    ASSUME NEW n \in Nat \ {0}, NEW laps \in Nat, NEW rest \in 0..(n - 1), NEW c, c = laps * n + rest
    PROVE  c % n = rest /\ c \div n = laps
<1>1. c % n = rest
  OBVIOUS
<1>2. c \div n = laps
  OBVIOUS
<1> QED
  BY <1>1, <1>2

\* ... and every number is.
LEMMA Divides ==
    ASSUME NEW n \in Nat \ {0}, NEW c \in Nat
    PROVE  c = (c \div n) * n + (c % n) /\ c \div n \in Nat /\ c % n \in 0..(n - 1)
<1>1. c % n \in 0..(n - 1)
  OBVIOUS
<1>2. c \div n \in Int /\ c = (c \div n) * n + (c % n)
  OBVIOUS
<1>3. c \div n >= 0
  OBVIOUS
<1> QED
  BY <1>1, <1>2, <1>3

\* The counter at zero has chosen nothing; each step chooses one endpoint.
LEMMA ShareGrows ==
    ASSUME NEW n \in Nat \ {0}, NEW c \in Nat, NEW i \in 1..n
    PROVE  /\ Share(c, n, i) \in Nat /\ Share(0, n, i) = 0
           /\ Share(c + 1, n, i) = Share(c, n, i) + (IF i = (c % n) + 1 THEN 1 ELSE 0)
<1> DEFINE laps == c \div n
           rest == c % n
<1>1. c = laps * n + rest /\ laps \in Nat /\ rest \in 0..(n - 1)
  BY Divides
<1>2. 0 % n = 0 /\ 0 \div n = 0
  <2>1. 0 = 0 * n + 0 /\ 0 \in 0..(n - 1)
    OBVIOUS
  <2> QED
    BY <2>1, Division
<1>3. Share(c, n, i) = laps + (IF i <= rest THEN 1 ELSE 0)
  BY DEF Share
<1>4. Share(0, n, i) = 0
  BY <1>2 DEF Share
<1> HIDE DEF laps, rest
<1>5. CASE rest + 1 < n
  <2>1. c + 1 = laps * n + (rest + 1) /\ rest + 1 \in 0..(n - 1)
    BY <1>1, <1>5
  <2>2. (c + 1) % n = rest + 1 /\ (c + 1) \div n = laps
    BY <1>1, <2>1, Division
  <2>3. Share(c + 1, n, i) = laps + (IF i <= rest + 1 THEN 1 ELSE 0)
    BY <2>2 DEF Share
  <2>4. Share(c + 1, n, i) = Share(c, n, i) + (IF i = rest + 1 THEN 1 ELSE 0)
    BY <1>1, <1>3, <2>3
  <2> QED
    BY <1>1, <1>3, <1>4, <2>4 DEF rest
<1>6. CASE rest + 1 = n
  <2>1. c + 1 = (laps + 1) * n + 0 /\ laps + 1 \in Nat /\ 0 \in 0..(n - 1)
    BY <1>1, <1>6
  <2>2. (c + 1) % n = 0 /\ (c + 1) \div n = laps + 1
    <3>1. PICK q \in Nat : q = laps + 1
      BY <2>1
    <3>2. c + 1 = q * n + 0
      BY <2>1, <3>1
    <3> QED
      BY <2>1, <3>1, <3>2, Division
  <2>3. Share(c + 1, n, i) = laps + 1
    BY <1>1, <2>2 DEF Share
  <2>4. i <= rest <=> i # rest + 1
    BY <1>1, <1>6
  <2>5. Share(c + 1, n, i) = Share(c, n, i) + (IF i = rest + 1 THEN 1 ELSE 0)
    BY <1>1, <1>3, <2>3, <2>4
  <2> QED
    BY <1>1, <1>3, <1>4, <2>5 DEF rest
<1> QED
  BY <1>1, <1>5, <1>6

\* Two endpoints have the same share of a count, up to one, and exactly if
\* their number divides it.
LEMMA ShareIsFair ==
    ASSUME NEW n \in Nat \ {0}, NEW c \in Nat, NEW i \in 1..n, NEW j \in 1..n
    PROVE  Share(c, n, i) <= Share(c, n, j) + (IF c % n = 0 THEN 0 ELSE 1)
<1>1. c \div n \in Nat /\ c % n \in 0..(n - 1)
  BY Divides
<1> QED
  BY <1>1 DEF Share

\* A product grows with its factors.
LEMMA Scaled ==
    ASSUME NEW w \in Nat, NEW a \in Nat, NEW b \in Nat, NEW d \in {0, 1}, a <= b + d
    PROVE  w * a <= w * b + (IF d = 0 THEN 0 ELSE w)
<1>1. w * a <= w * (b + d)
  OBVIOUS
<1>2. w * (b + d) = w * b + w * d
  OBVIOUS
<1>3. w * d = IF d = 0 THEN 0 ELSE w
  OBVIOUS
<1>4. w * a \in Nat /\ w * b \in Nat /\ w * d \in Nat
  OBVIOUS
<1> QED
  BY <1>1, <1>2, <1>3, <1>4

\* Two sums differ by no more than their parts do.
LEMMA SumsDiffer ==
    ASSUME NEW a \in Nat, NEW b \in Nat, NEW c \in Nat, NEW d \in Nat, NEW w \in Nat,
           a <= b + w, c <= d + 1
    PROVE  a + c <= b + d + 1 + w
OBVIOUS

-----------------------------------------------------------------------------
(* Every step keeps the invariant.                                         *)

\* What config.Load reads is well formed.
LEMMA InitInv == Init => Inv
<1> SUFFICES ASSUME Init PROVE Inv
  OBVIOUS
<1>1. WellFormed(cfg)
  BY RoutingAssumption DEF RoutingAssumption, Init, WellFormed, Range
<1> QED
  BY <1>1 DEF Init, None, Inv, ConfigInv, TablesInv, LastInv, Routed, Forwarded

\* Before it serves, no request has been answered.
LEMMA NothingServed ==
    ASSUME Inv, stage # "serving"
    PROVE  last.outcome = "none" /\ (last' = last => LastInv')
<1>1. last.outcome = "none"
  BY DEF Inv, LastInv
<1> QED
  BY <1>1 DEF LastInv, Routed, Forwarded

\* config.validate
LEMMA ValidateKeepsInv == ASSUME Inv, Validate PROVE Inv'
<1>1. LastInv'
  BY NothingServed DEF Validate
<1>2. TablesInv'
  BY DEF Validate, TablesInv
<1>3. ConfigInv'
  <2>1. WellFormed(cfg) /\ cfg.shutdownTimeout \in Int
    BY DEF Inv, ConfigInv, WellFormed
  <2> DEFINE c == WithDefaults(cfg)
  <2>2. /\ c.listen = cfg.listen /\ c.routes = cfg.routes
        /\ c.shutdownTimeout \in Int /\ c.shutdownTimeout > 0
        /\ c \in [listen: {c.listen}, shutdownTimeout: Int, routes: Seq(Range(c.routes))]
    BY <2>1 DEF WithDefaults, DefaultShutdownTimeout, WellFormed
  <2> HIDE DEF c
  <2>3. WellFormed(c) /\ (Valid(cfg) => Valid(c))
    BY <2>1, <2>2 DEF WellFormed, Valid
  <2> QED
    BY <2>1, <2>2, <2>3 DEF Validate, ConfigInv, c
<1> QED
  BY <1>1, <1>2, <1>3 DEF Inv

\* server.New
LEMMA NewKeepsInv == ASSUME Inv, New PROVE Inv'
<1>1. LastInv' /\ ConfigInv'
  BY NothingServed DEF New, Inv, ConfigInv
<1>2. TablesInv'
  <2> SUFFICES ASSUME stage' = "serving"
               PROVE  TablesInv'
    BY DEF TablesInv
  <2>1. /\ WellFormed(cfg) /\ Valid(cfg) /\ cfg' = cfg
        /\ registry' = Entries
        /\ balancers' = [id \in IDs(cfg) |-> 0]
        /\ turns' = [id \in IDs(cfg) |-> [j \in DOMAIN Entries[id] |-> 0]]
        /\ wraps' = [id \in IDs(cfg) |-> 0]
    BY DEF New, Inv, ConfigInv
  <2>2. Entries' = Entries
    BY <2>1 DEF Entries, LastWith
  <2>3. Modulus \in Nat \ {0} /\ 0 \in 0..(Modulus - 1)
    BY RoutingAssumption DEF RoutingAssumption
  <2>4. ASSUME NEW id \in IDs(cfg), NEW i \in DOMAIN Entries[id]
        PROVE  Turned(id, i)' = 0
    <3> DEFINE n == Len(Entries[id])
    <3>1. n \in Nat \ {0} /\ i \in 1..n
      BY <2>1, EntriesProps, EmptySeq DEF IsSequence
    <3>2. Share(Modulus, n, i) \in Nat /\ Share(0, n, i) = 0
      BY <2>3, <3>1, ShareGrows
    <3>3. Turned(id, i)' = 0 * Share(Modulus, n, i) + Share(0, n, i)
      BY <2>1 DEF Turned
    <3> QED
      BY <3>2, <3>3
  <2>5. \A id \in IDs(cfg) : turns'[id] = [i \in DOMAIN registry'[id] |-> Turned(id, i)']
    BY <2>1, <2>4
  <2> QED
    BY <2>1, <2>2, <2>3, <2>5 DEF TablesInv
<1> QED
  BY <1>1, <1>2 DEF Inv

\* While nothing but the answer changes, the tables hold what they held.
LEMMA TablesStay ==
    ASSUME Inv, UNCHANGED <<stage, cfg, registry, balancers, turns, wraps>>
    PROVE  ConfigInv' /\ TablesInv'
<1>1. ConfigInv'
  BY DEF Inv, ConfigInv
<1>2. Entries' = Entries /\ IDs(cfg)' = IDs(cfg)
  BY DEF Entries, LastWith
<1>3. ASSUME NEW id, NEW i
      PROVE  Turned(id, i)' = Turned(id, i)
  BY DEF Turned
<1>4. TablesInv'
  BY <1>2, <1>3 DEF Inv, TablesInv
<1> QED
  BY <1>1, <1>4

\* HealthHandler, and serveRoute when no route matches.
LEMMA AnswerKeepsInv ==
    ASSUME Inv, stage = "serving", NEW req, IsSequence(req.path), Health(req) \/ NotFound(req),
           UNCHANGED <<stage, cfg>>
    PROVE  Inv'
<1>1. ConfigInv' /\ TablesInv'
  BY TablesStay DEF Health, NotFound, TablesUnchanged
<1>2. Match(req)' = Match(req)
  BY DEF Match
<1>3. LastInv'
  BY <1>2 DEF Health, NotFound, LastInv, Routed, Forwarded
<1> QED
  BY <1>1, <1>3 DEF Inv

\* What the tables hold for the route that a request takes.
LEMMA RouteTaken ==
    ASSUME Inv, stage = "serving", NEW req, Match(req) # NoRoute
    PROVE  LET id == cfg.routes[Match(req)].id
               n == Len(registry[id])
           IN  /\ Match(req) \in DOMAIN cfg.routes /\ id \in IDs(cfg)
               /\ registry[id] # << >> /\ n \in Nat \ {0} /\ DOMAIN registry[id] = 1..n
               /\ \A i \in 1..n : IsSequence(registry[id][i].path)
               /\ balancers[id] \in 0..(Modulus - 1) /\ wraps[id] \in Nat
<1> DEFINE id == cfg.routes[Match(req)].id
<1>1. Match(req) \in DOMAIN cfg.routes
  BY MatchProps DEF Inv, ConfigInv
<1>2. id \in IDs(cfg)
  BY <1>1 DEF IDs
<1>3. /\ registry[id] # << >> /\ IsSequence(registry[id])
      /\ \A j \in DOMAIN registry[id] : IsSequence(registry[id][j].path)
  BY <1>2, EntriesProps DEF Inv, ConfigInv, TablesInv
<1>4. Len(registry[id]) \in Nat \ {0} /\ DOMAIN registry[id] = 1..Len(registry[id])
  BY <1>3, EmptySeq DEF IsSequence
<1>5. balancers[id] \in 0..(Modulus - 1) /\ wraps[id] \in Nat
  BY <1>2 DEF Inv, TablesInv
<1> QED
  BY <1>1, <1>2, <1>3, <1>4, <1>5

\* A counter below the modulus is its own remainder (RoundRobin.Next).
LEMMA Small ==
    ASSUME NEW m \in Nat \ {0}, NEW x \in 0..(m - 1)
    PROVE  x % m = x
OBVIOUS

\* RoundRobin.Next counts one turn for the endpoint it chooses, and a wrap of
\* the counter ends a round.
LEMMA TurnCounted ==
    ASSUME NEW n \in Nat \ {0}, NEW c \in 0..(Modulus - 1), NEW w \in Nat, NEW i \in 1..n,
           NEW next, next = NextEndpoint(c, n), NEW w1, w1 = IF next.counter = 0 THEN w + 1 ELSE w
    PROVE  /\ next.turn + 1 \in 1..n /\ next.counter \in 0..(Modulus - 1)
           /\ w1 * Share(Modulus, n, i) + Share(next.counter, n, i)
                = w * Share(Modulus, n, i) + Share(c, n, i) + (IF i = next.turn + 1 THEN 1 ELSE 0)
<1> DEFINE one == IF i = (c % n) + 1 THEN 1 ELSE 0
<1>1. Modulus \in Nat \ {0} /\ c \in Nat /\ c % n \in 0..(n - 1)
  BY RoutingAssumption, Divides DEF RoutingAssumption
<1>2. next.turn = c % n /\ next.counter = (c + 1) % Modulus
  BY DEF NextEndpoint
<1>3. /\ Share(c + 1, n, i) = Share(c, n, i) + one /\ Share(0, n, i) = 0
      /\ Share(c, n, i) \in Nat /\ Share(Modulus, n, i) \in Nat
  BY <1>1, ShareGrows
<1>4. CASE c + 1 = Modulus
  <2>1. next.counter = 0
    <3>1. PICK x \in Nat : x = c + 1
      BY <1>1
    <3>2. x = 1 * Modulus + 0 /\ 0 \in 0..(Modulus - 1)
      BY <1>1, <1>4, <3>1
    <3>3. x % Modulus = 0
      BY <1>1, <3>2, Division
    <3> QED
      BY <1>2, <3>1, <3>3
  <2>2. (w + 1) * Share(Modulus, n, i) = w * Share(Modulus, n, i) + Share(Modulus, n, i)
    BY <1>3
  <2>3. w * Share(Modulus, n, i) \in Nat /\ one \in Nat
    BY <1>3
  <2> HIDE DEF one
  <2>4. (w + 1) * Share(Modulus, n, i) + Share(0, n, i) = w * Share(Modulus, n, i) + Share(c, n, i) + one
    BY <1>3, <1>4, <2>2, <2>3
  <2> QED
    BY <1>1, <1>2, <2>1, <2>4 DEF one
<1>5. CASE c + 1 # Modulus
  <2>1. next.counter = c + 1 /\ c + 1 \in 1..(Modulus - 1)
    <3>1. PICK x \in Nat : x = c + 1
      BY <1>1
    <3>2. x \in 0..(Modulus - 1) /\ x # 0
      BY <1>1, <1>5, <3>1
    <3>3. x % Modulus = x
      BY <1>1, <3>2, Small
    <3> QED
      BY <1>1, <1>2, <3>1, <3>2, <3>3
  <2>2. w * Share(Modulus, n, i) \in Nat /\ one \in Nat
    BY <1>3
  <2> HIDE DEF one
  <2>3. w * Share(Modulus, n, i) + Share(c + 1, n, i) = w * Share(Modulus, n, i) + Share(c, n, i) + one
    BY <1>3, <2>2
  <2> QED
    BY <1>1, <1>2, <2>1, <2>3 DEF one
<1> QED
  BY <1>4, <1>5

\* The tables after a turn of endpoint k of one ID.
LEMMA TurnKeepsTables ==
    ASSUME Inv, stage = "serving", NEW id \in IDs(cfg), NEW n \in Nat \ {0}, n = Len(registry[id]),
           DOMAIN registry[id] = 1..n, NEW k \in 1..n, NEW c \in 0..(Modulus - 1), NEW w \in Nat,
           \A i \in 1..n : w * Share(Modulus, n, i) + Share(c, n, i) = Turned(id, i) + (IF i = k THEN 1 ELSE 0),
           UNCHANGED <<stage, cfg, registry>>,
           balancers' = [balancers EXCEPT ![id] = c],
           wraps' = [wraps EXCEPT ![id] = w],
           turns' = [turns EXCEPT ![id][k] = @ + 1]
    PROVE  TablesInv'
<1>1. /\ registry = Entries /\ balancers \in [IDs(cfg) -> 0..(Modulus - 1)] /\ wraps \in [IDs(cfg) -> Nat]
      /\ DOMAIN turns = IDs(cfg)
      /\ \A j \in IDs(cfg) : turns[j] = [i \in DOMAIN registry[j] |-> Turned(j, i)]
  BY DEF Inv, TablesInv
<1>2. Entries' = Entries
  BY DEF Entries, LastWith
<1>3. ASSUME NEW j \in IDs(cfg), j # id
      PROVE  turns'[j] = [i \in DOMAIN registry'[j] |-> Turned(j, i)']
  <2>1. turns'[j] = turns[j] /\ wraps'[j] = wraps[j] /\ balancers'[j] = balancers[j]
    BY <1>1, <1>3
  <2>2. \A i \in DOMAIN registry[j] : Turned(j, i)' = Turned(j, i)
    BY <2>1 DEF Turned
  <2>3. turns[j] = [i \in DOMAIN registry[j] |-> Turned(j, i)] /\ registry'[j] = registry[j]
    BY <1>1
  <2> QED
    BY <2>1, <2>2, <2>3
<1>4. turns'[id] = [i \in DOMAIN registry'[id] |-> Turned(id, i)']
  <2>1. balancers'[id] = c /\ wraps'[id] = w /\ registry'[id] = registry[id]
    BY <1>1
  <2>2. ASSUME NEW i \in 1..n
        PROVE  Turned(id, i)' = Turned(id, i) + (IF i = k THEN 1 ELSE 0)
    <3>1. Turned(id, i)' = w * Share(Modulus, n, i) + Share(c, n, i)
      BY <2>1 DEF Turned
    <3> QED
      BY <3>1
  <2>3. turns[id] = [i \in 1..n |-> Turned(id, i)]
    BY <1>1
  <2>4. turns'[id] = [turns[id] EXCEPT ![k] = turns[id][k] + 1]
    BY <1>1
  <2>5. \A i \in 1..n : Turned(id, i) \in Nat
    <3> TAKE i \in 1..n
    <3>1. balancers[id] \in Nat /\ wraps[id] \in Nat /\ Modulus \in Nat
      BY <1>1, RoutingAssumption DEF RoutingAssumption
    <3>2. Share(Modulus, n, i) \in Nat /\ Share(balancers[id], n, i) \in Nat
      BY <3>1, ShareGrows
    <3>3. wraps[id] * Share(Modulus, n, i) \in Nat
      BY <3>1, <3>2
    <3> QED
      BY <3>2, <3>3 DEF Turned
  <2>6. PICK t \in [1..n -> Nat] : t = turns[id]
    BY <2>3, <2>5
  <2>7. \A i \in 1..n : [t EXCEPT ![k] = t[k] + 1][i] = Turned(id, i)'
    <3> TAKE i \in 1..n
    <3>1. [t EXCEPT ![k] = t[k] + 1][i] = t[i] + (IF i = k THEN 1 ELSE 0)
      BY <2>6
    <3>2. t[i] = Turned(id, i)
      BY <2>3, <2>6
    <3> QED
      BY <2>2, <3>1, <3>2
  <2>8. turns'[id] = [t EXCEPT ![k] = t[k] + 1] /\ DOMAIN registry'[id] = 1..n
    BY <2>1, <2>4, <2>6
  <2>9. turns'[id] = [i \in 1..n |-> turns'[id][i]]
    BY <2>6, <2>8
  <2> QED
    BY <2>7, <2>8, <2>9
<1>5. balancers' \in [IDs(cfg) -> 0..(Modulus - 1)] /\ wraps' \in [IDs(cfg) -> Nat] /\ DOMAIN turns' = IDs(cfg)
  BY <1>1
<1> QED
  BY <1>1, <1>2, <1>3, <1>4, <1>5 DEF TablesInv

\* serveRoute from the registry to the director.
LEMMA ForwardKeepsInv ==
    ASSUME Inv, stage = "serving", NEW req, IsSequence(req.path), Forward(req),
           UNCHANGED <<stage, cfg>>
    PROVE  Inv'
<1>1. PICK id : id = cfg.routes[Match(req)].id
  OBVIOUS
<1>2. PICK n : n = Len(registry[id])
  OBVIOUS
<1>3. /\ Match(req) # NoRoute /\ Match(req) \in DOMAIN cfg.routes /\ id \in IDs(cfg)
      /\ registry[id] # << >> /\ n \in Nat \ {0} /\ DOMAIN registry[id] = 1..n
      /\ \A i \in 1..n : IsSequence(registry[id][i].path)
      /\ balancers[id] \in 0..(Modulus - 1) /\ wraps[id] \in Nat
  BY <1>1, <1>2, RouteTaken DEF Forward
<1>4. PICK next : next = NextEndpoint(balancers[id], n)
  OBVIOUS
<1>5. PICK k : k = next.turn + 1
  OBVIOUS
<1>6. PICK w : w = IF next.counter = 0 THEN wraps[id] + 1 ELSE wraps[id]
  OBVIOUS
<1>7. /\ last' = [outcome |-> "forwarded", req |-> req, route |-> Match(req), target |-> registry[id][k],
                  path |-> SingleJoiningSlash(registry[id][k].path, req.path)]
      /\ balancers' = [balancers EXCEPT ![id] = next.counter]
      /\ turns' = [turns EXCEPT ![id][k] = @ + 1]
      /\ wraps' = IF next.counter = 0 THEN [wraps EXCEPT ![id] = @ + 1] ELSE wraps
      /\ UNCHANGED registry
  BY <1>1, <1>2, <1>3, <1>4, <1>5 DEF Forward
<1>8. /\ k \in 1..n /\ next.counter \in 0..(Modulus - 1) /\ w \in Nat
      /\ \A i \in 1..n : w * Share(Modulus, n, i) + Share(next.counter, n, i) = Turned(id, i) + (IF i = k THEN 1 ELSE 0)
  <2>1. ASSUME NEW i \in 1..n
        PROVE  /\ k \in 1..n /\ next.counter \in 0..(Modulus - 1)
               /\ w * Share(Modulus, n, i) + Share(next.counter, n, i) = Turned(id, i) + (IF i = k THEN 1 ELSE 0)
    <3>1. PICK c0 \in 0..(Modulus - 1) : c0 = balancers[id]
      BY <1>3
    <3>2. PICK w0 \in Nat : w0 = wraps[id]
      BY <1>3
    <3>3. next = NextEndpoint(c0, n) /\ w = IF next.counter = 0 THEN w0 + 1 ELSE w0
      BY <1>4, <1>6, <3>1, <3>2
    <3>4. /\ next.turn + 1 \in 1..n /\ next.counter \in 0..(Modulus - 1)
          /\ w * Share(Modulus, n, i) + Share(next.counter, n, i)
               = w0 * Share(Modulus, n, i) + Share(c0, n, i) + (IF i = next.turn + 1 THEN 1 ELSE 0)
      BY <1>3, <3>3, TurnCounted
    <3>5. Turned(id, i) = w0 * Share(Modulus, n, i) + Share(c0, n, i)
      BY <1>2, <3>1, <3>2 DEF Turned
    <3> QED
      BY <1>5, <3>4, <3>5
  <2>2. 1 \in 1..n /\ w \in Nat
    BY <1>3, <1>6
  <2> QED
    BY <2>1, <2>2
<1>9. wraps' = [wraps EXCEPT ![id] = w]
  <2>1. wraps \in [IDs(cfg) -> Nat]
    BY DEF Inv, TablesInv
  <2> QED
    BY <1>6, <1>7, <2>1
<1>10. TablesInv'
  <2>1. PICK c \in 0..(Modulus - 1) : c = next.counter
    BY <1>8
  <2>2. \A i \in 1..n : w * Share(Modulus, n, i) + Share(c, n, i) = Turned(id, i) + (IF i = k THEN 1 ELSE 0)
    BY <1>8, <2>1
  <2>3. balancers' = [balancers EXCEPT ![id] = c]
    BY <1>7, <2>1
  <2>4. turns' = [turns EXCEPT ![id][k] = @ + 1]
    BY <1>7
  <2>5. UNCHANGED <<stage, cfg, registry>>
    BY <1>7
  <2>6. id \in IDs(cfg) /\ n \in Nat \ {0} /\ k \in 1..n /\ w \in Nat
    BY <1>3, <1>8
  <2>7. DOMAIN registry[id] = 1..n
    BY <1>3
  <2> QED
    BY <1>2, <1>9, <2>2, <2>3, <2>4, <2>5, <2>6, <2>7, TurnKeepsTables, Zenon
<1>11. ConfigInv' /\ Match(req)' = Match(req)
  BY DEF Inv, ConfigInv, Match
<1>12. LastInv'
  BY <1>3, <1>7, <1>8, <1>11 DEF LastInv, Routed, Forwarded
<1> QED
  BY <1>10, <1>11, <1>12 DEF Inv

\* What the handlers see of a request is a path (net/url.ParseRequestURI).
LEMMA ParsedPath ==
    ASSUME NEW req \in Requests
    PROVE  IsSequence(Parsed(req).path)
<1>1. req.path \in Seq(Range(req.path))
  BY RoutingAssumption DEF RoutingAssumption, IsSequence
<1>2. PICK p : p = Unescape(req.path)
  OBVIOUS
<1>3. DOMAIN req.path = 1..Len(req.path) /\ Len(req.path) \in Nat
  BY <1>1
<1>4. DOMAIN p = 1..Len(req.path) /\ \A i \in 1..Len(req.path) : p[i] \in Range(p)
  BY <1>2, <1>3 DEF Unescape, Range
<1>5. p \in Seq(Range(p))
  BY <1>2, <1>3, <1>4 DEF Unescape
<1>6. Parsed(req).path = p
  <2>1. req \in [method: {req.method}, host: {req.host}, path: {req.path}]
    BY RoutingAssumption DEF RoutingAssumption
  <2> QED
    BY <1>2, <2>1 DEF Parsed
<1> QED
  BY <1>5, <1>6 DEF IsSequence

\* Every step keeps Inv.
LEMMA InvStep == Inv /\ [Next]_vars => Inv'
<1> SUFFICES ASSUME Inv, [Next]_vars
             PROVE  Inv'
  OBVIOUS
<1>1. ASSUME NEW req \in Requests, Serve(req)
      PROVE  Inv'
  <2>1. IsSequence(Parsed(req).path)
    BY ParsedPath
  <2> QED
    BY <1>1, <2>1, AnswerKeepsInv, ForwardKeepsInv DEF Serve
<1>2. CASE UNCHANGED vars
  <2>1. last' = last /\ Match(last.req)' = Match(last.req)
    BY <1>2 DEF vars, Match
  <2>2. LastInv'
    BY <1>2, <2>1 DEF vars, Inv, LastInv, Routed, Forwarded
  <2> QED
    BY <1>2, <2>2, TablesStay DEF vars, Inv
<1> QED
  BY <1>1, <1>2, ValidateKeepsInv, NewKeepsInv DEF Next

\* From the file that config.Load read to the request served last: the
\* configuration, the tables of server.New and the answer of serveRoute agree.
THEOREM Invariance == Spec => []Inv
BY InitInv, InvStep, PTL DEF Spec

-----------------------------------------------------------------------------
(* What the start and the routing promise.                                 *)

\* config.validate keeps its promises to the code behind it: whoever gets to
\* serve has a positive shutdown timeout, and no request finds its route
\* without an upstream, also when routes share an ID.
THEOREM StartIsSound == Spec => []AssumptionsHold
<1>1. Inv => AssumptionsHold
  BY DEF Inv, ConfigInv, LastInv, AssumptionsHold
<1> QED
  BY <1>1, Invariance, PTL

\* router.Match passes by no route that is documented to take the request: a
\* request is served by the first such route or by one declared before it.
THEOREM RoutesServe == Spec => []RoutesTakeTheirRequests
<1>1. ASSUME Inv, Routed, NEW i \in DOMAIN cfg.routes, DocumentedFor(cfg.routes[i], last.req)
      PROVE  Forwarded /\ last.route <= i
  <2>1. WellFormed(cfg) /\ IsSequence(cfg.routes[i].path) /\ IsSequence(last.req.path)
    BY <1>1, RoutingAssumption DEF RoutingAssumption, Inv, ConfigInv, WellFormed, LastInv
  <2>2. MatchRoute(cfg.routes[i], last.req)
    BY <1>1, <2>1, DocumentedPathMatches DEF DocumentedFor, MatchRoute
  <2>3. Match(last.req) # NoRoute /\ Match(last.req) <= i
    BY <2>1, <2>2, MatchProps
  <2> QED
    BY <1>1, <2>3 DEF Inv, LastInv, Routed, Forwarded
<1>2. Inv => RoutesTakeTheirRequests
  BY <1>1 DEF RoutesTakeTheirRequests
<1> QED
  BY <1>2, Invariance, PTL

\* RoundRobin.Next puts no endpoint of a route ahead of another by more than one
\* turn, and by one more for each time the counter has wrapped, and then only
\* when the number of endpoints does not divide the counter's modulus.
THEOREM TurnsAreBalanced == Spec => []TurnsBalanced
<1>1. ASSUME Inv, stage = "serving", NEW id \in DOMAIN turns, NEW i \in 1..Len(registry[id]),
             NEW j \in 1..Len(registry[id])
      PROVE  turns[id][i] <= turns[id][j] + 1 + (IF Modulus % Len(registry[id]) = 0 THEN 0 ELSE wraps[id])
  <2>1. PICK n : n = Len(registry[id])
    OBVIOUS
  <2>2. id \in IDs(cfg) /\ registry[id] # << >> /\ IsSequence(registry[id])
    BY <1>1, EntriesProps DEF Inv, ConfigInv, TablesInv
  <2>3. n \in Nat \ {0} /\ DOMAIN registry[id] = 1..n
    BY <2>1, <2>2, EmptySeq DEF IsSequence
  <2>4. Modulus \in Nat /\ balancers[id] \in Nat /\ wraps[id] \in Nat
    BY <1>1, <2>2, RoutingAssumption DEF RoutingAssumption, Inv, TablesInv
  <2>5. \A x \in 1..n : turns[id][x] = wraps[id] * Share(Modulus, n, x) + Share(balancers[id], n, x)
    BY <1>1, <2>1, <2>2, <2>3 DEF Inv, TablesInv, Turned
  <2>6. PICK d \in {0, 1} : d = IF Modulus % n = 0 THEN 0 ELSE 1
    OBVIOUS
  <2>7. Share(Modulus, n, i) \in Nat /\ Share(Modulus, n, j) \in Nat
        /\ Share(balancers[id], n, i) \in Nat /\ Share(balancers[id], n, j) \in Nat
    BY <2>1, <2>3, <2>4, ShareGrows
  <2>8. Share(Modulus, n, i) <= Share(Modulus, n, j) + d
    BY <2>1, <2>3, <2>4, <2>6, ShareIsFair
  <2>9. wraps[id] * Share(Modulus, n, i) <= wraps[id] * Share(Modulus, n, j) + (IF d = 0 THEN 0 ELSE wraps[id])
    BY <2>4, <2>7, <2>8, Scaled
  <2>10. Share(balancers[id], n, i) <= Share(balancers[id], n, j) + 1
    BY <2>1, <2>3, <2>4, <2>7, ShareIsFair
  <2>11. wraps[id] * Share(Modulus, n, i) \in Nat /\ wraps[id] * Share(Modulus, n, j) \in Nat
    BY <2>4, <2>7
  <2>12. PICK w \in Nat : w = (IF d = 0 THEN 0 ELSE wraps[id]) /\ w = (IF Modulus % n = 0 THEN 0 ELSE wraps[id])
    BY <2>4, <2>6
  <2>13. PICK a \in Nat, b \in Nat : a = wraps[id] * Share(Modulus, n, i) /\ b = wraps[id] * Share(Modulus, n, j)
    BY <2>11
  <2>14. /\ turns[id][i] = a + Share(balancers[id], n, i)
         /\ turns[id][j] = b + Share(balancers[id], n, j)
    BY <2>1, <2>5, <2>13
  <2>15. a <= b + w
    BY <2>9, <2>12, <2>13
  <2>16. a + Share(balancers[id], n, i) <= b + Share(balancers[id], n, j) + 1 + w
    BY <2>7, <2>10, <2>15, SumsDiffer
  <2> QED
    BY <2>1, <2>12, <2>14, <2>16
<1>2. Inv => TurnsBalanced
  BY <1>1 DEF TurnsBalanced
<1> QED
  BY <1>2, Invariance, PTL

\* singleJoiningSlash, with which the director joins the endpoint's path and the
\* request's, joins them as the helper of net/http/httputil does when the first
\* does not end in two slashes nor the second begin with two, and only then.
THEOREM PathsJoin == Spec => []JoinsLikeHttputil
<1>1. Inv => JoinsLikeHttputil
  <2> SUFFICES ASSUME Inv, Forwarded, NEW a, a = last.target.path, NEW b, b = last.req.path
               PROVE  (last.path = HttputilJoin(a, b)) <=> (~IsSuffix(TwoSlashes, a) /\ ~IsPrefix(TwoSlashes, b))
    BY DEF JoinsLikeHttputil
  <2>1. IsSequence(a) /\ IsSequence(b) /\ last.path = SingleJoiningSlash(a, b)
    BY DEF Inv, LastInv, Routed, Forwarded
  <2>2. (IsSuffix(TwoSlashes, a) <=> EndsInTwo(a)) /\ (IsPrefix(TwoSlashes, b) <=> BeginsWithTwo(b))
    BY <2>1, TwoAtTheEnds DEF IsSequence
  <2> QED
    BY <2>1, <2>2, SinglePathsJoin, DoubledPathsDiffer
<1> QED
  BY <1>1, Invariance, PTL
=============================================================================
