--------------------------- MODULE MetricsProofs ---------------------------
(***************************************************************************)
(* What a page of /metrics may be relied on for, for every finite set of   *)
(* requests, routes and statuses, every set of buckets and every           *)
(* interleaving of handlers and scrapes.                                   *)
(*                                                                         *)
(* Each collector counts a set of handlers, which its stage in the order   *)
(* of updates decides (CountersInv, HistogramsInv); a page that is being   *)
(* rendered is compared with the collectors as they are now (PageInv).     *)
(* The sums over a page are folds: what is needed of them, that they are   *)
(* numbers and grow by one when one of their terms does, is proved first,  *)
(* by way of the least size of a set of indices for which it could fail.   *)
(***************************************************************************)
EXTENDS Metrics, TLAPS, FiniteSetTheorems, WellFoundedInduction

-----------------------------------------------------------------------------
(* Sums.                                                                   *)

\* A set of numbers has a least one.
LEMMA Least == ASSUME NEW T \in SUBSET Nat, T # {} PROVE \E n \in T : \A m \in T : n <= m
<1>1. IsWellFoundedOn(OpToRel(<, Nat), Nat)
  BY NatLessThanWellFounded
<1>2. PICK n \in T : \A m \in T : ~(<<m, n>> \in OpToRel(<, Nat))
  BY <1>1, WFMin
<1>3. \A m \in T : ~(m < n)
  BY <1>2 DEF OpToRel
<1> QED
  BY <1>3

\* The index at which a sum over s continues, and the sums over some sets of
\* indices that continue alike.
Pick(s) == CHOOSE x \in s : TRUE
Sums(f, g, S) == g = [s \in S |-> IF s = {} THEN 0 ELSE f[Pick(s)] + g[s \ {Pick(s)}]]
SumsOf(f) == CHOOSE g : Sums(f, g, SUBSET DOMAIN f)
UpTo(D, n) == {s \in SUBSET D : Cardinality(s) <= n}

\* The fold of Total is such a sum.
LEMMA TotalIsSum == ASSUME NEW f PROVE Total(f) = SumsOf(f)[DOMAIN f]
BY DEF Total, FoldFunction, FoldFunctionOnSet, MapThenFoldSet, SumsOf, Sums, Pick

\* What is picked from a set is in it, and the rest is smaller.
LEMMA PickOne ==
    ASSUME NEW D, IsFiniteSet(D), NEW s \in SUBSET D, s # {}
    PROVE  /\ Pick(s) \in s /\ s \ {Pick(s)} \in SUBSET D
           /\ IsFiniteSet(s) /\ Cardinality(s) \in Nat \ {0} /\ Cardinality(s \ {Pick(s)}) = Cardinality(s) - 1
<1>1. Pick(s) \in s
  BY DEF Pick
<1>2. IsFiniteSet(s) /\ Cardinality(s) \in Nat /\ Cardinality(s) # 0
  BY FS_Subset, FS_CardinalityType, FS_EmptySet
<1> QED
  BY <1>1, <1>2, FS_RemoveElement

\* The sums over the smaller sets of indices extend to the next size.
LEMMA SumsExtend ==
    ASSUME NEW f, NEW D, IsFiniteSet(D), NEW n \in Nat, NEW g, Sums(f, g, UpTo(D, n))
    PROVE  \E e : Sums(f, e, UpTo(D, n + 1))
<1> DEFINE S == UpTo(D, n + 1)
           e == [s \in S |-> IF s = {} THEN 0 ELSE f[Pick(s)] + g[s \ {Pick(s)}]]
<1>1. ASSUME NEW s \in S, s # {}
      PROVE  s \ {Pick(s)} \in UpTo(D, n) /\ s \ {Pick(s)} \in S
  BY <1>1, PickOne DEF UpTo
<1>2. \A s \in UpTo(D, n) : s \in S /\ e[s] = g[s]
  <2>1. \A s \in UpTo(D, n) : Cardinality(s) \in Nat
    BY FS_Subset, FS_CardinalityType DEF UpTo
  <2>2. UpTo(D, n) \subseteq S
    BY <2>1 DEF UpTo
  <2>3. \A s \in UpTo(D, n) : g[s] = IF s = {} THEN 0 ELSE f[Pick(s)] + g[s \ {Pick(s)}]
    BY DEF Sums
  <2> QED
    BY <2>2, <2>3
<1>3. \A s \in S : e[s] = IF s = {} THEN 0 ELSE f[Pick(s)] + e[s \ {Pick(s)}]
  BY <1>1, <1>2
<1>4. e = [s \in S |-> e[s]]
  OBVIOUS
<1>5. Sums(f, e, S)
  <2> HIDE DEF e
  <2> QED
    BY <1>3, <1>4 DEF Sums
<1> QED
  BY <1>5

\* So they exist for every size, and for all sets of indices.
LEMMA SumsExist ==
    ASSUME NEW f, IsFiniteSet(DOMAIN f)
    PROVE  Sums(f, SumsOf(f), SUBSET DOMAIN f)
<1> DEFINE D == DOMAIN f
           Fails == {n \in Nat : \A g : ~Sums(f, g, UpTo(D, n))}
<1>1. Fails = {}
  <2> SUFFICES ASSUME Fails # {} PROVE FALSE
    OBVIOUS
  <2>1. PICK n \in Fails : \A m \in Fails : n <= m
    BY Least
  <2>2. CASE n = 0
    <3>1. UpTo(D, 0) = {{}}
      <4>1. \A s \in SUBSET D : s # {} => ~(Cardinality(s) <= 0)
        <5> SUFFICES ASSUME NEW s \in SUBSET D, s # {} PROVE ~(Cardinality(s) <= 0)
          OBVIOUS
        <5>1. Cardinality(s) \in Nat \ {0}
          BY PickOne
        <5> QED
          BY <5>1
      <4>2. Cardinality({}) = 0
        BY FS_EmptySet
      <4> QED
        BY <4>1, <4>2 DEF UpTo
    <3>2. Sums(f, [s \in {{}} |-> 0], UpTo(D, 0))
      BY <3>1 DEF Sums
    <3> QED
      BY <2>1, <2>2, <3>2
  <2>3. CASE n # 0
    <3>1. n - 1 \in Nat /\ n - 1 \notin Fails /\ (n - 1) + 1 = n
      BY <2>1, <2>3
    <3>2. PICK g : Sums(f, g, UpTo(D, n - 1))
      BY <3>1
    <3>3. \E e : Sums(f, e, UpTo(D, n))
      BY <3>1, <3>2, SumsExtend
    <3> QED
      BY <2>1, <3>3
  <2> QED
    BY <2>2, <2>3
<1>2. Cardinality(D) \in Nat /\ UpTo(D, Cardinality(D)) = SUBSET D
  BY FS_CardinalityType, FS_Subset DEF UpTo
<1>3. \E g : Sums(f, g, SUBSET D)
  BY <1>1, <1>2
<1> QED
  BY <1>3 DEF SumsOf
\* What a sum over a set of indices is.
LEMMA SumRule ==
    ASSUME NEW f, IsFiniteSet(DOMAIN f)
    PROVE  /\ SumsOf(f)[{}] = 0
           /\ \A s \in SUBSET DOMAIN f :
                 s # {} => SumsOf(f)[s] = f[Pick(s)] + SumsOf(f)[s \ {Pick(s)}]
BY SumsExist DEF Sums

\* A sum of numbers is a number, and grows with one of its terms.
LEMMA SumOfNumbers ==
    ASSUME NEW D, IsFiniteSet(D), NEW f \in [D -> Nat]
    PROVE  \A s \in SUBSET D : SumsOf(f)[s] \in Nat
<1> DEFINE Sum(s) == SumsOf(f)[s]
           Fails == {n \in Nat : \E s \in SUBSET D : Cardinality(s) = n /\ Sum(s) \notin Nat}
<1>1. ASSUME Fails # {} PROVE FALSE
  <2>1. PICK n \in Fails : \A m \in Fails : n <= m
    BY <1>1, Least
  <2>2. PICK s \in SUBSET D : Cardinality(s) = n /\ Sum(s) \notin Nat
    BY <2>1
  <2>3. s # {}
    BY <2>2, SumRule
  <2> DEFINE x == Pick(s)
             u == s \ {x}
  <2>4. x \in s /\ u \in SUBSET D /\ Cardinality(u) \in Nat /\ Cardinality(u) < n
    <3>1. /\ x \in s /\ u \in SUBSET D
          /\ Cardinality(s) \in Nat \ {0} /\ Cardinality(u) = Cardinality(s) - 1
      BY <2>3, PickOne
    <3> HIDE DEF x, u
    <3> QED
      BY <2>2, <3>1
  <2>5. Sum(s) = f[x] + Sum(u)
    BY <2>3, SumRule
  <2>6. Sum(u) \in Nat
    <3> HIDE DEF Sum, u, x
    <3> QED
      BY <2>1, <2>4
  <2>7. f[x] \in Nat
    BY <2>4
  <2> QED
    BY <2>2, <2>5, <2>6, <2>7
<1>2. \A s \in SUBSET D : Cardinality(s) \in Nat
  BY FS_Subset, FS_CardinalityType
<1> QED
  BY <1>1, <1>2

OneMoreAt(D, d, f, e) == f \in [D -> Nat] /\ d \in D /\ e = [f EXCEPT ![d] = @ + 1]

\* A sum grows by one with one of its terms.
LEMMA SumGrows ==
    ASSUME NEW D, IsFiniteSet(D), NEW d, NEW f, NEW e, OneMoreAt(D, d, f, e)
    PROVE  \A s \in SUBSET D : SumsOf(e)[s] = IF d \in s THEN SumsOf(f)[s] + 1 ELSE SumsOf(f)[s]
<1> DEFINE Grows(s) == SumsOf(e)[s] = IF d \in s THEN SumsOf(f)[s] + 1 ELSE SumsOf(f)[s]
           Fails == {n \in Nat : \E s \in SUBSET D : Cardinality(s) = n /\ ~Grows(s)}
<1>0. e \in [D -> Nat] /\ f \in [D -> Nat] /\ d \in D /\ DOMAIN e = D /\ DOMAIN f = D /\ \A x \in D : e[x] = IF x = d THEN f[x] + 1 ELSE f[x]
  BY DEF OneMoreAt
<1>1. ASSUME Fails # {} PROVE FALSE
  <2>1. PICK n \in Fails : \A m \in Fails : n <= m
    BY <1>1, Least
  <2>2. PICK s \in SUBSET D : Cardinality(s) = n /\ ~Grows(s)
    BY <2>1
  <2>3. s # {}
    <3>1. SumsOf(e)[{}] = 0 /\ SumsOf(f)[{}] = 0
      BY <1>0, SumRule
    <3> QED
      BY <2>2, <3>1
  <2> DEFINE x == Pick(s)
             u == s \ {x}
  <2>4. x \in s /\ u \in SUBSET D /\ Cardinality(u) \in Nat /\ Cardinality(u) < n
    <3>1. /\ x \in s /\ u \in SUBSET D
          /\ Cardinality(s) \in Nat \ {0} /\ Cardinality(u) = Cardinality(s) - 1
      BY <2>3, PickOne
    <3> HIDE DEF x, u
    <3> QED
      BY <2>2, <3>1
  <2>5. SumsOf(e)[s] = e[x] + SumsOf(e)[u] /\ SumsOf(f)[s] = f[x] + SumsOf(f)[u]
    BY <1>0, <2>3, SumRule
  <2>6. Grows(u)
    <3> HIDE DEF Grows, u, x
    <3> QED
      BY <2>1, <2>4
  <2>7. SumsOf(f)[u] \in Nat /\ f[x] \in Nat
    BY <1>0, <2>4, SumOfNumbers
  <2>8. d \in s <=> x = d \/ d \in u
    BY <2>4
  <2>9. d \in u => x # d
    OBVIOUS
  <2> HIDE DEF x, u
  <2> QED
    BY <1>0, <2>2, <2>4, <2>5, <2>6, <2>7, <2>8, <2>9
<1>2. \A s \in SUBSET D : Cardinality(s) \in Nat
  BY FS_Subset, FS_CardinalityType
<1> QED
  BY <1>1, <1>2

\* Nothing adds up to nothing.
LEMMA SumOfNothing ==
    ASSUME NEW D, IsFiniteSet(D), NEW f, f = [x \in D |-> 0]
    PROVE  \A s \in SUBSET D : SumsOf(f)[s] = 0
<1> DEFINE Sum(s) == SumsOf(f)[s]
           Fails == {n \in Nat : \E s \in SUBSET D : Cardinality(s) = n /\ Sum(s) # 0}
<1>1. ASSUME Fails # {} PROVE FALSE
  <2>1. PICK n \in Fails : \A m \in Fails : n <= m
    BY <1>1, Least
  <2>2. PICK s \in SUBSET D : Cardinality(s) = n /\ Sum(s) # 0
    BY <2>1
  <2>3. s # {}
    <3>1. DOMAIN f = D /\ Sum({}) = 0
      BY SumRule
    <3> QED
      BY <2>2, <3>1
  <2> DEFINE x == Pick(s)
             u == s \ {x}
  <2>4. x \in s /\ u \in SUBSET D /\ Cardinality(u) \in Nat /\ Cardinality(u) < n
    <3>1. /\ x \in s /\ u \in SUBSET D
          /\ Cardinality(s) \in Nat \ {0} /\ Cardinality(u) = Cardinality(s) - 1
      BY <2>3, PickOne
    <3> HIDE DEF x, u
    <3> QED
      BY <2>2, <3>1
  <2>5. Sum(s) = f[x] + Sum(u)
    BY <2>3, SumRule
  <2>6. Sum(u) = 0
    <3> HIDE DEF Sum, u, x
    <3> QED
      BY <2>1, <2>4
  <2>7. f[x] = 0
    BY <2>4
  <2> QED
    BY <2>2, <2>5, <2>6, <2>7
<1>2. \A s \in SUBSET D : Cardinality(s) \in Nat
  BY FS_Subset, FS_CardinalityType
<1> QED
  BY <1>1, <1>2

\* The same of Total, the sum over all indices.
LEMMA TotalFacts ==
    ASSUME NEW D, IsFiniteSet(D), NEW f \in [D -> Nat]
    PROVE  Total(f) \in Nat /\ ((\A x \in D : f[x] = 0) => Total(f) = 0)
<1>1. DOMAIN f = D /\ D \in SUBSET D
  OBVIOUS
<1>2. Total(f) \in Nat
  BY <1>1, TotalIsSum, SumOfNumbers
<1>3. ASSUME \A x \in D : f[x] = 0 PROVE Total(f) = 0
  <2>1. f = [x \in D |-> 0]
    BY <1>3
  <2> QED
    BY <1>1, <2>1, TotalIsSum, SumOfNothing
<1> QED
  BY <1>2, <1>3

\* So Total grows by one with one of the counts.
LEMMA TotalGrows ==
    ASSUME NEW D, IsFiniteSet(D), NEW d, NEW f, NEW e, OneMoreAt(D, d, f, e)
    PROVE  Total(e) = Total(f) + 1
<1>1. DOMAIN e = D /\ DOMAIN f = D /\ d \in D
  BY DEF OneMoreAt
<1>2. SumsOf(e)[D] = SumsOf(f)[D] + 1
  BY <1>1, SumGrows
<1> QED
  BY <1>1, <1>2, TotalIsSum

-----------------------------------------------------------------------------
(* The inductive invariant.                                                *)

\* The sets the collectors count, by how far a handler has come.
Raised == {r \in Arrived : handler[r].next \in {"reject", "dec"}}
Rejected(rt) == {r \in Arrived : handler[r].out.route = rt /\ handler[r].out.denied /\ handler[r].next # "reject"}
CountedFor(rt) == {r \in Counted : handler[r].out.route = rt}
CountedWith(rt, s) == {r \in Counted : handler[r].out.route = rt /\ handler[r].out.status = s}
DoneFor(rt) == {r \in Done : handler[r].out.route = rt}
DoneWithin(rt, b) == {r \in Done : handler[r].out.route = rt /\ handler[r].out.duration <= b}

\* The counters of one route, and the counts of the histograms.
OfRoute(totals, rt) == [s \in Statuses |-> totals[<<rt, s>>]]
CountsOf(hs) == [rt \in Routes |-> hs[rt].count]

\* Only a denied request has a rejection to record.
HandlersOK == \A r \in Arrived : handler[r].next = "reject" => handler[r].out.denied

CountersInv ==
    /\ active = Cardinality(Raised)
    /\ Total(requestsTotal) = Cardinality(Counted)
    /\ \A rt \in Routes :
          /\ rejections[rt] = Cardinality(Rejected(rt))
          /\ Total(OfRoute(requestsTotal, rt)) = Cardinality(CountedFor(rt))
          /\ \A s \in Statuses : requestsTotal[<<rt, s>>] = Cardinality(CountedWith(rt, s))

HistogramsInv ==
    /\ Total(CountsOf(histograms)) = Cardinality(Done)
    /\ \A rt \in Routes :
          /\ histograms[rt].count = Cardinality(DoneFor(rt))
          /\ \A b \in Buckets : histograms[rt].buckets[b] = Cardinality(DoneWithin(rt, b))

Cumulative(h) ==
    \A b, c \in Buckets : b <= c => h.buckets[b] <= h.buckets[c] /\ h.buckets[c] <= h.count

\* The page, compared with what the collectors hold by now: what has been
\* rendered was no more, and missed none of the requests that were over before.
PageInv ==
    /\ before \subseteq Done /\ shown \subseteq Counted
    /\ \A rt \in Routes : Cumulative(page.histograms[rt])
    /\ scrape = "total" => page.total = NewPage.total
    /\ scrape # "total" => Cardinality(before) <= Total(page.total)
    /\ scrape \in {"rejections", "active"} => Total(page.total) <= Cardinality(Counted)
    /\ scrape \in {"histograms", "none"} => Total(page.total) + page.active <= Cardinality(Arrived)
    /\ scrape = "none" => Cardinality(before) <= Total(CountsOf(page.histograms))
    /\ \A rt \in Routes :
          /\ scrape = "rejections" => page.total[<<rt, 429>>] <= rejections[rt] + Cardinality(ProxiedOn(rt))
          /\ scrape \notin {"total", "rejections"} => page.total[<<rt, 429>>] <= page.rejections[rt] + Cardinality(ProxiedOn(rt))

Inv == TypeOK /\ HandlersOK /\ CountersInv /\ HistogramsInv /\ PageInv
-----------------------------------------------------------------------------
(* Facts the steps share.                                                  *)

\* There are finitely many of everything that is counted or summed over.
LEMMA Finite == IsFiniteSet(Requests) /\ IsFiniteSet(Routes) /\ IsFiniteSet(Statuses) /\ IsFiniteSet(Labels)
BY MetricsAssumption, FS_Product DEF MetricsAssumption, Labels

\* A set of requests is finite, and a larger one has no fewer.
LEMMA Small ==
    ASSUME NEW S \in SUBSET Requests
    PROVE  /\ IsFiniteSet(S) /\ Cardinality(S) \in Nat /\ Cardinality(S) \in Counts
           /\ \A T \in SUBSET S : Cardinality(T) <= Cardinality(S)
BY Finite, FS_Subset, FS_CardinalityType DEF Counts

\* One request more,
LEMMA OneMore ==
    ASSUME NEW S \in SUBSET Requests, NEW r \in Requests, r \notin S
    PROVE  Cardinality(S \cup {r}) = Cardinality(S) + 1
BY Small, FS_AddElement

\* and one less.
LEMMA OneLess ==
    ASSUME NEW S \in SUBSET Requests, NEW r \in S
    PROVE  Cardinality(S \ {r}) = Cardinality(S) - 1
BY Small, FS_RemoveElement

\* The counted sets are sets of requests.
LEMMA CountedSets ==
    /\ Arrived \in SUBSET Requests /\ Raised \in SUBSET Requests /\ Counted \in SUBSET Requests
    /\ Done \in SUBSET Counted /\ Done \in SUBSET Requests
    /\ \A rt : /\ Rejected(rt) \in SUBSET Requests /\ CountedFor(rt) \in SUBSET Requests
               /\ DoneFor(rt) \in SUBSET Requests
               /\ \A s : CountedWith(rt, s) \in SUBSET Requests
               /\ \A b : DoneWithin(rt, b) \in SUBSET Requests
BY DEF Arrived, Raised, Counted, Done, Rejected, CountedFor, CountedWith, DoneFor, DoneWithin

\* The counters and histograms before their bounds are known.
HandlerType == [Requests -> {Unsent} \cup [next: {"reject", "dec", "count", "observe", "nothing"}, out: Outcomes]]
HistogramNat == [count: Nat, buckets: [Buckets -> Nat]]

\* The bounds follow from what is counted.
LEMMA TypeKept ==
    ASSUME Inv, CountersInv', HistogramsInv', handler' \in HandlerType,
           requestsTotal' \in [Labels -> Nat], rejections' \in [Routes -> Nat],
           histograms' \in [Routes -> HistogramNat], UNCHANGED <<scrape, page, before, shown>>
    PROVE  TypeOK'
<1>1. /\ Raised' \in SUBSET Requests
      /\ \A rt : /\ Rejected(rt)' \in SUBSET Requests /\ DoneFor(rt)' \in SUBSET Requests
                 /\ \A s : CountedWith(rt, s)' \in SUBSET Requests
                 /\ \A b : DoneWithin(rt, b)' \in SUBSET Requests
  BY DEF Arrived, Raised, Counted, Done, Rejected, CountedWith, DoneFor, DoneWithin
<1>2. active' \in Counts
  BY <1>1, Small DEF CountersInv
<1>3. rejections' \in [Routes -> Counts]
  BY <1>1, Small DEF CountersInv
<1>4. requestsTotal' \in [Labels -> Counts]
  <2>1. \A rt \in Routes, s \in Statuses : requestsTotal'[<<rt, s>>] \in Counts
    BY <1>1, Small DEF CountersInv
  <2>2. \A l \in Labels : requestsTotal'[l] \in Counts
    BY <2>1 DEF Labels
  <2> QED
    BY <2>2
<1>5. histograms' \in [Routes -> Histogram]
  <2> SUFFICES ASSUME NEW rt \in Routes PROVE histograms'[rt] \in Histogram
    OBVIOUS
  <2>1. histograms'[rt].count \in Counts /\ \A b \in Buckets : histograms'[rt].buckets[b] \in Counts
    BY <1>1, Small DEF HistogramsInv
  <2>2. histograms'[rt] \in HistogramNat
    OBVIOUS
  <2> QED
    BY <2>1, <2>2 DEF Histogram, HistogramNat
<1> QED
  BY <1>2, <1>3, <1>4, <1>5 DEF Inv, TypeOK, HandlerType

\* The upstreams' 429s on a page are requests, and a number of them.
LEMMA ProxiedFinite ==
    ASSUME Inv
    PROVE  \A rt : /\ ProxiedOn(rt) \in SUBSET Requests /\ IsFiniteSet(ProxiedOn(rt))
                   /\ Cardinality(ProxiedOn(rt)) \in Nat
<1>1. \A rt : ProxiedOn(rt) \in SUBSET Requests
  BY DEF Inv, TypeOK, ProxiedOn
<1> QED
  BY <1>1, Small

\* While handlers go on, a page falls behind the collectors, never ahead.
LEMMA PageKept ==
    ASSUME Inv, UNCHANGED <<scrape, page, before, shown>>,
           Arrived \subseteq Arrived', Counted \subseteq Counted', Done \subseteq Done',
           \A q \in Arrived : handler'[q].out = handler[q].out,
           \A rt \in Routes : rejections[rt] \in Nat /\ rejections'[rt] \in Nat /\ rejections'[rt] >= rejections[rt]
    PROVE  PageInv'
<1>1. Arrived' \in SUBSET Requests /\ Counted' \in SUBSET Requests
  BY DEF Arrived, Counted
<1>2. /\ Cardinality(Arrived) <= Cardinality(Arrived') /\ Cardinality(Counted) <= Cardinality(Counted')
      /\ Cardinality(Arrived) \in Nat /\ Cardinality(Arrived') \in Nat
      /\ Cardinality(Counted) \in Nat /\ Cardinality(Counted') \in Nat
  BY <1>1, Small, CountedSets
<1>3. page.total \in [Labels -> Nat] /\ page.active \in Nat /\ Total(page.total) \in Nat
  <2>1. page.total \in [Labels -> Counts] /\ page.active \in Counts /\ Counts \subseteq Nat
    BY DEF Inv, TypeOK, Counts
  <2> QED
    BY <2>1, Finite, TotalFacts
<1>4. \A rt \in Routes : page.total[<<rt, 429>>] \in Nat
  BY <1>3, MetricsAssumption DEF MetricsAssumption, Labels
<1>5. /\ scrape' \in {"rejections", "active"} => Total(page'.total) <= Cardinality(Counted')
      /\ scrape' \in {"histograms", "none"} => Total(page'.total) + page'.active <= Cardinality(Arrived')
  BY <1>2, <1>3 DEF Inv, PageInv
<1>0. \A rt \in Routes : ProxiedOn(rt)' = ProxiedOn(rt) /\ Cardinality(ProxiedOn(rt)) \in Nat
  <2>1. shown \subseteq Arrived
    BY DEF Inv, PageInv, Counted
  <2>2. \A rt : ProxiedOn(rt)' = ProxiedOn(rt)
    BY <2>1 DEF ProxiedOn
  <2> QED
    BY <2>2, ProxiedFinite
<1>6. \A rt \in Routes : scrape' = "rejections" =>
          page'.total[<<rt, 429>>] <= rejections'[rt] + Cardinality(ProxiedOn(rt)')
  <2> SUFFICES ASSUME NEW rt \in Routes, scrape = "rejections"
               PROVE  page.total[<<rt, 429>>] <= rejections'[rt] + Cardinality(ProxiedOn(rt))
    BY <1>0
  <2>1. page.total[<<rt, 429>>] <= rejections[rt] + Cardinality(ProxiedOn(rt))
    BY DEF Inv, PageInv
  <2> QED
    BY <1>0, <1>4, <2>1
<1>7. /\ before' \subseteq Done' /\ shown' \subseteq Counted'
      /\ \A rt \in Routes : Cumulative(page'.histograms[rt])
      /\ scrape' = "total" => page'.total = NewPage.total
      /\ scrape' # "total" => Cardinality(before') <= Total(page'.total)
      /\ scrape' = "none" => Cardinality(before') <= Total(CountsOf(page'.histograms))
      /\ \A rt \in Routes : scrape' \notin {"total", "rejections"} =>
            page'.total[<<rt, 429>>] <= page'.rejections[rt] + Cardinality(ProxiedOn(rt)')
  BY <1>0 DEF Inv, PageInv
<1> QED
  BY <1>5, <1>6, <1>7 DEF PageInv, Cumulative, CountsOf, NewPage, NewHistogram
-----------------------------------------------------------------------------
(* The steps of a handler.                                                 *)

\* Handler r goes from one update to the next.
Moves(r, from, to) ==
    /\ r \in Arrived /\ handler[r].next = from /\ handler[r].out \in Outcomes
    /\ Arrived' = Arrived /\ handler' \in HandlerType
    /\ \A q \in Arrived :
          handler'[q].out = handler[q].out /\ handler'[q].next = IF q = r THEN to ELSE handler[q].next

\* Each update moves one handler and leaves the scrape alone.
LEMMA DoesMoves ==
    ASSUME Inv, NEW r \in Requests, NEW update \in {"reject", "dec", "count", "observe"}, Does(r, update)
    PROVE  Moves(r, update, HandlerOrder[update]) /\ UNCHANGED <<scrape, page, before, shown>>
<1> DEFINE to == HandlerOrder[update]
           R == [next: {"reject", "dec", "count", "observe", "nothing"}, out: Outcomes]
           h == [handler[r] EXCEPT !.next = to]
<1>1. to \in {"dec", "count", "observe", "nothing"}
  BY DEF HandlerOrder
<1>2. handler \in [Requests -> {Unsent} \cup R] /\ handler[r].next = update
  BY DEF Inv, TypeOK, Does
<1>3. Unsent.next = "arrive" /\ Unsent \notin R
  BY DEF Unsent
<1>4. handler[r] \in R /\ r \in Arrived
  BY <1>2, <1>3 DEF Arrived
<1>5. handler' = [handler EXCEPT ![r] = h] /\ UNCHANGED <<scrape, page, before, shown>>
  BY DEF Does
<1> HIDE DEF to
<1>6. h \in R /\ h.next = to /\ h.out = handler[r].out
  BY <1>1, <1>4
<1> HIDE DEF h, R
<1>7. \A q \in Requests : handler'[q] = IF q = r THEN h ELSE handler[q]
  BY <1>2, <1>5
<1>8. Arrived' = Arrived
  BY <1>3, <1>4, <1>6, <1>7 DEF Arrived
<1>9. handler' \in HandlerType
  BY <1>2, <1>5, <1>6 DEF HandlerType, R
<1>10. handler[r].out \in Outcomes
  BY <1>4 DEF R
<1> QED
  BY <1>2, <1>4, <1>5, <1>6, <1>7, <1>8, <1>9, <1>10 DEF Moves, to, Arrived

\* The parts of an outcome.
LEMMA OutcomeParts ==
    ASSUME NEW out \in Outcomes
    PROVE  /\ out.route \in Routes /\ out.status \in Statuses /\ <<out.route, out.status>> \in Labels
           /\ out.duration \in Durations
BY DEF Outcomes, Labels

\* What the move means for the counted sets, update by update.
LEMMA RejectMoves ==
    ASSUME NEW r, Moves(r, "reject", "dec"), HandlersOK
    PROVE  /\ Raised' = Raised /\ Counted' = Counted /\ Done' = Done
           /\ r \notin Rejected(handler[r].out.route)
           /\ \A rt : Rejected(rt)' = IF rt = handler[r].out.route THEN Rejected(rt) \cup {r} ELSE Rejected(rt)
<1>1. handler[r].out.denied
  BY DEF HandlersOK, Moves
<1>2. Raised' = Raised
  BY DEF Raised, Moves
<1>3. Counted' = Counted
  BY DEF Counted, Moves
<1>4. Done' = Done
  BY DEF Done, Moves
<1>5. \A rt : Rejected(rt)' = IF rt = handler[r].out.route THEN Rejected(rt) \cup {r} ELSE Rejected(rt)
  BY <1>1 DEF Rejected, Moves
<1>6. r \notin Rejected(handler[r].out.route)
  BY DEF Rejected, Moves
<1> QED
  BY <1>2, <1>3, <1>4, <1>5, <1>6

\* LowerGauge takes the request from the raised.
LEMMA LowerMoves ==
    ASSUME NEW r, Moves(r, "dec", "count")
    PROVE  /\ r \in Raised /\ Raised' = Raised \ {r} /\ Counted' = Counted /\ Done' = Done
           /\ \A rt : Rejected(rt)' = Rejected(rt)
<1>1. r \in Raised /\ Raised' = Raised \ {r}
  BY DEF Raised, Moves
<1>2. Counted' = Counted
  BY DEF Counted, Moves
<1>3. Done' = Done
  BY DEF Done, Moves
<1>4. \A rt : Rejected(rt)' = Rejected(rt)
  BY DEF Rejected, Moves
<1> QED
  BY <1>1, <1>2, <1>3, <1>4

\* CountRequest adds it to the counted.
LEMMA CountMoves ==
    ASSUME NEW r, Moves(r, "count", "observe")
    PROVE  /\ Raised' = Raised /\ Done' = Done
           /\ r \notin Counted /\ Counted' = Counted \cup {r}
           /\ \A rt : Rejected(rt)' = Rejected(rt)
<1>1. Raised' = Raised
  BY DEF Raised, Moves
<1>2. r \notin Counted /\ Counted' = Counted \cup {r}
  BY DEF Counted, Moves
<1>3. Done' = Done
  BY DEF Done, Moves
<1>4. \A rt : Rejected(rt)' = Rejected(rt)
  BY DEF Rejected, Moves
<1> QED
  BY <1>1, <1>2, <1>3, <1>4

\* ObserveDuration adds it to those that are done.
LEMMA ObserveMoves ==
    ASSUME NEW r, Moves(r, "observe", "nothing")
    PROVE  /\ Raised' = Raised /\ Counted' = Counted
           /\ r \notin Done /\ Done' = Done \cup {r}
           /\ \A rt : Rejected(rt)' = Rejected(rt)
<1>1. Raised' = Raised
  BY DEF Raised, Moves
<1>2. Counted' = Counted
  BY DEF Counted, Moves
<1>3. r \notin Done /\ Done' = Done \cup {r}
  BY DEF Done, Moves
<1>4. \A rt : Rejected(rt)' = Rejected(rt)
  BY DEF Rejected, Moves
<1> QED
  BY <1>1, <1>2, <1>3, <1>4

\* The sets per label follow the sets they are taken from.
LEMMA LabelledSets ==
    ASSUME NEW r, NEW from, NEW to, Moves(r, from, to)
    PROVE  /\ Counted' = Counted => \A rt : /\ CountedFor(rt)' = CountedFor(rt)
                                            /\ \A s : CountedWith(rt, s)' = CountedWith(rt, s)
           /\ Done' = Done => \A rt : /\ DoneFor(rt)' = DoneFor(rt)
                                      /\ \A b : DoneWithin(rt, b)' = DoneWithin(rt, b)
<1>1. Counted \subseteq Arrived /\ Done \subseteq Arrived
  BY DEF Counted, Done
<1>2. \A q \in Arrived : handler'[q].out = handler[q].out
  BY DEF Moves
<1> QED
  BY <1>1, <1>2 DEF CountedFor, CountedWith, DoneFor, DoneWithin

\* A handler that moves on has no rejection to record.
LEMMA HandlersKept ==
    ASSUME HandlersOK, NEW r, NEW from, NEW to, Moves(r, from, to), to # "reject"
    PROVE  HandlersOK'
BY DEF HandlersOK, Moves

\* Collectors that a step neither writes nor counts anew.
LEMMA HistogramsKept ==
    ASSUME HistogramsInv, UNCHANGED histograms, Done' = Done,
           \A rt : DoneFor(rt)' = DoneFor(rt) /\ \A b : DoneWithin(rt, b)' = DoneWithin(rt, b)
    PROVE  HistogramsInv'
BY DEF HistogramsInv, CountsOf

\* The tables of counts have the types the steps rely on.
LEMMA Tables ==
    ASSUME Inv
    PROVE  /\ requestsTotal \in [Labels -> Nat] /\ rejections \in [Routes -> Nat]
           /\ histograms \in [Routes -> HistogramNat] /\ active \in Nat /\ handler \in HandlerType
<1>1. Counts \subseteq Nat
  BY DEF Counts
<1>2. Histogram \subseteq HistogramNat
  BY <1>1 DEF Histogram, HistogramNat
<1> QED
  BY <1>1, <1>2 DEF Inv, TypeOK, HandlerType
-----------------------------------------------------------------------------
(* One lemma per action.                                                   *)

\* RateLimitRejections.Inc
LEMMA RejectKeepsInv ==
    ASSUME Inv, NEW r \in Requests, RecordRateLimitRejection(r)
    PROVE  Inv'
<1> DEFINE rt0 == handler[r].out.route
<1>1. Moves(r, "reject", "dec") /\ UNCHANGED <<scrape, page, before, shown>>
  BY DoesMoves DEF RecordRateLimitRejection, HandlerOrder
<1>2. rejections' = [rejections EXCEPT ![rt0] = @ + 1] /\ UNCHANGED <<active, requestsTotal, histograms>>
  BY DEF RecordRateLimitRejection, Inc
<1>3. rt0 \in Routes
  BY <1>1, OutcomeParts DEF Moves
<1>4. /\ Raised' = Raised /\ Counted' = Counted /\ Done' = Done
      /\ r \notin Rejected(rt0)
      /\ \A rt : Rejected(rt)' = IF rt = rt0 THEN Rejected(rt) \cup {r} ELSE Rejected(rt)
  BY <1>1, RejectMoves DEF Inv
<1>5. /\ \A rt : CountedFor(rt)' = CountedFor(rt) /\ \A s : CountedWith(rt, s)' = CountedWith(rt, s)
      /\ \A rt : DoneFor(rt)' = DoneFor(rt) /\ \A b : DoneWithin(rt, b)' = DoneWithin(rt, b)
  BY <1>1, <1>4, LabelledSets
<1> HIDE DEF rt0
<1>6. \A rt \in Routes : rejections'[rt] = IF rt = rt0 THEN rejections[rt] + 1 ELSE rejections[rt]
  BY <1>2, Tables
<1>7. CountersInv'
  <2>1. Cardinality(Rejected(rt0) \cup {r}) = Cardinality(Rejected(rt0)) + 1
    BY <1>4, CountedSets, OneMore
  <2>2. \A rt \in Routes : rejections'[rt] = Cardinality(Rejected(rt)')
    BY <1>4, <1>6, <2>1 DEF Inv, CountersInv
  <2> QED
    BY <1>2, <1>4, <1>5, <2>2 DEF Inv, CountersInv, OfRoute
<1>8. HistogramsInv' /\ HandlersOK'
  BY <1>1, <1>2, <1>4, <1>5, HistogramsKept, HandlersKept DEF Inv
<1>9. PageInv'
  <2>1. \A rt \in Routes : rejections[rt] \in Nat /\ rejections'[rt] \in Nat /\ rejections'[rt] >= rejections[rt]
    BY <1>6, Tables
  <2> QED
    BY <1>1, <1>4, <2>1, PageKept DEF Moves
<1>10. TypeOK'
  <2>1. rejections' \in [Routes -> Nat]
    BY <1>2, <1>3, Tables
  <2> QED
    BY <1>1, <1>2, <1>7, <1>8, <2>1, Tables, TypeKept DEF Moves
<1> QED
  BY <1>7, <1>8, <1>9, <1>10 DEF Inv

\* ActiveConnections.Dec
LEMMA LowerKeepsInv ==
    ASSUME Inv, NEW r \in Requests, LowerGauge(r)
    PROVE  Inv'
<1>1. Moves(r, "dec", "count") /\ UNCHANGED <<scrape, page, before, shown>>
  BY DoesMoves DEF LowerGauge, HandlerOrder
<1>2. active' = active - 1 /\ UNCHANGED <<requestsTotal, rejections, histograms>>
  BY DEF LowerGauge
<1>3. /\ r \in Raised /\ Raised' = Raised \ {r} /\ Counted' = Counted /\ Done' = Done
      /\ \A rt : Rejected(rt)' = Rejected(rt)
  BY <1>1, LowerMoves
<1>4. /\ \A rt : CountedFor(rt)' = CountedFor(rt) /\ \A s : CountedWith(rt, s)' = CountedWith(rt, s)
      /\ \A rt : DoneFor(rt)' = DoneFor(rt) /\ \A b : DoneWithin(rt, b)' = DoneWithin(rt, b)
  BY <1>1, <1>3, LabelledSets
<1>5. CountersInv'
  <2>1. Cardinality(Raised \ {r}) = Cardinality(Raised) - 1
    BY <1>3, CountedSets, OneLess
  <2> QED
    BY <1>2, <1>3, <1>4, <2>1 DEF Inv, CountersInv, OfRoute
<1>6. HistogramsInv' /\ HandlersOK'
  BY <1>1, <1>2, <1>3, <1>4, HistogramsKept, HandlersKept DEF Inv
<1>7. PageInv'
  <2>1. \A rt \in Routes : rejections[rt] \in Nat /\ rejections'[rt] \in Nat /\ rejections'[rt] >= rejections[rt]
    BY <1>2, Tables
  <2> QED
    BY <1>1, <1>3, <2>1, PageKept DEF Moves
<1>8. TypeOK'
  BY <1>1, <1>2, <1>5, <1>6, Tables, TypeKept DEF Moves
<1> QED
  BY <1>5, <1>6, <1>7, <1>8 DEF Inv

\* RecordRequest: RequestsTotal.Inc
LEMMA CountKeepsInv ==
    ASSUME Inv, NEW r \in Requests, CountRequest(r)
    PROVE  Inv'
<1> DEFINE rt0 == handler[r].out.route
           s0 == handler[r].out.status
<1>1. Moves(r, "count", "observe") /\ UNCHANGED <<scrape, page, before, shown>>
  BY DoesMoves DEF CountRequest, HandlerOrder
<1>2. requestsTotal' = [requestsTotal EXCEPT ![<<rt0, s0>>] = @ + 1] /\ UNCHANGED <<active, rejections, histograms>>
  BY DEF CountRequest, Inc
<1>3. rt0 \in Routes /\ s0 \in Statuses /\ <<rt0, s0>> \in Labels
  BY <1>1, OutcomeParts DEF Moves
<1>4. /\ Raised' = Raised /\ Done' = Done
      /\ r \notin Counted /\ Counted' = Counted \cup {r}
      /\ \A rt : Rejected(rt)' = Rejected(rt)
  BY <1>1, CountMoves
<1>5. \A rt : DoneFor(rt)' = DoneFor(rt) /\ \A b : DoneWithin(rt, b)' = DoneWithin(rt, b)
  BY <1>1, <1>4, LabelledSets
<1>6. /\ \A rt : CountedFor(rt)' = IF rt = rt0 THEN CountedFor(rt) \cup {r} ELSE CountedFor(rt)
      /\ \A rt, s : CountedWith(rt, s)' = IF rt = rt0 /\ s = s0 THEN CountedWith(rt, s) \cup {r}
                                          ELSE CountedWith(rt, s)
  <2>1. Counted \subseteq Arrived /\ r \in Arrived /\ \A q \in Arrived : handler'[q].out = handler[q].out
    BY <1>1 DEF Counted, Moves
  <2>2. \A rt : CountedFor(rt)' = IF rt = rt0 THEN CountedFor(rt) \cup {r} ELSE CountedFor(rt)
    BY <1>4, <2>1 DEF CountedFor
  <2>3. \A rt, s : CountedWith(rt, s)' = IF rt = rt0 /\ s = s0 THEN CountedWith(rt, s) \cup {r}
                                         ELSE CountedWith(rt, s)
    BY <1>4, <2>1 DEF CountedWith
  <2> QED
    BY <2>2, <2>3
<1>7. r \notin CountedFor(rt0) /\ r \notin CountedWith(rt0, s0)
  BY <1>4 DEF CountedFor, CountedWith
<1> HIDE DEF rt0, s0
<1>8. \A rt \in Routes, s \in Statuses :
          requestsTotal'[<<rt, s>>] = IF rt = rt0 /\ s = s0 THEN requestsTotal[<<rt, s>>] + 1 ELSE requestsTotal[<<rt, s>>]
  BY <1>2, Tables DEF Labels
<1>9. Total(requestsTotal') = Total(requestsTotal) + 1
  <2>1. OneMoreAt(Labels, <<rt0, s0>>, requestsTotal, requestsTotal')
    BY <1>2, <1>3, Tables DEF OneMoreAt
  <2> QED
    BY <2>1, Finite, TotalGrows
<1>10. \A rt \in Routes : Total(OfRoute(requestsTotal', rt)) =
                              IF rt = rt0 THEN Total(OfRoute(requestsTotal, rt)) + 1 ELSE Total(OfRoute(requestsTotal, rt))
  <2> SUFFICES ASSUME NEW rt \in Routes
               PROVE  Total(OfRoute(requestsTotal', rt)) =
                          IF rt = rt0 THEN Total(OfRoute(requestsTotal, rt)) + 1 ELSE Total(OfRoute(requestsTotal, rt))
    OBVIOUS
  <2>1. CASE rt = rt0
    <3>1. \A s \in Statuses : <<rt, s>> \in Labels
      BY DEF Labels
    <3>2. OfRoute(requestsTotal, rt) \in [Statuses -> Nat]
      BY <3>1, Tables DEF OfRoute
    <3>3. OfRoute(requestsTotal', rt) = [OfRoute(requestsTotal, rt) EXCEPT ![s0] = @ + 1]
      BY <1>3, <1>8, <2>1 DEF OfRoute
    <3>4. OneMoreAt(Statuses, s0, OfRoute(requestsTotal, rt), OfRoute(requestsTotal', rt))
      BY <1>3, <3>2, <3>3 DEF OneMoreAt
    <3> QED
      BY <2>1, <3>4, Finite, TotalGrows
  <2>2. CASE rt # rt0
    <3>1. OfRoute(requestsTotal', rt) = OfRoute(requestsTotal, rt)
      BY <1>8, <2>2 DEF OfRoute
    <3> QED
      BY <2>2, <3>1
  <2> QED
    BY <2>1, <2>2
<1>11. CountersInv'
  <2>1. /\ Cardinality(Counted \cup {r}) = Cardinality(Counted) + 1
        /\ Cardinality(CountedFor(rt0) \cup {r}) = Cardinality(CountedFor(rt0)) + 1
        /\ Cardinality(CountedWith(rt0, s0) \cup {r}) = Cardinality(CountedWith(rt0, s0)) + 1
    BY <1>4, <1>7, CountedSets, OneMore
  <2>2. \A rt \in Routes : Total(OfRoute(requestsTotal', rt)) = Cardinality(CountedFor(rt)')
    BY <1>6, <1>10, <2>1 DEF Inv, CountersInv
  <2>3. \A rt \in Routes, s \in Statuses : requestsTotal'[<<rt, s>>] = Cardinality(CountedWith(rt, s)')
    BY <1>6, <1>8, <2>1 DEF Inv, CountersInv
  <2>4. Total(requestsTotal') = Cardinality(Counted')
    BY <1>4, <1>9, <2>1 DEF Inv, CountersInv
  <2>5. active' = Cardinality(Raised') /\ \A rt \in Routes : rejections'[rt] = Cardinality(Rejected(rt)')
    BY <1>2, <1>4 DEF Inv, CountersInv
  <2> QED
    BY <2>2, <2>3, <2>4, <2>5 DEF CountersInv, OfRoute
<1>12. HistogramsInv' /\ HandlersOK'
  BY <1>1, <1>2, <1>4, <1>5, HistogramsKept, HandlersKept DEF Inv
<1>13. PageInv'
  <2>1. \A rt \in Routes : rejections[rt] \in Nat /\ rejections'[rt] \in Nat /\ rejections'[rt] >= rejections[rt]
    BY <1>2, Tables
  <2> QED
    BY <1>1, <1>4, <2>1, PageKept DEF Moves
<1>14. TypeOK'
  <2>1. requestsTotal' \in [Labels -> Nat]
    BY <1>2, <1>3, Tables
  <2> QED
    BY <1>1, <1>2, <1>11, <1>12, <2>1, Tables, TypeKept DEF Moves
<1> QED
  BY <1>11, <1>12, <1>13, <1>14 DEF Inv

\* RecordRequest: RequestDuration.Observe
LEMMA ObserveKeepsInv ==
    ASSUME Inv, NEW r \in Requests, ObserveDuration(r)
    PROVE  Inv'
<1> DEFINE rt0 == handler[r].out.route
           d0 == handler[r].out.duration
<1>1. Moves(r, "observe", "nothing") /\ UNCHANGED <<scrape, page, before, shown>>
  BY DoesMoves DEF ObserveDuration, HandlerOrder
<1>2. histograms' = [histograms EXCEPT ![rt0] = Observe(@, d0)] /\ UNCHANGED <<active, requestsTotal, rejections>>
  BY DEF ObserveDuration
<1>3. rt0 \in Routes
  BY <1>1, OutcomeParts DEF Moves
<1>4. /\ Raised' = Raised /\ Counted' = Counted
      /\ r \notin Done /\ Done' = Done \cup {r}
      /\ \A rt : Rejected(rt)' = Rejected(rt)
  BY <1>1, ObserveMoves
<1>5. \A rt : CountedFor(rt)' = CountedFor(rt) /\ \A s : CountedWith(rt, s)' = CountedWith(rt, s)
  BY <1>1, <1>4, LabelledSets
<1>6. /\ \A rt : DoneFor(rt)' = IF rt = rt0 THEN DoneFor(rt) \cup {r} ELSE DoneFor(rt)
      /\ \A rt, b : DoneWithin(rt, b)' = IF rt = rt0 /\ d0 <= b THEN DoneWithin(rt, b) \cup {r} ELSE DoneWithin(rt, b)
  <2>1. Done \subseteq Arrived /\ r \in Arrived /\ \A q \in Arrived : handler'[q].out = handler[q].out
    BY <1>1 DEF Done, Moves
  <2>2. \A rt : DoneFor(rt)' = IF rt = rt0 THEN DoneFor(rt) \cup {r} ELSE DoneFor(rt)
    BY <1>4, <2>1 DEF DoneFor
  <2>3. \A rt, b : DoneWithin(rt, b)' = IF rt = rt0 /\ d0 <= b THEN DoneWithin(rt, b) \cup {r} ELSE DoneWithin(rt, b)
    BY <1>4, <2>1 DEF DoneWithin
  <2> QED
    BY <2>2, <2>3
<1>7. r \notin DoneFor(rt0) /\ \A b : r \notin DoneWithin(rt0, b)
  BY <1>4 DEF DoneFor, DoneWithin
<1> HIDE DEF rt0, d0
<1>8. /\ \A rt \in Routes : histograms'[rt].count = IF rt = rt0 THEN histograms[rt].count + 1 ELSE histograms[rt].count
      /\ \A rt \in Routes, b \in Buckets :
            histograms'[rt].buckets[b] = IF rt = rt0 /\ d0 <= b THEN histograms[rt].buckets[b] + 1
                                         ELSE histograms[rt].buckets[b]
  BY <1>2, Tables DEF Observe, HistogramNat
<1>9. histograms' \in [Routes -> HistogramNat]
  <2>1. histograms[rt0] \in HistogramNat
    BY <1>3, Tables
  <2>2. Observe(histograms[rt0], d0) \in HistogramNat
    BY <2>1 DEF Observe, HistogramNat
  <2> QED
    BY <1>2, <2>2, Tables
<1>10. Total(CountsOf(histograms')) = Total(CountsOf(histograms)) + 1
  <2>1. CountsOf(histograms) \in [Routes -> Nat]
    BY Tables DEF CountsOf, HistogramNat
  <2>2. CountsOf(histograms') = [CountsOf(histograms) EXCEPT ![rt0] = @ + 1]
    BY <1>3, <1>8 DEF CountsOf
  <2>3. OneMoreAt(Routes, rt0, CountsOf(histograms), CountsOf(histograms'))
    BY <1>3, <2>1, <2>2 DEF OneMoreAt
  <2> QED
    BY <2>3, Finite, TotalGrows
<1>11. HistogramsInv'
  <2>1. /\ Cardinality(Done \cup {r}) = Cardinality(Done) + 1
        /\ Cardinality(DoneFor(rt0) \cup {r}) = Cardinality(DoneFor(rt0)) + 1
        /\ \A b : Cardinality(DoneWithin(rt0, b) \cup {r}) = Cardinality(DoneWithin(rt0, b)) + 1
    BY <1>4, <1>7, CountedSets, OneMore
  <2>2. Total(CountsOf(histograms')) = Cardinality(Done')
    BY <1>4, <1>10, <2>1 DEF Inv, HistogramsInv
  <2>3. \A rt \in Routes : histograms'[rt].count = Cardinality(DoneFor(rt)')
    BY <1>6, <1>8, <2>1 DEF Inv, HistogramsInv
  <2>4. \A rt \in Routes, b \in Buckets : histograms'[rt].buckets[b] = Cardinality(DoneWithin(rt, b)')
    BY <1>6, <1>8, <2>1 DEF Inv, HistogramsInv
  <2> QED
    BY <2>2, <2>3, <2>4 DEF HistogramsInv, CountsOf
<1>12. CountersInv' /\ HandlersOK'
  BY <1>1, <1>2, <1>4, <1>5, HandlersKept DEF Inv, CountersInv, OfRoute
<1>13. PageInv'
  <2>1. \A rt \in Routes : rejections[rt] \in Nat /\ rejections'[rt] \in Nat /\ rejections'[rt] >= rejections[rt]
    BY <1>2, Tables
  <2> QED
    BY <1>1, <1>4, <2>1, PageKept DEF Moves
<1>14. TypeOK'
  BY <1>1, <1>2, <1>9, <1>11, <1>12, Tables, TypeKept DEF Moves
<1> QED
  BY <1>11, <1>12, <1>13, <1>14 DEF Inv

\* ActiveConnections.Inc: the request is among the arrived and the raised from now on.
LEMMA ArriveKeepsInv ==
    ASSUME Inv, NEW r \in Requests, NEW out \in Outcomes, Arrive(r, out)
    PROVE  Inv'
<1> DEFINE next == IF out.denied THEN "reject" ELSE "dec"
           h == [next |-> next, out |-> out]
<1>1. /\ handler[r] = Unsent /\ active' = active + 1 /\ handler' = [handler EXCEPT ![r] = h]
      /\ UNCHANGED <<requestsTotal, rejections, histograms, scrape, page, before, shown>>
  BY DEF Arrive, HandlerOrder
<1>2. h.next \in {"reject", "dec"} /\ h.out = out /\ (h.next = "reject" => out.denied)
  OBVIOUS
<1>3. h \in [next: {"reject", "dec", "count", "observe", "nothing"}, out: Outcomes] /\ h # Unsent
  BY DEF Unsent
<1> HIDE DEF h
<1>4. \A q \in Requests : handler'[q] = IF q = r THEN h ELSE handler[q]
  BY <1>1, Tables DEF HandlerType
<1>5. r \notin Arrived /\ Arrived' = Arrived \cup {r}
  BY <1>1, <1>3, <1>4 DEF Arrived
<1>6. \A q \in Arrived : handler'[q] = handler[q]
  BY <1>4, <1>5, CountedSets
<1>7. handler'[r] = h
  BY <1>4
<1>8. r \notin Raised /\ Raised' = Raised \cup {r}
  BY <1>2, <1>5, <1>6, <1>7 DEF Raised
<1>9. Counted' = Counted
  BY <1>2, <1>5, <1>6, <1>7 DEF Counted
<1>10. Done' = Done
  BY <1>2, <1>5, <1>6, <1>7 DEF Done
<1>11. \A rt : Rejected(rt)' = Rejected(rt)
  <2>1. h.out.denied => h.next = "reject"
    BY DEF h
  <2> QED
    BY <1>5, <1>6, <1>7, <2>1 DEF Rejected
<1>12. Counted \subseteq Arrived /\ Done \subseteq Arrived
  BY DEF Counted, Done
<1>13. /\ \A rt : CountedFor(rt)' = CountedFor(rt) /\ \A s : CountedWith(rt, s)' = CountedWith(rt, s)
       /\ \A rt : DoneFor(rt)' = DoneFor(rt) /\ \A b : DoneWithin(rt, b)' = DoneWithin(rt, b)
  BY <1>6, <1>9, <1>10, <1>12 DEF CountedFor, CountedWith, DoneFor, DoneWithin
<1>14. HandlersOK'
  BY <1>2, <1>5, <1>6, <1>7 DEF Inv, HandlersOK
<1>15. CountersInv'
  <2>1. Cardinality(Raised \cup {r}) = Cardinality(Raised) + 1
    BY <1>8, CountedSets, OneMore
  <2> QED
    BY <1>1, <1>8, <1>9, <1>11, <1>13, <2>1 DEF Inv, CountersInv, OfRoute
<1>16. HistogramsInv'
  BY <1>1, <1>10, <1>13, HistogramsKept DEF Inv
<1>17. PageInv'
  <2>1. \A rt \in Routes : rejections[rt] \in Nat /\ rejections'[rt] \in Nat /\ rejections'[rt] >= rejections[rt]
    BY <1>1, Tables
  <2> QED
    BY <1>1, <1>5, <1>6, <1>9, <1>10, <2>1, PageKept
<1>18. TypeOK'
  <2>1. handler' \in HandlerType
    BY <1>1, <1>3, Tables DEF HandlerType
  <2> QED
    BY <1>1, <1>15, <1>16, <2>1, Tables, TypeKept
<1> QED
  BY <1>14, <1>15, <1>16, <1>17, <1>18 DEF Inv
-----------------------------------------------------------------------------
(* The steps of a scrape.                                                  *)

\* What a scrape leaves alone, and what it may rely on.
LEMMA CollectorsKept ==
    ASSUME Inv, UNCHANGED <<handler, active, requestsTotal, rejections, histograms>>
    PROVE  /\ HandlersOK' /\ CountersInv' /\ HistogramsInv'
           /\ Arrived' = Arrived /\ Counted' = Counted /\ Done' = Done
<1>1. Arrived' = Arrived
  BY DEF Arrived
<1>2. Raised' = Raised /\ Counted' = Counted /\ Done' = Done
  BY <1>1 DEF Raised, Counted, Done
<1>3. \A rt : /\ Rejected(rt)' = Rejected(rt) /\ CountedFor(rt)' = CountedFor(rt) /\ DoneFor(rt)' = DoneFor(rt)
              /\ \A s : CountedWith(rt, s)' = CountedWith(rt, s)
              /\ \A b : DoneWithin(rt, b)' = DoneWithin(rt, b)
  BY <1>1, <1>2 DEF Rejected, CountedFor, CountedWith, DoneFor, DoneWithin
<1>4. HandlersOK'
  BY <1>1 DEF Inv, HandlersOK
<1>5. CountersInv'
  BY <1>2, <1>3 DEF Inv, CountersInv, OfRoute
<1>6. HistogramsInv'
  BY <1>2, <1>3 DEF Inv, HistogramsInv, CountsOf
<1> QED
  BY <1>1, <1>2, <1>4, <1>5, <1>6

PageType ==
    [total: [Labels -> Counts], rejections: [Routes -> Counts], active: Counts, histograms: [Routes -> Histogram]]

\* The type of the page is all a scrape has to keep.
LEMMA ScrapeTypeKept ==
    ASSUME Inv, UNCHANGED <<handler, active, requestsTotal, rejections, histograms>>, page' \in PageType,
           scrape' \in {"none", "total", "rejections", "active", "histograms"}, before' \subseteq Requests,
           shown' \subseteq Requests
    PROVE  TypeOK'
BY DEF Inv, TypeOK, PageType, Counts, Histogram

\* Every scrape starts from an empty page.
LEMMA EmptyPage == NewPage \in PageType /\ \A rt \in Routes : Cumulative(NewPage.histograms[rt])
<1>1. 0 \in Counts
  BY Finite, FS_CardinalityType DEF Counts
<1>2. NewHistogram \in Histogram /\ Cumulative(NewHistogram)
  BY <1>1 DEF NewHistogram, Histogram, Cumulative
<1> QED
  BY <1>1, <1>2 DEF NewPage, PageType

\* A scrape begins: what is over now is what the page must not miss.
LEMMA BeginKeepsInv ==
    ASSUME Inv, BeginScrape
    PROVE  Inv'
<1>1. /\ scrape' = "total" /\ page' = NewPage /\ before' = Done /\ shown' = {}
      /\ UNCHANGED <<handler, active, requestsTotal, rejections, histograms>>
  BY DEF BeginScrape, ScrapeOrder
<1>2. /\ HandlersOK' /\ CountersInv' /\ HistogramsInv' /\ Done' = Done
  BY <1>1, CollectorsKept
<1>3. TypeOK'
  BY <1>1, EmptyPage, CountedSets, ScrapeTypeKept
<1>4. \A rt \in Routes : Cumulative(page'.histograms[rt])
  BY <1>1, EmptyPage
<1>5. PageInv'
  BY <1>1, <1>2, <1>4 DEF PageInv, Cumulative, NewPage, NewHistogram
<1> QED
  BY <1>2, <1>3, <1>5 DEF Inv

\* renderCounters: what was over before has been counted, and a denied request
\* that has been counted has been recorded as a rejection.
LEMMA TotalKeepsInv ==
    ASSUME Inv, RenderTotal
    PROVE  Inv'
<1>1. /\ scrape = "total" /\ scrape' = "rejections" /\ page' = [page EXCEPT !.total = requestsTotal] /\ shown' = Counted
      /\ UNCHANGED <<handler, active, requestsTotal, rejections, histograms, before>>
  BY DEF RenderTotal, Renders, ScrapeOrder
<1>2. HandlersOK' /\ CountersInv' /\ HistogramsInv' /\ Counted' = Counted /\ Done' = Done
  BY <1>1, CollectorsKept
<1>3. page \in PageType /\ requestsTotal \in [Labels -> Counts] /\ before \subseteq Requests
  BY DEF Inv, TypeOK, PageType
<1>4. page'.total = requestsTotal /\ page'.histograms = page.histograms /\ page' \in PageType
  BY <1>1, <1>3 DEF PageType
<1>5. TypeOK'
  BY <1>1, <1>3, <1>4, CountedSets, ScrapeTypeKept
<1>6. Cardinality(before) <= Total(requestsTotal) /\ Total(requestsTotal) <= Cardinality(Counted)
  <2>1. before \subseteq Counted /\ Counted \in SUBSET Requests
    BY CountedSets DEF Inv, PageInv
  <2>2. Cardinality(before) <= Cardinality(Counted) /\ Cardinality(Counted) \in Nat
    BY <2>1, Small
  <2> QED
    BY <2>2 DEF Inv, CountersInv
<1>7. \A rt \in Routes : requestsTotal[<<rt, 429>>] <= rejections[rt] + Cardinality(ProxiedOn(rt)')
  <2> SUFFICES ASSUME NEW rt \in Routes
               PROVE  requestsTotal[<<rt, 429>>] <= rejections[rt] + Cardinality(ProxiedOn(rt)')
    OBVIOUS
  <2> DEFINE Proxied == {r \in CountedWith(rt, 429) : ~handler[r].out.denied}
  <2>1. ProxiedOn(rt)' = Proxied
    BY <1>1 DEF ProxiedOn, CountedWith
  <2>2. CountedWith(rt, 429) \subseteq Rejected(rt) \cup Proxied
    BY DEF CountedWith, Counted, Rejected
  <2>3. Rejected(rt) \in SUBSET Requests /\ Proxied \in SUBSET Requests
    BY CountedSets
  <2> HIDE DEF Proxied
  <2>4. /\ IsFiniteSet(Rejected(rt)) /\ Cardinality(Rejected(rt)) \in Nat
        /\ IsFiniteSet(Proxied) /\ Cardinality(Proxied) \in Nat
    BY <2>3, Small
  <2>5. /\ Cardinality(Rejected(rt) \cup Proxied) =
              Cardinality(Rejected(rt)) + Cardinality(Proxied) - Cardinality(Rejected(rt) \cap Proxied)
        /\ Cardinality(Rejected(rt) \cap Proxied) \in Nat
    BY <2>3, <2>4, FS_Union, Small
  <2>6. /\ Cardinality(CountedWith(rt, 429)) <= Cardinality(Rejected(rt) \cup Proxied)
        /\ Cardinality(CountedWith(rt, 429)) \in Nat
    BY <2>2, <2>3, CountedSets, Small
  <2>7. 429 \in Statuses
    BY MetricsAssumption DEF MetricsAssumption
  <2>8. requestsTotal[<<rt, 429>>] = Cardinality(CountedWith(rt, 429)) /\ rejections[rt] = Cardinality(Rejected(rt))
    BY <2>7 DEF Inv, CountersInv
  <2> QED
    BY <2>1, <2>4, <2>5, <2>6, <2>8
<1>8. PageInv'
  BY <1>1, <1>2, <1>4, <1>6, <1>7 DEF Inv, PageInv, Cumulative, CountsOf, NewPage
<1> QED
  BY <1>2, <1>5, <1>8 DEF Inv

\* renderCounters, of the rejections: no fewer than when the requests were rendered.
LEMMA RejectionsKeepInv ==
    ASSUME Inv, RenderRejections
    PROVE  Inv'
<1>1. /\ scrape = "rejections" /\ scrape' = "active" /\ page' = [page EXCEPT !.rejections = rejections]
      /\ UNCHANGED <<handler, active, requestsTotal, rejections, histograms, before, shown>>
  BY DEF RenderRejections, Renders, ScrapeOrder
<1>2. HandlersOK' /\ CountersInv' /\ HistogramsInv' /\ Counted' = Counted /\ Done' = Done
  BY <1>1, CollectorsKept
<1>3. page \in PageType /\ rejections \in [Routes -> Counts] /\ before \subseteq Requests /\ shown \subseteq Requests
  BY DEF Inv, TypeOK, PageType
<1>4. /\ page'.rejections = rejections /\ page'.total = page.total /\ page'.histograms = page.histograms
      /\ page' \in PageType
  BY <1>1, <1>3 DEF PageType
<1>5. TypeOK'
  BY <1>1, <1>3, <1>4, ScrapeTypeKept
<1>6. PageInv'
  BY <1>1, <1>2, <1>4 DEF Inv, PageInv, Cumulative, CountsOf, NewPage, ProxiedOn
<1> QED
  BY <1>2, <1>5, <1>6 DEF Inv

\* renderGauges: a request that the page has counted has lowered the gauge.
LEMMA ActiveKeepsInv ==
    ASSUME Inv, RenderActive
    PROVE  Inv'
<1>1. /\ scrape = "active" /\ scrape' = "histograms" /\ page' = [page EXCEPT !.active = active]
      /\ UNCHANGED <<handler, active, requestsTotal, rejections, histograms, before, shown>>
  BY DEF RenderActive, Renders, ScrapeOrder
<1>2. HandlersOK' /\ CountersInv' /\ HistogramsInv' /\ Arrived' = Arrived /\ Counted' = Counted /\ Done' = Done
  BY <1>1, CollectorsKept
<1>3. page \in PageType /\ active \in Counts /\ before \subseteq Requests /\ shown \subseteq Requests
  BY DEF Inv, TypeOK, PageType
<1>4. /\ page'.active = active /\ page'.total = page.total /\ page'.rejections = page.rejections
      /\ page'.histograms = page.histograms /\ page' \in PageType
  BY <1>1, <1>3 DEF PageType
<1>5. TypeOK'
  BY <1>1, <1>3, <1>4, ScrapeTypeKept
<1>6. Total(page.total) + active <= Cardinality(Arrived)
  <2>1. Total(page.total) <= Cardinality(Counted) /\ active = Cardinality(Raised)
    BY <1>1 DEF Inv, PageInv, CountersInv
  <2>2. Counted \cup Raised \in SUBSET Arrived /\ Counted \cap Raised = {}
    BY DEF Counted, Raised
  <2>3. IsFiniteSet(Counted) /\ IsFiniteSet(Raised) /\ Cardinality(Counted) \in Nat /\ Cardinality(Raised) \in Nat
    BY CountedSets, Small
  <2>4. Cardinality(Counted \cup Raised) = Cardinality(Counted) + Cardinality(Raised)
    <3>1. Cardinality(Counted \cup Raised) =
              Cardinality(Counted) + Cardinality(Raised) - Cardinality(Counted \cap Raised)
      BY <2>3, FS_Union
    <3>2. Cardinality(Counted \cap Raised) = 0
      BY <2>2, FS_EmptySet
    <3> QED
      BY <2>3, <3>1, <3>2
  <2>5. Cardinality(Counted \cup Raised) <= Cardinality(Arrived) /\ Cardinality(Arrived) \in Nat
    BY <2>2, CountedSets, Small
  <2>6. Total(page.total) \in Nat
    <3>1. page.total \in [Labels -> Nat]
      BY <1>3 DEF PageType, Counts
    <3> QED
      BY <3>1, Finite, TotalFacts
  <2> QED
    BY <2>1, <2>3, <2>4, <2>5, <2>6
<1>7. PageInv'
  <2>1. \A rt : ProxiedOn(rt)' = ProxiedOn(rt)
    BY <1>1 DEF ProxiedOn
  <2>2. \A rt \in Routes : Cumulative(page'.histograms[rt])
    BY <1>4 DEF Inv, PageInv
  <2>3. \A rt \in Routes :
            page'.total[<<rt, 429>>] <= page'.rejections[rt] + Cardinality(ProxiedOn(rt)')
    BY <1>1, <1>4, <2>1 DEF Inv, PageInv
  <2>4. /\ before' \subseteq Done' /\ shown' \subseteq Counted'
        /\ Cardinality(before') <= Total(page'.total)
        /\ Total(page'.total) + page'.active <= Cardinality(Arrived')
    BY <1>1, <1>2, <1>4, <1>6 DEF Inv, PageInv
  <2> QED
    BY <1>1, <2>2, <2>3, <2>4 DEF PageInv, Cumulative
<1> QED
  BY <1>2, <1>5, <1>7 DEF Inv

\* renderHistograms: one lock over all of them, so the buckets fit each other.
LEMMA HistogramsKeepInv ==
    ASSUME Inv, RenderHistograms
    PROVE  Inv'
<1>1. /\ scrape = "histograms" /\ scrape' = "none" /\ page' = [page EXCEPT !.histograms = histograms]
      /\ UNCHANGED <<handler, active, requestsTotal, rejections, histograms, before, shown>>
  BY DEF RenderHistograms, Renders, ScrapeOrder
<1>2. HandlersOK' /\ CountersInv' /\ HistogramsInv' /\ Arrived' = Arrived /\ Counted' = Counted /\ Done' = Done
  BY <1>1, CollectorsKept
<1>3. page \in PageType /\ histograms \in [Routes -> Histogram] /\ before \subseteq Requests /\ shown \subseteq Requests
  BY DEF Inv, TypeOK, PageType
<1>4. /\ page'.histograms = histograms /\ page'.total = page.total /\ page'.rejections = page.rejections
      /\ page'.active = page.active /\ page' \in PageType
  BY <1>1, <1>3 DEF PageType
<1>5. TypeOK'
  BY <1>1, <1>3, <1>4, ScrapeTypeKept
<1>6. \A rt \in Routes : Cumulative(histograms[rt])
  <2> SUFFICES ASSUME NEW rt \in Routes, NEW b \in Buckets, NEW c \in Buckets, b <= c
               PROVE  histograms[rt].buckets[b] <= histograms[rt].buckets[c] /\ histograms[rt].buckets[c] <= histograms[rt].count
    BY DEF Cumulative
  <2>1. \A r \in Done : handler[r].out.duration \in Nat
    <3>1. \A r \in Arrived : handler[r].out \in Outcomes
      BY Tables DEF HandlerType, Arrived
    <3>2. \A out \in Outcomes : out.duration \in Nat
      BY OutcomeParts, MetricsAssumption DEF MetricsAssumption
    <3> QED
      BY <3>1, <3>2 DEF Done
  <2>2. b \in Nat /\ c \in Nat
    BY MetricsAssumption DEF MetricsAssumption
  <2>3. DoneWithin(rt, b) \in SUBSET DoneWithin(rt, c) /\ DoneWithin(rt, c) \in SUBSET DoneFor(rt)
    BY <2>1, <2>2 DEF DoneWithin, DoneFor
  <2>4. /\ Cardinality(DoneWithin(rt, b)) <= Cardinality(DoneWithin(rt, c))
        /\ Cardinality(DoneWithin(rt, c)) <= Cardinality(DoneFor(rt))
    BY <2>3, CountedSets, Small
  <2> QED
    BY <2>4 DEF Inv, HistogramsInv
<1>7. Cardinality(before) <= Total(CountsOf(histograms))
  <2>1. before \in SUBSET Done
    BY DEF Inv, PageInv
  <2>2. Cardinality(before) <= Cardinality(Done)
    BY <2>1, CountedSets, Small
  <2> QED
    BY <2>2 DEF Inv, HistogramsInv
<1>8. PageInv'
  <2>1. CountsOf(histograms)' = CountsOf(histograms) /\ CountsOf(page.histograms)' = CountsOf(histograms)
    BY <1>1, <1>4 DEF CountsOf
  <2>2. \A rt \in Routes : Cumulative(page'.histograms[rt])
    BY <1>4, <1>6
  <2>3. \A rt : ProxiedOn(rt)' = ProxiedOn(rt)
    BY <1>1 DEF ProxiedOn
  <2>4. \A rt \in Routes :
            page'.total[<<rt, 429>>] <= page'.rejections[rt] + Cardinality(ProxiedOn(rt)')
    BY <1>1, <1>4, <2>3 DEF Inv, PageInv
  <2>5. /\ before' \subseteq Done' /\ shown' \subseteq Counted'
        /\ Cardinality(before') <= Total(page'.total)
        /\ Total(page'.total) + page'.active <= Cardinality(Arrived')
    BY <1>1, <1>2, <1>4 DEF Inv, PageInv
  <2>6. Cardinality(before') <= Total(CountsOf(page.histograms)')
    BY <1>1, <1>7, <2>1
  <2> QED
    BY <1>1, <2>2, <2>4, <2>5, <2>6 DEF PageInv, Cumulative, CountsOf
<1> QED
  BY <1>2, <1>5, <1>8 DEF Inv
-----------------------------------------------------------------------------
(* The inductive invariant holds, and with it the properties.              *)

\* Nothing has been counted yet, and the sums over nothing are zero.
LEMMA InvInit == Init => Inv
<1> SUFFICES ASSUME Init PROVE Inv
  OBVIOUS
<1>1. Arrived = {}
  BY DEF Init, Arrived
<1>2. /\ Raised = {} /\ Counted = {} /\ Done = {}
      /\ \A rt : /\ Rejected(rt) = {} /\ CountedFor(rt) = {} /\ DoneFor(rt) = {}
                 /\ \A s : CountedWith(rt, s) = {}
                 /\ \A b : DoneWithin(rt, b) = {}
  BY <1>1 DEF Raised, Counted, Done, Rejected, CountedFor, CountedWith, DoneFor, DoneWithin
<1>3. Cardinality({}) = 0
  BY FS_EmptySet
<1>4. /\ requestsTotal = [l \in Labels |-> 0] /\ rejections = [rt \in Routes |-> 0]
      /\ histograms = [rt \in Routes |-> NewHistogram] /\ active = 0
      /\ page = NewPage /\ page.total = requestsTotal /\ page.histograms = histograms
      /\ page.rejections = rejections /\ page.active = 0
      /\ scrape = "none" /\ before = {} /\ shown = {}
  BY DEF Init, NewPage
<1>5. Total(requestsTotal) = 0
  <2>1. requestsTotal \in [Labels -> Nat] /\ \A l \in Labels : requestsTotal[l] = 0
    BY <1>4
  <2> QED
    BY <2>1, Finite, TotalFacts
<1>6. \A rt \in Routes : Total(OfRoute(requestsTotal, rt)) = 0
  <2> SUFFICES ASSUME NEW rt \in Routes PROVE Total(OfRoute(requestsTotal, rt)) = 0
    OBVIOUS
  <2>1. \A s \in Statuses : requestsTotal[<<rt, s>>] = 0
    BY <1>4 DEF Labels
  <2>2. OfRoute(requestsTotal, rt) \in [Statuses -> Nat] /\ \A s \in Statuses : OfRoute(requestsTotal, rt)[s] = 0
    BY <2>1 DEF OfRoute
  <2> QED
    BY <2>2, Finite, TotalFacts
<1>7. Total(CountsOf(histograms)) = 0
  <2>1. CountsOf(histograms) \in [Routes -> Nat] /\ \A rt \in Routes : CountsOf(histograms)[rt] = 0
    BY <1>4 DEF CountsOf, NewHistogram
  <2> QED
    BY <2>1, Finite, TotalFacts
<1>8. CountersInv
  <2>1. \A rt \in Routes : rejections[rt] = 0 /\ \A s \in Statuses : requestsTotal[<<rt, s>>] = 0
    BY <1>4 DEF Labels
  <2> QED
    BY <1>2, <1>3, <1>4, <1>5, <1>6, <2>1 DEF CountersInv
<1>9. HistogramsInv
  <2>1. \A rt \in Routes : histograms[rt].count = 0 /\ \A b \in Buckets : histograms[rt].buckets[b] = 0
    BY <1>4 DEF NewHistogram
  <2> QED
    BY <1>2, <1>3, <1>7, <2>1 DEF HistogramsInv
<1>10. HandlersOK
  BY <1>1 DEF HandlersOK
<1>11. TypeOK
  <2>1. NewPage \in PageType /\ requestsTotal = NewPage.total /\ rejections = NewPage.rejections /\ histograms = NewPage.histograms
    BY EmptyPage DEF Init
  <2>2. 0 \in Counts
    BY Finite, FS_CardinalityType DEF Counts
  <2>3. handler \in [Requests -> {Unsent}]
    BY DEF Init
  <2> HIDE DEF NewPage
  <2> QED
    BY <1>4, <2>1, <2>2, <2>3 DEF TypeOK, PageType
<1>12. PageInv
  <2>1. \A rt \in Routes : Cumulative(page.histograms[rt])
    BY <1>4, EmptyPage
  <2>2. \A rt \in Routes : page.total[<<rt, 429>>] = 0 /\ page.rejections[rt] = 0
    BY <1>4, MetricsAssumption DEF Labels, MetricsAssumption
  <2>3. \A rt : Cardinality(ProxiedOn(rt)) = 0
    <3>1. \A rt : ProxiedOn(rt) = {}
      BY <1>4 DEF ProxiedOn
    <3> QED
      BY <1>3, <3>1
  <2> QED
    BY <1>1, <1>2, <1>3, <1>4, <1>5, <1>7, <2>1, <2>2, <2>3 DEF PageInv
<1> QED
  BY <1>8, <1>9, <1>10, <1>11, <1>12 DEF Inv

\* Every step keeps the inductive invariant.
LEMMA InvNext == Inv /\ [Next]_vars => Inv'
<1> SUFFICES ASSUME Inv, [Next]_vars PROVE Inv'
  OBVIOUS
<1>1. ASSUME NEW r \in Requests, NEW out \in Outcomes, Arrive(r, out) PROVE Inv'
  BY <1>1, ArriveKeepsInv
<1>2. ASSUME NEW r \in Requests,
             RecordRateLimitRejection(r) \/ LowerGauge(r) \/ CountRequest(r) \/ ObserveDuration(r)
      PROVE  Inv'
  BY <1>2, RejectKeepsInv, LowerKeepsInv, CountKeepsInv, ObserveKeepsInv
<1>3. ASSUME BeginScrape \/ RenderTotal \/ RenderRejections \/ RenderActive \/ RenderHistograms PROVE Inv'
  BY <1>3, BeginKeepsInv, TotalKeepsInv, RejectionsKeepInv, ActiveKeepsInv, HistogramsKeepInv
<1>4. ASSUME UNCHANGED vars PROVE Inv'
  <2>1. UNCHANGED <<handler, active, requestsTotal, rejections, histograms, scrape, page, before, shown>>
    BY <1>4 DEF vars
  <2>2. HandlersOK' /\ CountersInv' /\ HistogramsInv' /\ Arrived' = Arrived /\ Counted' = Counted /\ Done' = Done
    BY <2>1, CollectorsKept
  <2>3. \A rt \in Routes : rejections[rt] \in Nat
    BY Tables
  <2>4. PageInv'
    BY <2>1, <2>2, <2>3, PageKept
  <2>5. TypeOK'
    BY <2>1 DEF Inv, TypeOK, Counts, Histogram
  <2> QED
    BY <2>2, <2>4, <2>5 DEF Inv
<1> QED
  BY <1>1, <1>2, <1>3, <1>4 DEF Next

\* The inductive invariant holds throughout.
THEOREM Invariance == Spec => []Inv
BY InvInit, InvNext, PTL DEF Spec

\* Every collector and every page keeps its type; no counter exceeds the number
\* of requests there are (ActiveConnections never falls below zero).
THEOREM TypeCorrect == Spec => []TypeOK
<1>1. Inv => TypeOK
  BY DEF Inv
<1> QED
  BY <1>1, Invariance, PTL

\* A page counts no request as finished and as active, and misses none that was
\* over when the scrape began (the deferred function of serveRoute; ServeHTTP).
THEOREM PagesConsistent == Spec => []PagesAddUp
<1>1. Inv => PagesAddUp
  BY DEF Inv, PageInv, PagesAddUp, Observed, CountsOf
<1> QED
  BY <1>1, Invariance, PTL

\* The 429s of a route on a page that its upstreams did not answer are no more
\* than the rejections on it (checkRateLimit, RecordRequest, renderCounters).
THEOREM RejectionsExplain == Spec => []DenialsExplained
<1>1. Inv => DenialsExplained
  BY DEF Inv, PageInv, DenialsExplained
<1> QED
  BY <1>1, Invariance, PTL

\* Buckets are cumulative on every page, and a route's counters and its
\* histogram differ by the handlers between the two updates of RecordRequest.
THEOREM HistogramsFit == Spec => []HistogramsAgree
<1>1. ASSUME Inv, NEW rt \in Routes
      PROVE  Total(OfRoute(requestsTotal, rt)) =
                 histograms[rt].count +
                 Cardinality({r \in Arrived : handler[r].next = "observe" /\ handler[r].out.route = rt})
  <2> DEFINE Between == {r \in Arrived : handler[r].next = "observe" /\ handler[r].out.route = rt}
  <2>1. CountedFor(rt) = DoneFor(rt) \cup Between /\ DoneFor(rt) \cap Between = {}
    BY DEF CountedFor, Counted, DoneFor, Done
  <2>2. Between \in SUBSET Requests /\ DoneFor(rt) \in SUBSET Requests
    BY DEF DoneFor, Done, Arrived
  <2> HIDE DEF Between
  <2>3. /\ IsFiniteSet(DoneFor(rt)) /\ IsFiniteSet(Between)
        /\ Cardinality(DoneFor(rt)) \in Nat /\ Cardinality(Between) \in Nat
    BY <2>2, Small
  <2>4. Cardinality(DoneFor(rt) \cup Between) =
            Cardinality(DoneFor(rt)) + Cardinality(Between) - Cardinality(DoneFor(rt) \cap Between)
    BY <2>3, FS_Union
  <2>5. Cardinality(DoneFor(rt) \cap Between) = 0
    BY <2>1, FS_EmptySet
  <2>6. Total(OfRoute(requestsTotal, rt)) = Cardinality(CountedFor(rt)) /\ histograms[rt].count = Cardinality(DoneFor(rt))
    BY <1>1 DEF Inv, CountersInv, HistogramsInv
  <2>7. Total(OfRoute(requestsTotal, rt)) = histograms[rt].count + Cardinality(Between)
    BY <2>1, <2>3, <2>4, <2>5, <2>6
  <2> QED
    BY <2>7 DEF Between
<1>2. Inv => HistogramsAgree
  BY <1>1 DEF Inv, PageInv, Cumulative, HistogramsAgree, OfRoute
<1> QED
  BY <1>2, Invariance, PTL

=============================================================================
