------------------------------ MODULE Metrics ------------------------------
(***************************************************************************)
(* The request metrics of internal/metrics/prometheus.go: what the request *)
(* handlers of serveRoute write to them and what a scrape of /metrics      *)
(* reads.                                                                  *)
(*                                                                         *)
(* Every collector has a mutex of its own and there is no lock over all of *)
(* them.  A handler updates up to five of them one after the other, and    *)
(* ServeHTTP renders them one after the other, so a page mixes the         *)
(* collectors of several moments.  What it may still be relied on for is   *)
(* decided by the two orders.                                              *)
(*                                                                         *)
(* A request carries its outcome: the label of its route, the status that  *)
(* it is answered with, whether it is the rate limiter that denies it, and *)
(* how long it takes.  An upstream may answer 429 as well, under the same  *)
(* label.  Methods, h.sum and the text format are left out, as are the     *)
(* breaker gauges, which are the subject of BreakerStore.                  *)
(***************************************************************************)
EXTENDS Naturals, FiniteSets, Functions

CONSTANTS
    Requests,   \* requests, each sent at most once
    Routes,     \* route labels, with Unknown among them
    Unknown,    \* the label of requests that match no route
    Statuses,   \* statuses requests are answered with
    Durations,  \* how long a request may take
    Buckets     \* HistogramVec.buckets: the upper bounds

ASSUME MetricsAssumption ==
    /\ IsFiniteSet(Requests) /\ IsFiniteSet(Routes) /\ IsFiniteSet(Statuses)
    /\ {404, 429} \subseteq Statuses
    /\ Unknown \in Routes
    /\ Durations \subseteq Nat /\ Buckets \subseteq Nat

Labels == Routes \X Statuses

\* What becomes of a request: without a route it is answered 404, denied by the
\* rate limiter 429, and otherwise whatever its handler or its upstream answers.
Outcomes ==
    {out \in [route: Routes, status: Statuses, denied: BOOLEAN, duration: Durations] :
        /\ out.route = Unknown => out.status = 404
        /\ out.denied => out.status = 429}

VARIABLES
    handler,        \* per request: its outcome, and what its handler does next
    active,         \* ActiveConnections
    requestsTotal,  \* RequestsTotal
    rejections,     \* RateLimitRejections
    histograms,     \* RequestDuration
    scrape,         \* what the scrape renders next
    page,           \* what it has rendered
    before,         \* history: the requests that were over when the scrape began
    shown           \* history: the requests that the counters on the page count

vars == <<handler, active, requestsTotal, rejections, histograms, scrape, page, before, shown>>

NewHistogram == [count |-> 0, buckets |-> [b \in Buckets |-> 0]]

NewPage ==
    [total |-> [l \in Labels |-> 0], rejections |-> [rt \in Routes |-> 0], active |-> 0,
     histograms |-> [rt \in Routes |-> NewHistogram]]

Unsent == [next |-> "arrive"]

Arrived == {r \in Requests : handler[r] # Unsent}
Counted == {r \in Arrived : handler[r].next \in {"observe", "nothing"}}
Done == {r \in Arrived : handler[r].next = "nothing"}

\* A label that is absent from a collector is rendered as nothing: zero here.
Init ==
    /\ handler = [r \in Requests |-> Unsent]
    /\ active = 0
    /\ requestsTotal = NewPage.total
    /\ rejections = NewPage.rejections
    /\ histograms = NewPage.histograms
    /\ scrape = "none"
    /\ page = NewPage
    /\ before = {}
    /\ shown = {}

-----------------------------------------------------------------------------
(* The collectors: Inc, Dec and Observe, each under its own mutex.         *)

Inc(vec, label) == [vec EXCEPT ![label] = @ + 1]

\* Mutant: an observation counts in the smallest bucket that holds it only.
ObserveInOne(h, val) ==
    [count |-> h.count + 1,
     buckets |-> [b \in Buckets |->
         IF val <= b /\ \A c \in Buckets : val <= c => b <= c THEN h.buckets[b] + 1 ELSE h.buckets[b]]]

Observe(h, val) ==
    [count |-> h.count + 1,
     buckets |-> [b \in Buckets |-> IF val <= b THEN h.buckets[b] + 1 ELSE h.buckets[b]]]

-----------------------------------------------------------------------------
(* A handler of serveRoute.                                                *)

\* Mutant: the request is counted before the gauge is lowered.
HandlerOrderCountFirst ==
    [reject |-> "count", count |-> "observe", observe |-> "dec", dec |-> "nothing"]

\* What a handler does after each of its updates: checkRateLimit records the
\* denial; the deferred function lowers the gauge, then calls RecordRequest.
HandlerOrder ==
    [reject |-> "dec", dec |-> "count", count |-> "observe", observe |-> "nothing"]

Does(r, update) ==
    /\ handler[r].next = update
    /\ handler' = [handler EXCEPT ![r].next = HandlerOrder[update]]
    /\ UNCHANGED <<scrape, page, before, shown>>

\* Mutant: only requests that are served raise the gauge.
ArriveUncounted(r, out) ==
    /\ handler[r] = Unsent
    /\ active' = IF out.denied THEN active ELSE active + 1
    /\ handler' = [handler EXCEPT ![r] =
                      [next |-> IF out.denied THEN "reject" ELSE HandlerOrder["reject"], out |-> out]]
    /\ UNCHANGED <<requestsTotal, rejections, histograms, scrape, page, before, shown>>

\* ActiveConnections.Inc; the answer is written before the next update.
Arrive(r, out) ==
    /\ handler[r] = Unsent
    /\ active' = active + 1
    /\ handler' = [handler EXCEPT ![r] =
                      [next |-> IF out.denied THEN "reject" ELSE HandlerOrder["reject"], out |-> out]]
    /\ UNCHANGED <<requestsTotal, rejections, histograms, scrape, page, before, shown>>

RecordRateLimitRejection(r) ==
    /\ Does(r, "reject")
    /\ rejections' = Inc(rejections, handler[r].out.route)
    /\ UNCHANGED <<active, requestsTotal, histograms>>

LowerGauge(r) ==
    /\ Does(r, "dec")
    /\ active' = active - 1
    /\ UNCHANGED <<requestsTotal, rejections, histograms>>

\* RecordRequest: RequestsTotal.Inc.
CountRequest(r) ==
    /\ Does(r, "count")
    /\ requestsTotal' = Inc(requestsTotal, <<handler[r].out.route, handler[r].out.status>>)
    /\ UNCHANGED <<active, rejections, histograms>>

\* RecordRequest: RequestDuration.Observe.
ObserveDuration(r) ==
    /\ Does(r, "observe")
    /\ histograms' = [histograms EXCEPT ![handler[r].out.route] = Observe(@, handler[r].out.duration)]
    /\ UNCHANGED <<active, requestsTotal, rejections>>

-----------------------------------------------------------------------------
(* ServeHTTP on /metrics: the page is rendered into a buffer, collector by *)
(* collector, and then sent.                                               *)

\* Mutant: the rejections are rendered before the requests.
ScrapeOrderRejectionsFirst ==
    [begin |-> "rejections", rejections |-> "total", total |-> "active",
     active |-> "histograms", histograms |-> "none"]

ScrapeOrder ==
    [begin |-> "total", total |-> "rejections", rejections |-> "active",
     active |-> "histograms", histograms |-> "none"]

Renders(collector) ==
    /\ scrape = collector
    /\ scrape' = ScrapeOrder[collector]
    /\ UNCHANGED <<handler, active, requestsTotal, rejections, histograms, before>>

BeginScrape ==
    /\ scrape = "none"
    /\ scrape' = ScrapeOrder["begin"]
    /\ page' = NewPage
    /\ before' = Done
    /\ shown' = {}
    /\ UNCHANGED <<handler, active, requestsTotal, rejections, histograms>>

\* renderCounters
RenderTotal ==
    /\ Renders("total")
    /\ page' = [page EXCEPT !.total = requestsTotal]
    /\ shown' = Counted

RenderRejections ==
    Renders("rejections") /\ page' = [page EXCEPT !.rejections = rejections] /\ UNCHANGED shown

\* renderGauges
RenderActive == Renders("active") /\ page' = [page EXCEPT !.active = active] /\ UNCHANGED shown

\* renderHistograms, with one lock over all of them
RenderHistograms ==
    Renders("histograms") /\ page' = [page EXCEPT !.histograms = histograms] /\ UNCHANGED shown

-----------------------------------------------------------------------------
Next ==
    \/ \E r \in Requests :
          \/ \E out \in Outcomes : Arrive(r, out)
          \/ RecordRateLimitRejection(r) \/ LowerGauge(r) \/ CountRequest(r) \/ ObserveDuration(r)
    \/ BeginScrape
    \/ RenderTotal \/ RenderRejections \/ RenderActive \/ RenderHistograms

Spec == Init /\ [][Next]_vars

-----------------------------------------------------------------------------
(* Safety.  A page is rendered when the scrape has nothing left to do.     *)

Counts == 0..Cardinality(Requests)
Histogram == [count: Counts, buckets: [Buckets -> Counts]]

TypeOK ==
    /\ handler \in [Requests -> {Unsent} \cup
                       [next: {"reject", "dec", "count", "observe", "nothing"}, out: Outcomes]]
    /\ active \in Counts
    /\ requestsTotal \in [Labels -> Counts]
    /\ rejections \in [Routes -> Counts]
    /\ histograms \in [Routes -> Histogram]
    /\ scrape \in {"none", "total", "rejections", "active", "histograms"}
    /\ page \in [total: [Labels -> Counts], rejections: [Routes -> Counts], active: Counts,
                 histograms: [Routes -> Histogram]]
    /\ before \subseteq Requests /\ shown \subseteq Requests

Total(counts) == FoldFunction(+, 0, counts)
Observed(hs) == Total([rt \in Routes |-> hs[rt].count])

\* A page counts no request twice, once as finished and once as active, although
\* requests finish while it is rendered: the gauge is lowered before the request
\* is counted, and rendered after the counters.  And it misses no request that
\* was over when the scrape began (the deferred function of serveRoute;
\* renderCounters, renderGauges, renderHistograms).
PagesAddUp ==
    scrape = "none" =>
        /\ Total(page.total) + page.active <= Cardinality(Arrived)
        /\ Cardinality(before) <= Total(page.total)
        /\ Cardinality(before) <= Observed(page.histograms)

\* The 429s of a route that a page counts and that its upstreams answered.
ProxiedOn(rt) ==
    {r \in shown : LET out == handler[r].out IN out.route = rt /\ out.status = 429 /\ ~out.denied}

\* On every page the 429s of a route that do not come from its upstreams are
\* explained by its rate-limit rejections: a denial is recorded before its
\* request is counted, and rendered after (checkRateLimit, renderCounters).
DenialsExplained ==
    scrape = "none" =>
        \A rt \in Routes : page.total[<<rt, 429>>] <= page.rejections[rt] + Cardinality(ProxiedOn(rt))

\* The buckets of a histogram are cumulative, as its readers assume, and +Inf,
\* which is h.count, bounds them all; once no handler is between the two
\* updates of RecordRequest, a route's histogram has seen as many requests as
\* its counters.
HistogramsAgree ==
    \A rt \in Routes :
        /\ \A b, c \in Buckets :
              b <= c => /\ page.histograms[rt].buckets[b] <= page.histograms[rt].buckets[c]
                        /\ page.histograms[rt].buckets[c] <= page.histograms[rt].count
        /\ Total([s \in Statuses |-> requestsTotal[<<rt, s>>]]) =
              histograms[rt].count +
              Cardinality({r \in Arrived : handler[r].next = "observe" /\ handler[r].out.route = rt})
=============================================================================
