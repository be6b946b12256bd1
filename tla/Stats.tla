------------------------------- MODULE Stats --------------------------------
(***************************************************************************)
(* The metrics of a run (internal/stats): a collector with its histograms, *)
(* the snapshot a worker sends to the master, the merge of snapshots and   *)
(* the summary; and the Prometheus exporter that shows the metrics of a    *)
(* local run while it lasts (internal/output/prometheus.go).               *)
(*                                                                         *)
(* Workers add results to collectors of their own; the master merges each  *)
(* worker's snapshot in the order the workers finish.  The reference is a  *)
(* local run that collects every result, with the exporter attached.       *)
(*                                                                         *)
(* A duration is counted in fractions of a microsecond: Micro of them are  *)
(* one.  0 and "" are the zero values of a result: nothing was reported.   *)
(* model is kept by the rule of provider.  A rate is a whole number, so    *)
(* the rounding of floating-point sums is not modelled.                    *)
(***************************************************************************)
EXTENDS Integers, Sequences, FiniteSets, FiniteSetsExt, SequencesExt

CONSTANTS Workers,     \* worker processes
          Bounds,      \* upper bounds of the histograms' buckets, in Micro units
          Micro,       \* clock units per microsecond
          Results,     \* results a request may have
          Windows,     \* when the engine of each worker starts and ends
          RunWindow,   \* when the whole run starts and ends, where it is reported
          Price,       \* the price of 1000 tokens, 0 for none
          MaxResults   \* bound on the results of one run

\* NewHistogram: increasing bounds, the small ones repeated because the real
\* bounds are truncated to whole microseconds.
ASSUME BoundsAssumption ==
    /\ Bounds \in Seq(Nat) /\ Len(Bounds) > 0
    /\ \A i \in 1..(Len(Bounds) - 1) : Bounds[i] <= Bounds[i + 1]
ASSUME UnitsAssumption == Micro \in Nat \ {0} /\ Price \in Nat
\* main.go:49: a master without workers does not start.
ASSUME WorkersAssumption == IsFiniteSet(Workers) /\ Workers # {}
ASSUME WindowsAssumption ==
    /\ \A w \in Workers :
          Windows[w] \in Nat \X Nat /\ 0 < Windows[w][1] /\ Windows[w][1] <= Windows[w][2]
    /\ RunWindow \in Nat \X Nat /\ RunWindow[1] <= RunWindow[2]
\* types.RunResult, without the fields that are only shown.
ASSUME ResultsAssumption ==
    Results \subseteq
        [latency : Nat, success : BOOLEAN, code : Nat, category : STRING, ttft : Nat,
         itl : Seq(Nat), tokens : Nat, estimated : BOOLEAN, rate : Nat, aborted : BOOLEAN,
         upstream : Nat, input : Nat, cache : STRING, provider : STRING]

Buckets == 1..Len(Bounds)
Codes == {r.code : r \in Results} \ {0}
Categories == {r.category : r \in Results} \ {"none"}
Percents == {50, 90, 95, 99}

-----------------------------------------------------------------------------
(* Histogram.                                                              *)

NewHistogram == [i \in Buckets |-> 0]

\* Mutant: a latency on a bound belongs to the next bucket.
BucketAbove(latency) ==
    IF latency >= Bounds[Len(Bounds)] THEN Len(Bounds)
    ELSE Min({i \in Buckets : latency < Bounds[i]})

\* The first bucket that holds the latency, the last one if none does.
BucketIndex(latency) ==
    IF latency > Bounds[Len(Bounds)] THEN Len(Bounds)
    ELSE Min({i \in Buckets : latency <= Bounds[i]})

Record(h, latency) == [h EXCEPT ![BucketIndex(latency)] = @ + 1]

\* 0 stands for a time that was not measured.
RecordMeasured(h, time) == IF time > 0 THEN Record(h, time) ELSE h

\* Mutant: the counts are copied.
HistogramCopy(h, counts) == counts

HistogramMerge(h, counts) == [i \in Buckets |-> h[i] + counts[i]]

Cumulative(h, i) == MapThenSumSet(LAMBDA k : h[k], 1..i)

Total(h) == Cumulative(h, Len(Bounds))

\* int64(math.Ceil(total * q)) for the percentile pct.
Target(total, pct) == (total * pct + 99) \div 100

Quantile(h, pct) ==
    IF Total(h) = 0 THEN 0
    ELSE Bounds[Min({i \in Buckets : Cumulative(h, i) >= Target(Total(h), pct)})]

-----------------------------------------------------------------------------
(* Collector.                                                              *)

One(condition) == IF condition THEN 1 ELSE 0

\* What one result adds to the counters and to the sums of durations.
Counts(r) ==
    [total |-> 1, success |-> One(r.success), failed |-> One(~r.success),
     withTTFT |-> One(r.ttft > 0), withTokens |-> One(r.tokens > 0),
     outputTokens |-> r.tokens, tokenRate |-> r.rate, aborted |-> One(r.aborted),
     withUpstream |-> One(r.upstream > 0), inputTokens |-> r.input,
     cacheRequests |-> One(r.cache # ""), cacheHits |-> One(r.cache = "hit")]
Sums(r) == [latency |-> r.latency, ttft |-> r.ttft, upstream |-> r.upstream]

Metrics == {"latency", "ttft", "itl"}
Counters == {"total", "success", "failed", "withTTFT", "withTokens", "outputTokens", "tokenRate",
             "aborted", "withUpstream", "inputTokens", "cacheRequests", "cacheHits"}

NewCollector ==
    [counts |-> [k \in Counters |-> 0],
     sums |-> [k \in {"latency", "ttft", "upstream"} |-> 0],
     hists |-> [m \in Metrics |-> NewHistogram],
     codes |-> [k \in Codes |-> 0], errors |-> [k \in Categories |-> 0],
     minLatency |-> 0, maxLatency |-> 0, estimated |-> FALSE, provider |-> "",
     window |-> <<0, 0>>]

Plus(f, g) == [k \in DOMAIN f |-> f[k] + g[k]]

\* The first that is not empty.
First(a, b) == IF a = "" THEN b ELSE a

Add(c, r) ==
    [counts |-> Plus(c.counts, Counts(r)),
     sums |-> Plus(c.sums, Sums(r)),
     hists |-> [latency |-> Record(c.hists.latency, r.latency),
                ttft |-> RecordMeasured(c.hists.ttft, r.ttft),
                itl |-> FoldLeft(RecordMeasured, c.hists.itl, r.itl)],
     codes |-> [k \in Codes |-> c.codes[k] + One(r.code = k)],
     errors |-> [k \in Categories |-> c.errors[k] + One(r.category = k)],
     minLatency |-> IF c.counts.total = 0 THEN r.latency ELSE Min({r.latency, c.minLatency}),
     maxLatency |-> Max({c.maxLatency, r.latency}),
     estimated |-> c.estimated \/ (r.tokens > 0 /\ r.estimated),
     provider |-> First(c.provider, r.provider),
     window |-> c.window]

SetWindow(c, window) == [c EXCEPT !.window = window]

\* Durations cross the wire in whole microseconds; tokensEstimated does not
\* cross it.
Truncate(d) == (d \div Micro) * Micro

Snapshot(c) ==
    [c EXCEPT !.sums = [k \in DOMAIN @ |-> Truncate(@[k])],
              !.minLatency = Truncate(@), !.maxLatency = Truncate(@), !.estimated = FALSE]

\* Mutant: the minimum of an empty collector is taken for a latency.
MergedMinOfEmpty(c, s) == Min({c.minLatency, s.minLatency})

\* A snapshot minimum of 0 does not lower one that is already there.
MergedMin(c, s) ==
    IF c.counts.total = 0 \/ (s.minLatency > 0 /\ s.minLatency < c.minLatency)
    THEN s.minLatency ELSE c.minLatency

\* From the earliest start, with 0 for unknown, to the latest end.
MergedWindow(v, u) == <<Min({t \in {v[1], u[1]} : t > 0} \cup {v[1] + u[1]}), Max({v[2], u[2]})>>

\* An empty snapshot has nothing but its window.
MergeSnapshot(c, s) ==
    IF s.counts.total = 0 THEN SetWindow(c, MergedWindow(c.window, s.window))
    ELSE [counts |-> Plus(c.counts, s.counts),
          sums |-> Plus(c.sums, s.sums),
          hists |-> [m \in Metrics |-> HistogramMerge(c.hists[m], s.hists[m])],
          codes |-> Plus(c.codes, s.codes),
          errors |-> Plus(c.errors, s.errors),
          minLatency |-> MergedMin(c, s),
          maxLatency |-> Max({c.maxLatency, s.maxLatency}),
          estimated |-> c.estimated,
          provider |-> First(c.provider, s.provider),
          window |-> MergedWindow(c.window, s.window)]

\* A sum over the requests that reported the duration.
Average(sum, count) == IF count = 0 THEN 0 ELSE sum \div count

Percentiles(c, m) == [p \in Percents |-> Quantile(c.hists[m], p)]

\* A quotient is a pair, <<0, 1>> where the code leaves it 0.
Quotient(a, b) == IF b > 0 THEN <<a, b>> ELSE <<0, 1>>

Summary(c) ==
    LET n == c.counts
        latency == Average(c.sums.latency, n.total)
        upstream == Average(c.sums.upstream, n.withUpstream)
    IN  [counts |-> n, codes |-> c.codes, errors |-> c.errors, window |-> c.window,
         errorRate |-> Quotient(n.failed, n.total),
         requestsPerSecond |-> IF n.total = 0 THEN <<0, 1>>
                               ELSE Quotient(n.total, c.window[2] - c.window[1]),
         minLatency |-> c.minLatency, maxLatency |-> c.maxLatency,
         avgLatency |-> latency,
         avgTTFT |-> Average(c.sums.ttft, n.withTTFT),
         avgUpstream |-> upstream,
         avgOverhead |-> IF latency > 0 /\ upstream > 0 THEN latency - upstream ELSE 0,
         upstreamRatio |-> IF upstream > 0 THEN Quotient(upstream, latency) ELSE Quotient(0, 0),
         percentiles |-> [m \in Metrics |-> Percentiles(c, m)],
         tokensEstimated |-> c.estimated,
         avgTokenRate |-> Quotient(n.tokenRate, n.withTokens),
         cacheHitRate |-> Quotient(n.cacheHits, n.cacheRequests),
         cost |-> n.outputTokens * Price,
         provider |-> c.provider]

-----------------------------------------------------------------------------
VARIABLES local,     \* each worker's collector
          master,    \* the collector of Master.Run
          merged,    \* workers whose snapshot was merged: they are finished
          report,    \* the final summary of Master.Run, if there is one
          all,       \* the collector of the local run
          sorted,    \* the latencies of all results, in increasing order
          observed,  \* the exporter's collector
          pending,   \* the result the engine has collected and not shown it yet
          final,     \* the exporter's final summary, if there is one
          scraped    \* the counts that the last scrape showed

vars == <<local, master, merged, report, all, sorted, observed, pending, final, scraped>>

Init ==
    /\ local = [w \in Workers |-> NewCollector]
    /\ master = NewCollector
    /\ merged = {}
    /\ report = << >>
    /\ all = NewCollector
    /\ sorted = << >>
    /\ observed = NewCollector
    /\ pending = << >>
    /\ final = << >>
    /\ scraped = NewCollector.counts

\* A sequence in increasing order with one more latency at its place.
Ranked(s, latency) ==
    InsertAt(s, Cardinality({i \in DOMAIN s : s[i] <= latency}) + 1, latency)

\* An engine collects a result: that of a worker, and that of the local run.
Collect(w, r) ==
    /\ w \notin merged /\ pending = << >>
    /\ all.counts.total < MaxResults
    /\ local' = [local EXCEPT ![w] = Add(@, r)]
    /\ all' = Add(all, r)
    /\ pending' = <<r>>
    /\ sorted' = Ranked(sorted, r.latency)
    /\ UNCHANGED <<master, merged, report, observed, final, scraped>>

\* Observe: the exporter gets the same result afterwards.
Observe ==
    /\ pending # << >>
    /\ observed' = Add(observed, pending[1])
    /\ pending' = << >>
    /\ UNCHANGED <<local, master, merged, report, all, sorted, final, scraped>>

\* A worker's engine returns and the master merges its snapshot.
MergeWorker(w) ==
    /\ w \notin merged /\ pending = << >>
    /\ master' = MergeSnapshot(master, Snapshot(SetWindow(local[w], Windows[w])))
    /\ merged' = merged \cup {w}
    /\ UNCHANGED <<local, report, all, sorted, observed, pending, final, scraped>>

\* Master.Run after the last worker: the window is that of the run by the
\* master's clock, with the dispatch and its retries, and no longer the merged one.
EndRun ==
    /\ merged = Workers /\ report = << >>
    /\ master' = SetWindow(master, RunWindow)
    /\ report' = <<Summary(master')>>
    /\ UNCHANGED <<local, merged, all, sorted, observed, pending, final, scraped>>

\* The local run returns too, and Finalize freezes the exporter.  It is timed
\* alike, so that the two reports differ in nothing but the way of collecting.
Finalize ==
    /\ merged = Workers /\ final = << >>
    /\ all' = SetWindow(all, RunWindow)
    /\ final' = <<Summary(all')>>
    /\ UNCHANGED <<local, master, merged, report, sorted, observed, pending, scraped>>

\* Mutant: the live collector is rendered and started anew.
ScrapeAndReset ==
    /\ scraped' = IF final # << >> THEN final[1].counts ELSE observed.counts
    /\ observed' = NewCollector
    /\ UNCHANGED <<local, master, merged, report, all, sorted, pending, final>>

\* ServeHTTP: the final summary or that of the moment.  (It sets the window of
\* the exporter's collector, which only the rate of requests depends on.)
Scrape ==
    /\ scraped' = IF final # << >> THEN final[1].counts ELSE Summary(observed).counts
    /\ UNCHANGED <<local, master, merged, report, all, sorted, observed, pending, final>>

Next ==
    \/ \E w \in Workers : MergeWorker(w) \/ \E r \in Results : Collect(w, r)
    \/ EndRun \/ Observe \/ Finalize \/ Scrape

Spec == Init /\ [][Next]_vars

-----------------------------------------------------------------------------
(* Properties.                                                             *)

\* The figures that come from durations, upstreamRatio being a quotient of two.
Durations ==
    {"minLatency", "maxLatency", "avgLatency", "avgTTFT", "avgUpstream", "avgOverhead", "upstreamRatio"}
Exact(summary) ==
    [k \in DOMAIN summary \ (Durations \cup {"provider", "tokensEstimated"}) |-> summary[k]]

\* From the first start to the last end of some workers.
Span(workers) == <<Min({Windows[w][1] : w \in workers}), Max({Windows[w][2] : w \in workers})>>

\* Merging without the raw samples loses nothing but fractions of a microsecond:
\* in whatever order the workers finish, every count, percentile, cost, and rate
\* that is not a ratio of durations, in the report of Master.Run is that of one
\* run of the same time that saw all results (docs/architecture.md:42); a
\* provider is named exactly when one was seen; and until the master's clock
\* replaces it, the window under the live figures spans the workers merged so far.
MergeExact ==
    /\ report # << >> /\ final # << >> =>
          /\ Exact(report[1]) = Exact(final[1])
          /\ report[1].provider = "" <=> final[1].provider = ""
    /\ merged # {} /\ report = << >> => master.window = Span(merged)

\* The maximum is the true one and the minimum too, to the microsecond, unless
\* some request took less than a microsecond; each average is short by less
\* than a microsecond for each worker that was merged.
MergeClose ==
    report # << >> /\ final # << >> /\ all.counts.total > 0 =>
        LET exact == final[1]
            close == report[1]
        IN  /\ close.maxLatency = Truncate(exact.maxLatency)
            /\ exact.minLatency >= Micro => close.minLatency = Truncate(exact.minLatency)
            /\ \A k \in {"avgLatency", "avgTTFT", "avgUpstream"} :
                  close[k] <= exact[k] /\ exact[k] - close[k] < Micro * Cardinality(Workers)

\* A percentile is never below the sample of that rank, and is the smallest
\* bound that is not, as long as no latency is beyond the last bound.
PercentileBounds ==
    \A p \in Percents :
        all.counts.total > 0 =>
            LET sample == sorted[Target(all.counts.total, p)]
                bound  == Quantile(all.hists.latency, p)
            IN  sample <= Bounds[Len(Bounds)] =>
                    /\ sample <= bound
                    /\ \A i \in Buckets : sample <= Bounds[i] => bound <= Bounds[i]

\* What Prometheus needs of a counter: no scrape shows less than an earlier one,
\* although the live figures trail the run and are replaced by its summary at
\* the end; and none shows more than has happened.
ScrapesGrow ==
    [][\A k \in Counters : scraped[k] <= scraped'[k] /\ scraped'[k] <= all'.counts[k]]_vars
=============================================================================
