------------------------------- MODULE Metrics -------------------------------
(***************************************************************************)
(* The metrics registry (MetricsRegistry.cpp): instruments are found or    *)
(* made under mu_ and updated without a lock; a scrape runs the collectors *)
(* under collect_mu_ and then renders under mu_, reading a histogram one   *)
(* atomic at a time while others observe.                                  *)
(***************************************************************************)
EXTENDS Integers, Sequences, SequencesExt, FiniteSetsExt

CONSTANTS Observers,    \* threads that observe one value each
          ValueOf,      \* observer -> the value it observes
          Bounds,       \* the bounds each observer asks for, ascending
          Owners,       \* objects that hold a ScopedMetricsCollector
          MaxScrapes    \* bound of the instance

\* What src/ observes are durations of a steady clock (OwnerThread.cpp:154-164).
ASSUME MetricsAssumption == /\ Bounds \in Seq(Int) /\ IsFiniteSet(Observers)
                            /\ ValueOf \in [Observers -> Nat]
                            /\ "nobody" \notin Owners

VARIABLES family,       \* families_: the histogram's bounds, or NotMade
          buckets, sum, count,   \* its atomics
          observer,     \* observer -> where it is in Observe
          loaded,       \* observer -> the sum its AtomicAdd has read
          collectors,   \* collectors_, in the order of their ids
          owner,        \* owner -> "new", "holding", "gone"
          scrape,       \* where RenderPrometheus is: [at, pos, runs]
          scrapes,      \* scrapes begun
          snap,         \* [cumulative, sum] it has read
          before        \* the observers that were through when it began to read

metricsVars == <<family, buckets, sum, count, observer, loaded, collectors, owner,
                 scrape, scrapes, snap, before>>
histogram == <<family, buckets, sum, count, observer, loaded>>
registry == <<collectors, owner>>
scraper == <<scrape, scrapes, snap, before>>

NotMade == <<-1>>
NoCollector == "nobody"
Place(at) == [at |-> at, pos |-> 1, runs |-> NoCollector]
NoScrape == Place("idle")
NoSnap == [cumulative |-> <<>>, sum |-> 0]
CollectLocked == scrape.at = "collect"    \* collect_mu_
RenderLocked == scrape.at \in {"buckets", "sum"}   \* mu_

MetricsInit ==
    /\ family = NotMade /\ buckets = [i \in 1 .. Len(Bounds) + 1 |-> 0] /\ sum = 0 /\ count = 0
    /\ observer = [o \in Observers |-> "find"] /\ loaded = [o \in Observers |-> 0]
    /\ collectors = <<>> /\ owner = [w \in Owners |-> "new"]
    /\ scrape = NoScrape /\ scrapes = 0 /\ snap = NoSnap /\ before = {}

At(o, from, to) == observer[o] = from /\ observer' = [observer EXCEPT ![o] = to]

----------------------------------------------------------------------------
\* MetricsRegistry::Histogram, Find: made by the first who asks
Find(o) == /\ ~RenderLocked
           /\ At(o, "find", "bucket")
           /\ family' = IF family = NotMade THEN Bounds ELSE family
           /\ UNCHANGED <<buckets, sum, count, loaded, registry, scraper>>

\* std::lower_bound: the first bucket whose bound the value does not exceed
BucketOf(v) == Min({i \in 1 .. Len(Bounds) : v <= Bounds[i]} \cup {Len(Bounds) + 1})

\* Observe: the bucket,
AddToBucket(o) == /\ At(o, "bucket", "load")
                  /\ buckets' = [buckets EXCEPT ![BucketOf(ValueOf[o])] = @ + 1]
                  /\ UNCHANGED <<family, sum, count, loaded, registry, scraper>>
\* the sum - AtomicAdd: load, then compare and exchange until it holds -
LoadSum(o) == /\ At(o, "load", "exchange")
              /\ loaded' = [loaded EXCEPT ![o] = sum]
              /\ UNCHANGED <<family, buckets, sum, count, registry, scraper>>
\* Mutant for ScrapeSound: a plain store for the compare and exchange.
StoreSum(o) == /\ At(o, "exchange", "count")
               /\ sum' = loaded[o] + ValueOf[o]
               /\ UNCHANGED <<family, buckets, loaded, count, registry, scraper>>

ExchangeSum(o) ==
    /\ \/ /\ sum = loaded[o] /\ At(o, "exchange", "count")
          /\ sum' = sum + ValueOf[o] /\ UNCHANGED loaded
       \/ /\ sum # loaded[o] /\ At(o, "exchange", "exchange")
          /\ loaded' = [loaded EXCEPT ![o] = sum] /\ UNCHANGED sum
    /\ UNCHANGED <<family, buckets, count, registry, scraper>>
\* and the count
AddToCount(o) == /\ At(o, "count", "done")
                 /\ count' = count + 1
                 /\ UNCHANGED <<family, buckets, sum, loaded, registry, scraper>>

----------------------------------------------------------------------------
\* AddCollector and RemoveCollector wait for a scrape that runs collectors
AddCollector(w) == /\ ~CollectLocked /\ owner[w] = "new"
                   /\ collectors' = Append(collectors, w)
                   /\ owner' = [owner EXCEPT ![w] = "holding"]
                   /\ UNCHANGED <<histogram, scraper>>

RemoveCollector(w) == /\ ~CollectLocked /\ owner[w] = "holding"
                      /\ \E n \in 1 .. Len(collectors) :
                           collectors[n] = w /\ collectors' = RemoveAt(collectors, n)
                      /\ owner' = [owner EXCEPT ![w] = "gone"]
                      /\ UNCHANGED <<histogram, scraper>>

\* RenderPrometheus: collect_mu_ for the whole loop over the collectors,
BeginScrape == /\ scrape = NoScrape /\ scrapes < MaxScrapes
               /\ scrapes' = scrapes + 1
               /\ scrape' = Place("collect")
               /\ snap' = NoSnap
               /\ UNCHANGED <<histogram, registry, before>>
RunCollector == /\ scrape.at = "collect" /\ scrape.pos <= Len(collectors)
                /\ scrape' = IF scrape.runs = NoCollector
                             THEN [scrape EXCEPT !.runs = collectors[scrape.pos]]
                             ELSE [scrape EXCEPT !.runs = NoCollector, !.pos = @ + 1]
                /\ UNCHANGED <<histogram, registry, scrapes, snap, before>>
\* then mu_, and MetricHistogram::Read if the family is there:
BeginRender == /\ scrape.at = "collect" /\ scrape.pos > Len(collectors)
               /\ scrape' = IF family = NotMade THEN NoScrape ELSE Place("buckets")
               /\ before' = {o \in Observers : observer[o] = "done"}
               /\ UNCHANGED <<histogram, registry, scrapes, snap>>
\* bucket after bucket,
ReadBucket ==
    /\ scrape.at = "buckets"
    /\ LET i == scrape.pos
           running == IF i = 1 THEN 0 ELSE snap.cumulative[i - 1]
       IN  /\ snap' = [snap EXCEPT !.cumulative = Append(@, running + buckets[i])]
           /\ scrape' = IF i = Len(buckets) THEN Place("sum")
                        ELSE [scrape EXCEPT !.pos = i + 1]
    /\ UNCHANGED <<histogram, registry, scrapes, before>>
\* and last the sum
ReadSum == /\ scrape.at = "sum"
           /\ snap' = [snap EXCEPT !.sum = sum]
           /\ scrape' = NoScrape
           /\ UNCHANGED <<histogram, registry, scrapes, before>>

MetricsNext ==
    \/ \E o \in Observers : \/ Find(o) \/ AddToBucket(o) \/ LoadSum(o)
                            \/ ExchangeSum(o) \/ AddToCount(o)
    \/ \E w \in Owners : AddCollector(w) \/ RemoveCollector(w)
    \/ BeginScrape \/ RunCollector \/ BeginRender \/ ReadBucket \/ ReadSum

MetricsSpec == MetricsInit /\ [][MetricsNext]_metricsVars

----------------------------------------------------------------------------
SumOf(S) == FoldSet(LAMBDA o, n : n + ValueOf[o], 0, S)
Past(states) == {o \in Observers : observer[o] \notin states}
InBucket == Past({"find", "bucket"})
InSum == Past({"find", "bucket", "load", "exchange"})

\* A rendered histogram is a histogram: its cumulative counts grow, every observation
\* that was over before the reading is in them and in the sum, none is that has not
\* begun, and no update is lost, however the threads interleave; and a collector that
\* RemoveCollector has returned for does not run, in this scrape or any later one
\* (MetricsRegistry.cpp:14-18, 89-108, MetricsRegistry.h:93).
ScrapeSound ==
    /\ Len(snap.cumulative) = Len(Bounds) + 1 /\ scrape = NoScrape =>
         /\ \A i \in 1 .. Len(Bounds) + 1 :
              LET upTo(S) == Cardinality({o \in S : BucketOf(ValueOf[o]) <= i})
              IN  /\ upTo(before) <= snap.cumulative[i] /\ snap.cumulative[i] <= upTo(InBucket)
                  /\ i > 1 => snap.cumulative[i - 1] <= snap.cumulative[i]
         /\ SumOf(before) <= snap.sum /\ snap.sum <= SumOf(InSum)
    /\ sum = SumOf(InSum)
    /\ count <= Cardinality(InBucket)
    /\ \A w \in Owners : owner[w] = "gone" => scrape.runs # w
=============================================================================
