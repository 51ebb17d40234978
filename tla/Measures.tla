------------------------------ MODULE Measures ------------------------------
(***************************************************************************)
(* What a benchmark measures and reports: vLLM serves requests and counts   *)
(* them (cumulative counters and latency histograms); bench_sdd takes a     *)
(* snapshot of the counters before and after each level and around the      *)
(* saturation probe, or fails to get one; vllm_metrics subtracts them,      *)
(* saturation and bench_report turn the differences into rates, quantiles,  *)
(* prices and utilization.                                                  *)
(*                                                                         *)
(* A snapshot is the number of requests of each kind served so far, from    *)
(* which the counters and buckets of /metrics are computed; a snapshot that *)
(* could not be had is None, the empty text.  Rates, quantiles and prices   *)
(* are fractions; times are in units of the latency buckets.                *)
(***************************************************************************)
EXTENDS Integers, Sequences, FiniteSets, FiniteSetsExt

CONSTANTS
  Requests,      \* kinds of requests: tokens, cached tokens and latencies
  Bounds,        \* upper bounds of the finite latency buckets; +Inf comes after
  Durations,     \* duration of each level, in the order they run
  Probe,         \* the scenario asks for a saturation probe
  ProbeDuration,
  Slo,           \* slo: percentile, max_ttft and 1 / min_tps
  MaxRequests,   \* bound: requests served in a level
  MaxOthers,     \* bound: requests served before the first level, and in the probe
  None           \* the empty snapshot, no result

BucketIndex == 1 .. Len(Bounds) + 1
Percentiles == [p50 |-> [n |-> 1, d |-> 2], p90 |-> [n |-> 9, d |-> 10],
                p99 |-> [n |-> 99, d |-> 100]]

ASSUME RequestsAssumption ==
  /\ IsFiniteSet(Requests)
  /\ \A r \in Requests :
       /\ {r.prompt, r.gen} \subseteq Nat \ {0} /\ r.hits \in 0 .. r.prompt
       /\ {r.ttft, r.tpot} \subseteq BucketIndex
ASSUME BoundsAssumption ==
  /\ Bounds \in Seq(Nat \ {0}) /\ Bounds # <<>>
  /\ \A i, j \in 1 .. Len(Bounds) : i < j => Bounds[i] < Bounds[j]
ASSUME DurationsAssumption ==
  Durations \in Seq(Nat \ {0}) /\ ProbeDuration \in Nat \ {0} /\ Probe \in BOOLEAN
ASSUME SloAssumption ==
  Slo.percentile \in DOMAIN Percentiles /\ {Slo.max_ttft, Slo.max_tpot} \subseteq Nat \ {0}
ASSUME ServedAssumption == MaxRequests \in Nat /\ MaxOthers \in Nat
ASSUME NoneAssumption == None \notin [Requests -> Nat] \cup {"theta_max", "best_level"}

VARIABLES
  pc,        \* "warmup", "between", "level", "probe" or "done"
  served,    \* what vLLM has counted: requests of each kind
  before,    \* the opening snapshot
  generated, \* for each level: its metrics, the agents' own usage, and what is true of it
  theta,     \* theta_max: tokens over time, or None
  report,    \* by_devs, utilization and its basis
  traffic    \* history: requests of each kind in this level, or in the probe

vars == <<pc, served, before, generated, theta, report, traffic>>

Nothing == [r \in Requests |-> 0]

Init ==
  /\ pc = "warmup" /\ served = Nothing /\ traffic = Nothing
  /\ before = None /\ generated = <<>> /\ theta = None /\ report = None

-----------------------------------------------------------------------------
(* vllm_metrics: reading a snapshot, subtracting two.                        *)

\* The sum of a quantity over requests; an empty text has no samples.
Total(w) == MapThenSumSet(LAMBDA r : w[r], Requests)
CounterTotal(text, quantity) ==
  IF text = None THEN 0 ELSE Total([r \in Requests |-> text[r] * quantity[r]])

Prompt == [r \in Requests |-> r.prompt]
Generation == [r \in Requests |-> r.gen]
Hits == [r \in Requests |-> r.hits]

\* Cumulative buckets.  vLLM observes one ttft per request and one tpot per token.
TtftBuckets(text) ==
  IF text = None THEN <<>>
  ELSE [i \in BucketIndex |->
          CounterTotal(text, [r \in Requests |-> IF r.ttft <= i THEN 1 ELSE 0])]

TpotBuckets(text) ==
  IF text = None THEN <<>>
  ELSE [i \in BucketIndex |->
          CounterTotal(text, [r \in Requests |-> IF r.tpot <= i THEN r.gen ELSE 0])]

\* Mutant: the buckets since the start of the server.
DiffNot(b, a) == a

\* after - before; a bound the opening snapshot does not have counts as 0.
Diff(b, a) == [i \in DOMAIN a |-> a[i] - (IF i \in DOMAIN b THEN b[i] ELSE 0)]

\* The largest finite bound stands for +Inf, 0 for what is before the first bucket.
Le(i) == IF i = 0 THEN 0 ELSE Bounds[i]

Interpolate(buckets, q, i) ==
  LET prev == IF i = 1 THEN 0 ELSE buckets[i - 1]
      share == q.n * buckets[Len(buckets)] - q.d * prev
      width == q.d * (buckets[i] - prev)
  IN  IF i > Len(Bounds) THEN [n |-> Le(i - 1), d |-> 1]
      ELSE IF width = 0 THEN [n |-> Le(i), d |-> 1]
      ELSE [n |-> Le(i - 1) * width + (Le(i) - Le(i - 1)) * share, d |-> width]

Quantile(buckets, q) ==
  IF buckets = <<>> \/ buckets[Len(buckets)] = 0 THEN [n |-> 0, d |-> 1]
  ELSE Interpolate(buckets, q,
                   Min({i \in BucketIndex : q.d * buckets[i] >= q.n * buckets[Len(buckets)]}))

LevelMetrics(b, a, duration) ==
  LET Counted(quantity) == CounterTotal(a, quantity) - CounterTotal(b, quantity)
  IN  [ttft |-> [p \in DOMAIN Percentiles |->
                   Quantile(Diff(TtftBuckets(b), TtftBuckets(a)), Percentiles[p])],
       tpot |-> [p \in DOMAIN Percentiles |->
                   Quantile(Diff(TpotBuckets(b), TpotBuckets(a)), Percentiles[p])],
       prompt |-> Counted(Prompt), gen |-> Counted(Generation),
       queries |-> Counted(Prompt), hits |-> Counted(Hits), duration |-> duration]

-----------------------------------------------------------------------------
(* bench_report and saturation: what is made of them.                        *)

AtMost(x, limit) == x.n <= limit * x.d
Less(x, y) == x.n * y.d < y.n * x.d

\* Mutant: an unknown speed passes for a fast one.
HoldsAtAnySpeed(m) ==
  AtMost(m.ttft[Slo.percentile], Slo.max_ttft) /\ AtMost(m.tpot[Slo.percentile], Slo.max_tpot)

\* tps is 1 / tpot, and 0 if there is no tpot.
HoldsSlo(m) ==
  /\ AtMost(m.ttft[Slo.percentile], Slo.max_ttft)
  /\ m.tpot[Slo.percentile].n > 0 /\ AtMost(m.tpot[Slo.percentile], Slo.max_tpot)

\* The server's counts, which level_metrics always has, or those the agents report.
Usage(m, client) ==
  IF m.duration > 0
  THEN [source |-> "server", prompt |-> m.prompt, gen |-> m.gen, duration |-> m.duration]
  ELSE client

\* Mutant: any total has a price.
PriceOfAny(u) == [n |-> u.duration, d |-> u.prompt + u.gen]

\* cost_per_mtok, over the list price.
Price(u) == IF u.prompt + u.gen > 0 THEN [n |-> u.duration, d |-> u.prompt + u.gen] ELSE None

\* Tokens computed if there was any query to the cache, tokens served otherwise.
Achieved(m, u) ==
  LET computed == Max({0, u.prompt - m.hits}) + u.gen
  IN  [n |-> IF m.queries > 0 /\ computed # 0 THEN computed ELSE u.prompt + u.gen,
       d |-> u.duration]

DevRecord(level) ==
  LET u == Usage(level.metrics, level.client)
  IN  [holds_slo |-> HoldsSlo(level.metrics), source |-> u.source,
       tokens |-> u.prompt + u.gen, price |-> Price(u),
       achieved |-> Achieved(level.metrics, u)]

\* Mutant: a level without tokens is kept.
WithTphAll(devs) == DOMAIN devs

WithTph(devs) == {l \in DOMAIN devs : devs[l].achieved.n # 0}

\* Mutant: the largest level stands for the best.
BestLevelLast(devs) == devs[Max(WithTph(devs))].achieved

BestLevel(devs) ==
  devs[CHOOSE l \in WithTph(devs) :
         \A k \in WithTph(devs) : ~Less(devs[l].achieved, devs[k].achieved)].achieved

Basis(devs) ==
  IF WithTph(devs) = {} THEN None
  ELSE IF theta # None /\ theta.n # 0 THEN "theta_max"
  ELSE IF Cardinality(WithTph(devs)) >= 2 THEN "best_level"
  ELSE None

\* apply_utilization: U, of which the penalty is the inverse, for each level with tokens.
Utilization(devs) ==
  IF Basis(devs) = None THEN <<>>
  ELSE LET top == IF Basis(devs) = "theta_max" THEN theta ELSE BestLevel(devs)
       IN  [l \in WithTph(devs) |-> [n |-> devs[l].achieved.n * top.d,
                                     d |-> devs[l].achieved.d * top.n]]

-----------------------------------------------------------------------------
(* The benchmark and the server.                                             *)

\* Requests in a window.
Size(bag) == Total(bag)

\* The probe's random prompts are never in the cache.
Serve(r) ==
  /\ \/ pc = "level" /\ Size(traffic) < MaxRequests
     \/ pc = "warmup" /\ Size(traffic) < MaxOthers
     \/ pc = "probe" /\ Size(traffic) < MaxOthers /\ r.hits = 0
  /\ served' = [served EXCEPT ![r] = @ + 1]
  /\ traffic' = [traffic EXCEPT ![r] = @ + 1]
  /\ UNCHANGED <<pc, before, generated, theta, report>>

OpenLevel ==
  /\ pc \in {"warmup", "between"} /\ Len(generated) < Len(Durations)
  /\ before' \in {served, None}
  /\ traffic' = Nothing
  /\ pc' = "level"
  /\ UNCHANGED <<served, generated, theta, report>>

CloseLevel ==
  /\ pc = "level"
  /\ \E after \in {served, None} :
       LET duration == Durations[Len(generated) + 1]
       IN  generated' = Append(generated,
             [metrics |-> LevelMetrics(before, after, duration),
              client |-> [source |-> "client", prompt |-> CounterTotal(traffic, Prompt),
                          gen |-> CounterTotal(traffic, Generation), duration |-> duration],
              opened |-> before # None, closed |-> after # None, traffic |-> traffic])
  /\ pc' = "between"
  /\ UNCHANGED <<served, before, theta, report, traffic>>

OpenProbe ==
  /\ pc = "between" /\ Len(generated) = Len(Durations) /\ Probe
  /\ before' \in {served, None}
  /\ traffic' = Nothing
  /\ pc' = "probe"
  /\ UNCHANGED <<served, generated, theta, report>>

\* summarize_probe: Theta is what the counters gained over the time of the probe.
CloseProbe ==
  /\ pc = "probe"
  /\ \E after \in {served, None} :
       LET m == LevelMetrics(before, after, ProbeDuration)
       IN  theta' = [n |-> m.prompt + m.gen, d |-> ProbeDuration]
  /\ pc' = "probed"
  /\ UNCHANGED <<served, before, generated, report, traffic>>

\* Of all levels, or of those before an abort.
WriteReport ==
  /\ pc \in {"between", "probed"} /\ generated # <<>>
  /\ LET devs == [l \in DOMAIN generated |-> DevRecord(generated[l])]
     IN  report' = [by_devs |-> devs, basis |-> Basis(devs), utilization |-> Utilization(devs)]
  /\ pc' = "done"
  /\ UNCHANGED <<served, before, generated, theta, traffic>>

Done == pc = "done" /\ UNCHANGED vars

Next ==
  \/ \E r \in Requests : Serve(r)
  \/ OpenLevel \/ CloseLevel \/ OpenProbe \/ CloseProbe \/ WriteReport \/ Done

Spec == Init /\ [][Next]_vars

-----------------------------------------------------------------------------
(* Properties.                                                               *)

\* Tokens and requests of a window.
Tokens(bag) == Total([r \in Requests |-> bag[r] * (r.prompt + r.gen)])

\* Bucket i holds the observation at rank q of a bag of requests: fewer than q of them are
\* below it, no more than 1 - q above.
HoldsRank(bag, i, q) ==
  LET below == Size([r \in Requests |-> IF r.ttft < i THEN bag[r] ELSE 0])
      within == Size([r \in Requests |-> IF r.ttft <= i THEN bag[r] ELSE 0])
  IN  q.d * below < q.n * Size(bag) /\ q.n * Size(bag) <= q.d * within

\* level_latency: "quantiles for the requests served between the two snapshots".  A level
\* that has its snapshots reports, up to the width of a bucket, the quantile of its own
\* requests, whatever was served before it.
QuantilesAreTheLevels ==
  \A l \in DOMAIN generated :
    LET g == generated[l]
    IN  g.opened /\ g.closed => \A p \in DOMAIN Percentiles : \A i \in BucketIndex :
          HoldsRank(g.traffic, i, Percentiles[p]) =>
            /\ AtMost(g.metrics.ttft[p], Le(IF i > Len(Bounds) THEN i - 1 ELSE i))
            /\ Le(i - 1) * g.metrics.ttft[p].d <= g.metrics.ttft[p].n

\* A level never holds its SLO for want of data: not with its closing snapshot missing,
\* whose latencies read as 0, and not if it has both and served nothing.
SloNeedsTraffic ==
  report # None => \A l \in DOMAIN report.by_devs :
    report.by_devs[l].holds_slo =>
      generated[l].closed /\ (generated[l].opened => Size(generated[l].traffic) > 0)

\* methodology.md 92: tokens "the level actually served".  A price is computed from exactly
\* these, or the level's opening snapshot was missing.
PriceIsForServedTokens ==
  report # None => \A l \in DOMAIN report.by_devs :
    report.by_devs[l].price # None /\ generated[l].opened =>
      generated[l].closed /\ report.by_devs[l].price.d = Tokens(generated[l].traffic)

\* apply_utilization: whichever snapshots are missing, no level is divided by a rate of 0 and
\* one without a rate shows none.  The best measured level is a lower bound of the ceiling,
\* and one level is no measure for itself: if no closing snapshot is missing, utilization by
\* the best level is above 0, at most 1, and compares at least two levels.
UtilizationIsAFraction ==
  report # None =>
    /\ \A l \in DOMAIN report.utilization :
         report.utilization[l].n # 0 /\ report.utilization[l].d # 0
    /\ report.basis = "best_level" /\ (\A l \in DOMAIN generated : generated[l].closed) =>
         /\ Cardinality(DOMAIN report.utilization) >= 2
         /\ \A l \in DOMAIN report.utilization :
              LET u == report.utilization[l] IN 0 < u.n /\ u.n <= u.d

\* results.md 40: tokens_source is "`client` ... used when server counters are unavailable".
\* A level with a snapshot missing, whose agents report usage, is not priced by the server's.
ClientUsageIfServersIsMissing ==
  report # None => \A l \in DOMAIN report.by_devs :
    /\ ~generated[l].opened \/ ~generated[l].closed
    /\ Size(generated[l].traffic) > 0
    => report.by_devs[l].source = "client"
=============================================================================
