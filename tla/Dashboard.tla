------------------------------ MODULE Dashboard ------------------------------
(***************************************************************************)
(* What the dashboard shows of the runs in results/: the ranking of the     *)
(* model x hardware combos at one team size (combo_rows), their curves over *)
(* all team sizes (combo_series), both again at what-if prices, the best    *)
(* deal, and the run that a row's detail link opens; and which artifacts    *)
(* prune_artifacts takes for superseded.                                    *)
(*                                                                         *)
(* rs is the sequence of all runs, oldest run_id first.  Runs are referred  *)
(* to by their index; a run without report.json is not loaded.  Rates and   *)
(* prices are fractions, None stands for a missing value.                   *)
(***************************************************************************)
EXTENDS Integers, Sequences, FiniteSets, FiniteSetsExt, Functions

CONSTANTS
  Preflight,       \* PREFLIGHT: benchmarks that are not shown
  PathOrder,       \* the benchmarks in the order of their paths
  HoursPerMonth,   \* HOURS_PER_MONTH
  None             \* a missing value

ASSUME NoneAssumption == None \notin [n : Nat, d : Nat]

-----------------------------------------------------------------------------
(* Fractions.                                                                *)

Zero == [n |-> 0, d |-> 1]
Plus(x, y) == IF x.d = y.d THEN [n |-> x.n + y.n, d |-> x.d]
              ELSE [n |-> x.n * y.d + y.n * x.d, d |-> x.d * y.d]
Times(x, y) == [n |-> x.n * y.n, d |-> x.d * y.d]
Over(x, y) == [n |-> x.n * y.d, d |-> x.d * y.n]
Less(x, y) == x.n * y.d < y.n * x.d
Same(x, y) == x = y \/ (None \notin {x, y} /\ ~Less(x, y) /\ ~Less(y, x))

\* statistics.fmean over the entries that have the value.
Mean(f) ==
  LET known == {i \in DOMAIN f : f[i] # None}
  IN IF known = {} THEN None
     ELSE Times(FoldFunctionOnSet(Plus, Zero, f, known), [n |-> 1, d |-> Cardinality(known)])

-----------------------------------------------------------------------------
(* load_runs, benchmarks, run_key; latest = the last of the loop.            *)

Loaded(rs) == {i \in DOMAIN rs : rs[i].report}
Shown(rs) == {rs[i].benchmark : i \in Loaded(rs)} \ Preflight
RunKey(r) == <<r.family, r.quant, r.hardware, r.gpus>>
Of(rs, b) == {i \in Loaded(rs) : rs[i].benchmark = b}
Keys(rs, b) == {RunKey(rs[i]) : i \in Of(rs, b)}
RunsOf(rs, b, key) == {i \in Of(rs, b) : RunKey(rs[i]) = key}

DevsFor(rs, b) == UNION {DOMAIN rs[i].by_devs : i \in Of(rs, b)}
\* Mutant: a later run stands for the combo.
TestedLast(rs, b, key) == DOMAIN rs[Max(RunsOf(rs, b, key))].by_devs

Tested(rs, b, key) == UNION {DOMAIN rs[i].by_devs : i \in RunsOf(rs, b, key)}
Repeats(rs, b, key, n) == {i \in RunsOf(rs, b, key) : n \in DOMAIN rs[i].by_devs}

\* aggregate_entries: rates are the mean of the repeats that have them, a verdict holds
\* only if every repeat's does, the rest is the latest's.
AggregateEntries(rs, repeats, n) ==
  LET entry(i) == rs[i].by_devs[n]
  IN [holds_slo |-> \A i \in repeats : entry(i).holds_slo,
      cost_per_dev_month |-> Mean([i \in repeats |-> entry(i).cost_per_dev_month]),
      tokens_per_hour |-> Mean([i \in repeats |-> entry(i).tokens_per_hour]),
      computed_tokens_per_hour |-> Mean([i \in repeats |-> entry(i).computed_tokens_per_hour]),
      cost_per_mtok |-> Mean([i \in repeats |-> entry(i).cost_per_mtok]),
      utilization |-> entry(Max(repeats)).utilization]

-----------------------------------------------------------------------------
(* combo_rows and combo_series.                                              *)

Priced(entry, key, price) ==
  [hardware |-> key[3], gpus |-> key[4], price |-> price,
   holds_slo |-> entry.holds_slo, cost_per_dev_month |-> entry.cost_per_dev_month,
   tokens_per_hour |-> entry.tokens_per_hour,
   computed_tokens_per_hour |-> entry.computed_tokens_per_hour,
   cost_per_mtok |-> entry.cost_per_mtok, utilization |-> entry.utilization]

\* Mutant: the latest repeat stands for all.
ComboRowLast(rs, b, key, n) ==
  LET latest == Max(Repeats(rs, b, key, n))
  IN Priced(AggregateEntries(rs, {latest}, n), key, rs[latest].price)

\* The row of a combo at n: its price is that of the last run that tested n.
ComboRow(rs, b, key, n) ==
  LET repeats == Repeats(rs, b, key, n)
  IN Priced(AggregateEntries(rs, repeats, n), key, rs[Max(repeats)].price)

ComboRows(rs, b, n) ==
  [key \in {k \in Keys(rs, b) : Repeats(rs, b, k, n) # {}} |-> ComboRow(rs, b, key, n)]

\* The rate that U(N) is made of: computed tokens, without the prompt tokens the prefix
\* cache served, where there is such a figure (an old report has none); else those served.
Achieved(entry) ==
  IF entry.computed_tokens_per_hour # None /\ entry.computed_tokens_per_hour.n > 0
  THEN entry.computed_tokens_per_hour ELSE entry.tokens_per_hour

\* Mutant: the ceiling counts what the cache served.
RatesOfServed(entries) == [n \in DOMAIN entries |-> entries[n].tokens_per_hour]

RatesOf(entries) == [n \in DOMAIN entries |-> Achieved(entries[n])]

\* Mutant: one level is its own best.
DenominatorOfOne(theta, achieved) ==
  LET measured == {n \in DOMAIN achieved : achieved[n].n > 0}
  IN IF theta # None THEN theta
     ELSE IF measured = {} THEN None
     ELSE achieved[CHOOSE n \in measured : \A m \in measured : ~Less(achieved[n], achieved[m])]

\* The denominator of U(N): theta_max if there is one, else the best achieved rate
\* (achieved: a function from team sizes to rates), which needs two of them.
Denominator(theta, achieved) ==
  LET measured == {n \in DOMAIN achieved : achieved[n].n > 0}
  IN IF theta # None THEN theta
     ELSE IF Cardinality(measured) < 2 THEN None
     ELSE achieved[CHOOSE n \in measured : \A m \in measured : ~Less(achieved[n], achieved[m])]

Utilization(rate, denominator) ==
  IF denominator = None \/ rate.n = 0 THEN None ELSE Over(rate, denominator)

\* The curve of a combo: its theta_max and its price are those of its latest run.
ComboSeries(rs, b, key) ==
  LET latest == rs[Max(RunsOf(rs, b, key))]
      points == [n \in Tested(rs, b, key) |->
                   AggregateEntries(rs, Repeats(rs, b, key, n), n)]
      denominator == Denominator(latest.theta, RatesOf(points))
  IN [n \in DOMAIN points |->
        Priced([points[n] EXCEPT !.utilization = Utilization(Achieved(points[n]), denominator)],
               key, latest.price)]

AllSeries(rs, b) == [key \in Keys(rs, b) |-> ComboSeries(rs, b, key)]

-----------------------------------------------------------------------------
(* What-if prices: overrides is a function from some hardware to prices.     *)

\* $/dev-month is computed anew, $/MTok scaled; what was measured stays.
Reprice(point, n, overrides) ==
  IF point.hardware \notin DOMAIN overrides THEN point
  ELSE LET price == overrides[point.hardware] IN
    [point EXCEPT
       !.price = price,
       !.cost_per_mtok = IF @ = None THEN None
                         ELSE Times(@, [n |-> price, d |-> point.price]),
       !.cost_per_dev_month = [n |-> price * point.gpus * HoursPerMonth, d |-> n]]

RepriceRows(rows, n, overrides) == [key \in DOMAIN rows |-> Reprice(rows[key], n, overrides)]

RepriceSeries(series, overrides) ==
  [key \in DOMAIN series |->
     [n \in DOMAIN series[key] |-> Reprice(series[key][n], n, overrides)]]

\* best_combo_from_series: the cheapest points that hold the SLO (ties: all of them).
BestDeals(series) ==
  LET holding == {p \in UNION {{key} \X DOMAIN series[key] : key \in DOMAIN series} :
                    series[p[1]][p[2]].holds_slo}
      cost(p) == series[p[1]][p[2]].cost_per_dev_month
  IN {p \in holding : \A q \in holding : ~Less(cost(q), cost(p))}

\* compare_narrative: the cheapest combos that hold at n (ties: all of them).
Winners(rows) ==
  LET holding == {key \in DOMAIN rows : rows[key].holds_slo}
  IN {key \in holding : \A other \in holding :
        ~Less(rows[other].cost_per_dev_month, rows[key].cost_per_dev_month)}

-----------------------------------------------------------------------------
(* run_detail and artifacts_to_prune.                                        *)

\* The last run with this key in the order of the paths, of whatever benchmark.
Detail(rs, key) ==
  LET ranks == {rank \in DOMAIN PathOrder : RunsOf(rs, PathOrder[rank], key) # {}}
  IN Max(RunsOf(rs, PathOrder[Max(ranks)], key))

\* Mutant: the latest directory counts, with or without a report.
ArtifactsToPruneByName(rs) ==
  {i \in Loaded(rs) : rs[i].artifacts /\ \E j \in DOMAIN rs :
     j > i /\ rs[j].benchmark = rs[i].benchmark /\ RunKey(rs[j]) = RunKey(rs[i])}

\* Of each config directory all but the latest report's run lose their artifacts.
ArtifactsToPrune(rs) ==
  {i \in Loaded(rs) :
     rs[i].artifacts /\ i # Max(RunsOf(rs, rs[i].benchmark, RunKey(rs[i])))}
=============================================================================
