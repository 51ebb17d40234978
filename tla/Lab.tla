--------------------------------- MODULE Lab ---------------------------------
(***************************************************************************)
(* The lab over many runs: launches that are refused before or after they   *)
(* have written the composed config, a run that pushes it to its pod, fails *)
(* or writes a report on the levels it measured, and artifacts pruned       *)
(* between runs, with the dashboard read at any time.                       *)
(*                                                                         *)
(* One orchestrator holds a pod at a time (the state file's assumption, see *)
(* Reaper), but a second launch that ends in a refusal may come at any      *)
(* moment.  How a run gets its levels is BenchRun's matter: here it ends    *)
(* with some of them, in the order of their sizes, or without a report.     *)
(***************************************************************************)
EXTENDS RunConfig, Dashboard

CONSTANTS
  Requests,   \* the command lines that are tried
  Prices,     \* price_usd_per_gpu_hour; the hardware files are edited over time
  Outcomes,   \* of a level: whether it holds the SLO, its tokens per hour, and those of
              \* them that were computed (None: no cache figures)
  Thetas,     \* what the saturation probe may measure
  MaxRuns     \* bound: runs in results/

ASSUME RequestsAssumption ==
  Requests \subseteq Request /\ \A req \in Requests : IsFiniteSet(req.devs)
\* The directory of a run is named for the GPUs it rents, its report for the GPUs it
\* serves with: a scenario that sets tensor_parallel_size is always given the same --gpus,
\* so that the runs of one combo lie in one directory and load in the order of run_id.
ASSUME DirectoriesAssumption ==
  \A p, q \in Requests :
    /\ Serving(p).tensor_parallel_size > 0
    /\ p.benchmark = q.benchmark /\ p.family = q.family /\ p.hardware = q.hardware
    => p.gpus = q.gpus
ASSUME PricesAssumption == Prices \subseteq Nat \ {0} /\ HoursPerMonth \in Nat \ {0}
ASSUME OutcomesAssumption ==
  /\ Outcomes \subseteq [holds : BOOLEAN, tph : Nat, computed : Nat \cup {None}]
  /\ Thetas \subseteq Nat \ {0} /\ None \notin Nat
ASSUME PathOrderAssumption ==
  /\ PathOrder \in Seq(Benchmarks) /\ Preflight \subseteq Benchmarks
  /\ \A b \in Benchmarks : \E i \in DOMAIN PathOrder : PathOrder[i] = b
ASSUME MaxRunsAssumption == MaxRuns \in Nat

VARIABLES
  runs,      \* results/: one record per run that has ended, in the order of run_id
  run        \* the run that holds a pod, or None: its request and price, the file
             \* configs/_composed.yaml (composed) and the copy of it on the pod (pushed)

vars == <<runs, run>>

Init == runs = <<>> /\ run = None

-----------------------------------------------------------------------------
(* The report: one entry per level.                                          *)

\* The GPUs a run serves with, by the config it has in memory: what its report is named
\* for and its costs are made of.  The pod is rented with those of the command line.
GpuCount(r) == Compose(r.req).tensor_parallel_size

\* dev_record: what is served has a price, what is computed only anchors U(N).
DevRecord(n, level, cost_per_hour) ==
  [holds_slo |-> level.holds,
   cost_per_dev_month |-> [n |-> cost_per_hour * HoursPerMonth, d |-> n],
   tokens_per_hour |-> [n |-> level.tph, d |-> 1],
   computed_tokens_per_hour |-> IF level.computed = None THEN None
                                ELSE [n |-> level.computed, d |-> 1],
   cost_per_mtok |-> IF level.tph > 0 THEN [n |-> cost_per_hour, d |-> level.tph] ELSE None,
   utilization |-> None]

\* The dev_records of one run, and apply_utilization over them.
ByDevs(key, price, levels, theta) ==
  LET record == [n \in DOMAIN levels |-> DevRecord(n, levels[n], price * key[4])]
      denominator == Denominator(theta, RatesOf(record))
  IN [n \in DOMAIN levels |->
        [record[n] EXCEPT !.utilization = Utilization(Achieved(record[n]), denominator)]]

\* The directory of a run that left one: artifacts, and a report unless price is None.
Record(r, price, by_devs, theta) ==
  [benchmark |-> r.req.benchmark, family |-> r.req.family, quant |-> r.quant,
   hardware |-> r.req.hardware, gpus |-> GpuCount(r), price |-> price,
   report |-> price # None, by_devs |-> by_devs, theta |-> theta, artifacts |-> TRUE]

-----------------------------------------------------------------------------
(* Actions.                                                                  *)

\* run_benchmark.main up to provision: the config is written, the pod created.
Launch(req) ==
  /\ run = None /\ Len(runs) < MaxRuns
  /\ ~Refused(req) /\ ~RefusedLate(req)
  /\ \E price \in Prices :
       run' = [req |-> req, quant |-> ResolveQuant(req), price |-> price,
               composed |-> Compose(req), pushed |-> None, disturbed |-> FALSE]
  /\ UNCHANGED runs

\* A launch beside this run that is refused only once it has written the config.  (The
\* file is read by rsync alone: without a run, or after its push, what it holds is lost.)
LaunchRefused(req) ==
  /\ run # None /\ run.pushed = None
  /\ ~Refused(req) /\ RefusedLate(req)
  /\ run' = [run EXCEPT !.composed = Compose(req), !.disturbed = TRUE]
  /\ UNCHANGED runs

\* provision: rsync copies the repository, with the config in it, to the pod.
Push ==
  /\ run # None /\ run.pushed = None
  /\ run' = [run EXCEPT !.pushed = run.composed]
  /\ UNCHANGED runs

\* A run that ends without a report.  Directories are made by whoever writes into them
\* first: a run that fails early leaves none.
Fail ==
  /\ run # None
  /\ \/ UNCHANGED runs
     \/ run.pushed # None /\ runs' = Append(runs, Record(run, None, <<>>, None))
  /\ run' = None

\* bench_sdd.run: the sizes are measured in order, an abort keeps those measured; the
\* probe comes after the last.  vLLM does not start without a context length.
Finish ==
  /\ run # None /\ run.pushed # None /\ run.pushed.max_model_len > 0
  /\ \E last \in MeasuredDevs(run.req) :
       LET sizes == {n \in MeasuredDevs(run.req) : n <= last}
           probed == Scenarios[run.req.benchmark].probe /\ sizes = MeasuredDevs(run.req)
           key == <<run.req.family, run.quant, run.req.hardware, GpuCount(run)>>
       IN \E levels \in [sizes -> Outcomes], tph \in (IF probed THEN Thetas ELSE {}) \cup {0} :
            LET theta == IF tph = 0 THEN None ELSE [n |-> tph, d |-> 1]
            IN runs' = Append(runs,
                 Record(run, run.price, ByDevs(key, run.price, levels, theta), theta))
  /\ run' = None

\* prune_artifacts.main
Prune ==
  /\ ArtifactsToPrune(runs) # {}
  /\ runs' = [i \in DOMAIN runs |->
                IF i \in ArtifactsToPrune(runs) THEN [runs[i] EXCEPT !.artifacts = FALSE]
                ELSE runs[i]]
  /\ UNCHANGED run

Next ==
  \/ \E req \in Requests : Launch(req) \/ LaunchRefused(req)
  \/ Push \/ Fail \/ Finish \/ Prune

Spec == Init /\ [][Next]_vars

-----------------------------------------------------------------------------
(* Properties.                                                               *)

\* A pod is paid for only if the hardware supports the variant's quant, which is the one
\* asked for if one was, and the variant's config exists and names an image
\* (resolve_variant: "an unservable combination never launches a pod").
UnservableIsNeverPaid ==
  run # None =>
    /\ \E i \in DOMAIN SupportedQuants[run.req.hardware] :
         run.quant = SupportedQuants[run.req.hardware][i]
    /\ run.req.quant \in {Unset, run.quant}
    /\ \E i \in DOMAIN Variants :
         /\ Variants[i].family = run.req.family /\ Variants[i].quant = run.quant
         /\ Variants[i].image
    /\ run.req.gpus > 0

\* The server that boots is sized for the sweep that bench_sdd will run, whatever the
\* scenario's serving section sets: it admits the largest team, its context fits card and
\* variant, it spans the GPUs the report will name, and it is the variant's model on the
\* GPUs that are rented unless the scenario names another.  compose and resolve_devs work
\* this out apart from each other, and the config travels in a file: another launch that
\* rewrote it is an excuse.
ServerFitsTheSweep ==
  run # None /\ run.pushed # None /\ ~run.disturbed =>
    /\ \A n \in MeasuredDevs(run.req) : 0 < n /\ n <= run.pushed.max_num_seqs
    /\ \A cap \in {HardwareCap[run.req.hardware], Variant(run.req).cap} \ {0} :
         run.pushed.max_model_len <= cap
    /\ run.pushed.tensor_parallel_size = GpuCount(run)
    /\ Serving(run.req).tensor_parallel_size = 0 => GpuCount(run) = run.req.gpus
    /\ Serving(run.req).model = Unset =>
         \E i \in DOMAIN Variants :
           /\ Variants[i].family = run.req.family /\ Variants[i].quant = run.quant
           /\ Variants[i].model = run.pushed.model

\* What a reader may ask to reprice: nothing, or one hardware.
WhatIfs == {<<>>} \cup UNION {[{h} -> Prices] : h \in Hardware}

\* The at-N ranking and the curves are computed by different code from the same runs,
\* and repriced by different code: the cheapest deal of the curves is always the
\* cheapest of all winners of the rankings, and row and point have the same $/MTok
\* unless the price changed after N was last measured.  A what-if at the price that all
\* runs of a combo were measured at changes nothing.
RankingAgreesWithTheCurves ==
  \A b \in Shown(runs), overrides \in WhatIfs :
    LET plain == AllSeries(runs, b)
        series == RepriceSeries(plain, overrides)
        rows == [n \in DevsFor(runs, b) |-> RepriceRows(ComboRows(runs, b, n), n, overrides)]
        winners == UNION {Winners(rows[n]) \X {n} : n \in DOMAIN rows}
        cost(p) == rows[p[2]][p[1]].cost_per_dev_month
    IN /\ BestDeals(series) = {p \in winners : \A q \in winners : ~Less(cost(q), cost(p))}
       /\ \A key \in DOMAIN series : \A n \in DOMAIN series[key] :
            LET latest == Max(RunsOf(runs, b, key))
                prices == {runs[i].price : i \in RunsOf(runs, b, key)}
                point == series[key][n]
            IN /\ runs[latest].price = runs[Max(Repeats(runs, b, key, n))].price =>
                    Same(point.cost_per_mtok, rows[n][key].cost_per_mtok)
               /\ prices = {point.price} =>
                    /\ Same(point.cost_per_mtok, plain[key][n].cost_per_mtok)
                    /\ Same(point.cost_per_dev_month, plain[key][n].cost_per_dev_month)

\* U(N) compares team sizes of one combo over one denominator, however the levels came to
\* be spread over runs: a size whose server computed more tokens has the higher utilization
\* (computed ones as far as they are known: with prefix-cache hits a size that serves more
\* may well have the lower U), and without a measured theta_max the best size has 1 and no
\* other has more.  A row's own utilization, its last report's, is the curve's as long as
\* one run measured it all.
UtilizationIsComparable ==
  \A b \in Shown(runs) : \A key \in Keys(runs, b) :
    LET curve == ComboSeries(runs, b, key)
        known == {n \in DOMAIN curve : curve[n].utilization # None}
        latest == runs[Max(RunsOf(runs, b, key))]
        one == [n |-> 1, d |-> 1]
    IN /\ \A m, n \in known :
            Less(Achieved(curve[m]), Achieved(curve[n]))
              <=> Less(curve[m].utilization, curve[n].utilization)
       /\ latest.theta = None /\ known # {} =>
            /\ Cardinality(known) > 1
            /\ \A n \in known : ~Less(one, curve[n].utilization)
            /\ \E n \in known : Same(curve[n].utilization, one)
       /\ Cardinality(RunsOf(runs, b, key)) = 1 =>
            \A n \in DOMAIN curve :
              Same(curve[n].utilization, ComboRow(runs, b, key, n).utilization)

\* The run a detail link opens still has its artifacts, and so has the latest run of every
\* combo of every benchmark: prune_artifacts goes by the names in a directory, run_detail
\* by the order of the paths over all benchmarks, and both pass over runs without report.
DetailKeepsItsArtifacts ==
  \A b \in Shown(runs) : \A key \in Keys(runs, b) :
    /\ runs[Detail(runs, key)].artifacts
    /\ runs[Max(RunsOf(runs, b, key))].artifacts

\* A later run extends the curve of its combo and never takes a team size from it, and a
\* size that one run failed to hold is not held again (combo_series, aggregate_entries).
CurvesKeepWhatWasMeasured ==
  [][\A b \in Benchmarks : \A key \in Keys(runs, b) : \A n \in Tested(runs, b, key) :
       /\ n \in Tested(runs', b, key)
       /\ ComboSeries(runs', b, key)[n].holds_slo => ComboSeries(runs, b, key)[n].holds_slo]_vars
=============================================================================
