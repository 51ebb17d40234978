------------------------------ MODULE LabProofs ------------------------------
(* Proofs about Lab.tla for every set of requests, config files, outcomes    *)
(* and prices and every number of runs: what is launched can be served, the  *)
(* server fits the sweep, curves only grow, detail links keep artifacts, the *)
(* utilizations of a curve compare, the ranking agrees with the curves.      *)
EXTENDS Lab, DataLemmas

-----------------------------------------------------------------------------
(* What run holds.                                                           *)

HeldRun ==
  [req |-> run.req, quant |-> run.quant, price |-> run.price, composed |-> run.composed,
   pushed |-> run.pushed, disturbed |-> run.disturbed]

\* The run that holds a pod was not refused, and the config on its way to the pod is the
\* one composed for it unless another launch has written there.
LaunchInv ==
  run # None =>
    /\ run = HeldRun
    /\ run.req \in Requests /\ ~Refused(run.req) /\ run.quant = ResolveQuant(run.req)
    /\ ~run.disturbed => /\ run.composed = Compose(run.req)
                         /\ run.pushed # None => run.pushed = Compose(run.req)

LEMMA StepLaunch == LaunchInv /\ [Next]_vars => LaunchInv'
  <1> SUFFICES ASSUME LaunchInv, [Next]_vars PROVE LaunchInv'
    OBVIOUS
  <1> USE DEF LaunchInv, HeldRun
  <1>1. ASSUME NEW req \in Requests, Launch(req) PROVE LaunchInv'
    <2>1. PICK price \in Prices :
            run' = [req |-> req, quant |-> ResolveQuant(req), price |-> price,
                    composed |-> Compose(req), pushed |-> None, disturbed |-> FALSE]
      BY <1>1 DEF Launch
    <2> HIDE DEF HeldRun
    <2>2. ~Refused(req)
      BY <1>1 DEF Launch
    <2>3. /\ run'.req = req /\ run'.quant = ResolveQuant(req) /\ run'.pushed = None
          /\ run'.composed = Compose(req) /\ run'.price = price /\ run'.disturbed = FALSE
      BY <2>1
    <2>4. run' = HeldRun'
      BY <2>1, <2>3 DEF HeldRun
    <2> QED
      BY <2>2, <2>3, <2>4
  <1>2. ASSUME NEW req \in Requests, LaunchRefused(req) PROVE LaunchInv'
    <2>1. run # None /\ run = HeldRun
      BY <1>2 DEF LaunchRefused
    <2>2. run' = [HeldRun EXCEPT !.composed = Compose(req), !.disturbed = TRUE]
      BY <1>2, <2>1 DEF LaunchRefused
    <2> QED
      BY <2>1, <2>2
  <1>3. CASE Push
    <2>1. run # None /\ run = HeldRun
      BY <1>3 DEF Push
    <2>2. run' = [HeldRun EXCEPT !.pushed = run.composed]
      BY <1>3, <2>1 DEF Push
    <2> QED
      BY <2>1, <2>2
  <1>4. CASE Fail \/ Finish
    BY <1>4 DEF Fail, Finish
  <1>5. CASE Prune \/ UNCHANGED vars
    BY <1>5 DEF Prune, vars
  <1> QED
    BY <1>1, <1>2, <1>3, <1>4, <1>5 DEF Next

LEMMA LaunchInvariance == Spec => []LaunchInv
  <1>1. Init => LaunchInv
    BY DEF Init, LaunchInv
  <1> QED
    BY <1>1, StepLaunch, PTL DEF Spec

-----------------------------------------------------------------------------
(* compose.py.                                                               *)

LEMMA FilesForType ==
  \A family, quant : /\ FilesFor(family, quant) \in SUBSET Nat
                     /\ FilesFor(family, quant) \subseteq DOMAIN Variants
                     /\ \A i \in FilesFor(family, quant) : i <= Len(Variants)
  BY VariantsAssumption DEF FilesFor

\* Of several files of a quant by_quant keeps one, and it is one of them.
LEMMA VariantIsAFile ==
  ASSUME NEW family, NEW quant, FilesFor(family, quant) # {}
  PROVE  Max(FilesFor(family, quant)) \in FilesFor(family, quant)
  <1>1. Len(Variants) \in Nat
    BY VariantsAssumption
  <1> QED
    BY <1>1, FilesForType, BoundedHasMax

\* resolve_variant: a quant that is supported, has a file, and is the one asked for.
LEMMA ResolvedIsServable ==
  ASSUME NEW req \in Request, ResolveQuant(req) # Unset
  PROVE  /\ \E i \in DOMAIN SupportedQuants[req.hardware] :
              ResolveQuant(req) = SupportedQuants[req.hardware][i]
         /\ req.quant \in {Unset, ResolveQuant(req)}
         /\ FilesFor(req.family, ResolveQuant(req)) # {}
  <1> DEFINE supported == SupportedQuants[req.hardware]
             wanted == {i \in DOMAIN supported :
                          /\ FilesFor(req.family, supported[i]) # {}
                          /\ req.quant \in {Unset, supported[i]}}
  <1>1. wanted \in SUBSET Nat
    BY HardwareAssumption DEF Request
  <1>2. ResolveQuant(req) = IF wanted = {} THEN Unset ELSE supported[Min(wanted)]
    <2>1. wanted = {i \in {j \in DOMAIN supported : FilesFor(req.family, supported[j]) # {}} :
                      req.quant \in {Unset, supported[i]}}
      OBVIOUS
    <2> QED
      BY <2>1, Zenon DEF ResolveQuant
  <1>3. wanted # {}
    BY <1>2
  <1>4. Min(wanted) \in wanted
    <2> HIDE DEF wanted
    <2> QED
      BY <1>1, <1>3, MinIsLeast
  <1> HIDE DEF supported
  <1>5. ResolveQuant(req) = supported[Min(wanted)]
    BY <1>2, <1>3
  <1> QED
    BY <1>4, <1>5 DEF supported

\* "An unservable combination never launches a pod", for every table of quants, every set of
\* config files and every request.
THEOREM Unservable == Spec => []UnservableIsNeverPaid
  <1>1. LaunchInv => UnservableIsNeverPaid
    <2> SUFFICES ASSUME LaunchInv, run # None PROVE UnservableIsNeverPaid
      BY DEF UnservableIsNeverPaid
    <2> DEFINE files == FilesFor(run.req.family, run.quant)
    <2>1. /\ run.req \in Request /\ run.quant = ResolveQuant(run.req)
          /\ run.quant # Unset /\ ~(run.req.gpus < 1) /\ Variant(run.req).image
      BY RequestsAssumption DEF LaunchInv, Refused
    <2>2. /\ \E i \in DOMAIN SupportedQuants[run.req.hardware] :
               run.quant = SupportedQuants[run.req.hardware][i]
          /\ run.req.quant \in {Unset, run.quant}
          /\ files # {}
      BY <2>1, ResolvedIsServable
    <2>3. Max(files) \in files
      BY <2>2, VariantIsAFile
    <2>4. /\ Max(files) \in DOMAIN Variants
          /\ Variants[Max(files)].family = run.req.family
          /\ Variants[Max(files)].quant = run.quant
      BY <2>3 DEF FilesFor
    <2>5. Variants[Max(files)].image
      BY <2>1 DEF Variant, VariantOf
    <2>6. run.req.gpus > 0
      BY <2>1 DEF Request
    <2> HIDE DEF files
    <2> QED
      BY <2>2, <2>4, <2>5, <2>6 DEF UnservableIsNeverPaid
  <1> QED
    BY <1>1, LaunchInvariance, PTL

\* compose_vllm_config and resolve_devs agree on what one request needs.
LEMMA ComposedFits ==
  ASSUME NEW req \in Requests, ~Refused(req)
  PROVE  /\ \A n \in MeasuredDevs(req) : 0 < n /\ n <= Compose(req).max_num_seqs
         /\ \A cap \in {HardwareCap[req.hardware], Variant(req).cap} \ {0} :
              Compose(req).max_model_len <= cap
         /\ Compose(req).tensor_parallel_size \in Nat \ {0}
         /\ Serving(req).tensor_parallel_size = 0 => Compose(req).tensor_parallel_size = req.gpus
         /\ Serving(req).model = Unset =>
              \E i \in DOMAIN Variants :
                /\ Variants[i].family = req.family /\ Variants[i].quant = ResolveQuant(req)
                /\ Variants[i].model = Compose(req).model
  <1> DEFINE scenario == Scenarios[req.benchmark]
             serving == Serving(req)
             files == FilesFor(req.family, ResolveQuant(req))
             seats == ServedDevs(req) \cup {1, serving.max_num_seqs}
             caps == {HardwareCap[req.hardware], Variant(req).cap} \ {0}
  <1>1. req \in Request /\ IsFiniteSet(req.devs)
    BY RequestsAssumption
  <1>2. /\ scenario \in ScenarioType /\ IsFiniteSet(scenario.devs)
        /\ serving \in ServingType
    BY <1>1, ScenariosAssumption DEF Request, Serving, ScenarioType
  <1>3. /\ Max(files) \in DOMAIN Variants /\ Variant(req) = Variants[Max(files)]
        /\ Variants[Max(files)].family = req.family
        /\ Variants[Max(files)].quant = ResolveQuant(req)
        /\ Variant(req).cap \in Nat
    <2>1. files # {}
      BY <1>1, ResolvedIsServable DEF Refused
    <2>2. Max(files) \in files
      BY <2>1, VariantIsAFile
    <2>3. Variant(req) = Variants[Max(files)]
      BY DEF Variant, VariantOf
    <2> HIDE DEF files
    <2>4. /\ Max(files) \in DOMAIN Variants /\ Variants[Max(files)].family = req.family
          /\ Variants[Max(files)].quant = ResolveQuant(req)
      BY <2>2 DEF FilesFor, files
    <2>5. Variant(req) \in VariantType
      BY <2>3, <2>4, VariantsAssumption
    <2> QED
      BY <2>3, <2>4, <2>5 DEF VariantType
  <1>4. MeasuredDevs(req) = ServedDevs(req)
    BY DEF MeasuredDevs, ServedDevs
  <1>5. ServedDevs(req) \subseteq Nat \ {0} /\ IsFiniteSet(ServedDevs(req))
    <2>1. req.devs \subseteq Nat \ {0} /\ scenario.devs \subseteq Nat \ {0}
      BY <1>1, <1>2 DEF Request, ScenarioType, Refused
    <2>2. IsFiniteSet({1})
      BY FS_Singleton
    <2> QED
      BY <1>1, <1>2, <2>1, <2>2 DEF ServedDevs
  <1>6. \A n \in seats : n <= Max(seats)
    <2>1. seats \in SUBSET Nat /\ seats # {}
      BY <1>2, <1>5 DEF ServingType
    <2>2. IsFiniteSet(seats)
      <3>1. IsFiniteSet({1} \cup {serving.max_num_seqs})
        BY FS_Singleton, FS_AddElement
      <3>2. IsFiniteSet(ServedDevs(req) \cup ({1} \cup {serving.max_num_seqs}))
        BY <1>5, <3>1, FS_Union
      <3>3. seats = ServedDevs(req) \cup ({1} \cup {serving.max_num_seqs})
        OBVIOUS
      <3> QED
        BY <3>2, <3>3
    <2> HIDE DEF seats
    <2> QED
      BY <2>1, <2>2, FiniteHasMax
  <1>7. Compose(req).max_num_seqs = Max(seats)
    BY DEF Compose
  <1>8. \A cap \in caps : MaxModelLen(req) <= cap
    <2>1. caps \in SUBSET Nat
      BY <1>1, <1>3, HardwareAssumption DEF Request
    <2> DEFINE requested == serving.max_model_len
    <2>2. requested \in Nat
      BY <1>2 DEF ServingType
    <2>3. caps # {} => Min(caps) \in caps /\ \A cap \in caps : Min(caps) <= cap
      <3> HIDE DEF caps
      <3> QED
        BY <2>1, MinIsLeast
    <2>4. MaxModelLen(req) = IF caps # {} /\ requested > Min(caps)
                             THEN Min(caps) ELSE requested
      BY Zenon DEF MaxModelLen
    <2> HIDE DEF caps, requested
    <2> SUFFICES ASSUME NEW cap \in caps PROVE MaxModelLen(req) <= cap
      OBVIOUS
    <2>5. Min(caps) \in Nat /\ cap \in Nat /\ Min(caps) <= cap /\ caps # {}
      BY <2>1, <2>3
    <2> QED
      BY <2>2, <2>4, <2>5
  <1>9. /\ Compose(req).max_model_len = MaxModelLen(req)
        /\ Compose(req).tensor_parallel_size = IF serving.tensor_parallel_size > 0
                                               THEN serving.tensor_parallel_size ELSE req.gpus
        /\ Compose(req).model = IF serving.model # Unset THEN serving.model ELSE Variant(req).model
    BY DEF Compose
  <1>12. /\ Compose(req).tensor_parallel_size \in Nat \ {0}
         /\ serving.tensor_parallel_size = 0 => Compose(req).tensor_parallel_size = req.gpus
    <2>1. req.gpus \in Nat \ {0}
      BY <1>1 DEF Request, Refused
    <2>2. serving.tensor_parallel_size \in Nat
      BY <1>2 DEF ServingType
    <2> HIDE DEF serving
    <2> QED
      BY <1>9, <2>1, <2>2
  <1>13. serving.model = Unset =>
           \E i \in DOMAIN Variants :
             /\ Variants[i].family = req.family /\ Variants[i].quant = ResolveQuant(req)
             /\ Variants[i].model = Compose(req).model
    <2> HIDE DEF serving, files
    <2> QED
      BY <1>3, <1>9
  <1>10. \A n \in ServedDevs(req) : n \in seats
    OBVIOUS
  <1>11. \A n \in ServedDevs(req) : 0 < n
    BY <1>5
  <1> HIDE DEF seats, caps, files
  <1> QED
    BY <1>4, <1>6, <1>7, <1>8, <1>9, <1>10, <1>11, <1>12, <1>13 DEF caps

\* The config that reaches the pod is sized for the sweep that bench_sdd will run, and for the
\* GPUs its report will name, whatever the request and whatever the serving section of the
\* scenario sets, unless another launch rewrote it on the way.
THEOREM ServerFits == Spec => []ServerFitsTheSweep
  <1>1. LaunchInv => ServerFitsTheSweep
    <2> SUFFICES ASSUME LaunchInv, run # None, run.pushed # None, ~run.disturbed
                 PROVE  ServerFitsTheSweep
      BY DEF ServerFitsTheSweep
    <2>1. /\ run.req \in Requests /\ ~Refused(run.req) /\ run.quant = ResolveQuant(run.req)
          /\ run.pushed = Compose(run.req)
      BY DEF LaunchInv
    <2> QED
      BY <2>1, ComposedFits DEF ServerFitsTheSweep, GpuCount
  <1> QED
    BY <1>1, LaunchInvariance, PTL
-----------------------------------------------------------------------------
(* What runs holds.                                                          *)

RunIs(r) ==
  r = [benchmark |-> r.benchmark, family |-> r.family, quant |-> r.quant,
       hardware |-> r.hardware, gpus |-> r.gpus, price |-> r.price, report |-> r.report,
       by_devs |-> r.by_devs, theta |-> r.theta, artifacts |-> r.artifacts]

Members(rs) == {rs[i] : i \in DOMAIN rs}

\* results/ is a sequence of records: runs are added at its end.
ResultsInv ==
  /\ runs \in Seq(Members(runs))
  /\ \A i \in DOMAIN runs : RunIs(runs[i]) /\ runs[i].benchmark \in Benchmarks

\* The same run, with or without its artifacts.
SameRun(r, s) ==
  /\ s.benchmark = r.benchmark /\ RunKey(s) = RunKey(r)
  /\ s.report = r.report /\ s.by_devs = r.by_devs /\ s.price = r.price /\ s.theta = r.theta

LEMMA AppendRun ==
  ASSUME NEW rs, rs \in Seq(Members(rs)), NEW r
  PROVE  LET longer == Append(rs, r)
         IN  /\ longer \in Seq(Members(longer))
             /\ DOMAIN longer = DOMAIN rs \cup {Len(rs) + 1} /\ DOMAIN rs = 1 .. Len(rs)
             /\ \A i \in DOMAIN rs : longer[i] = rs[i]
             /\ longer[Len(rs) + 1] = r
  <1> DEFINE longer == Append(rs, r)
  <1>1. rs \in Seq(Members(rs) \cup {r}) /\ r \in Members(rs) \cup {r}
    OBVIOUS
  <1> HIDE DEF Members
  <1>2. /\ Len(rs) \in Nat /\ DOMAIN rs = 1 .. Len(rs)
        /\ longer \in Seq(Members(rs) \cup {r}) /\ Len(longer) = Len(rs) + 1
        /\ \A i \in 1 .. Len(rs) : longer[i] = rs[i]
        /\ longer[Len(rs) + 1] = r
    BY <1>1
  <1>3. DOMAIN longer = 1 .. Len(rs) + 1
    BY <1>2
  <1>4. \A i \in 1 .. Len(longer) : longer[i] \in Members(longer)
    BY <1>2, <1>3 DEF Members
  <1>5. longer \in Seq(Members(longer))
    BY <1>1, <1>2, <1>4
  <1> HIDE DEF longer
  <1> QED
    BY <1>2, <1>3, <1>5 DEF longer

LEMMA RecordIsRun ==
  ASSUME NEW r, NEW price, NEW by_devs, NEW theta, r.req \in Requests
  PROVE  LET new == Record(r, price, by_devs, theta)
         IN RunIs(new) /\ new.benchmark \in Benchmarks /\ new.artifacts = TRUE
  BY RequestsAssumption DEF Record, RunIs, Request

\* A step leaves every run what it was, but for its artifacts, and adds at most one.
LEMMA StepResults ==
  ASSUME LaunchInv, ResultsInv, [Next]_vars
  PROVE  /\ ResultsInv'
         /\ \A i \in DOMAIN runs : i \in DOMAIN runs' /\ SameRun(runs[i], runs'[i])
         /\ \/ UNCHANGED runs
            \/ Prune
            \/ \E r : runs' = Append(runs, r) /\ r.artifacts = TRUE
  <1>1. CASE UNCHANGED runs
    BY <1>1 DEF ResultsInv, RunIs, Members, SameRun, RunKey
  <1>2. ASSUME NEW price, NEW by_devs, NEW theta, run # None,
               runs' = Append(runs, Record(run, price, by_devs, theta))
        PROVE  /\ ResultsInv'
               /\ \A i \in DOMAIN runs : i \in DOMAIN runs' /\ SameRun(runs[i], runs'[i])
               /\ \E r : runs' = Append(runs, r) /\ r.artifacts = TRUE
    <2> DEFINE new == Record(run, price, by_devs, theta)
    <2>1. RunIs(new) /\ new.benchmark \in Benchmarks /\ new.artifacts = TRUE
      BY <1>2, RecordIsRun DEF LaunchInv
    <2> HIDE DEF new
    <2>2. runs' = Append(runs, new)
      BY <1>2 DEF new
    <2>3. /\ runs' \in Seq(Members(runs'))
          /\ DOMAIN runs' = DOMAIN runs \cup {Len(runs) + 1}
          /\ \A i \in DOMAIN runs : runs'[i] = runs[i]
          /\ runs'[Len(runs) + 1] = new
      BY <2>2, AppendRun DEF ResultsInv
    <2>4. \A i \in DOMAIN runs' : RunIs(runs'[i]) /\ runs'[i].benchmark \in Benchmarks
      BY <2>1, <2>3 DEF ResultsInv
    <2> QED
      BY <2>1, <2>2, <2>3, <2>4 DEF ResultsInv, SameRun, Members
  <1>3. CASE Prune
    <2>1. /\ DOMAIN runs' = DOMAIN runs
          /\ \A i \in DOMAIN runs : \/ runs'[i] = runs[i]
                                    \/ runs'[i] = [runs[i] EXCEPT !.artifacts = FALSE]
      BY <1>3 DEF Prune
    <2>2. \A i \in DOMAIN runs : /\ RunIs(runs'[i]) /\ SameRun(runs[i], runs'[i])
                                 /\ runs'[i].benchmark \in Benchmarks
      <3> TAKE i \in DOMAIN runs
      <3>1. RunIs(runs[i]) /\ runs[i].benchmark \in Benchmarks
        BY DEF ResultsInv
      <3>2. CASE runs'[i] = runs[i]
        BY <3>1, <3>2 DEF SameRun
      <3>3. CASE runs'[i] = [runs[i] EXCEPT !.artifacts = FALSE]
        BY <3>1, <3>3 DEF SameRun, RunIs, RunKey
      <3> QED
        BY <2>1, <3>2, <3>3
    <2>3. runs' \in Seq(Members(runs'))
      <3>1. Len(runs) \in Nat /\ DOMAIN runs = 1 .. Len(runs)
        BY DEF ResultsInv
      <3>2. runs' = [i \in 1 .. Len(runs) |-> runs'[i]]
        BY <1>3, <2>1, <3>1 DEF Prune
      <3>3. \A i \in 1 .. Len(runs) : runs'[i] \in Members(runs')
        BY <2>1, <3>1 DEF Members
      <3> HIDE DEF Members
      <3> QED
        BY <3>1, <3>2, <3>3
    <2> QED
      BY <1>3, <2>1, <2>2, <2>3 DEF ResultsInv
  <1>4. CASE Fail
    BY <1>1, <1>2, <1>4 DEF Fail
  <1>5. CASE Finish
    <2>1. PICK by_devs, theta : runs' = Append(runs, Record(run, run.price, by_devs, theta))
      BY <1>5 DEF Finish
    <2> QED
      BY <1>2, <1>5, <2>1 DEF Finish
  <1>6. CASE \E req \in Requests : Launch(req) \/ LaunchRefused(req)
    BY <1>1, <1>6 DEF Launch, LaunchRefused
  <1>7. CASE Push
    BY <1>1, <1>7 DEF Push
  <1>8. CASE UNCHANGED vars
    BY <1>1, <1>8 DEF vars
  <1> QED
    BY <1>3, <1>4, <1>5, <1>6, <1>7, <1>8 DEF Next

LEMMA InitResults == Init => ResultsInv
  BY DEF Init, ResultsInv, Members
LEMMA ResultsInvariance == Spec => [](LaunchInv /\ ResultsInv)
  <1>1. Init => ResultsInv
    BY InitResults
  <1>2. LaunchInv /\ ResultsInv /\ [Next]_vars => ResultsInv'
    BY StepResults
  <1> QED
    BY <1>1, <1>2, LaunchInvariance, PTL DEF Spec

-----------------------------------------------------------------------------
(* The curves.                                                               *)

\* combo_series: a point holds the SLO if every repeat of its size did.
LEMMA PointHolds ==
  ASSUME NEW rs, NEW b, NEW key, NEW n \in Tested(rs, b, key)
  PROVE  ComboSeries(rs, b, key)[n].holds_slo
           = \A i \in Repeats(rs, b, key, n) : rs[i].by_devs[n].holds_slo
  <1> DEFINE latest == rs[Max(RunsOf(rs, b, key))]
             point(m) == AggregateEntries(rs, Repeats(rs, b, key, m), m)
             points == [m \in Tested(rs, b, key) |-> point(m)]
             denominator == Denominator(latest.theta, RatesOf(points))
             rate(m) == Utilization(Achieved(points[m]), denominator)
             price == latest.price
  <1>1. ComboSeries(rs, b, key) =
          [m \in DOMAIN points |->
             Priced([points[m] EXCEPT !.utilization = rate(m)], key, price)]
    BY Zenon DEF ComboSeries
  <1>2. DOMAIN points = Tested(rs, b, key) /\ points[n] = point(n)
    OBVIOUS
  <1> HIDE DEF points, rate, price
  <1>3. ComboSeries(rs, b, key)[n]
          = Priced([point(n) EXCEPT !.utilization = rate(n)], key, price)
    BY <1>1, <1>2
  <1>4. [point(n) EXCEPT !.utilization = rate(n)].holds_slo = point(n).holds_slo
    BY DEF AggregateEntries
  <1>5. point(n).holds_slo = \A i \in Repeats(rs, b, key, n) : rs[i].by_devs[n].holds_slo
    BY Zenon DEF AggregateEntries
  <1> HIDE DEF point
  <1>6. ComboSeries(rs, b, key)[n].holds_slo = [point(n) EXCEPT !.utilization = rate(n)].holds_slo
    BY <1>3 DEF Priced
  <1> QED
    BY <1>4, <1>5, <1>6, Zenon

\* What a later run cannot take from a combo: the runs that tested a size stay, and others
\* can only join them.
LEMMA RepeatsGrow ==
  ASSUME NEW rs, NEW longer, NEW b, NEW key, NEW n,
         \A i \in DOMAIN rs : i \in DOMAIN longer /\ SameRun(rs[i], longer[i])
  PROVE  /\ Repeats(rs, b, key, n) \subseteq Repeats(longer, b, key, n)
         /\ \A i \in Repeats(rs, b, key, n) : longer[i].by_devs = rs[i].by_devs
         /\ n \in Tested(rs, b, key) => n \in Tested(longer, b, key)
  <1>1. RunsOf(rs, b, key) \subseteq RunsOf(longer, b, key)
    BY DEF RunsOf, Of, Loaded, SameRun
  <1>2. \A i \in RunsOf(rs, b, key) : longer[i].by_devs = rs[i].by_devs
    BY DEF RunsOf, Of, Loaded, SameRun
  <1>3. Repeats(rs, b, key, n) \subseteq Repeats(longer, b, key, n)
    BY <1>1, <1>2 DEF Repeats
  <1>4. n \in Tested(rs, b, key) => n \in Tested(longer, b, key)
    BY <1>1, <1>2 DEF Tested
  <1> QED
    BY <1>2, <1>3, <1>4 DEF Repeats

\* combo_series and aggregate_entries, for every history of runs: a size never leaves a curve,
\* and one that failed the SLO once never holds it again.
THEOREM CurvesKeep == Spec => CurvesKeepWhatWasMeasured
  <1> DEFINE Kept == \A b \in Benchmarks : \A key \in Keys(runs, b) :
                       \A n \in Tested(runs, b, key) :
                         /\ n \in Tested(runs', b, key)
                         /\ ComboSeries(runs', b, key)[n].holds_slo =>
                              ComboSeries(runs, b, key)[n].holds_slo
  <1>1. LaunchInv /\ ResultsInv /\ [Next]_vars => [Kept]_vars
    <2> SUFFICES ASSUME LaunchInv, ResultsInv, [Next]_vars PROVE Kept
      OBVIOUS
    <2> SUFFICES ASSUME NEW b \in Benchmarks, NEW key \in Keys(runs, b),
                        NEW n \in Tested(runs, b, key)
                 PROVE  /\ n \in Tested(runs', b, key)
                        /\ ComboSeries(runs', b, key)[n].holds_slo =>
                             ComboSeries(runs, b, key)[n].holds_slo
      OBVIOUS
    <2>1. \A i \in DOMAIN runs : i \in DOMAIN runs' /\ SameRun(runs[i], runs'[i])
      BY StepResults
    <2>2. /\ Repeats(runs, b, key, n) \subseteq Repeats(runs', b, key, n)
          /\ \A i \in Repeats(runs, b, key, n) : runs'[i].by_devs = runs[i].by_devs
          /\ n \in Tested(runs', b, key)
      BY <2>1, RepeatsGrow
    <2>3. /\ ComboSeries(runs, b, key)[n].holds_slo
               = \A i \in Repeats(runs, b, key, n) : runs[i].by_devs[n].holds_slo
          /\ ComboSeries(runs', b, key)[n].holds_slo
               = \A i \in Repeats(runs', b, key, n) : runs'[i].by_devs[n].holds_slo
      BY <2>2, PointHolds
    <2> QED
      BY <2>2, <2>3
  <1> QED
    BY <1>1, ResultsInvariance, PTL DEF Spec, CurvesKeepWhatWasMeasured

-----------------------------------------------------------------------------
(* The artifacts.                                                            *)

\* A run whose artifacts were taken is followed by a report of its benchmark and combo.
PrunedInv ==
  \A i \in Loaded(runs) : ~runs[i].artifacts =>
    \E j \in RunsOf(runs, runs[i].benchmark, RunKey(runs[i])) : j > i

\* The latest of the runs of a combo.
LEMMA LatestRun ==
  ASSUME ResultsInv, NEW b, NEW key, RunsOf(runs, b, key) # {}
  PROVE  LET last == Max(RunsOf(runs, b, key))
         IN last \in RunsOf(runs, b, key) /\ \A i \in RunsOf(runs, b, key) : i <= last
  <1>1. Len(runs) \in Nat /\ DOMAIN runs = 1 .. Len(runs)
    BY DEF ResultsInv
  <1>2. RunsOf(runs, b, key) \in SUBSET Nat /\ \A i \in RunsOf(runs, b, key) : i <= Len(runs)
    BY <1>1 DEF RunsOf, Of, Loaded
  <1> QED
    BY <1>1, <1>2, BoundedHasMax

LEMMA StepPruned ==
  ASSUME LaunchInv, ResultsInv, ResultsInv', PrunedInv, [Next]_vars
  PROVE  PrunedInv'
  <1> SUFFICES ASSUME NEW i \in Loaded(runs'), ~runs'[i].artifacts
               PROVE  \E j \in RunsOf(runs', runs'[i].benchmark, RunKey(runs'[i])) : j > i
    BY DEF PrunedInv
  <1>1. \A j \in DOMAIN runs : j \in DOMAIN runs' /\ SameRun(runs[j], runs'[j])
    BY StepResults
  <1>2. \A b, key : RunsOf(runs, b, key) \subseteq RunsOf(runs', b, key)
    BY <1>1 DEF RunsOf, Of, Loaded, SameRun
  <1>3. CASE UNCHANGED runs
    BY <1>3 DEF PrunedInv
  <1>4. CASE \E r : runs' = Append(runs, r) /\ r.artifacts = TRUE
    <2>1. PICK r : runs' = Append(runs, r) /\ r.artifacts = TRUE
      BY <1>4
    <2>2. /\ DOMAIN runs' = DOMAIN runs \cup {Len(runs) + 1}
          /\ \A j \in DOMAIN runs : runs'[j] = runs[j]
          /\ runs'[Len(runs) + 1] = r
      BY <2>1, AppendRun DEF ResultsInv
    <2>3. i \in DOMAIN runs /\ runs'[i] = runs[i]
      BY <2>1, <2>2 DEF Loaded
    <2>4. i \in Loaded(runs) /\ ~runs[i].artifacts
      BY <2>3 DEF Loaded
    <2> QED
      BY <1>2, <2>3, <2>4 DEF PrunedInv
  <1>5. CASE Prune
    <2>1. /\ DOMAIN runs' = DOMAIN runs
          /\ \A j \in DOMAIN runs \ ArtifactsToPrune(runs) : runs'[j] = runs[j]
      BY <1>5 DEF Prune
    <2>2. i \in DOMAIN runs /\ SameRun(runs[i], runs'[i])
      BY <1>1, <2>1 DEF Loaded
    <2>3. i \in Loaded(runs)
      BY <2>2 DEF Loaded, SameRun
    <2>4. \E j \in RunsOf(runs, runs[i].benchmark, RunKey(runs[i])) : j > i
      <3>1. CASE i \in ArtifactsToPrune(runs)
        <4> DEFINE mine == RunsOf(runs, runs[i].benchmark, RunKey(runs[i]))
        <4>1. i \in mine /\ i # Max(mine)
          BY <2>3, <3>1 DEF ArtifactsToPrune, RunsOf, Of
        <4>2. Max(mine) \in mine /\ i <= Max(mine)
          BY <4>1, LatestRun
        <4>3. i \in Nat /\ Max(mine) \in Nat
          BY <4>1, <4>2 DEF RunsOf, Of, Loaded, ResultsInv
        <4> HIDE DEF mine
        <4>4. Max(mine) > i
          BY <4>1, <4>2, <4>3
        <4> QED
          BY <4>2, <4>4 DEF mine
      <3>2. CASE i \notin ArtifactsToPrune(runs)
        BY <2>1, <2>2, <2>3, <3>2 DEF PrunedInv
      <3> QED
        BY <3>1, <3>2
    <2> QED
      BY <1>2, <2>2, <2>4 DEF SameRun
  <1> QED
    BY <1>3, <1>4, <1>5, StepResults

\* prune_artifacts and run_detail, for every history of runs and every order of the
\* benchmarks' paths: what a detail link opens, and what is latest, is never pruned.
THEOREM DetailKept == Spec => []DetailKeepsItsArtifacts
  <1>1. Init => PrunedInv
    BY DEF Init, PrunedInv, Loaded
  <1>2. ASSUME ResultsInv, PrunedInv PROVE DetailKeepsItsArtifacts
    <2>1. ASSUME NEW b, NEW key, RunsOf(runs, b, key) # {}
          PROVE  runs[Max(RunsOf(runs, b, key))].artifacts
      <3> DEFINE last == Max(RunsOf(runs, b, key))
      <3> SUFFICES ASSUME ~runs[last].artifacts PROVE FALSE
        OBVIOUS
      <3>1. /\ last \in RunsOf(runs, b, key)
            /\ \A i \in RunsOf(runs, b, key) : i <= last
        BY <1>2, <2>1, LatestRun
      <3>2. /\ last \in Loaded(runs) /\ runs[last].benchmark = b /\ RunKey(runs[last]) = key
            /\ \A i \in RunsOf(runs, b, key) : i \in Nat
        BY <1>2, <3>1 DEF RunsOf, Of, Loaded, ResultsInv
      <3> HIDE DEF last
      <3>3. PICK j \in RunsOf(runs, b, key) : j > last
        BY <1>2, <3>2 DEF PrunedInv
      <3> QED
        BY <3>1, <3>2, <3>3
    <2>2. ASSUME NEW b \in Shown(runs), NEW key \in Keys(runs, b)
          PROVE  runs[Detail(runs, key)].artifacts /\ RunsOf(runs, b, key) # {}
      <3>1. RunsOf(runs, b, key) # {} /\ b \in Benchmarks
        BY <1>2 DEF Shown, Keys, RunsOf, Of, Loaded, ResultsInv
      <3> DEFINE ranks == {rank \in DOMAIN PathOrder : RunsOf(runs, PathOrder[rank], key) # {}}
      <3>2. ranks # {}
        BY <3>1, PathOrderAssumption
      <3>3. /\ ranks \in SUBSET Nat /\ Len(PathOrder) \in Nat
            /\ \A rank \in ranks : rank <= Len(PathOrder)
        BY PathOrderAssumption
      <3>4. Max(ranks) \in ranks
        <4> HIDE DEF ranks
        <4> QED
          BY <3>2, <3>3, BoundedHasMax
      <3>5. RunsOf(runs, PathOrder[Max(ranks)], key) # {}
        BY <3>4
      <3>6. Detail(runs, key) = Max(RunsOf(runs, PathOrder[Max(ranks)], key))
        BY Zenon DEF Detail
      <3> HIDE DEF ranks
      <3> QED
        BY <2>1, <3>1, <3>5, <3>6
    <2> QED
      BY <2>1, <2>2 DEF DetailKeepsItsArtifacts
  <1>3. LaunchInv /\ ResultsInv /\ ResultsInv' /\ PrunedInv /\ [Next]_vars => PrunedInv'
    BY StepPruned
  <1> QED
    BY <1>1, <1>2, <1>3, ResultsInvariance, PTL DEF Spec

-----------------------------------------------------------------------------
(* Fractions and means.                                                      *)

Fraction == [n : Nat, d : Nat \ {0}]
Whole == [n : Nat, d : {1}]

LEMMA FractionIsNotNone ==
  \A x \in Fraction : x # None /\ x.n \in Nat /\ x.d \in Nat \ {0} /\ x = [n |-> x.n, d |-> x.d]
  <1>1. \A x \in Fraction : x \in [n : Nat, d : Nat]
    BY DEF Fraction
  <1> QED
    BY <1>1, NoneAssumption DEF Fraction

LEMMA Products ==
  /\ \A x, y \in Nat : x * y \in Nat
  /\ \A x, y \in Nat \ {0} : x * y \in Nat \ {0}
  OBVIOUS

LEMMA FractionPlus == \A x, y \in Fraction : Plus(x, y) \in Fraction
  <1> SUFFICES ASSUME NEW x \in Fraction, NEW y \in Fraction PROVE Plus(x, y) \in Fraction
    OBVIOUS
  <1>1. x.n \in Nat /\ y.n \in Nat /\ x.d \in Nat \ {0} /\ y.d \in Nat \ {0}
    BY FractionIsNotNone
  <1>2. x.n * y.d \in Nat /\ y.n * x.d \in Nat /\ x.d * y.d \in Nat \ {0}
    BY <1>1, Products
  <1>3. x.n + y.n \in Nat /\ x.n * y.d + y.n * x.d \in Nat
    BY <1>1, <1>2
  <1> QED
    BY <1>1, <1>2, <1>3 DEF Plus, Fraction

\* Not being less is an order in which any two fractions compare.
LEMMA FractionOrder ==
  /\ \A x, y \in Fraction : ~Less(x, y) \/ ~Less(y, x)
  /\ \A x, y, z \in Fraction : ~Less(x, y) /\ ~Less(y, z) => ~Less(x, z)
  /\ \A x, y \in Fraction : ~Less(x, y) <=> y.n * x.d <= x.n * y.d
  <1>1. \A x, y \in Fraction : /\ x.n * y.d \in Int /\ y.n * x.d \in Int
                               /\ ~Less(x, y) <=> y.n * x.d <= x.n * y.d
    <2> SUFFICES ASSUME NEW x \in Fraction, NEW y \in Fraction
                 PROVE  /\ x.n * y.d \in Int /\ y.n * x.d \in Int
                        /\ ~Less(x, y) <=> y.n * x.d <= x.n * y.d
      OBVIOUS
    <2>1. x.n \in Nat /\ y.n \in Nat /\ x.d \in Nat /\ y.d \in Nat
      BY FractionIsNotNone
    <2>2. x.n * y.d \in Nat /\ y.n * x.d \in Nat
      BY <2>1, Products
    <2> QED
      BY <2>2 DEF Less
  <1>2. ASSUME NEW x \in Fraction, NEW y \in Fraction, NEW z \in Fraction,
               ~Less(x, y), ~Less(y, z)
        PROVE  ~Less(x, z)
    <2>1. y.n * x.d <= x.n * y.d /\ z.n * y.d <= y.n * z.d
      BY <1>1, <1>2
    <2>2. /\ x.n \in Int /\ y.n \in Int /\ z.n \in Int
          /\ x.d \in Nat \ {0} /\ y.d \in Nat \ {0} /\ z.d \in Nat \ {0}
      BY FractionIsNotNone
    <2>3. z.n * x.d <= x.n * z.d
      BY <2>1, <2>2, FractionsTransitive
    <2> QED
      BY <1>1, <2>3
  <1>3. \A x, y \in Fraction : ~Less(x, y) \/ ~Less(y, x)
    BY <1>1
  <1> QED
    BY <1>1, <1>2, <1>3

\* What fmean adds up: the entries that have the value, one after the other.
Known(f) == {i \in DOMAIN f : f[i] # None}
AddsUp(g, f) ==
  /\ g \in [SUBSET Known(f) -> Fraction] /\ g[{}] = Zero
  /\ \A s \in SUBSET Known(f) :
       s # {} => g[s] = Plus(f[AnyOf(Known(f))[s]], g[s \ {AnyOf(Known(f))[s]}])
Values(f) == IsFiniteSet(DOMAIN f) /\ \A i \in DOMAIN f : f[i] \in Fraction \cup {None}

LEMMA MeanUnfolds ==
  ASSUME NEW f, Values(f)
  PROVE  /\ Known(f) = {} => Mean(f) = None
         /\ Known(f) # {} =>
              \E g : /\ AddsUp(g, f)
                     /\ Mean(f) = Times(g[Known(f)], [n |-> 1, d |-> Cardinality(Known(f))])
  <1> DEFINE S == Known(f)
             Value(g, s) == IF s = {} THEN Zero
                            ELSE Plus(f[CHOOSE x \in s : TRUE], g[s \ {CHOOSE x \in s : TRUE}])
             IsFold(g) == g = [s \in SUBSET S |-> Value(g, s)]
             h == CHOOSE g : IsFold(g)
             step == [p \in (SUBSET S) \X Fraction |-> Plus(f[AnyOf(S)[p[1]]], p[2])]
  <1>f. IsFiniteSet(S)
    BY FS_Subset DEF Known, Values
  <1>0. /\ \A i \in S : f[i] \in Fraction
        /\ Picks(AnyOf(S), S) /\ \A s \in SUBSET S : AnyOf(S)[s] = CHOOSE x \in s : TRUE
    BY AnyOfPicks DEF Known, Values
  <1>1. Mean(f) = IF S = {} THEN None
                  ELSE Times(FoldFunctionOnSet(Plus, Zero, f, S), [n |-> 1, d |-> Cardinality(S)])
    BY DEF Mean, Known
  <1>2. FoldFunctionOnSet(Plus, Zero, f, S) = h[S]
    BY DEF FoldFunctionOnSet, MapThenFoldSet
  <1> HIDE DEF S
  <1>3. \A s \in SUBSET S, v \in Fraction : step[<<s, v>>] = Plus(f[AnyOf(S)[s]], v)
    OBVIOUS
  <1> HIDE DEF step
  <1>4. StepsIn(step, S, Fraction) /\ Zero \in Fraction
    <2>1. Zero \in Fraction
      BY DEF Zero, Fraction
    <2>2. \A s \in SUBSET S : s # {} => f[AnyOf(S)[s]] \in Fraction
      BY <1>0 DEF Picks
    <2> QED
      BY <1>3, <2>1, <2>2, FractionPlus DEF StepsIn
  <1>5. PICK g \in [SUBSET S -> Fraction] : FoldsTo(g, S, Zero, AnyOf(S), step)
    <2>1. \A base, pick, st :
             base \in Fraction /\ Picks(pick, S) /\ StepsIn(st, S, Fraction)
             => \E g \in [SUBSET S -> Fraction] : FoldsTo(g, S, base, pick, st)
      BY <1>f, FoldExists
    <2> QED
      BY <1>0, <1>4, <2>1
  <1>6. IsFold(g)
    <2>1. ASSUME NEW s \in SUBSET S PROVE g[s] = Value(g, s)
      <3>1. CASE s = {}
        BY <1>5, <3>1 DEF FoldsTo
      <3>2. CASE s # {}
        <4>1. g[s] = step[<<s, g[s \ {AnyOf(S)[s]}]>>]
          BY <1>5, <3>2 DEF FoldsTo
        <4>2. g[s \ {AnyOf(S)[s]}] \in Fraction
          BY <1>5
        <4> QED
          BY <1>0, <1>3, <3>2, <4>1, <4>2
      <3> QED
        BY <3>1, <3>2
    <2> HIDE DEF Value
    <2> QED
      BY <1>5, <2>1
  <1>7. IsFold(h)
    <2> HIDE DEF IsFold
    <2> QED
      BY <1>6
  <1> HIDE DEF h
  <1>8. \A s \in SUBSET S : h[s] \in Fraction
    <2> DEFINE Q == {s \in SUBSET S : h[s] \in Fraction}
    <2>1. Inductive(Q, S, AnyOf(S))
      <3>1. {} \in Q
        BY <1>4, <1>7
      <3>2. ASSUME NEW s \in SUBSET S, s # {}, s \ {AnyOf(S)[s]} \in Q PROVE s \in Q
        <4>1. h[s] = Plus(f[AnyOf(S)[s]], h[s \ {AnyOf(S)[s]}])
          BY <1>0, <1>7, <3>2
        <4>2. f[AnyOf(S)[s]] \in Fraction /\ h[s \ {AnyOf(S)[s]}] \in Fraction
          BY <1>0, <3>2 DEF Picks
        <4> QED
          BY <4>1, <4>2, FractionPlus
      <3> HIDE DEF Q
      <3> QED
        BY <3>1, <3>2 DEF Inductive
    <2> HIDE DEF Q
    <2>2. \A s \in SUBSET S : s \in Q
      BY <1>f, <1>0, <2>1, SubsetInduction
    <2> QED
      BY <2>2 DEF Q
  <1>9. AddsUp(h, f)
    <2>1. h \in [SUBSET S -> Fraction]
      BY <1>7, <1>8
    <2>2. h[{}] = Zero
      BY <1>7
    <2>3. \A s \in SUBSET S : s # {} => h[s] = Plus(f[AnyOf(S)[s]], h[s \ {AnyOf(S)[s]}])
      BY <1>0, <1>7
    <2> QED
      BY <2>1, <2>2, <2>3 DEF AddsUp, S
  <1> QED
    BY <1>1, <1>2, <1>9 DEF S

\* The mean of nothing is missing, that of something is a fraction.
LEMMA MeanType ==
  ASSUME NEW f, Values(f)
  PROVE  IF Known(f) = {} THEN Mean(f) = None ELSE Mean(f) \in Fraction
  <1> SUFFICES ASSUME Known(f) # {} PROVE Mean(f) \in Fraction
    BY MeanUnfolds
  <1>1. PICK g : /\ AddsUp(g, f)
                 /\ Mean(f) = Times(g[Known(f)], [n |-> 1, d |-> Cardinality(Known(f))])
    BY MeanUnfolds
  <1>2. g[Known(f)] \in Fraction
    BY <1>1 DEF AddsUp
  <1>3. Cardinality(Known(f)) \in Nat \ {0}
    <2>1. IsFiniteSet(Known(f))
      BY FS_Subset DEF Values, Known
    <2> QED
      BY <2>1, FS_CardinalityType, FS_EmptySet
  <1>4. /\ g[Known(f)].n \in Nat /\ g[Known(f)].d \in Nat \ {0}
    BY <1>2, FractionIsNotNone
  <1>5. g[Known(f)].n * 1 \in Nat /\ g[Known(f)].d * Cardinality(Known(f)) \in Nat \ {0}
    BY <1>3, <1>4, Products
  <1> QED
    BY <1>1, <1>5 DEF Times, Fraction

LEMMA AddOneMore ==
  ASSUME NEW p \in Nat, NEW q \in Nat, NEW n \in Nat, NEW d \in Nat, NEW c \in Nat,
         n * q = (c * p) * d
  PROVE  /\ q = d => (p + n) * q = ((c + 1) * p) * q
         /\ (p * d + n * q) * q = ((c + 1) * p) * (q * d)
  <1>1. c * p \in Nat
    BY Products
  <1> DEFINE k == c * p
  <1>2. (c + 1) * p = k + p
    OBVIOUS
  <1>3. n * q = k * d /\ k \in Nat
    BY <1>1
  <1> HIDE DEF k
  <1>4. q = d => (p + n) * q = (k + p) * q
    BY <1>3
  <1>5. (p * d + n * q) * q = (k + p) * (q * d)
    <2>1. (p * d + k * d) * q = (k + p) * (q * d)
      BY <1>3
    <2> QED
      BY <1>3, <2>1
  <1> QED
    BY <1>2, <1>4, <1>5

\* The mean of equal entries is as large as each of them.
LEMMA MeanOfEqual ==
  ASSUME NEW f, Values(f), DOMAIN f # {}, NEW v \in Fraction, \A i \in DOMAIN f : f[i] = v
  PROVE  Same(Mean(f), v)
  <1> DEFINE S == DOMAIN f
             a(s) == AnyOf(S)[s]
  <1>0. Known(f) = S
    BY FractionIsNotNone DEF Known
  <1>1. PICK g : /\ AddsUp(g, f)
                 /\ Mean(f) = Times(g[S], [n |-> 1, d |-> Cardinality(S)])
    BY <1>0, MeanUnfolds
  <1>2. /\ g \in [SUBSET S -> Fraction] /\ g[{}] = Zero
        /\ \A s \in SUBSET S : s # {} => g[s] = Plus(f[a(s)], g[s \ {a(s)}])
    BY <1>0, <1>1 DEF AddsUp
  <1>3. IsFiniteSet(S)
    BY DEF Values
  <1>4. Picks(AnyOf(S), S)
    BY AnyOfPicks
  <1>5. v.n \in Nat /\ v.d \in Nat \ {0}
    BY FractionIsNotNone
  <1> DEFINE Q == {s \in SUBSET S : g[s].n * v.d = (Cardinality(s) * v.n) * g[s].d}
  <1>6. Inductive(Q, S, AnyOf(S))
    <2>1. {} \in Q
      BY <1>2, <1>5, FS_EmptySet DEF Zero
    <2>2. ASSUME NEW s \in SUBSET S, s # {}, s \ {AnyOf(S)[s]} \in Q PROVE s \in Q
      <3> DEFINE t == s \ {a(s)}
                 y == g[t]
                 c == Cardinality(t)
      <3>1. a(s) \in s /\ f[a(s)] = v /\ t \in SUBSET S
        BY <1>4, <2>2 DEF Picks
      <3>2. IsFiniteSet(s)
        BY <1>3, FS_Subset
      <3>3. Cardinality(s) = c + 1 /\ c \in Nat
        <4>1. Cardinality(t) = Cardinality(s) - 1
          BY <3>1, <3>2, FS_RemoveElement
        <4>2. Cardinality(s) \in Nat
          BY <3>2, FS_CardinalityType
        <4>3. Cardinality(t) \in Nat
          BY <3>2, FS_CardinalityType, FS_RemoveElement
        <4> QED
          BY <4>1, <4>2, <4>3
      <3>4. y \in Fraction /\ g[s] = Plus(v, y)
        BY <1>2, <2>2, <3>1
      <3>5. y.n \in Nat /\ y.d \in Nat
        BY <3>4, FractionIsNotNone
      <3>6. y.n * v.d = (c * v.n) * y.d
        BY <2>2
      <3> HIDE DEF y, c
      <3>7. /\ v.d = y.d => (v.n + y.n) * v.d = ((c + 1) * v.n) * v.d
            /\ (v.n * y.d + y.n * v.d) * v.d = ((c + 1) * v.n) * (v.d * y.d)
        <4>1. /\ v.n \in Nat /\ v.d \in Nat /\ y.n \in Nat /\ y.d \in Nat /\ c \in Nat
              /\ y.n * v.d = (c * v.n) * y.d
          BY <1>5, <3>3, <3>5, <3>6
        <4> QED
          BY <4>1, AddOneMore
      <3>8. g[s].n * v.d = ((c + 1) * v.n) * g[s].d
        <4>1. CASE v.d = y.d
          BY <3>4, <3>7, <4>1 DEF Plus
        <4>2. CASE v.d # y.d
          BY <3>4, <3>7, <4>2 DEF Plus
        <4> QED
          BY <4>1, <4>2
      <3> QED
        BY <3>3, <3>8
    <2> HIDE DEF Q
    <2> QED
      BY <2>1, <2>2 DEF Inductive
  <1> HIDE DEF Q
  <1>7. S \in Q
    BY <1>3, <1>4, <1>6, SubsetInduction
  <1> DEFINE z == g[S]
             k == Cardinality(S)
  <1>8. z \in Fraction /\ z.n \in Nat /\ z.d \in Nat \ {0}
    BY <1>2, FractionIsNotNone
  <1>9. k \in Nat
    BY <1>3, FS_CardinalityType
  <1>10. z.n * v.d = (k * v.n) * z.d
    BY <1>7 DEF Q
  <1>11. Mean(f) \in Fraction
    BY <1>0, MeanType
  <1> HIDE DEF z, k
  <1>12. Mean(f).n = z.n /\ Mean(f).d = z.d * k
    BY <1>1, <1>8 DEF Times, z, k
  <1>13. v.n * Mean(f).d = Mean(f).n * v.d
    BY <1>5, <1>8, <1>9, <1>10, <1>12
  <1>14. Mean(f).n * v.d \in Nat
    BY <1>5, <1>8, <1>12, Products
  <1>15. ~Less(Mean(f), v) /\ ~Less(v, Mean(f))
    BY <1>13, <1>14 DEF Less
  <1> QED
    BY <1>11, <1>15, FractionIsNotNone DEF Same

\* The mean of one whole number is that number.
LEMMA MeanOfOne ==
  ASSUME NEW f, NEW i, DOMAIN f = {i}, f[i] \in Whole
  PROVE  Mean(f) = f[i]
  <1>0. f[i] \in Fraction /\ f[i].d = 1
    BY DEF Whole, Fraction
  <1>1. IsFiniteSet({i}) /\ Cardinality({i}) = 1
    BY FS_Singleton
  <1>2. Values(f) /\ Known(f) = {i}
    BY <1>0, <1>1, FractionIsNotNone DEF Values, Known
  <1>3. PICK g : /\ AddsUp(g, f) /\ Mean(f) = Times(g[{i}], [n |-> 1, d |-> 1])
    BY <1>1, <1>2, MeanUnfolds
  <1>4. AnyOf({i})[{i}] = i
    BY AnyOfPicks DEF Picks
  <1>5. g[{i}] = Plus(f[i], g[{i} \ {i}]) /\ g[{}] = Zero
    BY <1>2, <1>3, <1>4 DEF AddsUp
  <1>6. g[{i}] = Plus(f[i], Zero)
    <2>1. {i} \ {i} = {}
      OBVIOUS
    <2> QED
      BY <1>5, <2>1
  <1>7. f[i].n \in Nat /\ f[i] = [n |-> f[i].n, d |-> f[i].d]
    BY <1>0, FractionIsNotNone
  <1>8. g[{i}] = [n |-> f[i].n, d |-> 1]
    BY <1>0, <1>6, <1>7 DEF Plus, Zero
  <1>9. Times(g[{i}], [n |-> 1, d |-> 1]) = [n |-> f[i].n, d |-> 1]
    BY <1>7, <1>8 DEF Times
  <1> QED
    BY <1>0, <1>3, <1>7, <1>9

-----------------------------------------------------------------------------
(* What reports hold.                                                        *)

PaidInv == run # None => run.price \in Prices

\* A report is what dev_record and apply_utilization make of some measured levels.
MeasuredAs(r, levels) ==
  /\ IsFiniteSet(DOMAIN levels) /\ DOMAIN levels \subseteq Nat \ {0}
  /\ levels \in [DOMAIN levels -> Outcomes]
  /\ r.by_devs = ByDevs(RunKey(r), r.price, levels, r.theta)
IsReport(r) ==
  /\ r.price \in Nat \ {0} /\ r.gpus \in Nat \ {0}
  /\ r.theta = None \/ (r.theta \in Fraction /\ r.theta.n # 0)
  /\ \E levels : MeasuredAs(r, levels)
ReportsInv == \A i \in Loaded(runs) : IsReport(runs[i])

\* The team sizes of a request that is not refused.
LEMMA SizesAreFinite ==
  ASSUME NEW req \in Requests, ~Refused(req)
  PROVE  IsFiniteSet(MeasuredDevs(req)) /\ MeasuredDevs(req) \subseteq Nat \ {0}
  <1>1. req \in Request /\ IsFiniteSet(req.devs)
    BY RequestsAssumption
  <1>2. Scenarios[req.benchmark] \in ScenarioType /\ IsFiniteSet(Scenarios[req.benchmark].devs)
    BY <1>1, ScenariosAssumption DEF Request
  <1>3. req.devs \subseteq Nat \ {0} /\ Scenarios[req.benchmark].devs \subseteq Nat \ {0}
    BY <1>1, <1>2 DEF Request, ScenarioType, Refused
  <1>4. IsFiniteSet({1})
    BY FS_Singleton
  <1> QED
    BY <1>1, <1>2, <1>3, <1>4 DEF MeasuredDevs

LEMMA StepPaid == LaunchInv /\ PaidInv /\ [Next]_vars => PaidInv'
  <1> SUFFICES ASSUME LaunchInv, PaidInv, [Next]_vars PROVE PaidInv'
    OBVIOUS
  <1>1. ASSUME NEW req \in Requests, Launch(req) PROVE PaidInv'
    BY <1>1 DEF Launch, PaidInv
  <1>2. ASSUME NEW req \in Requests, LaunchRefused(req) PROVE PaidInv'
    <2>1. run # None /\ run = HeldRun
      BY <1>2 DEF LaunchRefused, LaunchInv
    <2>2. run' = [HeldRun EXCEPT !.composed = Compose(req), !.disturbed = TRUE]
      BY <1>2, <2>1 DEF LaunchRefused
    <2> QED
      BY <2>1, <2>2 DEF PaidInv, HeldRun
  <1>3. CASE Push
    <2>1. run # None /\ run = HeldRun
      BY <1>3 DEF Push, LaunchInv
    <2>2. run' = [HeldRun EXCEPT !.pushed = run.composed]
      BY <1>3, <2>1 DEF Push
    <2> QED
      BY <2>1, <2>2 DEF PaidInv, HeldRun
  <1>4. CASE Fail \/ Finish
    BY <1>4 DEF Fail, Finish, PaidInv
  <1>5. CASE Prune \/ UNCHANGED vars
    BY <1>5 DEF Prune, vars, PaidInv
  <1> QED
    BY <1>1, <1>2, <1>3, <1>4, <1>5 DEF Next

\* A run that finishes leaves a report in this sense.
LEMMA FinishReports ==
  ASSUME LaunchInv, PaidInv, Finish
  PROVE  \E r : runs' = Append(runs, r) /\ IsReport(r)
  <1>1. /\ run # None /\ run.req \in Requests /\ ~Refused(run.req)
        /\ run.price \in Nat \ {0} /\ GpuCount(run) \in Nat \ {0}
    <2>1. run # None /\ run.req \in Requests /\ ~Refused(run.req)
      BY DEF Finish, LaunchInv
    <2>2. run.price \in Prices
      BY <2>1 DEF PaidInv
    <2>4. GpuCount(run) \in Nat \ {0}
      BY <2>1, ComposedFits DEF GpuCount
    <2>5. run.price \in Nat \ {0}
      BY <2>2, PricesAssumption
    <2> QED
      BY <2>1, <2>4, <2>5
  <1> DEFINE key == <<run.req.family, run.quant, run.req.hardware, GpuCount(run)>>
             Sizes(last) == {n \in MeasuredDevs(run.req) : n <= last}
             Theta(tph) == IF tph = 0 THEN None ELSE [n |-> tph, d |-> 1]
             New(levels, theta) == Record(run, run.price, ByDevs(key, run.price, levels, theta), theta)
  <1>2. PICK last \in MeasuredDevs(run.req) :
          \E levels \in [Sizes(last) -> Outcomes], tph \in Thetas \cup {0} :
            runs' = Append(runs, New(levels, Theta(tph)))
    <2>1. PICK last \in MeasuredDevs(run.req) :
            LET sizes == {n \in MeasuredDevs(run.req) : n <= last}
                probed == Scenarios[run.req.benchmark].probe /\ sizes = MeasuredDevs(run.req)
            IN  \E levels \in [sizes -> Outcomes], tph \in (IF probed THEN Thetas ELSE {}) \cup {0} :
                  LET theta == IF tph = 0 THEN None ELSE [n |-> tph, d |-> 1]
                  IN  runs' = Append(runs,
                        Record(run, run.price, ByDevs(key, run.price, levels, theta), theta))
      BY Zenon DEF Finish
    <2> HIDE DEF key
    <2> QED
      BY <2>1
  <1>9. PICK levels \in [Sizes(last) -> Outcomes], tph \in Thetas \cup {0} :
           runs' = Append(runs, New(levels, Theta(tph)))
    BY <1>2
  <1> DEFINE theta == Theta(tph)
  <1>3. theta = None \/ (theta \in Fraction /\ theta.n # 0)
    <2>1. tph \in (Nat \ {0}) \cup {0}
      BY OutcomesAssumption
    <2> QED
      BY <2>1 DEF Fraction
  <1>4. IsFiniteSet(Sizes(last)) /\ Sizes(last) \subseteq Nat \ {0}
    <2>1. Sizes(last) \subseteq MeasuredDevs(run.req)
      OBVIOUS
    <2> HIDE DEF Sizes
    <2> QED
      BY <1>1, <2>1, SizesAreFinite, FS_Subset
  <1> HIDE DEF theta
  <1> DEFINE r == New(levels, theta)
  <1>5. /\ r.price = run.price /\ r.gpus = GpuCount(run) /\ r.theta = theta
        /\ RunKey(r) = key /\ r.by_devs = ByDevs(key, run.price, levels, theta)
    BY DEF Record, RunKey
  <1>6. runs' = Append(runs, r)
    BY <1>9 DEF theta
  <1>7. DOMAIN levels = Sizes(last)
    OBVIOUS
  <1> HIDE DEF r, key
  <1>8. MeasuredAs(r, levels)
    BY <1>4, <1>5, <1>7 DEF MeasuredAs
  <1> QED
    BY <1>1, <1>3, <1>5, <1>6, <1>8 DEF IsReport

LEMMA StepReports ==
  ASSUME LaunchInv, PaidInv, ResultsInv, ReportsInv, [Next]_vars
  PROVE  ReportsInv'
  <1>1. \A i \in DOMAIN runs : i \in DOMAIN runs' /\ SameRun(runs[i], runs'[i])
    BY StepResults
  <1>2. \A r, s : SameRun(r, s) /\ IsReport(r) => IsReport(s)
    <2> SUFFICES ASSUME NEW r, NEW s, SameRun(r, s), IsReport(r) PROVE IsReport(s)
      OBVIOUS
    <2>1. /\ s.price = r.price /\ s.gpus = r.gpus /\ s.theta = r.theta
          /\ RunKey(s) = RunKey(r) /\ s.by_devs = r.by_devs
      BY DEF SameRun, RunKey
    <2> QED
      BY <2>1 DEF IsReport, MeasuredAs
  <1>3. \A i \in DOMAIN runs : i \in Loaded(runs') => i \in Loaded(runs) /\ IsReport(runs'[i])
    <2> SUFFICES ASSUME NEW i \in DOMAIN runs, i \in Loaded(runs')
                 PROVE  i \in Loaded(runs) /\ IsReport(runs'[i])
      OBVIOUS
    <2>1. SameRun(runs[i], runs'[i])
      BY <1>1
    <2>2. i \in Loaded(runs)
      BY <2>1 DEF Loaded, SameRun
    <2> QED
      BY <1>2, <2>1, <2>2 DEF ReportsInv
  <1>4. CASE DOMAIN runs' = DOMAIN runs
    BY <1>3, <1>4 DEF ReportsInv, Loaded
  <1>5. ASSUME NEW r, runs' = Append(runs, r), r.report => IsReport(r) PROVE ReportsInv'
    <2>1. /\ DOMAIN runs' = DOMAIN runs \cup {Len(runs) + 1}
          /\ runs'[Len(runs) + 1] = r
      BY <1>5, AppendRun DEF ResultsInv
    <2>2. ASSUME NEW i \in Loaded(runs') PROVE IsReport(runs'[i])
      <3>1. CASE i \in DOMAIN runs
        BY <1>3, <3>1
      <3>2. CASE i = Len(runs) + 1
        BY <1>5, <2>1, <3>2 DEF Loaded
      <3> QED
        BY <2>1, <3>1, <3>2 DEF Loaded
    <2> QED
      BY <2>2 DEF ReportsInv
  <1>6. CASE Finish
    <2>1. PICK r : runs' = Append(runs, r) /\ IsReport(r)
      BY <1>6, FinishReports
    <2> QED
      BY <1>5, <2>1
  <1>7. CASE Fail
    <2>1. Record(run, None, <<>>, None).report = FALSE
      BY DEF Record
    <2>2. CASE UNCHANGED runs
      BY <1>4, <2>2
    <2>3. CASE runs' = Append(runs, Record(run, None, <<>>, None))
      BY <1>5, <2>1, <2>3
    <2> QED
      BY <1>7, <2>2, <2>3 DEF Fail
  <1>8. CASE Prune
    BY <1>4, <1>8 DEF Prune
  <1>9. CASE \E req \in Requests : Launch(req) \/ LaunchRefused(req)
    BY <1>4, <1>9 DEF Launch, LaunchRefused
  <1>10. CASE Push \/ UNCHANGED vars
    BY <1>4, <1>10 DEF Push, vars
  <1> QED
    BY <1>6, <1>7, <1>8, <1>9, <1>10 DEF Next

\* Whatever is run and pruned, each report shows levels that were measured, at the price that
\* was paid.
LEMMA ReportsInvariance == Spec => [](ResultsInv /\ ReportsInv)
  <1>1. Init => PaidInv /\ ReportsInv
    BY DEF Init, PaidInv, ReportsInv, Loaded
  <1>2. LaunchInv /\ PaidInv /\ [Next]_vars => PaidInv'
    BY StepPaid
  <1>3. LaunchInv /\ PaidInv /\ ResultsInv /\ ReportsInv /\ [Next]_vars => ReportsInv'
    BY StepReports
  <1> QED
    BY <1>1, <1>2, <1>3, ResultsInvariance, PTL DEF Spec

-----------------------------------------------------------------------------
(* The points of a curve.                                                    *)

\* What a report says of a level, but for its utilization.
Reported(entry, record) ==
  /\ entry.holds_slo = record.holds_slo
  /\ entry.cost_per_dev_month = record.cost_per_dev_month
  /\ entry.cost_per_mtok = record.cost_per_mtok
  /\ entry.tokens_per_hour = record.tokens_per_hour
  /\ entry.computed_tokens_per_hour = record.computed_tokens_per_hour

\* dev_record and apply_utilization: the utilization is the entry's achieved rate over the
\* ceiling of all, the rest is the level's own.
LEMMA ByDevsIs ==
  ASSUME NEW key, NEW price, NEW levels, NEW theta, NEW by_devs,
         by_devs = ByDevs(key, price, levels, theta)
  PROVE  /\ DOMAIN by_devs = DOMAIN levels
         /\ \A n \in DOMAIN levels :
              /\ Reported(by_devs[n], DevRecord(n, levels[n], price * key[4]))
              /\ by_devs[n].utilization
                   = Utilization(Achieved(by_devs[n]), Denominator(theta, RatesOf(by_devs)))
  <1> DEFINE Rec(n) == DevRecord(n, levels[n], price * key[4])
             record == [n \in DOMAIN levels |-> Rec(n)]
             denominator == Denominator(theta, RatesOf(record))
  <1>1. by_devs = [n \in DOMAIN levels |->
                     [record[n] EXCEPT
                        !.utilization = Utilization(Achieved(record[n]), denominator)]]
    BY Zenon DEF ByDevs
  <1> HIDE DEF denominator
  <1>2. ASSUME NEW n \in DOMAIN levels
        PROVE  /\ Reported(by_devs[n], Rec(n))
               /\ by_devs[n].utilization = Utilization(Achieved(Rec(n)), denominator)
               /\ Achieved(by_devs[n]) = Achieved(Rec(n))
    <2> DEFINE u == Utilization(Achieved(Rec(n)), denominator)
    <2>1. by_devs[n] = [Rec(n) EXCEPT !.utilization = u]
      BY <1>1
    <2> HIDE DEF u
    <2>2. by_devs[n].utilization = u /\ Reported(by_devs[n], Rec(n))
      BY <2>1 DEF DevRecord, Reported
    <2> HIDE DEF Rec
    <2>3. Achieved(by_devs[n]) = Achieved(Rec(n))
      BY <2>2, Zenon DEF Achieved, Reported
    <2> QED
      BY <2>1, <2>2, <2>3 DEF u
  <1>3. DOMAIN by_devs = DOMAIN levels
    BY <1>1
  <1>4. RatesOf(by_devs) = RatesOf(record)
    <2>1. DOMAIN record = DOMAIN levels /\ \A n \in DOMAIN levels : record[n] = Rec(n)
      OBVIOUS
    <2> HIDE DEF record, Rec
    <2> QED
      BY <1>2, <1>3, <2>1 DEF RatesOf
  <1> HIDE DEF Rec, record
  <1>5. \A n \in DOMAIN levels :
          /\ Reported(by_devs[n], Rec(n))
          /\ by_devs[n].utilization
               = Utilization(Achieved(by_devs[n]), Denominator(theta, RatesOf(by_devs)))
    BY <1>2, <1>4 DEF denominator
  <1> QED
    BY <1>3, <1>5 DEF Rec

LEMMA RunsAreFinite ==
  ASSUME ResultsInv, ReportsInv, NEW b
  PROVE  /\ IsFiniteSet(Of(runs, b)) /\ IsFiniteSet(Keys(runs, b))
         /\ \A key : IsFiniteSet(RunsOf(runs, b, key)) /\ IsFiniteSet(Tested(runs, b, key))
  <1>1. IsFiniteSet(1 .. Len(runs)) /\ Of(runs, b) \subseteq 1 .. Len(runs)
    <2>1. Len(runs) \in Nat /\ DOMAIN runs = 1 .. Len(runs)
      BY DEF ResultsInv
    <2>2. IsFiniteSet(1 .. Len(runs))
      BY <2>1, FS_Interval
    <2> QED
      BY <2>1, <2>2 DEF Of, Loaded
  <1>2. IsFiniteSet(Of(runs, b))
    BY <1>1, FS_Subset
  <1>3. IsFiniteSet(Keys(runs, b))
    <2> DEFINE f == [i \in Of(runs, b) |-> RunKey(runs[i])]
    <2>1. IsFiniteSet({f[i] : i \in Of(runs, b)})
      <3> HIDE DEF f
      <3> QED
        BY <1>2, FiniteImage
    <2>2. {f[i] : i \in Of(runs, b)} = Keys(runs, b)
      BY DEF Keys
    <2> QED
      BY <2>1, <2>2
  <1>4. ASSUME NEW key PROVE IsFiniteSet(RunsOf(runs, b, key)) /\ IsFiniteSet(Tested(runs, b, key))
    <2>1. IsFiniteSet(RunsOf(runs, b, key))
      BY <1>2, FS_Subset DEF RunsOf
    <2> DEFINE R == RunsOf(runs, b, key)
               f == [i \in R |-> DOMAIN runs[i].by_devs]
    <2>2. IsFiniteSet({f[i] : i \in R})
      <3> HIDE DEF f, R
      <3> QED
        BY <2>1, FiniteImage DEF R
    <2>3. \A T \in {f[i] : i \in R} : IsFiniteSet(T)
      <3> SUFFICES ASSUME NEW i \in R PROVE IsFiniteSet(DOMAIN runs[i].by_devs)
        OBVIOUS
      <3>1. PICK levels : MeasuredAs(runs[i], levels)
        BY DEF RunsOf, Of, ReportsInv, IsReport
      <3>2. DOMAIN runs[i].by_devs = DOMAIN levels
        BY <3>1, ByDevsIs DEF MeasuredAs
      <3> QED
        BY <3>1, <3>2 DEF MeasuredAs
    <2>4. Tested(runs, b, key) = UNION {f[i] : i \in R}
      BY DEF Tested
    <2> HIDE DEF f, R
    <2>5. IsFiniteSet(UNION {f[i] : i \in R})
      BY <2>2, <2>3, FS_UNION
    <2> QED
      BY <2>1, <2>4, <2>5
  <1> QED
    BY <1>2, <1>3, <1>4

\* An entry of a report.
LEMMA Entries ==
  ASSUME ResultsInv, ReportsInv, NEW b, NEW key, NEW i \in RunsOf(runs, b, key),
         NEW n \in DOMAIN runs[i].by_devs
  PROVE  /\ runs[i].by_devs[n].cost_per_dev_month
              = [n |-> runs[i].price * key[4] * HoursPerMonth, d |-> n]
         /\ runs[i].by_devs[n].cost_per_dev_month \in Fraction
         /\ runs[i].by_devs[n].tokens_per_hour \in Whole
         /\ runs[i].by_devs[n].computed_tokens_per_hour \in Whole \cup {None}
         /\ runs[i].by_devs[n].cost_per_mtok \in Fraction \cup {None}
  <1> DEFINE r == runs[i]
  <1>1. IsReport(r) /\ RunKey(r) = key
    BY DEF RunsOf, Of, ReportsInv
  <1>2. PICK levels : MeasuredAs(r, levels)
    BY <1>1 DEF IsReport
  <1> HIDE DEF r
  <1>3. key[4] = r.gpus
    BY <1>1 DEF RunKey
  <1>4. r.price \in Nat \ {0} /\ key[4] \in Nat \ {0} /\ HoursPerMonth \in Nat \ {0}
    BY <1>1, <1>3, PricesAssumption DEF IsReport
  <1> DEFINE dollars == r.price * key[4]
             entry == r.by_devs[n]
  <1>5. dollars \in Nat /\ dollars * HoursPerMonth \in Nat
    BY <1>4, Products
  <1> HIDE DEF dollars
  <1>6. r.by_devs = ByDevs(key, r.price, levels, r.theta)
    BY <1>1, <1>2 DEF MeasuredAs
  <1>7. /\ n \in DOMAIN levels /\ n \in Nat \ {0} /\ levels[n].tph \in Nat
        /\ levels[n].computed \in Nat \cup {None}
    <2>1. n \in DOMAIN levels
      BY <1>6, ByDevsIs DEF r
    <2>2. levels[n] \in Outcomes /\ n \in Nat \ {0}
      BY <1>2, <2>1 DEF MeasuredAs
    <2> QED
      BY <2>1, <2>2, OutcomesAssumption
  <1> DEFINE tph == levels[n].tph
             computed == levels[n].computed
  <1>8. /\ entry.cost_per_dev_month = [n |-> dollars * HoursPerMonth, d |-> n]
        /\ entry.tokens_per_hour = [n |-> tph, d |-> 1]
        /\ entry.computed_tokens_per_hour = IF computed = None THEN None
                                            ELSE [n |-> computed, d |-> 1]
        /\ entry.cost_per_mtok = IF tph > 0 THEN [n |-> dollars, d |-> tph] ELSE None
    <2>1. Reported(entry, DevRecord(n, levels[n], dollars))
      BY <1>6, <1>7, ByDevsIs DEF dollars
    <2> HIDE DEF entry
    <2> QED
      BY <2>1 DEF DevRecord, Reported
  <1> HIDE DEF entry, tph, computed
  <1>11. entry.computed_tokens_per_hour \in Whole \cup {None}
    <2>1. computed \in Nat \cup {None}
      BY <1>7 DEF computed
    <2> QED
      BY <1>8, <2>1 DEF Whole
  <1>9. entry.cost_per_mtok \in Fraction \cup {None}
    <2>1. tph \in Nat
      BY <1>7 DEF tph
    <2>2. tph > 0 => tph \in Nat \ {0}
      BY <2>1
    <2> QED
      BY <1>5, <1>8, <2>2 DEF Fraction
  <1>10. entry.cost_per_dev_month \in Fraction /\ entry.tokens_per_hour \in Whole
    BY <1>5, <1>7, <1>8 DEF Fraction, Whole, tph
  <1> QED
    BY <1>8, <1>9, <1>10, <1>11 DEF entry, r, dollars

\* What aggregate_entries makes of the repeats of a size.
Level(rs, b, key, n) == AggregateEntries(rs, Repeats(rs, b, key, n), n)

LEMMA Levels ==
  ASSUME ResultsInv, ReportsInv, NEW b, NEW key, NEW n, Repeats(runs, b, key, n) # {}
  PROVE  /\ Level(runs, b, key, n).cost_per_dev_month \in Fraction
         /\ Level(runs, b, key, n).tokens_per_hour \in Fraction
         /\ Level(runs, b, key, n).cost_per_mtok \in Fraction \cup {None}
         /\ Achieved(Level(runs, b, key, n)) \in Fraction
  <1> DEFINE S == Repeats(runs, b, key, n)
             e(i) == runs[i].by_devs[n]
             costs == [i \in S |-> e(i).cost_per_dev_month]
             rates == [i \in S |-> e(i).tokens_per_hour]
             computed == [i \in S |-> e(i).computed_tokens_per_hour]
             mtoks == [i \in S |-> e(i).cost_per_mtok]
  <1>1. IsFiniteSet(S)
    BY RunsAreFinite, FS_Subset DEF Repeats
  <1>2. \A i \in S : /\ e(i).cost_per_dev_month \in Fraction /\ e(i).tokens_per_hour \in Fraction
                     /\ e(i).computed_tokens_per_hour \in Fraction \cup {None}
                     /\ e(i).cost_per_mtok \in Fraction \cup {None}
    <2>1. \A i \in S : /\ e(i).cost_per_dev_month \in Fraction /\ e(i).tokens_per_hour \in Whole
                       /\ e(i).computed_tokens_per_hour \in Whole \cup {None}
                       /\ e(i).cost_per_mtok \in Fraction \cup {None}
      BY Entries DEF Repeats
    <2>2. Whole \subseteq Fraction
      BY DEF Whole, Fraction
    <2> QED
      BY <2>1, <2>2
  <1>3. /\ Level(runs, b, key, n).cost_per_dev_month = Mean(costs)
        /\ Level(runs, b, key, n).tokens_per_hour = Mean(rates)
        /\ Level(runs, b, key, n).computed_tokens_per_hour = Mean(computed)
        /\ Level(runs, b, key, n).cost_per_mtok = Mean(mtoks)
    BY DEF Level, AggregateEntries
  <1> HIDE DEF S, e
  <1>4. Values(costs) /\ Values(rates) /\ Values(computed) /\ Values(mtoks)
    BY <1>1, <1>2 DEF Values
  <1>5. Known(costs) # {} /\ Known(rates) # {}
    BY <1>2, FractionIsNotNone DEF Known, S
  <1> HIDE DEF costs, rates, computed, mtoks
  <1>6. /\ Mean(costs) \in Fraction /\ Mean(rates) \in Fraction
        /\ Mean(computed) \in Fraction \cup {None} /\ Mean(mtoks) \in Fraction \cup {None}
    BY <1>4, <1>5, MeanType
  <1>7. Achieved(Level(runs, b, key, n)) \in Fraction
    BY <1>3, <1>6 DEF Achieved
  <1> QED
    BY <1>3, <1>6, <1>7

\* combo_series.
Rates(rs, b, key) == [n \in Tested(rs, b, key) |-> Achieved(Level(rs, b, key, n))]
Ceiling(rs, b, key) == Denominator(rs[Max(RunsOf(rs, b, key))].theta, Rates(rs, b, key))

CurvePoint(rs, b, key, n) ==
  LET level == Level(rs, b, key, n)
  IN [hardware |-> key[3], gpus |-> key[4], price |-> rs[Max(RunsOf(rs, b, key))].price,
      holds_slo |-> level.holds_slo, cost_per_dev_month |-> level.cost_per_dev_month,
      tokens_per_hour |-> level.tokens_per_hour,
      computed_tokens_per_hour |-> level.computed_tokens_per_hour,
      cost_per_mtok |-> level.cost_per_mtok,
      utilization |-> Utilization(Achieved(level), Ceiling(rs, b, key))]

LEMMA CurveIs ==
  ASSUME NEW rs, NEW b, NEW key
  PROVE  /\ DOMAIN ComboSeries(rs, b, key) = Tested(rs, b, key)
         /\ \A n \in Tested(rs, b, key) : ComboSeries(rs, b, key)[n] = CurvePoint(rs, b, key, n)
  <1> DEFINE latest == rs[Max(RunsOf(rs, b, key))]
             point(m) == AggregateEntries(rs, Repeats(rs, b, key, m), m)
             points == [m \in Tested(rs, b, key) |-> point(m)]
             rates == RatesOf(points)
             denominator == Denominator(latest.theta, rates)
             rate(m) == Utilization(Achieved(points[m]), denominator)
             price == latest.price
  <1>1. ComboSeries(rs, b, key) =
          [m \in DOMAIN points |->
             Priced([points[m] EXCEPT !.utilization = rate(m)], key, price)]
    BY Zenon DEF ComboSeries
  <1>2. \A m \in Tested(rs, b, key) : points[m] = Level(rs, b, key, m)
    BY DEF Level
  <1>3. DOMAIN points = Tested(rs, b, key)
    OBVIOUS
  <1> HIDE DEF points
  <1>4. rates = Rates(rs, b, key)
    BY <1>2, <1>3 DEF Rates, RatesOf
  <1>5. denominator = Ceiling(rs, b, key)
    BY <1>4 DEF Ceiling
  <1> HIDE DEF denominator, price, rates
  <1>6. ASSUME NEW n \in Tested(rs, b, key)
        PROVE  ComboSeries(rs, b, key)[n] =
                 Priced([Level(rs, b, key, n) EXCEPT
                           !.utilization = Utilization(Achieved(Level(rs, b, key, n)),
                                                       Ceiling(rs, b, key))], key, price)
    BY <1>1, <1>2, <1>3, <1>5
  <1> QED
    BY <1>1, <1>3, <1>6, Zenon DEF CurvePoint, Priced, Level, AggregateEntries, price

\* The ceiling that is divided by: a rate above 0, and if it was not measured by the probe the
\* best of two or more.
LEMMA CeilingIs ==
  ASSUME ResultsInv, ReportsInv, NEW b, NEW key, RunsOf(runs, b, key) # {},
         Ceiling(runs, b, key) # None
  PROVE  LET top == Ceiling(runs, b, key)
             rate == Rates(runs, b, key)
             measured == {n \in Tested(runs, b, key) : rate[n].n > 0}
         IN  /\ top \in Fraction /\ top.n # 0
             /\ runs[Max(RunsOf(runs, b, key))].theta = None =>
                  /\ Cardinality(measured) > 1
                  /\ \E c \in measured : top = rate[c] /\ \A m \in measured : ~Less(rate[c], rate[m])
  <1> DEFINE theta == runs[Max(RunsOf(runs, b, key))].theta
             top == Ceiling(runs, b, key)
             rate == Rates(runs, b, key)
             S == {n \in Tested(runs, b, key) : rate[n].n > 0}
             Best(c) == \A m \in S : ~Less(rate[c], rate[m])
             best == CHOOSE c \in S : Best(c)
  <1>1. top = IF theta # None THEN theta
              ELSE IF Cardinality(S) < 2 THEN None ELSE rate[best]
    BY DEF Ceiling, Denominator, Rates
  <1>2. theta = None \/ (theta \in Fraction /\ theta.n # 0)
    <2>1. Max(RunsOf(runs, b, key)) \in RunsOf(runs, b, key)
      BY LatestRun
    <2> QED
      BY <2>1 DEF RunsOf, Of, ReportsInv, IsReport
  <1>3. CASE theta # None
    BY <1>1, <1>2, <1>3
  <1>4. CASE theta = None
    <2>1. /\ IsFiniteSet(S) /\ Cardinality(S) \in Nat
      BY RunsAreFinite, FS_Subset, FS_CardinalityType
    <2>2. Cardinality(S) > 1 /\ S # {}
      <3>1. ~(Cardinality(S) < 2)
        BY <1>1, <1>4
      <3> QED
        BY <2>1, <3>1, FS_EmptySet
    <2>3. \A n \in S : rate[n] \in Fraction /\ rate[n].n # 0
      <3> SUFFICES ASSUME NEW n \in S PROVE rate[n] \in Fraction /\ rate[n].n # 0
        OBVIOUS
      <3>1. n \in Tested(runs, b, key) /\ rate[n].n > 0
        OBVIOUS
      <3>2. Repeats(runs, b, key, n) # {}
        BY <3>1 DEF Tested, Repeats
      <3>3. rate[n] \in Fraction
        BY <3>1, <3>2, Levels DEF Rates
      <3> QED
        BY <3>1, <3>3
    <2> DEFINE R == {p \in S \X S : ~Less(rate[p[1]], rate[p[2]])}
    <2> HIDE DEF S, rate
    <2>4. IsTotal(R, S) /\ IsTransitive(R, S)
      <3>1. \A x, y \in S : <<x, y>> \in R <=> ~Less(rate[x], rate[y])
        OBVIOUS
      <3> HIDE DEF R
      <3> QED
        BY <2>3, <3>1, FractionOrder DEF IsTotal, IsTransitive
    <2>5. \E c \in S : Best(c)
      <3>1. \E c \in S : \A m \in S : <<c, m>> \in R
        <4> HIDE DEF R
        <4> QED
          BY <2>1, <2>2, <2>4, FiniteHasFirst
      <3> QED
        BY <3>1
    <2>6. best \in S /\ Best(best)
      <3> HIDE DEF Best
      <3> QED
        BY <2>5
    <2>7. top = rate[best]
      BY <1>1, <1>4
    <2> HIDE DEF best
    <2> QED
      BY <2>2, <2>3, <2>6, <2>7 DEF S, rate
  <1> QED
    BY <1>3, <1>4

\* Dividing two rates by one ceiling keeps their order.
LEMMA OverOne ==
  ASSUME NEW x \in Fraction, NEW y \in Fraction, NEW top \in Fraction, top.n # 0
  PROVE  /\ Less(x, y) <=> Less(Over(x, top), Over(y, top))
         /\ Over(x, top) \in Fraction
         /\ Less([n |-> 1, d |-> 1], Over(x, top)) <=> Less(top, x)
  <1> DEFINE k == top.d * top.n
             l == x.n * y.d
             r == y.n * x.d
  <1>1. /\ x.n \in Nat /\ y.n \in Nat /\ x.d \in Nat \ {0} /\ y.d \in Nat \ {0}
        /\ top.n \in Nat \ {0} /\ top.d \in Nat \ {0}
    BY FractionIsNotNone
  <1>2. k \in Nat \ {0} /\ l \in Nat /\ r \in Nat
    BY <1>1, Products
  <1>3. Over(x, top).n * Over(y, top).d = k * l /\ Over(y, top).n * Over(x, top).d = k * r
    BY <1>1 DEF Over
  <1>4. l < r <=> k * l < k * r
    <2>1. k * l \in Nat /\ k * r \in Nat
      BY <1>2, Products
    <2>2. l <= r => k * l <= k * r
      BY <1>2, Scale
    <2>3. r <= l => k * r <= k * l
      BY <1>2, Scale
    <2>4. k * l <= k * r => l <= r
      BY <1>2, Cancel
    <2>5. k * r <= k * l => r <= l
      BY <1>2, Cancel
    <2> HIDE DEF k, l, r
    <2> QED
      BY <1>2, <2>1, <2>2, <2>3, <2>4, <2>5
  <1>5. Less(x, y) <=> l < r
    BY DEF Less
  <1>6. Less(Over(x, top), Over(y, top)) <=> k * l < k * r
    <2> HIDE DEF k, l, r
    <2> QED
      BY <1>3 DEF Less
  <1>7. Over(x, top) = [n |-> x.n * top.d, d |-> x.d * top.n]
    BY DEF Over
  <1>8. x.n * top.d \in Nat /\ x.d * top.n \in Nat \ {0}
    BY <1>1, Products
  <1>9. Over(x, top) \in Fraction
    BY <1>7, <1>8 DEF Fraction
  <1>10. Less([n |-> 1, d |-> 1], Over(x, top)) <=> Less(top, x)
    <2>1. top.n * x.d = x.d * top.n
      BY <1>1
    <2> QED
      BY <1>7, <1>8, <2>1 DEF Less
  <1> QED
    BY <1>4, <1>5, <1>6, <1>9, <1>10
\* A combo that one run measured: the curve computes that run's report again.
LEMMA OneRun ==
  ASSUME ResultsInv, ReportsInv, NEW b, NEW key, NEW i, RunsOf(runs, b, key) = {i},
         NEW n \in Tested(runs, b, key)
  PROVE  Utilization(Achieved(Level(runs, b, key, n)), Ceiling(runs, b, key))
           = ComboRow(runs, b, key, n).utilization
  <1> DEFINE r == runs[i]
             rate == Rates(runs, b, key)
  <1>1. i \in RunsOf(runs, b, key) /\ Max(RunsOf(runs, b, key)) = i
    BY LatestRun
  <1>2. /\ Tested(runs, b, key) = DOMAIN r.by_devs
        /\ \A m \in Tested(runs, b, key) : Repeats(runs, b, key, m) = {i}
    BY DEF Tested, Repeats
  <1>3. ASSUME NEW m \in Tested(runs, b, key) PROVE rate[m] = Achieved(r.by_devs[m])
    <2> DEFINE f == [j \in {i} |-> runs[j].by_devs[m].tokens_per_hour]
               g == [j \in {i} |-> runs[j].by_devs[m].computed_tokens_per_hour]
               level == AggregateEntries(runs, {i}, m)
    <2>1. rate[m] = Achieved(level)
      BY <1>2 DEF Rates, Level
    <2>2. level.tokens_per_hour = Mean(f) /\ level.computed_tokens_per_hour = Mean(g)
      BY DEF AggregateEntries
    <2>3. /\ DOMAIN f = {i} /\ f[i] = r.by_devs[m].tokens_per_hour
          /\ DOMAIN g = {i} /\ g[i] = r.by_devs[m].computed_tokens_per_hour
      OBVIOUS
    <2>4. f[i] \in Whole /\ g[i] \in Whole \cup {None}
      <3>1. m \in DOMAIN runs[i].by_devs
        BY <1>2
      <3>2. /\ runs[i].by_devs[m].tokens_per_hour \in Whole
            /\ runs[i].by_devs[m].computed_tokens_per_hour \in Whole \cup {None}
        BY <1>1, <3>1, Entries
      <3> HIDE DEF f, g
      <3> QED
        BY <2>3, <3>2
    <2> HIDE DEF f, g, level, r, rate
    <2>5. Mean(f) = f[i]
      BY <2>3, <2>4, MeanOfOne
    <2>6. Mean(g) = g[i]
      <3>1. CASE g[i] \in Whole
        BY <2>3, <3>1, MeanOfOne
      <3>2. CASE g[i] = None
        <4>1. Values(g) /\ Known(g) = {}
          BY <2>3, <3>2, FS_Singleton DEF Values, Known
        <4> QED
          BY <3>2, <4>1, MeanType
      <3> QED
        BY <2>4, <3>1, <3>2
    <2> QED
      BY <2>1, <2>2, <2>3, <2>5, <2>6, Zenon DEF Achieved
  <1>4. PICK levels : MeasuredAs(r, levels)
    BY <1>1 DEF RunsOf, Of, ReportsInv, IsReport
  <1> DEFINE own == [m \in DOMAIN levels |-> Achieved(r.by_devs[m])]
             denominator == Denominator(r.theta, own)
  <1> HIDE DEF r
  <1>5. /\ DOMAIN r.by_devs = DOMAIN levels
        /\ \A m \in DOMAIN levels :
             /\ own[m] = Achieved(r.by_devs[m])
             /\ r.by_devs[m].utilization = Utilization(own[m], denominator)
    <2>1. /\ DOMAIN r.by_devs = DOMAIN levels
          /\ \A m \in DOMAIN levels :
               r.by_devs[m].utilization
                 = Utilization(Achieved(r.by_devs[m]), Denominator(r.theta, RatesOf(r.by_devs)))
      BY <1>4, ByDevsIs DEF MeasuredAs
    <2>2. own = RatesOf(r.by_devs)
      BY <2>1 DEF RatesOf
    <2>3. \A m \in DOMAIN levels : own[m] = Achieved(r.by_devs[m])
      OBVIOUS
    <2> HIDE DEF own
    <2> QED
      BY <2>1, <2>2, <2>3
  <1> HIDE DEF denominator
  <1>6. rate = own
    <2>1. rate = [m \in Tested(runs, b, key) |-> rate[m]]
      BY DEF Rates
    <2>2. \A m \in DOMAIN levels : rate[m] = own[m]
      BY <1>2, <1>3, <1>5
    <2> HIDE DEF rate, own, r
    <2>3. rate = [m \in DOMAIN levels |-> own[m]]
      BY <1>2, <1>5, <2>1, <2>2
    <2> QED
      BY <2>3 DEF own
  <1>7. Ceiling(runs, b, key) = denominator
    BY <1>1, <1>6 DEF Ceiling, denominator, r
  <1>8. Achieved(Level(runs, b, key, n)) = own[n]
    BY <1>6 DEF Rates
  <1>9. ComboRow(runs, b, key, n).utilization = r.by_devs[n].utilization
    <2>1. Repeats(runs, b, key, n) = {i} /\ Max({i}) = i
      BY <1>1, <1>2
    <2>2. AggregateEntries(runs, {i}, n).utilization = runs[i].by_devs[n].utilization
      BY <2>1 DEF AggregateEntries
    <2> HIDE DEF r
    <2> QED
      BY <2>1, <2>2 DEF ComboRow, Priced, r
  <1> QED
    BY <1>2, <1>5, <1>7, <1>8, <1>9

\* apply_utilization and combo_series, for every history of runs and whatever the prefix cache
\* served: U(N) orders the sizes of a combo by the rate of tokens computed, its best size is the 1 of a ceiling that was not measured, and
\* what one run reported is what the curve shows.
THEOREM UtilizationCompares == Spec => []UtilizationIsComparable
  <1>1. ResultsInv /\ ReportsInv => UtilizationIsComparable
    <2> SUFFICES ASSUME ResultsInv, ReportsInv, NEW b \in Shown(runs), NEW key \in Keys(runs, b)
                 PROVE  LET curve == ComboSeries(runs, b, key)
                            known == {n \in DOMAIN curve : curve[n].utilization # None}
                            latest == runs[Max(RunsOf(runs, b, key))]
                            one == [n |-> 1, d |-> 1]
                        IN /\ \A m, n \in known :
                                Less(Achieved(curve[m]), Achieved(curve[n]))
                                  <=> Less(curve[m].utilization, curve[n].utilization)
                           /\ latest.theta = None /\ known # {} =>
                                /\ Cardinality(known) > 1
                                /\ \A n \in known : ~Less(one, curve[n].utilization)
                                /\ \E n \in known : Same(curve[n].utilization, one)
                           /\ Cardinality(RunsOf(runs, b, key)) = 1 =>
                                \A n \in DOMAIN curve :
                                  Same(curve[n].utilization, ComboRow(runs, b, key, n).utilization)
      BY DEF UtilizationIsComparable
    <2> DEFINE curve == ComboSeries(runs, b, key)
               known == {n \in DOMAIN curve : curve[n].utilization # None}
               latest == runs[Max(RunsOf(runs, b, key))]
               one == [n |-> 1, d |-> 1]
               top == Ceiling(runs, b, key)
               rate == Rates(runs, b, key)
               measured == {n \in Tested(runs, b, key) : rate[n].n > 0}
    <2>1. RunsOf(runs, b, key) # {}
      BY DEF Keys, RunsOf
    <2>2. /\ DOMAIN curve = Tested(runs, b, key)
          /\ \A n \in DOMAIN curve : /\ Achieved(curve[n]) = rate[n]
                                     /\ curve[n].utilization = Utilization(rate[n], top)
      <3>1. DOMAIN curve = Tested(runs, b, key)
        BY CurveIs
      <3>2. \A n \in Tested(runs, b, key) :
              /\ Achieved(curve[n]) = Achieved(Level(runs, b, key, n))
              /\ curve[n].utilization = Utilization(Achieved(Level(runs, b, key, n)), top)
        <4> SUFFICES ASSUME NEW n \in Tested(runs, b, key)
                     PROVE  /\ Achieved(curve[n]) = Achieved(Level(runs, b, key, n))
                            /\ curve[n].utilization
                                 = Utilization(Achieved(Level(runs, b, key, n)), top)
          OBVIOUS
        <4>1. curve[n] = CurvePoint(runs, b, key, n)
          BY CurveIs
        <4> HIDE DEF curve
        <4> QED
          BY <4>1 DEF CurvePoint, Achieved
      <3>3. \A n \in Tested(runs, b, key) : rate[n] = Achieved(Level(runs, b, key, n))
        BY DEF Rates
      <3> HIDE DEF curve, top, rate
      <3> QED
        BY <3>1, <3>2, <3>3
    <2>3. \A n \in DOMAIN curve : rate[n] \in Fraction
      <3> SUFFICES ASSUME NEW n \in Tested(runs, b, key) PROVE rate[n] \in Fraction
        BY <2>2
      <3>1. Repeats(runs, b, key, n) # {}
        BY DEF Tested, Repeats
      <3> QED
        BY <3>1, Levels DEF Rates
    <2> HIDE DEF curve, rate, top
    <2>4. top # None => /\ top \in Fraction /\ top.n # 0
                        /\ latest.theta = None =>
                             /\ Cardinality(measured) > 1
                             /\ \E c \in measured :
                                  top = rate[c] /\ \A m \in measured : ~Less(rate[c], rate[m])
      BY <2>1, CeilingIs DEF top, rate
    <2>5. \A n \in DOMAIN curve : top # None /\ rate[n].n # 0 =>
            /\ Over(rate[n], top) # None /\ curve[n].utilization = Over(rate[n], top)
      BY <2>2, <2>3, <2>4, OverOne, FractionIsNotNone DEF Utilization
    <2>6. \A n \in DOMAIN curve : top = None \/ rate[n].n = 0 => curve[n].utilization = None
      BY <2>2 DEF Utilization
    <2>7. known # {} => top # None /\ known = measured
      <3>1. \A n \in DOMAIN curve : rate[n].n \in Nat
        BY <2>3, FractionIsNotNone
      <3>2. \A n \in known : top # None
        BY <2>6
      <3>3. top # None => known = measured
        BY <2>2, <2>5, <2>6, <3>1
      <3> QED
        BY <3>2, <3>3
    <2>8. \A n \in known : /\ n \in DOMAIN curve /\ top # None
                           /\ curve[n].utilization = Over(rate[n], top)
      BY <2>5, <2>6
    <2>9. \A m, n \in known : Less(Achieved(curve[m]), Achieved(curve[n]))
                                <=> Less(curve[m].utilization, curve[n].utilization)
      BY <2>2, <2>3, <2>4, <2>8, OverOne
    <2>10. ASSUME latest.theta = None, known # {}
           PROVE  /\ Cardinality(known) > 1
                  /\ \A n \in known : ~Less(one, curve[n].utilization)
                  /\ \E n \in known : Same(curve[n].utilization, one)
      <3>1. known = measured /\ top # None
        BY <2>7, <2>10
      <3>2. PICK c \in known : top = rate[c] /\ \A m \in known : ~Less(rate[c], rate[m])
        BY <2>4, <2>10, <3>1
      <3>3. Cardinality(known) > 1
        BY <2>4, <2>10, <3>1
      <3>4. ASSUME NEW n \in known PROVE ~Less(one, curve[n].utilization)
        BY <2>3, <2>4, <2>8, <3>1, <3>2, OverOne
      <3>5. Same(curve[c].utilization, one)
        <4>1. rate[c].n \in Nat /\ rate[c].d \in Nat
          BY <2>3, <2>8, FractionIsNotNone
        <4>2. curve[c].utilization = [n |-> rate[c].n * rate[c].d, d |-> rate[c].d * rate[c].n]
          BY <2>8, <3>2 DEF Over
        <4>3. rate[c].n * rate[c].d = rate[c].d * rate[c].n /\ rate[c].n * rate[c].d \in Nat
          BY <4>1, Products
        <4>4. ~Less(curve[c].utilization, one) /\ ~Less(one, curve[c].utilization)
          BY <4>2, <4>3 DEF Less
        <4>5. one # None
          <5>1. one \in Fraction
            BY DEF Fraction
          <5> QED
            BY <5>1, FractionIsNotNone
        <4> QED
          BY <2>8, <4>4, <4>5 DEF Same
      <3> QED
        BY <3>3, <3>4, <3>5
    <2>11. ASSUME Cardinality(RunsOf(runs, b, key)) = 1, NEW n \in DOMAIN curve
           PROVE  Same(curve[n].utilization, ComboRow(runs, b, key, n).utilization)
      <3>1. IsFiniteSet(RunsOf(runs, b, key))
        BY RunsAreFinite
      <3>2. PICK i : RunsOf(runs, b, key) = {i}
        BY <2>11, <3>1, FS_Singleton
      <3>3. curve[n].utilization = ComboRow(runs, b, key, n).utilization
        <4>1. /\ n \in Tested(runs, b, key) /\ curve[n].utilization = Utilization(rate[n], top)
              /\ rate[n] = Achieved(Level(runs, b, key, n))
          BY <2>2, <2>11 DEF rate, Rates
        <4>2. Utilization(Achieved(Level(runs, b, key, n)), top)
                = ComboRow(runs, b, key, n).utilization
          BY <3>2, <4>1, OneRun DEF top
        <4> QED
          BY <4>1, <4>2
      <3> QED
        BY <3>3 DEF Same
    <2> HIDE DEF known, latest, one
    <2> QED
      BY <2>9, <2>10, <2>11 DEF known, latest, one, curve
  <1> QED
    BY <1>1, ReportsInvariance, PTL

-----------------------------------------------------------------------------
(* The ranking and the curves.                                               *)

\* The points of curves and the rows of rankings that hold the SLO are the same, at the same
\* cost: then the cheapest points are the cheapest of the cheapest rows.
Alike(series, rows) ==
  /\ \A key, n : key \in DOMAIN series /\ n \in DOMAIN series[key]
                   <=> n \in DOMAIN rows /\ key \in DOMAIN rows[n]
  /\ \A n \in DOMAIN rows : \A key \in DOMAIN rows[n] :
       /\ rows[n][key].holds_slo <=> series[key][n].holds_slo
       /\ rows[n][key].cost_per_dev_month = series[key][n].cost_per_dev_month
       /\ rows[n][key].cost_per_dev_month \in Fraction
  /\ \A n \in DOMAIN rows : IsFiniteSet(DOMAIN rows[n])

\* Of the combos that hold at a size, if there are any, one is a winner.
LEMMA WinnerExists ==
  ASSUME NEW row, IsFiniteSet(DOMAIN row), NEW key \in DOMAIN row, row[key].holds_slo,
         \A k \in DOMAIN row : row[k].cost_per_dev_month \in Fraction
  PROVE  \E w \in Winners(row) : ~Less(row[key].cost_per_dev_month, row[w].cost_per_dev_month)
  <1> DEFINE S == {k \in DOMAIN row : row[k].holds_slo}
             cost(k) == row[k].cost_per_dev_month
             R == {p \in S \X S : ~Less(cost(p[2]), cost(p[1]))}
  <1>1. IsFiniteSet(S) /\ key \in S
    BY FS_Subset
  <1>2. \A k \in S : cost(k) \in Fraction
    OBVIOUS
  <1>3. Winners(row) = {k \in S : \A other \in S : ~Less(cost(other), cost(k))}
    BY DEF Winners
  <1> HIDE DEF S, cost
  <1>4. \A x, y \in S : <<x, y>> \in R <=> ~Less(cost(y), cost(x))
    OBVIOUS
  <1> HIDE DEF R
  <1>5. IsTotal(R, S) /\ IsTransitive(R, S)
    BY <1>2, <1>4, FractionOrder DEF IsTotal, IsTransitive
  <1>6. PICK w \in S : \A y \in S : <<w, y>> \in R
    BY <1>1, <1>5, FiniteHasFirst
  <1>7. w \in Winners(row) /\ ~Less(cost(key), cost(w))
    BY <1>1, <1>3, <1>4, <1>6
  <1> QED
    BY <1>7 DEF cost

LEMMA DealsAgree ==
  ASSUME NEW series, NEW rows, Alike(series, rows)
  PROVE  LET winners == UNION {Winners(rows[n]) \X {n} : n \in DOMAIN rows}
             cost(p) == rows[p[2]][p[1]].cost_per_dev_month
         IN  BestDeals(series) = {p \in winners : \A q \in winners : ~Less(cost(q), cost(p))}
  <1> DEFINE Points == UNION {{key} \X DOMAIN series[key] : key \in DOMAIN series}
             Hold == {p \in Points : series[p[1]][p[2]].holds_slo}
             winners == UNION {Winners(rows[n]) \X {n} : n \in DOMAIN rows}
             cost(p) == rows[p[2]][p[1]].cost_per_dev_month
  <1>1. \A p \in Hold : /\ p = <<p[1], p[2]>> /\ p[2] \in DOMAIN rows
                        /\ p[1] \in DOMAIN rows[p[2]] /\ rows[p[2]][p[1]].holds_slo
                        /\ cost(p) \in Fraction
                        /\ cost(p) = series[p[1]][p[2]].cost_per_dev_month
    <2> SUFFICES ASSUME NEW p \in Hold
                 PROVE  /\ p = <<p[1], p[2]>> /\ p[2] \in DOMAIN rows
                        /\ p[1] \in DOMAIN rows[p[2]] /\ rows[p[2]][p[1]].holds_slo
                        /\ cost(p) \in Fraction
                        /\ cost(p) = series[p[1]][p[2]].cost_per_dev_month
      OBVIOUS
    <2>1. /\ p = <<p[1], p[2]>> /\ p[1] \in DOMAIN series /\ p[2] \in DOMAIN series[p[1]]
          /\ series[p[1]][p[2]].holds_slo
      OBVIOUS
    <2>2. p[2] \in DOMAIN rows /\ p[1] \in DOMAIN rows[p[2]]
      BY <2>1 DEF Alike
    <2> QED
      BY <2>1, <2>2 DEF Alike
  <1>2. \A n \in DOMAIN rows : \A key \in DOMAIN rows[n] :
          rows[n][key].holds_slo => <<key, n>> \in Hold
    BY DEF Alike
  <1>3. BestDeals(series) = {p \in Hold : \A q \in Hold : ~Less(cost(q), cost(p))}
    <2>1. BestDeals(series) =
            {p \in Hold : \A q \in Hold : ~Less(series[q[1]][q[2]].cost_per_dev_month,
                                                series[p[1]][p[2]].cost_per_dev_month)}
      BY DEF BestDeals
    <2> HIDE DEF Hold, cost
    <2> QED
      BY <1>1, <2>1
  <1>4. \A p : p \in winners <=> /\ p = <<p[1], p[2]>> /\ p[2] \in DOMAIN rows
                                 /\ p[1] \in Winners(rows[p[2]])
    OBVIOUS
  <1>5. \A n, w : w \in Winners(rows[n]) <=>
          /\ w \in DOMAIN rows[n] /\ rows[n][w].holds_slo
          /\ \A k \in DOMAIN rows[n] : rows[n][k].holds_slo =>
               ~Less(cost(<<k, n>>), cost(<<w, n>>))
    BY DEF Winners
  <1> HIDE DEF Points, Hold, winners
  <1>6. \A p \in winners : p \in Hold
    <2> HIDE DEF cost
    <2> QED
      BY <1>2, <1>4, <1>5
  <1>7. ASSUME NEW p \in Hold, \A q \in Hold : ~Less(cost(q), cost(p)) PROVE p \in winners
    <2>1. \A k \in DOMAIN rows[p[2]] : rows[p[2]][k].holds_slo =>
            ~Less(cost(<<k, p[2]>>), cost(<<p[1], p[2]>>))
      <3> HIDE DEF cost
      <3> QED
        BY <1>1, <1>2, <1>7
    <2> HIDE DEF cost
    <2>2. p[1] \in Winners(rows[p[2]])
      BY <1>1, <1>5, <2>1
    <2> QED
      BY <1>1, <1>4, <2>2
  <1>8. ASSUME NEW q \in Hold PROVE \E w \in winners : ~Less(cost(q), cost(w))
    <2>1. /\ q[2] \in DOMAIN rows /\ q[1] \in DOMAIN rows[q[2]] /\ rows[q[2]][q[1]].holds_slo
      BY <1>1
    <2>2. /\ IsFiniteSet(DOMAIN rows[q[2]])
          /\ \A k \in DOMAIN rows[q[2]] : rows[q[2]][k].cost_per_dev_month \in Fraction
      BY <2>1 DEF Alike
    <2>3. PICK w \in Winners(rows[q[2]]) :
            ~Less(rows[q[2]][q[1]].cost_per_dev_month, rows[q[2]][w].cost_per_dev_month)
      BY <2>1, <2>2, WinnerExists
    <2>4. <<w, q[2]>> \in winners
      BY <1>4, <2>1, <2>3
    <2> QED
      BY <2>3, <2>4
  <1> HIDE DEF cost
  <1>9. ASSUME NEW p \in winners, \A w \in winners : ~Less(cost(w), cost(p)), NEW q \in Hold
        PROVE  ~Less(cost(q), cost(p))
    <2>1. PICK w \in winners : ~Less(cost(q), cost(w))
      BY <1>8
    <2>2. ~Less(cost(w), cost(p))
      BY <1>9
    <2>3. cost(q) \in Fraction /\ cost(w) \in Fraction /\ cost(p) \in Fraction
      BY <1>1, <1>6
    <2> QED
      BY <2>1, <2>2, <2>3, FractionOrder
  <1>10. {p \in Hold : \A q \in Hold : ~Less(cost(q), cost(p))}
           = {p \in winners : \A q \in winners : ~Less(cost(q), cost(p))}
    BY <1>6, <1>7, <1>9
  <1> QED
    BY <1>3, <1>10 DEF winners, cost

LEMMA WhatIfPrices ==
  \A overrides \in WhatIfs : \A h \in DOMAIN overrides : overrides[h] \in Nat \ {0}
  <1> SUFFICES ASSUME NEW overrides \in WhatIfs, NEW h \in DOMAIN overrides
               PROVE  overrides[h] \in Prices
    BY PricesAssumption
  <1>1. CASE overrides = <<>>
    BY <1>1
  <1>2. CASE \E hardware \in Hardware : overrides \in [{hardware} -> Prices]
    BY <1>2
  <1> QED
    BY <1>1, <1>2 DEF WhatIfs

\* What repricing makes of a point or a row, and what it leaves alone.
RepricedCost(cost, key, n, overrides) ==
  IF key[3] \notin DOMAIN overrides THEN cost
  ELSE [n |-> overrides[key[3]] * key[4] * HoursPerMonth, d |-> n]
RepricedMtok(mtok, price, key, overrides) ==
  IF key[3] \notin DOMAIN overrides \/ mtok = None THEN mtok
  ELSE Times(mtok, [n |-> overrides[key[3]], d |-> price])

LEMMA RepriceIs ==
  ASSUME NEW entry, NEW key, NEW price, NEW n, NEW overrides
  PROVE  LET point == Reprice(Priced(entry, key, price), n, overrides)
         IN  /\ point.holds_slo = entry.holds_slo
             /\ point.cost_per_dev_month = RepricedCost(entry.cost_per_dev_month, key, n, overrides)
             /\ point.cost_per_mtok = RepricedMtok(entry.cost_per_mtok, price, key, overrides)
             /\ point.price = IF key[3] \notin DOMAIN overrides THEN price ELSE overrides[key[3]]
  <1>1. CASE key[3] \notin DOMAIN overrides
    BY <1>1 DEF Reprice, Priced, RepricedCost, RepricedMtok
  <1>2. CASE key[3] \in DOMAIN overrides
    BY <1>2 DEF Reprice, Priced, RepricedCost, RepricedMtok
  <1> QED
    BY <1>1, <1>2

\* The ranking and the curves of a benchmark at what-if prices.
Series(b, overrides) == RepriceSeries(AllSeries(runs, b), overrides)
Rows(b, overrides) ==
  [n \in DevsFor(runs, b) |-> RepriceRows(ComboRows(runs, b, n), n, overrides)]
LatestPrice(b, key) == runs[Max(RunsOf(runs, b, key))].price

LEMMA PointIs ==
  ASSUME NEW b, NEW overrides, NEW key \in Keys(runs, b), NEW n \in Tested(runs, b, key)
  PROVE  LET point == Series(b, overrides)[key][n]
             level == Level(runs, b, key, n)
         IN  /\ point.holds_slo = level.holds_slo
             /\ point.cost_per_dev_month
                  = RepricedCost(level.cost_per_dev_month, key, n, overrides)
             /\ point.cost_per_mtok
                  = RepricedMtok(level.cost_per_mtok, LatestPrice(b, key), key, overrides)
             /\ point.price = IF key[3] \notin DOMAIN overrides THEN LatestPrice(b, key)
                              ELSE overrides[key[3]]
  <1> DEFINE level == Level(runs, b, key, n)
             entry == [level EXCEPT
                        !.utilization = Utilization(Achieved(level), Ceiling(runs, b, key))]
  <1>1. Series(b, overrides)[key][n] = Reprice(ComboSeries(runs, b, key)[n], n, overrides)
    <2>1. DOMAIN AllSeries(runs, b) = Keys(runs, b)
          /\ AllSeries(runs, b)[key] = ComboSeries(runs, b, key)
      BY DEF AllSeries
    <2>2. DOMAIN ComboSeries(runs, b, key) = Tested(runs, b, key)
      BY CurveIs
    <2> QED
      BY <2>1, <2>2 DEF Series, RepriceSeries
  <1>2. ComboSeries(runs, b, key)[n] = CurvePoint(runs, b, key, n)
    BY CurveIs
  <1>3. /\ entry.holds_slo = level.holds_slo
        /\ entry.cost_per_dev_month = level.cost_per_dev_month
        /\ entry.tokens_per_hour = level.tokens_per_hour
        /\ entry.computed_tokens_per_hour = level.computed_tokens_per_hour
        /\ entry.cost_per_mtok = level.cost_per_mtok
        /\ entry.utilization = Utilization(Achieved(level), Ceiling(runs, b, key))
    BY DEF Level, AggregateEntries
  <1> HIDE DEF level, entry
  <1>4. CurvePoint(runs, b, key, n) = Priced(entry, key, LatestPrice(b, key))
    BY <1>3 DEF CurvePoint, Priced, LatestPrice, level
  <1> QED
    BY <1>1, <1>2, <1>3, <1>4, RepriceIs DEF level

LEMMA RowIs ==
  ASSUME NEW b, NEW overrides, NEW key \in Keys(runs, b), NEW n \in DevsFor(runs, b),
         Repeats(runs, b, key, n) # {}
  PROVE  LET row == Rows(b, overrides)[n][key]
             level == Level(runs, b, key, n)
         IN  /\ row.holds_slo = level.holds_slo
             /\ row.cost_per_dev_month
                  = RepricedCost(level.cost_per_dev_month, key, n, overrides)
             /\ row.cost_per_mtok
                  = RepricedMtok(level.cost_per_mtok, runs[Max(Repeats(runs, b, key, n))].price,
                                 key, overrides)
  <1> DEFINE level == Level(runs, b, key, n)
             price == runs[Max(Repeats(runs, b, key, n))].price
  <1>1. Rows(b, overrides)[n][key] = Reprice(ComboRow(runs, b, key, n), n, overrides)
    <2>1. key \in DOMAIN ComboRows(runs, b, n)
          /\ ComboRows(runs, b, n)[key] = ComboRow(runs, b, key, n)
      BY DEF ComboRows
    <2> QED
      BY <2>1 DEF Rows, RepriceRows
  <1>2. ComboRow(runs, b, key, n) = Priced(level, key, price)
    BY Zenon DEF ComboRow, Level
  <1> HIDE DEF level, price
  <1> QED
    BY <1>1, <1>2, RepriceIs DEF level, price

LEMMA RunIsPriced ==
  ASSUME ReportsInv, NEW b, NEW key, NEW i \in RunsOf(runs, b, key)
  PROVE  /\ runs[i].price \in Nat \ {0} /\ key[4] \in Nat \ {0}
         /\ \A n \in DOMAIN runs[i].by_devs : n \in Nat \ {0}
  <1>1. IsReport(runs[i]) /\ RunKey(runs[i]) = key
    BY DEF RunsOf, Of, ReportsInv
  <1>2. key[4] = runs[i].gpus
    BY <1>1 DEF RunKey
  <1>3. PICK levels : MeasuredAs(runs[i], levels)
    BY <1>1 DEF IsReport
  <1>4. DOMAIN runs[i].by_devs = DOMAIN levels /\ DOMAIN levels \subseteq Nat \ {0}
    BY <1>3, ByDevsIs DEF MeasuredAs
  <1> QED
    BY <1>1, <1>2, <1>4 DEF IsReport

\* The sizes that a combo was tested at.
LEMMA TestedAt ==
  ASSUME ReportsInv, NEW b, NEW key, NEW n, Repeats(runs, b, key, n) # {}
  PROVE  /\ n \in Nat \ {0} /\ key[4] \in Nat \ {0}
         /\ n \in Tested(runs, b, key) /\ n \in DevsFor(runs, b)
  <1>1. PICK i \in RunsOf(runs, b, key) : n \in DOMAIN runs[i].by_devs
    BY DEF Repeats
  <1>2. n \in Nat \ {0} /\ key[4] \in Nat \ {0}
    BY <1>1, RunIsPriced
  <1>3. n \in Tested(runs, b, key) /\ n \in DevsFor(runs, b)
    BY <1>1 DEF Tested, DevsFor, RunsOf
  <1> QED
    BY <1>2, <1>3

LEMMA SeriesAndRows ==
  ASSUME ResultsInv, ReportsInv, NEW b, NEW overrides \in WhatIfs
  PROVE  /\ Alike(Series(b, overrides), Rows(b, overrides))
         /\ DOMAIN Series(b, overrides) = Keys(runs, b)
         /\ \A key \in Keys(runs, b) : DOMAIN Series(b, overrides)[key] = Tested(runs, b, key)
  <1> DEFINE series == Series(b, overrides)
             rows == Rows(b, overrides)
  <1>1. /\ DOMAIN series = Keys(runs, b)
        /\ \A key \in Keys(runs, b) : DOMAIN series[key] = Tested(runs, b, key)
    <2>1. /\ DOMAIN AllSeries(runs, b) = Keys(runs, b)
          /\ \A key \in Keys(runs, b) : AllSeries(runs, b)[key] = ComboSeries(runs, b, key)
      BY DEF AllSeries
    <2>2. \A key : DOMAIN ComboSeries(runs, b, key) = Tested(runs, b, key)
      BY CurveIs
    <2> QED
      BY <2>1, <2>2 DEF Series, RepriceSeries
  <1>2. /\ DOMAIN rows = DevsFor(runs, b)
        /\ \A n \in DevsFor(runs, b) :
             DOMAIN rows[n] = {k \in Keys(runs, b) : Repeats(runs, b, k, n) # {}}
    BY DEF Rows, RepriceRows, ComboRows
  <1>3. \A key, n : n \in Tested(runs, b, key) => Repeats(runs, b, key, n) # {}
    BY DEF Tested, Repeats
  <1>4. \A key, n : Repeats(runs, b, key, n) # {} =>
                      n \in Tested(runs, b, key) /\ n \in DevsFor(runs, b)
    BY TestedAt
  <1>5. ASSUME NEW n \in DevsFor(runs, b), NEW key \in Keys(runs, b),
               Repeats(runs, b, key, n) # {}
        PROVE  /\ rows[n][key].holds_slo <=> series[key][n].holds_slo
               /\ rows[n][key].cost_per_dev_month = series[key][n].cost_per_dev_month
               /\ rows[n][key].cost_per_dev_month \in Fraction
    <2> DEFINE level == Level(runs, b, key, n)
               cost == RepricedCost(level.cost_per_dev_month, key, n, overrides)
    <2>1. n \in Tested(runs, b, key) /\ n \in Nat \ {0} /\ key[4] \in Nat \ {0}
      BY <1>5, TestedAt
    <2>2. rows[n][key].holds_slo = level.holds_slo /\ rows[n][key].cost_per_dev_month = cost
      BY <1>5, RowIs
    <2>3. series[key][n].holds_slo = level.holds_slo /\ series[key][n].cost_per_dev_month = cost
      BY <2>1, PointIs
    <2>4. level.cost_per_dev_month \in Fraction
      BY <1>5, Levels
    <2>5. cost \in Fraction
      <3>1. CASE key[3] \notin DOMAIN overrides
        BY <2>4, <3>1 DEF RepricedCost
      <3>2. CASE key[3] \in DOMAIN overrides
        <4>1. overrides[key[3]] \in Nat \ {0} /\ HoursPerMonth \in Nat \ {0}
          BY <3>2, WhatIfPrices, PricesAssumption
        <4>2. overrides[key[3]] * key[4] \in Nat
          BY <2>1, <4>1, Products
        <4>3. overrides[key[3]] * key[4] * HoursPerMonth \in Nat
          BY <4>1, <4>2, Products
        <4>4. cost = [n |-> overrides[key[3]] * key[4] * HoursPerMonth, d |-> n]
          BY <3>2 DEF RepricedCost
        <4> QED
          BY <2>1, <4>3, <4>4 DEF Fraction
      <3> QED
        BY <3>1, <3>2
    <2> HIDE DEF rows, series, level, cost
    <2> QED
      BY <2>2, <2>3, <2>5
  <1>6. \A n \in DevsFor(runs, b) :
          IsFiniteSet({k \in Keys(runs, b) : Repeats(runs, b, k, n) # {}})
    BY RunsAreFinite, FS_Subset
  <1> HIDE DEF series, rows
  <1>7. Alike(series, rows)
    <2>1. \A key, n : key \in DOMAIN series /\ n \in DOMAIN series[key]
                       <=> n \in DOMAIN rows /\ key \in DOMAIN rows[n]
      BY <1>1, <1>2, <1>3, <1>4
    <2>2. \A n \in DOMAIN rows : \A key \in DOMAIN rows[n] :
            /\ rows[n][key].holds_slo <=> series[key][n].holds_slo
            /\ rows[n][key].cost_per_dev_month = series[key][n].cost_per_dev_month
            /\ rows[n][key].cost_per_dev_month \in Fraction
      BY <1>2, <1>5
    <2>3. \A n \in DOMAIN rows : IsFiniteSet(DOMAIN rows[n])
      BY <1>2, <1>6
    <2> QED
      BY <2>1, <2>2, <2>3 DEF Alike
  <1> QED
    BY <1>1, <1>7 DEF series, rows

\* A price scaled by one is the same.
LEMMA TimesOne ==
  ASSUME NEW x \in Fraction, NEW p \in Nat \ {0}
  PROVE  Same(Times(x, [n |-> p, d |-> p]), x)
  <1>1. x.n \in Nat /\ x.d \in Nat \ {0}
    BY FractionIsNotNone
  <1> DEFINE y == Times(x, [n |-> p, d |-> p])
  <1>2. y = [n |-> x.n * p, d |-> x.d * p]
    BY DEF Times
  <1>3. x.n * p \in Nat /\ x.d * p \in Nat \ {0}
    BY <1>1, Products
  <1>4. y \in Fraction
    BY <1>2, <1>3 DEF Fraction
  <1>5. (x.n * p) * x.d = x.n * (x.d * p) /\ (x.n * p) * x.d \in Nat
    <2>1. (x.n * p) * x.d = x.n * (x.d * p)
      BY <1>1
    <2> QED
      BY <1>1, <1>3, <2>1, Products
  <1>6. ~Less(y, x) /\ ~Less(x, y)
    BY <1>2, <1>5 DEF Less
  <1> HIDE DEF y
  <1>7. Same(y, x)
    BY <1>4, <1>6, FractionIsNotNone DEF Same
  <1> QED
    BY <1>7 DEF y

\* The cost of a size that was measured at one price only.
LEMMA CostAtOnePrice ==
  ASSUME ResultsInv, ReportsInv, NEW b, NEW key, NEW n, Repeats(runs, b, key, n) # {},
         NEW price, \A i \in RunsOf(runs, b, key) : runs[i].price = price
  PROVE  Same([n |-> price * key[4] * HoursPerMonth, d |-> n],
              Level(runs, b, key, n).cost_per_dev_month)
  <1> DEFINE S == Repeats(runs, b, key, n)
             v == [n |-> price * key[4] * HoursPerMonth, d |-> n]
             costs == [i \in S |-> runs[i].by_devs[n].cost_per_dev_month]
  <1>1. IsFiniteSet(S)
    BY RunsAreFinite, FS_Subset DEF Repeats
  <1>2. \A i \in S : costs[i] = v /\ costs[i] \in Fraction
    <2> SUFFICES ASSUME NEW i \in S PROVE costs[i] = v /\ costs[i] \in Fraction
      OBVIOUS
    <2>1. i \in RunsOf(runs, b, key) /\ n \in DOMAIN runs[i].by_devs
      BY DEF Repeats
    <2>2. runs[i].price = price
      BY <2>1
    <2>3. /\ runs[i].by_devs[n].cost_per_dev_month
               = [n |-> runs[i].price * key[4] * HoursPerMonth, d |-> n]
          /\ runs[i].by_devs[n].cost_per_dev_month \in Fraction
      BY <2>1, Entries
    <2> QED
      BY <2>2, <2>3
  <1>3. Level(runs, b, key, n).cost_per_dev_month = Mean(costs)
    BY DEF Level, AggregateEntries
  <1>4. DOMAIN costs = S /\ S # {}
    OBVIOUS
  <1> HIDE DEF costs, S, v
  <1>5. Values(costs) /\ v \in Fraction
    BY <1>1, <1>2, <1>4 DEF Values
  <1>6. Same(Mean(costs), v)
    BY <1>2, <1>4, <1>5, MeanOfEqual
  <1>7. Same(v, Mean(costs))
    BY <1>6 DEF Same
  <1> QED
    BY <1>3, <1>7 DEF v

\* The price of a combo that is asked for at the price it was measured at.
LEMMA WhatIfAtOwnPrice ==
  ASSUME ResultsInv, ReportsInv, NEW b, NEW overrides \in WhatIfs,
         NEW key \in Keys(runs, b), NEW n \in Tested(runs, b, key),
         {runs[i].price : i \in RunsOf(runs, b, key)} = {Series(b, overrides)[key][n].price}
  PROVE  LET point == Series(b, overrides)[key][n]
             plain == AllSeries(runs, b)[key][n]
         IN  /\ Same(point.cost_per_mtok, plain.cost_per_mtok)
             /\ Same(point.cost_per_dev_month, plain.cost_per_dev_month)
  <1> DEFINE point == Series(b, overrides)[key][n]
             plain == AllSeries(runs, b)[key][n]
             level == Level(runs, b, key, n)
             price == point.price
  <1>1. Repeats(runs, b, key, n) # {} /\ RunsOf(runs, b, key) # {}
    BY DEF Tested, Repeats
  <1>2. \A i \in RunsOf(runs, b, key) : runs[i].price = price
    OBVIOUS
  <1>3. LatestPrice(b, key) = price
    <2>1. Max(RunsOf(runs, b, key)) \in RunsOf(runs, b, key)
      BY <1>1, LatestRun
    <2> QED
      BY <1>2, <2>1 DEF LatestPrice
  <1>4. plain.cost_per_dev_month = level.cost_per_dev_month
        /\ plain.cost_per_mtok = level.cost_per_mtok
    <2>1. plain = CurvePoint(runs, b, key, n)
      <3>1. AllSeries(runs, b)[key] = ComboSeries(runs, b, key)
        BY DEF AllSeries
      <3> QED
        BY <3>1, CurveIs
    <2> HIDE DEF plain, level
    <2> QED
      BY <2>1 DEF CurvePoint, level
  <1>5. /\ point.cost_per_dev_month = RepricedCost(level.cost_per_dev_month, key, n, overrides)
        /\ point.cost_per_mtok = RepricedMtok(level.cost_per_mtok, price, key, overrides)
        /\ price = IF key[3] \notin DOMAIN overrides THEN price ELSE overrides[key[3]]
    BY <1>3, PointIs
  <1>6. level.cost_per_mtok \in Fraction \cup {None}
    BY <1>1, Levels
  <1>7. Same([n |-> price * key[4] * HoursPerMonth, d |-> n], level.cost_per_dev_month)
    BY <1>1, <1>2, CostAtOnePrice
  <1> HIDE DEF price, level, point, plain
  <1>8. CASE key[3] \notin DOMAIN overrides
    BY <1>4, <1>5, <1>8 DEF RepricedCost, RepricedMtok, Same, point, plain
  <1>9. CASE key[3] \in DOMAIN overrides
    <2>1. overrides[key[3]] = price /\ price \in Nat \ {0}
      BY <1>5, <1>9, WhatIfPrices
    <2>2. point.cost_per_dev_month = [n |-> price * key[4] * HoursPerMonth, d |-> n]
      BY <1>5, <1>9, <2>1 DEF RepricedCost
    <2>3. Same(point.cost_per_mtok, level.cost_per_mtok)
      <3>1. CASE level.cost_per_mtok = None
        BY <1>5, <3>1 DEF RepricedMtok, Same
      <3>2. CASE level.cost_per_mtok # None
        <4>1. level.cost_per_mtok \in Fraction
          BY <1>6, <3>2
        <4>2. point.cost_per_mtok = Times(level.cost_per_mtok, [n |-> price, d |-> price])
          BY <1>5, <1>9, <2>1, <3>2 DEF RepricedMtok
        <4> QED
          BY <2>1, <4>1, <4>2, TimesOne
      <3> QED
        BY <3>1, <3>2
    <2> QED
      BY <1>4, <1>7, <2>2, <2>3 DEF point, plain
  <1> QED
    BY <1>8, <1>9

\* combo_rows, combo_series, their repricing, best_combo_from_series and compare_narrative, for
\* every history of runs and every what-if price: two ways to work out the cheapest deal agree.
THEOREM RankingAgrees == Spec => []RankingAgreesWithTheCurves
  <1>1. ResultsInv /\ ReportsInv => RankingAgreesWithTheCurves
    <2> SUFFICES ASSUME ResultsInv, ReportsInv, NEW b \in Shown(runs), NEW overrides \in WhatIfs
                 PROVE  LET series == Series(b, overrides)
                            rows == Rows(b, overrides)
                            winners == UNION {Winners(rows[n]) \X {n} : n \in DOMAIN rows}
                            cost(p) == rows[p[2]][p[1]].cost_per_dev_month
                        IN /\ BestDeals(series) =
                                {p \in winners : \A q \in winners : ~Less(cost(q), cost(p))}
                           /\ \A key \in DOMAIN series : \A n \in DOMAIN series[key] :
                                /\ LatestPrice(b, key) = runs[Max(Repeats(runs, b, key, n))].price =>
                                     Same(series[key][n].cost_per_mtok, rows[n][key].cost_per_mtok)
                                /\ {runs[i].price : i \in RunsOf(runs, b, key)} = {series[key][n].price} =>
                                     /\ Same(series[key][n].cost_per_mtok,
                                             AllSeries(runs, b)[key][n].cost_per_mtok)
                                     /\ Same(series[key][n].cost_per_dev_month,
                                             AllSeries(runs, b)[key][n].cost_per_dev_month)
      BY Zenon DEF RankingAgreesWithTheCurves, Series, Rows, LatestPrice
    <2> DEFINE series == Series(b, overrides)
               rows == Rows(b, overrides)
               winners == UNION {Winners(rows[n]) \X {n} : n \in DOMAIN rows}
               cost(p) == rows[p[2]][p[1]].cost_per_dev_month
    <2>1. /\ Alike(series, rows) /\ DOMAIN series = Keys(runs, b)
          /\ \A key \in Keys(runs, b) : DOMAIN series[key] = Tested(runs, b, key)
      BY SeriesAndRows
    <2>2. BestDeals(series) = {p \in winners : \A q \in winners : ~Less(cost(q), cost(p))}
      <3> HIDE DEF series, rows
      <3> QED
        BY <2>1, DealsAgree
    <2>3. ASSUME NEW key \in DOMAIN series, NEW n \in DOMAIN series[key],
                 LatestPrice(b, key) = runs[Max(Repeats(runs, b, key, n))].price
          PROVE  Same(series[key][n].cost_per_mtok, rows[n][key].cost_per_mtok)
      <3>1. key \in Keys(runs, b) /\ n \in Tested(runs, b, key)
        BY <2>1
      <3>2. Repeats(runs, b, key, n) # {} /\ n \in DevsFor(runs, b)
        BY <3>1, TestedAt DEF Tested, Repeats
      <3>3. series[key][n].cost_per_mtok
              = RepricedMtok(Level(runs, b, key, n).cost_per_mtok, LatestPrice(b, key),
                             key, overrides)
        BY <3>1, PointIs
      <3>4. rows[n][key].cost_per_mtok
              = RepricedMtok(Level(runs, b, key, n).cost_per_mtok,
                             runs[Max(Repeats(runs, b, key, n))].price, key, overrides)
        BY <3>1, <3>2, RowIs
      <3> QED
        BY <2>3, <3>3, <3>4 DEF Same
    <2>4. ASSUME NEW key \in DOMAIN series, NEW n \in DOMAIN series[key],
                 {runs[i].price : i \in RunsOf(runs, b, key)} = {series[key][n].price}
          PROVE  /\ Same(series[key][n].cost_per_mtok, AllSeries(runs, b)[key][n].cost_per_mtok)
                 /\ Same(series[key][n].cost_per_dev_month,
                         AllSeries(runs, b)[key][n].cost_per_dev_month)
      <3>1. key \in Keys(runs, b) /\ n \in Tested(runs, b, key)
        BY <2>1
      <3> QED
        BY <2>4, <3>1, WhatIfAtOwnPrice
    <2> HIDE DEF series, rows
    <2> QED
      BY <2>2, <2>3, <2>4 DEF series, rows
  <1> QED
    BY <1>1, ReportsInvariance, PTL
=============================================================================
