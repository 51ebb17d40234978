# TLA+ models of developer-ai-lab's benchmark orchestrator

`developer-ai-lab` rents a GPU pod on RunPod, serves a model on it with vLLM, lets teams of
coding agents work against it, and reports what the model costs per developer. Two things are
costly to get wrong. A pod that nobody terminates bills until someone notices. And a number
that was measured on a dead pod, by agents that did nothing, for a team the server was not
sized for, or over the wrong denominator, looks like any other number. These modules model the
code that stands between the lab and both: the guard around a paid pod, the runs of one machine
over time, the body of a run, the agents of a level, what is measured and computed, the config
a launch composes, and what the dashboard makes of the reports.

TLC checks the models on small instances. TLAPS proves every safety property that the passing
runs check, for every value of the constants.

Line numbers refer to `src/`; paths are shortened to `src/scripts/...` or `src/scripts/lib/...`.

## Inventory

| Component | State it keeps | Operations | Hard behaviour | Correct when |
|---|---|---|---|---|
| `lib/pod_guard.py`, one run | `_tracked`, `_terminated`, `aborted`, `_deferring`, `_pending_signal`, `_stop`; the state file `active-pods.json` | `track`, `release`, `terminate_all`, `deferred_signals`, `_on_signal`, `__enter__`, `__exit__`, `_loop` | two threads without a lock over the same sets and file; signals at any statement; calls that fail or are cut short; a daemon thread that dies with the interpreter | a run that is over leaves no pod billing but for a named cause |
| `lib/pod_guard.py`, reaping; `reap_pods.py` | `active-pods.json` over many runs, RunPod's list of pods, process ids | `reap_orphans`, `select_orphans`, `select_untracked`, `write_state`, `make reap` | a crash between any two steps, a torn file, a pid taken again, failing calls | the next run finds what earlier ones left |
| `lib/pod_guard.py`, timing | `_policy`, `_phase_started_at`, `_last_progress_at`, `_last_progress` | `phase`, `_sample`, `_evaluate`, `abort_reason`, `stall_for_devs` | stale clocks, slow samples, `phase()` half done while it is evaluated | runs are bounded, silent pods stopped, healthy ones not |
| `lib/orchestrator.py` | the pod, the provisioning context | `provision`, `create_with_fallback`, `create_and_track`, `wait_ready`, `wait_for_ssh`, `stop_pod`, `pod_progress` | a create that fails after allocating; an abort during create | every allocated pod is tracked or named as hidden |
| `lib/bench_sdd.py` | tunnel, `tunnel_box`, agents' processes and containers, `generated`, `aborted` | `run`, `_generate_level`, `_wait_procs`, `_score_level`, `_saturation_probe` | an abort between two looks at the guard, a tunnel that dies, agents that hang, `docker` clients killed without their containers | what is reported was measured; nothing is left behind |
| `run_benchmark.py` | `configs/_composed.yaml`, one file for all launches | resolves and composes, refuses, drives `provision` | a second launch that is refused after it has written the file | the pod serves what was asked for, sized for the sweep |
| `prefetch_to_volume.py` | none of its own | drives the guard without a benchmark | its own ceiling against its own timeout | the ceiling leaves the download its time |
| `lib/bench_report.py`, `lib/vllm_metrics.py`, `lib/saturation.py` | pure (the probe has worker threads) | `dev_record`, `agent_record`, `apply_utilization`, `quantile_from_buckets`, `level_tokens`, `run_probe` | missing snapshots, zero and negative counters, empty levels | numbers mean what the docs say |
| `lib/compose.py`, `lib/vllm_args.py`, `lib/runpod_pod.py` | pure | variant resolution, composition of the config, the sweep | missing keys, caps, two places that resolve the sweep | the variant served is servable, and the one asked for |
| `destream_proxy.py` | one request | asks for a whole completion, makes up a stream | tool calls and their order | the stream says what the completion said |
| `run_sdd_scenario.py`, `lib/claude.py`, `lib/transcript.py` | an agent's `/out` | phases one after the other, transcripts, `generation.json` | the model's shell wipes the disk, containers die, transcripts cannot be read | what was spent is reported |
| `run_gates.py`, `lib/gates.py` | result files | gates on a workspace | no workspace, no start, a timeout with the result already written | success is work that is there |
| `prune_artifacts.py`, `lib/results_layout.py` | result directories | selection of superseded artifacts | runs without reports, order of names | what the dashboard opens stays |
| `dashboard.py`, `lib/report_terminal.py` | none (a cache of the rendering) | rows, curves, what-if prices, best deals, details | two computations of the same numbers over many runs | all views agree, nothing measured is lost |
| `lib/timeline.py` | wall-clock segments | `mark` | none | - |
| shell scripts, `lib/dotenv.py`, `probe_vllm_tools.py` | none | I/O | none | - |

How they interact. `run_benchmark.main` calls `provision(..., body)`; `provision` enters
`PodGuard` (which reaps orphans, starts the watchdog thread and installs the signal handlers),
creates the pod under `deferred_signals`, waits until it is ready, and calls
`bench_sdd.run` as the body. The watchdog thread shares `_tracked`, `_terminated`, the state
file and the flag `aborted` with the main thread; `bench_sdd.run` polls the flag at fixed
places and restarts the watchdog's budgets with `phase()`. On the way out `provision` releases
the pod (`--keep`) or not, and `__exit__` joins the watchdog and sweeps once more. The next
run, in another process, sees only `active-pods.json` and RunPod's list. Before all this,
`main` resolves the request to a variant and writes `configs/_composed.yaml`, which `rsync`
pushes to the pod; `bench_sdd` reads the scenario once more for the sweep. Inside a level, the
agents' containers talk to `destream_proxy`, and leave their `/out` for the gates and the
report. `prune_artifacts` and the dashboard read `results/`, over all runs.

## Modules

| Module | Models |
|---|---|
| `PodGuard` | one run under the guard: both threads, signals, failing calls, interpreter exit |
| `PodGuardInv` | the inductive invariant of `PodGuard`, in named parts |
| `PodBilling` | the abstract promise of a run about money, which `PodGuard` implements |
| `Reaper` | a sequence of runs on one machine: crashes, the state file, the sweeps, `make reap` |
| `Watchdog` | when the watchdog aborts: clocks, budgets, samples, `phase()`, for both drivers |
| `BenchRun` | the body of a run: startup loop, tunnel, levels, agents, gates, report |
| `AgentRun` | one level from inside: agents behind the proxy, their disks, gates, records |
| `Measures` | what is measured and reported: snapshots, quantiles, SLO, prices, utilization |
| `RunConfig` | what a launch resolves, composes and refuses |
| `Dashboard` | rows, curves, what-if prices, best deals, details; which artifacts are superseded |
| `Lab` | many launches and runs over `RunConfig` and `Dashboard` |
| `DataLemmas` | lemmas on data: greatest and least elements, induction over sets, folds, sums, fractions |
| `PodGuardProofs`, `WatchdogProofs`, `ReaperProofs`, `BenchRunProofs`, `AgentRunProofs`, `MeasuresProofs`, `LabProofs` | the theorems |
| `MCPodGuard`, `MCReaper`, `MCWatchdog`, `MCBenchRun`, `MCAgentRun`, `MCMeasures`, `MCLab` | instances for TLC |

The models divide one program. What is nondeterministic in one is explained by another:
`PodGuard` lets the watchdog abort at any evaluation, and `Watchdog` says when it does;
`PodGuard` and `Watchdog` have the body as a step or as stages, and `BenchRun` opens it up;
`BenchRun` has agents that end or do not, and `AgentRun` says what they do and what is made of
what they leave; `BenchRun` only says which snapshots could be had, and `Measures` what is
computed from them; `PodGuard` ends with the run, and `Reaper` goes on from whatever a run may
leave behind; in `Lab` a run is a step that ends with some of its levels or none.

### PodGuard

`pc[t]` is the next step of each thread (`"main"`, `"watchdog"`). A step is one access to
shared state: `terminate_all` is a copy of the dictionary (`TakeSnapshot`), then for each pod
the test of `_terminated` (`PickPod`), `_terminated.add` (`MarkTerminated`), the API call
(`CallSucceeds`, `CallFails`), and `remove_entry` as a read and a write of the file
(`ReadEntries`, `WriteWithoutEntry`). Either thread may be anywhere in it. `ret` is where the
main thread's `terminate_all` returns to, `region` the block its exceptions unwind to.
`create_and_track` is the steps from `SetDeferring` to `RaiseIfAborted`; `Provision`, `StopPod`,
`Score` and `LeaveBody` are the body; `Unwind`, `Finally`, `Release`, `StopWatchdog`, `Join` and
`ProcessExits` the way out. `Signal` may occur at any step of the main thread (held inside the
critical section); `CutShort` is a call whose thread is gone before it reached the API.
`SamplerRaises` is the `RuntimeError` of iterating over `_tracked` while it changes size.

History variables name the ways in which a run may leave a pod billing: `ghosts` (the API
raised although it had allocated), `released` (`--keep`), `lost` (a terminate call failed or was
cut short). The properties say there is no other.

### Reaper

Each run is one process (`owner`, a pid) and goes through `reap_orphans` (`SelectOrphans`,
`ReapOrphan`, `ForgetOrphan`, `OrphansDone`, `ListPods`, `SweepPod`, `SweepDone`), `CreatePod`,
`Track`, and `StopPod` or `KeepPod`. `Crash` kills it at any step; a crash inside `write_state` may
leave the file cut off, which `read_state` takes for empty. Pids of dead owners may be taken by
strangers (`PidTaken`) or by later runs. `make reap` runs next to all this. That one
orchestrator runs at a time is the assumption the code states (pod_guard.py:37, 56) and is
assumed here.

### Watchdog

`now` advances while the watchdog waits (`Poll`) or samples (at most `SampleMax`). `phase()` is
three statements (`SetPolicy`, `SetPhaseStart`, `SetLastProgress`), and an evaluation reads the
clocks and the policy in the order of `_evaluate` (`ReadTimes`, `ReadStall`, `Decide`), so each can
fall between two steps of the other. A sampler that times out yields 0, which is another
token (`"zero"`).

`driver` says which program runs under the guard. A benchmark goes from `creating` through
`provisioning` (`wait_ready`) and `startup` (the loop of `bench_sdd`) to the `levels`; a prefetch from
`provisioning` through `ssh` (`wait_for_ssh`) to the `download`, with a ceiling of its own. The polling
loops give up on their own clocks; `backstop` records one that did so with no abort (`LeaveRun`).

### BenchRun

`pc` walks through `bench_sdd.run`. The startup loop is `StartupAborted`, `Reachable`, `Unreachable`,
`ScanFindsFailure`, `FetchTail`, `RepairTunnel`, `Backstop`. A level is `BetweenLevels` (the first look at
the guard), `EnsureBefore`, `OpeningSnapshot`, `Spawn`, `ProcEnds` or `WaitTimesOut` with
`KillSurvivors` and `RemoveAgents`, `LevelEnds` (the last look), `EnsureAfter`, `ClosingSnapshot`. Then
`ProbeSaturation`, `CloseTunnel` (the finally clause), `StopPod`, the gates, `WriteReport`. The
environment aborts the run, takes down the pod, kills tunnels, fails the server, ends agents
or does not, and sends a SIGTERM. Containers are what the docker daemon runs, as opposed to the
clients the runner holds. The data of the measurements is reduced to whether a snapshot could be
had.

Tunnels are numbered, so that a property can say which of them still runs. A tunnel whose process
runs (`alive`) need not forward anything (`deaf`): it is deaf when it is opened, since `Popen` returns before
ssh has connected (`TunnelForwards` is the moment it has), and again while the connection is half-open,
which ssh notices only after three keepalives of 20 s (`TunnelStalls`, and then `TunnelForwards` or
`TunnelDies`). `EnsureTunnel` and `RepairTunnel` look at the process and at nothing else, as the code does.
`Curl` never says that every attempt succeeds: an answer needs a tunnel that forwards and a server
that serves, and even then a curl may take longer than its timeout, so that a level can lose its
snapshots although pod, server and tunnel are up.

### AgentRun

An agent is in a phase (`Call`, `GiveUp`), its claude has ended (`EndPhase`: make the directories, write
the transcript, parse it), with a result event (`"ended"`) or without one (`"cut"`: claude crashed or was
killed), or it writes `generation.json` (`WriteGeneration`); `Die` kills the container. Each
call goes through the proxy: `Forwarded` drops the stream, `Upstream` is vLLM, which leaks tool calls
into the text when it streams, `Chunks` makes the stream up and `Reassembled` is the client. An agent
acts through the tools it hears: `Use` writes the phase's work or wipes `/out`. When all containers
are gone `Score` runs the gates of one agent after the other and makes its `AgentRecord`, and `EndLevel`
the level's record. The tokens of a phase are those of its result event (`TokensOf`, transcript.py:32-35);
a phase without one counts 0, and neither `generation.json` nor the report shows it. `spent` is a
history variable: what the phases really took, and in `silent` the turns of the phases without a
result event.

### Measures

The server's state is how many requests of each kind it has served (`Serve`); the counters and
cumulative buckets of `/metrics` are computed from that (`CounterTotal`, `TtftBuckets`,
`TpotBuckets`), and a snapshot that `curl` failed to get is empty. `OpenLevel` and `CloseLevel` take a
level's snapshots and compute `LevelMetrics`; `OpenProbe` and `CloseProbe` do the same for the
saturation probe; `WriteReport` makes `DevRecord`s of the levels and applies `Utilization`, also
after an abort with fewer levels. Floating-point numbers are exact fractions.

### RunConfig, Dashboard and Lab

`RunConfig` and `Dashboard` are pure: `ResolveQuant`, `Variant`, `Compose`, `Refused` (before the config is written)
and `RefusedLate` (after it) of a command line. `Compose` has the four keys that the properties tell
apart, in the code's order of precedence: what the scenario's `serving` section sets (any key of the vLLM
config, `ServingType` has those four) replaces the variant's model and the GPU count of the command
line, and `max_num_seqs` and `max_model_len` are worked out from it afterwards. `ComboRow`, `ComboSeries`, `RepriceRows`, `RepriceSeries`, `BestDeals`,
`Winners`, `Detail` and `ArtifactsToPrune` of the sequence of all runs. `Lab` has the state: `runs`, what is in
`results/`, and `run`, the run that holds a pod, with the file it composed and the copy that was
pushed. `Launch` is `main` up to the pod, `LaunchRefused` a second launch beside it that fails after it
has written the file, `Push` the `rsync`, `Finish` a report on a first part of the sweep, `Fail` an end
without one, `Prune` `prune_artifacts`. Prices change between runs.

Utilization is made of `Achieved`: the tokens the server computed (those of the cache discounted)
where the report has that figure, the tokens served where it has not, for single levels (`ByDevs`) and
for the merged points of a curve (`ComboSeries`) alike; `RatesOf` are the rates the ceiling is chosen from. Repeats
of which only some know the computed figure average it over those that do, as `aggregate_entries`
does. `tokens_per_hour` alone makes the prices.

A run serves with `GpuCount` GPUs, the `tensor_parallel_size` of the composed config; its report's `gpu_count`
and costs are those (bench_sdd.py:483, 540), while the pod is rented, and its directory named, by
`--gpus`. The two differ only for a scenario that sets `tensor_parallel_size`. `DirectoriesAssumption` says that such a
scenario is always launched with the same `--gpus` per family and hardware; without it the runs of one
combo lie in several directories, which the dashboard reads one after the other and not in the
order of `run_id`. No scenario in the repository sets that key.

## Runs

The bounds are chosen so that each hazard can happen at least once together with another one.

| Run | Checks | Bounds, and why they are enough |
|---|---|---|
| `guard_run` | `NoSilentLeak`, `PendingSignalStopsTheRun`, `GatesScoreWithPodDown`, `CrashLeavesAnEntry`, `RunEndsOrWatchdogDies`, `AbortStopsThePod` | 2 candidates and 2 pods (one may be hidden by a failing create, the other used), 2 signals (one held or handled, one during the handling), 2 faults. No symmetry, because of the liveness |
| `guard_keep` | `IInv`, `ReleasedPodSurvives`, `KeepsPromise` | the same with `--keep`, with symmetry over the pods |
| `reaper_run` | `TypeOK`, `StartsFromACleanSlate`, `OrphansKeepTheirEntry`, `NoPodBillsForever` | 2 pods of ours, 1 foreign, 3 pids, 2 crashes (one in the recovery from the other), 1 failing call, 1 reused pid, 1 `make reap` |
| `watchdog_run` | `RunIsBounded`, `SilentPodIsStopped`, `HealthyPodIsNotStalled`, `GuardGovernsStartup`, `DownloadKeepsItsTimeout` | budgets scaled down in the order they have in the code (startup 6 ticks, stalls 5 and 3, run 16, download 8 with a margin of 4), both drivers, levels of 4 and 5 agents (one and two stall budgets), one sample that times out; the run's ceiling is more than twice the startup's, so that every budget can be the first to be hit |
| `bench_run` | `TypeOK`, `ZeroExitMeansEveryLevel`, `AbortedLevelIsNotReported`, `DeathCostsOneMeasurement`, `NothingOutlivesTheRun`, `StallLeavesEvidence`, `AbortEndsTheBody` | two levels of 1 and 2 agents, a probe, 5 iterations of the startup loop with a scan every 2 (two scans and a look at the guard after both), 2 deaths of a tunnel (one during a level and one of the tunnel opened after it), any tunnel deaf at any time, any curl timing out, 2 failing commands, one SIGTERM |
| `agent_run` | `TypeOK`, `HearsWhatWasDecided`, `PassedWorkIsThere`, `WipedWorkIsStillMeasured`, `GarbageLevelIsInvalid` | 2 agents (the median is between them), 2 phases and 2 gates (one asks for the work of both), 2 completions per phase, 5 completions to decide on: with and without text, one tool call, a wipe, a wipe before and after a write; every phase with or without a result event; two durations, of which only the longer one in both phases makes `MIN_VALID_WALL_S` |
| `measures_run` | `QuantilesAreTheLevels`, `SloNeedsTraffic`, `PriceIsForServedTokens`, `UtilizationIsAFraction` | two levels of up to 3 requests (so that ranks fall on and between observations), three kinds of request: fresh, cached, beyond the last finite bucket; one request before the first level and one in the probe; every snapshot may be missing |
| `lab_run` | `UnservableIsNeverPaid`, `ServerFitsTheSweep`, `RankingAgreesWithTheCurves`, `UtilizationIsComparable`, `DetailKeepsItsArtifacts`, `CurvesKeepWhatWasMeasured` | 3 runs (a repeat and a top-up of one combo, or two combos one of which is repeated), 9 command lines of which some are refused early or late, a card that runs everything and one that caps the context, quants with a variant, with one that has no image, and with none, benchmarks with and without probe, teams and context length, one whose `serving` sets `tensor_parallel_size` (2, where 1 GPU is rented) and one whose `serving` sets the model, 2 prices, 2 outcomes of a level: one without cache figures, and one that serves more tokens and computes fewer |
| `guard_ctrl_c`, `guard_hang`, `reaper_keep`, `measures_client` | one documented claim each, which the code does not keep | the smallest instance that shows it |

What the passing runs show:

- However the watchdog's abort, the signals and the exit path interleave, a pod that bills
  after the run is a ghost, released or lost (`NoSilentLeak`); the state file always has the entry
  a later run needs (`CrashLeavesAnEntry`), in spite of unlocked read-modify-writes in both
  threads. That an abort during `create_pod` is caught by track's second look, and that an entry
  goes only after its pod, is part of `IInv`.
- A run that starts has no other pod of ours billing, but for calls that failed at this
  start and pids it took for live owners (`StartsFromACleanSlate`); a killed `reap_orphans` forgets
  no orphan (`OrphansKeepTheirEntry`); as long as runs are started, no pod bills forever
  (`NoPodBillsForever`).
- A run is bounded by its ceiling and one evaluation (`RunIsBounded`); a silent pod is stopped
  within its budget and two evaluations (`SilentPodIsStopped`); one that works is not, with the
  exceptions the property names (`HealthyPodIsNotStalled`). A start that is too slow always ends
  with the guard's diagnosis and not with a polling loop's (`GuardGovernsStartup`). A prefetch's
  ceiling takes time from the download only if the stages before it were slower than the
  margin (`DownloadKeepsItsTimeout`).
- A level that was cut short is not in the report (`AbortedLevelIsNotReported`), and an exit status
  of 0 stands for all of them (`ZeroExitMeansEveryLevel`); no tunnel and no container outlives the
  run, on every path, with the exceptions named (`NothingOutlivesTheRun`); the tail of the log
  survives the pod (`StallLeavesEvidence`).
- The death of a tunnel no longer costs a run every later metric: measurements made without a
  tunnel's process are at most as many as processes died (`DeathCostsOneMeasurement`). This is all
  `ensure_tunnel` gives. A level may still lose a snapshot to a tunnel that is half-open or has not
  connected in the two seconds it is given, or to a curl that times out, with server and pod up.
- What a client hears through the proxy is what the model decided on (`HearsWhatWasDecided`). A
  success is one of work that is still there (`PassedWorkIsThere`); a model that wipes `/out` costs
  itself its work and the report nothing, neither time nor tokens, but for the tokens of phases without a
  result event (`WipedWorkIsStillMeasured`); a level counts only if at
  least half of its agents worked (`GarbageLevelIsInvalid`).
- A level's quantiles are those of its own requests up to the width of a bucket, whatever the
  server did before (`QuantilesAreTheLevels`); a level that nobody measured never holds its SLO,
  although its latencies read as 0 (`SloNeedsTraffic`); prices are for the tokens served, unless
  the opening snapshot was missing, which nothing in the report shows
  (`PriceIsForServedTokens`); utilization by the best level is a fraction as long as no closing
  snapshot is missing (`UtilizationIsAFraction`): with one missing it is negative.
- Nothing unservable gets a pod (`UnservableIsNeverPaid`). `compose` and `bench_sdd` work the sweep out
  apart from each other and agree, whatever `serving` overrides: the server admits the largest team,
  its context fits card and variant, it spans the GPUs the report is priced for, and it is the
  variant's model on the rented GPUs unless the scenario names others (`ServerFitsTheSweep`; unless
  another launch rewrote the file before the push, which nothing in the code prevents). The at-N rankings and the curves, listed and repriced, give the same best
  deals and the same $/MTok, unless a price changed after N was last measured
  (`RankingAgreesWithTheCurves`); utilization orders the sizes of a combo as the rates do that it is made of, computed tokens
  where they are known (`UtilizationIsComparable`; a size that serves more from the cache may have the
  lower one); a later run never takes a size from a curve or makes a failed one
  hold (`CurvesKeepWhatWasMeasured`); what a detail link opens is never pruned
  (`DetailKeepsItsArtifacts`).

What the violation runs show:

- `guard_ctrl_c`: `_terminate` names the pod in `_terminated` before it calls the API. A Ctrl-C
  inside that call raises `SystemExit` out of it, later sweeps skip the pod, and its entry is
  removed: it bills on until the next start sweeps the API's list.
- `guard_hang`: `_sample` iterates over `_tracked` without a copy; `track` in the other thread
  makes it raise, the watchdog thread dies unnoticed, and nothing bounds the run.
- `reaper_keep`: `release` drops the entry, so the sweep of untracked pods at the next start
  terminates a pod that was kept on purpose, which the docstring excludes.
- `measures_client`: `level_metrics` always has a `server_tokens` dict, so a level without snapshots
  is reported with the server's zeros (or negative numbers) and not with the agents' usage.

Observed while modelling, in the models as in the code, and excused by name in a property:

- `deferred_signals` (pod_guard.py:273) sets `_deferring` before it clears `_pending_signal`: a signal
  between the two is held and forgotten (`ClearPending`).
- An abort after the last level's last look at the guard leaves no mark: the run exits with 0
  and its report is not `truncated`, although docs/results.md:57-59 says an aborted run's is
  (bench_sdd.py:217, 383).
- A launch that is refused late (run_benchmark.py:91) has already rewritten `configs/_composed.yaml`;
  if it falls between the first launch's write and its `rsync`, the pod serves the wrong config.
- `prefetch_to_volume` leaves 600 s between its download timeout and its ceiling, but the waits
  before the download may take 720 s and 120 s.
- A living ssh that forwards nothing passes `ensure_tunnel` (bench_sdd.py:493), and the snapshot is empty.
- A phase whose claude ended without a result event counts 0 tokens without a sign of it
  (transcript.py:32), and lowers the tokens per developer.
- A scenario that sets `tensor_parallel_size` in `serving` has it served, reported and priced, but the pod is
  rented with `--gpus` (compose.py:42, 70). README.md:203 says the key is derived from `--gpus` and
  README.md:213 that the price is times `--gpus`, while README.md:173-174 lets `serving` win.
- A scenario without `max_model_len` passes all checks of a launch and fails on the paid pod
  (vllm_args.py:19).
- A transcript line that is no JSON ends the scenario runner (transcript.py:24) and costs the agent
  its `generation.json`, that is, all its tokens and its wall time.

### Fairness

- `PodGuard`: weak fairness of the steps of each thread (the interpreter schedules both) and of
  the death of a daemon thread at interpreter exit. Strong fairness of `Abort`: the watchdog
  evaluates again and again, and once `MAX_RUN` has passed each evaluation aborts
  (`RunIsBounded` of `Watchdog`); an evaluation is a step among others, so `Abort` is enabled
  infinitely often but not continuously. Weak fairness of leaving the body once the run is
  aborted, which is `AbortEndsTheBody` of `BenchRun`. Nothing makes the body of a run that is
  not aborted end, nor any call succeed.
- `Reaper`: runs are started again and again and take their steps; a stranger that took a pid
  ends some day. Crashes and failures are bounded, never fair.
- `BenchRun`: the runner takes its steps. Nothing is assumed of agents, server and tunnel: a tunnel may stay deaf.
- `Watchdog`, `AgentRun`, `Measures` and `Lab` have only safety properties: the bounds of `Watchdog` are
  stated over `now`.

### Deadlock

All runs but `lab_run` check for deadlock; where a run is over, an explicit step repeats its last
state. `lab_run` stops where `MaxRuns` runs are in `results/` and nothing is left to prune, which is the
bound's doing.

## Proofs

Every theorem holds for all values of the constants that the modules' assumptions allow. They
are checked from `ASSUME`s that TLC evaluates in every run of the module.

| Module | Theorems | Of the run properties |
|---|---|---|
| `PodGuardProofs` | `Invariance`, `TypeCorrect`, `NoLeak`, `LateTrack`, `PendingSignal`, `GatesWithPodDown`, `CrashSafety`, `EntriesOutliveBilling`, `ReleaseIsFinal`, `Refinement` | all safety properties of `guard_run` and `guard_keep`, `IInv` and `KeepsPromise` among them |
| `ReaperProofs` | `Invariance`, `TypeCorrect`, `CleanSlate`, `OrphansKept` | all but the liveness |
| `WatchdogProofs` | `TypeCorrect`, `Bounded`, `StartupGoverned`, `DownloadTimeout`, `SilentStopped`, `HealthyKept` | all of `watchdog_run` |
| `BenchRunProofs` | `Invariance`, `TypeCorrect`, `ZeroExit`, `CutShortIsLeftOut`, `OneMeasurementPerDeath`, `NothingIsLeft`, `EvidenceIsLeft` | all but the liveness |
| `AgentRunProofs` | `HearsDecided`, `PassedIsThere`, `LevelInvariance`, `TypeCorrect`, `WipedIsMeasured`, `GarbageIsInvalid` | all of `agent_run` |
| `MeasuresProofs` | `Invariance`, `QuantilesAreOwn`, `SloIsMeasured`, `PricesAreServed`, `Utilizations` | all of `measures_run` |
| `LabProofs` | `Unservable`, `ServerFits`, `CurvesKeep`, `DetailKept`, `UtilizationCompares`, `RankingAgrees` | all of `lab_run` |

**The guard.** The safety properties are not inductive. `NoSilentLeak` says something of a run that
is over, and only because each path there passes through a sweep that covers the pod. `IInv` says
so for every step:

- `OnePod`: the sets of the guard hold nothing but `pod`, so that "every tracked pod" is one pod;
- `PodKnown`, `Deferred`, `Recorded`: at which steps the pod exists, signals are held, the pod is in
  the dictionary;
- `Accounted`: a pod in `_terminated` that still bills is lost, or some thread is at its call;
- `BeforeExit`, `Covered`: a sweep of the main thread covers the pod, and past the last one it is covered;
- `AbortCovered`: an aborted run owes the pod a call only while one thread is about to make it: the
  watchdog's sweep has not come to it, or the main thread is between `track` and its second look;
- `CrashLeavesAnEntry`: the state file's part.

`ReleasedPodSurvives` needs one more: once the pod is given up it is no longer tracked, the main
thread has it on no list and is past every step that could track another, and the watchdog sweeps
only a run that has aborted (`GivenUp`).

There is a lemma for each group of actions, and for the refinement one for each kind of
step: a call stops the pod, a create allocates it, `release` and `CutShort` excuse it, the end of the
run ends the promise, everything else stutters.

**Runs in a row.** `StartsFromACleanSlate` speaks of the end of a start; `Slate` carries it through
`reap_orphans`: at each step, every other pod that bills is still ahead of the loop that will
come to it, or has one of the excuses. `Dealt` and `AtHand` say that the pod whose entry is about
to go was dealt with, or its call failed.

**Time.** `RunIsBounded` needs to know when an evaluation began (`EvaluationsAreTimely`): the thread
neither oversleeps nor samples for longer than `SampleMax`. `GuardGovernsStartup` needs that an
evaluation whose decision is still to come finds the budget of the wait that is on, from no
later than the wait's beginning (`EvaluationsGovern`, `PhasesGovern`). It rests on `MarginAssumption`: the
startup loop's margin is one evaluation at least and `wait_ready` is more patient than
`MAX_STARTUP`. A `MAX_STARTUP` raised by the environment above about 880 s breaks the second part, and
`wait_ready` then gives up first. `SilentPodIsStopped` rests on `SilenceIsSeen`: what was credited is
at most a wait late, and an evaluation that did not abort began within the budget of that.
`HealthyPodIsNotStalled` rests on `ProgressIsCredited`: progress is still to be credited, or was,
to within a sampling. Both follow the arguments of `abort_reason` through the reads in between.

**The body.** `Progress` says of each step how many levels have been measured and whether a report
exists, `OneTunnel` that at most the tunnel in the box is alive, and from which step on none,
`Losses` that every measurement lost to a missing process has a death of its own, and that the next
one to be lost has too: its tunnel was opened or looked at before, and died since,
`OneCrew` that only the containers of the agents at work, of the gates at work, or of a docker
that failed exist, `CutOff` that a level cut short is the present one until it is dropped,
`Evidence` that the tail is kept.

**A level.** `HearsWhatWasDecided` is a fact about two operators: `ChunkPlaces` says which chunk is at
which place, `Reassembly` that the greatest index of each kind gives back each part, for any number
of tool calls. `PassedWorkIsThere` holds since no agent is scored before every container has ended
(`Scored`), so nothing changes a workspace after its gates ran. The other two rest on `LevelInv`:

- `Types`: files, metrics and what was spent;
- `Ledger`: an agent that still runs has in `metrics` one entry per phase it has ended, and what it
  spent is their sum, the turns of its phases without a result event and those of the phase it is in; its
  `generation.json`, if it left one, has those metrics. A wipe takes files and transcripts, never this, which is why the scenario cannot crash
  on it;
- `Records`: a record has what its agent spent, without the turns of phases that left no result event,
  or 0 if the agent left nothing to read;
- `Judged`: the verdict is computed from the records of all agents.

`MedianSplits` says of the median, however the agents are ranked: at most half of them are below it and
at most half above. `GarbageLevelIsInvalid` follows from that and from `Records`.

**What is measured.** `Inv` of `MeasuresProofs` ties the counters to the traffic: while a level is
open, what vLLM has counted is the opening snapshot and the level's requests (`Counters`), so a
closed level has metrics of its own traffic if it has both snapshots (`Closed`), and the report is
computed from the closed levels (`Reported`). Sums over requests add up and differences of
cumulative buckets are those of the window (`CountedAdds`, `DiffIsTheWindows`).
`QuantileInItsBucket` is the interpolation: the least bucket that reaches the rank has the rank
above what is below it, so the quantile lies between the bucket's bounds. A level that has its
opening snapshot only, has at most 0 tokens and so no price, and a level without a closing one, or
one that served nothing, has a speed of 0, which fails the SLO (`NoTokensNoSpeed`). `BestIsBest`
takes the greatest achieved rate, which exists since the order of fractions is total and
transitive (`FiniteHasFirst`).

**The lab.** `LaunchInv` ties the held run's quant and composed file to its request; a composed
file fits because `MaxModelLen` is a least element and the sweep's largest size is a greatest one
(`DataLemmas`). `ResultsInv` types the records, `RepeatsGrow` says that a later run adds to what a
combo's curve is made of, and `PrunedInv` that only superseded runs lack their artifacts.

The views of the dashboard agree because they are made of the same levels. `ReportsInv` says that
the report of every run that is loaded is what `ByDevs` makes of some measured levels, at the
price that was paid for that run's pod. `MeanUnfolds` says what a mean of known values is,
`MeanOfOne` and `MeanOfEqual` when it is one of them. With these, `CurveIs` and `CeilingIs` give
each point of a curve and its one denominator: the latest run's `theta_max`, or else the best rate
of the curve, which is above 0 and has company. `UtilizationIsComparable` is then a cancelling of
that denominator (`Cancel`, `Scale`). For `RankingAgreesWithTheCurves`, `SeriesAndRows` says that
a point and its row hold the same cost before and after repricing, `DealsAgree` that the cheapest
points are the cheapest winners of the rows whenever they do (a winner exists in each ranking,
`WinnerExists`), `CostAtOnePrice` that the cost of repeats at one price is the cost at that price,
and `WhatIfAtOwnPrice` that repricing at it changes nothing.

**Data.** The library's induction theorems take an operator, which the installed provers cannot
instantiate. `DataLemmas` states induction over sets instead: a set of naturals that has 0 and
with each number the next is all of them (`NatSetInduction`), and likewise for the subsets of a
finite set (`SubsetInduction`). From this follow that the functions behind the folds of the
community modules exist and keep their type (`FoldExists`, `FoldType`, `FoldOfPrefixes`), and with
them what is needed of `MapThenSumSet` and `FoldLeft`: they add up one element after the other.
Sums, means and totals of any length are proved about in this way, without a RECURSIVE operator.

**Assumptions.** Besides those on sizes and prices, `Measures`, `AgentRun`, `Dashboard`,
`BenchRun`, `PodGuard` and `Reaper` assume of `None` that it is not one of the values it stands in
for (`NoneAssumption`), and `RunConfig` the same of `Unset` (`UnsetAssumption`). `DirectoriesAssumption` of `Lab` is no premise of a
proof: it is what makes the sequence `runs` the order in which the dashboard loads them.

Only model-checked: liveness (`RunEndsOrWatchdogDies`, `AbortStopsThePod`, `AbortEndsTheBody`,
`NoPodBillsForever`; TLAPS proves nothing that rests on fairness or `ENABLED`), and the four runs
that refute something.

## Abstractions, and what is not modelled

- Time is absent from all modules but `Watchdog`; there, no time passes between two statements
  of a thread except while it samples or sleeps, and the thread is alive. In `AgentRun` a
  duration is a number that a phase draws.
- `PodGuard` takes a Python statement on shared state for atomic; dictionary and set
  operations are, under the interpreter's lock.
- `BenchRun` has one SIGTERM, between two of its steps; what the handler does about the pod is
  `PodGuard`'s. `Popen` and the assignment of its result are one step.
- Two orchestrators at once: excluded by the code's stated assumption; `Lab` has only the second
  launch that is refused.
- `make reap` with `REAP_AGE` is not modelled. The plain form ends at the first call that
  fails, although the README says it terminates all pods; `Reaper` has that.
- `phase()` installs the policy before it resets the clocks; an evaluation in between compares the
  new ceiling with the old clock. `Watchdog` has these steps; its properties speak of moments
  outside `phase()`.
- A sampler that times out looks like progress twice, when it fails and when it answers again
  (`flapAt` in `Watchdog`): one that flaps keeps a hung generation alive until `MAX_RUN`.
- `heartbeat` has no caller: provisioning is aborted for a stall after `MAX_STARTUP` (720 s), before
  the 15 minutes of `wait_ready`. `Watchdog` models it that way; the streak of missing answers
  after which `wait_ready` takes the pod for gone is left out, the pod may just be gone.
- A watchdog that is inside an evaluation when `__exit__` joins it may die with the interpreter
  with its call in flight: this is one of the ways into `lost`.
- `Measures` leaves out metric names and the end-to-end latency (computed like the ttft).
- `AgentRun` leaves out the proxy's passing on of other paths, headers and usage; text is a model
  value, the work of a phase is the phase.
- `RunConfig` leaves out keys that are only copied, the spelling of vLLM's flags and
  `attach_weight_cache`; the sweep is a set, so the order and the duplicates of `devs` are left out.
- `Dashboard` leaves out the columns that are only copied or formatted; a
  level's tokens in `Lab` are not negative (`Measures` has those that are), and the computed ones are any
  number, not bound to those served.
- Not modelled at all: `lib/timeline.py` (a record of segments no decision is taken from), the
  tables and the Streamlit rendering, the pod's shell scripts, `lib/dotenv.py` and
  `probe_vllm_tools.py` (I/O without state). See `components` in `PROJECT.json`.

## What is left

1. Action properties of what never goes back: `generated` of `BenchRun` and `Measures`, the state file of
   `PodGuard` outside the guard's own steps.
2. `select_to_reap` with an age, and the proxy's usage chunk.
