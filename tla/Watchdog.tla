------------------------------ MODULE Watchdog ------------------------------
(***************************************************************************)
(* When the watchdog of src/scripts/lib/pod_guard.py aborts: the phases of  *)
(* a run, their stall and wall-clock budgets, the sampled progress token,   *)
(* and the races between phase(), called by the main thread, and _evaluate, *)
(* run by the watchdog thread.  Two programs run under it: a benchmark      *)
(* (orchestrator.provision and bench_sdd.run) and prefetch_to_volume.main,  *)
(* which downloads a model's weights.  Time is counted in ticks; no time    *)
(* passes between two statements of a thread, except while it samples or    *)
(* sleeps.                                                                  *)
(*                                                                         *)
(* The thread is taken to be alive and the pod's termination to be instant: *)
(* PodGuard.tla models what may go wrong with both.                         *)
(***************************************************************************)
EXTENDS Naturals

CONSTANTS
  MaxStartup,    \* MAX_STARTUP, and the stall budget while provisioning
  StallStartup,  \* STALL_STARTUP
  StallGen,      \* STALL_GEN
  MaxRun,        \* MAX_RUN, the ceiling of a benchmark
  DownloadMax,   \* DOWNLOAD_TIMEOUT
  DownloadMargin, \* what prefetch_to_volume adds to it for its own ceiling
  Poll,          \* POLL_INTERVAL
  SampleMax,     \* longest _sample: the timeout of pod_progress
  Margin,        \* margin of startup_poll_iterations
  ReadyMax,      \* wait_ready's retries x nap
  SshMax,        \* wait_for_ssh's retries x nap
  Devs,          \* team sizes of the levels
  MaxFlaps,      \* bound: samples that time out (pod_progress returns 0)
  None           \* no ceiling, no abort

ASSUME BudgetsAssumption ==
  /\ {MaxStartup, StallStartup, StallGen, MaxRun, DownloadMax, DownloadMargin, Poll,
       SampleMax, Margin, ReadyMax, SshMax} \subseteq Nat \ {0}
  /\ StallGen <= StallStartup /\ StallStartup <= MaxStartup /\ MaxStartup <= MaxRun
ASSUME DevsAssumption == Devs \subseteq Nat \ {0} /\ Devs # {}
\* The longest time from a moment to the end of the first evaluation that begins after it.
Lag == Poll + 2 * SampleMax

\* 60 s of margin to a poll and two samples; 900 s of wait_ready to the 720 s of the default
\* MAX_STARTUP: raised above that by its environment variable, wait_ready gives up first.
ASSUME MarginAssumption == Margin >= Lag /\ ReadyMax >= MaxStartup + Poll
ASSUME NoneAssumption ==
  None \notin {"max_run", "max_phase", "stall", "zero", "token"} /\ None # MaxStartup
ASSUME BoundsAssumption == MaxFlaps \in Nat

VARIABLES
  driver,       \* the program under the guard: "bench" or "prefetch"
  now,          \* the clock
  stage,        \* where the main thread is
  pcM,          \* its next step inside phase(), or "go"
  entering,     \* the policy phase() is about to install
  policy,       \* guard._policy
  phaseStart,   \* guard._phase_started_at
  lastAt,       \* guard._last_progress_at
  last,         \* kind of guard._last_progress: None, "zero" or "token"
  moved,        \* the pod's token differs from the last one sampled
  aborted,      \* guard.aborted
  pcW,          \* next step of the watchdog thread
  evalNow,      \* the `now` of this evaluation; in "wait", when the wait began
  readAt, readStart, readStall,  \* arguments of abort_reason read so far
  silentSince,  \* history: last real progress, or end of the last phase()
  flapAt,       \* history: last time a sample timed out
  stageStart,   \* history: when the stage was entered
  backstop,     \* history: the startup loop ran out of iterations
  flaps         \* history: bounded counter

clockVars == <<now, evalNow>>
mainVars == <<driver, stage, pcM, entering, stageStart, backstop>>
phaseVars == <<policy, phaseStart>>
sampleVars == <<last, moved>>
readVars == <<readAt, readStart, readStall>>
historyVars == <<silentSince, flapAt, flaps>>
vars == <<driver, now, stage, pcM, entering, policy, phaseStart, lastAt, last, moved, aborted, pcW,
          evalNow, readAt, readStart, readStall, silentSince, flapAt, stageStart, backstop,
          flaps>>

\* base x ceil(n / 4)
StallForDevs(n) == StallGen * (IF n > 4 THEN (n + 3) \div 4 ELSE 1)

\* Mutant: a ceiling that only leaves room for the download itself.
CeilingWithoutMargin == IF driver = "prefetch" THEN DownloadMax ELSE MaxRun

\* guard.max_run
Ceiling == IF driver = "prefetch" THEN DownloadMax + DownloadMargin ELSE MaxRun

\* Before set_progress the sampler is the constant 0.
Unreachable == {"creating", "provisioning", "ssh"}

\* PHASES, with the stall budget of a level overriding the default.
Provisioning == [stall |-> MaxStartup, max_phase |-> None]
\* Mutant: startup without a ceiling.
StartupUnbounded == [stall |-> StallStartup, max_phase |-> None]
Startup == [stall |-> StallStartup, max_phase |-> MaxStartup]
Generation(n) == [stall |-> StallForDevs(n), max_phase |-> None]
Download == [stall |-> StallGen, max_phase |-> None]
Policies == {Provisioning, Startup, Download} \cup {Generation(n) : n \in Devs}

\* Mutant: the ceiling of a phase hides the global one.
AbortReasonPhaseFirst(at, progressAt, startedAt, stall, maxPhase) ==
  IF maxPhase # None
  THEN IF at >= startedAt + maxPhase THEN "max_phase" ELSE None
  ELSE IF at >= Ceiling THEN "max_run" ELSE IF at >= progressAt + stall THEN "stall" ELSE None

\* The global ceiling wins first.  The run started at 0.
AbortReason(at, progressAt, startedAt, stall, maxPhase) ==
  IF at >= Ceiling THEN "max_run"
  ELSE IF maxPhase # None /\ at >= startedAt + maxPhase THEN "max_phase"
  ELSE IF at >= progressAt + stall THEN "stall"
  ELSE None

Init ==
  /\ driver \in {"bench", "prefetch"}
  /\ now = 0 /\ evalNow = 0
  /\ stage = "creating" /\ pcM = "go" /\ entering = Provisioning
  /\ policy = Provisioning /\ phaseStart = 0 /\ lastAt = 0
  /\ last = None /\ moved = FALSE /\ aborted = None
  /\ pcW = "wait" /\ readAt = 0 /\ readStart = 0 /\ readStall = MaxStartup
  /\ silentSince = 0 /\ flapAt = 0 /\ stageStart = 0 /\ backstop = FALSE /\ flaps = 0

Over == stage = "left"

-----------------------------------------------------------------------------
(* Time.                                                                     *)

\* The main thread is not yet tired of what it waits for.
Patient ==
  /\ stage = "provisioning" => now < stageStart + ReadyMax
  /\ stage = "ssh" => now < stageStart + SshMax
  /\ stage = "download" => now < stageStart + DownloadMax

\* The clock moves while the main thread waits for something and the watchdog sleeps or
\* samples; neither oversleeps.  The constant sampler takes no time.
Tick ==
  /\ ~Over /\ aborted = None
  /\ pcM = "go"
  /\ \/ pcW = "wait" /\ now < evalNow + Poll
     \/ pcW = "sample" /\ stage \notin Unreachable /\ now < evalNow + SampleMax
  /\ Patient
  /\ now' = now + 1
  /\ UNCHANGED <<evalNow, mainVars, phaseVars, sampleVars, readVars, historyVars, lastAt,
                 aborted, pcW>>

\* The pod's log, the agents' files or the weights on the volume grow.
Progress ==
  /\ ~Over /\ stage \notin Unreachable
  /\ moved' = TRUE /\ silentSince' = now
  /\ <<moved', silentSince'>> # <<moved, silentSince>>
  /\ UNCHANGED <<clockVars, mainVars, phaseVars, readVars, lastAt, last, aborted, pcW,
                 flapAt, flaps>>

-----------------------------------------------------------------------------
(* The main thread.                                                          *)

Free == pcM = "go" /\ ~Over

\* phase(): the policy first ...
Enter(newStage, newPolicy) ==
  /\ driver' = driver /\ stage' = newStage /\ stageStart' = now
  /\ entering' = newPolicy /\ pcM' = "policy"

\* create_pod has returned: track() samples once; the progress function is constant 0.
Track ==
  /\ Free /\ stage = "creating" /\ aborted = None
  /\ stage' = "provisioning" /\ stageStart' = now
  /\ last' = "zero" /\ lastAt' = now /\ silentSince' = now
  /\ UNCHANGED <<driver, clockVars, phaseVars, readVars, moved, aborted, pcW, pcM, entering,
                 backstop, flapAt, flaps>>

\* wait_ready returns the pod.  A benchmark goes on to set_progress and phase("startup"), a
\* prefetch waits for sshd before it touches the guard.
PodReady ==
  /\ Free /\ stage = "provisioning" /\ aborted = None
  /\ \/ driver = "bench" /\ Enter("startup", Startup)
     \/ /\ driver = "prefetch"
        /\ stage' = "ssh" /\ stageStart' = now
        /\ UNCHANGED <<driver, entering, pcM>>
  /\ UNCHANGED <<clockVars, phaseVars, sampleVars, readVars, historyVars, lastAt, aborted,
                 pcW, backstop>>

\* sshd accepts: set_progress, phase("generation"), and the download begins.
StartDownload ==
  /\ Free /\ stage = "ssh" /\ aborted = None
  /\ Enter("download", Download)
  /\ UNCHANGED <<clockVars, phaseVars, sampleVars, readVars, historyVars, lastAt, aborted,
                 pcW, backstop>>

\* vLLM answers, or a level has been measured: phase("generation", stall).
NextLevel ==
  /\ Free /\ stage \in {"startup", "levels"} /\ aborted = None
  /\ stage = "levels" => now > stageStart
  /\ \E n \in Devs : Enter("levels", Generation(n))
  /\ UNCHANGED <<clockVars, phaseVars, sampleVars, readVars, historyVars, lastAt, aborted,
                 pcW, backstop>>

SetPolicy ==
  /\ pcM = "policy"
  /\ policy' = entering /\ entering' = Provisioning
  /\ pcM' = "started"
  /\ UNCHANGED <<driver, clockVars, stage, stageStart, backstop, phaseStart, sampleVars,
                 readVars, historyVars, lastAt, aborted, pcW>>

\* ... then when it began ...
SetPhaseStart ==
  /\ pcM = "started"
  /\ phaseStart' = now
  /\ pcM' = "progress"
  /\ UNCHANGED <<driver, clockVars, stage, entering, stageStart, backstop, policy, sampleVars,
                 readVars, historyVars, lastAt, aborted, pcW>>

\* Mutant: phase() does not count as progress.
SetLastProgressNot ==
  /\ pcM = "progress"
  /\ silentSince' = now
  /\ pcM' = "go"
  /\ UNCHANGED <<driver, clockVars, stage, entering, stageStart, backstop, phaseVars, sampleVars,
                 readVars, lastAt, flapAt, flaps, aborted, pcW>>

\* ... and last that its beginning is progress.
SetLastProgress ==
  /\ pcM = "progress"
  /\ lastAt' = now /\ silentSince' = now
  /\ pcM' = "go"
  /\ UNCHANGED <<driver, clockVars, stage, entering, stageStart, backstop, phaseVars, sampleVars,
                 readVars, flapAt, flaps, aborted, pcW>>

Leave ==
  /\ stage' = "left"
  /\ UNCHANGED <<driver, clockVars, pcM, entering, stageStart, phaseVars, sampleVars, readVars,
                 historyVars, lastAt, aborted, pcW>>

\* The program is done, fails, finds that the pod is gone or the guard has aborted, or one of
\* its polling loops has slept through all its iterations.
LeaveRun ==
  /\ Free /\ Leave
  /\ backstop' = /\ aborted = None
                 /\ \/ stage = "startup" /\ now >= stageStart + MaxStartup + Margin
                    \/ stage = "provisioning" /\ now >= stageStart + ReadyMax

-----------------------------------------------------------------------------
(* The watchdog thread: _loop and _evaluate.                                 *)

\* _stop.wait times out; the clock is read before the sampling starts.
Wake ==
  /\ pcW = "wait" /\ now >= evalNow + Poll /\ ~Over /\ aborted = None
  /\ evalNow' = now
  /\ pcW' = "sample"
  /\ UNCHANGED <<now, mainVars, phaseVars, sampleVars, readVars, historyVars, lastAt,
                 aborted>>

\* Mutant: every sample counts as progress.
SeenAlways(kind) == lastAt' = evalNow

\* A sample other than the last one counts as progress, at the time the evaluation began.
Seen(kind) ==
  IF kind # last \/ (kind = "token" /\ moved)
  THEN lastAt' = evalNow ELSE UNCHANGED lastAt

\* Before the pod is reachable the sampler is constant; afterwards it returns the token.
SampleAnswers ==
  /\ pcW = "sample"
  /\ LET kind == IF stage \in Unreachable THEN "zero" ELSE "token"
     IN  /\ Seen(kind) /\ last' = kind
         /\ moved' = (moved /\ kind # "token")
  /\ pcW' = "read"
  /\ UNCHANGED <<clockVars, mainVars, phaseVars, readVars, historyVars, aborted>>

\* pod_progress times out: 0.
SampleTimesOut ==
  /\ pcW = "sample" /\ stage \notin Unreachable
  /\ flaps < MaxFlaps /\ flaps' = flaps + 1
  /\ Seen("zero") /\ last' = "zero" /\ flapAt' = now
  /\ pcW' = "read"
  /\ UNCHANGED <<clockVars, mainVars, phaseVars, moved, readVars, silentSince, aborted>>

\* The arguments of abort_reason are evaluated one after the other.
ReadTimes ==
  /\ pcW = "read"
  /\ readAt' = lastAt /\ readStart' = phaseStart
  /\ pcW' = "stall"
  /\ UNCHANGED <<clockVars, mainVars, phaseVars, sampleVars, historyVars, lastAt, aborted,
                 readStall>>

ReadStall ==
  /\ pcW = "stall"
  /\ readStall' = policy.stall
  /\ pcW' = "decide"
  /\ UNCHANGED <<clockVars, mainVars, phaseVars, sampleVars, historyVars, lastAt, aborted,
                 readAt, readStart>>

Decide ==
  /\ pcW = "decide"
  /\ aborted' = AbortReason(evalNow, readAt, readStart, readStall, policy.max_phase)
  /\ evalNow' = now
  /\ pcW' = "wait"
  /\ readAt' = 0 /\ readStart' = 0 /\ readStall' = MaxStartup
  /\ UNCHANGED <<now, mainVars, phaseVars, sampleVars, historyVars, lastAt>>

-----------------------------------------------------------------------------
MainStep ==
  \/ Track \/ PodReady \/ StartDownload \/ NextLevel
  \/ SetPolicy \/ SetPhaseStart \/ SetLastProgress \/ LeaveRun

WatchdogStep ==
  Wake \/ SampleAnswers \/ SampleTimesOut \/ ReadTimes \/ ReadStall \/ Decide

Done == Over /\ UNCHANGED vars

Next == Tick \/ Progress \/ MainStep \/ WatchdogStep \/ Done

Spec == Init /\ [][Next]_vars

-----------------------------------------------------------------------------
(* Properties.                                                               *)

\* Type invariant of a guarded run's clocks, phases and threads.
TypeOK ==
  /\ driver \in {"bench", "prefetch"}
  /\ {now, evalNow, phaseStart, lastAt, readAt, readStart, silentSince, flapAt, stageStart}
       \subseteq 0 .. now
  /\ stage \in {"creating", "provisioning", "ssh", "startup", "levels", "download", "left"}
  /\ pcM \in {"go", "policy", "started", "progress"} /\ entering \in Policies
  /\ policy \in Policies /\ readStall \in Nat
  /\ last \in {None, "zero", "token"} /\ moved \in BOOLEAN
  /\ aborted \in {None, "max_run", "max_phase", "stall"}
  /\ pcW \in {"wait", "sample", "read", "stall", "decide"}
  /\ backstop \in BOOLEAN /\ flaps \in 0 .. MaxFlaps

Running == ~Over /\ aborted = None

\* Why RunIsBounded holds: while nothing is aborted the thread neither oversleeps nor
\* samples for longer than SampleMax, and it began this wait, or this evaluation, in time.
EvaluationsAreTimely ==
  \/ pcW = "wait" /\ aborted # None
  \/ pcW = "wait" /\ evalNow < Ceiling + SampleMax /\ now <= evalNow + Poll
  \/ /\ pcW # "wait" /\ aborted = None
     /\ evalNow < Ceiling + SampleMax + Poll /\ now <= evalNow + SampleMax

\* Why GuardGovernsStartup holds, of the thread: an evaluation whose decision is still to come
\* finds the budget of the wait that is on, from no later than the wait's beginning.
Deadline == stageStart + MaxStartup

EvaluationsGovern ==
  /\ stage \in {"provisioning", "startup"} /\ aborted = None =>
       /\ pcW = "wait" =>
            evalNow < Deadline + (IF stage = "startup" THEN SampleMax ELSE 0)
       /\ pcW # "wait" =>
            evalNow < Deadline + (IF stage = "startup" THEN SampleMax ELSE 0) + Poll
       /\ pcW \in {"stall", "decide"} => readStart <= stageStart
       /\ pcW \in {"stall", "decide"} /\ stage = "provisioning" => readAt <= stageStart
  /\ stage \in {"creating", "provisioning"} => (pcW # "wait" => now = evalNow)

\* ... and of the main thread.
PhasesGovern ==
  /\ stage \in {"creating", "provisioning"} =>
       pcM = "go" /\ policy = Provisioning /\ phaseStart = 0
  /\ stage = "provisioning" => last = "zero" /\ lastAt = stageStart
  /\ stage \in {"creating", "provisioning"} /\ pcW = "decide" => readStall = MaxStartup
  /\ pcM # "go" => now = stageStart
  /\ stage = "startup" =>
       /\ pcM = "policy" => entering = Startup
       /\ pcM # "policy" => policy = Startup
       /\ pcM \in {"progress", "go"} => phaseStart = stageStart

Latest(a, b) == IF a > b THEN a ELSE b

\* README: a wall-clock ceiling bounds what a run costs.  No run goes on for longer than its
\* max_run and one evaluation, whatever its phases, its progress and its sampler do.
RunIsBounded == Running => now <= Ceiling + Lag

\* README: the pod is killed when it stalls on startup or generation hangs.  A pod that
\* shows nothing new, to a sampler that answers, is stopped within the stall budget of its
\* phase and two evaluations: one that credits its last progress late, one that aborts.
SilentPodIsStopped ==
  Running /\ pcM = "go" /\ stage \notin Unreachable =>
    now <= Latest(silentSince, flapAt) + policy.stall + 2 * Lag

\* stall_for_devs: a team must not be "false-aborted"; prefetch_to_volume says the same of a
\* long download.  A pod that was created, that progressed, or whose phase began, more recently
\* than the stall budget of its level (less one sampling: progress is dated when the
\* evaluation began) is not stopped for a stall.  The exceptions: progress or a phase that
\* comes while the evaluation is on, and progress that no sample has shown because the last
\* one timed out.
HealthyPodIsNotStalled ==
  aborted = "stall" /\ stage \in {"provisioning", "levels", "download"} /\ pcM = "go" =>
    \/ now <= Latest(silentSince, stageStart) + SampleMax
    \/ flapAt >= silentSince
    \/ now + SampleMax >= silentSince + policy.stall

\* startup_poll_iterations: "so the guard's max_phase truly governs".  Neither the startup
\* loop nor wait_ready runs out of iterations before the guard has aborted: a start that is
\* too slow always ends with the guard's diagnosis.
GuardGovernsStartup == ~backstop

\* DOWNLOAD_TIMEOUT is the "2h ceiling for the ssh download call".  The guard's own ceiling
\* cuts a download short of it only when provisioning had used up the margin between them.
DownloadKeepsItsTimeout ==
  aborted = "max_run" /\ stage = "download" => stageStart >= DownloadMargin
=============================================================================
