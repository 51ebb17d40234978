--------------------------- MODULE WatchdogProofs ---------------------------
(* Proofs about Watchdog.tla for every length of its budgets: the types, the *)
(* bound on a run's wall clock, and that a slow start ends by the guard.     *)
EXTENDS Watchdog, TLAPS

USE BudgetsAssumption, DevsAssumption, BoundsAssumption, NoneAssumption

Inv == TypeOK /\ EvaluationsAreTimely /\ PhasesGovern /\ EvaluationsGovern

LEMMA CeilingIsNat == driver \in {"bench", "prefetch"} => Ceiling \in Nat \ {0}
  BY DEF Ceiling

LEMMA PoliciesType ==
  /\ {Provisioning, Startup, Download} \subseteq Policies
  /\ \A n \in Devs : Generation(n) \in Policies
  /\ \A q \in Policies : q.stall \in Nat
  <1>1. \A n \in Devs : Generation(n) \in Policies /\ Generation(n).stall \in Nat
    <2> TAKE n \in Devs
    <2>1. StallForDevs(n) \in Nat
      <3>1. (n + 3) \div 4 \in Nat
        OBVIOUS
      <3>2. StallGen \in Nat
        OBVIOUS
      <3> QED
        BY <3>1, <3>2 DEF StallForDevs
    <2> QED
      BY <2>1 DEF Policies, Generation
  <1>2. {Provisioning, Startup, Download} \subseteq Policies
    BY DEF Policies
  <1>3. \A q \in {Provisioning, Startup, Download} : q.stall \in Nat
    BY DEF Provisioning, Startup, Download
  <1> QED
    BY <1>1, <1>2, <1>3 DEF Policies

LEMMA AbortReasonType ==
  ASSUME NEW at, NEW p, NEW s, NEW q, NEW m
  PROVE  /\ AbortReason(at, p, s, q, m) \in {None, "max_run", "max_phase", "stall"}
         /\ AbortReason(at, p, s, q, m) = None =>
              /\ ~(at >= Ceiling) /\ ~(at >= p + q)
              /\ m # None => ~(at >= s + m)
  BY DEF AbortReason

LEMMA InitType == Init => TypeOK
  <1> SUFFICES ASSUME Init PROVE TypeOK
    OBVIOUS
  <1>1. {now, evalNow, phaseStart, lastAt, readAt, readStart, silentSince, flapAt, stageStart}
          \subseteq 0 .. now
    BY DEF Init
  <1>2. moved \in BOOLEAN /\ backstop \in BOOLEAN
    BY Zenon DEF Init
  <1> QED
    BY <1>1, <1>2, PoliciesType DEF Init, TypeOK

LEMMA MainType == TypeOK /\ MainStep => TypeOK'
  <1> SUFFICES ASSUME TypeOK, MainStep PROVE TypeOK'
    OBVIOUS
  <1> USE PoliciesType DEF TypeOK, clockVars, mainVars, phaseVars, sampleVars, readVars,
        historyVars
  <1>1. CASE Track
    BY <1>1 DEF Track
  <1>2. CASE PodReady
    BY <1>2 DEF PodReady, Enter
  <1>3. CASE StartDownload
    BY <1>3 DEF StartDownload, Enter
  <1>4. CASE NextLevel
    BY <1>4 DEF NextLevel, Enter
  <1>5. CASE SetPolicy
    BY <1>5 DEF SetPolicy
  <1>6. CASE SetPhaseStart
    BY <1>6 DEF SetPhaseStart
  <1>7. CASE SetLastProgress
    BY <1>7 DEF SetLastProgress
  <1>8. CASE LeaveRun
    BY <1>8 DEF LeaveRun, Leave
  <1> QED
    BY <1>1, <1>2, <1>3, <1>4, <1>5, <1>6, <1>7, <1>8 DEF MainStep

LEMMA WatchdogType == TypeOK /\ WatchdogStep => TypeOK'
  <1> SUFFICES ASSUME TypeOK, WatchdogStep PROVE TypeOK'
    OBVIOUS
  <1> USE PoliciesType DEF TypeOK, clockVars, mainVars, phaseVars, sampleVars, readVars,
        historyVars
  <1>1. CASE Wake
    BY <1>1 DEF Wake
  <1>2. CASE SampleAnswers
    BY <1>2 DEF SampleAnswers, Seen
  <1>3. CASE SampleTimesOut
    BY <1>3 DEF SampleTimesOut, Seen
  <1>4. CASE ReadTimes
    BY <1>4 DEF ReadTimes
  <1>5. CASE ReadStall
    BY <1>5 DEF ReadStall
  <1>6. CASE Decide
    BY <1>6, AbortReasonType DEF Decide
  <1> QED
    BY <1>1, <1>2, <1>3, <1>4, <1>5, <1>6 DEF WatchdogStep

LEMMA StepType == TypeOK /\ [Next]_vars => TypeOK'
  <1> SUFFICES ASSUME TypeOK, [Next]_vars PROVE TypeOK'
    OBVIOUS
  <1>1. CASE Tick
    BY <1>1 DEF Tick, TypeOK, mainVars, phaseVars, sampleVars, readVars, historyVars
  <1>2. CASE Progress
    BY <1>2 DEF Progress, TypeOK, clockVars, mainVars, phaseVars, readVars
  <1>3. CASE UNCHANGED vars
    BY <1>3 DEF TypeOK, vars
  <1> QED
    BY <1>1, <1>2, <1>3, MainType, WatchdogType DEF Next, Done

-----------------------------------------------------------------------------
(* The wall clock.                                                           *)

\* The numbers a step compares are natural numbers.
LEMMA Numbers ==
  TypeOK => /\ {now, evalNow, phaseStart, lastAt, readAt, readStart, stageStart, readStall}
                 \subseteq Nat
            /\ evalNow <= now /\ phaseStart <= now /\ lastAt <= now
            /\ readAt <= now /\ readStart <= now /\ stageStart <= now
            /\ Ceiling \in Nat \ {0}
  BY CeilingIsNat DEF TypeOK

LEMMA StepTimely ==
  ASSUME TypeOK, TypeOK', EvaluationsAreTimely, [Next]_vars
  PROVE  EvaluationsAreTimely'
  <1> USE Numbers DEF EvaluationsAreTimely, clockVars, mainVars
  <1>0. Ceiling' = Ceiling
    BY DEF Next, vars, Tick, Progress, MainStep, Track, PodReady, StartDownload, NextLevel,
           Enter, SetPolicy, SetPhaseStart, SetLastProgress, LeaveRun, Leave, WatchdogStep,
           Wake, SampleAnswers, SampleTimesOut, ReadTimes, ReadStall, Decide, Done, Ceiling
  <1>1. CASE Tick
    BY <1>0, <1>1 DEF Tick
  <1>2. CASE Progress
    BY <1>0, <1>2 DEF Progress
  <1>3. CASE MainStep
    <2>1. UNCHANGED <<now, evalNow, pcW, aborted>>
      BY <1>3 DEF MainStep, Track, PodReady, StartDownload, NextLevel, Enter, SetPolicy,
                  SetPhaseStart, SetLastProgress, LeaveRun, Leave
    <2> QED
      BY <1>0, <2>1
  <1>4. CASE Wake
    BY <1>0, <1>4 DEF Wake
  <1>5. CASE SampleAnswers \/ SampleTimesOut \/ ReadTimes \/ ReadStall
    BY <1>0, <1>5 DEF SampleAnswers, SampleTimesOut, ReadTimes, ReadStall, Seen
  <1>6. CASE Decide
    <2>1. aborted' = None => ~(evalNow >= Ceiling)
      BY <1>6, AbortReasonType DEF Decide
    <2>2. CASE aborted' # None
      BY <1>6, <2>2 DEF Decide
    <2>3. CASE aborted' = None
      <3>1. now' = now /\ evalNow' = now /\ pcW = "decide" /\ pcW' = "wait"
        BY <1>6 DEF Decide
      <3>2. now <= evalNow + SampleMax
        BY <3>1
      <3> QED
        BY <1>0, <2>1, <2>3, <3>1, <3>2
    <2> QED
      BY <2>2, <2>3
  <1>7. CASE UNCHANGED vars
    BY <1>0, <1>7 DEF vars
  <1> QED
    BY <1>1, <1>2, <1>3, <1>4, <1>5, <1>6, <1>7 DEF Next, WatchdogStep, Done

-----------------------------------------------------------------------------
(* The start.                                                                *)

LEMMA StepPhases ==
  ASSUME TypeOK, TypeOK', PhasesGovern, [Next]_vars
  PROVE  PhasesGovern'
  <1> USE Numbers DEF PhasesGovern, clockVars, mainVars, phaseVars, sampleVars, readVars,
                      historyVars
  <1>1. CASE Tick
    BY <1>1 DEF Tick
  <1>2. CASE Progress
    BY <1>2 DEF Progress
  <1>3. CASE Track
    BY <1>3 DEF Track
  <1>4. CASE PodReady
    BY <1>4 DEF PodReady, Enter
  <1>5. CASE StartDownload \/ NextLevel
    BY <1>5 DEF StartDownload, NextLevel, Enter
  <1>6. CASE SetPolicy \/ SetPhaseStart \/ SetLastProgress
    BY <1>6 DEF SetPolicy, SetPhaseStart, SetLastProgress, TypeOK
  <1>7. CASE LeaveRun
    BY <1>7 DEF LeaveRun, Leave
  <1>8. CASE Wake \/ ReadTimes \/ Decide
    BY <1>8 DEF Wake, ReadTimes, Decide
  <1>9. CASE ReadStall
    BY <1>9 DEF ReadStall, Provisioning
  <1>10. CASE SampleAnswers
    BY <1>10 DEF SampleAnswers, Seen, Unreachable
  <1>11. CASE SampleTimesOut
    BY <1>11 DEF SampleTimesOut, Seen, Unreachable
  <1>12. CASE UNCHANGED vars
    BY <1>12 DEF vars
  <1> QED
    BY <1>1, <1>2, <1>3, <1>4, <1>5, <1>6, <1>7, <1>8, <1>9, <1>10, <1>11, <1>12
       DEF Next, MainStep, WatchdogStep, Done

LEMMA StepGovern ==
  ASSUME TypeOK, TypeOK', EvaluationsAreTimely, PhasesGovern, EvaluationsGovern, [Next]_vars
  PROVE  EvaluationsGovern'
  <1> USE Numbers DEF EvaluationsGovern, Deadline, clockVars, mainVars, phaseVars, sampleVars,
                      readVars, historyVars
  <1>1. CASE Tick
    BY <1>1 DEF Tick, Unreachable
  <1>2. CASE Progress
    BY <1>2 DEF Progress
  <1>3. CASE Track
    BY <1>3 DEF Track
  <1>4. CASE PodReady
    BY <1>4 DEF PodReady, Enter
  <1>5. CASE StartDownload \/ NextLevel
    BY <1>5 DEF StartDownload, NextLevel, Enter
  <1>6. CASE SetPolicy \/ SetPhaseStart \/ SetLastProgress
    BY <1>6 DEF SetPolicy, SetPhaseStart, SetLastProgress
  <1>7. CASE LeaveRun
    BY <1>7 DEF LeaveRun, Leave
  <1>8. CASE Wake
    BY <1>8 DEF Wake, EvaluationsAreTimely
  <1>9. CASE ReadTimes
    BY <1>9 DEF ReadTimes, PhasesGovern, TypeOK
  <1>10. CASE ReadStall
    BY <1>10 DEF ReadStall
  <1>11. CASE SampleAnswers \/ SampleTimesOut
    BY <1>11 DEF SampleAnswers, SampleTimesOut
  <1>12. CASE Decide
    <2> SUFFICES ASSUME stage \in {"provisioning", "startup"}, aborted' = None
                 PROVE  evalNow' < Deadline + (IF stage = "startup" THEN SampleMax ELSE 0)
      BY <1>12 DEF Decide
    <2>1. /\ evalNow' = now /\ pcW = "decide" /\ aborted = None
          /\ ~(evalNow >= readAt + readStall)
          /\ policy.max_phase # None => ~(evalNow >= readStart + policy.max_phase)
      BY <1>12, AbortReasonType DEF Decide, EvaluationsAreTimely
    <2>2. CASE stage = "provisioning"
      BY <2>1, <2>2 DEF PhasesGovern
    <2>3. CASE stage = "startup" /\ pcM = "policy"
      BY <2>1, <2>3 DEF PhasesGovern
    <2>4. CASE stage = "startup" /\ pcM # "policy"
      <3>1. policy.max_phase = MaxStartup
        BY <2>4 DEF PhasesGovern, Startup
      <3>2. MaxStartup # None => ~(evalNow >= readStart + MaxStartup)
        BY <2>1, <3>1
      <3>3. now <= evalNow + SampleMax
        BY <2>1 DEF EvaluationsAreTimely
      <3> QED
        BY <2>1, <2>4, <3>1, <3>2, <3>3
    <2> QED
      BY <2>2, <2>3, <2>4
  <1>13. CASE UNCHANGED vars
    BY <1>13 DEF vars
  <1> QED
    BY <1>1, <1>2, <1>3, <1>4, <1>5, <1>6, <1>7, <1>8, <1>9, <1>10, <1>11, <1>12, <1>13
       DEF Next, MainStep, WatchdogStep, Done

-----------------------------------------------------------------------------
(* The theorems.                                                             *)

\* A step that leaves a polling loop out of its iterations finds the guard already aborted.
LEMMA StepBackstop ==
  ASSUME TypeOK, EvaluationsAreTimely, EvaluationsGovern, GuardGovernsStartup, [Next]_vars
  PROVE  GuardGovernsStartup'
  <1> USE Numbers DEF GuardGovernsStartup, mainVars
  <1>1. CASE LeaveRun
    <2> SUFFICES ASSUME aborted = None, backstop' PROVE FALSE
      BY <1>1 DEF LeaveRun
    <2>1. CASE stage = "startup"
      <3>1. now < Deadline + Lag
        BY <2>1 DEF EvaluationsGovern, EvaluationsAreTimely, Deadline, Lag
      <3>2. now >= Deadline + Margin
        BY <1>1, <2>1 DEF LeaveRun, Deadline
      <3> QED
        BY <3>1, <3>2, MarginAssumption DEF Deadline, Lag
    <2>2. CASE stage = "provisioning"
      <3>1. now < Deadline + Poll
        BY <2>2 DEF EvaluationsGovern, EvaluationsAreTimely, Deadline
      <3>2. now >= stageStart + ReadyMax
        BY <1>1, <2>2 DEF LeaveRun
      <3> QED
        BY <3>1, <3>2, MarginAssumption DEF Deadline
    <2> QED
      BY <1>1, <2>1, <2>2 DEF LeaveRun
  <1>2. CASE UNCHANGED backstop
    BY <1>2
  <1> QED
    BY <1>1, <1>2 DEF Next, vars, Tick, Progress, MainStep, Track, PodReady, StartDownload,
       NextLevel, SetPolicy, SetPhaseStart, SetLastProgress, WatchdogStep, Wake,
       SampleAnswers, SampleTimesOut, ReadTimes, ReadStall, Decide, Done

\* The inductive invariant, for every length of the budgets.
THEOREM Invariance == Spec => [](Inv /\ GuardGovernsStartup)
  <1>1. Init => Inv /\ GuardGovernsStartup
    <2> SUFFICES ASSUME Init PROVE Inv /\ GuardGovernsStartup
      OBVIOUS
    <2>1. TypeOK
      BY InitType
    <2>2. EvaluationsAreTimely
      BY CeilingIsNat DEF Init, EvaluationsAreTimely
    <2>3. PhasesGovern /\ EvaluationsGovern
      BY DEF Init, PhasesGovern, EvaluationsGovern
    <2>4. GuardGovernsStartup
      BY DEF Init, GuardGovernsStartup
    <2> QED
      BY <2>1, <2>2, <2>3, <2>4 DEF Inv
  <1>2. Inv /\ GuardGovernsStartup /\ [Next]_vars => (Inv /\ GuardGovernsStartup)'
    BY StepType, StepTimely, StepPhases, StepGovern, StepBackstop DEF Inv
  <1> QED
    BY <1>1, <1>2, PTL DEF Spec

\* README: "a wall-clock ceiling": whatever its phases, its progress and its sampler do, a run
\* that goes on is within its max_run and one late evaluation.
THEOREM Bounded == Spec => []RunIsBounded
  <1>1. Inv => RunIsBounded
    BY Numbers DEF Inv, EvaluationsAreTimely, RunIsBounded, Running, Lag
  <1> QED
    BY <1>1, Invariance, PTL

\* startup_poll_iterations: "so the guard's max_phase truly governs", for every budget whose
\* margin covers a poll and two samples.
THEOREM StartupGoverned == Spec => []GuardGovernsStartup
  BY Invariance, PTL

\* Every variable stays in its domain, and no instant a thread works with is in the future.
THEOREM TypeCorrect == Spec => []TypeOK
  <1>1. Inv => TypeOK
    BY DEF Inv
  <1> QED
    BY <1>1, Invariance, PTL

\* Only a prefetch downloads, and no longer than DOWNLOAD_TIMEOUT.
DownloadInv ==
  /\ stage \in {"ssh", "download"} => driver = "prefetch"
  /\ stage = "download" => now <= stageStart + DownloadMax

\* DOWNLOAD_TIMEOUT, "2h ceiling for the ssh download call": the guard's own ceiling comes
\* before it only for a download that began after the margin between the two was used up.
THEOREM DownloadTimeout == Spec => []DownloadKeepsItsTimeout
  <1> USE DEF DownloadInv, DownloadKeepsItsTimeout
  <1>1. Init => DownloadInv /\ DownloadKeepsItsTimeout
    BY DEF Init
  <1>2. ASSUME TypeOK, EvaluationsAreTimely, DownloadInv, DownloadKeepsItsTimeout,
               [Next]_vars
        PROVE  (DownloadInv /\ DownloadKeepsItsTimeout)'
    <2> USE <1>2, Numbers DEF clockVars, mainVars, phaseVars, sampleVars, readVars, historyVars
    <2>1. CASE Tick
      BY <2>1 DEF Tick, Patient
    <2>2. CASE Progress
      BY <2>2 DEF Progress
    <2>3. CASE MainStep
      <3>1. CASE Track
        BY <3>1 DEF Track
      <3>2. CASE PodReady
        BY <3>2 DEF PodReady, Enter
      <3>3. CASE StartDownload \/ NextLevel
        BY <3>3 DEF StartDownload, NextLevel, Enter
      <3>4. CASE SetPolicy \/ SetPhaseStart \/ SetLastProgress
        BY <3>4 DEF SetPolicy, SetPhaseStart, SetLastProgress
      <3>5. CASE LeaveRun
        BY <3>5 DEF LeaveRun, Leave
      <3> QED
        BY <2>3, <3>1, <3>2, <3>3, <3>4, <3>5 DEF MainStep
    <2>4. CASE Wake \/ SampleAnswers \/ SampleTimesOut \/ ReadTimes \/ ReadStall
      BY <2>4 DEF Wake, SampleAnswers, SampleTimesOut, ReadTimes, ReadStall
    <2>5. CASE Decide
      <3>1. UNCHANGED <<driver, now, stage, stageStart>>
        BY <2>5 DEF Decide
      <3>2. CASE stage = "download" /\ aborted' = "max_run"
        <4>1. evalNow >= Ceiling
          BY <2>5, <3>2, NoneAssumption DEF Decide, AbortReason
        <4>2. Ceiling = DownloadMax + DownloadMargin
          BY <3>2 DEF Ceiling
        <4> QED
          BY <3>1, <3>2, <4>1, <4>2
      <3> QED
        BY <3>1, <3>2
    <2>6. CASE UNCHANGED vars
      BY <2>6 DEF vars
    <2> QED
      BY <2>1, <2>2, <2>3, <2>4, <2>5, <2>6 DEF Next, WatchdogStep, Done
  <1>3. Inv => TypeOK /\ EvaluationsAreTimely
    BY DEF Inv
  <1> QED
    BY <1>1, <1>2, <1>3, Invariance, PTL DEF Spec

-----------------------------------------------------------------------------
(* Silent pods are stopped.                                                  *)

Quiet == Latest(silentSince, flapAt)
Watched == Running /\ pcM = "go" /\ stage \notin Unreachable

\* Progress that was not credited yet will be by the next evaluation, so what was credited is
\* at most a wait late; an evaluation that did not abort began within the budget of that, and
\* one that is on works with the budget and the progress of now, or of a phase() just done.
SilenceIsSeen ==
  Watched =>
    /\ lastAt <= Quiet + Poll
    /\ moved \/ last # "token" =>
         /\ pcW = "wait" => evalNow <= Quiet
         /\ pcW = "sample" => evalNow <= Quiet + Poll
         /\ pcW \in {"read", "stall", "decide"} => now <= Quiet
    /\ pcW = "wait" => evalNow < Quiet + policy.stall + Poll + SampleMax
    /\ pcW # "wait" => evalNow < Quiet + policy.stall + 2 * Poll + SampleMax
    /\ pcW \in {"stall", "decide"} => now <= Quiet \/ readAt <= Quiet + Poll
    /\ pcW = "decide" => now <= Quiet \/ readStall = policy.stall

LEMMA QuietType ==
  TypeOK => /\ {silentSince, flapAt, Quiet} \subseteq Nat /\ Quiet <= now
            /\ silentSince <= Quiet /\ flapAt <= Quiet /\ policy.stall \in Nat
  BY PoliciesType DEF TypeOK, Quiet, Latest

LEMMA StepSilence ==
  ASSUME TypeOK, TypeOK', EvaluationsAreTimely, SilenceIsSeen, [Next]_vars
  PROVE  SilenceIsSeen'
  <1> USE Numbers, QuietType DEF SilenceIsSeen, Watched, Running, Over
  <1> USE DEF clockVars, mainVars, phaseVars, sampleVars, readVars, historyVars
  <1>0. UNCHANGED <<silentSince, flapAt>> => Quiet' = Quiet
    BY DEF Quiet, Latest
  <1>1. CASE Tick
    BY <1>0, <1>1 DEF Tick
  <1>2. CASE Progress
    <2>1. Quiet' = now
      BY <1>2 DEF Progress, Quiet, Latest, TypeOK
    <2> QED
      BY <1>2, <2>1 DEF Progress, EvaluationsAreTimely
  <1>3. CASE Track \/ PodReady \/ StartDownload \/ NextLevel
    BY <1>3 DEF Track, PodReady, StartDownload, NextLevel, Enter, Unreachable
  <1>4. CASE SetPolicy \/ SetPhaseStart
    BY <1>4 DEF SetPolicy, SetPhaseStart
  <1>5. CASE SetLastProgress
    <2>1. Quiet' = now
      BY <1>5 DEF SetLastProgress, Quiet, Latest, TypeOK
    <2>2. evalNow' <= now' /\ now' = now /\ lastAt' = now /\ policy' = policy
          /\ policy.stall \in Nat /\ now \in Nat /\ evalNow' \in Nat
      BY <1>5 DEF SetLastProgress, TypeOK
    <2> QED
      BY <2>1, <2>2
  <1>6. CASE LeaveRun
    BY <1>6 DEF LeaveRun, Leave
  <1>7. CASE Wake
    BY <1>0, <1>7 DEF Wake, EvaluationsAreTimely
  <1>8. CASE SampleAnswers
    BY <1>0, <1>8 DEF SampleAnswers, Seen
  <1>9. CASE SampleTimesOut
    <2>1. Quiet' = now
      BY <1>9 DEF SampleTimesOut, Quiet, Latest, TypeOK
    <2> QED
      BY <1>9, <2>1 DEF SampleTimesOut, Seen
  <1>10. CASE ReadTimes \/ ReadStall
    BY <1>0, <1>10 DEF ReadTimes, ReadStall
  <1>11. CASE Decide
    <2> SUFFICES ASSUME Watched' PROVE SilenceIsSeen'
      OBVIOUS
    <2>1. /\ aborted' = None /\ pcW = "decide" /\ pcW' = "wait" /\ evalNow' = now
          /\ Watched /\ Quiet' = Quiet
          /\ UNCHANGED <<now, lastAt, moved, last, policy>>
      BY <1>0, <1>11 DEF Decide, EvaluationsAreTimely
    <2>2. ~(evalNow >= readAt + readStall) /\ now <= evalNow + SampleMax
      BY <1>11, <2>1, AbortReasonType DEF Decide, EvaluationsAreTimely
    <2>3. now < Quiet + policy.stall + Poll + SampleMax
      <3>1. CASE now <= Quiet
        BY <3>1
      <3>2. CASE readAt <= Quiet + Poll /\ readStall = policy.stall
        BY <2>2, <3>2
      <3> QED
        BY <2>1, <3>1, <3>2
    <2> QED
      BY <2>1, <2>3
  <1>12. CASE UNCHANGED vars
    BY <1>0, <1>12 DEF vars
  <1> QED
    BY <1>1, <1>2, <1>3, <1>4, <1>5, <1>6, <1>7, <1>8, <1>9, <1>10, <1>11, <1>12
       DEF Next, MainStep, WatchdogStep, Done

\* README: the pod is killed when it stalls, for all budgets: a pod that shows nothing new to
\* a sampler that answers is stopped within its stall budget and two evaluations.
THEOREM SilentStopped == Spec => []SilentPodIsStopped
  <1>1. Init => SilenceIsSeen
    BY DEF Init, SilenceIsSeen, Watched, Unreachable
  <1>2. Inv /\ Inv' /\ SilenceIsSeen /\ [Next]_vars => SilenceIsSeen'
    BY StepSilence DEF Inv
  <1>3. Inv /\ SilenceIsSeen => SilentPodIsStopped
    BY Numbers, QuietType
       DEF Inv, SilenceIsSeen, Watched, Running, SilentPodIsStopped, EvaluationsAreTimely, Lag,
           Quiet
  <1> QED
    BY <1>1, <1>2, <1>3, Invariance, PTL DEF Spec

-----------------------------------------------------------------------------
(* Healthy pods are not.                                                     *)

Sampled == {"provisioning", "levels", "download"}

\* Before the pod is reachable there is no progress; later it is still to be credited, was credited to within a sampling, or a sample has timed
\* out since; what an evaluation works with is that of now, or of a phase() just done.
ProgressIsCredited ==
  /\ stage \in Unreachable => ~moved
  /\ aborted = None /\ pcM = "go" /\ stage \in Sampled =>
    /\ moved \/ lastAt + SampleMax >= silentSince \/ flapAt >= silentSince
    /\ pcW \in {"read", "stall", "decide"} /\ moved =>
         silentSince = now \/ flapAt >= silentSince
    /\ pcW \in {"stall", "decide"} => now = stageStart \/ readAt = lastAt
    /\ pcW = "decide" => now = stageStart \/ readStall = policy.stall

LEMMA StepHealthy ==
  ASSUME TypeOK, TypeOK', EvaluationsAreTimely, PhasesGovern, ProgressIsCredited,
         HealthyPodIsNotStalled, [Next]_vars
  PROVE  ProgressIsCredited' /\ HealthyPodIsNotStalled'
  <1> USE Numbers, QuietType, NoneAssumption
      DEF ProgressIsCredited, HealthyPodIsNotStalled, Sampled, Latest
  <1> USE DEF clockVars, mainVars, phaseVars, sampleVars, readVars, historyVars
  <1>1. CASE Tick
    BY <1>1 DEF Tick
  <1>2. CASE Progress
    BY <1>2 DEF Progress, TypeOK, Unreachable
  <1>3. CASE Track \/ PodReady \/ StartDownload \/ NextLevel
    BY <1>3 DEF Track, PodReady, StartDownload, NextLevel, Enter, Unreachable
  <1>4. CASE SetPolicy \/ SetPhaseStart
    BY <1>4 DEF SetPolicy, SetPhaseStart
  <1>5. CASE SetLastProgress
    BY <1>5 DEF SetLastProgress, PhasesGovern, TypeOK
  <1>6. CASE LeaveRun
    BY <1>6 DEF LeaveRun, Leave, Unreachable
  <1>7. CASE Wake
    BY <1>7 DEF Wake
  <1>8. CASE SampleAnswers
    <2>1. /\ aborted = None /\ pcW' = "read" /\ now <= evalNow + SampleMax
          /\ {now, evalNow, lastAt, silentSince, flapAt} \subseteq Nat /\ silentSince <= now
          /\ UNCHANGED <<now, evalNow, stage, stageStart, pcM, silentSince, flapAt, aborted>>
      BY <1>8 DEF SampleAnswers, EvaluationsAreTimely, TypeOK
    <2>2. CASE stage \in Unreachable
      <3>1. ~moved /\ ~moved'
        BY <1>8, <2>2 DEF SampleAnswers
      <3>2. lastAt' = lastAt \/ lastAt' = evalNow
        BY <1>8 DEF SampleAnswers, Seen
      <3> QED
        BY <2>1, <3>1, <3>2
    <2>3. CASE stage \notin Unreachable
      <3>1. ~moved'
        BY <1>8, <2>3 DEF SampleAnswers
      <3>2. Seen("token")
        BY <1>8, <2>3 DEF SampleAnswers
      <3>3. lastAt' = evalNow \/ (lastAt' = lastAt /\ ~moved)
        BY <3>2 DEF Seen
      <3> QED
        BY <2>1, <2>3, <3>1, <3>3
    <2> QED
      BY <2>2, <2>3
  <1>9. CASE SampleTimesOut
    BY <1>9 DEF SampleTimesOut, Seen, EvaluationsAreTimely
  <1>10. CASE ReadTimes \/ ReadStall
    BY <1>10 DEF ReadTimes, ReadStall
  <1>11. CASE Decide
    <2>1. /\ aborted = None /\ pcW = "decide" /\ pcW' = "wait"
          /\ UNCHANGED <<now, lastAt, moved, policy, stage, stageStart, pcM, silentSince,
                         flapAt>>
      BY <1>11 DEF Decide, EvaluationsAreTimely
    <2>2. aborted' = "stall" => evalNow >= readAt + readStall
      BY <1>11 DEF Decide, AbortReason
    <2> QED
      BY <2>1, <2>2
  <1>12. CASE UNCHANGED vars
    BY <1>12 DEF vars
  <1> QED
    BY <1>1, <1>2, <1>3, <1>4, <1>5, <1>6, <1>7, <1>8, <1>9, <1>10, <1>11, <1>12
       DEF Next, MainStep, WatchdogStep, Done

\* stall_for_devs: no team of any size is "false-aborted", for all budgets, with the
\* exceptions that the property names.
THEOREM HealthyKept == Spec => []HealthyPodIsNotStalled
  <1>1. Init => ProgressIsCredited /\ HealthyPodIsNotStalled
    BY NoneAssumption DEF Init, ProgressIsCredited, HealthyPodIsNotStalled, Sampled, Unreachable
  <1>2. Inv /\ Inv' /\ ProgressIsCredited /\ HealthyPodIsNotStalled /\ [Next]_vars
          => (ProgressIsCredited /\ HealthyPodIsNotStalled)'
    BY StepHealthy DEF Inv
  <1> QED
    BY <1>1, <1>2, Invariance, PTL DEF Spec
=============================================================================
