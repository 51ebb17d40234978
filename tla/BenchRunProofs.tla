---------------------------- MODULE BenchRunProofs ----------------------------
(* Proofs about BenchRun.tla, for every list of team sizes and any number of   *)
(* failing commands and dying tunnels: what is reported, what is left behind.  *)
EXTENDS BenchRun, DataLemmas

USE TeamsAssumption, LoopAssumption, BoundsAssumption

-----------------------------------------------------------------------------
(* The inductive invariant.                                                  *)

AtWork == {"before", "spawn", "wait", "kill", "remove", "close", "after"}
Ending == {"finally", "stop", "score", "clean"}
Scoring == {"stop", "score", "clean"}

\* Where the index of the level points, and what a run that comes to its end has behind it.
Progress ==
  /\ pc \in {"scan", "repair"} => iter < Iterations
  /\ pc \in AtWork => level \in Levels
  /\ pc = "probe" => level \notin Levels
  /\ pc \in Ending => exit = "error" \/ truncated \/ level \notin Levels
  /\ pc \in Scoring => exit # "error" /\ generated # <<>>
  /\ agents # {} => \/ pc \in {"wait", "kill", "done"}
                    \/ pc = "finally" /\ exit = "error"
  /\ pc = "wait" => waited <= Teams[level] /\ \A i \in 1 .. waited : i \notin agents
  /\ exit = "ok" => pc = "done" /\ report.levels = Len(Teams) /\ ~report.truncated

\* One tunnel at a time: the one that the finally clause would close.
OneTunnel ==
  /\ alive \subseteq {LiveTunnel}
  /\ pc \in {"launch", "poll", "scan", "repair"} => box = 0
  /\ pc \in AtWork \cup {"levels", "ensure", "probe"} => box # 0
  /\ pc \in Scoring \cup {"launch"} => alive = {}
  /\ pc = "done" /\ signal # "finally" => alive = {}

\* A measurement that is about to be made without a tunnel has its death already.
Losses ==
  /\ lost <= deaths
  /\ pc \in {"before", "after", "probe"} /\ alive = {} => lost < deaths

\* A container that runs is one the runner has still to wait for or to remove, or one that
\* is excused.
OneCrew ==
  \A c \in containers \ unremoved :
    \/ pc \in {"wait", "kill"} /\ \E i \in agents : c = <<"agent", level, i>>
    \/ pc = "remove" /\ \E i \in Crew : c = <<"agent", level, i>>
    \/ pc = "clean" /\ c = <<"gates", NextGates[1], NextGates[2]>>

\* The level that was at work at the abort is the one the runner is still at, or the last.
CutOff ==
  cutShort # {} =>
    /\ aborted /\ cutShort = {level}
    /\ pc \in {"wait", "kill", "remove", "done"} \cup Ending

\* The last tail is at hand until the abort is seen, and then on disk.
Evidence ==
  /\ tailSeen => tail
  /\ stalled => /\ tail => saved
                /\ pc \in {"finally", "done"} /\ exit = "error"

Inv ==
  /\ TypeOK /\ Progress /\ OneTunnel /\ OneCrew /\ CutOff /\ Evidence
  /\ Losses

-----------------------------------------------------------------------------
(* Types.                                                                    *)

LEMMA LevelType == Len(Teams) \in Nat \ {0} /\ \A l \in Levels : Teams[l] \in Nat \ {0}
  BY DEF Levels

\* There is a next agent as long as some are to be scored.
LEMMA NextGatesIsToScore ==
  ASSUME TypeOK, toScore # {}
  PROVE  NextGates \in toScore
  <1> DEFINE First == {g[1] : g \in toScore}
             least == Min(First)
             Second == {g[2] : g \in {h \in toScore : h[1] = least}}
             best == Min(Second)
  <1>1. \A g \in toScore : g = <<g[1], g[2]>> /\ g[1] \in Nat /\ g[2] \in Nat
    <2>1. toScore \subseteq Levels \X Nat
      BY DEF TypeOK
    <2>2. \A g \in Levels \X Nat : g = <<g[1], g[2]>> /\ g[1] \in Nat /\ g[2] \in Nat
      BY LevelType DEF Levels
    <2> QED
      BY <2>1, <2>2
  <1>2. least \in First /\ \A x \in First : least <= x
    <2>1. First \in SUBSET Nat /\ First # {}
      BY <1>1
    <2> HIDE DEF First
    <2> QED
      BY <2>1, MinIsLeast
  <1>3. best \in Second /\ \A x \in Second : best <= x
    <2>1. Second \in SUBSET Nat /\ Second # {}
      <3> HIDE DEF least
      <3> QED
        BY <1>1, <1>2
    <2> HIDE DEF Second
    <2> QED
      BY <2>1, MinIsLeast
  <1> HIDE DEF least, best
  <1>4. PICK g \in toScore : g[1] = least /\ g[2] = best
    BY <1>3
  <1>5. ASSUME NEW h \in toScore PROVE g[1] < h[1] \/ (g[1] = h[1] /\ g[2] <= h[2])
    <2>1. h[1] \in First /\ g[1] <= h[1]
      BY <1>2, <1>4
    <2>2. h[1] = least => g[2] <= h[2]
      BY <1>3, <1>4
    <2> QED
      BY <1>1, <1>4, <2>1, <2>2
  <1> QED
    BY <1>5, Zenon DEF NextGates

LEMMA InitType == Init => TypeOK
  <1> SUFFICES ASSUME Init PROVE TypeOK
    OBVIOUS
  <1>1. Flags
    BY Zenon DEF Init, Flags
  <1> QED
    BY <1>1 DEF Init, TypeOK, Steps, Levels

\* Each of the flags keeps its value, takes that of another flag, or is set by a test.
LEMMA StepFlags ==
  ASSUME Flags, [Next]_vars
  PROVE  Flags'
  <1> USE DEF startupVars, envVars, tunnelVars, agentVars, levelVars, resultVars, faultVars
  <1>1. /\ tail \in BOOLEAN /\ saved \in BOOLEAN /\ podUp \in BOOLEAN /\ aborted \in BOOLEAN
        /\ before \in BOOLEAN /\ truncated \in BOOLEAN /\ tailSeen \in BOOLEAN
        /\ stalled \in BOOLEAN
    BY DEF Flags
  <1> USE DEF Flags
  <1>2. CASE Startup
    <2>1. CASE FetchTail
      <3>1. tail' \in BOOLEAN
        BY <2>1, Zenon DEF FetchTail, KeepTail
      <3>2. tailSeen' \in BOOLEAN
        BY <1>1, <2>1, Zenon DEF FetchTail
      <3> QED
        BY <1>1, <2>1, <3>1, <3>2, Zenon DEF FetchTail
    <2>2. CASE Launch \/ LaunchFails \/ StartupAborted \/ Reachable \/ Unreachable \/ Backstop
               \/ ScanFindsFailure \/ RepairTunnel
      BY <1>1, <2>2, Zenon DEF Launch, LaunchFails, StartupAborted, Reachable, Unreachable,
           Backstop, ScanFindsFailure, RepairTunnel
    <2> QED
      BY <1>2, <2>1, <2>2 DEF Startup
  <1>3. CASE Sweep
    <2>1. CASE OpeningSnapshot
      <3>1. before' \in BOOLEAN
        BY <2>1, Zenon DEF OpeningSnapshot
      <3> QED
        BY <1>1, <2>1, <3>1, Zenon DEF OpeningSnapshot
    <2>2. CASE BetweenLevels \/ RemoveAgents \/ LevelEnds \/ ProbeSaturation
      <3>1. truncated' \in BOOLEAN
        BY <1>1, <2>2, Zenon DEF BetweenLevels, RemoveAgents, LevelEnds, ProbeSaturation, SeeAbort,
             MarkTruncated
      <3> QED
        BY <1>1, <2>2, <3>1, Zenon DEF BetweenLevels, RemoveAgents, LevelEnds, ProbeSaturation
    <2>3. CASE EnsureBefore \/ Spawn \/ ProcEnds \/ WaitTimesOut \/ KillSurvivors
               \/ EnsureAfter \/ ClosingSnapshot
      BY <1>1, <2>3, Zenon DEF EnsureBefore, Spawn, ProcEnds, WaitTimesOut, KillSurvivors,
           EnsureAfter, ClosingSnapshot
    <2> QED
      BY <1>3, <2>1, <2>2, <2>3 DEF Sweep
  <1>4. CASE Finish
    BY <1>1, <1>4, Zenon DEF Finish, CloseTunnel,
      StopPod, GatesFinish, GatesTimeOut, RemoveGates, WriteReport
  <1>5. CASE Environment
    BY <1>1, <1>5, Zenon DEF Environment, Signal, Abort, PodTerminated, ServerStarts, ServerFails,
         TunnelForwards, TunnelStalls, TunnelDies, AgentEnds
  <1>6. CASE Done \/ UNCHANGED vars
    BY <1>1, <1>6, Zenon DEF Done, vars
  <1> QED
    BY <1>2, <1>3, <1>4, <1>5, <1>6 DEF Next, Runner

\* docker rm -f takes containers away or leaves some and says so.
LEMMA RemoveType ==
  ASSUME TypeOK, NEW C, RemoveContainers(C)
  PROVE  /\ containers' \cup unremoved' \subseteq Kinds \X Levels \X Nat
         /\ faults' \in 0 .. MaxFaults
  BY DEF RemoveContainers, Fault, TypeOK

LEMMA StepType == TypeOK /\ Progress /\ [Next]_vars => TypeOK'
  <1> SUFFICES ASSUME TypeOK, Progress, [Next]_vars PROVE TypeOK'
    OBVIOUS
  <1>f. Flags'
    BY StepFlags DEF TypeOK
  <1>c. UNCHANGED level => UNCHANGED Crew
    BY DEF Crew
  <1> USE <1>f, <1>c
       DEF startupVars, envVars, tunnelVars, agentVars, levelVars, resultVars, faultVars,
           TypeOK, Steps, Raise
  <1>1. CASE Startup
    <2>1. CASE Launch
      <3>1. /\ opened' = opened + 1 /\ alive' = alive \cup {opened + 1}
            /\ deaf' = deaf \cup {opened + 1} /\ tunnel' = opened + 1
        BY <2>1 DEF Launch, OpenTunnel
      <3> QED
        BY <2>1, <3>1 DEF Launch
    <2>2. CASE LaunchFails
      BY <2>2 DEF LaunchFails
    <2>5. CASE StartupAborted
      BY <2>5 DEF StartupAborted
    <2>6. CASE Reachable
      BY <2>6 DEF Reachable
    <2>7. CASE Unreachable
      BY <2>7 DEF Unreachable
    <2>8. CASE Backstop \/ ScanFindsFailure
      BY <2>8 DEF Backstop, ScanFindsFailure
    <2>3. CASE FetchTail
      <3>1. faults' \in 0 .. MaxFaults
        <4>1. UNCHANGED faults \/ Fault
          BY <2>3, Zenon DEF FetchTail
        <4> QED
          BY <4>1 DEF Fault
      <3>2. /\ pc' = "repair"
            /\ UNCHANGED <<iter, vllm, cutShort, tunnelVars, agentVars, levelVars, resultVars,
                           unremoved, signal, deaths>>
        BY <2>3 DEF FetchTail
      <3> QED
        BY <3>1, <3>2
    <2>4. CASE RepairTunnel
      <3>1. tunnel' \in 0 .. opened' /\ box' \in 0 .. opened' /\ alive' \subseteq 1 .. opened'
            /\ opened' \in Nat /\ deaf' \subseteq alive'
        <4>1. CASE UNCHANGED <<tunnel, opened, alive, deaf>>
          BY <2>4, <4>1 DEF RepairTunnel
        <4>2. CASE OpenTunnel /\ tunnel' = opened'
          <5>1. /\ opened' = opened + 1 /\ alive' = alive \cup {opened + 1} /\ UNCHANGED box
                /\ deaf' = deaf \cup {opened + 1}
            BY <2>4, <4>2 DEF RepairTunnel, OpenTunnel
          <5> QED
            BY <4>2, <5>1
        <4> QED
          BY <2>4, <4>1, <4>2 DEF RepairTunnel
      <3>2. iter' \in 0 .. Iterations
        BY <2>4 DEF RepairTunnel, Progress
      <3>3. /\ pc' = "poll"
            /\ UNCHANGED <<vllm, cutShort, deaths, agentVars, levelVars, resultVars, faultVars>>
        BY <2>4 DEF RepairTunnel
      <3> QED
        BY <3>1, <3>2, <3>3
    <2> QED
      BY <1>1, <2>1, <2>2, <2>3, <2>4, <2>5, <2>6, <2>7, <2>8 DEF Startup
  <1>2. CASE Sweep
    <2>1. CASE BetweenLevels \/ LevelEnds \/ ProbeSaturation \/ EnsureBefore \/ EnsureAfter
      <3>1. /\ pc' \in {"finally", "ensure", "close", "before", "probe", "after"}
            /\ UNCHANGED <<iter, vllm, cutShort, tunnel, deaths, agentVars, level, waited,
                           generated, toScore, timedOut, report, exit, faultVars>>
            /\ lost' \in {lost, lost + 1}
        BY <2>1 DEF Measure, BetweenLevels, LevelEnds, ProbeSaturation, EnsureBefore, EnsureAfter, SeeAbort
      <3>2. tunnel' \in 0 .. opened' /\ box' \in 0 .. opened' /\ alive' \subseteq 1 .. opened'
            /\ opened' \in Nat /\ deaf' \subseteq alive'
        <4>1. CASE EnsureTunnel
          <5>1. CASE UNCHANGED <<box, opened, alive, deaf>>
            BY <3>1, <5>1
          <5>2. CASE OpenTunnel /\ box' = opened'
            <6>1. /\ opened' = opened + 1 /\ alive' = alive \cup {opened + 1} /\ box' = opened + 1
                  /\ deaf' = deaf \cup {opened + 1}
              BY <5>2 DEF OpenTunnel
            <6> QED
              BY <3>1, <6>1
          <5> QED
            BY <4>1, <5>1, <5>2 DEF EnsureTunnel
        <4>2. CASE UNCHANGED tunnelVars
          BY <4>2
        <4> QED
          BY <2>1, <4>1, <4>2 DEF BetweenLevels, LevelEnds, ProbeSaturation,
            EnsureBefore, EnsureAfter
      <3> QED
        BY <3>1, <3>2
    <2>2. CASE OpeningSnapshot
      BY <2>2 DEF OpeningSnapshot, Measure
    <2>3. CASE ProcEnds \/ WaitTimesOut
      <3>1. /\ pc' \in {"wait", "kill"} /\ waited' \in Nat
            /\ UNCHANGED <<startupVars, envVars, tunnelVars, agentVars, level, generated, before,
                           lost, resultVars, faultVars>>
        BY <2>3 DEF ProcEnds, WaitTimesOut
      <3> QED
        BY <3>1
    <2>4. CASE Spawn
      BY <2>4, LevelType DEF Spawn, Crew, Kinds, Levels, Progress, AtWork
    <2>5. CASE KillSurvivors
      BY <2>5 DEF KillSurvivors
    <2>6. CASE RemoveAgents
      <3>1. /\ containers' \cup unremoved' \subseteq Kinds \X Levels \X Nat
            /\ faults' \in 0 .. MaxFaults
        BY <2>6, RemoveType DEF RemoveAgents
      <3> QED
        BY <2>6, <3>1 DEF RemoveAgents, SeeAbort
    <2>7. CASE ClosingSnapshot
      <3>1. level \in Levels
        BY <2>7 DEF ClosingSnapshot, Progress, AtWork
      <3>2. PICK last \in Snapshots : generated' = Append(generated, last)
        <4>1. PICK after \in BOOLEAN :
                generated' = Append(generated, [before |-> before, after |-> after])
          BY <2>7, Zenon DEF ClosingSnapshot
        <4>2. before \in BOOLEAN
          BY Zenon DEF Flags
        <4> QED
          BY <4>1, <4>2, Zenon DEF Snapshots
      <3>3. generated' \in Seq(Snapshots) /\ Len(generated') = level
        BY <3>2
      <3>4. level' \in 1 .. Len(Teams) + 1 /\ level' - 1 = level
        BY <2>7, <3>1, LevelType DEF ClosingSnapshot, Levels
      <3>5. agents = {}
        BY <2>7 DEF ClosingSnapshot, Progress
      <3> QED
        BY <2>7, <3>3, <3>4, <3>5 DEF ClosingSnapshot, Measure
    <2> QED
      BY <1>2, <2>1, <2>2, <2>3, <2>4, <2>5, <2>6, <2>7 DEF Sweep
  <1>3. CASE Finish
    <2>1. CASE CloseTunnel
      BY <2>1 DEF CloseTunnel
    <2>2. CASE StopPod
      <3>1. /\ toScore' \subseteq {g \in Levels \X Nat : g[2] \in 1 .. Teams[g[1]]}
            /\ pc' = "score"
            /\ UNCHANGED <<startupVars, vllm, cutShort, tunnelVars, agentVars, levelVars,
                           timedOut, report, exit, faultVars>>
        BY <2>2, LevelType DEF StopPod, Levels
      <3> QED
        BY <3>1
    <2>3. CASE GatesFinish
      BY <2>3 DEF GatesFinish
    <2>4. CASE GatesTimeOut
      BY <2>4, NextGatesIsToScore DEF GatesTimeOut, Fault, Kinds
    <2>5. CASE RemoveGates
      BY <2>5, RemoveType DEF RemoveGates
    <2>6. CASE WriteReport
      <3>1. /\ Len(generated) \in Levels
            /\ report' = [levels |-> Len(generated), truncated |-> truncated]
        BY <2>6, LevelType DEF WriteReport, Progress, Scoring, Levels
      <3>2. truncated \in BOOLEAN
        BY DEF Flags
      <3>3. report' \in Reports
        BY <3>1, <3>2, Zenon DEF Reports
      <3> QED
        BY <2>6, <3>3 DEF WriteReport
    <2> QED
      BY <1>3, <2>1, <2>2, <2>3, <2>4, <2>5, <2>6 DEF Finish
  <1>4. CASE Environment
    <2>1. CASE Signal
      BY <2>1 DEF Signal
    <2>2. CASE Abort \/ PodTerminated \/ ServerStarts \/ ServerFails
      <3>1. /\ cutShort' \in {cutShort, {}, {level}}
            /\ cutShort' = {level} => agents # {} \/ cutShort' = cutShort
            /\ vllm' \in {vllm, "serving", "failed"}
            /\ UNCHANGED <<pc, startupVars, tunnelVars, agentVars,
                           levelVars, resultVars, faultVars>>
        BY <2>2 DEF Abort, PodTerminated, ServerStarts, ServerFails
      <3> QED
        BY <3>1
    <2>3. CASE TunnelForwards \/ TunnelStalls \/ TunnelDies
      <3>1. /\ alive' \subseteq alive /\ deaf' \subseteq alive' /\ deaths' \in 0 .. MaxDeaths
            /\ UNCHANGED <<pc, startupVars, envVars, tunnel, box, opened, agentVars, levelVars,
                           resultVars, faultVars>>
        <4>1. CASE TunnelForwards
          BY <4>1 DEF TunnelForwards
        <4>2. CASE TunnelStalls
          BY <4>2 DEF TunnelStalls
        <4>3. CASE TunnelDies
          BY <4>3 DEF TunnelDies
        <4> QED
          BY <2>3, <4>1, <4>2, <4>3
      <3> QED
        BY <3>1
    <2>4. CASE AgentEnds
      BY <2>4 DEF AgentEnds
    <2> QED
      BY <1>4, <2>1, <2>2, <2>3, <2>4 DEF Environment
  <1>5. CASE Done \/ UNCHANGED vars
    <2>1. UNCHANGED vars
      BY <1>5 DEF Done
    <2> QED
      BY <2>1 DEF vars
  <1> QED
    BY <1>1, <1>2, <1>3, <1>4, <1>5 DEF Next, Runner

-----------------------------------------------------------------------------
(* Progress.                                                                 *)

LEMMA StepProgress == TypeOK /\ Progress /\ [Next]_vars => Progress'
  <1> SUFFICES ASSUME TypeOK, Progress, [Next]_vars PROVE Progress'
    OBVIOUS
  <1>t. TypeOK'
    BY StepType
  <1> USE DEF startupVars, envVars, tunnelVars, agentVars, levelVars, resultVars, faultVars,
        Progress, AtWork, Ending, Scoring
  <1>1. CASE Startup
    <2>1. pc \in {"launch", "poll", "scan", "repair"} /\ agents = {}
      BY <1>1 DEF Startup, Launch, LaunchFails, StartupAborted, Reachable, Unreachable, Backstop,
           ScanFindsFailure, FetchTail, RepairTunnel
    <2>2. /\ \/ pc' \in {"poll", "levels"} /\ UNCHANGED exit
             \/ pc' \in {"scan", "repair"} /\ UNCHANGED exit /\ iter' < Iterations
             \/ pc' = "finally" /\ exit' = "error"
          /\ UNCHANGED <<level, agents, waited, generated, truncated, report>>
      BY <1>1 DEF Startup, Launch, LaunchFails, StartupAborted, Reachable, Unreachable, Backstop,
           ScanFindsFailure, FetchTail, RepairTunnel, Raise
    <2> QED
      BY <2>1, <2>2
  <1>2. CASE Sweep
    <2>1. UNCHANGED <<exit, report>> /\ exit # "ok"
      BY <1>2 DEF Sweep, BetweenLevels, EnsureBefore, OpeningSnapshot, Spawn, ProcEnds,
           WaitTimesOut, KillSurvivors, RemoveAgents, LevelEnds, EnsureAfter, ClosingSnapshot,
           ProbeSaturation
    <2>e. LevelEnds => agents = {}
      BY LevelType DEF LevelEnds, TypeOK, Crew
    <2>2. CASE SeeAbort /\ (BetweenLevels \/ RemoveAgents \/ LevelEnds \/ ProbeSaturation)
      <3>1. UNCHANGED <<level, generated, agents>>
        BY <2>2 DEF BetweenLevels, RemoveAgents, LevelEnds, ProbeSaturation
      <3>2. agents = {}
        BY <2>2, <2>e DEF BetweenLevels, RemoveAgents, ProbeSaturation
      <3> QED
        BY <2>1, <2>2, <3>1, <3>2, Zenon DEF SeeAbort, MarkTruncated
    <2>3. CASE BetweenLevels /\ ~SeeAbort
      BY <2>1, <2>3 DEF BetweenLevels
    <2>4. CASE EnsureBefore
      BY <2>1, <2>4 DEF EnsureBefore
    <2>5. CASE OpeningSnapshot
      BY <2>1, <2>5 DEF OpeningSnapshot
    <2>6. CASE Spawn
      BY <2>1, <2>6, LevelType DEF Spawn
    <2>7. CASE ProcEnds
      BY <2>1, <2>7, LevelType DEF ProcEnds, TypeOK
    <2>8. CASE WaitTimesOut
      BY <2>1, <2>8 DEF WaitTimesOut
    <2>9. CASE KillSurvivors
      BY <2>1, <2>9 DEF KillSurvivors
    <2>10. CASE LevelEnds /\ ~SeeAbort
      <3>1. agents = {}
        BY <2>10, <2>e
      <3> QED
        BY <2>1, <2>10, <3>1 DEF LevelEnds
    <2>11. CASE EnsureAfter
      BY <2>1, <2>11 DEF EnsureAfter
    <2>12. CASE ClosingSnapshot
      BY <2>1, <2>12 DEF ClosingSnapshot
    <2>13. CASE ProbeSaturation /\ ~SeeAbort
      BY <2>1, <2>13 DEF ProbeSaturation
    <2> QED
      BY <1>2, <2>2, <2>3, <2>4, <2>5, <2>6, <2>7, <2>8, <2>9, <2>10, <2>11, <2>12, <2>13
         DEF Sweep, BetweenLevels, RemoveAgents, LevelEnds, ProbeSaturation
  <1>3. CASE Finish
    <2>1. CASE CloseTunnel
      <3>1. CASE pc' = "done" /\ exit' = "error"
        BY <2>1, <3>1 DEF CloseTunnel
      <3>2. CASE pc' = "stop" /\ UNCHANGED exit
        <4>1. exit # "error" /\ generated # <<>>
          <5>1. exit # "error" /\ ~(truncated /\ generated = <<>>)
            BY <2>1, <3>2 DEF CloseTunnel
          <5>2. CASE ~truncated
            <6>1. level \notin Levels
              BY <2>1, <5>1, <5>2 DEF CloseTunnel
            <6> QED
              BY <5>1, <6>1, LevelType DEF TypeOK, Levels
          <5> QED
            BY <5>1, <5>2
        <4>2. agents = {}
          BY <2>1, <4>1 DEF CloseTunnel
        <4> QED
          BY <2>1, <3>2, <4>1, <4>2 DEF CloseTunnel
      <3> QED
        BY <2>1, <3>1, <3>2 DEF CloseTunnel
    <2>2. CASE StopPod \/ GatesFinish \/ GatesTimeOut \/ RemoveGates
      <3>1. /\ pc \in Scoring /\ pc' \in Scoring
            /\ UNCHANGED <<level, agents, generated, truncated, report, exit>>
        BY <2>2 DEF StopPod, GatesFinish, GatesTimeOut, RemoveGates
      <3> QED
        BY <3>1
    <2>3. CASE WriteReport
      <3>1. pc = "score" /\ pc' = "done" /\ UNCHANGED <<level, agents, truncated>>
        BY <2>3 DEF WriteReport
      <3>2. exit' = "ok" => ~truncated /\ exit # "error"
        BY <2>3, Zenon DEF WriteReport, Progress, Scoring
      <3>3. ~truncated /\ exit # "error" => Len(generated) = Len(Teams)
        <4>1. ~truncated /\ exit # "error" => level \notin Levels
          BY <3>1
        <4> QED
          BY <4>1, LevelType DEF TypeOK, Levels
      <3>4. report'.levels = Len(generated) /\ report'.truncated = truncated
        BY <2>3 DEF WriteReport
      <3>5. agents' = {}
        BY <3>1
      <3> QED
        BY <3>1, <3>2, <3>3, <3>4, <3>5
    <2> QED
      BY <1>3, <2>1, <2>2, <2>3 DEF Finish
  <1>4. CASE Environment
    <2>1. CASE Signal
      BY <2>1 DEF Signal
    <2>2. CASE \/ Abort \/ PodTerminated \/ ServerStarts \/ ServerFails \/ TunnelForwards
               \/ TunnelStalls \/ TunnelDies \/ AgentEnds
      <3>1. /\ agents' \subseteq agents
            /\ UNCHANGED <<pc, iter, level, waited, generated, truncated, report, exit>>
        BY <2>2 DEF Abort, PodTerminated, ServerStarts, ServerFails, TunnelForwards, TunnelStalls,
             TunnelDies, AgentEnds
      <3> QED
        BY <3>1
    <2> QED
      BY <1>4, <2>1, <2>2 DEF Environment
  <1>5. CASE Done \/ UNCHANGED vars
    BY <1>5 DEF Done, vars
  <1> QED
    BY <1>1, <1>2, <1>3, <1>4, <1>5 DEF Next, Runner

-----------------------------------------------------------------------------
(* Tunnels, containers, levels, evidence.                                    *)

LEMMA StepTunnel == TypeOK /\ Progress /\ OneTunnel /\ [Next]_vars => OneTunnel'
  <1> SUFFICES ASSUME TypeOK, Progress, OneTunnel, [Next]_vars PROVE OneTunnel'
    OBVIOUS
  <1>t. opened \in Nat /\ alive \subseteq 1 .. opened
    BY DEF TypeOK
  <1> USE DEF startupVars, envVars, tunnelVars, agentVars, levelVars, resultVars, faultVars,
        OneTunnel, AtWork, Scoring
  <1>1. CASE Launch
    <2>1. opened' = opened + 1 /\ alive' = {opened + 1} /\ tunnel' = opened + 1 /\ box' = 0
      BY <1>1 DEF Launch, OpenTunnel
    <2> QED
      BY <1>1, <2>1 DEF Launch, LiveTunnel
  <1>2. CASE Startup /\ ~Launch
    <2>1. CASE Reachable
      <3>1. alive # {} /\ box' = tunnel /\ alive' = alive /\ pc' = "levels" /\ box = 0
            /\ UNCHANGED tunnel
        BY <2>1 DEF Reachable, Curl, Answers
      <3>2. tunnel # 0
        <4>1. PICK k \in alive : k = tunnel
          BY <3>1 DEF LiveTunnel
        <4> QED
          BY <1>t, <4>1
      <3> QED
        BY <3>1, <3>2 DEF LiveTunnel
    <2>2. CASE RepairTunnel
      <3>1. CASE tunnel \in alive
        BY <2>2, <3>1 DEF RepairTunnel, LiveTunnel
      <3>2. CASE tunnel \notin alive
        <4>1. alive = {} /\ box = 0
          BY <2>2, <3>2 DEF RepairTunnel, LiveTunnel
        <4>2. alive' = {opened + 1} /\ tunnel' = opened + 1 /\ box' = 0 /\ pc' = "poll"
          BY <2>2, <3>2, <4>1 DEF RepairTunnel, OpenTunnel
        <4> QED
          BY <4>2 DEF LiveTunnel
      <3> QED
        BY <3>1, <3>2
    <2>3. CASE LaunchFails \/ StartupAborted \/ Unreachable \/ Backstop \/ ScanFindsFailure
               \/ FetchTail
      <3>1. /\ UNCHANGED <<tunnel, box, alive>> /\ pc' \in {"finally", "scan", "repair"}
            /\ pc \in {"launch", "poll", "scan"}
        BY <2>3 DEF LaunchFails, StartupAborted, Unreachable, Backstop, ScanFindsFailure,
             FetchTail, Raise
      <3> QED
        BY <3>1 DEF LiveTunnel
    <2> QED
      BY <1>2, <2>1, <2>2, <2>3 DEF Startup
  <1>3. CASE EnsureBefore \/ EnsureAfter
    <2>1. /\ EnsureTunnel /\ UNCHANGED tunnel /\ box # 0
          /\ pc' \in {"before", "probe", "after"}
      BY <1>3 DEF EnsureBefore, EnsureAfter
    <2>2. box' # 0 /\ alive' = {box'}
      <3>1. CASE box \in alive
        BY <2>1, <3>1 DEF EnsureTunnel, LiveTunnel
      <3>2. CASE box \notin alive
        <4>1. alive = {}
          BY <2>1, <3>2 DEF LiveTunnel
        <4>2. alive' = {opened + 1} /\ box' = opened + 1
          BY <2>1, <3>2, <4>1 DEF EnsureTunnel, OpenTunnel
        <4> QED
          BY <1>t, <4>2
      <3> QED
        BY <3>1, <3>2
    <2> QED
      BY <2>1, <2>2 DEF LiveTunnel
  <1>4. CASE Sweep /\ ~EnsureBefore /\ ~EnsureAfter
    <2>1. /\ UNCHANGED <<tunnel, box, alive>> /\ pc \in AtWork \cup {"levels", "probe"}
          /\ pc' \in (AtWork \ {"after"}) \cup {"levels", "ensure", "finally"}
      BY <1>4 DEF Sweep, BetweenLevels, OpeningSnapshot, Spawn, ProcEnds, WaitTimesOut,
           KillSurvivors, RemoveAgents, LevelEnds, ClosingSnapshot, ProbeSaturation, SeeAbort
    <2> QED
      BY <2>1 DEF LiveTunnel
  <1>5. CASE CloseTunnel
    BY <1>5 DEF CloseTunnel, LiveTunnel
  <1>6. CASE Finish /\ ~CloseTunnel
    <2>1. /\ UNCHANGED <<tunnel, box, alive>> /\ pc \in Scoring /\ pc' \in Scoring \cup {"done"}
      BY <1>6 DEF Finish, StopPod, GatesFinish, GatesTimeOut, RemoveGates, WriteReport
    <2> QED
      BY <2>1 DEF LiveTunnel
  <1>7. CASE Signal
    BY <1>7 DEF Signal, LiveTunnel
  <1>8. CASE TunnelDies
    <2>1. /\ alive' \subseteq alive /\ UNCHANGED <<pc, tunnel, box, signal>>
      BY <1>8 DEF TunnelDies
    <2> QED
      BY <2>1 DEF LiveTunnel
  <1>9. CASE \/ Abort \/ PodTerminated \/ ServerStarts \/ ServerFails \/ TunnelForwards
             \/ TunnelStalls \/ AgentEnds \/ Done \/ UNCHANGED vars
    <2>1. UNCHANGED <<pc, tunnel, box, alive, signal>>
      BY <1>9 DEF Abort, PodTerminated, ServerStarts, ServerFails, TunnelForwards, TunnelStalls,
           AgentEnds, Done, vars
    <2> QED
      BY <2>1 DEF LiveTunnel
  <1> QED
    BY <1>1, <1>2, <1>3, <1>4, <1>5, <1>6, <1>7, <1>8, <1>9
       DEF Next, Runner, Environment

LEMMA StepCrew == TypeOK /\ Progress /\ OneCrew /\ [Next]_vars => OneCrew'
  <1> SUFFICES ASSUME TypeOK, Progress, OneCrew, [Next]_vars PROVE OneCrew'
    OBVIOUS
  <1> USE DEF startupVars, envVars, tunnelVars, agentVars, levelVars, resultVars, faultVars,
        OneCrew
  <1>1. CASE Spawn
    <2>1. /\ containers \subseteq unremoved /\ unremoved' = unremoved /\ pc' = "wait"
          /\ agents' = Crew /\ level' = level
          /\ containers' = containers \cup {<<"agent", level, i>> : i \in Crew}
      BY <1>1 DEF Spawn
    <2> QED
      BY <2>1
  <1>2. CASE KillSurvivors
    <2>1. /\ containers' \subseteq containers /\ UNCHANGED <<unremoved, level>>
          /\ pc = "kill" /\ pc' = "remove" /\ agents \subseteq Crew /\ Crew' = Crew
      BY <1>2 DEF KillSurvivors, TypeOK, Crew
    <2> QED
      BY <2>1
  <1>3. CASE RemoveAgents
    <2> DEFINE C == {<<"agent", level, i>> : i \in Crew}
    <2>1. containers \ unremoved \subseteq C
      BY <1>3 DEF RemoveAgents
    <2>2. RemoveContainers(C)
      BY <1>3 DEF RemoveAgents
    <2> HIDE DEF C
    <2>3. containers' \subseteq unremoved'
      BY <2>1, <2>2 DEF RemoveContainers
    <2> QED
      BY <2>3
  <1>4. CASE LevelEnds
    <2>1. agents = {} /\ pc = "wait" /\ UNCHANGED <<containers, unremoved>>
      BY <1>4, LevelType DEF LevelEnds, Progress, AtWork, TypeOK, Crew
    <2> QED
      BY <2>1
  <1>5. CASE GatesTimeOut
    <2>1. /\ containers \subseteq unremoved /\ UNCHANGED <<unremoved, toScore>> /\ pc' = "clean"
          /\ containers' = containers \cup {<<"gates", NextGates[1], NextGates[2]>>}
      BY <1>5 DEF GatesTimeOut
    <2>2. NextGates' = NextGates
      BY <2>1 DEF NextGates
    <2> QED
      BY <2>1, <2>2
  <1>6. CASE RemoveGates
    <2> DEFINE C == {<<"gates", NextGates[1], NextGates[2]>>}
    <2>1. containers \ unremoved \subseteq C
      BY <1>6 DEF RemoveGates
    <2>2. RemoveContainers(C)
      BY <1>6 DEF RemoveGates
    <2> HIDE DEF C
    <2>3. containers' \subseteq unremoved'
      BY <2>1, <2>2 DEF RemoveContainers
    <2> QED
      BY <2>3
  <1>7. CASE Signal
    <2>1. containers' \subseteq unremoved'
      BY <1>7 DEF Signal
    <2> QED
      BY <2>1
  <1>8. CASE AgentEnds
    <2>1. PICK j \in agents : /\ agents' = agents \ {j}
                              /\ containers' = containers \ {<<"agent", level, j>>}
      BY <1>8 DEF AgentEnds
    <2>2. UNCHANGED <<pc, level, unremoved, toScore>>
      BY <1>8 DEF AgentEnds
    <2>3. NextGates' = NextGates /\ Crew' = Crew
      BY <2>2 DEF NextGates, Crew
    <2> QED
      BY <2>1, <2>2, <2>3
  <1>9. CASE ProcEnds \/ WaitTimesOut
    <2>1. /\ UNCHANGED <<agents, level, containers, unremoved>> /\ pc = "wait"
          /\ pc' \in {"wait", "kill"}
      BY <1>9 DEF ProcEnds, WaitTimesOut
    <2> QED
      BY <2>1
  <1>10. CASE \/ Startup \/ BetweenLevels \/ EnsureBefore \/ OpeningSnapshot \/ EnsureAfter
              \/ ClosingSnapshot \/ ProbeSaturation \/ CloseTunnel \/ StopPod \/ GatesFinish
              \/ WriteReport
    <2>1. pc \notin {"wait", "kill", "remove", "clean"} /\ UNCHANGED <<containers, unremoved>>
      BY <1>10 DEF Startup, Launch, LaunchFails, StartupAborted, Reachable, Unreachable, Backstop,
           ScanFindsFailure, FetchTail, RepairTunnel, BetweenLevels, EnsureBefore,
           OpeningSnapshot, EnsureAfter, ClosingSnapshot, ProbeSaturation, CloseTunnel, StopPod,
           GatesFinish, WriteReport
    <2> QED
      BY <2>1
  <1>11. CASE \/ Abort \/ PodTerminated \/ ServerStarts \/ ServerFails \/ TunnelForwards
              \/ TunnelStalls \/ TunnelDies \/ Done \/ UNCHANGED vars
    <2>1. UNCHANGED <<pc, agents, level, containers, unremoved, toScore>>
      BY <1>11 DEF Abort, PodTerminated, ServerStarts, ServerFails, TunnelForwards, TunnelStalls,
           TunnelDies, Done, vars
    <2>2. NextGates' = NextGates /\ Crew' = Crew
      BY <2>1 DEF NextGates, Crew
    <2> QED
      BY <2>1, <2>2
  <1> QED
    BY <1>1, <1>2, <1>3, <1>4, <1>5, <1>6, <1>7, <1>8, <1>9, <1>10, <1>11
       DEF Next, Runner, Sweep, Finish, Environment

LEMMA StepCutOff == TypeOK /\ Progress /\ CutOff /\ [Next]_vars => CutOff'
  <1> SUFFICES ASSUME TypeOK, Progress, CutOff, [Next]_vars PROVE CutOff'
    OBVIOUS
  <1> USE DEF startupVars, envVars, tunnelVars, agentVars, levelVars, resultVars, faultVars,
        CutOff, Ending
  <1>1. CASE Abort
    BY <1>1, Zenon DEF Abort, Progress
  <1>2. CASE Startup \/ BetweenLevels \/ EnsureBefore \/ OpeningSnapshot \/ Spawn \/ EnsureAfter
             \/ ClosingSnapshot \/ ProbeSaturation
    <2>1. cutShort' = cutShort /\ pc \notin {"wait", "kill", "remove", "done"} \cup Ending
      BY <1>2 DEF Startup, Launch, LaunchFails, StartupAborted, Reachable, Unreachable, Backstop,
           ScanFindsFailure, FetchTail, RepairTunnel, BetweenLevels, EnsureBefore,
           OpeningSnapshot, Spawn, EnsureAfter, ClosingSnapshot, ProbeSaturation
    <2> QED
      BY <2>1
  <1>3. CASE LevelEnds
    <2>1. UNCHANGED <<cutShort, aborted, level>> /\ (aborted => pc' = "finally")
      BY <1>3 DEF LevelEnds, SeeAbort
    <2> QED
      BY <2>1
  <1>4. CASE ProcEnds \/ WaitTimesOut \/ KillSurvivors \/ RemoveAgents \/ Finish \/ Signal
    <2>1. UNCHANGED <<cutShort, aborted, level>>
      BY <1>4 DEF ProcEnds, WaitTimesOut, KillSurvivors, RemoveAgents, Finish, CloseTunnel, StopPod,
           GatesFinish, GatesTimeOut, RemoveGates, WriteReport, Signal
    <2>2. pc' \in {"wait", "kill", "remove", "done"} \cup Ending
      BY <1>4 DEF ProcEnds, WaitTimesOut, KillSurvivors, RemoveAgents, Finish, CloseTunnel, StopPod,
           GatesFinish, GatesTimeOut, RemoveGates, WriteReport, Signal, SeeAbort
    <2> QED
      BY <2>1, <2>2
  <1>5. CASE \/ PodTerminated \/ ServerStarts \/ ServerFails \/ TunnelForwards \/ TunnelStalls
             \/ TunnelDies \/ AgentEnds \/ Done \/ UNCHANGED vars
    <2>1. UNCHANGED <<pc, cutShort, aborted, level>>
      BY <1>5 DEF PodTerminated, ServerStarts, ServerFails, TunnelForwards, TunnelStalls,
           TunnelDies, AgentEnds, Done, vars
    <2> QED
      BY <2>1
  <1> QED
    BY <1>1, <1>2, <1>3, <1>4, <1>5 DEF Next, Runner, Sweep, Environment

LEMMA StepEvidence == TypeOK /\ Evidence /\ [Next]_vars => Evidence'
  <1> SUFFICES ASSUME TypeOK, Evidence, [Next]_vars PROVE Evidence'
    OBVIOUS
  <1> USE DEF startupVars, envVars, tunnelVars, agentVars, levelVars, resultVars, faultVars,
        Evidence
  <1>1. CASE StartupAborted
    BY <1>1, Zenon DEF StartupAborted, Raise
  <1>2. CASE FetchTail
    <2>1. ~stalled /\ stalled' = stalled
      BY <1>2 DEF FetchTail
    <2>2. tailSeen' => tail'
      BY <1>2, Zenon DEF FetchTail, KeepTail
    <2> QED
      BY <2>1, <2>2
  <1>3. CASE Next /\ ~StartupAborted /\ ~FetchTail
    <2>1. UNCHANGED <<tail, saved, tailSeen, stalled>>
      BY <1>3 DEF Next, Runner, Startup, Launch, LaunchFails, Reachable, Unreachable, Backstop,
           ScanFindsFailure, RepairTunnel, Sweep, BetweenLevels, EnsureBefore, OpeningSnapshot,
           Spawn, ProcEnds, WaitTimesOut, KillSurvivors, RemoveAgents, LevelEnds, EnsureAfter,
           ClosingSnapshot, ProbeSaturation, Finish, CloseTunnel, StopPod, GatesFinish,
           GatesTimeOut, RemoveGates, WriteReport, Environment, Signal, Abort, PodTerminated,
           ServerStarts, ServerFails, TunnelForwards, TunnelStalls, TunnelDies, AgentEnds, Done,
           vars
    <2>2. ASSUME pc \in {"finally", "done"}, exit = "error"
          PROVE  pc' \in {"finally", "done"} /\ exit' = "error"
      BY <1>3, <2>2 DEF Next, Runner, Startup, Launch, LaunchFails, Reachable, Unreachable,
           Backstop, ScanFindsFailure, RepairTunnel, Sweep, BetweenLevels, EnsureBefore,
           OpeningSnapshot, Spawn, ProcEnds, WaitTimesOut, KillSurvivors, RemoveAgents, LevelEnds,
           EnsureAfter, ClosingSnapshot, ProbeSaturation, Finish, CloseTunnel, StopPod,
           GatesFinish, GatesTimeOut, RemoveGates, WriteReport, Environment, Signal, Abort,
           PodTerminated, ServerStarts, ServerFails, TunnelForwards, TunnelStalls, TunnelDies,
           AgentEnds, Done, vars
    <2> QED
      BY <2>1, <2>2
  <1>4. CASE UNCHANGED vars
    BY <1>4 DEF vars
  <1> QED
    BY <1>1, <1>2, <1>3, <1>4

LEMMA StepLosses == TypeOK /\ Progress /\ OneTunnel /\ Losses /\ [Next]_vars => Losses'
  <1> SUFFICES ASSUME TypeOK, Progress, OneTunnel, Losses, [Next]_vars PROVE Losses'
    OBVIOUS
  <1>t. lost \in Nat /\ deaths \in Nat
    BY DEF TypeOK
  <1> USE DEF startupVars, envVars, tunnelVars, agentVars, levelVars, resultVars, faultVars,
        Losses
  <1>1. CASE EnsureBefore \/ EnsureAfter
    <2>1. /\ EnsureTunnel /\ UNCHANGED <<lost, deaths>>
      BY <1>1 DEF EnsureBefore, EnsureAfter
    <2>2. alive' # {}
      BY <2>1 DEF EnsureTunnel, OpenTunnel
    <2> QED
      BY <2>1, <2>2
  <1>2. CASE OpeningSnapshot \/ ClosingSnapshot \/ ProbeSaturation
    <2>1. /\ Measure \/ UNCHANGED lost
          /\ pc \in {"before", "after", "probe"} /\ pc' \in {"spawn", "levels", "finally"}
          /\ UNCHANGED deaths
      BY <1>2 DEF OpeningSnapshot, ClosingSnapshot, ProbeSaturation, SeeAbort
    <2>2. lost' <= deaths
      <3>1. CASE alive = {}
        BY <1>t, <2>1, <3>1 DEF Measure
      <3>2. CASE alive # {}
        BY <2>1, <3>2 DEF Measure
      <3> QED
        BY <3>1, <3>2
    <2> QED
      BY <2>1, <2>2
  <1>3. CASE TunnelDies
    <2>1. deaths' = deaths + 1 /\ UNCHANGED lost
      BY <1>3 DEF TunnelDies
    <2> QED
      BY <1>t, <2>1
  <1>4. CASE \/ Startup \/ BetweenLevels \/ Spawn \/ ProcEnds \/ WaitTimesOut \/ KillSurvivors
             \/ RemoveAgents \/ LevelEnds \/ Finish \/ Signal
    <2>1. pc' \notin {"before", "after", "probe"} /\ UNCHANGED <<lost, deaths>>
      BY <1>4 DEF Startup, Launch, LaunchFails, StartupAborted, Reachable, Unreachable, Backstop,
           ScanFindsFailure, FetchTail, RepairTunnel, Raise, BetweenLevels, Spawn, ProcEnds,
           WaitTimesOut, KillSurvivors, RemoveAgents, LevelEnds, SeeAbort, Finish, CloseTunnel,
           StopPod, GatesFinish, GatesTimeOut, RemoveGates, WriteReport, Signal
    <2> QED
      BY <2>1
  <1>5. CASE \/ Abort \/ PodTerminated \/ ServerStarts \/ ServerFails \/ TunnelForwards
             \/ TunnelStalls \/ AgentEnds \/ Done \/ UNCHANGED vars
    <2>1. UNCHANGED <<pc, alive, lost, deaths>>
      BY <1>5 DEF Abort, PodTerminated, ServerStarts, ServerFails, TunnelForwards, TunnelStalls,
           AgentEnds, Done, vars
    <2> QED
      BY <2>1
  <1> QED
    BY <1>1, <1>2, <1>3, <1>4, <1>5 DEF Next, Runner, Sweep, Environment

-----------------------------------------------------------------------------
(* The theorems.                                                             *)

LEMMA InitInv == Init => Inv
  <1> SUFFICES ASSUME Init PROVE Inv
    OBVIOUS
  <1>1. Progress
    BY NoneAssumption DEF Init, Progress, AtWork, Ending, Scoring
  <1>2. OneTunnel /\ OneCrew
    BY DEF Init, OneTunnel, OneCrew, AtWork, Scoring, LiveTunnel
  <1>3. CutOff /\ Losses
    BY DEF Init, CutOff, Losses
  <1>4. Evidence
    BY Zenon DEF Init, Evidence
  <1> QED
    BY <1>1, <1>2, <1>3, <1>4, InitType DEF Inv

\* Every state of the body of a run satisfies the invariant.
THEOREM Invariance == Spec => []Inv
  <1>1. Inv /\ [Next]_vars => Inv'
    BY StepType, StepProgress, StepTunnel, StepCrew, StepCutOff, StepEvidence, StepLosses
       DEF Inv
  <1> QED
    BY InitInv, <1>1, PTL DEF Spec

\* The locals of bench_sdd.run, what it started and what it measured keep their types.
THEOREM TypeCorrect == Spec => []TypeOK
  <1>1. Inv => TypeOK
    BY DEF Inv
  <1> QED
    BY Invariance, <1>1, PTL

\* A run of any number of levels that exits with 0 has them all in its report.
THEOREM ZeroExit == Spec => []ZeroExitMeansEveryLevel
  <1>1. Inv => ZeroExitMeansEveryLevel
    BY DEF Inv, Progress, ZeroExitMeansEveryLevel
  <1> QED
    BY Invariance, <1>1, PTL

\* A level whose agents were at work at the abort is never appended to generated: between that
\* moment and ClosingSnapshot the runner always looks at the guard once more.
THEOREM CutShortIsLeftOut == Spec => []AbortedLevelIsNotReported
  <1>1. Inv => AbortedLevelIsNotReported
    BY LevelType DEF Inv, CutOff, TypeOK, AbortedLevelIsNotReported, Levels
  <1> QED
    BY Invariance, <1>1, PTL

\* However often tunnels die, no more snapshots and probes are made without a tunnel's process
\* than processes died: ensure_tunnel stands before each of them, and a death that came after
\* it has not been counted for another.
THEOREM OneMeasurementPerDeath == Spec => []DeathCostsOneMeasurement
  <1>1. Inv => DeathCostsOneMeasurement
    BY DEF Inv, Losses, DeathCostsOneMeasurement
  <1> QED
    BY Invariance, <1>1, PTL

\* However a run ends, it leaves no tunnel and no container but for the named causes: there
\* never is more than one tunnel, and every container is one the runner is still to remove.
THEOREM NothingIsLeft == Spec => []NothingOutlivesTheRun
  <1>1. Inv => NothingOutlivesTheRun
    BY DEF Inv, OneTunnel, OneCrew, NothingOutlivesTheRun
  <1> QED
    BY Invariance, <1>1, PTL

\* The tail that a scan fetched is on disk when a startup was ended by an abort.
THEOREM EvidenceIsLeft == Spec => []StallLeavesEvidence
  <1>1. Inv => StallLeavesEvidence
    BY Zenon DEF Inv, Evidence, StallLeavesEvidence
  <1> QED
    BY Invariance, <1>1, PTL
=============================================================================
