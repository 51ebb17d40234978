------------------------------ MODULE BenchRun ------------------------------
(***************************************************************************)
(* The body of a benchmark run, bench_sdd.run: wait until vLLM answers      *)
(* through an ssh tunnel, measure one level after the other, each with n    *)
(* agents in containers of their own, probe the saturation of the server,   *)
(* stop the pod, score the gates, write the report.                         *)
(*                                                                         *)
(* Meanwhile the watchdog may abort the run, which takes the pod down a     *)
(* little later; the tunnel may die, or live and forward nothing; the       *)
(* server may fail; agents end, or hang; a SIGTERM may end it all.          *)
(* PodGuard.tla has this body as one step, and assumes that a body whose    *)
(* run is aborted comes to its end: AbortEndsTheBody below.                 *)
(***************************************************************************)
EXTENDS Naturals, Sequences, FiniteSets

CONSTANTS
  Teams,       \* sorted(devs): the team sizes of the levels
  Probe,       \* the scenario asks for a saturation probe
  Iterations,  \* startup_poll_iterations
  ScanEvery,   \* iterations from one scan of the pod's log to the next (12)
  MaxDeaths,   \* bound: times a tunnel dies
  MaxFaults,   \* bound: ssh and docker commands that fail
  None         \* no report, no exit yet

ASSUME TeamsAssumption == Teams \in Seq(Nat \ {0}) /\ Teams # <<>>
ASSUME ProbeAssumption == Probe \in BOOLEAN
ASSUME LoopAssumption == Iterations \in Nat \ {0} /\ ScanEvery \in Nat \ {0}
ASSUME BoundsAssumption == MaxDeaths \in Nat /\ MaxFaults \in Nat
ASSUME NoneAssumption == None \notin {"ok", "error"}

VARIABLES
  pc,         \* next step of the runner
  iter,       \* i of the startup loop
  tail,       \* last_tail is not empty
  saved,      \* vllm-startup-stalled.log is written
  vllm,       \* the server: "starting", "serving" or "failed"
  podUp,      \* the pod runs
  aborted,    \* guard.aborted is set
  tunnel,     \* the process in `tunnel`: the how-manyth opened, 0 for none
  box,        \* the one in tunnel_box, 0 before there is a box
  opened,     \* tunnels opened so far
  alive,      \* those whose process runs
  deaf,       \* and those of them that forward nothing: still connecting, or half-open
  level,      \* index in Teams
  agents,     \* agents of the level whose docker client runs
  waited,     \* how many _wait_procs has popped
  before,     \* the level's opening snapshot is not empty
  generated,  \* for each level measured: which of its two snapshots are not empty
  truncated,  \* the local `aborted` of run
  toScore,    \* gates still to run: <<level, agent>>
  timedOut,   \* gates that timed out
  report,     \* report.json
  exit,       \* None, "ok" or "error"
  signal,     \* history: the step at which a SIGTERM came, None if none did
  containers, \* what the docker daemon runs: <<kind, level, agent>>
  tailSeen, stalled,   \* history: a tail was fetched; the startup loop saw the abort
  cutShort,            \* history: levels at work when the run was aborted
  lost,                \* history: measurements made while no tunnel's process ran
  unremoved,           \* history: containers that docker rm failed to remove or a
                       \* SIGTERM left running
  deaths, faults       \* history: bounded counters

startupVars == <<iter, tail, saved, tailSeen, stalled>>
envVars == <<vllm, podUp, aborted, cutShort>>
tunnelVars == <<tunnel, box, opened, alive, deaf, deaths>>
agentVars == <<agents, containers>>
levelVars == <<level, waited, before, generated, lost>>
resultVars == <<truncated, toScore, timedOut, report, exit>>
faultVars == <<unremoved, faults, signal>>
vars == <<pc, startupVars, envVars, tunnelVars, agentVars, levelVars, resultVars, faultVars>>

Levels == 1 .. Len(Teams)
Crew == 1 .. Teams[level]
Kinds == {"agent", "gates"}
Steps == {"launch", "poll", "scan", "repair", "levels", "ensure", "before", "spawn", "wait",
          "kill", "remove", "close", "after", "probe", "finally", "stop", "score", "clean",
          "done"}

Init ==
  /\ pc = "launch" /\ iter = 0 /\ tail = FALSE /\ saved = FALSE
  /\ tailSeen = FALSE /\ stalled = FALSE
  /\ vllm = "starting" /\ podUp = TRUE /\ aborted = FALSE /\ cutShort = {}
  /\ tunnel = 0 /\ box = 0 /\ opened = 0 /\ alive = {} /\ deaf = {} /\ deaths = 0
  /\ agents = {} /\ containers = {}
  /\ level = 1 /\ waited = 0 /\ before = FALSE /\ generated = <<>> /\ lost = 0
  /\ truncated = FALSE /\ toScore = {} /\ timedOut = {} /\ report = None /\ exit = None
  /\ unremoved = {} /\ faults = 0 /\ signal = None

\* localhost:8000 can answer.
Serving == podUp /\ vllm = "serving"
Answers == alive \ deaf # {} /\ Serving

\* _curl: whether it gets an answer in time.  It may time out all the same.
Curl(answered) == answered => Answers

\* A measurement through the tunnel, be there a process or not.
Measure == lost' = IF alive = {} THEN lost + 1 ELSE lost

Fault == faults < MaxFaults /\ faults' = faults + 1

\* Popen returns before ssh has connected.
OpenTunnel ==
  opened' = opened + 1 /\ alive' = alive \cup {opened'} /\ deaf' = deaf \cup {opened'}

\* The runner fails: the rest of the try block is skipped.
Raise == pc' = "finally" /\ exit' = "error"

-----------------------------------------------------------------------------
(* Waiting for the server.                                                   *)

\* The detached launch succeeds and a first tunnel is opened ...
Launch ==
  /\ pc = "launch"
  /\ OpenTunnel /\ tunnel' = opened'
  /\ pc' = "poll"
  /\ UNCHANGED <<startupVars, envVars, box, deaths, agentVars, levelVars, resultVars,
                 faultVars>>

\* ... or run_cmd raises.
LaunchFails ==
  /\ pc = "launch"
  /\ Raise
  /\ UNCHANGED <<startupVars, envVars, tunnelVars, agentVars, levelVars, truncated, toScore,
                 timedOut, report, faultVars>>

\* The abort is seen first: the last tail is written, if there is one.
StartupAborted ==
  /\ pc = "poll" /\ iter < Iterations /\ aborted
  /\ saved' = tail /\ stalled' = TRUE
  /\ Raise
  /\ UNCHANGED <<iter, tail, tailSeen, envVars, tunnelVars, agentVars, levelVars, truncated,
                 toScore, timedOut, report, faultVars>>

\* The server answers: tunnel_box takes over the tunnel.  i is of no use after the loop.
Reachable ==
  /\ pc = "poll" /\ iter < Iterations /\ ~aborted /\ Curl(TRUE)
  /\ box' = tunnel /\ iter' = 0
  /\ pc' = "levels"
  /\ UNCHANGED <<tail, saved, tailSeen, stalled, envVars, tunnel, opened, alive, deaf, deaths,
                 agentVars, levelVars, resultVars, faultVars>>

\* It does not, or too late.
Unreachable ==
  /\ pc = "poll" /\ iter < Iterations /\ ~aborted
  /\ pc' = IF iter % ScanEvery = ScanEvery - 1 THEN "scan" ELSE "repair"
  /\ UNCHANGED <<startupVars, envVars, tunnelVars, agentVars, levelVars, resultVars,
                 faultVars>>

Backstop ==
  /\ pc = "poll" /\ iter = Iterations
  /\ Raise
  /\ UNCHANGED <<startupVars, envVars, tunnelVars, agentVars, levelVars, truncated, toScore,
                 timedOut, report, faultVars>>

\* The scan of the log finds the server dead.
ScanFindsFailure ==
  /\ pc = "scan" /\ podUp /\ vllm = "failed"
  /\ Raise
  /\ UNCHANGED <<startupVars, envVars, tunnelVars, agentVars, levelVars, truncated, toScore,
                 timedOut, report, faultVars>>

\* Mutant: a tail that could not be fetched replaces the one that was.
KeepTailLast(fetched) == tail' = fetched

\* last_tail = _pod_log_tail(...) or last_tail
KeepTail(fetched) == tail' = (fetched \/ tail)

\* It finds nothing (or ssh stalls, which reads as nothing), and the tail is fetched; of a
\* pod that is gone there is none.
FetchTail ==
  /\ pc = "scan"
  /\ \/ /\ podUp /\ vllm # "failed"
        /\ KeepTail(TRUE) /\ tailSeen' = TRUE
        /\ UNCHANGED faults
     \/ /\ podUp /\ Fault
        /\ KeepTail(FALSE) /\ UNCHANGED tailSeen
     \/ /\ ~podUp
        /\ KeepTail(FALSE) /\ UNCHANGED <<tailSeen, faults>>
  /\ pc' = "repair"
  /\ UNCHANGED <<iter, saved, stalled, envVars, tunnelVars, agentVars, levelVars, resultVars,
                 unremoved, signal>>

\* A tunnel whose process has ended is opened again.
RepairTunnel ==
  /\ pc = "repair"
  /\ IF tunnel \in alive THEN UNCHANGED <<tunnel, opened, alive, deaf>>
                         ELSE OpenTunnel /\ tunnel' = opened'
  /\ iter' = iter + 1
  /\ pc' = "poll"
  /\ UNCHANGED <<tail, saved, tailSeen, stalled, envVars, box, deaths, agentVars,
                 levelVars, resultVars, faultVars>>

-----------------------------------------------------------------------------
(* The levels.                                                               *)

\* Mutant: an abort ends the sweep without a trace.
MarkTruncatedNot == UNCHANGED truncated

\* except PodGuardAborted: what has been measured is kept, the report marked.
MarkTruncated == truncated' = TRUE

SeeAbort == pc' = "finally" /\ MarkTruncated

\* raise_if_aborted before a level; the tunnel is looked at before a level and at the end.
BetweenLevels ==
  /\ pc = "levels"
  /\ IF aborted /\ level \in Levels THEN SeeAbort ELSE pc' = "ensure" /\ UNCHANGED truncated
  /\ UNCHANGED <<startupVars, envVars, tunnelVars, agentVars, levelVars, toScore, timedOut,
                 report, exit, faultVars>>

\* Mutant: the tunnel is not looked at again.
EnsureTunnelNot == UNCHANGED <<box, opened, alive, deaf>>

\* Only the process is looked at: a tunnel that forwards nothing passes, and one that is
\* opened here need not have connected two seconds later.
EnsureTunnel ==
  IF box \in alive THEN UNCHANGED <<box, opened, alive, deaf>>
                   ELSE OpenTunnel /\ box' = opened'

EnsureBefore ==
  /\ pc = "ensure"
  /\ EnsureTunnel
  /\ pc' = IF level \in Levels THEN "before" ELSE "probe"
  /\ UNCHANGED <<startupVars, envVars, tunnel, deaths, agentVars, levelVars, resultVars,
                 faultVars>>

\* _metrics_snapshot: empty if the curl gets no answer.
OpeningSnapshot ==
  /\ pc = "before"
  /\ before' \in BOOLEAN /\ Curl(before')
  /\ Measure
  /\ pc' = "spawn"
  /\ UNCHANGED <<startupVars, envVars, tunnelVars, agentVars, level, waited, generated,
                 resultVars, faultVars>>

Spawn ==
  /\ pc = "spawn"
  /\ agents' = Crew
  /\ containers' = containers \cup {<<"agent", level, i>> : i \in Crew}
  /\ waited' = 0
  /\ pc' = "wait"
  /\ UNCHANGED <<startupVars, envVars, tunnelVars, level, before, generated, lost, resultVars,
                 faultVars>>

\* _wait_procs waits for its first process ...
ProcEnds ==
  /\ pc = "wait" /\ waited < Teams[level] /\ waited + 1 \notin agents
  /\ waited' = waited + 1
  /\ UNCHANGED <<pc, startupVars, envVars, tunnelVars, agentVars, level, before, generated,
                 lost, resultVars, faultVars>>

\* Mutant: a wait that times out does not look at the guard.
WaitTimesOutBlind == FALSE /\ UNCHANGED vars

\* ... and each time that times out, looks at the guard.
WaitTimesOut ==
  /\ pc = "wait" /\ waited < Teams[level] /\ waited + 1 \in agents /\ aborted
  /\ pc' = "kill"
  /\ UNCHANGED <<startupVars, envVars, tunnelVars, agentVars, levelVars, resultVars,
                 faultVars>>

\* SIGTERM reaches the containers of some agents; the docker clients of the others are
\* killed, which leaves their containers running.
KillSurvivors ==
  /\ pc = "kill"
  /\ \E S \in SUBSET agents : containers' = containers \ {<<"agent", level, i>> : i \in S}
  /\ agents' = {}
  /\ pc' = "remove"
  /\ UNCHANGED <<startupVars, envVars, tunnelVars, levelVars, resultVars, faultVars>>

\* Mutant: the containers are left to --rm.
RemoveContainersNot(C) == UNCHANGED <<containers, unremoved, faults>>

\* docker rm -f, best effort.
RemoveContainers(C) ==
  \/ containers' = containers \ C /\ UNCHANGED <<unremoved, faults>>
  \/ /\ Fault
     /\ \E F \in SUBSET (C \cap containers) \ {{}} :
          containers' = containers \ (C \ F) /\ unremoved' = unremoved \cup F

RemoveAgents ==
  /\ pc = "remove"
  /\ RemoveContainers({<<"agent", level, i>> : i \in Crew})
  /\ SeeAbort
  /\ UNCHANGED <<startupVars, envVars, tunnelVars, agents, levelVars, toScore, timedOut,
                 report, exit, signal>>

\* Mutant: no second look at the guard.
LevelEndsUnchecked ==
  /\ pc = "wait" /\ waited = Teams[level]
  /\ pc' = "close" /\ UNCHANGED truncated
  /\ UNCHANGED <<startupVars, envVars, tunnelVars, agentVars, levelVars, toScore, timedOut,
                 report, exit, faultVars>>

\* All processes have ended: one more look at the guard.
LevelEnds ==
  /\ pc = "wait" /\ waited = Teams[level]
  /\ IF aborted THEN SeeAbort ELSE pc' = "close" /\ UNCHANGED truncated
  /\ UNCHANGED <<startupVars, envVars, tunnelVars, agentVars, levelVars, toScore, timedOut,
                 report, exit, faultVars>>

EnsureAfter ==
  /\ pc = "close"
  /\ EnsureTunnel
  /\ pc' = "after"
  /\ UNCHANGED <<startupVars, envVars, tunnel, deaths, agentVars, levelVars, resultVars,
                 faultVars>>

\* Mutant: a level whose closing snapshot could not be had is dropped.
ClosingSnapshotOrDrop ==
  /\ pc = "after"
  /\ \E after \in BOOLEAN :
       /\ Curl(after)
       /\ generated' = IF after THEN Append(generated, [before |-> before, after |-> TRUE])
                                ELSE generated
  /\ Measure
  /\ level' = level + 1
  /\ pc' = "levels"
  /\ UNCHANGED <<startupVars, envVars, tunnelVars, agentVars, waited, before, resultVars,
                 faultVars>>

\* The level counts as measured, whatever its snapshots are.
ClosingSnapshot ==
  /\ pc = "after"
  /\ \E after \in BOOLEAN :
       Curl(after) /\ generated' = Append(generated, [before |-> before, after |-> after])
  /\ Measure
  /\ level' = level + 1
  /\ pc' = "levels"
  /\ UNCHANGED <<startupVars, envVars, tunnelVars, agentVars, waited, before, resultVars,
                 faultVars>>

\* If the scenario asks for a probe: raise_if_aborted, then the probe for its fixed time,
\* after which nothing is looked at.
ProbeSaturation ==
  /\ pc = "probe"
  /\ IF Probe /\ aborted THEN SeeAbort ELSE pc' = "finally" /\ UNCHANGED truncated
  /\ IF Probe /\ ~aborted THEN Measure ELSE UNCHANGED lost
  /\ UNCHANGED <<startupVars, envVars, tunnelVars, agentVars, level, waited, before, generated,
                 toScore, timedOut, report, exit, faultVars>>

-----------------------------------------------------------------------------
(* The end.                                                                  *)

\* Mutant: the first tunnel is closed, not the current one.
LiveTunnelFirst == tunnel

\* tunnel_box's process, or the one in `tunnel` if there is no box yet.
LiveTunnel == IF box # 0 THEN box ELSE tunnel

\* finally: the tunnel is closed.  A failed run is over, and so is an aborted one that
\* measured nothing.
CloseTunnel ==
  /\ pc = "finally"
  /\ alive' = alive \ {LiveTunnel} /\ deaf' = deaf \ {LiveTunnel}
  /\ IF exit = "error" \/ (truncated /\ generated = <<>>)
     THEN pc' = "done" /\ exit' = "error"
     ELSE pc' = "stop" /\ UNCHANGED exit
  /\ UNCHANGED <<startupVars, envVars, tunnel, box, opened, deaths, agentVars,
                 levelVars, truncated, toScore, timedOut, report, faultVars>>

\* The call that stops the pod may fail; PodGuard.tla has what follows from that.
StopPod ==
  /\ pc = "stop"
  /\ podUp' \in {podUp, FALSE}
  /\ toScore' = UNION {{<<l, i>> : i \in 1 .. Teams[l]} : l \in 1 .. Len(generated)}
  /\ pc' = "score"
  /\ UNCHANGED <<startupVars, vllm, aborted, cutShort, tunnelVars, agentVars,
                 levelVars, truncated, timedOut, report, exit, faultVars>>

\* Levels and their agents in order.
NextGates ==
  CHOOSE g \in toScore : \A h \in toScore : g[1] < h[1] \/ (g[1] = h[1] /\ g[2] <= h[2])

GatesFinish ==
  /\ pc = "score" /\ toScore # {}
  /\ toScore' = toScore \ {NextGates}
  /\ UNCHANGED <<pc, startupVars, envVars, tunnelVars, agentVars, levelVars, truncated,
                 timedOut, report, exit, faultVars>>

\* The docker client is killed; its container runs on until it is removed.
GatesTimeOut ==
  /\ pc = "score" /\ toScore # {} /\ Fault
  /\ containers' = containers \cup {<<"gates", NextGates[1], NextGates[2]>>}
  /\ timedOut' = timedOut \cup {NextGates}
  /\ pc' = "clean"
  /\ UNCHANGED <<startupVars, envVars, tunnelVars, agents, levelVars, truncated, toScore,
                 report, exit, unremoved, signal>>

RemoveGates ==
  /\ pc = "clean"
  /\ RemoveContainers({<<"gates", NextGates[1], NextGates[2]>>})
  /\ toScore' = toScore \ {NextGates}
  /\ pc' = "score"
  /\ UNCHANGED <<startupVars, envVars, tunnelVars, agents, levelVars, truncated, timedOut,
                 report, exit, signal>>

\* The report is written; that of an aborted run ends in SystemExit.
WriteReport ==
  /\ pc = "score" /\ toScore = {}
  /\ report' = [levels |-> Len(generated), truncated |-> truncated]
  /\ exit' = IF truncated THEN "error" ELSE "ok"
  /\ pc' = "done"
  /\ UNCHANGED <<startupVars, envVars, tunnelVars, agentVars, levelVars, truncated, toScore,
                 timedOut, faultVars>>

-----------------------------------------------------------------------------
(* Around the runner.                                                        *)

\* The watchdog records the abort first and terminates the pod next.
Abort ==
  /\ pc # "done" /\ ~aborted
  /\ aborted' = TRUE
  /\ cutShort' = IF agents # {} THEN {level} ELSE {}
  /\ UNCHANGED <<pc, startupVars, vllm, podUp, tunnelVars, agentVars, levelVars, resultVars,
                 faultVars>>

PodTerminated ==
  /\ pc # "done" /\ aborted /\ podUp
  /\ podUp' = FALSE
  /\ UNCHANGED <<pc, startupVars, vllm, aborted, cutShort, tunnelVars, agentVars,
                 levelVars, resultVars, faultVars>>

\* SIGTERM reaches the runner alone: PodGuard's handler terminates the pod and raises
\* SystemExit, which skips to the finally clause; one that comes there keeps the tunnel open.
Signal ==
  /\ pc # "done" /\ signal = None
  /\ signal' = pc
  /\ podUp' \in {podUp, FALSE}
  /\ unremoved' = unremoved \cup containers
  /\ pc' = IF pc \in {"finally", "stop", "score", "clean"} THEN "done" ELSE "finally"
  /\ exit' = "error"
  /\ UNCHANGED <<startupVars, vllm, aborted, cutShort, tunnelVars, agentVars,
                 levelVars, truncated, toScore, timedOut, report, faults>>

ServerStarts ==
  /\ podUp /\ vllm = "starting"
  /\ vllm' = "serving"
  /\ UNCHANGED <<pc, startupVars, podUp, aborted, cutShort, tunnelVars, agentVars,
                 levelVars, resultVars, faultVars>>

ServerFails ==
  /\ podUp /\ vllm # "failed" /\ pc # "done"
  /\ vllm' = "failed"
  /\ UNCHANGED <<pc, startupVars, podUp, aborted, cutShort, tunnelVars, agentVars,
                 levelVars, resultVars, faultVars>>

\* ssh has connected, or what it missed of a stall did not last.
TunnelForwards ==
  /\ \E k \in deaf : deaf' = deaf \ {k}
  /\ UNCHANGED <<pc, startupVars, envVars, tunnel, box, opened, alive, deaths, agentVars,
                 levelVars, resultVars, faultVars>>

\* The connection is half-open: ssh lives on until its keepalives have gone unanswered.
TunnelStalls ==
  /\ \E k \in alive \ deaf : deaf' = deaf \cup {k}
  /\ UNCHANGED <<pc, startupVars, envVars, tunnel, box, opened, alive, deaths, agentVars,
                 levelVars, resultVars, faultVars>>

\* ssh ends.
TunnelDies ==
  /\ deaths < MaxDeaths /\ deaths' = deaths + 1
  /\ \E k \in alive : alive' = alive \ {k} /\ deaf' = deaf \ {k}
  /\ UNCHANGED <<pc, startupVars, envVars, tunnel, box, opened, agentVars, levelVars,
                 resultVars, faultVars>>

\* An agent ends, done or failed; docker removes its container.
AgentEnds ==
  /\ \E i \in agents : /\ agents' = agents \ {i}
                       /\ containers' = containers \ {<<"agent", level, i>>}
  /\ UNCHANGED <<pc, startupVars, envVars, tunnelVars, levelVars, resultVars, faultVars>>

-----------------------------------------------------------------------------
Startup ==
  \/ Launch \/ LaunchFails \/ StartupAborted \/ Reachable \/ Unreachable \/ Backstop
  \/ ScanFindsFailure \/ FetchTail \/ RepairTunnel

Sweep ==
  \/ BetweenLevels \/ EnsureBefore \/ OpeningSnapshot \/ Spawn \/ ProcEnds \/ WaitTimesOut
  \/ KillSurvivors \/ RemoveAgents \/ LevelEnds \/ EnsureAfter \/ ClosingSnapshot
  \/ ProbeSaturation

Finish ==
  CloseTunnel \/ StopPod \/ GatesFinish \/ GatesTimeOut \/ RemoveGates \/ WriteReport

Runner == Startup \/ Sweep \/ Finish

Environment ==
  \/ Signal \/ Abort \/ PodTerminated \/ ServerStarts \/ ServerFails \/ TunnelForwards
  \/ TunnelStalls \/ TunnelDies \/ AgentEnds

Done == pc = "done" /\ UNCHANGED vars

Next == Runner \/ Environment \/ Done

Spec == Init /\ [][Next]_vars

(* The runner's process is scheduled.  Nothing is assumed of the agents, the  *)
(* server or the tunnel.                                                      *)
FairSpec == Spec /\ WF_vars(Runner)
-----------------------------------------------------------------------------
(* Properties.                                                               *)

Flags ==
  {tail, saved, podUp, aborted, before, truncated, tailSeen, stalled} \subseteq BOOLEAN
Snapshots == [before : BOOLEAN, after : BOOLEAN]
Reports == [levels : Levels, truncated : BOOLEAN]

\* Type invariant of bench_sdd.run's locals and of what it starts.
TypeOK ==
  /\ pc \in Steps /\ iter \in 0 .. Iterations /\ Flags
  /\ vllm \in {"starting", "serving", "failed"}
  /\ opened \in Nat /\ tunnel \in 0 .. opened /\ box \in 0 .. opened
  /\ alive \subseteq 1 .. opened /\ deaf \subseteq alive
  /\ level \in 1 .. Len(Teams) + 1 /\ waited \in Nat
  /\ agents # {} => level \in Levels /\ agents \subseteq Crew
  /\ generated \in Seq(Snapshots)
  /\ Len(generated) = level - 1
  /\ timedOut \cup toScore \subseteq {g \in Levels \X Nat : g[2] \in 1 .. Teams[g[1]]}
  /\ report \in Reports \cup {None}
  /\ exit \in {None, "ok", "error"}
  /\ containers \cup unremoved \subseteq Kinds \X Levels \X Nat
  /\ cutShort \subseteq Levels
  /\ signal \in (Steps \ {"done"}) \cup {None}
  /\ lost \in Nat /\ deaths \in 0 .. MaxDeaths /\ faults \in 0 .. MaxFaults

\* bench_sdd 515: a truncated report is kept and the run "still exit[s] non-zero".  A run
\* that exits with 0 has every requested level in its report.
ZeroExitMeansEveryLevel ==
  exit = "ok" => report.levels = Len(Teams) /\ ~report.truncated

\* _wait_procs 214: an abort that lands while agents are at work never gets their level
\* into the report, even if all of them end before anyone looks.
AbortedLevelIsNotReported == \A l \in cutShort : Len(generated) < l

\* bench_sdd 489: the tunnel "can die under a heavy level's load", which used to cost the
\* run "every later metric and the probe".  Each death costs one measurement at most: of the
\* snapshots and the probe, no more are made without a tunnel's process than processes died.
\* A process that runs and forwards nothing is not looked for, and its measurements are
\* lost too.
DeathCostsOneMeasurement == lost <= deaths

\* _docker_rm_f: "a surviving container's name would collide with a later run", and a tunnel
\* left over would hold port 8000 and serve the next run a dead pod.  However often the tunnel
\* was opened again and wherever the run failed, nothing it started outlives it, unless docker
\* itself failed to remove a container, or a SIGTERM came while containers ran (nothing in the
\* runner removes them then) or inside the finally clause.
NothingOutlivesTheRun ==
  pc = "done" => containers \subseteq unremoved /\ (signal # "finally" => alive = {})

\* bench_sdd 430: the last tail is "the only remaining evidence of WHERE startup was stuck".
\* A startup ended by an abort has written the tail it fetched, even if the pod is gone by
\* the time of a later fetch.
StallLeavesEvidence == stalled /\ tailSeen => saved

\* Once the run is aborted the body comes to its end: no hanging agent, dead tunnel or
\* stuck gate keeps it (what PodGuard's fairness assumes of the body).
AbortEndsTheBody == aborted ~> pc = "done"
=============================================================================
