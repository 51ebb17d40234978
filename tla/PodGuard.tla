------------------------------ MODULE PodGuard ------------------------------
(***************************************************************************)
(* One benchmark run under a PodGuard (src/scripts/lib/pod_guard.py driven  *)
(* by src/scripts/lib/orchestrator.py): the main thread creates a paid pod, *)
(* records it, works on it and leaves; the watchdog thread may abort the    *)
(* run at any time; SIGINT and SIGTERM interrupt the main thread between    *)
(* any two of its steps.  Both threads run terminate_all over the same      *)
(* dictionary, the same `_terminated` set and the same state file.          *)
(*                                                                         *)
(* Time is abstracted: the watchdog finds a reason to abort whenever it     *)
(* evaluates (Watchdog.tla models when it does).  A run is observed through *)
(* three ways in which it may leave a pod billing: `ghosts` (the API raised *)
(* although it had allocated the pod), `released` (--keep) and `lost` (a    *)
(* terminate call failed, or was cut short before it reached the API).      *)
(***************************************************************************)
EXTENDS Naturals, FiniteSets

CONSTANTS
  Pods,         \* pods RunPod may allocate to this run
  None,         \* no pod
  Keep,         \* --keep: the pod outlives the run
  MaxAttempts,  \* number of GPU candidates create_with_fallback tries
  MaxSignals,   \* bound: signals delivered to the run
  MaxFaults     \* bound: failing calls (terminate, create after allocation, sampler)

ASSUME NoneAssumption == None \notin Pods
ASSUME KeepAssumption == Keep \in BOOLEAN
ASSUME BoundsAssumption == /\ MaxAttempts \in Nat \ {0}
                           /\ MaxSignals \in Nat
                           /\ MaxFaults \in Nat

VARIABLES
  cloud,      \* RunPod's view of each pod: "none", "billing" or "gone"
  file,       \* pods of this run with an entry in active-pods.json
  tracked,    \* keys of guard._tracked
  terminated, \* guard._terminated
  aborted,    \* guard.aborted is set
  deferring,  \* guard._deferring
  pending,    \* guard._pending_signal
  stopEvt,    \* guard._stop is set
  pc,         \* next step of each thread
  ret,        \* where the main thread's terminate_all returns to
  region,     \* the block an exception of the main thread unwinds to
  pod,        \* the pod create_pod returned, or None
  attempt,    \* GPU candidates tried
  todo,       \* list(self._tracked) of a running terminate_all, per thread
  cur,        \* pod a running terminate_all is at, per thread
  seen,       \* state file as last read, per thread
  iterated,   \* keys of _tracked when the watchdog began to iterate over it
  ghosts, released, lost,  \* history: pods left billing, by cause
  signals, faults          \* history: bounded counters

cloudVars == <<cloud, ghosts, released, lost>>
signalVars == <<deferring, pending, signals>>
sweepVars == <<todo, cur, seen>>
createVars == <<pod, attempt>>
vars == <<cloud, file, tracked, terminated, aborted, deferring, pending, stopEvt,
          pc, ret, region, pod, attempt, todo, cur, seen, iterated,
          ghosts, released, lost, signals, faults>>

Threads == {"main", "watchdog"}

\* Steps of terminate_all and of the remove_entry it calls, run by either thread.
SweepSteps == {"snapshot", "next", "mark", "call", "remove_read", "remove_write"}
MainSteps == {"defer", "clear", "create", "track", "add_read", "add_write", "recheck",
              "undefer", "fire", "raise_if", "provision", "body", "score", "finally",
              "release", "unwind", "exit", "join", "exited", "ended"} \cup SweepSteps
DeadWatchdog == {"stopped", "crashed", "killed"}
WatchdogSteps == {"wait", "sample", "decide"} \cup DeadWatchdog \cup SweepSteps
Returns == {"undefer", "score", "unwind", "exited"}
Regions == {"guarded", "body", "exiting", "atexit"}

Goto(t, step) == pc' = [pc EXCEPT ![t] = step]
ReturnOf(t) == IF t = "main" THEN ret ELSE "wait"

Init ==
  /\ cloud = [p \in Pods |-> "none"]
  /\ file = {} /\ tracked = {} /\ terminated = {}
  /\ aborted = FALSE /\ deferring = FALSE /\ pending = FALSE /\ stopEvt = FALSE
  /\ pc = [t \in Threads |-> IF t = "main" THEN "defer" ELSE "wait"]
  /\ ret = "unwind" /\ region = "guarded"
  /\ pod = None /\ attempt = 0
  /\ todo = [t \in Threads |-> {}]
  /\ cur = [t \in Threads |-> None]
  /\ seen = [t \in Threads |-> {}]
  /\ iterated = {}
  /\ ghosts = {} /\ released = {} /\ lost = {}
  /\ signals = 0 /\ faults = 0

-----------------------------------------------------------------------------
(* terminate_all, in either thread.                                         *)

\* The main thread enters terminate_all, to resume at `back`.
MainSweeps(back) == Goto("main", "snapshot") /\ ret' = back

MainSweepsIf(condition, back, otherwise) ==
  IF condition THEN MainSweeps(back) ELSE Goto("main", otherwise) /\ UNCHANGED ret

\* for pod_id in list(self._tracked)
TakeSnapshot(t) ==
  /\ pc[t] = "snapshot"
  /\ todo' = [todo EXCEPT ![t] = tracked]
  /\ Goto(t, "next")
  /\ UNCHANGED <<cloudVars, signalVars, createVars, file, tracked, terminated, aborted,
                 stopEvt, ret, region, cur, seen, iterated, faults>>

\* Mutant: the entry goes, the terminate call is forgotten.
PickStepEntryOnly(p) == "remove_read"

\* A pod already in _terminated is not terminated again; its entry is removed either way.
PickStep(p) == IF p \in terminated THEN "remove_read" ELSE "mark"

PickPod(t) ==
  /\ pc[t] = "next"
  /\ \E p \in todo[t] :
       /\ cur' = [cur EXCEPT ![t] = p]
       /\ todo' = [todo EXCEPT ![t] = @ \ {p}]
       /\ Goto(t, PickStep(p))
  /\ UNCHANGED <<cloudVars, signalVars, createVars, file, tracked, terminated, aborted,
                 stopEvt, ret, region, seen, iterated, faults>>

SweepReturns(t) ==
  /\ pc[t] = "next" /\ todo[t] = {}
  /\ Goto(t, ReturnOf(t))
  /\ UNCHANGED <<cloudVars, signalVars, createVars, sweepVars, file, tracked, terminated,
                 aborted, stopEvt, ret, region, iterated, faults>>

\* _terminate records the pod as terminated before it calls the API ...
MarkTerminated(t) ==
  /\ pc[t] = "mark"
  /\ terminated' = terminated \cup {cur[t]}
  /\ Goto(t, "call")
  /\ UNCHANGED <<cloudVars, signalVars, createVars, sweepVars, file, tracked, aborted,
                 stopEvt, ret, region, iterated, faults>>

\* ... and the call stops the pod ...
CallSucceeds(t) ==
  /\ pc[t] = "call"
  /\ cloud' = [cloud EXCEPT ![cur[t]] = "gone"]
  /\ Goto(t, "remove_read")
  /\ UNCHANGED <<signalVars, createVars, sweepVars, file, tracked, terminated, aborted,
                 stopEvt, ret, region, iterated, ghosts, released, lost, faults>>

\* ... or raises, which _terminate swallows.
CallFails(t) ==
  /\ pc[t] = "call"
  /\ faults < MaxFaults /\ faults' = faults + 1
  /\ lost' = lost \cup {cur[t]}
  /\ Goto(t, "remove_read")
  /\ UNCHANGED <<signalVars, createVars, sweepVars, cloud, file, tracked, terminated,
                 aborted, stopEvt, ret, region, iterated, ghosts, released>>

ReadEntries(t) ==
  /\ pc[t] = "remove_read"
  /\ seen' = [seen EXCEPT ![t] = file]
  /\ Goto(t, "remove_write")
  /\ UNCHANGED <<cloudVars, signalVars, createVars, file, tracked, terminated, aborted,
                 stopEvt, ret, region, todo, cur, iterated, faults>>

WriteWithoutEntry(t) ==
  /\ pc[t] = "remove_write"
  /\ file' = seen[t] \ {cur[t]}
  /\ Goto(t, "next")
  /\ UNCHANGED <<cloudVars, signalVars, createVars, sweepVars, tracked, terminated,
                 aborted, stopEvt, ret, region, iterated, faults>>

Sweep(t) ==
  \/ TakeSnapshot(t) \/ PickPod(t) \/ SweepReturns(t) \/ MarkTerminated(t)
  \/ CallSucceeds(t) \/ CallFails(t) \/ ReadEntries(t) \/ WriteWithoutEntry(t)

-----------------------------------------------------------------------------
(* Creating and recording the pod: create_and_track under deferred_signals. *)

SetDeferring ==
  /\ pc["main"] = "defer"
  /\ deferring' = TRUE
  /\ Goto("main", "clear")
  /\ UNCHANGED <<cloudVars, createVars, sweepVars, file, tracked, terminated, aborted,
                 pending, signals, stopEvt, ret, region, iterated, faults>>

ClearPending ==
  /\ pc["main"] = "clear"
  /\ pending' = FALSE
  /\ Goto("main", "create")
  /\ UNCHANGED <<cloudVars, createVars, sweepVars, file, tracked, terminated, aborted,
                 deferring, signals, stopEvt, ret, region, iterated, faults>>

CreateReturns ==
  /\ pc["main"] = "create"
  /\ \E p \in {q \in Pods : cloud[q] = "none"} :
       /\ cloud' = [cloud EXCEPT ![p] = "billing"]
       /\ pod' = p
  /\ Goto("main", "track")
  /\ UNCHANGED <<signalVars, sweepVars, file, tracked, terminated, aborted, stopEvt, ret,
                 region, attempt, iterated, ghosts, released, lost, faults>>

\* create_pod raises: the next candidate is tried, until none is left.
NextCandidate ==
  /\ attempt' = attempt + 1
  /\ Goto("main", IF attempt + 1 = MaxAttempts THEN "undefer" ELSE "create")

CreateRaises ==
  /\ pc["main"] = "create"
  /\ NextCandidate
  /\ UNCHANGED <<cloudVars, signalVars, sweepVars, file, tracked, terminated, aborted,
                 stopEvt, ret, region, pod, iterated, faults>>

\* create_pod raises (say, on a timeout) after RunPod has allocated the pod.
CreateRaisesAfterAllocation ==
  /\ pc["main"] = "create"
  /\ faults < MaxFaults /\ faults' = faults + 1
  /\ \E p \in {q \in Pods : cloud[q] = "none"} :
       /\ cloud' = [cloud EXCEPT ![p] = "billing"]
       /\ ghosts' = ghosts \cup {p}
  /\ NextCandidate
  /\ UNCHANGED <<signalVars, sweepVars, file, tracked, terminated, aborted, stopEvt, ret,
                 region, pod, iterated, released, lost>>

\* track: the dictionary first, the state file next, then the check for an abort
\* that came while create_pod was in flight.
Track ==
  /\ pc["main"] = "track"
  /\ tracked' = tracked \cup {pod}
  /\ Goto("main", "add_read")
  /\ UNCHANGED <<cloudVars, signalVars, createVars, sweepVars, file, terminated, aborted,
                 stopEvt, ret, region, iterated, faults>>

AddEntryReads ==
  /\ pc["main"] = "add_read"
  /\ seen' = [seen EXCEPT !["main"] = file]
  /\ Goto("main", "add_write")
  /\ UNCHANGED <<cloudVars, signalVars, createVars, file, tracked, terminated, aborted,
                 stopEvt, ret, region, todo, cur, iterated, faults>>

AddEntryWrites ==
  /\ pc["main"] = "add_write"
  /\ file' = seen["main"] \cup {pod}
  /\ Goto("main", "recheck")
  /\ UNCHANGED <<cloudVars, signalVars, createVars, sweepVars, tracked, terminated,
                 aborted, stopEvt, ret, region, iterated, faults>>

\* Mutant: track does not look at guard.aborted again.
RecheckAbortedNever ==
  /\ pc["main"] = "recheck"
  /\ MainSweepsIf(FALSE, "undefer", "undefer")
  /\ UNCHANGED <<cloudVars, signalVars, createVars, sweepVars, file, tracked, terminated,
                 aborted, stopEvt, region, iterated, faults>>

RecheckAborted ==
  /\ pc["main"] = "recheck"
  /\ MainSweepsIf(aborted, "undefer", "undefer")
  /\ UNCHANGED <<cloudVars, signalVars, createVars, sweepVars, file, tracked, terminated,
                 aborted, stopEvt, region, iterated, faults>>

\* finally: self._deferring = False ...
ClearDeferring ==
  /\ pc["main"] = "undefer"
  /\ deferring' = FALSE
  /\ Goto("main", "fire")
  /\ UNCHANGED <<cloudVars, createVars, sweepVars, file, tracked, terminated, aborted,
                 pending, signals, stopEvt, ret, region, iterated, faults>>

\* Mutant: the held signal is dropped.
FireHeldSignalNever ==
  /\ pc["main"] = "fire"
  /\ MainSweepsIf(FALSE, "unwind", IF pod = None THEN "unwind" ELSE "raise_if")
  /\ UNCHANGED <<cloudVars, signalVars, createVars, sweepVars, file, tracked, terminated,
                 aborted, stopEvt, region, iterated, faults>>

\* ... and a held signal fires; with no candidate left SystemExit goes on.
FireHeldSignal ==
  /\ pc["main"] = "fire"
  /\ MainSweepsIf(pending, "unwind", IF pod = None THEN "unwind" ELSE "raise_if")
  /\ UNCHANGED <<cloudVars, signalVars, createVars, sweepVars, file, tracked, terminated,
                 aborted, stopEvt, region, iterated, faults>>

RaiseIfAborted ==
  /\ pc["main"] = "raise_if"
  /\ Goto("main", IF aborted THEN "unwind" ELSE "provision")
  /\ UNCHANGED <<cloudVars, signalVars, createVars, sweepVars, file, tracked, terminated,
                 aborted, stopEvt, ret, region, iterated, faults>>

-----------------------------------------------------------------------------
(* Working on the pod and leaving.                                          *)

\* wait_ready, wait_for_ssh and rsync succeed or raise.
Provision ==
  /\ pc["main"] = "provision"
  /\ \/ Goto("main", "body") /\ region' = "body"
     \/ Goto("main", "unwind") /\ UNCHANGED region
  /\ UNCHANGED <<cloudVars, signalVars, createVars, sweepVars, file, tracked, terminated,
                 aborted, stopEvt, ret, iterated, faults>>

\* Mutant: the runner scores without stopping the pod.
StopPodNot ==
  /\ pc["main"] = "body"
  /\ MainSweepsIf(FALSE, "score", "score")
  /\ UNCHANGED <<cloudVars, signalVars, createVars, sweepVars, file, tracked, terminated,
                 aborted, stopEvt, region, iterated, faults>>

\* The runner stops the pod before it scores (a no-op under --keep) ...
StopPod ==
  /\ pc["main"] = "body"
  /\ MainSweepsIf(~Keep, "score", "score")
  /\ UNCHANGED <<cloudVars, signalVars, createVars, sweepVars, file, tracked, terminated,
                 aborted, stopEvt, region, iterated, faults>>

\* ... or leaves the block before that, with an exception.
LeaveBody ==
  /\ pc["main"] = "body"
  /\ Goto("main", "unwind")
  /\ UNCHANGED <<cloudVars, signalVars, createVars, sweepVars, file, tracked, terminated,
                 aborted, stopEvt, ret, region, iterated, faults>>

Score ==
  /\ pc["main"] = "score"
  /\ Goto("main", "unwind")
  /\ UNCHANGED <<cloudVars, signalVars, createVars, sweepVars, file, tracked, terminated,
                 aborted, stopEvt, ret, region, iterated, faults>>

\* Control leaves the innermost block: the yield of provision (whose finally clause
\* runs), the with block (whose __exit__ runs), __exit__ itself (the atexit hook still
\* runs if it was not unregistered).
Unwind ==
  /\ pc["main"] = "unwind"
  /\ CASE region = "body"    -> /\ Goto("main", "finally") /\ region' = "guarded"
                                /\ UNCHANGED ret
       [] region = "guarded" -> /\ Goto("main", "exit") /\ region' = "exiting"
                                /\ UNCHANGED ret
       [] region = "exiting" /\ ~stopEvt -> MainSweeps("exited") /\ region' = "atexit"
       [] OTHER              -> Goto("main", "exited") /\ UNCHANGED <<region, ret>>
  /\ UNCHANGED <<cloudVars, signalVars, createVars, sweepVars, file, tracked, terminated,
                 aborted, stopEvt, iterated, faults>>

Finally ==
  /\ pc["main"] = "finally"
  /\ Goto("main", IF Keep THEN "release" ELSE "unwind")
  /\ UNCHANGED <<cloudVars, signalVars, createVars, sweepVars, file, tracked, terminated,
                 aborted, stopEvt, ret, region, iterated, faults>>

\* Mutant: the pod stays in the dictionary.
ReleaseEntryOnly ==
  /\ pc["main"] = "release"
  /\ UNCHANGED tracked
  /\ released' = released \cup {pod}
  /\ cur' = [cur EXCEPT !["main"] = pod]
  /\ todo' = [todo EXCEPT !["main"] = {}]
  /\ ret' = "unwind"
  /\ Goto("main", "remove_read")
  /\ UNCHANGED <<signalVars, createVars, cloud, file, terminated, aborted, stopEvt,
                 region, seen, iterated, ghosts, lost, faults>>

\* release: out of the dictionary, then out of the state file (remove_entry).
Release ==
  /\ pc["main"] = "release"
  /\ tracked' = tracked \ {pod}
  /\ released' = released \cup {pod}
  /\ cur' = [cur EXCEPT !["main"] = pod]
  /\ todo' = [todo EXCEPT !["main"] = {}]
  /\ ret' = "unwind"
  /\ Goto("main", "remove_read")
  /\ UNCHANGED <<signalVars, createVars, cloud, file, terminated, aborted, stopEvt,
                 region, seen, iterated, ghosts, lost, faults>>

\* __exit__: the hook is unregistered and the watchdog told to stop.
StopWatchdog ==
  /\ pc["main"] = "exit"
  /\ stopEvt' = TRUE
  /\ Goto("main", "join")
  /\ UNCHANGED <<cloudVars, signalVars, createVars, sweepVars, file, tracked, terminated,
                 aborted, ret, region, iterated, faults>>

\* Mutant: __exit__ leaves the terminating to the watchdog.
JoinOnly ==
  /\ pc["main"] = "join"
  /\ pc["watchdog"] # "wait"
  /\ Goto("main", "exited") /\ UNCHANGED ret
  /\ UNCHANGED <<cloudVars, signalVars, createVars, sweepVars, file, tracked, terminated,
                 aborted, stopEvt, region, iterated, faults>>

\* The join returns once the thread is dead, or times out if it is inside an evaluation;
\* either way a last terminate_all follows.
Join ==
  /\ pc["main"] = "join"
  /\ pc["watchdog"] # "wait"
  /\ MainSweeps("exited")
  /\ UNCHANGED <<cloudVars, signalVars, createVars, sweepVars, file, tracked, terminated,
                 aborted, stopEvt, region, iterated, faults>>

ProcessExits ==
  /\ pc["main"] = "exited"
  /\ pc["watchdog"] \in DeadWatchdog
  /\ Goto("main", "ended")
  /\ UNCHANGED <<cloudVars, signalVars, createVars, sweepVars, file, tracked, terminated,
                 aborted, stopEvt, ret, region, iterated, faults>>

-----------------------------------------------------------------------------
(* Signals.                                                                  *)

\* The call thread t is in ends with it: the request may have reached the API or not.
CutShort(t) ==
  IF pc[t] = "call"
  THEN \/ cloud' = [cloud EXCEPT ![cur[t]] = "gone"] /\ UNCHANGED lost
       \/ lost' = lost \cup {cur[t]} /\ UNCHANGED cloud
  ELSE UNCHANGED <<cloud, lost>>

\* _on_signal, between two steps of the main thread.  Outside the critical section its
\* SystemExit never returns to the interrupted step.
Signal ==
  /\ pc["main"] \notin {"exited", "ended"}
  /\ signals < MaxSignals /\ signals' = signals + 1
  /\ IF deferring
     THEN pending' = TRUE /\ UNCHANGED <<pc, ret, cloud, lost>>
     ELSE MainSweeps("unwind") /\ CutShort("main") /\ UNCHANGED pending
  /\ UNCHANGED <<createVars, sweepVars, file, tracked, terminated, aborted, deferring,
                 stopEvt, region, iterated, ghosts, released, faults>>

-----------------------------------------------------------------------------
(* The watchdog thread.                                                     *)

\* _stop.wait times out: an evaluation starts, and _sample begins to iterate.
Tick ==
  /\ pc["watchdog"] = "wait" /\ ~stopEvt
  /\ iterated' = tracked
  /\ Goto("watchdog", "sample")
  /\ UNCHANGED <<cloudVars, signalVars, createVars, sweepVars, file, tracked, terminated,
                 aborted, stopEvt, ret, region, faults>>

\* The iteration ends.  Python raises if the dictionary changed size meanwhile, and
\* nothing in _loop catches it: the thread dies.
Sample ==
  /\ pc["watchdog"] = "sample"
  /\ Goto("watchdog", IF Cardinality(tracked) = Cardinality(iterated)
                      THEN "decide" ELSE "crashed")
  /\ UNCHANGED <<cloudVars, signalVars, createVars, sweepVars, file, tracked, terminated,
                 aborted, stopEvt, ret, region, iterated, faults>>

\* A progress function raises something it does not catch (ssh cannot be started).
SamplerRaises ==
  /\ pc["watchdog"] = "sample" /\ iterated # {}
  /\ faults < MaxFaults /\ faults' = faults + 1
  /\ Goto("watchdog", "crashed")
  /\ UNCHANGED <<cloudVars, signalVars, createVars, sweepVars, file, tracked, terminated,
                 aborted, stopEvt, ret, region, iterated>>

\* No reason to abort, or the run is aborted already.
NoAbort ==
  /\ pc["watchdog"] = "decide"
  /\ Goto("watchdog", "wait")
  /\ UNCHANGED <<cloudVars, signalVars, createVars, sweepVars, file, tracked, terminated,
                 aborted, stopEvt, ret, region, iterated, faults>>

\* Mutant: the abort is not recorded for the main thread.
AbortUnrecorded ==
  /\ pc["watchdog"] = "decide" /\ ~aborted
  /\ UNCHANGED aborted
  /\ Goto("watchdog", "snapshot")
  /\ UNCHANGED <<cloudVars, signalVars, createVars, sweepVars, file, tracked, terminated,
                 stopEvt, ret, region, iterated, faults>>

\* if reason and not self.aborted
Abort ==
  /\ pc["watchdog"] = "decide" /\ ~aborted
  /\ aborted' = TRUE
  /\ Goto("watchdog", "snapshot")
  /\ UNCHANGED <<cloudVars, signalVars, createVars, sweepVars, file, tracked, terminated,
                 stopEvt, ret, region, iterated, faults>>

WatchdogStops ==
  /\ pc["watchdog"] = "wait" /\ stopEvt
  /\ Goto("watchdog", "stopped")
  /\ UNCHANGED <<cloudVars, signalVars, createVars, sweepVars, file, tracked, terminated,
                 aborted, stopEvt, ret, region, iterated, faults>>

\* The interpreter exits and takes the daemon thread with it, wherever it is.
KillWatchdog ==
  /\ pc["main"] = "exited" /\ pc["watchdog"] \notin DeadWatchdog
  /\ CutShort("watchdog")
  /\ Goto("watchdog", "killed")
  /\ UNCHANGED <<signalVars, createVars, sweepVars, file, tracked, terminated, aborted,
                 stopEvt, ret, region, iterated, ghosts, released, faults>>

-----------------------------------------------------------------------------
\* Steps of the main thread other than those of the benchmark body.
MainStep ==
  \/ SetDeferring \/ ClearPending
  \/ CreateReturns \/ CreateRaises \/ CreateRaisesAfterAllocation
  \/ Track \/ AddEntryReads \/ AddEntryWrites \/ RecheckAborted
  \/ ClearDeferring \/ FireHeldSignal \/ RaiseIfAborted
  \/ Provision \/ Score \/ Unwind \/ Finally \/ Release
  \/ StopWatchdog \/ Join \/ ProcessExits \/ Sweep("main")

WatchdogStep ==
  \/ Tick \/ Sample \/ SamplerRaises \/ NoAbort \/ Abort \/ WatchdogStops
  \/ KillWatchdog \/ Sweep("watchdog")

\* A run that has ended stays so.
Ended == pc["main"] = "ended" /\ UNCHANGED vars

Next == MainStep \/ StopPod \/ LeaveBody \/ WatchdogStep \/ Signal \/ Ended

Spec == Init /\ [][Next]_vars

(* Both threads are scheduled; the interpreter's exit waits for no daemon     *)
(* thread; max_run is reached some day, so an evaluation that keeps happening *)
(* aborts; and the body, which polls guard.aborted in _wait_procs and between *)
(* levels, leaves once it is set.  Nothing is assumed of a body whose run is  *)
(* not aborted: its agents may hang.                                          *)
Fairness ==
  /\ WF_vars(MainStep)
  /\ WF_vars(WatchdogStep)
  /\ WF_vars(KillWatchdog)
  /\ SF_vars(Abort)
  /\ WF_vars(aborted /\ LeaveBody)

FairSpec == Spec /\ Fairness
-----------------------------------------------------------------------------
(* Properties.                                                              *)

\* Type invariant: every variable of a run under the guard (pod_guard.py's PodGuard,
\* its two threads and the history) stays in its domain.
TypeOK ==
  /\ cloud \in [Pods -> {"none", "billing", "gone"}]
  /\ file \subseteq Pods /\ tracked \subseteq Pods /\ terminated \subseteq Pods
  /\ aborted \in BOOLEAN /\ deferring \in BOOLEAN
  /\ pending \in BOOLEAN /\ stopEvt \in BOOLEAN
  /\ pc \in [Threads -> MainSteps \cup WatchdogSteps]
  /\ pc["main"] \in MainSteps /\ pc["watchdog"] \in WatchdogSteps
  /\ ret \in Returns /\ region \in Regions
  /\ pod \in Pods \cup {None} /\ attempt \in 0 .. MaxAttempts
  /\ todo \in [Threads -> SUBSET Pods]
  /\ cur \in [Threads -> Pods \cup {None}]
  /\ seen \in [Threads -> SUBSET Pods]
  /\ iterated \subseteq Pods
  /\ ghosts \subseteq Pods /\ released \subseteq Pods /\ lost \subseteq Pods
  /\ signals \in 0 .. MaxSignals /\ faults \in 0 .. MaxFaults

Billing == {p \in Pods : cloud[p] = "billing"}
InSweep(t) == pc[t] \in SweepSteps

\* Steps of the main thread once the pod is in the dictionary and no signal is held.
Working == {"provision", "body", "score"}

\* A run that is over leaves a pod billing only if create_pod hid it, --keep released it
\* or a terminate call for it failed or was cut short: no interleaving of the watchdog's
\* abort, signals and the exit path (pod_guard.py 209-290) forgets a pod silently.
NoSilentLeak ==
  pc["main"] = "ended" => Billing \subseteq ghosts \cup released \cup lost

\* The pod of a create_pod that was in flight when the watchdog aborted is terminated
\* by track's second look at guard.aborted (pod_guard.py 183-187) or by the watchdog's
\* own sweep: past that look, an abort whose sweep is over has covered every tracked pod.
LateTrackedPodIsKilled ==
  /\ aborted /\ ~InSweep("watchdog")
  /\ pc["main"] \in {"undefer", "fire", "raise_if"} \cup Working
  => tracked \subseteq terminated

\* A signal held during create_and_track stops the run: no work is done on the pod with a
\* signal still pending (pod_guard.py 276-280).
PendingSignalStopsTheRun == pc["main"] \in Working => ~pending

\* bench_sdd.run 528: the gates are scored with the pod down.  The exceptions are a lost
\* call and a call the watchdog still has in flight: stop_pod returns over a pod that
\* _terminated already names, whoever is terminating it.
GatesScoreWithPodDown ==
  pc["main"] = "score" /\ ~Keep =>
    \/ cloud[pod] = "gone" \/ pod \in lost
    \/ pc["watchdog"] = "call" /\ cur["watchdog"] = pod

\* If the process is killed outright, the next run must find the pod it was paying for.
\* From the moment track returns, a pod that still bills and that no terminate call was
\* spent on has its entry in the state file, through every race of the two threads'
\* unlocked read-modify-writes (add_entry, remove_entry).
CrashLeavesAnEntry ==
  \A p \in tracked : \/ p \in file \/ p \in terminated
                      \/ pc["main"] \in {"add_read", "add_write"}

\* An entry leaves the state file only for a pod that terminate_all has dealt with or
\* that release gave up, so a crash at any time leaves nothing unrecorded.
EntriesLeaveLast ==
  [][\A p \in file : p \notin file' => p \in terminated \cup released]_vars

\* release (pod_guard.py 240-245) is final within its own run: a pod that outlived it is
\* not terminated later, neither by __exit__ nor by the watchdog, unless the watchdog had
\* already taken its snapshot of the dictionary, or a signal came before.
ReleasedPodSurvives ==
  [][\A p \in released : cloud[p] = "billing" /\ cloud'[p] = "gone" =>
        pc["watchdog"] = "call" /\ aborted]_vars

\* README: the pod is terminated on every exit path, "success, error, Ctrl-C, even
\* SIGTERM".  Without faults and without --keep, a run that no abort ended leaves no pod
\* billing.
UnabortedExitLeavesNoBilledPod == pc["main"] = "ended" /\ ~aborted => Billing = {}

\* Every run ends, unless its watchdog thread died: an aborted run leaves the critical
\* section, the body and __exit__ whatever the other thread does.
RunEndsOrWatchdogDies == <>(pc["main"] = "ended" \/ pc["watchdog"] = "crashed")

\* README: the watchdog kills the pod when the wall-clock ceiling is hit, so every run
\* ends even if its agents hang.
EveryRunEnds == <>(pc["main"] = "ended")

\* An abort terminates the pod: every pod tracked when the run is aborted, or later, ends
\* up terminated, released or lost.
AbortStopsThePod ==
  \A p \in Pods :
    (aborted /\ p \in tracked) ~> (cloud[p] = "gone" \/ p \in released \cup lost)

\* The run implements the promise of PodBilling.
Promise == INSTANCE PodBilling WITH
  bill <- cloud,
  excused <- ghosts \cup released \cup lost,
  over <- pc["main"] = "ended"
KeepsPromise == Promise!Spec
=============================================================================
