--------------------------- MODULE PodGuardProofs ---------------------------
(***************************************************************************)
(* Theorems about PodGuard, for every set of pods and every bound: the      *)
(* parts of IInv are preserved together by each step, the safety properties *)
(* follow from it, and a run implements the promise of PodBilling.           *)
(***************************************************************************)
EXTENDS PodGuardInv, TLAPS

USE NoneAssumption, KeepAssumption, BoundsAssumption

\* The vocabulary every step is stated in.
USE DEF Threads, MainSteps, WatchdogSteps, DeadWatchdog, SweepSteps, Returns, Regions,
        Goto, cloudVars, signalVars, sweepVars, createVars, InSweep, Working, Billing

-----------------------------------------------------------------------------
(* The inductive invariant.                                                  *)

LEMMA InitInv == Init => IInv
<1> SUFFICES ASSUME Init PROVE IInv
  OBVIOUS
<1>1. /\ aborted \in BOOLEAN /\ deferring \in BOOLEAN
      /\ pending \in BOOLEAN /\ stopEvt \in BOOLEAN
  BY Zenon DEF Init
<1>2. QED
  BY <1>1 DEF Init, IInv, TypeOK, OnePod, PodKnown, Deferred, Recorded, Accounted, BeforeExit,
         Covered, AbortCovered, CrashLeavesAnEntry, InSection, Swept, WillTerminate

\* terminate_all, in either thread.
LEMMA SweepPreservesInv ==
  ASSUME IInv, NEW t \in Threads, Sweep(t)
  PROVE  IInv'
<1> USE DEF IInv, TypeOK, OnePod, PodKnown, Deferred, Recorded, Accounted, BeforeExit,
            Covered, AbortCovered, CrashLeavesAnEntry, InSection, Swept, WillTerminate
<1>1. CASE TakeSnapshot(t)
  BY <1>1, SMTT(60) DEF TakeSnapshot
<1>2. CASE PickPod(t)
  BY <1>2, SMTT(60) DEF PickPod, PickStep
<1>3. CASE SweepReturns(t)
  BY <1>3, SMTT(60) DEF SweepReturns, ReturnOf
<1>4. CASE MarkTerminated(t)
  BY <1>4, SMTT(60) DEF MarkTerminated
<1>5. CASE CallSucceeds(t)
  BY <1>5, SMTT(60) DEF CallSucceeds
<1>6. CASE CallFails(t)
  BY <1>6, SMTT(60) DEF CallFails
<1>7. CASE ReadEntries(t)
  BY <1>7, SMTT(60) DEF ReadEntries
<1>8. CASE WriteWithoutEntry(t)
  BY <1>8, SMTT(60) DEF WriteWithoutEntry
<1>9. QED
  BY <1>1, <1>2, <1>3, <1>4, <1>5, <1>6, <1>7, <1>8 DEF Sweep

\* create_and_track, under deferred_signals.
LEMMA CreatePreservesInv ==
  ASSUME IInv,
         SetDeferring \/ ClearPending \/ CreateReturns \/ CreateRaises \/
         CreateRaisesAfterAllocation \/
         Track \/ AddEntryReads \/ AddEntryWrites \/ RecheckAborted \/
         ClearDeferring \/ FireHeldSignal \/ RaiseIfAborted
  PROVE  IInv'
<1> USE DEF IInv, TypeOK, OnePod, PodKnown, Deferred, Recorded, Accounted, BeforeExit,
            Covered, AbortCovered, CrashLeavesAnEntry, InSection, Swept, WillTerminate
<1>1. CASE SetDeferring
  BY <1>1, SMTT(60) DEF SetDeferring
<1>2. CASE ClearPending
  <2>1. pending' \in BOOLEAN
    BY <1>2, Zenon DEF ClearPending
  <2>2. QED
    BY <1>2, <2>1, SMTT(60) DEF ClearPending
<1>3. CASE CreateReturns
  BY <1>3, SMTT(60) DEF CreateReturns
<1>4. CASE CreateRaises
  BY <1>4, SMTT(60) DEF CreateRaises, NextCandidate
<1>5. CASE CreateRaisesAfterAllocation
  BY <1>5, SMTT(60) DEF CreateRaisesAfterAllocation, NextCandidate
<1>6. CASE Track
  BY <1>6, SMTT(60) DEF Track
<1>7. CASE AddEntryReads
  BY <1>7, SMTT(60) DEF AddEntryReads
<1>8. CASE AddEntryWrites
  BY <1>8, SMTT(60) DEF AddEntryWrites
<1>9. CASE RecheckAborted
  BY <1>9, SMTT(60) DEF RecheckAborted, MainSweepsIf, MainSweeps
<1>10. CASE ClearDeferring
  <2>1. deferring' \in BOOLEAN
    BY <1>10, Zenon DEF ClearDeferring
  <2>2. QED
    BY <1>10, <2>1, SMTT(60) DEF ClearDeferring
<1>11. CASE FireHeldSignal
  BY <1>11, SMTT(60) DEF FireHeldSignal, MainSweepsIf, MainSweeps
<1>12. CASE RaiseIfAborted
  BY <1>12, SMTT(60) DEF RaiseIfAborted
<1>13. QED
  BY <1>1, <1>2, <1>3, <1>4, <1>5, <1>6, <1>7, <1>8, <1>9, <1>10, <1>11, <1>12

\* Working on the pod, and every way out.
LEMMA WorkPreservesInv ==
  ASSUME IInv,
         Provision \/ StopPod \/ LeaveBody \/ Score \/ Unwind \/ Finally \/
         Release \/ StopWatchdog \/ Join \/ ProcessExits
  PROVE  IInv'
<1> USE DEF IInv, TypeOK, OnePod, PodKnown, Deferred, Recorded, Accounted, BeforeExit,
            Covered, AbortCovered, CrashLeavesAnEntry, InSection, Swept, WillTerminate
<1>1. CASE Provision
  BY <1>1, SMTT(60) DEF Provision
<1>2. CASE StopPod
  BY <1>2, SMTT(60) DEF StopPod, MainSweepsIf, MainSweeps
<1>3. CASE LeaveBody
  BY <1>3, SMTT(60) DEF LeaveBody
<1>4. CASE Score
  BY <1>4, SMTT(60) DEF Score
<1>5. CASE Unwind
  BY <1>5, SMTT(60) DEF Unwind, MainSweeps
<1>6. CASE Finally
  BY <1>6, SMTT(60) DEF Finally
<1>7. CASE Release
  BY <1>7, SMTT(60) DEF Release
<1>8. CASE StopWatchdog
  BY <1>8, SMTT(60) DEF StopWatchdog
<1>9. CASE Join
  BY <1>9, SMTT(60) DEF Join, MainSweeps
<1>10. CASE ProcessExits
  BY <1>10, SMTT(60) DEF ProcessExits
<1>11. QED
  BY <1>1, <1>2, <1>3, <1>4, <1>5, <1>6, <1>7, <1>8, <1>9, <1>10

\* A signal between two steps of the main thread: held in the section, and outside it
\* followed by a terminate_all that starts from the current dictionary.
LEMMA SignalPreservesInv ==
  ASSUME IInv, Signal
  PROVE  IInv'
<1> USE DEF IInv, TypeOK, OnePod, PodKnown, Deferred, Recorded, Accounted, BeforeExit,
            Covered, AbortCovered, CrashLeavesAnEntry, InSection, Swept, WillTerminate
<1>1. CASE deferring
  <2>1. pending' \in BOOLEAN
    BY <1>1, Zenon DEF Signal
  <2>2. QED
    BY <1>1, <2>1, SMTT(60) DEF Signal
<1>2. CASE ~deferring
  <2>1. pending' \in BOOLEAN
    BY <1>2, Zenon DEF Signal
  <2>2. QED
    BY <1>2, <2>1, SMTT(60) DEF Signal, MainSweeps, CutShort
<1>3. QED
  BY <1>1, <1>2

\* The watchdog thread outside terminate_all.
LEMMA WatchdogPreservesInv ==
  ASSUME IInv,
         Tick \/ Sample \/ SamplerRaises \/ NoAbort \/ Abort \/ WatchdogStops \/ KillWatchdog
  PROVE  IInv'
<1> USE DEF IInv, TypeOK, OnePod, PodKnown, Deferred, Recorded, Accounted, BeforeExit,
            Covered, AbortCovered, CrashLeavesAnEntry, InSection, Swept, WillTerminate
<1>1. CASE Tick
  BY <1>1, SMTT(60) DEF Tick
<1>2. CASE Sample
  BY <1>2, SMTT(60) DEF Sample
<1>3. CASE SamplerRaises
  BY <1>3, SMTT(60) DEF SamplerRaises
<1>4. CASE NoAbort
  BY <1>4, SMTT(60) DEF NoAbort
<1>5. CASE Abort
  BY <1>5, SMTT(60) DEF Abort
<1>6. CASE WatchdogStops
  BY <1>6, SMTT(60) DEF WatchdogStops
<1>7. CASE KillWatchdog
  BY <1>7, SMTT(60) DEF KillWatchdog, CutShort
<1>8. QED
  BY <1>1, <1>2, <1>3, <1>4, <1>5, <1>6, <1>7

LEMMA NextPreservesInv == IInv /\ [Next]_vars => IInv'
<1>1. ASSUME IInv, Next PROVE IInv'
  <2>1. CASE Ended
    BY <1>1, <2>1 DEF Ended, vars, IInv, TypeOK, OnePod, PodKnown, Deferred, Recorded,
       Accounted, BeforeExit, Covered, AbortCovered, CrashLeavesAnEntry, InSection, Swept,
       WillTerminate
  <2>2. QED
    BY <1>1, <2>1, SweepPreservesInv, CreatePreservesInv, WorkPreservesInv,
       SignalPreservesInv, WatchdogPreservesInv DEF Next, MainStep, WatchdogStep
<1>2. ASSUME IInv, UNCHANGED vars PROVE IInv'
  BY <1>2 DEF vars, IInv, TypeOK, OnePod, PodKnown, Deferred, Recorded, Accounted,
     BeforeExit, Covered, AbortCovered, CrashLeavesAnEntry, InSection, Swept, WillTerminate
<1>3. QED
  BY <1>1, <1>2

\* Every reachable state of a run satisfies the inductive invariant.
THEOREM Invariance == Spec => []IInv
  BY InitInv, NextPreservesInv, PTL DEF Spec

-----------------------------------------------------------------------------
(* The properties.                                                           *)

\* Every variable of PodGuard stays in its domain, whatever the pods and the bounds.
THEOREM TypeCorrect == Spec => []TypeOK
<1>1. IInv => TypeOK
  BY DEF IInv
<1>2. QED
  BY <1>1, Invariance, PTL

\* A pod that still bills when a run is over is one of ghosts, released or lost: it was
\* tracked, so it was covered by a terminate_all, so its call was made or is accounted for.
THEOREM NoLeak == Spec => []NoSilentLeak
<1>1. IInv => NoSilentLeak
  BY DEF IInv, TypeOK, OnePod, Recorded, Accounted, Covered, Swept, NoSilentLeak
<1>2. QED
  BY <1>1, Invariance, PTL

\* The abort that comes while create_pod is in flight is not forgotten.
THEOREM LateTrack == Spec => []LateTrackedPodIsKilled
<1>1. IInv => LateTrackedPodIsKilled
  BY DEF IInv, TypeOK, OnePod, AbortCovered, Swept, WillTerminate, LateTrackedPodIsKilled
<1>2. QED
  BY <1>1, Invariance, PTL

\* No work is done on the pod with a signal pending.
THEOREM PendingSignal == Spec => []PendingSignalStopsTheRun
<1>1. IInv => PendingSignalStopsTheRun
  BY DEF IInv, Deferred, PendingSignalStopsTheRun
<1>2. QED
  BY <1>1, Invariance, PTL

\* The gates score with the pod down, lost, or being terminated by the watchdog.
THEOREM GatesWithPodDown == Spec => []GatesScoreWithPodDown
<1>1. IInv => GatesScoreWithPodDown
  BY DEF IInv, TypeOK, OnePod, PodKnown, Recorded, Accounted, Covered, Swept,
         GatesScoreWithPodDown
<1>2. QED
  BY <1>1, Invariance, PTL

\* A pod that is tracked and that no terminate call was spent on has its entry on disk.
THEOREM CrashSafety == Spec => []CrashLeavesAnEntry
<1>1. IInv => CrashLeavesAnEntry
  BY DEF IInv
<1>2. QED
  BY <1>1, Invariance, PTL

\* An entry leaves the state file only for the pod, and only once it is in _terminated
\* or released: remove_entry follows _terminate, whatever was read before.
THEOREM EntriesOutliveBilling == Spec => EntriesLeaveLast
<1>1. IInv /\ [Next]_vars =>
        [\A p \in file : p \notin file' => p \in terminated \cup released]_vars
  <2> SUFFICES ASSUME IInv, Next, NEW p \in file, p \notin file'
               PROVE  p \in terminated \cup released
    BY Zenon
  <2>1. p = pod /\ p # None
    BY DEF IInv, TypeOK, OnePod
  <2>2. ASSUME NEW t \in Threads, WriteWithoutEntry(t)
        PROVE  p \in terminated \cup released
    BY <2>1, <2>2 DEF WriteWithoutEntry, IInv, TypeOK, Recorded, Accounted, Swept
  <2>3. CASE AddEntryWrites
    BY <2>1, <2>3 DEF AddEntryWrites
  <2>4. ~AddEntryWrites /\ (\A t \in Threads : ~WriteWithoutEntry(t)) => file' = file
    BY DEF Next, MainStep, WatchdogStep, Sweep, Ended, vars, TakeSnapshot, PickPod,
       SweepReturns, MarkTerminated, CallSucceeds, CallFails, ReadEntries, SetDeferring,
       ClearPending, CreateReturns, CreateRaises, CreateRaisesAfterAllocation, Track,
       AddEntryReads, RecheckAborted, ClearDeferring, FireHeldSignal, RaiseIfAborted,
       Provision, StopPod, LeaveBody, Score, Unwind, Finally, Release, StopWatchdog, Join,
       ProcessExits, Signal, Tick, Sample, SamplerRaises, NoAbort, Abort, WatchdogStops,
       KillWatchdog
  <2>5. QED
    BY <2>2, <2>3, <2>4
<1>2. QED
  BY <1>1, Invariance, PTL DEF Spec, EntriesLeaveLast

\* After release no terminate_all of the main thread has the pod to go over, and the
\* watchdog is in one only if it has aborted.
GivenUp ==
  /\ pc["watchdog"] \in SweepSteps => aborted
  /\ pc["main"] \in {"finally", "release"} => region = "guarded"
  /\ released # {} =>
       /\ tracked = {} /\ todo["main"] = {}
       /\ pc["main"] \in {"snapshot", "next", "remove_read", "remove_write", "unwind", "exit",
                         "join", "exited", "ended"}
       /\ ret \in {"unwind", "exited"} /\ region # "body"

LEMMA StepGivenUp == IInv /\ GivenUp /\ [Next]_vars => GivenUp'
<1> SUFFICES ASSUME IInv, GivenUp, [Next]_vars PROVE GivenUp'
  OBVIOUS
<1> USE DEF GivenUp, IInv, TypeOK
<1>1. ASSUME NEW t \in Threads, Sweep(t) PROVE GivenUp'
  BY <1>1 DEF Sweep, TakeSnapshot, PickPod, PickStep, SweepReturns, ReturnOf, MarkTerminated,
     CallSucceeds, CallFails, ReadEntries, WriteWithoutEntry
<1>2. CASE SetDeferring \/ ClearPending \/ CreateReturns \/ CreateRaises \/
           CreateRaisesAfterAllocation \/ Track \/ AddEntryReads \/ AddEntryWrites \/
           RecheckAborted \/ ClearDeferring \/ FireHeldSignal \/ RaiseIfAborted
  BY <1>2 DEF SetDeferring, ClearPending, CreateReturns, CreateRaises,
     CreateRaisesAfterAllocation, NextCandidate, Track, AddEntryReads, AddEntryWrites,
     RecheckAborted, ClearDeferring, FireHeldSignal, RaiseIfAborted, MainSweepsIf, MainSweeps
<1>3. CASE Provision \/ StopPod \/ LeaveBody \/ Score \/ Unwind \/ Finally
  BY <1>3 DEF Provision, StopPod, LeaveBody, Score, Unwind, Finally, MainSweepsIf, MainSweeps
<1>4. CASE Release
  BY <1>4 DEF Release, OnePod
<1>5. CASE StopWatchdog \/ Join \/ ProcessExits
  BY <1>5 DEF StopWatchdog, Join, ProcessExits, MainSweeps
<1>6. CASE Signal
  BY <1>6 DEF Signal, MainSweeps
<1>7. CASE Tick \/ Sample \/ SamplerRaises \/ NoAbort \/ Abort \/ WatchdogStops \/
           KillWatchdog
  BY <1>7 DEF Tick, Sample, SamplerRaises, NoAbort, Abort, WatchdogStops, KillWatchdog
<1>8. CASE UNCHANGED vars
  BY <1>8 DEF vars
<1>9. QED
  BY <1>1, <1>2, <1>3, <1>4, <1>5, <1>6, <1>7, <1>8 DEF Next, MainStep, WatchdogStep, Ended

\* A pod that --keep released is stopped only by a call of a watchdog that had aborted: by
\* GivenUp, no sweep of the main thread reaches it.
THEOREM ReleaseIsFinal == Spec => ReleasedPodSurvives
<1>1. Init => GivenUp
  BY DEF Init, GivenUp
<1>2. IInv /\ GivenUp /\ [Next]_vars =>
        [\A p \in released : cloud[p] = "billing" /\ cloud'[p] = "gone" =>
           pc["watchdog"] = "call" /\ aborted]_vars
  <2> SUFFICES ASSUME IInv, GivenUp, Next, NEW p \in released, cloud[p] = "billing",
                      cloud'[p] = "gone"
               PROVE  pc["watchdog"] = "call" /\ aborted
    BY Zenon
  <2> USE DEF GivenUp, IInv, TypeOK
  <2>1. CASE \E t \in Threads : CallSucceeds(t)
    BY <2>1 DEF CallSucceeds
  <2>2. CASE CreateReturns \/ CreateRaisesAfterAllocation
    BY <2>2 DEF CreateReturns, CreateRaisesAfterAllocation
  <2>3. CASE Signal
    BY <2>3 DEF Signal, CutShort
  <2>4. CASE KillWatchdog
    BY <2>4 DEF KillWatchdog, CutShort
  <2>5. /\ ~CreateReturns /\ ~CreateRaisesAfterAllocation /\ ~Signal /\ ~KillWatchdog
        /\ \A t \in Threads : ~CallSucceeds(t)
        => cloud' = cloud
    BY DEF Next, MainStep, WatchdogStep, Sweep, Ended, vars, TakeSnapshot, PickPod,
       SweepReturns, MarkTerminated, CallFails, ReadEntries, WriteWithoutEntry, SetDeferring,
       ClearPending, CreateRaises, Track, AddEntryReads, AddEntryWrites, RecheckAborted,
       ClearDeferring, FireHeldSignal, RaiseIfAborted, Provision, StopPod, LeaveBody, Score,
       Unwind, Finally, Release, StopWatchdog, Join, ProcessExits, Tick, Sample,
       SamplerRaises, NoAbort, Abort, WatchdogStops
  <2>6. QED
    BY <2>1, <2>2, <2>3, <2>4, <2>5
<1>3. QED
  BY <1>1, <1>2, StepGivenUp, Invariance, PTL DEF Spec, ReleasedPodSurvives

-----------------------------------------------------------------------------
(* Refinement: a run under the guard is a run of PodBilling.                 *)

USE DEF Promise!Billing, Promise!vars

\* The initial states correspond: nothing allocated, nobody excused, not over.
LEMMA InitRefines == Init => Promise!Init
  BY DEF Init, Promise!Init

\* A terminate call that succeeds is a Stop, one that fails an Excuse.
LEMMA CallRefines ==
  ASSUME IInv, NEW t \in Threads, CallSucceeds(t) \/ CallFails(t)
  PROVE  Promise!Next
<1>1. /\ cur[t] = pod /\ pod \in Pods
      /\ cloud[pod] # "none" /\ pc["main"] # "ended" /\ (pc["main"] # "ended")'
  BY DEF IInv, TypeOK, OnePod, PodKnown, Covered, CallSucceeds, CallFails
<1>2. CASE CallSucceeds(t)
  <2>1. Promise!Stop(pod)
    BY <1>1, <1>2 DEF CallSucceeds, Promise!Stop
  <2>2. QED
    BY <1>1, <2>1 DEF Promise!Next
<1>3. CASE CallFails(t)
  <2>1. Promise!Excuse(pod)
    BY <1>1, <1>3 DEF CallFails, Promise!Excuse
  <2>2. QED
    BY <1>1, <2>1 DEF Promise!Next
<1>4. QED
  BY <1>2, <1>3

\* create_pod allocates only while the run pays for no other pod it knows of.
LEMMA CreateRefines ==
  ASSUME IInv, CreateReturns \/ CreateRaisesAfterAllocation
  PROVE  Promise!Next
<1>1. CASE CreateReturns
  <2>1. PICK p \in Pods : cloud[p] = "none" /\ cloud' = [cloud EXCEPT ![p] = "billing"]
    BY <1>1 DEF CreateReturns
  <2>2. Billing \subseteq ghosts
    BY <1>1 DEF CreateReturns, IInv, TypeOK, OnePod, PodKnown
  <2>3. Promise!Allocate(p)
    BY <1>1, <2>1, <2>2 DEF CreateReturns, IInv, TypeOK, Promise!Allocate
  <2>4. QED
    BY <2>3 DEF Promise!Next
<1>2. CASE CreateRaisesAfterAllocation
  <2>1. PICK p \in Pods : /\ cloud[p] = "none" /\ cloud' = [cloud EXCEPT ![p] = "billing"]
                          /\ ghosts' = ghosts \cup {p}
    BY <1>2 DEF CreateRaisesAfterAllocation
  <2>2. Promise!AllocateUnseen(p)
    BY <1>2, <2>1 DEF CreateRaisesAfterAllocation, NextCandidate, IInv, TypeOK,
       Promise!AllocateUnseen
  <2>3. QED
    BY <2>2 DEF Promise!Next
<1>3. QED
  BY <1>1, <1>2

\* release excuses the pod.
LEMMA ReleaseRefines ==
  ASSUME IInv, Release
  PROVE  Promise!Next
<1>1. pod \in Pods /\ cloud[pod] # "none"
  BY DEF Release, IInv, TypeOK, PodKnown
<1>2. Promise!Excuse(pod)
  BY <1>1 DEF Release, IInv, TypeOK, Promise!Excuse
<1>3. QED
  BY <1>1, <1>2 DEF Promise!Next

\* A call cut short has stopped the pod or is excused.
LEMMA CutShortRefines ==
  ASSUME IInv, NEW t \in Threads, CutShort(t), UNCHANGED <<ghosts, released>>,
         pc["main"] # "ended", (pc["main"] # "ended")'
  PROVE  [Promise!Next]_(Promise!vars)
<1>1. CASE pc[t] = "call"
  <2>1. cur[t] = pod /\ pod \in Pods /\ cloud[pod] # "none"
    BY <1>1 DEF IInv, TypeOK, OnePod, PodKnown
  <2>2. Promise!Stop(pod) \/ Promise!Excuse(pod)
    BY <1>1, <2>1 DEF CutShort, Promise!Stop, Promise!Excuse
  <2>3. QED
    BY <2>1, <2>2 DEF Promise!Next
<1>2. CASE pc[t] # "call"
  BY <1>2 DEF CutShort
<1>3. QED
  BY <1>1, <1>2

\* The process exits only with every pod that still bills excused.
LEMMA ExitRefines ==
  ASSUME IInv, ProcessExits
  PROVE  Promise!Next
<1>1. Billing \subseteq ghosts \cup released \cup lost
  BY DEF ProcessExits, IInv, TypeOK, OnePod, Recorded, Accounted, Covered, Swept
<1>2. Promise!End
  BY <1>1 DEF ProcessExits, IInv, TypeOK, Promise!End
<1>3. QED
  BY <1>2 DEF Promise!Next

\* Every other step is invisible.
LEMMA OtherStepsStutter ==
  ASSUME IInv, Next,
         ~(\E t \in Threads : CallSucceeds(t) \/ CallFails(t)),
         ~CreateReturns, ~CreateRaisesAfterAllocation, ~Release, ~Signal, ~KillWatchdog,
         ~ProcessExits
  PROVE  UNCHANGED Promise!vars
<1>1. ASSUME NEW t \in Threads,
             TakeSnapshot(t) \/ PickPod(t) \/ SweepReturns(t) \/
             MarkTerminated(t) \/ ReadEntries(t) \/ WriteWithoutEntry(t)
      PROVE  UNCHANGED Promise!vars
  BY <1>1 DEF TakeSnapshot, PickPod, SweepReturns, MarkTerminated, ReadEntries,
     WriteWithoutEntry, PickStep, ReturnOf, IInv, TypeOK, Covered
<1>2. CASE SetDeferring \/ ClearPending \/ CreateRaises \/ Track \/ AddEntryReads \/
           AddEntryWrites \/ RecheckAborted \/ ClearDeferring \/ FireHeldSignal \/
           RaiseIfAborted
  BY <1>2 DEF IInv, TypeOK, SetDeferring, ClearPending, CreateRaises, Track, AddEntryReads,
     AddEntryWrites, RecheckAborted, ClearDeferring, FireHeldSignal, RaiseIfAborted,
     NextCandidate, MainSweepsIf, MainSweeps
<1>3. CASE Provision \/ StopPod \/ LeaveBody \/ Score \/ Unwind \/ Finally \/
           StopWatchdog \/ Join
  BY <1>3 DEF IInv, TypeOK, Provision, StopPod, LeaveBody, Score, Unwind, Finally,
     StopWatchdog, Join, MainSweepsIf, MainSweeps
<1>4. CASE Tick \/ Sample \/ SamplerRaises \/ NoAbort \/ Abort \/ WatchdogStops
  BY <1>4 DEF IInv, TypeOK, Tick, Sample, SamplerRaises, NoAbort, Abort, WatchdogStops
<1>5. CASE Ended
  BY <1>5 DEF Ended, vars
<1>6. QED
  BY <1>1, <1>2, <1>3, <1>4, <1>5 DEF Next, MainStep, WatchdogStep, Sweep

\* A run under the guard keeps the promise of PodBilling: at most one unexcused pod bills
\* at any time, and the run is over only when every pod that still bills is excused.
THEOREM Refinement == Spec => KeepsPromise
<1>1. IInv /\ [Next]_vars => [Promise!Next]_(Promise!vars)
  <2>1. ASSUME IInv, Next PROVE [Promise!Next]_(Promise!vars)
    <3>1. CASE Signal
      BY <2>1, <3>1, CutShortRefines DEF Signal, MainSweeps, IInv, TypeOK
    <3>2. CASE KillWatchdog
      BY <2>1, <3>2, CutShortRefines DEF KillWatchdog, IInv, TypeOK
    <3>3. QED
      BY <2>1, <3>1, <3>2, CallRefines, CreateRefines, ReleaseRefines, ExitRefines,
         OtherStepsStutter
  <2>2. ASSUME UNCHANGED vars PROVE UNCHANGED Promise!vars
    BY <2>2 DEF vars
  <2>3. QED
    BY <2>1, <2>2
<1>2. QED
  BY <1>1, InitRefines, Invariance, PTL DEF Spec, KeepsPromise, Promise!Spec
=============================================================================
