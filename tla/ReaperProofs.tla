----------------------------- MODULE ReaperProofs -----------------------------
(* Proofs about Reaper.tla, for all sets of pods and pids and all numbers of  *)
(* crashes, faults, reused pids and uses of `make reap`.                      *)
EXTENDS Reaper, TLAPS

-----------------------------------------------------------------------------
(* The inductive invariant.                                                  *)

Reaping == {"read", "orphans", "orphan_entry", "list", "sweep"}
Holding == {"track", "work", "forget"}

\* The pod of this run: none while it reaps, one of ours while it holds one.
PodInv ==
  /\ pc \in Reaping \cup {"create"} => pod = None
  /\ pc \in Holding => pod \in Ours /\ cloud[pod] # "none"

\* What a run terminates has been created at some time, so that no later create gives it
\* again, and what it terminated bills no longer unless the call failed.
Dealt ==
  /\ \A p \in RecordedPods \cup orphans \cup sweep \cup terminated : cloud[p] # "none"
  /\ \A p \in terminated : cloud[p] = "billing" => p \in failed

\* The entry about to be removed is that of a pod that was dealt with, or kept.
AtHand ==
  /\ pc = "orphan_entry" => cur \in terminated
  /\ pc = "forget" => pod \in terminated \cup kept

\* Why StartsFromACleanSlate holds: every other pod of ours that bills is still ahead of
\* reap_orphans, as an orphan, as one without an entry or in the sweep, or is excused.
Ahead(p) ==
  \/ p \in failed \cup shielded
  \/ p \in orphans /\ pc \in {"orphans", "orphan_entry"}
  \/ p \notin RecordedPods /\ (listFailed \/ pc \in {"orphans", "orphan_entry", "list"})
  \/ p \in sweep /\ pc = "sweep"

Slate ==
  pc \in (Reaping \ {"read"}) \cup {"create", "track", "work"} =>
    \A p \in (Billing \cap Ours) \ {pod} : Ahead(p)

Inv == TypeOK /\ PodInv /\ Dealt /\ AtHand /\ Slate

-----------------------------------------------------------------------------
(* Types.                                                                    *)

LEMMA InitInv == Init => Inv
  <1> SUFFICES ASSUME Init PROVE Inv
    OBVIOUS
  <1>1. TypeOK
    <2>1. torn \in BOOLEAN /\ listFailed \in BOOLEAN /\ (torn => entries = {})
      BY Zenon DEF Init
    <2> QED
      BY <2>1, BoundsAssumption DEF Init, TypeOK, Entry, Pods
  <1>2. RecordedPods = {}
    BY DEF Init, RecordedPods
  <1> QED
    BY <1>1, <1>2 DEF Init, Inv, PodInv, Dealt, AtHand, Slate, Reaping, Holding

\* _terminate keeps the types.
LEMMA TerminateType ==
  ASSUME TypeOK, NEW p \in Ours, Terminate(p)
  PROVE  /\ cloud' \in [Pods -> {"none", "billing", "gone"}]
         /\ terminated' \subseteq Ours /\ failed' \subseteq Ours /\ faults' \in 0 .. MaxFaults
  <1>1. CASE p \in terminated
    BY <1>1 DEF TypeOK, Terminate
  <1>2. CASE p \notin terminated
    BY <1>2, BoundsAssumption DEF TypeOK, Terminate, Fault, Pods
  <1> QED
    BY <1>1, <1>2

LEMMA StepType == TypeOK /\ PodInv /\ [Next]_vars => TypeOK'
  <1> SUFFICES ASSUME TypeOK, PodInv, [Next]_vars PROVE TypeOK'
    OBVIOUS
  <1> USE PodsAssumption, PidsAssumption, BoundsAssumption
       DEF runVars, fileVars, panicVars, processVars
  <1>1. CASE StartRun
    <2>1. listFailed' \in BOOLEAN
      BY <1>1, Zenon DEF StartRun
    <2> QED
      BY <1>1, <2>1 DEF StartRun, Reuse, TypeOK
  <1>2. CASE ReapOrphans
    <2>1. CASE SelectOrphans
      BY <2>1 DEF SelectOrphans, TypeOK, Entry, RecordedPods
    <2>2. CASE ReapOrphan
      <3>1. PICK p \in orphans : cur' = p /\ orphans' = orphans \ {p} /\ Terminate(p)
        BY <2>2 DEF ReapOrphan
      <3>2. p \in Ours
        BY DEF TypeOK
      <3>3. /\ cloud' \in [Pods -> {"none", "billing", "gone"}]
            /\ terminated' \subseteq Ours /\ failed' \subseteq Ours /\ faults' \in 0 .. MaxFaults
        BY <3>1, <3>2, TerminateType
      <3> QED
        BY <2>2, <3>1, <3>2, <3>3 DEF ReapOrphan, TypeOK
    <2>3. CASE ForgetOrphan
      BY <2>3 DEF ForgetOrphan, WriteEntries, Without, TypeOK
    <2>4. CASE OrphansDone \/ ListPods \/ SweepDone
      BY <2>4 DEF OrphansDone, ListPods, SweepDone, TypeOK, Billing
    <2>6. CASE ListPodsFails
      <3>1. listFailed' \in BOOLEAN
        BY <2>6, Zenon DEF ListPodsFails
      <3> QED
        BY <2>6, <3>1 DEF ListPodsFails, Fault, TypeOK
    <2>5. CASE SweepPod
      <3>1. PICK p \in sweep : sweep' = sweep \ {p} /\ Terminate(p)
        BY <2>5 DEF SweepPod
      <3>2. p \in Ours
        BY DEF TypeOK
      <3>3. /\ cloud' \in [Pods -> {"none", "billing", "gone"}]
            /\ terminated' \subseteq Ours /\ failed' \subseteq Ours /\ faults' \in 0 .. MaxFaults
        BY <3>1, <3>2, TerminateType
      <3> QED
        BY <2>5, <3>1, <3>2, <3>3 DEF SweepPod, TypeOK
    <2> QED
      BY <1>2, <2>1, <2>2, <2>3, <2>4, <2>5, <2>6 DEF ReapOrphans
  <1>3. CASE CreatePod \/ CreateFails
    BY <1>3 DEF CreatePod, CreateFails, Fault, TypeOK, Pods
  <1>4. CASE Track
    <2>1. pod \in Ours /\ owner \in Pids
      BY <1>4 DEF Track, TypeOK, PodInv, Holding
    <2>2. torn' \in BOOLEAN /\ ~torn'
      BY <1>4, Zenon DEF Track, WriteEntries
    <2>3. entries' \subseteq Entry
      BY <1>4, <2>1 DEF Track, WriteEntries, TypeOK, Entry
    <2> QED
      BY <1>4, <2>2, <2>3 DEF Track, TypeOK
  <1>5. CASE StopPod
    <2>1. pod \in Ours
      BY <1>5 DEF StopPod, PodInv, Holding
    <2>2. /\ cloud' \in [Pods -> {"none", "billing", "gone"}]
          /\ terminated' \subseteq Ours /\ failed' \subseteq Ours /\ faults' \in 0 .. MaxFaults
      BY <1>5, <2>1, TerminateType DEF StopPod
    <2> QED
      BY <1>5, <2>2 DEF StopPod, TypeOK
  <1>6. CASE KeepPod
    BY <1>6 DEF KeepPod, TypeOK, PodInv, Holding
  <1>7. CASE ForgetPod
    BY <1>7 DEF ForgetPod, WriteEntries, Without, TypeOK
  <1>8. CASE EndRun \/ Crash
    <2>1. owner' = None /\ alive' = alive \ {owner} /\ pc' = "idle" /\ UNCHANGED reuses
      BY <1>8 DEF EndRun, Crash, ProcessDies
    <2>2. crashes' \in 0 .. MaxCrashes
      BY <1>8 DEF EndRun, Crash, TypeOK
    <2>3. entries' \subseteq Entry /\ torn' \in BOOLEAN /\ (torn' => entries' = {})
      <3>1. CASE UNCHANGED fileVars
        BY <3>1 DEF TypeOK
      <3>2. CASE entries' = {} /\ torn' = TRUE
        BY <3>2, Zenon
      <3> QED
        BY <1>8, <3>1, <3>2, Zenon DEF EndRun, Crash
    <2>4. UNCHANGED <<cloud, panicVars, runVars, failed, kept, faults>>
      BY <1>8 DEF EndRun, Crash
    <2> QED
      BY <2>1, <2>2, <2>3, <2>4 DEF TypeOK
  <1>9. CASE PidTaken \/ StrangerExits
    BY <1>9 DEF PidTaken, StrangerExits, Reuse, Aliens, RecordedOwners, Entry, TypeOK
  <1>10. CASE Panic
    BY <1>10 DEF Panic, PanicLists, PanicTerminates, PanicDone, Fault, Billing, TypeOK
  <1>11. CASE UNCHANGED vars
    BY <1>11 DEF vars, TypeOK
  <1> QED
    BY <1>1, <1>2, <1>3, <1>4, <1>5, <1>6, <1>7, <1>8, <1>9, <1>10, <1>11 DEF Next, RunStep

-----------------------------------------------------------------------------
(* The other parts of the invariant.                                         *)

\* _terminate leaves a pod of its set with no bill but that of a failed call, and every other
\* pod as it was.
LEMMA TerminateDeals ==
  ASSUME TypeOK, Dealt, NEW p \in Ours, cloud[p] # "none", Terminate(p)
  PROVE  /\ terminated' = terminated \cup {p} /\ failed \subseteq failed'
         /\ \A q \in Ours : cloud'[q] = cloud[q] \/ (cloud[q] # "none" /\ cloud'[q] = "gone")
         /\ \A q \in terminated' : cloud'[q] # "none" /\ (cloud'[q] = "billing" => q \in failed')
  <1>1. /\ terminated' = terminated \cup {p} /\ failed \subseteq failed'
        /\ \/ p \in terminated /\ cloud' = cloud
           \/ cloud' = [cloud EXCEPT ![p] = "gone"]
           \/ cloud' = cloud /\ failed' = failed \cup {p}
    BY DEF Terminate
  <1>2. \A q \in terminated : cloud[q] # "none" /\ (cloud[q] = "billing" => q \in failed)
    BY DEF Dealt
  <1>3. \A q \in terminated' : q \in Pods /\ q \in Ours
    BY <1>1 DEF TypeOK, Pods
  <1>4. cloud \in [Pods -> {"none", "billing", "gone"}]
    BY DEF TypeOK
  <1>5. \A q \in Ours : cloud'[q] = cloud[q] \/ (cloud[q] # "none" /\ cloud'[q] = "gone")
    BY <1>1, <1>4 DEF Pods
  <1>6. ASSUME NEW q \in terminated'
        PROVE  cloud'[q] # "none" /\ (cloud'[q] = "billing" => q \in failed')
    <2>1. CASE q \in terminated
      BY <2>1, <1>1, <1>2, <1>3, <1>5
    <2>2. CASE q = p /\ q \notin terminated
      BY <2>2, <1>1, <1>4 DEF Pods
    <2> QED
      BY <2>1, <2>2, <1>1, <1>6
  <1> QED
    BY <1>1, <1>5, <1>6

LEMMA StepPod == Inv /\ [Next]_vars => PodInv'
  <1> SUFFICES ASSUME Inv, [Next]_vars PROVE PodInv'
    OBVIOUS
  <1> USE DEF PodInv, Reaping, Holding, runVars
  <1>1. CASE StartRun
    BY <1>1 DEF StartRun
  <1>2. CASE ReapOrphans
    <2>1. UNCHANGED pod /\ pc \in Reaping /\ pc' \in Reaping \cup {"create"}
      BY <1>2 DEF ReapOrphans, SelectOrphans, ReapOrphan, ForgetOrphan, OrphansDone, ListPods,
                  ListPodsFails, SweepPod, SweepDone
    <2> QED
      BY <2>1 DEF Inv
  <1>3. CASE CreatePod
    BY <1>3 DEF CreatePod, Inv, TypeOK, Pods
  <1>4. CASE CreateFails
    BY <1>4 DEF CreateFails
  <1>5. CASE Track \/ StopPod \/ KeepPod \/ ForgetPod \/ EndRun
    <2>1. UNCHANGED pod /\ pc' \in Holding \cup {"end", "idle"} /\ (pc \in Holding \/ pc' = "idle")
      BY <1>5 DEF Track, StopPod, KeepPod, ForgetPod, EndRun, ProcessDies
    <2>2. \A q \in Ours : cloud'[q] = cloud[q] \/ cloud'[q] = "gone"
      BY <1>5 DEF Track, StopPod, KeepPod, ForgetPod, EndRun, Terminate, Inv, TypeOK, Pods
    <2> QED
      BY <2>1, <2>2 DEF Inv
  <1>6. CASE Crash
    BY <1>6 DEF Crash, ProcessDies
  <1>7. CASE PidTaken \/ StrangerExits \/ Panic \/ UNCHANGED vars
    <2>1. UNCHANGED <<pod, pc>>
      BY <1>7 DEF PidTaken, StrangerExits, Panic, PanicLists, PanicTerminates, PanicDone, vars
    <2>2. \A q \in Ours : cloud'[q] = cloud[q] \/ cloud'[q] = "gone"
      BY <1>7 DEF PidTaken, StrangerExits, Panic, PanicLists, PanicTerminates, PanicDone, vars,
                  Inv, TypeOK, Pods
    <2> QED
      BY <2>1, <2>2 DEF Inv
  <1> QED
    BY <1>1, <1>2, <1>3, <1>4, <1>5, <1>6, <1>7 DEF Next, RunStep

\* A step without a terminate call deals with pods that have been created, and no bill but
\* that of a pod that was "none" starts.
LEMMA DealtWithoutCall ==
  ASSUME Inv, TypeOK',
         \A q \in RecordedPods' \cup orphans' \cup sweep' : cloud[q] # "none",
         \A q \in Pods : cloud[q] # "none" => cloud'[q] = cloud[q] \/ cloud'[q] = "gone",
         (terminated' = terminated /\ failed' = failed) \/ terminated' = {}
  PROVE  Dealt'
  <1>1. RecordedPods' \cup orphans' \cup sweep' \cup terminated' \cup terminated \subseteq Pods
    BY DEF Inv, TypeOK, Pods, RecordedPods, Entry
  <1>2. \A q \in terminated : cloud[q] # "none" /\ (cloud[q] = "billing" => q \in failed)
    BY DEF Inv, Dealt
  <1> QED
    BY <1>1, <1>2 DEF Dealt

\* A step with a terminate call for a pod that has been created.
LEMMA DealtByCall ==
  ASSUME Inv, TypeOK', NEW p \in Ours, cloud[p] # "none", Terminate(p), UNCHANGED entries,
         orphans' \subseteq orphans, sweep' \subseteq sweep
  PROVE  Dealt'
  <1>1. /\ \A q \in Ours : cloud'[q] = cloud[q] \/ (cloud[q] # "none" /\ cloud'[q] = "gone")
        /\ \A q \in terminated' : cloud'[q] # "none" /\ (cloud'[q] = "billing" => q \in failed')
    BY TerminateDeals DEF Inv
  <1>2. RecordedPods' = RecordedPods /\ RecordedPods \cup orphans \cup sweep \subseteq Ours
    BY DEF RecordedPods, Inv, TypeOK, Entry
  <1>3. \A q \in RecordedPods \cup orphans \cup sweep : cloud[q] # "none"
    BY DEF Inv, Dealt
  <1> QED
    BY <1>1, <1>2, <1>3 DEF Dealt

LEMMA StepDealt == Inv /\ [Next]_vars => Dealt'
  <1> SUFFICES ASSUME Inv, [Next]_vars PROVE Dealt'
    OBVIOUS
  <1>t. TypeOK /\ TypeOK'
    BY StepType DEF Inv
  <1>d. \A q \in RecordedPods \cup orphans \cup sweep : cloud[q] # "none"
    BY DEF Inv, Dealt
  <1> USE DEF fileVars, runVars
  <1>1. CASE StartRun
    <2>1. terminated' = {} /\ UNCHANGED <<cloud, entries, orphans, sweep>>
      BY <1>1 DEF StartRun
    <2> QED
      BY <2>1, <1>t, <1>d, DealtWithoutCall DEF RecordedPods
  <1>2. CASE SelectOrphans \/ ForgetOrphan \/ OrphansDone \/ ListPods \/ ListPodsFails \/ SweepDone
    <2>1. UNCHANGED <<cloud, terminated, failed>>
      BY <1>2 DEF SelectOrphans, ForgetOrphan, OrphansDone, ListPods, ListPodsFails, SweepDone
    <2>2. RecordedPods' \subseteq RecordedPods /\ orphans' \subseteq orphans \cup RecordedPods
      BY <1>2 DEF SelectOrphans, ForgetOrphan, OrphansDone, ListPods, ListPodsFails, SweepDone,
                  WriteEntries, Without, RecordedPods
    <2>3. sweep' \subseteq sweep \cup Billing
      BY <1>2 DEF SelectOrphans, ForgetOrphan, OrphansDone, ListPods, ListPodsFails, SweepDone
    <2>4. \A q \in RecordedPods' \cup orphans' \cup sweep' : cloud[q] # "none"
      BY <2>2, <2>3, <1>d DEF Billing
    <2> QED
      BY <2>1, <2>4, <1>t, DealtWithoutCall
  <1>3. CASE ReapOrphan
    <2>1. PICK p \in orphans : orphans' = orphans \ {p} /\ Terminate(p)
      BY <1>3 DEF ReapOrphan
    <2>2. UNCHANGED <<entries, sweep>> /\ p \in Ours /\ cloud[p] # "none"
      BY <1>3, <1>d, <1>t DEF ReapOrphan, TypeOK
    <2> QED
      BY <2>1, <2>2, <1>t, DealtByCall
  <1>4. CASE SweepPod
    <2>1. PICK p \in sweep : sweep' = sweep \ {p} /\ Terminate(p)
      BY <1>4 DEF SweepPod
    <2>2. UNCHANGED <<entries, orphans>> /\ p \in Ours /\ cloud[p] # "none"
      BY <1>4, <1>d, <1>t DEF SweepPod, TypeOK
    <2> QED
      BY <2>1, <2>2, <1>t, DealtByCall
  <1>5. CASE StopPod
    <2>1. Terminate(pod) /\ UNCHANGED <<entries, orphans, sweep>>
      BY <1>5 DEF StopPod
    <2>2. pod \in Ours /\ cloud[pod] # "none"
      BY <1>5 DEF StopPod, Inv, PodInv, Holding
    <2> QED
      BY <2>1, <2>2, <1>t, DealtByCall
  <1>6. CASE CreatePod \/ CreateFails
    <2>1. UNCHANGED <<entries, orphans, sweep, terminated, failed>>
      BY <1>6 DEF CreatePod, CreateFails
    <2>2. \A q \in Pods : cloud[q] # "none" => cloud'[q] = cloud[q]
      BY <1>6, <1>t DEF CreatePod, CreateFails, TypeOK
    <2> QED
      BY <2>1, <2>2, <1>t, <1>d, DealtWithoutCall DEF RecordedPods
  <1>7. CASE Track
    <2>1. UNCHANGED <<cloud, orphans, sweep, terminated, failed>>
      BY <1>7 DEF Track
    <2>2. RecordedPods' \subseteq RecordedPods \cup {pod} /\ cloud[pod] # "none"
      BY <1>7 DEF Track, WriteEntries, RecordedPods, Inv, PodInv, Holding
    <2>3. \A q \in RecordedPods' \cup orphans' \cup sweep' : cloud[q] # "none"
      BY <2>1, <2>2, <1>d
    <2> QED
      BY <2>1, <2>3, <1>t, DealtWithoutCall
  <1>8. CASE KeepPod \/ ForgetPod \/ EndRun \/ Crash
    <2>1. UNCHANGED <<cloud, orphans, sweep, terminated, failed>>
      BY <1>8 DEF KeepPod, ForgetPod, EndRun, Crash
    <2>2. entries' \subseteq entries
      BY <1>8 DEF KeepPod, ForgetPod, EndRun, Crash, WriteEntries, Without
    <2>3. RecordedPods' \subseteq RecordedPods
      BY <2>2 DEF RecordedPods
    <2> QED
      BY <2>1, <2>3, <1>t, <1>d, DealtWithoutCall
  <1>9. CASE PidTaken \/ StrangerExits \/ Panic \/ UNCHANGED vars
    <2>1. UNCHANGED <<entries, orphans, sweep, terminated, failed>>
      BY <1>9 DEF PidTaken, StrangerExits, Panic, PanicLists, PanicTerminates, PanicDone, vars
    <2>2. \A q \in Pods : cloud'[q] = cloud[q] \/ cloud'[q] = "gone"
      BY <1>9, <1>t DEF PidTaken, StrangerExits, Panic, PanicLists, PanicTerminates, PanicDone,
                        vars, TypeOK
    <2> QED
      BY <2>1, <2>2, <1>t, <1>d, DealtWithoutCall DEF RecordedPods
  <1> QED
    BY <1>1, <1>2, <1>3, <1>4, <1>5, <1>6, <1>7, <1>8, <1>9 DEF Next, RunStep, ReapOrphans

LEMMA StepAtHand == Inv /\ [Next]_vars => AtHand'
  <1> SUFFICES ASSUME Inv, [Next]_vars PROVE AtHand'
    OBVIOUS
  <1> USE DEF AtHand, runVars
  <1>1. CASE ReapOrphan
    BY <1>1 DEF ReapOrphan, Terminate
  <1>2. CASE StopPod \/ KeepPod
    BY <1>2 DEF StopPod, KeepPod, Terminate
  <1>3. CASE PidTaken \/ StrangerExits \/ Panic \/ UNCHANGED vars
    <2>1. UNCHANGED <<pc, cur, terminated, pod, kept>>
      BY <1>3 DEF PidTaken, StrangerExits, Panic, PanicLists, PanicTerminates, PanicDone, vars
    <2> QED
      BY <2>1 DEF Inv
  <1>4. CASE \/ StartRun \/ SelectOrphans \/ ForgetOrphan \/ OrphansDone \/ ListPods
             \/ ListPodsFails \/ SweepPod \/ SweepDone \/ CreatePod \/ CreateFails \/ Track
             \/ ForgetPod \/ EndRun \/ Crash
    <2>1. pc' \notin {"orphan_entry", "forget"}
      BY <1>4 DEF StartRun, SelectOrphans, ForgetOrphan, OrphansDone, ListPods, ListPodsFails,
                  SweepPod, SweepDone, CreatePod, CreateFails, Track, ForgetPod, EndRun, Crash,
                  ProcessDies
    <2> QED
      BY <2>1
  <1> QED
    BY <1>1, <1>2, <1>3, <1>4 DEF Next, RunStep, ReapOrphans

\* A pod that bills after a terminate call for another billed before it, and is excused or
\* ahead as before; the pod of the call itself, if it still bills, failed.
LEMMA AheadAfterCall ==
  ASSUME Inv, NEW q \in Ours, cloud[q] # "none", Terminate(q), UNCHANGED <<entries, listFailed>>,
         shielded' = shielded, NEW p \in Ours, cloud'[p] = "billing"
  PROVE  /\ cloud[p] = "billing" /\ (p = q => p \in failed')
         /\ p \in failed \cup shielded => p \in failed' \cup shielded'
         /\ RecordedPods' = RecordedPods
  <1>1. /\ failed \subseteq failed' /\ q \in terminated'
        /\ cloud'[p] = cloud[p] \/ (cloud[p] # "none" /\ cloud'[p] = "gone")
        /\ \A r \in terminated' : cloud'[r] = "billing" => r \in failed'
    BY TerminateDeals DEF Inv
  <1> QED
    BY <1>1 DEF RecordedPods

LEMMA StepSlate == Inv /\ [Next]_vars => Slate'
  <1> SUFFICES ASSUME Inv, [Next]_vars PROVE Slate'
    OBVIOUS
  <1>t. TypeOK /\ Slate /\ Dealt
    BY DEF Inv
  <1> USE DEF Slate, Reaping, Billing, fileVars, runVars
  <1>1. CASE StartRun \/ CreateFails \/ StopPod \/ KeepPod \/ ForgetPod \/ EndRun \/ Crash
    <2>1. pc' \notin (Reaping \ {"read"}) \cup {"create", "track", "work"}
      BY <1>1 DEF StartRun, CreateFails, StopPod, KeepPod, ForgetPod, EndRun, Crash, ProcessDies
    <2> QED
      BY <2>1
  <1>2. CASE SelectOrphans
    BY <1>2 DEF SelectOrphans, Ahead, RecordedPods
  <1>3. CASE ReapOrphan
    <2>1. PICK q \in orphans : orphans' = orphans \ {q} /\ Terminate(q)
      BY <1>3 DEF ReapOrphan
    <2>2. /\ pc = "orphans" /\ pc' = "orphan_entry" /\ q \in Ours /\ cloud[q] # "none"
          /\ UNCHANGED <<entries, listFailed, shielded, pod>>
      BY <1>3, <1>t DEF ReapOrphan, TypeOK, Dealt
    <2>3. SUFFICES ASSUME NEW p \in (Billing' \cap Ours) \ {pod'} PROVE Ahead(p)'
      OBVIOUS
    <2>4. p \in Ours /\ p # pod /\ cloud'[p] = "billing"
      BY <2>2, <2>3
    <2>5. /\ cloud[p] = "billing" /\ (p = q => p \in failed')
          /\ p \in failed \cup shielded => p \in failed' \cup shielded'
          /\ RecordedPods' = RecordedPods
      BY <2>1, <2>2, <2>4, AheadAfterCall
    <2>6. Ahead(p)
      BY <2>2, <2>4, <2>5, <1>t DEF Pods
    <2> QED
      BY <2>1, <2>2, <2>5, <2>6 DEF Ahead
  <1>4. CASE SweepPod
    <2>1. PICK q \in sweep : sweep' = sweep \ {q} /\ Terminate(q)
      BY <1>4 DEF SweepPod
    <2>2. /\ pc = "sweep" /\ pc' = "sweep" /\ q \in Ours /\ cloud[q] # "none"
          /\ UNCHANGED <<entries, listFailed, shielded, pod>>
      BY <1>4, <1>t DEF SweepPod, TypeOK, Dealt
    <2>3. SUFFICES ASSUME NEW p \in (Billing' \cap Ours) \ {pod'} PROVE Ahead(p)'
      OBVIOUS
    <2>4. p \in Ours /\ p # pod /\ cloud'[p] = "billing"
      BY <2>2, <2>3
    <2>5. /\ cloud[p] = "billing" /\ (p = q => p \in failed')
          /\ p \in failed \cup shielded => p \in failed' \cup shielded'
          /\ RecordedPods' = RecordedPods
      BY <2>1, <2>2, <2>4, AheadAfterCall
    <2>6. Ahead(p)
      BY <2>2, <2>4, <2>5, <1>t DEF Pods
    <2> QED
      BY <2>1, <2>2, <2>5, <2>6 DEF Ahead
  <1>5. CASE ForgetOrphan
    <2>1. /\ pc = "orphan_entry" /\ pc' = "orphans"
          /\ UNCHANGED <<cloud, orphans, sweep, pod, failed, shielded, listFailed>>
      BY <1>5 DEF ForgetOrphan
    <2>2. RecordedPods' \subseteq RecordedPods
      BY <1>5 DEF ForgetOrphan, WriteEntries, Without, RecordedPods
    <2> QED
      BY <2>1, <2>2, <1>t DEF Ahead
  <1>6. CASE OrphansDone
    BY <1>6, <1>t DEF OrphansDone, Ahead, RecordedPods
  <1>7. CASE ListPods
    BY <1>7, <1>t DEF ListPods, Ahead, RecordedPods
  <1>8. CASE ListPodsFails
    BY <1>8, <1>t DEF ListPodsFails, Ahead, RecordedPods
  <1>9. CASE SweepDone
    BY <1>9, <1>t DEF SweepDone, Ahead, RecordedPods
  <1>10. CASE CreatePod
    <2>1. PICK q \in Ours : cloud' = [cloud EXCEPT ![q] = "billing"] /\ pod' = q
      BY <1>10 DEF CreatePod
    <2>2. /\ pc = "create" /\ pc' = "track"
          /\ UNCHANGED <<entries, orphans, sweep, failed, shielded, listFailed>>
      BY <1>10 DEF CreatePod
    <2>3. pod \notin Ours
      BY <2>2, PodsAssumption DEF Inv, PodInv, Pods
    <2>4. \A p \in (Billing' \cap Ours) \ {q} : Ahead(p)
      BY <2>1, <2>2, <2>3, <1>t DEF TypeOK, Pods
    <2> QED
      BY <2>1, <2>2, <2>4 DEF Ahead, RecordedPods
  <1>11. CASE Track
    <2>1. /\ pc = "track" /\ pc' = "work"
          /\ UNCHANGED <<cloud, orphans, sweep, pod, failed, shielded, listFailed>>
      BY <1>11 DEF Track
    <2>2. RecordedPods' \subseteq RecordedPods \cup {pod}
      BY <1>11 DEF Track, WriteEntries, RecordedPods
    <2> QED
      BY <2>1, <2>2, <1>t DEF Ahead
  <1>12. CASE PidTaken \/ StrangerExits \/ Panic \/ UNCHANGED vars
    <2>1. UNCHANGED <<pc, pod, entries, orphans, sweep, failed, shielded, listFailed>>
      BY <1>12 DEF PidTaken, StrangerExits, Panic, PanicLists, PanicTerminates, PanicDone, vars
    <2>2. \A q \in Pods : cloud'[q] = cloud[q] \/ cloud'[q] = "gone"
      BY <1>12, <1>t DEF PidTaken, StrangerExits, Panic, PanicLists, PanicTerminates, PanicDone,
                         vars, TypeOK
    <2> QED
      BY <2>1, <2>2, <1>t DEF Ahead, RecordedPods
  <1> QED
    BY <1>1, <1>2, <1>3, <1>4, <1>5, <1>6, <1>7, <1>8, <1>9, <1>10, <1>11, <1>12
       DEF Next, RunStep, ReapOrphans

-----------------------------------------------------------------------------
(* The theorems.                                                             *)

\* Every state of a sequence of runs satisfies the invariant.
THEOREM Invariance == Spec => []Inv
  <1>1. Inv /\ [Next]_vars => Inv'
    BY StepType, StepPod, StepDealt, StepAtHand, StepSlate DEF Inv
  <1> QED
    BY InitInv, <1>1, PTL DEF Spec

\* The state file, the process of the run and the sets of reap_orphans keep their types, a torn
\* file is taken for an empty one, and an idle machine has no owner.
THEOREM TypeCorrect == Spec => []TypeOK
  <1>1. Inv => TypeOK
    BY DEF Inv
  <1> QED
    BY Invariance, <1>1, PTL

\* reap_orphans leaves no pod of ours billing when it returns, however many runs crashed before
\* it and wherever, but for calls and lists that failed at this start and pids that were taken.
THEOREM CleanSlate == Spec => []StartsFromACleanSlate
  <1>1. Inv => StartsFromACleanSlate
    BY DEF Inv, Slate, Ahead, StartsFromACleanSlate
  <1> QED
    BY Invariance, <1>1, PTL

\* An entry is dropped only after its pod has been dealt with: by remove_entry in reap_orphans or
\* at the end of a run, or by a write that a crash cut off.
THEOREM OrphansKept == Spec => OrphansKeepTheirEntry
  <1>1. ASSUME Inv, [Next]_vars, NEW e \in entries, e \notin entries', cloud[e.pod] = "billing"
        PROVE  torn' \/ e.pod \in kept \cup failed
    <2>1. CASE ForgetOrphan
      <3>1. e.pod = cur /\ cur \in terminated
        BY <1>1, <2>1 DEF ForgetOrphan, WriteEntries, Without, Inv, AtHand
      <3> QED
        BY <1>1, <3>1 DEF Inv, Dealt
    <2>2. CASE ForgetPod
      <3>1. e.pod = pod /\ pod \in terminated \cup kept
        BY <1>1, <2>2 DEF ForgetPod, WriteEntries, Without, Inv, AtHand
      <3> QED
        BY <1>1, <3>1 DEF Inv, Dealt
    <2>3. CASE Crash
      <3>1. torn' = TRUE
        BY <1>1, <2>3 DEF Crash, fileVars
      <3> QED
        BY <3>1, Zenon
    <2>4. CASE Track
      BY <1>1, <2>4 DEF Track, WriteEntries
    <2>5. CASE ~ForgetOrphan /\ ~ForgetPod /\ ~Crash /\ ~Track
      <3>1. UNCHANGED entries
        BY <1>1, <2>5 DEF Next, StartRun, RunStep, ReapOrphans, SelectOrphans, ReapOrphan,
             OrphansDone, ListPods, ListPodsFails, SweepPod, SweepDone, CreatePod, CreateFails,
             StopPod, KeepPod, EndRun, PidTaken, StrangerExits, Panic, PanicLists,
             PanicTerminates, PanicDone, vars, fileVars
      <3> QED
        BY <1>1, <3>1
    <2> QED
      BY <2>1, <2>2, <2>3, <2>4, <2>5
  <1>2. Inv /\ [Next]_vars =>
          [\A e \in entries : e \notin entries' /\ cloud[e.pod] = "billing" =>
             torn' \/ e.pod \in kept \cup failed]_vars
    BY <1>1
  <1> QED
    BY Invariance, <1>2, PTL DEF Spec, OrphansKeepTheirEntry
=============================================================================
