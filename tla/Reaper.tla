------------------------------- MODULE Reaper -------------------------------
(***************************************************************************)
(* A sequence of benchmark runs on one machine, one at a time, and what     *)
(* they leave behind: entries of active-pods.json and pods that still bill. *)
(* Each run begins with PodGuard.reap_orphans (src/scripts/lib/pod_guard.py) *)
(* and may be killed between any two steps.  `make reap` (reap_pods.py) may *)
(* run next to them.                                                        *)
(*                                                                         *)
(* What a run does once it has a pod is reduced here to its outcome: the    *)
(* pod is terminated, kept, or abandoned by a crash (PodGuard.tla has the   *)
(* detail).  One orchestrator at a time is the assumption the code states   *)
(* at add_entry and select_untracked.                                       *)
(***************************************************************************)
EXTENDS Naturals, FiniteSets

CONSTANTS
  Ours,        \* pods whose name starts with "dail-"
  Foreign,     \* other pods of the account
  Pids,        \* process ids
  None,        \* no pod, no process
  MaxReuses,   \* bound: pids on file taken again, by a stranger or a later run
  Panics,      \* bound: uses of `make reap`
  MaxCrashes,  \* bound: runs killed
  MaxFaults    \* bound: failing API calls

ASSUME PodsAssumption == Ours \cap Foreign = {} /\ None \notin Ours \cup Foreign
ASSUME PidsAssumption == None \notin Pids
ASSUME BoundsAssumption == /\ MaxReuses \in Nat /\ Panics \in Nat
                           /\ MaxCrashes \in Nat /\ MaxFaults \in Nat

Pods == Ours \cup Foreign

VARIABLES
  cloud,      \* RunPod's view of each pod: "none", "billing" or "gone"
  entries,    \* active-pods.json: records with a pod and its owner
  torn,       \* the file was cut off by a crash inside write_state
  alive,      \* pids os.kill(pid, 0) finds
  owner,      \* pid of the running orchestrator, or None
  pc,         \* its next step
  orphans,    \* entries reap_orphans has still to deal with, by pod
  sweep,      \* untracked pods it has still to terminate
  cur,        \* pod whose entry is being removed
  terminated, \* guard._terminated of this run
  pod,        \* the pod of this run, or None
  panic,      \* next step of `make reap`
  panicTodo,  \* pods it listed and has not terminated
  failed,     \* history: pods whose terminate call failed in this run
  shielded,   \* history: pods this run took for those of a live owner
  listFailed, \* history: get_pods failed in this run
  kept,       \* history: pods released by --keep
  crashes, faults, panics, reuses  \* history: bounded counters

runVars == <<orphans, sweep, cur, terminated, pod, shielded, listFailed>>
fileVars == <<entries, torn>>
panicVars == <<panic, panicTodo, panics>>
processVars == <<alive, owner, reuses>>
vars == <<cloud, entries, torn, alive, owner, pc, orphans, sweep, cur, terminated, pod,
          panic, panicTodo, failed, shielded, listFailed, kept, crashes, faults, panics,
          reuses>>

Entry == [pod : Ours, owner : Pids]
RecordedPods == {e.pod : e \in entries}
RecordedOwners == {e.owner : e \in entries}
Billing == {p \in Pods : cloud[p] = "billing"}
Aliens == alive \ {owner}

Init ==
  /\ cloud = [p \in Pods |-> IF p \in Foreign THEN "billing" ELSE "none"]
  /\ entries = {} /\ torn = FALSE
  /\ alive = {} /\ owner = None /\ pc = "idle"
  /\ orphans = {} /\ sweep = {} /\ cur = None /\ terminated = {} /\ pod = None
  /\ panic = "idle" /\ panicTodo = {}
  /\ failed = {} /\ shielded = {} /\ listFailed = FALSE /\ kept = {}
  /\ crashes = 0 /\ faults = 0 /\ panics = 0 /\ reuses = 0

\* Taking a pid that the file names as an owner is counted.
Reuse(q) ==
  IF q \in RecordedOwners THEN reuses < MaxReuses /\ reuses' = reuses + 1
                          ELSE UNCHANGED reuses

Fault == faults < MaxFaults /\ faults' = faults + 1

\* _terminate: once per run and pod; an exception of the API is swallowed.
Terminate(p) ==
  /\ terminated' = terminated \cup {p}
  /\ \/ p \in terminated /\ UNCHANGED <<cloud, failed, faults>>
     \/ /\ p \notin terminated
        /\ cloud' = [cloud EXCEPT ![p] = "gone"]
        /\ UNCHANGED <<failed, faults>>
     \/ p \notin terminated /\ Fault /\ failed' = failed \cup {p} /\ UNCHANGED cloud

\* Mutant: the rest of a torn file stays in front of what is written.
WriteEntriesAfterTear(new) == entries' = new /\ UNCHANGED torn

\* write_state leaves a well-formed file.
WriteEntries(new) == entries' = new /\ torn' = FALSE
Without(p) == {e \in entries : e.pod # p}

-----------------------------------------------------------------------------
(* PodGuard.__init__: reap_orphans.                                          *)

StartRun ==
  /\ pc = "idle"
  /\ \E q \in Pids \ alive :
       /\ Reuse(q)
       /\ owner' = q /\ alive' = alive \cup {q}
  /\ pc' = "read"
  /\ terminated' = {} /\ failed' = {} /\ shielded' = {} /\ listFailed' = FALSE
  /\ pod' = None
  /\ UNCHANGED <<cloud, fileVars, panicVars, orphans, sweep, cur, kept, crashes, faults>>

\* select_orphans: a live pid is taken for a live owner.
SelectOrphans ==
  /\ pc = "read"
  /\ orphans' = {e.pod : e \in {x \in entries : x.owner \notin alive}}
  /\ shielded' = RecordedPods \ orphans'
  /\ pc' = "orphans"
  /\ UNCHANGED <<cloud, fileVars, processVars, panicVars, sweep, cur, terminated, pod,
                 failed, listFailed, kept, crashes, faults>>

\* Mutant: the entry of an orphan is removed before its pod is terminated.
ReapOrphanEntryFirst ==
  /\ pc = "orphans"
  /\ \E p \in orphans : cur' = p /\ orphans' = orphans \ {p} /\ WriteEntries(Without(p))
  /\ pc' = "orphan_entry"
  /\ UNCHANGED <<cloud, processVars, panicVars, sweep, terminated, pod, failed, shielded,
                 listFailed, kept, crashes, faults>>

\* An orphan is terminated first ...
ReapOrphan ==
  /\ pc = "orphans"
  /\ \E p \in orphans : cur' = p /\ orphans' = orphans \ {p} /\ Terminate(p)
  /\ pc' = "orphan_entry"
  /\ UNCHANGED <<fileVars, processVars, panicVars, sweep, pod, shielded, listFailed, kept,
                 crashes>>

\* ... and its entry removed next.
ForgetOrphan ==
  /\ pc = "orphan_entry"
  /\ WriteEntries(Without(cur))
  /\ pc' = "orphans"
  /\ UNCHANGED <<cloud, processVars, panicVars, runVars, failed, kept, crashes, faults>>

\* Mutant: no sweep of the API, only the state file.
OrphansDoneNoSweep ==
  /\ pc = "orphans" /\ orphans = {}
  /\ pc' = "create"
  /\ UNCHANGED <<cloud, fileVars, processVars, panicVars, runVars, failed, kept, crashes,
                 faults>>

OrphansDone ==
  /\ pc = "orphans" /\ orphans = {}
  /\ pc' = "list"
  /\ UNCHANGED <<cloud, fileVars, processVars, panicVars, runVars, failed, kept, crashes,
                 faults>>

\* select_untracked: pods of ours without an entry.
ListPods ==
  /\ pc = "list"
  /\ sweep' = (Billing \cap Ours) \ RecordedPods
  /\ pc' = "sweep"
  /\ UNCHANGED <<cloud, fileVars, processVars, panicVars, orphans, cur, terminated, pod,
                 failed, shielded, listFailed, kept, crashes, faults>>

\* A failing get_pods skips the sweep.
ListPodsFails ==
  /\ pc = "list"
  /\ Fault /\ listFailed' = TRUE
  /\ pc' = "create"
  /\ UNCHANGED <<cloud, fileVars, processVars, panicVars, orphans, sweep, cur, terminated,
                 pod, failed, shielded, kept, crashes>>

SweepPod ==
  /\ pc = "sweep"
  /\ \E p \in sweep : sweep' = sweep \ {p} /\ Terminate(p)
  /\ UNCHANGED <<pc, fileVars, processVars, panicVars, orphans, cur, pod, shielded,
                 listFailed, kept, crashes>>

SweepDone ==
  /\ pc = "sweep" /\ sweep = {}
  /\ pc' = "create"
  /\ UNCHANGED <<cloud, fileVars, processVars, panicVars, runVars, failed, kept, crashes,
                 faults>>

-----------------------------------------------------------------------------
(* The run itself, and its end.                                              *)

CreatePod ==
  /\ pc = "create"
  /\ \E p \in Ours :
       /\ cloud[p] = "none"
       /\ cloud' = [cloud EXCEPT ![p] = "billing"]
       /\ pod' = p
  /\ pc' = "track"
  /\ UNCHANGED <<fileVars, processVars, panicVars, orphans, sweep, cur, terminated, failed,
                 shielded, listFailed, kept, crashes, faults>>

\* No candidate gives a pod, or one did and create_pod raised all the same.
CreateFails ==
  /\ pc = "create"
  /\ \/ UNCHANGED <<cloud, faults>>
     \/ Fault /\ \E p \in Ours : /\ cloud[p] = "none"
                                 /\ cloud' = [cloud EXCEPT ![p] = "billing"]
  /\ pc' = "end"
  /\ UNCHANGED <<fileVars, processVars, panicVars, runVars, failed, kept, crashes>>

\* track: add_entry.
Track ==
  /\ pc = "track"
  /\ WriteEntries(entries \cup {[pod |-> pod, owner |-> owner]})
  /\ pc' = "work"
  /\ UNCHANGED <<cloud, processVars, panicVars, runVars, failed, kept, crashes, faults>>

\* terminate_all ends the run, or release does (--keep); both remove the entry next.
StopPod ==
  /\ pc = "work"
  /\ Terminate(pod)
  /\ pc' = "forget"
  /\ UNCHANGED <<fileVars, processVars, panicVars, orphans, sweep, cur, pod, shielded,
                 listFailed, kept, crashes>>

KeepPod ==
  /\ pc = "work"
  /\ kept' = kept \cup {pod}
  /\ pc' = "forget"
  /\ UNCHANGED <<cloud, fileVars, processVars, panicVars, runVars, failed, crashes, faults>>

ForgetPod ==
  /\ pc = "forget"
  /\ WriteEntries(Without(pod))
  /\ pc' = "end"
  /\ UNCHANGED <<cloud, processVars, panicVars, runVars, failed, kept, crashes, faults>>

ProcessDies ==
  owner' = None /\ alive' = alive \ {owner} /\ pc' = "idle" /\ UNCHANGED reuses

EndRun ==
  /\ pc = "end"
  /\ ProcessDies
  /\ UNCHANGED <<cloud, fileVars, panicVars, runVars, failed, kept, crashes, faults>>

\* The orchestrator is killed: SIGKILL, power, or an exception before __enter__.  Inside
\* write_state the file has been truncated and not yet written.
Crash ==
  /\ pc # "idle"
  /\ crashes < MaxCrashes /\ crashes' = crashes + 1
  /\ ProcessDies
  /\ \/ UNCHANGED fileVars
     \/ pc \in {"orphan_entry", "track", "forget"} /\ entries' = {} /\ torn' = TRUE
  /\ UNCHANGED <<cloud, panicVars, runVars, failed, kept, faults>>

-----------------------------------------------------------------------------
(* Other processes: strangers, and `make reap`.                              *)

PidTaken ==
  /\ \E q \in RecordedOwners \ alive : Reuse(q) /\ alive' = alive \cup {q}
  /\ UNCHANGED <<cloud, fileVars, owner, pc, panicVars, runVars, failed, kept, crashes,
                 faults>>

StrangerExits ==
  /\ \E q \in Aliens : alive' = alive \ {q}
  /\ UNCHANGED <<cloud, fileVars, owner, reuses, pc, panicVars, runVars, failed, kept, crashes,
                 faults>>

\* With REAP_AGE=0 every pod of the account is chosen.
PanicLists ==
  /\ panic = "idle" /\ panics < Panics /\ panics' = panics + 1
  /\ panicTodo' = Billing
  /\ panic' = "terminating"
  /\ UNCHANGED <<cloud, fileVars, processVars, pc, runVars, failed, kept, crashes, faults>>

\* The first call that raises ends the loop: main has no try.
PanicTerminates ==
  /\ panic = "terminating"
  /\ \E p \in panicTodo :
       \/ /\ cloud' = [cloud EXCEPT ![p] = "gone"]
          /\ panicTodo' = panicTodo \ {p}
          /\ UNCHANGED <<panic, faults>>
       \/ Fault /\ panic' = "over" /\ UNCHANGED <<cloud, panicTodo>>
  /\ UNCHANGED <<fileVars, processVars, pc, runVars, failed, kept, crashes, panics>>

PanicDone ==
  /\ panic = "terminating" /\ panicTodo = {}
  /\ panic' = "over"
  /\ UNCHANGED <<cloud, fileVars, processVars, pc, runVars, failed, kept, crashes, faults,
                 panicTodo, panics>>

-----------------------------------------------------------------------------
ReapOrphans ==
  \/ SelectOrphans \/ ReapOrphan \/ ForgetOrphan \/ OrphansDone
  \/ ListPods \/ ListPodsFails \/ SweepPod \/ SweepDone

RunStep ==
  \/ ReapOrphans \/ CreatePod \/ CreateFails \/ Track
  \/ StopPod \/ KeepPod \/ ForgetPod \/ EndRun

Panic == PanicLists \/ PanicTerminates \/ PanicDone

Next == StartRun \/ RunStep \/ Crash \/ PidTaken \/ StrangerExits \/ Panic

Spec == Init /\ [][Next]_vars

(* Runs are started again and again and each comes to its end (PodGuard.tla   *)
(* says why); a stranger's process does not live forever.                     *)
FairSpec == Spec /\ WF_vars(StartRun) /\ WF_vars(RunStep) /\ WF_vars(StrangerExits)

-----------------------------------------------------------------------------
(* Properties.                                                               *)

\* Type invariant of the run sequence: the file holds entries of our pods, a torn file
\* none, and a run that is idle owns no process.
TypeOK ==
  /\ cloud \in [Pods -> {"none", "billing", "gone"}]
  /\ entries \subseteq Entry /\ torn \in BOOLEAN /\ (torn => entries = {})
  /\ alive \subseteq Pids /\ owner \in alive \cup {None}
  /\ pc \in {"idle", "read", "orphans", "orphan_entry", "list", "sweep", "create", "track",
             "work", "forget", "end"}
  /\ pc = "idle" <=> owner = None
  /\ orphans \subseteq Ours /\ sweep \subseteq Ours /\ cur \in Ours \cup {None}
  /\ terminated \subseteq Ours /\ pod \in Ours \cup {None}
  /\ panic \in {"idle", "terminating", "over"} /\ panicTodo \subseteq Pods
  /\ failed \subseteq Ours /\ shielded \subseteq Ours /\ kept \subseteq Ours
  /\ listFailed \in BOOLEAN
  /\ crashes \in 0 .. MaxCrashes /\ faults \in 0 .. MaxFaults /\ panics \in 0 .. Panics
  /\ reuses \in 0 .. MaxReuses

\* README: the guard "reaps pods orphaned by a crashed run on the next start".  When a run
\* has its own pod, no other pod of ours bills, whatever earlier runs died of, torn files
\* and pods the API hid included; the exceptions are those of this start: a call that
\* failed, a list that failed, a pid taken for a live owner.
StartsFromACleanSlate ==
  pc \in {"create", "track", "work"} =>
    \A p \in (Billing \cap Ours) \ {pod} :
      \/ p \in failed \cup shielded
      \/ listFailed /\ p \notin RecordedPods

\* A pod of ours that bills loses its entry only to a torn file, to --keep, or to a
\* terminate call that failed: a crash inside reap_orphans forgets no orphan.
OrphansKeepTheirEntry ==
  [][\A e \in entries : e \notin entries' /\ cloud[e.pod] = "billing" =>
        torn' \/ e.pod \in kept \cup failed]_vars

\* A pod no run owns any more, orphaned by a crash, hidden by the API or left by a failed
\* call, does not bill forever, as long as runs keep being started.
NoPodBillsForever ==
  \A p \in Ours : cloud[p] = "billing" ~> (cloud[p] = "gone" \/ p \in kept)

\* pod_guard.py 241: "After release, neither terminate_all/__exit__ nor the orphan reaper
\* terminates it".  No step of a run terminates a kept pod.
KeptPodSurvives ==
  [][\A p \in kept : cloud[p] = "billing" => cloud'[p] = "billing"]_vars
=============================================================================
