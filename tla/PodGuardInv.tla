---------------------------- MODULE PodGuardInv ----------------------------
(***************************************************************************)
(* The inductive invariant of PodGuard, in named parts.  TLC checks it on   *)
(* the instances of MCPodGuard, PodGuardProofs proves it.                    *)
(*                                                                         *)
(* A run has one pod it knows of, `pod`; everything else is about that one: *)
(* which step still owes it a terminate call, and who may be excused.       *)
(***************************************************************************)
EXTENDS PodGuard

\* The main thread inside deferred_signals, track's own terminate_all included.
InSection ==
  \/ pc["main"] \in {"clear", "create", "track", "add_read", "add_write", "recheck",
                     "undefer"}
  \/ InSweep("main") /\ ret = "undefer"

\* No pod is left that terminate_all would have to deal with.
Swept == pod \in tracked => pod \in terminated

\* Thread t is in terminate_all and will reach _terminated.add for the pod.
WillTerminate(t) ==
  \/ pc[t] \in {"snapshot", "mark"}
  \/ pc[t] = "next" /\ pod \in todo[t]

\* Nothing but the pod create_pod returned appears in any set of the guard.
OnePod ==
  /\ tracked \subseteq {pod} /\ terminated \subseteq {pod} /\ file \subseteq {pod}
  /\ \A t \in Threads :
       /\ todo[t] \subseteq {pod} /\ seen[t] \subseteq {pod}
       /\ pc[t] \in {"mark", "call", "remove_read", "remove_write"} =>
            cur[t] = pod /\ pod # None
  /\ Billing \subseteq ghosts \cup {pod}

\* The pod before and after create_pod.
PodKnown ==
  /\ pc["main"] \in {"defer", "clear", "create"} => pod = None /\ attempt < MaxAttempts
  /\ pc["main"] \in {"track", "add_read", "add_write", "recheck", "raise_if",
                     "finally", "release"} \cup Working => pod # None
  /\ InSweep("main") /\ ret \in {"undefer", "score"} => pod # None
  /\ region = "body" => pod # None
  /\ pod # None => cloud[pod] # "none"

\* Signals are held exactly in the section, and none is pending past it.
Deferred ==
  /\ deferring <=> InSection
  /\ pc["main"] \in {"raise_if"} \cup Working => ~pending
  /\ InSweep("main") /\ ret = "score" => ~pending

\* The pod is in the dictionary from track to release.
Recorded ==
  /\ pod # None /\ pod \notin tracked => pc["main"] = "track" \/ pod \in released
  /\ pc["main"] = "release" => Keep
  /\ released # {} => Keep

\* A pod named in _terminated is stopped, lost, or some thread is calling for it.
Accounted ==
  /\ pod \in terminated /\ cloud[pod] = "billing" =>
       pod \in lost \/ \E t \in Threads : pc[t] = "call"
  /\ pc["watchdog"] \in {"call", "remove_read", "remove_write"} => pod \in terminated
  /\ pc["main"] \in {"call", "remove_read", "remove_write"} => Swept

\* Where an exception lands before __exit__.
BeforeExit ==
  /\ pc["main"] \notin {"unwind", "exit", "join", "exited", "ended"} \cup SweepSteps =>
       region \in {"guarded", "body"}
  /\ InSweep("main") /\ ret \in {"undefer", "score"} => region \in {"guarded", "body"}

\* A terminate_all of the main thread covers the pod, and the run is over only after one.
Covered ==
  /\ InSweep("main") => Swept \/ WillTerminate("main")
  /\ pc["main"] = "unwind" => region \in {"guarded", "body"} \/ Swept
  /\ pc["main"] \in {"exited", "ended"} => Swept
  /\ pc["main"] = "score" /\ ~Keep => Swept
  /\ pc["main"] = "ended" => pc["watchdog"] \in DeadWatchdog

\* An aborted run owes the pod a call only while one of its threads is about to make it.
AbortCovered ==
  aborted /\ ~Swept =>
    \/ WillTerminate("watchdog")
    \/ WillTerminate("main") /\ InSweep("main")
    \/ pc["main"] \in {"add_read", "add_write", "recheck"}

\* The inductive invariant: the parts above, with the state-file invariant.
IInv ==
  /\ TypeOK /\ OnePod /\ PodKnown /\ Deferred /\ Recorded /\ Accounted /\ BeforeExit
  /\ Covered /\ AbortCovered /\ CrashLeavesAnEntry
=============================================================================
