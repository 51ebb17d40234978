----------------------------- MODULE PodBilling -----------------------------
(***************************************************************************)
(* What a run promises about money, without threads, signals or files: it   *)
(* pays for at most one pod that nobody has excused, and it is over only    *)
(* when every pod that still bills is excused.  A pod is excused when the   *)
(* API hid it, when --keep released it or when a terminate call was lost.   *)
(***************************************************************************)
CONSTANT Pods

VARIABLES bill, excused, over
vars == <<bill, excused, over>>

Billing == {p \in Pods : bill[p] = "billing"}

Init ==
  /\ bill = [p \in Pods |-> "none"]
  /\ excused = {}
  /\ over = FALSE

\* A pod is allocated to a run that pays for no other pod.
Allocate(p) ==
  /\ ~over /\ bill[p] = "none"
  /\ Billing \subseteq excused
  /\ bill' = [bill EXCEPT ![p] = "billing"]
  /\ UNCHANGED <<excused, over>>

\* A pod is allocated, but the run is not told.
AllocateUnseen(p) ==
  /\ ~over /\ bill[p] = "none"
  /\ bill' = [bill EXCEPT ![p] = "billing"]
  /\ excused' = excused \cup {p}
  /\ UNCHANGED over

\* A pod is terminated; terminating it again changes nothing.
Stop(p) ==
  /\ ~over /\ bill[p] # "none"
  /\ bill' = [bill EXCEPT ![p] = "gone"]
  /\ UNCHANGED <<excused, over>>

Excuse(p) ==
  /\ ~over /\ bill[p] # "none"
  /\ excused' = excused \cup {p}
  /\ UNCHANGED <<bill, over>>

End ==
  /\ ~over /\ Billing \subseteq excused
  /\ over' = TRUE
  /\ UNCHANGED <<bill, excused>>

Next ==
  \/ \E p \in Pods : Allocate(p) \/ AllocateUnseen(p) \/ Stop(p) \/ Excuse(p)
  \/ End

Spec == Init /\ [][Next]_vars
=============================================================================
