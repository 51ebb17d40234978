----------------------------- MODULE MCPodGuard -----------------------------
(* Instances of PodGuard for TLC.                                           *)
EXTENDS PodGuardInv, TLC

CONSTANTS p1, p2

\* The pods are interchangeable: the runs with liveness do without
\* the symmetry.
PodSymmetry == Permutations(Pods)
=============================================================================
