------------------------------ MODULE MCReaper ------------------------------
(* Instances of Reaper for TLC.                                             *)
EXTENDS Reaper, TLC

CONSTANTS p1, p2, x1, q1, q2, q3

\* Pods and pids are interchangeable: the run with liveness does
\* without the symmetry.
ReaperSymmetry == Permutations(Ours) \cup Permutations(Pids)
=============================================================================
