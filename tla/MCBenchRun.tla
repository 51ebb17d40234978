----------------------------- MODULE MCBenchRun -----------------------------
(* Instances of BenchRun for TLC: two levels, the second with two agents.   *)
EXTENDS BenchRun

MCTeams == <<1, 2>>
=============================================================================
