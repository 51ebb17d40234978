----------------------------- MODULE MCWatchdog -----------------------------
(* Instances of Watchdog for TLC.  A tick is between 10 and 15 seconds for  *)
(* the polling, the sampling and the margin of the startup loop; the        *)
(* budgets are scaled down further, in the order they have in the code.     *)
EXTENDS Watchdog
=============================================================================
