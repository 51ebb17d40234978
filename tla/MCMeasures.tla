----------------------------- MODULE MCMeasures -----------------------------
(* Instances of Measures for TLC: a fresh request, one with a long answer   *)
(* and most of its prompt in the cache, and one beyond the last bucket.     *)
EXTENDS Measures

MCRequests == {
  [prompt |-> 2, hits |-> 0, gen |-> 1, ttft |-> 1, tpot |-> 1],
  [prompt |-> 4, hits |-> 3, gen |-> 3, ttft |-> 2, tpot |-> 2],
  [prompt |-> 3, hits |-> 0, gen |-> 1, ttft |-> 3, tpot |-> 3]}
MCBounds == <<2, 5>>
MCDurations == <<1, 2>>
MCSlo == [percentile |-> "p90", max_ttft |-> 4, max_tpot |-> 5]
=============================================================================
