--------------------------- MODULE MCRateLimiter ---------------------------
(* RateLimiter for TLC: two limits, so that requests for one key may carry *)
(* different ones, as those of two interceptors that share a limiter do.   *)
EXTENDS RateLimiter, TLC

MCLimits == {[rate |-> 2, burst |-> 2], [rate |-> 1, burst |-> 1]}
OneLimit == {[rate |-> 1, burst |-> 1]}

\* No refills, which the documents call a one-time burst.  It is a case of its
\* own: next to another limit the ideal buckets would be fed at that rate.
OneTimeBurst == {[rate |-> 0, burst |-> 2]}

Symmetry == Permutations(Requests)
=============================================================================
