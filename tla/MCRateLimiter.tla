--------------------------- MODULE MCRateLimiter ---------------------------
(***************************************************************************)
(* RateLimiter on a coarse clock: two keys whose tokens take more than one *)
(* tick each, with different remainders.                                   *)
(***************************************************************************)
EXTENDS RateLimiter

CONSTANTS k1, k2

MixedLimits == [k \in Keys |-> IF k = k1 THEN 2 ELSE 3]
LargestLimit == [k \in Keys |-> MaxInt]
=============================================================================
