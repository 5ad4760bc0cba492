---------------------------- MODULE MCRateLimit ----------------------------
EXTENDS RateLimit, TLC

CONSTANTS s1, s2, r1, r2, e1, e2, e3, slow, fast

\* fast refills within the reaping time, slow does not: as 0.001 requests per
\* second with any burst, a refill period is longer than ten minutes.
MCBurst == (slow :> 2) @@ (fast :> 1)
MCReapAfter == (slow :> 0) @@ (fast :> 1)
Symmetry == Permutations({r1, r2}) \cup Permutations({s1, s2})
            \cup Permutations({e1, e2, e3})
=============================================================================
