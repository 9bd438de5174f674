--------------------------- MODULE MCRateLimiter ---------------------------
(* Instance of RateLimiter for TLC: two clients, a per-IP quota of burst  *)
(* 2 and 1 cell per second, a global quota of burst 3 and 2 per second.  *)
EXTENDS RateLimiter, TLC

CONSTANTS ip1, ip2

\* The clients are interchangeable: the quotas are the same for each.
Perms == Permutations({ip1, ip2})
=============================================================================
