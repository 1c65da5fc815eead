--------------------------- MODULE MCRateLimiter ---------------------------
(* An instance of RateLimiter for TLC: an address and a mobile that are limited, and a  *)
(* mobile without a limit.                                                               *)
EXTENDS RateLimiter

CONSTANTS i1, m1, m2

MCIPs == {i1}
MCMobiles == {m1, m2}
MCLimit(k) == IF k = i1 THEN 2 ELSE IF k = m1 THEN 1 ELSE 0
=============================================================================
