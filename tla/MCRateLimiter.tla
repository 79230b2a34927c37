----------------------------- MODULE MCRateLimiter -----------------------------
(* RateLimiter, four calls in two seconds of seven ticks: two per second and at *)
(* once, an interval that is rounded (14 < 15: the clock is fine enough).        *)
EXTENDS RateLimiter
================================================================================
