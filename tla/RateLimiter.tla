----------------------------- MODULE RateLimiter -----------------------------
(***************************************************************************)
(* The rate of the REST calls (pb-feed/src/rate_limiter.rs): the quota that*)
(* with_window makes of the configuration, the calls of a client that wait *)
(* for it, and the clock.                                                  *)
(*                                                                         *)
(* The limiter is governor's and taken at its documentation: a bucket of   *)
(* cells, full at first, that gains one cell per interval; a call takes a  *)
(* cell, and where there is none it sleeps until there may be one and looks*)
(* again.  Its state is the moment at which the bucket is full again.      *)
(***************************************************************************)
EXTENDS Integers, Sequences, FiniteSetsExt

CONSTANTS
    Requests, WindowSecs,  \* rate_limit_requests, rate_limit_window_secs
    Second,                \* how fine the clock is: its ticks in a second
    Callers,               \* who calls through one client
    MaxTime, MaxCalls      \* bounds: the last moment modelled, the calls let through

LimiterAssumption ==
    Requests \in Nat /\ WindowSecs \in Nat /\ Second \in Nat /\ MaxTime \in Nat /\ MaxCalls \in Nat

VARIABLES
    now,
    full,   \* when the bucket is full again
    wake,   \* until when a caller sleeps
    calls   \* when the calls were let through, in order

limiterVars == << now, full, wake, calls >>

Window == Max({WindowSecs, 1})

PerSecond == Max({Requests \div Window, 1})

\* allow_burst.
Burst == PerSecond

\* Quota::per_second: a Duration, rounded down to a tick.
Interval == Second \div PerSecond

\* The first moment at which the bucket has a cell.
Earliest == full - (Burst - 1) * Interval

LimiterInit ==
    now = 0 /\ full = 0 /\ wake = [c \in Callers |-> 0] /\ calls = << >>

Elapse == now < MaxTime /\ now' = now + 1 /\ UNCHANGED << full, wake, calls >>

\* acquire lets a call through, the request follows.
LetThrough(c) ==
    /\ wake[c] <= now /\ Len(calls) < MaxCalls
    /\ Earliest <= now
    /\ full' = Max({full, now}) + Interval
    /\ calls' = Append(calls, now)
    /\ UNCHANGED << now, wake >>

\* Or has it sleep, a caller that slept and comes too late for the cell as well.
Sleep(c) ==
    /\ wake[c] <= now
    /\ Earliest > now
    /\ wake' = [wake EXCEPT ![c] = Earliest]
    /\ UNCHANGED << now, full, calls >>

LimiterNext == Elapse \/ \E c \in Callers : LetThrough(c) \/ Sleep(c)

LimiterSpec == LimiterInit /\ [][LimiterNext]_limiterVars

-----------------------------------------------------------------------------
\* What rounding the interval down adds to a window is less than a call: so with 1500
\* calls in 10 seconds and with some thousands per second, a tick being a nanosecond.
FineClock == Window * Second < (Window * PerSecond + 1) * Interval

\* Wherever a window of the configured length is laid, the calls a client makes in it
\* are at most those configured and the burst (with_window): the burst comes on top,
\* because the bucket is full again after a second without calls.  Less than a call
\* per second cannot be configured and counts as one.
RateIsKept ==
    \A i, j \in DOMAIN calls :
        (i <= j /\ calls[j] - calls[i] <= Window * Second) =>
            j - i + 1 <= Max({Requests, Window}) + PerSecond
===============================================================================
