------------------------------ MODULE Reconnect ------------------------------
(***************************************************************************)
(* How long the WebSocket client waits before it connects again            *)
(* (pb-feed/src/ws.rs); the hash of the clock that makes the jitter is any *)
(* number of its range.                                                    *)
(***************************************************************************)
EXTENDS FixedPoint, Rest

CONSTANTS
    BaseDelay, MaxDelay,  \* reconnect_base_delay_ms, reconnect_max_delay_ms
    MaxU32

ReconnectAssumptions ==
    /\ Machine
    /\ BaseDelay \in 0 .. MaxU64 /\ MaxDelay \in 0 .. MaxU64 /\ MaxU32 \in Nat

\* run_with_token: the attempts since the last session that was stable.
NextAttempt(attempt, stable) ==
    IF stable THEN 0 ELSE IF attempt = MaxU32 THEN attempt ELSE attempt + 1

\* 1 << attempt.min(15).
Doubling(attempt) ==
    IF attempt >= 15 THEN 32768
    ELSE << 1, 2, 4, 8, 16, 32, 64, 128, 256, 512, 1024, 2048, 4096, 8192, 16384 >>[attempt + 1]

Ceiling == MaxDelay - (MaxDelay \div 4)

Capped(attempt) ==
    LET exp == SaturatingMul(BaseDelay, Doubling(attempt))
    IN  IF exp > Ceiling THEN Ceiling ELSE exp

\* fastrand_jitter(capped / 4 + 1).
Jitters(attempt) == 0 .. (Capped(attempt) \div 4)

\* backoff_ms: the delays there may be; the sum cannot overflow, and never exceeds the cap.
BackoffMs(attempt) ==
    {IF Capped(attempt) + j > MaxDelay THEN MaxDelay ELSE Capped(attempt) + j : j \in Jitters(attempt)}
==============================================================================
