------------------------------- MODULE Rotation -------------------------------
(***************************************************************************)
(* The rotation over the 5-minute markets (pb-bin/src/commands/feed.rs,    *)
(* market_discovery.rs): one generation of feed tasks per bucket, the next *)
(* one subscribed before its bucket begins and the last one kept until its *)
(* bucket has ended.                                                       *)
(***************************************************************************)
EXTENDS Ingest

CONSTANTS
    Bucket,       \* BUCKET_SECS
    PreRotation,  \* PRE_ROTATION_SECS
    Attempts,     \* how often a discovery is tried
    MaxClock      \* bound: the last moment modelled

ASSUME RotationAssumption ==
    /\ Bucket \in Nat \ {0} /\ PreRotation \in 0 .. Bucket - 1
    /\ Attempts \in Nat \ {0} /\ MaxClock \in Nat

VARIABLES
    clock,
    rot,       \* where run_rotation is, its front and next generations, active_bucket, target_bucket
    spawned,   \* the buckets this process subscribed to, in order
    announced  \* the markets last given to on_active

rotationVars == << clock, rot, spawned, announced >>

None == -1

Idle == [pc |-> "off", front |-> None, next |-> None, active |-> None, target |-> None, tries |-> 0]

RotationInit == clock \in {0, 1} /\ rot = Idle /\ spawned = << >> /\ announced = {}

Tick == clock < MaxClock /\ clock' = clock + 1 /\ UNCHANGED << rot, spawned, announced >>

CurrentBucket == Bucket * (clock \div Bucket)

\* Faulty variant: the bucket of the clock.
TargetOfClock == CurrentBucket

\* next_target_bucket.
NextTargetBucket ==
    IF rot.active = None THEN CurrentBucket
    ELSE Max({rot.active + Bucket, CurrentBucket})

Plan ==
    /\ rot.pc = "plan" /\ ~cancelled
    /\ rot' = [rot EXCEPT !.target = NextTargetBucket, !.tries = 0,
                          !.pc = IF rot.active = None THEN "discover" ELSE "sleep"]
    /\ UNCHANGED << clock, spawned, announced >>

\* The window before the target has begun.
Wake ==
    /\ rot.pc = "sleep" /\ ~cancelled
    /\ clock >= rot.target - PreRotation
    /\ rot' = [rot EXCEPT !.pc = "discover"]
    /\ UNCHANGED << clock, spawned, announced >>

\* discover_with_retry finds the market; Generation::spawn.
DiscoverFound ==
    /\ rot.pc = "discover"
    /\ rot' = [rot EXCEPT !.pc = "retire", !.next = rot.target]
    /\ spawned' = Append(spawned, rot.target)
    /\ UNCHANGED << clock, announced >>

\* Faulty variant: the bucket is skipped at the first failure.
SkipsAtOnce ==
    /\ rot.pc = "discover"
    /\ rot' = [rot EXCEPT !.tries = @ + 1, !.pc = "retire"]
    /\ UNCHANGED << clock, spawned, announced >>

\* It does not; after the last attempt the bucket is skipped.
DiscoverFails ==
    /\ rot.pc = "discover"
    /\ rot' = [rot EXCEPT !.tries = @ + 1,
                          !.pc = IF rot.tries + 1 = Attempts THEN "retire" ELSE "discover"]
    /\ UNCHANGED << clock, spawned, announced >>

\* Faulty variant: the old market goes when the new one is there.
RetiresAtOnce == TRUE

\* retire_at_boundary.
RetiresNow == rot.front = None \/ clock >= rot.target \/ cancelled

Retire ==
    /\ rot.pc = "retire" /\ RetiresNow
    /\ rot' = [rot EXCEPT !.pc = "plan", !.front = rot.next, !.next = None, !.active = rot.target]
    /\ announced' = IF rot.next = None THEN announced ELSE {rot.next}
    /\ UNCHANGED << clock, spawned >>

\* The shutdown ends the loop; the generations that run are stopped.
Break ==
    /\ cancelled /\ rot.pc \in {"plan", "sleep", "discover"}
    /\ rot' = [Idle EXCEPT !.pc = "ended"]
    /\ announced' = {}
    /\ UNCHANGED << clock, spawned >>

RotationNext == Plan \/ Wake \/ DiscoverFound \/ DiscoverFails \/ Retire \/ Break

\* run_feed starts with the process's other tasks and ends with the rotation.
RotationFollows ==
    /\ UNCHANGED clock
    /\ IF feed' = "off" THEN rot' = Idle /\ spawned' = << >> /\ announced' = {}
       ELSE IF feed = "off" /\ Setup.rotates THEN rot' = [Idle EXCEPT !.pc = "plan"] /\ UNCHANGED << spawned, announced >>
       ELSE UNCHANGED << rot, spawned, announced >>

RotationReturns ==
    /\ rot.pc = "ended" /\ feed = "running"
    /\ feed' = "stopped"
    /\ UNCHANGED << walVars, mainVars, producer, emitted, drainVars, sinkVars, ghosts, bounds, storeVars >>
================================================================================
