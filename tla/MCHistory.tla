------------------------------- MODULE MCHistory -------------------------------
(* History on small scripts. *)
EXTENDS History

CONSTANTS a, b

Event(x, t) == [key |-> x, at |-> t, kind |-> "event"]
Checkpoint(x, t) == [key |-> x, at |-> t, kind |-> "checkpoint"]

Plain(script) ==
    [script |-> script, maxFaults |-> 0, maxStarts |-> 1, standby |-> FALSE, stops |-> FALSE,
     slow |-> FALSE, crash |-> "none", rotates |-> FALSE, timers |-> {"sink"},
     reconciles |-> FALSE, offline |-> TRUE, reads |-> FALSE]

\* The hours have two moments; hour 1 is complete.
OneHour == << Event(a, 1), Event(a, 2), Event(a, 3), Event(a, 4) >>
TwoGroups == << Event(a, 1), Event(a, 2), Event(b, 3), Event(a, 4) >>
TwoHours == << Event(a, 2), Event(a, 2), Event(a, 4), Event(a, 6) >>
Mixed == << Event(a, 1), Checkpoint(b, 1) >>

MCProfiles ==
    << [Plain(Mixed) EXCEPT !.maxFaults = 2, !.stops = TRUE, !.timers = {"sync"}],
       [Plain(Mixed) EXCEPT !.maxFaults = 1, !.maxStarts = 2, !.stops = TRUE, !.slow = TRUE],
       [Plain(OneHour) EXCEPT !.maxStarts = 2, !.crash = "kill", !.reconciles = TRUE,
                                !.standby = TRUE, !.timers = {"flush", "sink"}],
       [Plain(OneHour) EXCEPT !.maxFaults = 1, !.stops = TRUE, !.reconciles = TRUE, !.reads = TRUE],
       [Plain(OneHour) EXCEPT !.maxStarts = 2, !.crash = "power", !.reconciles = TRUE,
                              !.timers = {"sync", "sink"}],
       [Plain(TwoGroups) EXCEPT !.maxFaults = 1, !.reconciles = TRUE, !.crash = "kill",
                                !.timers = {"flush"}],
       [Plain(TwoHours) EXCEPT !.stops = TRUE, !.timers = {"sync", "prune", "sink"},
                                !.reconciles = TRUE],
       [Plain(<< >>) EXCEPT !.stops = TRUE, !.rotates = TRUE] >>
================================================================================
