------------------------------ MODULE MCStreaming ------------------------------
(* Streaming on small logs. *)
EXTENDS Streaming

CONSTANTS yes, no, s1

At(t, rec) == [at |-> t] @@ rec
Bid(q) == Row([side |-> "bid", price |-> 1], q)
Ask(q) == Row([side |-> "ask", price |-> 2], q)
Trade(x) == [kind |-> "trade", asset |-> x]

\* Two assets with checkpoints whose cuts differ.
Checkpoints ==
    << At(1, SnapshotRecord(yes, << 1 >>, Bid(2), 1)),
       At(1, SnapshotRecord(yes, << 1 >>, Ask(1), 1)),
       At(1, SnapshotRecord(no, << 2 >>, Bid(1), 1)),
       At(1, DeltaRecord(yes, Bid(1), 2)),
       At(1, CheckpointRecord(yes, << >>)),
       At(2, DeltaRecord(no, Bid(3), 2)),
       At(2, CheckpointRecord(no, << >>)),
       At(2, DeltaRecord(yes, Ask(2), 3)) >>

\* A market that ages out, comes back with a delta, is seeded by a
\* checkpoint, and ages out again.
Rotation ==
    << At(1, SnapshotRecord(yes, << 1 >>, Bid(2), 1)),
       At(2, SnapshotRecord(no, << 2 >>, Bid(1), 1)),
       At(3, IngestRecord("reconnect_success", NoAsset)),
       At(5, Trade(no)),
       At(6, DeltaRecord(yes, Ask(1), 2)),
       At(7, CheckpointRecord(yes, << >>)),
       At(11, DeltaRecord(no, Bid(2), 2)) >>

Profile(tokens, script, starts, flushes) ==
    [tokens |-> tokens, script |-> script, startsFrom |-> starts, flushes |-> flushes,
     backfilled |-> {}, prunes |-> FALSE, maxRestarts |-> 0, maxFaults |-> 0, sessions |-> {}]

MCAssets == {yes, no}
MCPrices == {1, 2}

MCProfiles ==
    << [Profile({yes, no}, Checkpoints, 5, {7}) EXCEPT !.maxFaults = 2],
       [Profile({yes, no}, Checkpoints, 2, {6, 8}) EXCEPT !.maxRestarts = 1],
       [Profile({yes, no}, Checkpoints, 3, {5, 8}) EXCEPT !.prunes = TRUE],
       [Profile({yes, no}, Checkpoints, 2, {8}) EXCEPT !.backfilled = {no}],
       [Profile({}, Rotation, 2, {}) EXCEPT !.maxRestarts = 1, !.prunes = TRUE],
       [Profile({}, Rotation, 3, {}) EXCEPT !.maxFaults = 1, !.prunes = TRUE],
       [Profile({}, Rotation, 2, {}) EXCEPT !.sessions = {s1}],
       [Profile({yes}, Checkpoints, 5, {5}) EXCEPT !.sessions = {s1}, !.prunes = TRUE] >>

\* What ServedFromLogAlways takes for granted of the logs.
ASSUME LogsAreOfAFeed
================================================================================
