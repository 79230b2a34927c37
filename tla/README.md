# poly-book in TLA+

poly-book records the order books of prediction markets. A feed process follows
a venue over WebSocket, turns its messages into records, and appends them to a
write-ahead log (WAL) and to Parquet datasets; a live read model rebuilds the
books from the records and serves them, in the same process or in another one
that tails the WAL; a replay engine rebuilds past books from the datasets.

This directory holds TLA+ models of that code, the TLC runs that check them, and
TLAPS proofs about them. Paths below are relative to `src/crates/`.

    venue --ws--> WsClient --raw--> Dispatcher --+--> event channel --> WAL drain --> WAL --> tailer --+
            rest ^   |  ^-- resnapshot worker <--|        ^               |            |               v
                 +---+------- checkpoint producer --------+               v            |        live read model
                                                                     Parquet sink      |               |
                                                                          v            v               v
                                   replay engine <-- reader <-- objects, manifests <-- reconcile   HTTP, WebSocket

## Inventory

| Part | State | Operations | What is hard | What makes it correct | Modules |
|---|---|---|---|---|---|
| WAL writer, segments (`pb-wal/src/writer.rs`, `segment.rs`) | segment files, BufWriter, active segment, lock | open with torn-tail recovery, append, rotate, flush, sync, prune | kill, power loss between any two system calls, buffer spills in the middle of a frame, prune beside running readers | a power loss takes a suffix that was not synced and nothing else; appends stand on a frame boundary; prune spares what listed consumers need | `WalFrames`, `WalWriter`, `Wal`, `DurableLog` |
| WAL reader (`reader.rs`) | position, cached segment, listing, position file | open, next, commit, resync detection | polls between the writer's steps; truncation, rotation and prune under its feet | every record once, in order, none left out; it catches up | `Wal`, `LogTail` |
| Order book (`pb-book/src/book.rs`) | levels, running totals | snapshot, delta, integrity, sequence check | overflow of a total, partial application | a rejected change leaves the book alone | `L2Book`, `Replay` |
| Numbers, times (`pb-types/src/fixed.rs`, `time.rs`) | none | parse, print, encode, normalize | truncation, rounding, overflow | every text and encoding is exact | `FixedPoint` |
| WebSocket client (`pb-feed/src/ws.rs`) | session, attempts | connect, deliver, reconnect with backoff | lost sessions, back-pressure, overflow of the delay | a reconnect is announced before what follows it; the delay stays below its cap | `Feed`, `Reconnect` |
| Dispatcher (`dispatcher.rs`) | shadow books, last snapshot timestamp and hash, sequence numbers | one handler per message kind | stale, repeated, malformed, oversized messages; REST books out of order | its records amount to its shadow book; no false divergence | `Feed`, `FeedStream` |
| Resnapshot worker (`resnapshot.rs`) | debounce times | fetch and inject | the answer is overtaken by the connection | the book is repaired and not taken back | `Feed` |
| Live read model (`pb-api/src/live_state.rs`) | books, pending snapshot groups, active set, published views | apply a record, set active assets, hydrate, broadcast | rows of one snapshot apart in the stream; assets interleaved; rotation | what it serves is the venue's book at some version; readers and subscribers see the same | `LiveState`, `LiveFeed` |
| Checkpoint producer (`pb-bin/src/commands/checkpoint_producer.rs`) | ticker | poll, send | shares the channel with the dispatcher; its books are older than the stream | never replaces a live book | `LiveFeed`, `Ingest` |
| Rotation, discovery (`feed.rs`, `market_discovery.rs`, `pb-types/src/slug.rs`) | generations of feeds, bucket, slug registry | subscribe ahead, retire at the boundary, register | discovery that outlasts its bucket, two generations overlap, names that clash | no bucket twice, no gap; a name leads back to its token | `Rotation`, `SlugRegistry` |
| Ingest (`ingest.rs`, `pipeline.rs`, `pb-store/src/parquet_sink.rs`) | drain loop, timers, sink, tasks and their ends | WAL first, then fan-out; supervision; standby promotion | a stalled sink, failure of any task at any moment, kill, power loss | the store never holds what the WAL did not get; a clean exit left nothing behind; a stop ends | `Ingest` |
| Serve (`serve.rs`, `pb-api/src/hydration.rs`) | tailer, hydration, readiness, follow tracker | hydrate from checkpoints and WAL, tail, commit, resync | prune racing hydration, cuts in the middle of a group, failed re-hydration | ready only when trustworthy; serves the book of the log; catches up | `LogTail`, `Serve` |
| Streaming (`pb-api/src/streaming.rs`) | sessions, per-asset channels | connect, send, lag, close | a client that lags or connects between updates, a channel that is closed | what a quiet client shows is the published book | `Streaming` |
| Store (`pb-store/src/writer.rs`, `pb-replay/src/reader.rs`) | objects, manifests | write a batch, replace a group, resolve, read | a crash between two steps of a publication; a reader beside it | every row is in sight once | `ObjectStore`, `History` |
| Reconcile (`reconcile.rs`) | lock, groups left | validate, replace complete hours | an hour the log has only a part of | no row goes out of sight; a scan that knows no manifest is right afterwards | `Reconcile` |
| Columns and queries (`pb-store/src/schema.rs`, `pb-replay/src/reader.rs`) | none | rows of records, records of rows, hours of a window, newest checkpoint | nulls, codes, rows outside of the window, records without a plausible time | a query finds what was written, and nothing else | `Datasets`, `Queries` |
| Replay (`pb-replay/src/engine.rs`) | none between queries | order events, reset boundary, seed from a checkpoint, reconstruct, validate | timestamps that tie, two clocks, late answers, lost rows | the reconstruction is what was to be seen, or the venue's book | `Replay`, `Tape` |
| Historical service (`pb-service`) | none | integrity summary | an answer that claims more than it knows | "full" means no break | `Service` |
| REST client (`pb-feed/src/rest.rs`, `rate_limiter.rs`) | a bucket of calls | wait for a call, fetch, classify, bound | bodies and lists of any length, a rate that divides to nothing, a burst beside the rate | what is used is within its bounds; no window sees more calls than configured and the burst | `Rest`, `RateLimiter` |
| Read API (`pb-api/src/server.rs`) | none | book of an asset, replayed book, integrity, names | answers while the process is not ready, depths at the bounds | an answer shows the top of the book there is | `Http`, `Streaming`, `Replay`, `Service` |
| Metrics, CLI, web terminal | caches and presentation | | | | |

`PROJECT.json` lists every part with what is modelled of it, and the hazards of
the code line by line with the properties that would catch them.

## Plan

Done, in this order: 1 the WAL; 2 the feed; 3 the live read model composed with
the feed; 4 the serve process on a log, with its clients; 5 ingest, rotation, the
store, reconcile and a reader, composed; 6 replay on what a feed stores; 7 the data
that passes through all of them (numbers, columns, queries, names), with proofs; 8 the
answers of the API, and proofs about the read model and its clients; 9 proofs
about the WAL's readers, the dispatcher, ingest, the rotation and the store, and of the refinement of `DurableLog`;
10 the read model behind the feed and behind a log: what it serves and what readers see;
11 the rate of the REST calls.

Next: the replays, for which sorting needs a theory of its own. A live read model beside `Ingest` in one
process would need `LiveFeed` and `History` in one state space; the record
channel between them is modelled in both.

## Modules

**`WalFrames`** is the format of a segment: units instead of bytes, one header
unit and `PayloadLen[r]` payload units per record. A unit names the record it was
written for, so a CRC that matches is a run of units of one record. `ReadRecordAt`
is `read_record_at`; where a payload unit is parsed as a header its outcome is any
but a valid record.

**`WalWriter`** is the directory and the writing process: `bytes` is the page
cache, `synced` the fdatasynced prefix, `entryDurable` the directory entries that
`fsync_dir` covered, `buf` the BufWriter. Each system-call boundary at which a
crash leaves something different is an action boundary (`OpenCreate`,
`OpenSyncDir`; `RotateSeal`, `RotateCreate`, `RotateAppend`; `PruneStart`,
`PruneStep`, `PruneEnd`). `Exit` drops the writer (the buffer is flushed), `Kill`
loses the buffer, `PowerLoss` cuts and zeroes what was not synced, and may undo
file creations whose entry was not synced, last one first.

**`Wal`** adds the consumers: `OpenReader` is `WalReader::open`; one round of the loop of `next` is
`Deliver`, `SkipCorrupt`, `PollEnd` or `PollUnloaded`, `Commit` is
`commit_position` (write, fsync, rename: atomic). **`DurableLog`** says what a
log with a durable prefix is, and `Wal` implements it under the mapping at its end.

**`L2Book`** is the book with its running totals and the checks of `try_apply_*`;
**`Records`** the records as far as their receivers look at them. Prices and sizes
are small integers and `MaxTotal` stands for `u64::MAX`.

**`Feed`** is a subscription: venue, WebSocket client, dispatcher, resnapshot
worker, and the three channels. The venue is the environment: each asset follows
one script of changes, and a version is a position in it, so that a message is
the version it states. The venue states the best prices with every entry.
Several versions share an exchange timestamp (`Ts`). `Verdict` is the order of the checks of a book message; a book or
an entry can be malformed (`BookFaults`, `bad`). The records of a message are
computed at once and sent one by one (`outbox`, `Send`): nothing else of the
dispatcher runs in between. The try_send of a resnapshot request is part of that
same step, so requests can be taken a little earlier than the sends before them.
`turn` makes the keys of two snapshots of the same version differ, as
the receive timestamps do. `Dispatched` handles the entries of a message one after the other.
**`FeedStream`** watches the records of a feed: `implied` is the book a consumer
would build from them (`Rebuilt`), `newest` the last timestamped snapshot taken over.

**`LiveState`** is the projector:
one action per kind of record, each with the materialization before it, the
republication (`Refresh`) and the broadcast (`Broadcast`) after it; `SetActive` is
the rotation command. **`LiveFeed`** composes both with the checkpoint
producer over one event channel; `basis` and `upto` record what a served book was
built from.

**`LogTail`** is the WAL as a process sees it that tails it: records are whole,
segments take `PerSeg` of them, the segments below `base` are pruned. **`Serve`**
extends it and `LiveState`: `ReadCheckpoints`, `LoadCheckpoint`, `ReplayApply` and the others
of hydration are the steps of `hydrate` and `replay_wal_tail`, `OpenTail` to `TailIdle`
those of `tail_session`, `Observe` and `Desired` the `FollowTracker`, and `hydrated` and
`resync` the two flags that readiness reads. `sound` and `lost` say of
which book the log still has all records. **`Streaming`** adds the clients: a
session's channel is a ring of `Capacity` updates with a place to read
(`lagged` when it fell out), and `Connect` may fall between any two steps of `Serve`.
**`Http`** has what the handlers share: statuses, the bounds of a depth, the levels an
answer shows. `OrderbookSnapshot` in `Streaming` and `ReplayReconstruct` in `Replay` are the
handlers that answer with a book, and the properties of both modules speak of their answers.

**`ObjectStore`** is the store: immutable objects, named by group and content, and one
manifest per group; `Resolve` is what a reader makes of a listing and a manifest.
**`Ingest`** is the process: sources, event channel, `wal_drain` (`DrainReceive`, `DrainPass`,
the timers), `ParquetSink` (`SinkReceive` to `FlushFails`) and the supervisor (`FeedReturns`,
`TaskExits`, `Join`, `JoinTimeout`); `Crash` is a kill or a power loss. A
process may begin as a standby that waits for the lock. **`Rotation`** is the loop over the
markets. **`Reconcile`** is the command with `replace_group` step by step. **`History`** composes
them with a reader whose listing, manifest and files are read in three separate steps.

**`Replay`** is the reconstruction as operators on a set of rows (`ReconstructAt`: a set
of results, because some choices are open), **`Tape`** the ways rows come to be
stored: venue, connection, REST answers and checkpoints, each with a delay.

**`FixedPoint`**, **`Datasets`**, **`Queries`**, **`SlugRegistry`**, **`Service`**, **`Rest`** and **`Reconnect`**
are functions of data without a state. `Datasets` turns records into rows and back, `Queries`
files rows by hour and looks for them, `SlugRegistry` is discovery and the
resolution of names, `Service` the integrity summary, `Rest` how an answer of the venue is
classified and bounded. They are proved about, for all data; only of `FetchBook` the runs of
the feed evaluate an assumption (`BooksAreBounded`: over bodies around each bound it accepts
what the definition of a whole, bounded answer accepts), since a fold is out of the prover's reach.

**`RateLimiter`** is the quota that `with_window` makes of the configuration (`PerSecond`, `Burst`,
`Interval`), the callers of `acquire` and a clock. The limiter is the governor library's, which is
not part of the repository: a bucket of cells, full at first, that gains one per interval, here as the
moment at which it is full again (`full`). A caller takes a cell (`LetThrough`) or sleeps until there
may be one and looks again (`Sleep`), at any moment after it wakes. Within one process a client belongs to
one task; several callers, as the shared limiter allows, are more than that. It is proved about;
`MCRateLimiter` is an instance for TLC, outside the table below: 4 calls in 2 seconds of 7 ticks, 2
callers, where six calls in one window do occur, the most there may be.

A definition with the comment "Faulty variant" is not part of a specification: it
is a plausible bug in the definition after it, and a property that does not fail
under the bug would say nothing.

## Runs

| Run | Bounds | What it shows |
|---|---|---|
| `wal_durability` | 4 records of two lengths, 3 segments, 2 exits or kills, 1 power loss | types; sealed segments are synced; appends stand on frame boundaries; synced prefixes are intact and survive; the offset grows; the WAL implements `DurableLog` |
| `wal_consumers` | 5 records, 3 segments, 1 consumer, 1 exit | without a crash of the writer no gap within a segment and positions on boundaries; always delivery in order, commits that do not retreat, a prune that spares listed consumers; a reader that stays open reaches the end |
| `wal_rotation_skip` | 4 records, 2 segments | finding: records between the last poll of a segment and its rotation are skipped |
| `wal_torn_tail` | 4 records, 1 segment, 1 kill | finding: a recovered tail that has grown past the cached length is spliced |
| `feed_stream` | 1 asset, 6 changes, 2 entries per message, 1 lost connection, 1 malformed message, channels of 2, totals up to 2 | the shadow book is what the records amount to; no false divergence; snapshots do not retreat |
| `feed_resnapshot` | the same | finding: a resnapshot takes the book back behind deltas that were applied |
| `live_books` | 2 assets, one of which moves, 1 lost connection, 1 rotation, channels of 1 | a book built from a whole snapshot is the venue's; readers and subscribers see it; checkpoints never replace it; pending groups end |
| `live_split_snapshot` | the same | finding: a checkpoint between two rows splits a snapshot |
| `serve` | eight histories of 7 or 8 records and 2 assets, segments of 3, 1 client, a channel of 1 | ready means recovered; what is served is the log's book; it becomes ready again, catches up and follows the markets; clients converge and end |
| `history` | eight histories of up to 4 records, hours of 2, channels of 1, up to 2 processes, 1 retry, 1 read | WAL first; a clean exit stored everything; a read sees one generation; nothing goes out of sight; no market twice, none left early or without a successor that was to be found; a stop ends |
| `replay` | 1 asset, 3 changes, 4 ticks, 2 sessions, 2 fetches, 1 missing delta | a replay by the local clock is what was to be seen, one by the venue's clock is a book the venue had; gaps are losses; validation tells a loss |
| `replay_straddle` | the same, 1 session, 1 fetch, nothing missing | finding: a replay by the local clock from a checkpoint leaves out deltas |

Why the bounds are enough. The WAL instance has a rotation into each of two
segments, frames that fill a segment exactly and frames that do not, spills inside
a frame, and a successor that recovers a tail and rotates again; a power loss
after that repeats the first with other contents. In the feed the script has a
better price, a size that overflows the total, a withdrawn level and two versions
with one timestamp; one lost connection separates two sessions, and channels of two
hold a stale message behind a new one. In `live_books` two assets are what interleaving
takes; channels of one already let rows, deltas of the other asset, checkpoints and
the rotation and the events of a reconnect fall between each other. Malformed messages
are in `feed_stream`; in `live_books` they would only multiply states,
and `ServedIsVenueState` excludes them.

`serve` and `history` start in one of several profiles (`MCProfiles`), each with the log or script,
the mode and the faults of one question, since all of them at once would not be a
larger case but a product of independent ones. Those of `serve` are: faults during hydration and
tail; a restart with a committed position; a prune at any time; one asset backfilled; a
follower with a restart, with a fault, with a client; a client of a fixed asset. Their two scripts hold cuts of two
assets in different places, one between a group and the record that ends it, and
a market that ages out, comes back by a delta and ages out again. Those of `history` are: two
faults and a stop; a stop whose join may time out, and a second process; a kill
followed by a standby; a reader beside reconcile; power loss; two groups with a kill
between them; a log whose first hour is pruned away; a rotation whose discovery outlasts
buckets. Each has the timers (`Setup.timers`) it takes: a timer that does not fire in a
profile fires in another one. Four records are two in a complete hour with one before
and one after; two generations of an object exist once a replacement was
interrupted and another begins.

In `Tape` one clock serves both sides: a row is received no earlier than the venue
stamped it, as with a local clock that does not lag. The venue changes its book at most
once per tick, keeps a level in it and stamps every message; two snapshots are not received in one
tick, and a reconnection takes a tick. `Lookback` is 2 of 4 ticks, so that rows do fall
out of the window; a property that needs the whole session says so (`WholeWindow`).

`replay` never comes to a total that overflows or to a book that crosses: the first
happens in `feed_stream`, the second, which only marks the result, in no run.
`feed_stream` leaves out a script that empties a book, since that breaks
`ShadowIsImplied` in the code: a snapshot without levels emits nothing, and whoever
rebuilds from the records keeps the old levels. The specification calls a script that does not
`BooksHaveLevels`. Deadlock is checked except
where the system comes to a stop: the WAL's writer at its bounds of records and exits, the ingest
process when it has ended and may not be started again, the tape at its last tick, the
server that was stopped.

Fairness. The WAL's `CatchesUp` assumes what `wal_drain` and the tailer do: the
flush timer fires between prunes (strong fairness, the biased select polls the
prune timer first), the poll timer of a consumer keeps firing, a rotation or prune
under way ends. `PendingEnds` assumes that the projector takes commands from its
channel, and that the checkpoint producer's ticker fires and its fetch succeeds in
the end; nothing is assumed of the venue or the feed. Without a producer (the
feed-only `serve-api`, or `storage.checkpoints_enabled` off) it does not hold:
the last snapshot of a quiet market stays pending. In `Streaming` the tasks of the server are
scheduled, those of each open session are, and ingest writes its log to the end; prunes,
faults, connections and stops happen or not. In `History` the tasks of a living process
are scheduled and so is its rotation while the feed runs; nothing is assumed of stops, crashes,
reconcile, readers or the clock. `StopEnds` rests on the tasks
alone: a join that times out (`JoinTimeout`) may happen or not.

## Findings

The five runs that expect a violation each refute a sentence of the repository;
`PROJECT.json` quotes it. In short: `advance_segment` leaves a segment without
topping it up; `top_up_current_segment` trusts the length of the file to notice a
truncation; a resnapshot is compared with the last snapshot and not with the deltas
since; a boundary record that is not the dispatcher's ends a snapshot group early;
and a replay by the local clock takes the arrival of a checkpoint for the time of its book.

Four more have no run of their own:

- the emptied book above;
- a graceful stop that is reported as a failure, because the checkpoint producer ends with
  its token and `select!` may see that exit first;
- the lease of the WAL, which `docs/operations.md` says keeps reconcile away while ingest
  is active: it is the writer's, and goes when the drain ends, before the last flush of
  the sink. A reconcile that starts in between lists a group, the flush adds an object to it
  that no manifest supersedes, and readers see its rows twice. In `Reconcile`, a profile whose `offline`
  is false has this behaviour, and `AloneInTheStore` fails in it;
- a local clock that steps back over the start of an hour, which `docs/operations.md` says
  fails closed: reconcile compares times along the retained log only. When the
  record before the step has been pruned, the hour counts as complete and is replaced without
  it. With such a script `WholeHoursOnly` and `ViewNeverLoses` fail.

## Proofs

The theorems hold for every value of the constants, from the named assumptions of the
modules alone unless something else is said here.

**The WAL** (`WalProofs`): for every segment size, number
of records, payload length, set of consumers and number of crashes, payloads not
empty and segments not of size zero (`FramesAssumption`, `WriterAssumption`).

- `TypeCorrect`: `Spec => []TypeOK`.
- `DurableInvariant`: `Spec => []DurInv`, and from it `SealedSyncedAlways`,
  `AppendsOnFrameBoundaryAlways` and `SyncedIntactAlways`.
- `DurableKeptAlways`: `Spec => DurableKept`: no step of anyone, and no crash, takes
  away durable bytes; prune removes whole segments below its cutoff.
- `CommitNeverRetreatsAlways` and `PruneSparesListedAlways`, by `CommitInvariant`: an open
  reader is not behind the segment it committed, and the cutoff of a prune under way is not above
  the position of any listed consumer, those committed since included.
- `GlobalOffsetGrowsAlways`, under `FramesFit` (no record is larger than a segment): a
  segment never outgrows its size, so the offset `segment * SegmentSize + written`
  goes on over a rotation. Without `FramesFit` the formula itself goes back.
- `DeliveredInOrderAlways`, by `ReadInvariant`: what a reader has returned, what it still has
  in its cached copy before and behind its offset, and what later segments hold are in
  the order of appending. The cached copy need not be a prefix of the file: after a
  recovery that cut a tail it may be spliced (the finding `wal_torn_tail`), and the order holds even so.
- `WalImplementsDurableLog`: `Spec => ImplementsDurableLog`, the refinement of `DurableLog`.
  `LogInvariant` says what the mapping needs: record ids grow along the segments, the buffer
  included, and directory entries become durable oldest first; from it the durable records are a
  prefix of the log. One lemma per group of steps shows the abstract step: an append
  extends the log by one record, a kill or a recovery cuts a suffix that was not durable, a prune takes a
  prefix, and every other step leaves the log alone and its durable part no shorter.

None of the safety invariants is inductive. `DurInv` adds to the types
`FilesInv` (there is no content where there is no file), `WriterInv` (what the program counter
says about the active segment, which is the last one, about the next id, which is
above all segments, and about the buffer) and `SyncedInv` (synced prefixes are well
framed, every segment but the last is fully synced, file and buffer together are well
framed). It is needed because whether a power loss damages only a tail depends on
rotation having synced the segment before, and whether recovery leaves a
boundary depends on the synced prefix ending at one. The proof has one
lemma per group of actions; each proves the invariant and `KeepsDurable` for that step
(`DurGoal`). The lemmas before it are about runs of frames: `WellFramedConcat`
(appending a frame keeps the run), prefixes and cuts of sequences, and what a power
loss can leave (`PowerLossFacts`). `FrameStands` and `RecordsOfRun` say which records
a run of frames holds: the units after a header are found by induction on their number.

**The feed** (`FeedLemmas`, `FeedProofs`): for any number of assets, script of the venue, entries of a
message, lost connections, malformed messages, capacities and limit of a total. The
levels are finitely many (`BookAssumption`: a price is a `u32`), so that a book has a
list of rows.

- `FeedTypeCorrect`: `Spec => []StreamTypeOK`. It is where the functions that go over data are
  reasoned about: what a snapshot's rows and a message's entries make of a book is again
  one, or a rejection (`BuiltFrom` and `Climb` say how such a function is unfolded step by step).
- `SnapshotsNeverRetreatAlways`: `Spec => SnapshotsNeverRetreat`, by `NewestIsLast`: the timestamp
  the dispatcher keeps is that of the newest snapshot it took over.
- `ShadowIsImpliedAlways`: `BooksHaveLevels => (Spec => []ShadowIsImplied)`. The
  hypothesis excludes what really breaks it, a snapshot without rows. The induction
  goes over the entries of a message (`Mirrors`, `DispatchedMirrors`: after each entry the records
  so far rebuild the shadow book) and over the rows of a snapshot (`SnapshotRebuilds`: the
  first row clears what a consumer had, the last completes the new book).
- `NoFalseAlarmAlways`: `Spec => []NoFalseAlarm`. A divergence is reported for a
  comparison of a book with what a message states, which may have waited in the
  channel while the venue, the connection and the other messages went on. `CalmWithoutFault` therefore
  says how all of them fit: with a mark per asset for the version it has been
  brought to, the messages in the raw channel lead one by one (`Line`, `Brings`) from marks that the shadow
  books, hashes and timestamps stand at or behind (`Behind`) to those of the
  connection; and nothing was asked of the resnapshot worker. Sending extends the line,
  dispatching moves its start; within a message `KeptTo` says the same entry by entry.

**Ingest, rotation and the store** (`HistoryProofs`): for every list of profiles, that is
every script, mix of faults, timers, starts and stops, and every capacity of the channels.

- `WalFirstAlways` and `CleanExitStoredAlways`, by `IngestInvariant`. Neither is
  inductive. `IngestInv` says where a record can be: each one emitted since the process started is
  in the event channel, dropped for a noted reason, or in the WAL or pruned from it
  (`InWal`), and unless something was abandoned it is in the event channel, with the drain, in the
  sink's channel or buffer, or in the store (`InStore`). `OnlyFromWal` is the converse: what is
  with the drain's second half or beyond was in the WAL. The others say what the places of the
  tasks imply: a drain that ended well left nothing behind (`DrainOver`), a sink that is flushing has in the
  store or in the groups left what it has buffered (`SinkOver`).
  A group's rows are built by a recursive function (`RowsOf`); that they are the
  buffered records of the group, none lost and none made up, is `RowsOfFacts`, by induction.
- `NoMarketTwiceAlways`, by `RotationInvariant`: the front is no later
  than the active bucket, the target at least one bucket later, and the markets
  subscribed are in ascending order below it, however the clock jumps during a discovery.
  `CutOverCleanAlways` by the same and `SuccessorInvariant`: from the end of its discovery to the
  boundary the next market is the target and subscribed, or there is none and the attempts are used up.
- `ReadIsOneGenerationAlways`, `ViewNeverLosesAlways`, `DirectScanSafeAlways`,
  `WholeHoursOnlyAlways` and `AloneInTheStoreAlways`, by `StoreInvariant`, under two hypotheses
  about how the system is run. `Operated`: reconcile runs while no process writes to the store
  (the rule of `docs/operations.md`, which the lease does not enforce). `ClockKeepsUp`: the times of
  reception do not go back along the script, pruned records included. Without either the
  formulas are false, see the last two findings.

`HistoryInv`, which `StoreInvariant` proves, has six parts. `InLine`: records keep the order of
emission from channel to WAL to sink, so that whatever was pruned is earlier than what is retained. From it
follows that an hour reconcile takes for complete was not pruned (`NothingPruned`), and
that the object made from the log has every row the store may have of its group, but for
what a crash cut off (`WalHasAll`). `Fresh`: what is still on its way to the store is in no
object that is there or that a manifest names, but for the objects of a flush under
way, which a retry writes again under the same name. `StoreOK`: every such object has rows of its
group only, and what a listing of the moment and the manifest make of a group has no row
twice. `ReconcileOK` and `ReplacedOK`: what each place of `replace_group` implies: everything known
of the group is superseded before the first manifest is published, the copy is superseded before it is
there, and a group that is done without a failed deletion has its one object left.
`ReaderOK`: whatever a reader listed, however long ago, the manifest of the moment makes of it a
set of files without duplicates that has what was in sight. A manifest changes only to show one object
for everything known of the group (`Shows`), so an old listing resolves to that object, and objects
go only when superseded (`StoreSafe` is what every step guarantees). TLC checked
`HistoryInv` on the instance of the run `history` that keeps to the two hypotheses before it was proved.

**The read model** (`LiveStateProofs`, `LiveFeedProofs`, `StreamingProofs`), for
every set of assets, sessions, profiles and capacities, and for logs of any length. Beside the constants'
assumptions they use that the tokens of a profile are assets (`ServeAssumption`).

- `ChangesAreBroadcast`: `Spec => NothingSilent`, and `CheckpointsOnlySeed`:
  `Spec => LiveBeatsCheckpoint`, in `LiveFeed`. Neither is about states alone: the first
  needs to know that the old view of an asset shows the old book, since a change is broadcast
  by what a record touches and the property compares views. `PublishedInv` says so: of every
  asset that is known, the view has the projector's book and readiness, and what waits or is
  ready is known. Each operation of `LiveState` keeps it and satisfies `Announced`,
  the step's part of the property (one lemma per kind of record and one for rotation).
- `PublishedFreshAlways`: `Spec => []PublishedFresh`. It is no invariant of `LiveState` by itself:
  a group that another asset's record ends and that the book rejects would leave its own asset's
  warning unpublished. In `LiveFeed` no group is rejected. `RowsInv` says that every row in
  the outbox, in the channel or in a group that waits is a row of a snapshot the dispatcher took
  over, and `SomeRowsFit` that if all rows of a book are taken then so are any of them, in any order
  and however often: the running total of a side is the sum of its sizes (`Consistent`,
  along an enumeration of the levels), and fewer levels have a smaller sum (`TotalGrows`).
- `ServedIsVenueStateAlways`: `BooksHaveLevels /\ TotalsFit => (Spec => []ServedIsVenueState)`. The
  first hypothesis is the one of `ShadowIsImpliedAlways`; the second says that no side of a venue's
  book exceeds a total, since a delta that did would be passed over by the projector (the run
  checks both of its script). The invariant goes over feed, channels and read model at once
  (`TraceInv`): for each asset the records in the channel and then those in the outbox lead
  (`Trail`) a cursor (a version, the turn of the last snapshot, how many of its rows are to come)
  from where the projector is (`ProjectorAt`) to where the dispatcher is (`DispatcherAt`),
  which is at its mark. A row of a snapshot either begins a new turn or has the number its cursor expects, a
  delta is the venue's next change, everything else leaves the cursor alone.
  The marks are those of `NoFalseAlarmAlways`. At the projector a group that waits is a run of rows of
  the cursor's snapshot, ending where the cursor is; so a group with as many rows as the
  snapshot has is the snapshot, however the records of other assets, checkpoints and rotations cut it.
- `ReadyRecovered`: `Spec => []ReadyIsRecovered`, in `Streaming`, by `FlagsInv`: what each place
  of the serve task implies of the two flags and of the hydration's outcome.
- `ClientsConverge`: `Spec => []StreamConverges`. That what a quiet client shows is published
  is not inductive, because a client that has updates in its queue shows something older.
  `SessionsInv` says that the last of its queue is the published book, or what it shows if the
  queue is empty (`EndsPublished`). That rests on `ChannelsInv` (the channels
  are those of the active assets, but between the two halves of a rotation) and on
  `PublishedInv` with `UpdatesInv` (an update carries the published book). `ClientsInv`
  is their conjunction. The ring may drop updates but never the last (`PushEnds`).
- `ServedFromLogAlways`: `LogsAreOfAFeed => (Spec => []ServedFromLog)`, in `Streaming`: a ready
  process serves the log's books, however long the log is and whatever is pruned, flushed, skipped
  or fails. The invariant is `ServedInv`, in two halves. `PlacesInv` is about the reader: it stays
  in the log, and has of a segment no more than there is (`ReaderInv`); neither a hydration, which begins
  again at the earliest segment, nor the tail goes back behind what was read (`HandoffInv`);
  every cut is the one of a stored checkpoint of its asset, and once the replay has ended
  the reader is beyond all of them (`CutsInv`). `BooksInv` is about the books: the rows
  that wait of a snapshot are rows the reader has passed, in their order (`RowsRight`), and a sound
  book is the log's at the reader's position or at its cut, whichever is later (`Current`), unless a
  snapshot that is whole waits to replace it (`Replaced`). The hard case is a replay that skips
  behind the cuts: it may skip the record that would have ended a group, and the group then goes on to wait
  though the log has gone on. `WaitsRight` says that this is over before the process is ready,
  and that the group, applied late, still gives the book of the log.
  The hypothesis is about the logs alone: the rows of a snapshot follow one another and
  make a book, as one call of the dispatcher emits them; no delta exceeds a total; a
  checkpoint's rows give its book again; and `BookAt`, which is a fold, goes on by one
  record at a time, which would be an induction over data. `MCStreaming` assumes it of the logs of its
  profiles, so TLC evaluates it there.

**Functions of data** (`DataProofs`), under one named hypothesis each
that a reader can check: `Machine` (the widths of the machine's integers, and that the
mark of a failed conversion is no number), `Marks` (`Machine`, and that the marks for
absent and invalid are no values) and `ReconnectAssumptions`.

- `FixedPoint`: a price or a size that is accepted is exactly the number its text
  spells (`PriceTextExact`, `SizeTextExact`), what is written to JSON or to the WAL
  is read as it was (`PricesRoundTrip`, `SizesRoundTrip`), and an instant gives one number
  whatever unit the venue sends (`UnitsAgree`, for times whose units the magnitude tells apart).
- `Queries`: a record is what its row says (`RecordsRoundTrip`), a batch answers a
  query completely (`ExtractIsComplete`), so do the files of the window's hours
  (`QueryIsComplete`), the search for a checkpoint that stops at the first hour with one finds
  the newest (`LatestIsNewest`), a window has at most 25 hours (`WindowsAreBounded`). The argument
  goes from columns to rows (one lemma per dataset), from rows to a batch, and from a batch to a
  store: a plausible time in the window is in an hour of the window.
- `SlugRegistry` and `Service`: registering a market keeps every token named by a slug that names it
  (`SlugsNameTheirTokens`), the slug shown of an asset resolves to it (`SlugsLeadBack`),
  "full" claims no more than is so (`FullIsUnbroken`). The first needs the tokens and slugs of
  a market to be distinct and its slugs not to be taken (`Untaken`): two markets without a slug
  of their own under one event do overwrite each other.
- `Reconnect`: no delay is longer than configured (`DelaysAreBounded`), and the cap
  leaves room for jitter (`JitterAtTheCap`).

**The rate of the calls** (`DataProofs`): `RateIsKeptAlways`, for any configuration, any number of callers and
any clock that is fine enough. Its invariant (`LimiterInvariant`) says that the calls since any
one have emptied as many cells (`CellsTaken`), so that `n` calls take at least the time of `n` cells less
those of the burst (`Spaced`). In a window there is then time for the calls configured, and the burst comes on
top: with 1500 calls in 10 seconds up to 1650, by `with_window`, which allows a burst of `per_second`. The hypothesis
`FineClock` is about the interval, which is rounded down to whole nanoseconds: what that adds to a
window is less than one call, as it is up to some thousands of calls per second.

Only model-checked:

- every liveness property: fairness and ENABLED are out of the prover's reach;
- everything about replays (`Tape`), whose operators sort sets of rows.

Proved, and in none of the runs: the functions of data and the rate of the calls.

## Not modelled

What `PROJECT.json` marks `not_modelled`, with the reasons there: the WAL's codec (a
version byte before an encoding, pure data), metrics, the command line, the web terminal. Inside the
modelled parts: the token, the limit of requests under way and the timeout of the HTTP server,
which depend on no state modelled here; its lists of assets and feed status, which copy the
published state; log output and clock skew; `tick_size_change` and unknown messages, which change nothing;
I/O errors of the WAL other than as the end of the writer; position files
that do not parse; frames so large that their length overflows; conversions from
floating point, which the recorded path does not use; mid prices, spreads and depths;
the projections of the terminal. Session ids start again after a stable session and
are compared by nobody, so they are left out.

What the models take for granted, and what is left when it does not hold:

- Durability counts from `fsync_dir`: if the creator
  of a segment is killed before it, the successor opens the segment without syncing the
  directory, and its later syncs do not make the entry durable. And `global_offset`
  grows only while no record is larger than a segment.
- The put of one object is atomic. Reconcile is started only after the ingest process has ended
  (`Offline`), as the operators' guide asks for: the lease alone does not see to it.
- A failed re-hydration is not retried: the process stays unready until it is restarted.
  Books that a re-hydration sets reach a client with the next update only.
- A last flush, sync or join that fails is logged and the process still exits well;
  `CleanExitStored` leaves those ends out (`abandoned`).
- After a checkpoint a replay takes the first delta for a gap, and a validation
  reports a mismatch for deltas that were under way at the reference's time; both are
  what the code does, and the properties say so. Snapshots with one ordering time are merged.
- The limiter is taken at governor's documentation. What is counted is the calls it lets through, and
  those of one limiter: each generation of the feed has a client of its own for its resnapshots, the
  discovery has another, and the checkpoint producer's requests pass no limiter but pauses, so that a process
  may call more often.
- Arrival ordinals start again with each process. Trades and ingest events are stored
  without it, checkpoints without it and without their sequence number.
- Records without a plausible time are filed out of reach of every query; times after
  the end of the calendar (`MaxTimestamp`) read as the epoch.
- Storage keys are taken as injective. A legacy name that was encoded twice can match
  another asset's file; rows are filtered by their asset again, so queries are not affected.
