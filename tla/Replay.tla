-------------------------------- MODULE Replay --------------------------------
(***************************************************************************)
(* The order book of an asset at a past time, rebuilt from the store       *)
(* (pb-replay/src/engine.rs, the queries of pb-replay/src/reader.rs).      *)
(*                                                                         *)
(* A store is [book, ingest, checkpoints]: three sets of rows.  A row      *)
(* carries recv, when it was received by the local clock, and exch, the    *)
(* venue's time (0 if the message had none); a row of the book also has    *)
(* seq and ordinal, its place in the order of arrival.  Files are read     *)
(* concurrently, hence sets: the engine sorts.                             *)
(***************************************************************************)
EXTENDS Records, Http

CONSTANTS
    Lookback,   \* lookback_us: how far back a replay may start
    NoOrdinal,  \* a row of the time before ordinals; sorts after every ordinal
    NoTime,     \* there is no such time
    NoCheckpoint

ASSUME ReplayAssumption == Lookback \in Nat /\ NoOrdinal \in Nat /\ NoTime \notin Nat

Modes == {"recv", "exchange"}

Floor(t) == IF t < Lookback THEN 0 ELSE t - Lookback

(***************************************************************************)
(* The queries of the reader.                                              *)
(***************************************************************************)
BookRows(store, a, from, to) == {r \in store.book : r.asset = a /\ r.recv \in from .. to}

\* The rows about the asset and the rows about all assets.
IngestRows(store, a, from, to) ==
    {r \in store.ingest : r.asset \in {a, NoAsset} /\ r.recv \in from .. to}

\* A checkpoint is filed under the time its book is of.
CheckpointRows(store, a, from, to) ==
    {c \in store.checkpoints : c.asset = a /\ c.at \in from .. to}

(***************************************************************************)
(* The order of replay.                                                    *)
(***************************************************************************)
OrderingTs(r, mode) == IF mode = "recv" \/ r.exch = 0 THEN r.recv ELSE r.exch

\* Faulty variant: the order of arrival is not consulted.
SortKeyBare(r, mode) ==
    << OrderingTs(r, mode), IF mode = "recv" THEN 0 ELSE r.recv, r.seq,
       IF r.row.level.side = "bid" THEN 0 ELSE 1, r.row.level.price, r.row.size >>

SortKey(r, mode) ==
    << OrderingTs(r, mode), IF mode = "recv" THEN 0 ELSE r.recv, r.ordinal, r.seq,
       IF r.row.level.side = "bid" THEN 0 ELSE 1, r.row.level.price, r.row.size >>

Before(k, l) == \E i \in DOMAIN k : k[i] < l[i] /\ \A j \in 1 .. i - 1 : k[j] = l[j]

\* sort_book_events, from whatever order the rows are read in.
Sorted(rows, mode) ==
    LET read == FoldSet(LAMBDA r, s : Append(s, r), << >>, rows)
    IN  SortSeq(read, LAMBDA r, s : Before(SortKey(r, mode), SortKey(s, mode)))

\* Faulty variant: the boundary by the clock of the other mode.
BoundarySwapped(c, mode) == IF mode = "recv" THEN c.at ELSE c.recv

\* checkpoint_ordering_ts.
Boundary(c, mode) == IF mode = "recv" THEN c.recv ELSE IF c.exch # 0 THEN c.exch ELSE c.at

\* latest_reset_boundary_us.
ResetBoundary(ingest, t) ==
    LET resets == {r.recv : r \in {i \in ingest : i.event = "source_reset" /\ i.recv <= t}}
    IN  IF resets = {} THEN NoTime ELSE Max(resets)

SinceReset(r, reset) == reset = NoTime \/ r.recv >= reset

(***************************************************************************)
(* Applying the rows in order, from the book a checkpoint or a snapshot    *)
(* left: [book, seq, group, marks, stopped].  group is the time of the     *)
(* snapshot being applied, marks are the continuity events replay adds.    *)
(***************************************************************************)
Seeded(book, n) ==
    [ok |-> TRUE, book |-> book, seq |-> n, group |-> NoTime, marks |-> {}, stopped |-> FALSE]

Failed == [Seeded(EmptyBook, 0) EXCEPT !.ok = FALSE]

\* Faulty variant: a sequence of 0 counts as none.
IsGapUnlessZero(s, n) == s > 0 /\ n # s + 1

\* check_sequence, on a book that has a sequence.
IsGap(s, n) == n # s + 1

ApplyDelta(acc, r) ==
    LET marked == IF IsGap(acc.seq, r.seq) THEN acc.marks \cup {"sequence_gap"} ELSE acc.marks
    IN  IF DeltaFits(acc.book, r.row.level, r.row.size)
        THEN [acc EXCEPT !.book = SetLevel(@, r.row.level, r.row.size), !.seq = r.seq,
                         !.group = NoTime, !.marks = marked]
        ELSE [acc EXCEPT !.marks = marked \cup {"source_reset"}, !.stopped = TRUE]

\* A row of a later snapshot: the first one of its time starts from nothing.
ApplySnapshotRow(acc, r, mode) ==
    LET ts == OrderingTs(r, mode)
        next == TakeRow([ok |-> TRUE, book |-> IF acc.group = ts THEN acc.book ELSE EmptyBook], r.row)
    IN  [acc EXCEPT !.ok = @ /\ next.ok, !.book = next.book, !.seq = r.seq, !.group = ts]

Apply(acc, r, mode) ==
    IF acc.stopped \/ ~acc.ok THEN acc
    ELSE IF r.kind = "delta" THEN ApplyDelta(acc, r)
    ELSE ApplySnapshotRow(acc, r, mode)

\* The seed and the rows after it: from a checkpoint, or from the last snapshot,
\* taking in the rows of every snapshot of its time.
FromCheckpoint(c, events, mode) ==
    LET taken == Snapshot(c.rows)
    IN  [found |-> TRUE,
         seed |-> IF taken.ok THEN Seeded(taken.book, 0) ELSE Failed,
         rest |-> SelectSeq(events, LAMBDA r : OrderingTs(r, mode) > Boundary(c, mode))]

FromSnapshot(events, reset, t, mode) ==
    LET Usable(r) == r.kind = "snapshot" /\ SinceReset(r, reset)
        last == SelectLastInSeq(events, LAMBDA r : Usable(r) /\ OrderingTs(r, mode) <= t)
        rows == SelectSeq(events, LAMBDA r : /\ Usable(r)
                                             /\ OrderingTs(r, mode) = OrderingTs(events[last], mode))
        taken == Snapshot([i \in DOMAIN rows |-> rows[i].row])
    IN  IF last = 0 THEN [found |-> FALSE, seed |-> Failed, rest |-> << >>]
        ELSE [found |-> TRUE, seed |-> IF taken.ok THEN Seeded(taken.book, Last(rows).seq) ELSE Failed,
              rest |-> SubSeq(events, last + 1, Len(events))]

\* reconstruct_book: the rows are those received from the seed's time on.
ReconstructBook(store, a, t, mode, c) ==
    LET from == IF c = NoCheckpoint THEN Floor(t) ELSE c.at
        events == Sorted(BookRows(store, a, from, t), mode)
        reset == ResetBoundary(IngestRows(store, a, from, t), t)
        seeds == c # NoCheckpoint /\ SinceReset(c, reset)
        start == IF seeds THEN FromCheckpoint(c, events, mode)
                 ELSE FromSnapshot(events, reset, t, mode)
        done == FoldLeft(LAMBDA acc, r : Apply(acc, r, mode), start.seed,
                         SelectSeq(start.rest, LAMBDA r : OrderingTs(r, mode) <= t))
    IN  [found |-> start.found, ok |-> done.ok, book |-> done.book, usedCheckpoint |-> seeds,
         marks |-> done.marks \cup (IF Crossed(done.book) THEN {"source_reset"} ELSE {})]

\* latest_checkpoint_in_window: any of the checkpoints of the latest time.
LatestCheckpoints(store, a, from, to) ==
    LET found == CheckpointRows(store, a, from, to)
    IN  IF found = {} THEN {NoCheckpoint}
        ELSE {c \in found : \A d \in found : d.at <= c.at}

\* reconstruct_at: what it can answer.
ReconstructAt(store, a, t, mode) ==
    {ReconstructBook(store, a, t, mode, c) : c \in LatestCheckpoints(store, a, Floor(t), t)}

\* GET /replay/reconstruct, with the levels the answer shows and, of its continuity
\* events, those the replay adds.
ReplayReconstruct(store, a, t, mode, depth) ==
    LET Answer(r) ==
            IF r.ok THEN [status |-> OK, levels |-> Shown(r.book.size, depth),
                          used_checkpoint |-> r.usedCheckpoint, continuity_events |-> r.marks]
            ELSE IF r.found THEN Internal ELSE NotFound
    IN  IF ~DepthAllowed(depth) \/ mode \notin Modes THEN {BadRequest}
        ELSE {Answer(r) : r \in ReconstructAt(store, a, t, mode)}

\* Faulty variant: the reference may be its own seed.
SeedEndInclusive(ref) == ref.at

\* The seed of a validation is strictly older than its reference.
SeedEnd(ref) == ref.at - 1

\* replay_validation: the book rebuilt up to the next checkpoint after t,
\* compared with that checkpoint.
Validations(store, a, t, mode) ==
    LET later == {c \in CheckpointRows(store, a, t, t + Lookback) : c.at > t}
        Validation(ref, c) ==
            LET r == ReconstructBook(store, a, ref.at, mode, c)
            IN  [reference |-> ref, replay |-> r,
                 matched |-> r.ok /\ r.book.size = Snapshot(ref.rows).book.size]
    IN  UNION {{Validation(ref, c) : c \in LatestCheckpoints(store, a, Floor(ref.at), SeedEnd(ref))} :
               ref \in {c \in later : \A d \in later : c.at <= d.at}}
===============================================================================
