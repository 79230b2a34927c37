--------------------------------- MODULE Tape ---------------------------------
(***************************************************************************)
(* How the rows of one asset come into the store that Replay reads: the    *)
(* venue changes its book, the connection delivers snapshots and deltas in *)
(* order and late, a REST answer overtakes it or is overtaken, connections *)
(* end, a delta is missing from the store.                                 *)
(*                                                                         *)
(* One clock serves both sides: a row is received no earlier than the      *)
(* venue stamped it.  Bounds beside the constants: the venue changes its   *)
(* book at most once per tick and keeps a level in it, two snapshots are   *)
(* not received in the same tick, and a reconnection takes a tick.         *)
(***************************************************************************)
EXTENDS Replay

CONSTANTS
    A,          \* the asset
    Opening,    \* the rows of its book at the beginning
    Moves,      \* the rows by which the venue changes it, one after the other
    MaxClock, MaxSessions, MaxFetches, MaxLost

ASSUME TapeAssumption ==
    A \in Assets /\ {MaxClock, MaxSessions, MaxFetches, MaxLost} \subseteq Nat

VARIABLES
    clock,
    moves,     \* the venue's changes so far, with their times
    conn,      \* "up" or "down"
    channel,   \* what the venue sent and the feed has not received
    resets,    \* the source_reset events, with the length of the tape
    fetched,   \* the version a REST answer under way carries
    fetches,
    tape,      \* the book's rows in their order of arrival
    seq,       \* asset_sequences: the next row's sequence number
    newest,    \* the version of the session's last snapshot
    filed,     \* the checkpoints
    lost       \* the rows that are missing from the store

venueVars == << clock, moves >>
connVars == << conn, channel, resets >>
restVars == << fetched, fetches >>
rowVars == << tape, seq, newest >>
vars == << venueVars, connVars, restVars, rowVars, filed, lost >>

Unknown == -1

(***************************************************************************)
(* The venue: version n is its book after n changes.                       *)
(***************************************************************************)
Version == Len(moves)
Since(n) == IF n = 0 THEN 1 ELSE moves[n].at
VenueBook(n) == FoldLeft(LAMBDA b, m : SetLevel(b, m.row.level, m.row.size),
                         Snapshot(Opening).book, SubSeq(moves, 1, n))

Message(kind, n) == [kind |-> kind, version |-> n]

TapeInit ==
    /\ clock = 1 /\ moves = << >>
    /\ conn = "down" /\ channel = << >> /\ resets = {}
    /\ fetched = Unknown /\ fetches = 0
    /\ tape = << >> /\ seq = 0 /\ newest = Unknown
    /\ filed = {} /\ lost = {}

Tick ==
    /\ clock < MaxClock
    /\ clock' = clock + 1
    /\ UNCHANGED << moves, connVars, restVars, rowVars, filed, lost >>

Change ==
    /\ Version < Len(Moves) /\ clock > Since(Version)
    /\ moves' = Append(moves, [at |-> clock, row |-> Moves[Version + 1]])
    /\ channel' = IF conn = "down" THEN channel
                  ELSE Append(channel, Message("delta", Version + 1))
    /\ UNCHANGED << clock, conn, resets, restVars, rowVars, filed, lost >>

(***************************************************************************)
(* The feed.                                                               *)
(***************************************************************************)
\* What a row takes from its message and from the dispatcher.
Stored(rec, n, i) ==
    rec @@ [recv |-> clock, exch |-> Since(n), ordinal |-> Len(tape) + i, version |-> n]

ReceiveSnapshot(n) ==
    LET rows == RowsOf(VenueBook(n))
    IN  /\ \A i \in DOMAIN tape : tape[i].kind = "snapshot" => tape[i].recv < clock
        /\ tape' = tape \o [i \in DOMAIN rows |->
                               Stored(SnapshotRecord(A, << n >>, rows[i], i - 1), n, i)]
        /\ seq' = Len(rows)
        /\ newest' = n

\* The row of a delta may not reach the store.
ReceiveDelta(n) ==
    /\ lost' \in {lost} \cup IF Cardinality(lost) < MaxLost THEN {lost \cup {Len(tape) + 1}} ELSE {}
    /\ tape' = Append(tape, Stored(DeltaRecord(A, moves[n].row, seq), n, 1))
    /\ seq' = seq + 1
    /\ UNCHANGED newest

\* The connection is up again: a reset, and the venue sends its book.
Connect ==
    /\ conn = "down" /\ Cardinality(resets) < MaxSessions
    /\ \A i \in DOMAIN tape : tape[i].recv < clock
    /\ conn' = "up" /\ channel' = << Message("snapshot", Version) >>
    /\ resets' = resets \cup {[recv |-> clock, after |-> Len(tape)]}
    /\ seq' = 0 /\ newest' = Unknown
    /\ UNCHANGED << venueVars, restVars, tape, filed, lost >>

\* What was under way is lost.
Disconnect ==
    /\ conn = "up" /\ Cardinality(resets) < MaxSessions
    /\ conn' = "down" /\ channel' = << >>
    /\ UNCHANGED << venueVars, resets, restVars, rowVars, filed, lost >>

\* A snapshot that is not newer than the session's last is dropped.
Deliver ==
    /\ channel # << >>
    /\ channel' = Tail(channel)
    /\ LET m == Head(channel)
       IN  IF m.kind = "delta" THEN ReceiveDelta(m.version)
           ELSE /\ IF m.version > newest THEN ReceiveSnapshot(m.version) ELSE UNCHANGED rowVars
                /\ UNCHANGED lost
    /\ UNCHANGED << venueVars, conn, resets, restVars, filed >>

Fetch ==
    /\ fetched = Unknown /\ fetches < MaxFetches
    /\ fetched' = Version
    /\ fetches' = fetches + 1
    /\ UNCHANGED << venueVars, connVars, rowVars, filed, lost >>

\* The answer to the resnapshot worker, through the dispatcher.
Resnapshot ==
    /\ fetched # Unknown
    /\ IF fetched > newest THEN ReceiveSnapshot(fetched) ELSE UNCHANGED rowVars
    /\ fetched' = Unknown
    /\ UNCHANGED << venueVars, connVars, fetches, filed, lost >>

\* The answer to the checkpoint producer: filed under the venue's time.
FileCheckpoint ==
    /\ fetched # Unknown
    /\ filed' = filed \cup {CheckpointRecord(A, RowsOf(VenueBook(fetched))) @@
                            [at |-> Since(fetched), exch |-> Since(fetched), recv |-> clock,
                             version |-> fetched]}
    /\ fetched' = Unknown
    /\ UNCHANGED << venueVars, connVars, fetches, rowVars, lost >>

Next ==
    \/ Tick \/ Change
    \/ Connect \/ Disconnect \/ Deliver
    \/ Fetch \/ Resnapshot \/ FileCheckpoint

Spec == TapeInit /\ [][Next]_vars
-----------------------------------------------------------------------------
Kept(i) == i \notin lost

Store ==
    [book |-> {tape[i] : i \in {j \in DOMAIN tape : Kept(j)}},
     ingest |-> {[event |-> "source_reset", asset |-> NoAsset, recv |-> r.recv] : r \in resets},
     checkpoints |-> filed]

Times == 1 .. clock

\* The rows received up to t, and those of them after the last reset up to t.
Heard(t) == {i \in DOMAIN tape : tape[i].recv <= t}
SessionStart(t) == Max({0} \cup {r.after : r \in {q \in resets : q.recv <= t}})
SessionHeard(t) == {i \in Heard(t) : i > SessionStart(t)}

\* Where the session's last snapshot begins, if a replay at t may start there.
SnapshotStarts(t) ==
    {i \in SessionHeard(t) : tape[i].kind = "snapshot" /\ tape[i].seq = 0 /\ tape[i].recv >= Floor(t)}

\* What came of listening to the stored rows as they arrived.
Observed(t) ==
    LET Take(b, i) == IF Kept(i) /\ tape[i].recv <= t
                      THEN SetLevel(b, tape[i].row.level, tape[i].row.size) ELSE b
        from == Max(SnapshotStarts(t))
    IN  FoldLeft(Take, EmptyBook, [i \in 1 .. Len(tape) - from + 1 |-> i + from - 1])

Replays(t, mode) == ReconstructAt(Store, A, t, mode)

\* Without a checkpoint, a replay at a time that has passed is the replay there
\* was at that time: what is received later is outside of its window.
FromSnapshots == {r \in Replays(clock, "recv") : ~r.usedCheckpoint}

\* By the local clock and without a checkpoint, a replay answers with the book that
\* was to be seen at the time: the rows apply in their order of arrival, within a
\* tick too, nothing is taken from the session before, and there is no answer
\* exactly if the session had no snapshot (sort_book_events, reset_boundary_us).
ReplayIsObservation ==
    \A answer \in ReplayReconstruct(Store, A, clock, "recv", MaxDepth) :
        /\ answer.status \in {OK, NotFound.status}
        /\ answer.status = NotFound.status => SnapshotStarts(clock) = {}
        /\ answer.status = OK /\ ~answer.used_checkpoint =>
              /\ SnapshotStarts(clock) # {}
              /\ "source_reset" \notin answer.continuity_events =>
                    answer.levels = Shown(Observed(clock).size, MaxDepth)

\* No row was received before the window of a replay at t.
WholeWindow(t) == \A i \in DOMAIN tape : tape[i].recv >= Floor(t)

NewestHeard(t) == Max({0} \cup {tape[i].version : i \in SessionHeard(t)})

\* A book the venue had by time t, no older than what the session had heard.
IsVenueBook(book, t) ==
    \E n \in NewestHeard(t) .. Version : Since(n) <= t /\ book = VenueBook(n)

\* By the venue's clock a replay of a complete store gives a book the venue
\* had, though snapshots and checkpoints overtake the deltas and are overtaken,
\* and connections end between them (checkpoint_ordering_ts).
ExchangeReplayIsVenueBook ==
    lost = {} => \A t \in {u \in Times : WholeWindow(u)} : \A r \in Replays(t, "exchange") :
                    r.ok => IsVenueBook(r.book, t)

\* "Without this, recv-vs-exchange skew could skip or double-apply deltas
\* straddling the boundary" (engine.rs:209-215): by the local clock, a replay
\* from a checkpoint skips no delta.
NothingSkipped ==
    lost = {} => \A t \in {u \in Times : WholeWindow(u)} : \A r \in Replays(t, "recv") :
                    r.ok /\ r.usedCheckpoint => IsVenueBook(r.book, t)

\* A delta that is missing is told exactly if a later one of its session is there to
\* tell it, and nothing else looks like a loss (check_sequence, next_sequence_for).
GapsAreLosses ==
    \A r \in {s \in FromSnapshots : s.ok} :
        "sequence_gap" \in r.marks
            <=> \E i \in lost, j \in SessionHeard(clock) :
                   Max(SnapshotStarts(clock)) < i /\ i < j /\ Kept(j)

\* The row of version n was in the store when the reference's book was current.
InTime(n, ref) == \E i \in DOMAIN tape : tape[i].version = n /\ Kept(i) /\ tape[i].recv <= ref.at

\* A validation by the venue's clock carries the checkpoint before the reference
\* forward to it: it matches if every delta between the two was received in time, and
\* cannot match when nothing between them was (replay_validation, whose reference must
\* not be its own seed).
ValidationTellsLoss ==
    \A t \in Times : \A v \in Validations(Store, A, t, "exchange") :
        LET older == {c.version : c \in {d \in filed : d.at < v.reference.at}}
            between == Max(older) + 1 .. v.reference.version
        IN  older # {} /\ v.replay.usedCheckpoint =>
               /\ (\A n \in between : InTime(n, v.reference)) => v.matched
               /\ (\A n \in between : ~InTime(n, v.reference)) => ~v.matched
===============================================================================
