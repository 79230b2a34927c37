------------------------------- MODULE LiveFeed -------------------------------
(***************************************************************************)
(* The feed, the checkpoint producer and the live read model: the records  *)
(* of the dispatcher and the checkpoints share one event channel           *)
(* (pb-bin/src/commands/ingest.rs), whose records the projector applies    *)
(* in order.  The log and the tailer between them, where they run in two   *)
(* processes, keep that order (module Wal).                                *)
(***************************************************************************)
EXTENDS Feed, LiveState

CONSTANTS
    ActiveSets,   \* bound: what the active set can become
    MaxRotations  \* bound: changes of the active set

ASSUME LiveFeedAssumption == ActiveSets \subseteq SUBSET Assets /\ MaxRotations \in Nat

VARIABLES
    polled,     \* the REST book the checkpoint producer is about to send
    rotations,
    basis,      \* basis[a]: what the served book of a was last built from
    upto        \* upto[a]: the version the applied records of a lead to

vars == << fvars, lvars, polled, rotations, basis, upto >>

LiveFeedInit ==
    /\ FeedInit /\ LiveInit
    /\ polled = NoFetch
    /\ rotations = 0
    /\ basis = [a \in Assets |-> "none"]
    /\ upto = [a \in Assets |-> Unknown]

\* The checkpoint producer, at its own pace, asset after active asset.
PollBook(a) ==
    /\ a \in active
    /\ polled = NoFetch
    /\ polled' = [asset |-> a, version |-> venue[a]]
    /\ UNCHANGED << fvars, lvars, rotations, basis, upto >>

SendCheckpoint ==
    /\ polled # NoFetch
    /\ Len(events) < EventCap
    /\ events' = Append(events, CheckpointRecord(polled.asset, RowsOf(VenueAt[polled.version])))
    /\ polled' = NoFetch
    /\ UNCHANGED << venueVars, raw, trackers, outbox, requests, workerVars, lvars, rotations, basis, upto >>

Producer == SendCheckpoint \/ \E a \in Assets : PollBook(a)

\* A group is whole when it has every row of its snapshot.
Whole(a) == Len(pending[a].rows) = Len(RowsOf(VenueAt[pending[a].key[1]]))

NewBasis(rec, a) ==
    IF rec.kind = "checkpoint" /\ rec.asset = a /\ Seeds(a, rec) THEN "checkpoint"
    ELSE IF a \in Materialized(rec) THEN IF Whole(a) THEN "whole" ELSE "partial"
    ELSE basis[a]

NewVersion(rec, a) ==
    CASE rec.kind = "snapshot" /\ rec.asset = a -> rec.key[1]
      [] rec.kind = "delta" /\ rec.asset = a -> upto[a] + 1
      [] OTHER -> upto[a]

\* The projector takes the next record.
TakeRecord == events # << >> /\ events' = Tail(events)

Apply ==
    /\ TakeRecord
    /\ ApplyRecord(Head(events))
    /\ basis' = [a \in Assets |-> NewBasis(Head(events), a)]
    /\ upto' = [a \in Assets |-> NewVersion(Head(events), a)]
    /\ UNCHANGED << venueVars, raw, trackers, outbox, requests, workerVars, polled, rotations >>

\* The active set changes: the market rotates.
Rotate ==
    /\ rotations < MaxRotations
    /\ rotations' = rotations + 1
    /\ \E S \in ActiveSets :
          /\ S # active
          /\ SetActive(S)
          /\ basis' = [a \in Assets |-> IF a \in S THEN basis[a] ELSE "none"]
    /\ UNCHANGED << fvars, polled, upto >>

FeedStep == FeedNext /\ UNCHANGED << lvars, polled, rotations, basis, upto >>

Next ==
    \/ FeedStep
    \/ Producer
    \/ Apply \/ Rotate

\* The projector applies what it is sent, and the producer's timer ticks and its
\* fetches succeed in the end.  Nothing is assumed of the venue and the feed.
Fairness == WF_events(TakeRecord) /\ WF_vars(Producer)

Spec == LiveFeedInit /\ [][Next]_vars /\ Fairness
-----------------------------------------------------------------------------
\* As long as nothing malformed came in, a book that was built from a whole venue
\* snapshot is the venue's book at the version its records lead to, unless a newer
\* snapshot waits, however the records of other assets, the checkpoints, the
\* reconnects and the rotations fall between its own
\* (materialize_pending_before_record, record_delta_event).
ServedIsVenueState ==
    faults = 0 => \A a \in Assets : ready[a] /\ basis[a] = "whole" /\ pending[a] = NoPending
                    => book[a].size = VenueAt[upto[a]].size

\* What readers see is the projector's state, though a record republishes only
\* the assets it is said to have changed (refresh_asset_views).
PublishedFresh == published = FullView

\* Every change of a book that is served is broadcast, with the new book
\* (apply_and_broadcast, broadcast_assets).
NothingSilent ==
    [][\A a \in active' \cap active :
          Serves(published', a) /\ published'.view[a] # published.view[a]
          /\ (Serves(published, a) => published'.view[a].book # published.view[a].book)
          => [asset |-> a, book |-> published'.view[a].book] \in updates']_vars

\* A book that follows the venue is never replaced by a checkpoint, which may be
\* older, unless the asset left the active set in between (apply_record).
LiveBeatsCheckpoint ==
    [][\A a \in Assets : ready[a] /\ basis[a] = "whole" => basis'[a] # "checkpoint"]_vars

\* A group that waits is always materialized in the end, at the latest with the
\* next checkpoint, unless nothing is active (materialize_pending_before_record).
PendingEnds ==
    \A a \in Assets : pending[a] # NoPending ~> pending[a] = NoPending \/ active = {}

\* "it groups per-level snapshot events into one atomic book apply"
\* (pb-bin/src/commands/demo.rs:234): no book is built from a part of a snapshot.
SnapshotAppliedWhole == \A a \in Assets : basis[a] # "partial"
===============================================================================
