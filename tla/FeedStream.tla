------------------------------ MODULE FeedStream ------------------------------
(***************************************************************************)
(* A feed whose records someone consumes, and what its stream of records   *)
(* promises the consumer.                                                  *)
(***************************************************************************)
EXTENDS Feed

VARIABLES
    implied,  \* implied[a]: the book the records produced so far amount to
    newest    \* newest[a]: the last timestamped snapshot of the session taken over

vars == << fvars, implied, newest >>

\* What a consumer makes of one record: the first row of a snapshot begins a new
\* book, a delta that does not fit is passed over.
TakeOne(b, r) ==
    CASE r.kind = "snapshot" -> SetLevel(IF r.seq = 0 THEN EmptyBook ELSE b, r.row.level, r.row.size)
      [] r.kind = "delta" /\ DeltaFits(b, r.row.level, r.row.size) -> SetLevel(b, r.row.level, r.row.size)
      [] OTHER -> b

\* What the records make of book b of asset a, one after the other.
Rebuilt(b, records, a) ==
    LET upTo[i \in 0 .. Len(records)] ==
            IF i = 0 THEN b
            ELSE IF records[i].asset = a THEN TakeOne(upTo[i - 1], records[i]) ELSE upTo[i - 1]
    IN  upTo[Len(records)]

StreamInit ==
    /\ FeedInit
    /\ implied = [a \in Assets |-> EmptyBook]
    /\ newest = [a \in Assets |-> Unknown]

\* The step takes over a snapshot of asset a.
Accepted(a) == turn'[a] # turn[a]

\* The dispatcher's step, with what follows from the records it produces.
Produce ==
    /\ Dispatch
    /\ implied' = [a \in Assets |-> Rebuilt(implied[a], outbox', a)]
    /\ newest' = [a \in Assets |->
                     IF lastTs'[a] = 0 THEN Unknown
                     ELSE IF Accepted(a) /\ Stamped(Head(raw)) THEN Head(raw).version
                     ELSE newest[a]]

\* The consumer takes a record.
Consume ==
    /\ events # << >>
    /\ events' = Tail(events)
    /\ UNCHANGED << venueVars, raw, trackers, outbox, requests, workerVars, implied, newest >>

Quiet ==
    /\ \/ \E a \in Assets : VenueChanges(a) \/ ReceiveBook(a) \/ DebounceEnds(a)
       \/ Connect \/ Disconnect \/ ReceiveChanges \/ ReceiveTrade
       \/ Send \/ Fetch \/ Inject
    /\ UNCHANGED << implied, newest >>

Next == Quiet \/ Produce \/ Consume

Spec == StreamInit /\ [][Next]_vars
-----------------------------------------------------------------------------
\* The book the dispatcher checks against the venue is the book its records
\* amount to, whatever was rejected, skipped, reset or fetched again on the way:
\* a divergence it does not see is not in the records either
\* (dispatcher.rs, validation_books).
ShadowIsImplied == \A a \in Assets : shadow[a] # NoBook => shadow[a] = implied[a]

\* No divergence is reported while nothing is malformed: not on the intermediate
\* states of a message, not after a reconnect, not on an empty side
\* (dispatcher.rs, the cross-check of price_change).
NoFalseAlarm ==
    faults = 0 => \A r \in ToSet(outbox) \cup ToSet(events) :
                     r.kind = "ingest" => r.event # "book_mismatch"

\* Within a session the timestamped snapshots that are taken over never get older, though a
\* REST answer can be overtaken by the connection (last_snapshot_ts).
SnapshotsNeverRetreat ==
    [][\A a \in Assets : newest[a] # Unknown /\ newest'[a] # Unknown
          => Ts(newest[a]) <= Ts(newest'[a])]_vars

\* "recovering from the divergence without operator action" (resnapshot.rs:7-8):
\* the book a resnapshot leaves is not older than what the connection had
\* brought, and the dispatcher had handled, before it.
ResnapshotIsCurrent ==
    [][/\ AcceptBook /\ Head(raw).rest
       /\ \A i \in 2 .. Len(raw) : raw[i].type \in {"lifecycle", "last_trade_price"}
       => Head(raw).version >= at[Head(raw).asset]]_vars
===============================================================================
