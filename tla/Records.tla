-------------------------------- MODULE Records --------------------------------
(***************************************************************************)
(* The records that travel from the feed to the log, the store and the     *)
(* live read model (pb-types/src/event.rs), with what the receivers read.  *)
(***************************************************************************)
EXTENDS L2Book

CONSTANTS
    Assets,  \* the tokens whose books are followed
    NoAsset  \* in place of an asset: the record is about all of them, or none

ASSUME RecordsAssumption == NoAsset \notin Assets

\* One level of a snapshot.  The rows of one snapshot have the same key: what
\* they all carry of the message they come from.
SnapshotRecord(a, key, row, n) ==
    [kind |-> "snapshot", asset |-> a, key |-> key, row |-> row, seq |-> n]

DeltaRecord(a, row, n) == [kind |-> "delta", asset |-> a, row |-> row, seq |-> n]

IngestRecord(event, a) == [kind |-> "ingest", asset |-> a, event |-> event]

\* Which asset was traded, and for what, nothing here depends on.
TradeRecord == [kind |-> "trade", asset |-> NoAsset]

CheckpointRecord(a, rows) == [kind |-> "checkpoint", asset |-> a, rows |-> rows]
===============================================================================
