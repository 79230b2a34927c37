------------------------------- MODULE Datasets -------------------------------
(***************************************************************************)
(* The five datasets of the store as their columns: how a batch of records *)
(* becomes rows (pb-store/src/schema.rs) and how a query makes records of  *)
(* the rows again (the extractors of pb-replay/src/reader.rs).             *)
(*                                                                         *)
(* A batch is a function of the row number, a row a record of columns.     *)
(* None is an absent Option and a null in a nullable column alike.         *)
(***************************************************************************)
EXTENDS FixedPoint, Sequences

CONSTANTS
    Str,   \* the texts of the venue and of the process: ids, hashes, details
    None

Maybe(S) == S \cup {None}
U64 == 0 .. MaxU64

(***************************************************************************)
(* The records (pb-types/src/event.rs).                                    *)
(***************************************************************************)
BookKinds == {"Snapshot", "Delta"}
Sides == {"Bid", "Ask"}
DataSources == {"WebSocket", "RestSnapshot", "ReplayValidator", "System"}
Fidelities == {"Partial", "Full"}
IngestKinds == {"ReconnectStart", "ReconnectSuccess", "SequenceGap", "StaleSnapshotSkip",
                "SourceReset", "BookMismatch"}
ReplayModes == {"RecvTime", "ExchangeTime"}

EventProvenance ==
    [recv : U64, exch : U64, source : DataSources, event : Maybe(Str), session : Maybe(Str),
     sequence : Maybe(U64), ordinal : Maybe(U64)]

BookEvent == [asset : Str, kind : BookKinds, side : Sides, price : Prices, size : Sizes,
              provenance : EventProvenance]

TradeEvent == [asset : Str, price : Prices, size : Maybe(Sizes), side : Maybe(Sides),
               trade : Maybe(Str), fidelity : Fidelities, provenance : EventProvenance]

IngestEvent == [asset : Maybe(Str), kind : IngestKinds, provenance : EventProvenance,
                expected : Maybe(U64), observed : Maybe(U64), details : Maybe(Str)]

PriceLevel == [price : Prices, size : Sizes]

BookCheckpoint == [asset : Str, at : U64, provenance : EventProvenance,
                   bids : Seq(PriceLevel), asks : Seq(PriceLevel), walOffset : Maybe(U64)]

ReplayValidation == [asset : Str, mode : ReplayModes, replay : U64, reference : U64,
                     matched : BOOLEAN, mismatch : Maybe(Str), persisted : U64]

\* dataset_name: a record is tagged with the dataset it goes to.
PersistedRecord ==
    [dataset : {"book_events"}, event : BookEvent] \cup
    [dataset : {"trade_events"}, event : TradeEvent] \cup
    [dataset : {"ingest_events"}, event : IngestEvent] \cup
    [dataset : {"book_checkpoints"}, event : BookCheckpoint] \cup
    [dataset : {"replay_validations"}, event : ReplayValidation]

(***************************************************************************)
(* The codes of the enumerations, and reading a code.                      *)
(***************************************************************************)
BookKindCode == [Snapshot |-> 1, Delta |-> 2]
SideCode == [Bid |-> 1, Ask |-> 2]
SourceName == [WebSocket |-> "websocket", RestSnapshot |-> "rest_snapshot",
               ReplayValidator |-> "replay_validator", System |-> "system"]
FidelityName == [Partial |-> "partial", Full |-> "full"]
IngestKindName ==
    [ReconnectStart |-> "reconnect_start", ReconnectSuccess |-> "reconnect_success",
     SequenceGap |-> "sequence_gap", StaleSnapshotSkip |-> "stale_snapshot_skip",
     SourceReset |-> "source_reset", BookMismatch |-> "book_mismatch"]
ReplayModeName == [RecvTime |-> "recv_time", ExchangeTime |-> "exchange_time"]

\* What an extractor makes of a value that may be no code.
Parse(code, value) ==
    IF \E x \in DOMAIN code : code[x] = value THEN CHOOSE x \in DOMAIN code : code[x] = value
    ELSE Invalid

ParseBookKind(value) == Parse(BookKindCode, value)
ParseSide(value) == Parse(SideCode, value)
ParseSource(value) == Parse(SourceName, value)
ParseTradeFidelity(value) == Parse(FidelityName, value)
ParseIngestKind(value) == Parse(IngestKindName, value)
ParseReplayMode(value) == Parse(ReplayModeName, value)

\* A nullable column of codes.
SideOrNull(side) == IF side = None THEN None ELSE SideCode[side]
ParseSideOrNull(value) == IF value = None THEN None ELSE ParseSide(value)

(***************************************************************************)
(* Records to rows.                                                        *)
(***************************************************************************)
BookRow(e) ==
    [recv_timestamp_us |-> e.provenance.recv, exchange_timestamp_us |-> e.provenance.exch,
     asset_id |-> e.asset, event_kind |-> BookKindCode[e.kind], side |-> SideCode[e.side],
     price |-> e.price, size |-> e.size, sequence |-> e.provenance.sequence,
     source |-> SourceName[e.provenance.source], source_event_id |-> e.provenance.event,
     source_session_id |-> e.provenance.session, ingest_ordinal |-> e.provenance.ordinal]

TradeRow(e) ==
    [recv_timestamp_us |-> e.provenance.recv, exchange_timestamp_us |-> e.provenance.exch,
     asset_id |-> e.asset, price |-> e.price, size |-> e.size, side |-> SideOrNull(e.side),
     trade_id |-> e.trade, fidelity |-> FidelityName[e.fidelity],
     sequence |-> e.provenance.sequence, source |-> SourceName[e.provenance.source],
     source_event_id |-> e.provenance.event, source_session_id |-> e.provenance.session]

IngestRow(e) ==
    [recv_timestamp_us |-> e.provenance.recv, exchange_timestamp_us |-> e.provenance.exch,
     asset_id |-> e.asset, event_kind |-> IngestKindName[e.kind],
     sequence |-> e.provenance.sequence, expected_sequence |-> e.expected,
     observed_sequence |-> e.observed, details |-> e.details,
     source |-> SourceName[e.provenance.source], source_event_id |-> e.provenance.event,
     source_session_id |-> e.provenance.session]

\* The levels are JSON, in which the numbers are decimal texts.
LevelsJson(levels) ==
    [i \in DOMAIN levels |-> [price |-> SerializePrice(levels[i].price, TRUE),
                              size |-> SerializeSize(levels[i].size, TRUE)]]

CheckpointRow(c) ==
    [checkpoint_timestamp_us |-> c.at, recv_timestamp_us |-> c.provenance.recv,
     exchange_timestamp_us |-> c.provenance.exch, asset_id |-> c.asset,
     source |-> SourceName[c.provenance.source], source_event_id |-> c.provenance.event,
     source_session_id |-> c.provenance.session, bids_json |-> LevelsJson(c.bids),
     asks_json |-> LevelsJson(c.asks), wal_offset |-> c.walOffset]

ValidationRow(v) ==
    [asset_id |-> v.asset, mode |-> ReplayModeName[v.mode], replay_timestamp_us |-> v.replay,
     reference_timestamp_us |-> v.reference, matched |-> v.matched,
     mismatch_summary |-> v.mismatch, persisted_at_us |-> v.persisted]

RowOf(r) ==
    CASE r.dataset = "book_events" -> BookRow(r.event)
      [] r.dataset = "trade_events" -> TradeRow(r.event)
      [] r.dataset = "ingest_events" -> IngestRow(r.event)
      [] r.dataset = "book_checkpoints" -> CheckpointRow(r.event)
      [] r.dataset = "replay_validations" -> ValidationRow(r.event)

\* records_to_record_batch: nothing, and records of several datasets, make no batch.
IsBatch(records) ==
    records # << >> /\ \A i \in DOMAIN records : records[i].dataset = records[1].dataset

ToRecordBatch(records) == [i \in DOMAIN records |-> RowOf(records[i])]

(***************************************************************************)
(* Rows to records.  A column that a file of an older writer lacks reads   *)
(* as null.  The ordinal is a column of the book's events only, and a      *)
(* checkpoint keeps no sequence number.                                    *)
(***************************************************************************)
Column(row, name) == IF name \in DOMAIN row THEN row[name] ELSE None

Provenance(row, sequence, ordinal) ==
    [recv |-> row.recv_timestamp_us, exch |-> row.exchange_timestamp_us,
     source |-> ParseSource(row.source), event |-> row.source_event_id,
     session |-> row.source_session_id, sequence |-> sequence, ordinal |-> ordinal]

BookOf(row) ==
    [asset |-> row.asset_id, kind |-> ParseBookKind(row.event_kind), side |-> ParseSide(row.side),
     price |-> NewPrice(row.price), size |-> row.size,
     provenance |-> Provenance(row, row.sequence, Column(row, "ingest_ordinal"))]

TradeOf(row) ==
    [asset |-> row.asset_id, price |-> NewPrice(row.price), size |-> row.size,
     side |-> ParseSideOrNull(row.side), trade |-> row.trade_id,
     fidelity |-> ParseTradeFidelity(row.fidelity),
     provenance |-> Provenance(row, row.sequence, None)]

IngestOf(row) ==
    [asset |-> row.asset_id, kind |-> ParseIngestKind(row.event_kind),
     provenance |-> Provenance(row, row.sequence, None), expected |-> row.expected_sequence,
     observed |-> row.observed_sequence, details |-> row.details]

ParseLevels(json) ==
    LET levels == [i \in DOMAIN json |-> [price |-> DeserializePrice(json[i].price, TRUE),
                                          size |-> DeserializeSize(json[i].size, TRUE)]]
    IN  IF \E i \in DOMAIN json : levels[i].price = Invalid \/ levels[i].size = Invalid
        THEN Invalid ELSE levels

CheckpointOf(row) ==
    [asset |-> row.asset_id, at |-> row.checkpoint_timestamp_us,
     provenance |-> Provenance(row, None, None), bids |-> ParseLevels(row.bids_json),
     asks |-> ParseLevels(row.asks_json), walOffset |-> Column(row, "wal_offset")]

ValidationOf(row) ==
    [asset |-> row.asset_id, mode |-> ParseReplayMode(row.mode),
     replay |-> row.replay_timestamp_us, reference |-> row.reference_timestamp_us,
     matched |-> row.matched, mismatch |-> row.mismatch_summary,
     persisted |-> row.persisted_at_us]

RecordOf(dataset, row) ==
    CASE dataset = "book_events" -> BookOf(row)
      [] dataset = "trade_events" -> TradeOf(row)
      [] dataset = "ingest_events" -> IngestOf(row)
      [] dataset = "book_checkpoints" -> CheckpointOf(row)
      [] dataset = "replay_validations" -> ValidationOf(row)

\* A record one value of which did not parse.
Broken(record) ==
    \/ \E f \in DOMAIN record \cap {"kind", "side", "price", "fidelity", "mode", "bids", "asks"} :
           record[f] = Invalid
    \/ "provenance" \in DOMAIN record /\ record.provenance.source = Invalid

(***************************************************************************)
(* A query of one batch: the rows of the asset in the window, by the       *)
(* dataset's own time.  Rows outside of it are not parsed; one broken row  *)
(* in it fails the query.                                                  *)
(***************************************************************************)
RowTime(dataset, row) ==
    CASE dataset = "book_checkpoints" -> row.checkpoint_timestamp_us
      [] dataset = "replay_validations" -> row.persisted_at_us
      [] OTHER -> row.recv_timestamp_us

\* An ingest event about no asset is about every asset.
IsAbout(dataset, row, a) == row.asset_id = a \/ (dataset = "ingest_events" /\ row.asset_id = None)

Wanted(dataset, batch, a, from, to) ==
    {i \in DOMAIN batch : /\ from <= RowTime(dataset, batch[i]) /\ RowTime(dataset, batch[i]) <= to
                          /\ IsAbout(dataset, batch[i], a)}

Extract(dataset, batch, a, from, to) ==
    LET rows == Wanted(dataset, batch, a, from, to)
    IN  [ok |-> \A i \in rows : ~Broken(RecordOf(dataset, batch[i])),
         rows |-> [i \in rows |-> RecordOf(dataset, batch[i])]]
===============================================================================
