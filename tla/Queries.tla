------------------------------- MODULE Queries -------------------------------
(***************************************************************************)
(* Where the rows of a dataset are filed, and the queries that look for    *)
(* them: the hours of a window, and the newest checkpoint                  *)
(* (pb-types/src/event.rs, pb-store/src/writer.rs,                         *)
(* pb-replay/src/reader.rs).  A store is a set of files; generations and   *)
(* manifests are module ObjectStore's.                                     *)
(***************************************************************************)
EXTENDS Datasets, FiniteSets

CONSTANTS
    InvalidTimestamp,  \* the hour of what has no plausible time
    MaxTimestamp       \* the last microsecond of the calendar

\* asset_partition and partition_timestamp_us.
AssetPartition(r) == IF r.event.asset = None THEN "global" ELSE r.event.asset

PartitionTimestampUs(r) ==
    CASE r.dataset = "book_checkpoints" -> r.event.at
      [] r.dataset = "replay_validations" -> r.event.persisted
      [] OTHER -> r.event.provenance.recv

Hour(t) == t \div 3600000000

MIN_PLAUSIBLE_PARTITION_US == 1000000 * 1000000 * 1000
MAX_PLAUSIBLE_PARTITION_US == 10 * MIN_PLAUSIBLE_PARTITION_US

Plausible(t) == MIN_PLAUSIBLE_PARTITION_US <= t /\ t <= MAX_PLAUSIBLE_PARTITION_US

\* partition_hour_key: no query looks into the quarantine.
PartitionHourKey(t) == IF Plausible(t) THEN Hour(t) ELSE InvalidTimestamp

PB_SCHEMA_VERSION == "2"

\* The file of a group of records: their dataset, asset and hour are the same.
IsGroup(records) ==
    /\ IsBatch(records)
    /\ \A i \in DOMAIN records :
          /\ AssetPartition(records[i]) = AssetPartition(records[1])
          /\ PartitionHourKey(PartitionTimestampUs(records[i]))
                = PartitionHourKey(PartitionTimestampUs(records[1]))

FileOf(records) ==
    [version |-> PB_SCHEMA_VERSION, dataset |-> records[1].dataset,
     key |-> AssetPartition(records[1]),
     hour |-> PartitionHourKey(PartitionTimestampUs(records[1])),
     batch |-> ToRecordBatch(records)]

(***************************************************************************)
(* Reading files.                                                          *)
(***************************************************************************)
EXPECTED_PARQUET_SCHEMA_VERSION == "2"
MAX_PARQUET_DATASET_ROWS == 500000

CheckSchemaVersion(file) == file.version = EXPECTED_PARQUET_SCHEMA_VERSION

ReadParquetFile(file, a, from, to) ==
    LET read == Extract(file.dataset, file.batch, a, from, to)
    IN  [read EXCEPT !.ok = CheckSchemaVersion(file) /\ @]

\* read_parquet_files: the rows by file and row number; all of them, or none.
ReadParquetFiles(files, a, from, to) ==
    LET Read(file) == ReadParquetFile(file, a, from, to)
        found == UNION {{<< file, i >> : i \in DOMAIN Read(file).rows} : file \in files}
    IN  [ok |-> (\A file \in files : Read(file).ok) /\ Cardinality(found) <= MAX_PARQUET_DATASET_ROWS,
         rows |-> [at \in found |-> Read(at[1]).rows[at[2]]]]

\* The time after the calendar's end is the epoch's (unwrap_or_default); where the cast to a
\* signed integer makes it a time before the epoch, nothing plausible is filed there either.
HourOf(t) == IF t <= MaxTimestamp THEN Hour(t) ELSE 0

\* hour_paths.
HourPaths(from, to) == HourOf(from) .. HourOf(to)

\* What a client may ask for.
MAX_QUERY_WINDOW_US == 24 * 3600000000

ValidateTimeWindow(from, to) == from < to /\ to - from <= MAX_QUERY_WINDOW_US

\* dataset_files: the ingest events are looked for under every key.
DatasetFiles(store, dataset, a, from, to) ==
    {file \in store : /\ file.dataset = dataset
                      /\ file.hour \in HourPaths(from, to)
                      /\ dataset # "ingest_events" => file.key = a}

ReadDataset(store, dataset, a, from, to) ==
    ReadParquetFiles(DatasetFiles(store, dataset, a, from, to), a, from, to)

\* read_market_data: three datasets or an error.
ReadMarketData(store, a, from, to) ==
    LET read == [d \in {"book_events", "trade_events", "ingest_events"} |->
                    ReadDataset(store, d, a, from, to)]
    IN  [ok |-> \A d \in DOMAIN read : read[d].ok, rows |-> [d \in DOMAIN read |-> read[d].rows]]

(***************************************************************************)
(* The newest checkpoint until at: the hours are looked through backwards, *)
(* and the first with such a checkpoint is the last to be read.            *)
(***************************************************************************)
\* checkpoint_files_by_asset_and_hour.
CheckpointFiles(store, a, at, hour) ==
    {file \in store : /\ file.dataset = "book_checkpoints" /\ file.key = a
                      /\ file.hour = hour /\ hour <= HourOf(at)}

InHour(store, a, at, hour) == ReadParquetFiles(CheckpointFiles(store, a, at, hour), a, 0, at)

\* The search ends at the hour: nothing in a later one, and no error until here.
EndsAt(store, a, at, hour) ==
    /\ DOMAIN InHour(store, a, at, hour).rows # {}
    /\ \A h \in hour + 1 .. HourOf(at) : DOMAIN InHour(store, a, at, h).rows = {}
    /\ \A h \in hour .. HourOf(at) : InHour(store, a, at, h).ok

\* read_latest_checkpoints: what it can answer for an asset, if anything.
LatestCheckpoints(store, a, at) ==
    LET Rows(h) == InHour(store, a, at, h).rows
        Newest(h) == {i \in DOMAIN Rows(h) : \A j \in DOMAIN Rows(h) : Rows(h)[j].at <= Rows(h)[i].at}
    IN  UNION {{Rows(h)[i] : i \in Newest(h)} : h \in {g \in 0 .. HourOf(at) : EndsAt(store, a, at, g)}}
==============================================================================
