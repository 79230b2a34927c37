------------------------------- MODULE Service -------------------------------
(***************************************************************************)
(* The integrity summary of an asset over a window, which tells a client   *)
(* whether the history it reads is complete (pb-service/src/lib.rs and     *)
(* historical.rs, the handlers of pb-api/src/server.rs).                   *)
(***************************************************************************)
EXTENDS Queries, SlugRegistry

CONSTANT Refused  \* an answer that is an error

Reconnects == {"ReconnectStart", "ReconnectSuccess"}
Gaps == {"SequenceGap", "SourceReset", "BookMismatch"}

\* The continuity events that break a history; a skipped stale snapshot does not.
Boundaries == Reconnects \cup Gaps

\* build_integrity_summary, of the rows of the four datasets.
BuildIntegritySummary(rows, validations) ==
    LET ingest == rows["ingest_events"]
        Of(kinds) == {at \in DOMAIN ingest : ingest[at].kind \in kinds}
    IN  [books |-> Cardinality(DOMAIN rows["book_events"]),
         ingest |-> Cardinality(DOMAIN ingest),
         reconnects |-> Cardinality(Of(Reconnects)),
         gaps |-> Cardinality(Of(Gaps)),
         stale |-> Cardinality(Of({"StaleSnapshotSkip"})),
         validations |-> Cardinality(DOMAIN validations),
         matched |-> Cardinality({at \in DOMAIN validations : validations[at].matched}),
         completeness |-> IF DOMAIN rows["book_events"] = {} THEN "Empty"
                          ELSE IF Of(Boundaries) # {} THEN "Partial" ELSE "Full"]

\* HistoricalService::integrity_summary.
IntegritySummary(store, a, from, to) ==
    LET window == ReadMarketData(store, a, from, to)
        validations == ReadDataset(store, "replay_validations", a, from, to)
    IN  IF ValidateTimeWindow(from, to) /\ window.ok /\ validations.ok
        THEN BuildIntegritySummary(window.rows, validations.rows)
        ELSE Refused

\* The handler: only a full history is called complete.
CompletenessLabel(summary) ==
    IF summary.completeness = "Full" THEN "Complete" ELSE "BestEffort"

IntegrityAnswer(reg, store, input, from, to) ==
    LET summary == IntegritySummary(store, ResolveAssetId(reg, input), from, to)
    IN  IF summary = Refused THEN Refused ELSE CompletenessLabel(summary)
==============================================================================
