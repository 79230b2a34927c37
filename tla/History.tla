-------------------------------- MODULE History --------------------------------
(***************************************************************************)
(* What is stored and how it is read: ingest with its rotation, reconcile, *)
(* and a reader (ParquetReader, pb-replay/src/reader.rs) that resolves a   *)
(* group from a listing and its manifest and then reads the files, while   *)
(* the store changes under it.                                             *)
(***************************************************************************)
EXTENDS Rotation, Reconcile

CONSTANT MaxReads  \* bound: the reads of a behaviour

VARIABLES
    reader,  \* where the reader is, the group, what it listed, the files left to read and
             \* those read, its attempt, and the rows in sight when it began
    reads

readerVars == << reader, reads >>

NotReading ==
    [pc |-> "idle", group |-> [key |-> 0, hour |-> 0], listing |-> {}, left |-> {}, files |-> {},
     attempt |-> 0, since |-> {}]

vars == << ingestVars, rotationVars, reconcileVars, readerVars >>

Init == IngestInit /\ RotationInit /\ ReconcileInit /\ reader = NotReading /\ reads = 0

-----------------------------------------------------------------------------
\* What a reader that is not disturbed makes of a group.
View(g) == RowsIn(Resolve(Listing(g, "normal"), manifests[g]) \cap objects)

ReadStart(g) ==
    /\ reader.pc = "idle" /\ reads < MaxReads /\ Setup.reads
    /\ View(g) # {}
    /\ reads' = reads + 1
    /\ reader' = [NotReading EXCEPT !.pc = "list", !.group = g, !.since = View(g)]

\* dataset_files: first the listing,
ReadListing ==
    /\ reader.pc = "list"
    /\ reader' = [reader EXCEPT !.pc = "manifest", !.listing = Listing(reader.group, "normal")]
    /\ UNCHANGED reads

\* then the manifest.
ReadManifest ==
    /\ reader.pc = "manifest"
    /\ reader' = [reader EXCEPT !.pc = "files", !.files = {},
                                !.left = Resolve(reader.listing, manifests[reader.group])]
    /\ UNCHANGED reads

\* read_dataset_with_view_retry: a file that is gone starts the resolution again, once.
ReadFile ==
    /\ reader.pc = "files"
    /\ \E o \in reader.left :
        reader' = IF o \in objects
                  THEN [reader EXCEPT !.left = @ \ {o}, !.files = @ \cup {o}]
                  ELSE IF reader.attempt = 0
                  THEN [reader EXCEPT !.pc = "list", !.attempt = 1]
                  ELSE [reader EXCEPT !.pc = "error"]
    /\ UNCHANGED reads

ReadEnds ==
    /\ \/ reader.pc = "files" /\ reader.left = {}
       \/ reader.pc = "error"
    /\ reader' = NotReading
    /\ UNCHANGED reads

ReaderNext ==
    \/ \E g \in DOMAIN manifests : ReadStart(g)
    \/ ReadListing \/ ReadManifest \/ ReadFile \/ ReadEnds

-----------------------------------------------------------------------------
IngestStep == (IngestNext /\ RotationFollows) \/ (RotationReturns /\ UNCHANGED rotationVars)

TaskStep == (Tasks /\ RotationFollows) \/ (RotationReturns /\ UNCHANGED rotationVars)

RotationStep == feed = "running" /\ RotationNext

Next ==
    \/ IngestStep /\ UNCHANGED << reconcileVars, readerVars >>
    \/ (RotationStep \/ (rot.pc # "off" /\ Tick)) /\ UNCHANGED << ingestVars, reconcileVars, readerVars >>
    \/ Setup.reconciles /\ ReconcileNext /\ UNCHANGED << rotationVars, readerVars >>
    \/ ReaderNext /\ UNCHANGED << ingestVars, rotationVars, reconcileVars >>

\* The tasks of a process run, and so does its rotation.
Fairness ==
    /\ WF_vars(TaskStep /\ UNCHANGED << reconcileVars, readerVars >>)
    /\ WF_vars(RotationStep /\ UNCHANGED << ingestVars, reconcileVars, readerVars >>)

Spec == Init /\ [][Next]_vars /\ Fairness

-----------------------------------------------------------------------------
(***************************************************************************)
(* Safety.                                                                 *)
(***************************************************************************)
\* No record reaches the store or the sink that the WAL did not get first: an ingest
\* that fails, or a record that does not encode, never lets the two diverge.  What a
\* crash cut off the WAL may be in the store.
WalFirst == sunk \cup Range(sinkq) \cup Range(sink.buffer) \subseteq Range(log) \cup cut \cup pruned

\* An ingest that ends well, and whose sink and last sync did not fail in its last
\* moments, has every record of its life on disk in the WAL and in the store.
CleanExitStored ==
    (proc = "down" /\ exit = "ok" /\ ~abandoned) =>
        \A i \in began + 1 .. emitted :
            i \in dropped \/ (i \in Range(SubSeq(log, 1, synced)) \cup pruned /\ i \in sunk)

\* A read sees each row once, and every row that was in sight when it began, whatever
\* reconcile does to the store meanwhile.  Only what a crash cut off the WAL may go.
ReadIsOneGeneration ==
    (reader.pc = "files" /\ reader.left = {}) =>
        /\ Disjoint(reader.files)
        /\ reader.since \subseteq RowsIn(reader.files) \cup cut

\* A reconcile that ends well leaves every complete hour, as the WAL has it, to a scan
\* of the normal objects that knows no manifest, and nothing staged.
DirectScanSafe ==
    [][(rc.pc # "off" /\ rc'.pc = "off" /\ outcome' = "ok") =>
            \A g \in GroupsToPublish :
                /\ Disjoint(Listing(g, "normal"))'
                /\ RowsIn(Listing(g, "normal"))' = {i \in RecordsToPublish : GroupOf(Script[i]) = g}
                /\ Listing(g, "recovery")' = {}]_vars

\* Whatever is published, deleted or left behind by a crash, no row that a reader could
\* see goes out of sight, unless a crash cut it off the WAL.
ViewNeverLoses == [][\A g \in DOMAIN manifests : View(g) \subseteq View(g)' \cup cut']_vars

\* While reconcile holds the lock of the WAL nothing but reconcile writes to the store
\* (operations.md: it refuses to run while ingest is active).
AloneInTheStore == [][rc.pc # "off" /\ rc' = rc => UNCHANGED objects]_vars

\* An hour that is replaced is retained as a whole, nothing of it was pruned
\* (operations.md: a regression of the clock does not weaken the proof of coverage).
WholeHoursOnly == rc.pc # "off" => \A i \in pruned : GroupOf(Script[i]) \notin GroupsToPublish

\* A market is left only once its bucket has ended, or at the shutdown, and when it is
\* left its successor, of a later bucket, is subscribed already, or no attempt to find
\* one was left (run_rotation, retire_at_boundary).
CutOverClean ==
    [][(rot.front # None /\ rot'.front # rot.front /\ ~cancelled /\ feed' = "running") =>
            /\ clock >= rot.front + Bucket
            /\ \/ rot'.front \in Range(spawned) /\ rot'.front >= rot.front + Bucket
               \/ rot'.front = None /\ rot.tries = Attempts]_vars

\* No market is subscribed to twice, however long a discovery takes.
NoMarketTwice == IsInjective(spawned)

\* A process whose token is cancelled ends, for every task ends.
StopEnds == cancelled ~> proc = "down"
================================================================================
