------------------------------ MODULE ObjectStore ------------------------------
(***************************************************************************)
(* Parquet objects and recovery manifests (pb-store/src/writer.rs,         *)
(* pb-replay/src/reader.rs).  An object is immutable and named by its      *)
(* group and its content; a group is one (dataset, asset) and hour.        *)
(***************************************************************************)
EXTENDS Integers, SequencesExt

CONSTANT HourLen  \* HOUR_US

ASSUME StoreAssumption == HourLen \in Nat \ {0}

VARIABLES
    objects,   \* the objects of the store
    manifests  \* manifests[g]; NoManifest if there is none

storeVars == << objects, manifests >>

NoManifest == [active |-> {}, superseded |-> {}]

InvalidHour == -1

\* partition_hour_key: an implausible timestamp, here 0, has a partition of its own.
HourOf(at) == IF at = 0 THEN InvalidHour ELSE at \div HourLen

GroupOf(rec) == [key |-> rec.key, hour |-> HourOf(rec.at)]

\* The name has a hash of the content, so that writing the same rows again writes
\* the same object.
Object(place, g, rows) == [place |-> place, group |-> g, rows |-> rows]

\* group_objects, recovery_group_objects.
Listing(g, place) == {o \in objects : o.group = g /\ o.place = place}

\* dataset_files: what a listing and a manifest make of a group.
Resolve(listing, manifest) == (listing \ manifest.superseded) \cup manifest.active

\* ParquetRecoveryManifest::validate.
Validate(manifest) == manifest.active # {} /\ manifest.active \cap manifest.superseded = {}

\* validate_recovery_manifest_scope: no manifest reaches into another group.
InScope(g, manifest) == \A o \in manifest.active \cup manifest.superseded : o.group = g

\* What the writer publishes and a reader accepts.
ValidManifest(g, manifest) == Validate(manifest) /\ InScope(g, manifest)

RowsIn(files) == UNION {Range(o.rows) : o \in files}

\* No row is in two files, or twice in one.
Disjoint(files) ==
    /\ \A o \in files : IsInjective(o.rows)
    /\ \A o, p \in files : o # p => Range(o.rows) \cap Range(p.rows) = {}

Put(o) == objects' = objects \cup {o}
================================================================================
