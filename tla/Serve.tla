--------------------------------- MODULE Serve ---------------------------------
(***************************************************************************)
(* The process that serves live books (pb-bin/src/commands/serve.rs) from  *)
(* the WAL another process writes: it hydrates its read model from the     *)
(* checkpoints in Parquet and the retained WAL                             *)
(* (pb-api/src/hydration.rs), then tails the WAL, and hydrates again when  *)
(* its position was pruned.  Without --tokens it follows the assets whose  *)
(* records it sees.                                                        *)
(***************************************************************************)
EXTENDS LiveState, LogTail

CONSTANTS
    Profiles,  \* what is tried, a sequence: a log, the mode, and bounds on what goes wrong
    IdleSpan   \* FOLLOW_IDLE_US

ASSUME ServeAssumption ==
    IdleSpan \in Nat /\ \A p \in DOMAIN Profiles : Profiles[p].tokens \subseteq Assets

VARIABLES
    profile,    \* the number of the one tried; it never changes
    stored,     \* the checkpoints among the first `stored` records are in Parquet
    pc,         \* where the process is
    after,      \* where it goes on after a sync
    hydrated,   \* PublishedState::hydrated
    resync,     \* the needs_resync flag that /health/ready reads
    recovered,  \* HydrationResult::recovery_succeeded
    toLoad,     \* the checkpoints read, and not applied yet: per asset, 0 if none
    cuts,       \* checkpoint_offsets: per asset, NoCut if it has none
    resumeAt,   \* wal_end_position, then start_position
    dirty,      \* dirty_position
    seen,       \* FollowTracker::last_seen_us; NotSeen if there is no entry
    newest,     \* FollowTracker::newest_us
    followed,   \* FollowTracker::published
    channels,   \* the assets PerAssetBroadcast has a channel for
    stamp,      \* stamp[a]: the newest timestamp in the view of a
    faults, restarts,
    sound,      \* sound[a]: the book of a was built from a whole snapshot or its
                \* checkpoint, and no record of the log was left out since
    lost        \* the last record that was left out

ghosts == << sound, lost >>
trackerVars == << seen, newest, followed >>
hydrationVars == << recovered, toLoad, cuts, resumeAt >>
flags == << hydrated, resync >>
bounds == << profile, faults, restarts >>
vars == << lvars, logVars, rd, bounds, stored, pc, after, flags, hydrationVars,
           dirty, trackerVars, channels, stamp, ghosts >>

MaxOf(S) == CHOOSE x \in S : \A y \in S : y <= x

NoCut == -1
NotSeen == -1

Setup == Profiles[profile]
Script == Setup.script
Follow == Setup.tokens = {}

(***************************************************************************)
(* The log's own account of a book, to compare with: the last snapshot of  *)
(* the asset that some later record ended, and the deltas after it.        *)
(***************************************************************************)
RowsAt(log, a, i) == log[i].kind = "snapshot" /\ log[i].asset = a

\* Record i is the last row of its snapshot, and record n or an earlier one ended it.
EndsSnapshot(log, a, i, n) ==
    /\ RowsAt(log, a, i)
    /\ i < n
    /\ ~(RowsAt(log, a, i + 1) /\ log[i + 1].key = log[i].key)

RowsOfKey(log, key) ==
    LET Of(rec) == rec.kind = "snapshot" /\ rec.key = key
        rows == SelectSeq(log, Of)
    IN  [k \in DOMAIN rows |-> rows[k].row]

BookAt(log, a, n) ==
    LET bases == {i \in 1..n : EndsSnapshot(log, a, i, n)}
        base == MaxOf(bases)
        IsDelta(rec) == rec.kind = "delta" /\ rec.asset = a
        deltas == SelectSeq(SubSeq(log, base + 1, n), IsDelta)
        Set(b, rec) == SetLevel(b, rec.row.level, rec.row.size)
    IN  IF bases = {} THEN EmptyBook
        ELSE FoldLeft(Set, Snapshot(RowsOfKey(log, log[base].key)).book, deltas)

Books ==
    [p \in DOMAIN Profiles |->
        LET log == Profiles[p].script
        IN  [a \in Assets |-> [n \in DOMAIN log |-> BookAt(log, a, n)]]]

\* A checkpoint carries what the log says at its cut.
Logs ==
    [p \in DOMAIN Profiles |->
        LET log == Profiles[p].script
        IN  [i \in DOMAIN log |->
                IF log[i].kind = "checkpoint"
                THEN [log[i] EXCEPT !.rows = RowsOf(Books[p][log[i].asset][i])] ELSE log[i]]]

Rec(i) == Logs[profile][i]

LogBook(a, n) == Books[profile][a][n]

GroupRows(key) == RowsOfKey(Script, key)

\* The cut stamped on checkpoint i: the offset before its own frame.
CutOf(i) == i - 1

-----------------------------------------------------------------------------
ProcessInit ==
    /\ after = "open"
    /\ hydrated = FALSE
    /\ resync = FALSE
    /\ recovered = TRUE
    /\ toLoad = [a \in Assets |-> 0]
    /\ cuts = [a \in Assets |-> NoCut]
    /\ resumeAt = NoPosition
    /\ dirty = FALSE
    /\ seen = [a \in Assets |-> NotSeen]
    /\ newest = 0
    /\ followed = {}
    /\ channels = {}
    /\ stamp = [a \in Assets |-> 0]
    /\ sound = [a \in Assets |-> FALSE]
    /\ lost = 0

Init ==
    /\ profile \in DOMAIN Profiles
    /\ LogInit /\ LiveInit /\ ProcessInit
    /\ pc = "down"
    /\ stored = 0
    /\ faults = 0 /\ restarts = 0

Fault == faults < Setup.maxFaults /\ faults' = faults + 1

-----------------------------------------------------------------------------
(***************************************************************************)
(* The other processes: ingest appends, prunes and flushes to Parquet.     *)
(***************************************************************************)
processVars == << lvars, rd, pc, after, flags, hydrationVars, dirty, trackerVars, channels,
                  stamp, ghosts >>

AppendLog ==
    /\ written < Len(Script)
    /\ written' = written + 1
    /\ UNCHANGED << first, committed, stored, bounds, processVars >>

Prune ==
    /\ Setup.prunes
    /\ \E s \in 1..LastSeg : PruneTo(s)
    /\ UNCHANGED << written, committed, stored, bounds, processVars >>

FlushParquet ==
    /\ stored < written /\ written \in Setup.flushes
    /\ stored' = written
    /\ UNCHANGED << logVars, bounds, processVars >>

-----------------------------------------------------------------------------
(***************************************************************************)
(* run: a new process, whose read model is empty.                          *)
(***************************************************************************)
Start ==
    /\ pc = "down" /\ written >= Setup.startsFrom
    /\ pc' = "hydrate"
    /\ active' = Setup.tokens /\ channels' = Setup.tokens
    /\ known' = Setup.tokens
    /\ UNCHANGED << book, ready, warning, pending, session, updates, logVars, rd, bounds, stored,
                    after, flags, hydrationVars, dirty, trackerVars, stamp, ghosts >>
    /\ published' = FullView'

\* mark_unhydrated, and the first lines of hydrate.
BeginHydration ==
    /\ pc = "hydrate"
    /\ pc' = "inventory"
    /\ hydrated' = FALSE
    /\ recovered' = TRUE
    /\ toLoad' = [a \in Assets |-> 0]
    /\ cuts' = [a \in Assets |-> NoCut]
    /\ resumeAt' = NoPosition
    /\ sound' = [a \in Assets |-> FALSE]
    /\ UNCHANGED << lost, lvars, logVars, rd, bounds, stored, after, resync, dirty, trackerVars,
                    channels, stamp >>

\* The checkpoints of a in Parquet; a backfilled one is the newest and has no cut.
StoredOf(a) == {i \in 1..stored : Script[i].kind = "checkpoint" /\ Script[i].asset = a}

Latest(a) ==
    IF StoredOf(a) = {} \/ a \in Setup.backfilled THEN 0
    ELSE CHOOSE i \in StoredOf(a) : \A j \in StoredOf(a) : j <= i

\* read_latest_checkpoints: one without a cut is ignored; failure is remembered.
ReadCheckpoints ==
    /\ pc = "inventory"
    /\ pc' = "load"
    /\ \/ /\ toLoad' = [a \in Assets |-> IF a \in Setup.tokens THEN Latest(a) ELSE 0]
          /\ cuts' = [a \in Assets |-> IF toLoad'[a] = 0 THEN NoCut ELSE CutOf(toLoad'[a])]
          /\ UNCHANGED << recovered, faults >>
       \/ Fault /\ recovered' = FALSE /\ UNCHANGED << toLoad, cuts >>
    /\ UNCHANGED << lvars, logVars, rd, profile, restarts, stored, after, flags, resumeAt, dirty,
                    trackerVars, channels, stamp, ghosts >>

ToLoad == {a \in Assets : toLoad[a] # 0}

\* A checkpoint is sound to start from where nothing after it was pruned and no
\* half of a snapshot is waiting to replace it.
LoadCheckpoint(a) ==
    /\ pc = "load"
    /\ a \in ToLoad
    /\ HydrateCheckpoint(a, Rec(toLoad[a]).rows)
    /\ toLoad' = [toLoad EXCEPT ![a] = 0]
    /\ stamp' = [stamp EXCEPT ![a] = Script[toLoad[a]].at]
    /\ sound' = [sound EXCEPT ![a] = pending[a] = NoPending]
    /\ UNCHANGED << lost, logVars, rd, bounds, stored, pc, after, flags, recovered, cuts, resumeAt,
                    dirty, trackerVars, channels >>

\* Records are left out.  A book stays sound if its cut covers them.
Lose(skipped) ==
    /\ sound' = [a \in Assets |-> sound[a] /\ \A i \in skipped : i <= cuts[a]]
    /\ lost' = MaxOf({lost} \cup skipped)

\* replay_wal_tail opens at the earliest segment; without a WAL to read, nothing
\* is replayed and no position comes out.
OpenReplay ==
    /\ pc = "load" /\ ToLoad = {}
    /\ \/ /\ rd' = ReaderAtEarliest
          /\ Lose(1..first * PerSeg)
          /\ pc' = "replay"
          /\ UNCHANGED << recovered, faults >>
       \/ Fault /\ recovered' = FALSE /\ pc' = "finish" /\ UNCHANGED << rd, ghosts >>
    /\ UNCHANGED << lvars, logVars, profile, restarts, stored, after, flags, toLoad, cuts, resumeAt,
                    dirty, trackerVars, channels, stamp >>

\* The smallest cut, if every token has one; else every record is replayed.
ResumeOffset ==
    IF Follow \/ \E a \in Setup.tokens : cuts[a] = NoCut THEN NoCut
    ELSE CHOOSE c \in {cuts[a] : a \in Setup.tokens} : \A a \in Setup.tokens : c <= cuts[a]

\* Record i, measured by the position after it, is before the resume offset or
\* before its asset's own cut.
BeforeCut(i) ==
    \/ i <= ResumeOffset
    \/ Script[i].asset # NoAsset /\ i <= cuts[Script[i].asset]

NextStamp(i) ==
    LET rec == Script[i]
    IN  IF \/ rec.kind \in {"snapshot", "delta"}
           \/ rec.kind = "checkpoint" /\ Seeds(rec.asset, rec)
        THEN [stamp EXCEPT ![rec.asset] = rec.at] ELSE stamp

Whole(a) == Len(pending[a].rows) = Len(GroupRows(pending[a].key))

LastRow(a) == MaxOf({j \in DOMAIN Script : RowsAt(Script, a, j) /\ Script[j].key = pending[a].key})

NextSound(i) ==
    LET rec == Script[i]
    IN  [a \in Assets |-> IF a \in Materialized(rec) THEN Whole(a) /\ lost < LastRow(a)
                          ELSE IF rec.kind = "checkpoint" /\ rec.asset = a /\ Seeds(a, rec) THEN TRUE
                          ELSE sound[a]]

ApplyLogged(i) ==
    /\ ApplyRecord(Rec(i))
    /\ stamp' = NextStamp(i)
    /\ sound' = NextSound(i)
    /\ UNCHANGED lost

ReplaySkip ==
    /\ pc = "replay" /\ HasRecord /\ BeforeCut(Index)
    /\ Deliver
    /\ UNCHANGED << lvars, logVars, bounds, stored, pc, after, flags, hydrationVars, dirty,
                    trackerVars, channels, stamp, ghosts >>

ReplayApply ==
    /\ pc = "replay" /\ HasRecord /\ ~BeforeCut(Index)
    /\ Deliver
    /\ ApplyLogged(Index)
    /\ UNCHANGED << logVars, bounds, stored, pc, after, flags, hydrationVars, dirty, trackerVars,
                    channels >>

ReplayMove ==
    /\ pc = "replay"
    /\ \/ Move /\ Lose(PassedOver)
       \/ Grow /\ UNCHANGED ghosts
    /\ UNCHANGED << lvars, logVars, bounds, stored, pc, after, flags, hydrationVars, dirty,
                    trackerVars, channels, stamp >>

\* The replay stops at the end of the log, or at a record it cannot read or decode.
ReplayEnd ==
    /\ pc = "replay"
    /\ \/ AtEnd /\ UNCHANGED << recovered, faults >>
       \/ HasRecord /\ Fault /\ recovered' = FALSE /\ UNCHANGED rd
    /\ resumeAt' = [seg |-> rd.seg, off |-> rd.off]
    /\ pc' = "finish"
    /\ UNCHANGED << lvars, logVars, profile, restarts, stored, after, flags, toLoad, cuts, dirty,
                    trackerVars, channels, stamp, ghosts >>

-----------------------------------------------------------------------------
(***************************************************************************)
(* FollowTracker.                                                          *)
(***************************************************************************)
\* seed_from: an asset without a timestamp counts as current.
Seeded ==
    LET views == {a \in Assets : published.view[a].has}
        latest == MaxOf({newest} \cup {stamp[a] : a \in views})
        At(a) == IF stamp[a] = 0 THEN latest ELSE stamp[a]
    IN  [a \in Assets |-> IF a \in views THEN MaxOf({seen[a], At(a)}) ELSE seen[a]]

\* saturating_sub.
Cutoff == IF newest > IdleSpan THEN newest - IdleSpan ELSE 0

\* Faulty variant: an asset that was seen stays.
DesiredEver == {a \in Assets : seen[a] # NotSeen}

Desired == {a \in Assets : seen[a] # NotSeen /\ seen[a] >= Cutoff}

\* observe: records that name an asset.
Observe(i) ==
    LET rec == Script[i]
    IN  IF Follow /\ rec.asset # NoAsset
        THEN /\ seen' = [seen EXCEPT ![rec.asset] = MaxOf({@, rec.at})]
             /\ newest' = MaxOf({newest, rec.at})
        ELSE UNCHANGED << seen, newest >>

IsNew(i) == Follow /\ Script[i].asset # NoAsset /\ seen[Script[i].asset] = NotSeen

\* mark_hydrated if the recovery succeeded; the flag says so on the first
\* hydration, and is set already on every other.  Then the tracker is seeded.
FinishHydration ==
    /\ pc = "finish"
    /\ hydrated' = recovered
    /\ resync' = (resync \/ ~recovered)
    /\ IF Follow
       THEN seen' = Seeded /\ newest' = MaxOf({newest} \cup {Seeded[a] : a \in Assets}) /\ pc' = "sync"
       ELSE UNCHANGED << seen, newest >> /\ pc' = "open"
    /\ after' = "open"
    /\ UNCHANGED << lvars, logVars, rd, bounds, stored, hydrationVars, dirty, followed, channels,
                    stamp, ghosts >>

\* sync: nothing to do, or the channels first and then the books.
SyncNothing ==
    /\ pc = "sync" /\ Desired = followed
    /\ pc' = after
    /\ UNCHANGED << lvars, logVars, rd, bounds, stored, after, flags, hydrationVars, dirty,
                    trackerVars, channels, stamp, ghosts >>

SyncChannels ==
    /\ pc = "sync" /\ Desired # followed
    /\ pc' = "activate"
    /\ seen' = [a \in Assets |-> IF a \in Desired THEN seen[a] ELSE NotSeen]
    /\ channels' = Desired
    /\ followed' = Desired
    /\ UNCHANGED << lvars, logVars, rd, bounds, stored, after, flags, hydrationVars, dirty, newest,
                    stamp, ghosts >>

SyncBooks ==
    /\ pc = "activate"
    /\ pc' = after
    /\ SetActive(followed)
    /\ stamp' = [a \in Assets |-> IF a \in followed THEN stamp[a] ELSE 0]
    /\ sound' = [a \in Assets |-> a \in followed /\ sound[a]]
    /\ UNCHANGED << lost, logVars, rd, bounds, stored, after, flags, hydrationVars, dirty, trackerVars,
                    channels >>

-----------------------------------------------------------------------------
(***************************************************************************)
(* spawn_wal_tailer and tail_session.                                      *)
(***************************************************************************)
TailPosition ==
    CASE resumeAt # NoPosition -> resumeAt
      [] resumeAt = NoPosition /\ committed # NoPosition -> committed
      [] OTHER -> [seg |-> first, off |-> 0]

\* Faulty variant: the flag outlives the resynchronization.
KeepsResync == UNCHANGED resync

\* The tailer has a reader again.
ClearsResync == resync' = FALSE

\* Opened without a position from hydration, the reader has read nothing yet.
OpenTail ==
    /\ pc = "open"
    /\ rd' = ReaderAt(TailPosition)
    /\ ClearsResync
    /\ pc' = "tail"
    /\ dirty' = FALSE
    /\ IF resumeAt = NoPosition
       THEN sound' = [a \in Assets |-> FALSE] /\ lost' = MaxOf({lost, Global(TailPosition)})
       ELSE UNCHANGED ghosts
    /\ UNCHANGED << lvars, logVars, bounds, stored, after, hydrated, hydrationVars, trackerVars,
                    channels, stamp >>

OpenTailFails ==
    /\ pc = "open"
    /\ Fault
    /\ resync' = TRUE
    /\ UNCHANGED << lvars, logVars, rd, profile, restarts, stored, pc, after, hydrated,
                    hydrationVars, dirty, trackerVars, channels, stamp, ghosts >>

\* Faulty variant: the session ends without the flag.
TailResyncSilent ==
    /\ pc = "tail" /\ NeedsResync
    /\ CommitPosition
    /\ pc' = "hydrate"
    /\ UNCHANGED << lvars, written, first, rd, bounds, stored, after, flags, hydrationVars,
                    dirty, trackerVars, channels, stamp, ghosts >>

\* The session ends, with its position committed; the tailer hydrates again.
TailResync ==
    /\ pc = "tail" /\ NeedsResync
    /\ resync' = TRUE
    /\ CommitPosition
    /\ pc' = "hydrate"
    /\ UNCHANGED << lvars, written, first, rd, bounds, stored, after, hydrated, hydrationVars,
                    dirty, trackerVars, channels, stamp, ghosts >>

\* Between two records needs_resync is checked; within one call of next it is not.
Polling == pc = "next" \/ (pc = "tail" /\ ~NeedsResync)

TailApply ==
    /\ Polling /\ HasRecord
    /\ Deliver
    /\ Observe(Index)
    /\ ApplyLogged(Index)
    /\ dirty' = TRUE
    /\ pc' = IF IsNew(Index) THEN "sync" ELSE "tail"
    /\ after' = "tail"
    /\ UNCHANGED << logVars, bounds, stored, flags, hydrationVars, followed, channels >>

\* A frame that does not decode is skipped, loudly.
TailSkips ==
    /\ Polling /\ HasRecord
    /\ Fault
    /\ Deliver
    /\ pc' = "tail"
    /\ Lose({Index})
    /\ UNCHANGED << lvars, logVars, profile, restarts, stored, after, flags, hydrationVars,
                    dirty, trackerVars, channels, stamp >>

\* The projector dies of the record: the tailer commits once more and stops.
ProjectorDies ==
    /\ Polling /\ HasRecord
    /\ Fault
    /\ Deliver
    /\ Observe(Index)
    /\ committed' = [seg |-> rd'.seg, off |-> rd'.off]
    /\ resync' = TRUE
    /\ pc' = "stopped"
    /\ UNCHANGED << lvars, written, first, profile, restarts, stored, after, hydrated,
                    hydrationVars, dirty, followed, channels, stamp, ghosts >>

TailMove ==
    /\ Polling
    /\ \/ Move /\ Lose(PassedOver)
       \/ Grow /\ UNCHANGED ghosts
    /\ pc' = "next"
    /\ UNCHANGED << lvars, logVars, bounds, stored, after, flags, hydrationVars, dirty,
                    trackerVars, channels, stamp >>

\* Nothing to read: commit if the interval has passed, and let markets age out.
TailIdle ==
    /\ Polling /\ AtEnd
    /\ \/ dirty /\ CommitPosition /\ dirty' = FALSE
       \/ UNCHANGED << committed, dirty >>
    /\ pc' = IF Follow THEN "sync" ELSE "tail"
    /\ after' = "tail"
    /\ UNCHANGED << lvars, written, first, bounds, stored, flags, hydrationVars, trackerVars,
                    channels, stamp, ghosts >>

Tailing == pc \in {"tail", "next"}

ProcessGone ==
    /\ known' = {} /\ active' = {} /\ followed' = {} /\ channels' = {}
    /\ book' = [a \in Assets |-> EmptyBook]
    /\ ready' = [a \in Assets |-> FALSE]
    /\ warning' = [a \in Assets |-> "none"]
    /\ pending' = [a \in Assets |-> NoPending]
    /\ session' = "starting"
    /\ published' = FullView'
    /\ updates' = {}
    /\ hydrated' = FALSE /\ resync' = FALSE /\ recovered' = TRUE /\ dirty' = FALSE
    /\ toLoad' = [a \in Assets |-> 0]
    /\ cuts' = [a \in Assets |-> NoCut]
    /\ rd' = NoReader /\ resumeAt' = NoPosition /\ after' = "open" /\ newest' = 0
    /\ seen' = [a \in Assets |-> NotSeen]
    /\ stamp' = [a \in Assets |-> 0]
    /\ sound' = [a \in Assets |-> FALSE]
    /\ lost' = 0

\* The process ends: a graceful stop of a tail session commits its position.
Stop ==
    /\ pc # "down"
    /\ restarts < Setup.maxRestarts
    /\ restarts' = restarts + 1
    /\ IF Tailing THEN CommitPosition \/ UNCHANGED committed ELSE UNCHANGED committed
    /\ pc' = "down"
    /\ ProcessGone
    /\ UNCHANGED << written, first, stored, profile, faults >>
================================================================================
