------------------------------ MODULE WalWriter ------------------------------
(***************************************************************************)
(* The WAL directory and the process that appends to it                    *)
(* (pb-wal/src/writer.rs, segment.rs).                                     *)
(*                                                                         *)
(* What a process sees of a segment is the OS page cache (bytes); a power  *)
(* loss keeps of it only what fdatasync covered (synced), and keeps a      *)
(* segment at all only if its directory entry was fsynced (entryDurable).  *)
(* The BufWriter in front of the file lives in the writer process (buf).   *)
(* The lock is flock(2): at most one process is the writer, and the kernel *)
(* releases the lock when that process ends, however it ends.              *)
(***************************************************************************)
EXTENDS WalFrames, FiniteSets, FiniteSetsExt

CONSTANTS
    MaxSeg,       \* bound: segment ids are 0..MaxSeg
    SegmentSize,  \* config.segment_size, in units
    MaxSegments,  \* config.max_segments
    MaxLag,       \* config.max_consumer_lag_bytes, in units
    Consumers,    \* the names readers commit their positions under
    MaxExits,     \* bound: how often the writer process ends, by error or kill
    MaxPowerLoss  \* bound: how often the machine loses power

ASSUME WriterAssumption ==
    /\ {MaxSeg, SegmentSize, MaxSegments, MaxLag, MaxExits, MaxPowerLoss} \subseteq Nat
    /\ SegmentSize > 0

SegIds == 0..MaxSeg

\* No consumer_<name>.pos file.
NoPosition == [seg |-> -1, off |-> -1]

VARIABLES
    segments,      \* ids of the segment files in the directory
    bytes,         \* bytes[s]: their content; << >> where there is no file
    synced,        \* synced[s]: length of the prefix fdatasync has covered
    entryDurable,  \* segments whose directory entry fsync_dir has covered
    committed,     \* committed[c]: content of consumer c's position file
    wpc,           \* where the writer process is; "none": no process holds the lock
    active,        \* its active segment
    nextId,        \* its next_segment_id
    buf,           \* its BufWriter
    pruneTo,       \* while it prunes: every segment below this one goes
    listed,        \* the consumers whose position files prune was given
    nextRec,       \* the next record of the event stream
    exits,         \* how often the writer process ended so far
    powerLosses    \* how often power was lost so far

disk == << segments, bytes, synced, entryDurable >>
proc == << wpc, active, nextId, buf, pruneTo, listed >>
wvars == << segments, bytes, synced, entryDurable, committed, wpc, active,
            nextId, buf, pruneTo, listed, nextRec, exits, powerLosses >>

(***************************************************************************)
(* Observers.                                                              *)
(***************************************************************************)
IsLatest(s) == s \in segments /\ \A t \in segments : t <= s

IsLeast(s, S) == s \in S /\ \A t \in S : s <= t

\* Segment::write_offset of the active segment: what append wrote so far.
WriteOffset == Len(bytes[active]) + Len(buf)

\* Faulty variant: counts only what has left the buffer.
GlobalOffsetFlushed == active * SegmentSize + Len(bytes[active])

\* WalWriter::global_offset.
GlobalOffset == active * SegmentSize + WriteOffset

Remaining == IF WriteOffset >= SegmentSize THEN 0 ELSE SegmentSize - WriteOffset

\* Faulty variant: the positions are not read.
IsActiveConsumed(m, files) == m = active

\* min_consumer_segment over the position files of the consumers `files`: no
\* file counts as one that has read everything.
IsMinConsumed(m, files) ==
    IF files = {} THEN m = active ELSE IsLeast(m, {committed[c].seg : c \in files})

\* prune_with_backpressure: from r on, segments are kept although everyone has
\* read them, as many as max_segments and max_consumer_lag_bytes allow.
IsRetentionCutoff(r) ==
    LET Window(s) == {t \in segments : s <= t /\ t < active}
        Fits(s) == /\ Cardinality(Window(s)) + 1 <= MaxSegments
                   /\ MapThenSumSet(LAMBDA t : Len(bytes[t]), Window(s)) <= MaxLag
    IN  IsLeast(r, {active} \cup {s \in segments : s < active /\ Fits(s)})

NoProcess ==
    /\ wpc' = "none"
    /\ active' = 0
    /\ nextId' = 0
    /\ buf' = << >>
    /\ pruneTo' = 0
    /\ listed' = {}

-----------------------------------------------------------------------------
WInit ==
    /\ segments = {}
    /\ bytes = [s \in SegIds |-> << >>]
    /\ synced = [s \in SegIds |-> 0]
    /\ entryDurable = {}
    /\ committed = [c \in Consumers |-> NoPosition]
    /\ wpc = "none"
    /\ active = 0
    /\ nextId = 0
    /\ buf = << >>
    /\ pruneTo = 0
    /\ listed = {}
    /\ nextRec = 1
    /\ exits = 0
    /\ powerLosses = 0

\* WalWriter::open on an empty directory, up to Segment::create ...
OpenCreate ==
    /\ wpc = "none"
    /\ segments = {}
    /\ segments' = {0}
    /\ wpc' = "opening"
    /\ active' = 0
    /\ nextId' = 1
    /\ UNCHANGED << bytes, synced, entryDurable, committed, buf, pruneTo,
                    listed, nextRec, exits, powerLosses >>

\* ... and its fsync_dir.
OpenSyncDir ==
    /\ wpc = "opening"
    /\ entryDurable' = segments
    /\ wpc' = "idle"
    /\ UNCHANGED << segments, bytes, synced, committed, active, nextId, buf,
                    pruneTo, listed, nextRec, exits, powerLosses >>

\* Faulty variant: the next segment id is the one just opened.
OpenAppendReusingId ==
    /\ wpc = "none"
    /\ \E last \in segments :
        /\ IsLatest(last)
        /\ \E n \in 0..Len(bytes[last]) :
            /\ IsValidEnd(bytes[last], n)
            /\ bytes' = [bytes EXCEPT ![last] = SubSeq(@, 1, n)]
            /\ synced' = [synced EXCEPT ![last] = IF n < Len(bytes[last]) THEN n ELSE @]
        /\ active' = last
        /\ nextId' = last
    /\ wpc' = "idle"
    /\ UNCHANGED << segments, entryDurable, committed, buf, pruneTo, listed,
                    nextRec, exits, powerLosses >>

\* WalWriter::open on a directory with segments: Segment::open_append cuts a
\* torn or zeroed tail off the last one, and syncs it only if it did cut.
OpenAppend ==
    /\ wpc = "none"
    /\ \E last \in segments :
        /\ IsLatest(last)
        /\ \E n \in 0..Len(bytes[last]) :
            /\ IsValidEnd(bytes[last], n)
            /\ bytes' = [bytes EXCEPT ![last] = SubSeq(@, 1, n)]
            /\ synced' = [synced EXCEPT ![last] = IF n < Len(bytes[last]) THEN n ELSE @]
        /\ active' = last
        /\ nextId' = last + 1
    /\ wpc' = "idle"
    /\ UNCHANGED << segments, entryDurable, committed, buf, pruneTo, listed,
                    nextRec, exits, powerLosses >>

\* WalWriter::append when the frame fits.
Append1 ==
    /\ wpc = "idle"
    /\ nextRec \in Records
    /\ FrameLen(nextRec) <= Remaining
    /\ buf' = buf \o Frame(nextRec)
    /\ nextRec' = nextRec + 1
    /\ UNCHANGED << disk, committed, wpc, active, nextId, pruneTo, listed,
                    exits, powerLosses >>

\* Faulty variant: the segment is flushed, not synced, before the next one.
RotateSealUnsynced ==
    /\ wpc = "idle"
    /\ nextRec \in Records
    /\ FrameLen(nextRec) > Remaining
    /\ bytes' = [bytes EXCEPT ![active] = @ \o buf]
    /\ UNCHANGED synced
    /\ buf' = << >>
    /\ wpc' = "sealed"
    /\ UNCHANGED << segments, entryDurable, committed, active, nextId, pruneTo,
                    listed, nextRec, exits, powerLosses >>

\* WalWriter::append when it does not: rotate seals the active segment ...
RotateSeal ==
    /\ wpc = "idle"
    /\ nextRec \in Records
    /\ FrameLen(nextRec) > Remaining
    /\ bytes' = [bytes EXCEPT ![active] = @ \o buf]
    /\ synced' = [synced EXCEPT ![active] = Len(bytes[active]) + Len(buf)]
    /\ buf' = << >>
    /\ wpc' = "sealed"
    /\ UNCHANGED << segments, entryDurable, committed, active, nextId, pruneTo,
                    listed, nextRec, exits, powerLosses >>

\* ... creates the next one (Segment::create truncates) ...
RotateCreate ==
    /\ wpc = "sealed"
    /\ nextId \in SegIds
    /\ segments' = segments \cup {nextId}
    /\ bytes' = [bytes EXCEPT ![nextId] = << >>]
    /\ synced' = [synced EXCEPT ![nextId] = 0]
    /\ active' = nextId
    /\ nextId' = nextId + 1
    /\ wpc' = "created"
    /\ UNCHANGED << entryDurable, committed, buf, pruneTo, listed, nextRec,
                    exits, powerLosses >>

\* ... makes its directory entry durable, and append buffers the frame there,
\* whatever its size.
RotateAppend ==
    /\ wpc = "created"
    /\ entryDurable' = segments
    /\ buf' = Frame(nextRec)
    /\ nextRec' = nextRec + 1
    /\ wpc' = "idle"
    /\ UNCHANGED << segments, bytes, synced, committed, active, nextId,
                    pruneTo, listed, exits, powerLosses >>

\* Part of the buffer reaches the page cache: the BufWriter spills when a
\* write_all does not fit, be it between a header and its payload, and a
\* concurrent process can see a write(2) half done.
Spill ==
    /\ wpc = "idle"
    /\ \E n \in 1..Len(buf) - 1 :
        /\ bytes' = [bytes EXCEPT ![active] = @ \o SubSeq(buf, 1, n)]
        /\ buf' = SubSeq(buf, n + 1, Len(buf))
    /\ UNCHANGED << segments, synced, entryDurable, committed, wpc, active,
                    nextId, pruneTo, listed, nextRec, exits, powerLosses >>

\* WalWriter::flush.
Flush ==
    /\ wpc = "idle"
    /\ buf # << >>
    /\ bytes' = [bytes EXCEPT ![active] = @ \o buf]
    /\ buf' = << >>
    /\ UNCHANGED << segments, synced, entryDurable, committed, wpc, active,
                    nextId, pruneTo, listed, nextRec, exits, powerLosses >>

\* Faulty variant: fdatasync first, then the flush.
SyncBeforeFlush ==
    /\ wpc = "idle"
    /\ bytes' = [bytes EXCEPT ![active] = @ \o buf]
    /\ synced' = [synced EXCEPT ![active] = Len(bytes[active])]
    /\ buf' = << >>
    /\ UNCHANGED << segments, entryDurable, committed, wpc, active, nextId,
                    pruneTo, listed, nextRec, exits, powerLosses >>

\* WalWriter::sync.
Sync ==
    /\ wpc = "idle"
    /\ bytes' = [bytes EXCEPT ![active] = @ \o buf]
    /\ synced' = [synced EXCEPT ![active] = Len(bytes[active]) + Len(buf)]
    /\ buf' = << >>
    /\ UNCHANGED << segments, entryDurable, committed, wpc, active, nextId,
                    pruneTo, listed, nextRec, exits, powerLosses >>

\* WalWriter::prune_with_backpressure: from the position files there are, fix
\* which segments go (with max_consumer_lag_bytes 0 this is WalWriter::prune) ...
PruneStart ==
    /\ wpc = "idle"
    /\ listed' = {c \in Consumers : committed[c] # NoPosition}
    /\ \E m, r \in SegIds :
        /\ IsMinConsumed(m, listed')
        /\ IsRetentionCutoff(r)
        /\ pruneTo' = IF m < r THEN m ELSE r
    /\ wpc' = "pruning"
    /\ UNCHANGED << disk, committed, active, nextId, buf, nextRec, exits,
                    powerLosses >>

\* ... and remove them one by one, lowest id first.
PruneStep ==
    /\ wpc = "pruning"
    /\ \E s \in segments :
        /\ IsLeast(s, segments)
        /\ s < active
        /\ s < pruneTo
        /\ segments' = segments \ {s}
        /\ bytes' = [bytes EXCEPT ![s] = << >>]
        /\ synced' = [synced EXCEPT ![s] = 0]
        /\ entryDurable' = entryDurable \ {s}
    /\ UNCHANGED << committed, proc, nextRec, exits, powerLosses >>

PruneEnd ==
    /\ wpc = "pruning"
    /\ \A s \in segments : s >= active \/ s >= pruneTo
    /\ wpc' = "idle"
    /\ pruneTo' = 0
    /\ listed' = {}
    /\ UNCHANGED << disk, committed, active, nextId, buf, nextRec, exits,
                    powerLosses >>

-----------------------------------------------------------------------------
\* The writer process returns (an I/O error, or shutdown): dropping the
\* BufWriter flushes it, dropping the lock file releases the lock.
Exit ==
    /\ wpc # "none"
    /\ exits < MaxExits
    /\ bytes' = [bytes EXCEPT ![active] = @ \o buf]
    /\ exits' = exits + 1
    /\ NoProcess
    /\ UNCHANGED << segments, synced, entryDurable, committed, nextRec, powerLosses >>

\* The writer process is killed: the buffer is gone, the page cache stays.
Kill ==
    /\ wpc # "none"
    /\ exits < MaxExits
    /\ exits' = exits + 1
    /\ NoProcess
    /\ UNCHANGED << disk, committed, nextRec, powerLosses >>

\* The first m bytes of segment s, any of those fdatasync has not covered zeroed.
Damaged(s, m) ==
    {[i \in 1..m |-> IF i <= synced[s] \/ i \in kept THEN bytes[s][i] ELSE Zero] :
        kept \in SUBSET (synced[s] + 1..m)}

\* What a power loss can leave of segment s: the suffix fdatasync has not covered
\* may be cut anywhere.
PowerLossContents(s) == UNION {Damaged(s, m) : m \in synced[s]..Len(bytes[s])}

\* The machine loses power.  Segments whose directory entry was not durable may
\* be gone, the last created first: file creations reach the disk in order.
\* Only the last segment can hold unsynced bytes (SealedSynced).
PowerLoss ==
    /\ powerLosses < MaxPowerLoss
    /\ powerLosses' = powerLosses + 1
    /\ \E gone \in SUBSET (segments \ entryDurable), last \in segments :
        /\ IsLatest(last)
        /\ \A s \in gone, t \in segments : s < t => t \in gone
        /\ segments' = segments \ gone
        /\ entryDurable' = segments'
        /\ \E d \in PowerLossContents(last) :
            bytes' = [s \in SegIds |-> IF s \in gone THEN << >>
                                       ELSE IF s = last THEN d ELSE bytes[s]]
        /\ synced' = [s \in SegIds |-> IF s \in gone THEN 0 ELSE synced[s]]
    /\ NoProcess
    /\ UNCHANGED << committed, nextRec, exits >>

Open == OpenCreate \/ OpenSyncDir \/ OpenAppend
AppendRecord == Append1 \/ RotateSeal \/ RotateCreate \/ RotateAppend
Prune == PruneStart \/ PruneStep \/ PruneEnd

\* Every step of the writer process and of its end, the machine staying up.
WNext == Open \/ AppendRecord \/ Spill \/ Flush \/ Sync \/ Prune \/ Exit \/ Kill
=============================================================================
