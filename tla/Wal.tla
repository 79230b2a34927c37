--------------------------------- MODULE Wal ---------------------------------
(***************************************************************************)
(* The WAL with its consumers (pb-wal/src/reader.rs): each consumer runs a *)
(* WalReader in a process of its own, reads segment files into memory,     *)
(* parses them there, and commits its position to a file of its own.       *)
(***************************************************************************)
EXTENDS WalWriter

VARIABLES
    ropen,      \* ropen[c]: consumer c has a reader open
    rseg,       \* current_segment_id
    roff,       \* current_offset
    rdata,      \* current_data; << >> when unloaded
    rloaded,    \* current_data is Some
    ravail,     \* available_segments, as of the last listing
    delivered   \* records next() returned since open, with their segments

rvars == << ropen, rseg, roff, rdata, rloaded, ravail, delivered >>
vars == << wvars, rvars >>

Position == [seg : SegIds, off : Nat]
Delivery == [rec : Records, seg : SegIds]

\* WalReader::needs_resync.
NeedsResync(c) == ravail[c] # {} /\ \A s \in ravail[c] : rseg[c] < s

\* load_segment: read the whole file of segment s, or unload if there is none.
LoadSegment(c, s) ==
    IF s \in segments
    THEN /\ rseg' = [rseg EXCEPT ![c] = s]
         /\ rdata' = [rdata EXCEPT ![c] = bytes[s]]
         /\ rloaded' = [rloaded EXCEPT ![c] = TRUE]
    ELSE /\ rdata' = [rdata EXCEPT ![c] = << >>]
         /\ rloaded' = [rloaded EXCEPT ![c] = FALSE]
         /\ UNCHANGED rseg

Closed(c) ==
    /\ ropen' = [ropen EXCEPT ![c] = FALSE]
    /\ rseg' = [rseg EXCEPT ![c] = 0]
    /\ roff' = [roff EXCEPT ![c] = 0]
    /\ rdata' = [rdata EXCEPT ![c] = << >>]
    /\ rloaded' = [rloaded EXCEPT ![c] = FALSE]
    /\ ravail' = [ravail EXCEPT ![c] = {}]
    /\ delivered' = [delivered EXCEPT ![c] = << >>]

-----------------------------------------------------------------------------
Init ==
    /\ WInit
    /\ ropen = [c \in Consumers |-> FALSE]
    /\ rseg = [c \in Consumers |-> 0]
    /\ roff = [c \in Consumers |-> 0]
    /\ rdata = [c \in Consumers |-> << >>]
    /\ rloaded = [c \in Consumers |-> FALSE]
    /\ ravail = [c \in Consumers |-> {}]
    /\ delivered = [c \in Consumers |-> << >>]

\* WalReader::open_from_start: at the earliest segment, whatever was committed.
OpenReaderFromStart(c) ==
    /\ ~ropen[c]
    /\ ropen' = [ropen EXCEPT ![c] = TRUE]
    /\ ravail' = [ravail EXCEPT ![c] = segments]
    /\ \E s \in SegIds :
        /\ IF segments = {} THEN s = 0 ELSE IsLeast(s, segments)
        /\ rseg' = [rseg EXCEPT ![c] = s]
        /\ rdata' = [rdata EXCEPT ![c] = bytes[s]]
        /\ rloaded' = [rloaded EXCEPT ![c] = s \in segments]
    /\ roff' = [roff EXCEPT ![c] = 0]
    /\ UNCHANGED << wvars, delivered >>

\* WalReader::open: at the committed position, else at the earliest segment.
OpenReader(c) ==
    /\ ~ropen[c]
    /\ ropen' = [ropen EXCEPT ![c] = TRUE]
    /\ ravail' = [ravail EXCEPT ![c] = segments]
    /\ \E s \in SegIds :
        /\ IF committed[c] # NoPosition THEN s = committed[c].seg
           ELSE IF segments = {} THEN s = 0 ELSE IsLeast(s, segments)
        /\ rseg' = [rseg EXCEPT ![c] = s]
        /\ rdata' = [rdata EXCEPT ![c] = bytes[s]]
        /\ rloaded' = [rloaded EXCEPT ![c] = s \in segments]
    /\ roff' = [roff EXCEPT ![c] = IF committed[c] # NoPosition THEN committed[c].off ELSE 0]
    /\ UNCHANGED << wvars, delivered >>

\* top_up_current_segment: nothing to do, the file grew, or it shrank.
TopUp(c) ==
    LET s == rseg[c]
        len == Len(bytes[s])
        prev == Len(rdata[c])
    IN  /\ IF s \notin segments \/ len = prev
           THEN UNCHANGED << roff, rdata >>
           ELSE IF len > prev
           THEN /\ rdata' = [rdata EXCEPT ![c] = @ \o SubSeq(bytes[s], prev + 1, len)]
                /\ UNCHANGED roff
           ELSE /\ rdata' = [rdata EXCEPT ![c] = bytes[s]]
                /\ roff' = [roff EXCEPT ![c] = IF @ > len THEN len ELSE @]
        /\ UNCHANGED << rseg, rloaded >>

\* Faulty variant: the next segment may be the current one.
AdvanceToSame(c) ==
    LET later == {s \in segments : s >= rseg[c]}
    IN  /\ ravail' = [ravail EXCEPT ![c] = segments]
        /\ IF later # {}
           THEN /\ \E s \in later : IsLeast(s, later) /\ LoadSegment(c, s)
                /\ roff' = [roff EXCEPT ![c] = 0]
           ELSE TopUp(c)

\* advance_segment: on to the next segment there is, else top up this one.
Advance(c) ==
    LET later == {s \in segments : s > rseg[c]}
    IN  /\ ravail' = [ravail EXCEPT ![c] = segments]
        /\ IF later # {}
           THEN /\ \E s \in later : IsLeast(s, later) /\ LoadSegment(c, s)
                /\ roff' = [roff EXCEPT ![c] = 0]
           ELSE TopUp(c)

\* Faulty variant: an unloaded reader never looks again.
ReloadNever(c) == UNCHANGED << rseg, roff, rdata, rloaded, ravail >>

\* reload_when_unloaded.
Reload(c) ==
    /\ ravail' = [ravail EXCEPT ![c] = segments]
    /\ IF segments # {} /\ \A s \in segments : rseg[c] < s
       THEN /\ \E s \in segments : IsLeast(s, segments) /\ LoadSegment(c, s)
            /\ roff' = [roff EXCEPT ![c] = 0]
       ELSE LoadSegment(c, rseg[c]) /\ UNCHANGED roff

\* One round of the loop of WalReader::next.
Deliver(c) ==
    /\ ropen[c] /\ rloaded[c]
    /\ \E o \in ReadRecordAt(rdata[c], roff[c]) :
        /\ o.kind = "record"
        /\ roff' = [roff EXCEPT ![c] = o.next]
        /\ delivered' = [delivered EXCEPT ![c] =
                            Append(@, [rec |-> o.rec, seg |-> rseg[c]])]
    /\ UNCHANGED << wvars, ropen, rseg, rdata, rloaded, ravail >>

SkipCorrupt(c) ==
    /\ ropen[c] /\ rloaded[c]
    /\ \E o \in ReadRecordAt(rdata[c], roff[c]) :
        /\ o.kind = "crc"
        /\ roff' = [roff EXCEPT ![c] = o.next]
    /\ UNCHANGED << wvars, ropen, rseg, rdata, rloaded, ravail, delivered >>

\* Faulty variant: past an incomplete frame the offset jumps to the end of cache.
PollEndJumping(c) ==
    /\ ropen[c] /\ rloaded[c]
    /\ \E o \in ReadRecordAt(rdata[c], roff[c]) :
        \/ o.kind = "end" /\ Advance(c)
        \/ /\ o.kind = "truncated"
           /\ roff' = [roff EXCEPT ![c] = Len(rdata[c])]
           /\ UNCHANGED << rseg, rdata, rloaded, ravail >>
    /\ UNCHANGED << wvars, ropen, delivered >>

PollEnd(c) ==
    /\ ropen[c] /\ rloaded[c]
    /\ \E o \in ReadRecordAt(rdata[c], roff[c]) : o.kind \in {"end", "truncated"}
    /\ Advance(c)
    /\ UNCHANGED << wvars, ropen, delivered >>

PollUnloaded(c) ==
    /\ ropen[c] /\ ~rloaded[c]
    /\ Reload(c)
    /\ UNCHANGED << wvars, ropen, delivered >>

\* WalReader::commit_position: write a temporary file, fsync, rename.
Commit(c) ==
    /\ ropen[c]
    /\ committed' = [committed EXCEPT ![c] = [seg |-> rseg[c], off |-> roff[c]]]
    /\ UNCHANGED << disk, proc, nextRec, exits, powerLosses, rvars >>

\* The consumer's process ends.
CloseReader(c) ==
    /\ ropen[c]
    /\ Closed(c)
    /\ UNCHANGED wvars

\* A power loss takes every process down.
MachinePowerLoss ==
    /\ PowerLoss
    /\ ropen' = [c \in Consumers |-> FALSE]
    /\ rseg' = [c \in Consumers |-> 0]
    /\ roff' = [c \in Consumers |-> 0]
    /\ rdata' = [c \in Consumers |-> << >>]
    /\ rloaded' = [c \in Consumers |-> FALSE]
    /\ ravail' = [c \in Consumers |-> {}]
    /\ delivered' = [c \in Consumers |-> << >>]

Poll(c) == Deliver(c) \/ SkipCorrupt(c) \/ PollEnd(c) \/ PollUnloaded(c)

Reader(c) == OpenReader(c) \/ Poll(c) \/ Commit(c) \/ CloseReader(c)

Next ==
    \/ WNext /\ UNCHANGED rvars
    \/ \E c \in Consumers : Reader(c)
    \/ MachinePowerLoss

Spec == Init /\ [][Next]_vars

\* The writer's flush timer fires between any two prunes, the consumers' poll
\* timers keep firing, and a rotation or prune under way runs to its end.
Fairness ==
    /\ SF_vars(Flush /\ UNCHANGED rvars)
    /\ WF_vars((RotateCreate \/ RotateAppend \/ OpenSyncDir) /\ UNCHANGED rvars)
    /\ WF_vars((PruneStep \/ PruneEnd) /\ UNCHANGED rvars)
    /\ \A c \in Consumers : WF_vars(Poll(c))

FairSpec == Spec /\ Fairness

-----------------------------------------------------------------------------
\* Types of the writer's state; a rotation under way has a record to append.
WriterTypeOK ==
    /\ segments \subseteq SegIds
    /\ bytes \in [SegIds -> Seq(Unit)]
    /\ synced \in [SegIds -> Nat]
    /\ entryDurable \subseteq SegIds
    /\ committed \in [Consumers -> Position \cup {NoPosition}]
    /\ wpc \in {"none", "opening", "idle", "sealed", "created", "pruning"}
    /\ active \in SegIds
    /\ nextId \in IF wpc = "none" THEN {0} ELSE 1..MaxSeg + 1
    /\ buf \in Seq(Unit)
    /\ pruneTo \in SegIds
    /\ listed \subseteq Consumers
    /\ nextRec \in IF wpc \in {"sealed", "created"} THEN Records ELSE 1..MaxRec + 1
    /\ exits \in Nat
    /\ powerLosses \in Nat

\* Types of the readers' state.
ReadersTypeOK ==
    /\ ropen \in [Consumers -> BOOLEAN]
    /\ rseg \in [Consumers -> SegIds]
    /\ roff \in [Consumers -> Nat]
    /\ rdata \in [Consumers -> Seq(Unit)]
    /\ rloaded \in [Consumers -> BOOLEAN]
    /\ ravail \in [Consumers -> SUBSET SegIds]
    /\ delivered \in [Consumers -> Seq(Delivery)]

\* Types of the writer's and the readers' state.
TypeOK == WriterTypeOK /\ ReadersTypeOK

\* rotate seals a segment with fdatasync before it creates the next one: a
\* segment that is not the last one never holds a byte a power loss can take.
SealedSynced ==
    \A s \in segments : ~IsLatest(s) => synced[s] = Len(bytes[s])

\* After open_append's torn-tail recovery, and through spills, flushes and
\* rotations, file and buffer together are a run of intact frames: no later
\* append can be read through a stale length field.
AppendsOnFrameBoundary ==
    wpc # "none" => WellFramed(bytes[active] \o buf)

\* What fdatasync covered ends on a frame boundary, whatever crashes follow.
SyncedIntact ==
    \A s \in segments : /\ synced[s] <= Len(bytes[s])
                        /\ WellFramed(SubSeq(bytes[s], 1, synced[s]))

\* What one step may do to a segment that is synced and whose directory entry is
\* durable: keep its synced bytes, or, while pruning, remove it as a whole.
KeepsDurable(s) ==
    \/ /\ s \in entryDurable'
       /\ synced[s] <= synced'[s]
       /\ SubSeq(bytes'[s], 1, synced[s]) = SubSeq(bytes[s], 1, synced[s])
    \/ wpc = "pruning" /\ s < pruneTo

\* Synced bytes of a segment whose directory entry is durable outlive every
\* step of writer, consumers, kills and power losses (the torn-tail recovery of
\* the next writer included); only prune removes them, with the whole segment.
DurableKept == [][\A s \in entryDurable : KeepsDurable(s)]_vars

\* prune deletes nothing that a consumer whose position file it was given still
\* has to read, though that consumer goes on reading and committing meanwhile.
PruneSparesListed ==
    [][PruneStep =>
          \A s \in segments \ segments', c \in listed : s < committed[c].seg]_vars

\* A committed position never moves to an earlier segment: prune relies on it
\* when it works from positions it read some time ago.
CommitNeverRetreats ==
    [][\A c \in Consumers : committed[c].seg <= committed'[c].seg]_vars

\* While one writer lives, global_offset never decreases, and every append
\* moves it: checkpoints are ordered against records by it.
GlobalOffsetGrows ==
    [][wpc # "none" /\ wpc' # "none" =>
          /\ GlobalOffset <= GlobalOffset'
          /\ nextRec # nextRec' => GlobalOffset < GlobalOffset']_vars

\* A reader returns records in the order they were appended and none twice,
\* over segment changes, reloads after truncation and skipped frames.
DeliveredInOrder ==
    \A c \in Consumers : \A i, j \in DOMAIN delivered[c] :
        i < j => delivered[c][i].rec < delivered[c][j].rec

\* No writer has ended and no power was lost so far.
Undisturbed == exits = 0 /\ powerLosses = 0

\* Of one segment a reader returns consecutive records, however the polls fall
\* between the writer's spills and flushes: it leaves none out between two.
ReadsWithoutGap ==
    \A c \in Consumers : \A i \in 1..Len(delivered[c]) - 1 :
        LET a == delivered[c][i]
            b == delivered[c][i + 1]
        IN  a.seg = b.seg => ~\E r \in RecordsIn(bytes[a.seg]) : a.rec < r /\ r < b.rec

NoGapWithinSegment == Undisturbed => ReadsWithoutGap

\* A reader leaves out no record that is still in the WAL.
NoRecordSkipped ==
    \A c \in Consumers : \A i \in 1..Len(delivered[c]) - 1 :
        \A s \in segments : \A r \in RecordsIn(bytes[s]) :
            ~(delivered[c][i].rec < r /\ r < delivered[c][i + 1].rec)

\* The position of an open reader, and the one it would resume from, is a frame
\* boundary of the segment it names: what is appended there later is parsed from
\* a header on.
OnBoundary(s, off) == off <= Len(bytes[s]) /\ WellFramed(SubSeq(bytes[s], 1, off))

PositionsOnBoundary ==
    Undisturbed => \A c \in Consumers :
        /\ ropen[c] /\ rseg[c] \in segments => OnBoundary(rseg[c], roff[c])
        /\ committed[c].seg \in segments => OnBoundary(committed[c].seg, committed[c].off)

\* Once the writer has no more records, every reader that stays open comes to
\* the end of the log: no tail of the active segment stays unread.
AtEndOfLog(c) ==
    segments # {} => IsLatest(rseg[c]) /\ roff[c] = Len(bytes[rseg[c]])

CatchesUp ==
    []Undisturbed => \A c \in Consumers : <>[]ropen[c] => <>[]AtEndOfLog(c)

(***************************************************************************)
(* Refinement: the log is what the segments and the writer's buffer hold   *)
(* intact, its durable part what a power loss would leave of it.           *)
(***************************************************************************)
Intact(d) == RecordsIn(SubSeq(d, 1, CHOOSE n \in 0..Len(d) : IsValidEnd(d, n)))

LogRecords ==
    UNION {Intact(IF wpc # "none" /\ s = active THEN bytes[s] \o buf ELSE bytes[s]) :
              s \in segments}

DurableRecords == UNION {Intact(SubSeq(bytes[s], 1, synced[s])) : s \in entryDurable}

Abstract == INSTANCE DurableLog WITH log <- LogRecords, durable <- DurableRecords,
                                     next <- nextRec

\* The WAL implements the durable log: crashes and recoveries lose a suffix that
\* was not durable and nothing else, prune loses a prefix.
ImplementsDurableLog == Abstract!Spec
=============================================================================
