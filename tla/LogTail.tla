-------------------------------- MODULE LogTail --------------------------------
(***************************************************************************)
(* What a process that tails the WAL sees of it (pb-wal/src/reader.rs),    *)
(* record by record: module Wal has the frames, the crashes and the torn   *)
(* tails.  Record i of the log is in segment (i - 1) \div PerSeg, so that  *)
(* global offsets are numbers of records.                                  *)
(***************************************************************************)
EXTENDS Integers

CONSTANT PerSeg  \* the records a segment takes

ASSUME LogTailAssumption == PerSeg \in Nat \ {0}

VARIABLES
    written,   \* how many records are in the segment files, or were
    first,     \* the earliest segment that is not pruned
    committed, \* the position file of consumer serve-live
    rd         \* the reader at work: where it is, what it has in memory

logVars == << written, first, committed >>

NoPosition == [seg |-> -1, off |-> 0]
NotLoaded == -1
NoReader == [seg |-> 0, off |-> 0, have |-> NotLoaded, earliest |-> 0]

\* The segment the writer appends to.
LastSeg == IF written = 0 THEN 0 ELSE (written - 1) \div PerSeg

InSegment(s) == IF written < (s + 1) * PerSeg THEN written - s * PerSeg ELSE PerSeg

\* global_offset, and hydration's current_global.
Global(p) == p.seg * PerSeg + p.off

Exists(s) == first <= s /\ s <= LastSeg

\* load_segment: the whole file, or nothing.
Load(s) == IF Exists(s) THEN InSegment(s) ELSE NotLoaded

LogInit ==
    /\ written = 0
    /\ first = 0
    /\ committed = NoPosition
    /\ rd = NoReader

\* prune_with_backpressure: segments before the active one, and before the
\* committed position if there is one.  The retention window is any.
PruneTo(s) ==
    /\ first < s /\ s <= LastSeg
    /\ committed # NoPosition => s <= committed.seg
    /\ first' = s

\* open_at, and open at the committed position.
ReaderAt(p) == [seg |-> p.seg, off |-> p.off, have |-> Load(p.seg), earliest |-> first]

\* open, where no position was committed.
ReaderAtEarliest == ReaderAt([seg |-> first, off |-> 0])

\* needs_resync, from the listing of the last open or advance.
NeedsResync == rd.seg < rd.earliest

\* next has a whole record in memory.
HasRecord == rd.have > rd.off

Index == Global(rd) + 1

Deliver == rd' = [rd EXCEPT !.off = @ + 1]

\* Faulty variant: the reader never enters the active segment.
MovesToClosed == IF rd.have = NotLoaded THEN rd.seg < first ELSE rd.seg + 1 < LastSeg

\* advance_segment goes on to a later segment; reload_when_unloaded, to the
\* earliest one if its own is gone.
MovesTo == IF rd.have = NotLoaded THEN rd.seg < first ELSE rd.seg < LastSeg

NextSeg == IF rd.have # NotLoaded /\ rd.seg + 1 > first THEN rd.seg + 1 ELSE first

\* The records a move passes over unread.
PassedOver == Global(rd) + 1 .. NextSeg * PerSeg

Move ==
    /\ ~HasRecord /\ MovesTo
    /\ rd' = ReaderAt([seg |-> NextSeg, off |-> 0])

\* top_up_current_segment, or the segment that was not there yet.
Grow ==
    /\ ~HasRecord /\ ~MovesTo
    /\ Load(rd.seg) > rd.have
    /\ rd' = [rd EXCEPT !.have = Load(rd.seg), !.earliest = first]

\* next returns None.
AtEnd ==
    /\ ~HasRecord /\ ~MovesTo
    /\ Load(rd.seg) <= rd.have
    /\ rd' = [rd EXCEPT !.earliest = first]

CommitPosition == committed' = [seg |-> rd.seg, off |-> rd.off]
================================================================================
