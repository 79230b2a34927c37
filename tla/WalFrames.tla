------------------------------ MODULE WalFrames ------------------------------
(***************************************************************************)
(* The on-disk format of a WAL segment (pb-wal/src/segment.rs).  A segment *)
(* is a sequence of units.  The frame of record r is one header unit       *)
(* (length and CRC, which covers length and payload) followed by           *)
(* PayloadLen[r] payload units.  A unit names the record it was written    *)
(* for, so "the CRC matches" is "every unit of the frame is that record's".*)
(* Zero is what an OS crash leaves in a page that was never written back.  *)
(***************************************************************************)
EXTENDS Naturals, Sequences

CONSTANTS
    MaxRec,     \* bound: the records appended are 1..MaxRec, in this order
    PayloadLen  \* PayloadLen[r]: how many units the payload of r takes

ASSUME FramesAssumption ==
    /\ MaxRec \in Nat \ {0}
    /\ PayloadLen \in [1..MaxRec -> Nat \ {0}]

Records == 1..MaxRec

Unit == [rec : 0..MaxRec, part : Nat]

Zero == [rec |-> 0, part |-> 0]

FrameLen(r) == 1 + PayloadLen[r]

Frame(r) == [i \in 1..FrameLen(r) |-> [rec |-> r, part |-> i - 1]]

IsHeader(u) == u.rec # 0 /\ u.part = 0

IsLast(u) == u.rec # 0 /\ u.part = PayloadLen[u.rec]

\* v may stand right after u in a run of intact frames.
Follows(u, v) ==
    IF IsLast(u) THEN IsHeader(v) ELSE v = [rec |-> u.rec, part |-> u.part + 1]

\* d is a run of intact frames and nothing else.
WellFramed(d) ==
    d # << >> => /\ IsHeader(d[1])
                 /\ IsLast(d[Len(d)])
                 /\ \A i \in 1..Len(d) - 1 : Follows(d[i], d[i + 1])

\* Faulty variant: the file length is trusted, torn tail or not.
IsValidEndUnchecked(d, n) == n = Len(d)

\* scan_valid_end: n is the end of the last contiguous valid frame of d.
IsValidEnd(d, n) ==
    /\ WellFramed(SubSeq(d, 1, n))
    /\ \A m \in n + 1..Len(d) : ~WellFramed(SubSeq(d, 1, m))

\* The records whose frames stand complete in d, at any offset.
RecordsIn(d) ==
    {r \in Records : \E o \in 0..Len(d) - FrameLen(r) :
                        SubSeq(d, o + 1, o + FrameLen(r)) = Frame(r)}

(***************************************************************************)
(* read_record_at: what a reader makes of the bytes d at offset o.  A      *)
(* payload unit where a header should be is parsed as one all the same:    *)
(* its length field is garbage, so every outcome but a valid record is     *)
(* possible.                                                               *)
(***************************************************************************)
AtEnd        == [kind |-> "end", rec |-> 0, next |-> 0]
Truncated    == [kind |-> "truncated", rec |-> 0, next |-> 0]
CrcBad(n)    == [kind |-> "crc", rec |-> 0, next |-> n]
Found(r, n)  == [kind |-> "record", rec |-> r, next |-> n]

ReadRecordAt(d, o) ==
    IF o >= Len(d) \/ d[o + 1] = Zero
    THEN {AtEnd}
    ELSE IF ~IsHeader(d[o + 1])
    THEN {AtEnd, Truncated} \cup {CrcBad(n) : n \in o + 2..Len(d)}
    ELSE LET r == d[o + 1].rec
             n == o + FrameLen(r)
         IN  IF n > Len(d) THEN {Truncated}
             ELSE IF SubSeq(d, o + 1, n) = Frame(r) THEN {Found(r, n)}
             ELSE {CrcBad(n)}
=============================================================================
