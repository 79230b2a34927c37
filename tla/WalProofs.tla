------------------------------ MODULE WalProofs ------------------------------
(***************************************************************************)
(* Proofs about Wal, for every number of records, segments and consumers,  *)
(* every segment size and retention window, and any number of crashes:     *)
(* what the writer keeps on disk, and that it implements the durable log   *)
(* (DurableLog): the records the WAL holds intact are a run of what was    *)
(* appended, in which the durable ones come first.  Then what those who    *)
(* use it rely on: prune its positions, checkpoints its offsets, consumers *)
(* its readers, which return the records in order and, where nothing       *)
(* disturbs them, all of a segment.                                        *)
(***************************************************************************)
EXTENDS Wal, SequenceTheorems, WellFoundedInduction, TLAPS

-----------------------------------------------------------------------------
(* Frames and runs of frames.                                               *)

\* A frame is a nonempty run of one intact frame.
LEMMA FrameFacts ==
    ASSUME NEW r \in Records
    PROVE  /\ FrameLen(r) \in Nat \ {0, 1}
           /\ Frame(r) \in Seq(Unit)
           /\ Len(Frame(r)) = FrameLen(r)
           /\ WellFramed(Frame(r))
<1>1. FrameLen(r) \in Nat \ {0, 1} /\ PayloadLen[r] \in Nat \ {0} /\ r # 0
    BY FramesAssumption DEF Records, FrameLen
<1>2. Frame(r) \in [1..FrameLen(r) -> Unit]
    BY <1>1 DEF Frame, Unit, Records
<1>3. Frame(r) \in Seq(Unit) /\ Len(Frame(r)) = FrameLen(r)
    BY <1>1, <1>2, SeqDef
<1>4. \A i \in 1..FrameLen(r) : Frame(r)[i] = [rec |-> r, part |-> i - 1]
    BY DEF Frame
<1>5. /\ Frame(r)[1] = [rec |-> r, part |-> 0]
      /\ Frame(r)[FrameLen(r)] = [rec |-> r, part |-> PayloadLen[r]]
    BY <1>1, <1>4 DEF FrameLen
<1>6. IsHeader(Frame(r)[1]) /\ IsLast(Frame(r)[Len(Frame(r))])
    BY <1>1, <1>3, <1>5 DEF IsHeader, IsLast
<1>7. ASSUME NEW i \in 1..Len(Frame(r)) - 1
      PROVE  Follows(Frame(r)[i], Frame(r)[i + 1])
    <2>1. /\ Frame(r)[i] = [rec |-> r, part |-> i - 1]
          /\ Frame(r)[i + 1] = [rec |-> r, part |-> i]
          /\ i - 1 # PayloadLen[r] /\ (i - 1) + 1 = i
        BY <1>1, <1>3, <1>4 DEF FrameLen
    <2> QED
        BY <2>1 DEF Follows, IsLast
<1>8. WellFramed(Frame(r))
    BY <1>6, <1>7 DEF WellFramed
<1> QED
    BY <1>1, <1>3, <1>8

\* Runs of frames put end to end are a run of frames.
LEMMA WellFramedConcat ==
    ASSUME NEW d \in Seq(Unit), NEW e \in Seq(Unit), WellFramed(d), WellFramed(e)
    PROVE  WellFramed(d \o e)
<1> DEFINE f == d \o e
<1>1. /\ f \in Seq(Unit)
      /\ Len(f) = Len(d) + Len(e)
      /\ \A i \in 1..Len(d) + Len(e) : f[i] = IF i <= Len(d) THEN d[i] ELSE e[i - Len(d)]
    BY ConcatProperties
<1>2. CASE d = << >>
    BY <1>2, ConcatEmptySeq
<1>3. CASE e = << >>
    BY <1>3, ConcatEmptySeq
<1>4. CASE d # << >> /\ e # << >>
    <2>1. Len(d) \in Nat \ {0} /\ Len(e) \in Nat \ {0}
        BY <1>4, EmptySeq
    <2>2. IsHeader(f[1]) /\ IsLast(f[Len(f)])
        BY <1>1, <1>4, <2>1 DEF WellFramed
    <2>3. ASSUME NEW i \in 1..Len(f) - 1
          PROVE  Follows(f[i], f[i + 1])
        <3>1. CASE i < Len(d)
            BY <1>1, <1>4, <2>1, <3>1 DEF WellFramed
        <3>2. CASE i = Len(d)
            BY <1>1, <1>4, <2>1, <3>2 DEF WellFramed, Follows
        <3>3. CASE i > Len(d)
            <4>1. i - Len(d) \in 1..Len(e) - 1 /\ (i + 1) - Len(d) = (i - Len(d)) + 1
                BY <1>1, <2>1, <3>3
            <4> QED
                BY <1>1, <1>4, <2>1, <3>3, <4>1 DEF WellFramed
        <3> QED
            BY <1>1, <2>1, <3>1, <3>2, <3>3
    <2> QED
        BY <2>2, <2>3 DEF WellFramed
<1> QED
    BY <1>2, <1>3, <1>4

\* What a prefix of a sequence is, the empty one included.
LEMMA PrefixFacts ==
    ASSUME NEW d \in Seq(Unit), NEW n \in 0..Len(d)
    PROVE  /\ SubSeq(d, 1, n) \in Seq(Unit)
           /\ Len(SubSeq(d, 1, n)) = n
           /\ \A i \in 1..n : SubSeq(d, 1, n)[i] = d[i]
<1>1. \A i \in 1..n : d[i] \in Unit
    BY ElementOfSeq
<1> QED
    BY <1>1, SubSeqProperties

\* Sequences that agree up to n have the same prefix of length n.
LEMMA SamePrefix ==
    ASSUME NEW d \in Seq(Unit), NEW e \in Seq(Unit), NEW n \in Nat,
           n <= Len(d), n <= Len(e), \A i \in 1..n : d[i] = e[i]
    PROVE  SubSeq(d, 1, n) = SubSeq(e, 1, n)
<1>1. n \in 0..Len(d) /\ n \in 0..Len(e)
    OBVIOUS
<1> QED
    BY <1>1, PrefixFacts, SeqEqual

\* Appending leaves what is synced of a file as it is.
LEMMA PrefixOfConcat ==
    ASSUME NEW d \in Seq(Unit), NEW e \in Seq(Unit), NEW n \in 0..Len(d)
    PROVE  SubSeq(d \o e, 1, n) = SubSeq(d, 1, n)
<1>1. /\ d \o e \in Seq(Unit)
      /\ n <= Len(d \o e)
      /\ \A i \in 1..n : (d \o e)[i] = d[i]
    BY ConcatProperties
<1> QED
    BY <1>1, SamePrefix

\* A prefix of what a power loss leaves is a prefix of the file there was.
LEMMA PrefixOfPrefix ==
    ASSUME NEW d \in Seq(Unit), NEW n \in 0..Len(d), NEW m \in 0..n
    PROVE  SubSeq(SubSeq(d, 1, n), 1, m) = SubSeq(d, 1, m)
<1> DEFINE e == SubSeq(d, 1, n)
<1>1. e \in Seq(Unit) /\ Len(e) = n /\ \A i \in 1..n : e[i] = d[i]
    BY PrefixFacts
<1> HIDE DEF e
<1>2. SubSeq(e, 1, m) = SubSeq(d, 1, m)
    BY <1>1, SamePrefix
<1> QED
    BY <1>2 DEF e

\* Any part of a file is bytes, as what a reader tops up or the writer spills.
LEMMA PartFacts ==
    ASSUME NEW d \in Seq(Unit), NEW m \in 1..Len(d) + 1, NEW n \in 0..Len(d)
    PROVE  SubSeq(d, m, n) \in Seq(Unit)
<1>1. \A i \in m..n : d[i] \in Unit
    BY ElementOfSeq
<1> QED
    BY <1>1, SubSeqProperties

\* Cutting a sequence in two and joining the parts gives the sequence.
LEMMA CutAndJoin ==
    ASSUME NEW d \in Seq(Unit), NEW e \in Seq(Unit), NEW n \in 0..Len(e)
    PROVE  (d \o SubSeq(e, 1, n)) \o SubSeq(e, n + 1, Len(e)) = d \o e
<1>1. PICK a \in Seq(Unit) : a = SubSeq(e, 1, n)
    BY PrefixFacts
<1>2. PICK b \in Seq(Unit) : b = SubSeq(e, n + 1, Len(e))
    <2>1. n + 1 \in 1..Len(e) + 1 /\ Len(e) \in 0..Len(e)
        BY LenProperties
    <2>2. SubSeq(e, n + 1, Len(e)) \in Seq(Unit)
        BY <2>1, PartFacts
    <2> QED
        BY <2>2
<1>3. Len(a) = n /\ \A i \in 1..n : a[i] = e[i]
    BY <1>1, PrefixFacts
<1>4. Len(b) = Len(e) - n /\ \A i \in 1..Len(e) - n : b[i] = e[n + i]
    BY <1>2, SubSeqProperties, ElementOfSeq
<1>5. PICK f \in Seq(Unit) : f = a \o b
    BY ConcatProperties
<1>6. /\ Len(f) = Len(e)
      /\ \A i \in 1..Len(e) : f[i] = IF i <= n THEN a[i] ELSE b[i - n]
    BY <1>3, <1>4, <1>5, ConcatProperties
<1>7. ASSUME NEW i \in 1..Len(e)
      PROVE  f[i] = e[i]
    <2>1. i > n => i - n \in 1..Len(e) - n /\ n + (i - n) = i
        OBVIOUS
    <2> QED
        BY <1>3, <1>4, <1>6, <2>1
<1>8. a \o b = e
    BY <1>5, <1>6, <1>7, SeqEqual
<1>9. (d \o a) \o b = d \o (a \o b)
    BY ConcatAssociative, SMTT(20)
<1> QED
    BY <1>1, <1>2, <1>8, <1>9

\* Any outcome of parsing is a legal offset, and a record if it says so.
LEMMA OutcomeFacts ==
    ASSUME NEW d \in Seq(Unit), NEW o \in Nat, NEW x \in ReadRecordAt(d, o)
    PROVE  /\ x.next \in Nat
           /\ x.kind = "record" => x.rec \in Records
<1>1. CASE o >= Len(d) \/ d[o + 1] = Zero \/ ~IsHeader(d[o + 1])
    BY <1>1 DEF ReadRecordAt, AtEnd, Truncated, CrcBad
<1>2. CASE ~(o >= Len(d) \/ d[o + 1] = Zero) /\ IsHeader(d[o + 1])
    <2> DEFINE r == d[o + 1].rec
    <2>1. d[o + 1] \in Unit
        BY <1>2, LenProperties
    <2>2. r \in Records
        BY <1>2, <2>1, FramesAssumption DEF Unit, IsHeader, Records
    <2>3. o + FrameLen(r) \in Nat
        BY <2>2, FrameFacts
    <2>4. x \in {Truncated, Found(r, o + FrameLen(r)), CrcBad(o + FrameLen(r))}
        BY <1>2 DEF ReadRecordAt
    <2> QED
        BY <2>2, <2>3, <2>4 DEF Truncated, Found, CrcBad
<1> QED
    BY <1>1, <1>2

\* What a power loss leaves of a segment: no shorter than its synced prefix, with
\* that prefix as it was, and beyond it nothing that was not there but zeroes.
LEMMA PowerLossFacts ==
    ASSUME NEW s \in SegIds, bytes[s] \in Seq(Unit), synced[s] \in Nat,
           NEW d \in PowerLossContents(s)
    PROVE  /\ d \in Seq(Unit)
           /\ synced[s] <= Len(d) /\ Len(d) <= Len(bytes[s])
           /\ \A i \in 1..synced[s] : d[i] = bytes[s][i]
           /\ \A i \in 1..Len(d) : d[i] = bytes[s][i] \/ d[i] = Zero
<1>1. PICK m \in synced[s]..Len(bytes[s]) : d \in Damaged(s, m)
    BY DEF PowerLossContents
<1>9. PICK kept \in SUBSET (synced[s] + 1..m) :
          d = [i \in 1..m |-> IF i <= synced[s] \/ i \in kept THEN bytes[s][i] ELSE Zero]
    BY <1>1 DEF Damaged
<1>2. m \in Nat /\ synced[s] <= m /\ m <= Len(bytes[s])
    BY LenProperties
<1>3. \A i \in 1..m : bytes[s][i] \in Unit
    BY <1>2, ElementOfSeq
<1>4. Zero \in Unit
    BY FramesAssumption DEF Zero, Unit
<1>5. d \in [1..m -> Unit]
    BY <1>9, <1>3, <1>4
<1>6. d \in Seq(Unit) /\ Len(d) = m
    BY <1>2, <1>5, SeqDef
<1> QED
    BY <1>9, <1>2, <1>6

-----------------------------------------------------------------------------
(* Type correctness.                                                        *)

\* What the assumptions say of sizes, segment ids and records.
LEMMA ConstantFacts ==
    /\ MaxRec \in Nat \ {0}
    /\ MaxSeg \in Nat
    /\ 0 \in SegIds
    /\ SegIds \subseteq Nat
    /\ Records \subseteq 1..MaxRec + 1
BY FramesAssumption, WriterAssumption DEF SegIds, Records

\* A writer that ended leaves well typed process state (exit, kill).
LEMMA NoProcessTypes ==
    NoProcess => /\ wpc' = "none" /\ active' \in SegIds /\ nextId' = 0
                 /\ buf' \in Seq(Unit) /\ pruneTo' \in SegIds /\ listed' \subseteq Consumers
BY ConstantFacts, EmptySeq DEF NoProcess

\* Every step of the writer keeps its types (WalWriter, Segment).
LEMMA WriterTypeStep == ASSUME TypeOK, WNext PROVE WriterTypeOK'
<1> USE ConstantFacts DEF TypeOK, WriterTypeOK
<1>1. CASE OpenCreate
    BY <1>1 DEF OpenCreate
<1>2. CASE OpenSyncDir
    BY <1>2 DEF OpenSyncDir
<1>3. CASE OpenAppend
    <2>1. PICK last \in segments :
             /\ \E n \in 0..Len(bytes[last]) :
                 /\ bytes' = [bytes EXCEPT ![last] = SubSeq(@, 1, n)]
                 /\ synced' = [synced EXCEPT ![last] = IF n < Len(bytes[last]) THEN n ELSE @]
             /\ active' = last
             /\ nextId' = last + 1
        BY <1>3 DEF OpenAppend
    <2>2. last \in SegIds /\ last + 1 \in 1..MaxSeg + 1
        BY DEF SegIds
    <2>3. PICK n \in 0..Len(bytes[last]) :
             /\ bytes' = [bytes EXCEPT ![last] = SubSeq(@, 1, n)]
             /\ synced' = [synced EXCEPT ![last] = IF n < Len(bytes[last]) THEN n ELSE @]
        BY <2>1
    <2>4. SubSeq(bytes[last], 1, n) \in Seq(Unit) /\ n \in Nat
        BY <2>2, PrefixFacts
    <2>5. bytes' \in [SegIds -> Seq(Unit)] /\ synced' \in [SegIds -> Nat]
        BY <2>2, <2>3, <2>4
    <2> QED
        BY <1>3, <2>1, <2>2, <2>5 DEF OpenAppend
<1>4. CASE Append1
    BY <1>4, FrameFacts, SMTT(20) DEF Append1, disk, Records
<1>5. CASE RotateSeal
    BY <1>5 DEF RotateSeal
<1>6. CASE RotateCreate
    BY <1>6, EmptySeq DEF RotateCreate, SegIds
<1>7. CASE RotateAppend
    BY <1>7, FrameFacts DEF RotateAppend, Records
<1>8. CASE Spill
    <2>1. PICK n \in 1..Len(buf) - 1 :
             /\ bytes' = [bytes EXCEPT ![active] = @ \o SubSeq(buf, 1, n)]
             /\ buf' = SubSeq(buf, n + 1, Len(buf))
        BY <1>8 DEF Spill
    <2>2. SubSeq(buf, 1, n) \in Seq(Unit) /\ SubSeq(buf, n + 1, Len(buf)) \in Seq(Unit)
        BY PartFacts
    <2>3. bytes' \in [SegIds -> Seq(Unit)]
        BY <2>1, <2>2
    <2> QED
        BY <1>8, <2>1, <2>2, <2>3 DEF Spill
<1>9. CASE Flush
    BY <1>9, EmptySeq DEF Flush
<1>10. CASE Sync
    BY <1>10, EmptySeq DEF Sync
<1>11. CASE PruneStart
    BY <1>11 DEF PruneStart, disk
<1>12. CASE PruneStep
    BY <1>12, EmptySeq DEF PruneStep, proc
<1>13. CASE PruneEnd
    BY <1>13 DEF PruneEnd, disk
<1>14. CASE Exit
    BY <1>14, NoProcessTypes, SMTT(20) DEF Exit
<1>15. CASE Kill
    BY <1>15, NoProcessTypes DEF Kill, disk
<1> QED
    BY <1>1, <1>2, <1>3, <1>4, <1>5, <1>6, <1>7, <1>8, <1>9, <1>10, <1>11, <1>12,
       <1>13, <1>14, <1>15 DEF WNext, Open, AppendRecord, Prune

\* A reader stands in a segment id, at an offset, on bytes.
LEMMA PositionTypes ==
    ASSUME TypeOK, NEW c \in Consumers
    PROVE  /\ rseg[c] \in SegIds /\ roff[c] \in Nat /\ rdata[c] \in Seq(Unit)
           /\ bytes[rseg[c]] \in Seq(Unit) /\ segments \subseteq SegIds
BY DEF TypeOK, WriterTypeOK, ReadersTypeOK

\* top_up_current_segment changes a reader's cache and offset within their types.
LEMMA TopUpTypes ==
    ASSUME TypeOK, NEW c \in Consumers, TopUp(c)
    PROVE  /\ roff' \in [Consumers -> Nat]
           /\ rdata' \in [Consumers -> Seq(Unit)]
           /\ rseg' = rseg /\ rloaded' = rloaded
<1> DEFINE s == rseg[c]
           len == Len(bytes[s])
           prev == Len(rdata[c])
<1>1. bytes[s] \in Seq(Unit) /\ rdata[c] \in Seq(Unit) /\ len \in Nat /\ prev \in Nat
    BY PositionTypes, LenProperties
<1>2. CASE len > prev
    <2>1. SubSeq(bytes[s], prev + 1, len) \in Seq(Unit)
        BY <1>1, <1>2, PartFacts
    <2>2. rdata[c] \o SubSeq(bytes[s], prev + 1, len) \in Seq(Unit)
        BY <1>1, <2>1, ConcatProperties
    <2> QED
        BY <1>2, <2>2 DEF TopUp, TypeOK, ReadersTypeOK
<1>3. CASE ~(len > prev)
    BY <1>1, <1>3 DEF TopUp, TypeOK, ReadersTypeOK
<1> QED
    BY <1>2, <1>3

\* load_segment gives bytes, also of a segment that was pruned.
LEMMA LoadSegmentTypes ==
    ASSUME TypeOK, NEW c \in Consumers, NEW s \in SegIds, LoadSegment(c, s)
    PROVE  /\ rseg' \in [Consumers -> SegIds]
           /\ rdata' \in [Consumers -> Seq(Unit)]
           /\ rloaded' \in [Consumers -> BOOLEAN]
<1>1. CASE s \in segments
    <2>1. bytes[s] \in Seq(Unit)
        BY DEF TypeOK, WriterTypeOK
    <2> QED
        BY <1>1, <2>1 DEF LoadSegment, TypeOK, ReadersTypeOK
<1>2. CASE s \notin segments
    <2>1. << >> \in Seq(Unit)
        BY EmptySeq
    <2>2. /\ rdata' = [rdata EXCEPT ![c] = << >>]
          /\ rloaded' = [rloaded EXCEPT ![c] = FALSE]
          /\ rseg' = rseg
        BY <1>2 DEF LoadSegment
    <2> QED
        BY <2>1, <2>2 DEF TypeOK, ReadersTypeOK
<1> QED
    BY <1>1, <1>2

\* Every step of a reader keeps the types (WalReader).
LEMMA ReaderTypeStep ==
    ASSUME TypeOK, NEW c \in Consumers, Reader(c) PROVE TypeOK'
<1> USE ConstantFacts
<1>1. CASE OpenReader(c)
    <2>1. committed[c] # NoPosition => committed[c].seg \in SegIds /\ committed[c].off \in Nat
        BY DEF TypeOK, WriterTypeOK, Position
    <2>2. PICK s \in SegIds : /\ rseg' = [rseg EXCEPT ![c] = s]
                             /\ rdata' = [rdata EXCEPT ![c] = bytes[s]]
                             /\ rloaded' = [rloaded EXCEPT ![c] = s \in segments]
        BY <1>1 DEF OpenReader
    <2>3. bytes[s] \in Seq(Unit) /\ (s \in segments) \in BOOLEAN
        BY DEF TypeOK, WriterTypeOK
    <2>4. /\ rseg' \in [Consumers -> SegIds]
          /\ rdata' \in [Consumers -> Seq(Unit)]
        BY <2>2, <2>3 DEF TypeOK, ReadersTypeOK
    <2>5. rloaded' \in [Consumers -> BOOLEAN]
        BY <2>2, <2>3, Zenon DEF TypeOK, ReadersTypeOK
    <2>6. /\ roff' \in [Consumers -> Nat]
          /\ ravail' \in [Consumers -> SUBSET SegIds]
          /\ ropen' \in [Consumers -> BOOLEAN]
        BY <1>1, <2>1 DEF OpenReader, TypeOK, WriterTypeOK, ReadersTypeOK
    <2> QED
        BY <1>1, <2>4, <2>5, <2>6 DEF OpenReader, TypeOK, WriterTypeOK, ReadersTypeOK, wvars
<1>2. CASE Deliver(c)
    <2>1. PICK o \in ReadRecordAt(rdata[c], roff[c]) :
             /\ o.kind = "record"
             /\ roff' = [roff EXCEPT ![c] = o.next]
             /\ delivered' = [delivered EXCEPT ![c] =
                                 Append(@, [rec |-> o.rec, seg |-> rseg[c]])]
        BY <1>2 DEF Deliver
    <2>2. o.next \in Nat /\ o.rec \in Records
        BY <2>1, PositionTypes, OutcomeFacts
    <2>3. [rec |-> o.rec, seg |-> rseg[c]] \in Delivery
        BY <2>2, PositionTypes DEF Delivery
    <2>4. Append(delivered[c], [rec |-> o.rec, seg |-> rseg[c]]) \in Seq(Delivery)
        BY <2>3, AppendProperties DEF TypeOK, ReadersTypeOK
    <2>5. delivered' \in [Consumers -> Seq(Delivery)] /\ roff' \in [Consumers -> Nat]
        BY <2>1, <2>2, <2>4 DEF TypeOK, ReadersTypeOK
    <2> QED
        BY <1>2, <2>5 DEF Deliver, TypeOK, WriterTypeOK, ReadersTypeOK, wvars
<1>3. CASE SkipCorrupt(c)
    <2>1. PICK o \in ReadRecordAt(rdata[c], roff[c]) : roff' = [roff EXCEPT ![c] = o.next]
        BY <1>3 DEF SkipCorrupt
    <2>2. o.next \in Nat
        BY <2>1, PositionTypes, OutcomeFacts
    <2> QED
        BY <1>3, <2>1, <2>2 DEF SkipCorrupt, TypeOK, WriterTypeOK, ReadersTypeOK, wvars
<1>4. CASE PollEnd(c)
    <2>1. Advance(c) /\ UNCHANGED << wvars, ropen, delivered >>
        BY <1>4 DEF PollEnd
    <2>2. ravail' \in [Consumers -> SUBSET SegIds]
        BY <2>1, PositionTypes DEF Advance, TypeOK, ReadersTypeOK
    <2>3. /\ roff' \in [Consumers -> Nat]
          /\ rseg' \in [Consumers -> SegIds]
          /\ rdata' \in [Consumers -> Seq(Unit)]
          /\ rloaded' \in [Consumers -> BOOLEAN]
        <3>1. CASE \E s \in segments : s > rseg[c]
            <4>1. PICK s \in segments : LoadSegment(c, s)
                BY <2>1, <3>1 DEF Advance
            <4>2. roff' = [roff EXCEPT ![c] = 0]
                BY <2>1, <3>1 DEF Advance
            <4>3. s \in SegIds
                BY PositionTypes
            <4> QED
                BY <4>1, <4>2, <4>3, LoadSegmentTypes DEF TypeOK, ReadersTypeOK
        <3>2. CASE ~\E s \in segments : s > rseg[c]
            BY <2>1, <3>2, TopUpTypes DEF Advance, TypeOK, ReadersTypeOK
        <3> QED
            BY <3>1, <3>2
    <2> QED
        BY <2>1, <2>2, <2>3 DEF TypeOK, WriterTypeOK, ReadersTypeOK, wvars
<1>5. CASE PollUnloaded(c)
    <2>1. Reload(c) /\ UNCHANGED << wvars, ropen, delivered >>
        BY <1>5 DEF PollUnloaded
    <2>2. ravail' \in [Consumers -> SUBSET SegIds] /\ roff' \in [Consumers -> Nat]
        BY <2>1, PositionTypes DEF Reload, TypeOK, ReadersTypeOK
    <2>3. PICK s \in SegIds : LoadSegment(c, s)
        BY <2>1, PositionTypes DEF Reload
    <2> QED
        BY <2>1, <2>2, <2>3, LoadSegmentTypes DEF TypeOK, WriterTypeOK, ReadersTypeOK, wvars
<1>6. CASE Commit(c)
    <2>1. [seg |-> rseg[c], off |-> roff[c]] \in Position
        BY PositionTypes DEF Position
    <2> QED
        BY <1>6, <2>1 DEF Commit, TypeOK, WriterTypeOK, ReadersTypeOK, disk, proc, rvars
<1>7. CASE CloseReader(c)
    BY <1>7, EmptySeq DEF CloseReader, Closed, TypeOK, WriterTypeOK, ReadersTypeOK, wvars
<1> QED
    BY <1>1, <1>2, <1>3, <1>4, <1>5, <1>6, <1>7 DEF Reader, Poll

\* What a power loss leaves of the directory, spelled out.
LEMMA PowerLossEffect ==
    ASSUME TypeOK, PowerLoss
    PROVE  \E last \in segments, gone \in SUBSET (segments \ entryDurable), d \in Seq(Unit) :
              /\ IsLatest(last)
              /\ \A s \in gone, t \in segments : s < t => t \in gone
              /\ segments' = segments \ gone
              /\ entryDurable' = segments'
              /\ bytes' = [s \in SegIds |-> IF s \in gone THEN << >>
                                            ELSE IF s = last THEN d ELSE bytes[s]]
              /\ synced' = [s \in SegIds |-> IF s \in gone THEN 0 ELSE synced[s]]
              /\ synced[last] <= Len(d) /\ Len(d) <= Len(bytes[last])
              /\ \A i \in 1..synced[last] : d[i] = bytes[last][i]
              /\ \A i \in 1..Len(d) : d[i] = bytes[last][i] \/ d[i] = Zero
<1>1. PICK gone \in SUBSET (segments \ entryDurable), last \in segments :
         /\ IsLatest(last)
         /\ \A s \in gone, t \in segments : s < t => t \in gone
         /\ segments' = segments \ gone
         /\ entryDurable' = segments'
         /\ \E d \in PowerLossContents(last) :
              bytes' = [s \in SegIds |-> IF s \in gone THEN << >>
                                         ELSE IF s = last THEN d ELSE bytes[s]]
         /\ synced' = [s \in SegIds |-> IF s \in gone THEN 0 ELSE synced[s]]
    BY DEF PowerLoss
<1>2. PICK d \in PowerLossContents(last) :
         bytes' = [s \in SegIds |-> IF s \in gone THEN << >>
                                    ELSE IF s = last THEN d ELSE bytes[s]]
    BY <1>1
<1>3. last \in SegIds /\ bytes[last] \in Seq(Unit) /\ synced[last] \in Nat
    BY DEF TypeOK, WriterTypeOK
<1>4. /\ d \in Seq(Unit)
      /\ synced[last] <= Len(d) /\ Len(d) <= Len(bytes[last])
      /\ \A i \in 1..synced[last] : d[i] = bytes[last][i]
      /\ \A i \in 1..Len(d) : d[i] = bytes[last][i] \/ d[i] = Zero
    BY <1>3, PowerLossFacts
<1> QED
    BY <1>1, <1>2, <1>4

\* A power loss keeps the types, whichever files and bytes it takes.
LEMMA PowerLossTypeStep == ASSUME TypeOK, MachinePowerLoss PROVE TypeOK'
<1>1. PICK last \in segments, gone \in SUBSET (segments \ entryDurable), d \in Seq(Unit) :
         /\ segments' = segments \ gone
         /\ entryDurable' = segments'
         /\ bytes' = [s \in SegIds |-> IF s \in gone THEN << >>
                                       ELSE IF s = last THEN d ELSE bytes[s]]
         /\ synced' = [s \in SegIds |-> IF s \in gone THEN 0 ELSE synced[s]]
    BY PowerLossEffect DEF MachinePowerLoss
<1>2. bytes' \in [SegIds -> Seq(Unit)] /\ synced' \in [SegIds -> Nat]
    BY <1>1, EmptySeq DEF TypeOK, WriterTypeOK
<1>3. /\ NoProcess /\ UNCHANGED << committed, nextRec, exits >>
      /\ powerLosses' = powerLosses + 1
    BY DEF MachinePowerLoss, PowerLoss
<1>4. WriterTypeOK'
    BY <1>1, <1>2, <1>3, NoProcessTypes, ConstantFacts, SMTT(20) DEF TypeOK, WriterTypeOK
<1>5. ReadersTypeOK'
    BY ConstantFacts, EmptySeq DEF MachinePowerLoss, ReadersTypeOK
<1> QED
    BY <1>4, <1>5 DEF TypeOK

\* Every step keeps the types.
LEMMA TypeStep == ASSUME TypeOK, [Next]_vars PROVE TypeOK'
<1>1. CASE WNext /\ UNCHANGED rvars
    BY <1>1, WriterTypeStep DEF TypeOK, ReadersTypeOK, rvars
<1>2. CASE \E c \in Consumers : Reader(c)
    BY <1>2, ReaderTypeStep
<1>3. CASE MachinePowerLoss
    BY <1>3, PowerLossTypeStep
<1>4. CASE UNCHANGED vars
    BY <1>4 DEF TypeOK, WriterTypeOK, ReadersTypeOK, vars, wvars, rvars
<1> QED
    BY <1>1, <1>2, <1>3, <1>4 DEF Next

\* An empty WAL directory is well typed.
LEMMA InitTypes == Init => TypeOK
BY ConstantFacts, EmptySeq
DEF Init, WInit, TypeOK, WriterTypeOK, ReadersTypeOK, NoPosition

\* Whatever writer, readers and crashes do, the WAL directory, the writer's
\* process state and the readers' cached positions keep their types.
THEOREM TypeCorrect == Spec => []TypeOK
<1>1. Init => TypeOK
    BY InitTypes
<1>2. TypeOK /\ [Next]_vars => TypeOK'
    BY TypeStep
<1> QED
    BY <1>1, <1>2, PTL DEF Spec

-----------------------------------------------------------------------------
(* Durability.  The three safety invariants are not inductive by            *)
(* themselves: that sealing fixes every segment but the last needs the      *)
(* active segment to be the last, and that the synced prefix survives the   *)
(* torn-tail recovery needs it to be a run of frames, which needs the       *)
(* buffer to continue the file at a frame boundary.                         *)

\* Files and directory entries.
FilesInv ==
    /\ entryDurable \subseteq segments
    /\ \A s \in SegIds \ segments : bytes[s] = << >> /\ synced[s] = 0

\* The writer process appends to the last segment; while it rotates, nothing
\* is buffered, and the segment it has just sealed is synced in full.
WriterInv ==
    /\ wpc # "none" => /\ active \in segments
                        /\ \A s \in segments : s <= active
                        /\ active < nextId
    /\ wpc \in {"none", "opening", "sealed", "created"} => buf = << >>
    /\ wpc = "sealed" => synced[active] = Len(bytes[active])

\* What is synced is a run of frames, and so is what the writer appends to.
SyncedInv ==
    /\ \A s \in SegIds : /\ synced[s] <= Len(bytes[s])
                          /\ WellFramed(SubSeq(bytes[s], 1, synced[s]))
    /\ \A s, t \in segments : s < t => synced[s] = Len(bytes[s])
    /\ wpc # "none" => WellFramed(bytes[active] \o buf)

DurInv == TypeOK /\ FilesInv /\ WriterInv /\ SyncedInv


\* The empty file is a run of frames: a segment that was just created.
LEMMA EmptyRun == WellFramed(<< >>) /\ << >> \in Seq(Unit) /\ Len(<< >>) = 0
BY EmptySeq DEF WellFramed

\* The types the durability argument reads off TypeOK.
LEMMA DurTypes ==
    ASSUME TypeOK
    PROVE  /\ segments \subseteq SegIds /\ segments \subseteq Nat
           /\ bytes \in [SegIds -> Seq(Unit)] /\ synced \in [SegIds -> Nat]
           /\ active \in SegIds /\ active \in Nat /\ nextId \in Nat
           /\ buf \in Seq(Unit) /\ Len(buf) \in Nat
           /\ \A s \in SegIds : bytes[s] \in Seq(Unit) /\ Len(bytes[s]) \in Nat
BY LenProperties DEF TypeOK, WriterTypeOK, SegIds

\* The synced prefix of a segment that gets longer stays what it is.
LEMMA GrownSegment ==
    ASSUME TypeOK, SyncedInv, NEW x \in Seq(Unit), NEW s \in SegIds
    PROVE  /\ bytes[s] \o x \in Seq(Unit)
           /\ Len(bytes[s] \o x) = Len(bytes[s]) + Len(x)
           /\ Len(x) \in Nat
           /\ SubSeq(bytes[s] \o x, 1, synced[s]) = SubSeq(bytes[s], 1, synced[s])
           /\ SubSeq(bytes[s] \o x, 1, Len(bytes[s]) + Len(x)) = bytes[s] \o x
<1>1. synced[s] \in 0..Len(bytes[s]) /\ bytes[s] \in Seq(Unit)
    BY DurTypes DEF SyncedInv
<1>2. bytes[s] \o x \in Seq(Unit) /\ Len(bytes[s] \o x) = Len(bytes[s]) + Len(x)
    BY <1>1, ConcatProperties
<1>3. SubSeq(bytes[s] \o x, 1, Len(bytes[s] \o x)) = bytes[s] \o x
    BY <1>2, SubSeqFull
<1> QED
    BY <1>1, <1>2, <1>3, PrefixOfConcat, LenProperties

\* When file and buffer are a run of frames, moving a part x of the buffer (the
\* rest of which is y) into the file disturbs nothing.
LEMMA MoveFromBuffer ==
    ASSUME DurInv, wpc # "none", NEW x \in Seq(Unit), NEW y \in Seq(Unit),
           (bytes[active] \o x) \o y = bytes[active] \o buf,
           bytes' = [bytes EXCEPT ![active] = @ \o x],
           synced' = synced, segments' = segments
    PROVE  /\ \A s \in SegIds \ segments' : bytes'[s] = << >> /\ synced'[s] = 0
           /\ \A s \in SegIds : /\ synced'[s] <= Len(bytes'[s])
                                 /\ WellFramed(SubSeq(bytes'[s], 1, synced'[s]))
           /\ \A s, t \in segments' : s < t => synced'[s] = Len(bytes'[s])
           /\ WellFramed(bytes'[active] \o y)
           /\ \A s \in SegIds : SubSeq(bytes'[s], 1, synced[s]) = SubSeq(bytes[s], 1, synced[s])
<1> USE DurTypes DEF DurInv, FilesInv, WriterInv, SyncedInv
<1>1. bytes'[active] = bytes[active] \o x /\ \A s \in SegIds \ {active} : bytes'[s] = bytes[s]
    OBVIOUS
<1>2. /\ synced[active] <= Len(bytes'[active])
      /\ SubSeq(bytes'[active], 1, synced[active]) = SubSeq(bytes[active], 1, synced[active])
    BY <1>1, GrownSegment
<1>3. \A s \in SegIds \ segments' : bytes'[s] = << >> /\ synced'[s] = 0
    BY <1>1
<1>4. \A s \in SegIds : /\ synced'[s] <= Len(bytes'[s])
                        /\ WellFramed(SubSeq(bytes'[s], 1, synced'[s]))
    BY <1>1, <1>2
<1>5. ASSUME NEW s \in segments', NEW t \in segments', s < t
      PROVE  synced'[s] = Len(bytes'[s])
    <2>1. s # active
        BY <1>5
    <2> QED
        BY <1>1, <1>5, <2>1
<1>6. WellFramed(bytes'[active] \o y)
    BY <1>1
<1>7. \A s \in SegIds : SubSeq(bytes'[s], 1, synced[s]) = SubSeq(bytes[s], 1, synced[s])
    BY <1>1, <1>2
<1> QED
    BY <1>3, <1>4, <1>5, <1>6, <1>7

\* What a step has to establish.
DurGoal == FilesInv' /\ WriterInv' /\ SyncedInv' /\ \A s \in entryDurable : KeepsDurable(s)

\* Opening keeps what is durable: creation, and recovery of a torn tail (WalWriter::open).
LEMMA OpenDurStep == ASSUME DurInv, Open PROVE DurGoal
<1> USE DurTypes DEF DurInv, DurGoal, FilesInv, WriterInv, SyncedInv, KeepsDurable
<1>1. CASE OpenCreate
    <2>1. /\ segments' = {0} /\ active' = 0 /\ nextId' = 1 /\ wpc' = "opening"
          /\ segments = {} /\ wpc = "none"
          /\ UNCHANGED << bytes, synced, entryDurable, buf >>
        BY <1>1 DEF OpenCreate
    <2>2. bytes[0] = << >> /\ buf = << >> /\ 0 \in SegIds
        BY <2>1, ConstantFacts
    <2>3. WellFramed(bytes[0] \o buf)
        BY <2>2, EmptyRun, ConcatEmptySeq
    <2> QED
        BY <2>1, <2>2, <2>3
<1>2. CASE OpenSyncDir
    BY <1>2 DEF OpenSyncDir
<1>3. CASE OpenAppend
    <2>1. PICK last \in segments :
             /\ IsLatest(last)
             /\ \E n \in 0..Len(bytes[last]) :
                 /\ IsValidEnd(bytes[last], n)
                 /\ bytes' = [bytes EXCEPT ![last] = SubSeq(@, 1, n)]
                 /\ synced' = [synced EXCEPT ![last] = IF n < Len(bytes[last]) THEN n ELSE @]
             /\ active' = last
             /\ nextId' = last + 1
        BY <1>3 DEF OpenAppend
    <2>2. PICK n \in 0..Len(bytes[last]) :
             /\ IsValidEnd(bytes[last], n)
             /\ bytes' = [bytes EXCEPT ![last] = SubSeq(@, 1, n)]
             /\ synced' = [synced EXCEPT ![last] = IF n < Len(bytes[last]) THEN n ELSE @]
        BY <2>1
    <2>3. /\ wpc = "none" /\ wpc' = "idle" /\ buf = << >>
          /\ UNCHANGED << segments, entryDurable, buf >>
        BY <1>3 DEF OpenAppend
    <2> DEFINE d == bytes[last]
               k == synced[last]
    <2>4. last \in SegIds /\ d \in Seq(Unit) /\ Len(d) \in Nat /\ k \in 0..Len(d)
        OBVIOUS
    \* the recovery keeps all of the synced prefix
    <2>5. k <= n
        <3>1. WellFramed(SubSeq(d, 1, k))
            BY <2>4
        <3>2. k \notin n + 1..Len(d)
            BY <2>2, <3>1 DEF IsValidEnd
        <3> QED
            BY <2>4, <3>2
    <2>6. /\ SubSeq(d, 1, n) \in Seq(Unit)
          /\ Len(SubSeq(d, 1, n)) = n
          /\ SubSeq(SubSeq(d, 1, n), 1, k) = SubSeq(d, 1, k)
          /\ SubSeq(SubSeq(d, 1, n), 1, n) = SubSeq(d, 1, n)
          /\ WellFramed(SubSeq(d, 1, n))
        BY <2>2, <2>4, <2>5, PrefixFacts, PrefixOfPrefix DEF IsValidEnd
    <2>7. /\ bytes'[last] = SubSeq(d, 1, n)
          /\ synced'[last] = IF n < Len(d) THEN n ELSE k
          /\ \A s \in SegIds \ {last} : bytes'[s] = bytes[s] /\ synced'[s] = synced[s]
        BY <2>2, <2>4
    <2>8. /\ synced'[last] <= Len(bytes'[last])
          /\ synced[last] <= synced'[last]
          /\ WellFramed(SubSeq(bytes'[last], 1, synced'[last]))
          /\ SubSeq(bytes'[last], 1, synced[last]) = SubSeq(bytes[last], 1, synced[last])
        <3>1. Len(bytes'[last]) = n
            BY <2>6, <2>7
        <3>2. SubSeq(bytes'[last], 1, synced[last]) = SubSeq(bytes[last], 1, synced[last])
            BY <2>6, <2>7
        <3>3. CASE n < Len(d)
            <4>1. synced'[last] = n
                BY <2>7, <3>3
            <4>2. SubSeq(bytes'[last], 1, synced'[last]) = SubSeq(d, 1, n)
                BY <2>6, <2>7, <4>1
            <4>3. WellFramed(SubSeq(bytes'[last], 1, synced'[last]))
                BY <2>6, <4>2
            <4>4. synced'[last] <= Len(bytes'[last]) /\ synced[last] <= synced'[last]
                BY <2>4, <2>5, <3>1, <4>1
            <4> QED
                BY <3>2, <4>3, <4>4
        <3>4. CASE n = Len(d)
            <4>1. synced'[last] = k
                BY <2>4, <2>7, <3>4
            <4>2. WellFramed(SubSeq(bytes'[last], 1, synced'[last]))
                BY <2>4, <2>6, <2>7, <4>1
            <4> QED
                BY <2>4, <2>5, <3>1, <3>2, <4>1, <4>2
        <3> QED
            BY <2>4, <3>3, <3>4
    <2>9. WellFramed(bytes'[active'] \o buf')
        BY <2>1, <2>3, <2>6, <2>7, ConcatEmptySeq
    <2>10. \A s \in segments : s <= last
        BY <2>1 DEF IsLatest
    <2>11. FilesInv'
        BY <2>3, <2>7
    <2>12. WriterInv'
        BY <2>1, <2>3, <2>4, <2>10
    <2>13. ASSUME NEW s \in segments', NEW t \in segments', s < t
           PROVE  synced'[s] = Len(bytes'[s])
        <3>1. s # last
            BY <2>3, <2>10, <2>13
        <3> QED
            BY <2>3, <2>7, <2>13, <3>1
    <2>14. SyncedInv'
        BY <2>7, <2>8, <2>9, <2>13
    <2>15. ASSUME NEW s \in entryDurable
           PROVE  KeepsDurable(s)
        <3>1. s \in entryDurable' /\ s \in SegIds /\ synced[s] \in Nat
            BY <2>3
        <3>2. CASE s = last
            BY <2>8, <3>1, <3>2
        <3>3. CASE s # last
            <4>1. bytes'[s] = bytes[s] /\ synced'[s] = synced[s]
                BY <2>7, <3>1, <3>3
            <4> HIDE DEF DurInv, DurGoal, FilesInv, WriterInv, SyncedInv
            <4> QED
                BY <3>1, <4>1 DEF KeepsDurable
        <3> QED
            BY <3>2, <3>3
    <2> QED
        BY <2>11, <2>12, <2>14, <2>15
<1> QED
    BY <1>1, <1>2, <1>3 DEF Open

\* The active segment and the buffer reach the file in full and are synced.
LEMMA SealDurStep ==
    ASSUME DurInv, wpc = "idle",
           bytes' = [bytes EXCEPT ![active] = @ \o buf],
           synced' = [synced EXCEPT ![active] = Len(bytes[active]) + Len(buf)],
           buf' = << >>, wpc' \in {"idle", "sealed"},
           UNCHANGED << segments, entryDurable, active, nextId >>
    PROVE  DurGoal
<1> USE DurTypes DEF DurInv, FilesInv, WriterInv, SyncedInv
<1> DEFINE d == bytes[active] \o buf
<1>1. /\ d \in Seq(Unit) /\ Len(d) = Len(bytes[active]) + Len(buf) /\ Len(d) \in Nat
      /\ SubSeq(d, 1, synced[active]) = SubSeq(bytes[active], 1, synced[active])
      /\ SubSeq(d, 1, Len(d)) = d /\ WellFramed(d)
      /\ synced[active] <= Len(d)
    BY GrownSegment
<1>2. /\ bytes'[active] = d /\ synced'[active] = Len(d)
      /\ \A s \in SegIds \ {active} : bytes'[s] = bytes[s] /\ synced'[s] = synced[s]
    BY <1>1
<1> HIDE DEF d
<1>3. FilesInv'
    BY <1>2
<1>4. WriterInv'
    BY <1>2
<1>5. ASSUME NEW s \in SegIds
      PROVE  /\ synced'[s] <= Len(bytes'[s])
             /\ WellFramed(SubSeq(bytes'[s], 1, synced'[s]))
    <2>1. CASE s = active
        <3>1. bytes'[s] = d /\ synced'[s] = Len(d)
            BY <1>2, <2>1
        <3>2. WellFramed(SubSeq(bytes'[s], 1, synced'[s]))
            BY <1>1, <3>1
        <3> QED
            BY <1>1, <3>1, <3>2
    <2>2. CASE s # active
        BY <1>2, <2>2
    <2> QED
        BY <2>1, <2>2
<1>6. \A s, t \in segments' : s < t => synced'[s] = Len(bytes'[s])
    BY <1>2
<1>7. WellFramed(bytes'[active'] \o buf')
    BY <1>1, <1>2, ConcatEmptySeq
<1>8. SyncedInv'
    BY <1>5, <1>6, <1>7
<1>9. ASSUME NEW s \in entryDurable
      PROVE  KeepsDurable(s)
    <2>1. s \in entryDurable' /\ s \in SegIds /\ synced[s] \in Nat
        OBVIOUS
    <2>2. CASE s = active
        BY <1>1, <1>2, <2>1, <2>2 DEF KeepsDurable
    <2>3. CASE s # active
        BY <1>2, <2>1, <2>3 DEF KeepsDurable
    <2> QED
        BY <2>2, <2>3
<1> QED
    BY <1>3, <1>4, <1>8, <1>9 DEF DurGoal

\* An append, with the rotation it may cause, keeps what is durable (WalWriter::append).
LEMMA AppendDurStep == ASSUME DurInv, AppendRecord PROVE DurGoal
<1> USE DurTypes DEF DurInv, FilesInv, WriterInv, SyncedInv
<1>1. CASE Append1
    <2>1. /\ wpc = "idle" /\ wpc' = "idle" /\ nextRec \in Records
          /\ buf' = buf \o Frame(nextRec)
          /\ UNCHANGED << segments, bytes, synced, entryDurable, active, nextId >>
        BY <1>1 DEF Append1, disk
    <2>2. Frame(nextRec) \in Seq(Unit) /\ WellFramed(Frame(nextRec))
        BY <2>1, FrameFacts
    <2>3. /\ bytes[active] \in Seq(Unit) /\ buf \in Seq(Unit)
          /\ bytes[active] \o buf \in Seq(Unit)
        BY ConcatProperties
    <2>4. WellFramed((bytes[active] \o buf) \o Frame(nextRec))
        BY <2>1, <2>2, <2>3, WellFramedConcat
    <2>5. (bytes[active] \o buf) \o Frame(nextRec) = bytes[active] \o (buf \o Frame(nextRec))
        BY <2>2, <2>3, ConcatAssociative, SMTT(20)
    <2>6. WellFramed(bytes'[active'] \o buf')
        BY <2>1, <2>4, <2>5
    <2> QED
        BY <2>1, <2>6 DEF DurGoal, KeepsDurable
<1>2. CASE RotateSeal
    BY <1>2, SealDurStep DEF RotateSeal
<1>3. CASE RotateCreate
    <2>1. /\ wpc = "sealed" /\ wpc' = "created" /\ nextId \in SegIds
          /\ segments' = segments \cup {nextId}
          /\ active' = nextId /\ nextId' = nextId + 1
          /\ bytes' = [bytes EXCEPT ![nextId] = << >>]
          /\ synced' = [synced EXCEPT ![nextId] = 0]
          /\ buf = << >>
          /\ UNCHANGED << entryDurable, buf >>
        BY <1>3 DEF RotateCreate
    <2>2. /\ nextId \notin segments
          /\ \A s \in segments : s <= active /\ s < nextId
          /\ synced[active] = Len(bytes[active])
        BY <2>1
    <2>3. /\ bytes'[nextId] = << >> /\ synced'[nextId] = 0
          /\ \A s \in SegIds \ {nextId} : bytes'[s] = bytes[s] /\ synced'[s] = synced[s]
        BY <2>1
    <2>4. WellFramed(bytes'[active'] \o buf')
        BY <2>1, <2>3, EmptyRun, ConcatEmptySeq
    <2>5. SubSeq(<< >>, 1, 0) = << >>
        BY SubSeqEmpty
    <2>6. ASSUME NEW s \in SegIds
          PROVE  /\ synced'[s] <= Len(bytes'[s])
                 /\ WellFramed(SubSeq(bytes'[s], 1, synced'[s]))
        <3>1. CASE s = nextId
            <4>1. WellFramed(SubSeq(bytes'[s], 1, synced'[s]))
                BY <2>3, <2>5, <3>1, EmptyRun
            <4> QED
                BY <2>3, <3>1, <4>1, EmptyRun
        <3>2. CASE s # nextId
            BY <2>3, <3>2
        <3> QED
            BY <3>1, <3>2
    <2>7. ASSUME NEW s \in segments', NEW t \in segments', s < t
          PROVE  synced'[s] = Len(bytes'[s])
        <3>1. s \in segments /\ s # nextId
            BY <2>1, <2>2, <2>7
        <3>2. CASE s = active
            BY <2>2, <2>3, <3>1, <3>2
        <3>3. CASE s # active
            BY <2>1, <2>2, <2>3, <3>1, <3>3
        <3> QED
            BY <3>2, <3>3
    <2>8. FilesInv' /\ WriterInv'
        BY <2>1, <2>2, <2>3
    <2>9. SyncedInv'
        BY <2>4, <2>6, <2>7
    <2>10. ASSUME NEW s \in entryDurable
           PROVE  KeepsDurable(s)
        <3>1. s # nextId /\ s \in SegIds /\ s \in entryDurable'
            BY <2>1, <2>2
        <3> QED
            BY <2>3, <3>1 DEF KeepsDurable
    <2> QED
        BY <2>8, <2>9, <2>10 DEF DurGoal
<1>4. CASE RotateAppend
    <2>1. /\ wpc = "created" /\ wpc' = "idle" /\ nextRec \in Records
          /\ entryDurable' = segments /\ buf = << >>
          /\ buf' = Frame(nextRec)
          /\ UNCHANGED << segments, bytes, synced, active, nextId >>
        BY <1>4 DEF RotateAppend, TypeOK, WriterTypeOK
    <2>2. WellFramed(bytes[active])
        BY <2>1, ConcatEmptySeq
    <2>3. WellFramed(bytes[active] \o Frame(nextRec))
        BY <2>1, <2>2, FrameFacts, WellFramedConcat
    <2> QED
        BY <2>1, <2>3 DEF DurGoal, KeepsDurable
<1> QED
    BY <1>1, <1>2, <1>3, <1>4 DEF AppendRecord

\* Part of the buffer, or all of it, reaches the file.
LEMMA MoveDurStep ==
    ASSUME DurInv, wpc = "idle", wpc' = "idle", NEW x \in Seq(Unit), buf' \in Seq(Unit),
           (bytes[active] \o x) \o buf' = bytes[active] \o buf,
           bytes' = [bytes EXCEPT ![active] = @ \o x],
           UNCHANGED << segments, synced, entryDurable, active, nextId >>
    PROVE  DurGoal
<1>1. /\ \A s \in SegIds \ segments' : bytes'[s] = << >> /\ synced'[s] = 0
      /\ \A s \in SegIds : /\ synced'[s] <= Len(bytes'[s])
                            /\ WellFramed(SubSeq(bytes'[s], 1, synced'[s]))
      /\ \A s, t \in segments' : s < t => synced'[s] = Len(bytes'[s])
      /\ WellFramed(bytes'[active] \o buf')
      /\ \A s \in SegIds : SubSeq(bytes'[s], 1, synced[s]) = SubSeq(bytes[s], 1, synced[s])
    BY MoveFromBuffer
<1>2. FilesInv' /\ SyncedInv'
    BY <1>1 DEF DurInv, FilesInv, SyncedInv
<1>3. WriterInv'
    BY DEF DurInv, WriterInv
<1>4. ASSUME NEW s \in entryDurable
      PROVE  KeepsDurable(s)
    <2>1. s \in SegIds /\ synced[s] \in Nat
        BY DurTypes DEF DurInv, FilesInv
    <2> QED
        BY <1>1, <2>1 DEF KeepsDurable
<1> QED
    BY <1>2, <1>3, <1>4 DEF DurGoal

\* Writing the buffer back, in part or whole, and fdatasync keep what is durable.
LEMMA FlushDurStep == ASSUME DurInv, Spill \/ Flush \/ Sync PROVE DurGoal
<1> USE DurTypes DEF DurInv
<1>1. CASE Spill
    <2>1. PICK n \in 1..Len(buf) - 1 :
             /\ bytes' = [bytes EXCEPT ![active] = @ \o SubSeq(buf, 1, n)]
             /\ buf' = SubSeq(buf, n + 1, Len(buf))
        BY <1>1 DEF Spill
    <2>2. /\ wpc = "idle" /\ wpc' = "idle"
          /\ UNCHANGED << segments, synced, entryDurable, active, nextId >>
        BY <1>1 DEF Spill
    <2>3. n \in 0..Len(buf) /\ n + 1 \in 1..Len(buf) + 1 /\ Len(buf) \in 0..Len(buf)
        OBVIOUS
    <2>4. SubSeq(buf, 1, n) \in Seq(Unit) /\ buf' \in Seq(Unit)
        BY <2>1, <2>3, PartFacts, PrefixFacts
    <2>5. (bytes[active] \o SubSeq(buf, 1, n)) \o buf' = bytes[active] \o buf
        BY <2>1, <2>3, CutAndJoin
    <2> QED
        BY <2>1, <2>2, <2>4, <2>5, MoveDurStep
<1>2. CASE Flush
    <2>1. (bytes[active] \o buf) \o << >> = bytes[active] \o buf
        BY ConcatProperties, ConcatEmptySeq
    <2>2. /\ wpc = "idle" /\ wpc' = "idle"
          /\ bytes' = [bytes EXCEPT ![active] = @ \o buf] /\ buf' = << >>
          /\ UNCHANGED << segments, synced, entryDurable, active, nextId >>
        BY <1>2 DEF Flush
    <2> QED
        BY <2>1, <2>2, EmptyRun, MoveDurStep
<1>3. CASE Sync
    BY <1>3, SealDurStep DEF Sync
<1> QED
    BY <1>1, <1>2, <1>3

\* prune removes whole segments only, so nothing durable is cut.
LEMMA PruneDurStep == ASSUME DurInv, Prune PROVE DurGoal
<1> USE DurTypes DEF DurInv
<1>1. CASE PruneStart
    BY <1>1 DEF PruneStart, disk, DurGoal, KeepsDurable, FilesInv, WriterInv, SyncedInv
<1>2. CASE PruneStep
    <2>1. PICK s \in segments :
             /\ s < active /\ s < pruneTo
             /\ segments' = segments \ {s}
             /\ bytes' = [bytes EXCEPT ![s] = << >>]
             /\ synced' = [synced EXCEPT ![s] = 0]
             /\ entryDurable' = entryDurable \ {s}
        BY <1>2 DEF PruneStep
    <2>2. wpc = "pruning" /\ UNCHANGED << wpc, active, nextId, buf >>
        BY <1>2 DEF PruneStep, proc
    <2>3. /\ bytes'[s] = << >> /\ synced'[s] = 0
          /\ \A t \in SegIds \ {s} : bytes'[t] = bytes[t] /\ synced'[t] = synced[t]
        BY <2>1
    <2>4. SubSeq(<< >>, 1, 0) = << >>
        BY SubSeqEmpty
    <2>5. FilesInv' /\ WriterInv'
        BY <2>1, <2>2, <2>3 DEF FilesInv, WriterInv
    <2>6. ASSUME NEW t \in SegIds
          PROVE  /\ synced'[t] <= Len(bytes'[t])
                 /\ WellFramed(SubSeq(bytes'[t], 1, synced'[t]))
        <3>1. CASE t = s
            <4>1. WellFramed(SubSeq(bytes'[t], 1, synced'[t]))
                BY <2>3, <2>4, <3>1, EmptyRun
            <4> QED
                BY <2>3, <3>1, <4>1, EmptyRun
        <3>2. CASE t # s
            BY <2>3, <3>2 DEF SyncedInv
        <3> QED
            BY <3>1, <3>2
    <2>7. active # s /\ bytes'[active] = bytes[active]
        BY <2>1, <2>3
    <2>8. SyncedInv'
        BY <2>1, <2>2, <2>3, <2>6, <2>7 DEF SyncedInv
    <2>9. ASSUME NEW t \in entryDurable
          PROVE  KeepsDurable(t)
        <3>1. t \in SegIds /\ synced[t] \in Nat
            BY DEF FilesInv
        <3>2. CASE t = s
            BY <2>1, <2>2, <3>2 DEF KeepsDurable
        <3>3. CASE t # s
            BY <2>1, <2>3, <3>1, <3>3 DEF KeepsDurable
        <3> QED
            BY <3>2, <3>3
    <2> QED
        BY <2>5, <2>8, <2>9 DEF DurGoal
<1>3. CASE PruneEnd
    BY <1>3 DEF PruneEnd, disk, DurGoal, KeepsDurable, FilesInv, WriterInv, SyncedInv
<1> QED
    BY <1>1, <1>2, <1>3 DEF Prune

\* The end of the process, in order or killed, keeps what is durable.
LEMMA EndDurStep == ASSUME DurInv, Exit \/ Kill PROVE DurGoal
<1> USE DurTypes DEF DurInv, DurGoal
<1>1. CASE Exit
    <2>1. /\ wpc # "none" /\ wpc' = "none" /\ buf' = << >>
          /\ bytes' = [bytes EXCEPT ![active] = @ \o buf]
          /\ UNCHANGED << segments, synced, entryDurable >>
        BY <1>1 DEF Exit, NoProcess
    <2>2. (bytes[active] \o buf) \o << >> = bytes[active] \o buf
        BY ConcatProperties, ConcatEmptySeq
    <2>3. /\ \A s \in SegIds \ segments' : bytes'[s] = << >> /\ synced'[s] = 0
          /\ \A s \in SegIds : /\ synced'[s] <= Len(bytes'[s])
                                /\ WellFramed(SubSeq(bytes'[s], 1, synced'[s]))
          /\ \A s, t \in segments' : s < t => synced'[s] = Len(bytes'[s])
          /\ \A s \in SegIds : SubSeq(bytes'[s], 1, synced[s]) = SubSeq(bytes[s], 1, synced[s])
        BY <2>1, <2>2, EmptyRun, MoveFromBuffer
    <2>4. FilesInv' /\ WriterInv' /\ SyncedInv'
        BY <2>1, <2>3 DEF FilesInv, WriterInv, SyncedInv
    <2>5. ASSUME NEW s \in entryDurable
          PROVE  KeepsDurable(s)
        <3>1. s \in SegIds /\ synced[s] \in Nat
            BY DEF FilesInv
        <3> QED
            BY <2>1, <2>3, <3>1 DEF KeepsDurable
    <2> QED
        BY <2>4, <2>5
<1>2. CASE Kill
    BY <1>2 DEF Kill, NoProcess, disk, KeepsDurable, FilesInv, WriterInv, SyncedInv
<1> QED
    BY <1>1, <1>2

\* A power loss takes only bytes that were not synced and segments without a durable entry.
LEMMA PowerLossDurStep == ASSUME DurInv, PowerLoss PROVE DurGoal
<1> USE DurTypes DEF DurInv
<1>1. PICK last \in segments, gone \in SUBSET (segments \ entryDurable), d \in Seq(Unit) :
         /\ IsLatest(last)
         /\ \A s \in gone, t \in segments : s < t => t \in gone
         /\ segments' = segments \ gone
         /\ entryDurable' = segments'
         /\ bytes' = [s \in SegIds |-> IF s \in gone THEN << >>
                                       ELSE IF s = last THEN d ELSE bytes[s]]
         /\ synced' = [s \in SegIds |-> IF s \in gone THEN 0 ELSE synced[s]]
         /\ synced[last] <= Len(d)
         /\ \A i \in 1..synced[last] : d[i] = bytes[last][i]
    BY PowerLossEffect, ZenonT(30)
<1>2. wpc' = "none" /\ buf' = << >>
    BY DEF PowerLoss, NoProcess
<1>3. /\ \A s \in gone : bytes'[s] = << >> /\ synced'[s] = 0
      /\ \A s \in SegIds \ gone : /\ synced'[s] = synced[s]
                                  /\ bytes'[s] = IF s = last THEN d ELSE bytes[s]
    BY <1>1
<1>4. SubSeq(d, 1, synced[last]) = SubSeq(bytes[last], 1, synced[last])
    BY <1>1, SamePrefix DEF SyncedInv
<1>5. SubSeq(<< >>, 1, 0) = << >>
    BY SubSeqEmpty
<1>6. FilesInv' /\ WriterInv'
    BY <1>1, <1>2, <1>3 DEF FilesInv, WriterInv
<1>7. ASSUME NEW s \in SegIds
      PROVE  /\ synced'[s] <= Len(bytes'[s])
             /\ WellFramed(SubSeq(bytes'[s], 1, synced'[s]))
    <2>1. CASE s \in gone
        <3>1. WellFramed(SubSeq(bytes'[s], 1, synced'[s]))
            BY <1>3, <1>5, <2>1, EmptyRun
        <3> QED
            BY <1>3, <2>1, <3>1, EmptyRun
    <2>2. CASE s \notin gone /\ s = last
        <3>1. WellFramed(SubSeq(bytes'[s], 1, synced'[s]))
            BY <1>3, <1>4, <2>2 DEF SyncedInv
        <3> QED
            BY <1>1, <1>3, <2>2, <3>1
    <2>3. CASE s \notin gone /\ s # last
        BY <1>3, <2>3 DEF SyncedInv
    <2> QED
        BY <2>1, <2>2, <2>3
<1>8. ASSUME NEW s \in segments', NEW t \in segments', s < t
      PROVE  synced'[s] = Len(bytes'[s])
    <2>1. s # last /\ s \notin gone /\ s \in SegIds
        BY <1>1, <1>8 DEF IsLatest
    <2> QED
        BY <1>1, <1>3, <1>8, <2>1 DEF SyncedInv
<1>9. SyncedInv'
    BY <1>2, <1>7, <1>8 DEF SyncedInv
<1>10. ASSUME NEW s \in entryDurable
       PROVE  KeepsDurable(s)
    <2>1. s \notin gone /\ s \in SegIds /\ s \in entryDurable' /\ synced[s] \in Nat
        BY <1>1 DEF FilesInv
    <2>2. SubSeq(bytes'[s], 1, synced[s]) = SubSeq(bytes[s], 1, synced[s])
        BY <1>3, <1>4, <2>1
    <2> QED
        BY <1>3, <2>1, <2>2 DEF KeepsDurable
<1> QED
    BY <1>6, <1>9, <1>10 DEF DurGoal

\* What leaves the files and the writer alone keeps the invariant, as every reader does.
LEMMA StutterDurStep ==
    ASSUME DurInv, UNCHANGED << disk, wpc, active, nextId, buf >>
    PROVE  DurGoal
BY DurTypes DEF DurInv, DurGoal, disk, KeepsDurable, FilesInv, WriterInv, SyncedInv

\* Every step keeps the invariant and what is durable.
LEMMA DurStep == ASSUME DurInv, [Next]_vars PROVE DurGoal
<1>1. CASE WNext /\ UNCHANGED rvars
    BY <1>1, OpenDurStep, AppendDurStep, FlushDurStep, PruneDurStep, EndDurStep DEF WNext
<1>2. CASE \E c \in Consumers : Reader(c)
    <2>1. UNCHANGED << disk, wpc, active, nextId, buf >>
        BY <1>2 DEF Reader, Poll, OpenReader, Deliver, SkipCorrupt, PollEnd, PollUnloaded,
                    Commit, CloseReader, wvars, disk, proc
    <2> QED
        BY <2>1, StutterDurStep
<1>3. CASE MachinePowerLoss
    BY <1>3, PowerLossDurStep DEF MachinePowerLoss
<1>4. CASE UNCHANGED vars
    BY <1>4, StutterDurStep DEF vars, wvars, disk
<1> QED
    BY <1>1, <1>2, <1>3, <1>4 DEF Next

\* An empty WAL directory satisfies the invariant.
LEMMA DurInit == Init => DurInv
<1> SUFFICES ASSUME Init PROVE DurInv
    OBVIOUS
<1>1. TypeOK
    BY InitTypes
<1>2. SubSeq(<< >>, 1, 0) = << >>
    BY SubSeqEmpty
<1>3. \A s \in SegIds : bytes[s] = << >> /\ synced[s] = 0
    BY DEF Init, WInit
<1>4. FilesInv /\ WriterInv
    BY <1>3 DEF Init, WInit, FilesInv, WriterInv
<1>5. ASSUME NEW s \in SegIds
      PROVE  synced[s] <= Len(bytes[s]) /\ WellFramed(SubSeq(bytes[s], 1, synced[s]))
    <2>1. WellFramed(SubSeq(bytes[s], 1, synced[s]))
        BY <1>2, <1>3, EmptyRun
    <2> QED
        BY <1>3, <2>1, EmptyRun
<1>6. SyncedInv
    BY <1>5 DEF Init, WInit, SyncedInv
<1> QED
    BY <1>1, <1>4, <1>6 DEF DurInv

\* The inductive invariant of the durability argument.
THEOREM DurableInvariant == Spec => []DurInv
<1>1. DurInv /\ [Next]_vars => DurInv'
    BY DurStep, TypeStep DEF DurInv, DurGoal
<1> QED
    BY <1>1, DurInit, PTL DEF Spec

\* Every segment but the last is synced in full, as rotate seals before it creates:
\* only the last can hold bytes a power loss takes.
THEOREM SealedSyncedAlways == Spec => []SealedSynced
<1>1. DurInv => SealedSynced
    <2> SUFFICES ASSUME DurInv, NEW s \in segments, ~IsLatest(s)
                 PROVE  synced[s] = Len(bytes[s])
        BY DEF SealedSynced
    <2>1. segments \subseteq Nat
        BY DurTypes DEF DurInv
    <2>2. PICK t \in segments : s < t
        BY <2>1 DEF IsLatest
    <2> QED
        BY <2>2 DEF DurInv, SyncedInv
<1> QED
    BY <1>1, DurableInvariant, PTL

\* The writer appends on a frame boundary after every recovery, spill, flush and
\* rotation.
THEOREM AppendsOnFrameBoundaryAlways == Spec => []AppendsOnFrameBoundary
<1>1. DurInv => AppendsOnFrameBoundary
    BY DEF DurInv, SyncedInv, AppendsOnFrameBoundary
<1> QED
    BY <1>1, DurableInvariant, PTL

\* What fdatasync covered ends on a frame boundary, whatever crashes follow.
THEOREM SyncedIntactAlways == Spec => []SyncedIntact
<1>1. DurInv => SyncedIntact
    BY DurTypes DEF DurInv, SyncedInv, SyncedIntact
<1> QED
    BY <1>1, DurableInvariant, PTL

\* What is synced in a segment whose directory entry is durable survives every
\* step, kills, power losses and the torn-tail recovery included, until prune
\* removes the segment.
THEOREM DurableKeptAlways == Spec => DurableKept
<1>1. DurInv /\ [Next]_vars => [\A s \in entryDurable : KeepsDurable(s)]_vars
    BY DurStep DEF DurGoal
<1> QED
    BY <1>1, DurableInvariant, PTL DEF Spec, DurableKept

-----------------------------------------------------------------------------
(* The order of the log.  A record stands where its header stands, whether  *)
(* the rest of its frame is there or not: what a torn tail, a half written  *)
(* frame or a zeroed page leaves out is no header, so every step of the     *)
(* writer and every crash moves headers or loses them, and adds none but    *)
(* the next record's.                                                       *)

\* A frame starts at position p of d.
HeadIn(d, p) == p \in 1..Len(d) /\ IsHeader(d[p])

\* Headers ascend through a file and from segment to segment.
DiskOrder ==
    \A s, t \in SegIds, i, j \in Nat :
        HeadIn(bytes[s], i) /\ HeadIn(bytes[t], j) /\ (s < t \/ (s = t /\ i < j))
            => bytes[s][i].rec < bytes[t][j].rec

\* What is buffered comes after all that any file holds.
BufferOrder ==
    /\ \A s \in SegIds, i, j \in Nat :
          HeadIn(bytes[s], i) /\ HeadIn(buf, j) => bytes[s][i].rec < buf[j].rec
    /\ \A i, j \in Nat : HeadIn(buf, i) /\ HeadIn(buf, j) /\ i < j => buf[i].rec < buf[j].rec

\* The next record is new.
NextIsNew ==
    /\ \A s \in SegIds, i \in Nat : HeadIn(bytes[s], i) => bytes[s][i].rec < nextRec
    /\ \A i \in Nat : HeadIn(buf, i) => buf[i].rec < nextRec

OrderInv == DurInv /\ DiskOrder /\ BufferOrder /\ NextIsNew

\* The step moves the first k bytes of the buffer, or fewer, into the active
\* segment or out of the system, and appends at most the next record.
HeadsMove(k) ==
    /\ \A s \in SegIds, p \in Nat : HeadIn(bytes'[s], p) =>
          \/ HeadIn(bytes[s], p) /\ bytes'[s][p] = bytes[s][p]
          \/ /\ s = active /\ wpc # "none"
             /\ \E q \in Nat : /\ HeadIn(buf, q) /\ q <= k
                              /\ p = Len(bytes[s]) + q
                              /\ bytes'[s][p] = buf[q]
    /\ \A p \in Nat : HeadIn(buf', p) =>
          \/ HeadIn(buf, p + k) /\ buf'[p] = buf[p + k]
          \/ p + k = Len(buf) + 1 /\ buf'[p].rec = nextRec /\ nextRec' = nextRec + 1
    /\ nextRec' \in {nextRec, nextRec + 1}

\* The numbers the order is about.
LEMMA HeadTypes ==
    ASSUME DurInv
    PROVE  /\ nextRec \in Nat /\ active \in SegIds /\ SegIds \subseteq Nat
           /\ Len(buf) \in Nat /\ buf \in Seq(Unit)
           /\ \A s \in SegIds : Len(bytes[s]) \in Nat /\ bytes[s] \in Seq(Unit)
           /\ \A s \in SegIds, i \in Nat : HeadIn(bytes[s], i) => bytes[s][i].rec \in Nat
           /\ \A i \in Nat : HeadIn(buf, i) => buf[i].rec \in Nat
<1>1. TypeOK
    BY DEF DurInv
<1>2. nextRec \in Nat
    BY <1>1, ConstantFacts DEF TypeOK, WriterTypeOK, Records
<1>3. \A d \in Seq(Unit), i \in Nat : HeadIn(d, i) => d[i].rec \in Nat
    <2> SUFFICES ASSUME NEW d \in Seq(Unit), NEW i \in Nat, HeadIn(d, i) PROVE d[i].rec \in Nat
        OBVIOUS
    <2>1. d[i] \in Unit
        BY ElementOfSeq DEF HeadIn
    <2> QED
        BY <2>1, ConstantFacts DEF Unit
<1> QED
    BY <1>1, <1>2, <1>3, DurTypes, ConstantFacts

\* A file that holds a header is in the directory; while a writer lives it is the
\* active segment or an earlier one.
LEMMA HeadPlace ==
    ASSUME DurInv, NEW s \in SegIds, NEW i \in Nat, HeadIn(bytes[s], i)
    PROVE  s \in segments /\ (wpc # "none" => s <= active)
<1>1. bytes[s] # << >>
    BY EmptyRun DEF HeadIn
<1>2. s \in segments
    BY <1>1 DEF DurInv, FilesInv
<1> QED
    BY <1>2 DEF DurInv, WriterInv

\* A step that moves headers so keeps the order.
LEMMA OrderKept ==
    ASSUME OrderInv, NEW k \in Nat, HeadsMove(k)
    PROVE  DiskOrder' /\ BufferOrder' /\ NextIsNew'
<1>0. DurInv
    BY DEF OrderInv
<1> DEFINE Kept(s, p) == HeadIn(bytes[s], p) /\ bytes'[s][p] = bytes[s][p]
           Came(s, p, q) == /\ s = active /\ wpc # "none" /\ HeadIn(buf, q) /\ q <= k
                            /\ p = Len(bytes[s]) + q /\ bytes'[s][p] = buf[q]
           Stays(p) == HeadIn(buf, p + k) /\ buf'[p] = buf[p + k]
           IsNew(p) == p + k = Len(buf) + 1 /\ buf'[p].rec = nextRec /\ nextRec' = nextRec + 1
<1>1. \A s \in SegIds, p \in Nat :
         HeadIn(bytes'[s], p) => Kept(s, p) \/ \E q \in Nat : Came(s, p, q)
    BY DEF HeadsMove
<1>2. \A p \in Nat : HeadIn(buf', p) => Stays(p) \/ IsNew(p)
    BY DEF HeadsMove
<1>3. nextRec' \in Nat /\ nextRec <= nextRec'
    BY <1>0, HeadTypes DEF HeadsMove
<1>4. ASSUME NEW s \in SegIds, NEW t \in SegIds, NEW i \in Nat, NEW j \in Nat,
             HeadIn(bytes'[s], i), HeadIn(bytes'[t], j), s < t \/ (s = t /\ i < j)
      PROVE  bytes'[s][i].rec < bytes'[t][j].rec
    <2>1. CASE Kept(s, i) /\ Kept(t, j)
        BY <1>4, <2>1 DEF OrderInv, DiskOrder
    <2>2. CASE Kept(s, i) /\ ~Kept(t, j)
        <3>1. PICK q \in Nat : Came(t, j, q)
            BY <1>1, <1>4, <2>2
        <3> QED
            BY <2>2, <3>1 DEF OrderInv, BufferOrder
    <2>3. CASE ~Kept(s, i) /\ Kept(t, j)
        <3>1. PICK q \in Nat : Came(s, i, q)
            BY <1>1, <1>4, <2>3
        <3>2. t <= active
            BY <1>0, <2>3, <3>1, HeadPlace
        <3>3. q >= 1 /\ Len(bytes[s]) \in Nat /\ j <= Len(bytes[t]) /\ s \in Nat /\ t \in Nat
            BY <1>0, <2>3, <3>1, HeadTypes DEF HeadIn
        <3> QED
            BY <1>4, <3>1, <3>2, <3>3
    <2>4. CASE ~Kept(s, i) /\ ~Kept(t, j)
        <3>1. PICK q \in Nat : Came(s, i, q)
            BY <1>1, <1>4, <2>4
        <3>2. PICK r \in Nat : Came(t, j, r)
            BY <1>1, <1>4, <2>4
        <3>3. q < r
            <4>1. s = t /\ i < j /\ s \in Nat
                BY <1>0, <1>4, <3>1, <3>2, HeadTypes
            <4>2. PICK n \in Nat : n = Len(bytes[s])
                BY <1>0, HeadTypes
            <4>3. i = n + q /\ j = n + r
                BY <3>1, <3>2, <4>1, <4>2
            <4> QED
                BY <4>1, <4>3
        <3> QED
            BY <3>1, <3>2, <3>3 DEF OrderInv, BufferOrder
    <2> QED
        BY <2>1, <2>2, <2>3, <2>4
<1>5. ASSUME NEW s \in SegIds, NEW i \in Nat, NEW j \in Nat,
             HeadIn(bytes'[s], i), HeadIn(buf', j)
      PROVE  bytes'[s][i].rec < buf'[j].rec
    <2>1. CASE Kept(s, i)
        <3>1. CASE Stays(j)
            <4>1. j + k \in Nat
                OBVIOUS
            <4> QED
                BY <2>1, <3>1, <4>1 DEF OrderInv, BufferOrder
        <3>2. CASE IsNew(j)
            BY <2>1, <3>2 DEF OrderInv, NextIsNew
        <3> QED
            BY <1>2, <1>5, <3>1, <3>2
    <2>2. CASE ~Kept(s, i)
        <3>1. PICK q \in Nat : Came(s, i, q)
            BY <1>1, <1>5, <2>2
        <3>2. CASE Stays(j)
            <4>1. j + k \in Nat /\ q < j + k
                <5>1. j >= 1
                    BY <1>5 DEF HeadIn
                <5> QED
                    BY <3>1, <5>1
            <4> QED
                BY <3>1, <3>2, <4>1 DEF OrderInv, BufferOrder
        <3>3. CASE IsNew(j)
            BY <3>1, <3>3 DEF OrderInv, NextIsNew
        <3> QED
            BY <1>2, <1>5, <3>2, <3>3
    <2> QED
        BY <2>1, <2>2
<1>6. ASSUME NEW i \in Nat, NEW j \in Nat, HeadIn(buf', i), HeadIn(buf', j), i < j
      PROVE  buf'[i].rec < buf'[j].rec
    <2>1. PICK m \in Nat, n \in Nat : m = i + k /\ n = j + k /\ m < n
        BY <1>6
    <2>2. CASE Stays(i) /\ Stays(j)
        BY <2>1, <2>2 DEF OrderInv, BufferOrder
    <2>3. CASE Stays(i) /\ IsNew(j)
        BY <2>1, <2>3 DEF OrderInv, NextIsNew
    <2>4. CASE IsNew(i)
        <3>1. n > Len(buf) + 1
            BY <1>0, <2>1, <2>4, HeadTypes
        <3>2. ~Stays(j) /\ ~IsNew(j)
            BY <1>0, <2>1, <3>1, HeadTypes DEF HeadIn
        <3> QED
            BY <1>2, <1>6, <3>2
    <2> QED
        BY <1>2, <1>6, <2>2, <2>3, <2>4
<1>7. ASSUME NEW s \in SegIds, NEW i \in Nat, HeadIn(bytes'[s], i)
      PROVE  bytes'[s][i].rec < nextRec'
    <2>1. \E r \in Nat : r = bytes'[s][i].rec /\ r < nextRec
        <3>1. CASE Kept(s, i)
            BY <1>0, <3>1, HeadTypes DEF OrderInv, NextIsNew
        <3>2. CASE \E q \in Nat : Came(s, i, q)
            BY <1>0, <3>2, HeadTypes DEF OrderInv, NextIsNew
        <3> QED
            BY <1>1, <1>7, <3>1, <3>2
    <2> QED
        BY <1>0, <1>3, <2>1, HeadTypes
<1>8. ASSUME NEW i \in Nat, HeadIn(buf', i)
      PROVE  buf'[i].rec < nextRec'
    <2>1. CASE Stays(i)
        <3>1. i + k \in Nat
            OBVIOUS
        <3>2. \E r \in Nat : r = buf'[i].rec /\ r < nextRec
            BY <1>0, <2>1, <3>1, HeadTypes DEF OrderInv, NextIsNew
        <3> QED
            BY <1>0, <1>3, <3>2, HeadTypes
    <2>2. CASE IsNew(i)
        BY <1>0, <2>2, HeadTypes
    <2> QED
        BY <1>2, <1>8, <2>1, <2>2
<1> QED
    BY <1>4, <1>5, <1>6, <1>7, <1>8 DEF DiskOrder, BufferOrder, NextIsNew

\* The empty sequence holds no header, and a zeroed unit is none.
LEMMA NoHeads == (\A p \in Nat : ~HeadIn(<< >>, p)) /\ ~IsHeader(Zero)
BY EmptyRun DEF HeadIn, IsHeader, Zero

\* A frame holds one header, its first unit.
LEMMA FrameHead ==
    ASSUME NEW r \in Records
    PROVE  \A p \in Nat : HeadIn(Frame(r), p) => p = 1 /\ Frame(r)[p].rec = r
<1> SUFFICES ASSUME NEW p \in Nat, HeadIn(Frame(r), p) PROVE p = 1 /\ Frame(r)[p].rec = r
    OBVIOUS
<1>1. p \in 1..FrameLen(r)
    BY FrameFacts DEF HeadIn
<1>2. Frame(r)[p] = [rec |-> r, part |-> p - 1]
    BY <1>1 DEF Frame
<1>3. p - 1 = 0
    BY <1>2 DEF HeadIn, IsHeader
<1> QED
    BY <1>2, <1>3

\* Files only lose headers, and the buffer all of them or none.
LEMMA HeadsLost ==
    ASSUME DurInv, buf' \in {buf, << >>}, nextRec' = nextRec,
           \A s \in SegIds, p \in Nat :
               HeadIn(bytes'[s], p) => HeadIn(bytes[s], p) /\ bytes'[s][p] = bytes[s][p]
    PROVE  HeadsMove(0)
<1>1. \A p \in Nat : HeadIn(buf', p) => HeadIn(buf, p + 0) /\ buf'[p] = buf[p + 0]
    BY NoHeads
<1> QED
    BY <1>1 DEF HeadsMove

\* A beginning x of the buffer moves to the active segment.
LEMMA HeadsWritten ==
    ASSUME DurInv, wpc # "none", NEW n \in 0..Len(buf), NEW x \in Seq(Unit),
           Len(x) = n, \A i \in 1..n : x[i] = buf[i],
           bytes' = [bytes EXCEPT ![active] = @ \o x],
           \A p \in Nat : HeadIn(buf', p) => HeadIn(buf, p + n) /\ buf'[p] = buf[p + n],
           nextRec' = nextRec
    PROVE  n \in Nat /\ HeadsMove(n)
<1>1. bytes'[active] = bytes[active] \o x /\ \A s \in SegIds \ {active} : bytes'[s] = bytes[s]
    BY DurTypes DEF DurInv
<1>2. PICK m \in Nat : m = Len(bytes[active])
    BY HeadTypes
<1>3. /\ Len(bytes'[active]) = m + n
      /\ \A i \in 1..m + n : bytes'[active][i] = IF i <= m THEN bytes[active][i] ELSE x[i - m]
    BY <1>1, <1>2, HeadTypes, ConcatProperties
<1>4. ASSUME NEW p \in Nat, HeadIn(bytes'[active], p)
      PROVE  \/ HeadIn(bytes[active], p) /\ bytes'[active][p] = bytes[active][p]
             \/ \E q \in Nat : /\ HeadIn(buf, q) /\ q <= n
                              /\ p = Len(bytes[active]) + q
                              /\ bytes'[active][p] = buf[q]
    <2>1. p \in 1..m + n
        BY <1>3, <1>4 DEF HeadIn
    <2>2. CASE p <= m
        <3>1. bytes'[active][p] = bytes[active][p] /\ p \in 1..m
            BY <1>3, <2>1, <2>2
        <3> QED
            BY <1>2, <1>4, <3>1 DEF HeadIn
    <2>3. CASE p > m
        <3>1. PICK q \in 1..n : q = p - m /\ p = m + q
            BY <2>1, <2>3
        <3>2. bytes'[active][p] = buf[q]
            BY <1>3, <2>1, <2>3, <3>1
        <3>3. q \in 1..Len(buf) /\ q <= n /\ q \in Nat
            BY HeadTypes
        <3>4. HeadIn(buf, q)
            BY <1>4, <3>2, <3>3 DEF HeadIn
        <3> QED
            BY <1>2, <3>1, <3>2, <3>3, <3>4
    <2> QED
        <3>1. p <= m \/ p > m
            OBVIOUS
        <3> QED
            BY <2>2, <2>3, <3>1, Zenon
<1>5. ASSUME NEW s \in SegIds, NEW p \in Nat, HeadIn(bytes'[s], p)
      PROVE  \/ HeadIn(bytes[s], p) /\ bytes'[s][p] = bytes[s][p]
             \/ /\ s = active /\ wpc # "none"
                /\ \E q \in Nat : /\ HeadIn(buf, q) /\ q <= n
                                 /\ p = Len(bytes[s]) + q
                                 /\ bytes'[s][p] = buf[q]
    <2>1. CASE s = active
        <3>1. \/ HeadIn(bytes[active], p) /\ bytes'[active][p] = bytes[active][p]
              \/ \E q \in Nat : /\ HeadIn(buf, q) /\ q <= n
                               /\ p = Len(bytes[active]) + q
                               /\ bytes'[active][p] = buf[q]
            BY <1>4, <1>5, <2>1
        <3> QED
            BY <2>1, <3>1
    <2>2. CASE s # active
        <3>1. bytes'[s] = bytes[s]
            BY <1>1, <2>2
        <3> QED
            BY <1>5, <3>1
    <2> QED
        BY <2>1, <2>2
<1>6. n \in Nat
    BY HeadTypes
<1> QED
    BY <1>5, <1>6 DEF HeadsMove

\* The frame of the next record joins the buffer.
LEMMA HeadsAppended ==
    ASSUME DurInv, nextRec \in Records, bytes' = bytes,
           buf' = buf \o Frame(nextRec), nextRec' = nextRec + 1
    PROVE  HeadsMove(0)
<1>1. PICK b \in Nat : b = Len(buf)
    BY HeadTypes
<1>2. PICK f \in Seq(Unit) : f = Frame(nextRec)
    BY FrameFacts
<1>3. /\ Len(buf') = b + Len(f) /\ Len(f) \in Nat
      /\ \A i \in 1..b + Len(f) : buf'[i] = IF i <= b THEN buf[i] ELSE f[i - b]
    BY <1>1, <1>2, HeadTypes, ConcatProperties, LenProperties
<1>4. ASSUME NEW p \in Nat, HeadIn(buf', p)
      PROVE  \/ HeadIn(buf, p + 0) /\ buf'[p] = buf[p + 0]
             \/ p + 0 = Len(buf) + 1 /\ buf'[p].rec = nextRec /\ nextRec' = nextRec + 1
    <2>1. p \in 1..b + Len(f)
        BY <1>3, <1>4 DEF HeadIn
    <2>2. CASE p <= b
        BY <1>1, <1>3, <1>4, <2>1, <2>2 DEF HeadIn
    <2>3. CASE p > b
        <3>1. PICK q \in 1..Len(f) : q = p - b /\ p = b + q
            BY <1>3, <2>1, <2>3
        <3>2. buf'[p] = f[q] /\ q \in Nat
            <4>1. buf'[p] = f[p - b]
                BY <1>3, <2>1, <2>3
            <4> QED
                BY <3>1, <4>1
        <3>3. HeadIn(f, q)
            BY <1>4, <3>1, <3>2 DEF HeadIn
        <3>4. q = 1 /\ f[q].rec = nextRec
            BY <1>2, <3>2, <3>3, FrameHead
        <3> QED
            BY <1>1, <3>1, <3>2, <3>4
    <2> QED
        <3>1. p <= b \/ p > b
            OBVIOUS
        <3> QED
            BY <2>2, <2>3, <3>1, Zenon
<1> QED
    BY <1>4 DEF HeadsMove

\* What the writer, its end, or a power loss does to the log (WalWriter).
LEMMA HeadsStep ==
    ASSUME DurInv, WNext \/ PowerLoss PROVE \E k \in Nat : HeadsMove(k)
<1>0. 0 \in Nat /\ TypeOK
    BY DEF DurInv
<1>1. CASE OpenCreate \/ OpenSyncDir \/ PruneStart \/ PruneEnd \/ RotateCreate \/ PruneStep \/ Kill
    <2>1. buf' \in {buf, << >>} /\ nextRec' = nextRec
        BY <1>1 DEF OpenCreate, OpenSyncDir, PruneStart, PruneEnd, RotateCreate, PruneStep, Kill,
                    NoProcess, proc
    <2>2. ASSUME NEW s \in SegIds PROVE bytes'[s] \in {bytes[s], << >>}
        BY <1>0, <1>1, DurTypes DEF OpenCreate, OpenSyncDir, PruneStart, PruneEnd, RotateCreate,
                    PruneStep, Kill, disk
    <2>3. HeadsMove(0)
        BY <2>1, <2>2, NoHeads, HeadsLost
    <2> QED
        BY <1>0, <2>3
<1>2. CASE OpenAppend
    <2>1. buf' = buf /\ nextRec' = nextRec
        BY <1>2 DEF OpenAppend
    <2>2. ASSUME NEW s \in SegIds, NEW p \in Nat, HeadIn(bytes'[s], p)
          PROVE  HeadIn(bytes[s], p) /\ bytes'[s][p] = bytes[s][p]
        <3>1. bytes'[s] = bytes[s] \/ \E n \in 0..Len(bytes[s]) : bytes'[s] = SubSeq(bytes[s], 1, n)
            BY <1>0, <1>2, DurTypes DEF OpenAppend
        <3>2. CASE bytes'[s] = bytes[s]
            BY <2>2, <3>2
        <3>3. CASE bytes'[s] # bytes[s]
            <4>1. PICK n \in 0..Len(bytes[s]) : bytes'[s] = SubSeq(bytes[s], 1, n)
                BY <3>1, <3>3
            <4>2. PICK d \in Seq(Unit) : d = bytes'[s] /\ Len(d) = n /\ \A i \in 1..n : d[i] = bytes[s][i]
                BY <4>1, HeadTypes, PrefixFacts
            <4>3. p \in 1..n /\ p \in 1..Len(bytes[s])
                BY <2>2, <4>2, HeadTypes DEF HeadIn
            <4> QED
                BY <2>2, <4>2, <4>3 DEF HeadIn
        <3> QED
            BY <3>2, <3>3
    <2>3. HeadsMove(0)
        BY <2>1, <2>2, HeadsLost
    <2> QED
        BY <1>0, <2>3
<1>3. CASE Append1
    <2>1. HeadsMove(0)
        BY <1>3, HeadsAppended DEF Append1, disk
    <2> QED
        BY <1>0, <2>1
<1>4. CASE RotateAppend
    <2>1. buf = << >> /\ nextRec \in Records
        BY <1>0, <1>4 DEF RotateAppend, DurInv, WriterInv, TypeOK, WriterTypeOK
    <2>2. buf' = buf \o Frame(nextRec)
        BY <1>4, <2>1, FrameFacts, ConcatEmptySeq DEF RotateAppend
    <2>3. HeadsMove(0)
        BY <1>4, <2>1, <2>2, HeadsAppended DEF RotateAppend
    <2> QED
        BY <1>0, <2>3
<1>5. CASE RotateSeal \/ Flush \/ Sync \/ Exit
    <2>1. /\ wpc # "none" /\ buf' = << >> /\ nextRec' = nextRec
          /\ bytes' = [bytes EXCEPT ![active] = @ \o buf]
        BY <1>5 DEF RotateSeal, Flush, Sync, Exit, NoProcess
    <2>2. PICK n \in 0..Len(buf) : n = Len(buf)
        BY HeadTypes
    <2> QED
        BY <2>1, <2>2, NoHeads, HeadTypes, HeadsWritten
<1>6. CASE Spill
    <2>1. PICK n \in 1..Len(buf) - 1 :
             /\ bytes' = [bytes EXCEPT ![active] = @ \o SubSeq(buf, 1, n)]
             /\ buf' = SubSeq(buf, n + 1, Len(buf))
        BY <1>6 DEF Spill
    <2>2. wpc # "none" /\ nextRec' = nextRec
        BY <1>6 DEF Spill
    <2>3. PICK b \in Nat : b = Len(buf)
        BY HeadTypes
    <2>4. n \in 0..Len(buf) /\ n \in Nat /\ n \in 1..b
        BY <2>3
    <2>5. PICK x \in Seq(Unit) : /\ x = SubSeq(buf, 1, n) /\ Len(x) = n
                                /\ \A i \in 1..n : x[i] = buf[i]
        BY <2>4, HeadTypes, PrefixFacts
    <2>6. /\ Len(buf') = b - n
          /\ \A i \in 1..b - n : buf'[i] = buf[n + i]
        BY <2>1, <2>3, <2>4, SubSeqProperties, ElementOfSeq, HeadTypes
    <2>7. ASSUME NEW p \in Nat, HeadIn(buf', p)
          PROVE  HeadIn(buf, p + n) /\ buf'[p] = buf[p + n]
        <3>1. p \in 1..b - n
            BY <2>6, <2>7 DEF HeadIn
        <3>2. n + p = p + n /\ p + n \in 1..b
            BY <2>4, <3>1
        <3>3. buf'[p] = buf[p + n]
            BY <2>6, <3>1, <3>2
        <3> QED
            BY <2>3, <2>7, <3>2, <3>3 DEF HeadIn
    <2> QED
        BY <2>1, <2>2, <2>4, <2>5, <2>7, HeadsWritten
<1>7. CASE PowerLoss
    <2>1. PICK last \in segments, gone \in SUBSET (segments \ entryDurable), d \in Seq(Unit) :
             /\ bytes' = [s \in SegIds |-> IF s \in gone THEN << >>
                                           ELSE IF s = last THEN d ELSE bytes[s]]
             /\ Len(d) <= Len(bytes[last])
             /\ \A i \in 1..Len(d) : d[i] = bytes[last][i] \/ d[i] = Zero
        <3>1. PICK last \in segments, gone \in SUBSET (segments \ entryDurable), d \in Seq(Unit) :
                 /\ IsLatest(last)
                 /\ \A s \in gone, t \in segments : s < t => t \in gone
                 /\ segments' = segments \ gone
                 /\ entryDurable' = segments'
                 /\ bytes' = [s \in SegIds |-> IF s \in gone THEN << >>
                                               ELSE IF s = last THEN d ELSE bytes[s]]
                 /\ synced' = [s \in SegIds |-> IF s \in gone THEN 0 ELSE synced[s]]
                 /\ synced[last] <= Len(d) /\ Len(d) <= Len(bytes[last])
                 /\ \A i \in 1..synced[last] : d[i] = bytes[last][i]
                 /\ \A i \in 1..Len(d) : d[i] = bytes[last][i] \/ d[i] = Zero
            BY <1>0, <1>7, PowerLossEffect
        <3> QED
            BY <3>1, ZenonT(30)
    <2>2. buf' = << >> /\ nextRec' = nextRec
        BY <1>7 DEF PowerLoss, NoProcess
    <2>3. ASSUME NEW s \in SegIds, NEW p \in Nat, HeadIn(bytes'[s], p)
          PROVE  HeadIn(bytes[s], p) /\ bytes'[s][p] = bytes[s][p]
        <3>1. CASE s \in gone
            BY <2>1, <2>3, <3>1, NoHeads
        <3>2. CASE s \notin gone /\ s = last
            <4>1. bytes'[s] = d
                BY <2>1, <3>2
            <4>2. p \in 1..Len(d) /\ d[p] # Zero
                BY <2>3, <4>1, NoHeads DEF HeadIn
            <4>3. d[p] = bytes[s][p]
                BY <2>1, <3>2, <4>2
            <4>4. p \in 1..Len(bytes[s])
                <5>1. Len(d) \in Nat /\ Len(bytes[s]) \in Nat
                    BY HeadTypes, LenProperties
                <5> QED
                    BY <2>1, <3>2, <4>2, <5>1
            <4> QED
                BY <2>3, <4>1, <4>3, <4>4 DEF HeadIn
        <3>3. CASE s \notin gone /\ s # last
            <4>1. bytes'[s] = bytes[s]
                BY <2>1, <3>3
            <4> QED
                BY <2>3, <4>1
        <3> QED
            BY <3>1, <3>2, <3>3
    <2>4. HeadsMove(0)
        BY <2>2, <2>3, HeadsLost
    <2> QED
        BY <1>0, <2>4
<1> QED
    BY <1>1, <1>2, <1>3, <1>4, <1>5, <1>6, <1>7 DEF WNext, Open, AppendRecord, Prune

\* Every step keeps the order of the log.
LEMMA OrderStep == ASSUME OrderInv, [Next]_vars PROVE OrderInv'
<1>1. DurInv'
    BY DurStep, TypeStep DEF OrderInv, DurInv, DurGoal
<1>2. CASE WNext \/ PowerLoss
    <2>1. PICK k \in Nat : HeadsMove(k)
        BY <1>2, HeadsStep DEF OrderInv
    <2> QED
        BY <1>1, <2>1, OrderKept DEF OrderInv
<1>3. CASE UNCHANGED << bytes, buf, nextRec >>
    BY <1>1, <1>3 DEF OrderInv, DiskOrder, BufferOrder, NextIsNew
<1>4. CASE \E c \in Consumers : Reader(c)
    <2>1. UNCHANGED << bytes, buf, nextRec >>
        BY <1>4 DEF Reader, Poll, OpenReader, Deliver, SkipCorrupt, PollEnd, PollUnloaded,
                    Commit, CloseReader, wvars, disk, proc
    <2> QED
        BY <1>3, <2>1
<1>5. CASE UNCHANGED vars
    BY <1>3, <1>5 DEF vars, wvars
<1> QED
    BY <1>2, <1>4, <1>5 DEF Next, MachinePowerLoss

\* An empty directory is in order.
LEMMA OrderInit == Init => OrderInv
<1> SUFFICES ASSUME Init PROVE OrderInv
    OBVIOUS
<1>1. (\A s \in SegIds : bytes[s] = << >>) /\ buf = << >>
    BY DEF Init, WInit
<1> QED
    BY <1>1, DurInit, NoHeads DEF OrderInv, DiskOrder, BufferOrder, NextIsNew

-----------------------------------------------------------------------------
(* The frames in a run.                                                     *)

\* A set of numbers has a least one.
LEMMA Least ==
    ASSUME NEW S \in SUBSET Nat, S # {}
    PROVE  \E n \in S : \A m \in S : n <= m
<1> DEFINE R == OpToRel(<, Nat)
<1>1. IsWellFoundedOn(R, Nat)
    BY NatLessThanWellFounded, Zenon
<1>2. PICK n \in S : \A m \in S : ~(<< m, n >> \in R)
    BY <1>1, WFMin, Zenon
<1>3. \A m \in S : << m, n >> \in R <=> m < n
    BY DEF OpToRel
<1> HIDE DEF R
<1>4. ASSUME NEW m \in S PROVE n <= m
    <2>1. ~(m < n)
        BY <1>2, <1>3
    <2> QED
        BY <2>1
<1> QED
    BY <1>4

\* A header names a record.
LEMMA HeaderNames ==
    ASSUME NEW d \in Seq(Unit), NEW i \in Nat, HeadIn(d, i)
    PROVE  /\ d[i] \in Unit /\ d[i].rec \in Records /\ d[i].part = 0
           /\ PayloadLen[d[i].rec] \in Nat \ {0}
<1>1. d[i] \in Unit
    BY ElementOfSeq DEF HeadIn
<1>2. d[i].rec \in 0..MaxRec /\ d[i].rec # 0 /\ d[i].part = 0
    BY <1>1 DEF HeadIn, IsHeader, Unit
<1>3. d[i].rec \in Records
    BY <1>2, ConstantFacts DEF Records
<1> QED
    BY <1>1, <1>2, <1>3, FramesAssumption DEF Records

\* What a part of a file holds.
LEMMA PartElements ==
    ASSUME NEW d \in Seq(Unit), NEW o \in Nat, NEW k \in Nat, o + k <= Len(d)
    PROVE  /\ SubSeq(d, o + 1, o + k) \in Seq(Unit)
           /\ Len(SubSeq(d, o + 1, o + k)) = k
           /\ \A x \in 1..k : SubSeq(d, o + 1, o + k)[x] = d[o + x]
<1>1. PICK m \in Int : m = o + 1
    OBVIOUS
<1>2. PICK n \in Int : n = o + k
    OBVIOUS
<1>3. \A x \in m..n : d[x] \in Unit
    BY <1>1, <1>2, ElementOfSeq, LenProperties
<1>4. PICK e : e = SubSeq(d, m, n)
    OBVIOUS
<1>5. /\ e \in Seq(Unit)
      /\ Len(e) = IF m <= n THEN n - m + 1 ELSE 0
      /\ \A x \in 1..n - m + 1 : e[x] = d[m + x - 1]
    BY <1>3, <1>4, SubSeqProperties
<1>6. Len(e) = k /\ \A x \in 1..k : e[x] = d[o + x]
    <2>1. n - m + 1 = k /\ \A x \in 1..k : m + x - 1 = o + x
        BY <1>1, <1>2
    <2>2. Len(e) = k
        BY <1>1, <1>2, <1>5
    <2> QED
        BY <1>5, <2>1, <2>2
<1> QED
    BY <1>1, <1>2, <1>4, <1>5, <1>6

\* In a run of frames every header is followed by its whole payload.
LEMMA FrameStands ==
    ASSUME NEW d \in Seq(Unit), WellFramed(d), NEW i \in Nat, HeadIn(d, i),
           NEW k \in 0..PayloadLen[d[i].rec]
    PROVE  i + k \in 1..Len(d) /\ d[i + k] = [rec |-> d[i].rec, part |-> k]
<1> DEFINE r == d[i].rec
           Stands(j) == i + j \in 1..Len(d) /\ d[i + j] = [rec |-> r, part |-> j]
           Missing == {j \in Nat : j <= PayloadLen[r] /\ ~Stands(j)}
<1>1. /\ d[i] \in Unit /\ IsHeader(d[i]) /\ i \in 1..Len(d) /\ Len(d) \in Nat
      /\ r \in Records /\ PayloadLen[r] \in Nat \ {0}
    BY HeaderNames, LenProperties DEF HeadIn
<1>2. Stands(0)
    BY <1>1 DEF IsHeader, Unit
<1>3. ASSUME NEW j \in Nat, j < PayloadLen[r], Stands(j) PROVE Stands(j + 1)
    <2>1. d # << >> /\ IsLast(d[Len(d)]) /\ \A x \in 1..Len(d) - 1 : Follows(d[x], d[x + 1])
        BY <1>1, EmptySeq DEF WellFramed
    <2>2. ~IsLast(d[i + j])
        BY <1>1, <1>3 DEF IsLast
    <2>3. i + j # Len(d)
        BY <2>1, <2>2
    <2>4. i + j \in 1..Len(d) - 1 /\ (i + j) + 1 = i + (j + 1) /\ i + (j + 1) \in 1..Len(d)
        BY <1>1, <1>3, <2>3
    <2>5. d[i + (j + 1)] = [rec |-> d[i + j].rec, part |-> d[i + j].part + 1]
        BY <2>1, <2>2, <2>4 DEF Follows
    <2> QED
        BY <1>3, <2>4, <2>5
<1>4. Missing = {}
    <2> SUFFICES ASSUME Missing # {} PROVE FALSE
        OBVIOUS
    <2>1. Missing \in SUBSET Nat
        OBVIOUS
    <2> HIDE DEF Stands
    <2>2. PICK j \in Missing : \A m \in Missing : j <= m
        BY <2>1, Least
    <2>3. j # 0
        BY <1>2, <2>2
    <2>4. j - 1 \in Nat /\ j - 1 < PayloadLen[r] /\ ~(j <= j - 1) /\ (j - 1) + 1 = j
        BY <1>1, <2>2, <2>3
    <2>5. j - 1 \notin Missing
        BY <2>2, <2>4
    <2>6. Stands(j - 1)
        BY <1>1, <2>4, <2>5
    <2>7. Stands(j)
        BY <1>3, <2>4, <2>6
    <2> QED
        BY <2>2, <2>7
<1>5. k \in Nat /\ k <= PayloadLen[r]
    BY <1>1
<1> HIDE DEF Stands
<1>6. Stands(k)
    BY <1>4, <1>5
<1> QED
    BY <1>6 DEF Stands

\* A record that stands complete in a file starts with its header.
LEMMA RecordsStart ==
    ASSUME NEW d \in Seq(Unit), NEW r \in RecordsIn(d)
    PROVE  \E i \in Nat : HeadIn(d, i) /\ d[i].rec = r
<1>0. Len(d) \in Nat
    BY LenProperties
<1>1. r \in Records /\ FrameLen(r) \in Nat \ {0, 1}
    BY FrameFacts DEF RecordsIn
<1>2. PICK o \in 0..Len(d) - FrameLen(r) : SubSeq(d, o + 1, o + FrameLen(r)) = Frame(r)
    BY DEF RecordsIn
<1>3. /\ o + 1 \in 1..Len(d) /\ o + 1 \in Nat /\ o + FrameLen(r) \in 0..Len(d)
      /\ o + 1 \in 1..Len(d) + 1
    BY <1>0, <1>1
<1>4. SubSeq(d, o + 1, o + FrameLen(r))[1] = d[o + 1]
    <2>1. FrameLen(r) \in Nat /\ 1 \in 1..FrameLen(r) /\ o \in Nat /\ o + FrameLen(r) <= Len(d)
        BY <1>0, <1>1, <1>3
    <2> QED
        BY <2>1, PartElements
<1>5. Frame(r)[1] = [rec |-> r, part |-> 0]
    BY <1>1 DEF Frame
<1>6. d[o + 1] = [rec |-> r, part |-> 0]
    BY <1>2, <1>4, <1>5
<1>7. r # 0
    BY <1>1 DEF Records
<1> QED
    BY <1>3, <1>6, <1>7 DEF HeadIn, IsHeader

\* The records of a run of frames are those of its headers.
LEMMA RecordsOfRun ==
    ASSUME NEW d \in Seq(Unit), WellFramed(d)
    PROVE  \A r : r \in RecordsIn(d) <=> \E i \in Nat : HeadIn(d, i) /\ d[i].rec = r
<1>1. Len(d) \in Nat
    BY LenProperties
<1>2. ASSUME NEW r \in RecordsIn(d)
      PROVE  \E i \in Nat : HeadIn(d, i) /\ d[i].rec = r
    BY RecordsStart
<1>3. ASSUME NEW i \in Nat, HeadIn(d, i) PROVE d[i].rec \in RecordsIn(d)
    <2>1. PICK r \in Records : r = d[i].rec
        BY <1>3, HeaderNames
    <2>2. /\ FrameLen(r) \in Nat \ {0, 1} /\ PayloadLen[r] \in Nat \ {0}
          /\ FrameLen(r) = 1 + PayloadLen[r]
          /\ Frame(r) \in Seq(Unit) /\ Len(Frame(r)) = FrameLen(r)
        BY FrameFacts, FramesAssumption DEF FrameLen, Records
    <2>3. \A k \in 0..PayloadLen[r] : i + k \in 1..Len(d) /\ d[i + k] = [rec |-> r, part |-> k]
        BY <1>3, <2>1, FrameStands
    <2>4. PICK o \in Nat : o = i - 1
        BY <1>3 DEF HeadIn
    <2>5. o + FrameLen(r) \in 1..Len(d)
        <3>1. PayloadLen[r] \in 0..PayloadLen[r]
            BY <2>2
        <3>2. i + PayloadLen[r] \in 1..Len(d)
            BY <2>3, <3>1, Zenon
        <3>3. o + FrameLen(r) = i + PayloadLen[r]
            BY <2>2, <2>4
        <3> QED
            BY <3>2, <3>3
    <2>6. PICK e \in Seq(Unit) : /\ e = SubSeq(d, o + 1, o + FrameLen(r))
                                /\ Len(e) = FrameLen(r)
                                /\ \A x \in 1..FrameLen(r) : e[x] = d[o + x]
        <3>1. FrameLen(r) \in Nat /\ o + FrameLen(r) <= Len(d)
            BY <2>2, <2>5
        <3> QED
            BY <3>1, PartElements
    <2>7. ASSUME NEW x \in 1..FrameLen(r) PROVE e[x] = Frame(r)[x]
        <3>1. x - 1 \in 0..PayloadLen[r] /\ i + (x - 1) = o + x
            BY <2>2, <2>4
        <3>2. d[o + x] = [rec |-> r, part |-> x - 1]
            BY <2>3, <3>1
        <3> QED
            BY <2>6, <3>2 DEF Frame
    <2>8. e = Frame(r)
        BY <2>2, <2>6, <2>7, SeqEqual
    <2>9. o \in 0..Len(d) - FrameLen(r)
        BY <1>1, <2>2, <2>5
    <2> QED
        BY <2>1, <2>6, <2>8, <2>9 DEF RecordsIn
<1> QED
    BY <1>2, <1>3

-----------------------------------------------------------------------------
(* What stands intact in a file.                                            *)

\* scan_valid_end finds one end, and the run up to it is intact.
LEMMA ValidEndFacts ==
    ASSUME NEW d \in Seq(Unit)
    PROVE  /\ \E n \in 0..Len(d) : IsValidEnd(d, n)
           /\ \A m, n \in 0..Len(d) : IsValidEnd(d, m) /\ IsValidEnd(d, n) => m = n
<1> DEFINE Framed(n) == WellFramed(SubSeq(d, 1, n))
           Rests == {k \in Nat : k <= Len(d) /\ Framed(Len(d) - k)}
<1>1. Len(d) \in Nat
    BY LenProperties
<1>2. Framed(0)
    <2>1. SubSeq(d, 1, 0) = << >>
        BY SubSeqEmpty
    <2> QED
        BY <2>1, EmptyRun
<1> HIDE DEF Framed
<1>3. Len(d) \in Rests
    <2>1. Len(d) - Len(d) = 0
        BY <1>1
    <2>2. Framed(Len(d) - Len(d))
        BY <1>2, <2>1
    <2> QED
        BY <1>1, <2>2
<1>4. PICK k \in Rests : \A x \in Rests : k <= x
    <2>1. Rests \in SUBSET Nat /\ Rests # {}
        BY <1>3
    <2> HIDE DEF Rests
    <2> QED
        BY <2>1, Least
<1>5. PICK n \in 0..Len(d) : n = Len(d) - k
    BY <1>1, <1>4
<1>6. ASSUME NEW m \in n + 1..Len(d) PROVE ~Framed(m)
    <2>1. Len(d) - m \in Nat /\ Len(d) - (Len(d) - m) = m /\ ~(k <= Len(d) - m)
        BY <1>1, <1>4, <1>5, <1>6
    <2>2. Len(d) - m \notin Rests
        BY <1>4, <2>1
    <2> QED
        BY <1>1, <2>1, <2>2
<1>7. IsValidEnd(d, n)
    BY <1>4, <1>5, <1>6 DEF IsValidEnd, Framed
<1>8. ASSUME NEW m \in 0..Len(d), NEW x \in 0..Len(d), IsValidEnd(d, m), IsValidEnd(d, x)
      PROVE  m = x
    <2>1. Framed(m) /\ Framed(x)
        BY <1>8 DEF IsValidEnd, Framed
    <2>2. m \notin x + 1..Len(d) /\ x \notin m + 1..Len(d)
        BY <1>8, <2>1 DEF IsValidEnd, Framed
    <2> QED
        BY <1>1, <2>2
<1> QED
    BY <1>7, <1>8

\* The records that stand intact in d are those of the headers up to its valid end.
LEMMA IntactRecords ==
    ASSUME NEW d \in Seq(Unit), NEW n \in 0..Len(d), IsValidEnd(d, n)
    PROVE  \A r : r \in Intact(d) <=> \E i \in Nat : i <= n /\ HeadIn(d, i) /\ d[i].rec = r
<1>1. n = CHOOSE m \in 0..Len(d) : IsValidEnd(d, m)
    BY ValidEndFacts
<1>2. PICK e \in Seq(Unit) : e = SubSeq(d, 1, n) /\ Len(e) = n /\ \A i \in 1..n : e[i] = d[i]
    BY PrefixFacts
<1>3. Intact(d) = RecordsIn(e) /\ WellFramed(e)
    BY <1>1, <1>2, Zenon DEF Intact, IsValidEnd
<1>4. \A r : r \in RecordsIn(e) <=> \E i \in Nat : HeadIn(e, i) /\ e[i].rec = r
    BY <1>3, RecordsOfRun
<1>5. \A i \in Nat : HeadIn(e, i) <=> i <= n /\ HeadIn(d, i)
    BY <1>2 DEF HeadIn
<1>6. \A i \in Nat : HeadIn(e, i) => e[i] = d[i]
    BY <1>2 DEF HeadIn
<1> QED
    BY <1>3, <1>4, <1>5, <1>6

\* All of a run of frames is intact.
LEMMA RunIsIntact ==
    ASSUME NEW d \in Seq(Unit), WellFramed(d)
    PROVE  /\ Len(d) \in 0..Len(d) /\ IsValidEnd(d, Len(d))
           /\ \A r : r \in Intact(d) <=> \E i \in Nat : HeadIn(d, i) /\ d[i].rec = r
<1>1. Len(d) \in Nat /\ Len(d) \in 0..Len(d)
    BY LenProperties
<1>2. SubSeq(d, 1, Len(d)) = d
    BY SubSeqFull
<1>3. Len(d) + 1..Len(d) = {}
    BY <1>1
<1>4. IsValidEnd(d, Len(d))
    BY <1>2, <1>3 DEF IsValidEnd
<1>5. \A i \in Nat : HeadIn(d, i) => i <= Len(d)
    BY <1>1 DEF HeadIn
<1> QED
    BY <1>1, <1>4, <1>5, IntactRecords

\* An empty file holds no record.
LEMMA NothingIntact == Intact(<< >>) = {}
<1>1. \A r : r \notin Intact(<< >>)
    BY RunIsIntact, EmptyRun, NoHeads
<1> QED
    BY <1>1

\* A run of frames holds no zeroed byte.
LEMMA NoZeroInRun ==
    ASSUME NEW d \in Seq(Unit), WellFramed(d), NEW i \in 1..Len(d)
    PROVE  d[i] # Zero
<1>1. Len(d) \in Nat /\ d # << >>
    BY LenProperties, EmptySeq
<1>2. CASE i = 1
    BY <1>1, <1>2 DEF WellFramed, IsHeader, Zero
<1>3. CASE i > 1
    <2>1. PICK j \in 1..Len(d) - 1 : i = j + 1
        <3>1. i - 1 \in 1..Len(d) - 1 /\ i = (i - 1) + 1
            BY <1>1, <1>3
        <3> QED
            BY <3>1
    <2>2. Follows(d[j], d[j + 1]) /\ d[j] \in Unit
        BY <1>1, <2>1, ElementOfSeq DEF WellFramed
    <2>3. d[j].part \in Nat
        BY <2>2 DEF Unit
    <2>4. d[j].part + 1 # 0
        BY <2>3
    <2> QED
        BY <2>1, <2>2, <2>4 DEF Follows, IsHeader, Zero
<1> QED
    BY <1>2, <1>3

\* What is left of a file, shortened or zeroed in places, holds intact no more than
\* the file did, byte for byte.
LEMMA CutRun ==
    ASSUME NEW d \in Seq(Unit), NEW e \in Seq(Unit), Len(e) <= Len(d),
           \A i \in 1..Len(e) : e[i] = d[i] \/ e[i] = Zero,
           NEW m \in 0..Len(d), IsValidEnd(d, m), NEW n \in 0..Len(e), IsValidEnd(e, n)
    PROVE  n <= m /\ \A i \in 1..n : e[i] = d[i]
<1>1. Len(d) \in Nat /\ Len(e) \in Nat
    BY LenProperties
<1>2. PICK x \in Seq(Unit) : x = SubSeq(e, 1, n) /\ Len(x) = n /\ \A i \in 1..n : x[i] = e[i]
    BY PrefixFacts
<1>3. WellFramed(x)
    BY <1>2 DEF IsValidEnd
<1>4. \A i \in 1..n : e[i] = d[i]
    <2>1. \A i \in 1..n : x[i] # Zero
        BY <1>2, <1>3, NoZeroInRun
    <2> QED
        BY <1>1, <1>2, <2>1
<1>5. SubSeq(e, 1, n) = SubSeq(d, 1, n)
    BY <1>1, <1>4, SamePrefix
<1>6. WellFramed(SubSeq(d, 1, n))
    BY <1>2, <1>3, <1>5
<1>7. n \notin m + 1..Len(d)
    BY <1>6 DEF IsValidEnd
<1> QED
    BY <1>1, <1>4, <1>7

-----------------------------------------------------------------------------
(* The log.                                                                 *)

\* The bytes of a segment, those its writer still buffers included.
Content(s) == IF wpc # "none" /\ s = active THEN bytes[s] \o buf ELSE bytes[s]

\* A directory entry becomes durable with all earlier ones.
EntryInv == \A s, t \in segments : s < t /\ t \in entryDurable => s \in entryDurable

LogInv == OrderInv /\ EntryInv

DurableIsPrefix == Abstract!IsPrefixOf(DurableRecords, LogRecords)

\* Every step keeps the durable entries first.
LEMMA EntryStep == ASSUME DurInv, EntryInv, [Next]_vars PROVE EntryInv'
<1> USE DurTypes DEF DurInv
<1>1. CASE UNCHANGED << segments, entryDurable >>
    BY <1>1 DEF EntryInv
<1>2. CASE WNext
    <2>1. CASE OpenCreate
        BY <2>1 DEF OpenCreate, EntryInv
    <2>2. CASE OpenSyncDir
        BY <2>2 DEF OpenSyncDir, EntryInv
    <2>3. CASE RotateCreate
        BY <2>3 DEF RotateCreate, EntryInv, FilesInv, WriterInv
    <2>4. CASE RotateAppend
        BY <2>4 DEF RotateAppend, EntryInv
    <2>5. CASE PruneStep
        BY <2>5 DEF PruneStep, EntryInv
    <2> QED
        BY <1>1, <1>2, <2>1, <2>2, <2>3, <2>4, <2>5, Zenon
        DEF WNext, Open, AppendRecord, Prune, OpenAppend, Append1, RotateSeal, Spill, Flush, Sync,
            PruneStart, PruneEnd, Exit, Kill, disk
<1>3. CASE \E c \in Consumers : Reader(c)
    <2>1. UNCHANGED disk
        BY <1>3 DEF Reader, Poll, OpenReader, Deliver, SkipCorrupt, PollEnd, PollUnloaded,
                    Commit, CloseReader, wvars, disk
    <2> QED
        BY <1>1, <2>1 DEF disk
<1>4. CASE PowerLoss
    BY <1>4 DEF PowerLoss, EntryInv
<1>5. CASE UNCHANGED vars
    BY <1>1, <1>5 DEF vars, wvars
<1> QED
    BY <1>2, <1>3, <1>4, <1>5 DEF Next, MachinePowerLoss

\* The inductive invariant of the log.
LEMMA LogInvariant == Spec => []LogInv
<1>1. Init => LogInv
    BY OrderInit DEF LogInv, EntryInv, Init, WInit
<1>2. LogInv /\ [Next]_vars => LogInv'
    BY OrderStep, EntryStep DEF LogInv, OrderInv
<1> QED
    BY <1>1, <1>2, PTL DEF Spec

\* What the contents of segments are: frames in order, whole but for the last.
LEMMA ContentFacts ==
    ASSUME LogInv
    PROVE  /\ \A s \in SegIds : Content(s) \in Seq(Unit) /\ Len(Content(s)) \in Nat
           /\ \A s \in segments : ~IsLatest(s) => WellFramed(Content(s)) /\ Content(s) = bytes[s]
                                                  /\ synced[s] = Len(bytes[s])
           /\ wpc # "none" => WellFramed(Content(active)) /\ active \in segments /\ IsLatest(active)
           /\ \A s \in SegIds : synced[s] \in 0..Len(bytes[s])
           /\ \A s \in SegIds : \A i \in 1..Len(bytes[s]) : Content(s)[i] = bytes[s][i]
           /\ \A s \in SegIds : Len(bytes[s]) <= Len(Content(s))
           /\ \A s, t \in SegIds, i, j \in Nat :
                 HeadIn(Content(s), i) /\ HeadIn(Content(t), j) /\ (s < t \/ (s = t /\ i < j))
                     => Content(s)[i].rec < Content(t)[j].rec
           /\ \A s \in SegIds, i \in Nat : HeadIn(Content(s), i) => Content(s)[i].rec < nextRec
<1>0. DurInv /\ EntryInv /\ DiskOrder /\ BufferOrder /\ NextIsNew
    BY DEF LogInv, OrderInv
<1>1. /\ segments \subseteq SegIds /\ segments \subseteq Nat /\ active \in SegIds
      /\ SegIds \subseteq Nat
      /\ \A s \in SegIds : bytes[s] \in Seq(Unit) /\ Len(bytes[s]) \in Nat
      /\ buf \in Seq(Unit) /\ Len(buf) \in Nat
      /\ \A s \in SegIds : synced[s] \in Nat
    BY <1>0, DurTypes, ConstantFacts DEF DurInv
<1>2. \A s \in SegIds : synced[s] \in 0..Len(bytes[s])
    BY <1>0, <1>1 DEF DurInv, SyncedInv
<1>3. ASSUME NEW s \in SegIds
      PROVE  /\ Content(s) \in Seq(Unit) /\ Len(Content(s)) \in Nat
             /\ Len(bytes[s]) <= Len(Content(s))
             /\ \A i \in Nat : HeadIn(Content(s), i) =>
                   \/ HeadIn(bytes[s], i) /\ Content(s)[i] = bytes[s][i]
                   \/ /\ wpc # "none" /\ s = active /\ Len(bytes[s]) < i
                      /\ HeadIn(buf, i - Len(bytes[s]))
                      /\ Content(s)[i] = buf[i - Len(bytes[s])]
             /\ \A i \in 1..Len(bytes[s]) : Content(s)[i] = bytes[s][i]
    <2>1. CASE wpc # "none" /\ s = active
        <3>1. PICK f \in Seq(Unit) : f = bytes[s] \o buf
            BY <1>1, ConcatProperties
        <3>2. /\ Len(f) = Len(bytes[s]) + Len(buf)
              /\ \A i \in 1..Len(bytes[s]) + Len(buf) :
                    f[i] = IF i <= Len(bytes[s]) THEN bytes[s][i] ELSE buf[i - Len(bytes[s])]
            BY <1>1, <3>1, ConcatProperties
        <3>3. Content(s) = f
            BY <2>1, <3>1 DEF Content
        <3> HIDE DEF Content
        <3>4. ASSUME NEW i \in Nat, HeadIn(f, i)
              PROVE  \/ HeadIn(bytes[s], i) /\ f[i] = bytes[s][i]
                     \/ /\ Len(bytes[s]) < i
                        /\ HeadIn(buf, i - Len(bytes[s]))
                        /\ f[i] = buf[i - Len(bytes[s])]
            BY <1>1, <3>2, <3>4 DEF HeadIn
        <3>5. \A i \in 1..Len(bytes[s]) : f[i] = bytes[s][i]
            BY <1>1, <3>2
        <3> QED
            BY <1>1, <2>1, <3>2, <3>3, <3>4, <3>5
    <2>2. CASE ~(wpc # "none" /\ s = active)
        BY <1>1, <2>2 DEF Content
    <2> QED
        BY <2>1, <2>2
<1>4. wpc # "none" => WellFramed(Content(active)) /\ active \in segments /\ IsLatest(active)
    BY <1>0 DEF DurInv, SyncedInv, WriterInv, Content, IsLatest
<1>5. ASSUME NEW s \in segments, ~IsLatest(s)
      PROVE  WellFramed(Content(s)) /\ Content(s) = bytes[s] /\ synced[s] = Len(bytes[s])
    <2>1. PICK t \in segments : s < t
        BY <1>1, <1>5 DEF IsLatest
    <2>2. synced[s] = Len(bytes[s]) /\ WellFramed(SubSeq(bytes[s], 1, synced[s]))
        BY <1>0, <1>1, <2>1 DEF DurInv, SyncedInv
    <2>3. SubSeq(bytes[s], 1, Len(bytes[s])) = bytes[s]
        BY <1>1, SubSeqFull
    <2>4. Content(s) = bytes[s]
        BY <1>4, <1>5 DEF Content
    <2> QED
        BY <2>2, <2>3, <2>4
<1>6. ASSUME NEW s \in SegIds, NEW t \in SegIds, NEW i \in Nat, NEW j \in Nat,
             HeadIn(Content(s), i), HeadIn(Content(t), j), s < t \/ (s = t /\ i < j)
      PROVE  Content(s)[i].rec < Content(t)[j].rec
    <2>1. CASE HeadIn(bytes[s], i) /\ Content(s)[i] = bytes[s][i]
        <3>1. CASE HeadIn(bytes[t], j) /\ Content(t)[j] = bytes[t][j]
            BY <1>0, <1>6, <2>1, <3>1 DEF DiskOrder
        <3>2. CASE HeadIn(buf, j - Len(bytes[t])) /\ Content(t)[j] = buf[j - Len(bytes[t])]
                   /\ Len(bytes[t]) < j
            BY <1>0, <1>1, <2>1, <3>2 DEF BufferOrder
        <3> QED
            BY <1>3, <1>6, <3>1, <3>2
    <2>2. CASE /\ wpc # "none" /\ s = active /\ Len(bytes[s]) < i
               /\ HeadIn(buf, i - Len(bytes[s])) /\ Content(s)[i] = buf[i - Len(bytes[s])]
        <3>1. t = s
            <4> SUFFICES ASSUME s < t PROVE FALSE
                BY <1>6
            <4>1. t \notin segments
                BY <1>1, <1>4, <2>2 DEF IsLatest
            <4>2. bytes[t] = << >> /\ Content(t) = bytes[t]
                BY <1>0, <1>1, <2>2, <4>1 DEF DurInv, FilesInv, Content
            <4> QED
                BY <1>6, <4>2, NoHeads
        <3>2. Len(bytes[t]) < j /\ ~HeadIn(bytes[t], j)
            BY <1>1, <1>6, <2>2, <3>1 DEF HeadIn
        <3>3. HeadIn(buf, j - Len(bytes[t])) /\ Content(t)[j] = buf[j - Len(bytes[t])]
            BY <1>3, <1>6, <3>2
        <3>4. /\ i - Len(bytes[s]) \in Nat /\ j - Len(bytes[t]) \in Nat
              /\ i - Len(bytes[s]) < j - Len(bytes[t])
            BY <1>1, <1>6, <2>2, <3>1, <3>2
        <3> QED
            BY <1>0, <2>2, <3>3, <3>4 DEF BufferOrder
    <2> QED
        BY <1>3, <1>6, <2>1, <2>2
<1>7. ASSUME NEW s \in SegIds, NEW i \in Nat, HeadIn(Content(s), i)
      PROVE  Content(s)[i].rec < nextRec
    <2>1. CASE HeadIn(bytes[s], i) /\ Content(s)[i] = bytes[s][i]
        BY <1>0, <2>1 DEF NextIsNew
    <2>2. CASE Len(bytes[s]) < i /\ HeadIn(buf, i - Len(bytes[s]))
               /\ Content(s)[i] = buf[i - Len(bytes[s])]
        <3>1. i - Len(bytes[s]) \in Nat
            BY <1>1, <2>2
        <3> QED
            BY <1>0, <2>2, <3>1 DEF NextIsNew
    <2> QED
        BY <1>3, <1>7, <2>1, <2>2
<1> QED
    BY <1>2, <1>3, <1>4, <1>5, <1>6, <1>7

\* What the log holds, and of what it is the durable part.
LEMMA LogMembers ==
    ASSUME LogInv
    PROVE  /\ \A r : r \in LogRecords <=> \E s \in segments : r \in Intact(Content(s))
           /\ \A r : r \in DurableRecords <=>
                 \E s \in entryDurable, i \in Nat :
                     i <= synced[s] /\ HeadIn(bytes[s], i) /\ bytes[s][i].rec = r
<1>1. \A r : r \in LogRecords <=> \E s \in segments : r \in Intact(Content(s))
    BY DEF LogRecords, Content
<1>2. DurInv /\ entryDurable \subseteq SegIds
    BY DurTypes DEF LogInv, OrderInv, DurInv, FilesInv
<1>3. ASSUME NEW s \in entryDurable
      PROVE  \A r : r \in Intact(SubSeq(bytes[s], 1, synced[s])) <=>
                \E i \in Nat : i <= synced[s] /\ HeadIn(bytes[s], i) /\ bytes[s][i].rec = r
    <2>1. /\ s \in SegIds /\ bytes[s] \in Seq(Unit) /\ synced[s] \in 0..Len(bytes[s])
          /\ WellFramed(SubSeq(bytes[s], 1, synced[s]))
        BY <1>2, DurTypes, ContentFacts DEF DurInv, SyncedInv
    <2>2. PICK e \in Seq(Unit) : /\ e = SubSeq(bytes[s], 1, synced[s]) /\ Len(e) = synced[s]
                                /\ \A i \in 1..synced[s] : e[i] = bytes[s][i]
        BY <2>1, PrefixFacts
    <2>3. WellFramed(e)
        BY <2>1, <2>2
    <2>4. \A r : r \in Intact(e) <=> \E i \in Nat : HeadIn(e, i) /\ e[i].rec = r
        BY <2>3, RunIsIntact
    <2>5. \A i \in Nat : HeadIn(e, i) <=> i <= synced[s] /\ HeadIn(bytes[s], i)
        BY <2>1, <2>2, LenProperties DEF HeadIn
    <2>6. \A i \in Nat : HeadIn(e, i) => e[i] = bytes[s][i]
        BY <2>2 DEF HeadIn
    <2> QED
        BY <2>2, <2>4, <2>5, <2>6
<1>4. \A r : r \in DurableRecords <=>
          \E s \in entryDurable : r \in Intact(SubSeq(bytes[s], 1, synced[s]))
    BY DEF DurableRecords
<1> QED
    BY <1>1, <1>3, <1>4

\* Where the log's records stand: up to the valid end of each segment.
LEMMA ContentEnds ==
    ASSUME LogInv, NEW s \in segments
    PROVE  \E n \in 0..Len(Content(s)) :
              /\ IsValidEnd(Content(s), n)
              /\ synced[s] <= n
              /\ ~IsLatest(s) => n = synced[s] /\ n = Len(Content(s))
              /\ \A r : r \in Intact(Content(s)) <=>
                    \E i \in Nat : i <= n /\ HeadIn(Content(s), i) /\ Content(s)[i].rec = r
<1>1. /\ s \in SegIds /\ Content(s) \in Seq(Unit) /\ synced[s] \in 0..Len(bytes[s])
      /\ Len(bytes[s]) <= Len(Content(s)) /\ Len(Content(s)) \in Nat /\ bytes[s] \in Seq(Unit)
      /\ Len(bytes[s]) \in Nat
    BY ContentFacts, DurTypes DEF LogInv, OrderInv, DurInv
<1>2. PICK n \in 0..Len(Content(s)) : IsValidEnd(Content(s), n)
    BY <1>1, ValidEndFacts
<1>3. synced[s] <= n
    <2>1. SubSeq(Content(s), 1, synced[s]) = SubSeq(bytes[s], 1, synced[s])
        <3>1. synced[s] \in Nat /\ synced[s] <= Len(Content(s)) /\ synced[s] <= Len(bytes[s])
            BY <1>1
        <3>2. \A i \in 1..synced[s] : Content(s)[i] = bytes[s][i]
            BY <1>1, ContentFacts
        <3> QED
            BY <1>1, <3>1, <3>2, SamePrefix
    <2>2. WellFramed(SubSeq(Content(s), 1, synced[s]))
        BY <1>1, <2>1 DEF LogInv, OrderInv, DurInv, SyncedInv
    <2>3. synced[s] \notin n + 1..Len(Content(s))
        BY <1>2, <2>2 DEF IsValidEnd
    <2> QED
        BY <1>1, <2>3
<1>4. ~IsLatest(s) => n = synced[s] /\ n = Len(Content(s))
    BY <1>1, <1>3, ContentFacts
<1> QED
    BY <1>1, <1>2, <1>3, <1>4, IntactRecords

\* The durable records are the first of the log.
LEMMA DurableFirst == LogInv => DurableIsPrefix
<1> SUFFICES ASSUME LogInv PROVE DurableIsPrefix
    OBVIOUS
<1>1. /\ entryDurable \subseteq segments /\ segments \subseteq SegIds /\ SegIds \subseteq Nat
      /\ \A s \in SegIds : synced[s] \in Nat /\ bytes[s] \in Seq(Unit) /\ Len(bytes[s]) \in Nat
    BY DurTypes, ConstantFacts DEF LogInv, OrderInv, DurInv, FilesInv
\* a synced header stands in the content
<1>2. ASSUME NEW s \in segments, NEW i \in Nat, i <= synced[s], HeadIn(bytes[s], i)
      PROVE  HeadIn(Content(s), i) /\ Content(s)[i] = bytes[s][i]
    BY <1>1, <1>2, ContentFacts DEF HeadIn
<1>3. DurableRecords \subseteq LogRecords
    <2> SUFFICES ASSUME NEW r \in DurableRecords PROVE r \in LogRecords
        OBVIOUS
    <2>1. PICK s \in entryDurable, i \in Nat :
              i <= synced[s] /\ HeadIn(bytes[s], i) /\ bytes[s][i].rec = r
        BY LogMembers
    <2>2. s \in segments
        BY <1>1
    <2>3. PICK n \in 0..Len(Content(s)) :
             /\ synced[s] <= n
             /\ \A x : x \in Intact(Content(s)) <=>
                   \E j \in Nat : j <= n /\ HeadIn(Content(s), j) /\ Content(s)[j].rec = x
        BY <2>2, ContentEnds
    <2>4. i <= n
        <3>1. n \in Nat /\ synced[s] \in Nat
            BY <1>1, <2>2, ContentFacts
        <3> QED
            BY <2>1, <2>3, <3>1
    <2> QED
        BY <1>2, <2>1, <2>2, <2>3, <2>4, LogMembers
<1>4. ASSUME NEW a \in DurableRecords, NEW b \in LogRecords, b < a
      PROVE  b \in DurableRecords
    <2>1. PICK s \in entryDurable, i \in Nat :
              i <= synced[s] /\ HeadIn(bytes[s], i) /\ bytes[s][i].rec = a
        BY LogMembers
    <2>2. PICK t \in segments : b \in Intact(Content(t))
        BY LogMembers
    <2>3. PICK n \in 0..Len(Content(t)) :
             /\ ~IsLatest(t) => n = synced[t] /\ n = Len(Content(t))
             /\ \A x : x \in Intact(Content(t)) <=>
                   \E j \in Nat : j <= n /\ HeadIn(Content(t), j) /\ Content(t)[j].rec = x
        BY ContentEnds
    <2>4. PICK j \in Nat : j <= n /\ HeadIn(Content(t), j) /\ Content(t)[j].rec = b
        BY <2>2, <2>3
    <2>5. s \in segments /\ s \in SegIds /\ t \in SegIds /\ s \in Nat /\ t \in Nat
        BY <1>1
    <2>6. HeadIn(Content(s), i) /\ Content(s)[i].rec = a
        BY <1>2, <2>1, <2>5
    <2>7. t < s \/ (t = s /\ j <= i)
        <3>1. a \in Nat /\ b \in Nat
            BY <2>4, <2>5, <2>6, ContentFacts, HeaderNames, ConstantFacts DEF Records
        <3>2. CASE s < t \/ (s = t /\ i < j)
            <4>1. a < b
                BY <2>4, <2>5, <2>6, <3>2, ContentFacts
            <4> QED
                BY <1>4, <3>1, <4>1
        <3> QED
            BY <2>5, <3>2
    <2>8. CASE t = s /\ j <= i
        <3>1. j <= synced[t] /\ t \in entryDurable
            BY <1>1, <2>1, <2>5, <2>8
        <3>2. HeadIn(bytes[t], j) /\ bytes[t][j].rec = b
            BY <1>1, <2>4, <2>5, <3>1, ContentFacts DEF HeadIn
        <3> QED
            BY <3>1, <3>2, LogMembers
    <2>9. CASE t < s
        <3>1. t \in entryDurable
            BY <2>5, <2>9 DEF LogInv, EntryInv
        <3>2. ~IsLatest(t)
            BY <2>5, <2>9 DEF IsLatest
        <3>3. Content(t) = bytes[t] /\ j <= synced[t]
            BY <2>3, <2>4, <3>2, ContentFacts
        <3> QED
            BY <2>4, <3>1, <3>3, LogMembers
    <2> QED
        BY <2>7, <2>8, <2>9
<1> QED
    BY <1>3, <1>4 DEF DurableIsPrefix, Abstract!IsPrefixOf

-----------------------------------------------------------------------------
(* The steps.                                                               *)

\* What the state after a step is known by.
LogView ==
    /\ DurableIsPrefix
    /\ \A r : r \in LogRecords <=> \E s \in segments : r \in Intact(Content(s))
    /\ \A r : r \in DurableRecords <=>
          \E s \in entryDurable, i \in Nat :
              i <= synced[s] /\ HeadIn(bytes[s], i) /\ bytes[s][i].rec = r

\* It follows from the invariant.
LEMMA LogSeen == LogInv => LogView
BY LogMembers, DurableFirst DEF LogView

\* A step of the log, or none.
LogStep == [Abstract!Next]_<< LogRecords, DurableRecords, nextRec >>

\* A step keeps the durable bytes of a segment.
Keeps(s) ==
    /\ s \in entryDurable'
    /\ synced[s] <= synced'[s]
    /\ \A i \in 1..synced[s] : bytes'[s][i] = bytes[s][i]

\* If it keeps those of every segment, the durable records stay.
LEMMA DurableGrows ==
    ASSUME LogInv, LogInv', LogView', \A s \in entryDurable : Keeps(s)
    PROVE  DurableRecords \subseteq DurableRecords'
<1> SUFFICES ASSUME NEW r \in DurableRecords PROVE r \in DurableRecords'
    OBVIOUS
<1>1. PICK s \in entryDurable, i \in Nat :
          i <= synced[s] /\ HeadIn(bytes[s], i) /\ bytes[s][i].rec = r
    BY LogMembers
<1>2. /\ s \in SegIds /\ synced[s] \in Nat /\ synced'[s] \in Nat
      /\ bytes[s] \in Seq(Unit) /\ bytes'[s] \in Seq(Unit)
      /\ Len(bytes[s]) \in Nat /\ Len(bytes'[s]) \in Nat /\ synced'[s] <= Len(bytes'[s])
    BY LenProperties
    DEF LogInv, OrderInv, DurInv, FilesInv, SyncedInv, TypeOK, WriterTypeOK
<1>3. i \in 1..synced[s]
    BY <1>1, <1>2 DEF HeadIn
<1>4. bytes'[s][i] = bytes[s][i] /\ s \in entryDurable' /\ i <= synced'[s] /\ i \in 1..Len(bytes'[s])
    BY <1>2, <1>3 DEF Keeps
<1>5. HeadIn(bytes'[s], i) /\ bytes'[s][i].rec = r
    BY <1>1, <1>4 DEF HeadIn
<1> QED
    BY <1>4, <1>5 DEF LogView

\* A step that keeps every segment's intact records keeps the log.
LEMMA SameLog ==
    ASSUME segments \subseteq segments',
           \A s \in segments : Intact(Content(s)') = Intact(Content(s)),
           \A s \in segments' \ segments : Intact(Content(s)') = {}
    PROVE  LogRecords' = LogRecords
<1>1. LogRecords = UNION {Intact(Content(s)) : s \in segments}
    BY DEF LogRecords, Content
<1>2. LogRecords' = UNION {Intact(Content(s)') : s \in segments'}
    BY DEF LogRecords, Content
<1> QED
    BY <1>1, <1>2

\* Bytes that move from the buffer into the file stay in the log.
LEMMA MovedLog ==
    ASSUME LogInv, wpc # "none", NEW x \in Seq(Unit), NEW y \in Seq(Unit),
           (bytes[active] \o x) \o y = bytes[active] \o buf,
           bytes' = [bytes EXCEPT ![active] = @ \o x], segments' = segments,
           \/ wpc' # "none" /\ active' = active /\ buf' = y
           \/ wpc' = "none" /\ y = << >>
    PROVE  LogRecords' = LogRecords
<1>1. /\ segments \subseteq SegIds /\ active \in SegIds /\ bytes \in [SegIds -> Seq(Unit)]
      /\ bytes[active] \o x \in Seq(Unit)
    BY DurTypes, ConcatProperties DEF LogInv, OrderInv, DurInv
<1>2. bytes'[active] = bytes[active] \o x /\ \A s \in SegIds \ {active} : bytes'[s] = bytes[s]
    BY <1>1
<1>3. ASSUME NEW s \in segments, s = active PROVE Content(s)' = Content(s)
    <2>1. Content(s) = bytes[active] \o buf
        BY <1>3 DEF Content
    <2>2. bytes'[s] \o y = bytes[active] \o buf
        BY <1>2, <1>3
    <2>3. CASE wpc' # "none" /\ active' = active /\ buf' = y
        BY <1>3, <2>1, <2>2, <2>3 DEF Content
    <2>4. CASE wpc' = "none" /\ y = << >>
        <3>1. bytes'[s] = bytes[active] \o buf
            BY <1>1, <1>2, <1>3, <2>2, <2>4, ConcatEmptySeq
        <3> QED
            BY <2>1, <2>4, <3>1 DEF Content
    <2> QED
        BY <2>3, <2>4
<1>4. \A s \in segments : s # active => Content(s)' = Content(s)
    BY <1>1, <1>2 DEF Content
<1>5. \A s \in segments : Content(s)' = Content(s)
    BY <1>3, <1>4
<1> QED
    BY <1>5, SameLog

\* The writer's steps on the active segment's bytes, and its end in order.
LEMMA MoveLogStep ==
    ASSUME LogInv, RotateSeal \/ Spill \/ Flush \/ Sync \/ Exit
    PROVE  LogRecords' = LogRecords /\ nextRec' = nextRec
<1>1. /\ bytes[active] \in Seq(Unit) /\ buf \in Seq(Unit) /\ Len(buf) \in Nat /\ active \in SegIds
    BY DurTypes DEF LogInv, OrderInv, DurInv
<1>2. CASE Spill
    <2>1. PICK n \in 1..Len(buf) - 1 :
             /\ bytes' = [bytes EXCEPT ![active] = @ \o SubSeq(buf, 1, n)]
             /\ buf' = SubSeq(buf, n + 1, Len(buf))
        BY <1>2 DEF Spill
    <2>2. n \in 0..Len(buf) /\ n + 1 \in 1..Len(buf) + 1 /\ Len(buf) \in 0..Len(buf)
        BY <1>1
    <2>3. SubSeq(buf, 1, n) \in Seq(Unit) /\ SubSeq(buf, n + 1, Len(buf)) \in Seq(Unit)
        BY <1>1, <2>2, PartFacts, PrefixFacts
    <2>4. (bytes[active] \o SubSeq(buf, 1, n)) \o SubSeq(buf, n + 1, Len(buf)) = bytes[active] \o buf
        BY <1>1, <2>2, CutAndJoin
    <2>5. /\ wpc # "none" /\ wpc' # "none" /\ active' = active /\ segments' = segments
          /\ nextRec' = nextRec
        BY <1>2 DEF Spill
    <2> QED
        BY <2>1, <2>3, <2>4, <2>5, MovedLog
<1>3. CASE RotateSeal \/ Flush \/ Sync \/ Exit
    <2>1. (bytes[active] \o buf) \o << >> = bytes[active] \o buf
        BY <1>1, ConcatProperties, ConcatEmptySeq
    <2>2. /\ wpc # "none" /\ segments' = segments /\ nextRec' = nextRec
          /\ bytes' = [bytes EXCEPT ![active] = @ \o buf]
          /\ \/ wpc' # "none" /\ active' = active /\ buf' = << >>
             \/ wpc' = "none"
        BY <1>3 DEF RotateSeal, Flush, Sync, Exit, NoProcess
    <2> QED
        BY <1>1, <2>1, <2>2, EmptyRun, MovedLog
<1> QED
    BY <1>2, <1>3

\* Opening and creating segments, and planning a prune, keep the log.
LEMMA QuietLogStep ==
    ASSUME LogInv, Open \/ RotateCreate \/ PruneStart \/ PruneEnd
    PROVE  LogRecords' = LogRecords /\ nextRec' = nextRec
<1>1. /\ segments \subseteq SegIds /\ active \in SegIds /\ bytes \in [SegIds -> Seq(Unit)]
      /\ buf \in Seq(Unit) /\ \A s \in SegIds : bytes[s] \in Seq(Unit)
      /\ (wpc \in {"none", "opening", "sealed", "created"} => buf = << >>)
      /\ DurInv
    BY DurTypes DEF LogInv, OrderInv, DurInv, WriterInv
<1>2. CASE OpenCreate
    <2>1. /\ segments = {} /\ segments' = {0} /\ wpc' = "opening" /\ active' = 0
          /\ bytes' = bytes /\ buf' = buf /\ nextRec' = nextRec /\ wpc = "none"
        BY <1>2 DEF OpenCreate
    <2>2. bytes[0] = << >> /\ buf = << >>
        BY <1>1, <2>1, ConstantFacts DEF DurInv, FilesInv
    <2>3. Content(0)' = << >>
        BY <2>1, <2>2, EmptyRun, ConcatEmptySeq DEF Content
    <2> QED
        BY <2>1, <2>3, SameLog, NothingIntact
<1>3. CASE OpenSyncDir \/ PruneStart \/ PruneEnd
    <2>1. /\ UNCHANGED << segments, bytes, active, buf, nextRec >>
          /\ wpc # "none" /\ wpc' # "none"
        BY <1>3 DEF OpenSyncDir, PruneStart, PruneEnd, disk
    <2>2. \A s \in segments : Content(s)' = Content(s)
        BY <2>1 DEF Content
    <2> QED
        BY <2>1, <2>2, SameLog
<1>4. CASE OpenAppend
    <2>1. PICK last \in segments :
             /\ \E n \in 0..Len(bytes[last]) :
                 /\ IsValidEnd(bytes[last], n)
                 /\ bytes' = [bytes EXCEPT ![last] = SubSeq(@, 1, n)]
             /\ active' = last
        BY <1>4 DEF OpenAppend
    <2>2. PICK n \in 0..Len(bytes[last]) :
             /\ IsValidEnd(bytes[last], n)
             /\ bytes' = [bytes EXCEPT ![last] = SubSeq(@, 1, n)]
        BY <2>1
    <2>3. /\ wpc = "none" /\ wpc' = "idle" /\ buf = << >> /\ buf' = << >>
          /\ UNCHANGED << segments, nextRec >>
        BY <1>1, <1>4 DEF OpenAppend
    <2>4. PICK e \in Seq(Unit) : /\ e = SubSeq(bytes[last], 1, n) /\ Len(e) = n
                                /\ \A i \in 1..n : e[i] = bytes[last][i]
        BY <1>1, <2>1, PrefixFacts
    <2>5. WellFramed(e)
        BY <2>2, <2>4 DEF IsValidEnd
    <2>6. bytes'[last] = e /\ \A s \in SegIds \ {last} : bytes'[s] = bytes[s]
        BY <1>1, <2>1, <2>2, <2>4
    <2>7. Content(last)' = e /\ Content(last) = bytes[last]
        BY <2>1, <2>3, <2>4, <2>6, ConcatEmptySeq DEF Content
    <2>8. Intact(e) = Intact(bytes[last])
        <3>1. bytes[last] \in Seq(Unit) /\ Len(bytes[last]) \in Nat
            BY <1>1, <2>1, LenProperties
        <3>2. \A r : r \in Intact(bytes[last]) <=>
                 \E i \in Nat : i <= n /\ HeadIn(bytes[last], i) /\ bytes[last][i].rec = r
            BY <2>2, <3>1, IntactRecords
        <3>3. \A r : r \in Intact(e) <=> \E i \in Nat : HeadIn(e, i) /\ e[i].rec = r
            BY <2>5, RunIsIntact
        <3>4. \A i \in Nat : HeadIn(e, i) <=> i <= n /\ HeadIn(bytes[last], i)
            BY <2>4, <3>1 DEF HeadIn
        <3>5. \A i \in Nat : HeadIn(e, i) => e[i] = bytes[last][i]
            BY <2>4 DEF HeadIn
        <3>6. \A r : r \in Intact(e) <=> r \in Intact(bytes[last])
            BY <3>2, <3>3, <3>4, <3>5
        <3> QED
            BY <3>6
    <2>9. ASSUME NEW s \in segments, s # last PROVE Content(s)' = Content(s)
        BY <1>1, <2>1, <2>3, <2>6, <2>9 DEF Content
    <2>10. \A s \in segments : Intact(Content(s)') = Intact(Content(s))
        BY <2>7, <2>8, <2>9
    <2> QED
        BY <2>3, <2>10, SameLog
<1>5. CASE RotateCreate
    <2>1. PICK new \in SegIds : new = nextId
        BY <1>5 DEF RotateCreate
    <2>2. /\ wpc = "sealed" /\ wpc' = "created"
          /\ segments' = segments \cup {new}
          /\ active' = new /\ buf' = << >> /\ buf = << >> /\ nextRec' = nextRec
          /\ bytes' = [bytes EXCEPT ![new] = << >>]
        BY <1>1, <1>5, <2>1 DEF RotateCreate
    <2>3. new \notin segments
        BY <1>1, <2>1, <2>2, DurTypes DEF DurInv, WriterInv
    <2>4. bytes'[new] = << >> /\ \A s \in SegIds \ {new} : bytes'[s] = bytes[s]
        BY <1>1, <2>2
    <2>5. Content(new)' = << >>
        BY <2>2, <2>4, EmptyRun, ConcatEmptySeq DEF Content
    <2>6. ASSUME NEW s \in segments PROVE Content(s)' = Content(s)
        <3>1. s # new /\ bytes'[s] = bytes[s] /\ bytes[s] \in Seq(Unit)
            BY <1>1, <2>3, <2>4
        <3> QED
            BY <2>2, <3>1, ConcatEmptySeq DEF Content
    <2> QED
        BY <2>2, <2>5, <2>6, SameLog, NothingIntact
<1> QED
    BY <1>2, <1>3, <1>4, <1>5 DEF Open

\* append adds the next record to the log, in the segment there is or in a new one.
LEMMA AppendLogStep ==
    ASSUME LogInv, Append1 \/ RotateAppend
    PROVE  /\ nextRec \in Records /\ nextRec' = nextRec + 1
           /\ \A r : r \in LogRecords' <=> r \in LogRecords \/ r = nextRec
<1>1. /\ segments \subseteq SegIds /\ active \in SegIds /\ bytes[active] \in Seq(Unit)
      /\ buf \in Seq(Unit) /\ bytes[active] \o buf \in Seq(Unit)
      /\ (wpc \in {"none", "opening", "sealed", "created"} => buf = << >>)
    BY DurTypes, ConcatProperties DEF LogInv, OrderInv, DurInv, WriterInv
<1>2. PICK r \in Records : r = nextRec
    BY DEF LogInv, OrderInv, DurInv, TypeOK, WriterTypeOK, Append1, RotateAppend
<1>3. Frame(r) \in Seq(Unit) /\ WellFramed(Frame(r)) /\ Len(Frame(r)) \in Nat
    BY FrameFacts, LenProperties
<1>4. /\ buf' = buf \o Frame(r) /\ nextRec' = r + 1
      /\ wpc # "none" /\ wpc' # "none"
      /\ UNCHANGED << segments, bytes, active >>
    <2>1. CASE Append1
        BY <1>2, <2>1 DEF Append1, disk
    <2>2. CASE RotateAppend
        BY <1>1, <1>2, <1>3, <2>2, ConcatEmptySeq DEF RotateAppend
    <2> QED
        BY <2>1, <2>2
<1>5. PICK a \in segments : a = active /\ IsLatest(a) /\ WellFramed(Content(a))
    BY <1>4, ContentFacts
<1>6. PICK d \in Seq(Unit) : d = bytes[active] \o buf /\ d = Content(a) /\ WellFramed(d)
    BY <1>1, <1>4, <1>5 DEF Content
<1>7. Content(a)' = d \o Frame(r)
    <2>1. PICK x \in Seq(Unit), y \in Seq(Unit), z \in Seq(Unit) :
              x = bytes[active] /\ y = buf /\ z = Frame(r)
        BY <1>1, <1>3
    <2>2. (x \o y) \o z = x \o (y \o z)
        BY ONLY ConcatAssociative, x \in Seq(Unit), y \in Seq(Unit), z \in Seq(Unit), SMTT(20)
    <2>3. Content(a)' = x \o (y \o z)
        BY <1>4, <1>5, <2>1 DEF Content
    <2> QED
        BY <1>6, <2>1, <2>2, <2>3
<1>8. PICK f \in Seq(Unit) : /\ f = d \o Frame(r) /\ WellFramed(f)
                            /\ Len(f) = Len(d) + Len(Frame(r))
                            /\ \A i \in 1..Len(d) + Len(Frame(r)) :
                                  f[i] = IF i <= Len(d) THEN d[i] ELSE Frame(r)[i - Len(d)]
    <2>1. PICK e \in Seq(Unit) : e = Frame(r) /\ WellFramed(e)
        BY <1>3
    <2>2. /\ d \o e \in Seq(Unit) /\ Len(d \o e) = Len(d) + Len(e)
          /\ \A i \in 1..Len(d) + Len(e) : (d \o e)[i] = IF i <= Len(d) THEN d[i] ELSE e[i - Len(d)]
        BY ConcatProperties
    <2>3. WellFramed(d \o e)
        BY <1>6, <2>1, WellFramedConcat
    <2> QED
        BY <2>1, <2>2, <2>3
<1>9. \A x : x \in Intact(f) <=> x \in Intact(d) \/ x = r
    <2>1. /\ \A x : x \in Intact(f) <=> \E i \in Nat : HeadIn(f, i) /\ f[i].rec = x
          /\ \A x : x \in Intact(d) <=> \E i \in Nat : HeadIn(d, i) /\ d[i].rec = x
        BY <1>6, <1>8, RunIsIntact
    <2>2. Len(d) \in Nat /\ Len(f) \in Nat
        BY LenProperties
    <2>3. ASSUME NEW i \in Nat, HeadIn(d, i) PROVE HeadIn(f, i) /\ f[i] = d[i]
        BY <1>3, <1>8, <2>2, <2>3 DEF HeadIn
    <2>4. ASSUME NEW i \in Nat, HeadIn(f, i), ~HeadIn(d, i) PROVE f[i].rec = r
        <3>1. i - Len(d) \in Nat /\ HeadIn(Frame(r), i - Len(d)) /\ f[i] = Frame(r)[i - Len(d)]
            BY <1>3, <1>8, <2>2, <2>4 DEF HeadIn
        <3> QED
            BY <3>1, FrameHead
    <2>5. \E i \in Nat : HeadIn(f, i) /\ f[i].rec = r
        <3>1. Frame(r)[1] = [rec |-> r, part |-> 0] /\ Len(Frame(r)) >= 1 /\ r # 0
            BY <1>3, FrameFacts DEF Frame, Records
        <3>2. /\ Len(d) + 1 \in 1..Len(d) + Len(Frame(r)) /\ ~(Len(d) + 1 <= Len(d))
              /\ (Len(d) + 1) - Len(d) = 1
            BY <1>3, <2>2, <3>1
        <3>3. f[Len(d) + 1] = [rec |-> r, part |-> 0]
            BY <1>8, <3>1, <3>2
        <3> QED
            BY <1>8, <2>2, <3>1, <3>2, <3>3 DEF HeadIn, IsHeader
    <2>6. ASSUME NEW i \in Nat, HeadIn(f, i) PROVE f[i].rec \in Intact(d) \/ f[i].rec = r
        <3>1. CASE HeadIn(d, i)
            BY <2>1, <2>3, <3>1
        <3> QED
            BY <2>4, <2>6, <3>1
    <2>7. ASSUME NEW x \in Intact(d) PROVE x \in Intact(f)
        BY <2>1, <2>3
    <2> QED
        BY <2>1, <2>5, <2>6, <2>7
<1>10. \A s \in segments : s # a => Content(s)' = Content(s)
    BY <1>4, <1>5 DEF Content
<1>11. Intact(Content(a)) = Intact(d) /\ Intact(Content(a)') = Intact(f)
    BY <1>6, <1>7, <1>8
<1>12. LogRecords = UNION {Intact(Content(s)) : s \in segments}
    BY DEF LogRecords, Content
<1>13. LogRecords' = UNION {Intact(Content(s)') : s \in segments}
    BY <1>4 DEF LogRecords, Content
<1> HIDE DEF Content
<1>14. ASSUME NEW x PROVE x \in LogRecords' <=> x \in LogRecords \/ x = r
    BY <1>5, <1>9, <1>10, <1>11, <1>12, <1>13
<1> QED
    BY <1>2, <1>4, <1>14

\* A crash leaves of the log an initial part: what is lost of the last segment is at
\* its end, what is lost of the directory are the last segments.
LEMMA CutLog ==
    ASSUME LogInv, LogView', TypeOK', segments' \subseteq segments,
           \A s \in segments', t \in segments : t < s => t \in segments',
           NEW last \in segments, IsLatest(last),
           \A s \in segments' : s # last => Content(s)' = Content(s),
           last \in segments' =>
               /\ Content(last)' \in Seq(Unit)
               /\ Len(Content(last)') <= Len(Content(last))
               /\ \A i \in 1..Len(Content(last)') :
                     Content(last)'[i] = Content(last)[i] \/ Content(last)'[i] = Zero
    PROVE  Abstract!IsPrefixOf(LogRecords', LogRecords)
<1>1. segments \subseteq SegIds /\ SegIds \subseteq Nat
    BY DurTypes, ConstantFacts DEF LogInv, OrderInv, DurInv
\* where the records of what is left of a segment stand
<1> DEFINE Rest(e, d) ==
        \E n, m \in Nat :
            /\ n <= m
            /\ \A r : r \in Intact(e) <=> \E i \in Nat : i <= n /\ HeadIn(d, i) /\ d[i].rec = r
            /\ \A r : r \in Intact(d) <=> \E i \in Nat : i <= m /\ HeadIn(d, i) /\ d[i].rec = r
<1>2. ASSUME NEW s \in segments' PROVE Rest(Content(s)', Content(s))
    <2>1. PICK d \in Seq(Unit) : d = Content(s) /\ Len(d) \in Nat
        BY <1>1, ContentFacts
    <2>2. PICK m \in 0..Len(d) :
             /\ IsValidEnd(d, m)
             /\ \A r : r \in Intact(d) <=> \E i \in Nat : i <= m /\ HeadIn(d, i) /\ d[i].rec = r
        BY ContentEnds, <2>1
    <2>3. m \in Nat /\ m <= m
        BY <2>1
    <2>4. CASE s # last
        <3>1. Content(s)' = d
            BY <2>1, <2>4
        <3>2. Rest(d, d)
            BY <2>2, <2>3
        <3> HIDE DEF Rest
        <3> QED
            BY <2>1, <3>1, <3>2
    <2>5. CASE s = last
        <3>1. PICK e \in Seq(Unit) : e = Content(s)'
            BY <2>5
        <3>2. Len(e) <= Len(d) /\ \A i \in 1..Len(e) : e[i] = d[i] \/ e[i] = Zero
            BY <2>1, <2>5, <3>1
        <3>3. PICK n \in 0..Len(e) : IsValidEnd(e, n)
            BY ValidEndFacts
        <3>4. n <= m /\ \A i \in 1..n : e[i] = d[i]
            BY <2>2, <3>2, <3>3, CutRun
        <3>5. \A r : r \in Intact(e) <=> \E i \in Nat : i <= n /\ HeadIn(e, i) /\ e[i].rec = r
            BY <3>3, IntactRecords
        <3>6. n \in Nat /\ Len(e) \in Nat
            BY <3>3, LenProperties
        <3>7. \A i \in Nat : i <= n /\ HeadIn(e, i) <=> i <= n /\ HeadIn(d, i)
            BY <2>1, <3>2, <3>3, <3>4, <3>6 DEF HeadIn
        <3>8. \A i \in Nat : i <= n /\ HeadIn(e, i) => e[i] = d[i]
            BY <3>4, <3>6 DEF HeadIn
        <3>9. \A r : r \in Intact(e) <=> \E i \in Nat : i <= n /\ HeadIn(d, i) /\ d[i].rec = r
            BY <3>5, <3>7, <3>8
        <3>10. Rest(e, d)
            BY <2>2, <2>3, <3>4, <3>6, <3>9
        <3> HIDE DEF Rest
        <3> QED
            BY <2>1, <3>1, <3>10
    <2> QED
        BY <2>4, <2>5
<1>3. LogRecords' \subseteq LogRecords
    <2> SUFFICES ASSUME NEW a \in LogRecords' PROVE a \in LogRecords
        OBVIOUS
    <2>1. PICK s \in segments' : a \in Intact(Content(s)')
        BY DEF LogView
    <2>2. PICK n \in Nat, m \in Nat :
             /\ n <= m
             /\ \A r : r \in Intact(Content(s)') <=>
                   \E i \in Nat : i <= n /\ HeadIn(Content(s), i) /\ Content(s)[i].rec = r
             /\ \A r : r \in Intact(Content(s)) <=>
                   \E i \in Nat : i <= m /\ HeadIn(Content(s), i) /\ Content(s)[i].rec = r
        BY <1>2
    <2>3. \A i \in Nat : i <= n => i <= m
        BY <2>2
    <2>4. a \in Intact(Content(s))
        BY <2>1, <2>2, <2>3
    <2> QED
        BY <2>4, LogMembers
<1>4. ASSUME NEW a \in LogRecords', NEW b \in LogRecords, b < a
      PROVE  b \in LogRecords'
    <2>1. PICK s \in segments' : a \in Intact(Content(s)')
        BY DEF LogView
    <2>2. PICK n \in Nat, m \in Nat :
             /\ \A r : r \in Intact(Content(s)') <=>
                   \E i \in Nat : i <= n /\ HeadIn(Content(s), i) /\ Content(s)[i].rec = r
             /\ \A r : r \in Intact(Content(s)) <=>
                   \E i \in Nat : i <= m /\ HeadIn(Content(s), i) /\ Content(s)[i].rec = r
        BY <1>2
    <2>3. PICK i \in Nat : i <= n /\ HeadIn(Content(s), i) /\ Content(s)[i].rec = a
        BY <2>1, <2>2
    <2>4. PICK t \in segments : b \in Intact(Content(t))
        BY LogMembers
    <2>5. PICK j \in Nat : HeadIn(Content(t), j) /\ Content(t)[j].rec = b
        BY <2>4, ContentEnds
    <2>6. s \in SegIds /\ t \in SegIds /\ s \in Nat /\ t \in Nat
        BY <1>1
    <2>7. t < s \/ (t = s /\ j <= i)
        <3>1. a \in Nat /\ b \in Nat
            BY <2>3, <2>5, <2>6, ContentFacts, HeaderNames, ConstantFacts DEF Records
        <3>2. CASE s < t \/ (s = t /\ i < j)
            <4>1. a < b
                BY <2>3, <2>5, <2>6, <3>2, ContentFacts
            <4> QED
                BY <1>4, <3>1, <4>1
        <3> QED
            BY <2>6, <3>2
    <2>8. CASE t = s /\ j <= i
        <3>1. j <= n
            BY <2>3, <2>8
        <3>2. b \in Intact(Content(s)')
            BY <2>2, <2>5, <2>8, <3>1
        <3> QED
            BY <3>2 DEF LogView
    <2>9. CASE t < s
        <3>1. t # last /\ t \in segments'
            BY <2>6, <2>9 DEF IsLatest
        <3>2. b \in Intact(Content(t)')
            BY <2>4, <3>1
        <3> QED
            BY <3>1, <3>2 DEF LogView
    <2> QED
        BY <2>7, <2>8, <2>9
<1> QED
    BY <1>3, <1>4 DEF Abstract!IsPrefixOf

\* A killed writer takes with it what it buffered, the end of the log.
LEMMA KillLogStep ==
    ASSUME LogInv, LogView', TypeOK', Kill
    PROVE  /\ Abstract!IsPrefixOf(LogRecords', LogRecords) /\ nextRec' = nextRec
           /\ \A s \in entryDurable : Keeps(s)
<1>1. /\ wpc # "none" /\ wpc' = "none" /\ nextRec' = nextRec
      /\ UNCHANGED << segments, bytes, synced, entryDurable >>
    BY DEF Kill, NoProcess, disk
<1>2. PICK last \in segments : last = active /\ IsLatest(last)
    BY <1>1, ContentFacts
<1>3. \A s \in segments : Content(s)' = bytes[s]
    BY <1>1 DEF Content
<1>4. \A s \in segments : s # last => Content(s)' = Content(s)
    BY <1>1, <1>2 DEF Content
<1>5. /\ last \in SegIds /\ bytes[last] \in Seq(Unit) /\ Len(bytes[last]) <= Len(Content(last))
      /\ \A i \in 1..Len(bytes[last]) : Content(last)[i] = bytes[last][i]
    BY DurTypes, ContentFacts DEF LogInv, OrderInv, DurInv
<1>6. PICK e \in Seq(Unit) : e = bytes[last] /\ e = Content(last)'
    BY <1>3, <1>5
<1>7. \A i \in 1..Len(e) : e[i] = Content(last)[i]
    BY <1>5, <1>6
<1>8. Abstract!IsPrefixOf(LogRecords', LogRecords)
    BY <1>1, <1>2, <1>4, <1>5, <1>6, <1>7, CutLog
<1>9. \A s \in entryDurable : Keeps(s)
    <2>1. \A s \in entryDurable : synced[s] \in Nat
        BY DurTypes DEF LogInv, OrderInv, DurInv, FilesInv
    <2> QED
        BY <1>1, <2>1 DEF Keeps
<1> QED
    BY <1>1, <1>8, <1>9

\* A power loss takes the end of the log, from what was not synced or not yet an entry
\* of the directory.
LEMMA PowerLogStep ==
    ASSUME LogInv, LogView', TypeOK', PowerLoss
    PROVE  /\ Abstract!IsPrefixOf(LogRecords', LogRecords) /\ nextRec' = nextRec
           /\ \A s \in entryDurable : Keeps(s)
<1>0. /\ TypeOK /\ DurInv /\ segments \subseteq SegIds /\ bytes \in [SegIds -> Seq(Unit)]
      /\ entryDurable \subseteq segments
      /\ \A s \in SegIds : synced[s] \in Nat
    BY DurTypes DEF LogInv, OrderInv, DurInv, FilesInv
<1>1. PICK last \in segments, gone \in SUBSET (segments \ entryDurable), d \in Seq(Unit) :
         /\ IsLatest(last)
         /\ \A s \in gone, t \in segments : s < t => t \in gone
         /\ segments' = segments \ gone
         /\ entryDurable' = segments'
         /\ bytes' = [s \in SegIds |-> IF s \in gone THEN << >>
                                       ELSE IF s = last THEN d ELSE bytes[s]]
         /\ synced' = [s \in SegIds |-> IF s \in gone THEN 0 ELSE synced[s]]
         /\ Len(d) <= Len(bytes[last])
         /\ \A i \in 1..synced[last] : d[i] = bytes[last][i]
         /\ \A i \in 1..Len(d) : d[i] = bytes[last][i] \/ d[i] = Zero
    BY <1>0, PowerLossEffect
<1>2. wpc' = "none" /\ nextRec' = nextRec
    BY DEF PowerLoss, NoProcess
<1>3. \A s \in SegIds \ gone : /\ synced'[s] = synced[s]
                               /\ bytes'[s] = IF s = last THEN d ELSE bytes[s]
    BY <1>1
<1>4. ASSUME NEW s \in segments', s # last PROVE Content(s)' = Content(s)
    <2>1. Content(s)' = bytes[s]
        BY <1>0, <1>1, <1>2, <1>3, <1>4 DEF Content
    <2>2. Content(s) = bytes[s]
        <3>1. s \in segments /\ s \in Nat /\ last \in Nat
            BY <1>0, <1>1, <1>4, ConstantFacts
        <3>2. ~IsLatest(s)
            BY <1>1, <1>4, <3>1 DEF IsLatest
        <3> QED
            BY <3>1, <3>2, ContentFacts
    <2> QED
        BY <2>1, <2>2
<1>5. ASSUME last \in segments'
      PROVE  /\ Content(last)' \in Seq(Unit)
             /\ Len(Content(last)') <= Len(Content(last))
             /\ \A i \in 1..Len(Content(last)') :
                   Content(last)'[i] = Content(last)[i] \/ Content(last)'[i] = Zero
    <2>1. Content(last)' = d
        BY <1>0, <1>1, <1>2, <1>3, <1>5 DEF Content
    <2>2. /\ Len(bytes[last]) <= Len(Content(last)) /\ Content(last) \in Seq(Unit)
          /\ Len(bytes[last]) \in Nat /\ Len(Content(last)) \in Nat /\ Len(d) \in Nat
          /\ \A i \in 1..Len(bytes[last]) : Content(last)[i] = bytes[last][i]
        BY <1>0, ContentFacts, LenProperties
    <2>3. \A i \in 1..Len(d) : d[i] = Content(last)[i] \/ d[i] = Zero
        BY <1>1, <2>2
    <2>4. Len(d) <= Len(Content(last))
        BY <1>1, <2>2
    <2> QED
        BY <2>1, <2>3, <2>4, Zenon
<1>6. \A s \in segments', t \in segments : t < s => t \in segments'
    BY <1>1
<1>7. Abstract!IsPrefixOf(LogRecords', LogRecords)
    BY <1>1, <1>4, <1>5, <1>6, CutLog
<1>8. ASSUME NEW s \in entryDurable PROVE Keeps(s)
    <2>1. s \in segments \ gone /\ s \in SegIds /\ s \in entryDurable'
        BY <1>0, <1>1
    <2>2. synced'[s] = synced[s] /\ synced[s] \in Nat
        BY <1>0, <1>3, <2>1
    <2>3. CASE s = last
        <3>1. bytes'[s] = d
            BY <1>3, <2>1, <2>3
        <3> QED
            BY <1>1, <2>1, <2>2, <2>3, <3>1 DEF Keeps
    <2>4. CASE s # last
        <3>1. bytes'[s] = bytes[s]
            BY <1>3, <2>1, <2>4
        <3> QED
            BY <2>1, <2>2, <3>1 DEF Keeps
    <2> QED
        BY <2>3, <2>4
<1> QED
    BY <1>2, <1>7, <1>8

\* prune takes the first records of the log, durable or not, and keeps the others.
LEMMA PruneLogStep ==
    ASSUME LogInv, LogView', PruneStep
    PROVE  Abstract!Trim
<1>0. /\ TypeOK /\ DurInv /\ segments \subseteq SegIds /\ bytes \in [SegIds -> Seq(Unit)]
      /\ entryDurable \subseteq segments /\ SegIds \subseteq Nat
      /\ synced \in [SegIds -> Nat]
    BY DurTypes, ConstantFacts DEF LogInv, OrderInv, DurInv, FilesInv
<1>1. PICK s \in segments :
         /\ IsLeast(s, segments) /\ s < active
         /\ segments' = segments \ {s}
         /\ bytes' = [bytes EXCEPT ![s] = << >>]
         /\ synced' = [synced EXCEPT ![s] = 0]
         /\ entryDurable' = entryDurable \ {s}
    BY DEF PruneStep
<1>2. UNCHANGED << wpc, active, buf, nextRec >>
    BY DEF PruneStep, proc
<1>3. \A t \in SegIds \ {s} : bytes'[t] = bytes[t] /\ synced'[t] = synced[t]
    BY <1>0, <1>1
<1>4. ASSUME NEW t \in segments' PROVE Content(t)' = Content(t) /\ t \in segments /\ t # s
    BY <1>0, <1>1, <1>2, <1>3 DEF Content
\* a record of the log stands in one segment only
<1>5. ASSUME NEW r, NEW t \in segments, NEW u \in segments, NEW i \in Nat, NEW j \in Nat,
             HeadIn(Content(t), i), Content(t)[i].rec = r,
             HeadIn(Content(u), j), Content(u)[j].rec = r
      PROVE  t = u
    <2>1. /\ t \in SegIds /\ u \in SegIds /\ t \in Nat /\ u \in Nat /\ Content(t) \in Seq(Unit)
        BY <1>0, ContentFacts
    <2>2. r \in Nat
        BY <1>5, <2>1, HeaderNames, ConstantFacts DEF Records
    <2>3. ~(t < u) /\ ~(u < t)
        <3>1. ~(r < r)
            BY <2>2
        <3>2. t < u => r < r
            BY <1>5, <2>1, ContentFacts
        <3>3. u < t => r < r
            BY <1>5, <2>1, ContentFacts
        <3> QED
            BY <3>1, <3>2, <3>3
    <2> QED
        BY <2>1, <2>3
<1>6. ASSUME NEW t \in segments, NEW r \in Intact(Content(t))
      PROVE  \E i \in Nat : HeadIn(Content(t), i) /\ Content(t)[i].rec = r
    BY <1>6, ContentEnds
<1>7. \A r : r \in LogRecords' <=> \E t \in segments : t # s /\ r \in Intact(Content(t))
    BY <1>1, <1>4 DEF LogView
<1>8. LogRecords' \subseteq LogRecords
    BY <1>7, LogMembers
<1>9. ASSUME NEW a \in LogRecords \ LogRecords', NEW b \in LogRecords, b < a
      PROVE  b \notin LogRecords'
    <2> SUFFICES ASSUME b \in LogRecords' PROVE FALSE
        OBVIOUS
    <2>1. PICK t \in segments : t # s /\ b \in Intact(Content(t))
        BY <1>7
    <2>2. a \in Intact(Content(s))
        BY <1>7, <1>9, LogMembers
    <2>3. PICK j \in Nat : HeadIn(Content(t), j) /\ Content(t)[j].rec = b
        BY <1>6, <2>1
    <2>4. PICK i \in Nat : HeadIn(Content(s), i) /\ Content(s)[i].rec = a
        BY <1>6, <2>2
    <2>5. s \in SegIds /\ t \in SegIds /\ s < t
        BY <1>0, <1>1, <2>1 DEF IsLeast
    <2>6. a < b
        BY <2>3, <2>4, <2>5, ContentFacts
    <2>7. a \in Nat /\ b \in Nat
        BY <2>3, <2>4, <2>5, ContentFacts, HeaderNames, ConstantFacts DEF Records
    <2> QED
        BY <1>9, <2>6, <2>7
<1>10. DurableRecords' \subseteq DurableRecords
    <2> SUFFICES ASSUME NEW r \in DurableRecords' PROVE r \in DurableRecords
        OBVIOUS
    <2>1. PICK t \in entryDurable', i \in Nat :
              i <= synced'[t] /\ HeadIn(bytes'[t], i) /\ bytes'[t][i].rec = r
        BY DEF LogView
    <2>2. t \in entryDurable /\ t \in SegIds \ {s}
        BY <1>0, <1>1, <2>1
    <2> QED
        BY <1>3, <2>1, <2>2, LogMembers
<1>11. DurableRecords' \subseteq LogRecords'
    BY DEF LogView, DurableIsPrefix, Abstract!IsPrefixOf
<1>12. ASSUME NEW r \in DurableRecords, r \in LogRecords' PROVE r \in DurableRecords'
    <2>1. PICK t \in entryDurable, i \in Nat :
              i <= synced[t] /\ HeadIn(bytes[t], i) /\ bytes[t][i].rec = r
        BY LogMembers
    <2>2. t \in segments /\ t \in SegIds
        BY <1>0
    <2>3. HeadIn(Content(t), i) /\ Content(t)[i].rec = r
        BY <1>0, <2>1, <2>2, ContentFacts, LenProperties DEF HeadIn
    <2>4. PICK u \in segments : u # s /\ r \in Intact(Content(u))
        BY <1>7, <1>12
    <2>5. t # s
        BY <1>5, <1>6, <2>2, <2>3, <2>4
    <2>6. t \in entryDurable' /\ bytes'[t] = bytes[t] /\ synced'[t] = synced[t]
        BY <1>1, <1>3, <2>2, <2>5
    <2>7. \E v \in entryDurable', j \in Nat :
              j <= synced'[v] /\ HeadIn(bytes'[v], j) /\ bytes'[v][j].rec = r
        BY <2>1, <2>6
    <2> QED
        BY <2>7 DEF LogView
<1>13. DurableRecords' = DurableRecords \cap LogRecords'
    BY <1>10, <1>11, <1>12
<1> QED
    BY <1>2, <1>8, <1>9, <1>13 DEF Abstract!Trim, Abstract!IsPrefixOf

\* A step that keeps the log and what is durable of it hardens the log.
LEMMA HardenStep ==
    ASSUME LogRecords' = LogRecords, nextRec' = nextRec,
           DurableRecords \subseteq DurableRecords', DurableIsPrefix'
    PROVE  LogStep
BY DEF LogStep, DurableIsPrefix, Abstract!Next, Abstract!Harden, Abstract!IsPrefixOf

\* Every step of the writer keeps what is durable, but for a step of prune.
LEMMA WriterKeeps ==
    ASSUME LogInv, LogInv', WNext, ~PruneStep
    PROVE  \A s \in entryDurable : Keeps(s)
<1>0. /\ DurInv /\ entryDurable \subseteq SegIds
      /\ \A s \in SegIds : /\ synced[s] \in 0..Len(bytes[s]) /\ bytes[s] \in Seq(Unit)
                           /\ Len(bytes[s]) \in Nat /\ synced[s] \in Nat
      /\ bytes \in [SegIds -> Seq(Unit)] /\ active \in SegIds /\ buf \in Seq(Unit)
    BY DurTypes, ContentFacts DEF LogInv, OrderInv, DurInv, FilesInv
<1>1. \A s \in SegIds : /\ bytes'[s] \in Seq(Unit) /\ Len(bytes'[s]) \in Nat
                        /\ synced'[s] \in Nat /\ synced'[s] <= Len(bytes'[s])
    BY LenProperties DEF LogInv, OrderInv, DurInv, SyncedInv, TypeOK, WriterTypeOK
<1>2. CASE wpc # "pruning"
    <2>1. \A s \in entryDurable : KeepsDurable(s)
        BY <1>0, OpenDurStep, AppendDurStep, FlushDurStep, PruneDurStep, EndDurStep
        DEF WNext, DurGoal
    <2>2. ASSUME NEW s \in entryDurable PROVE Keeps(s)
        <3>1. /\ s \in entryDurable' /\ synced[s] <= synced'[s]
              /\ SubSeq(bytes'[s], 1, synced[s]) = SubSeq(bytes[s], 1, synced[s])
            BY <1>2, <2>1 DEF KeepsDurable
        <3>2. s \in SegIds /\ synced[s] \in 0..Len(bytes[s]) /\ synced[s] \in 0..Len(bytes'[s])
            BY <1>0, <1>1, <3>1
        <3>3. \A i \in 1..synced[s] : SubSeq(bytes'[s], 1, synced[s])[i] = bytes'[s][i]
            BY <1>1, <3>2, PrefixFacts
        <3>4. \A i \in 1..synced[s] : SubSeq(bytes[s], 1, synced[s])[i] = bytes[s][i]
            BY <1>0, <3>2, PrefixFacts
        <3> QED
            BY <3>1, <3>3, <3>4 DEF Keeps
    <2> QED
        BY <2>2
<1>3. CASE UNCHANGED << bytes, synced, entryDurable >>
    BY <1>0, <1>3 DEF Keeps
<1>4. CASE Exit
    <2>1. /\ bytes' = [bytes EXCEPT ![active] = @ \o buf]
          /\ UNCHANGED << synced, entryDurable >>
        BY <1>4 DEF Exit
    <2>2. ASSUME NEW s \in entryDurable PROVE Keeps(s)
        <3>1. s \in SegIds
            BY <1>0
        <3>2. CASE s = active
            <4>1. bytes'[s] = bytes[s] \o buf
                BY <1>0, <2>1, <3>2
            <4>2. \A i \in 1..Len(bytes[s]) : (bytes[s] \o buf)[i] = bytes[s][i]
                BY <1>0, <3>1, ConcatProperties, LenProperties
            <4> QED
                BY <1>0, <2>1, <3>1, <4>1, <4>2 DEF Keeps
        <3>3. CASE s # active
            BY <1>0, <2>1, <3>1, <3>3 DEF Keeps
        <3> QED
            BY <3>2, <3>3
    <2> QED
        BY <2>2
<1>5. wpc = "pruning" => PruneEnd \/ Exit \/ Kill
    BY DEF WNext, Open, AppendRecord, Prune, OpenCreate, OpenSyncDir, OpenAppend, Append1,
           RotateSeal, RotateCreate, RotateAppend, Spill, Flush, Sync, PruneStart
<1>6. PruneEnd \/ Kill => UNCHANGED << bytes, synced, entryDurable >>
    BY DEF PruneEnd, Kill, disk
<1> QED
    BY <1>2, <1>3, <1>4, <1>5, <1>6

\* Every step of the WAL is a step of the durable log, or none.
LEMMA WalStepsAreLogSteps ==
    ASSUME LogInv, LogInv', LogView', [Next]_vars
    PROVE  LogStep
<1>1. CASE WNext
    <2>1. CASE PruneStep
        BY <2>1, PruneLogStep DEF LogStep, Abstract!Next
    <2>2. CASE ~PruneStep
        <3>1. DurableRecords \subseteq DurableRecords'
            BY <1>1, <2>2, WriterKeeps, DurableGrows
        <3>2. CASE \/ RotateSeal \/ Spill \/ Flush \/ Sync \/ Exit
                   \/ Open \/ RotateCreate \/ PruneStart \/ PruneEnd
            <4>1. LogRecords' = LogRecords /\ nextRec' = nextRec
                BY <3>2, MoveLogStep, QuietLogStep
            <4> QED
                BY <3>1, <4>1, HardenStep DEF LogView
        <3>3. CASE Append1 \/ RotateAppend
            <4>1. /\ nextRec \in Records /\ nextRec' = nextRec + 1
                  /\ \A r : r \in LogRecords' <=> r \in LogRecords \/ r = nextRec
                BY <3>3, AppendLogStep
            <4>2. PICK n \in Records : n = nextRec
                BY <4>1
            <4>3. LogRecords' = LogRecords \cup {n}
                BY <4>1, <4>2
            <4>4. n <= MaxRec
                BY <4>2, ConstantFacts DEF Records
            <4>5. n \notin DurableRecords'
                <5> SUFFICES ASSUME n \in DurableRecords' PROVE FALSE
                    OBVIOUS
                <5>1. UNCHANGED << bytes, synced >>
                    BY <3>3 DEF Append1, RotateAppend, disk
                <5>2. PICK s \in entryDurable', i \in Nat : HeadIn(bytes[s], i) /\ bytes[s][i].rec = n
                    BY <5>1 DEF LogView
                <5>3. s \in SegIds
                    BY DurTypes DEF LogInv, OrderInv, DurInv, FilesInv, TypeOK, WriterTypeOK
                <5>4. n < nextRec
                    BY <5>2, <5>3 DEF LogInv, OrderInv, NextIsNew
                <5>5. ~(n < n)
                    BY ConstantFacts DEF Records
                <5> QED
                    BY <4>2, <5>4, <5>5
            <4>6. Abstract!IsPrefixOf(DurableRecords', LogRecords)
                BY <4>3, <4>5 DEF LogView, DurableIsPrefix, Abstract!IsPrefixOf
            <4>7. Abstract!Append
                BY <3>1, <4>1, <4>2, <4>3, <4>4, <4>6 DEF Abstract!Append
            <4> QED
                BY <4>7 DEF LogStep, Abstract!Next
        <3>4. CASE Kill
            <4>1. Abstract!IsPrefixOf(LogRecords', LogRecords) /\ nextRec' = nextRec
                BY <3>4, KillLogStep DEF LogInv, OrderInv, DurInv
            <4> QED
                BY <3>1, <4>1
                DEF LogView, DurableIsPrefix, LogStep, Abstract!Next, Abstract!Crash, Abstract!IsPrefixOf
        <3> QED
            BY <1>1, <2>2, <3>2, <3>3, <3>4 DEF WNext, AppendRecord, Prune
    <2> QED
        BY <2>1, <2>2
<1>2. CASE MachinePowerLoss
    <2>1. /\ Abstract!IsPrefixOf(LogRecords', LogRecords) /\ nextRec' = nextRec
          /\ \A s \in entryDurable : Keeps(s)
        BY <1>2, PowerLogStep DEF MachinePowerLoss, LogInv, OrderInv, DurInv
    <2>2. DurableRecords \subseteq DurableRecords'
        BY <2>1, DurableGrows
    <2> QED
        BY <2>1, <2>2
        DEF LogView, DurableIsPrefix, LogStep, Abstract!Next, Abstract!Crash, Abstract!IsPrefixOf
<1>3. CASE UNCHANGED << disk, wpc, active, buf, nextRec >>
    BY <1>3 DEF LogStep, LogRecords, DurableRecords, disk
<1>4. CASE \E c \in Consumers : Reader(c)
    <2>1. UNCHANGED << disk, wpc, active, buf, nextRec >>
        BY <1>4 DEF Reader, Poll, OpenReader, Deliver, SkipCorrupt, PollEnd, PollUnloaded,
                    Commit, CloseReader, wvars, disk, proc
    <2> QED
        BY <1>3, <2>1
<1>5. CASE UNCHANGED vars
    BY <1>3, <1>5 DEF vars, wvars, disk
<1> QED
    BY <1>1, <1>2, <1>4, <1>5 DEF Next

\* The WAL implements the durable log: whatever rotations, crashes, recoveries and prunes
\* do to segments, files and buffers, a crash loses a suffix of the log that was not
\* durable and nothing else, and prune loses a prefix.
THEOREM WalImplementsDurableLog == Spec => ImplementsDurableLog
<1>1. Init => Abstract!Init
    <2> SUFFICES ASSUME Init PROVE Abstract!Init
        OBVIOUS
    <2>1. segments = {} /\ entryDurable = {} /\ nextRec = 1
        BY DEF Init, WInit
    <2> QED
        BY <2>1 DEF Abstract!Init, LogRecords, DurableRecords
<1>2. LogInv => LogView
    BY LogSeen
<1>3. LogInv /\ LogInv' /\ LogView' /\ [Next]_vars => LogStep
    BY WalStepsAreLogSteps
<1> QED
    BY <1>1, <1>2, <1>3, LogInvariant, PTL DEF Spec, ImplementsDurableLog, Abstract!Spec, LogStep

-----------------------------------------------------------------------------
(* Commits and prunes.                                                      *)

\* A reader stands at or behind nothing it has committed; a prune under way
\* goes no further than any consumer it was given.
CommitInv ==
    /\ TypeOK
    /\ \A c \in Consumers : ropen[c] => committed[c].seg <= rseg[c]
    /\ wpc = "pruning" => \A c \in listed : pruneTo <= committed[c].seg

\* What a step may do to committed positions, and to segments they need.
CommitGoal ==
    /\ \A c \in Consumers : committed[c].seg <= committed'[c].seg
    /\ PruneStep => \A s \in segments \ segments', c \in listed : s < committed[c].seg

\* Positions are compared by segment ids, -1 for the position there is not yet.
LEMMA CommittedSegs ==
    ASSUME TypeOK, NEW c \in Consumers
    PROVE  committed[c].seg \in Int /\ rseg[c] \in Nat /\ segments \subseteq Nat
<1>1. committed[c] \in Position \cup {NoPosition} /\ rseg[c] \in SegIds
    BY DEF TypeOK, WriterTypeOK, ReadersTypeOK
<1>2. committed[c].seg \in SegIds \/ committed[c].seg = -1
    BY <1>1 DEF Position, NoPosition
<1>3. SegIds \subseteq Nat /\ segments \subseteq SegIds
    BY ConstantFacts DEF TypeOK, WriterTypeOK
<1>4. -1 \in Int
    OBVIOUS
<1>5. committed[c].seg \in Int
    <2>1. CASE committed[c].seg = -1
        BY <1>4, <2>1
    <2>2. CASE committed[c].seg \in SegIds
        <3>1. PICK n \in Nat : n = committed[c].seg
            BY <1>3, <2>2
        <3> QED
            BY <3>1
    <2> QED
        BY <1>2, <2>1, <2>2
<1> QED
    BY <1>1, <1>3, <1>5

\* The writer moves no committed position, and prunes what its listing allows.
LEMMA WriterCommits ==
    ASSUME CommitInv, WNext, UNCHANGED rvars
    PROVE  CommitInv' /\ CommitGoal
<1>1. TypeOK'
    BY TypeStep DEF CommitInv, Next
<1>2. committed' = committed
    BY DEF WNext, Open, OpenCreate, OpenSyncDir, OpenAppend, AppendRecord, Append1, RotateSeal,
           RotateCreate, RotateAppend, Spill, Flush, Sync, Prune, PruneStart, PruneStep, PruneEnd,
           Exit, Kill
<1>3. \A c \in Consumers : ropen'[c] => committed'[c].seg <= rseg'[c]
    BY <1>2 DEF CommitInv, rvars
<1>4. wpc' = "pruning" => \A c \in listed' : pruneTo' <= committed'[c].seg
    <2>1. CASE PruneStart
        <3>1. PICK m \in SegIds, r \in SegIds :
                 /\ IsMinConsumed(m, listed')
                 /\ pruneTo' = IF m < r THEN m ELSE r
            BY <2>1 DEF PruneStart
        <3>2. ASSUME NEW c \in listed' PROVE m <= committed[c].seg
            BY <3>1, <3>2 DEF IsMinConsumed, IsLeast
        <3>3. \A c \in listed' : c \in Consumers
            BY <2>1 DEF PruneStart
        <3>4. m \in Nat /\ r \in Nat
            BY ConstantFacts
        <3> QED
            BY <1>2, <3>1, <3>2, <3>3, <3>4, CommittedSegs DEF CommitInv
    <2>2. CASE PruneStep
        BY <1>2, <2>2 DEF PruneStep, proc, CommitInv
    <2>3. CASE ~PruneStart /\ ~PruneStep
        <3>1. wpc' # "pruning"
            BY <2>3 DEF WNext, Open, OpenCreate, OpenSyncDir, OpenAppend, AppendRecord, Append1,
                   RotateSeal, RotateCreate, RotateAppend, Spill, Flush, Sync, Prune, PruneEnd,
                   Exit, Kill, NoProcess
        <3> QED
            BY <3>1
    <2> QED
        BY <2>1, <2>2, <2>3
<1>5. PruneStep => \A s \in segments \ segments', c \in listed : s < committed[c].seg
    <2> SUFFICES ASSUME PruneStep, NEW s \in segments \ segments', NEW c \in listed
                 PROVE  s < committed[c].seg
        OBVIOUS
    <2>1. wpc = "pruning" /\ s < pruneTo
        BY DEF PruneStep
    <2>2. c \in Consumers /\ pruneTo \in Nat /\ s \in Nat
        BY ConstantFacts DEF CommitInv, TypeOK, WriterTypeOK
    <2> QED
        BY <2>1, <2>2, CommittedSegs DEF CommitInv
<1>6. \A c \in Consumers : committed[c].seg <= committed'[c].seg
    BY <1>2, CommittedSegs DEF CommitInv
<1> QED
    BY <1>1, <1>2, <1>3, <1>4, <1>5, <1>6 DEF CommitInv, CommitGoal

\* A reader only moves on to later segments, and commits where it stands.
LEMMA ReaderCommits ==
    ASSUME CommitInv, NEW c \in Consumers, Reader(c)
    PROVE  CommitInv' /\ CommitGoal
<1>1. TypeOK'
    BY TypeStep DEF CommitInv, Next
<1>2. /\ ~PruneStep
      /\ UNCHANGED << wpc, listed, pruneTo, segments >>
    BY DEF Reader, Poll, OpenReader, Deliver, SkipCorrupt, PollEnd, PollUnloaded, Commit,
           CloseReader, wvars, disk, proc, PruneStep
<1>3. \A d \in Consumers : committed[d].seg \in Int /\ rseg[d] \in Nat
    BY CommittedSegs DEF CommitInv
<1>4. ASSUME committed' = committed, \A d \in Consumers : ropen'[d] => committed[d].seg <= rseg'[d]
      PROVE  CommitInv' /\ CommitGoal
    BY <1>1, <1>2, <1>3, <1>4 DEF CommitInv, CommitGoal
<1>5. CASE Commit(c)
    <2>1. /\ ropen[c] /\ rvars' = rvars
          /\ committed' = [committed EXCEPT ![c] = [seg |-> rseg[c], off |-> roff[c]]]
        BY <1>5 DEF Commit
    <2>2. /\ committed \in [Consumers -> Position \cup {NoPosition}]
          /\ committed[c].seg <= rseg[c]
        BY <2>1 DEF CommitInv, TypeOK, WriterTypeOK
    <2>3. /\ committed'[c].seg = rseg[c]
          /\ \A d \in Consumers \ {c} : committed'[d] = committed[d]
        BY <2>1, <2>2
    <2>4. \A d \in Consumers : committed[d].seg <= committed'[d].seg
        BY <1>3, <2>2, <2>3
    <2>5. \A d \in Consumers : ropen'[d] => committed'[d].seg <= rseg'[d]
        BY <1>3, <2>1, <2>3 DEF CommitInv, rvars
    <2>6. ASSUME wpc' = "pruning", NEW d \in listed'
          PROVE  pruneTo' <= committed'[d].seg
        <3>1. d \in Consumers /\ pruneTo \in Nat /\ pruneTo <= committed[d].seg
            BY <1>2, <2>6, ConstantFacts DEF CommitInv, TypeOK, WriterTypeOK
        <3>2. committed'[d].seg \in Int
            BY <1>3, <2>3, <3>1
        <3> QED
            BY <1>2, <1>3, <2>4, <3>1, <3>2
    <2> QED
        BY <1>1, <1>2, <2>4, <2>5, <2>6 DEF CommitInv, CommitGoal
<1>6. CASE OpenReader(c)
    <2>1. PICK s \in SegIds : /\ committed[c] # NoPosition => s = committed[c].seg
                             /\ rseg' = [rseg EXCEPT ![c] = s]
        BY <1>6 DEF OpenReader
    <2>2. committed' = committed /\ ropen' = [ropen EXCEPT ![c] = TRUE]
        BY <1>6 DEF OpenReader, wvars
    <2>3. committed[c].seg <= s
        BY <1>3, <2>1, ConstantFacts DEF NoPosition
    <2> QED
        BY <1>4, <2>1, <2>2, <2>3 DEF CommitInv, TypeOK, ReadersTypeOK
<1>7. CASE PollEnd(c) \/ PollUnloaded(c)
    <2>1. (Advance(c) \/ Reload(c)) /\ ropen' = ropen /\ committed' = committed
        BY <1>7 DEF PollEnd, PollUnloaded, wvars
    <2>2. rseg \in [Consumers -> SegIds] /\ rseg' \in [Consumers -> SegIds]
        BY <1>1 DEF CommitInv, TypeOK, ReadersTypeOK
    \* the segment loaded is the current one or a later one
    <2>3. rseg[c] <= rseg'[c] /\ \A d \in Consumers \ {c} : rseg'[d] = rseg[d]
        <3>1. ASSUME NEW s \in SegIds, LoadSegment(c, s), rseg[c] <= s
              PROVE  rseg[c] <= rseg'[c] /\ \A d \in Consumers \ {c} : rseg'[d] = rseg[d]
            BY <1>3, <2>2, <3>1 DEF LoadSegment
        <3>2. ASSUME rseg' = rseg
              PROVE  rseg[c] <= rseg'[c] /\ \A d \in Consumers \ {c} : rseg'[d] = rseg[d]
            BY <1>3, <3>2
        <3>3. segments \subseteq SegIds /\ segments \subseteq Nat
            BY CommittedSegs DEF CommitInv, TypeOK, WriterTypeOK
        <3>4. CASE Advance(c)
            <4>1. CASE \E s \in segments : s > rseg[c]
                <5>1. \E s \in segments : s > rseg[c] /\ LoadSegment(c, s)
                    BY <3>4, <4>1 DEF Advance, IsLeast
                <5> QED
                    BY <1>3, <3>1, <3>3, <5>1
            <4>2. CASE ~\E s \in segments : s > rseg[c]
                <5>1. TopUp(c)
                    BY <3>4, <4>2 DEF Advance
                <5> QED
                    BY <3>2, <5>1, TopUpTypes DEF CommitInv
            <4> QED
                BY <4>1, <4>2
        <3>5. CASE Reload(c)
            <4>1. \E s \in SegIds : LoadSegment(c, s) /\ rseg[c] <= s
                BY <1>3, <2>2, <3>3, <3>5 DEF Reload
            <4> QED
                BY <3>1, <4>1
        <3> QED
            BY <2>1, <3>4, <3>5
    <2>4. ASSUME NEW d \in Consumers, ropen'[d] PROVE committed[d].seg <= rseg'[d]
        <3>1. committed[d].seg <= rseg[d] /\ rseg[d] <= rseg'[d]
            BY <1>3, <2>1, <2>3, <2>4 DEF CommitInv
        <3>2. rseg'[d] \in Nat
            BY <2>2, ConstantFacts
        <3> QED
            BY <1>3, <3>1, <3>2
    <2> QED
        BY <1>4, <2>1, <2>4
<1>8. CASE Deliver(c) \/ SkipCorrupt(c)
    <2>1. UNCHANGED << committed, ropen, rseg >>
        BY <1>8 DEF Deliver, SkipCorrupt, wvars
    <2> QED
        BY <1>4, <2>1 DEF CommitInv
<1>9. CASE CloseReader(c)
    <2>1. committed' = committed /\ ropen' = [ropen EXCEPT ![c] = FALSE]
          /\ rseg' = [rseg EXCEPT ![c] = 0]
        BY <1>9 DEF CloseReader, Closed, wvars
    <2> QED
        BY <1>4, <2>1 DEF CommitInv, TypeOK, ReadersTypeOK
<1> QED
    BY <1>5, <1>6, <1>7, <1>8, <1>9 DEF Reader, Poll

\* Every step keeps the invariant, committed positions, and what listed consumers need.
LEMMA CommitStep == ASSUME CommitInv, [Next]_vars PROVE CommitInv' /\ [CommitGoal]_vars
<1>1. CASE WNext /\ UNCHANGED rvars
    BY <1>1, WriterCommits
<1>2. CASE \E c \in Consumers : Reader(c)
    BY <1>2, ReaderCommits
<1>3. CASE MachinePowerLoss
    <2>1. TypeOK'
        BY <1>3, TypeStep DEF CommitInv, Next
    <2>2. /\ committed' = committed /\ wpc' = "none"
          /\ \A c \in Consumers : ~ropen'[c]
        BY <1>3 DEF MachinePowerLoss, PowerLoss, NoProcess
    <2>3. ~PruneStep
        <3>1. powerLosses' = powerLosses + 1 /\ powerLosses \in Nat
            BY <1>3 DEF MachinePowerLoss, PowerLoss, CommitInv, TypeOK, WriterTypeOK
        <3> QED
            BY <3>1 DEF PruneStep
    <2> QED
        BY <2>1, <2>2, <2>3, CommittedSegs DEF CommitInv, CommitGoal
<1>4. CASE UNCHANGED vars
    BY <1>4, TypeStep DEF CommitInv, vars, wvars, rvars
<1> QED
    BY <1>1, <1>2, <1>3, <1>4 DEF Next

\* The inductive invariant of commits and prunes.
THEOREM CommitInvariant == Spec => []CommitInv
<1>1. Init => CommitInv
    BY InitTypes DEF Init, WInit, CommitInv
<1>2. CommitInv /\ [Next]_vars => CommitInv'
    BY CommitStep
<1> QED
    BY <1>1, <1>2, PTL DEF Spec

\* A committed position never moves to an earlier segment, whatever segment the
\* reader is thrown back to by a prune, a truncation or its own restart.
THEOREM CommitNeverRetreatsAlways == Spec => CommitNeverRetreats
<1>1. CommitInv /\ [Next]_vars => [\A c \in Consumers : committed[c].seg <= committed'[c].seg]_vars
    BY CommitStep DEF CommitGoal
<1> QED
    BY <1>1, CommitInvariant, PTL DEF Spec, CommitNeverRetreats

\* prune works from positions it read some steps ago, and still removes no segment
\* that a consumer whose position it was given has to read.
THEOREM PruneSparesListedAlways == Spec => PruneSparesListed
<1>1. CommitInv /\ [Next]_vars =>
         [PruneStep => \A s \in segments \ segments', c \in listed : s < committed[c].seg]_vars
    BY CommitStep DEF CommitGoal
<1> QED
    BY <1>1, CommitInvariant, PTL DEF Spec, PruneSparesListed

-----------------------------------------------------------------------------
(* The offset checkpoints are ordered by.                                   *)

\* No record is larger than a segment: rotate gives a frame a segment to itself
\* only when the frame fits there.
FramesFit == \A r \in Records : FrameLen(r) <= SegmentSize

\* No segment outgrows its size, what is buffered for it included, and a segment
\* that was just created is empty.
OffsetInv ==
    /\ DurInv
    /\ \A s \in SegIds : Len(bytes[s]) <= SegmentSize
    /\ wpc # "none" => WriteOffset <= SegmentSize
    /\ wpc = "created" => WriteOffset = 0

\* What a step may do to the offset of a living writer.
OffsetGoal ==
    wpc # "none" /\ wpc' # "none" =>
        /\ GlobalOffset <= GlobalOffset'
        /\ nextRec # nextRec' => GlobalOffset < GlobalOffset'

\* A later segment starts no earlier than where an earlier one ends.
LEMMA LaterSegment ==
    ASSUME NEW a \in Nat, NEW b \in Nat, a < b
    PROVE  a * SegmentSize + SegmentSize <= b * SegmentSize
<1>1. SegmentSize \in Nat
    BY WriterAssumption
<1>2. PICK k \in Nat : b = a + 1 + k
    <2>1. b - a - 1 \in Nat /\ b = a + 1 + (b - a - 1)
        OBVIOUS
    <2> QED
        BY <2>1
<1>3. b * SegmentSize = a * SegmentSize + SegmentSize + k * SegmentSize
    BY <1>1, <1>2
<1>4. k * SegmentSize \in Nat /\ a * SegmentSize \in Nat
    BY <1>1
<1> QED
    BY <1>1, <1>3, <1>4

\* Where bytes move from the buffer to the file, or out of both, the lengths say
\* that no segment outgrows its size.
LEMMA OffsetTypes ==
    ASSUME OffsetInv
    PROVE  /\ TypeOK /\ active \in Nat /\ active \in SegIds /\ SegmentSize \in Nat
           /\ buf \in Seq(Unit) /\ Len(buf) \in Nat
           /\ \A s \in SegIds : bytes[s] \in Seq(Unit) /\ Len(bytes[s]) \in Nat
           /\ bytes \in [SegIds -> Seq(Unit)]
           /\ active * SegmentSize \in Nat
BY DurTypes, WriterAssumption DEF OffsetInv, DurInv

\* What reaches the file was counted in the buffer.
LEMMA MoveOffset ==
    ASSUME OffsetInv, wpc # "none", NEW n \in 0..Len(buf), NEW x \in Seq(Unit), Len(x) = n,
           bytes' = [bytes EXCEPT ![active] = @ \o x], Len(buf') = Len(buf) - n,
           active' = active, nextRec' = nextRec, wpc' # "created"
    PROVE  /\ \A s \in SegIds : Len(bytes'[s]) <= SegmentSize
           /\ WriteOffset' = WriteOffset /\ WriteOffset <= SegmentSize
           /\ OffsetGoal
<1>1. /\ bytes'[active] = bytes[active] \o x
      /\ \A s \in SegIds \ {active} : bytes'[s] = bytes[s]
    BY OffsetTypes
<1>2. Len(bytes'[active]) = Len(bytes[active]) + n
    <2>1. bytes[active] \in Seq(Unit)
        BY OffsetTypes
    <2>2. Len(bytes[active] \o x) = Len(bytes[active]) + Len(x)
        BY <2>1, ConcatProperties
    <2> QED
        BY <1>1, <2>2
<1>3. WriteOffset' = WriteOffset /\ WriteOffset <= SegmentSize
    <2>1. Len(bytes[active]) \in Nat /\ Len(buf) \in Nat
        BY OffsetTypes
    <2>2. WriteOffset' = Len(bytes'[active]) + Len(buf')
        BY DEF WriteOffset
    <2>3. Len(bytes'[active]) + Len(buf') = Len(bytes[active]) + Len(buf)
        <3>1. PICK a \in Nat, b \in Nat : a = Len(bytes[active]) /\ b = Len(buf)
            BY <2>1
        <3>2. PICK k \in Nat : k = n /\ k <= b
            BY <3>1
        <3>3. PICK e : e = Len(bytes'[active])
            OBVIOUS
        <3>4. PICK f : f = Len(buf')
            OBVIOUS
        <3>5. e = a + k /\ f = b - k
            BY <1>2, <3>1, <3>2, <3>3, <3>4
        <3>6. e + f = a + b
            BY <3>5
        <3> QED
            BY <3>1, <3>3, <3>4, <3>6, Zenon
    <2>4. WriteOffset <= SegmentSize
        BY DEF OffsetInv
    <2> QED
        BY <2>2, <2>3, <2>4 DEF WriteOffset
<1>4. \A s \in SegIds : Len(bytes'[s]) <= SegmentSize
    BY <1>1, <1>2, <1>3, OffsetTypes DEF OffsetInv, WriteOffset
<1>5. GlobalOffset' = GlobalOffset /\ GlobalOffset \in Nat
    BY <1>3, OffsetTypes DEF GlobalOffset, WriteOffset
<1> QED
    BY <1>3, <1>4, <1>5 DEF OffsetGoal

\* Every step of the writer, and of its end, keeps the offset growing (WalWriter).
LEMMA WriterOffset ==
    ASSUME OffsetInv, FramesFit, WNext
    PROVE  /\ \A s \in SegIds : Len(bytes'[s]) <= SegmentSize
           /\ wpc' # "none" => WriteOffset' <= SegmentSize
           /\ wpc' = "created" => WriteOffset' = 0
           /\ OffsetGoal
<1> DEFINE Goal == /\ \A s \in SegIds : Len(bytes'[s]) <= SegmentSize
                   /\ wpc' # "none" => WriteOffset' <= SegmentSize
                   /\ wpc' = "created" => WriteOffset' = 0
                   /\ OffsetGoal
<1>0. Len(<< >>) = 0 /\ << >> \in Seq(Unit) /\ buf \o << >> = buf
    BY EmptyRun, OffsetTypes, ConcatEmptySeq
<1>1. ASSUME UNCHANGED << bytes, active, buf, nextRec >>, wpc # "none", wpc' # "created"
      PROVE  Goal
    <2>1. GlobalOffset' = GlobalOffset /\ WriteOffset' = WriteOffset
        BY <1>1 DEF GlobalOffset, WriteOffset
    <2>2. GlobalOffset \in Nat
        BY OffsetTypes DEF GlobalOffset, WriteOffset
    <2>3. OffsetGoal
        BY <1>1, <2>1, <2>2 DEF OffsetGoal
    <2> QED
        BY <1>1, <2>1, <2>3 DEF OffsetInv
<1>2. ASSUME \A s \in SegIds : Len(bytes'[s]) \in Nat /\ Len(bytes'[s]) <= Len(bytes[s]),
             Len(buf') = 0, wpc = "none" \/ wpc' = "none", active' \in SegIds, wpc' # "created"
      PROVE  Goal
    <2>1. \A s \in SegIds : Len(bytes'[s]) <= SegmentSize
        <3> SUFFICES ASSUME NEW s \in SegIds PROVE Len(bytes'[s]) <= SegmentSize
            OBVIOUS
        <3>1. Len(bytes[s]) \in Nat /\ SegmentSize \in Nat /\ Len(bytes[s]) <= SegmentSize
            BY OffsetTypes DEF OffsetInv
        <3>2. Len(bytes'[s]) \in Nat /\ Len(bytes'[s]) <= Len(bytes[s])
            BY <1>2
        <3> QED
            BY <3>1, <3>2
    <2>2. WriteOffset' = Len(bytes'[active'])
        BY <1>2 DEF WriteOffset
    <2>3. OffsetGoal
        BY <1>2 DEF OffsetGoal
    <2>4. WriteOffset' <= SegmentSize
        BY <1>2, <2>1, <2>2
    <2> QED
        BY <1>2, <2>1, <2>3, <2>4
<1> SUFFICES Goal
    OBVIOUS
<1> HIDE DEF Goal
<1>3. CASE OpenCreate \/ OpenAppend
    <2>1. wpc = "none" /\ buf' = buf /\ wpc' # "created" /\ active' \in SegIds
        BY <1>3, WriterTypeStep, OffsetTypes DEF OpenCreate, OpenAppend, WriterTypeOK
    <2>2. Len(buf') = 0
        BY <1>0, <2>1 DEF OffsetInv, DurInv, WriterInv
    <2>3. ASSUME NEW s \in SegIds PROVE Len(bytes'[s]) \in Nat /\ Len(bytes'[s]) <= Len(bytes[s])
        <3>1. bytes'[s] = bytes[s] \/ \E n \in 0..Len(bytes[s]) : bytes'[s] = SubSeq(bytes[s], 1, n)
            BY <1>3, OffsetTypes DEF OpenCreate, OpenAppend
        <3> QED
            BY <3>1, OffsetTypes, PrefixFacts
    <2> QED
        BY <1>2, <2>1, <2>2, <2>3
<1>4. CASE OpenSyncDir \/ (Prune /\ ~PruneStep)
    <2>1. UNCHANGED << bytes, active, buf, nextRec >> /\ wpc # "none" /\ wpc' # "created"
        BY <1>4 DEF OpenSyncDir, Prune, PruneStart, PruneEnd, disk
    <2>2. UNCHANGED << bytes, active, buf, nextRec >>
        BY <2>1
    <2> QED
        BY <1>1, <2>1, <2>2
<1>5. CASE Append1
    <2>1. /\ wpc # "none" /\ wpc' # "created" /\ nextRec \in Records
          /\ FrameLen(nextRec) <= Remaining /\ buf' = buf \o Frame(nextRec)
          /\ UNCHANGED << bytes, active >>
        BY <1>5 DEF Append1, disk
    <2>2. PICK n \in Nat \ {0, 1} : n = FrameLen(nextRec)
        BY <2>1, FrameFacts
    <2>3. Len(buf') = Len(buf) + n
        <3>1. Frame(nextRec) \in Seq(Unit) /\ Len(Frame(nextRec)) = n
            BY <2>1, <2>2, FrameFacts
        <3> QED
            BY <2>1, <3>1, OffsetTypes, ConcatProperties
    <2>4. PICK a \in Nat, b \in Nat, g \in Nat : a = Len(bytes[active]) /\ b = Len(buf) /\ g = active * SegmentSize
        BY OffsetTypes
    <2>5. /\ WriteOffset = a + b /\ WriteOffset' = a + (b + n)
          /\ GlobalOffset = g + WriteOffset /\ GlobalOffset' = g + WriteOffset'
        BY <2>1, <2>3, <2>4 DEF GlobalOffset, WriteOffset
    <2>6. PICK z \in Nat : z = SegmentSize
        BY OffsetTypes
    <2>7. a + (b + n) <= z
        <3>1. n <= IF a + b >= z THEN 0 ELSE z - (a + b)
            BY <2>1, <2>2, <2>5, <2>6 DEF Remaining
        <3>2. n \in Nat /\ n >= 1
            OBVIOUS
        <3>3. ~(a + b >= z)
            BY <3>1, <3>2
        <3>4. n <= z - (a + b)
            BY <3>1, <3>3
        <3> QED
            BY <3>2, <3>4
    <2>8. OffsetGoal
        <3>1. g + (a + b) < g + (a + (b + n))
            OBVIOUS
        <3>2. GlobalOffset < GlobalOffset' /\ GlobalOffset <= GlobalOffset'
            BY <2>5, <3>1
        <3> QED
            BY <3>2 DEF OffsetGoal
    <2> QED
        BY <2>1, <2>5, <2>6, <2>7, <2>8 DEF Goal, OffsetInv
<1>6. CASE RotateSeal \/ Flush \/ Sync
    <2>1. /\ wpc # "none" /\ wpc' \notin {"none", "created"} /\ buf' = << >>
          /\ bytes' = [bytes EXCEPT ![active] = @ \o buf]
          /\ UNCHANGED << active, nextRec >>
        BY <1>6 DEF RotateSeal, Flush, Sync
    <2>2. PICK n \in 0..Len(buf) : n = Len(buf)
        BY OffsetTypes
    <2>3. Len(buf') = Len(buf) - n
        BY <1>0, <2>1, <2>2, OffsetTypes
    <2> QED
        BY <2>1, <2>2, <2>3, OffsetTypes, MoveOffset DEF Goal
<1>7. CASE Spill
    <2>1. PICK n \in 1..Len(buf) - 1 :
             /\ bytes' = [bytes EXCEPT ![active] = @ \o SubSeq(buf, 1, n)]
             /\ buf' = SubSeq(buf, n + 1, Len(buf))
        BY <1>7 DEF Spill
    <2>2. wpc # "none" /\ wpc' \notin {"none", "created"} /\ UNCHANGED << active, nextRec >>
        BY <1>7 DEF Spill
    <2>3. n \in 0..Len(buf) /\ buf \in Seq(Unit)
        BY OffsetTypes
    <2>4. SubSeq(buf, 1, n) \in Seq(Unit) /\ Len(SubSeq(buf, 1, n)) = n
        BY <2>3, PrefixFacts
    <2>5. Len(buf') = Len(buf) - n
        <3>1. n + 1 \in 1..Len(buf) + 1 /\ Len(buf) \in 0..Len(buf)
            BY OffsetTypes
        <3>2. \A i \in n + 1..Len(buf) : buf[i] \in Unit
            BY <2>3, ElementOfSeq
        <3> QED
            BY <2>1, <3>1, <3>2, SubSeqProperties, OffsetTypes
    <2> QED
        BY <2>1, <2>2, <2>3, <2>4, <2>5, MoveOffset DEF Goal
<1>8. CASE RotateCreate
    <2>1. /\ nextId \in SegIds /\ wpc = "sealed" /\ wpc' = "created" /\ active' = nextId
          /\ bytes' = [bytes EXCEPT ![nextId] = << >>]
          /\ UNCHANGED << buf, nextRec >>
        BY <1>8 DEF RotateCreate
    <2>2. active < nextId /\ buf = << >>
        BY <2>1 DEF OffsetInv, DurInv, WriterInv
    <2>3. /\ bytes'[nextId] = << >>
          /\ \A s \in SegIds \ {nextId} : bytes'[s] = bytes[s]
        BY <2>1, OffsetTypes
    <2>4. WriteOffset' = 0
        BY <1>0, <2>1, <2>2, <2>3 DEF WriteOffset
    <2>5. PICK g \in Nat, h \in Nat, w \in Nat, z \in Nat :
              g = active * SegmentSize /\ h = nextId * SegmentSize /\ w = WriteOffset /\ z = SegmentSize
        <3>1. nextId \in Nat /\ SegmentSize \in Nat
            BY <2>1, OffsetTypes, ConstantFacts
        <3>2. nextId * SegmentSize \in Nat
            BY <3>1
        <3>3. WriteOffset \in Nat
            BY OffsetTypes DEF WriteOffset
        <3> QED
            BY <3>1, <3>2, <3>3, OffsetTypes
    <2>6. g + z <= h
        <3>1. nextId \in Nat
            BY <2>1, ConstantFacts
        <3> QED
            BY <2>2, <2>5, <3>1, OffsetTypes, LaterSegment
    <2>7. w <= z
        BY <2>1, <2>5 DEF OffsetInv
    <2>8. GlobalOffset = g + w /\ GlobalOffset' = h + 0
        BY <2>1, <2>4, <2>5 DEF GlobalOffset
    <2>9. OffsetGoal
        BY <2>1, <2>5, <2>6, <2>7, <2>8 DEF OffsetGoal
    <2>10. ASSUME NEW s \in SegIds PROVE Len(bytes'[s]) <= SegmentSize
        <3>1. SegmentSize \in Nat /\ Len(bytes[s]) <= SegmentSize
            BY OffsetTypes DEF OffsetInv
        <3>2. CASE s = nextId
            BY <1>0, <2>3, <3>1, <3>2
        <3>3. CASE s # nextId
            BY <2>3, <3>1, <3>3
        <3> QED
            BY <3>2, <3>3
    <2> QED
        BY <2>4, <2>5, <2>7, <2>9, <2>10 DEF Goal
<1>9. CASE RotateAppend
    <2>1. /\ wpc = "created" /\ wpc' = "idle" /\ nextRec \in Records
          /\ buf' = Frame(nextRec) /\ UNCHANGED << bytes, active >>
        BY <1>9, OffsetTypes DEF RotateAppend, TypeOK, WriterTypeOK
    <2>2. PICK n \in Nat \ {0, 1} : n = FrameLen(nextRec) /\ n = Len(buf')
        BY <2>1, FrameFacts
    <2>3. n <= SegmentSize
        BY <2>1, <2>2 DEF FramesFit
    <2>4. PICK a \in Nat, b \in Nat, g \in Nat : a = Len(bytes[active]) /\ b = Len(buf) /\ g = active * SegmentSize
        BY OffsetTypes
    <2>5. a + b = 0
        BY <2>1, <2>4 DEF OffsetInv, WriteOffset
    <2>6. WriteOffset = a + b /\ WriteOffset' = a + n /\ GlobalOffset = g + (a + b) /\ GlobalOffset' = g + (a + n)
        BY <2>1, <2>2, <2>4 DEF GlobalOffset, WriteOffset
    <2>7. OffsetGoal
        <3>1. g + (a + b) < g + (a + n)
            BY <2>2, <2>4, <2>5
        <3>2. GlobalOffset < GlobalOffset' /\ GlobalOffset <= GlobalOffset'
            BY <2>6, <3>1
        <3> QED
            BY <3>2 DEF OffsetGoal
    <2>8. WriteOffset' = n
        <3>1. a \in Nat /\ b \in Nat /\ n \in Nat
            OBVIOUS
        <3>2. a = 0
            BY ONLY <3>1, <2>5
        <3>3. a + n = n
            BY ONLY <3>1, <3>2
        <3> QED
            BY ONLY <3>3, <2>6
    <2> QED
        BY <2>1, <2>3, <2>7, <2>8 DEF Goal, OffsetInv
<1>10. CASE PruneStep
    <2>1. PICK s \in segments : s < active /\ bytes' = [bytes EXCEPT ![s] = << >>]
        BY <1>10 DEF PruneStep
    <2>2. wpc = "pruning" /\ wpc' = "pruning" /\ UNCHANGED << active, buf, nextRec >>
        BY <1>10 DEF PruneStep, proc
    <2>3. s \in SegIds /\ s # active
        BY <2>1, OffsetTypes DEF TypeOK, WriterTypeOK
    <2>4. /\ bytes'[s] = << >>
          /\ \A t \in SegIds \ {s} : bytes'[t] = bytes[t]
        BY <2>1, <2>3, OffsetTypes
    <2>5. WriteOffset' = WriteOffset /\ GlobalOffset' = GlobalOffset
        BY <2>2, <2>3, <2>4, OffsetTypes DEF WriteOffset, GlobalOffset
    <2>6. GlobalOffset \in Nat
        BY OffsetTypes DEF GlobalOffset, WriteOffset
    <2>7. ASSUME NEW t \in SegIds PROVE Len(bytes'[t]) <= SegmentSize
        <3>1. SegmentSize \in Nat /\ Len(bytes[t]) <= SegmentSize
            BY OffsetTypes DEF OffsetInv
        <3>2. CASE t = s
            BY <1>0, <2>4, <3>1, <3>2
        <3>3. CASE t # s
            BY <2>4, <3>1, <3>3
        <3> QED
            BY <3>2, <3>3
    <2>8. OffsetGoal
        BY <2>2, <2>5, <2>6 DEF OffsetGoal
    <2> QED
        BY <2>2, <2>5, <2>7, <2>8 DEF Goal, OffsetInv
<1>11. CASE Exit
    <2>1. /\ wpc # "none" /\ wpc' = "none" /\ buf' = << >> /\ active' = 0
          /\ bytes' = [bytes EXCEPT ![active] = @ \o buf]
        BY <1>11 DEF Exit, NoProcess
    <2>2. /\ bytes'[active] = bytes[active] \o buf
          /\ \A s \in SegIds \ {active} : bytes'[s] = bytes[s]
        BY <2>1, OffsetTypes
    <2>3. Len(bytes'[active]) = WriteOffset
        BY <2>2, OffsetTypes, ConcatProperties DEF WriteOffset
    <2>4. \A s \in SegIds : Len(bytes'[s]) <= SegmentSize
        BY <2>1, <2>2, <2>3 DEF OffsetInv
    <2> QED
        BY <2>1, <2>4 DEF Goal, OffsetGoal
<1>12. CASE Kill
    <2>1. wpc' = "none" /\ bytes' = bytes
        BY <1>12 DEF Kill, NoProcess, disk
    <2> QED
        BY <2>1 DEF Goal, OffsetGoal, OffsetInv
<1> QED
    <2>1. \/ OpenCreate \/ OpenSyncDir \/ OpenAppend
          \/ Append1 \/ RotateSeal \/ RotateCreate \/ RotateAppend
          \/ Spill \/ Flush \/ Sync \/ Prune \/ Exit \/ Kill
        BY DEF WNext, Open, AppendRecord
    <2>2. OpenSyncDir => OpenSyncDir \/ (Prune /\ ~PruneStep)
        OBVIOUS
    <2>3. Prune => PruneStep \/ (Prune /\ ~PruneStep)
        OBVIOUS
    <2> QED
        BY <1>3, <1>4, <1>5, <1>6, <1>7, <1>8, <1>9, <1>10, <1>11, <1>12, <2>1, <2>2, <2>3, Zenon

\* Every step keeps the invariant and the offset growing.
LEMMA OffsetStep ==
    ASSUME OffsetInv, FramesFit, [Next]_vars PROVE OffsetInv' /\ OffsetGoal
<1>1. DurInv'
    BY DurStep, TypeStep DEF OffsetInv, DurInv, DurGoal
<1>2. CASE WNext /\ UNCHANGED rvars
    BY <1>1, <1>2, WriterOffset DEF OffsetInv
<1>3. CASE UNCHANGED << bytes, active, buf, nextRec, wpc >>
    <2>1. GlobalOffset' = GlobalOffset /\ WriteOffset' = WriteOffset
        BY <1>3 DEF GlobalOffset, WriteOffset
    <2>2. GlobalOffset \in Nat
        BY OffsetTypes DEF GlobalOffset, WriteOffset
    <2> QED
        BY <1>1, <1>3, <2>1, <2>2 DEF OffsetInv, OffsetGoal
<1>4. CASE MachinePowerLoss
    <2>1. PICK last \in segments, gone \in SUBSET (segments \ entryDurable), d \in Seq(Unit) :
             /\ bytes' = [s \in SegIds |-> IF s \in gone THEN << >>
                                           ELSE IF s = last THEN d ELSE bytes[s]]
             /\ Len(d) <= Len(bytes[last])
        BY <1>4, PowerLossEffect, OffsetTypes DEF MachinePowerLoss
    <2>2. wpc' = "none"
        BY <1>4 DEF MachinePowerLoss, PowerLoss, NoProcess
    <2>3. last \in SegIds
        BY OffsetTypes DEF TypeOK, WriterTypeOK
    <2>4. ASSUME NEW s \in SegIds PROVE Len(bytes'[s]) <= SegmentSize
        <3>1. Len(bytes[s]) \in Nat /\ Len(bytes[s]) <= SegmentSize /\ SegmentSize \in Nat
            BY OffsetTypes DEF OffsetInv
        <3>2. CASE s \in gone
            BY <2>1, <3>1, <3>2, EmptyRun
        <3>3. CASE s \notin gone /\ s = last
            <4>1. bytes'[s] = d /\ Len(d) \in Nat /\ Len(d) <= Len(bytes[s])
                BY <2>1, <3>3, LenProperties
            <4> QED
                BY <3>1, <4>1
        <3>4. CASE s \notin gone /\ s # last
            BY <2>1, <3>1, <3>4
        <3> QED
            BY <3>2, <3>3, <3>4
    <2> QED
        BY <1>1, <2>2, <2>4 DEF OffsetInv, OffsetGoal
<1>5. CASE \E c \in Consumers : Reader(c)
    <2>1. UNCHANGED << bytes, active, buf, nextRec, wpc >>
        BY <1>5 DEF Reader, Poll, OpenReader, Deliver, SkipCorrupt, PollEnd, PollUnloaded,
                    Commit, CloseReader, wvars, disk, proc
    <2> QED
        BY <1>3, <2>1
<1>6. CASE UNCHANGED vars
    BY <1>3, <1>6 DEF vars, wvars
<1> QED
    BY <1>2, <1>4, <1>5, <1>6 DEF Next

\* While one writer lives global_offset never goes back, and every append moves it
\* on, over flushes, rotations and prunes: where every record fits in a segment,
\* checkpoints can be ordered against records by it.
THEOREM GlobalOffsetGrowsAlways == FramesFit => (Spec => GlobalOffsetGrows)
<1> SUFFICES ASSUME FramesFit PROVE Spec => GlobalOffsetGrows
    OBVIOUS
<1>1. Init => OffsetInv
    <2> SUFFICES ASSUME Init PROVE OffsetInv
        OBVIOUS
    <2>1. /\ DurInv /\ wpc = "none"
          /\ \A s \in SegIds : bytes[s] = << >>
        BY DurInit DEF Init, WInit
    <2> QED
        BY <2>1, EmptyRun, WriterAssumption DEF OffsetInv
<1>2. OffsetInv /\ [Next]_vars => OffsetInv'
    BY OffsetStep
<1>3. OffsetInv /\ [Next]_vars =>
         [wpc # "none" /\ wpc' # "none" =>
              /\ GlobalOffset <= GlobalOffset'
              /\ nextRec # nextRec' => GlobalOffset < GlobalOffset']_vars
    BY OffsetStep DEF OffsetGoal
<1> QED
    BY <1>1, <1>2, <1>3, PTL DEF Spec, GlobalOffsetGrows

-----------------------------------------------------------------------------
(* What a reader returns.  Its cache may hold bytes that a recovery has cut *)
(* off since, and go on with bytes appended in their place: what is true of *)
(* all of them is that no header in the segment, at a later position than a *)
(* header in the cache, is older.                                           *)

\* The records a reader returned, and those whose headers it holds in memory.
Returned(c) == {delivered[c][i].rec : i \in 1..Len(delivered[c])}
Cached(c) == {rdata[c][p].rec : p \in {q \in 1..Len(rdata[c]) : IsHeader(rdata[c][q])}}

\* The cache ascends, also where it goes on with the segment's bytes.
CacheOrder(c) ==
    /\ \A p, q \in Nat : HeadIn(rdata[c], p) /\ HeadIn(rdata[c], q) /\ p < q
                           => rdata[c][p].rec < rdata[c][q].rec
    /\ \A p, q \in Nat : HeadIn(rdata[c], p) /\ HeadIn(bytes[rseg[c]], q) /\ p < q
                           => rdata[c][p].rec < bytes[rseg[c]][q].rec

\* What a reader returned ascends, and comes before all it can still read where
\* it stands.
ReturnedOrder(c) ==
    /\ ropen[c] \/ delivered[c] = << >>
    /\ \A i, j \in 1..Len(delivered[c]) : i < j => delivered[c][i].rec < delivered[c][j].rec
    /\ \A r \in Returned(c), p \in Nat : HeadIn(rdata[c], p) /\ roff[c] < p => r < rdata[c][p].rec
    /\ \A r \in Returned(c), p \in Nat :
          HeadIn(bytes[rseg[c]], p) /\ roff[c] < p => r < bytes[rseg[c]][p].rec

\* All it has seen comes before what later segments and the buffer hold.
AheadOrder(c) ==
    \A r \in Returned(c) \cup Cached(c) :
        /\ \A t \in SegIds, p \in Nat : rseg[c] < t /\ HeadIn(bytes[t], p) => r < bytes[t][p].rec
        /\ \A p \in Nat : HeadIn(buf, p) => r < buf[p].rec
        /\ r < nextRec

ReadOrder(c) == CacheOrder(c) /\ ReturnedOrder(c) /\ AheadOrder(c)

ReadInv == OrderInv /\ \A c \in Consumers : ReadOrder(c)

\* What a reader has seen are records.
LEMMA SeenTypes ==
    ASSUME TypeOK, NEW c \in Consumers
    PROVE  /\ rdata[c] \in Seq(Unit) /\ Len(rdata[c]) \in Nat
           /\ delivered[c] \in Seq(Delivery) /\ Len(delivered[c]) \in Nat
           /\ roff[c] \in Nat /\ rseg[c] \in SegIds /\ rseg[c] \in Nat
           /\ Returned(c) \cup Cached(c) \subseteq Nat
<1>1. /\ rdata[c] \in Seq(Unit) /\ Len(rdata[c]) \in Nat
      /\ delivered[c] \in Seq(Delivery) /\ Len(delivered[c]) \in Nat
      /\ roff[c] \in Nat /\ rseg[c] \in SegIds /\ rseg[c] \in Nat
    BY ConstantFacts, LenProperties DEF TypeOK, ReadersTypeOK
<1>2. \A i \in 1..Len(delivered[c]) : delivered[c][i] \in Delivery
    BY <1>1, ElementOfSeq
<1>3. Returned(c) \subseteq Nat
    BY <1>2, ConstantFacts DEF Returned, Delivery, Records
<1>4. \A i \in 1..Len(rdata[c]) : rdata[c][i] \in Unit
    BY <1>1, ElementOfSeq
<1>5. Cached(c) \subseteq Nat
    BY <1>4, ConstantFacts DEF Cached, Unit
<1> QED
    BY <1>1, <1>3, <1>5

\* A header in the cache is one the reader has seen.
LEMMA CachedHead ==
    ASSUME NEW c \in Consumers, NEW p \in Nat, HeadIn(rdata[c], p)
    PROVE  rdata[c][p].rec \in Cached(c)
BY DEF HeadIn, Cached

\* The writer, its end and a power loss keep the readers' order: nothing comes to
\* a segment but what was buffered, nothing to the buffer but a new record.
LEMMA WriterReadOrder ==
    ASSUME OrderInv, NEW c \in Consumers, ReadOrder(c), NEW k \in Nat, HeadsMove(k),
           UNCHANGED rvars
    PROVE  ReadOrder(c)'
<1>0. TypeOK /\ DurInv
    BY DEF OrderInv, DurInv
<1>1. /\ rdata'[c] = rdata[c] /\ roff'[c] = roff[c] /\ rseg'[c] = rseg[c]
      /\ delivered'[c] = delivered[c] /\ ropen'[c] = ropen[c]
    BY DEF rvars
<1>2. Returned(c)' = Returned(c) /\ Cached(c)' = Cached(c)
    BY <1>1 DEF Returned, Cached
<1>3. rseg[c] \in SegIds
    BY <1>0, SeenTypes
<1>4. ASSUME NEW s \in SegIds, NEW p \in Nat, HeadIn(bytes'[s], p)
      PROVE  \/ HeadIn(bytes[s], p) /\ bytes'[s][p] = bytes[s][p]
             \/ \E q \in Nat : HeadIn(buf, q) /\ bytes'[s][p] = buf[q]
    BY <1>4 DEF HeadsMove
<1>5. ASSUME NEW p \in Nat, HeadIn(buf', p)
      PROVE  (\E q \in Nat : HeadIn(buf, q) /\ buf'[p] = buf[q]) \/ buf'[p].rec = nextRec
    <2>1. p + k \in Nat
        OBVIOUS
    <2> QED
        BY <1>5, <2>1 DEF HeadsMove
<1>6. CacheOrder(c)'
    <2>1. ASSUME NEW p \in Nat, NEW q \in Nat, HeadIn(rdata[c], p), HeadIn(bytes'[rseg[c]], q), p < q
          PROVE  rdata[c][p].rec < bytes'[rseg[c]][q].rec
        <3>1. CASE HeadIn(bytes[rseg[c]], q) /\ bytes'[rseg[c]][q] = bytes[rseg[c]][q]
            BY <2>1, <3>1 DEF ReadOrder, CacheOrder
        <3>2. CASE \E m \in Nat : HeadIn(buf, m) /\ bytes'[rseg[c]][q] = buf[m]
            <4>1. rdata[c][p].rec \in Cached(c)
                BY <2>1, CachedHead
            <4> QED
                BY <3>2, <4>1 DEF ReadOrder, AheadOrder
        <3> QED
            BY <1>3, <1>4, <2>1, <3>1, <3>2
    <2> QED
        BY <1>1, <2>1 DEF ReadOrder, CacheOrder
<1>7. ReturnedOrder(c)'
    <2>1. ASSUME NEW r \in Returned(c), NEW p \in Nat, HeadIn(bytes'[rseg[c]], p), roff[c] < p
          PROVE  r < bytes'[rseg[c]][p].rec
        <3>1. CASE HeadIn(bytes[rseg[c]], p) /\ bytes'[rseg[c]][p] = bytes[rseg[c]][p]
            BY <2>1, <3>1 DEF ReadOrder, ReturnedOrder
        <3>2. CASE \E m \in Nat : HeadIn(buf, m) /\ bytes'[rseg[c]][p] = buf[m]
            BY <3>2 DEF ReadOrder, AheadOrder
        <3> QED
            BY <1>3, <1>4, <2>1, <3>1, <3>2
    <2> QED
        BY <1>1, <1>2, <2>1 DEF ReadOrder, ReturnedOrder
<1>8. ASSUME NEW r \in Returned(c) \cup Cached(c)
      PROVE  /\ \A t \in SegIds, p \in Nat : rseg[c] < t /\ HeadIn(bytes'[t], p) => r < bytes'[t][p].rec
             /\ \A p \in Nat : HeadIn(buf', p) => r < buf'[p].rec
             /\ r < nextRec'
    <2>1. r < nextRec /\ r \in Nat /\ nextRec \in Nat
        BY <1>0, SeenTypes, HeadTypes DEF ReadOrder, AheadOrder
    <2>2. r < nextRec'
        BY <2>1 DEF HeadsMove
    <2>3. \A p \in Nat : HeadIn(buf, p) => r < buf[p].rec
        BY DEF ReadOrder, AheadOrder
    <2>4. ASSUME NEW p \in Nat, HeadIn(buf', p) PROVE r < buf'[p].rec
        BY <1>5, <2>1, <2>3, <2>4
    <2>5. ASSUME NEW t \in SegIds, NEW p \in Nat, rseg[c] < t, HeadIn(bytes'[t], p)
          PROVE  r < bytes'[t][p].rec
        <3>1. CASE HeadIn(bytes[t], p) /\ bytes'[t][p] = bytes[t][p]
            BY <2>5, <3>1 DEF ReadOrder, AheadOrder
        <3>2. CASE \E m \in Nat : HeadIn(buf, m) /\ bytes'[t][p] = buf[m]
            BY <2>3, <3>2
        <3> QED
            BY <1>4, <2>5, <3>1, <3>2
    <2> QED
        BY <2>2, <2>4, <2>5
<1>9. AheadOrder(c)'
    BY <1>1, <1>2, <1>8 DEF AheadOrder
<1> QED
    BY <1>6, <1>7, <1>9 DEF ReadOrder

\* A reader that is closed has returned nothing and holds nothing.
LEMMA EmptyReadOrder ==
    ASSUME NEW c \in Consumers, delivered'[c] = << >>, rdata'[c] = << >>
    PROVE  ReadOrder(c)'
<1>1. Returned(c)' = {} /\ Cached(c)' = {}
    BY EmptyRun DEF Returned, Cached
<1>2. \A p \in Nat : ~HeadIn(rdata'[c], p)
    BY NoHeads
<1>3. 1..Len(delivered'[c]) = {}
    BY EmptyRun
<1> QED
    BY <1>1, <1>2, <1>3 DEF ReadOrder, CacheOrder, ReturnedOrder, AheadOrder

\* A reader whose cache is a segment's bytes: the same segment, from the same
\* offset on, or a later one, or any one if it has returned nothing.
LEMMA LoadedReadOrder ==
    ASSUME OrderInv, NEW c \in Consumers, ReadOrder(c), TypeOK', NEW s \in SegIds,
           UNCHANGED << bytes, buf, nextRec >>,
           rseg'[c] = s, rdata'[c] \in {bytes[s], << >>}, delivered'[c] = delivered[c],
           ropen'[c] \/ delivered[c] = << >>,
           \/ delivered[c] = << >>
           \/ rseg[c] < s
           \/ rseg[c] = s /\ \A p \in Nat : HeadIn(bytes[s], p) /\ roff'[c] < p => roff[c] < p
    PROVE  ReadOrder(c)'
<1>0. TypeOK /\ DurInv
    BY DEF OrderInv, DurInv
<1>1. Returned(c)' = Returned(c)
    BY DEF Returned
<1>2. delivered[c] = << >> => Returned(c) = {}
    BY EmptyRun DEF Returned
<1>3. \A p \in Nat : HeadIn(rdata'[c], p) => HeadIn(bytes[s], p) /\ rdata'[c][p] = bytes[s][p]
    BY NoHeads
<1>4. ASSUME NEW r \in Cached(c)'
      PROVE  \E p \in Nat : HeadIn(bytes[s], p) /\ r = bytes[s][p].rec
    <2>1. PICK p \in 1..Len(rdata'[c]) : IsHeader(rdata'[c][p]) /\ r = rdata'[c][p].rec
        BY DEF Cached
    <2>2. Len(rdata'[c]) \in Nat
        BY LenProperties DEF TypeOK, ReadersTypeOK
    <2>3. p \in Nat /\ HeadIn(rdata'[c], p)
        BY <2>1, <2>2 DEF HeadIn
    <2> QED
        BY <1>3, <2>1, <2>3
\* what it returned comes before all it can read from there
<1>5. ASSUME NEW r \in Returned(c), NEW p \in Nat, HeadIn(bytes[s], p), roff'[c] < p
      PROVE  r < bytes[s][p].rec
    <2>1. CASE rseg[c] < s
        BY <1>5, <2>1 DEF ReadOrder, AheadOrder
    <2>2. CASE rseg[c] = s /\ roff[c] < p
        BY <1>5, <2>2 DEF ReadOrder, ReturnedOrder
    <2> QED
        BY <1>2, <1>5, <2>1, <2>2
<1>6. CacheOrder(c)'
    <2>1. ASSUME NEW p \in Nat, NEW q \in Nat, HeadIn(bytes[s], p), HeadIn(bytes[s], q), p < q
          PROVE  bytes[s][p].rec < bytes[s][q].rec
        BY <2>1 DEF OrderInv, DiskOrder
    <2> QED
        BY <1>3, <2>1 DEF CacheOrder
<1>7. ReturnedOrder(c)'
    <2>1. \A r \in Returned(c), p \in Nat : HeadIn(rdata'[c], p) /\ roff'[c] < p => r < rdata'[c][p].rec
        BY <1>3, <1>5
    <2> QED
        BY <1>1, <1>5, <2>1 DEF ReadOrder, ReturnedOrder
<1>8. ASSUME NEW r \in Returned(c)
      PROVE  /\ \A t \in SegIds, p \in Nat : s < t /\ HeadIn(bytes[t], p) => r < bytes[t][p].rec
             /\ \A p \in Nat : HeadIn(buf, p) => r < buf[p].rec
             /\ r < nextRec
    <2>1. rseg[c] <= s
        BY <1>0, <1>2, <1>8, SeenTypes, ConstantFacts
    <2>2. ASSUME NEW t \in SegIds, s < t PROVE rseg[c] < t
        BY <1>0, <2>1, <2>2, SeenTypes, ConstantFacts
    <2> QED
        BY <2>2 DEF ReadOrder, AheadOrder
<1>9. ASSUME NEW r \in Cached(c)'
      PROVE  /\ \A t \in SegIds, p \in Nat : s < t /\ HeadIn(bytes[t], p) => r < bytes[t][p].rec
             /\ \A p \in Nat : HeadIn(buf, p) => r < buf[p].rec
             /\ r < nextRec
    <2>1. PICK i \in Nat : HeadIn(bytes[s], i) /\ r = bytes[s][i].rec
        BY <1>4
    <2> QED
        BY <2>1 DEF OrderInv, DiskOrder, BufferOrder, NextIsNew
<1>10. AheadOrder(c)'
    BY <1>1, <1>8, <1>9 DEF AheadOrder
<1> QED
    BY <1>6, <1>7, <1>10 DEF ReadOrder

\* A file read up to where it ended then, and from there to where it ends now.
LEMMA ToppedUp ==
    ASSUME NEW d \in Seq(Unit), NEW e \in Seq(Unit), Len(d) < Len(e),
           NEW f, f = d \o SubSeq(e, Len(d) + 1, Len(e))
    PROVE  /\ f \in Seq(Unit)
           /\ Len(f) = Len(e)
           /\ \A i \in 1..Len(e) : f[i] = IF i <= Len(d) THEN d[i] ELSE e[i]
<1>1. PICK m \in Nat, n \in Nat : m = Len(d) /\ n = Len(e) /\ m < n
    BY LenProperties
<1>2. PICK x \in Seq(Unit) : x = SubSeq(e, m + 1, n)
    <2>1. m + 1 \in 1..n + 1 /\ n \in 0..n
        BY <1>1
    <2>2. SubSeq(e, m + 1, n) \in Seq(Unit)
        BY <1>1, <2>1, PartFacts
    <2> QED
        BY <2>2
<1>3. Len(x) = n - m /\ \A i \in 1..n - m : x[i] = e[m + i]
    <2>1. \A i \in m + 1..n : e[i] \in Unit
        BY <1>1, ElementOfSeq
    <2> QED
        BY <1>1, <1>2, <2>1, SubSeqProperties
<1>4. f = d \o x
    BY <1>1, <1>2
<1>5. PICK g \in Seq(Unit) : g = d \o x
    BY ConcatProperties
<1>6. /\ Len(g) = m + Len(x)
      /\ \A i \in 1..m + Len(x) : g[i] = IF i <= m THEN d[i] ELSE x[i - m]
    BY <1>1, <1>5, ConcatProperties
<1>7. Len(g) = n
    BY <1>3, <1>6
<1>8. ASSUME NEW i \in 1..n
      PROVE  g[i] = IF i <= m THEN d[i] ELSE e[i]
    <2>1. g[i] = IF i <= m THEN d[i] ELSE x[i - m]
        BY <1>6, <1>7
    <2>2. CASE ~(i <= m)
        <3>1. PICK j \in 1..n - m : j = i - m /\ m + j = i
            BY <2>2
        <3>2. x[j] = e[i]
            BY <1>3, <3>1
        <3> QED
            BY <2>1, <2>2, <3>1, <3>2
    <2> QED
        BY <2>1, <2>2
<1> QED
    BY <1>1, <1>4, <1>5, <1>7, <1>8

\* A cache topped up with what its segment holds beyond it (top_up_current_segment).
LEMMA ToppedUpReadOrder ==
    ASSUME OrderInv, NEW c \in Consumers, ReadOrder(c), NEW s \in SegIds, rseg[c] = s,
           Len(rdata[c]) < Len(bytes[s]),
           rdata'[c] = rdata[c] \o SubSeq(bytes[s], Len(rdata[c]) + 1, Len(bytes[s])),
           roff'[c] = roff[c], rseg'[c] = s, delivered'[c] = delivered[c], ropen'[c] = ropen[c],
           UNCHANGED << bytes, buf, nextRec >>
    PROVE  ReadOrder(c)'
<1>0. TypeOK /\ DurInv
    BY DEF OrderInv, DurInv
<1>1. PICK d \in Seq(Unit), e \in Seq(Unit) : d = rdata[c] /\ e = bytes[s] /\ Len(d) < Len(e)
    BY <1>0, SeenTypes, HeadTypes
<1>2. PICK f : f = rdata'[c] /\ f = d \o SubSeq(e, Len(d) + 1, Len(e))
    BY <1>1
<1>3. PICK m \in Nat, n \in Nat :
         /\ m = Len(d) /\ n = Len(e) /\ m < n /\ Len(f) = n
         /\ \A i \in 1..n : f[i] = IF i <= m THEN d[i] ELSE e[i]
    <2>1. Len(d) \in Nat /\ Len(e) \in Nat
        BY LenProperties
    <2>2. Len(d) < Len(e) /\ f = d \o SubSeq(e, Len(d) + 1, Len(e))
        BY <1>1, <1>2
    <2>3. /\ f \in Seq(Unit)
          /\ Len(f) = Len(e)
          /\ \A i \in 1..Len(e) : f[i] = IF i <= Len(d) THEN d[i] ELSE e[i]
        BY ONLY <2>2, ToppedUp, d \in Seq(Unit), e \in Seq(Unit)
    <2> QED
        BY <2>1, <2>2, <2>3
\* a header in the cache was there, or is one of the segment's beyond it
<1>4. ASSUME NEW p \in Nat, HeadIn(rdata'[c], p)
      PROVE  \/ p <= m /\ HeadIn(rdata[c], p) /\ rdata'[c][p] = rdata[c][p]
             \/ p > m /\ HeadIn(bytes[s], p) /\ rdata'[c][p] = bytes[s][p]
    <2>1. HeadIn(f, p)
        BY <1>2, <1>4
    <2>2. p \in 1..n /\ IsHeader(f[p])
        BY <1>3, <2>1 DEF HeadIn
    <2>3. \/ p <= m /\ HeadIn(d, p) /\ f[p] = d[p]
          \/ p > m /\ HeadIn(e, p) /\ f[p] = e[p]
        <3>1. CASE p <= m
            <4>1. f[p] = d[p] /\ p \in 1..Len(d)
                BY <1>3, <2>2, <3>1
            <4> QED
                BY <2>2, <3>1, <4>1 DEF HeadIn
        <3>2. CASE p > m
            <4>1. f[p] = e[p] /\ p \in 1..Len(e)
                BY <1>3, <2>2, <3>2
            <4> QED
                BY <2>2, <3>2, <4>1 DEF HeadIn
        <3>3. p <= m \/ p > m
            OBVIOUS
        <3> QED
            BY <3>1, <3>2, <3>3, Zenon
    <2> QED
        BY <1>1, <1>2, <2>3, Zenon
<1>5. Returned(c)' = Returned(c)
    BY DEF Returned
<1>6. ASSUME NEW r \in Cached(c)'
      PROVE  r \in Cached(c) \/ \E p \in Nat : HeadIn(bytes[s], p) /\ r = bytes[s][p].rec
    <2>1. PICK p \in 1..Len(f) : IsHeader(f[p]) /\ r = f[p].rec
        BY <1>2 DEF Cached
    <2>2. p \in Nat /\ HeadIn(f, p)
        BY <1>3, <2>1 DEF HeadIn
    <2>3. HeadIn(rdata'[c], p) /\ r = rdata'[c][p].rec
        BY <1>2, <2>1, <2>2
    <2> QED
        BY <1>4, <2>2, <2>3, CachedHead
<1>7. CacheOrder(c)'
    <2>1. ASSUME NEW p \in Nat, NEW q \in Nat, HeadIn(rdata'[c], p), HeadIn(bytes[s], q), p < q
          PROVE  rdata'[c][p].rec < bytes[s][q].rec
        BY <1>4, <2>1 DEF OrderInv, DiskOrder, ReadOrder, CacheOrder
    <2>2. ASSUME NEW p \in Nat, NEW q \in Nat, HeadIn(rdata'[c], p), HeadIn(rdata'[c], q), p < q
          PROVE  rdata'[c][p].rec < rdata'[c][q].rec
        <3>1. CASE q > m /\ HeadIn(bytes[s], q) /\ rdata'[c][q] = bytes[s][q]
            BY <2>1, <2>2, <3>1
        <3>2. CASE q <= m /\ HeadIn(rdata[c], q) /\ rdata'[c][q] = rdata[c][q]
            <4>1. ~(p > m)
                BY <2>2, <3>2
            <4>2. HeadIn(rdata[c], p) /\ rdata'[c][p] = rdata[c][p]
                BY <1>4, <2>2, <4>1
            <4> QED
                BY <2>2, <3>2, <4>2 DEF ReadOrder, CacheOrder
        <3> QED
            BY <1>4, <2>2, <3>1, <3>2
    <2> QED
        BY <2>1, <2>2 DEF CacheOrder
<1>8. ReturnedOrder(c)'
    <2>1. ASSUME NEW r \in Returned(c), NEW p \in Nat, HeadIn(rdata'[c], p), roff[c] < p
          PROVE  r < rdata'[c][p].rec
        BY <1>4, <2>1 DEF ReadOrder, ReturnedOrder
    <2> QED
        BY <1>5, <2>1 DEF ReadOrder, ReturnedOrder
<1>9. ASSUME NEW r \in Returned(c)' \cup Cached(c)'
      PROVE  /\ \A t \in SegIds, p \in Nat : s < t /\ HeadIn(bytes[t], p) => r < bytes[t][p].rec
             /\ \A p \in Nat : HeadIn(buf, p) => r < buf[p].rec
             /\ r < nextRec
    <2>1. CASE r \in Returned(c) \cup Cached(c)
        BY <2>1 DEF ReadOrder, AheadOrder
    <2>2. CASE \E p \in Nat : HeadIn(bytes[s], p) /\ r = bytes[s][p].rec
        BY <2>2 DEF OrderInv, DiskOrder, BufferOrder, NextIsNew
    <2> QED
        BY <1>5, <1>6, <2>1, <2>2
<1>10. AheadOrder(c)'
    BY <1>9 DEF AheadOrder
<1> QED
    BY <1>7, <1>8, <1>10 DEF ReadOrder

\* What parsing at an offset takes the reader over (read_record_at).
LEMMA RecordRead ==
    ASSUME NEW d \in Seq(Unit), NEW o \in Nat, NEW x \in ReadRecordAt(d, o)
    PROVE  /\ x.kind \in {"record", "crc"} => x.next \in Nat /\ o < x.next
           /\ x.kind = "record" => /\ x.rec \in Records
                                   /\ HeadIn(d, o + 1) /\ d[o + 1].rec = x.rec
                                   /\ x.next = o + FrameLen(x.rec)
                                   /\ x.next <= Len(d)
                                   /\ SubSeq(d, o + 1, x.next) = Frame(x.rec)
<1>1. CASE o >= Len(d) \/ d[o + 1] = Zero
    BY <1>1 DEF ReadRecordAt, AtEnd
<1>2. CASE ~(o >= Len(d) \/ d[o + 1] = Zero) /\ ~IsHeader(d[o + 1])
    <2>1. x \in {AtEnd, Truncated} \/ \E n \in o + 2..Len(d) : x = CrcBad(n)
        BY <1>2 DEF ReadRecordAt
    <2>2. Len(d) \in Nat
        BY LenProperties
    <2> QED
        BY <2>1, <2>2 DEF AtEnd, Truncated, CrcBad
<1>3. CASE ~(o >= Len(d) \/ d[o + 1] = Zero) /\ IsHeader(d[o + 1])
    <2>0. Len(d) \in Nat /\ o + 1 \in 1..Len(d)
        BY <1>3, LenProperties
    <2>1. d[o + 1] \in Unit
        BY <2>0, ElementOfSeq
    <2>2. PICK r \in Records : r = d[o + 1].rec
        BY <1>3, <2>1, FramesAssumption DEF Unit, IsHeader, Records
    <2>3. PICK n \in Nat : n = o + FrameLen(r) /\ o < n
        BY FrameFacts
    <2>4. x \in IF n > Len(d) THEN {Truncated}
                ELSE IF SubSeq(d, o + 1, n) = Frame(r) THEN {Found(r, n)} ELSE {CrcBad(n)}
        BY <1>3, <2>2, <2>3 DEF ReadRecordAt
    <2>5. x = Truncated \/ x = CrcBad(n)
          \/ (x = Found(r, n) /\ n <= Len(d) /\ SubSeq(d, o + 1, n) = Frame(r))
        BY <2>0, <2>4
    <2>6. HeadIn(d, o + 1)
        BY <1>3, <2>0 DEF HeadIn
    <2> QED
        BY <2>2, <2>3, <2>5, <2>6 DEF Truncated, CrcBad, Found
<1> QED
    BY <1>1, <1>2, <1>3

\* What a reader returns next comes after all it returned and before all it can
\* still read (WalReader::next).
LEMMA DeliverReadOrder ==
    ASSUME OrderInv, NEW c \in Consumers, ReadOrder(c), Deliver(c)
    PROVE  ReadOrder(c)'
<1>0. TypeOK
    BY DEF OrderInv, DurInv
<1>1. PICK x \in ReadRecordAt(rdata[c], roff[c]) :
         /\ x.kind = "record"
         /\ roff' = [roff EXCEPT ![c] = x.next]
         /\ delivered' = [delivered EXCEPT ![c] = Append(@, [rec |-> x.rec, seg |-> rseg[c]])]
    BY DEF Deliver
<1>2. /\ HeadIn(rdata[c], roff[c] + 1) /\ rdata[c][roff[c] + 1].rec = x.rec
      /\ x.next \in Nat /\ roff[c] < x.next /\ x.rec \in Records
      /\ x.next = roff[c] + FrameLen(x.rec)
    BY <1>0, <1>1, SeenTypes, RecordRead
<1>3. PICK p \in Nat : p = roff[c] + 1 /\ p < x.next
    <2>1. FrameLen(x.rec) \in Nat \ {0, 1} /\ roff[c] \in Nat
        BY <1>0, <1>2, FrameFacts, SeenTypes
    <2> QED
        BY <1>2, <2>1
<1>4. HeadIn(rdata[c], p) /\ rdata[c][p].rec = x.rec /\ roff[c] < p
    BY <1>0, <1>2, <1>3, SeenTypes
<1>5. x.rec \in Cached(c)
    BY <1>4, CachedHead
<1>6. UNCHANGED << bytes, buf, nextRec, rdata, rseg, ropen >> /\ ropen[c]
    BY DEF Deliver, wvars
<1>7. PICK n \in Nat : n = Len(delivered[c])
    BY <1>0, SeenTypes
<1>8. /\ Len(delivered'[c]) = n + 1
      /\ \A i \in 1..n : delivered'[c][i] = delivered[c][i]
      /\ delivered'[c][n + 1].rec = x.rec
      /\ roff'[c] = x.next
    <2>1. [rec |-> x.rec, seg |-> rseg[c]] \in Delivery
        BY <1>0, <1>2, SeenTypes DEF Delivery
    <2>2. delivered'[c] = Append(delivered[c], [rec |-> x.rec, seg |-> rseg[c]])
        BY <1>0, <1>1 DEF TypeOK, ReadersTypeOK
    <2>3. roff'[c] = x.next
        BY <1>0, <1>1 DEF TypeOK, ReadersTypeOK
    <2> QED
        BY <1>0, <1>7, <2>1, <2>2, <2>3, SeenTypes, AppendProperties
<1>9. ASSUME NEW r \in Returned(c)'
      PROVE  r \in Returned(c) \/ r = x.rec
    <2>1. PICK i \in 1..n + 1 : r = delivered'[c][i].rec
        BY <1>8 DEF Returned
    <2>2. i \in 1..n \/ i = n + 1
        OBVIOUS
    <2> QED
        BY <1>7, <1>8, <2>1, <2>2 DEF Returned
<1>10. Cached(c)' = Cached(c)
    BY <1>6 DEF Cached
<1>11. CacheOrder(c)'
    BY <1>6 DEF ReadOrder, CacheOrder
<1>12. AheadOrder(c)'
    BY <1>5, <1>6, <1>9, <1>10 DEF ReadOrder, AheadOrder
<1>13. ASSUME NEW i \in 1..n + 1, NEW j \in 1..n + 1, i < j
       PROVE  delivered'[c][i].rec < delivered'[c][j].rec
    <2>1. i \in 1..n
        BY <1>13
    <2>2. CASE j \in 1..n
        BY <1>7, <1>8, <1>13, <2>1, <2>2 DEF ReadOrder, ReturnedOrder
    <2>3. CASE j = n + 1
        <3>1. delivered[c][i].rec \in Returned(c)
            BY <1>7, <2>1 DEF Returned
        <3>2. delivered[c][i].rec < x.rec
            BY <1>4, <3>1 DEF ReadOrder, ReturnedOrder
        <3> QED
            BY <1>8, <2>1, <2>3, <3>2
    <2>4. j \in 1..n \/ j = n + 1
        OBVIOUS
    <2> QED
        BY <2>2, <2>3, <2>4
<1>14. ASSUME NEW r \in Returned(c)', NEW q \in Nat, x.next < q
       PROVE  /\ HeadIn(rdata[c], q) => r < rdata[c][q].rec
              /\ HeadIn(bytes[rseg[c]], q) => r < bytes[rseg[c]][q].rec
    <2>1. p < q /\ roff[c] < q
        BY <1>0, <1>2, <1>3, <1>14, SeenTypes
    <2>2. CASE r \in Returned(c)
        BY <2>1, <2>2 DEF ReadOrder, ReturnedOrder
    <2>3. CASE r = x.rec
        BY <1>4, <2>1, <2>3 DEF ReadOrder, CacheOrder
    <2> QED
        BY <1>9, <2>2, <2>3
<1>15. ReturnedOrder(c)'
    BY <1>6, <1>8, <1>13, <1>14 DEF ReturnedOrder
<1> QED
    BY <1>11, <1>12, <1>15 DEF ReadOrder

\* A reader's step leaves the other readers as they are.
LEMMA OthersUntouched ==
    ASSUME TypeOK, NEW c \in Consumers, Reader(c), NEW d \in Consumers, d # c
    PROVE  /\ rdata'[d] = rdata[d] /\ roff'[d] = roff[d] /\ rseg'[d] = rseg[d]
           /\ delivered'[d] = delivered[d] /\ ropen'[d] = ropen[d] /\ rloaded'[d] = rloaded[d]
<1>1. /\ rdata \in [Consumers -> Seq(Unit)] /\ rseg \in [Consumers -> SegIds]
      /\ roff \in [Consumers -> Nat] /\ delivered \in [Consumers -> Seq(Delivery)]
      /\ ropen \in [Consumers -> BOOLEAN] /\ rloaded \in [Consumers -> BOOLEAN]
    BY DEF TypeOK, ReadersTypeOK
<1>2. CASE OpenReader(c)
    BY <1>1, <1>2 DEF OpenReader
<1>3. CASE Deliver(c)
    BY <1>1, <1>3 DEF Deliver
<1>4. CASE SkipCorrupt(c)
    BY <1>1, <1>4 DEF SkipCorrupt
<1>5. ASSUME NEW s, LoadSegment(c, s)
      PROVE  rdata'[d] = rdata[d] /\ rseg'[d] = rseg[d] /\ rloaded'[d] = rloaded[d]
    BY <1>1, <1>5 DEF LoadSegment
<1>6. CASE PollEnd(c)
    <2>1. Advance(c) /\ UNCHANGED << ropen, delivered >>
        BY <1>6 DEF PollEnd
    <2>2. CASE \E s \in segments : s > rseg[c]
        BY <1>1, <1>5, <2>1, <2>2 DEF Advance
    <2>3. CASE ~\E s \in segments : s > rseg[c]
        BY <1>1, <2>1, <2>3 DEF Advance, TopUp
    <2> QED
        BY <2>2, <2>3
<1>7. CASE PollUnloaded(c)
    <2>1. Reload(c) /\ UNCHANGED << ropen, delivered >>
        BY <1>7 DEF PollUnloaded
    <2>2. roff'[d] = roff[d] /\ \E s : LoadSegment(c, s)
        BY <1>1, <2>1 DEF Reload
    <2> QED
        BY <1>5, <2>1, <2>2
<1>8. CASE Commit(c)
    BY <1>8 DEF Commit, rvars
<1>9. CASE CloseReader(c)
    BY <1>1, <1>9 DEF CloseReader, Closed
<1> QED
    BY <1>2, <1>3, <1>4, <1>6, <1>7, <1>8, <1>9 DEF Reader, Poll

\* Every step of a reader keeps its own order.
LEMMA ReaderReadOrder ==
    ASSUME OrderInv, NEW c \in Consumers, ReadOrder(c), Reader(c), TypeOK'
    PROVE  ReadOrder(c)'
<1>0. TypeOK /\ DurInv
    BY DEF OrderInv, DurInv
<1>1. \A s \in segments : s \in SegIds
    BY <1>0 DEF TypeOK, WriterTypeOK
<1>2. rseg[c] \in SegIds /\ SegIds \subseteq Nat /\ roff[c] \in Nat
    BY <1>0, SeenTypes, ConstantFacts
<1>3. /\ rdata \in [Consumers -> Seq(Unit)] /\ rseg \in [Consumers -> SegIds]
      /\ roff \in [Consumers -> Nat] /\ delivered \in [Consumers -> Seq(Delivery)]
      /\ ropen \in [Consumers -> BOOLEAN]
    BY <1>0 DEF TypeOK, ReadersTypeOK
<1>4. CASE OpenReader(c)
    <2>1. PICK s \in SegIds : rseg' = [rseg EXCEPT ![c] = s] /\ rdata' = [rdata EXCEPT ![c] = bytes[s]]
        BY <1>4 DEF OpenReader
    <2>2. /\ UNCHANGED << bytes, buf, nextRec, delivered >>
          /\ ~ropen[c] /\ ropen' = [ropen EXCEPT ![c] = TRUE]
        BY <1>4 DEF OpenReader, wvars
    <2>3. delivered[c] = << >>
        BY <2>2 DEF ReadOrder, ReturnedOrder
    <2>4. rseg'[c] = s /\ rdata'[c] \in {bytes[s], << >>} /\ ropen'[c] /\ delivered'[c] = delivered[c]
        BY <1>3, <2>1, <2>2
    <2> QED
        BY <2>2, <2>3, <2>4, LoadedReadOrder
<1>5. CASE Deliver(c)
    BY <1>5, DeliverReadOrder
<1>6. CASE SkipCorrupt(c)
    <2>1. PICK x \in ReadRecordAt(rdata[c], roff[c]) : x.kind = "crc" /\ roff' = [roff EXCEPT ![c] = x.next]
        BY <1>6 DEF SkipCorrupt
    <2>2. x.next \in Nat /\ roff[c] < x.next
        BY <1>0, <2>1, SeenTypes, RecordRead
    <2>3. UNCHANGED << bytes, buf, nextRec, rdata, rseg, ropen, delivered >>
        BY <1>6 DEF SkipCorrupt, wvars
    <2>4. roff'[c] = x.next
        BY <1>3, <2>1
    <2>5. \A p \in Nat : roff'[c] < p => roff[c] < p
        BY <1>2, <2>2, <2>4
    <2>6. Returned(c)' = Returned(c) /\ Cached(c)' = Cached(c)
        BY <2>3 DEF Returned, Cached
    <2>7. CacheOrder(c)'
        BY <2>3, <2>6 DEF ReadOrder, CacheOrder
    <2>8. ReturnedOrder(c)'
        BY <2>3, <2>5, <2>6 DEF ReadOrder, ReturnedOrder
    <2>9. AheadOrder(c)'
        BY <2>3, <2>6 DEF ReadOrder, AheadOrder
    <2> QED
        BY <2>7, <2>8, <2>9 DEF ReadOrder
\* load_segment: of the current segment at the same offset, or of a later one
<1>7. ASSUME NEW s \in SegIds, LoadSegment(c, s), UNCHANGED << wvars, ropen, delivered >>,
             \/ rseg[c] < s /\ s \in segments
             \/ rseg[c] = s /\ roff' = roff
      PROVE  ReadOrder(c)'
    <2>1. UNCHANGED << bytes, buf, nextRec, delivered, ropen >>
        BY <1>7 DEF wvars
    <2>2. rseg'[c] = s /\ rdata'[c] \in {bytes[s], << >>}
        BY <1>3, <1>7 DEF LoadSegment
    <2>3. ropen'[c] \/ delivered[c] = << >>
        BY <2>1 DEF ReadOrder, ReturnedOrder
    <2>4. delivered'[c] = delivered[c]
        BY <2>1
    <2>5. rseg[c] < s \/ (rseg[c] = s /\ \A p \in Nat : HeadIn(bytes[s], p) /\ roff'[c] < p => roff[c] < p)
        BY <1>7
    <2> QED
        BY <2>1, <2>2, <2>3, <2>4, <2>5, LoadedReadOrder
<1>8. CASE PollEnd(c)
    <2>1. Advance(c) /\ UNCHANGED << wvars, ropen, delivered >>
        BY <1>8 DEF PollEnd
    <2>2. CASE \E s \in segments : s > rseg[c]
        <3>1. PICK s \in segments : s > rseg[c] /\ LoadSegment(c, s)
            BY <2>1, <2>2 DEF Advance, IsLeast
        <3>2. s \in SegIds /\ rseg[c] < s
            BY <1>1, <1>2, <3>1
        <3> QED
            BY <1>7, <2>1, <3>1, <3>2
    <2>3. CASE ~\E s \in segments : s > rseg[c]
        <3>1. TopUp(c)
            BY <2>1, <2>3 DEF Advance
        <3>2. /\ UNCHANGED << bytes, buf, nextRec, delivered, ropen, rseg >>
              /\ ropen'[c] \/ delivered[c] = << >>
            BY <2>1, <3>1 DEF TopUp, wvars, ReadOrder, ReturnedOrder
        <3>3. Len(bytes[rseg[c]]) \in Nat /\ Len(rdata[c]) \in Nat
            BY <1>0, <1>2, HeadTypes, SeenTypes
        <3>4. CASE UNCHANGED << roff, rdata >>
            <4>1. Returned(c)' = Returned(c) /\ Cached(c)' = Cached(c)
                BY <3>2, <3>4 DEF Returned, Cached
            <4>2. CacheOrder(c)'
                BY <3>2, <3>4, <4>1 DEF ReadOrder, CacheOrder
            <4>3. ReturnedOrder(c)'
                BY <3>2, <3>4, <4>1 DEF ReadOrder, ReturnedOrder
            <4>4. AheadOrder(c)'
                BY <3>2, <3>4, <4>1 DEF ReadOrder, AheadOrder
            <4> QED
                BY <4>2, <4>3, <4>4 DEF ReadOrder
        <3>5. CASE rseg[c] \in segments /\ Len(rdata[c]) < Len(bytes[rseg[c]])
            <4>1. /\ rdata' = [rdata EXCEPT ![c] = @ \o SubSeq(bytes[rseg[c]], Len(rdata[c]) + 1, Len(bytes[rseg[c]]))]
                  /\ UNCHANGED roff
                <5>1. Len(bytes[rseg[c]]) > Len(rdata[c]) /\ Len(bytes[rseg[c]]) # Len(rdata[c])
                    BY <3>3, <3>5
                <5> QED
                    BY <3>1, <3>5, <5>1, Zenon DEF TopUp
            <4>2. rdata'[c] = rdata[c] \o SubSeq(bytes[rseg[c]], Len(rdata[c]) + 1, Len(bytes[rseg[c]]))
                BY <1>3, <4>1
            <4> QED
                BY <1>2, <3>2, <3>5, <4>1, <4>2, ToppedUpReadOrder
        <3>6. CASE rseg[c] \in segments /\ Len(bytes[rseg[c]]) < Len(rdata[c])
            <4>1. /\ rdata' = [rdata EXCEPT ![c] = bytes[rseg[c]]]
                  /\ roff' = [roff EXCEPT ![c] = IF @ > Len(bytes[rseg[c]]) THEN Len(bytes[rseg[c]]) ELSE @]
                <5>1. ~(Len(bytes[rseg[c]]) > Len(rdata[c])) /\ Len(bytes[rseg[c]]) # Len(rdata[c])
                    BY <3>3, <3>6
                <5> QED
                    BY <3>1, <3>6, <5>1, Zenon DEF TopUp
            <4>2. /\ rdata'[c] = bytes[rseg[c]]
                  /\ roff'[c] = IF roff[c] > Len(bytes[rseg[c]]) THEN Len(bytes[rseg[c]]) ELSE roff[c]
                BY <1>3, <4>1
            <4>3. ASSUME NEW p \in Nat, HeadIn(bytes[rseg[c]], p), roff'[c] < p PROVE roff[c] < p
                <5>1. p <= Len(bytes[rseg[c]])
                    BY <3>3, <4>3 DEF HeadIn
                <5> QED
                    BY <1>2, <3>3, <4>2, <4>3, <5>1
            <4>4. rseg'[c] = rseg[c] /\ delivered'[c] = delivered[c]
                BY <3>2
            <4> QED
                BY <1>2, <3>2, <4>2, <4>3, <4>4, LoadedReadOrder
        <3>7. rseg[c] \notin segments \/ Len(bytes[rseg[c]]) = Len(rdata[c]) => UNCHANGED << roff, rdata >>
            BY <3>1 DEF TopUp
        <3> QED
            BY <3>3, <3>4, <3>5, <3>6, <3>7
    <2> QED
        BY <2>2, <2>3
<1>9. CASE PollUnloaded(c)
    <2>1. Reload(c) /\ UNCHANGED << wvars, ropen, delivered >>
        BY <1>9 DEF PollUnloaded
    <2>2. \/ \E s \in segments : rseg[c] < s /\ LoadSegment(c, s)
          \/ LoadSegment(c, rseg[c]) /\ roff' = roff
        BY <2>1 DEF Reload
    <2> QED
        BY <1>1, <1>2, <1>7, <2>1, <2>2
<1>10. CASE Commit(c)
    <2>1. UNCHANGED << bytes, buf, nextRec, rdata, rseg, roff, ropen, delivered >>
        BY <1>10 DEF Commit, disk, proc, rvars
    <2>2. Returned(c)' = Returned(c) /\ Cached(c)' = Cached(c)
        BY <2>1 DEF Returned, Cached
    <2>3. CacheOrder(c)'
        BY <2>1, <2>2 DEF ReadOrder, CacheOrder
    <2>4. ReturnedOrder(c)'
        BY <2>1, <2>2 DEF ReadOrder, ReturnedOrder
    <2>5. AheadOrder(c)'
        BY <2>1, <2>2 DEF ReadOrder, AheadOrder
    <2> QED
        BY <2>3, <2>4, <2>5 DEF ReadOrder
<1>11. CASE CloseReader(c)
    <2>1. delivered'[c] = << >> /\ rdata'[c] = << >>
        BY <1>3, <1>11 DEF CloseReader, Closed
    <2> QED
        BY <2>1, EmptyReadOrder
<1> QED
    BY <1>4, <1>5, <1>6, <1>8, <1>9, <1>10, <1>11 DEF Reader, Poll

\* A step that touches neither the reader nor the records keeps its order.
LEMMA UntouchedReadOrder ==
    ASSUME NEW d \in Consumers, ReadOrder(d),
           bytes' = bytes, buf' = buf, nextRec' = nextRec,
           rdata'[d] = rdata[d], roff'[d] = roff[d], rseg'[d] = rseg[d],
           delivered'[d] = delivered[d], ropen'[d] = ropen[d]
    PROVE  ReadOrder(d)'
<1>1. Returned(d)' = Returned(d) /\ Cached(d)' = Cached(d)
    BY DEF Returned, Cached
<1>2. CacheOrder(d)'
    BY DEF ReadOrder, CacheOrder
<1>3. ReturnedOrder(d)'
    BY <1>1 DEF ReadOrder, ReturnedOrder
<1>4. AheadOrder(d)'
    BY <1>1 DEF ReadOrder, AheadOrder
<1> QED
    BY <1>2, <1>3, <1>4 DEF ReadOrder

\* Every step keeps the order of what every reader returned and can return.
LEMMA ReadStep == ASSUME ReadInv, [Next]_vars PROVE ReadInv'
<1>0. OrderInv' /\ TypeOK'
    BY OrderStep DEF ReadInv, OrderInv, DurInv
<1>1. CASE WNext /\ UNCHANGED rvars
    <2>1. PICK k \in Nat : HeadsMove(k)
        BY <1>1, HeadsStep DEF ReadInv, OrderInv
    <2>2. \A c \in Consumers : ReadOrder(c)'
        BY <1>1, <2>1, WriterReadOrder DEF ReadInv
    <2> QED
        BY <1>0, <2>2 DEF ReadInv
<1>2. ASSUME NEW c \in Consumers, Reader(c) PROVE ReadInv'
    <2>1. ReadOrder(c)'
        BY <1>0, <1>2, ReaderReadOrder DEF ReadInv
    <2>2. ASSUME NEW d \in Consumers, d # c PROVE ReadOrder(d)'
        <3>1. bytes' = bytes /\ buf' = buf /\ nextRec' = nextRec
            BY <1>2, Zenon DEF Reader, Poll, OpenReader, Deliver, SkipCorrupt, PollEnd,
                               PollUnloaded, Commit, CloseReader, wvars, disk, proc
        <3>2. /\ rdata'[d] = rdata[d] /\ roff'[d] = roff[d] /\ rseg'[d] = rseg[d]
              /\ delivered'[d] = delivered[d] /\ ropen'[d] = ropen[d]
            BY <1>2, <2>2, OthersUntouched DEF ReadInv, OrderInv, DurInv
        <3> QED
            BY <3>1, <3>2, UntouchedReadOrder DEF ReadInv
    <2> QED
        BY <1>0, <2>1, <2>2 DEF ReadInv
<1>3. CASE MachinePowerLoss
    <2>1. \A c \in Consumers : delivered'[c] = << >> /\ rdata'[c] = << >>
        BY <1>3 DEF MachinePowerLoss
    <2> QED
        BY <1>0, <2>1, EmptyReadOrder DEF ReadInv
<1>4. CASE UNCHANGED vars
    <2>1. /\ bytes' = bytes /\ buf' = buf /\ nextRec' = nextRec
          /\ rdata' = rdata /\ roff' = roff /\ rseg' = rseg
          /\ delivered' = delivered /\ ropen' = ropen
        BY <1>4, Zenon DEF vars, wvars, rvars, disk, proc
    <2>2. \A c \in Consumers : ReadOrder(c)'
        BY <2>1, UntouchedReadOrder DEF ReadInv
    <2> QED
        BY <1>0, <2>2 DEF ReadInv
<1> QED
    BY <1>1, <1>2, <1>3, <1>4 DEF Next

\* Readers that have returned nothing yet are in order.
LEMMA ReadInit == Init => ReadInv
<1> SUFFICES ASSUME Init, NEW c \in Consumers PROVE ReadOrder(c)
    BY OrderInit DEF ReadInv
<1>1. delivered[c] = << >> /\ rdata[c] = << >>
    BY DEF Init
<1>2. Returned(c) = {} /\ Cached(c) = {} /\ 1..Len(delivered[c]) = {}
    BY <1>1, EmptyRun DEF Returned, Cached
<1> QED
    BY <1>1, <1>2, NoHeads DEF ReadOrder, CacheOrder, ReturnedOrder, AheadOrder

\* The inductive invariant of what readers return.
THEOREM ReadInvariant == Spec => []ReadInv
<1>1. Init => ReadInv
    BY ReadInit
<1>2. ReadInv /\ [Next]_vars => ReadInv'
    BY ReadStep
<1> QED
    BY <1>1, <1>2, PTL DEF Spec

\* A reader returns records in the order they were appended and none twice, over
\* segment changes, reloads of a file that a recovery cut and other bytes were
\* appended to, and skipped frames.
THEOREM DeliveredInOrderAlways == Spec => []DeliveredInOrder
<1>1. ReadInv => DeliveredInOrder
    <2> SUFFICES ASSUME ReadInv, NEW c \in Consumers PROVE
                   \A i, j \in DOMAIN delivered[c] :
                       i < j => delivered[c][i].rec < delivered[c][j].rec
        BY DEF DeliveredInOrder
    <2>1. delivered[c] \in Seq(Delivery)
        BY SeenTypes DEF ReadInv, OrderInv, DurInv
    <2>2. DOMAIN delivered[c] = 1..Len(delivered[c])
        BY <2>1, LenProperties
    <2> QED
        BY <2>2 DEF ReadInv, ReadOrder, ReturnedOrder
<1> QED
    BY <1>1, ReadInvariant, PTL

-----------------------------------------------------------------------------
(* What a reader leaves out.  As long as no writer ended and no power was   *)
(* lost, files only grow, and a reader that stands between two frames of a  *)
(* segment parses what is appended there from a header on.                  *)

\* d is what e began with.
Extends(e, d) == Len(d) <= Len(e) /\ \A i \in 1..Len(d) : e[i] = d[i]

\* d is the first part of a run of intact frames; its last frame may be cut.
PartOfRun(d) == \E e \in Seq(Unit) : WellFramed(e) /\ Extends(e, d)

\* There are segments only once a writer has the lock.
Watched == segments # {} => wpc # "none"

\* The reader stands between two frames, or at the start of a segment to come.
Stands(c) ==
    /\ rseg[c] >= nextId => roff[c] = 0 /\ ~rloaded[c]
    /\ rseg[c] \in segments => OnBoundary(rseg[c], roff[c])

\* So does the position it would resume from.
Resumes(c) ==
    /\ committed[c] # NoPosition /\ committed[c].seg >= nextId => committed[c].off = 0
    /\ committed[c].seg \in segments => OnBoundary(committed[c].seg, committed[c].off)

\* What it holds in memory is what the file began with.
Holds(c) ==
    rloaded[c] => /\ PartOfRun(rdata[c])
                  /\ roff[c] <= Len(rdata[c]) /\ WellFramed(SubSeq(rdata[c], 1, roff[c]))
                  /\ rseg[c] \in segments => Extends(bytes[rseg[c]], rdata[c])

\* It has returned all that it passed in its segment, up to where it stands.
Passed(c) ==
    LET n == Len(delivered[c])
    IN  /\ \A i \in 1..n : delivered[c][i].seg <= rseg[c]
        /\ n > 0 /\ delivered[c][n].seg = rseg[c] =>
              \A p \in Nat : p <= roff[c] /\ HeadIn(bytes[rseg[c]], p)
                                 => bytes[rseg[c]][p].rec <= delivered[c][n].rec

\* No frame that starts in its segment lies between two records it returned.
Gapless(c) ==
    \A i \in 1..Len(delivered[c]) - 1 :
        LET a == delivered[c][i]
            b == delivered[c][i + 1]
        IN  a.seg = b.seg => \A p \in Nat : HeadIn(bytes[a.seg], p) =>
                bytes[a.seg][p].rec <= a.rec \/ b.rec <= bytes[a.seg][p].rec

FollowsOn(c) == Stands(c) /\ Resumes(c) /\ Holds(c) /\ Passed(c) /\ Gapless(c)

GapInv == ReadInv /\ (Undisturbed => Watched /\ \A c \in Consumers : FollowsOn(c))

\* At a frame boundary of a run a reader finds the next frame, or that it is not
\* there yet: nothing is skipped and nothing read from the middle of a frame.
LEMMA Parsed ==
    ASSUME NEW d \in Seq(Unit), PartOfRun(d), NEW o \in 0..Len(d), WellFramed(SubSeq(d, 1, o)),
           NEW x \in ReadRecordAt(d, o)
    PROVE  /\ x.kind \in {"end", "truncated", "record"}
           /\ x.kind = "record" =>
                 /\ x.next \in 0..Len(d) /\ WellFramed(SubSeq(d, 1, x.next))
                 /\ \A p \in Nat : o + 1 < p /\ p <= x.next => ~HeadIn(d, p)
<1>0. Len(d) \in Nat /\ o \in Nat
    BY LenProperties
<1>1. CASE o >= Len(d)
    BY <1>1 DEF ReadRecordAt, AtEnd
<1>2. CASE o < Len(d)
    <2>1. PICK e \in Seq(Unit) : WellFramed(e) /\ Len(d) <= Len(e) /\ \A i \in 1..Len(d) : e[i] = d[i]
        BY DEF PartOfRun, Extends
    <2>2. Len(e) \in Nat /\ o + 1 \in 1..Len(d) /\ e # << >>
        BY <1>0, <1>2, <2>1, LenProperties, EmptySeq
    \* what follows the last frame is a header
    <2>3. IsHeader(d[o + 1])
        <3>1. CASE o = 0
            BY <2>1, <2>2, <3>1 DEF WellFramed
        <3>2. CASE o # 0
            <4>1. o \in 1..Len(d) /\ o \in 1..Len(e) - 1
                BY <1>0, <1>2, <2>1, <2>2, <3>2
            <4>2. PICK f : f = SubSeq(d, 1, o)
                OBVIOUS
            <4>3. f \in Seq(Unit) /\ Len(f) = o /\ \A i \in 1..o : f[i] = d[i]
                BY <4>2, PrefixFacts
            <4>4. f # << >> /\ WellFramed(f)
                BY <4>1, <4>2, <4>3, EmptySeq
            <4>5. IsLast(d[o])
                <5>1. o \in 1..o
                    BY <4>1
                <5> QED
                    BY <4>3, <4>4, <5>1 DEF WellFramed
            <4>6. Follows(e[o], e[o + 1])
                BY <2>1, <2>2, <4>1 DEF WellFramed
            <4> QED
                BY <2>1, <2>2, <4>1, <4>5, <4>6 DEF Follows
        <3> QED
            BY <3>1, <3>2
    <2>4. HeadIn(d, o + 1) /\ HeadIn(e, o + 1) /\ d[o + 1] # Zero
        BY <2>1, <2>2, <2>3 DEF HeadIn, IsHeader, Zero
    <2>5. PICK r \in Records : r = d[o + 1].rec
        BY <1>0, <2>4, HeaderNames
    <2>6a. PICK k \in Nat : k = FrameLen(r) /\ 1 < k
        BY FrameFacts
    <2>6. PICK n \in Nat : n = o + k /\ o + 1 < n
        BY <1>0, <2>6a
    <2>7. CASE n > Len(d)
        <3>1. x = Truncated
            BY <1>2, <2>3, <2>4, <2>5, <2>6, <2>6a, <2>7 DEF ReadRecordAt
        <3> QED
            BY <3>1 DEF Truncated
    <2>8. CASE n <= Len(d)
        <3>0. o + k <= Len(d)
            BY <2>6, <2>8
        <3>1. /\ PayloadLen[r] \in Nat \ {0} /\ k = 1 + PayloadLen[r]
              /\ Frame(r) \in Seq(Unit) /\ Len(Frame(r)) = k /\ WellFramed(Frame(r))
            BY <2>6a, FrameFacts, FramesAssumption DEF FrameLen, Records
        <3>2. \A j \in 0..PayloadLen[r] : e[(o + 1) + j] = [rec |-> r, part |-> j]
            <4>1. e[o + 1].rec = r /\ o + 1 \in Nat
                BY <1>0, <2>1, <2>2, <2>5
            <4> QED
                BY <2>1, <2>4, <4>1, FrameStands
        <3>3. \A i \in 1..k : d[o + i] = [rec |-> r, part |-> i - 1]
            <4> SUFFICES ASSUME NEW i \in 1..k
                         PROVE  d[o + i] = [rec |-> r, part |-> i - 1]
                OBVIOUS
            <4>1. i - 1 \in 0..PayloadLen[r] /\ (o + 1) + (i - 1) = o + i /\ o + i \in 1..Len(d)
                BY <1>0, <2>6, <2>8, <3>1
            <4>2. e[(o + 1) + (i - 1)] = [rec |-> r, part |-> i - 1]
                BY <3>2, <4>1, Zenon
            <4> QED
                BY <2>1, <4>1, <4>2
        <3>4. PICK g : g = SubSeq(d, o + 1, o + k)
            OBVIOUS
        <3>5. g = Frame(r)
            <4>1. /\ g \in Seq(Unit) /\ Len(g) = k
                  /\ \A i \in 1..k : g[i] = d[o + i]
                BY <1>0, <2>6a, <3>0, <3>4, PartElements, SMTT(30)
            <4>2. \A i \in 1..k : g[i] = Frame(r)[i]
                BY <2>6a, <3>3, <4>1 DEF Frame
            <4> QED
                BY <3>1, <4>1, <4>2, SeqEqual
        <3>6. SubSeq(d, o + 1, n) = Frame(r)
            BY <2>6, <3>4, <3>5
        <3>7. x = Found(r, n)
            BY <1>2, <2>3, <2>4, <2>5, <2>6, <2>6a, <2>8, <3>6, SMTT(30) DEF ReadRecordAt
        <3>8. n \in 0..Len(d)
            BY <1>0, <2>6, <2>8
        <3>9. SubSeq(d, 1, n) = SubSeq(d, 1, o) \o SubSeq(d, o + 1, n)
            <4>1. PICK h : h = SubSeq(d, 1, n)
                OBVIOUS
            <4>2. h \in Seq(Unit) /\ Len(h) = n /\ \A i \in 1..n : h[i] = d[i]
                BY <3>8, <4>1, PrefixFacts
            <4>3. PICK f : f = SubSeq(d, 1, o)
                OBVIOUS
            <4>4. f \in Seq(Unit) /\ Len(f) = o /\ \A i \in 1..o : f[i] = d[i]
                BY <4>3, PrefixFacts
            <4>5. /\ g \in Seq(Unit) /\ Len(g) = k
                  /\ \A i \in 1..k : g[i] = d[o + i]
                BY <1>0, <2>6a, <3>0, <3>4, PartElements, SMTT(30)
            <4>6. f \o g \in Seq(Unit) /\ Len(f \o g) = n
                BY <2>6, <4>4, <4>5, ConcatProperties
            <4>7. ASSUME NEW i \in 1..n PROVE (f \o g)[i] = h[i]
                <5>0. i \in Nat /\ 1 <= i /\ i <= n
                    BY <2>6
                <5>1. CASE i <= o
                    <6>1. i \in 1..o
                        BY <1>0, <5>0, <5>1
                    <6>2. (f \o g)[i] = f[i]
                        BY <4>4, <4>5, <6>1, ConcatProperties
                    <6> QED
                        BY <4>2, <4>4, <6>1, <6>2
                <5>2. CASE i > o
                    <6>1. i - o \in 1..k /\ o + (i - o) = i /\ ~(i <= o)
                        BY <1>0, <2>6, <5>2
                    <6>2. (f \o g)[i] = g[i - Len(f)]
                        BY <2>6, <4>4, <4>5, <6>1, ConcatProperties
                    <6> QED
                        BY <4>2, <4>4, <4>5, <6>1, <6>2
                <5>3. i <= o \/ i > o
                    BY <1>0, <5>0
                <5> QED
                    BY <5>1, <5>2, <5>3
            <4>8. f \o g = h
                BY <4>2, <4>6, <4>7, SeqEqual
            <4> QED
                BY <2>6, <3>4, <4>1, <4>3, <4>8
        <3>10. WellFramed(SubSeq(d, 1, n))
            <4>1. SubSeq(d, 1, o) \in Seq(Unit)
                BY PrefixFacts
            <4> QED
                BY <3>1, <3>6, <3>9, <4>1, WellFramedConcat
        <3>11. ASSUME NEW p \in Nat, o + 1 < p, p <= n PROVE ~HeadIn(d, p)
            <4>1. p - o \in 1..k /\ o + (p - o) = p /\ (p - o) - 1 # 0
                BY <1>0, <2>6, <3>11
            <4>2. d[o + (p - o)] = [rec |-> r, part |-> (p - o) - 1]
                BY <3>3, <4>1, Zenon
            <4>3. d[p].part # 0
                BY <4>1, <4>2
            <4> QED
                BY <4>3 DEF HeadIn, IsHeader
        <3> QED
            BY <3>7, <3>8, <3>10, <3>11 DEF Found
    <2> QED
        BY <1>0, <2>6, <2>7, <2>8
<1> QED
    BY <1>0, <1>1, <1>2

\* What every file holds is part of a run, the active one's half written frame
\* included.
LEMMA WrittenRuns ==
    ASSUME DurInv, Watched, NEW s \in segments
    PROVE  PartOfRun(bytes[s])
<1>1. /\ bytes[s] \in Seq(Unit) /\ buf \in Seq(Unit) /\ Len(bytes[s]) \in Nat /\ s \in SegIds
      /\ active \in Nat /\ s \in Nat
    BY DurTypes DEF DurInv
<1>2. wpc # "none" /\ active \in segments /\ s <= active
    BY DEF Watched, DurInv, WriterInv
<1>3. CASE s = active
    <2>1. PICK e : e = bytes[s] \o buf
        OBVIOUS
    <2>2. e \in Seq(Unit) /\ Len(bytes[s]) <= Len(e) /\ \A i \in 1..Len(bytes[s]) : e[i] = bytes[s][i]
        BY <1>1, <2>1, ConcatProperties
    <2>3. WellFramed(e)
        BY <1>2, <1>3, <2>1 DEF DurInv, SyncedInv
    <2> QED
        BY <2>2, <2>3 DEF PartOfRun, Extends
<1>4. CASE s # active
    <2>1. synced[s] = Len(bytes[s]) /\ WellFramed(SubSeq(bytes[s], 1, synced[s]))
        BY <1>1, <1>2, <1>4 DEF DurInv, SyncedInv
    <2>2. SubSeq(bytes[s], 1, Len(bytes[s])) = bytes[s]
        BY <1>1, PrefixFacts, SeqEqual
    <2>3. WellFramed(bytes[s])
        BY <2>1, <2>2
    <2> QED
        BY <1>1, <2>3 DEF PartOfRun, Extends
<1> QED
    BY <1>3, <1>4

\* While nothing ends, the writer adds to files, removes them, and creates new
\* ones under ids that no reader has stood in.
LEMMA WriterEffect ==
    ASSUME DurInv, Watched, WNext, Undisturbed'
    PROVE  /\ Watched' /\ committed' = committed /\ nextId <= nextId'
           /\ \A s \in segments' : \/ s \in segments /\ Extends(bytes'[s], bytes[s])
                                   \/ s \notin segments /\ nextId <= s
<1>1. /\ bytes \in [SegIds -> Seq(Unit)] /\ buf \in Seq(Unit) /\ nextId \in Nat /\ active \in SegIds
      /\ \A s \in SegIds : bytes[s] \in Seq(Unit) /\ Len(bytes[s]) \in Nat
      /\ segments \subseteq SegIds /\ segments \subseteq Nat
    BY DurTypes DEF DurInv
<1>2. ~Exit /\ ~Kill
    <2>1. exits \in Nat
        BY DEF DurInv, TypeOK, WriterTypeOK
    <2> QED
        BY <2>1 DEF Exit, Kill, Undisturbed
<1>3. ASSUME segments' = segments, bytes' = bytes, nextId' = nextId
      PROVE  \A s \in segments' : s \in segments /\ Extends(bytes'[s], bytes[s])
    BY <1>1, <1>3 DEF Extends
<1>4. CASE OpenCreate
    <2>1. segments = {} /\ segments' = {0} /\ nextId = 0 /\ nextId' = 1 /\ wpc' = "opening"
          /\ committed' = committed
        BY <1>4 DEF OpenCreate, DurInv, TypeOK, WriterTypeOK
    <2> QED
        BY <2>1 DEF Watched
<1>5. CASE OpenSyncDir \/ Append1 \/ PruneStart \/ PruneEnd
    <2>1. UNCHANGED << segments, bytes, nextId, committed >> /\ wpc' # "none"
        BY <1>5 DEF OpenSyncDir, Append1, PruneStart, PruneEnd, disk
    <2> QED
        BY <1>1, <1>3, <2>1 DEF Watched
<1>6. CASE OpenAppend
    BY <1>6 DEF OpenAppend, Watched
<1>7. CASE RotateSeal \/ Spill \/ Flush \/ Sync
    <2>1. UNCHANGED << segments, nextId, committed >> /\ wpc' # "none"
        BY <1>7 DEF RotateSeal, Spill, Flush, Sync
    <2>2. PICK x \in Seq(Unit) : bytes' = [bytes EXCEPT ![active] = @ \o x]
        <3>1. CASE Spill
            <4>1. PICK n \in 1..Len(buf) - 1 : bytes' = [bytes EXCEPT ![active] = @ \o SubSeq(buf, 1, n)]
                BY <3>1 DEF Spill
            <4>2. n \in 0..Len(buf)
                BY <1>1, LenProperties
            <4> QED
                BY <1>1, <4>1, <4>2, PrefixFacts
        <3>2. CASE ~Spill
            BY <1>1, <1>7, <3>2 DEF RotateSeal, Flush, Sync
        <3> QED
            BY <3>1, <3>2
    <2>3. ASSUME NEW s \in segments PROVE Extends(bytes'[s], bytes[s])
        <3>1. CASE s = active
            <4>1. bytes'[s] = bytes[s] \o x
                BY <1>1, <2>2, <3>1
            <4>2. s \in SegIds
                BY <1>1
            <4> QED
                BY <1>1, <4>1, <4>2, ConcatProperties DEF Extends
        <3>2. CASE s # active
            <4>1. bytes'[s] = bytes[s] /\ s \in SegIds
                BY <1>1, <2>2, <3>2
            <4> QED
                BY <1>1, <4>1 DEF Extends
        <3> QED
            BY <3>1, <3>2
    <2> QED
        BY <1>1, <2>1, <2>3 DEF Watched
<1>8. CASE RotateCreate
    <2>1. /\ segments' = segments \cup {nextId} /\ nextId' = nextId + 1 /\ wpc' = "created"
          /\ bytes' = [bytes EXCEPT ![nextId] = << >>] /\ committed' = committed
        BY <1>8 DEF RotateCreate
    <2>2. nextId \notin segments
        <3>1. active < nextId /\ \A s \in segments : s <= active
            BY <1>8 DEF RotateCreate, DurInv, WriterInv
        <3> QED
            BY <1>1, <3>1, DurTypes DEF DurInv
    <2>3. ASSUME NEW s \in segments PROVE Extends(bytes'[s], bytes[s])
        <3>1. bytes'[s] = bytes[s] /\ s \in SegIds
            BY <1>1, <2>1, <2>2
        <3> QED
            BY <1>1, <3>1 DEF Extends
    <2> QED
        BY <1>1, <2>1, <2>2, <2>3 DEF Watched
<1>9. CASE RotateAppend
    <2>1. UNCHANGED << segments, bytes, nextId, committed >> /\ wpc' # "none"
        BY <1>9 DEF RotateAppend
    <2> QED
        BY <1>1, <1>3, <2>1 DEF Watched
<1>10. CASE PruneStep
    <2>1. PICK t \in segments : /\ segments' = segments \ {t}
                               /\ bytes' = [bytes EXCEPT ![t] = << >>]
        BY <1>10 DEF PruneStep
    <2>2. UNCHANGED << nextId, committed >> /\ wpc' = "pruning"
        BY <1>10 DEF PruneStep, proc
    <2>3. ASSUME NEW s \in segments' PROVE s \in segments /\ Extends(bytes'[s], bytes[s])
        <3>1. bytes'[s] = bytes[s] /\ s \in SegIds /\ s \in segments
            BY <1>1, <2>1
        <3> QED
            BY <1>1, <3>1 DEF Extends
    <2> QED
        BY <1>1, <2>2, <2>3 DEF Watched
<1> QED
    BY <1>2, <1>4, <1>5, <1>6, <1>7, <1>8, <1>9, <1>10 DEF WNext, Open, AppendRecord, Prune

\* A boundary of a file stays one when the file grows.
LEMMA BoundaryKept ==
    ASSUME NEW d \in Seq(Unit), NEW e \in Seq(Unit), Extends(e, d), NEW n \in Nat,
           n <= Len(d), WellFramed(SubSeq(d, 1, n))
    PROVE  n <= Len(e) /\ WellFramed(SubSeq(e, 1, n))
<1>1. Len(d) \in Nat /\ Len(e) \in Nat /\ n <= Len(e) /\ \A i \in 1..n : d[i] = e[i]
    BY LenProperties DEF Extends
<1>2. SubSeq(d, 1, n) = SubSeq(e, 1, n)
    BY <1>1, SamePrefix
<1> QED
    BY <1>1, <1>2

\* The start of any file is a boundary.
LEMMA StartIsBoundary ==
    ASSUME NEW d \in Seq(Unit)
    PROVE  0 <= Len(d) /\ WellFramed(SubSeq(d, 1, 0))
<1>1. 0 \in 0..Len(d)
    BY LenProperties
<1>2. SubSeq(d, 1, 0) \in Seq(Unit) /\ Len(SubSeq(d, 1, 0)) = 0
    BY <1>1, PrefixFacts
<1>3. SubSeq(d, 1, 0) = << >>
    BY <1>2, EmptySeq
<1>4. PICK n \in Nat : n = Len(d)
    BY LenProperties
<1>5. 0 <= Len(d)
    BY <1>4
<1> QED
    BY <1>3, <1>5, EmptyRun

\* What the numbers of FollowsOn range over.
LEMMA FollowTypes ==
    ASSUME TypeOK, NEW c \in Consumers
    PROVE  /\ rseg[c] \in SegIds /\ rseg[c] \in Nat /\ roff[c] \in Nat /\ nextId \in Nat
           /\ committed[c].seg \in Int
           /\ committed[c].seg \in SegIds => committed[c].off \in Nat /\ committed[c] # NoPosition
           /\ bytes \in [SegIds -> Seq(Unit)] /\ segments \subseteq SegIds /\ SegIds \subseteq Nat
           /\ \A s \in SegIds : bytes[s] \in Seq(Unit)
<1>1. committed[c] \in Position \cup {NoPosition}
    BY DEF TypeOK, WriterTypeOK
<1>2. committed[c] \in Position => committed[c].off \in Nat
    BY DEF Position
<1>3. -1 \notin SegIds
    BY ConstantFacts
<1>4. committed[c] = NoPosition => committed[c].seg \notin SegIds
    BY <1>3 DEF NoPosition
<1> QED
    BY <1>1, <1>2, <1>4, SeenTypes, CommittedSegs, DurTypes, ConstantFacts

\* A writer's step takes no reader off the boundary it stands on, and adds no
\* record between two that it returned.
LEMMA WriterFollows ==
    ASSUME GapInv, Undisturbed, WNext, UNCHANGED rvars, Undisturbed', TypeOK', FilesInv',
           NEW c \in Consumers
    PROVE  FollowsOn(c)'
<1>0. DurInv /\ TypeOK /\ Watched /\ FollowsOn(c) /\ ReadOrder(c) /\ OrderInv
    BY DEF GapInv, ReadInv, OrderInv, DurInv
<1>1. /\ committed' = committed /\ nextId <= nextId'
      /\ \A s \in segments' : \/ s \in segments /\ Extends(bytes'[s], bytes[s])
                              \/ s \notin segments /\ nextId <= s
    BY <1>0, WriterEffect
<1>2. UNCHANGED << ropen, rseg, roff, rdata, rloaded, delivered >>
    BY DEF rvars
<1>3. /\ bytes' \in [SegIds -> Seq(Unit)] /\ nextId' \in Nat /\ segments' \subseteq SegIds
      /\ \A s \in SegIds : bytes'[s] \in Seq(Unit)
    BY DEF TypeOK, WriterTypeOK
<1>4. /\ rseg[c] \in SegIds /\ rseg[c] \in Nat /\ roff[c] \in Nat /\ nextId \in Nat
      /\ committed[c].seg \in Int /\ SegIds \subseteq Nat /\ segments \subseteq SegIds
      /\ committed[c].seg \in SegIds => committed[c].off \in Nat /\ committed[c] # NoPosition
      /\ \A s \in SegIds : bytes[s] \in Seq(Unit)
    BY <1>0, FollowTypes
\* a boundary of a segment, or the start of one that is created now
<1>5. ASSUME NEW s \in SegIds, NEW n \in Nat, s \in segments => OnBoundary(s, n),
             s >= nextId => n = 0, s \in segments'
      PROVE  n <= Len(bytes'[s]) /\ WellFramed(SubSeq(bytes'[s], 1, n))
    <2>1. CASE s \in segments /\ Extends(bytes'[s], bytes[s])
        BY <1>3, <1>4, <1>5, <2>1, BoundaryKept DEF OnBoundary
    <2>2. CASE s \notin segments /\ nextId <= s
        <3>1. n = 0
            BY <1>4, <1>5, <2>2
        <3> QED
            BY <1>3, <3>1, StartIsBoundary
    <2> QED
        BY <1>1, <1>5, <2>1, <2>2
<1>6. Stands(c)'
    <2>1. rseg[c] >= nextId' => roff[c] = 0 /\ ~rloaded[c]
        BY <1>0, <1>1, <1>3, <1>4 DEF FollowsOn, Stands
    <2>2. rseg[c] \in segments' => roff[c] <= Len(bytes'[rseg[c]])
                                   /\ WellFramed(SubSeq(bytes'[rseg[c]], 1, roff[c]))
        BY <1>0, <1>4, <1>5 DEF FollowsOn, Stands
    <2> QED
        BY <1>2, <2>1, <2>2 DEF Stands, OnBoundary
<1>7. Resumes(c)'
    <2>1. committed[c] # NoPosition /\ committed[c].seg >= nextId' => committed[c].off = 0
        BY <1>0, <1>1, <1>3, <1>4 DEF FollowsOn, Resumes
    <2>2. committed[c].seg \in segments' =>
              /\ committed[c].off <= Len(bytes'[committed[c].seg])
              /\ WellFramed(SubSeq(bytes'[committed[c].seg], 1, committed[c].off))
        BY <1>0, <1>3, <1>4, <1>5 DEF FollowsOn, Resumes
    <2> QED
        BY <1>1, <2>1, <2>2 DEF Resumes, OnBoundary
<1>8. Holds(c)'
    <2>1. ASSUME rloaded[c], rseg[c] \in segments' PROVE Extends(bytes'[rseg[c]], rdata[c])
        <3>1. rseg[c] \in segments /\ Extends(bytes'[rseg[c]], bytes[rseg[c]])
            BY <1>0, <1>1, <1>4, <2>1 DEF FollowsOn, Stands
        <3>2. Extends(bytes[rseg[c]], rdata[c])
            BY <1>0, <2>1, <3>1 DEF FollowsOn, Holds
        <3>3. Len(bytes'[rseg[c]]) \in Nat /\ Len(bytes[rseg[c]]) \in Nat /\ Len(rdata[c]) \in Nat
            BY <1>0, <1>3, <1>4, LenProperties, SeenTypes
        <3> QED
            BY <3>1, <3>2, <3>3 DEF Extends
    <2> QED
        BY <1>0, <1>2, <2>1 DEF FollowsOn, Holds
\* where the reader has passed, the file is as it was
<1>9. Passed(c)'
    <2>1. ASSUME NEW p \in Nat, p <= roff[c], HeadIn(bytes'[rseg[c]], p)
          PROVE  HeadIn(bytes[rseg[c]], p) /\ bytes'[rseg[c]][p] = bytes[rseg[c]][p]
        <3>1. rseg[c] \in segments'
            BY <1>4, <2>1, NoHeads DEF FilesInv
        <3>2. 1 <= p
            BY <2>1 DEF HeadIn
        <3>3. CASE rseg[c] \in segments /\ Extends(bytes'[rseg[c]], bytes[rseg[c]])
            <4>1. roff[c] <= Len(bytes[rseg[c]]) /\ Len(bytes[rseg[c]]) \in Nat
                BY <1>0, <1>4, <3>3, LenProperties DEF FollowsOn, Stands, OnBoundary
            <4>2. p \in 1..Len(bytes[rseg[c]])
                BY <1>4, <2>1, <3>2, <4>1
            <4> QED
                BY <2>1, <3>3, <4>2 DEF HeadIn, Extends
        <3>4. CASE nextId <= rseg[c]
            BY <1>0, <1>4, <2>1, <3>2, <3>4 DEF FollowsOn, Stands
        <3> QED
            BY <1>1, <3>1, <3>3, <3>4
    <2> QED
        BY <1>0, <1>2, <2>1 DEF FollowsOn, Passed
<1>10. Gapless(c)'
    <2>1. PICK k \in Nat : HeadsMove(k)
        BY <1>0, HeadsStep
    <2>2. /\ delivered[c] \in Seq(Delivery) /\ Len(delivered[c]) \in Nat
          /\ \A r \in Returned(c) : r \in Nat
        BY <1>0, SeenTypes
    <2> SUFFICES ASSUME NEW i \in 1..Len(delivered[c]) - 1,
                        delivered[c][i].seg = delivered[c][i + 1].seg,
                        NEW p \in Nat, HeadIn(bytes'[delivered[c][i].seg], p)
                 PROVE  \/ bytes'[delivered[c][i].seg][p].rec <= delivered[c][i].rec
                        \/ delivered[c][i + 1].rec <= bytes'[delivered[c][i].seg][p].rec
        BY <1>2 DEF Gapless
    <2>3. i \in 1..Len(delivered[c]) /\ i + 1 \in 1..Len(delivered[c])
        BY <2>2
    <2>4. PICK s : s = delivered[c][i].seg
        OBVIOUS
    <2>5. s \in SegIds
        <3>1. delivered[c][i] \in Delivery
            BY <2>2, <2>3, ElementOfSeq
        <3> QED
            BY <2>4, <3>1 DEF Delivery
    <2>6. CASE HeadIn(bytes[s], p) /\ bytes'[s][p] = bytes[s][p]
        <3>1. bytes[s][p].rec <= delivered[c][i].rec \/ delivered[c][i + 1].rec <= bytes[s][p].rec
            BY <1>0, <2>4, <2>6 DEF FollowsOn, Gapless
        <3> QED
            BY <2>4, <2>6, <3>1
    \* what was buffered is newer than all it returned
    <2>7. CASE \E q \in Nat : HeadIn(buf, q) /\ bytes'[s][p] = buf[q]
        <3>1. PICK q \in Nat : HeadIn(buf, q) /\ bytes'[s][p] = buf[q]
            BY <2>7
        <3>2. delivered[c][i + 1].rec \in Returned(c)
            BY <2>3 DEF Returned
        <3>3. PICK r \in Nat : r = delivered[c][i + 1].rec
            BY <2>2, <3>2
        <3>4. PICK h \in Nat : h = buf[q].rec
            BY <1>0, <3>1, HeadTypes
        <3>5. r < h
            BY <1>0, <3>1, <3>2, <3>3, <3>4 DEF ReadOrder, AheadOrder
        <3>6. r <= h
            BY <3>5
        <3>7. delivered[c][i + 1].rec <= bytes'[s][p].rec
            BY <3>1, <3>3, <3>4, <3>6
        <3> QED
            BY <2>4, <3>7
    <2> QED
        BY <2>1, <2>4, <2>5, <2>6, <2>7 DEF HeadsMove
<1> QED
    BY <1>6, <1>7, <1>8, <1>9, <1>10 DEF FollowsOn

\* A reader that has just read a whole file stands where it did, or at its start.
LEMMA LoadedFollows ==
    ASSUME DurInv, Watched, NEW c \in Consumers, UNCHANGED << bytes, segments, nextId >>,
           NEW s \in SegIds, rseg'[c] = s, rdata'[c] = bytes[s], rloaded'[c] => s \in segments,
           NEW n \in Nat, roff'[c] = n, s \in segments => OnBoundary(s, n), s >= nextId => n = 0
    PROVE  Stands(c)' /\ Holds(c)'
<1>1. bytes[s] \in Seq(Unit) /\ Len(bytes[s]) \in Nat
    BY DurTypes DEF DurInv
<1>2. ASSUME s \in segments PROVE s < nextId
    <2>1. s <= active /\ active < nextId
        BY <1>2 DEF Watched, DurInv, WriterInv
    <2> QED
        BY <2>1, DurTypes, ConstantFacts DEF DurInv
<1>3. nextId \in Nat /\ s \in Nat
    BY DurTypes, ConstantFacts DEF DurInv
<1>4. s >= nextId => n = 0 /\ ~rloaded'[c]
    BY <1>2, <1>3
<1>5. Stands(c)'
    BY <1>4 DEF Stands, OnBoundary
<1>6. Holds(c)'
    <2> SUFFICES ASSUME rloaded'[c] PROVE
                   /\ PartOfRun(bytes[s]) /\ n <= Len(bytes[s])
                   /\ WellFramed(SubSeq(bytes[s], 1, n)) /\ Extends(bytes[s], bytes[s])
        BY DEF Holds
    <2> QED
        BY <1>1, WrittenRuns DEF OnBoundary, Extends
<1> QED
    BY <1>5, <1>6

\* The frame a reader returns next is the next one of its segment.
LEMMA DeliverFollows ==
    ASSUME GapInv, Undisturbed, NEW c \in Consumers, Deliver(c), TypeOK'
    PROVE  FollowsOn(c)'
<1>0. DurInv /\ TypeOK /\ Watched /\ FollowsOn(c) /\ ReadOrder(c) /\ rloaded[c] /\ FilesInv
    BY DEF GapInv, ReadInv, OrderInv, DurInv, Deliver
<1>1. PICK x \in ReadRecordAt(rdata[c], roff[c]) :
         /\ x.kind = "record"
         /\ roff' = [roff EXCEPT ![c] = x.next]
         /\ delivered' = [delivered EXCEPT ![c] = Append(@, [rec |-> x.rec, seg |-> rseg[c]])]
    BY DEF Deliver
<1>2. /\ rdata[c] \in Seq(Unit) /\ Len(rdata[c]) \in Nat /\ roff[c] \in Nat
      /\ rseg[c] \in SegIds /\ rseg[c] \in Nat /\ nextId \in Nat
      /\ bytes[rseg[c]] \in Seq(Unit) /\ Len(bytes[rseg[c]]) \in Nat
      /\ delivered[c] \in Seq(Delivery) /\ Len(delivered[c]) \in Nat
      /\ \A r \in Returned(c) : r \in Nat
    BY <1>0, SeenTypes, FollowTypes, LenProperties
<1>3. /\ PartOfRun(rdata[c]) /\ roff[c] \in 0..Len(rdata[c])
      /\ WellFramed(SubSeq(rdata[c], 1, roff[c]))
      /\ rseg[c] \in segments => Extends(bytes[rseg[c]], rdata[c])
      /\ rseg[c] < nextId
    BY <1>0, <1>2 DEF FollowsOn, Holds, Stands
<1>4. PICK m \in 0..Len(rdata[c]) :
         /\ m = x.next /\ WellFramed(SubSeq(rdata[c], 1, m))
         /\ \A p \in Nat : roff[c] + 1 < p /\ p <= m => ~HeadIn(rdata[c], p)
    BY <1>1, <1>2, <1>3, Parsed
<1>5. PICK r \in Nat : r = x.rec /\ r \in Records
    BY <1>1, <1>2, RecordRead, FramesAssumption, SMTT(30) DEF Records
<1>6. HeadIn(rdata[c], roff[c] + 1) /\ rdata[c][roff[c] + 1].rec = r /\ roff[c] < m
    BY <1>1, <1>2, <1>4, <1>5, RecordRead, SMTT(30)
<1>7. UNCHANGED << bytes, segments, nextId, committed, rdata, rseg, ropen, rloaded >>
    BY DEF Deliver, wvars
<1>8. PICK n \in Nat : n = Len(delivered[c])
    BY <1>2
<1>9. /\ Len(delivered'[c]) = n + 1
      /\ \A i \in 1..n : delivered'[c][i] = delivered[c][i]
      /\ delivered'[c][n + 1] = [rec |-> r, seg |-> rseg[c]]
      /\ roff'[c] = m
    <2>1. [rec |-> r, seg |-> rseg[c]] \in Delivery
        BY <1>2, <1>5 DEF Delivery
    <2>2. delivered'[c] = Append(delivered[c], [rec |-> r, seg |-> rseg[c]])
        BY <1>0, <1>1, <1>5 DEF TypeOK, ReadersTypeOK
    <2>3. roff'[c] = m
        BY <1>0, <1>1, <1>4 DEF TypeOK, ReadersTypeOK
    <2> QED
        BY <1>2, <1>8, <2>1, <2>2, <2>3, AppendProperties
<1>10. Stands(c)' /\ Holds(c)'
    <2>1. rseg[c] \in segments => m <= Len(bytes[rseg[c]]) /\ WellFramed(SubSeq(bytes[rseg[c]], 1, m))
        BY <1>2, <1>3, <1>4, BoundaryKept
    <2>2. ~(rseg[c] >= nextId) /\ m <= Len(rdata[c])
        BY <1>2, <1>3, <1>4
    <2> QED
        BY <1>3, <1>4, <1>7, <1>9, <2>1, <2>2 DEF Stands, Holds, OnBoundary
<1>11. Resumes(c)'
    BY <1>0, <1>7 DEF FollowsOn, Resumes, OnBoundary
\* the headers of the file up to the end of the frame are older, or the frame's own
<1>12. ASSUME NEW p \in Nat, HeadIn(bytes[rseg[c]], p)
       PROVE  LET h == bytes[rseg[c]][p].rec
              IN  /\ h \in Nat
                  /\ p <= roff[c] \/ r <= h
                  /\ p <= m => p <= roff[c] \/ h = r
    <2>1. rseg[c] \in segments
        BY <1>0, <1>2, <1>12, NoHeads DEF FilesInv
    <2>2. PICK h \in Nat : h = bytes[rseg[c]][p].rec
        BY <1>0, <1>2, <1>12, HeadTypes
    <2>3. CASE p = roff[c] + 1
        <3>1. p \in 1..Len(rdata[c])
            BY <1>6, <2>3 DEF HeadIn
        <3>2. h = r
            BY <1>3, <1>6, <2>1, <2>2, <2>3, <3>1 DEF Extends
        <3> QED
            BY <2>2, <3>2
    <2>4. CASE roff[c] + 1 < p
        <3>1. roff[c] + 1 \in Nat
            BY <1>2
        <3>2. r < h
            BY <1>0, <1>6, <1>12, <2>2, <2>4, <3>1 DEF ReadOrder, CacheOrder
        <3>3. ~(p <= m)
            <4> SUFFICES ASSUME p <= m PROVE FALSE
                OBVIOUS
            <4>1. p \in 1..Len(rdata[c])
                BY <1>2, <2>4
            <4>2. HeadIn(rdata[c], p)
                BY <1>3, <1>12, <2>1, <4>1 DEF HeadIn, Extends
            <4> QED
                BY <1>4, <2>4, <4>2
        <3> QED
            BY <2>2, <3>2, <3>3
    <2>5. p <= roff[c] \/ p = roff[c] + 1 \/ roff[c] + 1 < p
        BY <1>2
    <2> QED
        BY <2>2, <2>3, <2>4, <2>5
<1>13. \A i \in 1..n : delivered[c][i].rec \in Nat /\ delivered[c][i].rec < r
    <2> SUFFICES ASSUME NEW i \in 1..n PROVE delivered[c][i].rec \in Nat /\ delivered[c][i].rec < r
        OBVIOUS
    <2>1. delivered[c][i].rec \in Returned(c)
        BY <1>8 DEF Returned
    <2>2. roff[c] + 1 \in Nat /\ roff[c] < roff[c] + 1
        BY <1>2
    <2> QED
        BY <1>0, <1>2, <1>6, <2>1, <2>2 DEF ReadOrder, ReturnedOrder
\* the last record returned from this segment is as new as all that was passed
<1>14. ASSUME n > 0, delivered[c][n].seg = rseg[c], NEW p \in Nat, p <= roff[c],
              HeadIn(bytes[rseg[c]], p)
       PROVE  bytes[rseg[c]][p].rec <= delivered[c][n].rec
    BY <1>0, <1>8, <1>14 DEF FollowsOn, Passed
<1>15. Passed(c)'
    <2>1. ASSUME NEW i \in 1..n + 1 PROVE delivered'[c][i].seg <= rseg[c]
        <3>1. CASE i \in 1..n
            BY <1>0, <1>8, <1>9, <3>1 DEF FollowsOn, Passed
        <3>2. CASE i = n + 1
            BY <1>2, <1>9, <3>2
        <3> QED
            BY <3>1, <3>2
    <2>2. ASSUME NEW p \in Nat, p <= m, HeadIn(bytes[rseg[c]], p)
          PROVE  bytes[rseg[c]][p].rec <= r
        <3>1. PICK h \in Nat : h = bytes[rseg[c]][p].rec /\ (p <= roff[c] \/ h = r)
            BY <1>12, <2>2
        <3>2. CASE p <= roff[c]
            <4>1. rseg[c] \in segments
                BY <1>0, <1>2, <2>2, NoHeads DEF FilesInv
            <4>2. p \in 1..Len(rdata[c]) /\ p < roff[c] + 1 /\ roff[c] + 1 \in Nat
                BY <1>2, <1>3, <2>2, <3>2 DEF HeadIn
            <4>3. HeadIn(rdata[c], p) /\ rdata[c][p].rec = h
                BY <1>3, <2>2, <3>1, <4>1, <4>2 DEF HeadIn, Extends
            <4>4. h < r
                BY <1>0, <1>6, <4>2, <4>3 DEF ReadOrder, CacheOrder
            <4>5. h <= r
                BY <4>4
            <4> QED
                BY <3>1, <4>5
        <3> QED
            BY <3>1, <3>2
    <2> QED
        BY <1>7, <1>9, <2>1, <2>2 DEF Passed
<1>16. Gapless(c)'
    <2>a. Len(delivered'[c]) - 1 = n
        BY <1>9
    <2>b. bytes' = bytes
        BY <1>7
    <2> SUFFICES ASSUME NEW i \in 1..n, delivered'[c][i].seg = delivered'[c][i + 1].seg,
                        NEW p \in Nat, HeadIn(bytes[delivered'[c][i].seg], p)
                 PROVE  \/ bytes[delivered'[c][i].seg][p].rec <= delivered'[c][i].rec
                        \/ delivered'[c][i + 1].rec <= bytes[delivered'[c][i].seg][p].rec
        BY <2>a, <2>b DEF Gapless
    <2>1. delivered'[c][i] = delivered[c][i]
        BY <1>9
    <2>2. CASE i < n
        <3>1. i + 1 \in 1..n /\ i \in 1..n - 1
            BY <2>2
        <3>2. delivered'[c][i + 1] = delivered[c][i + 1]
            BY <1>9, <3>1
        <3> QED
            BY <1>0, <1>8, <2>1, <3>1, <3>2 DEF FollowsOn, Gapless
    <2>3. CASE i = n
        <3>1. delivered'[c][n + 1].rec = r /\ delivered[c][n].seg = rseg[c]
            BY <1>9, <2>1, <2>3
        <3>2. HeadIn(bytes[rseg[c]], p)
            BY <2>1, <2>3, <3>1
        <3>3. n > 0
            BY <2>3
        <3>4. bytes[rseg[c]][p].rec <= delivered[c][n].rec \/ r <= bytes[rseg[c]][p].rec
            BY <1>12, <1>14, <3>1, <3>2, <3>3
        <3> QED
            BY <2>1, <2>3, <3>1, <3>4
    <2>4. i < n \/ i = n
        OBVIOUS
    <2> QED
        BY <2>2, <2>3, <2>4
<1> QED
    BY <1>10, <1>11, <1>15, <1>16 DEF FollowsOn

\* Where nothing was delivered, the file is the same, and the reader moved on, the
\* records returned are those of before.
LEMMA MovedOn ==
    ASSUME TypeOK, TypeOK', NEW c \in Consumers, FollowsOn(c), UNCHANGED << bytes, segments, nextId >>,
           committed'[c] = committed[c], delivered'[c] = delivered[c],
           \/ delivered[c] = << >>
           \/ rseg[c] < rseg'[c]
           \/ rseg'[c] = rseg[c] /\ roff'[c] = roff[c]
    PROVE  Resumes(c)' /\ Passed(c)' /\ Gapless(c)'
<1>1. Resumes(c)'
    BY DEF FollowsOn, Resumes, OnBoundary
<1>2. Gapless(c)'
    BY DEF FollowsOn, Gapless
<1>3. delivered[c] \in Seq(Delivery) /\ rseg[c] \in Nat /\ rseg'[c] \in Nat
    BY SeenTypes, ConstantFacts DEF TypeOK, ReadersTypeOK
<1>4. PICK n \in Nat : n = Len(delivered[c])
    BY <1>3, LenProperties
<1>5. \A i \in 1..n : delivered[c][i].seg \in Nat /\ delivered[c][i].seg <= rseg[c]
    <2> SUFFICES ASSUME NEW i \in 1..n
                 PROVE  delivered[c][i].seg \in Nat /\ delivered[c][i].seg <= rseg[c]
        OBVIOUS
    <2>1. delivered[c][i] \in Delivery
        BY <1>3, <1>4, ElementOfSeq
    <2> QED
        BY <1>4, <2>1, ConstantFacts DEF FollowsOn, Passed, Delivery
<1>6. CASE delivered[c] = << >>
    <2>1. n = 0
        BY <1>4, <1>6, EmptySeq
    <2> QED
        BY <1>1, <1>2, <1>4, <2>1 DEF Passed
<1>7. CASE rseg[c] < rseg'[c]
    <2>1. \A i \in 1..n : delivered[c][i].seg <= rseg'[c] /\ delivered[c][i].seg # rseg'[c]
        BY <1>3, <1>5, <1>7
    <2>2. n > 0 => n \in 1..n
        OBVIOUS
    <2> QED
        BY <1>1, <1>2, <1>4, <2>1, <2>2 DEF Passed
<1>8. CASE rseg'[c] = rseg[c] /\ roff'[c] = roff[c]
    <2>1. Passed(c)'
        BY <1>8 DEF FollowsOn, Passed
    <2> QED
        BY <1>1, <1>2, <2>1
<1> QED
    BY <1>6, <1>7, <1>8

\* top_up_current_segment reads what was appended, and never finds a file that shrank.
LEMMA TopUpFollows ==
    ASSUME DurInv, Watched, NEW c \in Consumers, FollowsOn(c), rloaded[c], TopUp(c),
           UNCHANGED << bytes, segments, nextId >>
    PROVE  Stands(c)' /\ Holds(c)' /\ rseg'[c] = rseg[c] /\ roff'[c] = roff[c]
<1>1. UNCHANGED << rseg, rloaded >>
    BY DEF TopUp
<1>2. /\ rdata[c] \in Seq(Unit) /\ bytes[rseg[c]] \in Seq(Unit)
      /\ Len(rdata[c]) \in Nat /\ Len(bytes[rseg[c]]) \in Nat
      /\ rdata \in [Consumers -> Seq(Unit)] /\ rseg[c] \in SegIds
      /\ roff[c] \in Nat /\ rseg[c] \in Nat /\ nextId \in Nat
    BY SeenTypes, FollowTypes, LenProperties DEF DurInv, TypeOK, ReadersTypeOK
<1>3. CASE UNCHANGED << roff, rdata >>
    BY <1>1, <1>3 DEF FollowsOn, Stands, Holds, OnBoundary
<1>4. CASE rseg[c] \in segments /\ Len(bytes[rseg[c]]) # Len(rdata[c])
    <2>1. Extends(bytes[rseg[c]], rdata[c])
        BY <1>4 DEF FollowsOn, Holds
    <2>2. Len(rdata[c]) < Len(bytes[rseg[c]])
        BY <1>2, <1>4, <2>1 DEF Extends
    <2>3. /\ rdata' = [rdata EXCEPT ![c] = @ \o SubSeq(bytes[rseg[c]], Len(rdata[c]) + 1, Len(bytes[rseg[c]]))]
          /\ UNCHANGED roff
        <3>1. Len(bytes[rseg[c]]) > Len(rdata[c])
            BY <1>2, <2>2
        <3> QED
            BY <1>4, <3>1, Zenon DEF TopUp
    <2>4. rdata'[c] = rdata[c] \o SubSeq(bytes[rseg[c]], Len(rdata[c]) + 1, Len(bytes[rseg[c]]))
        BY <1>2, <2>3
    <2>5. /\ rdata'[c] \in Seq(Unit) /\ Len(rdata'[c]) = Len(bytes[rseg[c]])
          /\ \A i \in 1..Len(bytes[rseg[c]]) :
                rdata'[c][i] = IF i <= Len(rdata[c]) THEN rdata[c][i] ELSE bytes[rseg[c]][i]
        BY <1>2, <2>2, <2>4, ToppedUp
    <2>6. rdata'[c] = bytes[rseg[c]]
        <3>1. ASSUME NEW i \in 1..Len(bytes[rseg[c]]) PROVE rdata'[c][i] = bytes[rseg[c]][i]
            <4>1. i <= Len(rdata[c]) => i \in 1..Len(rdata[c])
                BY <1>2
            <4> QED
                BY <2>1, <2>5, <4>1 DEF Extends
        <3> QED
            BY <1>2, <2>5, <3>1, SeqEqual
    <2>7. rseg[c] >= nextId => roff[c] = 0
        BY DEF FollowsOn, Stands
    <2>8. OnBoundary(rseg[c], roff[c])
        BY <1>4 DEF FollowsOn, Stands
    <2> QED
        BY <1>1, <1>2, <1>4, <2>3, <2>6, <2>7, <2>8, LoadedFollows
<1> QED
    BY <1>1, <1>3, <1>4 DEF TopUp

\* Every step of a reader keeps it between two frames, and skips none.
LEMMA ReaderFollows ==
    ASSUME GapInv, Undisturbed, NEW c \in Consumers, Reader(c), TypeOK'
    PROVE  FollowsOn(c)'
<1>0. /\ DurInv /\ TypeOK /\ Watched /\ FollowsOn(c) /\ ReadOrder(c) /\ FilesInv
      /\ Stands(c) /\ Resumes(c) /\ Holds(c)
    BY DEF GapInv, ReadInv, OrderInv, DurInv, FollowsOn
<1>1. UNCHANGED << bytes, segments, nextId >>
    BY DEF Reader, Poll, OpenReader, Deliver, SkipCorrupt, PollEnd, PollUnloaded, Commit,
           CloseReader, wvars, disk, proc
<1>2. /\ rdata \in [Consumers -> Seq(Unit)] /\ rseg \in [Consumers -> SegIds]
      /\ roff \in [Consumers -> Nat] /\ delivered \in [Consumers -> Seq(Delivery)]
      /\ ropen \in [Consumers -> BOOLEAN] /\ rloaded \in [Consumers -> BOOLEAN]
      /\ committed \in [Consumers -> Position \cup {NoPosition}]
    BY <1>0 DEF TypeOK, WriterTypeOK, ReadersTypeOK
<1>3. /\ rseg[c] \in SegIds /\ rseg[c] \in Nat /\ roff[c] \in Nat /\ nextId \in Nat
      /\ committed[c].seg \in SegIds => committed[c].off \in Nat
      /\ SegIds \subseteq Nat /\ segments \subseteq SegIds
      /\ \A s \in SegIds : bytes[s] \in Seq(Unit) /\ OnBoundary(s, 0)
    BY <1>0, FollowTypes, StartIsBoundary DEF OnBoundary
<1>4. CASE OpenReader(c)
    <2>1. PICK s \in SegIds :
             /\ IF committed[c] # NoPosition THEN s = committed[c].seg
                ELSE IF segments = {} THEN s = 0 ELSE IsLeast(s, segments)
             /\ rseg' = [rseg EXCEPT ![c] = s]
             /\ rdata' = [rdata EXCEPT ![c] = bytes[s]]
             /\ rloaded' = [rloaded EXCEPT ![c] = s \in segments]
        BY <1>4 DEF OpenReader
    <2>2. PICK n : n = IF committed[c] # NoPosition THEN committed[c].off ELSE 0
        OBVIOUS
    <2>3. /\ ~ropen[c] /\ UNCHANGED << committed, delivered >>
          /\ roff' = [roff EXCEPT ![c] = n]
        BY <1>4, <2>2 DEF OpenReader, wvars
    <2>4. n \in Nat /\ (s \in segments => OnBoundary(s, n)) /\ (s >= nextId => n = 0)
        <3>1. CASE committed[c] = NoPosition
            BY <1>3, <2>2, <3>1
        <3>2. CASE committed[c] # NoPosition
            BY <1>0, <1>3, <2>1, <2>2, <3>2 DEF Resumes
        <3> QED
            BY <3>1, <3>2
    <2>5. rseg'[c] = s /\ rdata'[c] = bytes[s] /\ (rloaded'[c] => s \in segments) /\ roff'[c] = n
        BY <1>2, <2>1, <2>3
    <2>6. Stands(c)' /\ Holds(c)'
        BY <1>0, <1>1, <2>4, <2>5, LoadedFollows
    <2>7. delivered[c] = << >>
        BY <1>0, <2>3 DEF ReadOrder, ReturnedOrder
    <2> QED
        BY <1>0, <1>1, <2>3, <2>6, <2>7, MovedOn DEF FollowsOn
<1>5. CASE Deliver(c)
    BY <1>5, DeliverFollows
<1>6. CASE SkipCorrupt(c)
    <2>1. PICK x \in ReadRecordAt(rdata[c], roff[c]) : x.kind = "crc" /\ rloaded[c]
        BY <1>6 DEF SkipCorrupt
    <2>2. rdata[c] \in Seq(Unit) /\ Len(rdata[c]) \in Nat
        BY <1>0, SeenTypes
    <2>3. PartOfRun(rdata[c]) /\ roff[c] \in 0..Len(rdata[c]) /\ WellFramed(SubSeq(rdata[c], 1, roff[c]))
        BY <1>0, <1>3, <2>1, <2>2 DEF Holds
    <2> QED
        BY <2>1, <2>2, <2>3, Parsed
\* load_segment: of a later segment from its start, or again of the current one
<1>7. ASSUME NEW s \in SegIds, LoadSegment(c, s), UNCHANGED << wvars, ropen, delivered >>,
             \/ rseg[c] < s /\ s \in segments /\ roff'[c] = 0
             \/ rseg[c] = s /\ roff'[c] = roff[c]
      PROVE  FollowsOn(c)'
    <2>1. rseg'[c] = s /\ rdata'[c] = bytes[s] /\ (rloaded'[c] => s \in segments)
        <3>1. CASE s \in segments
            BY <1>2, <1>7, <3>1 DEF LoadSegment
        <3>2. CASE s \notin segments
            <4>1. rseg[c] = s /\ bytes[s] = << >>
                BY <1>0, <1>7, <3>2 DEF FilesInv
            <4> QED
                BY <1>2, <1>7, <3>2, <4>1 DEF LoadSegment
        <3> QED
            BY <3>1, <3>2
    <2>2. PICK n \in Nat : /\ n = roff'[c] /\ (s \in segments => OnBoundary(s, n))
                          /\ (s >= nextId => n = 0)
        BY <1>0, <1>3, <1>7 DEF Stands
    <2>3. Stands(c)' /\ Holds(c)'
        BY <1>0, <1>1, <2>1, <2>2, LoadedFollows
    <2>4. committed'[c] = committed[c] /\ delivered'[c] = delivered[c]
        BY <1>7 DEF wvars
    <2>5. rseg[c] < rseg'[c] \/ (rseg'[c] = rseg[c] /\ roff'[c] = roff[c])
        BY <1>7, <2>1
    <2> QED
        BY <1>0, <1>1, <2>3, <2>4, <2>5, MovedOn DEF FollowsOn
<1>8. CASE PollEnd(c)
    <2>1. Advance(c) /\ rloaded[c] /\ UNCHANGED << wvars, ropen, delivered >>
        BY <1>8 DEF PollEnd
    <2>2. CASE \E s \in segments : s > rseg[c]
        <3>1. PICK s \in segments : s > rseg[c] /\ LoadSegment(c, s)
            BY <2>1, <2>2 DEF Advance, IsLeast
        <3>2. roff' = [roff EXCEPT ![c] = 0]
            BY <2>1, <2>2 DEF Advance
        <3>3. s \in SegIds /\ rseg[c] < s /\ roff'[c] = 0
            BY <1>2, <1>3, <3>1, <3>2
        <3> QED
            BY <1>7, <2>1, <3>1, <3>3
    <2>3. CASE ~\E s \in segments : s > rseg[c]
        <3>1. TopUp(c)
            BY <2>1, <2>3 DEF Advance
        <3>2. Stands(c)' /\ Holds(c)' /\ rseg'[c] = rseg[c] /\ roff'[c] = roff[c]
            BY <1>0, <1>1, <2>1, <3>1, TopUpFollows
        <3>3. committed'[c] = committed[c] /\ delivered'[c] = delivered[c]
            BY <2>1 DEF wvars
        <3> QED
            BY <1>0, <1>1, <3>2, <3>3, MovedOn DEF FollowsOn
    <2> QED
        BY <2>2, <2>3
<1>9. CASE PollUnloaded(c)
    <2>1. Reload(c) /\ UNCHANGED << wvars, ropen, delivered >>
        BY <1>9 DEF PollUnloaded
    <2>2. \/ \E s \in segments : rseg[c] < s /\ LoadSegment(c, s) /\ roff'[c] = 0
          \/ LoadSegment(c, rseg[c]) /\ roff'[c] = roff[c]
        BY <1>2, <2>1 DEF Reload
    <2> QED
        BY <1>3, <1>7, <2>1, <2>2
<1>10. CASE Commit(c)
    <2>1. /\ UNCHANGED << rseg, roff, rdata, rloaded, delivered >>
          /\ committed' = [committed EXCEPT ![c] = [seg |-> rseg[c], off |-> roff[c]]]
        BY <1>10 DEF Commit, rvars
    <2>2. committed'[c].seg = rseg[c] /\ committed'[c].off = roff[c]
        BY <1>2, <2>1
    <2>3. Resumes(c)'
        BY <1>0, <1>1, <2>2 DEF Stands, Resumes, OnBoundary
    <2>4. Stands(c)' /\ Holds(c)' /\ Passed(c)' /\ Gapless(c)'
        BY <1>0, <1>1, <2>1 DEF FollowsOn, Stands, Holds, Passed, Gapless, OnBoundary
    <2> QED
        BY <2>3, <2>4 DEF FollowsOn
<1>11. CASE CloseReader(c)
    <2>1. rseg'[c] = 0 /\ roff'[c] = 0 /\ ~rloaded'[c] /\ delivered'[c] = << >>
          /\ committed'[c] = committed[c]
        BY <1>2, <1>11 DEF CloseReader, Closed, wvars
    <2>2. Stands(c)' /\ Holds(c)'
        BY <1>1, <1>3, <2>1 DEF Stands, Holds, OnBoundary
    <2>3. Len(delivered'[c]) = 0
        BY <2>1, EmptySeq
    <2>4. Passed(c)' /\ Gapless(c)'
        BY <2>3 DEF Passed, Gapless
    <2>5. Resumes(c)'
        BY <1>0, <1>1, <2>1 DEF Resumes, OnBoundary
    <2> QED
        BY <2>2, <2>4, <2>5 DEF FollowsOn
<1> QED
    BY <1>4, <1>5, <1>6, <1>8, <1>9, <1>10, <1>11 DEF Reader, Poll

\* A step of another process leaves a reader where it is.
LEMMA UntouchedFollows ==
    ASSUME NEW d \in Consumers, FollowsOn(d), UNCHANGED << bytes, segments, nextId >>,
           committed'[d] = committed[d], rdata'[d] = rdata[d], roff'[d] = roff[d],
           rseg'[d] = rseg[d], rloaded'[d] = rloaded[d], delivered'[d] = delivered[d]
    PROVE  FollowsOn(d)'
BY DEF FollowsOn, Stands, Resumes, Holds, Passed, Gapless, OnBoundary

\* Every step keeps every reader between two frames while nothing ends.
LEMMA GapStep == ASSUME GapInv, [Next]_vars PROVE GapInv'
<1>0. ReadInv' /\ TypeOK' /\ FilesInv' /\ exits \in Nat /\ powerLosses \in Nat
    BY ReadStep DEF GapInv, ReadInv, OrderInv, DurInv, TypeOK, WriterTypeOK
<1> SUFFICES ASSUME Undisturbed' PROVE Watched' /\ \A c \in Consumers : FollowsOn(c)'
    BY <1>0 DEF GapInv
<1>1. CASE WNext /\ UNCHANGED rvars
    <2>1. Undisturbed
        <3>1. powerLosses' = powerLosses /\ (exits' = exits \/ exits' = exits + 1)
            BY <1>1 DEF WNext, Open, OpenCreate, OpenSyncDir, OpenAppend, AppendRecord, Append1,
                   RotateSeal, RotateCreate, RotateAppend, Spill, Flush, Sync, Prune, PruneStart,
                   PruneStep, PruneEnd, Exit, Kill
        <3> QED
            BY <1>0, <3>1 DEF Undisturbed
    <2>2. Watched'
        BY <1>1, <2>1, WriterEffect DEF GapInv, ReadInv, OrderInv
    <2> QED
        BY <1>0, <1>1, <2>1, <2>2, WriterFollows
<1>2. ASSUME NEW c \in Consumers, Reader(c)
      PROVE  Watched' /\ \A d \in Consumers : FollowsOn(d)'
    <2>1. UNCHANGED << bytes, segments, nextId, wpc, exits, powerLosses >>
        BY <1>2 DEF Reader, Poll, OpenReader, Deliver, SkipCorrupt, PollEnd, PollUnloaded, Commit,
               CloseReader, wvars, disk, proc
    <2>2. Undisturbed
        BY <2>1 DEF Undisturbed
    <2>3. Watched'
        BY <2>1, <2>2 DEF GapInv, Watched
    <2>4. FollowsOn(c)'
        BY <1>0, <1>2, <2>2, ReaderFollows
    <2>5. ASSUME NEW d \in Consumers, d # c PROVE FollowsOn(d)'
        <3>1. committed'[d] = committed[d]
            <4>1. committed' = committed \/ Commit(c)
                BY <1>2 DEF Reader, Poll, OpenReader, Deliver, SkipCorrupt, PollEnd, PollUnloaded,
                       CloseReader, wvars
            <4>2. committed \in [Consumers -> Position \cup {NoPosition}]
                BY DEF GapInv, ReadInv, OrderInv, DurInv, TypeOK, WriterTypeOK
            <4> QED
                BY <2>5, <4>1, <4>2 DEF Commit
        <3>2. /\ rdata'[d] = rdata[d] /\ roff'[d] = roff[d] /\ rseg'[d] = rseg[d]
              /\ delivered'[d] = delivered[d] /\ rloaded'[d] = rloaded[d]
            BY <1>2, <2>5, OthersUntouched DEF GapInv, ReadInv, OrderInv, DurInv
        <3> QED
            BY <2>1, <2>2, <3>1, <3>2, UntouchedFollows DEF GapInv
    <2> QED
        BY <2>3, <2>4, <2>5
<1>3. CASE MachinePowerLoss
    <2>1. powerLosses' = powerLosses + 1
        BY <1>3 DEF MachinePowerLoss, PowerLoss
    <2> QED
        BY <1>0, <2>1 DEF Undisturbed
<1>4. CASE UNCHANGED vars
    <2>1. /\ UNCHANGED << bytes, segments, nextId, wpc, exits, powerLosses, committed >>
          /\ UNCHANGED << rdata, roff, rseg, rloaded, delivered >>
        BY <1>4, Zenon DEF vars, wvars, rvars, disk, proc
    <2>2. Undisturbed
        BY <2>1 DEF Undisturbed
    <2>3. \A c \in Consumers : FollowsOn(c)'
        BY <2>1, <2>2, UntouchedFollows DEF GapInv
    <2> QED
        BY <2>1, <2>2, <2>3 DEF GapInv, Watched
<1> QED
    BY <1>1, <1>2, <1>3, <1>4 DEF Next

\* The inductive invariant of a reader that nothing disturbs: it stands between two
\* frames, holds what the file began with, and has returned what it passed.
THEOREM GapInvariant == Spec => []GapInv
<1>1. Init => GapInv
    <2> SUFFICES ASSUME Init PROVE ReadInv /\ Watched /\ \A c \in Consumers : FollowsOn(c)
        BY DEF GapInv
    <2>1. segments = {}
        BY DEF Init, WInit
    <2>2. ASSUME NEW c \in Consumers PROVE FollowsOn(c)
        <3>1. /\ committed[c] = NoPosition /\ delivered[c] = << >>
              /\ roff[c] = 0 /\ ~rloaded[c]
            BY DEF Init, WInit
        <3>2. Len(delivered[c]) = 0
            BY <3>1, EmptySeq
        <3>3. Stands(c) /\ Resumes(c) /\ Holds(c) /\ Passed(c) /\ Gapless(c)
            BY <2>1, <3>1, <3>2 DEF Stands, Resumes, Holds, Passed, Gapless
        <3> QED
            BY <3>3 DEF FollowsOn
    <2> QED
        BY <2>1, <2>2, ReadInit DEF Watched
<1>2. GapInv /\ [Next]_vars => GapInv'
    BY GapStep
<1> QED
    BY <1>1, <1>2, PTL DEF Spec

\* Of one segment a reader returns consecutive records, however its polls fall
\* between the writer's spills and flushes, and its own restarts: as long as no
\* writer ended and no power was lost.
THEOREM NoGapWithinSegmentAlways == Spec => []NoGapWithinSegment
<1>1. GapInv => NoGapWithinSegment
    <2> SUFFICES ASSUME GapInv, Undisturbed, NEW c \in Consumers,
                        NEW i \in 1..Len(delivered[c]) - 1,
                        delivered[c][i].seg = delivered[c][i + 1].seg,
                        NEW r \in RecordsIn(bytes[delivered[c][i].seg]),
                        delivered[c][i].rec < r, r < delivered[c][i + 1].rec
                 PROVE  FALSE
        BY DEF NoGapWithinSegment, ReadsWithoutGap
    <2>1. TypeOK /\ Gapless(c)
        BY DEF GapInv, FollowsOn, ReadInv, OrderInv, DurInv
    <2>2. delivered[c] \in Seq(Delivery) /\ Len(delivered[c]) \in Nat
        BY <2>1, SeenTypes
    <2>3. i \in 1..Len(delivered[c]) /\ i + 1 \in 1..Len(delivered[c])
        BY <2>2
    <2>4. delivered[c][i] \in Delivery /\ delivered[c][i + 1] \in Delivery
        BY <2>2, <2>3, ElementOfSeq
    <2>5. PICK a \in Nat, b \in Nat : a = delivered[c][i].rec /\ b = delivered[c][i + 1].rec
        BY <2>4, ConstantFacts DEF Delivery, Records
    <2>6. PICK d \in Seq(Unit) : d = bytes[delivered[c][i].seg]
        BY <2>1, <2>4, FollowTypes DEF Delivery
    <2>7. PICK p \in Nat : HeadIn(d, p) /\ d[p].rec = r
        BY <2>6, RecordsStart
    <2>8. r \in Nat
        BY <2>6, ConstantFacts DEF RecordsIn, Records
    <2>9. r <= a \/ b <= r
        BY <2>1, <2>5, <2>6, <2>7 DEF Gapless
    <2> QED
        BY <2>5, <2>8, <2>9
<1> QED
    BY <1>1, GapInvariant, PTL

\* A reader that nothing disturbs stands on a frame boundary, and so does the
\* position it would resume from: what is appended there is read from a header on.
THEOREM PositionsOnBoundaryAlways == Spec => []PositionsOnBoundary
<1>1. GapInv => PositionsOnBoundary
    BY DEF GapInv, PositionsOnBoundary, FollowsOn, Stands, Resumes
<1> QED
    BY <1>1, GapInvariant, PTL
================================================================================
