------------------------------- MODULE FeedProofs -------------------------------
(***************************************************************************)
(* Proofs about a feed subscription, for any assets, script of the venue,  *)
(* faults and capacities: what the dispatcher checks against the venue is  *)
(* what its records amount to, and it raises no alarm without a fault.     *)
(***************************************************************************)
EXTENDS FeedStream, FeedLemmas

-----------------------------------------------------------------------------
(***************************************************************************)
(* What records make of a book.                                            *)
(***************************************************************************)
\* The records that say something about the book of an asset.
About(r, a) == r.asset = a /\ r.kind \in {"snapshot", "delta"}

LEMMA TakeOneFacts ==
    ASSUME NEW b \in Books, NEW r \in FeedRecords
    PROVE  /\ TakeOne(b, r) \in Books
           /\ r.kind \notin {"snapshot", "delta"} => TakeOne(b, r) = b
<1>1. r.kind = "snapshot" \/ r.kind = "delta" \/ r.kind \notin {"snapshot", "delta"}
    OBVIOUS
<1>2. r.kind \in {"snapshot", "delta"} => r.row \in Rows
    BY DEF FeedRecords, SnapshotRecords, DeltaRecords, IngestRecords, TradeRecord
<1>3. r.kind \in {"snapshot", "delta"} => r.row.level \in Levels /\ r.row.size \in Nat
    BY <1>2 DEF Rows
<1>4. CASE r.kind = "snapshot"
    <2>1. TakeOne(b, r) = SetLevel(IF r.seq = 0 THEN EmptyBook ELSE b, r.row.level, r.row.size)
        BY <1>4 DEF TakeOne
    <2>2. (IF r.seq = 0 THEN EmptyBook ELSE b) \in Books
        BY EmptyBookFacts
    <2>3. r.kind \in {"snapshot", "delta"} /\ r.row.level \in Levels /\ r.row.size \in Nat
        BY <1>3, <1>4
    <2>4. TakeOne(b, r) \in Books
        <3>1. \A c \in Books, l \in Levels, q \in Nat : SetLevel(c, l, q) \in Books
            BY SetLevelFacts
        <3> QED
            BY <2>1, <2>2, <2>3, <3>1
    <2> QED
        BY <2>3, <2>4
<1>5. CASE r.kind = "delta" /\ DeltaFits(b, r.row.level, r.row.size)
    <2>1. TakeOne(b, r) = SetLevel(b, r.row.level, r.row.size)
        BY <1>5 DEF TakeOne
    <2>2. r.kind \in {"snapshot", "delta"} /\ r.row.level \in Levels /\ r.row.size \in Nat
        BY <1>3, <1>5
    <2>3. TakeOne(b, r) \in Books
        <3>1. \A c \in Books, l \in Levels, q \in Nat : SetLevel(c, l, q) \in Books
            BY SetLevelFacts
        <3> QED
            BY <2>1, <2>2, <3>1
    <2> QED
        BY <2>2, <2>3
<1>6. CASE r.kind # "snapshot" /\ ~(r.kind = "delta" /\ DeltaFits(b, r.row.level, r.row.size))
    <2>1. TakeOne(b, r) = b
        BY <1>6 DEF TakeOne
    <2> QED
        BY <1>6, <2>1
<1> QED
    BY <1>4, <1>5, <1>6

\* Records are taken one by one.
RebuiltSteps(g, b, records, a) ==
    /\ g \in [0 .. Len(records) -> Books]
    /\ g[0] = b
    /\ \A i \in 1 .. Len(records) :
          g[i] = IF records[i].asset = a THEN TakeOne(g[i - 1], records[i]) ELSE g[i - 1]
    /\ Rebuilt(b, records, a) = g[Len(records)]

LEMMA RebuiltFacts ==
    ASSUME NEW b \in Books, NEW records \in Seq(FeedRecords), NEW a
    PROVE  \E g : RebuiltSteps(g, b, records, a)
<1> DEFINE N == Len(records)
           Then(c, i) == IF records[i].asset = a THEN TakeOne(c, records[i]) ELSE c
           step == [i \in 1 .. N |-> [c \in Books |-> Then(c, i)]]
           Body(h) == [i \in 0 .. N |->
                          IF i = 0 THEN b
                          ELSE IF records[i].asset = a THEN TakeOne(h[i - 1], records[i]) ELSE h[i - 1]]
           upTo == CHOOSE h : h = Body(h)
<1>1. N \in Nat /\ \A i \in 1 .. N : records[i] \in FeedRecords
    OBVIOUS
<1>2. Rebuilt(b, records, a) = upTo[N]
    BY DEF Rebuilt
<1> HIDE DEF N
<1>3. \A c \in Books, i \in 1 .. N : Then(c, i) \in Books
    BY <1>1, TakeOneFacts
<1> HIDE DEF Then
<1>4. step \in [1 .. N -> [Books -> Books]]
    BY <1>3
<1>5. PICK g : BuiltFrom(g, N, Books, b, step)
    <2> HIDE DEF step
    <2> QED
        BY <1>1, <1>4, Buildable
<1>6. g \in [0 .. N -> Books] /\ g[0] = b /\ \A i \in 1 .. N : g[i] = step[i][g[i - 1]]
    BY <1>5 DEF BuiltFrom
<1>7. \A i \in 1 .. N : i - 1 \in 0 .. N /\ i \in 0 .. N /\ i # 0
    BY <1>1
<1>8. \A i \in 1 .. N : g[i] = Then(g[i - 1], i)
    BY <1>6, <1>7
<1>9. \A h : Body(h) = [i \in 0 .. N |-> IF i = 0 THEN b ELSE Then(h[i - 1], i)]
    BY DEF Then
<1> HIDE DEF Body
<1>10. g = Body(g)
    <2>1. ASSUME NEW i \in 0 .. N PROVE g[i] = IF i = 0 THEN b ELSE Then(g[i - 1], i)
        <3>1. CASE i = 0
            BY <1>6, <3>1
        <3>2. CASE i # 0
            BY <1>1, <1>8, <3>2
        <3> QED
            BY <3>1, <3>2
    <2> QED
        BY <1>6, <1>9, <2>1
<1>11. upTo = Body(upTo)
    BY <1>10, Zenon
<1> HIDE DEF upTo
<1>12. upTo = [i \in 0 .. N |-> IF i = 0 THEN b ELSE Then(upTo[i - 1], i)]
    BY <1>9, <1>11
<1>13. upTo[0] = g[0]
    BY <1>1, <1>6, <1>12
<1>14. \A i \in 1 .. N : upTo[i] = Then(upTo[i - 1], i)
    BY <1>7, <1>12
<1>15. \A i \in 1 .. N : upTo[i - 1] = g[i - 1] => upTo[i] = g[i]
    BY <1>8, <1>14
<1>16. \A i \in 0 .. N : upTo[i] = g[i]
    BY <1>1, <1>13, <1>15, BuiltAlike, ZenonT(30)
<1>17. Rebuilt(b, records, a) = g[N]
    BY <1>1, <1>2, <1>16
<1> QED
    BY <1>6, <1>8, <1>17 DEF RebuiltSteps, N, Then

LEMMA RebuiltTyped ==
    ASSUME NEW b \in Books, NEW records \in Seq(FeedRecords), NEW a
    PROVE  Rebuilt(b, records, a) \in Books
<1>1. PICK g : RebuiltSteps(g, b, records, a)
    BY RebuiltFacts
<1> QED
    BY <1>1 DEF RebuiltSteps

\* Records that are not about the book leave it alone.
LEMMA RebuiltSame ==
    ASSUME NEW b \in Books, NEW records \in Seq(FeedRecords), NEW a,
           \A i \in 1 .. Len(records) : ~About(records[i], a)
    PROVE  Rebuilt(b, records, a) = b
<1> DEFINE N == Len(records)
<1>1. N \in Nat /\ \A i \in 1 .. N : records[i] \in FeedRecords
    OBVIOUS
<1>2. PICK g : RebuiltSteps(g, b, records, a)
    BY RebuiltFacts
<1>3. /\ g \in [0 .. N -> Books] /\ g[0] = b /\ Rebuilt(b, records, a) = g[N]
      /\ \A i \in 1 .. N : g[i] = IF records[i].asset = a THEN TakeOne(g[i - 1], records[i]) ELSE g[i - 1]
    BY <1>2 DEF RebuiltSteps
<1>4. \A i \in 1 .. N : ~About(records[i], a)
    OBVIOUS
<1> HIDE DEF N
<1>5. ASSUME NEW i \in 1 .. N PROVE g[i] = g[i - 1]
    <2>1. g[i - 1] \in Books
        BY <1>1, <1>3
    <2>2. CASE records[i].asset = a
        <3>1. records[i].kind \notin {"snapshot", "delta"}
            BY <1>4, <2>2 DEF About
        <3>2. TakeOne(g[i - 1], records[i]) = g[i - 1]
            BY <1>1, <2>1, <3>1, TakeOneFacts
        <3> QED
            BY <1>3, <2>2, <3>2
    <2>3. CASE records[i].asset # a
        BY <1>3, <2>3
    <2> QED
        BY <2>2, <2>3
<1> DEFINE T == {i \in 0 .. N : g[i] = b}
<1>6. 0 \in T
    BY <1>1, <1>3
<1>7. \A i \in 1 .. N : i - 1 \in T => i \in T
    BY <1>1, <1>5
<1> HIDE DEF T
<1>8. \A i \in 0 .. N : i \in T
    BY <1>1, <1>6, <1>7, Climb
<1> QED
    BY <1>1, <1>3, <1>8 DEF T

\* One more record.
LEMMA RebuiltAppend ==
    ASSUME NEW b \in Books, NEW records \in Seq(FeedRecords), NEW r \in FeedRecords, NEW a
    PROVE  Rebuilt(b, Append(records, r), a)
              = IF r.asset = a THEN TakeOne(Rebuilt(b, records, a), r) ELSE Rebuilt(b, records, a)
<1>1. PICK longer : longer = Append(records, r) /\ longer \in Seq(FeedRecords)
    <2>1. Append(records, r) \in Seq(FeedRecords)
        OBVIOUS
    <2> QED
        BY <2>1, Zenon
<1>2. PICK N \in Nat : N = Len(records)
    OBVIOUS
<1>3. /\ Len(longer) = N + 1 /\ longer[N + 1] = r
      /\ \A i \in 1 .. N : longer[i] = records[i]
    BY <1>1, <1>2
<1>4. PICK g : RebuiltSteps(g, b, records, a)
    BY RebuiltFacts
<1>5. PICK h : RebuiltSteps(h, b, longer, a)
    BY <1>1, RebuiltFacts
<1>6. /\ g[0] = b /\ Rebuilt(b, records, a) = g[N]
      /\ \A i \in 1 .. N : g[i] = IF records[i].asset = a THEN TakeOne(g[i - 1], records[i]) ELSE g[i - 1]
    BY <1>2, <1>4 DEF RebuiltSteps
<1>7. /\ h[0] = b /\ Rebuilt(b, longer, a) = h[N + 1]
      /\ \A i \in 1 .. N + 1 : h[i] = IF longer[i].asset = a THEN TakeOne(h[i - 1], longer[i]) ELSE h[i - 1]
    BY <1>3, <1>5 DEF RebuiltSteps
<1>8. \A i \in 1 .. N : g[i - 1] = h[i - 1] => g[i] = h[i]
    BY <1>3, <1>6, <1>7
<1>9. g[0] = h[0]
    BY <1>6, <1>7
<1>10. g[N] = h[N]
    <2>1. \A i \in 0 .. N : g[i] = h[i]
        BY <1>8, <1>9, BuiltAlike, ZenonT(30)
    <2>2. N \in 0 .. N
        OBVIOUS
    <2> QED
        BY <2>1, <2>2
<1>11. h[N + 1] = IF longer[N + 1].asset = a THEN TakeOne(h[N], longer[N + 1]) ELSE h[N]
    <2>1. N + 1 \in 1 .. N + 1 /\ (N + 1) - 1 = N
        OBVIOUS
    <2> QED
        BY <1>7, <2>1
<1> QED
    BY <1>1, <1>3, <1>6, <1>7, <1>10, <1>11

\* The records of a snapshot make its book of any other.
LEMMA SnapshotRebuilds ==
    ASSUME NEW b \in Books, Snapshot(RowsOf(b)).ok, NEW c \in Books, NEW a \in Assets, NEW key \in Keys, NEW out,
           out = [i \in DOMAIN RowsOf(b) |-> SnapshotRecord(a, key, RowsOf(b)[i], i - 1)]
    PROVE  /\ out \in Seq(FeedRecords)
           /\ (\E l \in Levels : b.size[l] > 0) => Rebuilt(c, out, a) = Snapshot(RowsOf(b)).book
           /\ \A other : other # a => Rebuilt(c, out, other) = c
<1>1. PICK rows \in Seq(Rows) : rows = RowsOf(b)
    BY RowsFacts
<1>2. PICK N \in Nat : N = Len(rows) /\ DOMAIN rows = 1 .. N
    OBVIOUS
<1>3. \A i \in 1 .. N : rows[i] \in Rows /\ rows[i].size # 0 /\ rows[i].level \in Levels
    <2>1. \A r \in Rows : r.level \in Levels
        BY DEF Rows
    <2> QED
        BY <1>1, <1>2, <2>1, RowsFacts
<1> DEFINE Rec(i) == SnapshotRecord(a, key, rows[i], i - 1)
<1>4. out = [i \in 1 .. N |-> Rec(i)]
    BY <1>1, <1>2
<1>5. \A i \in 1 .. N : Rec(i) \in FeedRecords
    <2>1. \A i \in 1 .. N : i - 1 \in Nat
        OBVIOUS
    <2> QED
        BY <1>3, <2>1, RecordTypes
<1>a. \A i \in 1 .. N : Rec(i).asset = a /\ Rec(i).kind = "snapshot" /\ Rec(i).seq = i - 1 /\ Rec(i).row = rows[i]
    BY DEF SnapshotRecord
<1> HIDE DEF Rec
<1>6. out \in Seq(FeedRecords) /\ Len(out) = N /\ \A i \in 1 .. N : out[i] = Rec(i)
    BY <1>4, <1>5
<1>7. \A i \in 1 .. N : /\ out[i].asset = a /\ out[i].kind = "snapshot"
                        /\ out[i].seq = i - 1 /\ out[i].row = rows[i]
    BY <1>6, <1>a
<1>8. ASSUME NEW l \in Levels, b.size[l] > 0 PROVE Rebuilt(c, out, a) = Snapshot(rows).book
    <2>1. PICK f : SnapshotSteps(f, rows)
        BY SnapshotFacts
    <2>2. \A i \in 0 .. N : f[i].ok
        BY <1>1, <1>2, <2>1, FittedAllAlong
    <2>3. /\ f \in [0 .. N -> Taken] /\ f[0] = [ok |-> TRUE, book |-> EmptyBook] /\ Snapshot(rows) = f[N]
          /\ \A i \in 1 .. N : f[i] = TakeRow(f[i - 1], rows[i])
        BY <1>2, <2>1 DEF SnapshotSteps
    <2>4. PICK g : RebuiltSteps(g, c, out, a)
        BY <1>6, RebuiltFacts
    <2>5. /\ g[0] = c /\ Rebuilt(c, out, a) = g[N]
          /\ \A i \in 1 .. N : g[i] = TakeOne(g[i - 1], out[i])
        BY <1>6, <1>7, <2>4 DEF RebuiltSteps
    <2>6. ASSUME NEW i \in 1 .. N
          PROVE  /\ f[i].book = SetLevel(f[i - 1].book, rows[i].level, rows[i].size)
                 /\ g[i] = SetLevel(IF i = 1 THEN EmptyBook ELSE g[i - 1], rows[i].level, rows[i].size)
        <3>1. i - 1 \in 0 .. N /\ i \in 0 .. N
            OBVIOUS
        <3>2. f[i - 1] \in Taken /\ rows[i] \in Rows /\ rows[i].size # 0 /\ f[i] = TakeRow(f[i - 1], rows[i])
            BY <1>3, <2>3, <3>1
        <3>3. TakeRow(f[i - 1], rows[i]).ok
            BY <2>2, <3>1, <3>2
        <3>4. f[i].book = SetLevel(f[i - 1].book, rows[i].level, rows[i].size)
            BY <3>2, <3>3, TakeRowFacts
        <3>5. TakeOne(g[i - 1], out[i])
                 = SetLevel(IF out[i].seq = 0 THEN EmptyBook ELSE g[i - 1], out[i].row.level, out[i].row.size)
            BY <1>7 DEF TakeOne
        <3>6. out[i].seq = 0 <=> i = 1
            <4>1. PICK n \in Nat : n = i - 1
                OBVIOUS
            <4>2. out[i].seq = n
                BY <1>7, <4>1
            <4>3. n = 0 <=> i = 1
                BY <4>1
            <4> QED
                BY ONLY <4>2, <4>3
        <3> QED
            BY <1>7, <2>5, <3>4, <3>5, <3>6
    <2> DEFINE T == {i \in 0 .. N : i = 0 \/ f[i].book = g[i]}
    <2>7. 0 \in T
        OBVIOUS
    <2>8. ASSUME NEW i \in 1 .. N, i - 1 \in T PROVE i \in T
        <3>1. i \in 0 .. N
            OBVIOUS
        <3>2. CASE i = 1
            <4>1. f[i - 1].book = EmptyBook
                BY <2>3, <3>2
            <4> QED
                BY <2>6, <3>1, <3>2, <4>1
        <3>3. CASE i # 1
            <4>1. f[i - 1].book = g[i - 1]
                BY <2>8, <3>3
            <4> QED
                BY <2>6, <3>1, <3>3, <4>1
        <3> QED
            BY <3>2, <3>3
    <2> HIDE DEF T
    <2>9. \A i \in 0 .. N : i \in T
        BY <2>7, <2>8, Climb
    <2>10. N # 0 /\ N \in 0 .. N
        BY <1>1, <1>2, <1>8, RowsFacts
    <2> QED
        BY <2>3, <2>5, <2>9, <2>10 DEF T
<1>9. ASSUME NEW other, other # a PROVE Rebuilt(c, out, other) = c
    <2>1. \A i \in 1 .. Len(out) : ~About(out[i], other)
        BY <1>6, <1>7, <1>9 DEF About
    <2> QED
        BY <1>6, <2>1, RebuiltSame
<1> QED
    BY <1>1, <1>6, <1>8, <1>9

\* The records of the entries so far make the shadow books so far.
Mirrors(acc) == \A a \in Assets : acc.shadow[a] # NoBook => acc.shadow[a] = Rebuilt(implied[a], acc.out, a)

LEMMA EntryMirrors ==
    ASSUME implied \in [Assets -> Books], NEW acc \in Accs, NEW e \in Entries, NEW last, NEW next \in Accs,
           EntryOutcome(acc, e, last, next), Mirrors(acc)
    PROVE  Mirrors(next)
<1> DEFINE d == DeltaOf(acc, e)
<1>1. /\ e.asset \in Assets /\ d \in FeedRecords /\ d.kind = "delta" /\ d.asset = e.asset
      /\ d.row = Changes[e.version]
    BY EntryParts
<1>2. PICK r \in FeedRecords : r = d
    BY <1>1
<1>3. acc.out \in Seq(FeedRecords) /\ acc.shadow \in [Assets -> Books \cup {NoBook}]
    BY DEF Accs
<1> DEFINE one == Append(acc.out, r)
<1>4. one \in Seq(FeedRecords)
    BY <1>3
<1>5. ASSUME NEW a \in Assets
      PROVE  Rebuilt(implied[a], one, a) = IF r.asset = a THEN TakeOne(Rebuilt(implied[a], acc.out, a), r)
                                          ELSE Rebuilt(implied[a], acc.out, a)
    BY <1>3, RebuiltAppend
<1>6. ASSUME NEW a \in Assets, NEW x \in FeedRecords, x.kind = "ingest"
      PROVE  Rebuilt(implied[a], Append(one, x), a) = Rebuilt(implied[a], one, a)
    <2>1. Rebuilt(implied[a], Append(one, x), a) = IF x.asset = a THEN TakeOne(Rebuilt(implied[a], one, a), x)
                                                   ELSE Rebuilt(implied[a], one, a)
        BY <1>4, RebuiltAppend
    <2>2. Rebuilt(implied[a], one, a) \in Books
        BY <1>4, RebuiltTyped
    <2>3. TakeOne(Rebuilt(implied[a], one, a), x) = Rebuilt(implied[a], one, a)
        BY <1>6, <2>2, TakeOneFacts
    <2> QED
        BY <2>1, <2>3
<1> HIDE DEF one
<1>7. ASSUME NEW a \in Assets, a # e.asset, acc.shadow[a] # NoBook
      PROVE  acc.shadow[a] = Rebuilt(implied[a], one, a)
    BY <1>1, <1>2, <1>5, <1>7 DEF Mirrors
<1>8. ASSUME acc.shadow[e.asset] # NoBook, NewFits(acc, e)
      PROVE  NewBook(acc, e) = Rebuilt(implied[e.asset], one, e.asset)
    <2>1. acc.shadow[e.asset] = Rebuilt(implied[e.asset], acc.out, e.asset)
        BY <1>1, <1>8 DEF Mirrors
    <2>2. TakeOne(acc.shadow[e.asset], r) = NewBook(acc, e)
        BY <1>1, <1>2, <1>8 DEF TakeOne, NewFits, NewBook
    <2> QED
        BY <1>1, <1>2, <1>5, <2>1, <2>2
<1>9. \A event \in Alarms : IngestRecord(event, e.asset) \in FeedRecords /\ IngestRecord(event, e.asset).kind = "ingest"
    <2>1. \A event \in Alarms : IngestRecord(event, e.asset).kind = "ingest"
        BY DEF IngestRecord
    <2> QED
        BY <1>1, <2>1, RecordTypes
<1>10. CASE Skipped(acc, e, next)
    BY <1>10 DEF Skipped
<1>11. CASE Forwarded(acc, e, next)
    <2>1. next.shadow = acc.shadow /\ next.out = one /\ acc.shadow[e.asset] = NoBook
        BY <1>2, <1>11 DEF Forwarded, one
    <2> QED
        BY <1>7, <2>1 DEF Mirrors
<1>12. CASE Overflowed(acc, e, next)
    <2>1. PICK x \in FeedRecords : x.kind = "ingest" /\ next.out = Append(one, x)
        BY <1>2, <1>9, <1>12 DEF Overflowed, one, Alarms
    <2>2. next.shadow = [acc.shadow EXCEPT ![e.asset] = NoBook]
        BY <1>12 DEF Overflowed
    <2>3. ASSUME NEW a \in Assets, next.shadow[a] # NoBook
          PROVE  next.shadow[a] = Rebuilt(implied[a], next.out, a)
        <3>1. a # e.asset /\ next.shadow[a] = acc.shadow[a]
            BY <1>3, <2>2, <2>3
        <3> QED
            BY <1>6, <1>7, <2>1, <2>3, <3>1
    <2> QED
        BY <2>3 DEF Mirrors
<1>13. CASE Diverged(acc, e, last, next)
    <2>1. PICK x \in FeedRecords : x.kind = "ingest" /\ next.out = Append(one, x)
        BY <1>2, <1>9, <1>13 DEF Diverged, one, Alarms
    <2>2. /\ next.shadow = [acc.shadow EXCEPT ![e.asset] = NewBook(acc, e)]
          /\ acc.shadow[e.asset] # NoBook /\ NewFits(acc, e)
        BY <1>13 DEF Diverged
    <2>3. ASSUME NEW a \in Assets, next.shadow[a] # NoBook
          PROVE  next.shadow[a] = Rebuilt(implied[a], next.out, a)
        <3>1. Rebuilt(implied[a], next.out, a) = Rebuilt(implied[a], one, a)
            BY <1>6, <2>1
        <3>2. CASE a = e.asset
            BY <1>3, <1>8, <2>2, <3>1, <3>2
        <3>3. CASE a # e.asset
            <4>1. next.shadow[a] = acc.shadow[a]
                BY <1>3, <2>2, <3>3
            <4> QED
                BY <1>7, <2>3, <3>1, <3>3, <4>1
        <3> QED
            BY <3>2, <3>3
    <2> QED
        BY <2>3 DEF Mirrors
<1>14. CASE Followed(acc, e, next)
    <2>1. next.out = one
        BY <1>2, <1>14 DEF Followed, one
    <2>2. /\ next.shadow = [acc.shadow EXCEPT ![e.asset] = NewBook(acc, e)]
          /\ acc.shadow[e.asset] # NoBook /\ NewFits(acc, e)
        BY <1>14 DEF Followed
    <2>3. ASSUME NEW a \in Assets, next.shadow[a] # NoBook
          PROVE  next.shadow[a] = Rebuilt(implied[a], next.out, a)
        <3>1. CASE a = e.asset
            BY <1>3, <1>8, <2>1, <2>2, <3>1
        <3>2. CASE a # e.asset
            <4>1. next.shadow[a] = acc.shadow[a]
                BY <1>3, <2>2, <3>2
            <4> QED
                BY <1>7, <2>1, <2>3, <3>2, <4>1
        <3> QED
            BY <3>1, <3>2
    <2> QED
        BY <2>3 DEF Mirrors
<1> QED
    BY <1>10, <1>11, <1>12, <1>13, <1>14 DEF EntryOutcome

LEMMA DispatchedMirrors ==
    ASSUME DispatcherTypeOK, implied \in [Assets -> Books], ShadowIsImplied, NEW entries \in Seq(Entries)
    PROVE  Dispatched(entries) \in Accs /\ Mirrors(Dispatched(entries))
<1>1. PICK f : DispatchedSteps(f, entries)
    BY DispatchedFacts
<1>2. PICK N \in Nat : N = Len(entries)
    OBVIOUS
<1>3. /\ f \in [0 .. N -> Accs] /\ Dispatched(entries) = f[N]
      /\ f[0] = [shadow |-> shadow, seq |-> seq, out |-> << >>, asked |-> << >>]
      /\ \A i \in 1 .. N : f[i] = DispatchEntry(f[i - 1], entries, i)
    BY <1>1, <1>2 DEF DispatchedSteps
<1> DEFINE T == {i \in 0 .. N : Mirrors(f[i])}
<1>4. 0 \in T
    <2>1. << >> \in Seq(FeedRecords) /\ Len(<< >>) = 0
        OBVIOUS
    <2>2. \A a \in Assets : Rebuilt(implied[a], << >>, a) = implied[a]
        <3>1. \A i \in 1 .. Len(<< >>) : FALSE
            BY <2>1
        <3>2. ASSUME NEW a \in Assets PROVE implied[a] \in Books
            OBVIOUS
        <3>3. PICK none \in Seq(FeedRecords) : none = << >> /\ \A i \in 1 .. Len(none) : FALSE
            BY <2>1, <3>1
        <3>4. \A a \in Assets : Rebuilt(implied[a], none, a) = implied[a]
            BY <3>2, <3>3, RebuiltSame
        <3> QED
            BY <3>3, <3>4
    <2>3. f[0].shadow = shadow /\ f[0].out = << >>
        BY <1>3
    <2> QED
        BY <2>2, <2>3 DEF Mirrors, ShadowIsImplied
<1>5. ASSUME NEW i \in 1 .. N, i - 1 \in T PROVE i \in T
    <2>1. i \in 0 .. N /\ i - 1 \in 0 .. N /\ i \in 1 .. Len(entries)
        BY <1>2
    <2>2. f[i - 1] \in Accs /\ f[i] \in Accs /\ f[i] = DispatchEntry(f[i - 1], entries, i) /\ Mirrors(f[i - 1])
        BY <1>3, <1>5, <2>1
    <2>3. entries[i] \in Entries
        BY <2>1
    <2>4. EntryOutcome(f[i - 1], entries[i], IsLastOf(entries, i), f[i])
        BY <2>1, <2>2, EntryFacts
    <2>5. Mirrors(f[i])
        BY <2>2, <2>3, <2>4, EntryMirrors
    <2> QED
        BY <2>1, <2>5
<1> HIDE DEF T
<1>6. \A i \in 0 .. N : i \in T
    BY <1>4, <1>5, Climb
<1>7. N \in 0 .. N
    OBVIOUS
<1> QED
    BY <1>3, <1>6, <1>7 DEF T

-----------------------------------------------------------------------------
(***************************************************************************)
(* The stream keeps its types.                                             *)
(***************************************************************************)
StreamTypeOK ==
    /\ FeedTypeOK
    /\ events \in Seq(FeedRecords)
    /\ implied \in [Assets -> Books]
    /\ newest \in [Assets -> {Unknown} \cup Reached]

LEMMA TurnTells ==
    ASSUME FeedTypeOK, Dispatch, NEW a \in Assets, Accepted(a)
    PROVE  \E m, b, rows : TakenOver(m, b, rows) /\ m.asset = a
<1>1. turn' # turn
    BY DEF Accepted
<1>2. AcceptBook
    <2>1. DropBook \/ DispatchChanges \/ DispatchTrade \/ DispatchLifecycle => turn' = turn
        BY DEF DropBook, DispatchChanges, DispatchTrade, DispatchLifecycle, ResetContinuity, trackers
    <2> QED
        BY <1>1, <2>1 DEF Dispatch
<1>3. PICK m, b, rows : TakenOver(m, b, rows)
    BY <1>2, AcceptBookFacts
<1>4. turn' = [turn EXCEPT ![m.asset] = 1 - @] /\ turn \in [Assets -> {0, 1}]
    BY <1>3 DEF TakenOver, FeedTypeOK, DispatcherTypeOK
<1>5. m.asset = a
    BY <1>4 DEF Accepted
<1> QED
    BY <1>3, <1>5

LEMMA StreamInitTyped == StreamInit => StreamTypeOK
<1> SUFFICES ASSUME StreamInit PROVE StreamTypeOK
    OBVIOUS
<1>1. FeedTypeOK
    BY FeedInitTyped DEF StreamInit
<1>2. events = << >>
    BY DEF StreamInit, FeedInit
<1>3. implied \in [Assets -> Books] /\ newest \in [Assets -> {Unknown} \cup Reached]
    BY EmptyBookFacts DEF StreamInit
<1> QED
    BY <1>1, <1>2, <1>3 DEF StreamTypeOK

LEMMA ProduceTyped ==
    ASSUME StreamTypeOK, Produce
    PROVE  StreamTypeOK'
<1>1. FeedTypeOK'
    BY DispatchTyped DEF StreamTypeOK, Produce
<1>2. events' = events
    BY DEF Produce, Dispatch, DropBook, AcceptBook, DispatchChanges, DispatchTrade, DispatchLifecycle, Take
<1>3. implied' \in [Assets -> Books]
    <2>1. PICK out \in Seq(FeedRecords) : out = outbox'
        BY <1>1 DEF FeedTypeOK, DispatcherTypeOK
    <2>2. implied' = [a \in Assets |-> Rebuilt(implied[a], out, a)]
        BY <2>1 DEF Produce
    <2>3. \A a \in Assets : Rebuilt(implied[a], out, a) \in Books
        BY RebuiltTyped DEF StreamTypeOK
    <2> QED
        BY <2>2, <2>3
<1>4. newest' \in [Assets -> {Unknown} \cup Reached]
    <2>1. ASSUME NEW a \in Assets
          PROVE  newest'[a] \in {Unknown} \cup Reached
        <3>1. newest'[a] = IF lastTs'[a] = 0 THEN Unknown
                           ELSE IF Accepted(a) /\ Stamped(Head(raw)) THEN Head(raw).version
                           ELSE newest[a]
            BY DEF Produce
        <3>2. newest[a] \in {Unknown} \cup Reached
            BY DEF StreamTypeOK
        <3>3. ASSUME Accepted(a) PROVE Head(raw).version \in Reached
            <4>1. PICK m, b, rows : TakenOver(m, b, rows)
                BY <3>3, TurnTells DEF StreamTypeOK, Produce
            <4> QED
                BY <4>1 DEF TakenOver, BookMessages
        <3> QED
            BY <3>1, <3>2, <3>3
    <2>2. newest' = [a \in Assets |->
                     IF lastTs'[a] = 0 THEN Unknown
                     ELSE IF Accepted(a) /\ Stamped(Head(raw)) THEN Head(raw).version
                     ELSE newest[a]]
        BY DEF Produce
    <2>3. DOMAIN newest' = Assets
        BY <2>2
    <2> QED
        BY <2>1, <2>2, <2>3
<1> QED
    BY <1>1, <1>2, <1>3, <1>4 DEF StreamTypeOK

LEMMA QuietEvents ==
    ASSUME StreamTypeOK, QuietFeed
    PROVE  events' \in Seq(FeedRecords)
<1>1. CASE Send
    BY <1>1, SendTyped DEF StreamTypeOK
<1>2. CASE ~Send
    <2>1. events' = events
        <3>1. \A m : Enqueue(m) => events' = events
            BY DEF Enqueue
        <3>2. CASE (\E a \in Assets : VenueChanges(a) \/ DebounceEnds(a)) \/ Fetch
            BY <3>2 DEF VenueChanges, DebounceEnds, Fetch
        <3>3. CASE Connect \/ Disconnect \/ Inject
            BY <3>1, <3>3 DEF Connect, Disconnect, Inject
        <3>4. CASE (\E a \in Assets : ReceiveBook(a)) \/ ReceiveTrade
            BY <3>1, <3>4 DEF ReceiveBook, ReceiveTrade
        <3>5. CASE ReceiveChanges
            <4>1. PICK N, who, bad, fault : Changed(N, who, bad, fault)
                BY <3>5, ReceiveChangesFacts DEF StreamTypeOK
            <4> QED
                BY <3>1, <4>1 DEF Changed
        <3> QED
            BY <1>2, <3>2, <3>3, <3>4, <3>5 DEF QuietFeed
    <2> QED
        BY <2>1 DEF StreamTypeOK
<1> QED
    BY <1>1, <1>2

LEMMA StreamStepTyped == StreamTypeOK /\ [Next]_vars => StreamTypeOK'
<1> SUFFICES ASSUME StreamTypeOK, [Next]_vars PROVE StreamTypeOK'
    OBVIOUS
<1>1. CASE Quiet
    <2>1. QuietFeed /\ UNCHANGED << implied, newest >>
        BY <1>1 DEF Quiet, QuietFeed
    <2>2. FeedTypeOK'
        BY <2>1, QuietTyped DEF StreamTypeOK
    <2>3. events' \in Seq(FeedRecords)
        BY <2>1, QuietEvents
    <2> QED
        BY <2>1, <2>2, <2>3 DEF StreamTypeOK
<1>2. CASE Produce
    BY <1>2, ProduceTyped
<1>3. CASE Consume
    <2>1. events # << >> /\ events' = Tail(events)
        BY <1>3 DEF Consume
    <2>2. events' \in Seq(FeedRecords)
        BY <2>1 DEF StreamTypeOK
    <2>3. /\ UNCHANGED << venue, conn, at, drops, faults, raw, shadow, lastTs, lastHash, seq, turn >>
          /\ UNCHANGED << outbox, requests, fetched, recent, implied, newest >>
        BY <1>3 DEF Consume, venueVars, trackers, workerVars
    <2> QED
        BY <2>2, <2>3 DEF StreamTypeOK, FeedTypeOK, VenueTypeOK, DispatcherTypeOK, WorkerTypeOK
<1>4. CASE UNCHANGED vars
    BY <1>4 DEF vars, fvars, venueVars, trackers, workerVars,
        StreamTypeOK, FeedTypeOK, VenueTypeOK, DispatcherTypeOK, WorkerTypeOK
<1> QED
    BY <1>1, <1>2, <1>3, <1>4 DEF Next

\* Every message, record and book of a feed is one the dispatcher can make sense of: the
\* versions it is told are versions the venue was at, the snapshots it takes over are books,
\* and the sequence numbers are natural numbers (dispatcher.rs, resnapshot.rs).
THEOREM FeedTypeCorrect == Spec => []StreamTypeOK
<1>1. StreamInit => StreamTypeOK
    BY StreamInitTyped
<1>2. StreamTypeOK /\ [Next]_vars => StreamTypeOK'
    BY StreamStepTyped
<1> QED
    BY <1>1, <1>2, PTL DEF Spec

-----------------------------------------------------------------------------
(***************************************************************************)
(* Snapshots never retreat.                                                *)
(***************************************************************************)
\* The dispatcher's timestamp of an asset is that of the newest snapshot taken over.
NewestIsLast == \A a \in Assets : newest[a] # Unknown => lastTs[a] = Ts(newest[a])

\* What a step of the dispatcher makes of the timestamp of an asset.
LEMMA LastTsSteps ==
    ASSUME FeedTypeOK, Dispatch, NEW a \in Assets
    PROVE  \/ lastTs'[a] = 0
           \/ /\ Accepted(a) /\ Stamped(Head(raw))
              /\ lastTs'[a] = Ts(Head(raw).version) /\ lastTs[a] <= lastTs'[a]
           \/ ~(Accepted(a) /\ Stamped(Head(raw))) /\ lastTs'[a] = lastTs[a]
<1>1. lastTs \in [Assets -> Nat] /\ turn \in [Assets -> {0, 1}]
    BY DEF FeedTypeOK, DispatcherTypeOK
<1>2. CASE AcceptBook
    <2>1. PICK m, b, rows : TakenOver(m, b, rows)
        BY <1>2, AcceptBookFacts
    <2>2. /\ m = Head(raw) /\ m.asset \in Assets /\ m.version \in Reached /\ ~Stale(m)
          /\ turn' = [turn EXCEPT ![m.asset] = 1 - @]
          /\ lastTs' = IF Stamped(m) THEN [lastTs EXCEPT ![m.asset] = Ts(m.version)] ELSE lastTs
        BY <2>1 DEF TakenOver, BookMessages
    <2>3. CASE a # m.asset
        <3>1. turn'[a] = turn[a] /\ lastTs'[a] = lastTs[a]
            BY <1>1, <2>2, <2>3
        <3> QED
            BY <3>1 DEF Accepted
    <2>4. CASE a = m.asset /\ ~Stamped(m)
        <3>1. lastTs'[a] = lastTs[a]
            BY <2>2, <2>4
        <3> QED
            BY <2>2, <2>4, <3>1
    <2>5. CASE a = m.asset /\ Stamped(m)
        <3>1. PICK t \in Nat : t = Ts(m.version)
            BY <2>2, ConstantFacts
        <3>2. lastTs' = [lastTs EXCEPT ![a] = t]
            BY <2>2, <2>5, <3>1
        <3>3. lastTs'[a] = t
            BY <1>1, <3>2
        <3>4. lastTs[a] <= t
            BY <1>1, <2>2, <2>5, <3>1 DEF Stale
        <3>5. turn[a] \in {0, 1} /\ turn'[a] = 1 - turn[a]
            BY <1>1, <2>2, <2>5
        <3>6. turn'[a] # turn[a]
            BY <3>5
        <3> QED
            BY <2>2, <2>5, <3>1, <3>3, <3>4, <3>6 DEF Accepted
    <2> QED
        BY <2>3, <2>4, <2>5
<1>3. CASE DropBook \/ DispatchChanges \/ DispatchTrade
    <2>1. lastTs' = lastTs /\ turn' = turn
        BY <1>3 DEF DropBook, DispatchChanges, DispatchTrade, trackers
    <2> QED
        BY <2>1 DEF Accepted
<1>4. CASE DispatchLifecycle
    <2>1. lastTs' = [x \in Assets |-> 0] \/ UNCHANGED trackers
        BY <1>4 DEF DispatchLifecycle, ResetContinuity
    <2>2. CASE lastTs' = [x \in Assets |-> 0]
        BY <2>2
    <2>3. CASE UNCHANGED trackers
        BY <2>3 DEF trackers, Accepted
    <2> QED
        BY <2>1, <2>2, <2>3
<1> QED
    BY <1>2, <1>3, <1>4 DEF Dispatch

\* What a step of the dispatcher makes of the newest snapshot of an asset.
LEMMA NewestSteps ==
    ASSUME StreamTypeOK, NewestIsLast, Produce, NEW a \in Assets, newest'[a] # Unknown
    PROVE  /\ lastTs'[a] = Ts(newest'[a])
           /\ newest[a] # Unknown => lastTs[a] <= lastTs'[a]
<1>1. newest'[a] = IF lastTs'[a] = 0 THEN Unknown
                   ELSE IF Accepted(a) /\ Stamped(Head(raw)) THEN Head(raw).version
                   ELSE newest[a]
    BY DEF Produce
<1>2. \/ lastTs'[a] = 0
      \/ /\ Accepted(a) /\ Stamped(Head(raw))
         /\ lastTs'[a] = Ts(Head(raw).version) /\ lastTs[a] <= lastTs'[a]
      \/ ~(Accepted(a) /\ Stamped(Head(raw))) /\ lastTs'[a] = lastTs[a]
    BY LastTsSteps DEF StreamTypeOK, Produce
<1>3. lastTs[a] \in Nat
    BY DEF StreamTypeOK, FeedTypeOK, DispatcherTypeOK
<1>4. CASE /\ Accepted(a) /\ Stamped(Head(raw))
           /\ lastTs'[a] = Ts(Head(raw).version) /\ lastTs[a] <= lastTs'[a]
    <2>1. newest'[a] = Head(raw).version
        BY <1>1, <1>4
    <2> QED
        BY <1>4, <2>1
<1>5. CASE ~(Accepted(a) /\ Stamped(Head(raw))) /\ lastTs'[a] = lastTs[a]
    <2>1. newest'[a] = newest[a]
        BY <1>1, <1>5
    <2>2. lastTs[a] = Ts(newest[a])
        BY <2>1 DEF NewestIsLast
    <2> QED
        BY <1>3, <1>5, <2>1, <2>2
<1> QED
    BY <1>1, <1>2, <1>4, <1>5

LEMMA NewestStepIsLast == StreamTypeOK /\ NewestIsLast /\ [Next]_vars => NewestIsLast'
<1> SUFFICES ASSUME StreamTypeOK, NewestIsLast, [Next]_vars PROVE NewestIsLast'
    OBVIOUS
<1>1. CASE Produce
    BY <1>1, NewestSteps DEF NewestIsLast
<1>2. CASE ~Produce
    <2>1. lastTs' = lastTs /\ newest' = newest
        <3>1. CASE Quiet
            <4>1. QuietFeed /\ newest' = newest
                BY <3>1 DEF Quiet, QuietFeed
            <4> QED
                BY <4>1, QuietTyped DEF StreamTypeOK, trackers
        <3>2. CASE Consume
            BY <3>2 DEF Consume, trackers
        <3>3. CASE UNCHANGED vars
            BY <3>3 DEF vars, fvars, trackers
        <3> QED
            BY <1>2, <3>1, <3>2, <3>3 DEF Next
    <2> QED
        BY <2>1 DEF NewestIsLast
<1> QED
    BY <1>1, <1>2

\* Within a session the timestamped snapshots that are taken over never get older, in
\* whatever order the connection and the resnapshot worker deliver them: an older one is
\* skipped, an unstamped one leaves the timestamp, and only a reconnect forgets it
\* (dispatcher.rs, last_snapshot_ts).
THEOREM SnapshotsNeverRetreatAlways == Spec => SnapshotsNeverRetreat
<1> DEFINE NoRetreat == \A a \in Assets : newest[a] # Unknown /\ newest'[a] # Unknown
                                             => Ts(newest[a]) <= Ts(newest'[a])
<1>1. StreamInit => StreamTypeOK /\ NewestIsLast
    <2>1. StreamInit => NewestIsLast
        BY DEF StreamInit, NewestIsLast
    <2> QED
        BY <2>1, StreamInitTyped
<1>2. StreamTypeOK /\ NewestIsLast /\ [Next]_vars => (StreamTypeOK /\ NewestIsLast)'
    BY StreamStepTyped, NewestStepIsLast
<1>3. StreamTypeOK /\ NewestIsLast /\ [Next]_vars => [NoRetreat]_vars
    <2> SUFFICES ASSUME StreamTypeOK, NewestIsLast, Next PROVE NoRetreat
        OBVIOUS
    <2>1. CASE Produce
        <3>1. ASSUME NEW a \in Assets, newest[a] # Unknown, newest'[a] # Unknown
              PROVE  Ts(newest[a]) <= Ts(newest'[a])
            BY <2>1, <3>1, NewestSteps DEF NewestIsLast
        <3> QED
            BY <3>1
    <2>2. CASE ~Produce
        <3>1. newest' = newest
            BY <2>2 DEF Next, Quiet, Consume
        <3>2. ASSUME NEW a \in Assets, newest[a] # Unknown PROVE Ts(newest[a]) <= Ts(newest[a])
            <4>1. newest[a] \in Reached
                BY <3>2 DEF StreamTypeOK
            <4>2. PICK t \in Nat : t = Ts(newest[a])
                BY <4>1, ConstantFacts
            <4> QED
                BY <4>2
        <3> QED
            BY <3>1, <3>2
    <2> QED
        BY <2>1, <2>2
<1> HIDE DEF NoRetreat
<1>4. Spec => [][NoRetreat]_vars
    BY <1>1, <1>2, <1>3, PTL DEF Spec
<1> QED
    BY <1>4 DEF SnapshotsNeverRetreat, NoRetreat

-----------------------------------------------------------------------------
(***************************************************************************)
(* The shadow books are what the records amount to.                        *)
(***************************************************************************)
\* A record that is about no book changes none.
LEMMA ImpliedSame ==
    ASSUME StreamTypeOK, Produce, NEW a \in Assets,
           \A i \in 1 .. Len(outbox') : ~About(outbox'[i], a), outbox' \in Seq(FeedRecords)
    PROVE  implied'[a] = implied[a]
<1>1. PICK out \in Seq(FeedRecords) : out = outbox'
    OBVIOUS
<1>2. implied' = [x \in Assets |-> Rebuilt(implied[x], out, x)]
    BY <1>1 DEF Produce
<1>3. \A i \in 1 .. Len(out) : ~About(out[i], a)
    BY <1>1
<1>4. implied[a] \in Books
    BY DEF StreamTypeOK
<1>5. Rebuilt(implied[a], out, a) = implied[a]
    BY <1>3, <1>4, RebuiltSame
<1> QED
    BY <1>2, <1>5

LEMMA SilentImplied ==
    ASSUME StreamTypeOK, Produce, Silent(outbox'), NEW a \in Assets
    PROVE  implied'[a] = implied[a]
<1>1. \A i \in 1 .. Len(outbox') : ~About(outbox'[i], a)
    BY RecordsAssumption DEF Silent, About
<1> QED
    BY <1>1, ImpliedSame DEF Silent

LEMMA AcceptBookMirrors ==
    ASSUME StreamTypeOK, BooksHaveLevels, ShadowIsImplied, Produce, AcceptBook
    PROVE  ShadowIsImplied'
<1>1. FeedTypeOK
    BY DEF StreamTypeOK
<1>2. PICK m, b, rows : TakenOver(m, b, rows)
    BY <1>1, AcceptBookFacts
<1>3. PICK x \in Assets : x = m.asset
    BY <1>2 DEF TakenOver, BookMessages
<1>4. m.version \in Reached
    BY <1>2 DEF TakenOver, BookMessages
<1>5. \E l \in Levels : b.size[l] > 0
    BY <1>2, <1>4 DEF BooksHaveLevels, TakenOver, Reached
<1>6. Key(m) \in Keys
    <2>1. turn[x] \in {0, 1}
        BY <1>1 DEF FeedTypeOK, DispatcherTypeOK
    <2> QED
        BY <1>3, <1>4, <2>1, ConstantFacts DEF Key, Keys
<1>7. PICK key \in Keys : key = Key(m)
    BY <1>6
<1>8. PICK out : out = outbox'
    OBVIOUS
<1>9. out = [i \in DOMAIN RowsOf(b) |-> SnapshotRecord(x, key, RowsOf(b)[i], i - 1)]
    BY <1>2, <1>3, <1>7, <1>8 DEF TakenOver
<1>10. b \in Books /\ Snapshot(RowsOf(b)).ok
    BY <1>2 DEF TakenOver
<1>11. /\ \A c \in Books : Rebuilt(c, out, x) = Snapshot(RowsOf(b)).book
       /\ \A c \in Books : \A other : other # x => Rebuilt(c, out, other) = c
    BY <1>5, <1>9, <1>10, SnapshotRebuilds
<1>12. PICK new \in Books : new = Snapshot(RowsOf(b)).book
    BY <1>2 DEF TakenOver
<1>13. shadow' = [shadow EXCEPT ![x] = new]
    BY <1>2, <1>3, <1>12 DEF TakenOver
<1>14. implied' = [a \in Assets |-> Rebuilt(implied[a], out, a)]
    BY <1>8 DEF Produce
<1>15. ASSUME NEW a \in Assets, shadow'[a] # NoBook PROVE shadow'[a] = implied'[a]
    <2>1. implied[a] \in Books
        BY DEF StreamTypeOK
    <2>2. shadow \in [Assets -> Books \cup {NoBook}]
        BY <1>1 DEF FeedTypeOK, DispatcherTypeOK
    <2>3. CASE a = x
        BY <1>11, <1>12, <1>13, <1>14, <2>1, <2>2, <2>3
    <2>4. CASE a # x
        <3>1. shadow'[a] = shadow[a]
            BY <1>13, <2>2, <2>4
        <3>2. implied'[a] = implied[a]
            BY <1>11, <1>14, <2>1, <2>4
        <3> QED
            BY <1>15, <3>1, <3>2 DEF ShadowIsImplied
    <2> QED
        BY <2>3, <2>4
<1> QED
    BY <1>15 DEF ShadowIsImplied

LEMMA DropBookMirrors ==
    ASSUME StreamTypeOK, ShadowIsImplied, Produce, DropBook
    PROVE  ShadowIsImplied'
<1>1. FeedTypeOK
    BY DEF StreamTypeOK
<1>2. PICK m, why : Dropped(m, why)
    BY <1>1, DropBookFacts
<1>3. m.asset \in Assets
    BY <1>2 DEF Dropped, BookMessages
<1>4. outbox' \in Seq(FeedRecords) /\ \A i \in 1 .. Len(outbox') : outbox'[i].kind = "ingest"
    <2>1. CASE outbox' = << >>
        <3>1. << >> \in Seq(FeedRecords) /\ \A i \in 1 .. Len(<< >>) : FALSE
            OBVIOUS
        <3> QED
            BY <2>1, <3>1
    <2>2. CASE \E event \in Alarms \ {"book_mismatch"} : outbox' = << IngestRecord(event, m.asset) >>
        <3>1. PICK event \in Alarms \ {"book_mismatch"} : outbox' = << IngestRecord(event, m.asset) >>
            BY <2>2
        <3>2. PICK r \in FeedRecords : r = IngestRecord(event, m.asset)
            BY <1>3, RecordTypes
        <3>3. r.kind = "ingest"
            BY <3>2 DEF IngestRecord
        <3>4. << r >> \in Seq(FeedRecords) /\ Len(<< r >>) = 1 /\ << r >>[1] = r
            BY OneRecord
        <3>5. \A i \in 1 .. 1 : i = 1
            OBVIOUS
        <3> QED
            BY <3>1, <3>2, <3>3, <3>4, <3>5
    <2> QED
        BY <1>2, <2>1, <2>2 DEF Dropped
<1>5. ASSUME NEW a \in Assets PROVE implied'[a] = implied[a]
    BY <1>4, ImpliedSame DEF About
<1>6. ASSUME NEW a \in Assets, shadow'[a] # NoBook PROVE shadow'[a] = shadow[a]
    <2>1. shadow' = shadow \/ shadow' = [shadow EXCEPT ![m.asset] = NoBook]
        BY <1>2 DEF Dropped
    <2>2. shadow \in [Assets -> Books \cup {NoBook}]
        BY <1>1 DEF FeedTypeOK, DispatcherTypeOK
    <2> QED
        BY <1>6, <2>1, <2>2
<1> QED
    BY <1>5, <1>6 DEF ShadowIsImplied

LEMMA DispatchChangesMirrors ==
    ASSUME StreamTypeOK, ShadowIsImplied, Produce, DispatchChanges
    PROVE  ShadowIsImplied'
<1>1. PICK m, entries : Handled(m, entries)
    BY DispatchChangesFacts DEF StreamTypeOK
<1>2. PICK done \in Accs : done = Dispatched(entries)
    BY <1>1 DEF Handled
<1>3. Mirrors(done)
    BY <1>1, <1>2, DispatchedMirrors DEF Handled, StreamTypeOK, FeedTypeOK
<1>4. shadow' = done.shadow /\ outbox' = done.out
    BY <1>1, <1>2 DEF Handled
<1>5. implied' = [a \in Assets |-> Rebuilt(implied[a], done.out, a)]
    BY <1>4 DEF Produce
<1> QED
    BY <1>3, <1>4, <1>5 DEF Mirrors, ShadowIsImplied

LEMMA SilentMirrors ==
    ASSUME StreamTypeOK, ShadowIsImplied, Produce, DispatchTrade \/ DispatchLifecycle
    PROVE  ShadowIsImplied'
<1>1. FeedTypeOK
    BY DEF StreamTypeOK
<1>2. Silent(outbox')
    BY <1>1, DispatchTradeFacts, DispatchLifecycleFacts
<1>3. shadow' = shadow \/ shadow' = [a \in Assets |-> NoBook]
    <2>1. CASE DispatchTrade
        BY <2>1 DEF DispatchTrade, trackers
    <2>2. CASE DispatchLifecycle
        BY <1>1, <2>2, DispatchLifecycleFacts DEF Cleared, trackers
    <2> QED
        BY <2>1, <2>2
<1>4. \A a \in Assets : implied'[a] = implied[a]
    BY <1>2, SilentImplied
<1> QED
    BY <1>3, <1>4 DEF ShadowIsImplied

LEMMA ShadowStep == BooksHaveLevels /\ StreamTypeOK /\ ShadowIsImplied /\ [Next]_vars => ShadowIsImplied'
<1> SUFFICES ASSUME BooksHaveLevels, StreamTypeOK, ShadowIsImplied, [Next]_vars PROVE ShadowIsImplied'
    OBVIOUS
<1>1. CASE Produce
    <2>1. Dispatch
        BY <1>1 DEF Produce
    <2> QED
        BY <1>1, <2>1, AcceptBookMirrors, DropBookMirrors, DispatchChangesMirrors, SilentMirrors DEF Dispatch
<1>2. CASE ~Produce
    <2>1. shadow' = shadow /\ implied' = implied
        <3>1. CASE Quiet
            <4>1. QuietFeed /\ implied' = implied
                BY <3>1 DEF Quiet, QuietFeed
            <4> QED
                BY <4>1, QuietTyped DEF StreamTypeOK, trackers
        <3>2. CASE Consume
            BY <3>2 DEF Consume, trackers
        <3>3. CASE UNCHANGED vars
            BY <3>3 DEF vars, fvars, trackers
        <3> QED
            BY <1>2, <3>1, <3>2, <3>3 DEF Next
    <2> QED
        BY <2>1 DEF ShadowIsImplied
<1> QED
    BY <1>1, <1>2

\* The book the dispatcher checks against the venue is at every moment the book its records
\* amount to, whatever was rejected, skipped, reset or fetched again on the way, for every
\* script in which the venue's book never becomes empty (dispatcher.rs, validation_books).
THEOREM ShadowIsImpliedAlways == BooksHaveLevels => (Spec => []ShadowIsImplied)
<1> SUFFICES ASSUME BooksHaveLevels PROVE Spec => []ShadowIsImplied
    OBVIOUS
<1>1. StreamInit => StreamTypeOK /\ ShadowIsImplied
    <2>1. StreamInit => ShadowIsImplied
        BY DEF StreamInit, FeedInit, ShadowIsImplied
    <2> QED
        BY <2>1, StreamInitTyped
<1>2. StreamTypeOK /\ ShadowIsImplied /\ [Next]_vars => (StreamTypeOK /\ ShadowIsImplied)'
    BY StreamStepTyped, ShadowStep
<1> QED
    BY <1>1, <1>2, PTL DEF Spec

-----------------------------------------------------------------------------
(***************************************************************************)
(* No alarm without a fault.                                               *)
(***************************************************************************)
\* While nothing is malformed no resnapshot is asked for, no alarm is on its way, and the
\* messages in the raw channel lead from what the dispatcher knows to what the connection
\* has brought.
Calm ==
    /\ NoAlarmIn(outbox) /\ NoAlarmIn(events)
    /\ \E p \in Marks : AlignedAt(p)

CalmWithoutFault == faults = 0 => Calm

LEMMA CalmInit == StreamInit => Calm
<1> SUFFICES ASSUME StreamInit PROVE Calm
    OBVIOUS
<1>1. FeedInit
    BY DEF StreamInit
<1>2. outbox = << >> /\ events = << >>
    BY <1>1 DEF FeedInit
<1>3. NoAlarmIn(<< >>)
    BY DEF NoAlarmIn
<1> QED
    BY <1>1, <1>2, <1>3, AlignedInit DEF Calm

LEMMA NoAlarmTail ==
    ASSUME NEW records \in Seq(FeedRecords), records # << >>, NoAlarmIn(records)
    PROVE  /\ NoAlarmIn(Tail(records))
           /\ Head(records).kind = "ingest" => Head(records).event # "book_mismatch"
<1>1. PICK N \in Nat : N = Len(records) /\ N > 0
    BY EmptySeq
<1>2. PICK rest : rest = Tail(records)
    OBVIOUS
<1>3. Len(rest) = N - 1 /\ Head(records) = records[1] /\ \A i \in 1 .. N - 1 : rest[i] = records[i + 1]
    BY <1>1, <1>2
<1>4. 1 \in 1 .. N /\ \A i \in 1 .. N - 1 : i + 1 \in 1 .. N
    BY <1>1
<1>5. NoAlarmIn(rest)
    BY <1>1, <1>3, <1>4 DEF NoAlarmIn
<1> QED
    BY <1>1, <1>2, <1>3, <1>4, <1>5 DEF NoAlarmIn

LEMMA NoAlarmSent ==
    ASSUME StreamTypeOK, Calm, Send
    PROVE  NoAlarmIn(outbox') /\ NoAlarmIn(events')
<1>1. outbox \in Seq(FeedRecords) /\ events \in Seq(FeedRecords) /\ outbox # << >>
    BY DEF StreamTypeOK, FeedTypeOK, DispatcherTypeOK, Send
<1>2. outbox' = Tail(outbox) /\ events' = Append(events, Head(outbox))
    BY DEF Send
<1>3. NoAlarmIn(outbox')
    BY <1>1, <1>2, NoAlarmTail DEF Calm
<1>4. NoAlarmIn(events')
    <2>1. PICK r : r = Head(outbox)
        OBVIOUS
    <2>2. r.kind = "ingest" => r.event # "book_mismatch"
        BY <1>1, <2>1, NoAlarmTail DEF Calm
    <2>3. NoAlarmIn(Append(events, r))
        BY <1>1, <2>2, NoAlarmAppend DEF Calm
    <2> QED
        BY <1>2, <2>1, <2>3
<1> QED
    BY <1>3, <1>4

LEMMA CalmQuiet ==
    ASSUME StreamTypeOK, Calm, QuietFeed, faults' = 0
    PROVE  Calm'
<1>1. PICK p \in Marks : AlignedAt(p)
    BY DEF Calm
<1>2. AlignedAt(p)'
    BY <1>1, AlignedQuiet DEF StreamTypeOK
<1>3. NoAlarmIn(outbox') /\ NoAlarmIn(events')
    <2>1. CASE Send
        BY <2>1, NoAlarmSent
    <2>2. CASE ~Send
        <3>1. outbox' = outbox /\ events' = events
            <4>1. CASE \E a \in Assets : VenueChanges(a) \/ DebounceEnds(a)
                BY <4>1 DEF VenueChanges, DebounceEnds
            <4>2. \A m : Enqueue(m) => outbox' = outbox /\ events' = events
                BY DEF Enqueue
            <4>3. CASE (\E a \in Assets : ReceiveBook(a)) \/ Connect \/ Disconnect \/ ReceiveTrade \/ Inject
                BY <4>2, <4>3 DEF ReceiveBook, Connect, Disconnect, ReceiveTrade, Inject
            <4>4. CASE ReceiveChanges
                BY <4>2, <4>4, ReceiveChangesFacts DEF Changed, StreamTypeOK
            <4>5. CASE Fetch
                BY <4>5 DEF Fetch
            <4> QED
                BY <2>2, <4>1, <4>3, <4>4, <4>5 DEF QuietFeed
        <3> QED
            BY <3>1 DEF Calm
    <2> QED
        BY <2>1, <2>2
<1> QED
    BY <1>2, <1>3 DEF Calm

LEMMA CalmDispatch ==
    ASSUME StreamTypeOK, Calm, Dispatch
    PROVE  Calm'
<1>1. PICK p \in Marks : AlignedAt(p)
    BY DEF Calm
<1>2. PICK q \in Marks : Keeps(q) /\ AlignedAt(q)'
    BY <1>1, AlignedDispatch DEF StreamTypeOK
<1>3. events' = events
    BY DEF Dispatch, DropBook, AcceptBook, DispatchChanges, DispatchTrade, DispatchLifecycle, Take
<1> QED
    BY <1>2, <1>3 DEF Calm, Keeps

LEMMA CalmStep == StreamTypeOK /\ CalmWithoutFault /\ [Next]_vars => CalmWithoutFault'
<1> SUFFICES ASSUME StreamTypeOK, CalmWithoutFault, [Next]_vars, faults' = 0 PROVE Calm'
    BY DEF CalmWithoutFault
<1>1. faults = 0
    <2>1. CASE Quiet \/ Produce
        BY <2>1, FaultsOnlyGrow DEF Quiet, QuietFeed, Produce, StreamTypeOK
    <2>2. CASE Consume \/ UNCHANGED vars
        BY <2>2 DEF Consume, vars, fvars, venueVars
    <2> QED
        BY <2>1, <2>2 DEF Next
<1>2. Calm
    BY <1>1 DEF CalmWithoutFault
<1>3. CASE Quiet
    BY <1>2, <1>3, CalmQuiet DEF Quiet, QuietFeed
<1>4. CASE Produce
    BY <1>2, <1>4, CalmDispatch DEF Produce
<1>5. CASE Consume
    <2>1. events # << >> /\ events' = Tail(events) /\ events \in Seq(FeedRecords)
        BY <1>5 DEF Consume, StreamTypeOK
    <2>2. NoAlarmIn(events')
        BY <1>2, <2>1, NoAlarmTail DEF Calm
    <2>3. UNCHANGED << raw, at, shadow, lastHash, lastTs, requests, fetched, outbox >>
        BY <1>5 DEF Consume, venueVars, trackers, workerVars
    <2> QED
        BY <1>2, <2>2, <2>3, AlignedStays DEF Calm
<1>6. CASE UNCHANGED vars
    <2>1. UNCHANGED << raw, at, shadow, lastHash, lastTs, requests, fetched, outbox, events >>
        BY <1>6 DEF vars, fvars, venueVars, trackers, workerVars
    <2> QED
        BY <1>2, <2>1, AlignedStays DEF Calm
<1> QED
    BY <1>3, <1>4, <1>5, <1>6 DEF Next

LEMMA CalmIsSilent == StreamTypeOK /\ CalmWithoutFault => NoFalseAlarm
<1> SUFFICES ASSUME StreamTypeOK, CalmWithoutFault, faults = 0,
                    NEW r \in ToSet(outbox) \cup ToSet(events), r.kind = "ingest"
             PROVE  r.event # "book_mismatch"
    BY DEF NoFalseAlarm
<1>1. NoAlarmIn(outbox) /\ NoAlarmIn(events)
    BY DEF CalmWithoutFault, Calm
<1>2. outbox \in Seq(FeedRecords) /\ events \in Seq(FeedRecords)
    BY DEF StreamTypeOK, FeedTypeOK, DispatcherTypeOK
<1>3. (\E i \in 1 .. Len(outbox) : r = outbox[i]) \/ (\E i \in 1 .. Len(events) : r = events[i])
    BY <1>2 DEF ToSet
<1> QED
    BY <1>1, <1>3 DEF NoAlarmIn

\* As long as nothing malformed has arrived the dispatcher reports no divergence and asks
\* for no resnapshot, for any number of assets, entries of a message, reconnects and
\* totals that overflow: a book that is followed is the venue's at the version reached,
\* and the best prices of a message are compared after the last entry of their asset
\* (dispatcher.rs, the cross-check of price_change).
THEOREM NoFalseAlarmAlways == Spec => []NoFalseAlarm
<1>1. StreamInit => StreamTypeOK /\ CalmWithoutFault
    BY StreamInitTyped, CalmInit DEF CalmWithoutFault
<1>2. StreamTypeOK /\ CalmWithoutFault /\ [Next]_vars => (StreamTypeOK /\ CalmWithoutFault)'
    BY StreamStepTyped, CalmStep
<1>3. StreamTypeOK /\ CalmWithoutFault => NoFalseAlarm
    BY CalmIsSilent
<1> QED
    BY <1>1, <1>2, <1>3, PTL DEF Spec
===============================================================================
