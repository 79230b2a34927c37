------------------------------ MODULE FeedLemmas ------------------------------
(***************************************************************************)
(* What a feed subscription is built from, for any assets, script of the   *)
(* venue, faults and capacities: books and their rows, the types of its    *)
(* state, one dispatched message, and the marks along which the messages   *)
(* lead the dispatcher while nothing is malformed.                         *)
(***************************************************************************)
EXTENDS Feed, FiniteSetTheorems, SequenceTheorems, WellFoundedInduction, TLAPS

LEMMA Climb ==
    ASSUME NEW n \in Nat, NEW T, 0 \in T, \A i \in 1 .. n : i - 1 \in T => i \in T
    PROVE  \A i \in 0 .. n : i \in T
<1> DEFINE Missing == {i \in 0 .. n : i \notin T}
<1> SUFFICES ASSUME Missing # {} PROVE FALSE
    OBVIOUS
<1> DEFINE R == OpToRel(<, Nat)
<1>1. Missing \in SUBSET Nat
    OBVIOUS
<1>2. PICK m \in Missing : \A k \in Missing : ~(<< k, m >> \in R)
    BY <1>1, NatLessThanWellFounded, WFMin, Zenon
<1>3. \A k \in Missing : << k, m >> \in R <=> k < m
    BY <1>1 DEF OpToRel
<1> HIDE DEF R
<1>4. \A k \in Missing : ~(k < m)
    BY <1>2, <1>3
<1>5. m \in 1 .. n /\ m - 1 \in 0 .. n /\ m - 1 < m
    OBVIOUS
<1> QED
    BY <1>4, <1>5

\* Two functions that are built alike are the same.
LEMMA BuiltAlike ==
    ASSUME NEW n \in Nat, NEW f, NEW g, f[0] = g[0],
           \A i \in 1 .. n : f[i - 1] = g[i - 1] => f[i] = g[i]
    PROVE  \A i \in 0 .. n : f[i] = g[i]
<1> DEFINE T == {i \in 0 .. n : f[i] = g[i]}
<1>1. 0 \in T
    OBVIOUS
<1>2. \A i \in 1 .. n : i - 1 \in T => i \in T
    OBVIOUS
<1> HIDE DEF T
<1>3. \A i \in 0 .. n : i \in T
    BY <1>1, <1>2, Climb
<1> QED
    BY <1>3 DEF T

\* f goes from init, step by step, to f[n].
BuiltFrom(f, n, S, init, step) ==
    /\ f \in [0 .. n -> S]
    /\ f[0] = init
    /\ \A i \in 1 .. n : f[i] = step[i][f[i - 1]]

\* A function can be built value by value.
LEMMA Buildable ==
    ASSUME NEW S, NEW n \in Nat, NEW init \in S, NEW step \in [1 .. n -> [S -> S]]
    PROVE  \E f : BuiltFrom(f, n, S, init, step)
<1> DEFINE T == {m \in 0 .. n : \E f : BuiltFrom(f, m, S, init, step)}
<1>1. 0 \in T
    <2> DEFINE h == [i \in 0 .. 0 |-> init]
    <2>1. BuiltFrom(h, 0, S, init, step)
        BY DEF BuiltFrom
    <2>2. 0 \in 0 .. n
        OBVIOUS
    <2> QED
        BY <2>1, <2>2
<1>2. ASSUME NEW m \in 1 .. n, m - 1 \in T PROVE m \in T
    <2>1. PICK f : BuiltFrom(f, m - 1, S, init, step)
        BY <1>2
    <2>2. f \in [0 .. m - 1 -> S] /\ f[0] = init /\ \A i \in 1 .. m - 1 : f[i] = step[i][f[i - 1]]
        BY <2>1 DEF BuiltFrom
    <2> DEFINE h == [i \in 0 .. m |-> IF i = m THEN step[m][f[m - 1]] ELSE f[i]]
    <2>3. f[m - 1] \in S /\ step[m] \in [S -> S] /\ step[m][f[m - 1]] \in S
        BY <2>2
    <2>4. h \in [0 .. m -> S]
        BY <2>2, <2>3
    <2>5. h[0] = init
        BY <2>2
    <2>6. ASSUME NEW i \in 1 .. m PROVE h[i] = step[i][h[i - 1]]
        <3>1. i - 1 \in 0 .. m - 1 /\ h[i - 1] = f[i - 1]
            OBVIOUS
        <3>2. CASE i = m
            BY <3>1, <3>2
        <3>3. CASE i # m
            <4>1. i \in 1 .. m - 1 /\ h[i] = f[i]
                BY <3>3
            <4> QED
                BY <2>2, <3>1, <4>1
        <3> QED
            BY <3>2, <3>3
    <2> HIDE DEF h
    <2>7. BuiltFrom(h, m, S, init, step) /\ m \in 0 .. n
        BY <2>4, <2>5, <2>6 DEF BuiltFrom
    <2> QED
        BY <2>7
<1> HIDE DEF T
<1>3. \A m \in 0 .. n : m \in T
    BY <1>1, <1>2, Climb
<1> QED
    BY <1>3 DEF T

-----------------------------------------------------------------------------
(***************************************************************************)
(* Books, their rows, and what rows build.                                 *)
(***************************************************************************)
Rows == [level : Levels, size : Nat]

Books == [size : [Levels -> Nat], total : [Sides -> Int]]

LEMMA EmptyBookFacts == EmptyBook \in Books /\ NoBook \notin Books
<1>1. EmptyBook \in Books
    BY DEF EmptyBook, Books
<1>2. DOMAIN NoBook.total = {} /\ \A b \in Books : DOMAIN b.total = Sides /\ "bid" \in Sides
    BY DEF NoBook, Books, Sides
<1> QED
    BY <1>1, <1>2

LEMMA SetLevelFacts ==
    ASSUME NEW b \in Books, NEW l \in Levels, NEW q \in Nat
    PROVE  SetLevel(b, l, q) \in Books /\ SetLevel(b, l, q).size = [b.size EXCEPT ![l] = q]
<1>1. l.side \in Sides
    BY DEF Levels
<1>2. b.size \in [Levels -> Nat] /\ b.total \in [Sides -> Int]
    BY DEF Books
<1>3. [b.size EXCEPT ![l] = q] \in [Levels -> Nat]
    BY <1>2
<1>4. b.total[l.side] - b.size[l] + q \in Int
    BY <1>1, <1>2
<1>5. [b.total EXCEPT ![l.side] = @ - b.size[l] + q] \in [Sides -> Int]
    BY <1>1, <1>2, <1>4
<1> QED
    BY <1>3, <1>5 DEF SetLevel, Books

\* The books the venue goes through.
LEMMA VenueFacts ==
    /\ Len(Changes) \in Nat
    /\ VenueAt \in [Versions -> Books] /\ VenueAt[0] = EmptyBook
    /\ \A v \in 1 .. Len(Changes) :
          /\ Changes[v] \in Rows
          /\ VenueAt[v] = SetLevel(VenueAt[v - 1], Changes[v].level, Changes[v].size)
<1> DEFINE N == Len(Changes)
<1>1. N \in Nat /\ \A v \in 1 .. N : Changes[v] \in Rows /\ Changes[v].level \in Levels /\ Changes[v].size \in Nat
    <2>1. Changes \in Seq(Rows)
        BY FeedAssumption DEF Rows
    <2>2. \A r \in Rows : r.level \in Levels /\ r.size \in Nat
        BY DEF Rows
    <2> QED
        BY <2>1, <2>2
<1> DEFINE step == [v \in 1 .. N |-> [b \in Books |-> SetLevel(b, Changes[v].level, Changes[v].size)]]
<1> HIDE DEF N
<1>2. step \in [1 .. N -> [Books -> Books]]
    BY <1>1, SetLevelFacts
<1>3. PICK f : BuiltFrom(f, N, Books, EmptyBook, step)
    <2> HIDE DEF step
    <2>1. N \in Nat /\ EmptyBook \in Books
        BY <1>1, EmptyBookFacts
    <2> QED
        BY <1>2, <2>1, Buildable
<1>4. f \in [0 .. N -> Books] /\ f[0] = EmptyBook /\ \A v \in 1 .. N : f[v] = step[v][f[v - 1]]
    BY <1>3 DEF BuiltFrom
<1> DEFINE Body(g) == [v \in 0 .. N |-> IF v = 0 THEN EmptyBook
                                        ELSE SetLevel(g[v - 1], Changes[v].level, Changes[v].size)]
<1>5. \A v \in 1 .. N : v - 1 \in 0 .. N /\ v \in 0 .. N /\ v # 0
    BY <1>1
<1>6. \A v \in 1 .. N : f[v] = SetLevel(f[v - 1], Changes[v].level, Changes[v].size)
    BY <1>4, <1>5
<1>7. f = Body(f)
    <2>1. ASSUME NEW v \in 0 .. N PROVE f[v] = Body(f)[v]
        <3>1. CASE v = 0
            BY <1>4, <3>1
        <3>2. CASE v # 0
            BY <1>1, <1>6, <3>2
        <3> QED
            BY <3>1, <3>2
    <2> QED
        BY <1>4, <2>1
<1> DEFINE venueAt == CHOOSE g : g = Body(g)
<1>8. venueAt = Body(venueAt)
    <2> HIDE DEF Body
    <2> QED
        BY <1>7, Zenon
<1>9. VenueAt = venueAt
    BY DEF VenueAt, Versions, N
<1> HIDE DEF venueAt
<1>10. venueAt[0] = EmptyBook
    BY <1>1, <1>8
<1>11. \A v \in 1 .. N : venueAt[v] = SetLevel(venueAt[v - 1], Changes[v].level, Changes[v].size)
    BY <1>5, <1>8
<1>12. \A v \in 1 .. N : f[v - 1] = venueAt[v - 1] => f[v] = venueAt[v]
    BY <1>6, <1>11
<1>13. \A v \in 0 .. N : f[v] = venueAt[v]
    <2>1. N \in Nat /\ f[0] = venueAt[0]
        BY <1>1, <1>4, <1>10
    <2> QED
        BY <1>12, <2>1, BuiltAlike, ZenonT(30)
<1>14. venueAt \in [0 .. N -> Books]
    <2>1. \A v \in 0 .. N : venueAt[v] \in Books
        BY <1>4, <1>13
    <2>2. venueAt = [v \in 0 .. N |-> venueAt[v]]
        BY <1>8
    <2> QED
        BY <2>1, <2>2
<1> QED
    BY <1>1, <1>9, <1>10, <1>11, <1>14 DEF N, Versions

\* A finite set as a sequence has all its elements.
LEMMA SetToSeqFacts ==
    ASSUME NEW S, IsFiniteSet(S)
    PROVE  /\ SetToSeq(S) \in Seq(S)
           /\ \A x \in S : \E i \in 1 .. Len(SetToSeq(S)) : SetToSeq(S)[i] = x
<1> DEFINE n == Cardinality(S)
<1>1. n \in Nat /\ ExistsBijection(1 .. n, S)
    BY FS_CardinalityType
<1> DEFINE f == SetToSeq(S)
<1>2. f \in [1 .. n -> S] /\ IsInjective(f)
    BY <1>1 DEF SetToSeq, ExistsBijection, Bijection, Injection
<1>3. f \in Injection(1 .. n, S)
    BY <1>2 DEF Injection
<1>4. IsFiniteSet(1 .. n) /\ Cardinality(1 .. n) = n
    BY <1>1, FS_Interval
<1> HIDE DEF f
<1>5. f \in Surjection(1 .. n, S)
    BY <1>3, <1>4, FS_Injection
<1>6. \A x \in S : \E i \in 1 .. n : f[i] = x
    BY <1>5 DEF Surjection
<1>7. f \in Seq(S) /\ Len(f) = n
    BY <1>1, <1>2
<1> QED
    BY <1>6, <1>7 DEF f

LEMMA LevelsFinite == IsFiniteSet(Levels)
<1>1. IsFiniteSet(Sides)
    <2>1. IsFiniteSet({"bid"})
        BY FS_Singleton
    <2>2. IsFiniteSet({"bid"} \cup {"ask"})
        BY <2>1, FS_AddElement
    <2>3. Sides = {"bid"} \cup {"ask"}
        BY DEF Sides
    <2> QED
        BY <2>2, <2>3
<1>2. IsFiniteSet(Sides \X Prices)
    BY <1>1, BookAssumption, FS_Product
<1> DEFINE f == [p \in Sides \X Prices |-> [side |-> p[1], price |-> p[2]]]
<1>3. f \in Surjection(Sides \X Prices, Levels)
    <2>1. f \in [Sides \X Prices -> Levels]
        BY DEF Levels
    <2>2. ASSUME NEW l \in Levels PROVE \E p \in Sides \X Prices : f[p] = l
        <3>1. l.side \in Sides /\ l.price \in Prices /\ l = [side |-> l.side, price |-> l.price]
            BY DEF Levels
        <3>2. << l.side, l.price >> \in Sides \X Prices /\ f[<< l.side, l.price >>] = l
            BY <3>1
        <3> QED
            BY <3>2
    <2> HIDE DEF f
    <2> QED
        BY <2>1, <2>2 DEF Surjection
<1> QED
    BY <1>2, <1>3, FS_Surjection

\* The rows of a book are its levels, none of them empty.
LEMMA RowsFacts ==
    ASSUME NEW b \in Books
    PROVE  /\ RowsOf(b) \in Seq(Rows)
           /\ \A i \in 1 .. Len(RowsOf(b)) :
                 RowsOf(b)[i].size # 0 /\ RowsOf(b)[i].size = b.size[RowsOf(b)[i].level]
           /\ \A l \in Levels : b.size[l] > 0 => \E i \in 1 .. Len(RowsOf(b)) : RowsOf(b)[i].level = l
<1> DEFINE Good == {r \in Rows : r.size # 0 /\ r.size = b.size[r.level]}
           Filled(s) == {l \in Levels : l.side = s /\ b.size[l] > 0}
           Set(s) == {Row(l, b.size[l]) : l \in Filled(s)}
           Of(s) == SetToSeq(Set(s))
<1>1. b.size \in [Levels -> Nat]
    BY DEF Books
<1>2. ASSUME NEW s PROVE IsFiniteSet(Set(s)) /\ Set(s) \subseteq Good
    <2> DEFINE f == [l \in Filled(s) |-> Row(l, b.size[l])]
    <2>1. f \in Surjection(Filled(s), Set(s))
        BY DEF Surjection
    <2>2. IsFiniteSet(Filled(s))
        BY LevelsFinite, FS_Subset
    <2>3. IsFiniteSet(Set(s))
        <3> HIDE DEF f, Set, Filled
        <3> QED
            BY <2>1, <2>2, FS_Surjection
    <2>4. ASSUME NEW l \in Filled(s) PROVE Row(l, b.size[l]) \in Good
        BY <1>1 DEF Row, Rows
    <2> QED
        BY <2>3, <2>4
<1> HIDE DEF Set
<1>3. ASSUME NEW s PROVE /\ Of(s) \in Seq(Good)
                         /\ \A x \in Set(s) : \E i \in 1 .. Len(Of(s)) : Of(s)[i] = x
    BY <1>2, SetToSeqFacts, SeqMonotonic
<1>4. RowsOf(b) = Of("bid") \o Of("ask")
    BY DEF RowsOf, Set
<1> HIDE DEF Of
<1>5. PICK p, q : p = Of("bid") /\ q = Of("ask") /\ RowsOf(b) = p \o q
    BY <1>4
<1>6. p \in Seq(Good) /\ q \in Seq(Good)
    BY <1>3, <1>5
<1> HIDE DEF Good
<1>7. /\ p \o q \in Seq(Good) /\ Len(p \o q) = Len(p) + Len(q) /\ Len(p) \in Nat /\ Len(q) \in Nat
      /\ \A i \in 1 .. Len(p) : i \in 1 .. Len(p \o q) /\ (p \o q)[i] = p[i]
      /\ \A i \in 1 .. Len(q) : Len(p) + i \in 1 .. Len(p \o q) /\ (p \o q)[Len(p) + i] = q[i]
    BY <1>6
<1>8. \A i \in 1 .. Len(p \o q) : (p \o q)[i] \in Good
    BY <1>7
<1>9. ASSUME NEW l \in Levels, b.size[l] > 0
      PROVE  \E i \in 1 .. Len(p \o q) : (p \o q)[i].level = l
    <2>1. Row(l, b.size[l]).level = l
        BY DEF Row
    <2>2. l.side = "bid" \/ l.side = "ask"
        BY DEF Levels, Sides
    <2>3. CASE l.side = "bid"
        <3>1. Row(l, b.size[l]) \in Set("bid")
            BY <1>9, <2>3 DEF Set
        <3> QED
            BY <1>3, <1>5, <1>7, <2>1, <3>1
    <2>4. CASE l.side = "ask"
        <3>1. Row(l, b.size[l]) \in Set("ask")
            BY <1>9, <2>4 DEF Set
        <3>2. PICK i \in 1 .. Len(q) : q[i] = Row(l, b.size[l])
            BY <1>3, <1>5, <3>1
        <3> QED
            BY <1>7, <2>1, <3>2
    <2> QED
        BY <2>2, <2>3, <2>4
<1>10. p \o q \in Seq(Rows)
    <2>1. Good \subseteq Rows
        BY DEF Good
    <2> QED
        BY <1>7, <2>1, SeqMonotonic
<1>11. \A i \in 1 .. Len(p \o q) : (p \o q)[i].size # 0 /\ (p \o q)[i].size = b.size[(p \o q)[i].level]
    BY <1>8 DEF Good
<1> QED
    BY <1>5, <1>9, <1>10, <1>11

\* What try_apply_snapshot is at after some rows.
Taken == [ok : BOOLEAN, book : Books]

LEMMA TakeRowFacts ==
    ASSUME NEW acc \in Taken, NEW r \in Rows
    PROVE  /\ TakeRow(acc, r) \in Taken
           /\ TakeRow(acc, r).ok => acc.ok
           /\ TakeRow(acc, r).ok /\ r.size # 0
                 => /\ TakeRow(acc, r).book = SetLevel(acc.book, r.level, r.size)
                    /\ DeltaFits(acc.book, r.level, r.size)
<1>1. acc.ok \in BOOLEAN /\ acc.book \in Books /\ acc = [ok |-> acc.ok, book |-> acc.book]
    BY DEF Taken
<1>2. r.level \in Levels /\ r.size \in Nat
    BY DEF Rows
<1> DEFINE new == SetLevel(acc.book, r.level, r.size)
<1>3. new \in Books
    BY <1>1, <1>2, SetLevelFacts
<1> HIDE DEF new
<1>4. CASE r.size = 0 \/ ~acc.ok
    BY <1>1, <1>4 DEF TakeRow
<1>5. CASE ~(r.size = 0 \/ ~acc.ok) /\ DeltaFits(acc.book, r.level, r.size)
    <2>1. TakeRow(acc, r) = [acc EXCEPT !.book = new]
        BY <1>5 DEF TakeRow, new
    <2>2. TakeRow(acc, r) = [ok |-> acc.ok, book |-> new]
        BY <1>1, <2>1
    <2> QED
        BY <1>1, <1>3, <1>5, <2>2 DEF Taken, new
<1>6. CASE ~(r.size = 0 \/ ~acc.ok) /\ ~DeltaFits(acc.book, r.level, r.size)
    <2>1. TakeRow(acc, r) = [ok |-> FALSE, book |-> acc.book]
        BY <1>1, <1>6 DEF TakeRow
    <2> QED
        BY <1>1, <2>1 DEF Taken
<1> QED
    BY <1>4, <1>5, <1>6

\* A snapshot is taken row by row.
SnapshotSteps(f, rows) ==
    /\ f \in [0 .. Len(rows) -> Taken]
    /\ f[0] = [ok |-> TRUE, book |-> EmptyBook]
    /\ \A i \in 1 .. Len(rows) : f[i] = TakeRow(f[i - 1], rows[i])
    /\ Snapshot(rows) = f[Len(rows)]

LEMMA SnapshotFacts ==
    ASSUME NEW rows \in Seq(Rows)
    PROVE  \E f : SnapshotSteps(f, rows)
<1> DEFINE start == [ok |-> TRUE, book |-> EmptyBook]
           N == Len(rows)
           step == [i \in 1 .. N |-> [acc \in Taken |-> TakeRow(acc, rows[i])]]
           Body(g) == [i \in 0 .. N |-> IF i = 0 THEN start ELSE TakeRow(g[i - 1], rows[i])]
           upTo == CHOOSE g : g = Body(g)
<1>1. N \in Nat /\ \A i \in 1 .. N : rows[i] \in Rows
    OBVIOUS
<1>2. Snapshot(rows) = upTo[N]
    BY DEF Snapshot
<1>3. start \in Taken
    BY EmptyBookFacts DEF Taken
<1> HIDE DEF N, start
<1>4. step \in [1 .. N -> [Taken -> Taken]]
    BY <1>1, TakeRowFacts
<1>5. PICK f : BuiltFrom(f, N, Taken, start, step)
    <2> HIDE DEF step
    <2> QED
        BY <1>1, <1>3, <1>4, Buildable
<1>6. f \in [0 .. N -> Taken] /\ f[0] = start /\ \A i \in 1 .. N : f[i] = step[i][f[i - 1]]
    BY <1>5 DEF BuiltFrom
<1>7. \A i \in 1 .. N : i - 1 \in 0 .. N /\ i \in 0 .. N /\ i # 0
    BY <1>1
<1>8. \A i \in 1 .. N : f[i] = TakeRow(f[i - 1], rows[i])
    BY <1>6, <1>7
<1>9. f = Body(f)
    <2>1. ASSUME NEW i \in 0 .. N PROVE f[i] = Body(f)[i]
        <3>1. CASE i = 0
            BY <1>6, <3>1
        <3>2. CASE i # 0
            BY <1>1, <1>8, <3>2
        <3> QED
            BY <3>1, <3>2
    <2> QED
        BY <1>6, <2>1
<1>10. upTo = Body(upTo)
    <2> HIDE DEF Body
    <2> QED
        BY <1>9, Zenon
<1> HIDE DEF upTo
<1>11. upTo[0] = f[0]
    BY <1>1, <1>6, <1>10
<1>12. \A i \in 1 .. N : upTo[i] = TakeRow(upTo[i - 1], rows[i])
    BY <1>7, <1>10
<1>13. \A i \in 1 .. N : upTo[i - 1] = f[i - 1] => upTo[i] = f[i]
    BY <1>8, <1>12
<1>14. \A i \in 0 .. N : upTo[i] = f[i]
    BY <1>1, <1>11, <1>13, BuiltAlike, ZenonT(30)
<1>15. Snapshot(rows) = f[N]
    BY <1>1, <1>2, <1>14
<1> QED
    BY <1>6, <1>8, <1>15 DEF SnapshotSteps, N, start

\* A snapshot that fits at the end has fitted all along.
LEMMA FittedAllAlong ==
    ASSUME NEW rows \in Seq(Rows), NEW f, SnapshotSteps(f, rows), Snapshot(rows).ok
    PROVE  \A i \in 0 .. Len(rows) : f[i].ok
<1> DEFINE N == Len(rows)
           T == {k \in 0 .. N : f[N - k].ok}
<1>1. N \in Nat /\ \A i \in 1 .. N : rows[i] \in Rows
    OBVIOUS
<1>2. f \in [0 .. N -> Taken] /\ f[N].ok /\ \A i \in 1 .. N : f[i] = TakeRow(f[i - 1], rows[i])
    BY DEF SnapshotSteps
<1> HIDE DEF N
<1>3. 0 \in T
    BY <1>1, <1>2
<1>4. ASSUME NEW k \in 1 .. N, k - 1 \in T PROVE k \in T
    <2>1. PICK i \in 1 .. N : i = N - (k - 1)
        BY <1>1
    <2>2. f[i].ok /\ i - 1 = N - k /\ i - 1 \in 0 .. N /\ k \in 0 .. N
        BY <1>1, <1>4, <2>1
    <2>3. f[i - 1].ok
        <3>1. f[i - 1] \in Taken /\ rows[i] \in Rows /\ f[i] = TakeRow(f[i - 1], rows[i])
            BY <1>1, <1>2, <2>2
        <3>2. TakeRow(f[i - 1], rows[i]).ok
            BY <2>2, <3>1
        <3> QED
            BY <3>1, <3>2, TakeRowFacts
    <2> QED
        BY <2>2, <2>3
<1> HIDE DEF T
<1>5. \A k \in 0 .. N : k \in T
    BY <1>1, <1>3, <1>4, Climb
<1>6. ASSUME NEW i \in 0 .. N PROVE f[i].ok
    <2>1. N - i \in 0 .. N /\ N - (N - i) = i
        BY <1>1
    <2> QED
        BY <1>5, <2>1 DEF T
<1> QED
    BY <1>6 DEF N

\* The rows of a book build its levels again.
LEMMA SnapshotIsBook ==
    ASSUME NEW b \in Books, Snapshot(RowsOf(b)).ok
    PROVE  Snapshot(RowsOf(b)).book \in Books /\ Snapshot(RowsOf(b)).book.size = b.size
<1>1. PICK rows \in Seq(Rows) : rows = RowsOf(b)
    BY RowsFacts
<1> DEFINE N == Len(rows)
<1>2. /\ \A i \in 1 .. N : rows[i].size # 0 /\ rows[i].size = b.size[rows[i].level]
      /\ \A l \in Levels : b.size[l] > 0 => \E i \in 1 .. N : rows[i].level = l
    BY <1>1, RowsFacts
<1>3. N \in Nat /\ \A i \in 1 .. N : rows[i] \in Rows /\ rows[i].level \in Levels /\ rows[i].size \in Nat
    <2>1. \A r \in Rows : r.level \in Levels /\ r.size \in Nat
        BY DEF Rows
    <2> QED
        BY <2>1
<1>4. PICK f : SnapshotSteps(f, rows)
    BY SnapshotFacts
<1>5. \A i \in 0 .. N : f[i].ok
    BY <1>1, <1>4, FittedAllAlong
<1>6. /\ f \in [0 .. N -> Taken] /\ f[0] = [ok |-> TRUE, book |-> EmptyBook]
      /\ \A i \in 1 .. N : f[i] = TakeRow(f[i - 1], rows[i])
      /\ Snapshot(rows) = f[N]
    BY <1>4 DEF SnapshotSteps
<1> HIDE DEF N
<1>7. \A i \in 0 .. N : f[i].book \in Books
    BY <1>6 DEF Taken
<1>8. b.size \in [Levels -> Nat]
    BY DEF Books
<1> DEFINE Right(i) == \A l \in Levels :
                          f[i].book.size[l] = IF \E j \in 1 .. i : rows[j].level = l THEN b.size[l] ELSE 0
           T == {i \in 0 .. N : Right(i)}
<1>9. 0 \in T
    <2>1. f[0].book = EmptyBook
        BY <1>6
    <2> QED
        BY <1>3, <2>1 DEF EmptyBook
<1>10. ASSUME NEW i \in 1 .. N, i - 1 \in T PROVE i \in T
    <2>1. i \in 0 .. N /\ i - 1 \in 0 .. N
        BY <1>3
    <2>2. f[i].book = SetLevel(f[i - 1].book, rows[i].level, rows[i].size)
        <3>1. f[i - 1] \in Taken /\ f[i].ok /\ f[i] = TakeRow(f[i - 1], rows[i])
            BY <1>5, <1>6, <2>1
        <3> QED
            BY <1>2, <1>3, <3>1, TakeRowFacts
    <2>3. f[i].book.size = [f[i - 1].book.size EXCEPT ![rows[i].level] = rows[i].size]
        BY <1>3, <1>7, <2>1, <2>2, SetLevelFacts
    <2>4. f[i - 1].book.size \in [Levels -> Nat]
        BY <1>7, <2>1 DEF Books
    <2>5. ASSUME NEW l \in Levels
          PROVE  f[i].book.size[l] = IF \E j \in 1 .. i : rows[j].level = l THEN b.size[l] ELSE 0
        <3>1. f[i - 1].book.size[l] = IF \E j \in 1 .. i - 1 : rows[j].level = l THEN b.size[l] ELSE 0
            BY <1>10
        <3>2. \A j : j \in 1 .. i <=> j \in 1 .. i - 1 \/ j = i
            BY <1>3
        <3>3. CASE l = rows[i].level
            <4>1. f[i].book.size[l] = b.size[l]
                BY <1>2, <2>3, <2>4, <3>3
            <4> QED
                BY <3>2, <3>3, <4>1
        <3>4. CASE l # rows[i].level
            <4>1. f[i].book.size[l] = f[i - 1].book.size[l]
                BY <2>3, <2>4, <3>4
            <4> QED
                BY <3>1, <3>2, <3>4, <4>1
        <3> QED
            BY <3>3, <3>4
    <2> QED
        BY <2>1, <2>5
<1> HIDE DEF T
<1>11. \A i \in 0 .. N : i \in T
    BY <1>3, <1>9, <1>10, Climb
<1>12. N \in 0 .. N
    BY <1>3
<1>13. Right(N)
    BY <1>11, <1>12 DEF T
<1>14. ASSUME NEW l \in Levels PROVE f[N].book.size[l] = b.size[l]
    <2>1. b.size[l] \in Nat
        BY <1>8
    <2>2. CASE b.size[l] > 0
        BY <1>2, <1>13, <2>2
    <2>3. CASE b.size[l] = 0
        BY <1>13, <2>3
    <2> QED
        BY <2>1, <2>2, <2>3
<1>15. f[N].book.size \in [Levels -> Nat] /\ f[N].book \in Books
    BY <1>7, <1>12 DEF Books
<1>16. f[N].book.size = b.size
    BY <1>8, <1>14, <1>15
<1> QED
    BY <1>1, <1>6, <1>15, <1>16

-----------------------------------------------------------------------------
(***************************************************************************)
(* Types.                                                                  *)
(***************************************************************************)
\* The versions the venue can be at.
Reached == FirstVersion .. Len(Changes)

\* An entry of a price_change.
Entries == [asset : Assets, version : 1 .. Len(Changes), stated : Reached, bad : BOOLEAN]

BookMessages == [type : {"book"}, asset : Assets, version : Reached, fault : BookFaults, rest : BOOLEAN]
ChangeMessages == [type : {"price_change"}, entries : Seq(Entries), fault : {"none", "oversized"}]
TradeMessages == [type : {"last_trade_price"}, fault : {"none", "unparseable"}]
LifecycleMessages == [type : {"lifecycle"}, event : {"reconnect_start", "reconnect_success"}]

Messages == BookMessages \cup ChangeMessages \cup TradeMessages \cup LifecycleMessages

Keys == Versions \X {0, 1}

Alarms == {"source_reset", "stale_snapshot_skip", "book_mismatch", "reconnect_start", "reconnect_success"}

SnapshotRecords == [kind : {"snapshot"}, asset : Assets, key : Keys, row : Rows, seq : Nat]
DeltaRecords == [kind : {"delta"}, asset : Assets, row : Rows, seq : Nat]
IngestRecords == [kind : {"ingest"}, asset : Assets \cup {NoAsset}, event : Alarms]

FeedRecords == SnapshotRecords \cup DeltaRecords \cup IngestRecords \cup {TradeRecord}

VenueTypeOK ==
    /\ venue \in [Assets -> Reached]
    /\ conn \in {"up", "down"}
    /\ at \in [Assets -> {Unknown} \cup Reached]
    /\ drops \in Nat /\ faults \in Nat
    /\ raw \in Seq(Messages)

DispatcherTypeOK ==
    /\ shadow \in [Assets -> Books \cup {NoBook}]
    /\ lastTs \in [Assets -> Nat]
    /\ lastHash \in [Assets -> {Unknown} \cup Reached]
    /\ seq \in [Assets -> Nat]
    /\ turn \in [Assets -> {0, 1}]
    /\ outbox \in Seq(FeedRecords)

WorkerTypeOK ==
    /\ requests \in Seq(Assets)
    /\ fetched \in [asset : Assets, version : Reached] \cup {NoFetch}
    /\ recent \subseteq Assets

FeedTypeOK == VenueTypeOK /\ DispatcherTypeOK /\ WorkerTypeOK

LEMMA ConstantFacts ==
    /\ Len(Changes) \in Nat /\ FirstVersion \in Nat /\ FirstVersion \in Reached
    /\ Reached \subseteq Versions /\ Versions \subseteq Nat /\ Unknown \notin Reached /\ Unknown \in Int
    /\ \A v \in Reached : v \in Nat /\ Ts(v) \in Nat /\ Ts(v) > 0
    /\ \A v \in Reached, w \in Reached : v <= w => Ts(v) <= Ts(w)
<1>1. Len(Changes) \in Nat /\ FirstVersion \in 0 .. Len(Changes)
    BY VenueFacts, FeedAssumption DEF Versions
<1>2. \A v \in Nat : Ts(v) \in Nat /\ Ts(v) > 0
    BY DEF Ts
<1>3. \A v \in Nat, w \in Nat : v <= w => Ts(v) <= Ts(w)
    BY DEF Ts
<1>4. \A v \in Reached : v \in Nat
    BY <1>1 DEF Reached
<1> QED
    BY <1>1, <1>2, <1>3, <1>4, SMTT(20) DEF Reached, Versions, Unknown

LEMMA MessageKinds ==
    ASSUME NEW m \in Messages
    PROVE  /\ m.type = "book" => m \in BookMessages
           /\ m.type = "price_change" => m \in ChangeMessages
           /\ m.type = "last_trade_price" => m \in TradeMessages
           /\ m.type = "lifecycle" => m \in LifecycleMessages
BY DEF Messages, BookMessages, ChangeMessages, TradeMessages, LifecycleMessages

LEMMA MessageTypes ==
    /\ \A a \in Assets, v \in Reached, fault \in BookFaults, rest \in BOOLEAN :
          BookMsg(a, v, fault, rest) \in BookMessages
    /\ \A entries \in Seq(Entries), fault \in {"none", "oversized"} :
          ChangesMsg(entries, fault) \in ChangeMessages
    /\ \A fault \in {"none", "unparseable"} : TradeMsg(fault) \in TradeMessages
    /\ \A event \in {"reconnect_start", "reconnect_success"} : LifecycleMsg(event) \in LifecycleMessages
    /\ BookMessages \subseteq Messages /\ ChangeMessages \subseteq Messages
    /\ TradeMessages \subseteq Messages /\ LifecycleMessages \subseteq Messages
<1>1. \A a \in Assets, v \in Reached, fault \in BookFaults, rest \in BOOLEAN :
          BookMsg(a, v, fault, rest) \in BookMessages
    BY DEF BookMsg, BookMessages
<1>2. \A entries \in Seq(Entries), fault \in {"none", "oversized"} :
          ChangesMsg(entries, fault) \in ChangeMessages
    BY DEF ChangesMsg, ChangeMessages
<1>3. \A fault \in {"none", "unparseable"} : TradeMsg(fault) \in TradeMessages
    BY DEF TradeMsg, TradeMessages
<1>4. \A event \in {"reconnect_start", "reconnect_success"} : LifecycleMsg(event) \in LifecycleMessages
    BY DEF LifecycleMsg, LifecycleMessages
<1> QED
    BY <1>1, <1>2, <1>3, <1>4 DEF Messages

LEMMA RecordTypes ==
    /\ \A a \in Assets, key \in Keys, row \in Rows, n \in Nat : SnapshotRecord(a, key, row, n) \in FeedRecords
    /\ \A a \in Assets, row \in Rows, n \in Nat : DeltaRecord(a, row, n) \in FeedRecords
    /\ \A a \in Assets \cup {NoAsset}, event \in Alarms : IngestRecord(event, a) \in FeedRecords
    /\ TradeRecord \in FeedRecords
<1>1. \A a \in Assets, key \in Keys, row \in Rows, n \in Nat : SnapshotRecord(a, key, row, n) \in SnapshotRecords
    BY DEF SnapshotRecord, SnapshotRecords
<1>2. \A a \in Assets, row \in Rows, n \in Nat : DeltaRecord(a, row, n) \in DeltaRecords
    BY DEF DeltaRecord, DeltaRecords
<1>3. \A a \in Assets \cup {NoAsset}, event \in Alarms : IngestRecord(event, a) \in IngestRecords
    BY DEF IngestRecord, IngestRecords
<1> QED
    BY <1>1, <1>2, <1>3 DEF FeedRecords

\* The records of a snapshot.
LEMMA SnapshotRecordsTyped ==
    ASSUME NEW rows \in Seq(Rows), NEW a \in Assets, NEW key \in Keys
    PROVE  [i \in DOMAIN rows |-> SnapshotRecord(a, key, rows[i], i - 1)] \in Seq(FeedRecords)
<1>1. PICK N \in Nat : N = Len(rows) /\ DOMAIN rows = 1 .. N
    OBVIOUS
<1> DEFINE Rec(i) == SnapshotRecord(a, key, rows[i], i - 1)
<1>2. ASSUME NEW i \in 1 .. N PROVE Rec(i) \in FeedRecords
    <2>1. i - 1 \in Nat /\ rows[i] \in Rows
        BY <1>1
    <2> QED
        BY <2>1, RecordTypes
<1> HIDE DEF Rec
<1>3. [i \in 1 .. N |-> Rec(i)] \in Seq(FeedRecords)
    BY <1>2
<1> QED
    BY <1>1, <1>3 DEF Rec

\* The changes of an asset, counted along a message.
LEMMA ChangesOfFacts ==
    ASSUME NEW who, NEW a
    PROVE  /\ ChangesOf(who, 0, a) = 0
           /\ \A i \in Nat : ChangesOf(who, i, a) \in Nat
           /\ \A i \in Nat \ {0} :
                 ChangesOf(who, i, a) = ChangesOf(who, i - 1, a) + (IF who[i] = a THEN 1 ELSE 0)
           /\ \A i \in Nat, j \in Nat : i <= j => ChangesOf(who, i, a) <= ChangesOf(who, j, a)
<1> DEFINE Of(i) == {j \in 1 .. i : who[j] = a}
<1>1. ASSUME NEW i \in Nat PROVE IsFiniteSet(Of(i)) /\ Cardinality(Of(i)) \in Nat
    <2>1. IsFiniteSet(1 .. i)
        BY FS_Interval
    <2>2. IsFiniteSet(Of(i))
        BY <2>1, FS_Subset
    <2> QED
        BY <2>2, FS_CardinalityType
<1>2. Cardinality(Of(0)) = 0
    <2>1. Of(0) = {}
        OBVIOUS
    <2> QED
        BY <2>1, FS_EmptySet
<1>3. ASSUME NEW i \in Nat \ {0}
      PROVE  Cardinality(Of(i)) = Cardinality(Of(i - 1)) + (IF who[i] = a THEN 1 ELSE 0)
    <2>1. i - 1 \in Nat /\ i \notin Of(i - 1)
        OBVIOUS
    <2>2. IsFiniteSet(Of(i - 1)) /\ Cardinality(Of(i - 1)) \in Nat
        BY <1>1, <2>1
    <2>3. CASE who[i] = a
        <3>1. Of(i) = Of(i - 1) \cup {i}
            BY <2>3
        <3> HIDE DEF Of
        <3> QED
            BY <2>1, <2>2, <2>3, <3>1, FS_AddElement
    <2>4. CASE who[i] # a
        <3>1. Of(i) = Of(i - 1)
            BY <2>4
        <3> HIDE DEF Of
        <3> QED
            BY <2>2, <2>4, <3>1
    <2> QED
        BY <2>3, <2>4
<1>4. ASSUME NEW i \in Nat, NEW j \in Nat, i <= j
      PROVE  Cardinality(Of(i)) <= Cardinality(Of(j))
    <2>1. Of(i) \in SUBSET Of(j)
        BY <1>4
    <2>2. IsFiniteSet(Of(j))
        BY <1>1
    <2> HIDE DEF Of
    <2> QED
        BY <2>1, <2>2, FS_Subset
<1> QED
    BY <1>1, <1>2, <1>3, <1>4 DEF ChangesOf

LEMMA EntriesTyped ==
    ASSUME FeedTypeOK, NEW N \in Nat \ {0}, NEW who \in [1 .. N -> Assets], NEW bad,
           \A i \in 1 .. N : at[who[i]] # Unknown
                             /\ at[who[i]] + ChangesOf(who, N, who[i]) <= venue[who[i]]
    PROVE  /\ EntriesOf(who, bad) \in Seq(Entries) /\ Len(EntriesOf(who, bad)) = N
           /\ \A i \in 1 .. N :
                 EntriesOf(who, bad)[i] = [asset |-> who[i],
                                           version |-> at[who[i]] + ChangesOf(who, i, who[i]),
                                           stated |-> at[who[i]] + ChangesOf(who, N, who[i]),
                                           bad |-> i = bad]
<1>1. who \in Seq(Assets) /\ Len(who) = N /\ DOMAIN who = 1 .. N
    OBVIOUS
<1> DEFINE Entry(i) == [asset |-> who[i],
                        version |-> at[who[i]] + ChangesOf(who, i, who[i]),
                        stated |-> at[who[i]] + ChangesOf(who, N, who[i]),
                        bad |-> i = bad]
<1>2. EntriesOf(who, bad) = [i \in 1 .. N |-> Entry(i)]
    BY <1>1 DEF EntriesOf
<1>3. ASSUME NEW i \in 1 .. N PROVE Entry(i) \in Entries
    <2>1. who[i] \in Assets
        OBVIOUS
    <2>2. PICK p : p = at[who[i]]
        OBVIOUS
    <2>3. PICK w : w = venue[who[i]]
        OBVIOUS
    <2>4. p \in Reached /\ w \in Reached
        BY <2>1, <2>2, <2>3 DEF FeedTypeOK, VenueTypeOK
    <2>5. /\ p \in Nat /\ w \in Nat /\ w <= Len(Changes) /\ FirstVersion <= p
          /\ Len(Changes) \in Nat /\ FirstVersion \in Nat
        BY <2>4, ConstantFacts DEF Reached
    <2>6. PICK c, d : c = ChangesOf(who, i, who[i]) /\ d = ChangesOf(who, N, who[i])
        OBVIOUS
    <2>7. c \in Nat /\ d \in Nat /\ c >= 1 /\ c <= d
        <3>1. i \in Nat \ {0} /\ i - 1 \in Nat /\ i <= N
            OBVIOUS
        <3>2. PICK e : e = ChangesOf(who, i - 1, who[i])
            OBVIOUS
        <3>3. c \in Nat /\ d \in Nat /\ e \in Nat /\ c <= d
            BY <2>6, <3>1, <3>2, ChangesOfFacts
        <3>4. c = e + 1
            BY <2>6, <3>1, <3>2, ChangesOfFacts
        <3> QED
            BY <3>3, <3>4
    <2>8. p + d <= w
        BY <2>2, <2>3, <2>6
    <2>9. p + c \in 1 .. Len(Changes) /\ p + d \in Reached
        BY <2>5, <2>7, <2>8 DEF Reached
    <2>10. Entry(i) = [asset |-> who[i], version |-> p + c, stated |-> p + d, bad |-> i = bad]
        BY <2>2, <2>6
    <2> HIDE DEF Entry
    <2>11. (i = bad) \in BOOLEAN
        OBVIOUS
    <2> QED
        BY <2>1, <2>9, <2>10, <2>11 DEF Entries
<1> HIDE DEF Entry
<1>4. /\ [i \in 1 .. N |-> Entry(i)] \in Seq(Entries) /\ Len([i \in 1 .. N |-> Entry(i)]) = N
      /\ \A j \in 1 .. N : [i \in 1 .. N |-> Entry(i)][j] = Entry(j)
    BY <1>3
<1> QED
    BY <1>2, <1>4 DEF Entry

-----------------------------------------------------------------------------
(***************************************************************************)
(* The entries of a price_change.                                          *)
(***************************************************************************)
\* What the dispatcher has made of some entries.
Accs == [shadow : [Assets -> Books \cup {NoBook}], seq : [Assets -> Nat],
         out : Seq(FeedRecords), asked : Seq(Assets)]

DeltaOf(acc, e) == DeltaRecord(e.asset, Changes[e.version], acc.seq[e.asset])

NewBook(acc, e) == SetLevel(acc.shadow[e.asset], Changes[e.version].level, Changes[e.version].size)

NewFits(acc, e) == DeltaFits(acc.shadow[e.asset], Changes[e.version].level, Changes[e.version].size)

Skipped(acc, e, next) == e.bad /\ next = acc

Forwarded(acc, e, next) ==
    /\ ~e.bad /\ acc.shadow[e.asset] = NoBook
    /\ next.shadow = acc.shadow
    /\ next.out = Append(acc.out, DeltaOf(acc, e)) /\ next.asked = acc.asked

Overflowed(acc, e, next) ==
    /\ ~e.bad /\ acc.shadow[e.asset] # NoBook
    /\ next.shadow = [acc.shadow EXCEPT ![e.asset] = NoBook]
    /\ next.out = Append(Append(acc.out, DeltaOf(acc, e)), IngestRecord("source_reset", e.asset))
    /\ next.asked = acc.asked

Diverged(acc, e, last, next) ==
    /\ ~e.bad /\ acc.shadow[e.asset] # NoBook /\ NewFits(acc, e)
    /\ last /\ Best(NewBook(acc, e)) # Best(VenueAt[e.stated])
    /\ next.shadow = [acc.shadow EXCEPT ![e.asset] = NewBook(acc, e)]
    /\ next.out = Append(Append(acc.out, DeltaOf(acc, e)), IngestRecord("book_mismatch", e.asset))
    /\ next.asked = Append(acc.asked, e.asset)

Followed(acc, e, next) ==
    /\ ~e.bad /\ acc.shadow[e.asset] # NoBook /\ NewFits(acc, e)
    /\ next.shadow = [acc.shadow EXCEPT ![e.asset] = NewBook(acc, e)]
    /\ next.out = Append(acc.out, DeltaOf(acc, e)) /\ next.asked = acc.asked

EntryOutcome(acc, e, last, next) ==
    \/ Skipped(acc, e, next) \/ Forwarded(acc, e, next) \/ Overflowed(acc, e, next)
    \/ Diverged(acc, e, last, next) \/ Followed(acc, e, next)

LEMMA EntryParts ==
    ASSUME NEW acc \in Accs, NEW e \in Entries
    PROVE  /\ e.asset \in Assets /\ e.version \in 1 .. Len(Changes) /\ e.stated \in Reached /\ e.bad \in BOOLEAN
           /\ Changes[e.version] \in Rows
           /\ acc.shadow[e.asset] # NoBook => acc.shadow[e.asset] \in Books /\ NewBook(acc, e) \in Books
           /\ DeltaOf(acc, e) \in FeedRecords
           /\ DeltaOf(acc, e).kind = "delta" /\ DeltaOf(acc, e).asset = e.asset
           /\ DeltaOf(acc, e).row = Changes[e.version]
<1>1. e.asset \in Assets /\ e.version \in 1 .. Len(Changes) /\ e.stated \in Reached /\ e.bad \in BOOLEAN
    BY DEF Entries
<1>2. Changes[e.version] \in Rows
    BY <1>1, VenueFacts
<1>3. acc.shadow[e.asset] \in Books \cup {NoBook} /\ acc.seq[e.asset] \in Nat
    BY <1>1 DEF Accs
<1>4. \A r \in Rows : r.level \in Levels /\ r.size \in Nat
    BY DEF Rows
<1>5. acc.shadow[e.asset] # NoBook => acc.shadow[e.asset] \in Books /\ NewBook(acc, e) \in Books
    <2>1. \A c \in Books, l \in Levels, q \in Nat : SetLevel(c, l, q) \in Books
        BY SetLevelFacts
    <2> QED
        BY <1>2, <1>3, <1>4, <2>1 DEF NewBook
<1>6. DeltaOf(acc, e) \in FeedRecords
    BY <1>1, <1>2, <1>3, RecordTypes DEF DeltaOf
<1>7. /\ DeltaOf(acc, e).kind = "delta" /\ DeltaOf(acc, e).asset = e.asset
      /\ DeltaOf(acc, e).row = Changes[e.version]
    BY DEF DeltaOf, DeltaRecord
<1> QED
    BY <1>1, <1>2, <1>5, <1>6, <1>7

LEMMA EntryFacts ==
    ASSUME NEW acc \in Accs, NEW entries \in Seq(Entries), NEW i \in 1 .. Len(entries)
    PROVE  /\ DispatchEntry(acc, entries, i) \in Accs
           /\ EntryOutcome(acc, entries[i], IsLastOf(entries, i), DispatchEntry(acc, entries, i))
<1>1. PICK e \in Entries : e = entries[i]
    OBVIOUS
<1>2. PICK a \in Assets : a = e.asset
    BY EntryParts
<1>3. PICK s \in [Assets -> Books \cup {NoBook}], q \in [Assets -> Nat], o \in Seq(FeedRecords), k \in Seq(Assets) :
          acc = [shadow |-> s, seq |-> q, out |-> o, asked |-> k]
    BY DEF Accs
<1>4. PICK d \in FeedRecords : d = DeltaOf(acc, e)
    BY EntryParts
<1>5. d = DeltaRecord(a, Changes[e.version], acc.seq[a])
    BY <1>2, <1>4 DEF DeltaOf
<1> DEFINE next == DispatchEntry(acc, entries, i)
           q2 == [q EXCEPT ![a] = q[a] + 1]
           o2 == Append(o, d)
           sent == [acc EXCEPT !.out = Append(@, DeltaRecord(a, Changes[e.version], acc.seq[a])), !.seq[a] = @ + 1]
           new == SetLevel(acc.shadow[a], Changes[e.version].level, Changes[e.version].size)
           fits == DeltaFits(acc.shadow[a], Changes[e.version].level, Changes[e.version].size)
           alarm == IsLastOf(entries, i) /\ Best(new) # Best(VenueAt[e.stated])
<1>6. q2 \in [Assets -> Nat]
    OBVIOUS
<1>7. o2 \in Seq(FeedRecords)
    OBVIOUS
<1>8. sent = [shadow |-> s, seq |-> q2, out |-> o2, asked |-> k]
    <2>1. acc.seq = q /\ acc.out = o
        BY <1>3
    <2>2. PICK x : x = Append(acc.out, DeltaRecord(a, Changes[e.version], acc.seq[a]))
        OBVIOUS
    <2>3. x = o2
        BY <1>5, <2>1, <2>2
    <2>4. PICK y : y = [acc EXCEPT !.out = x]
        OBVIOUS
    <2>5. y = [shadow |-> s, seq |-> q, out |-> x, asked |-> k]
        BY ONLY <1>3, <2>4
    <2>6. sent = [y EXCEPT !.seq[a] = @ + 1]
        BY ONLY <2>1, <2>2, <2>4, <2>5
    <2>7. [y EXCEPT !.seq[a] = @ + 1] = [shadow |-> s, seq |-> q2, out |-> x, asked |-> k]
        <3>1. y.seq = q
            BY ONLY <2>5
        <3>2. PICK w : w = [y.seq EXCEPT ![a] = y.seq[a] + 1]
            OBVIOUS
        <3>3. w = q2
            BY <3>1, <3>2, Zenon
        <3>4. [y EXCEPT !.seq = w] = [shadow |-> s, seq |-> w, out |-> x, asked |-> k]
            BY ONLY <2>5, SMTT(30)
        <3> HIDE DEF q2
        <3> QED
            BY ONLY <3>2, <3>3, <3>4
    <2> QED
        BY <2>3, <2>6, <2>7
<1>9. next = IF e.bad THEN acc
             ELSE IF acc.shadow[a] = NoBook THEN sent
             ELSE IF ~fits
             THEN [sent EXCEPT !.shadow[a] = NoBook, !.out = Append(@, IngestRecord("source_reset", a))]
             ELSE IF alarm
             THEN [sent EXCEPT !.shadow[a] = new, !.out = Append(@, IngestRecord("book_mismatch", a)),
                               !.asked = Append(@, a)]
             ELSE [sent EXCEPT !.shadow[a] = new]
    BY <1>1, <1>2 DEF DispatchEntry
<1>10. new = NewBook(acc, e) /\ fits = NewFits(acc, e)
    BY <1>2 DEF NewBook, NewFits
<1>11. acc.shadow = s /\ acc.out = o /\ acc.asked = k
    BY <1>3
<1>12. IngestRecord("source_reset", a) \in FeedRecords /\ IngestRecord("book_mismatch", a) \in FeedRecords
    BY RecordTypes DEF Alarms
<1>13. acc.shadow[a] # NoBook => new \in Books
    BY <1>2, <1>10, EntryParts
<1> HIDE DEF next, q2, o2, sent, new, fits, alarm
<1>14. CASE e.bad
    BY <1>1, <1>9, <1>14 DEF EntryOutcome, Skipped, next
<1>15. CASE ~e.bad /\ acc.shadow[a] = NoBook
    <2>1. next = [shadow |-> s, seq |-> q2, out |-> o2, asked |-> k]
        BY <1>8, <1>9, <1>15
    <2>2. next \in Accs
        BY <1>6, <1>7, <2>1 DEF Accs
    <2>3. Forwarded(acc, e, next)
        BY <1>2, <1>4, <1>11, <1>15, <2>1 DEF Forwarded, o2
    <2> QED
        BY <1>1, <2>2, <2>3 DEF EntryOutcome, next
<1>16. CASE ~e.bad /\ acc.shadow[a] # NoBook /\ ~fits
    <2>1. next = [sent EXCEPT !.shadow[a] = NoBook, !.out = Append(@, IngestRecord("source_reset", a))]
        BY <1>9, <1>16
    <2>2. next = [shadow |-> [s EXCEPT ![a] = NoBook], seq |-> q2,
                  out |-> Append(o2, IngestRecord("source_reset", a)), asked |-> k]
        BY <1>8, <2>1
    <2>3. next \in Accs
        <3>1. [s EXCEPT ![a] = NoBook] \in [Assets -> Books \cup {NoBook}]
            OBVIOUS
        <3>2. Append(o2, IngestRecord("source_reset", a)) \in Seq(FeedRecords)
            BY <1>7, <1>12
        <3> QED
            BY <1>6, <2>2, <3>1, <3>2 DEF Accs
    <2>4. Overflowed(acc, e, next)
        BY <1>2, <1>4, <1>11, <1>16, <2>2 DEF Overflowed, o2
    <2> QED
        BY <1>1, <2>3, <2>4 DEF EntryOutcome, next
<1>17. CASE ~e.bad /\ acc.shadow[a] # NoBook /\ fits /\ alarm
    <2>1. next = [sent EXCEPT !.shadow[a] = new, !.out = Append(@, IngestRecord("book_mismatch", a)),
                              !.asked = Append(@, a)]
        BY <1>9, <1>17
    <2>2. next = [shadow |-> [s EXCEPT ![a] = new], seq |-> q2,
                  out |-> Append(o2, IngestRecord("book_mismatch", a)), asked |-> Append(k, a)]
        BY <1>8, <2>1
    <2>3. next \in Accs
        <3>1. [s EXCEPT ![a] = new] \in [Assets -> Books \cup {NoBook}]
            BY <1>13, <1>17
        <3>2. Append(o2, IngestRecord("book_mismatch", a)) \in Seq(FeedRecords) /\ Append(k, a) \in Seq(Assets)
            BY <1>7, <1>12
        <3> QED
            BY <1>6, <2>2, <3>1, <3>2 DEF Accs
    <2>4. IsLastOf(entries, i) /\ Best(NewBook(acc, e)) # Best(VenueAt[e.stated])
        BY <1>10, <1>17 DEF alarm
    <2>5. Diverged(acc, e, IsLastOf(entries, i), next)
        BY <1>2, <1>4, <1>10, <1>11, <1>17, <2>2, <2>4 DEF Diverged, o2
    <2> QED
        BY <1>1, <2>3, <2>5 DEF EntryOutcome, next
<1>18. CASE ~e.bad /\ acc.shadow[a] # NoBook /\ fits /\ ~alarm
    <2>1. next = [sent EXCEPT !.shadow[a] = new]
        BY <1>9, <1>18
    <2>2. next = [shadow |-> [s EXCEPT ![a] = new], seq |-> q2, out |-> o2, asked |-> k]
        BY <1>8, <2>1
    <2>3. next \in Accs
        <3>1. [s EXCEPT ![a] = new] \in [Assets -> Books \cup {NoBook}]
            BY <1>13, <1>18
        <3> QED
            BY <1>6, <1>7, <2>2, <3>1 DEF Accs
    <2>4. Followed(acc, e, next)
        BY <1>2, <1>4, <1>10, <1>11, <1>18, <2>2 DEF Followed, o2
    <2> QED
        BY <1>1, <2>3, <2>4 DEF EntryOutcome, next
<1> QED
    BY <1>14, <1>15, <1>16, <1>17, <1>18

\* Entries are dispatched one by one.
DispatchedSteps(f, entries) ==
    /\ f \in [0 .. Len(entries) -> Accs]
    /\ f[0] = [shadow |-> shadow, seq |-> seq, out |-> << >>, asked |-> << >>]
    /\ \A i \in 1 .. Len(entries) : f[i] = DispatchEntry(f[i - 1], entries, i)
    /\ Dispatched(entries) = f[Len(entries)]

LEMMA DispatchedFacts ==
    ASSUME DispatcherTypeOK, NEW entries \in Seq(Entries)
    PROVE  \E f : DispatchedSteps(f, entries)
<1> DEFINE N == Len(entries)
           start == [shadow |-> shadow, seq |-> seq, out |-> << >>, asked |-> << >>]
           step == [i \in 1 .. N |-> [acc \in Accs |-> DispatchEntry(acc, entries, i)]]
           Body(h) == [i \in 0 .. N |-> IF i = 0 THEN start ELSE DispatchEntry(h[i - 1], entries, i)]
           upTo == CHOOSE h : h = Body(h)
<1>1. N \in Nat
    OBVIOUS
<1>2. Dispatched(entries) = upTo[N]
    BY DEF Dispatched
<1>3. start \in Accs
    BY DEF DispatcherTypeOK, Accs
<1>4. \A acc \in Accs, i \in 1 .. N : DispatchEntry(acc, entries, i) \in Accs
    BY EntryFacts
<1> HIDE DEF N, start
<1>5. step \in [1 .. N -> [Accs -> Accs]]
    BY <1>4
<1>6. PICK f : BuiltFrom(f, N, Accs, start, step)
    <2> HIDE DEF step
    <2> QED
        BY <1>1, <1>3, <1>5, Buildable
<1>7. f \in [0 .. N -> Accs] /\ f[0] = start /\ \A i \in 1 .. N : f[i] = step[i][f[i - 1]]
    BY <1>6 DEF BuiltFrom
<1>8. \A i \in 1 .. N : i - 1 \in 0 .. N /\ i \in 0 .. N /\ i # 0
    BY <1>1
<1>9. \A i \in 1 .. N : f[i] = DispatchEntry(f[i - 1], entries, i)
    BY <1>7, <1>8
<1>10. f = Body(f)
    <2>1. ASSUME NEW i \in 0 .. N PROVE f[i] = Body(f)[i]
        <3>1. CASE i = 0
            BY <1>7, <3>1
        <3>2. CASE i # 0
            BY <1>1, <1>9, <3>2
        <3> QED
            BY <3>1, <3>2
    <2> QED
        BY <1>7, <2>1
<1>11. upTo = Body(upTo)
    <2> HIDE DEF Body
    <2> QED
        BY <1>10, Zenon
<1> HIDE DEF upTo
<1>12. upTo[0] = f[0]
    BY <1>1, <1>7, <1>11
<1>13. \A i \in 1 .. N : upTo[i] = DispatchEntry(upTo[i - 1], entries, i)
    BY <1>8, <1>11
<1>14. \A i \in 1 .. N : upTo[i - 1] = f[i - 1] => upTo[i] = f[i]
    BY <1>9, <1>13
<1>15. \A i \in 0 .. N : upTo[i] = f[i]
    BY <1>1, <1>12, <1>14, BuiltAlike, ZenonT(30)
<1>16. Dispatched(entries) = f[N]
    BY <1>1, <1>2, <1>15
<1> QED
    BY <1>7, <1>9, <1>16 DEF DispatchedSteps, N, start

-----------------------------------------------------------------------------
(***************************************************************************)
(* The feed keeps its types.                                               *)
(***************************************************************************)
LEMMA FeedInitTyped == FeedInit => FeedTypeOK
BY ConstantFacts DEF FeedInit, FeedTypeOK, VenueTypeOK, DispatcherTypeOK, WorkerTypeOK

LEMMA EnqueueTyped ==
    ASSUME FeedTypeOK, NEW m \in Messages, Enqueue(m)
    PROVE  /\ raw' \in Seq(Messages) /\ venue' \in [Assets -> Reached]
           /\ requests' \in Seq(Assets) /\ DispatcherTypeOK'
BY DEF FeedTypeOK, VenueTypeOK, DispatcherTypeOK, WorkerTypeOK, Enqueue, trackers

LEMMA FaultyTyped ==
    ASSUME FeedTypeOK, NEW is, Faulty(is)
    PROVE  faults' \in Nat
BY DEF FeedTypeOK, VenueTypeOK, Faulty

LEMMA VenueStepsTyped ==
    ASSUME FeedTypeOK, (\E a \in Assets : VenueChanges(a)) \/ Connect \/ Disconnect \/ ReceiveTrade
    PROVE  FeedTypeOK'
<1>1. ASSUME NEW a \in Assets, VenueChanges(a) PROVE FeedTypeOK'
    <2>1. PICK v \in Reached : v = venue[a]
        BY DEF FeedTypeOK, VenueTypeOK
    <2>2. v < Len(Changes) /\ venue' = [venue EXCEPT ![a] = v + 1]
        BY <1>1, <2>1 DEF VenueChanges
    <2>3. v + 1 \in Reached
        BY <2>1, <2>2, ConstantFacts DEF Reached
    <2>4. venue' \in [Assets -> Reached]
        BY <2>2, <2>3 DEF FeedTypeOK, VenueTypeOK
    <2> QED
        BY <1>1, <2>4 DEF VenueChanges, FeedTypeOK, VenueTypeOK, DispatcherTypeOK, WorkerTypeOK, trackers, workerVars
<1>2. CASE Connect
    <2>1. LifecycleMsg("reconnect_success") \in Messages
        BY MessageTypes
    <2>2. /\ raw' \in Seq(Messages) /\ venue' \in [Assets -> Reached]
          /\ requests' \in Seq(Assets) /\ DispatcherTypeOK'
        BY <1>2, <2>1, EnqueueTyped DEF Connect
    <2>3. /\ conn' = "up" /\ at' = [a \in Assets |-> Unknown]
          /\ UNCHANGED << drops, faults, fetched, recent >>
        BY <1>2 DEF Connect, workerVars
    <2> QED
        BY <2>2, <2>3 DEF FeedTypeOK, VenueTypeOK, WorkerTypeOK
<1>3. CASE Disconnect
    <2>1. LifecycleMsg("reconnect_start") \in Messages
        BY MessageTypes
    <2>2. /\ raw' \in Seq(Messages) /\ venue' \in [Assets -> Reached]
          /\ requests' \in Seq(Assets) /\ DispatcherTypeOK'
        BY <1>3, <2>1, EnqueueTyped DEF Disconnect
    <2>3. /\ conn' = "down" /\ drops' = drops + 1
          /\ UNCHANGED << at, faults, fetched, recent >>
        BY <1>3 DEF Disconnect, workerVars
    <2> QED
        BY <2>2, <2>3 DEF FeedTypeOK, VenueTypeOK, WorkerTypeOK
<1>4. CASE ReceiveTrade
    <2>1. PICK fault \in {"none", "unparseable"} : Faulty(fault # "none") /\ Enqueue(TradeMsg(fault))
        BY <1>4 DEF ReceiveTrade
    <2>2. TradeMsg(fault) \in Messages
        BY MessageTypes
    <2>3. /\ raw' \in Seq(Messages) /\ venue' \in [Assets -> Reached]
          /\ requests' \in Seq(Assets) /\ DispatcherTypeOK'
        BY <2>1, <2>2, EnqueueTyped
    <2>4. faults' \in Nat
        BY <2>1, FaultyTyped
    <2>5. UNCHANGED << conn, at, drops, fetched, recent >>
        BY <1>4 DEF ReceiveTrade, workerVars
    <2> QED
        BY <2>3, <2>4, <2>5 DEF FeedTypeOK, VenueTypeOK, WorkerTypeOK
<1> QED
    BY <1>1, <1>2, <1>3, <1>4

LEMMA ReceiveBookTyped ==
    ASSUME FeedTypeOK, NEW a \in Assets, ReceiveBook(a)
    PROVE  FeedTypeOK'
<1>1. PICK v \in (IF at[a] = Unknown THEN {venue[a]} ELSE at[a] .. venue[a]), fault \in BookFaults :
          Faulty(fault # "none") /\ Enqueue(BookMsg(a, v, fault, FALSE)) /\ at' = [at EXCEPT ![a] = v]
    BY DEF ReceiveBook
<1>2. PICK w \in Reached : w = venue[a]
    BY DEF FeedTypeOK, VenueTypeOK
<1>3. PICK p \in {Unknown} \cup Reached : p = at[a]
    BY DEF FeedTypeOK, VenueTypeOK
<1>4. v \in Reached
    <2>1. v \in (IF p = Unknown THEN {w} ELSE p .. w)
        BY <1>1, <1>2, <1>3
    <2>2. CASE p = Unknown
        BY <2>1, <2>2
    <2>3. CASE p # Unknown
        <3>1. p \in Reached /\ v \in p .. w
            BY <2>1, <2>3
        <3> QED
            BY <3>1, ConstantFacts DEF Reached
    <2> QED
        BY <2>2, <2>3
<1>5. BookMsg(a, v, fault, FALSE) \in Messages
    BY <1>4, MessageTypes
<1>6. /\ raw' \in Seq(Messages) /\ venue' \in [Assets -> Reached]
      /\ requests' \in Seq(Assets) /\ DispatcherTypeOK'
    BY <1>1, <1>5, EnqueueTyped
<1>7. faults' \in Nat
    BY <1>1, FaultyTyped
<1>8. at' \in [Assets -> {Unknown} \cup Reached]
    BY <1>1, <1>4 DEF FeedTypeOK, VenueTypeOK
<1>9. UNCHANGED << conn, drops, fetched, recent >>
    BY DEF ReceiveBook, workerVars
<1> QED
    BY <1>6, <1>7, <1>8, <1>9 DEF FeedTypeOK, VenueTypeOK, WorkerTypeOK

\* A message of changes, with what it brings.
Changed(N, who, bad, fault) ==
    /\ N \in Nat \ {0} /\ who \in [1 .. N -> Assets] /\ bad \in Nat
    /\ \A i \in 1 .. N : at[who[i]] # Unknown /\ at[who[i]] + ChangesOf(who, N, who[i]) <= venue[who[i]]
    /\ fault \in {"none", "oversized"}
    /\ Faulty(bad # 0 \/ fault # "none")
    /\ Enqueue(ChangesMsg(EntriesOf(who, bad), fault))
    /\ at' = [a \in Assets |-> at[a] + ChangesOf(who, N, a)]

LEMMA ReceiveChangesFacts ==
    ASSUME FeedTypeOK, ReceiveChanges
    PROVE  \E N, who, bad, fault : Changed(N, who, bad, fault)
<1>1. PICK N \in 1 .. MaxEntries, fault \in {"none", "oversized"} :
      \E who \in [1 .. N -> Assets], bad \in 0 .. N :
          LET next == [a \in Assets |-> at[a] + ChangesOf(who, N, a)]
          IN  /\ \A i \in 1 .. N : at[who[i]] # Unknown /\ next[who[i]] <= venue[who[i]]
              /\ fault = "oversized" => bad = 0
              /\ Faulty(bad # 0 \/ fault # "none")
              /\ Enqueue(ChangesMsg(EntriesOf(who, bad), fault))
              /\ at' = next
    BY DEF ReceiveChanges
<1>2. PICK who \in [1 .. N -> Assets], bad \in 0 .. N :
          LET next == [a \in Assets |-> at[a] + ChangesOf(who, N, a)]
          IN  /\ \A i \in 1 .. N : at[who[i]] # Unknown /\ next[who[i]] <= venue[who[i]]
              /\ Faulty(bad # 0 \/ fault # "none")
              /\ Enqueue(ChangesMsg(EntriesOf(who, bad), fault))
              /\ at' = next
    BY <1>1
<1>3. \A i \in 1 .. N : at[who[i]] # Unknown /\ at[who[i]] + ChangesOf(who, N, who[i]) <= venue[who[i]]
    <2>1. ASSUME NEW i \in 1 .. N
          PROVE  at[who[i]] # Unknown /\ at[who[i]] + ChangesOf(who, N, who[i]) <= venue[who[i]]
        <3>1. who[i] \in Assets
            OBVIOUS
        <3> QED
            BY <1>2, <3>1
    <2> QED
        BY <2>1
<1>4. N \in Nat \ {0} /\ bad \in Nat
    BY FeedAssumption
<1>5. Changed(N, who, bad, fault)
    BY <1>2, <1>3, <1>4 DEF Changed
<1> QED
    BY <1>5

LEMMA ReceiveChangesTyped ==
    ASSUME FeedTypeOK, ReceiveChanges
    PROVE  FeedTypeOK'
<1>1. PICK N, who, bad, fault : Changed(N, who, bad, fault)
    BY ReceiveChangesFacts
<1>2. N \in Nat \ {0} /\ who \in [1 .. N -> Assets] /\ EntriesOf(who, bad) \in Seq(Entries)
    BY <1>1, EntriesTyped DEF Changed
<1>3. ChangesMsg(EntriesOf(who, bad), fault) \in Messages
    BY <1>1, <1>2, MessageTypes DEF Changed
<1>4. /\ raw' \in Seq(Messages) /\ venue' \in [Assets -> Reached]
      /\ requests' \in Seq(Assets) /\ DispatcherTypeOK'
    BY <1>1, <1>3, EnqueueTyped DEF Changed
<1>5. faults' \in Nat
    BY <1>1, FaultyTyped DEF Changed
<1>6. ASSUME NEW a \in Assets PROVE at[a] + ChangesOf(who, N, a) \in {Unknown} \cup Reached
    <2>1. PICK p \in {Unknown} \cup Reached : p = at[a]
        BY DEF FeedTypeOK, VenueTypeOK
    <2>2. PICK c \in Nat : c = ChangesOf(who, N, a)
        BY <1>2, ChangesOfFacts
    <2>3. CASE \E i \in 1 .. N : who[i] = a
        <3>1. PICK w \in Reached : w = venue[a]
            BY DEF FeedTypeOK, VenueTypeOK
        <3>2. p # Unknown /\ p + c <= w
            BY <1>1, <2>1, <2>2, <2>3, <3>1 DEF Changed
        <3>3. p + c \in Reached
            BY <3>1, <3>2, ConstantFacts DEF Reached
        <3> QED
            BY <2>1, <2>2, <3>3
    <2>4. CASE ~\E i \in 1 .. N : who[i] = a
        <3>1. ChangesOf(who, N, a) = 0
            <4>1. {j \in 1 .. N : who[j] = a} = {}
                BY <2>4
            <4> QED
                BY <4>1, FS_EmptySet DEF ChangesOf
        <3>2. p + 0 = p
            BY <2>1, ConstantFacts
        <3> QED
            BY <2>1, <3>1, <3>2
    <2> QED
        BY <2>3, <2>4
<1>7. at' \in [Assets -> {Unknown} \cup Reached]
    BY <1>1, <1>6 DEF Changed
<1>8. UNCHANGED << conn, drops, fetched, recent >>
    BY DEF ReceiveChanges, workerVars
<1> QED
    BY <1>4, <1>5, <1>7, <1>8 DEF FeedTypeOK, VenueTypeOK, WorkerTypeOK

LEMMA TakeTyped ==
    ASSUME FeedTypeOK, NEW type, Take(type)
    PROVE  /\ Head(raw) \in Messages /\ Head(raw).type = type
           /\ VenueTypeOK' /\ outbox = << >>
           /\ fetched' \in [asset : Assets, version : Reached] \cup {NoFetch} /\ recent' \subseteq Assets
<1>1. raw \in Seq(Messages) /\ raw # << >> /\ raw' = Tail(raw) /\ Head(raw).type = type /\ outbox = << >>
    BY DEF FeedTypeOK, VenueTypeOK, Take
<1>2. Head(raw) \in Messages /\ Tail(raw) \in Seq(Messages)
    BY <1>1
<1>3. UNCHANGED << venue, conn, at, drops, faults, fetched, recent >>
    BY DEF Take, venueVars, workerVars
<1> QED
    BY <1>1, <1>2, <1>3 DEF FeedTypeOK, VenueTypeOK, WorkerTypeOK

\* What is taken over is in order and fits.
LEMMA VerdictFacts ==
    ASSUME NEW m
    PROVE  /\ Verdict(m) \in {"accepted", "duplicate", "overflow", "source_reset", "stale_snapshot_skip"}
           /\ Verdict(m) = "accepted" => /\ Snapshot(RowsOf(VenueAt[m.version])).ok
                                         /\ ~Stale(m) /\ ~Duplicate(m)
                                         /\ m.fault \notin {"oversized", "unparseable"}
           /\ Verdict(m) = "stale_snapshot_skip" => Stale(m)
           /\ Verdict(m) = "duplicate" => Duplicate(m)
           /\ Verdict(m) = "source_reset" => m.fault \in {"oversized", "unparseable"}
BY DEF Verdict

\* A book that is taken over, and what comes of it.
TakenOver(m, b, rows) ==
    /\ m \in BookMessages /\ m = Head(raw)
    /\ b \in Books /\ b = VenueAt[m.version]
    /\ rows \in Seq(Rows) /\ rows = RowsOf(b) /\ Snapshot(rows).ok
    /\ Snapshot(rows).book \in Books /\ Snapshot(rows).book.size = b.size
    /\ ~Stale(m) /\ ~Duplicate(m)
    /\ shadow' = [shadow EXCEPT ![m.asset] = Snapshot(rows).book]
    /\ lastTs' = IF Stamped(m) THEN [lastTs EXCEPT ![m.asset] = Ts(m.version)] ELSE lastTs
    /\ lastHash' = IF Hashed(m) THEN [lastHash EXCEPT ![m.asset] = m.version] ELSE lastHash
    /\ turn' = [turn EXCEPT ![m.asset] = 1 - @]
    /\ outbox' = [i \in DOMAIN rows |-> SnapshotRecord(m.asset, Key(m), rows[i], i - 1)]
    /\ outbox' \in Seq(FeedRecords)

LEMMA AcceptBookFacts ==
    ASSUME FeedTypeOK, AcceptBook
    PROVE  \E m, b, rows : TakenOver(m, b, rows)
<1>1. PICK m : m = Head(raw)
    OBVIOUS
<1>2. m \in BookMessages
    BY <1>1, TakeTyped, MessageKinds DEF AcceptBook
<1>3. m.asset \in Assets /\ m.version \in Reached
    BY <1>2 DEF BookMessages
<1>4. PICK b \in Books : b = VenueAt[m.version]
    BY <1>3, ConstantFacts, VenueFacts
<1>5. PICK rows \in Seq(Rows) : rows = RowsOf(b)
    BY RowsFacts
<1>6. Verdict(m) = "accepted"
    BY <1>1 DEF AcceptBook
<1>7. Snapshot(rows).ok /\ ~Stale(m) /\ ~Duplicate(m)
    BY <1>4, <1>5, <1>6, VerdictFacts
<1>8. Snapshot(rows).book \in Books /\ Snapshot(rows).book.size = b.size
    BY <1>5, <1>7, SnapshotIsBook
<1>9. /\ shadow' = [shadow EXCEPT ![m.asset] = Snapshot(rows).book]
      /\ lastTs' = IF Stamped(m) THEN [lastTs EXCEPT ![m.asset] = Ts(m.version)] ELSE lastTs
      /\ lastHash' = IF Hashed(m) THEN [lastHash EXCEPT ![m.asset] = m.version] ELSE lastHash
      /\ turn' = [turn EXCEPT ![m.asset] = 1 - @]
      /\ outbox' = [i \in DOMAIN rows |-> SnapshotRecord(m.asset, Key(m), rows[i], i - 1)]
    BY <1>1, <1>4, <1>5 DEF AcceptBook, Reseeded
<1>10. Key(m) \in Keys
    <2>1. turn[m.asset] \in {0, 1}
        BY <1>3 DEF FeedTypeOK, DispatcherTypeOK
    <2> QED
        BY <1>3, <2>1, ConstantFacts DEF Key, Keys
<1>11. outbox' \in Seq(FeedRecords)
    BY <1>3, <1>5, <1>7, <1>9, <1>10, RowsFacts, SnapshotRecordsTyped
<1>12. TakenOver(m, b, rows)
    BY <1>1, <1>2, <1>4, <1>5, <1>7, <1>8, <1>9, <1>11 DEF TakenOver
<1> QED
    BY <1>12

LEMMA AcceptBookTyped ==
    ASSUME FeedTypeOK, AcceptBook
    PROVE  FeedTypeOK'
<1>1. PICK m, b, rows : TakenOver(m, b, rows)
    BY AcceptBookFacts
<1>2. m.asset \in Assets /\ m.version \in Reached
    BY <1>1 DEF TakenOver, BookMessages
<1>3. /\ VenueTypeOK' /\ fetched' \in [asset : Assets, version : Reached] \cup {NoFetch} /\ recent' \subseteq Assets
    BY TakeTyped DEF AcceptBook
<1>4. requests' \in Seq(Assets)
    BY DEF AcceptBook, FeedTypeOK, WorkerTypeOK
<1>5. shadow' \in [Assets -> Books \cup {NoBook}]
    <2>1. PICK c \in Books : c = Snapshot(rows).book
        BY <1>1 DEF TakenOver
    <2>2. shadow' = [shadow EXCEPT ![m.asset] = c]
        BY <1>1, <2>1 DEF TakenOver
    <2> QED
        BY <2>2 DEF FeedTypeOK, DispatcherTypeOK
<1>6. lastTs' \in [Assets -> Nat] /\ lastHash' \in [Assets -> {Unknown} \cup Reached]
    <2>1. PICK t \in Nat : t = Ts(m.version)
        BY <1>2, ConstantFacts
    <2>2. lastTs' = [lastTs EXCEPT ![m.asset] = t] \/ lastTs' = lastTs
        BY <1>1, <2>1 DEF TakenOver
    <2>3. lastHash' = [lastHash EXCEPT ![m.asset] = m.version] \/ lastHash' = lastHash
        BY <1>1 DEF TakenOver
    <2> QED
        BY <1>2, <2>2, <2>3 DEF FeedTypeOK, DispatcherTypeOK
<1>7. seq' \in [Assets -> Nat]
    <2>1. Head(raw) = m /\ VenueAt[m.version] = b /\ RowsOf(b) = rows /\ rows \in Seq(Rows)
        BY <1>1 DEF TakenOver
    <2>2. seq' = [seq EXCEPT ![m.asset] = Len(rows)]
        BY <2>1 DEF AcceptBook, Restarted
    <2>3. Len(rows) \in Nat
        BY <2>1
    <2> QED
        BY <2>2, <2>3 DEF FeedTypeOK, DispatcherTypeOK
<1>8. turn' \in [Assets -> {0, 1}]
    <2>1. turn \in [Assets -> {0, 1}] /\ turn' = [turn EXCEPT ![m.asset] = 1 - @]
        BY <1>1 DEF FeedTypeOK, DispatcherTypeOK, TakenOver
    <2>2. turn[m.asset] \in {0, 1} /\ 1 - turn[m.asset] \in {0, 1}
        BY <1>2, <2>1
    <2> QED
        BY <2>1, <2>2
<1>9. outbox' \in Seq(FeedRecords)
    BY <1>1 DEF TakenOver
<1> QED
    BY <1>3, <1>4, <1>5, <1>6, <1>7, <1>8, <1>9 DEF FeedTypeOK, DispatcherTypeOK, WorkerTypeOK

LEMMA OneRecord ==
    ASSUME NEW r \in FeedRecords
    PROVE  << r >> \in Seq(FeedRecords) /\ Len(<< r >>) = 1 /\ << r >>[1] = r
OBVIOUS

\* What a book message that is not taken over leads to.
Dropped(m, why) ==
    /\ m \in BookMessages /\ m = Head(raw) /\ why = Verdict(m) /\ why # "accepted"
    /\ \/ why = "duplicate" /\ outbox' = << >>
       \/ why # "duplicate" /\ \E event \in Alarms \ {"book_mismatch"} : outbox' = << IngestRecord(event, m.asset) >>
    /\ shadow' = IF why = "overflow" THEN [shadow EXCEPT ![m.asset] = NoBook] ELSE shadow

LEMMA DropBookFacts ==
    ASSUME FeedTypeOK, DropBook
    PROVE  \E m, why : Dropped(m, why)
<1>1. PICK m, why : m = Head(raw) /\ why = Verdict(m)
    OBVIOUS
<1>2. m \in BookMessages
    BY <1>1, TakeTyped, MessageKinds DEF DropBook
<1>3. why \in {"accepted", "duplicate", "overflow", "source_reset", "stale_snapshot_skip"}
    BY <1>1, VerdictFacts
<1>4. /\ why # "accepted"
      /\ outbox' = CASE why = "duplicate" -> << >>
                     [] why = "overflow"  -> << IngestRecord("source_reset", m.asset) >>
                     [] OTHER             -> << IngestRecord(why, m.asset) >>
      /\ shadow' = IF why = "overflow" THEN [shadow EXCEPT ![m.asset] = NoBook] ELSE shadow
    BY <1>1 DEF DropBook
<1>5. Alarms \ {"book_mismatch"} = {"source_reset", "stale_snapshot_skip", "reconnect_start", "reconnect_success"}
    BY DEF Alarms
<1>6. \/ why = "duplicate" /\ outbox' = << >>
      \/ why # "duplicate" /\ \E event \in Alarms \ {"book_mismatch"} : outbox' = << IngestRecord(event, m.asset) >>
    <2>1. CASE why = "duplicate"
        BY <1>4, <2>1
    <2>2. CASE why = "overflow"
        BY <1>4, <1>5, <2>2
    <2>3. CASE why = "source_reset" \/ why = "stale_snapshot_skip"
        <3>1. outbox' = << IngestRecord(why, m.asset) >>
            BY <1>4, <2>3
        <3> QED
            BY <1>5, <2>3, <3>1
    <2> QED
        BY <1>3, <1>4, <2>1, <2>2, <2>3
<1> QED
    BY <1>1, <1>2, <1>4, <1>6 DEF Dropped

LEMMA DropBookTyped ==
    ASSUME FeedTypeOK, DropBook
    PROVE  FeedTypeOK'
<1>1. PICK m, why : Dropped(m, why)
    BY DropBookFacts
<1>2. m.asset \in Assets
    BY <1>1 DEF Dropped, BookMessages
<1>3. /\ VenueTypeOK' /\ fetched' \in [asset : Assets, version : Reached] \cup {NoFetch} /\ recent' \subseteq Assets
    BY TakeTyped DEF DropBook
<1>4. UNCHANGED << lastTs, lastHash, seq, turn, requests >>
    BY DEF DropBook
<1>5. shadow' \in [Assets -> Books \cup {NoBook}]
    <2>1. shadow' = shadow \/ shadow' = [shadow EXCEPT ![m.asset] = NoBook]
        BY <1>1 DEF Dropped
    <2> QED
        BY <2>1 DEF FeedTypeOK, DispatcherTypeOK
<1>6. outbox' \in Seq(FeedRecords)
    <2>1. \A event \in Alarms : << IngestRecord(event, m.asset) >> \in Seq(FeedRecords)
        BY <1>2, RecordTypes, OneRecord
    <2>2. << >> \in Seq(FeedRecords)
        OBVIOUS
    <2> QED
        BY <1>1, <2>1, <2>2 DEF Dropped
<1> QED
    BY <1>3, <1>4, <1>5, <1>6 DEF FeedTypeOK, DispatcherTypeOK, WorkerTypeOK

LEMMA MinMaxOfTwo ==
    ASSUME NEW x \in Int, NEW y \in Int
    PROVE  Min({x, y}) = (IF x <= y THEN x ELSE y) /\ Max({x, y}) = (IF x <= y THEN y ELSE x)
BY DEF Min, Max

LEMMA TrySendFacts ==
    ASSUME NEW queue \in Seq(Assets), NEW items \in Seq(Assets)
    PROVE  /\ TrySend(queue, items) \in Seq(Assets)
           /\ queue = << >> /\ items = << >> => TrySend(queue, items) = << >>
<1>1. PICK all \in Seq(Assets) : all = queue \o items /\ Len(all) = Len(queue) + Len(items)
    <2>1. queue \o items \in Seq(Assets) /\ Len(queue \o items) = Len(queue) + Len(items)
        OBVIOUS
    <2> QED
        BY <2>1
<1>2. PICK l \in Nat, k \in Nat, c \in Nat : l = Len(all) /\ k = Len(queue) /\ c = RequestCap
    <2>1. RequestCap \in Nat
        BY FeedAssumption
    <2>2. Len(all) \in Nat /\ Len(queue) \in Nat
        OBVIOUS
    <2> QED
        BY ONLY <2>1, <2>2
<1>3. k <= l
    BY <1>1, <1>2
<1>4. PICK p \in Nat : p = Min({l, c}) /\ p <= l
    <2>1. PICK p : p = Min({l, c})
        OBVIOUS
    <2>2. p = IF l <= c THEN l ELSE c
        BY <2>1, MinMaxOfTwo
    <2>3. p \in Nat /\ p <= l
        BY ONLY <2>2, l \in Nat, c \in Nat
    <2> QED
        BY <2>1, <2>3
<1>5. PICK n \in Nat : n = Max({k, p}) /\ n <= l
    <2>1. PICK n : n = Max({k, p})
        OBVIOUS
    <2>2. \A x, y \in Int : Max({x, y}) = (IF x <= y THEN y ELSE x)
        BY MinMaxOfTwo
    <2>3. k \in Int /\ p \in Int
        OBVIOUS
    <2>4. n = IF k <= p THEN p ELSE k
        BY ONLY <2>1, <2>2, <2>3
    <2>5. n \in Nat /\ n <= l
        BY <1>3, <1>4, <2>4
    <2> QED
        BY <2>1, <2>5
<1>6. TrySend(queue, items) = SubSeq(all, 1, n)
    BY <1>1, <1>2, <1>4, <1>5 DEF TrySend
<1>7. SubSeq(all, 1, n) \in Seq(Assets) /\ Len(SubSeq(all, 1, n)) = n
    <2>1. Len(all) \in Nat /\ n <= Len(all)
        BY <1>2, <1>5
    <2>2. 1 \in 1 .. Len(all) + 1 /\ n \in 1 - 1 .. Len(all)
        BY <2>1
    <2>3. \A i \in 1 .. n : all[i] \in Assets
        BY <2>1
    <2> QED
        BY <2>1, <2>2, <2>3, SubSeqProperties
<1>8. ASSUME queue = << >>, items = << >> PROVE TrySend(queue, items) = << >>
    <2>1. l = 0
        BY <1>1, <1>2, <1>8
    <2>2. n = 0
        BY <1>5, <2>1
    <2> QED
        BY <1>6, <1>7, <2>2
<1> QED
    BY <1>6, <1>7, <1>8

\* A price_change that is dispatched, with its entries.
Handled(m, entries) ==
    /\ m \in ChangeMessages /\ m = Head(raw)
    /\ entries \in Seq(Entries) /\ entries = (IF m.fault = "oversized" THEN << >> ELSE m.entries)
    /\ Dispatched(entries) \in Accs
    /\ shadow' = Dispatched(entries).shadow
    /\ seq' = Dispatched(entries).seq
    /\ outbox' = Dispatched(entries).out
    /\ requests' = TrySend(requests, Dispatched(entries).asked)

LEMMA DispatchChangesFacts ==
    ASSUME FeedTypeOK, DispatchChanges
    PROVE  \E m, entries : Handled(m, entries)
<1>1. PICK m : m = Head(raw)
    OBVIOUS
<1>2. m \in ChangeMessages
    BY <1>1, TakeTyped, MessageKinds DEF DispatchChanges
<1>3. PICK entries : entries = (IF m.fault = "oversized" THEN << >> ELSE m.entries)
    OBVIOUS
<1>4. entries \in Seq(Entries)
    <2>1. m.entries \in Seq(Entries) /\ << >> \in Seq(Entries)
        BY <1>2 DEF ChangeMessages
    <2> QED
        BY <1>3, <2>1
<1>5. Dispatched(entries) \in Accs
    <2>1. PICK f : DispatchedSteps(f, entries)
        BY <1>4, DispatchedFacts DEF FeedTypeOK
    <2>2. Len(entries) \in 0 .. Len(entries)
        BY <1>4
    <2> QED
        BY <2>1, <2>2 DEF DispatchedSteps
<1>6. /\ shadow' = Dispatched(entries).shadow
      /\ seq' = Dispatched(entries).seq
      /\ outbox' = Dispatched(entries).out
      /\ requests' = TrySend(requests, Dispatched(entries).asked)
    BY <1>1, <1>3 DEF DispatchChanges
<1> QED
    BY <1>1, <1>2, <1>3, <1>4, <1>5, <1>6 DEF Handled

LEMMA DispatchChangesTyped ==
    ASSUME FeedTypeOK, DispatchChanges
    PROVE  FeedTypeOK'
<1>1. PICK m, entries : Handled(m, entries)
    BY DispatchChangesFacts
<1>2. PICK done \in Accs : done = Dispatched(entries)
    BY <1>1 DEF Handled
<1>3. /\ shadow' = done.shadow /\ seq' = done.seq /\ outbox' = done.out
      /\ requests' = TrySend(requests, done.asked)
    BY <1>1, <1>2 DEF Handled
<1>4. /\ done.shadow \in [Assets -> Books \cup {NoBook}] /\ done.seq \in [Assets -> Nat]
      /\ done.out \in Seq(FeedRecords) /\ done.asked \in Seq(Assets)
    BY DEF Accs
<1>5. /\ VenueTypeOK' /\ fetched' \in [asset : Assets, version : Reached] \cup {NoFetch} /\ recent' \subseteq Assets
    BY TakeTyped DEF DispatchChanges
<1>6. UNCHANGED << lastTs, lastHash, turn >>
    BY DEF DispatchChanges
<1>7. requests' \in Seq(Assets)
    <2>1. requests \in Seq(Assets)
        BY DEF FeedTypeOK, WorkerTypeOK
    <2> QED
        BY <1>3, <1>4, <2>1, TrySendFacts
<1> QED
    BY <1>3, <1>4, <1>5, <1>6, <1>7 DEF FeedTypeOK, DispatcherTypeOK, WorkerTypeOK

\* What a trade and a lifecycle message put out is about no book, and no alarm.
Silent(records) ==
    /\ records \in Seq(FeedRecords)
    /\ \A i \in 1 .. Len(records) : records[i].kind \in {"trade", "ingest"} /\ records[i].asset = NoAsset
                                    /\ records[i] # IngestRecord("book_mismatch", records[i].asset)

LEMMA SilentFacts ==
    /\ Silent(<< >>) /\ Silent(<< TradeRecord >>)
    /\ \A event \in {"reconnect_start", "reconnect_success"} : Silent(<< IngestRecord(event, NoAsset) >>)
    /\ Silent(<< IngestRecord("reconnect_success", NoAsset), IngestRecord("source_reset", NoAsset) >>)
<1>1. TradeRecord \in FeedRecords /\ \A event \in Alarms : IngestRecord(event, NoAsset) \in FeedRecords
    BY RecordTypes
<1>2. TradeRecord.kind = "trade" /\ TradeRecord.asset = NoAsset
    BY DEF TradeRecord
<1>3. \A event : IngestRecord(event, NoAsset).kind = "ingest" /\ IngestRecord(event, NoAsset).asset = NoAsset
                 /\ IngestRecord(event, NoAsset).event = event
    BY DEF IngestRecord
<1>4. \A a : IngestRecord("book_mismatch", a).kind = "ingest" /\ IngestRecord("book_mismatch", a).event = "book_mismatch"
    BY DEF IngestRecord
<1>5. Silent(<< >>)
    BY DEF Silent
<1>6. ASSUME NEW r \in FeedRecords, r.kind \in {"trade", "ingest"}, r.asset = NoAsset,
             r # IngestRecord("book_mismatch", r.asset)
      PROVE  Silent(<< r >>)
    <2>1. << r >> \in Seq(FeedRecords) /\ Len(<< r >>) = 1 /\ << r >>[1] = r
        BY OneRecord
    <2>2. \A i \in 1 .. 1 : i = 1
        OBVIOUS
    <2> QED
        BY <1>6, <2>1, <2>2 DEF Silent
<1>7. \A event \in Alarms \ {"book_mismatch"} : IngestRecord(event, NoAsset) # IngestRecord("book_mismatch", NoAsset)
    BY <1>3
<1>8. TradeRecord # IngestRecord("book_mismatch", NoAsset)
    BY <1>2, <1>3
<1>9. Silent(<< TradeRecord >>)
    BY <1>1, <1>2, <1>6, <1>8
<1>10. {"reconnect_start", "reconnect_success", "source_reset"} \subseteq Alarms \ {"book_mismatch"}
    BY DEF Alarms
<1>11. \A event \in {"reconnect_start", "reconnect_success"} : Silent(<< IngestRecord(event, NoAsset) >>)
    BY <1>1, <1>3, <1>6, <1>7, <1>10
<1>12. Silent(<< IngestRecord("reconnect_success", NoAsset), IngestRecord("source_reset", NoAsset) >>)
    <2>1. PICK x \in FeedRecords, y \in FeedRecords :
              x = IngestRecord("reconnect_success", NoAsset) /\ y = IngestRecord("source_reset", NoAsset)
        BY <1>1, <1>10
    <2>2. /\ x.kind = "ingest" /\ y.kind = "ingest" /\ x.asset = NoAsset /\ y.asset = NoAsset
          /\ x # IngestRecord("book_mismatch", NoAsset) /\ y # IngestRecord("book_mismatch", NoAsset)
        BY <1>3, <1>7, <1>10, <2>1
    <2>3. << x, y >> \in Seq(FeedRecords) /\ Len(<< x, y >>) = 2 /\ << x, y >>[1] = x /\ << x, y >>[2] = y
        OBVIOUS
    <2>4. \A i \in 1 .. 2 : i = 1 \/ i = 2
        OBVIOUS
    <2> QED
        BY <2>1, <2>2, <2>3, <2>4 DEF Silent
<1> QED
    BY <1>5, <1>9, <1>11, <1>12

LEMMA DispatchTradeFacts ==
    ASSUME FeedTypeOK, DispatchTrade
    PROVE  Silent(outbox') /\ FeedTypeOK'
<1>1. outbox' = << >> \/ outbox' = << TradeRecord >>
    BY DEF DispatchTrade
<1>2. Silent(outbox')
    BY <1>1, SilentFacts
<1>3. /\ VenueTypeOK' /\ fetched' \in [asset : Assets, version : Reached] \cup {NoFetch} /\ recent' \subseteq Assets
    BY TakeTyped DEF DispatchTrade
<1>4. UNCHANGED << shadow, lastTs, lastHash, seq, turn, requests >>
    BY DEF DispatchTrade, trackers
<1>5. outbox' \in Seq(FeedRecords)
    BY <1>2 DEF Silent
<1> QED
    BY <1>2, <1>3, <1>4, <1>5 DEF FeedTypeOK, DispatcherTypeOK, WorkerTypeOK

\* A lifecycle message either clears everything the dispatcher tracks or nothing.
Cleared ==
    /\ shadow' = [a \in Assets |-> NoBook]
    /\ lastTs' = [a \in Assets |-> 0]
    /\ lastHash' = [a \in Assets |-> Unknown]
    /\ seq' = [a \in Assets |-> 0]
    /\ turn' = turn

LEMMA DispatchLifecycleFacts ==
    ASSUME FeedTypeOK, DispatchLifecycle
    PROVE  /\ Silent(outbox') /\ FeedTypeOK'
           /\ \/ Head(raw).event = "reconnect_success" /\ Cleared
              \/ Head(raw).event = "reconnect_start" /\ UNCHANGED trackers
<1>1. PICK m : m = Head(raw)
    OBVIOUS
<1>2. m \in LifecycleMessages
    BY <1>1, TakeTyped, MessageKinds DEF DispatchLifecycle
<1>3. m.event \in {"reconnect_start", "reconnect_success"}
    BY <1>2 DEF LifecycleMessages
<1>4. /\ VenueTypeOK' /\ fetched' \in [asset : Assets, version : Reached] \cup {NoFetch} /\ recent' \subseteq Assets
    BY TakeTyped DEF DispatchLifecycle
<1>5. requests' = requests
    BY DEF DispatchLifecycle
<1>6. CASE m.event = "reconnect_success"
    <2>1. /\ Cleared
          /\ outbox' = << IngestRecord(m.event, NoAsset), IngestRecord("source_reset", NoAsset) >>
        BY <1>1, <1>6 DEF DispatchLifecycle, ResetContinuity, Cleared
    <2>2. Silent(outbox')
        BY <1>6, <2>1, SilentFacts
    <2>3. outbox' \in Seq(FeedRecords)
        BY <2>2 DEF Silent
    <2>4. DispatcherTypeOK'
        BY <2>1, <2>3 DEF FeedTypeOK, DispatcherTypeOK, Cleared
    <2>5. WorkerTypeOK'
        BY <1>4, <1>5 DEF FeedTypeOK, WorkerTypeOK
    <2> QED
        BY <1>1, <1>4, <1>6, <2>1, <2>2, <2>4, <2>5 DEF FeedTypeOK
<1>7. CASE m.event = "reconnect_start"
    <2>1. UNCHANGED trackers /\ outbox' = << IngestRecord(m.event, NoAsset) >>
        BY <1>1, <1>7 DEF DispatchLifecycle
    <2>2. Silent(outbox')
        BY <1>3, <2>1, SilentFacts
    <2>3. outbox' \in Seq(FeedRecords)
        BY <2>2 DEF Silent
    <2>4. DispatcherTypeOK'
        BY <2>1, <2>3 DEF FeedTypeOK, DispatcherTypeOK, trackers
    <2>5. WorkerTypeOK'
        BY <1>4, <1>5 DEF FeedTypeOK, WorkerTypeOK
    <2> QED
        BY <1>1, <1>4, <1>7, <2>1, <2>2, <2>4, <2>5 DEF FeedTypeOK
<1> QED
    BY <1>3, <1>6, <1>7

LEMMA SendTyped ==
    ASSUME FeedTypeOK, Send
    PROVE  FeedTypeOK' /\ Head(outbox) \in FeedRecords /\ events' = Append(events, Head(outbox))
<1>1. outbox \in Seq(FeedRecords) /\ outbox # << >> /\ outbox' = Tail(outbox)
    BY DEF FeedTypeOK, DispatcherTypeOK, Send
<1>2. Head(outbox) \in FeedRecords /\ Tail(outbox) \in Seq(FeedRecords)
    BY <1>1
<1>3. /\ UNCHANGED << venue, conn, at, drops, faults, raw, shadow, lastTs, lastHash, seq, turn >>
      /\ UNCHANGED << requests, fetched, recent >> /\ events' = Append(events, Head(outbox))
    BY DEF Send, venueVars, trackers, workerVars
<1> QED
    BY <1>1, <1>2, <1>3 DEF FeedTypeOK, VenueTypeOK, DispatcherTypeOK, WorkerTypeOK

LEMMA FetchTyped ==
    ASSUME FeedTypeOK, Fetch
    PROVE  FeedTypeOK'
<1>1. requests \in Seq(Assets) /\ requests # << >> /\ requests' = Tail(requests)
    BY DEF FeedTypeOK, WorkerTypeOK, Fetch
<1>2. PICK a \in Assets : a = Head(requests)
    BY <1>1
<1>3. requests' \in Seq(Assets)
    BY <1>1
<1>4. fetched' \in [asset : Assets, version : Reached] \cup {NoFetch} /\ recent' \subseteq Assets
    <2>1. PICK v \in Reached : v = venue[a]
        BY DEF FeedTypeOK, VenueTypeOK
    <2>2. \/ fetched' = fetched /\ recent' = recent
          \/ recent' = recent \cup {a} /\ fetched' \in {[asset |-> a, version |-> v], NoFetch}
        BY <1>2, <2>1 DEF Fetch, workerVars
    <2> QED
        BY <2>2 DEF FeedTypeOK, WorkerTypeOK
<1>5. UNCHANGED << venue, conn, at, drops, faults, raw, shadow, lastTs, lastHash, seq, turn, outbox >>
    BY DEF Fetch, venueVars, trackers
<1> QED
    BY <1>3, <1>4, <1>5 DEF FeedTypeOK, VenueTypeOK, DispatcherTypeOK, WorkerTypeOK

LEMMA InjectTyped ==
    ASSUME FeedTypeOK, Inject
    PROVE  FeedTypeOK'
<1>1. fetched \in [asset : Assets, version : Reached]
    BY DEF FeedTypeOK, WorkerTypeOK, Inject
<1>2. PICK m : m = BookMsg(fetched.asset, fetched.version, "none", TRUE)
    OBVIOUS
<1>3. m \in Messages
    <2>1. fetched.asset \in Assets /\ fetched.version \in Reached /\ "none" \in BookFaults
        BY <1>1 DEF BookFaults
    <2> QED
        BY <1>2, <2>1, MessageTypes
<1>4. Enqueue(m)
    BY <1>2 DEF Inject
<1>5. /\ raw' \in Seq(Messages) /\ venue' \in [Assets -> Reached]
      /\ requests' \in Seq(Assets) /\ DispatcherTypeOK'
    BY <1>3, <1>4, EnqueueTyped
<1>6. fetched' = NoFetch /\ UNCHANGED << conn, at, drops, faults, recent >>
    BY DEF Inject
<1> QED
    BY <1>5, <1>6 DEF FeedTypeOK, VenueTypeOK, WorkerTypeOK

LEMMA DebounceEndsTyped ==
    ASSUME FeedTypeOK, NEW a \in Assets, DebounceEnds(a)
    PROVE  FeedTypeOK'
<1>1. /\ recent' \subseteq recent
      /\ UNCHANGED << venue, conn, at, drops, faults, raw, shadow, lastTs, lastHash, seq, turn >>
      /\ UNCHANGED << outbox, requests, fetched >>
    BY DEF DebounceEnds, venueVars, trackers
<1> QED
    BY <1>1 DEF FeedTypeOK, VenueTypeOK, DispatcherTypeOK, WorkerTypeOK

\* The steps the dispatcher has no part in.
QuietFeed ==
    \/ \E a \in Assets : VenueChanges(a) \/ ReceiveBook(a) \/ DebounceEnds(a)
    \/ Connect \/ Disconnect \/ ReceiveChanges \/ ReceiveTrade
    \/ Send \/ Fetch \/ Inject

LEMMA QuietTyped ==
    ASSUME FeedTypeOK, QuietFeed
    PROVE  FeedTypeOK' /\ UNCHANGED trackers
<1>1. FeedTypeOK'
    <2>1. CASE (\E a \in Assets : VenueChanges(a)) \/ Connect \/ Disconnect \/ ReceiveTrade
        BY <2>1, VenueStepsTyped
    <2>2. CASE (\E a \in Assets : ReceiveBook(a)) \/ ReceiveChanges
        BY <2>2, ReceiveBookTyped, ReceiveChangesTyped
    <2>3. CASE (\E a \in Assets : DebounceEnds(a)) \/ Send \/ Fetch \/ Inject
        BY <2>3, DebounceEndsTyped, SendTyped, FetchTyped, InjectTyped
    <2> QED
        BY <2>1, <2>2, <2>3 DEF QuietFeed
<1>2. UNCHANGED trackers
    <2>1. \A m : Enqueue(m) => UNCHANGED trackers
        BY DEF Enqueue
    <2>2. CASE \E a \in Assets : VenueChanges(a) \/ DebounceEnds(a)
        BY <2>2 DEF VenueChanges, DebounceEnds
    <2>3. CASE Connect \/ Disconnect \/ Inject
        BY <2>1, <2>3 DEF Connect, Disconnect, Inject
    <2>4. CASE (\E a \in Assets : ReceiveBook(a)) \/ ReceiveTrade
        BY <2>1, <2>4 DEF ReceiveBook, ReceiveTrade
    <2>5. CASE ReceiveChanges
        <3>1. PICK N, who, bad, fault : Changed(N, who, bad, fault)
            BY <2>5, ReceiveChangesFacts
        <3> QED
            BY <2>1, <3>1 DEF Changed
    <2>6. CASE Send \/ Fetch
        BY <2>6 DEF Send, Fetch
    <2> QED
        BY <2>2, <2>3, <2>4, <2>5, <2>6 DEF QuietFeed
<1> QED
    BY <1>1, <1>2

LEMMA DispatchTyped ==
    ASSUME FeedTypeOK, Dispatch
    PROVE  FeedTypeOK'
BY DropBookTyped, AcceptBookTyped, DispatchChangesTyped, DispatchTradeFacts, DispatchLifecycleFacts DEF Dispatch

-----------------------------------------------------------------------------
(***************************************************************************)
(* No alarm without a fault.  A mark says up to which version an asset has *)
(* been brought.  The messages in the raw channel lead, one by one, from   *)
(* the marks the dispatcher has reached to those of the connection.        *)
(***************************************************************************)
Marks == [Assets -> {Unknown} \cup Reached]

\* The entries are the next changes after the marks p, in order.
Follows(entries, p, N, who) ==
    /\ N \in Nat /\ who \in [1 .. N -> Assets]
    /\ entries \in Seq(Entries) /\ Len(entries) = N
    /\ \A i \in 1 .. N :
          /\ p[who[i]] # Unknown /\ entries[i].asset = who[i]
          /\ entries[i].version = p[who[i]] + ChangesOf(who, i, who[i])
          /\ entries[i].stated = p[who[i]] + ChangesOf(who, N, who[i])
    /\ \A i \in 1 .. N : ~entries[i].bad

BringsBook(m, p, q) ==
    /\ m \in BookMessages /\ m.fault = "none"
    /\ p[m.asset] # Unknown => p[m.asset] <= m.version
    /\ q = [p EXCEPT ![m.asset] = m.version]

BringsChanges(m, p, q) ==
    /\ m \in ChangeMessages /\ m.fault = "none"
    /\ \E N, who : Follows(m.entries, p, N, who) /\ q = [a \in Assets |-> p[a] + ChangesOf(who, N, a)]

BringsNothing(m, p, q) ==
    /\ \/ m \in TradeMessages
       \/ m \in LifecycleMessages /\ m.event = "reconnect_start"
    /\ q = p

Forgets(m, q) ==
    /\ m \in LifecycleMessages /\ m.event = "reconnect_success"
    /\ q = [a \in Assets |-> Unknown]

Brings(m, p, q) == BringsBook(m, p, q) \/ BringsChanges(m, p, q) \/ BringsNothing(m, p, q) \/ Forgets(m, q)

\* The messages of a channel lead along the line c to the marks `front`.
Line(c, queue, front) ==
    /\ c \in [0 .. Len(queue) -> Marks]
    /\ c[Len(queue)] = front
    /\ \A i \in 1 .. Len(queue) : Brings(queue[i], c[i - 1], c[i])

LEMMA LineStarts ==
    ASSUME NEW front \in Marks
    PROVE  \E c : Line(c, << >>, front) /\ c[0] = front
<1>1. PICK c : c = [i \in 0 .. 0 |-> front]
    OBVIOUS
<1>2. PICK none : none = << >> /\ Len(none) = 0
    OBVIOUS
<1>3. c \in [0 .. 0 -> Marks] /\ c[0] = front
    BY <1>1
<1>4. \A i \in 1 .. 0 : FALSE
    OBVIOUS
<1>5. Line(c, none, front)
    BY <1>2, <1>3, <1>4 DEF Line
<1> QED
    BY <1>2, <1>3, <1>5

LEMMA LineGrows ==
    ASSUME NEW queue \in Seq(Messages), NEW m \in Messages, NEW c, NEW front, NEW next \in Marks,
           Line(c, queue, front), Brings(m, front, next)
    PROVE  \E d : Line(d, Append(queue, m), next) /\ d[0] = c[0]
<1>1. PICK N \in Nat : N = Len(queue)
    OBVIOUS
<1>2. PICK longer : longer = Append(queue, m)
    OBVIOUS
<1>3. /\ Len(longer) = N + 1 /\ longer[N + 1] = m
      /\ \A i \in 1 .. N : longer[i] = queue[i]
    BY <1>1, <1>2
<1>4. /\ c \in [0 .. N -> Marks] /\ c[N] = front
      /\ \A i \in 1 .. N : Brings(queue[i], c[i - 1], c[i])
    BY <1>1 DEF Line
<1>5. PICK d : d = [i \in 0 .. N + 1 |-> IF i = N + 1 THEN next ELSE c[i]]
    OBVIOUS
<1>6. d[N + 1] = next /\ \A i \in 0 .. N : d[i] = c[i]
    BY <1>5
<1>7. d \in [0 .. N + 1 -> Marks]
    BY <1>4, <1>5
<1>8. ASSUME NEW i \in 1 .. N + 1 PROVE Brings(longer[i], d[i - 1], d[i])
    <2>1. CASE i = N + 1
        <3>1. i - 1 = N /\ N \in 0 .. N
            BY <2>1
        <3>2. d[i - 1] = front /\ d[i] = next /\ longer[i] = m
            BY <1>3, <1>4, <1>6, <2>1, <3>1
        <3> QED
            BY <3>2
    <2>2. CASE i # N + 1
        <3>1. i \in 1 .. N /\ i \in 0 .. N /\ i - 1 \in 0 .. N
            BY <2>2
        <3>2. d[i - 1] = c[i - 1] /\ d[i] = c[i] /\ longer[i] = queue[i]
            BY <1>3, <1>6, <3>1
        <3> QED
            BY <1>4, <3>1, <3>2
    <2> QED
        BY <2>1, <2>2
<1>9. Line(d, longer, next)
    BY <1>3, <1>6, <1>7, <1>8 DEF Line
<1>10. d[0] = c[0]
    BY <1>6
<1> QED
    BY <1>2, <1>9, <1>10

LEMMA LineShrinks ==
    ASSUME NEW queue \in Seq(Messages), queue # << >>, NEW c, NEW front, Line(c, queue, front)
    PROVE  \E d : /\ Line(d, Tail(queue), front)
                  /\ c[0] \in Marks /\ d[0] \in Marks /\ Brings(Head(queue), c[0], d[0])
<1>1. PICK N \in Nat : N = Len(queue) /\ N > 0
    BY EmptySeq
<1>2. PICK rest : rest = Tail(queue)
    OBVIOUS
<1>3. Len(rest) = N - 1 /\ Head(queue) = queue[1] /\ \A i \in 1 .. N - 1 : rest[i] = queue[i + 1]
    BY <1>1, <1>2
<1>4. /\ c \in [0 .. N -> Marks] /\ c[N] = front
      /\ \A i \in 1 .. N : Brings(queue[i], c[i - 1], c[i])
    BY <1>1 DEF Line
<1>5. PICK d : d = [i \in 0 .. N - 1 |-> c[i + 1]]
    OBVIOUS
<1>6. \A i \in 0 .. N - 1 : d[i] = c[i + 1]
    BY <1>5
<1>7. d \in [0 .. N - 1 -> Marks]
    BY <1>4, <1>5
<1>8. ASSUME NEW i \in 1 .. N - 1 PROVE Brings(rest[i], d[i - 1], d[i])
    <2>1. i + 1 \in 1 .. N /\ i \in 0 .. N - 1 /\ i - 1 \in 0 .. N - 1 /\ (i - 1) + 1 = i /\ (i + 1) - 1 = i
        OBVIOUS
    <2>2. d[i - 1] = c[i] /\ d[i] = c[i + 1] /\ rest[i] = queue[i + 1]
        BY <1>3, <1>6, <2>1
    <2>3. Brings(queue[i + 1], c[i], c[i + 1])
        BY <1>4, <2>1
    <2> QED
        BY <2>2, <2>3
<1>9. d[N - 1] = front
    <2>1. N - 1 \in 0 .. N - 1 /\ (N - 1) + 1 = N
        BY <1>1
    <2> QED
        BY <1>4, <1>6, <2>1
<1>10. Line(d, rest, front)
    BY <1>3, <1>7, <1>8, <1>9 DEF Line
<1>11. c[0] \in Marks /\ d[0] = c[1] /\ d[0] \in Marks
    <2>1. 0 \in 0 .. N - 1 /\ 0 + 1 = 1 /\ 0 \in 0 .. N
        BY <1>1
    <2> QED
        BY <1>4, <1>6, <1>7, <2>1
<1>12. Brings(Head(queue), c[0], d[0])
    <2>1. 1 \in 1 .. N /\ 1 - 1 = 0
        BY <1>1
    <2> QED
        BY <1>3, <1>4, <1>11, <2>1
<1> QED
    BY <1>2, <1>10, <1>11, <1>12

-----------------------------------------------------------------------------
(***************************************************************************)
(* The dispatcher keeps to the marks.                                      *)
(***************************************************************************)
\* A shadow book that is there is the venue's book at the mark.
BookAt(b, p) == b # NoBook => p # Unknown /\ b.size = VenueAt[p].size

HashBehind(hash, p) == hash # Unknown => p # Unknown /\ hash <= p

TimeBehind(ts, p) == ts # 0 => p # Unknown /\ ts <= Ts(p)

Behind(books, hashes, times, p) ==
    \A a \in Assets : BookAt(books[a], p[a]) /\ HashBehind(hashes[a], p[a]) /\ TimeBehind(times[a], p[a])

\* None of the records is an alarm.
NoAlarmIn(records) ==
    \A i \in 1 .. Len(records) : records[i].kind = "ingest" => records[i].event # "book_mismatch"

LEMMA NoAlarmAppend ==
    ASSUME NEW records \in Seq(FeedRecords), NEW r, NoAlarmIn(records), r.kind = "ingest" => r.event # "book_mismatch"
    PROVE  NoAlarmIn(Append(records, r))
<1>1. PICK N \in Nat : N = Len(records)
    OBVIOUS
<1>2. PICK longer : longer = Append(records, r)
    OBVIOUS
<1>3. Len(longer) = N + 1 /\ longer[N + 1] = r /\ \A i \in 1 .. N : longer[i] = records[i]
    BY <1>1, <1>2
<1>4. \A i \in 1 .. N + 1 : i = N + 1 \/ i \in 1 .. N
    OBVIOUS
<1>5. NoAlarmIn(longer)
    BY <1>1, <1>3, <1>4 DEF NoAlarmIn
<1> QED
    BY <1>2, <1>5

\* Books of the same sizes have the same best prices.
LEMMA BestOfSizes ==
    ASSUME NEW b, NEW c, b.size = c.size
    PROVE  Best(b) = Best(c)
BY DEF Best

\* What the dispatcher has made of the entries so far.
KeptTo(acc, p, who, i) ==
    /\ \A a \in Assets :
          acc.shadow[a] # NoBook => p[a] # Unknown /\ acc.shadow[a].size = VenueAt[p[a] + ChangesOf(who, i, a)].size
    /\ acc.asked = << >>
    /\ NoAlarmIn(acc.out)

LEMMA KeptCount ==
    ASSUME NEW who, NEW i \in Nat \ {0}, NEW a
    PROVE  /\ ChangesOf(who, i - 1, a) \in Nat
           /\ who[i] = a => ChangesOf(who, i, a) = ChangesOf(who, i - 1, a) + 1
           /\ who[i] # a => ChangesOf(who, i, a) = ChangesOf(who, i - 1, a)
<1>1. i - 1 \in Nat
    OBVIOUS
<1>2. PICK c \in Nat : c = ChangesOf(who, i - 1, a)
    BY <1>1, ChangesOfFacts
<1>3. ChangesOf(who, i, a) = c + (IF who[i] = a THEN 1 ELSE 0)
    BY <1>2, ChangesOfFacts
<1> QED
    BY <1>2, <1>3

\* The entries of an asset after its last one do not count.
LEMMA CountedAll ==
    ASSUME NEW entries, NEW p, NEW N, NEW who, Follows(entries, p, N, who), NEW i \in 1 .. N, IsLastOf(entries, i)
    PROVE  ChangesOf(who, N, who[i]) = ChangesOf(who, i, who[i])
<1>1. N \in Nat /\ Len(entries) = N /\ \A j \in 1 .. N : entries[j].asset = who[j]
    BY DEF Follows
<1>2. \A j \in i + 1 .. N : who[j] # who[i]
    <2>1. \A j \in i + 1 .. N : j \in 1 .. N
        BY <1>1
    <2>2. i \in 1 .. N
        OBVIOUS
    <2> QED
        BY <1>1, <2>1, <2>2 DEF IsLastOf
<1>3. {j \in 1 .. N : who[j] = who[i]} = {j \in 1 .. i : who[j] = who[i]}
    <2>1. \A j \in 1 .. N : j \in 1 .. i \/ j \in i + 1 .. N
        BY <1>1
    <2>2. \A j \in 1 .. i : j \in 1 .. N
        BY <1>1
    <2> QED
        BY <1>2, <2>1, <2>2
<1> QED
    BY <1>3 DEF ChangesOf

LEMMA KeptEntry ==
    ASSUME NEW entries, NEW p \in Marks, NEW N, NEW who, Follows(entries, p, N, who),
           NEW i \in 1 .. N, NEW acc \in Accs, NEW next \in Accs,
           EntryOutcome(acc, entries[i], IsLastOf(entries, i), next),
           KeptTo(acc, p, who, i - 1)
    PROVE  KeptTo(next, p, who, i)
<1>1. PICK e \in Entries : e = entries[i]
    BY DEF Follows
<1>2. PICK a \in Assets : a = e.asset /\ a = who[i]
    <2>1. e.asset = who[i] /\ e.asset \in Assets
        BY <1>1 DEF Follows, Entries
    <2> QED
        BY <2>1
<1>3. i \in Nat \ {0}
    BY DEF Follows
<1>4. PICK c \in Nat : c = ChangesOf(who, i - 1, a) /\ ChangesOf(who, i, a) = c + 1
    BY <1>2, <1>3, KeptCount
<1>5. PICK k \in Reached : k = p[a]
    <2>1. p[a] # Unknown /\ p[a] \in {Unknown} \cup Reached
        BY <1>2 DEF Follows, Marks
    <2> QED
        BY <2>1
<1>6. k \in Nat
    BY ConstantFacts
<1>7. ~e.bad /\ e.version = k + (c + 1) /\ e.version \in 1 .. Len(Changes)
    <2>1. entries[i].version = p[who[i]] + ChangesOf(who, i, who[i]) /\ ~entries[i].bad
        BY DEF Follows
    <2>2. e.version \in 1 .. Len(Changes)
        BY EntryParts DEF Entries
    <2> QED
        BY <1>1, <1>2, <1>4, <1>5, <2>1, <2>2
<1>8. PICK v \in 1 .. Len(Changes) : v = e.version /\ v - 1 = k + c /\ v = k + (c + 1)
    BY <1>6, <1>7
<1>9. PICK old \in Books, now \in Books :
          /\ old = VenueAt[k + c] /\ now = VenueAt[v]
          /\ now.size = [old.size EXCEPT ![Changes[v].level] = Changes[v].size]
    <2>1. v \in Versions /\ v - 1 \in Versions
        BY ConstantFacts DEF Versions
    <2>2. VenueAt[v] \in Books /\ VenueAt[v - 1] \in Books
        BY <2>1, VenueFacts
    <2>3. Changes[v] \in Rows /\ VenueAt[v] = SetLevel(VenueAt[v - 1], Changes[v].level, Changes[v].size)
        BY VenueFacts
    <2>4. Changes[v].level \in Levels /\ Changes[v].size \in Nat
        BY <2>3 DEF Rows
    <2>5. VenueAt[v].size = [VenueAt[v - 1].size EXCEPT ![Changes[v].level] = Changes[v].size]
        BY <2>2, <2>3, <2>4, SetLevelFacts
    <2> QED
        BY <1>8, <2>2, <2>5
<1>10. acc.asked = << >> /\ NoAlarmIn(acc.out) /\ acc.out \in Seq(FeedRecords)
    BY DEF KeptTo, Accs
<1>11. ASSUME NEW x \in Assets, acc.shadow[x] # NoBook
       PROVE  p[x] # Unknown /\ acc.shadow[x].size = VenueAt[p[x] + ChangesOf(who, i - 1, x)].size
    BY <1>11 DEF KeptTo
<1>12. ASSUME NEW x \in Assets, x # a PROVE ChangesOf(who, i, x) = ChangesOf(who, i - 1, x)
    BY <1>2, <1>3, <1>12, KeptCount
\* The entry leads the shadow book to the venue's book at its version.
<1>13. ASSUME acc.shadow[a] # NoBook
       PROVE  NewBook(acc, e) \in Books /\ NewBook(acc, e).size = VenueAt[k + (c + 1)].size
    <2>1. acc.shadow[a].size = old.size
        BY <1>4, <1>5, <1>9, <1>11, <1>13
    <2>2. acc.shadow[a] \in Books /\ NewBook(acc, e) \in Books
        BY <1>2, <1>13, EntryParts DEF Accs
    <2>3. Changes[v].level \in Levels /\ Changes[v].size \in Nat
        BY VenueFacts DEF Rows
    <2>4. NewBook(acc, e) = SetLevel(acc.shadow[a], Changes[v].level, Changes[v].size)
        BY <1>2, <1>8 DEF NewBook
    <2>5. NewBook(acc, e).size = [acc.shadow[a].size EXCEPT ![Changes[v].level] = Changes[v].size]
        <3>1. \A b \in Books, l \in Levels, q \in Nat : SetLevel(b, l, q).size = [b.size EXCEPT ![l] = q]
            BY SetLevelFacts, Zenon
        <3> QED
            BY <2>2, <2>3, <2>4, <3>1
    <2> QED
        BY <1>8, <1>9, <2>1, <2>2, <2>5
<1>14. acc.shadow \in [Assets -> Books \cup {NoBook}]
    BY DEF Accs
<1>15. NoAlarmIn(Append(acc.out, DeltaOf(acc, e))) /\ Append(acc.out, DeltaOf(acc, e)) \in Seq(FeedRecords)
    <2>1. PICK d \in FeedRecords : d = DeltaOf(acc, e) /\ d.kind = "delta"
        BY EntryParts
    <2>2. NoAlarmIn(Append(acc.out, d)) /\ Append(acc.out, d) \in Seq(FeedRecords)
        BY <1>10, <2>1, NoAlarmAppend
    <2> QED
        BY <2>1, <2>2
<1>16. ASSUME next.shadow[a] # NoBook => next.shadow[a] = NewBook(acc, e) /\ acc.shadow[a] # NoBook,
              \A x \in Assets : x # a => next.shadow[x] = acc.shadow[x],
              NEW x \in Assets, next.shadow[x] # NoBook
       PROVE  p[x] # Unknown /\ next.shadow[x].size = VenueAt[p[x] + ChangesOf(who, i, x)].size
    <2>1. CASE x = a
        BY <1>4, <1>5, <1>11, <1>13, <1>16, <2>1
    <2>2. CASE x # a
        BY <1>11, <1>12, <1>16, <2>2
    <2> QED
        BY <2>1, <2>2
<1>17. CASE Skipped(acc, e, next)
    BY <1>7, <1>17 DEF Skipped
<1>18. CASE Forwarded(acc, e, next)
    BY <1>2, <1>10, <1>15, <1>16, <1>18 DEF Forwarded, KeptTo
<1>19. CASE Overflowed(acc, e, next)
    <2>1. /\ next.shadow = [acc.shadow EXCEPT ![a] = NoBook] /\ next.asked = << >>
          /\ next.out = Append(Append(acc.out, DeltaOf(acc, e)), IngestRecord("source_reset", a))
        BY <1>2, <1>10, <1>19 DEF Overflowed
    <2>2. next.shadow[a] = NoBook /\ \A x \in Assets : x # a => next.shadow[x] = acc.shadow[x]
        BY <1>14, <2>1
    <2>3. NoAlarmIn(next.out)
        <3>1. IngestRecord("source_reset", a).event # "book_mismatch"
            BY DEF IngestRecord
        <3> QED
            BY <1>15, <2>1, <3>1, NoAlarmAppend
    <2> QED
        BY <1>16, <2>1, <2>2, <2>3 DEF KeptTo
<1>20. CASE Diverged(acc, e, IsLastOf(entries, i), next)
    <2>1. acc.shadow[a] # NoBook /\ IsLastOf(entries, i) /\ Best(NewBook(acc, e)) # Best(VenueAt[e.stated])
        BY <1>2, <1>20 DEF Diverged
    <2>2. ChangesOf(who, N, a) = c + 1
        BY <1>2, <1>4, <2>1, CountedAll
    <2>3. e.stated = k + (c + 1)
        <3>1. entries[i].stated = p[who[i]] + ChangesOf(who, N, who[i])
            BY DEF Follows
        <3> QED
            BY <1>1, <1>2, <1>5, <2>2, <3>1
    <2>4. NewBook(acc, e).size = VenueAt[e.stated].size
        BY <1>13, <2>1, <2>3
    <2> QED
        BY <2>1, <2>4, BestOfSizes
<1>21. CASE Followed(acc, e, next)
    <2>1. /\ next.shadow = [acc.shadow EXCEPT ![a] = NewBook(acc, e)] /\ next.asked = << >>
          /\ next.out = Append(acc.out, DeltaOf(acc, e)) /\ acc.shadow[a] # NoBook
        BY <1>2, <1>10, <1>21 DEF Followed
    <2>2. next.shadow[a] = NewBook(acc, e) /\ \A x \in Assets : x # a => next.shadow[x] = acc.shadow[x]
        BY <1>14, <2>1
    <2> QED
        BY <1>15, <1>16, <2>1, <2>2 DEF KeptTo
<1> QED
    BY <1>1, <1>17, <1>18, <1>19, <1>20, <1>21 DEF EntryOutcome

LEMMA DispatchedKept ==
    ASSUME DispatcherTypeOK, NEW entries, NEW p \in Marks, NEW N, NEW who, Follows(entries, p, N, who),
           \A a \in Assets : BookAt(shadow[a], p[a])
    PROVE  KeptTo(Dispatched(entries), p, who, N)
<1>1. N \in Nat /\ entries \in Seq(Entries) /\ Len(entries) = N
    BY DEF Follows
<1>2. PICK f : DispatchedSteps(f, entries)
    BY <1>1, DispatchedFacts
<1>3. /\ f \in [0 .. N -> Accs] /\ Dispatched(entries) = f[N]
      /\ f[0] = [shadow |-> shadow, seq |-> seq, out |-> << >>, asked |-> << >>]
      /\ \A i \in 1 .. N : f[i] = DispatchEntry(f[i - 1], entries, i)
    BY <1>1, <1>2 DEF DispatchedSteps
<1> DEFINE T == {i \in 0 .. N : KeptTo(f[i], p, who, i)}
<1>4. 0 \in T
    <2>1. f[0].shadow = shadow /\ f[0].out = << >> /\ f[0].asked = << >>
        BY <1>3
    <2>2. NoAlarmIn(<< >>)
        BY DEF NoAlarmIn
    <2>3. ASSUME NEW a \in Assets, shadow[a] # NoBook
          PROVE  p[a] # Unknown /\ shadow[a].size = VenueAt[p[a] + ChangesOf(who, 0, a)].size
        <3>1. p[a] # Unknown /\ shadow[a].size = VenueAt[p[a]].size
            BY <2>3 DEF BookAt
        <3>2. PICK k \in Nat : k = p[a]
            <4>1. p[a] \in Reached
                BY <3>1 DEF Marks
            <4> QED
                BY <4>1, ConstantFacts
        <3>3. ChangesOf(who, 0, a) = 0
            BY ChangesOfFacts
        <3>4. k + 0 = k
            OBVIOUS
        <3> QED
            BY <3>1, <3>2, <3>3, <3>4
    <2> QED
        BY <1>1, <2>1, <2>2, <2>3 DEF KeptTo
<1>5. ASSUME NEW i \in 1 .. N, i - 1 \in T PROVE i \in T
    <2>1. i \in 0 .. N /\ i - 1 \in 0 .. N /\ i \in 1 .. Len(entries)
        BY <1>1
    <2>2. f[i - 1] \in Accs /\ f[i] \in Accs /\ f[i] = DispatchEntry(f[i - 1], entries, i)
        BY <1>3, <2>1
    <2>3. KeptTo(f[i - 1], p, who, i - 1)
        BY <1>5
    <2>4. EntryOutcome(f[i - 1], entries[i], IsLastOf(entries, i), f[i])
        BY <1>1, <2>1, <2>2, EntryFacts
    <2>5. KeptTo(f[i], p, who, i)
        BY <2>2, <2>3, <2>4, KeptEntry
    <2> QED
        BY <2>1, <2>5
<1> HIDE DEF T
<1>6. \A i \in 0 .. N : i \in T
    BY <1>1, <1>4, <1>5, Climb
<1>7. N \in 0 .. N
    BY <1>1
<1> QED
    BY <1>3, <1>6, <1>7 DEF T

LEMMA BringsKinds ==
    ASSUME NEW m, NEW p, NEW q, Brings(m, p, q)
    PROVE  /\ m.type = "book" => BringsBook(m, p, q)
           /\ m.type = "price_change" => BringsChanges(m, p, q)
           /\ m.type = "last_trade_price" => q = p
           /\ m.type = "lifecycle" /\ m.event = "reconnect_start" => q = p
           /\ m.type = "lifecycle" /\ m.event = "reconnect_success" => q = [a \in Assets |-> Unknown]
<1>1. /\ m \in BookMessages => m.type = "book"
      /\ m \in ChangeMessages => m.type = "price_change"
      /\ m \in TradeMessages => m.type = "last_trade_price"
      /\ m \in LifecycleMessages => m.type = "lifecycle"
    BY DEF BookMessages, ChangeMessages, TradeMessages, LifecycleMessages
<1>2. BringsBook(m, p, q) => m \in BookMessages
    BY DEF BringsBook
<1>3. BringsChanges(m, p, q) => m \in ChangeMessages
    BY DEF BringsChanges
<1>4. BringsNothing(m, p, q) =>
          /\ m \in TradeMessages \/ m \in LifecycleMessages
          /\ m \in TradeMessages \/ m.event = "reconnect_start"
          /\ q = p
    BY DEF BringsNothing
<1>5. Forgets(m, q) => m \in LifecycleMessages /\ m.event = "reconnect_success" /\ q = [a \in Assets |-> Unknown]
    BY DEF Forgets
<1> QED
    BY <1>1, <1>2, <1>3, <1>4, <1>5 DEF Brings

\* What is behind a mark stays behind a later one.
LEMMA StillBehind ==
    ASSUME NEW p \in {Unknown} \cup Reached, NEW q \in Reached, p # Unknown => p <= q,
           NEW hash \in {Unknown} \cup Reached, NEW ts \in Nat
    PROVE  /\ HashBehind(hash, p) => HashBehind(hash, q)
           /\ TimeBehind(ts, p) => TimeBehind(ts, q)
<1>1. q \in Nat /\ q # Unknown /\ Ts(q) \in Nat
    BY ConstantFacts
<1>2. ASSUME HashBehind(hash, p), hash # Unknown PROVE hash <= q
    <2>1. p # Unknown /\ hash <= p
        BY <1>2 DEF HashBehind
    <2>2. p \in Nat /\ hash \in Nat /\ p <= q
        BY <1>2, <2>1, ConstantFacts
    <2> QED
        BY <1>1, <2>1, <2>2
<1>3. ASSUME TimeBehind(ts, p), ts # 0 PROVE ts <= Ts(q)
    <2>1. p # Unknown /\ ts <= Ts(p)
        BY <1>3 DEF TimeBehind
    <2>2. PICK t \in Nat, u \in Nat : t = Ts(p) /\ u = Ts(q) /\ t <= u
        BY <2>1, ConstantFacts
    <2> QED
        BY <2>1, <2>2
<1> QED
    BY <1>1, <1>2, <1>3 DEF HashBehind, TimeBehind

LEMMA SilentNoAlarm ==
    ASSUME NEW records, Silent(records)
    PROVE  NoAlarmIn(records)
<1> SUFFICES ASSUME NEW i \in 1 .. Len(records), records[i].kind = "ingest"
             PROVE  records[i].event # "book_mismatch"
    BY DEF NoAlarmIn
<1>1. PICK r \in FeedRecords : r = records[i]
    BY DEF Silent
<1>2. r \in IngestRecords
    BY <1>1 DEF FeedRecords, SnapshotRecords, DeltaRecords, TradeRecord
<1>3. r # IngestRecord("book_mismatch", r.asset)
    BY <1>1 DEF Silent
<1>4. r = [kind |-> "ingest", asset |-> r.asset, event |-> r.event]
    BY <1>2 DEF IngestRecords
<1> QED
    BY <1>1, <1>3, <1>4 DEF IngestRecord

\* The dispatcher, asked for nothing, keeps to the marks and raises no alarm.
Keeps(q) == Behind(shadow', lastHash', lastTs', q) /\ NoAlarmIn(outbox') /\ requests' = << >>

LEMMA AcceptBookKeeps ==
    ASSUME FeedTypeOK, AcceptBook, requests = << >>, NEW p \in Marks, NEW q \in Marks,
           Behind(shadow, lastHash, lastTs, p), Brings(Head(raw), p, q)
    PROVE  Keeps(q)
<1>1. PICK m, b, rows : TakenOver(m, b, rows)
    BY AcceptBookFacts
<1>2. PICK x \in Assets, v \in Reached : x = m.asset /\ v = m.version
    BY <1>1 DEF TakenOver, BookMessages
<1>3. m = Head(raw) /\ m \in BookMessages /\ m.type = "book"
    BY <1>1 DEF TakenOver, BookMessages
<1>4. m.fault = "none" /\ q = [p EXCEPT ![x] = v]
    BY <1>2, <1>3, BringsKinds DEF BringsBook
<1>5. PICK new \in Books : new = Snapshot(rows).book /\ new.size = VenueAt[v].size
    BY <1>1, <1>2 DEF TakenOver
<1>6. /\ shadow' = [shadow EXCEPT ![x] = new]
      /\ lastTs' = [lastTs EXCEPT ![x] = Ts(v)]
      /\ lastHash' = [lastHash EXCEPT ![x] = v]
    BY <1>1, <1>2, <1>4, <1>5 DEF TakenOver, Stamped, Hashed
<1>7. v # Unknown /\ v \in Nat /\ Ts(v) \in Nat
    BY ConstantFacts
<1>8. ASSUME NEW a \in Assets
      PROVE  BookAt(shadow'[a], q[a]) /\ HashBehind(lastHash'[a], q[a]) /\ TimeBehind(lastTs'[a], q[a])
    <2>1. CASE a = x
        <3>1. q[a] = v
            BY <1>4, <2>1 DEF Marks
        <3>2. shadow'[a] = new /\ lastHash'[a] = v /\ lastTs'[a] = Ts(v)
            BY <1>6, <2>1 DEF FeedTypeOK, DispatcherTypeOK
        <3>3. BookAt(new, v)
            BY <1>5, <1>7 DEF BookAt
        <3>4. HashBehind(v, v)
            BY <1>7 DEF HashBehind
        <3>5. TimeBehind(Ts(v), v)
            <4>1. PICK t \in Nat : t = Ts(v)
                BY <1>7
            <4> QED
                BY <1>7, <4>1 DEF TimeBehind
        <3> QED
            BY <3>1, <3>2, <3>3, <3>4, <3>5
    <2>2. CASE a # x
        <3>1. q[a] = p[a]
            BY <1>4, <2>2 DEF Marks
        <3>2. shadow'[a] = shadow[a] /\ lastHash'[a] = lastHash[a] /\ lastTs'[a] = lastTs[a]
            BY <1>6, <2>2 DEF FeedTypeOK, DispatcherTypeOK
        <3> QED
            BY <3>1, <3>2 DEF Behind
    <2> QED
        BY <2>1, <2>2
<1>9. NoAlarmIn(outbox')
    <2>1. PICK N \in Nat : N = Len(rows) /\ DOMAIN rows = 1 .. N
        BY <1>1 DEF TakenOver
    <2>2. outbox' = [i \in 1 .. N |-> SnapshotRecord(m.asset, Key(m), rows[i], i - 1)]
        BY <1>1, <2>1 DEF TakenOver
    <2>3. Len(outbox') = N
        BY <2>2
    <2>4. \A i \in 1 .. N : outbox'[i].kind = "snapshot"
        BY <2>2 DEF SnapshotRecord
    <2> QED
        BY <2>3, <2>4 DEF NoAlarmIn
<1>10. requests' = << >>
    BY DEF AcceptBook
<1> QED
    BY <1>8, <1>9, <1>10 DEF Keeps, Behind

\* While nothing is malformed, a book is dropped only if it is the last one over again, or if
\* it does not fit.
LEMMA DroppedRepeats ==
    ASSUME FeedTypeOK, NEW p \in Marks, NEW q \in Marks,
           Behind(shadow, lastHash, lastTs, p), Brings(Head(raw), p, q), NEW m, NEW why, Dropped(m, why)
    PROVE  /\ m.asset \in Assets /\ m.version \in Reached /\ q = [p EXCEPT ![m.asset] = m.version]
           /\ HashBehind(lastHash[m.asset], m.version) /\ TimeBehind(lastTs[m.asset], m.version)
           /\ \/ why = "duplicate" /\ p[m.asset] = m.version
              \/ why = "overflow" /\ ~Snapshot(RowsOf(VenueAt[m.version])).ok
<1>1. PICK x \in Assets, v \in Reached : x = m.asset /\ v = m.version
    BY DEF Dropped, BookMessages
<1>2. m = Head(raw) /\ m \in BookMessages /\ m.type = "book" /\ why = Verdict(m) /\ why # "accepted"
    BY DEF Dropped, BookMessages
<1>3. m.fault = "none" /\ (p[x] # Unknown => p[x] <= v) /\ q = [p EXCEPT ![x] = v]
    BY <1>1, <1>2, BringsKinds DEF BringsBook
<1>4. p[x] \in {Unknown} \cup Reached
    BY DEF Marks
<1>5. HashBehind(lastHash[x], p[x]) /\ TimeBehind(lastTs[x], p[x])
    BY DEF Behind
<1>6. lastHash[x] \in {Unknown} \cup Reached /\ lastTs[x] \in Nat
    BY DEF FeedTypeOK, DispatcherTypeOK
<1>7. HashBehind(lastHash[x], v) /\ TimeBehind(lastTs[x], v)
    BY <1>3, <1>4, <1>5, <1>6, StillBehind
<1>8. ~Stale(m)
    <2>1. PICK t \in Nat, u \in Nat : t = Ts(v) /\ u = lastTs[x]
        BY <1>6, ConstantFacts
    <2>2. u # 0 => u <= t
        BY <1>7, <2>1 DEF TimeBehind
    <2>3. ~(t < u)
        BY <2>1, <2>2
    <2> QED
        BY <1>1, <2>1, <2>3 DEF Stale
<1>9. why \in {"duplicate", "overflow"} /\ (why = "duplicate" => Duplicate(m))
    BY <1>2, <1>3, <1>8, VerdictFacts
<1>10. ASSUME why = "duplicate" PROVE p[x] = v
    <2>1. lastHash[x] = v
        BY <1>1, <1>9, <1>10 DEF Duplicate
    <2>2. p[x] # Unknown /\ v <= p[x]
        BY <1>5, <2>1, ConstantFacts DEF HashBehind
    <2> QED
        BY <1>3, <1>4, <2>2, ConstantFacts
<1>11. ASSUME why = "overflow" PROVE ~Snapshot(RowsOf(VenueAt[m.version])).ok
    BY <1>2, <1>11 DEF Verdict
<1> QED
    BY <1>1, <1>3, <1>7, <1>9, <1>10, <1>11

LEMMA DropBookKeeps ==
    ASSUME FeedTypeOK, DropBook, requests = << >>, NEW p \in Marks, NEW q \in Marks,
           Behind(shadow, lastHash, lastTs, p), Brings(Head(raw), p, q)
    PROVE  Keeps(q)
<1>1. PICK m, why : Dropped(m, why)
    BY DropBookFacts
<1>2. PICK x \in Assets, v \in Reached : x = m.asset /\ v = m.version
    BY <1>1, DroppedRepeats
<1>3. q = [p EXCEPT ![x] = v] /\ HashBehind(lastHash[x], v) /\ TimeBehind(lastTs[x], v)
      /\ ((why = "duplicate" /\ p[x] = v) \/ why = "overflow")
    BY <1>1, <1>2, DroppedRepeats
<1>4. p[x] \in {Unknown} \cup Reached /\ q[x] = v /\ \A a \in Assets : a # x => q[a] = p[a]
    BY <1>3 DEF Marks
<1>5. lastHash' = lastHash /\ lastTs' = lastTs /\ requests' = << >>
    BY DEF DropBook
<1>6. BookAt(shadow'[x], v) /\ \A a \in Assets : a # x => shadow'[a] = shadow[a]
    <2>1. CASE why = "duplicate"
        <3>1. shadow' = shadow
            BY <1>1, <2>1 DEF Dropped
        <3>2. BookAt(shadow[x], p[x])
            BY DEF Behind
        <3> QED
            BY <1>3, <2>1, <3>1, <3>2
    <2>2. CASE why = "overflow"
        <3>1. shadow' = [shadow EXCEPT ![x] = NoBook]
            BY <1>1, <1>2, <2>2 DEF Dropped
        <3>2. shadow'[x] = NoBook /\ \A a \in Assets : a # x => shadow'[a] = shadow[a]
            BY <3>1 DEF FeedTypeOK, DispatcherTypeOK
        <3> QED
            BY <3>2 DEF BookAt
    <2> QED
        BY <1>3, <2>1, <2>2
<1>7. ASSUME NEW a \in Assets
       PROVE  BookAt(shadow'[a], q[a]) /\ HashBehind(lastHash'[a], q[a]) /\ TimeBehind(lastTs'[a], q[a])
    <2>1. CASE a = x
        BY <1>4, <1>3, <1>5, <1>6, <2>1
    <2>2. CASE a # x
        BY <1>4, <1>5, <1>6, <2>2 DEF Behind
    <2> QED
        BY <2>1, <2>2
<1>8. NoAlarmIn(outbox')
    <2>1. CASE outbox' = << >>
        BY <2>1 DEF NoAlarmIn
    <2>2. CASE \E event \in Alarms \ {"book_mismatch"} : outbox' = << IngestRecord(event, m.asset) >>
        <3>1. PICK event \in Alarms \ {"book_mismatch"} : outbox' = << IngestRecord(event, m.asset) >>
            BY <2>2
        <3>2. PICK r : r = IngestRecord(event, m.asset)
            OBVIOUS
        <3>3. r.event # "book_mismatch"
            BY <3>2 DEF IngestRecord
        <3>4. Len(<< r >>) = 1 /\ << r >>[1] = r
            OBVIOUS
        <3>5. \A i \in 1 .. 1 : i = 1
            OBVIOUS
        <3> QED
            BY <3>1, <3>2, <3>3, <3>4, <3>5 DEF NoAlarmIn
    <2> QED
        BY <1>1, <2>1, <2>2 DEF Dropped
<1> QED
    BY <1>5, <1>7, <1>8 DEF Keeps, Behind

LEMMA DispatchChangesKeeps ==
    ASSUME FeedTypeOK, DispatchChanges, requests = << >>, NEW p \in Marks, NEW q \in Marks,
           Behind(shadow, lastHash, lastTs, p), Brings(Head(raw), p, q)
    PROVE  Keeps(q)
<1>1. PICK m, entries : Handled(m, entries)
    BY DispatchChangesFacts
<1>2. m = Head(raw) /\ m \in ChangeMessages /\ m.type = "price_change"
    BY <1>1 DEF Handled, ChangeMessages
<1>3. m.fault = "none" /\ \E N, who : /\ Follows(m.entries, p, N, who)
                                     /\ q = [a \in Assets |-> p[a] + ChangesOf(who, N, a)]
    BY <1>2, BringsKinds DEF BringsChanges
<1>4. PICK N, who : Follows(m.entries, p, N, who) /\ q = [a \in Assets |-> p[a] + ChangesOf(who, N, a)]
    BY <1>3
<1>5. entries = m.entries
    BY <1>1, <1>3 DEF Handled
<1>6. PICK done \in Accs : done = Dispatched(entries)
    BY <1>1 DEF Handled
<1>7. KeptTo(done, p, who, N)
    <2>1. \A a \in Assets : BookAt(shadow[a], p[a])
        BY DEF Behind
    <2> QED
        BY <1>4, <1>5, <1>6, <2>1, DispatchedKept DEF FeedTypeOK
<1>8. shadow' = done.shadow /\ outbox' = done.out /\ requests' = TrySend(requests, done.asked)
    BY <1>1, <1>6 DEF Handled
<1>9. requests' = << >>
    <2>1. PICK none \in Seq(Assets) : none = << >>
        <3>1. << >> \in Seq(Assets)
            OBVIOUS
        <3> QED
            BY <3>1, Zenon
    <2>2. TrySend(none, none) = << >>
        BY <2>1, TrySendFacts
    <2>3. requests = none /\ done.asked = none
        BY <1>7, <2>1 DEF KeptTo
    <2> QED
        BY <1>8, <2>2, <2>3
<1>10. lastHash' = lastHash /\ lastTs' = lastTs
    BY DEF DispatchChanges
<1>11. ASSUME NEW a \in Assets
       PROVE  BookAt(shadow'[a], q[a]) /\ HashBehind(lastHash'[a], q[a]) /\ TimeBehind(lastTs'[a], q[a])
    <2>1. PICK c \in Nat : c = ChangesOf(who, N, a)
        BY <1>4, ChangesOfFacts DEF Follows
    <2>2. q[a] = p[a] + c
        BY <1>4, <2>1
    <2>3. p[a] \in {Unknown} \cup Reached /\ q[a] \in {Unknown} \cup Reached
        BY DEF Marks
    <2>4. CASE p[a] = Unknown
        <3>1. shadow[a] = NoBook /\ lastHash[a] = Unknown /\ lastTs[a] = 0
            BY <2>4 DEF Behind, BookAt, HashBehind, TimeBehind
        <3>2. shadow'[a] = NoBook
            BY <1>7, <1>8, <2>4 DEF KeptTo
        <3> QED
            BY <1>10, <3>1, <3>2 DEF BookAt, HashBehind, TimeBehind
    <2>5. CASE p[a] # Unknown
        <3>1. PICK k \in Reached : k = p[a] /\ k \in Nat
            BY <2>3, <2>5, ConstantFacts
        <3>2. q[a] = k + c /\ k <= k + c /\ k + c # Unknown
            BY <2>1, <2>2, <3>1 DEF Unknown
        <3>3. q[a] \in Reached /\ p[a] <= q[a]
            BY <2>3, <3>1, <3>2
        <3>4. shadow'[a] # NoBook => shadow'[a].size = VenueAt[q[a]].size
            BY <1>7, <1>8, <2>1, <2>2 DEF KeptTo
        <3>5. lastHash[a] \in {Unknown} \cup Reached /\ lastTs[a] \in Nat
            BY DEF FeedTypeOK, DispatcherTypeOK
        <3>6. HashBehind(lastHash[a], p[a]) /\ TimeBehind(lastTs[a], p[a])
            BY DEF Behind
        <3>7. HashBehind(lastHash[a], q[a]) /\ TimeBehind(lastTs[a], q[a])
            BY <2>3, <3>3, <3>5, <3>6, StillBehind
        <3> QED
            BY <1>10, <3>2, <3>4, <3>7 DEF BookAt
    <2> QED
        BY <2>4, <2>5
<1> QED
    BY <1>7, <1>8, <1>9, <1>11 DEF Keeps, Behind, KeptTo

LEMMA SilentKeeps ==
    ASSUME FeedTypeOK, DispatchTrade \/ DispatchLifecycle, requests = << >>, NEW p \in Marks, NEW q \in Marks,
           Behind(shadow, lastHash, lastTs, p), Brings(Head(raw), p, q)
    PROVE  Keeps(q)
<1>1. NoAlarmIn(outbox')
    BY DispatchTradeFacts, DispatchLifecycleFacts, SilentNoAlarm
<1>2. requests' = << >>
    BY DEF DispatchTrade, DispatchLifecycle
<1>3. CASE DispatchTrade
    <2>1. Head(raw).type = "last_trade_price" /\ UNCHANGED trackers
        BY <1>3 DEF DispatchTrade, Take
    <2>2. q = p
        BY <2>1, BringsKinds
    <2>3. shadow' = shadow /\ lastHash' = lastHash /\ lastTs' = lastTs
        BY <2>1 DEF trackers
    <2> QED
        BY <1>1, <1>2, <2>2, <2>3 DEF Keeps
<1>4. CASE DispatchLifecycle
    <2>1. Head(raw).type = "lifecycle"
        BY <1>4 DEF DispatchLifecycle, Take
    <2>2. CASE Head(raw).event = "reconnect_start" /\ UNCHANGED trackers
        <3>1. q = p
            BY <2>1, <2>2, BringsKinds
        <3>2. shadow' = shadow /\ lastHash' = lastHash /\ lastTs' = lastTs
            BY <2>2 DEF trackers
        <3> QED
            BY <1>1, <1>2, <3>1, <3>2 DEF Keeps
    <2>3. CASE Head(raw).event = "reconnect_success" /\ Cleared
        <3>1. q = [a \in Assets |-> Unknown]
            BY <2>1, <2>3, BringsKinds
        <3>2. \A a \in Assets : shadow'[a] = NoBook /\ lastHash'[a] = Unknown /\ lastTs'[a] = 0
            BY <2>3 DEF Cleared
        <3> QED
            BY <1>1, <1>2, <3>1, <3>2 DEF Keeps, Behind, BookAt, HashBehind, TimeBehind
    <2> QED
        BY <1>4, <2>2, <2>3, DispatchLifecycleFacts
<1> QED
    BY <1>3, <1>4

LEMMA DispatchKeeps ==
    ASSUME FeedTypeOK, Dispatch, requests = << >>, NEW p \in Marks, NEW q \in Marks,
           Behind(shadow, lastHash, lastTs, p), Brings(Head(raw), p, q)
    PROVE  Keeps(q)
BY AcceptBookKeeps, DropBookKeeps, DispatchChangesKeeps, SilentKeeps DEF Dispatch

-----------------------------------------------------------------------------
(***************************************************************************)
(* The messages lead on from what the dispatcher knows.                    *)
(***************************************************************************)
\* No resnapshot is asked for, and the messages in the raw channel lead from the marks p,
\* which the dispatcher has reached, to what the connection has brought.
AlignedAt(p) ==
    /\ requests = << >> /\ fetched = NoFetch
    /\ \E c : Line(c, raw, at) /\ c[0] = p
    /\ Behind(shadow, lastHash, lastTs, p)

LEMMA AlignedInit ==
    ASSUME FeedInit
    PROVE  [a \in Assets |-> Unknown] \in Marks /\ AlignedAt([a \in Assets |-> Unknown])
<1>1. PICK p : p = [a \in Assets |-> Unknown]
    OBVIOUS
<1>2. requests = << >> /\ fetched = NoFetch /\ raw = << >> /\ at = p
    BY <1>1 DEF FeedInit
<1>3. p \in Marks
    BY <1>1 DEF Marks
<1>4. PICK c : Line(c, << >>, p) /\ c[0] = p
    BY <1>3, LineStarts
<1>5. Behind(shadow, lastHash, lastTs, p)
    BY DEF FeedInit, Behind, BookAt, HashBehind, TimeBehind
<1>6. AlignedAt(p)
    BY <1>2, <1>4, <1>5 DEF AlignedAt
<1> QED
    BY <1>1, <1>3, <1>6

\* Nothing the marks depend on has changed.
LEMMA AlignedStays ==
    ASSUME NEW p, AlignedAt(p), UNCHANGED << raw, at, shadow, lastHash, lastTs, requests, fetched >>
    PROVE  AlignedAt(p)'
BY DEF AlignedAt

\* A message that leads on from the marks of the connection.
LEMMA AlignedEnqueue ==
    ASSUME FeedTypeOK, NEW p, AlignedAt(p), NEW m \in Messages, Enqueue(m), Brings(m, at, at'), at' \in Marks,
           fetched' = fetched
    PROVE  AlignedAt(p)'
<1>1. raw' = Append(raw, m) /\ UNCHANGED << shadow, lastTs, lastHash, requests >>
    BY DEF Enqueue, trackers
<1>2. PICK c : Line(c, raw, at) /\ c[0] = p
    BY DEF AlignedAt
<1>3. PICK front \in Marks : front = at'
    OBVIOUS
<1>4. PICK d : Line(d, Append(raw, m), front) /\ d[0] = c[0]
    BY <1>2, <1>3, LineGrows DEF FeedTypeOK, VenueTypeOK
<1>5. Line(d, raw', at') /\ d[0] = p
    BY <1>1, <1>2, <1>3, <1>4
<1>6. requests' = << >> /\ fetched' = NoFetch /\ Behind(shadow', lastHash', lastTs', p)
    BY <1>1 DEF AlignedAt
<1> QED
    BY <1>5, <1>6 DEF AlignedAt

LEMMA AlignedConnection ==
    ASSUME FeedTypeOK, NEW start, AlignedAt(start), Connect \/ Disconnect \/ ReceiveTrade
    PROVE  AlignedAt(start)'
<1>1. CASE Connect
    <2>1. PICK m \in Messages : m = LifecycleMsg("reconnect_success") /\ m \in LifecycleMessages
        BY MessageTypes
    <2>2. Enqueue(m) /\ at' = [a \in Assets |-> Unknown] /\ fetched' = fetched
        BY <1>1, <2>1 DEF Connect, workerVars
    <2>3. Brings(m, at, at')
        <3>1. m.event = "reconnect_success"
            BY <2>1 DEF LifecycleMsg
        <3> QED
            BY <2>1, <2>2, <3>1 DEF Brings, Forgets
    <2>4. at' \in Marks
        BY <2>2 DEF Marks
    <2> QED
        BY <2>2, <2>3, <2>4, AlignedEnqueue
<1>2. CASE Disconnect
    <2>1. PICK m \in Messages : m = LifecycleMsg("reconnect_start") /\ m \in LifecycleMessages
        BY MessageTypes
    <2>2. Enqueue(m) /\ at' = at /\ fetched' = fetched
        BY <1>2, <2>1 DEF Disconnect, workerVars
    <2>3. Brings(m, at, at')
        <3>1. m.event = "reconnect_start"
            BY <2>1 DEF LifecycleMsg
        <3> QED
            BY <2>1, <2>2, <3>1 DEF Brings, BringsNothing
    <2>4. at' \in Marks
        BY <2>2 DEF Marks, FeedTypeOK, VenueTypeOK
    <2> QED
        BY <2>2, <2>3, <2>4, AlignedEnqueue
<1>3. CASE ReceiveTrade
    <2>1. PICK fault \in {"none", "unparseable"} : Enqueue(TradeMsg(fault))
        BY <1>3 DEF ReceiveTrade
    <2>2. PICK m \in Messages : m = TradeMsg(fault) /\ m \in TradeMessages
        BY MessageTypes
    <2>3. Enqueue(m) /\ at' = at /\ fetched' = fetched
        BY <1>3, <2>1, <2>2 DEF ReceiveTrade, workerVars
    <2>4. Brings(m, at, at')
        BY <2>2, <2>3 DEF Brings, BringsNothing
    <2>5. at' \in Marks
        BY <2>3 DEF Marks, FeedTypeOK, VenueTypeOK
    <2> QED
        BY <2>3, <2>4, <2>5, AlignedEnqueue
<1> QED
    BY <1>1, <1>2, <1>3

LEMMA NoFault ==
    ASSUME FeedTypeOK, NEW is, Faulty(is), faults' = 0
    PROVE  ~is
BY DEF FeedTypeOK, VenueTypeOK, Faulty

LEMMA AlignedBook ==
    ASSUME FeedTypeOK, NEW start, AlignedAt(start), NEW a \in Assets, ReceiveBook(a), faults' = 0
    PROVE  AlignedAt(start)'
<1>1. PICK v \in (IF at[a] = Unknown THEN {venue[a]} ELSE at[a] .. venue[a]), fault \in BookFaults :
          Faulty(fault # "none") /\ Enqueue(BookMsg(a, v, fault, FALSE)) /\ at' = [at EXCEPT ![a] = v]
    BY DEF ReceiveBook
<1>2. fault = "none"
    BY <1>1, NoFault
<1>3. FeedTypeOK'
    BY ReceiveBookTyped
<1>4. at \in Marks /\ at' \in Marks
    BY <1>3 DEF FeedTypeOK, VenueTypeOK, Marks
<1>5. PICK p \in {Unknown} \cup Reached, w \in Reached : p = at[a] /\ w = venue[a]
    BY DEF FeedTypeOK, VenueTypeOK
<1>6. v \in Reached /\ (p # Unknown => p <= v)
    <2>1. v \in (IF p = Unknown THEN {w} ELSE p .. w)
        BY <1>1, <1>5
    <2>2. CASE p = Unknown
        BY <2>1, <2>2
    <2>3. CASE p # Unknown
        <3>1. p \in Reached /\ v \in p .. w
            BY <2>1, <2>3
        <3> QED
            BY <3>1, ConstantFacts DEF Reached
    <2> QED
        BY <2>2, <2>3
<1>7. PICK m \in Messages : m = BookMsg(a, v, fault, FALSE) /\ m \in BookMessages
    BY <1>6, MessageTypes
<1>8. m.asset = a /\ m.version = v /\ m.fault = fault
    BY <1>7 DEF BookMsg
<1>9. Enqueue(m) /\ fetched' = fetched
    BY <1>1, <1>7 DEF ReceiveBook, workerVars
<1>10. BringsBook(m, at, at')
    BY <1>1, <1>2, <1>5, <1>6, <1>7, <1>8 DEF BringsBook
<1> QED
    BY <1>4, <1>9, <1>10, AlignedEnqueue DEF Brings

LEMMA AlignedChanges ==
    ASSUME FeedTypeOK, NEW start, AlignedAt(start), ReceiveChanges, faults' = 0
    PROVE  AlignedAt(start)'
<1>1. PICK N, who, bad, fault : Changed(N, who, bad, fault)
    BY ReceiveChangesFacts
<1>2. bad = 0 /\ fault = "none"
    <2>1. Faulty(bad # 0 \/ fault # "none")
        BY <1>1 DEF Changed
    <2> QED
        BY <2>1, NoFault
<1>3. PICK entries : entries = EntriesOf(who, bad)
    OBVIOUS
<1>4. N \in Nat \ {0} /\ who \in [1 .. N -> Assets] /\ entries \in Seq(Entries) /\ Len(entries) = N
    BY <1>1, <1>3, EntriesTyped DEF Changed
<1>5. \A i \in 1 .. N :
          entries[i] = [asset |-> who[i],
                        version |-> at[who[i]] + ChangesOf(who, i, who[i]),
                        stated |-> at[who[i]] + ChangesOf(who, N, who[i]),
                        bad |-> i = bad]
    BY <1>1, <1>3, EntriesTyped DEF Changed
<1>6. ASSUME NEW i \in 1 .. N
      PROVE  /\ entries[i].asset = who[i]
             /\ entries[i].version = at[who[i]] + ChangesOf(who, i, who[i])
             /\ entries[i].stated = at[who[i]] + ChangesOf(who, N, who[i])
             /\ ~entries[i].bad
    <2>1. PICK w, v, s : /\ w = who[i]
                         /\ v = at[who[i]] + ChangesOf(who, i, who[i])
                         /\ s = at[who[i]] + ChangesOf(who, N, who[i])
        OBVIOUS
    <2>2. PICK x \in BOOLEAN : x = (i = bad) /\ ~x
        <3>1. i # bad /\ (i = bad) \in BOOLEAN
            BY <1>2
        <3> QED
            BY <3>1, Zenon
    <2>3. entries[i] = [asset |-> w, version |-> v, stated |-> s, bad |-> x]
        BY <1>5, <2>1, <2>2, Zenon
    <2> QED
        BY ONLY <2>1, <2>2, <2>3
<1>7. \A i \in 1 .. N : at[who[i]] # Unknown
    BY <1>1 DEF Changed
<1>8. Follows(entries, at, N, who)
    BY <1>4, <1>6, <1>7 DEF Follows
<1>9. PICK m \in Messages : m = ChangesMsg(entries, fault) /\ m \in ChangeMessages
    BY <1>2, <1>4, MessageTypes
<1>10. m.entries = entries /\ m.fault = "none"
    BY <1>2, <1>9 DEF ChangesMsg
<1>11. Enqueue(m) /\ at' = [a \in Assets |-> at[a] + ChangesOf(who, N, a)]
    BY <1>1, <1>3, <1>9 DEF Changed
<1>12. BringsChanges(m, at, at')
    BY <1>8, <1>9, <1>10, <1>11 DEF BringsChanges
<1>13. at' \in Marks
    BY ReceiveChangesTyped DEF FeedTypeOK, VenueTypeOK, Marks
<1>14. fetched' = fetched
    BY DEF ReceiveChanges, workerVars
<1> QED
    BY <1>11, <1>12, <1>13, <1>14, AlignedEnqueue DEF Brings

\* The dispatcher moves on to the marks its message leads to.
LEMMA AlignedDispatch ==
    ASSUME FeedTypeOK, NEW p \in Marks, AlignedAt(p), Dispatch
    PROVE  \E q \in Marks : Brings(Head(raw), p, q) /\ Keeps(q) /\ AlignedAt(q)'
<1>1. PICK type : Take(type)
    BY DEF Dispatch, DropBook, AcceptBook, DispatchChanges, DispatchTrade, DispatchLifecycle
<1>2. raw # << >> /\ raw' = Tail(raw) /\ UNCHANGED << at, fetched >>
    BY <1>1 DEF Take, venueVars, workerVars
<1>3. PICK c : Line(c, raw, at) /\ c[0] = p
    BY DEF AlignedAt
<1>4. raw \in Seq(Messages)
    BY DEF FeedTypeOK, VenueTypeOK
<1>5. PICK d : Line(d, Tail(raw), at) /\ d[0] \in Marks /\ Brings(Head(raw), c[0], d[0])
    BY <1>2, <1>3, <1>4, LineShrinks
<1>6. PICK q \in Marks : q = d[0] /\ Brings(Head(raw), p, q)
    BY <1>3, <1>5
<1>7. Keeps(q)
    BY <1>6, DispatchKeeps DEF AlignedAt
<1>8. Line(d, raw', at') /\ d[0] = q
    BY <1>2, <1>5, <1>6
<1>9. requests' = << >> /\ fetched' = NoFetch /\ Behind(shadow', lastHash', lastTs', q)
    BY <1>2, <1>7 DEF Keeps, AlignedAt
<1>10. AlignedAt(q)'
    BY <1>8, <1>9 DEF AlignedAt
<1> QED
    BY <1>6, <1>7, <1>10

LEMMA AlignedQuiet ==
    ASSUME FeedTypeOK, NEW p, AlignedAt(p), QuietFeed, faults' = 0
    PROVE  AlignedAt(p)'
<1>1. CASE (\E a \in Assets : VenueChanges(a) \/ DebounceEnds(a)) \/ Send
    <2>1. UNCHANGED << raw, at, shadow, lastHash, lastTs, requests, fetched >>
        BY <1>1 DEF VenueChanges, DebounceEnds, Send, venueVars, trackers, workerVars
    <2> QED
        BY <2>1, AlignedStays
<1>2. CASE Fetch \/ Inject
    BY <1>2 DEF Fetch, Inject, AlignedAt
<1>3. CASE \E a \in Assets : ReceiveBook(a)
    BY <1>3, AlignedBook
<1> QED
    BY <1>1, <1>2, <1>3, AlignedConnection, AlignedChanges DEF QuietFeed

\* A fault is never forgotten.
LEMMA FaultsOnlyGrow ==
    ASSUME FeedTypeOK, QuietFeed \/ Dispatch
    PROVE  faults \in Nat /\ (faults' = faults \/ faults' = faults + 1)
<1>1. faults \in Nat
    BY DEF FeedTypeOK, VenueTypeOK
<1>2. \A is : Faulty(is) => faults' = faults \/ faults' = faults + 1
    BY DEF Faulty
<1>3. CASE \E a \in Assets : ReceiveBook(a)
    BY <1>1, <1>2, <1>3 DEF ReceiveBook
<1>4. CASE ReceiveChanges
    <2>1. PICK N, who, bad, fault : Changed(N, who, bad, fault)
        BY <1>4, ReceiveChangesFacts
    <2> QED
        BY <1>1, <1>2, <2>1 DEF Changed
<1>5. CASE ReceiveTrade
    BY <1>1, <1>2, <1>5 DEF ReceiveTrade
<1>6. CASE Connect \/ Disconnect \/ Inject
    BY <1>1, <1>6 DEF Connect, Disconnect, Inject
<1>7. CASE (\E a \in Assets : VenueChanges(a) \/ DebounceEnds(a)) \/ Send \/ Fetch
    BY <1>1, <1>7 DEF VenueChanges, DebounceEnds, Send, Fetch, venueVars
<1>8. CASE Dispatch
    BY <1>1, <1>8 DEF Dispatch, DropBook, AcceptBook, DispatchChanges, DispatchTrade, DispatchLifecycle,
        Take, venueVars
<1> QED
    BY <1>3, <1>4, <1>5, <1>6, <1>7, <1>8 DEF QuietFeed
===============================================================================
