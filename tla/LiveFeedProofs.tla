---------------------------- MODULE LiveFeedProofs ----------------------------
(***************************************************************************)
(* The feed and the read model together, for any assets, active sets and   *)
(* bounds: no change of a book that is served stays unsaid, a checkpoint   *)
(* never replaces a book that follows the venue, what readers see is the   *)
(* projector's state, and what it serves is the venue's book.              *)
(***************************************************************************)
EXTENDS LiveFeed, LiveStateProofs, FeedLemmas

\* Readiness, the views and the active set are only touched by the projector.
LEMMA OthersKeepViews ==
    ASSUME PublishedInv, UNCHANGED lvars
    PROVE  PublishedInv' /\ Announced
<1>1. PublishedInv'
  BY DEF lvars, PublishedInv
<1>2. Announced
  BY DEF lvars, Announced, Serves
<1>3. QED  BY <1>1, <1>2

\* Every step keeps the views right, and announces what it changes in them.
LEMMA LiveFeedStep ==
    ASSUME PublishedInv, [Next]_vars
    PROVE  PublishedInv' /\ Announced
<1>1. CASE FeedStep
  BY <1>1, OthersKeepViews DEF FeedStep
<1>2. CASE Producer
  BY <1>2, OthersKeepViews DEF Producer, PollBook, SendCheckpoint
<1>3. CASE Apply
  BY <1>3, ApplyRecordPublishes DEF Apply
<1>4. CASE Rotate
  <2>1. PICK S \in ActiveSets : SetActive(S)
    BY <1>4 DEF Rotate
  <2>2. S \in SUBSET Assets
    BY LiveFeedAssumption
  <2>3. PublishedInv'
    BY <2>1, <2>2, SetActiveKeepsViews
  <2>4. Announced
    <3>. SUFFICES ASSUME NEW a \in active' \cap active, Serves(published', a),
                         Serves(published, a) => published'.view[a].book # published.view[a].book
                  PROVE  FALSE
      BY DEF Announced
    <3>1. ready[a] /\ published'.view[a].book = book[a].size
      BY <2>1, <2>2, SetActiveKeepsViews DEF Serves
    <3>2. a \in known /\ a \in Assets
      BY <3>1 DEF PublishedInv
    <3>3. Serves(published, a) /\ published.view[a].book = book[a].size
      BY <3>1, <3>2 DEF PublishedInv, Serves
    <3>4. QED  BY <3>1, <3>3
  <2>5. QED  BY <2>3, <2>4
<1>5. CASE UNCHANGED vars
  BY <1>5, OthersKeepViews DEF vars
<1>6. QED  BY <1>1, <1>2, <1>3, <1>4, <1>5 DEF Next

\* Whatever a record, a checkpoint or a rotation changes in a book that is served is
\* broadcast with the book it leads to (apply_and_broadcast, broadcast_assets).
THEOREM ChangesAreBroadcast == Spec => NothingSilent
<1>1. LiveFeedInit => PublishedInv
  BY PublishedInit DEF LiveFeedInit
<1>2. PublishedInv /\ [Next]_vars => PublishedInv' /\ Announced
  BY LiveFeedStep
<1>3. PublishedInv /\ [Next]_vars => [Announced]_vars
  BY <1>2
<1>4. QED  BY <1>1, <1>2, <1>3, PTL DEF Spec, NothingSilent, Announced

\* A book that is ready is not seeded, so what it was built from stays "whole"
\* (apply_record, the Checkpoint arm).
LEMMA ReadyIsNotSeeded ==
    ASSUME PublishedInv, NEW rec, NEW a \in Assets, ready[a]
    PROVE  NewBasis(rec, a) # "checkpoint" \/ NewBasis(rec, a) = basis[a]
BY DEF PublishedInv, NewBasis, Seeds, MatReady

\* No checkpoint, however late it arrives, replaces a book that a whole snapshot of the
\* venue initialized, unless the asset left the active set in between.
THEOREM CheckpointsOnlySeed == Spec => LiveBeatsCheckpoint
<1>1. LiveFeedInit => PublishedInv
  BY PublishedInit DEF LiveFeedInit
<1>2. PublishedInv /\ [Next]_vars => PublishedInv'
  BY LiveFeedStep
<1>. DEFINE Kept == \A a \in Assets : ready[a] /\ basis[a] = "whole" => basis'[a] # "checkpoint"
<1>3. ASSUME PublishedInv, [Next]_vars PROVE Kept
  <2>. SUFFICES ASSUME NEW a \in Assets, ready[a], basis[a] = "whole"
                PROVE  basis'[a] # "checkpoint"
    OBVIOUS
  <2>1. CASE FeedStep \/ Producer \/ UNCHANGED vars
    BY <2>1 DEF FeedStep, Producer, PollBook, SendCheckpoint, vars
  <2>2. CASE Apply
    <3>1. basis'[a] = NewBasis(Head(events), a)
      BY <2>2 DEF Apply
    <3>2. NewBasis(Head(events), a) # "checkpoint" \/ NewBasis(Head(events), a) = basis[a]
      BY <1>3, ReadyIsNotSeeded
    <3>3. QED  BY <3>1, <3>2
  <2>3. CASE Rotate
    <3>1. PICK S \in ActiveSets : basis' = [b \in Assets |-> IF b \in S THEN basis[b] ELSE "none"]
      BY <2>3 DEF Rotate
    <3>2. QED  BY <3>1
  <2>4. QED  BY <1>3, <2>1, <2>2, <2>3 DEF Next
<1>. HIDE DEF Kept
<1>4. PublishedInv /\ [Next]_vars => [Kept]_vars
  BY <1>3
<1>5. QED  BY <1>1, <1>2, <1>4, PTL DEF Spec, LiveBeatsCheckpoint, Kept
------------------------------------------------------------------------------
(***************************************************************************)
(* The total of a side is the sum of its sizes, along an enumeration of    *)
(* the levels.                                                             *)
(***************************************************************************)
LevelCount == Cardinality(Levels)

Nth == CHOOSE e : e \in Bijection(1 .. LevelCount, Levels)

\* What the level at position i adds to side s.
Part(sizes, s, i) == IF Nth[i].side = s THEN sizes[Nth[i]] ELSE 0

SumsUp(g, sizes, s) ==
    /\ g \in [0 .. LevelCount -> Int] /\ g[0] = 0
    /\ \A i \in 1 .. LevelCount : g[i] = g[i - 1] + Part(sizes, s, i)

IsSum(n, sizes, s) == \E g : SumsUp(g, sizes, s) /\ g[LevelCount] = n

\* The running totals of a book are right.
Consistent(b) == \A s \in Sides : IsSum(b.total[s], b.size, s)

LEMMA NthFacts ==
    /\ LevelCount \in Nat /\ Nth \in [1 .. LevelCount -> Levels]
    /\ \A l \in Levels : \E k \in 1 .. LevelCount : Nth[k] = l /\ \A i \in 1 .. LevelCount : Nth[i] = l => i = k
<1>1. LevelCount \in Nat /\ ExistsBijection(1 .. LevelCount, Levels)
  BY LevelsFinite, FS_CardinalityType DEF LevelCount
<1>2. Nth \in Bijection(1 .. LevelCount, Levels)
  BY <1>1 DEF Nth, ExistsBijection
<1>3. /\ Nth \in [1 .. LevelCount -> Levels]
      /\ \A i \in 1 .. LevelCount, k \in 1 .. LevelCount : Nth[i] = Nth[k] => i = k
      /\ \A l \in Levels : \E k \in 1 .. LevelCount : Nth[k] = l
  BY <1>2 DEF Bijection, Injection, Surjection, IsInjective
<1>4. QED  BY <1>1, <1>3

LEMMA EmptySum ==
    ASSUME NEW s
    PROVE  IsSum(0, [l \in Levels |-> 0], s)
<1>1. PICK g : g = [i \in 0 .. LevelCount |-> 0]
  OBVIOUS
<1>2. PICK sizes : sizes = [l \in Levels |-> 0]
  OBVIOUS
<1>3. g \in [0 .. LevelCount -> Int] /\ \A i \in 0 .. LevelCount : g[i] = 0
  BY <1>1
<1>4. 0 \in 0 .. LevelCount /\ LevelCount \in 0 .. LevelCount
      /\ \A i \in 1 .. LevelCount : i \in 0 .. LevelCount /\ i - 1 \in 0 .. LevelCount
  BY NthFacts
<1>5. \A i \in 1 .. LevelCount : Part(sizes, s, i) = 0
  BY <1>2, NthFacts DEF Part
<1>6. SumsUp(g, sizes, s) /\ g[LevelCount] = 0
  BY <1>3, <1>4, <1>5 DEF SumsUp
<1>7. QED  BY <1>2, <1>6 DEF IsSum

\* A size that changes changes the sum of its side.
LEMMA SumChanges ==
    ASSUME NEW sizes \in [Levels -> Nat], NEW s, NEW n, IsSum(n, sizes, s), NEW l \in Levels, NEW q \in Nat
    PROVE  /\ n \in Int
           /\ IsSum(IF l.side = s THEN n - sizes[l] + q ELSE n, [sizes EXCEPT ![l] = q], s)
<1>1. PICK g : SumsUp(g, sizes, s) /\ g[LevelCount] = n
  BY DEF IsSum
<1>2. PICK N \in Nat : N = LevelCount
  BY NthFacts
<1>3. /\ g \in [0 .. N -> Int] /\ g[0] = 0 /\ g[N] = n
      /\ \A i \in 1 .. N : g[i] = g[i - 1] + Part(sizes, s, i)
  BY <1>1, <1>2 DEF SumsUp
<1>4. PICK k \in 1 .. N : Nth[k] = l /\ \A i \in 1 .. N : Nth[i] = l => i = k
  BY <1>2, NthFacts
<1>5. PICK new \in [Levels -> Nat] :
          /\ new = [sizes EXCEPT ![l] = q] /\ new[l] = q
          /\ \A m \in Levels : m # l => new[m] = sizes[m]
  <2>1. [sizes EXCEPT ![l] = q] \in [Levels -> Nat]
    OBVIOUS
  <2>2. QED  BY <2>1
<1>6. PICK old \in Nat : old = sizes[l]
  OBVIOUS
<1>7. PICK d \in Int : (l.side = s => d = q - old) /\ (l.side # s => d = 0)
  <2>1. CASE l.side = s
    <3>1. q - old \in Int
      OBVIOUS
    <3>2. QED  BY <2>1, <3>1
  <2>2. CASE l.side # s
    BY <2>2
  <2>3. QED  BY <2>1, <2>2
<1>8. \A i \in 1 .. N : Part(new, s, i) = IF i = k THEN Part(sizes, s, i) + d ELSE Part(sizes, s, i)
  <2>. TAKE i \in 1 .. N
  <2>1. Nth[i] \in Levels /\ sizes[Nth[i]] \in Nat
    BY <1>2, NthFacts
  <2>2. CASE i = k
    BY <1>4, <1>5, <1>6, <1>7, <2>2 DEF Part
  <2>3. CASE i # k
    BY <1>4, <1>5, <2>1, <2>3 DEF Part
  <2>4. QED  BY <2>2, <2>3
<1>9. \A i \in 1 .. N : Part(sizes, s, i) \in Int
  BY <1>2, NthFacts DEF Part
<1>10. PICK h : h = [i \in 0 .. N |-> IF i >= k THEN g[i] + d ELSE g[i]]
  OBVIOUS
<1>11. h \in [0 .. N -> Int] /\ \A i \in 0 .. N : h[i] = IF i >= k THEN g[i] + d ELSE g[i]
  BY <1>3, <1>10
<1>12. h[0] = 0 /\ h[N] = n + d
  <2>1. 0 \in 0 .. N /\ ~(0 >= k) /\ N \in 0 .. N /\ N >= k
    OBVIOUS
  <2>2. QED  BY <1>3, <1>11, <2>1
<1>13. \A i \in 1 .. N : h[i] = h[i - 1] + Part(new, s, i)
  <2>. TAKE i \in 1 .. N
  <2>1. i \in 0 .. N /\ i - 1 \in 0 .. N /\ g[i] \in Int /\ g[i - 1] \in Int
    BY <1>3
  <2>2. g[i] = g[i - 1] + Part(sizes, s, i)
    BY <1>3
  <2>3. CASE i = k
    <3>1. h[i] = g[i] + d /\ h[i - 1] = g[i - 1]
      BY <1>11, <2>1, <2>3
    <3>2. QED  BY <1>8, <1>9, <2>1, <2>2, <2>3, <3>1
  <2>4. CASE i > k
    <3>1. h[i] = g[i] + d /\ h[i - 1] = g[i - 1] + d
      BY <1>11, <2>1, <2>4
    <3>2. QED  BY <1>8, <1>9, <2>1, <2>2, <2>4, <3>1
  <2>5. CASE i < k
    <3>1. h[i] = g[i] /\ h[i - 1] = g[i - 1]
      BY <1>11, <2>1, <2>5
    <3>2. QED  BY <1>8, <1>9, <2>1, <2>2, <2>5, <3>1
  <2>6. QED  BY <2>3, <2>4, <2>5
<1>14. SumsUp(h, new, s) /\ h[LevelCount] = n + d
  BY <1>2, <1>11, <1>12, <1>13 DEF SumsUp
<1>15. n \in Int
  BY <1>3
<1>16. n + d = IF l.side = s THEN n - sizes[l] + q ELSE n
  BY <1>6, <1>7, <1>15
<1>17. QED  BY <1>5, <1>14, <1>15, <1>16 DEF IsSum

\* Larger sizes have a larger sum; the sum is unique.
LEMMA SumGrows ==
    ASSUME NEW f \in [Levels -> Nat], NEW h \in [Levels -> Nat], \A l \in Levels : f[l] <= h[l],
           NEW s, NEW n, NEW m, IsSum(n, f, s), IsSum(m, h, s)
    PROVE  n \in Int /\ m \in Int /\ n <= m
<1>1. PICK x, y : SumsUp(x, f, s) /\ x[LevelCount] = n /\ SumsUp(y, h, s) /\ y[LevelCount] = m
  BY DEF IsSum
<1>2. PICK N \in Nat : N = LevelCount
  BY NthFacts
<1>3. /\ x \in [0 .. N -> Int] /\ x[0] = 0 /\ x[N] = n
      /\ \A i \in 1 .. N : x[i] = x[i - 1] + Part(f, s, i)
  BY <1>1, <1>2 DEF SumsUp
<1>4. /\ y \in [0 .. N -> Int] /\ y[0] = 0 /\ y[N] = m
      /\ \A i \in 1 .. N : y[i] = y[i - 1] + Part(h, s, i)
  BY <1>1, <1>2 DEF SumsUp
<1>5. \A i \in 1 .. N : Part(f, s, i) \in Int /\ Part(h, s, i) \in Int /\ Part(f, s, i) <= Part(h, s, i)
  BY <1>2, NthFacts DEF Part
<1>. DEFINE T == {i \in 0 .. N : x[i] <= y[i]}
<1>6. 0 \in T
  BY <1>3, <1>4
<1>7. ASSUME NEW i \in 1 .. N, i - 1 \in T PROVE i \in T
  <2>1. /\ i \in 0 .. N /\ i - 1 \in 0 .. N /\ x[i - 1] \in Int /\ y[i - 1] \in Int
        /\ x[i] = x[i - 1] + Part(f, s, i) /\ y[i] = y[i - 1] + Part(h, s, i)
    BY <1>3, <1>4
  <2>2. x[i - 1] <= y[i - 1]
    BY <1>7
  <2>3. QED  BY <1>5, <2>1, <2>2
<1>. HIDE DEF T
<1>8. \A i \in 0 .. N : i \in T
  BY <1>6, <1>7, Climb
<1>9. N \in 0 .. N
  OBVIOUS
<1>10. x[N] <= y[N]
  BY <1>8, <1>9 DEF T
<1>11. QED  BY <1>3, <1>4, <1>9, <1>10

\* The books that rows and deltas build are consistent.
LEMMA EmptyConsistent == Consistent(EmptyBook)
<1>. SUFFICES ASSUME NEW s \in Sides PROVE IsSum(EmptyBook.total[s], EmptyBook.size, s)
  BY DEF Consistent
<1>1. EmptyBook.total[s] = 0 /\ EmptyBook.size = [l \in Levels |-> 0]
  BY DEF EmptyBook
<1>2. QED  BY <1>1, EmptySum

LEMMA SetLevelConsistent ==
    ASSUME NEW b \in Books, Consistent(b), NEW l \in Levels, NEW q \in Nat
    PROVE  /\ Consistent(SetLevel(b, l, q)) /\ SetLevel(b, l, q) \in Books
           /\ SetLevel(b, l, q).size = [b.size EXCEPT ![l] = q]
           /\ SetLevel(b, l, q).total[l.side] = b.total[l.side] - b.size[l] + q
<1>1. b.size \in [Levels -> Nat] /\ b.total \in [Sides -> Int] /\ l.side \in Sides
  BY DEF Books, Levels
<1>2. PICK c \in Books : c = SetLevel(b, l, q) /\ c.size = [b.size EXCEPT ![l] = q]
  BY SetLevelFacts
<1>3. c.total = [b.total EXCEPT ![l.side] = b.total[l.side] - b.size[l] + q]
  BY <1>2 DEF SetLevel
<1>4. \A s \in Sides : c.total[s] = IF l.side = s THEN b.total[s] - b.size[l] + q ELSE b.total[s]
  BY <1>1, <1>3
<1>5. ASSUME NEW s \in Sides PROVE IsSum(c.total[s], c.size, s)
  <2>1. IsSum(b.total[s], b.size, s)
    BY DEF Consistent
  <2>2. IsSum(IF l.side = s THEN b.total[s] - b.size[l] + q ELSE b.total[s], [b.size EXCEPT ![l] = q], s)
    BY <1>1, <2>1, SumChanges
  <2>3. QED  BY <1>2, <1>4, <2>2
<1>6. QED  BY <1>1, <1>2, <1>4, <1>5 DEF Consistent

\* Smaller books have smaller totals.
LEMMA TotalGrows ==
    ASSUME NEW b \in Books, NEW c \in Books, Consistent(b), Consistent(c),
           \A l \in Levels : b.size[l] <= c.size[l], NEW s \in Sides
    PROVE  b.total[s] <= c.total[s]
<1>1. b.size \in [Levels -> Nat] /\ c.size \in [Levels -> Nat]
  BY DEF Books
<1>2. IsSum(b.total[s], b.size, s) /\ IsSum(c.total[s], c.size, s)
  BY DEF Consistent
<1>3. QED  BY <1>1, <1>2, SumGrows

------------------------------------------------------------------------------
(***************************************************************************)
(* Which rows fit.                                                         *)
(***************************************************************************)
Fits(b) == \A s \in Sides : b.total[s] <= MaxTotal

\* What rows build is consistent, and fits if the rows were taken.
LEMMA RowsConsistent ==
    ASSUME NEW rows \in Seq(Rows), NEW f, SnapshotSteps(f, rows)
    PROVE  \A i \in 0 .. Len(rows) : Consistent(f[i].book) /\ Fits(f[i].book)
<1>1. PICK N \in Nat : N = Len(rows)
  OBVIOUS
<1>2. /\ f \in [0 .. N -> Taken] /\ f[0] = [ok |-> TRUE, book |-> EmptyBook]
      /\ \A i \in 1 .. N : f[i] = TakeRow(f[i - 1], rows[i])
  BY <1>1 DEF SnapshotSteps
<1>. DEFINE Good(acc) == Consistent(acc.book) /\ Fits(acc.book)
            T == {i \in 0 .. N : Good(f[i])}
<1>3. 0 \in T
  <2>1. f[0].book = EmptyBook /\ Fits(EmptyBook)
    BY <1>2, BookAssumption DEF Fits, EmptyBook
  <2>2. QED  BY <2>1, EmptyConsistent
<1>4. ASSUME NEW i \in 1 .. N, i - 1 \in T PROVE i \in T
  <2>1. PICK acc \in Taken, r \in Rows : acc = f[i - 1] /\ r = rows[i] /\ f[i] = TakeRow(acc, r)
    <3>1. i - 1 \in 0 .. N /\ rows[i] \in Rows
      BY <1>1
    <3>2. QED  BY <1>2, <3>1
  <2>2. Good(acc)
    BY <1>4, <2>1
  <2>3. /\ acc.ok \in BOOLEAN /\ acc.book \in Books /\ acc = [ok |-> acc.ok, book |-> acc.book]
        /\ r.level \in Levels /\ r.size \in Nat /\ r.level.side \in Sides
    BY DEF Taken, Rows, Levels
  <2>4. CASE r.size = 0 \/ ~acc.ok
    BY <2>1, <2>2, <2>4 DEF TakeRow
  <2>5. CASE ~(r.size = 0 \/ ~acc.ok) /\ DeltaFits(acc.book, r.level, r.size)
    <3>1. PICK c \in Books :
            /\ c = SetLevel(acc.book, r.level, r.size) /\ Consistent(c)
            /\ c.total[r.level.side] = acc.book.total[r.level.side] - acc.book.size[r.level] + r.size
            /\ \A s \in Sides : s # r.level.side => c.total[s] = acc.book.total[s]
      <4>1. PICK old \in Books, at0 \in Levels, n \in Nat :
              old = acc.book /\ at0 = r.level /\ n = r.size /\ Consistent(old)
        BY <2>2, <2>3
      <4>2. /\ SetLevel(old, at0, n) \in Books /\ Consistent(SetLevel(old, at0, n))
            /\ SetLevel(old, at0, n).total[at0.side] = old.total[at0.side] - old.size[at0] + n
        BY SetLevelConsistent, <4>1, ZenonT(60)
      <4>3. ASSUME NEW s \in Sides, s # at0.side PROVE SetLevel(old, at0, n).total[s] = old.total[s]
        BY <4>1, <4>3 DEF SetLevel, Books
      <4>4. QED  BY <4>1, <4>2, <4>3
    <3>2. c.total[r.level.side] <= MaxTotal
      BY <2>5, <3>1 DEF DeltaFits
    <3>3. Fits(c)
      BY <2>2, <3>1, <3>2 DEF Fits
    <3>4. f[i].book = c
      BY <2>1, <2>3, <2>5, <3>1 DEF TakeRow
    <3>5. QED  BY <3>1, <3>3, <3>4
  <2>6. CASE ~(r.size = 0 \/ ~acc.ok) /\ ~DeltaFits(acc.book, r.level, r.size)
    <3>1. f[i].book = acc.book
      BY <2>1, <2>3, <2>6 DEF TakeRow
    <3>2. QED  BY <2>2, <3>1
  <2>7. QED  BY <2>4, <2>5, <2>6
<1>. HIDE DEF T
<1>5. \A i \in 0 .. N : i \in T
  BY <1>3, <1>4, Climb
<1>6. QED  BY <1>1, <1>5 DEF T

LEMMA SnapshotConsistent ==
    ASSUME NEW rows \in Seq(Rows)
    PROVE  Snapshot(rows) \in Taken /\ Consistent(Snapshot(rows).book) /\ Fits(Snapshot(rows).book)
<1>1. PICK f : SnapshotSteps(f, rows)
  BY SnapshotFacts
<1>2. Snapshot(rows) = f[Len(rows)] /\ f \in [0 .. Len(rows) -> Taken] /\ Len(rows) \in 0 .. Len(rows)
  BY <1>1 DEF SnapshotSteps
<1>3. QED  BY <1>1, <1>2, RowsConsistent

\* Rows that a book has, in any order and number, are always taken, if its sides fit.
LEMMA RowsFit ==
    ASSUME NEW b \in Books, Consistent(b), Fits(b), NEW rows \in Seq(Rows),
           \A i \in 1 .. Len(rows) : rows[i].size = b.size[rows[i].level]
    PROVE  Snapshot(rows).ok
<1>1. PICK N \in Nat : N = Len(rows)
  OBVIOUS
<1>2. PICK f : SnapshotSteps(f, rows)
  BY SnapshotFacts
<1>3. /\ f \in [0 .. N -> Taken] /\ f[0] = [ok |-> TRUE, book |-> EmptyBook]
      /\ \A i \in 1 .. N : f[i] = TakeRow(f[i - 1], rows[i])
      /\ Snapshot(rows) = f[N]
  BY <1>1, <1>2 DEF SnapshotSteps
<1>4. b.size \in [Levels -> Nat] /\ b.total \in [Sides -> Int] /\ MaxTotal \in Nat
  BY BookAssumption DEF Books
<1>. DEFINE Within(acc) == acc.ok /\ \A l \in Levels : acc.book.size[l] <= b.size[l]
            T == {i \in 0 .. N : Within(f[i])}
<1>5. 0 \in T
  <2>1. f[0].ok /\ f[0].book = EmptyBook /\ \A l \in Levels : EmptyBook.size[l] = 0
    BY <1>3 DEF EmptyBook
  <2>2. QED  BY <1>4, <2>1
<1>6. ASSUME NEW i \in 1 .. N, i - 1 \in T PROVE i \in T
  <2>1. i - 1 \in 0 .. N /\ rows[i] \in Rows
    BY <1>1
  <2>2. PICK acc \in Taken, r \in Rows : acc = f[i - 1] /\ r = rows[i] /\ f[i] = TakeRow(acc, r)
    BY <1>3, <2>1
  <2>3. Within(acc) /\ Consistent(acc.book)
    BY <1>1, <1>2, <1>6, <2>1, <2>2, RowsConsistent
  <2>4. /\ acc.ok = TRUE /\ acc.book \in Books /\ acc = [ok |-> acc.ok, book |-> acc.book]
        /\ acc.book.size \in [Levels -> Nat]
        /\ r.level \in Levels /\ r.size \in Nat /\ r.level.side \in Sides
    BY <2>3 DEF Taken, Rows, Levels, Books
  <2>5. r.size = b.size[r.level]
    BY <1>1, <2>2
  <2>6. CASE r.size = 0
    BY <2>2, <2>3, <2>6 DEF TakeRow
  <2>7. CASE r.size # 0
    <3>1. PICK c \in Books :
            /\ c = SetLevel(acc.book, r.level, r.size) /\ Consistent(c)
            /\ c.size = [acc.book.size EXCEPT ![r.level] = r.size]
            /\ c.total[r.level.side] = acc.book.total[r.level.side] - acc.book.size[r.level] + r.size
      BY <2>3, <2>4, SetLevelConsistent
    <3>2. \A l \in Levels : c.size[l] <= b.size[l]
      BY <1>4, <2>3, <2>4, <2>5, <3>1
    <3>3. c.total[r.level.side] <= b.total[r.level.side]
      BY <2>4, <3>1, <3>2, TotalGrows
    <3>4. c.total[r.level.side] \in Int /\ b.total[r.level.side] <= MaxTotal /\ b.total[r.level.side] \in Int
      BY <1>4, <2>4 DEF Books, Fits
    <3>5. c.total[r.level.side] <= MaxTotal
      BY <1>4, <3>3, <3>4
    <3>6. DeltaFits(acc.book, r.level, r.size)
      BY <3>1, <3>5 DEF DeltaFits
    <3>7. f[i].ok /\ f[i].book = c
      BY <2>2, <2>4, <2>7, <3>1, <3>6 DEF TakeRow
    <3>8. QED  BY <3>2, <3>7
  <2>8. QED  BY <2>6, <2>7
<1>. HIDE DEF T
<1>7. \A i \in 0 .. N : i \in T
  BY <1>5, <1>6, Climb
<1>8. N \in 0 .. N
  OBVIOUS
<1>9. QED  BY <1>3, <1>7, <1>8 DEF T

\* If all the rows of a book are taken, any of them are, in any order and number.
LEMMA SomeRowsFit ==
    ASSUME NEW b \in Books, Snapshot(RowsOf(b)).ok, NEW rows \in Seq(Rows),
           \A i \in 1 .. Len(rows) : \E k \in 1 .. Len(RowsOf(b)) : rows[i] = RowsOf(b)[k]
    PROVE  Snapshot(rows).ok
<1>1. PICK c \in Books : c = Snapshot(RowsOf(b)).book /\ c.size = b.size
  BY SnapshotIsBook
<1>2. Consistent(c) /\ Fits(c)
  BY <1>1, RowsFacts, SnapshotConsistent
<1>3. \A i \in 1 .. Len(rows) : rows[i].size = c.size[rows[i].level]
  BY <1>1, RowsFacts
<1>4. QED  BY <1>2, <1>3, RowsFit

------------------------------------------------------------------------------
(***************************************************************************)
(* The rows on the way to the projector, and those that wait there, are    *)
(* rows of snapshots that the dispatcher has taken.                        *)
(***************************************************************************)
CheckpointRecords == [kind : {"checkpoint"}, asset : Assets, rows : Seq(Rows)]

\* The version a snapshot shows, and its rows.
Shown(v) == RowsOf(VenueAt[v])

\* A row of the snapshot at version v, which was taken.
RowOf(v, row) == v \in Reached /\ Snapshot(Shown(v)).ok /\ \E i \in 1 .. Len(Shown(v)) : row = Shown(v)[i]

RowsTaken(records) ==
    \A i \in 1 .. Len(records) : records[i].kind = "snapshot" => RowOf(records[i].key[1], records[i].row)

ChannelTypeOK ==
    /\ events \in Seq(FeedRecords \cup CheckpointRecords)
    /\ polled \in [asset : Assets, version : Reached] \cup {NoFetch}

\* What waits for an asset: some rows of one snapshot.
Waiting(p) ==
    p # NoPending => /\ p.key \in Keys /\ p.rows \in Seq(Rows)
                     /\ \A i \in 1 .. Len(p.rows) : RowOf(p.key[1], p.rows[i])

RowsInv ==
    /\ FeedTypeOK /\ ChannelTypeOK
    /\ RowsTaken(events) /\ RowsTaken(outbox)
    /\ \A a \in Assets : Waiting(pending[a])
    /\ DOMAIN pending = Assets

LEMMA ShownFacts ==
    ASSUME NEW v \in Reached
    PROVE  /\ VenueAt[v] \in Books /\ Shown(v) \in Seq(Rows)
           /\ \A rows \in Seq(Rows) : (\A i \in 1 .. Len(rows) : RowOf(v, rows[i])) /\ Snapshot(Shown(v)).ok
                                      => Snapshot(rows).ok
<1>1. VenueAt[v] \in Books
  BY ConstantFacts, VenueFacts
<1>2. Shown(v) \in Seq(Rows)
  BY <1>1, RowsFacts DEF Shown
<1>3. ASSUME NEW rows \in Seq(Rows), \A i \in 1 .. Len(rows) : RowOf(v, rows[i]), Snapshot(Shown(v)).ok
      PROVE  Snapshot(rows).ok
  BY <1>1, <1>3, SomeRowsFit DEF RowOf, Shown
<1>4. QED  BY <1>1, <1>2, <1>3

\* A group that waits gives a book whenever it ends.
LEMMA WaitingMaterializes ==
    ASSUME RowsInv, NEW rec
    PROVE  Materialized(rec) = EndedGroups(rec)
<1>. SUFFICES ASSUME NEW a \in EndedGroups(rec) PROVE Snapshot(pending[a].rows).ok
  BY DEF Materialized
<1>1. a \in Assets /\ pending[a] # NoPending
  BY DEF EndedGroups, HasPending
<1>2. PICK rows \in Seq(Rows), v \in Versions :
        rows = pending[a].rows /\ \A i \in 1 .. Len(rows) : RowOf(v, rows[i])
  BY <1>1 DEF RowsInv, Waiting, Keys
<1>3. CASE Len(rows) = 0
  <2>1. \A i \in 1 .. Len(rows) : rows[i].size = EmptyBook.size[rows[i].level]
    BY <1>3
  <2>2. Fits(EmptyBook)
    BY BookAssumption DEF Fits, EmptyBook
  <2>3. QED  BY <1>2, <2>1, <2>2, EmptyConsistent, EmptyBookFacts, RowsFit
<1>4. CASE Len(rows) # 0
  <2>1. 1 \in 1 .. Len(rows)
    BY <1>4
  <2>2. RowOf(v, rows[1])
    BY <1>2, <2>1
  <2>3. v \in Reached /\ Snapshot(Shown(v)).ok
    BY <2>2 DEF RowOf
  <2>4. QED  BY <1>2, <2>3, ShownFacts
<1>5. QED  BY <1>3, <1>4

LEMMA RowsTakenAppend ==
    ASSUME NEW S, NEW records \in Seq(S), NEW r, RowsTaken(records),
           r.kind = "snapshot" => RowOf(r.key[1], r.row)
    PROVE  RowsTaken(Append(records, r))
<1>1. PICK N \in Nat : N = Len(records)
  OBVIOUS
<1>2. PICK longer : longer = Append(records, r)
  OBVIOUS
<1>3. Len(longer) = N + 1 /\ longer[N + 1] = r /\ \A i \in 1 .. N : longer[i] = records[i]
  BY <1>1, <1>2
<1>4. \A i \in 1 .. N + 1 : i = N + 1 \/ i \in 1 .. N
  OBVIOUS
<1>5. RowsTaken(longer)
  BY <1>1, <1>3, <1>4 DEF RowsTaken
<1>6. QED  BY <1>2, <1>5

LEMMA RowsTakenTail ==
    ASSUME NEW S, NEW records \in Seq(S), RowsTaken(records), records # << >>
    PROVE  /\ RowsTaken(Tail(records))
           /\ Head(records) \in S
           /\ Head(records).kind = "snapshot" => RowOf(Head(records).key[1], Head(records).row)
<1>1. PICK N \in Nat : N = Len(records) /\ N > 0
  BY EmptySeq
<1>2. PICK rest : rest = Tail(records)
  OBVIOUS
<1>3. Len(rest) = N - 1 /\ Head(records) = records[1] /\ \A i \in 1 .. N - 1 : rest[i] = records[i + 1]
  BY <1>1, <1>2
<1>4. 1 \in 1 .. N /\ \A i \in 1 .. N - 1 : i + 1 \in 1 .. N
  BY <1>1
<1>5. RowsTaken(rest)
  BY <1>1, <1>3, <1>4 DEF RowsTaken
<1>6. QED  BY <1>1, <1>2, <1>3, <1>4, <1>5 DEF RowsTaken

\* A price_change makes no snapshot.
NoSnapshotIn(records) == \A i \in 1 .. Len(records) : records[i].kind # "snapshot"

LEMMA NoSnapshotAppend ==
    ASSUME NEW records \in Seq(FeedRecords), NoSnapshotIn(records), NEW r \in FeedRecords, r.kind # "snapshot"
    PROVE  NoSnapshotIn(Append(records, r)) /\ Append(records, r) \in Seq(FeedRecords)
<1>1. PICK N \in Nat : N = Len(records)
  OBVIOUS
<1>2. PICK longer : longer = Append(records, r)
  OBVIOUS
<1>3. longer \in Seq(FeedRecords) /\ Len(longer) = N + 1 /\ longer[N + 1] = r /\ \A i \in 1 .. N : longer[i] = records[i]
  BY <1>1, <1>2
<1>4. \A i \in 1 .. N + 1 : i = N + 1 \/ i \in 1 .. N
  OBVIOUS
<1>5. NoSnapshotIn(longer)
  BY <1>1, <1>3, <1>4 DEF NoSnapshotIn
<1>6. QED  BY <1>2, <1>3, <1>5

LEMMA ChangesNoSnapshot ==
    ASSUME DispatcherTypeOK, NEW entries \in Seq(Entries)
    PROVE  NoSnapshotIn(Dispatched(entries).out)
<1>1. PICK f : DispatchedSteps(f, entries)
  BY DispatchedFacts
<1>2. PICK N \in Nat : N = Len(entries)
  OBVIOUS
<1>3. /\ f \in [0 .. N -> Accs] /\ f[0].out = << >>
      /\ \A i \in 1 .. N : f[i] = DispatchEntry(f[i - 1], entries, i)
      /\ Dispatched(entries) = f[N]
  BY <1>1, <1>2 DEF DispatchedSteps
<1>. DEFINE T == {i \in 0 .. N : NoSnapshotIn(f[i].out)}
<1>4. 0 \in T
  BY <1>3 DEF NoSnapshotIn
<1>5. ASSUME NEW i \in 1 .. N, i - 1 \in T PROVE i \in T
  <2>1. i \in 0 .. N /\ i - 1 \in 0 .. N
    OBVIOUS
  <2>2. PICK acc \in Accs, next \in Accs, e \in Entries :
          acc = f[i - 1] /\ next = f[i] /\ e = entries[i]
    BY <1>2, <1>3, <2>1
  <2>3. EntryOutcome(acc, e, IsLastOf(entries, i), next)
    BY <1>2, <1>3, <2>2, EntryFacts
  <2>4. acc.out \in Seq(FeedRecords) /\ NoSnapshotIn(acc.out)
    BY <1>5, <2>2 DEF Accs
  <2>5. DeltaOf(acc, e) \in FeedRecords /\ DeltaOf(acc, e).kind = "delta" /\ e.asset \in Assets
    BY EntryParts
  <2>6. PICK sent \in Seq(FeedRecords) : sent = Append(acc.out, DeltaOf(acc, e)) /\ NoSnapshotIn(sent)
    BY <2>4, <2>5, NoSnapshotAppend
  <2>7. \A event \in {"source_reset", "book_mismatch"} :
          IngestRecord(event, e.asset) \in FeedRecords /\ IngestRecord(event, e.asset).kind = "ingest"
    <3>1. \A event \in Alarms, a \in Assets \cup {NoAsset} : IngestRecord(event, a) \in FeedRecords
      BY RecordTypes
    <3>2. \A event : IngestRecord(event, e.asset).kind = "ingest"
      BY DEF IngestRecord
    <3>3. {"source_reset", "book_mismatch"} \subseteq Alarms
      BY DEF Alarms
    <3>4. QED  BY <2>5, <3>1, <3>2, <3>3
  <2>8. \A event \in {"source_reset", "book_mismatch"} : NoSnapshotIn(Append(sent, IngestRecord(event, e.asset)))
    BY <2>6, <2>7, NoSnapshotAppend
  <2>9. NoSnapshotIn(next.out)
    <3>1. CASE Skipped(acc, e, next)
      BY <2>4, <3>1 DEF Skipped
    <3>2. CASE Forwarded(acc, e, next) \/ Followed(acc, e, next)
      BY <2>6, <3>2 DEF Forwarded, Followed
    <3>3. CASE Overflowed(acc, e, next)
      BY <2>6, <2>8, <3>3 DEF Overflowed
    <3>4. CASE Diverged(acc, e, IsLastOf(entries, i), next)
      BY <2>6, <2>8, <3>4 DEF Diverged
    <3>5. QED  BY <2>3, <3>1, <3>2, <3>3, <3>4 DEF EntryOutcome
  <2>10. QED  BY <2>1, <2>2, <2>9
<1>. HIDE DEF T
<1>6. \A i \in 0 .. N : i \in T
  BY <1>4, <1>5, Climb
<1>7. N \in 0 .. N
  OBVIOUS
<1>8. QED  BY <1>3, <1>6, <1>7 DEF T

\* The rows of a message that is taken over are those of the version it shows.
LEMMA TakenOverRows ==
    ASSUME FeedTypeOK, NEW m, NEW b, NEW rows, TakenOver(m, b, rows)
    PROVE  /\ m.asset \in Assets /\ m.version \in Reached /\ rows = Shown(m.version) /\ rows \in Seq(Rows)
           /\ Len(outbox') = Len(rows) /\ Key(m) = << m.version, turn[m.asset] >> /\ turn[m.asset] \in {0, 1}
           /\ \A i \in 1 .. Len(rows) : outbox'[i] = SnapshotRecord(m.asset, Key(m), rows[i], i - 1)
           /\ RowsTaken(outbox')
<1>1. m.asset \in Assets /\ m.version \in Reached /\ m = Head(raw)
  BY DEF TakenOver, BookMessages
<1>2. rows = Shown(m.version) /\ rows \in Seq(Rows) /\ Snapshot(rows).ok
  BY DEF TakenOver, Shown
<1>3. outbox' = [i \in DOMAIN rows |-> SnapshotRecord(m.asset, Key(m), rows[i], i - 1)]
  BY DEF TakenOver
<1>4. PICK N \in Nat : N = Len(rows) /\ DOMAIN rows = 1 .. N
  BY <1>2
<1>5. Key(m) = << m.version, turn[m.asset] >> /\ turn[m.asset] \in {0, 1}
  BY <1>1 DEF Key, FeedTypeOK, DispatcherTypeOK
<1>6. outbox' \in Seq(FeedRecords) /\ DOMAIN outbox' = 1 .. N
  BY <1>3, <1>4 DEF TakenOver
<1>7. Len(outbox') = N /\ \A i \in 1 .. N : outbox'[i] = SnapshotRecord(m.asset, Key(m), rows[i], i - 1)
  BY <1>3, <1>4, <1>6
<1>8. ASSUME NEW i \in 1 .. N PROVE RowOf(outbox'[i].key[1], outbox'[i].row)
  <2>1. outbox'[i].key = Key(m) /\ outbox'[i].row = rows[i]
    BY <1>7 DEF SnapshotRecord
  <2>2. outbox'[i].key[1] = m.version
    BY <1>5, <2>1
  <2>3. QED  BY <1>1, <1>2, <1>4, <2>1, <2>2 DEF RowOf
<1>9. QED  BY <1>1, <1>2, <1>4, <1>5, <1>7, <1>8 DEF RowsTaken

LEMMA DispatchRows ==
    ASSUME FeedTypeOK, Dispatch
    PROVE  RowsTaken(outbox')
<1>1. CASE AcceptBook
  BY <1>1, AcceptBookFacts, TakenOverRows
<1>2. CASE DropBook
  <2>1. PICK m, why : Dropped(m, why)
    BY <1>2, DropBookFacts
  <2>2. outbox' = << >> \/ \E event : outbox' = << IngestRecord(event, m.asset) >>
    BY <2>1 DEF Dropped
  <2>3. \A event : IngestRecord(event, m.asset).kind = "ingest"
    BY DEF IngestRecord
  <2>4. \A i \in 1 .. Len(outbox') : outbox'[i].kind = "ingest"
    BY <2>2, <2>3
  <2>5. QED  BY <2>4 DEF RowsTaken
<1>3. CASE DispatchChanges
  <2>1. PICK m, entries : Handled(m, entries)
    BY <1>3, DispatchChangesFacts
  <2>2. NoSnapshotIn(outbox')
    BY <2>1, ChangesNoSnapshot DEF Handled, FeedTypeOK
  <2>3. QED  BY <2>2 DEF NoSnapshotIn, RowsTaken
<1>4. CASE DispatchTrade \/ DispatchLifecycle
  <2>1. Silent(outbox')
    BY <1>4, DispatchTradeFacts, DispatchLifecycleFacts
  <2>2. QED  BY <2>1 DEF Silent, RowsTaken
<1>5. QED  BY <1>1, <1>2, <1>3, <1>4 DEF Dispatch

LEMMA RecordKinds ==
    ASSUME NEW r \in FeedRecords \cup CheckpointRecords
    PROVE  /\ r.kind = "snapshot" => r \in SnapshotRecords
           /\ r.kind = "delta" => r \in DeltaRecords
           /\ r.kind = "checkpoint" => r \in CheckpointRecords
           /\ r.kind \in {"snapshot", "delta", "ingest", "trade", "checkpoint"}
BY DEF FeedRecords, SnapshotRecords, DeltaRecords, IngestRecords, TradeRecord, CheckpointRecords

LEMMA NoPendingFacts ==
    /\ NoPending.rows = << >> /\ NoPending.key = << >> /\ << >> \in Seq(Rows)
    /\ \A key \in Keys : \A rows : [key |-> key, rows |-> rows] # NoPending /\ key # << >>
<1>1. NoPending.rows = << >> /\ NoPending.key = << >>
  BY DEF NoPending
<1>2. << >> \in Seq(Rows)
  OBVIOUS
<1>3. ASSUME NEW key \in Keys, NEW rows PROVE [key |-> key, rows |-> rows] # NoPending /\ key # << >>
  <2>1. key \in Versions \X {0, 1}
    BY DEF Keys
  <2>2. key # << >>
    <3>1. PICK v \in Versions, n \in {0, 1} : key = << v, n >>
      BY <2>1
    <3>2. Len(<< v, n >>) = 2 /\ Len(<< >>) = 0
      OBVIOUS
    <3>3. QED  BY <3>1, <3>2
  <2>3. [key |-> key, rows |-> rows].key = key
    OBVIOUS
  <2>4. QED  BY <1>1, <2>2, <2>3
<1>4. QED  BY <1>1, <1>2, <1>3

LEMMA ApplyPendingDomain ==
    ASSUME NEW rec, ApplyRecord(rec)
    PROVE  DOMAIN pending' = Assets
BY DEF ApplyRecord, ApplyRow, ApplyDelta, ApplyIngest, ApplyCheckpoint, ApplyOther, MatPending

\* What waits after a record: what has not ended, and the row it brings.
LEMMA ApplyPending ==
    ASSUME NEW rec, ApplyRecord(rec), NEW a \in Assets
    PROVE  /\ rec.kind = "snapshot" /\ rec.asset = a
                => pending'[a] = [key |-> rec.key, rows |-> Append(MatPending(rec)[a].rows, rec.row)]
           /\ ~(rec.kind = "snapshot" /\ rec.asset = a) => pending'[a] = MatPending(rec)[a]
<1>1. MatPending(rec) = [x \in Assets |-> IF x \in EndedGroups(rec) THEN NoPending ELSE pending[x]]
  BY DEF MatPending
<1>2. CASE ApplyRow(rec)
  <2>1. rec.kind = "snapshot"
        /\ pending' = [MatPending(rec) EXCEPT ![rec.asset] = [key |-> rec.key, rows |-> Append(@.rows, rec.row)]]
    BY <1>2 DEF ApplyRow
  <2>2. QED  BY <1>1, <2>1
<1>3. CASE ApplyDelta(rec) \/ ApplyIngest(rec) \/ ApplyCheckpoint(rec) \/ ApplyOther(rec)
  <2>1. rec.kind # "snapshot" /\ pending' = MatPending(rec)
    BY <1>3 DEF ApplyDelta, ApplyIngest, ApplyCheckpoint, ApplyOther
  <2>2. QED  BY <1>1, <2>1
<1>4. QED  BY <1>2, <1>3 DEF ApplyRecord

LEMMA ApplyWaiting ==
    ASSUME NEW rec \in FeedRecords \cup CheckpointRecords, ApplyRecord(rec),
           \A a \in Assets : Waiting(pending[a]),
           rec.kind = "snapshot" => RowOf(rec.key[1], rec.row)
    PROVE  \A a \in Assets : Waiting(pending'[a])
<1>. SUFFICES ASSUME NEW a \in Assets PROVE Waiting(pending'[a])
  OBVIOUS
<1>1. PICK old : old = MatPending(rec)[a] /\ Waiting(old)
  BY DEF MatPending, Waiting
<1>2. CASE ~(rec.kind = "snapshot" /\ rec.asset = a)
  BY <1>1, <1>2, ApplyPending
<1>3. CASE rec.kind = "snapshot" /\ rec.asset = a
  <2>1. rec.key \in Keys /\ rec.row \in Rows /\ RowOf(rec.key[1], rec.row)
    BY <1>3, RecordKinds DEF SnapshotRecords
  <2>2. old # NoPending => old.key = rec.key
    BY <1>1, <1>3 DEF MatPending, EndedGroups, HasPending
  <2>3. PICK rows \in Seq(Rows) : rows = old.rows /\ \A i \in 1 .. Len(rows) : RowOf(rec.key[1], rows[i])
    <3>1. CASE old = NoPending
      <4>1. PICK none \in Seq(Rows) : none = << >> /\ Len(none) = 0
        BY NoPendingFacts
      <4>2. old.rows = none
        BY <3>1, <4>1, NoPendingFacts
      <4>3. \A i \in 1 .. Len(none) : FALSE
        BY <4>1
      <4>4. QED  BY <4>2, <4>3
    <3>2. CASE old # NoPending
      BY <1>1, <2>2, <3>2 DEF Waiting
    <3>3. QED  BY <3>1, <3>2
  <2>4. PICK N \in Nat : N = Len(rows)
    OBVIOUS
  <2>5. PICK more : more = Append(rows, rec.row)
    OBVIOUS
  <2>6. more \in Seq(Rows) /\ Len(more) = N + 1 /\ more[N + 1] = rec.row /\ \A i \in 1 .. N : more[i] = rows[i]
    BY <2>1, <2>4, <2>5
  <2>7. \A i \in 1 .. N + 1 : i = N + 1 \/ i \in 1 .. N
    OBVIOUS
  <2>8. \A i \in 1 .. Len(more) : RowOf(rec.key[1], more[i])
    BY <2>1, <2>3, <2>4, <2>6, <2>7
  <2>9. pending'[a] = [key |-> rec.key, rows |-> more]
    BY <1>1, <1>3, <2>3, <2>5, ApplyPending
  <2>10. QED  BY <2>1, <2>6, <2>8, <2>9 DEF Waiting
<1>4. QED  BY <1>2, <1>3

\* What the steps the dispatcher has no part in do to the records.
LEMMA QuietRecords ==
    ASSUME FeedTypeOK, QuietFeed
    PROVE  \/ UNCHANGED << outbox, events >>
           \/ Send
<1>1. \A m : Enqueue(m) => UNCHANGED << outbox, events >>
  BY DEF Enqueue
<1>2. CASE \E a \in Assets : VenueChanges(a) \/ DebounceEnds(a)
  BY <1>2 DEF VenueChanges, DebounceEnds
<1>3. CASE Connect \/ Disconnect \/ Inject
  BY <1>1, <1>3 DEF Connect, Disconnect, Inject
<1>4. CASE (\E a \in Assets : ReceiveBook(a)) \/ ReceiveTrade
  BY <1>1, <1>4 DEF ReceiveBook, ReceiveTrade
<1>5. CASE ReceiveChanges
  <2>1. PICK N, who, bad, fault : Changed(N, who, bad, fault)
    BY <1>5, ReceiveChangesFacts
  <2>2. QED  BY <1>1, <2>1 DEF Changed
<1>6. CASE Fetch
  BY <1>6 DEF Fetch
<1>7. QED  BY <1>2, <1>3, <1>4, <1>5, <1>6 DEF QuietFeed

LEMMA FeedSteps ==
    ASSUME FeedNext
    PROVE  QuietFeed \/ Dispatch
BY DEF FeedNext, QuietFeed

LEMMA SendRecords ==
    ASSUME RowsInv, Send
    PROVE  /\ FeedTypeOK' /\ events' \in Seq(FeedRecords \cup CheckpointRecords)
           /\ RowsTaken(events') /\ RowsTaken(outbox')
<1>1. outbox \in Seq(FeedRecords) /\ outbox # << >> /\ outbox' = Tail(outbox)
  BY DEF RowsInv, FeedTypeOK, DispatcherTypeOK, Send
<1>2. RowsTaken(outbox') /\ (Head(outbox).kind = "snapshot" => RowOf(Head(outbox).key[1], Head(outbox).row))
  BY <1>1, RowsTakenTail DEF RowsInv
<1>3. FeedTypeOK' /\ Head(outbox) \in FeedRecords /\ events' = Append(events, Head(outbox))
  BY SendTyped DEF RowsInv
<1>4. PICK S : S = FeedRecords \cup CheckpointRecords
  OBVIOUS
<1>5. events \in Seq(S) /\ RowsTaken(events) /\ Head(outbox) \in S
  BY <1>3, <1>4 DEF RowsInv, ChannelTypeOK
<1>6. events' \in Seq(S)
  BY <1>3, <1>5
<1>7. RowsTaken(events')
  BY <1>2, <1>3, <1>5, RowsTakenAppend
<1>8. QED  BY <1>2, <1>3, <1>4, <1>6, <1>7

LEMMA ProducerRows ==
    ASSUME RowsInv, Producer
    PROVE  RowsInv'
<1>1. CASE SendCheckpoint
  <2>1. /\ events' = Append(events, CheckpointRecord(polled.asset, RowsOf(VenueAt[polled.version])))
        /\ polled # NoFetch /\ polled' = NoFetch
        /\ UNCHANGED << venueVars, raw, trackers, outbox, requests, workerVars, lvars >>
    BY <1>1 DEF SendCheckpoint
  <2>2. polled.asset \in Assets /\ polled.version \in Reached
    BY <2>1 DEF RowsInv, ChannelTypeOK
  <2>3. PICK r \in CheckpointRecords :
          r = CheckpointRecord(polled.asset, RowsOf(VenueAt[polled.version])) /\ r.kind = "checkpoint"
    <3>1. PICK rows \in Seq(Rows) : rows = RowsOf(VenueAt[polled.version])
      BY <2>2, ShownFacts DEF Shown
    <3>2. CheckpointRecord(polled.asset, rows) \in CheckpointRecords
          /\ CheckpointRecord(polled.asset, rows).kind = "checkpoint"
      BY <2>2 DEF CheckpointRecord, CheckpointRecords
    <3>3. QED  BY <3>1, <3>2
  <2>4. PICK S : S = FeedRecords \cup CheckpointRecords
    OBVIOUS
  <2>5. events \in Seq(S) /\ RowsTaken(events) /\ r \in S
    BY <2>3, <2>4 DEF RowsInv, ChannelTypeOK
  <2>6. events' = Append(events, r) /\ events' \in Seq(S)
    BY <2>1, <2>3, <2>5
  <2>7. RowsTaken(events')
    BY <2>3, <2>5, <2>6, RowsTakenAppend
  <2>8. FeedTypeOK'
    BY <2>1 DEF RowsInv, FeedTypeOK, VenueTypeOK, DispatcherTypeOK, WorkerTypeOK, venueVars, trackers, workerVars
  <2>9. QED  BY <2>1, <2>4, <2>6, <2>7, <2>8 DEF RowsInv, ChannelTypeOK, lvars
<1>2. CASE \E a \in Assets : PollBook(a)
  <2>1. PICK a \in Assets : PollBook(a)
    BY <1>2
  <2>2. polled' = [asset |-> a, version |-> venue[a]] /\ venue[a] \in Reached
    BY <2>1 DEF PollBook, RowsInv, FeedTypeOK, VenueTypeOK
  <2>3. UNCHANGED << fvars, lvars >>
    BY <2>1 DEF PollBook
  <2>4. UNCHANGED << venueVars, raw, trackers, outbox, events, requests, workerVars, pending >>
    BY <2>3 DEF fvars, lvars
  <2>5. FeedTypeOK'
    BY <2>4 DEF RowsInv, FeedTypeOK, VenueTypeOK, DispatcherTypeOK, WorkerTypeOK, venueVars, trackers, workerVars
  <2>6. ChannelTypeOK'
    BY <2>2, <2>4 DEF RowsInv, ChannelTypeOK
  <2>7. QED  BY <2>4, <2>5, <2>6 DEF RowsInv
<1>3. QED  BY <1>1, <1>2 DEF Producer

LEMMA FeedRows ==
    ASSUME RowsInv, FeedStep
    PROVE  RowsInv'
<1>1. UNCHANGED << pending, polled >> /\ (QuietFeed \/ Dispatch)
  BY FeedSteps DEF FeedStep, lvars
<1>2. CASE Send
  BY <1>1, <1>2, SendRecords DEF RowsInv, ChannelTypeOK
<1>3. CASE QuietFeed /\ UNCHANGED << outbox, events >>
  BY <1>1, <1>3, QuietTyped DEF RowsInv, ChannelTypeOK
<1>4. CASE Dispatch
  <2>1. FeedTypeOK' /\ RowsTaken(outbox')
    BY <1>4, DispatchTyped, DispatchRows DEF RowsInv
  <2>2. events' = events
    BY <1>4 DEF Dispatch, DropBook, AcceptBook, DispatchChanges, DispatchTrade, DispatchLifecycle, Take
  <2>3. QED  BY <1>1, <2>1, <2>2 DEF RowsInv, ChannelTypeOK
<1>5. QED  BY <1>1, <1>2, <1>3, <1>4, QuietRecords DEF RowsInv

\* The record at the head of the channel.
LEMMA NextRecord ==
    ASSUME RowsInv, Apply
    PROVE  /\ Head(events) \in FeedRecords \cup CheckpointRecords
           /\ Head(events).kind = "snapshot" => RowOf(Head(events).key[1], Head(events).row)
           /\ events # << >> /\ events' = Tail(events) /\ RowsTaken(events')
           /\ events' \in Seq(FeedRecords \cup CheckpointRecords)
<1>1. PICK S : S = FeedRecords \cup CheckpointRecords
  OBVIOUS
<1>2. events \in Seq(S) /\ RowsTaken(events) /\ events # << >> /\ events' = Tail(events)
  BY <1>1 DEF RowsInv, ChannelTypeOK, Apply, TakeRecord
<1>3. /\ RowsTaken(events') /\ Head(events) \in S
      /\ Head(events).kind = "snapshot" => RowOf(Head(events).key[1], Head(events).row)
  BY <1>2, RowsTakenTail
<1>4. Tail(events) \in Seq(S)
  BY <1>2
<1>5. QED  BY <1>1, <1>2, <1>3, <1>4

LEMMA ApplyRows ==
    ASSUME RowsInv, Apply
    PROVE  RowsInv'
<1>1. ApplyRecord(Head(events)) /\ UNCHANGED << venueVars, raw, trackers, outbox, requests, workerVars, polled >>
  BY DEF Apply
<1>2. FeedTypeOK'
  BY <1>1 DEF RowsInv, FeedTypeOK, VenueTypeOK, DispatcherTypeOK, WorkerTypeOK, venueVars, trackers, workerVars
<1>3. \A a \in Assets : Waiting(pending'[a])
  BY <1>1, NextRecord, ApplyWaiting DEF RowsInv
<1>4. DOMAIN pending' = Assets
  BY <1>1, ApplyPendingDomain
<1>5. QED  BY <1>1, <1>2, <1>3, <1>4, NextRecord DEF RowsInv, ChannelTypeOK

LEMMA RotateRows ==
    ASSUME RowsInv, Rotate
    PROVE  RowsInv'
<1>1. PICK S : SetActive(S)
  BY DEF Rotate
<1>2. pending' = [a \in Assets |-> IF a \in S THEN pending[a] ELSE NoPending]
  BY <1>1 DEF SetActive, PendingOf
<1>3. UNCHANGED << venueVars, raw, trackers, outbox, events, requests, workerVars, polled >>
  BY DEF Rotate, fvars
<1>4. FeedTypeOK'
  BY <1>3 DEF RowsInv, FeedTypeOK, VenueTypeOK, DispatcherTypeOK, WorkerTypeOK, venueVars, trackers, workerVars
<1>5. QED  BY <1>2, <1>3, <1>4 DEF RowsInv, ChannelTypeOK, Waiting

LEMMA RowsStep == RowsInv /\ [Next]_vars => RowsInv'
<1>. SUFFICES ASSUME RowsInv, [Next]_vars PROVE RowsInv'
  OBVIOUS
<1>1. CASE UNCHANGED vars
  BY <1>1 DEF vars, fvars, lvars, venueVars, trackers, workerVars, RowsInv, ChannelTypeOK, FeedTypeOK,
     VenueTypeOK, DispatcherTypeOK, WorkerTypeOK
<1>2. QED  BY <1>1, FeedRows, ProducerRows, ApplyRows, RotateRows DEF Next

LEMMA RowsInit == LiveFeedInit => RowsInv
<1>. SUFFICES ASSUME LiveFeedInit PROVE RowsInv
  OBVIOUS
<1>1. FeedTypeOK
  BY FeedInitTyped DEF LiveFeedInit
<1>2. events = << >> /\ outbox = << >> /\ polled = NoFetch /\ pending = [a \in Assets |-> NoPending]
  BY DEF LiveFeedInit, FeedInit, LiveInit
<1>3. RowsTaken(<< >>)
  BY DEF RowsTaken
<1>4. ChannelTypeOK
  BY <1>2 DEF ChannelTypeOK
<1>5. QED  BY <1>1, <1>2, <1>3, <1>4 DEF RowsInv, Waiting

------------------------------------------------------------------------------
(***************************************************************************)
(* What readers see is the projector's state: every group that ends on the *)
(* way is materialized, so the assets a record is said to change are all   *)
(* it changes.                                                             *)
(***************************************************************************)
LEMMA UntouchedByMaterialize ==
    ASSUME RowsInv, PublishedInv, NEW rec, NEW a \in Assets, a \notin Materialized(rec)
    PROVE  /\ MatBook(rec)[a] = book[a] /\ MatWarning(rec)[a] = warning[a]
           /\ MatPending(rec)[a] = pending[a]
           /\ MatReady(rec)[a] = ready[a]
<1>1. a \notin EndedGroups(rec)
  BY WaitingMaterializes
<1>2. MatBook(rec)[a] = book[a] /\ MatWarning(rec)[a] = warning[a] /\ MatPending(rec)[a] = pending[a]
  BY <1>1 DEF MatBook, MatWarning, MatPending
<1>3. MatReady(rec)[a] = ready[a]
  BY MaterializeFacts
<1>4. QED  BY <1>2, <1>3

LEMMA SameView ==
    ASSUME NEW a, book'[a] = book[a], ready'[a] = ready[a], warning'[a] = warning[a], pending'[a] = pending[a],
           a \in known' <=> a \in known
    PROVE  View(a)' = View(a)
<1>1. CASE a \in known
  BY <1>1 DEF View
<1>2. CASE a \notin known
  BY <1>2 DEF View, NoView
<1>3. QED  BY <1>1, <1>2

LEMMA RefreshIsFull ==
    ASSUME PublishedFresh, NEW rec, NEW changed, Refresh(changed, rec), active' = active,
           \A a \in Assets \ (changed \cup Materialized(rec)) : View(a)' = View(a)
    PROVE  PublishedFresh'
<1>1. published = [active |-> active, session |-> session, view |-> [a \in Assets |-> View(a)]]
  BY DEF PublishedFresh, FullView
<1>2. published' = [active |-> active', session |-> session',
                    view |-> [a \in Assets |-> IF a \in changed \cup Materialized(rec)
                                               THEN View(a)' ELSE View(a)]]
  BY <1>1 DEF Refresh
<1>3. [a \in Assets |-> IF a \in changed \cup Materialized(rec) THEN View(a)' ELSE View(a)]
        = [a \in Assets |-> View(a)']
  OBVIOUS
<1>4. published' = [active |-> active', session |-> session', view |-> [a \in Assets |-> View(a)']]
  BY <1>2, <1>3
<1>5. QED  BY <1>4 DEF PublishedFresh, FullView

LEMMA ApplyFresh ==
    ASSUME RowsInv, PublishedInv, PublishedFresh, NEW rec, ApplyRecord(rec)
    PROVE  PublishedFresh'
<1>1. known \cup EndedGroups(rec) = known
  BY MaterializeFacts
<1>2. DOMAIN MatBook(rec) = Assets /\ DOMAIN MatPending(rec) = Assets /\ DOMAIN MatReady(rec) = Assets
      /\ DOMAIN MatWarning(rec) = Assets
  BY DEF MatBook, MatPending, MatReady, MatWarning
<1>3. CASE ApplyRow(rec)
  <2>1. /\ book' = MatBook(rec) /\ ready' = MatReady(rec) /\ warning' = MatWarning(rec)
        /\ known' = known \cup {rec.asset} /\ active' = active /\ Refresh({rec.asset}, rec)
        /\ \A a \in Assets : a # rec.asset => pending'[a] = MatPending(rec)[a]
    BY <1>1, <1>2, <1>3 DEF ApplyRow
  <2>2. \A a \in Assets \ ({rec.asset} \cup Materialized(rec)) : View(a)' = View(a)
    BY <2>1, UntouchedByMaterialize, SameView
  <2>3. QED  BY <2>1, <2>2, RefreshIsFull
<1>4. CASE ApplyDelta(rec)
  <2>1. /\ ready' = MatReady(rec) /\ pending' = MatPending(rec)
        /\ known' = known \cup {rec.asset} /\ active' = active /\ Refresh({rec.asset}, rec)
        /\ \A a \in Assets : a # rec.asset => book'[a] = MatBook(rec)[a] /\ warning'[a] = MatWarning(rec)[a]
    BY <1>1, <1>2, <1>4 DEF ApplyDelta
  <2>2. \A a \in Assets \ ({rec.asset} \cup Materialized(rec)) : View(a)' = View(a)
    BY <2>1, UntouchedByMaterialize, SameView
  <2>3. QED  BY <2>1, <2>2, RefreshIsFull
<1>5. CASE ApplyIngest(rec)
  <2>. DEFINE named == {rec.asset} \cap Assets
  <2>1. /\ book' = MatBook(rec) /\ ready' = MatReady(rec) /\ pending' = MatPending(rec)
        /\ known' = known \cup named /\ active' = active /\ Refresh(named, rec)
        /\ \A a \in Assets : a \notin named => warning'[a] = MatWarning(rec)[a]
    BY <1>1, <1>5 DEF ApplyIngest
  <2>. HIDE DEF named
  <2>2. \A a \in Assets \ (named \cup Materialized(rec)) : View(a)' = View(a)
    BY <2>1, UntouchedByMaterialize, SameView
  <2>3. QED  BY <2>1, <2>2, RefreshIsFull
<1>6. CASE ApplyCheckpoint(rec)
  <2>. DEFINE seeded == IF Seeds(rec.asset, rec) THEN {rec.asset} ELSE {}
  <2>1. /\ pending' = MatPending(rec)
        /\ known' = known \cup seeded /\ active' = active /\ Refresh(seeded, rec)
    BY <1>1, <1>6 DEF ApplyCheckpoint
  <2>2. \A a \in Assets : a \notin seeded => /\ book'[a] = MatBook(rec)[a] /\ ready'[a] = MatReady(rec)[a]
                                            /\ warning'[a] = MatWarning(rec)[a]
    <3>1. CASE ~Seeds(rec.asset, rec)
      BY <1>6, <3>1 DEF ApplyCheckpoint
    <3>2. CASE Seeds(rec.asset, rec)
      <4>1. /\ book' = MatBook(rec) \/ \E b : book' = [MatBook(rec) EXCEPT ![rec.asset] = b]
            /\ ready' = MatReady(rec) \/ ready' = [MatReady(rec) EXCEPT ![rec.asset] = TRUE]
            /\ \E w : warning' = [MatWarning(rec) EXCEPT ![rec.asset] = w]
        BY <1>2, <1>6, <3>2 DEF ApplyCheckpoint
      <4>2. QED  BY <1>2, <3>2, <4>1
    <3>3. QED  BY <3>1, <3>2
  <2>. HIDE DEF seeded
  <2>3. \A a \in Assets \ (seeded \cup Materialized(rec)) : View(a)' = View(a)
    BY <2>1, <2>2, UntouchedByMaterialize, SameView
  <2>4. QED  BY <2>1, <2>3, RefreshIsFull
<1>7. CASE ApplyOther(rec)
  <2>1. /\ book' = MatBook(rec) /\ ready' = MatReady(rec) /\ warning' = MatWarning(rec)
        /\ pending' = MatPending(rec) /\ known' = known /\ active' = active /\ Refresh({}, rec)
    BY <1>1, <1>7 DEF ApplyOther
  <2>2. \A a \in Assets \ ({} \cup Materialized(rec)) : View(a)' = View(a)
    BY <2>1, UntouchedByMaterialize, SameView
  <2>3. QED  BY <2>1, <2>2, RefreshIsFull
<1>8. QED  BY <1>3, <1>4, <1>5, <1>6, <1>7 DEF ApplyRecord

LEMMA FreshStep == RowsInv /\ PublishedInv /\ PublishedFresh /\ [Next]_vars => PublishedFresh'
<1>. SUFFICES ASSUME RowsInv, PublishedInv, PublishedFresh, [Next]_vars PROVE PublishedFresh'
  OBVIOUS
<1>1. UNCHANGED lvars => PublishedFresh'
  BY DEF lvars, PublishedFresh, FullView, View
<1>2. CASE FeedStep \/ Producer \/ UNCHANGED vars
  BY <1>1, <1>2 DEF FeedStep, Producer, PollBook, SendCheckpoint, vars
<1>3. CASE Apply
  BY <1>3, ApplyFresh DEF Apply
<1>4. CASE Rotate
  BY <1>4 DEF Rotate, SetActive, PublishedFresh
<1>5. QED  BY <1>2, <1>3, <1>4 DEF Next

\* What readers see is the projector's state after every step, though a record republishes
\* only the assets it is said to have changed (refresh_asset_views).
THEOREM PublishedFreshAlways == Spec => []PublishedFresh
<1>1. LiveFeedInit => RowsInv /\ PublishedInv /\ PublishedFresh
  BY RowsInit, PublishedInit DEF LiveFeedInit, LiveInit, PublishedFresh
<1>2. RowsInv /\ PublishedInv /\ PublishedFresh /\ [Next]_vars => RowsInv' /\ PublishedInv' /\ PublishedFresh'
  BY RowsStep, LiveFeedStep, FreshStep
<1>3. QED  BY <1>1, <1>2, PTL DEF Spec

------------------------------------------------------------------------------
(***************************************************************************)
(* A cursor follows the records about one asset: the version they lead to, *)
(* the turn of the last snapshot, and how many of its rows are still to    *)
(* come.  Without faults the records in the event channel lead from the    *)
(* cursor of the projector on to that of the dispatcher.                   *)
(***************************************************************************)
Cursors == [version : {Unknown} \cup Reached, turn : {0, 1}, left : Nat]

\* Row i + 1 of a snapshot: the first begins a new turn, the others go on with it.
BringsRow(a, r, c, d) ==
    /\ r.kind = "snapshot" /\ r.asset = a
    /\ d.version \in Reached /\ r.key = << d.version, d.turn >>
    /\ r.seq < Len(Shown(d.version)) /\ r.row = Shown(d.version)[r.seq + 1]
    /\ d.left + r.seq + 1 = Len(Shown(d.version))
    /\ \/ r.seq = 0 /\ c.turn # d.turn /\ c.left = 0
       \/ r.seq # 0 /\ c.turn = d.turn /\ c.version = d.version /\ c.left = d.left + 1

BringsDelta(a, r, c, d) ==
    /\ r.kind = "delta" /\ r.asset = a
    /\ c.left = 0 /\ c.version \in Reached
    /\ d.version \in Reached /\ d.version = c.version + 1 /\ d.turn = c.turn /\ d.left = 0
    /\ r.row = Changes[d.version]

Leads(a, r, c, d) ==
    \/ BringsRow(a, r, c, d) \/ BringsDelta(a, r, c, d)
    \/ ~(r.kind \in {"snapshot", "delta"} /\ r.asset = a) /\ d = c

\* The cursors along some records.
Along(a, w, records) ==
    /\ w \in [0 .. Len(records) -> Cursors]
    /\ \A i \in 1 .. Len(records) : Leads(a, records[i], w[i - 1], w[i])

Trail(a, records, c, d) == \E w : Along(a, w, records) /\ w[0] = c /\ w[Len(records)] = d

LEMMA TrailEmpty ==
    ASSUME NEW a
    PROVE  /\ \A c \in Cursors : Trail(a, << >>, c, c)
           /\ \A c, d : Trail(a, << >>, c, d) => c = d
<1>1. PICK none : none = << >> /\ Len(none) = 0
  OBVIOUS
<1>2. ASSUME NEW c \in Cursors PROVE Trail(a, none, c, c)
  <2>1. PICK w : w = [i \in 0 .. 0 |-> c]
    OBVIOUS
  <2>2. w \in [0 .. 0 -> Cursors] /\ w[0] = c
    BY <2>1
  <2>3. \A i \in 1 .. 0 : FALSE
    OBVIOUS
  <2>4. QED  BY <1>1, <2>2, <2>3 DEF Trail, Along
<1>3. \A c, d : Trail(a, none, c, d) => c = d
  BY <1>1 DEF Trail
<1>4. QED  BY <1>1, <1>2, <1>3

LEMMA TrailAppend ==
    ASSUME NEW a, NEW S, NEW records \in Seq(S), NEW r, NEW c, NEW d, NEW e \in Cursors,
           Trail(a, records, c, d), Leads(a, r, d, e)
    PROVE  Trail(a, Append(records, r), c, e)
<1>1. PICK N \in Nat : N = Len(records)
  OBVIOUS
<1>2. PICK longer : longer = Append(records, r)
  OBVIOUS
<1>3. Len(longer) = N + 1 /\ longer[N + 1] = r /\ \A i \in 1 .. N : longer[i] = records[i]
  BY <1>1, <1>2
<1>4. PICK w : /\ w \in [0 .. N -> Cursors] /\ w[0] = c /\ w[N] = d
               /\ \A i \in 1 .. N : Leads(a, records[i], w[i - 1], w[i])
  BY <1>1 DEF Trail, Along
<1>5. PICK x : x = [i \in 0 .. N + 1 |-> IF i = N + 1 THEN e ELSE w[i]]
  OBVIOUS
<1>6. x[N + 1] = e /\ \A i \in 0 .. N : x[i] = w[i]
  BY <1>5
<1>7. x \in [0 .. N + 1 -> Cursors]
  BY <1>4, <1>5
<1>8. ASSUME NEW i \in 1 .. N + 1 PROVE Leads(a, longer[i], x[i - 1], x[i])
  <2>1. CASE i = N + 1
    <3>1. i - 1 = N /\ N \in 0 .. N
      BY <2>1
    <3>2. x[i - 1] = d /\ x[i] = e /\ longer[i] = r
      BY <1>3, <1>4, <1>6, <2>1, <3>1
    <3>3. QED  BY <3>2
  <2>2. CASE i # N + 1
    <3>1. i \in 1 .. N /\ i \in 0 .. N /\ i - 1 \in 0 .. N
      BY <2>2
    <3>2. x[i - 1] = w[i - 1] /\ x[i] = w[i] /\ longer[i] = records[i]
      BY <1>3, <1>6, <3>1
    <3>3. QED  BY <1>4, <3>1, <3>2
  <2>3. QED  BY <2>1, <2>2
<1>9. x[0] = c /\ x[N + 1] = e
  BY <1>4, <1>6
<1>10. Trail(a, longer, c, e)
  BY <1>3, <1>7, <1>8, <1>9 DEF Trail, Along
<1>11. QED  BY <1>2, <1>10

LEMMA TrailTail ==
    ASSUME NEW a, NEW S, NEW records \in Seq(S), records # << >>, NEW c, NEW d, Trail(a, records, c, d)
    PROVE  \E e \in Cursors : Leads(a, Head(records), c, e) /\ Trail(a, Tail(records), e, d)
<1>1. PICK N \in Nat : N = Len(records) /\ N > 0
  BY EmptySeq
<1>2. PICK rest : rest = Tail(records)
  OBVIOUS
<1>3. Len(rest) = N - 1 /\ Head(records) = records[1] /\ \A i \in 1 .. N - 1 : rest[i] = records[i + 1]
  BY <1>1, <1>2
<1>4. PICK w : /\ w \in [0 .. N -> Cursors] /\ w[0] = c /\ w[N] = d
               /\ \A i \in 1 .. N : Leads(a, records[i], w[i - 1], w[i])
  BY <1>1 DEF Trail, Along
<1>5. PICK x : x = [i \in 0 .. N - 1 |-> w[i + 1]]
  OBVIOUS
<1>6. \A i \in 0 .. N - 1 : x[i] = w[i + 1]
  BY <1>5
<1>7. x \in [0 .. N - 1 -> Cursors]
  BY <1>4, <1>5
<1>8. ASSUME NEW i \in 1 .. N - 1 PROVE Leads(a, rest[i], x[i - 1], x[i])
  <2>1. i + 1 \in 1 .. N /\ i \in 0 .. N - 1 /\ i - 1 \in 0 .. N - 1 /\ (i - 1) + 1 = i /\ (i + 1) - 1 = i
    OBVIOUS
  <2>2. x[i - 1] = w[i] /\ x[i] = w[i + 1] /\ rest[i] = records[i + 1]
    BY <1>3, <1>6, <2>1
  <2>3. Leads(a, records[i + 1], w[i], w[i + 1])
    BY <1>4, <2>1
  <2>4. QED  BY <2>2, <2>3
<1>9. x[N - 1] = d
  <2>1. N - 1 \in 0 .. N - 1 /\ (N - 1) + 1 = N
    BY <1>1
  <2>2. QED  BY <1>4, <1>6, <2>1
<1>10. x[0] = w[1] /\ x[0] \in Cursors
  <2>1. 0 \in 0 .. N - 1 /\ 0 + 1 = 1
    BY <1>1
  <2>2. QED  BY <1>6, <1>7, <2>1
<1>11. Trail(a, rest, x[0], d)
  BY <1>3, <1>7, <1>8, <1>9 DEF Trail, Along
<1>12. Leads(a, Head(records), c, x[0])
  <2>1. 1 \in 1 .. N /\ 1 - 1 = 0
    BY <1>1
  <2>2. Leads(a, records[1], w[0], w[1])
    BY <1>4, <2>1
  <2>3. QED  BY <1>3, <1>4, <1>10, <2>2
<1>13. QED  BY <1>2, <1>10, <1>11, <1>12

\* Records about others leave the cursor where it is.
LEMMA TrailStill ==
    ASSUME NEW a, NEW S, NEW records \in Seq(S), NEW c \in Cursors,
           \A i \in 1 .. Len(records) : ~(records[i].kind \in {"snapshot", "delta"} /\ records[i].asset = a)
    PROVE  Trail(a, records, c, c)
<1>1. PICK N \in Nat : N = Len(records)
  OBVIOUS
<1>2. PICK w : w = [i \in 0 .. N |-> c]
  OBVIOUS
<1>3. w \in [0 .. N -> Cursors] /\ \A i \in 0 .. N : w[i] = c
  BY <1>2
<1>4. ASSUME NEW i \in 1 .. N PROVE Leads(a, records[i], w[i - 1], w[i])
  <2>1. i \in 0 .. N /\ i - 1 \in 0 .. N
    OBVIOUS
  <2>2. w[i] = c /\ w[i - 1] = c
    BY <1>3, <2>1
  <2>3. QED  BY <1>1, <2>2 DEF Leads
<1>5. 0 \in 0 .. N /\ N \in 0 .. N
  OBVIOUS
<1>6. QED  BY <1>1, <1>3, <1>4, <1>5 DEF Trail, Along

------------------------------------------------------------------------------
(***************************************************************************)
(* What the dispatcher puts out leads its cursor on.                       *)
(***************************************************************************)
LEMMA VenueConsistent == \A v \in Versions : Consistent(VenueAt[v])
<1>1. PICK N \in Nat : N = Len(Changes) /\ Versions = 0 .. N
  BY VenueFacts DEF Versions
<1>. DEFINE T == {v \in 0 .. N : Consistent(VenueAt[v])}
<1>2. VenueAt[0] = EmptyBook
  BY VenueFacts
<1>3. 0 \in T
  BY <1>2, EmptyConsistent
<1>4. ASSUME NEW v \in 1 .. N, v - 1 \in T PROVE v \in T
  <2>1. v \in 0 .. N /\ v - 1 \in 0 .. N
    OBVIOUS
  <2>2. PICK old \in Books : old = VenueAt[v - 1] /\ Consistent(old)
    BY <1>1, <1>4, <2>1, VenueFacts
  <2>3. PICK level \in Levels, size \in Nat : level = Changes[v].level /\ size = Changes[v].size
    BY <1>1, VenueFacts DEF Rows
  <2>4. VenueAt[v] = SetLevel(old, level, size)
    BY <1>1, <2>2, <2>3, VenueFacts
  <2>5. Consistent(SetLevel(old, level, size))
    BY <2>2, SetLevelConsistent
  <2>6. QED  BY <2>1, <2>4, <2>5
<1>. HIDE DEF T
<1>5. \A v \in 0 .. N : v \in T
  BY <1>1, <1>3, <1>4, Climb
<1>6. QED  BY <1>1, <1>5 DEF T

\* A snapshot of the venue is taken over.
LEMMA VenueFits ==
    ASSUME TotalsFit, NEW v \in Reached
    PROVE  Snapshot(Shown(v)).ok
<1>1. PICK b \in Books : b = VenueAt[v] /\ Consistent(b)
  BY ConstantFacts, VenueFacts, VenueConsistent
<1>2. Fits(b)
  BY <1>1 DEF TotalsFit, Fits, Reached
<1>3. Shown(v) \in Seq(Rows) /\ \A i \in 1 .. Len(Shown(v)) : Shown(v)[i].size = b.size[Shown(v)[i].level]
  BY <1>1, RowsFacts DEF Shown
<1>4. QED  BY <1>1, <1>2, <1>3, RowsFit

\* The dispatcher's cursor, where p is its mark.
DispatcherAt(a, d, p) ==
    /\ d \in Cursors /\ d.left = 0
    /\ d.turn = 1 - turn[a]
    /\ p # Unknown => d.version = p

\* The rows of a snapshot that is taken over.
LEMMA SnapshotTrail ==
    ASSUME BooksHaveLevels, FeedTypeOK, NEW m, NEW b, NEW rows, TakenOver(m, b, rows),
           NEW d \in Cursors, d.left = 0, d.turn = 1 - turn[m.asset]
    PROVE  Trail(m.asset, outbox', d, [version |-> m.version, turn |-> turn[m.asset], left |-> 0])
<1>1. PICK a \in Assets, v \in Reached, t \in {0, 1} : a = m.asset /\ v = m.version /\ t = turn[m.asset]
  BY TakenOverRows
<1>2. PICK N \in Nat : N = Len(rows)
  BY TakenOverRows
<1>3. PICK out : out = outbox'
  OBVIOUS
<1>4. /\ rows = Shown(v) /\ rows \in Seq(Rows) /\ Len(out) = N /\ Key(m) = << v, t >>
      /\ \A i \in 1 .. N : out[i] = SnapshotRecord(a, << v, t >>, rows[i], i - 1)
  <2>1. rows = Shown(v) /\ rows \in Seq(Rows) /\ Len(out) = N
    BY <1>1, <1>2, <1>3, TakenOverRows
  <2>2. Key(m) = << v, t >>
    BY <1>1, TakenOverRows
  <2>3. \A i \in 1 .. Len(rows) : outbox'[i] = SnapshotRecord(m.asset, Key(m), rows[i], i - 1)
    BY TakenOverRows
  <2>4. \A i \in 1 .. N : out[i] = SnapshotRecord(a, << v, t >>, rows[i], i - 1)
    BY <1>1, <1>2, <1>3, <2>2, <2>3
  <2>5. QED  BY <2>1, <2>2, <2>4
<1>5. N > 0
  <2>1. PICK l \in Levels : VenueAt[v].size[l] > 0
    BY DEF BooksHaveLevels, Reached
  <2>2. VenueAt[v] \in Books
    BY ConstantFacts, VenueFacts
  <2>3. \E i \in 1 .. Len(Shown(v)) : Shown(v)[i].level = l
    BY <2>1, <2>2, RowsFacts DEF Shown
  <2>4. QED  BY <1>2, <1>4, <2>3
<1>. DEFINE At(i) == [version |-> v, turn |-> t, left |-> N - i]
<1>6. \A i \in 1 .. N : At(i) \in Cursors
  BY DEF Cursors
<1>7. \A i \in 1 .. N : At(i).version = v /\ At(i).turn = t /\ At(i).left = N - i
  OBVIOUS
<1>. HIDE DEF At
<1>8. PICK w : w = [i \in 0 .. N |-> IF i = 0 THEN d ELSE At(i)]
  OBVIOUS
<1>9. w \in [0 .. N -> Cursors] /\ w[0] = d /\ \A i \in 1 .. N : w[i] = At(i)
  BY <1>6, <1>8
<1>10. ASSUME NEW i \in 1 .. N PROVE Leads(a, out[i], w[i - 1], w[i])
  <2>1. PICK c, e, r : c = w[i - 1] /\ e = w[i] /\ r = out[i]
    OBVIOUS
  <2>2. r.kind = "snapshot" /\ r.asset = a /\ r.key = << v, t >> /\ r.row = rows[i] /\ r.seq = i - 1
    BY <1>4, <2>1 DEF SnapshotRecord
  <2>3. e.version = v /\ e.turn = t /\ e.left = N - i
    BY <1>7, <1>9, <2>1
  <2>4. \/ r.seq = 0 /\ c.turn # e.turn /\ c.left = 0
        \/ r.seq # 0 /\ c.turn = e.turn /\ c.version = e.version /\ c.left = e.left + 1
    <3>1. CASE i = 1
      <4>1. c = d
        BY <1>9, <2>1, <3>1
      <4>2. QED  BY <1>1, <2>2, <2>3, <3>1, <4>1
    <3>2. CASE i # 1
      <4>1. i - 1 \in 1 .. N
        BY <3>2
      <4>2. c.version = v /\ c.turn = t /\ c.left = N - (i - 1)
        BY <1>7, <1>9, <2>1, <4>1
      <4>3. QED  BY <2>2, <2>3, <3>2, <4>2
    <3>3. QED  BY <3>1, <3>2
  <2>5. /\ r.seq < Len(Shown(e.version)) /\ r.row = Shown(e.version)[r.seq + 1]
        /\ e.left + r.seq + 1 = Len(Shown(e.version))
    <3>1. (i - 1) + 1 = i /\ i - 1 < N /\ (N - i) + (i - 1) + 1 = N
      OBVIOUS
    <3>2. QED  BY <1>2, <1>4, <2>2, <2>3, <3>1
  <2>6. BringsRow(a, r, c, e)
    BY <2>2, <2>3, <2>4, <2>5 DEF BringsRow
  <2>7. QED  BY <2>1, <2>6 DEF Leads
<1>11. N \in 1 .. N /\ N - N = 0
  BY <1>5
<1>12. w[N] = [version |-> v, turn |-> t, left |-> 0]
  BY <1>9, <1>11 DEF At
<1>13. Trail(a, out, d, [version |-> v, turn |-> t, left |-> 0])
  BY <1>4, <1>9, <1>10, <1>12 DEF Trail, Along
<1>14. QED  BY <1>1, <1>3, <1>13

\* The cursor after n changes.
Moved(d, p, n) == [version |-> IF p = Unknown THEN d.version ELSE p + n, turn |-> d.turn, left |-> 0]

LEMMA MovedFacts ==
    ASSUME NEW d \in Cursors, NEW p, NEW n
    PROVE  /\ Moved(d, p, n).turn = d.turn /\ Moved(d, p, n).left = 0
           /\ p # Unknown => Moved(d, p, n).version = p + n
           /\ p = Unknown \/ p + n \in Reached => Moved(d, p, n) \in Cursors
           /\ d.left = 0 /\ (p # Unknown => d.version = p /\ p \in Int) => Moved(d, p, 0) = d
<1>1. Moved(d, p, n).turn = d.turn /\ Moved(d, p, n).left = 0
      /\ (p # Unknown => Moved(d, p, n).version = p + n)
  BY DEF Moved
<1>2. ASSUME p = Unknown \/ p + n \in Reached PROVE Moved(d, p, n) \in Cursors
  <2>1. d.turn \in {0, 1} /\ d.version \in {Unknown} \cup Reached
    BY DEF Cursors
  <2>2. CASE p = Unknown
    BY <2>1, <2>2 DEF Moved, Cursors
  <2>3. CASE p # Unknown
    BY <1>2, <2>1, <2>3 DEF Moved, Cursors
  <2>4. QED  BY <2>2, <2>3
<1>3. ASSUME d.left = 0, p # Unknown => d.version = p /\ p \in Int PROVE Moved(d, p, 0) = d
  <2>1. d = [version |-> d.version, turn |-> d.turn, left |-> 0]
    BY <1>3 DEF Cursors
  <2>2. (IF p = Unknown THEN d.version ELSE p + 0) = d.version
    BY <1>3
  <2>3. QED  BY <2>1, <2>2 DEF Moved
<1>4. QED  BY <1>1, <1>2, <1>3

LEMMA EntryTrail ==
    ASSUME NEW entries, NEW p \in Marks, NEW N, NEW who, Follows(entries, p, N, who),
           NEW i \in 1 .. N, NEW acc \in Accs, NEW next \in Accs,
           EntryOutcome(acc, entries[i], IsLastOf(entries, i), next),
           NEW a \in Assets, NEW d \in Cursors,
           Trail(a, acc.out, d, Moved(d, p[a], ChangesOf(who, i - 1, a)))
    PROVE  Trail(a, next.out, d, Moved(d, p[a], ChangesOf(who, i, a)))
<1>1. PICK e \in Entries : e = entries[i]
  BY DEF Follows
<1>2. PICK b \in Assets : b = who[i]
  BY DEF Follows
<1>3. /\ ~e.bad /\ e.asset = b /\ p[b] # Unknown /\ p[b] \in Reached
      /\ e.version = p[b] + ChangesOf(who, i, b) /\ e.version \in 1 .. Len(Changes)
  BY <1>1, <1>2, EntryParts DEF Follows, Marks
<1>4. PICK m \in Nat, n \in Nat : m = ChangesOf(who, i - 1, a) /\ n = ChangesOf(who, i, a)
  <2>1. i \in Nat \ {0} /\ i - 1 \in Nat
    BY DEF Follows
  <2>2. QED  BY <2>1, ChangesOfFacts
<1>5. (b = a => n = m + 1) /\ (b # a => n = m)
  <2>1. i \in Nat \ {0}
    BY DEF Follows
  <2>2. QED  BY <1>2, <1>4, <2>1, KeptCount
<1>6. PICK c, x : c = Moved(d, p[a], m) /\ x = Moved(d, p[a], n)
  OBVIOUS
<1>7. PICK r \in FeedRecords : r = DeltaOf(acc, e) /\ r.kind = "delta" /\ r.asset = b /\ r.row = Changes[e.version]
  BY <1>3, EntryParts
<1>8. PICK out \in Seq(FeedRecords) : out = acc.out /\ Trail(a, out, d, c)
  BY <1>4, <1>6 DEF Accs
<1>9. CASE b = a
  <2>1. PICK v \in Reached : v = p[a] /\ v # Unknown
    BY <1>3, <1>9
  <2>2. e.version = v + n /\ n = m + 1 /\ v \in Int
    BY <1>3, <1>4, <1>5, <1>9, <2>1, ConstantFacts
  <2>3. v + n \in Reached /\ v + m \in Reached /\ v + n = (v + m) + 1
    BY <1>3, <2>2, ConstantFacts DEF Reached
  <2>4. /\ c.version = v + m /\ c.left = 0 /\ c.turn = d.turn
        /\ x.version = v + n /\ x.left = 0 /\ x.turn = d.turn /\ x \in Cursors
    <3>1. c = Moved(d, v, m) /\ x = Moved(d, v, n)
      BY <1>6, <2>1
    <3>2. c.version = v + m /\ c.left = 0 /\ c.turn = d.turn
      BY <2>1, <3>1, MovedFacts
    <3>3. x.version = v + n /\ x.left = 0 /\ x.turn = d.turn
      BY <2>1, <3>1, MovedFacts
    <3>4. x \in Cursors
      BY <2>3, <3>1, MovedFacts
    <3>5. QED  BY <3>2, <3>3, <3>4
  <2>5. BringsDelta(a, r, c, x)
    BY <1>7, <1>9, <2>2, <2>3, <2>4 DEF BringsDelta
  <2>6. Leads(a, r, c, x)
    BY <2>5 DEF Leads
  <2>7. Trail(a, Append(out, r), d, x)
    BY <1>8, <2>4, <2>6, TrailAppend
  <2>8. QED
    <3>1. CASE next.out = Append(out, r)
      BY <1>4, <1>6, <2>7, <3>1
    <3>2. CASE \E event \in Alarms : next.out = Append(Append(out, r), IngestRecord(event, b))
      <4>1. PICK event \in Alarms : next.out = Append(Append(out, r), IngestRecord(event, b))
        BY <3>2
      <4>2. Leads(a, IngestRecord(event, b), x, x)
        BY DEF Leads, IngestRecord
      <4>3. Append(out, r) \in Seq(FeedRecords)
        BY <1>7, <1>8
      <4>4. Trail(a, Append(Append(out, r), IngestRecord(event, b)), d, x)
        BY <2>4, <2>7, <4>2, <4>3, TrailAppend
      <4>5. QED  BY <1>4, <1>6, <4>1, <4>4
    <3>3. QED
      BY <1>1, <1>3, <1>7, <1>8, <3>1, <3>2
         DEF EntryOutcome, Skipped, Forwarded, Overflowed, Diverged, Followed, Alarms
<1>10. CASE b # a
  <2>1. x = c
    BY <1>5, <1>6, <1>10
  <2>2. Leads(a, r, c, c)
    BY <1>7, <1>10 DEF Leads
  <2>3. c \in Cursors
    BY <1>8 DEF Trail, Along
  <2>4. Trail(a, Append(out, r), d, c)
    BY <1>8, <2>2, <2>3, TrailAppend
  <2>5. QED
    <3>1. CASE next.out = Append(out, r)
      BY <1>4, <1>6, <2>1, <2>4, <3>1
    <3>2. CASE \E event \in Alarms : next.out = Append(Append(out, r), IngestRecord(event, b))
      <4>1. PICK event \in Alarms : next.out = Append(Append(out, r), IngestRecord(event, b))
        BY <3>2
      <4>2. Leads(a, IngestRecord(event, b), c, c)
        BY DEF Leads, IngestRecord
      <4>3. Append(out, r) \in Seq(FeedRecords)
        BY <1>7, <1>8
      <4>4. Trail(a, Append(Append(out, r), IngestRecord(event, b)), d, c)
        BY <2>3, <2>4, <4>2, <4>3, TrailAppend
      <4>5. QED  BY <1>4, <1>6, <2>1, <4>1, <4>4
    <3>3. QED
      BY <1>1, <1>3, <1>7, <1>8, <3>1, <3>2
         DEF EntryOutcome, Skipped, Forwarded, Overflowed, Diverged, Followed, Alarms
<1>11. QED  BY <1>9, <1>10

\* The deltas of a price_change lead on by the changes it has of an asset.
LEMMA ChangesTrail ==
    ASSUME DispatcherTypeOK, NEW entries, NEW p \in Marks, NEW N, NEW who, Follows(entries, p, N, who),
           NEW a \in Assets, NEW d \in Cursors, d.left = 0, p[a] # Unknown => d.version = p[a]
    PROVE  Trail(a, Dispatched(entries).out, d, Moved(d, p[a], ChangesOf(who, N, a)))
<1>1. N \in Nat /\ entries \in Seq(Entries) /\ Len(entries) = N
  BY DEF Follows
<1>2. PICK f : DispatchedSteps(f, entries)
  BY <1>1, DispatchedFacts
<1>. DEFINE T == {i \in 0 .. N : Trail(a, f[i].out, d, Moved(d, p[a], ChangesOf(who, i, a)))}
<1>3. 0 \in T
  <2>1. f[0].out = << >> /\ ChangesOf(who, 0, a) = 0
    BY <1>2, ChangesOfFacts DEF DispatchedSteps
  <2>2. ASSUME p[a] # Unknown PROVE p[a] \in Int
    <3>1. PICK v \in Reached : v = p[a]
      BY <2>2 DEF Marks
    <3>2. v \in Nat
      BY ConstantFacts
    <3>3. QED  BY <3>1, <3>2
  <2>3. Moved(d, p[a], 0) = d
    BY <2>2, MovedFacts
  <2>4. Trail(a, << >>, d, d)
    BY TrailEmpty
  <2>5. 0 \in 0 .. N
    BY <1>1
  <2>6. QED  BY <2>1, <2>3, <2>4, <2>5
<1>4. ASSUME NEW i \in 1 .. N, i - 1 \in T PROVE i \in T
  <2>1. i \in 0 .. N /\ i - 1 \in 0 .. N /\ i \in 1 .. Len(entries)
    BY <1>1
  <2>2. PICK acc \in Accs, next \in Accs : acc = f[i - 1] /\ next = f[i]
    BY <1>1, <1>2, <2>1 DEF DispatchedSteps
  <2>3. next = DispatchEntry(acc, entries, i)
    BY <1>2, <2>1, <2>2 DEF DispatchedSteps
  <2>4. EntryOutcome(acc, entries[i], IsLastOf(entries, i), next)
    BY <1>1, <2>1, <2>3, EntryFacts
  <2>5. Trail(a, acc.out, d, Moved(d, p[a], ChangesOf(who, i - 1, a)))
    BY <1>4, <2>2
  <2>6. Trail(a, next.out, d, Moved(d, p[a], ChangesOf(who, i, a)))
    BY <2>4, <2>5, EntryTrail
  <2>7. QED  BY <2>1, <2>2, <2>6
<1>. HIDE DEF T
<1>5. \A i \in 0 .. N : i \in T
  BY <1>1, <1>3, <1>4, Climb
<1>6. N \in T
  BY <1>1, <1>5
<1>7. Trail(a, f[N].out, d, Moved(d, p[a], ChangesOf(who, N, a)))
  BY <1>6 DEF T
<1>8. f[N] = Dispatched(entries)
  BY <1>1, <1>2 DEF DispatchedSteps
<1>9. QED  BY <1>7, <1>8

\* An asset whose mark is unknown has no changes in a message.
LEMMA UnknownUnchanged ==
    ASSUME NEW entries, NEW p, NEW N, NEW who, Follows(entries, p, N, who), NEW a, p[a] = Unknown
    PROVE  ChangesOf(who, N, a) = 0
<1>1. {j \in 1 .. N : who[j] = a} = {}
  BY DEF Follows
<1>2. QED  BY <1>1, FS_EmptySet DEF ChangesOf

\* The dispatcher's cursor goes where its records lead, and ends at its next mark.
DispatcherMoves(a, d, x) == \E e : Trail(a, outbox', d, e) /\ DispatcherAt(a, e, x)'

LEMMA AcceptTrail ==
    ASSUME BooksHaveLevels, FeedTypeOK, AcceptBook, NEW p \in Marks, NEW q \in Marks,
           Brings(Head(raw), p, q), NEW a \in Assets, NEW d, DispatcherAt(a, d, p[a])
    PROVE  DispatcherMoves(a, d, q[a])
<1>1. PICK m, b, rows : TakenOver(m, b, rows)
  BY AcceptBookFacts
<1>2. PICK x \in Assets, v \in Reached, t \in {0, 1} : x = m.asset /\ v = m.version /\ t = turn[x]
  BY <1>1, TakenOverRows
<1>3. q = [p EXCEPT ![x] = v]
  <2>1. m = Head(raw) /\ m.type = "book"
    BY <1>1 DEF TakenOver, BookMessages
  <2>2. QED  BY <1>2, <2>1, BringsKinds DEF BringsBook
<1>4. turn' = [turn EXCEPT ![x] = 1 - @] /\ turn \in [Assets -> {0, 1}]
  BY <1>1, <1>2 DEF TakenOver, FeedTypeOK, DispatcherTypeOK
<1>5. d \in Cursors /\ d.left = 0 /\ d.turn = 1 - turn[a] /\ (p[a] # Unknown => d.version = p[a])
  BY DEF DispatcherAt
<1>6. CASE a = x
  <2>1. PICK e : e = [version |-> v, turn |-> t, left |-> 0]
    OBVIOUS
  <2>2. Trail(a, outbox', d, e)
    BY <1>1, <1>2, <1>5, <1>6, <2>1, SnapshotTrail
  <2>3. e \in Cursors /\ e.left = 0 /\ e.turn = t /\ e.version = v
    BY <2>1 DEF Cursors
  <2>4. turn'[a] = 1 - t /\ t = 1 - (1 - t) /\ q[a] = v
    BY <1>2, <1>3, <1>4, <1>6 DEF Marks
  <2>5. DispatcherAt(a, e, q[a])'
    BY <2>3, <2>4 DEF DispatcherAt
  <2>6. QED  BY <2>2, <2>5 DEF DispatcherMoves
<1>7. CASE a # x
  <2>1. Len(outbox') = Len(rows) /\ \A i \in 1 .. Len(rows) : outbox'[i].asset = x
    <3>1. Len(outbox') = Len(rows) /\ \A i \in 1 .. Len(rows) : outbox'[i] = SnapshotRecord(m.asset, Key(m), rows[i], i - 1)
      BY <1>1, TakenOverRows
    <3>2. \A i : SnapshotRecord(m.asset, Key(m), rows[i], i - 1).asset = x
      BY <1>2 DEF SnapshotRecord
    <3>3. QED  BY <3>1, <3>2
  <2>2. outbox' \in Seq(FeedRecords)
    BY <1>1 DEF TakenOver
  <2>3. Trail(a, outbox', d, d)
    BY <1>5, <1>7, <2>1, <2>2, TrailStill
  <2>4. turn'[a] = turn[a] /\ q[a] = p[a]
    BY <1>3, <1>4, <1>7 DEF Marks
  <2>5. DispatcherAt(a, d, q[a])'
    BY <1>5, <2>4 DEF DispatcherAt
  <2>6. QED  BY <2>3, <2>5 DEF DispatcherMoves
<1>8. QED  BY <1>6, <1>7

\* Every book of the venue fits, so a book that is dropped is the last one over again.
LEMMA DropTrail ==
    ASSUME TotalsFit, FeedTypeOK, DropBook, NEW p \in Marks, NEW q \in Marks,
           Behind(shadow, lastHash, lastTs, p), Brings(Head(raw), p, q),
           NEW a \in Assets, NEW d, DispatcherAt(a, d, p[a])
    PROVE  DispatcherMoves(a, d, q[a])
<1>1. PICK m, why : Dropped(m, why)
  BY DropBookFacts
<1>2. PICK x \in Assets, v \in Reached : x = m.asset /\ v = m.version
  BY <1>1, DroppedRepeats
<1>3. q = [p EXCEPT ![x] = v] /\ why = "duplicate" /\ p[x] = v
  <2>1. Snapshot(RowsOf(VenueAt[v])).ok
    BY VenueFits DEF Shown
  <2>2. QED  BY <1>1, <1>2, <2>1, DroppedRepeats
<1>4. q[a] = p[a]
  BY <1>3 DEF Marks
<1>5. outbox' = << >>
  BY <1>1, <1>3 DEF Dropped
<1>6. turn' = turn
  BY DEF DropBook
<1>7. d \in Cursors /\ DispatcherAt(a, d, q[a])'
  BY <1>4, <1>6 DEF DispatcherAt
<1>8. Trail(a, outbox', d, d)
  BY <1>5, <1>7, TrailEmpty
<1>9. QED  BY <1>7, <1>8 DEF DispatcherMoves

LEMMA DeltasTrail ==
    ASSUME FeedTypeOK, DispatchChanges, NEW p \in Marks, NEW q \in Marks,
           Brings(Head(raw), p, q), NEW a \in Assets, NEW d, DispatcherAt(a, d, p[a])
    PROVE  DispatcherMoves(a, d, q[a])
<1>1. PICK m, entries : Handled(m, entries)
  BY DispatchChangesFacts
<1>2. m = Head(raw) /\ m \in ChangeMessages /\ m.type = "price_change"
  BY <1>1 DEF Handled, ChangeMessages
<1>3. m.fault = "none" /\ \E N, who : /\ Follows(m.entries, p, N, who)
                                     /\ q = [x \in Assets |-> p[x] + ChangesOf(who, N, x)]
  BY <1>2, BringsKinds DEF BringsChanges
<1>4. PICK N, who : Follows(m.entries, p, N, who) /\ q = [x \in Assets |-> p[x] + ChangesOf(who, N, x)]
  BY <1>3
<1>5. entries = m.entries
  BY <1>1, <1>3 DEF Handled
<1>6. d \in Cursors /\ d.left = 0 /\ d.turn = 1 - turn[a] /\ (p[a] # Unknown => d.version = p[a])
  BY DEF DispatcherAt
<1>7. PICK n : n = ChangesOf(who, N, a)
  OBVIOUS
<1>8. Trail(a, outbox', d, Moved(d, p[a], n))
  BY <1>1, <1>4, <1>5, <1>6, <1>7, ChangesTrail DEF FeedTypeOK, Handled
<1>9. q[a] = p[a] + n /\ (p[a] = Unknown => n = 0)
  BY <1>4, <1>7, UnknownUnchanged
<1>10. q[a] \in {Unknown} \cup Reached /\ p[a] \in {Unknown} \cup Reached
  BY DEF Marks
<1>11. p[a] # Unknown => q[a] \in Reached
  <2>1. n \in Nat
    BY <1>4, <1>7, ChangesOfFacts DEF Follows
  <2>2. ASSUME p[a] # Unknown PROVE q[a] # Unknown
    <3>1. PICK v \in Nat : v = p[a]
      BY <1>10, <2>2, ConstantFacts
    <3>2. QED  BY <1>9, <2>1, <3>1 DEF Unknown
  <2>3. QED  BY <1>10, <2>2
<1>12. PICK e \in Cursors : e = Moved(d, p[a], n)
  BY <1>6, <1>9, <1>11, MovedFacts
<1>13. e.turn = d.turn /\ e.left = 0 /\ (p[a] # Unknown => e.version = q[a]) /\ (p[a] = Unknown => q[a] = Unknown)
  BY <1>6, <1>9, <1>12, MovedFacts DEF Unknown
<1>14. turn' = turn
  BY DEF DispatchChanges
<1>15. DispatcherAt(a, e, q[a])'
  BY <1>6, <1>13, <1>14 DEF DispatcherAt
<1>16. QED  BY <1>8, <1>12, <1>15 DEF DispatcherMoves

LEMMA SilentTrail ==
    ASSUME FeedTypeOK, DispatchTrade \/ DispatchLifecycle, NEW p \in Marks, NEW q \in Marks,
           Brings(Head(raw), p, q), NEW a \in Assets, NEW d, DispatcherAt(a, d, p[a])
    PROVE  DispatcherMoves(a, d, q[a])
<1>1. d \in Cursors
  BY DEF DispatcherAt
<1>2. Silent(outbox')
  BY DispatchTradeFacts, DispatchLifecycleFacts
<1>3. Trail(a, outbox', d, d)
  <2>1. outbox' \in Seq(FeedRecords) /\ \A i \in 1 .. Len(outbox') : outbox'[i].asset # a
    BY <1>2, RecordsAssumption DEF Silent
  <2>2. QED  BY <1>1, <2>1, TrailStill
<1>4. turn' = turn
  <2>1. UNCHANGED trackers => turn' = turn
    BY DEF trackers
  <2>2. CASE DispatchTrade
    BY <2>1, <2>2 DEF DispatchTrade
  <2>3. CASE DispatchLifecycle
    BY <2>1, <2>3, DispatchLifecycleFacts DEF Cleared
  <2>4. QED  BY <2>2, <2>3
<1>5. q = p \/ q[a] = Unknown
  <2>1. CASE DispatchTrade
    <3>1. Head(raw).type = "last_trade_price"
      BY <2>1 DEF DispatchTrade, Take
    <3>2. QED  BY <3>1, BringsKinds
  <2>2. CASE DispatchLifecycle
    <3>1. Head(raw).type = "lifecycle"
      BY <2>2 DEF DispatchLifecycle, Take
    <3>2. Head(raw).event \in {"reconnect_success", "reconnect_start"}
      BY <2>2, DispatchLifecycleFacts
    <3>3. QED  BY <3>1, <3>2, BringsKinds
  <2>3. QED  BY <2>1, <2>2
<1>6. DispatcherAt(a, d, q[a])'
  BY <1>4, <1>5 DEF DispatcherAt
<1>7. QED  BY <1>3, <1>6 DEF DispatcherMoves

LEMMA DispatchTrail ==
    ASSUME BooksHaveLevels, TotalsFit, FeedTypeOK, Dispatch, NEW p \in Marks, NEW q \in Marks,
           Behind(shadow, lastHash, lastTs, p), Brings(Head(raw), p, q),
           NEW a \in Assets, NEW d, DispatcherAt(a, d, p[a])
    PROVE  DispatcherMoves(a, d, q[a])
BY AcceptTrail, DropTrail, DeltasTrail, SilentTrail DEF Dispatch

------------------------------------------------------------------------------
(***************************************************************************)
(* What the projector makes of the records keeps up with its cursor.       *)
(***************************************************************************)
IsVenue(b, v) == v \in Reached /\ b \in Books /\ b.size = VenueAt[v].size /\ Consistent(b)

\* A group that waits is a run of the rows of the snapshot the cursor is at.
RunOfRows(g, c) ==
    /\ c.version \in Reached /\ g.key = << c.version, c.turn >> /\ g.rows \in Seq(Rows)
    /\ \E k \in Nat : /\ k + Len(g.rows) + c.left = Len(Shown(c.version))
                      /\ \A i \in 1 .. Len(g.rows) : g.rows[i] = Shown(c.version)[k + i]

ProjectorAt(a, c) ==
    /\ c \in Cursors /\ c.version = upto[a]
    /\ pending[a] # NoPending => RunOfRows(pending[a], c)
    /\ ready[a] /\ basis[a] = "whole" /\ pending[a] = NoPending => IsVenue(book[a], c.version)

\* What the book of a was built from once the groups that record rec ends are settled.
Settled(rec, a) == IF a \in Materialized(rec) THEN IF Whole(a) THEN "whole" ELSE "partial" ELSE basis[a]

LEMMA Settles ==
    ASSUME RowsInv, PublishedInv, NEW rec, NEW a \in Assets, NEW c, ProjectorAt(a, c),
           MatReady(rec)[a], Settled(rec, a) = "whole", MatPending(rec)[a] = NoPending
    PROVE  IsVenue(MatBook(rec)[a], c.version)
<1>1. CASE a \notin Materialized(rec)
  BY <1>1, UntouchedByMaterialize DEF ProjectorAt, Settled
<1>2. CASE a \in Materialized(rec)
  <2>1. pending[a] # NoPending /\ Snapshot(pending[a].rows).ok /\ Whole(a)
    BY <1>2 DEF Materialized, EndedGroups, HasPending, Settled
  <2>2. RunOfRows(pending[a], c)
    BY <2>1 DEF ProjectorAt
  <2>3. PICK v \in Reached : v = c.version
    BY <2>2 DEF RunOfRows
  <2>4. PICK rows \in Seq(Rows) : rows = pending[a].rows
    BY <2>2 DEF RunOfRows
  <2>5. pending[a].key[1] = v
    BY <2>2, <2>3 DEF RunOfRows
  <2>6. PICK shown \in Seq(Rows) : shown = Shown(v)
    BY ShownFacts
  <2>7. Len(rows) = Len(shown)
    BY <2>1, <2>4, <2>5, <2>6 DEF Whole, Shown
  <2>8. PICK k \in Nat : k + Len(rows) + c.left = Len(shown) /\ \A i \in 1 .. Len(rows) : rows[i] = shown[k + i]
    BY <2>2, <2>3, <2>4, <2>6 DEF RunOfRows
  <2>9. k = 0
    BY <2>7, <2>8 DEF ProjectorAt, Cursors
  <2>10. rows = shown
    BY <2>7, <2>8, <2>9
  <2>11. VenueAt[v] \in Books /\ shown = RowsOf(VenueAt[v])
    BY <2>6, ShownFacts DEF Shown
  <2>12. Snapshot(rows).book \in Books /\ Snapshot(rows).book.size = VenueAt[v].size
    BY <2>1, <2>4, <2>10, <2>11, SnapshotIsBook
  <2>13. Consistent(Snapshot(rows).book)
    BY SnapshotConsistent
  <2>14. MatBook(rec)[a] = Snapshot(rows).book
    BY <1>2, <2>4 DEF MatBook
  <2>15. QED  BY <2>3, <2>12, <2>13, <2>14 DEF IsVenue
<1>3. QED  BY <1>1, <1>2

\* The venue's next change, applied to the venue's book, fits and gives its next book.
LEMMA VenueStep ==
    ASSUME TotalsFit, NEW v \in Reached, v + 1 \in Reached, NEW b, IsVenue(b, v),
           NEW row, row = Changes[v + 1]
    PROVE  DeltaFits(b, row.level, row.size) /\ IsVenue(SetLevel(b, row.level, row.size), v + 1)
<1>1. PICK w \in Nat : w = v + 1 /\ w \in Reached /\ w \in 1 .. Len(Changes) /\ w - 1 = v
  BY ConstantFacts DEF Reached
<1>2. PICK l \in Levels, q \in Nat : l = row.level /\ q = row.size
  BY <1>1, VenueFacts DEF Rows
<1>3. PICK old \in Books, new \in Books : old = VenueAt[v] /\ new = VenueAt[w]
  BY <1>1, ConstantFacts, VenueFacts
<1>4. new = SetLevel(old, l, q)
  BY <1>1, <1>2, <1>3, VenueFacts
<1>5. Consistent(new)
  BY <1>1, <1>3, ConstantFacts, VenueConsistent
<1>6. b \in Books /\ Consistent(b) /\ b.size = old.size
  BY <1>3 DEF IsVenue
<1>7. PICK mine \in Books : mine = SetLevel(b, l, q)
  BY <1>6, SetLevelFacts
<1>8. Consistent(mine) /\ mine.size = new.size /\ mine.total[l.side] = b.total[l.side] - b.size[l] + q
  <2>1. Consistent(mine) /\ mine.size = [b.size EXCEPT ![l] = q]
        /\ mine.total[l.side] = b.total[l.side] - b.size[l] + q
    BY <1>6, <1>7, SetLevelConsistent
  <2>2. new.size = [old.size EXCEPT ![l] = q]
    BY <1>4, SetLevelFacts
  <2>3. QED  BY <1>6, <2>1, <2>2
<1>9. l.side \in Sides
  BY DEF Levels
<1>10. mine.total[l.side] <= new.total[l.side]
  <2>1. \A x \in Levels : mine.size[x] <= new.size[x]
    BY <1>8 DEF Books
  <2>2. QED  BY <1>5, <1>8, <1>9, <2>1, TotalGrows
<1>11. new.total[l.side] <= MaxTotal
  BY <1>1, <1>3, <1>9 DEF TotalsFit, Reached
<1>12. mine.total[l.side] <= MaxTotal
  <2>1. mine.total[l.side] \in Int /\ new.total[l.side] \in Int /\ MaxTotal \in Int
    BY <1>9, BookAssumption DEF Books
  <2>2. QED  BY <1>10, <1>11, <2>1
<1>13. DeltaFits(b, l, q)
  BY <1>8, <1>12 DEF DeltaFits
<1>14. IsVenue(mine, w)
  BY <1>1, <1>3, <1>8 DEF IsVenue
<1>15. QED  BY <1>1, <1>2, <1>7, <1>13, <1>14

\* A record leaves the books it is not about as they are after the groups it ends.
LEMMA BooksElsewhere ==
    ASSUME NEW rec, ApplyRecord(rec), NEW a \in Assets,
           ~(rec.kind = "delta" /\ rec.asset = a),
           ~(rec.kind = "checkpoint" /\ rec.asset = a /\ Seeds(a, rec))
    PROVE  book'[a] = MatBook(rec)[a] /\ ready'[a] = MatReady(rec)[a]
<1>1. DOMAIN MatBook(rec) = Assets /\ DOMAIN MatReady(rec) = Assets
  BY DEF MatBook, MatReady
<1>2. CASE ApplyRow(rec) \/ ApplyIngest(rec) \/ ApplyOther(rec)
  BY <1>2 DEF ApplyRow, ApplyIngest, ApplyOther
<1>3. CASE ApplyDelta(rec)
  <2>1. rec.asset # a /\ ready' = MatReady(rec)
    BY <1>3 DEF ApplyDelta
  <2>2. book' = MatBook(rec) \/ \E x : book' = [MatBook(rec) EXCEPT ![rec.asset] = x]
    BY <1>3 DEF ApplyDelta
  <2>3. QED  BY <1>1, <2>1, <2>2
<1>4. CASE ApplyCheckpoint(rec)
  <2>1. CASE ~Seeds(rec.asset, rec)
    BY <1>4, <2>1 DEF ApplyCheckpoint
  <2>2. CASE Seeds(rec.asset, rec)
    <3>1. rec.asset # a
      BY <1>4, <2>2 DEF ApplyCheckpoint
    <3>2. book' = MatBook(rec) \/ \E b : book' = [MatBook(rec) EXCEPT ![rec.asset] = b]
      BY <1>4 DEF ApplyCheckpoint
    <3>3. ready' = MatReady(rec) \/ ready' = [MatReady(rec) EXCEPT ![rec.asset] = TRUE]
      BY <1>4 DEF ApplyCheckpoint
    <3>4. QED  BY <1>1, <3>1, <3>2, <3>3
  <2>3. QED  BY <2>1, <2>2
<1>5. QED  BY <1>2, <1>3, <1>4 DEF ApplyRecord

\* The steps of the projector that the cursor of asset a follows.
Applied(rec, a) ==
    /\ rec \in FeedRecords \cup CheckpointRecords
    /\ ApplyRecord(rec)
    /\ basis'[a] = NewBasis(rec, a) /\ upto'[a] = NewVersion(rec, a)

\* A row joins the group that waits, or begins one.
LEMMA RowJoins ==
    ASSUME NEW a \in Assets, NEW c, ProjectorAt(a, c), NEW rec, Applied(rec, a),
           NEW d \in Cursors, BringsRow(a, rec, c, d)
    PROVE  ProjectorAt(a, d)'
<1>1. rec \in SnapshotRecords /\ rec.kind = "snapshot" /\ rec.asset = a
  BY RecordKinds DEF Applied, BringsRow
<1>2. PICK key \in Keys, row \in Rows, n \in Nat : key = rec.key /\ row = rec.row /\ n = rec.seq
  BY <1>1 DEF SnapshotRecords
<1>3. PICK v \in Reached, shown \in Seq(Rows) : v = d.version /\ shown = Shown(v)
  BY ShownFacts DEF BringsRow
<1>4. /\ key = << v, d.turn >> /\ n < Len(shown) /\ row = shown[n + 1] /\ d.left + n + 1 = Len(shown)
      /\ n # 0 \/ c.turn # d.turn
      /\ n # 0 => c.turn = d.turn /\ c.version = v /\ c.left = d.left + 1
  BY <1>2, <1>3 DEF BringsRow
<1>5. c.left \in Nat /\ d.left \in Nat
  BY DEF ProjectorAt, Cursors
<1>6. upto'[a] = v
  BY <1>1, <1>2, <1>4 DEF Applied, NewVersion
<1>7. PICK old : old = MatPending(rec)[a].rows
  OBVIOUS
<1>8. PICK g : g = [key |-> key, rows |-> Append(old, row)]
  OBVIOUS
<1>9. pending'[a] = g
  BY <1>1, <1>2, <1>7, <1>8, ApplyPending DEF Applied
<1>10. g # NoPending /\ g.key = key /\ g.rows = Append(old, row)
  BY <1>2, <1>8, NoPendingFacts
<1>11. /\ old \in Seq(Rows)
       /\ \E k \in Nat : /\ k + Len(old) = n
                         /\ \A i \in 1 .. Len(old) : old[i] = shown[k + i]
  <2>1. CASE MatPending(rec)[a] = NoPending
    <3>1. old = << >> /\ old \in Seq(Rows)
      BY <1>7, <2>1, NoPendingFacts
    <3>2. Len(old) = 0 /\ n + 0 = n
      BY <1>2, <3>1
    <3>3. QED  BY <3>1, <3>2
  <2>2. CASE MatPending(rec)[a] # NoPending
    <3>1. a \notin EndedGroups(rec) /\ old = pending[a].rows /\ pending[a] # NoPending
      BY <1>7, <2>2 DEF MatPending
    <3>2. pending[a].key = key
      BY <1>1, <1>2, <3>1 DEF EndedGroups, HasPending
    <3>3. RunOfRows(pending[a], c)
      BY <3>1 DEF ProjectorAt
    <3>4. << c.version, c.turn >> = << v, d.turn >>
      BY <1>4, <3>2, <3>3 DEF RunOfRows
    <3>5. n # 0 /\ c.version = v /\ c.left = d.left + 1
      BY <1>4, <3>4
    <3>6. PICK k \in Nat : /\ k + Len(old) + c.left = Len(shown)
                           /\ \A i \in 1 .. Len(old) : old[i] = shown[k + i]
      BY <1>3, <3>1, <3>3, <3>5 DEF RunOfRows
    <3>7. old \in Seq(Rows)
      BY <3>1, <3>3 DEF RunOfRows
    <3>8. Len(old) \in Nat /\ Len(shown) \in Nat
      BY <3>7
    <3>9. k + Len(old) = n
      BY <1>2, <1>4, <1>5, <3>5, <3>6, <3>8
    <3>10. QED  BY <3>6, <3>7, <3>9
  <2>3. QED  BY <2>1, <2>2
<1>12. PICK k \in Nat : k + Len(old) = n /\ \A i \in 1 .. Len(old) : old[i] = shown[k + i]
  BY <1>11
<1>13. PICK N \in Nat : N = Len(old)
  BY <1>11
<1>14. /\ g.rows \in Seq(Rows) /\ Len(g.rows) = N + 1 /\ g.rows[N + 1] = row
       /\ \A i \in 1 .. N : g.rows[i] = old[i]
  BY <1>10, <1>11, <1>13
<1>15. k + Len(g.rows) + d.left = Len(shown)
  BY <1>4, <1>5, <1>12, <1>13, <1>14
<1>16. ASSUME NEW i \in 1 .. Len(g.rows) PROVE g.rows[i] = shown[k + i]
  <2>1. CASE i = N + 1
    <3>1. k + i = n + 1
      BY <1>12, <1>13, <2>1
    <3>2. QED  BY <1>4, <1>14, <2>1, <3>1
  <2>2. CASE i # N + 1
    <3>1. i \in 1 .. N
      BY <1>14, <2>2
    <3>2. QED  BY <1>12, <1>13, <1>14, <3>1
  <2>3. QED  BY <2>1, <2>2
<1>17. RunOfRows(g, d)
  BY <1>3, <1>4, <1>10, <1>14, <1>15, <1>16 DEF RunOfRows
<1>18. QED  BY <1>3, <1>6, <1>9, <1>10, <1>17 DEF ProjectorAt

\* A change is applied to the venue's book, if the book that is served is that.
LEMMA DeltaLeadsOn ==
    ASSUME TotalsFit, RowsInv, PublishedInv, NEW a \in Assets, NEW c, ProjectorAt(a, c),
           NEW rec, Applied(rec, a), NEW d \in Cursors, BringsDelta(a, rec, c, d)
    PROVE  ProjectorAt(a, d)'
<1>1. rec.kind = "delta" /\ rec.asset = a
  BY DEF BringsDelta
<1>2. PICK v \in Reached : v = c.version /\ d.version = v + 1 /\ v + 1 \in Reached /\ rec.row = Changes[v + 1]
  BY DEF BringsDelta
<1>3. upto'[a] = d.version
  BY <1>1, <1>2 DEF Applied, NewVersion, ProjectorAt
<1>4. MatPending(rec)[a] = NoPending
  BY <1>1 DEF MatPending, EndedGroups, HasPending
<1>5. pending'[a] = NoPending
  BY <1>1, <1>4, ApplyPending DEF Applied
<1>6. ApplyDelta(rec)
  BY <1>1 DEF Applied, ApplyRecord, ApplyRow, ApplyIngest, ApplyCheckpoint, ApplyOther
<1>7. ready' = MatReady(rec) /\ basis'[a] = Settled(rec, a)
  BY <1>1, <1>6 DEF Applied, ApplyDelta, NewBasis, Settled
<1>8. ASSUME ready'[a], basis'[a] = "whole" PROVE IsVenue(book'[a], d.version)
  <2>1. IsVenue(MatBook(rec)[a], v)
    BY <1>2, <1>4, <1>7, <1>8, Settles
  <2>2. PICK b, row : b = MatBook(rec)[a] /\ row = rec.row
    OBVIOUS
  <2>3. DeltaFits(b, row.level, row.size) /\ IsVenue(SetLevel(b, row.level, row.size), v + 1)
    BY <1>2, <2>1, <2>2, VenueStep
  <2>4. book' = [MatBook(rec) EXCEPT ![a] = SetLevel(b, row.level, row.size)]
    BY <1>1, <1>6, <2>2, <2>3 DEF ApplyDelta
  <2>5. book'[a] = SetLevel(b, row.level, row.size)
    BY <2>4 DEF MatBook
  <2>6. QED  BY <1>2, <2>3, <2>5
<1>9. QED  BY <1>3, <1>5, <1>8 DEF ProjectorAt

\* A record about something else leaves the cursor and its book, or seeds the book.
LEMMA OthersLeave ==
    ASSUME RowsInv, PublishedInv, NEW a \in Assets, NEW c, ProjectorAt(a, c),
           NEW rec, Applied(rec, a), ~(rec.kind \in {"snapshot", "delta"} /\ rec.asset = a)
    PROVE  ProjectorAt(a, c)'
<1>1. upto'[a] = upto[a] /\ c \in Cursors /\ c.version = upto[a]
  BY DEF Applied, NewVersion, ProjectorAt
<1>2. pending'[a] = MatPending(rec)[a] /\ (pending'[a] = NoPending \/ pending'[a] = pending[a])
  BY ApplyPending DEF Applied, MatPending
<1>3. pending'[a] # NoPending => RunOfRows(pending'[a], c)
  BY <1>2 DEF ProjectorAt
<1>4. ASSUME ready'[a], basis'[a] = "whole", pending'[a] = NoPending PROVE IsVenue(book'[a], c.version)
  <2>1. ~(rec.kind = "checkpoint" /\ rec.asset = a /\ Seeds(a, rec)) /\ basis'[a] = Settled(rec, a)
    BY <1>4 DEF Applied, NewBasis, Settled
  <2>2. book'[a] = MatBook(rec)[a] /\ ready'[a] = MatReady(rec)[a]
    BY <2>1, BooksElsewhere DEF Applied
  <2>3. QED  BY <1>2, <1>4, <2>1, <2>2, Settles
<1>5. QED  BY <1>1, <1>3, <1>4 DEF ProjectorAt

LEMMA ApplyMoves ==
    ASSUME TotalsFit, RowsInv, PublishedInv, NEW a \in Assets, NEW c, ProjectorAt(a, c),
           NEW rec, Applied(rec, a), NEW d \in Cursors, Leads(a, rec, c, d)
    PROVE  ProjectorAt(a, d)'
BY RowJoins, DeltaLeadsOn, OthersLeave DEF Leads

LEMMA RotateStays ==
    ASSUME PublishedInv, Rotate, NEW a \in Assets, NEW c, ProjectorAt(a, c)
    PROVE  ProjectorAt(a, c)'
<1>1. PICK S : SetActive(S) /\ basis' = [x \in Assets |-> IF x \in S THEN basis[x] ELSE "none"]
  BY DEF Rotate
<1>2. upto' = upto /\ basis'[a] = (IF a \in S THEN basis[a] ELSE "none")
  BY <1>1 DEF Rotate
<1>3. /\ book'[a] = (IF a \in S /\ a \in known THEN book[a] ELSE EmptyBook)
      /\ ready'[a] = (a \in S /\ ready[a])
      /\ pending'[a] = (IF a \in S THEN pending[a] ELSE NoPending)
  BY <1>1 DEF SetActive, PendingOf
<1>4. ready[a] => a \in known
  BY DEF PublishedInv
<1>5. pending'[a] # NoPending => RunOfRows(pending'[a], c)
  BY <1>3 DEF ProjectorAt
<1>6. ASSUME ready'[a], basis'[a] = "whole", pending'[a] = NoPending PROVE IsVenue(book'[a], c.version)
  BY <1>2, <1>3, <1>4, <1>6 DEF ProjectorAt
<1>7. QED  BY <1>2, <1>5, <1>6 DEF ProjectorAt

------------------------------------------------------------------------------
(***************************************************************************)
(* While nothing is malformed, the records lead from what the projector    *)
(* has to what the dispatcher has.                                         *)
(***************************************************************************)
Traced(a, x) ==
    \E c, m, d : /\ Trail(a, events, c, m) /\ Trail(a, outbox, m, d)
                 /\ ProjectorAt(a, c) /\ DispatcherAt(a, d, x)

TraceInv == faults = 0 => \E p \in Marks : AlignedAt(p) /\ \A a \in Assets : Traced(a, p[a])

LEMMA ProjectorStays ==
    ASSUME NEW a, NEW c, ProjectorAt(a, c), UNCHANGED << book, ready, pending, basis, upto >>
    PROVE  ProjectorAt(a, c)'
BY DEF ProjectorAt

LEMMA TraceInit == LiveFeedInit => TraceInv
<1>. SUFFICES ASSUME LiveFeedInit PROVE TraceInv
  OBVIOUS
<1>1. PICK p \in Marks : p = [a \in Assets |-> Unknown] /\ AlignedAt(p)
  BY AlignedInit DEF LiveFeedInit
<1>2. PICK c : c = [version |-> Unknown, turn |-> 1, left |-> 0]
  OBVIOUS
<1>3. c \in Cursors /\ c.version = Unknown /\ c.turn = 1 /\ c.left = 0
  BY <1>2 DEF Cursors
<1>4. ASSUME NEW a \in Assets PROVE Traced(a, p[a])
  <2>1. events = << >> /\ outbox = << >> /\ turn[a] = 0
    BY DEF LiveFeedInit, FeedInit
  <2>2. Trail(a, events, c, c) /\ Trail(a, outbox, c, c)
    BY <1>3, <2>1, TrailEmpty
  <2>3. upto[a] = Unknown /\ pending[a] = NoPending /\ ready[a] = FALSE
    BY DEF LiveFeedInit, LiveInit
  <2>4. ProjectorAt(a, c)
    BY <1>3, <2>3 DEF ProjectorAt
  <2>5. DispatcherAt(a, c, p[a])
    BY <1>1, <1>3, <2>1 DEF DispatcherAt
  <2>6. QED  BY <2>2, <2>4, <2>5 DEF Traced
<1>5. QED  BY <1>1, <1>4 DEF TraceInv

\* The steps of the feed.
LEMMA FeedTraced ==
    ASSUME BooksHaveLevels, TotalsFit, RowsInv, FeedStep, NEW p \in Marks, AlignedAt(p), faults' = 0,
           \A a \in Assets : Traced(a, p[a])
    PROVE  TraceInv'
<1>1. FeedTypeOK /\ outbox \in Seq(FeedRecords) /\ events \in Seq(FeedRecords \cup CheckpointRecords)
  BY DEF RowsInv, ChannelTypeOK, FeedTypeOK, DispatcherTypeOK
<1>2. UNCHANGED << book, ready, pending, basis, upto >>
  BY DEF FeedStep, lvars
<1>3. CASE QuietFeed
  <2>1. AlignedAt(p)' /\ turn' = turn
    BY <1>1, <1>3, AlignedQuiet, QuietTyped DEF trackers
  <2>2. ASSUME NEW a \in Assets PROVE Traced(a, p[a])'
    <3>1. PICK c, m, d : /\ Trail(a, events, c, m) /\ Trail(a, outbox, m, d)
                         /\ ProjectorAt(a, c) /\ DispatcherAt(a, d, p[a])
      BY DEF Traced
    <3>2. ProjectorAt(a, c)' /\ DispatcherAt(a, d, p[a])'
      BY <1>2, <2>1, <3>1, ProjectorStays DEF DispatcherAt
    <3>3. CASE UNCHANGED << outbox, events >>
      BY <3>1, <3>2, <3>3 DEF Traced
    <3>4. CASE Send
      <4>1. outbox # << >> /\ outbox' = Tail(outbox) /\ events' = Append(events, Head(outbox))
        BY <3>4 DEF Send
      <4>2. PICK e \in Cursors : Leads(a, Head(outbox), m, e) /\ Trail(a, Tail(outbox), e, d)
        BY <1>1, <3>1, <4>1, TrailTail
      <4>3. Trail(a, Append(events, Head(outbox)), c, e)
        BY <1>1, <3>1, <4>2, TrailAppend
      <4>4. QED  BY <3>2, <4>1, <4>2, <4>3 DEF Traced
    <3>5. QED  BY <1>1, <1>3, <3>3, <3>4, QuietRecords
  <2>3. QED  BY <2>1, <2>2 DEF TraceInv
<1>4. CASE Dispatch
  <2>1. PICK q \in Marks : Brings(Head(raw), p, q) /\ AlignedAt(q)'
    BY <1>1, <1>4, AlignedDispatch
  <2>2. outbox = << >> /\ events' = events
    BY <1>4 DEF Dispatch, DropBook, AcceptBook, DispatchChanges, DispatchTrade, DispatchLifecycle, Take
  <2>3. ASSUME NEW a \in Assets PROVE Traced(a, q[a])'
    <3>1. PICK c, m, d : /\ Trail(a, events, c, m) /\ Trail(a, outbox, m, d)
                         /\ ProjectorAt(a, c) /\ DispatcherAt(a, d, p[a])
      BY DEF Traced
    <3>2. m = d
      BY <2>2, <3>1, TrailEmpty
    <3>3. DispatcherMoves(a, d, q[a])
      BY <1>1, <1>4, <2>1, <3>1, DispatchTrail DEF AlignedAt
    <3>4. PICK e : Trail(a, outbox', d, e) /\ DispatcherAt(a, e, q[a])'
      BY <3>3 DEF DispatcherMoves
    <3>5. ProjectorAt(a, c)'
      BY <1>2, <3>1, ProjectorStays
    <3>6. QED  BY <2>2, <3>1, <3>2, <3>4, <3>5 DEF Traced
  <2>4. QED  BY <2>1, <2>3 DEF TraceInv
<1>5. QED  BY <1>3, <1>4, FeedSteps DEF FeedStep

\* The steps of the producer, of the projector and of the market rotation.
LEMMA LiveTraced ==
    ASSUME TotalsFit, RowsInv, PublishedInv, Producer \/ Apply \/ Rotate \/ UNCHANGED vars,
           NEW p \in Marks, AlignedAt(p), \A a \in Assets : Traced(a, p[a])
    PROVE  TraceInv'
<1>1. events \in Seq(FeedRecords \cup CheckpointRecords)
  BY DEF RowsInv, ChannelTypeOK
<1>2. UNCHANGED << raw, at, shadow, lastHash, lastTs, requests, fetched, turn, outbox >>
  BY DEF Producer, PollBook, SendCheckpoint, Apply, Rotate, vars, fvars, venueVars, trackers, workerVars
<1>3. AlignedAt(p)'
  BY <1>2, AlignedStays
<1>4. ASSUME NEW a \in Assets PROVE Traced(a, p[a])'
  <2>1. PICK c, m, d : /\ Trail(a, events, c, m) /\ Trail(a, outbox, m, d)
                       /\ ProjectorAt(a, c) /\ DispatcherAt(a, d, p[a])
    BY DEF Traced
  <2>2. Trail(a, outbox', m, d) /\ DispatcherAt(a, d, p[a])'
    BY <1>2, <2>1 DEF DispatcherAt
  <2>3. CASE (\E x \in Assets : PollBook(x)) \/ UNCHANGED vars
    <3>1. events' = events /\ UNCHANGED << book, ready, pending, basis, upto >>
      BY <2>3 DEF PollBook, vars, fvars, lvars
    <3>2. ProjectorAt(a, c)'
      BY <2>1, <3>1, ProjectorStays
    <3>3. QED  BY <2>1, <2>2, <3>1, <3>2 DEF Traced
  <2>4. CASE SendCheckpoint
    <3>1. UNCHANGED << book, ready, pending, basis, upto >>
      BY <2>4 DEF SendCheckpoint, lvars
    <3>2. ProjectorAt(a, c)'
      BY <2>1, <3>1, ProjectorStays
    <3>3. PICK r : events' = Append(events, r) /\ r.kind = "checkpoint"
      BY <2>4 DEF SendCheckpoint, CheckpointRecord
    <3>4. Leads(a, r, m, m)
      BY <3>3 DEF Leads
    <3>5. m \in Cursors
      <4>1. PICK N \in Nat : N = Len(events) /\ N \in 0 .. N
        BY <1>1
      <4>2. QED  BY <2>1, <4>1 DEF Trail, Along
    <3>6. Trail(a, Append(events, r), c, m)
      BY <1>1, <2>1, <3>4, <3>5, TrailAppend
    <3>7. QED  BY <2>2, <3>2, <3>3, <3>6 DEF Traced
  <2>5. CASE Apply
    <3>1. PICK rec \in FeedRecords \cup CheckpointRecords : rec = Head(events)
      BY <2>5, NextRecord
    <3>2. events # << >> /\ events' = Tail(events)
      BY <2>5, NextRecord
    <3>3. Applied(rec, a)
      BY <2>5, <3>1 DEF Apply, Applied
    <3>4. PICK e \in Cursors : Leads(a, rec, c, e) /\ Trail(a, Tail(events), e, m)
      BY <1>1, <2>1, <3>1, <3>2, TrailTail
    <3>5. ProjectorAt(a, e)'
      BY <2>1, <3>3, <3>4, ApplyMoves
    <3>6. QED  BY <2>2, <3>2, <3>4, <3>5 DEF Traced
  <2>6. CASE Rotate
    <3>1. events' = events
      BY <2>6 DEF Rotate, fvars
    <3>2. ProjectorAt(a, c)'
      BY <2>1, <2>6, RotateStays
    <3>3. QED  BY <2>1, <2>2, <3>1, <3>2 DEF Traced
  <2>7. QED  BY <2>3, <2>4, <2>5, <2>6 DEF Producer
<1>5. QED  BY <1>3, <1>4 DEF TraceInv

LEMMA TraceStep ==
    BooksHaveLevels /\ TotalsFit /\ RowsInv /\ PublishedInv /\ TraceInv /\ [Next]_vars => TraceInv'
<1>. SUFFICES ASSUME BooksHaveLevels, TotalsFit, RowsInv, PublishedInv, TraceInv, [Next]_vars, faults' = 0
              PROVE  TraceInv'
  BY DEF TraceInv
<1>1. faults = 0
  <2>1. CASE FeedStep
    <3>1. faults \in Nat /\ (faults' = faults \/ faults' = faults + 1)
      BY <2>1, FeedSteps, FaultsOnlyGrow DEF FeedStep, RowsInv
    <3>2. QED  BY <3>1
  <2>2. CASE Producer \/ Apply \/ Rotate \/ UNCHANGED vars
    BY <2>2 DEF Producer, PollBook, SendCheckpoint, Apply, Rotate, vars, fvars, venueVars
  <2>3. QED  BY <2>1, <2>2 DEF Next
<1>2. PICK p \in Marks : AlignedAt(p) /\ \A a \in Assets : Traced(a, p[a])
  BY <1>1 DEF TraceInv
<1>3. CASE FeedStep
  BY <1>2, <1>3, FeedTraced
<1>4. CASE Producer \/ Apply \/ Rotate \/ UNCHANGED vars
  BY <1>2, <1>4, LiveTraced
<1>5. QED  BY <1>3, <1>4 DEF Next

LEMMA TraceGives == TraceInv => ServedIsVenueState
<1>. SUFFICES ASSUME TraceInv, faults = 0, NEW a \in Assets, ready[a], basis[a] = "whole", pending[a] = NoPending
              PROVE  book[a].size = VenueAt[upto[a]].size
  BY DEF ServedIsVenueState
<1>1. PICK p \in Marks : Traced(a, p[a])
  BY DEF TraceInv
<1>2. PICK c : ProjectorAt(a, c)
  BY <1>1 DEF Traced
<1>3. QED  BY <1>2 DEF ProjectorAt, IsVenue

\* While nothing malformed comes in, the book that is served is the venue's at the version
\* its records lead to, if it was built from a whole snapshot and no newer one waits: the
\* grouping of the rows survives whatever falls between them
\* (materialize_pending_before_record, record_delta_event).
THEOREM ServedIsVenueStateAlways == BooksHaveLevels /\ TotalsFit => (Spec => []ServedIsVenueState)
<1>. SUFFICES ASSUME BooksHaveLevels, TotalsFit PROVE Spec => []ServedIsVenueState
  OBVIOUS
<1>1. LiveFeedInit => RowsInv /\ PublishedInv /\ TraceInv
  BY RowsInit, PublishedInit, TraceInit DEF LiveFeedInit
<1>2. RowsInv /\ PublishedInv /\ TraceInv /\ [Next]_vars => RowsInv' /\ PublishedInv' /\ TraceInv'
  BY RowsStep, LiveFeedStep, TraceStep
<1>3. QED  BY <1>1, <1>2, TraceGives, PTL DEF Spec
================================================================================
