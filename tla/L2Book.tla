-------------------------------- MODULE L2Book --------------------------------
(***************************************************************************)
(* The level-2 order book (pb-book/src/book.rs): the size at each price of *)
(* each side, and the running total of each side, which a u64 holds.       *)
(* Prices are the fixed-point integers the code compares.                  *)
(***************************************************************************)
EXTENDS Integers, FiniteSets, SequencesExt

CONSTANTS
    Prices,   \* the prices levels are at
    MaxTotal  \* the largest total a side can have (u64::MAX)

ASSUME BookAssumption == Prices \subseteq Nat /\ IsFiniteSet(Prices) /\ MaxTotal \in Nat

Sides == {"bid", "ask"}

Levels == [side : Sides, price : Prices]

\* A row of a snapshot, or a delta: the new size at one level.
Row(l, q) == [level |-> l, size |-> q]

EmptyBook == [size |-> [l \in Levels |-> 0], total |-> [s \in Sides |-> 0]]

SetLevel(b, l, q) ==
    [size |-> [b.size EXCEPT ![l] = q],
     total |-> [b.total EXCEPT ![l.side] = @ - b.size[l] + q]]

\* try_apply_delta refuses a size that overflows the side's total; removing a
\* level always succeeds.
DeltaFits(b, l, q) == q = 0 \/ b.total[l.side] - b.size[l] + q <= MaxTotal

\* One row of try_apply_snapshot: rows of size zero are passed over.
TakeRow(acc, r) ==
    IF r.size = 0 \/ ~acc.ok THEN acc
    ELSE IF DeltaFits(acc.book, r.level, r.size)
    THEN [acc EXCEPT !.book = SetLevel(@, r.level, r.size)]
    ELSE [acc EXCEPT !.ok = FALSE]

\* try_apply_snapshot: the book the rows build from nothing, and whether every
\* total fitted.
Snapshot(rows) ==
    LET upTo[i \in 0 .. Len(rows)] ==
            IF i = 0 THEN [ok |-> TRUE, book |-> EmptyBook] ELSE TakeRow(upTo[i - 1], rows[i])
    IN  upTo[Len(rows)]

\* check_integrity fails: the best bid is not below the best ask.
Crossed(b) ==
    \E p, q \in Prices : /\ b.size[[side |-> "bid", price |-> p]] > 0
                         /\ b.size[[side |-> "ask", price |-> q]] > 0
                         /\ p >= q

\* The rows of book b, bids before asks.
RowsOf(b) ==
    LET Of(s) == SetToSeq({Row(l, b.size[l]) : l \in {m \in Levels : m.side = s /\ b.size[m] > 0}})
    IN  Of("bid") \o Of("ask")

===============================================================================
