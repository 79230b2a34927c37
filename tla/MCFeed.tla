-------------------------------- MODULE MCFeed --------------------------------
EXTENDS FeedStream, Rest

Change(side, price, size) == [level |-> [side |-> side, price |-> price], size |-> size]

\* From a bid and an ask: a better bid, which does not fit into a total of 2,
\* the first bid withdrawn, a larger ask, and the second bid withdrawn.
Trading == << Change("bid", 1, 2), Change("ask", 3, 1), Change("bid", 2, 1),
              Change("bid", 1, 0), Change("ask", 3, 2), Change("bid", 2, 0) >>

ASSUME BooksHaveLevels

\* Answers to fetch_book: bodies of up to two parts, around each of the bounds.
SideOf(n) == [i \in 1..n |-> "level"]
Books == {[bids |-> SideOf(n), asks |-> SideOf(m)] : n, m \in 0 .. MaxRestBookLevels + 1}
Answers ==
    [status : {199, 200, 299, 300, 429}, announced : {0, MaxRestBodyBytes, MaxRestBodyBytes + 1},
     chunks : UNION {[1..n -> 0 .. MaxRestBodyBytes + 1] : n \in 0..2},
     broken : BOOLEAN, value : Books \cup {Unparsed}]

Fits(book) == Len(book.bids) <= MaxRestBookLevels /\ Len(book.asks) <= MaxRestBookLevels

\* What the client makes a book of came whole, in a body and with sides within their
\* bounds, and nothing else is refused (read_json_limited, fetch_book).
ASSUME BooksAreBounded ==
    \A answer \in Answers :
        FetchBook(answer).error = "none"
            <=> /\ answer.status \in {200, 299}
                /\ answer.announced <= MaxRestBodyBytes /\ ~answer.broken
                /\ FoldSeq(+, 0, answer.chunks) <= MaxRestBodyBytes
                /\ answer.value \in {b \in Books : Fits(b)}
===============================================================================
