------------------------------ MODULE MCLiveFeed ------------------------------
EXTENDS LiveFeed

Change(side, price, size) == [level |-> [side |-> side, price |-> price], size |-> size]

\* From a bid and an ask: a larger bid, and the ask moves away.
Quotes == << Change("bid", 1, 1), Change("ask", 2, 1), Change("bid", 1, 2) >>

\* What ServedIsVenueStateAlways takes for granted of the venue.
ASSUME BooksHaveLevels /\ TotalsFit
===============================================================================
