--------------------------------- MODULE Feed ---------------------------------
(***************************************************************************)
(* One feed subscription (pb-feed): the WebSocket client and the REST      *)
(* resnapshot worker put messages into the raw channel, the dispatcher     *)
(* turns each one into records and sends them, one at a time, into the     *)
(* event channel.                                                          *)
(*                                                                         *)
(* The venue is the environment: the book of every asset goes through the  *)
(* same script of changes, and a version is a position in that script.     *)
(***************************************************************************)
EXTENDS Records, Functions

CONSTANTS
    Changes,     \* the script: the level and size of each change of a book
    FirstVersion,\* the version the venue starts at
    Moving,      \* bound: the assets whose books change
    MaxEntries,  \* the most entries of a price_change message
    MaxDrops,    \* bound: times a connection ends
    MaxFaults,   \* bound: messages or entries that are malformed
    RawCap,      \* the capacity of the raw channel (2048)
    EventCap,    \* the capacity of the event channel (2048)
    RequestCap   \* the capacity of the resnapshot request channel (64)

Versions == 0 .. Len(Changes)

ASSUME FeedAssumption ==
    /\ FirstVersion \in Versions
    /\ Moving \subseteq Assets
    /\ Changes \in Seq([level : Levels, size : Nat])
    /\ {MaxEntries, MaxDrops, MaxFaults, RawCap, EventCap, RequestCap} \subseteq Nat

VARIABLES
    \* the venue and its connection
    venue,     \* venue[a]: the version of the venue's book
    conn,      \* whether the WebSocket is connected
    at,        \* at[a]: the version the connection has brought, Unknown before its first book
    drops, faults,
    raw,       \* the raw channel
    \* the dispatcher
    shadow,    \* validation_books
    lastTs,    \* last_snapshot_ts, 0 for none
    lastHash,  \* last_snapshot_hash, Unknown for none
    seq,       \* asset_sequences
    turn,      \* turn[a]: alternates, to tell an asset's snapshots apart (see Key)
    outbox,    \* the records of the message at hand that are not sent yet
    events,    \* the event channel
    \* the resnapshot worker
    requests,  \* the request channel
    fetched,   \* the REST book it is about to inject
    recent     \* the assets fetched within the debounce interval

venueVars == << venue, conn, at, drops, faults >>
trackers == << shadow, lastTs, lastHash, seq, turn >>
workerVars == << fetched, recent >>
fvars == << venueVars, raw, trackers, outbox, events, requests, workerVars >>

Unknown == -1
NoBook == [size |-> << >>, total |-> << >>]
NoFetch == [asset |-> NoAsset, version |-> Unknown]

VenueAt[v \in Versions] ==
    IF v = 0 THEN EmptyBook ELSE SetLevel(VenueAt[v - 1], Changes[v].level, Changes[v].size)

\* The exchange timestamp of a version, never 0.  It has a coarser resolution
\* than the changes: several versions can share one.
Ts(v) == 1 + (v + 1) \div 2

\* The best prices of a book: 0 and NoAsk stand for an empty side, as in the
\* messages of the venue.
NoAsk == 1 + Max(Prices)

Best(b) ==
    [bid |-> Max({0} \cup {p \in Prices : b.size[[side |-> "bid", price |-> p]] > 0}),
     ask |-> Min({NoAsk} \cup {p \in Prices : b.size[[side |-> "ask", price |-> p]] > 0})]

BookMsg(a, v, fault, rest) ==
    [type |-> "book", asset |-> a, version |-> v, fault |-> fault, rest |-> rest]
ChangesMsg(entries, fault) == [type |-> "price_change", entries |-> entries, fault |-> fault]
TradeMsg(fault) == [type |-> "last_trade_price", fault |-> fault]
LifecycleMsg(event) == [type |-> "lifecycle", event |-> event]

FeedInit ==
    /\ venue = [a \in Assets |-> FirstVersion]
    /\ conn = "down"
    /\ at = [a \in Assets |-> Unknown]
    /\ drops = 0 /\ faults = 0
    /\ raw = << >>
    /\ shadow = [a \in Assets |-> NoBook]
    /\ lastTs = [a \in Assets |-> 0]
    /\ lastHash = [a \in Assets |-> Unknown]
    /\ seq = [a \in Assets |-> 0]
    /\ turn = [a \in Assets |-> 0]
    /\ outbox = << >> /\ events = << >>
    /\ requests = << >> /\ fetched = NoFetch /\ recent = {}

(***************************************************************************)
(* The venue (external) and the WebSocket client.                          *)
(***************************************************************************)
VenueChanges(a) ==
    /\ a \in Moving /\ venue[a] < Len(Changes)
    /\ venue' = [venue EXCEPT ![a] = @ + 1]
    /\ UNCHANGED << conn, at, drops, faults, raw, trackers, outbox, events, requests, workerVars >>

\* The client puts a message into the raw channel, waiting for room.
Enqueue(m) ==
    /\ Len(raw) < RawCap
    /\ raw' = Append(raw, m)
    /\ UNCHANGED << venue, trackers, outbox, events, requests >>

Connect ==
    /\ conn = "down"
    /\ Enqueue(LifecycleMsg("reconnect_success"))
    /\ conn' = "up"
    /\ at' = [a \in Assets |-> Unknown]
    /\ UNCHANGED << drops, faults, workerVars >>

\* A session ends, or an attempt to connect fails.
Disconnect ==
    /\ drops < MaxDrops
    /\ Enqueue(LifecycleMsg("reconnect_start"))
    /\ conn' = "down"
    /\ drops' = drops + 1
    /\ UNCHANGED << at, faults, workerVars >>

\* A malformed message counts against MaxFaults.
Faulty(is) ==
    /\ is => faults < MaxFaults
    /\ faults' = IF is THEN faults + 1 ELSE faults

\* A book can exceed the level cap, hold a level that does not parse, or come
\* without its timestamp or its hash.
BookFaults == {"none", "oversized", "unparseable", "unstamped", "unhashed"}

\* The venue sends a book when a subscription starts and after trades: the
\* changes up to its version are not sent any more.
ReceiveBook(a) ==
    /\ conn = "up"
    /\ \E v \in (IF at[a] = Unknown THEN {venue[a]} ELSE at[a] .. venue[a]), fault \in BookFaults :
          /\ Faulty(fault # "none")
          /\ Enqueue(BookMsg(a, v, fault, FALSE))
          /\ at' = [at EXCEPT ![a] = v]
    /\ UNCHANGED << conn, drops, workerVars >>

\* The changes of asset a among the first i of a message whose entries are about
\* the assets `who`.
ChangesOf(who, i, a) == Cardinality({j \in 1 .. i : who[j] = a})

\* Each asset's next changes, in order, in one message; the entry at position `bad`
\* is malformed.  Every entry states the best prices after the whole message,
\* those of version `stated`.
EntriesOf(who, bad) ==
    [i \in DOMAIN who |->
        [asset |-> who[i],
         version |-> at[who[i]] + ChangesOf(who, i, who[i]),
         stated |-> at[who[i]] + ChangesOf(who, Len(who), who[i]),
         bad |-> i = bad]]

ReceiveChanges ==
    /\ conn = "up"
    /\ \E N \in 1 .. MaxEntries, fault \in {"none", "oversized"} :
       \E who \in [1 .. N -> Assets], bad \in 0 .. N :
          LET next == [a \in Assets |-> at[a] + ChangesOf(who, N, a)]
          IN  /\ \A i \in 1 .. N : at[who[i]] # Unknown /\ next[who[i]] <= venue[who[i]]
              /\ fault = "oversized" => bad = 0
              /\ Faulty(bad # 0 \/ fault # "none")
              /\ Enqueue(ChangesMsg(EntriesOf(who, bad), fault))
              /\ at' = next
    /\ UNCHANGED << conn, drops, workerVars >>

ReceiveTrade ==
    /\ conn = "up"
    /\ \E fault \in {"none", "unparseable"} :
          /\ Faulty(fault # "none")
          /\ Enqueue(TradeMsg(fault))
    /\ UNCHANGED << conn, at, drops, workerVars >>

(***************************************************************************)
(* The dispatcher: dispatch_raw and dispatch_lifecycle.                    *)
(***************************************************************************)
\* Takes the next message; the previous one's records have all been sent.
Take(type) ==
    /\ outbox = << >>
    /\ raw # << >> /\ Head(raw).type = type
    /\ raw' = Tail(raw)
    /\ UNCHANGED << venueVars, events, workerVars >>

Stamped(m) == m.fault # "unstamped"

Hashed(m) == m.fault # "unhashed"

\* Faulty variant: a newer snapshot is taken for the stale one.
StaleIfNewer(m) == Stamped(m) /\ lastTs[m.asset] # 0 /\ Ts(m.version) > lastTs[m.asset]

\* Only a strictly older snapshot is stale.
Stale(m) == Stamped(m) /\ Ts(m.version) < lastTs[m.asset]

Duplicate(m) == Hashed(m) /\ lastHash[m.asset] = m.version

\* What is wrong with a book message, in the order the code looks.
Verdict(m) ==
    IF m.fault = "oversized" THEN "source_reset"
    ELSE IF Stale(m) THEN "stale_snapshot_skip"
    ELSE IF Duplicate(m) THEN "duplicate"
    ELSE IF m.fault = "unparseable" THEN "source_reset"
    ELSE IF Snapshot(RowsOf(VenueAt[m.version])).ok THEN "accepted"
    ELSE "overflow"

\* The records of one snapshot share the receive and exchange timestamps and the
\* hash of its message; the next snapshot of the asset has another key.
Key(m) == << m.version, turn[m.asset] >>

DropBook ==
    /\ Take("book")
    /\ LET m == Head(raw)
           why == Verdict(m)
       IN  /\ why # "accepted"
           /\ outbox' = CASE why = "duplicate" -> << >>
                          [] why = "overflow"  -> << IngestRecord("source_reset", m.asset) >>
                          [] OTHER             -> << IngestRecord(why, m.asset) >>
           /\ shadow' = IF why = "overflow" THEN [shadow EXCEPT ![m.asset] = NoBook] ELSE shadow
    /\ UNCHANGED << lastTs, lastHash, seq, turn, requests >>

\* Faulty variant: the shadow book is only ever seeded once.
SeededOnce(a, rows) ==
    IF shadow[a] = NoBook THEN Snapshot(rows).book ELSE shadow[a]

\* The shadow book after a snapshot is taken over.
Reseeded(a, rows) == Snapshot(rows).book

\* The next sequence number after a snapshot, whose rows are numbered from 0.
Restarted(a, rows) == Len(rows)

AcceptBook ==
    /\ Take("book")
    /\ LET m == Head(raw)
           a == m.asset
           rows == RowsOf(VenueAt[m.version])
       IN  /\ Verdict(m) = "accepted"
           /\ shadow' = [shadow EXCEPT ![a] = Reseeded(a, rows)]
           /\ lastTs' = IF Stamped(m) THEN [lastTs EXCEPT ![a] = Ts(m.version)] ELSE lastTs
           /\ lastHash' = IF Hashed(m) THEN [lastHash EXCEPT ![a] = m.version] ELSE lastHash
           /\ seq' = [seq EXCEPT ![a] = Restarted(a, rows)]
           /\ turn' = [turn EXCEPT ![a] = 1 - @]
           /\ outbox' = [i \in DOMAIN rows |-> SnapshotRecord(a, Key(m), rows[i], i - 1)]
    /\ UNCHANGED requests

\* Faulty variant: the cross-check after every entry.
AnyEntry(entries, i) == TRUE

\* The entry after which its asset is checked against the venue.
IsLastOf(entries, i) == \A j \in i + 1 .. Len(entries) : entries[j].asset # entries[i].asset

\* One entry of a price_change.  The delta is sent whether or not there is a
\* shadow book, and whether or not it fits there.
DispatchEntry(acc, entries, i) ==
    LET e == entries[i]
        a == e.asset
        row == Changes[e.version]
        old == acc.shadow[a]
        new == SetLevel(old, row.level, row.size)
        sent == [acc EXCEPT !.out = Append(@, DeltaRecord(a, row, acc.seq[a])), !.seq[a] = @ + 1]
    IN  IF e.bad THEN acc
        ELSE IF old = NoBook THEN sent
        ELSE IF ~DeltaFits(old, row.level, row.size)
        THEN [sent EXCEPT !.shadow[a] = NoBook, !.out = Append(@, IngestRecord("source_reset", a))]
        ELSE IF IsLastOf(entries, i) /\ Best(new) # Best(VenueAt[e.stated])
        THEN [sent EXCEPT !.shadow[a] = new,
                          !.out = Append(@, IngestRecord("book_mismatch", a)),
                          !.asked = Append(@, a)]
        ELSE [sent EXCEPT !.shadow[a] = new]

\* The entries of a message, one after the other.
Dispatched(entries) ==
    LET upTo[i \in 0 .. Len(entries)] ==
            IF i = 0 THEN [shadow |-> shadow, seq |-> seq, out |-> << >>, asked |-> << >>]
            ELSE DispatchEntry(upTo[i - 1], entries, i)
    IN  upTo[Len(entries)]

\* try_send: what does not fit into the request channel is dropped.
TrySend(queue, items) ==
    LET all == queue \o items
    IN  SubSeq(all, 1, Max({Len(queue), Min({Len(all), RequestCap})}))

DispatchChanges ==
    /\ Take("price_change")
    /\ LET m == Head(raw)
           done == Dispatched(IF m.fault = "oversized" THEN << >> ELSE m.entries)
       IN  /\ shadow' = done.shadow
           /\ seq' = done.seq
           /\ outbox' = done.out
           /\ requests' = TrySend(requests, done.asked)
    /\ UNCHANGED << lastTs, lastHash, turn >>

DispatchTrade ==
    /\ Take("last_trade_price")
    /\ outbox' = IF Head(raw).fault = "none" THEN << TradeRecord >> ELSE << >>
    /\ UNCHANGED << trackers, requests >>

\* reset_continuity_state.
ResetContinuity ==
    /\ shadow' = [a \in Assets |-> NoBook]
    /\ lastTs' = [a \in Assets |-> 0]
    /\ lastHash' = [a \in Assets |-> Unknown]
    /\ seq' = [a \in Assets |-> 0]
    /\ UNCHANGED turn

DispatchLifecycle ==
    /\ Take("lifecycle")
    /\ LET event == Head(raw).event
       IN  IF event = "reconnect_success"
           THEN /\ ResetContinuity
                /\ outbox' = << IngestRecord(event, NoAsset), IngestRecord("source_reset", NoAsset) >>
           ELSE /\ UNCHANGED trackers
                /\ outbox' = << IngestRecord(event, NoAsset) >>
    /\ UNCHANGED requests

Dispatch == DropBook \/ AcceptBook \/ DispatchChanges \/ DispatchTrade \/ DispatchLifecycle

\* The send of one record, which waits for room.
Send ==
    /\ outbox # << >> /\ Len(events) < EventCap
    /\ events' = Append(events, Head(outbox))
    /\ outbox' = Tail(outbox)
    /\ UNCHANGED << venueVars, raw, trackers, requests, workerVars >>

(***************************************************************************)
(* run_resnapshot_worker.                                                  *)
(***************************************************************************)
\* Takes a request and fetches the venue's book, unless the asset was fetched a
\* moment ago; a fetch can fail.
Fetch ==
    /\ fetched = NoFetch
    /\ requests # << >>
    /\ requests' = Tail(requests)
    /\ LET a == Head(requests)
       IN  \/ /\ a \in recent
              /\ UNCHANGED workerVars
           \/ /\ a \notin recent
              /\ recent' = recent \cup {a}
              /\ fetched' \in {[asset |-> a, version |-> venue[a]], NoFetch}
    /\ UNCHANGED << venueVars, raw, trackers, outbox, events >>

\* Puts the book into the raw channel, as a book message.
Inject ==
    /\ fetched # NoFetch
    /\ Enqueue(BookMsg(fetched.asset, fetched.version, "none", TRUE))
    /\ fetched' = NoFetch
    /\ UNCHANGED << conn, at, drops, faults, recent >>

DebounceEnds(a) ==
    /\ a \in recent
    /\ recent' = recent \ {a}
    /\ UNCHANGED << venueVars, raw, trackers, outbox, events, requests, fetched >>

FeedNext ==
    \/ \E a \in Assets : VenueChanges(a) \/ ReceiveBook(a) \/ DebounceEnds(a)
    \/ Connect \/ Disconnect \/ ReceiveChanges  \/ ReceiveTrade
    \/ Dispatch \/ Send \/ Fetch \/ Inject
-----------------------------------------------------------------------------
\* The venue's book never becomes empty: a snapshot without levels leaves no record
\* to stand for it, so a consumer would keep the book it had (dispatcher.rs:417).
BooksHaveLevels == \A v \in FirstVersion .. Len(Changes) : \E l \in Levels : VenueAt[v].size[l] > 0

\* No side of the venue's book overflows its total: a delta that did would be passed over
\* by whoever applies the records (DeltaFits).
TotalsFit == \A v \in FirstVersion .. Len(Changes), s \in Sides : VenueAt[v].total[s] <= MaxTotal
===============================================================================
