------------------------------- MODULE Streaming -------------------------------
(***************************************************************************)
(* WebSocket sessions (pb-api/src/streaming.rs) on the serve process: a    *)
(* session subscribes to the channel of one asset, shows its client the    *)
(* published book, and from then on whatever the channel brings.  The      *)
(* channel keeps Capacity updates; a subscriber that falls behind is told  *)
(* so, and shows the published book again.                                 *)
(***************************************************************************)
EXTENDS Serve, Http

CONSTANTS
    Sessions,     \* clients
    MaxSessions,  \* MAX_WS_CONNECTIONS
    Capacity,     \* BROADCAST_CAPACITY
    Tries         \* INIT_SNAPSHOT_RETRIES

ASSUME StreamingAssumption ==
    MaxSessions \in Nat \ {0} /\ Capacity \in Nat \ {0} /\ Tries \in Nat \ {0}

VARIABLES
    bound,   \* the HTTP server is up
    stream   \* stream[s]: what session s is doing

svars == << vars, bound, stream >>

NoBook == [l \in Levels |-> -1]

\* bypassed: a checkpoint was loaded into the book since the last update.
NoSession == [pc |-> "none", asset |-> NoAsset, queue |-> << >>, lagged |-> FALSE,
              closed |-> FALSE, tries |-> 0, shown |-> NoBook, bypassed |-> FALSE]

SInit ==
    /\ Init
    /\ bound = FALSE
    /\ stream = [s \in Sessions |-> NoSession]

\* GET /orderbooks/{asset}/snapshot, from the published state: the depth is looked at first.
OrderbookSnapshot(p, a, depth) ==
    IF ~DepthAllowed(depth) THEN BadRequest
    ELSE IF a \notin p.active THEN NotFound
    ELSE IF ~Serves(p, a) THEN Unavailable
    ELSE [status |-> OK, levels |-> Shown(p.view[a].book, depth)]

Open == {s \in Sessions : stream[s].pc # "none"}

\* ws_orderbook: refused when the permits are taken or there is no channel.
Connect(s) ==
    /\ bound /\ s \in Setup.sessions
    /\ stream[s].pc = "none"
    /\ Cardinality(Open) < MaxSessions
    /\ \E a \in channels : stream' = [stream EXCEPT ![s] = [NoSession EXCEPT !.pc = "init", !.asset = a]]
    /\ UNCHANGED << vars, bound >>

Show(s, b) == stream' = [stream EXCEPT ![s].shown = b, ![s].pc = "live"]

\* The first snapshot: sent, refused for good, or tried again for a while.
InitSnapshot(s) ==
    LET a == stream[s].asset
    IN  /\ stream[s].pc = "init"
        /\ CASE a \notin published.active -> stream' = [stream EXCEPT ![s] = NoSession]
             [] Serves(published, a) -> Show(s, published.view[a].book)
             [] OTHER -> stream' = [stream EXCEPT ![s].tries = @ + 1,
                                                  ![s].pc = IF stream[s].tries + 1 < Tries THEN "init" ELSE "live"]
        /\ UNCHANGED << vars, bound >>

\* RecvError::Lagged: a snapshot again, if there is one.
RecvLagged(s) ==
    LET a == stream[s].asset
    IN  /\ stream[s].pc = "live" /\ stream[s].lagged
        /\ stream' = [stream EXCEPT
                ![s].lagged = FALSE,
                ![s].shown = IF Serves(published, a) THEN published.view[a].book ELSE @]
        /\ UNCHANGED << vars, bound >>

RecvUpdate(s) ==
    /\ stream[s].pc = "live" /\ ~stream[s].lagged /\ stream[s].queue # << >>
    /\ stream' = [stream EXCEPT ![s].shown = Head(stream[s].queue), ![s].queue = Tail(@)]
    /\ UNCHANGED << vars, bound >>

RecvClosed(s) ==
    /\ stream[s].pc = "live" /\ ~stream[s].lagged /\ stream[s].queue = << >> /\ stream[s].closed
    /\ stream' = [stream EXCEPT ![s] = NoSession]
    /\ UNCHANGED << vars, bound >>

\* The client closes, or does not answer the pings.
Leave(s) ==
    /\ stream[s].pc # "none"
    /\ stream' = [stream EXCEPT ![s] = NoSession]
    /\ UNCHANGED << vars, bound >>

SessionStep(s) == InitSnapshot(s) \/ RecvLagged(s) \/ RecvUpdate(s) \/ RecvClosed(s)

\* Faulty variant: what does not fit is dropped, and the subscriber not told.
PushQuietly(st, b) ==
    IF Len(st.queue) < Capacity
    THEN [st EXCEPT !.queue = Append(@, b), !.bypassed = FALSE]
    ELSE [st EXCEPT !.bypassed = FALSE]

\* The channel's ring: the oldest update makes room.
Push(st, b) ==
    IF Len(st.queue) < Capacity
    THEN [st EXCEPT !.queue = Append(@, b), !.bypassed = FALSE]
    ELSE [st EXCEPT !.queue = Append(Tail(@), b), !.bypassed = FALSE, !.lagged = TRUE]

\* PerAssetBroadcast::send, for each update of the record just applied.
Fanout ==
    stream' = [s \in Sessions |->
        LET mine == {u \in updates' : u.asset = stream[s].asset}
        IN  IF stream[s].pc = "none" \/ stream[s].closed \/ mine = {} THEN stream[s]
            ELSE Push(stream[s], (CHOOSE u \in mine : TRUE).book)]

\* Faulty variant: the channels of assets that are not active any more stay open.
CloseNone == UNCHANGED stream

\* PerAssetBroadcast::set_active_assets drops the senders of the others.
CloseChannels ==
    stream' = [s \in Sessions |->
        IF stream[s].pc # "none" /\ stream[s].asset \notin channels'
        THEN [stream[s] EXCEPT !.closed = TRUE] ELSE stream[s]]

MarkBypassed(a) ==
    stream' = [s \in Sessions |->
        IF stream[s].asset = a THEN [stream[s] EXCEPT !.bypassed = TRUE] ELSE stream[s]]

Untouched == UNCHANGED << bound, stream >>

\* The steps of the serve process that need no fault to happen.
Server ==
    \/ Start /\ Untouched
    \/ BeginHydration /\ Untouched
    \/ ReadCheckpoints /\ Untouched
    \/ \E a \in Assets : LoadCheckpoint(a) /\ MarkBypassed(a) /\ UNCHANGED bound
    \/ OpenReplay /\ Untouched
    \/ ReplaySkip /\ Untouched
    \/ ReplayApply /\ Fanout /\ UNCHANGED bound
    \/ ReplayMove /\ Untouched
    \/ ReplayEnd /\ Untouched
    \/ FinishHydration /\ bound' = TRUE /\ UNCHANGED stream
    \/ SyncNothing /\ Untouched
    \/ SyncChannels /\ CloseChannels /\ UNCHANGED bound
    \/ SyncBooks /\ Untouched
    \/ OpenTail /\ Untouched
    \/ TailResync /\ Untouched
    \/ TailApply /\ Fanout /\ UNCHANGED bound
    \/ TailMove /\ Untouched
    \/ TailIdle /\ Untouched

Ingest == AppendLog /\ Untouched

\* What goes wrong, or is done by others at any time.
Environment ==
    \/ Prune /\ Untouched
    \/ FlushParquet /\ Untouched
    \/ OpenTailFails /\ Untouched
    \/ TailSkips /\ Untouched
    \/ ProjectorDies /\ Untouched
    \/ Stop /\ bound' = FALSE /\ stream' = [s \in Sessions |-> NoSession]

SNext ==
    \/ Server
    \/ Ingest
    \/ Environment
    \/ \E s \in Sessions : Connect(s) \/ SessionStep(s) \/ Leave(s)

\* Ingest goes on to the end of its log, the serve process runs, the tasks of the
\* open sessions are scheduled.
Fairness ==
    /\ WF_svars(Ingest)
    /\ WF_svars(Server)
    /\ \A s \in Sessions : WF_svars(SessionStep(s))

Spec == SInit /\ [][SNext]_svars /\ Fairness

-----------------------------------------------------------------------------
Ready == hydrated /\ ~resync

Up == {"sync", "activate", "open", "tail", "next"}

\* /health/ready answers 200 only where the last hydration went to its end without
\* a fault, none is under way or due, and the projector lives: the two flags are
\* cleared and set by different tasks, in this order.
ReadyIsRecovered == Ready => recovered /\ pc \in Up

\* Where the records a reader has passed are, as the process counts them.
Reached == IF pc \in {"tail", "next"} \/ after = "tail" THEN Global(rd) ELSE Global(resumeAt)

\* A ready process serves, of every asset whose book goes back to a whole snapshot
\* or to a checkpoint the retained log continues, the book the log leads to at
\* the reader's position: over the handoff from checkpoint to log to tail, cuts
\* that differ per asset, rotation of markets, restarts and re-hydration.
ServedFromLog ==
    Ready => \A a \in {b \in Assets : sound[b]} :
        LET answer == OrderbookSnapshot(published, a, MaxDepth)
        IN  answer.status = OK => answer.levels = Shown(LogBook(a, Reached).size, MaxDepth)

\* A process that is not ready becomes ready, or the hydration failed, which is
\* for good until the process is restarted.
ReadyAgain == pc # "down" /\ ~Ready ~> Ready \/ ~recovered \/ pc \in {"down", "stopped"}

\* The tail comes to the end of the log and stays there, whatever was pruned,
\* skipped or hydrated again on the way.
TailCatchesUp == <>[](pc = "stopped" \/ Global(rd) >= written)

LastOf(a) ==
    LET mine == {i \in 1..written : Script[i].asset = a}
    IN  IF mine = {} THEN 0 ELSE MaxOf(mine)

Recent(i) == Script[i].at + IdleSpan >= MaxOf({Script[j].at : j \in 1..written})

\* In the end the active set of a follower is what the log says: every asset with
\* a recent record that was not left out and, where the newest record was not left
\* out either, none whose last record is old.
FollowsTheLog ==
    Follow => <>[](pc # "stopped" =>
        \A a \in Assets :
            /\ a \in active /\ lost < written => LastOf(a) # 0 /\ Recent(LastOf(a))
            /\ LastOf(a) > lost /\ Recent(LastOf(a)) => a \in active)

\* A client whose session has nothing left to send shows the published book,
\* though it connected between any two updates, or lagged behind the channel.
\* (Books set by a re-hydration reach it with the next update only.)
StreamConverges ==
    \A s \in Sessions :
        LET st == stream[s]
        IN  /\ st.pc = "live" /\ st.queue = << >>
            /\ ~st.lagged /\ ~st.closed /\ ~st.bypassed /\ st.shown # NoBook
            => st.shown = published.view[st.asset].book

\* Once its asset is not active any more, a session ends.
StreamEnds ==
    \A s \in Sessions :
        stream[s].pc # "none" /\ stream[s].asset \notin active ~> stream[s].pc = "none" \/ stream[s].asset \in active
-----------------------------------------------------------------------------
(***************************************************************************)
(* What ServedFromLogAlways takes for granted of the logs: that a feed     *)
(* wrote them, and that their books go from record to record.              *)
(***************************************************************************)
\* Records f to l are the rows of the snapshot of a with this key, and no others are.
GroupRun(log, a, key, f, l) ==
    /\ f \in DOMAIN log /\ l \in DOMAIN log /\ f <= l
    /\ \A i \in DOMAIN log : log[i].kind = "snapshot" /\ log[i].key = key <=> i \in f .. l
    /\ \A i \in f .. l : log[i].asset = a
    /\ RowsOfKey(log, key) = [k \in 1 .. l - f + 1 |-> log[f + k - 1].row]

\* The rows of a snapshot follow one another, and make a book.
SnapshotsAreRuns(log) ==
    \A i \in DOMAIN log : log[i].kind = "snapshot" =>
        /\ \E f, l \in DOMAIN log : GroupRun(log, log[i].asset, log[i].key, f, l)
        /\ Snapshot(RowsOfKey(log, log[i].key)).ok

HasBase(log, a, n) == \E i \in 1 .. n : EndsSnapshot(log, a, i, n)

\* The book goes from record to record: to the snapshot that record n ends, and then on
\* by record n where it is a delta, which no total is too large for.
BooksGrow(log) ==
    \A a \in Assets, n \in DOMAIN log : HasBase(log, a, n) =>
        LET b == IF EndsSnapshot(log, a, n - 1, n) THEN Snapshot(RowsOfKey(log, log[n - 1].key)).book
                 ELSE BookAt(log, a, n - 1)
        IN  IF log[n].kind = "delta" /\ log[n].asset = a
            THEN /\ DeltaFits(b, log[n].row.level, log[n].row.size)
                 /\ BookAt(log, a, n) = SetLevel(b, log[n].row.level, log[n].row.size)
            ELSE BookAt(log, a, n) = b

\* A checkpoint is of an asset that had a snapshot, and its rows give its book again.
CheckpointsHold(log) ==
    \A i \in DOMAIN log : log[i].kind = "checkpoint" =>
        /\ HasBase(log, log[i].asset, i)
        /\ Snapshot(RowsOf(BookAt(log, log[i].asset, i))) =
               [ok |-> TRUE, book |-> BookAt(log, log[i].asset, i)]

\* The records are of the kinds there are.
LogTyped(log) ==
    /\ log \in Seq(Range(log))
    /\ \A i \in DOMAIN log :
         /\ log[i].kind \in {"snapshot", "delta", "checkpoint", "ingest", "trade"}
         /\ log[i].asset \in Assets \cup {NoAsset}
         /\ log[i].kind \in {"snapshot", "delta", "checkpoint"} => log[i].asset \in Assets
         /\ log[i].kind = "checkpoint" => "rows" \in DOMAIN log[i]

LogsAreOfAFeed ==
    \A p \in DOMAIN Profiles :
        /\ LogTyped(Profiles[p].script)
        /\ SnapshotsAreRuns(Profiles[p].script)
        /\ BooksGrow(Profiles[p].script)
        /\ CheckpointsHold(Profiles[p].script)
================================================================================
