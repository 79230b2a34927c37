-------------------------------- MODULE Ingest --------------------------------
(***************************************************************************)
(* The ingest process (pb-bin/src/commands/ingest.rs, pipeline.rs): the    *)
(* feed and the checkpoint producer send records into one channel, the     *)
(* drain appends each to the WAL and passes it on to the Parquet sink      *)
(* (pb-store/src/parquet_sink.rs), and a supervisor watches over the       *)
(* drain, the sink and the producer.  The process stops, fails or is       *)
(* killed, and another one goes on, perhaps as a standby that waits for    *)
(* the lock.                                                               *)
(***************************************************************************)
EXTENDS ObjectStore

CONSTANTS
    Profiles,    \* what is tried, a sequence: records, and bounds on what goes wrong
    EventCap,    \* the capacity of the event channel
    SinkCap,     \* the capacity of the sink's channel
    MaxRetries   \* MAX_FLUSH_RETRIES

ASSUME IngestAssumption ==
    EventCap \in Nat \ {0} /\ SinkCap \in Nat \ {0} /\ MaxRetries \in Nat

\* A key stands for a dataset and an asset, so it tells the kind of a record.
ASSUME ScriptAssumption ==
    \A p \in DOMAIN Profiles :
        LET records == Range(Profiles[p].script)
        IN  /\ Profiles[p].script \in Seq(records)
            /\ \A r, s \in records : r.at \in Nat /\ (r.key = s.key => r.kind = s.kind)

VARIABLES
    profile,   \* the number of the profile tried; it never changes
    faults, starts,
    lock,      \* who holds the WAL: "free", "ingest" or "reconcile"
    log,       \* the records of the retained WAL, by number
    flushed, synced,  \* how many of them the OS has, and the disk
    torn,      \* the last frame is incomplete
    proc,      \* the supervisor: "down", "waiting" (for the lock), "up", "stopping", "joining"
    cancelled, \* the shutdown token
    failure,   \* supervision_failure
    walFailed, \* wal_failed
    exit,      \* how the last process ended
    feed, producer,  \* their tasks
    emitted,   \* the records sent so far, by any process
    evq,       \* the event channel
    drain,     \* wal_drain: where it is, and the record it passes on
    sinkq,     \* the sink's channel
    sink,      \* ParquetSink: where it is, its buffer, the groups of a flush left to write
    began,     \* what had been emitted when this process started
    dropped,   \* the records that did not encode
    cut,       \* the records that were cut off the WAL by a crash
    pruned,    \* the records whose segments were pruned
    sunk,      \* the records the sink ever wrote to the store
    abandoned  \* the sink gave up, the last sync failed or tasks were aborted

walVars == << lock, log, flushed, synced, torn >>
mainVars == << proc, cancelled, failure, walFailed, exit >>
sourceVars == << feed, producer, emitted >>
drainVars == << evq, drain >>
sinkVars == << sinkq, sink, sunk >>
ghosts == << began, dropped, cut, pruned, abandoned >>
bounds == << profile, faults, starts >>
ingestVars == << walVars, mainVars, sourceVars, drainVars, sinkVars, ghosts, bounds, storeVars >>

Setup == Profiles[profile]
Script == Setup.script

\* Bound: the timers that fire while the process lives.
Fires(timer) == timer \in Setup.timers

Fault == faults < Setup.maxFaults /\ faults' = faults + 1
NoFault == UNCHANGED faults

NoSink == [pc |-> "off", buffer |-> << >>, left |-> {}, attempts |-> 0, final |-> FALSE]

IngestInit ==
    /\ profile \in DOMAIN Profiles
    /\ faults = 0 /\ starts = 0
    /\ objects = {} /\ manifests = [g \in {GroupOf(r) : r \in Range(Script)} |-> NoManifest]
    /\ lock = "free" /\ log = << >> /\ flushed = 0 /\ synced = 0 /\ torn = FALSE
    /\ proc = "down" /\ cancelled = FALSE /\ failure = "none" /\ walFailed = FALSE /\ exit = "none"
    /\ feed = "off" /\ producer = "off" /\ emitted = 0
    /\ evq = << >> /\ drain = [pc |-> "off", rec |-> 0]
    /\ sinkq = << >> /\ sink = NoSink /\ sunk = {}
    /\ began = 0 /\ dropped = {} /\ cut = {} /\ pruned = {} /\ abandoned = FALSE

-----------------------------------------------------------------------------
\* run: the sink and the producer are started before the WAL is opened.
StartIngest ==
    /\ proc = "down" /\ starts < Setup.maxStarts
    /\ starts' = starts + 1
    /\ began' = emitted /\ abandoned' = FALSE
    /\ proc' = "waiting" /\ exit' = "none"
    /\ producer' = "running"
    /\ sink' = [NoSink EXCEPT !.pc = "receiving"]
    /\ UNCHANGED << walVars, cancelled, failure, walFailed, feed, emitted, drainVars, sinkq, sunk,
                    dropped, cut, pruned, profile, faults, storeVars >>

\* open_wal_writer_with_standby: the lock is free.  Opening cuts a torn tail.
OpenWal ==
    /\ proc = "waiting" /\ lock = "free"
    /\ lock' = "ingest" /\ torn' = FALSE
    /\ proc' = "up" /\ feed' = "running"
    /\ drain' = [pc |-> "receive", rec |-> 0]
    /\ UNCHANGED << log, flushed, synced, cancelled, failure, walFailed, exit, producer, emitted,
                    evq, sinkVars, ghosts, bounds, storeVars >>

\* What is in memory is gone; the lock is released with the process.
Gone ==
    /\ proc' = "down"
    /\ lock' = IF lock = "ingest" THEN "free" ELSE lock
    /\ cancelled' = FALSE /\ failure' = "none" /\ walFailed' = FALSE
    /\ feed' = "off" /\ producer' = "off"
    /\ evq' = << >> /\ drain' = [pc |-> "off", rec |-> 0]
    /\ sinkq' = << >> /\ sink' = NoSink

\* Without standby a held lock ends the process; a standby ends when it is told to.
OpenRefused ==
    /\ proc = "waiting" /\ lock # "free"
    /\ \/ ~Setup.standby /\ exit' = "error"
       \/ Setup.standby /\ exit' = "ok"
    /\ Gone
    /\ UNCHANGED << log, flushed, synced, torn, emitted, sunk, ghosts, bounds, storeVars >>

-----------------------------------------------------------------------------
(***************************************************************************)
(* The sources: the feed sends records, the producer checkpoints.          *)
(***************************************************************************)
Emit ==
    /\ feed = "running"
    /\ emitted < Len(Script) /\ Len(evq) < EventCap
    /\ Script[emitted + 1].kind = "checkpoint" => producer = "running"
    /\ emitted' = emitted + 1
    /\ evq' = Append(evq, emitted + 1)
    /\ UNCHANGED << walVars, mainVars, feed, producer, drain, sinkVars, ghosts, bounds, storeVars >>

AskToStop ==
    /\ Setup.stops
    /\ proc = "up" /\ ~cancelled
    /\ cancelled' = TRUE
    /\ UNCHANGED << walVars, proc, failure, walFailed, exit, sourceVars, drainVars, sinkVars,
                    ghosts, bounds, storeVars >>

\* run_feed of a fixed plan.
FeedStops ==
    /\ cancelled /\ feed = "running" /\ ~Setup.rotates
    /\ feed' = "stopped"
    /\ UNCHANGED << walVars, mainVars, producer, emitted, drainVars, sinkVars, ghosts, bounds, storeVars >>

\* The producer ends with the token, or dies.
ProducerStops ==
    /\ producer = "running" /\ proc # "waiting"
    /\ \/ cancelled /\ producer' = "stopped" /\ NoFault
       \/ Fault /\ producer' = "dead"
    /\ UNCHANGED << walVars, mainVars, feed, emitted, drainVars, sinkVars, ghosts, profile, starts,
                    storeVars >>

-----------------------------------------------------------------------------
(***************************************************************************)
(* wal_drain.                                                              *)
(***************************************************************************)
\* fail: the whole process is told to stop.
Fail == walFailed' = TRUE /\ cancelled' = TRUE /\ drain' = [pc |-> "closing", rec |-> 0]

\* Faulty variant: a record that does not encode goes on to the sink.
PassUnencoded(i) ==
    /\ Fault
    /\ dropped' = dropped \cup {i}
    /\ drain' = [pc |-> "passing", rec |-> i]
    /\ UNCHANGED << log, mainVars >>

\* A record that does not encode goes neither into the WAL nor on.
DropUnencoded(i) ==
    /\ Fault
    /\ dropped' = dropped \cup {i}
    /\ UNCHANGED << log, mainVars, drain >>

AppendToWal(i) ==
    /\ log' = Append(log, i)
    /\ drain' = [pc |-> "passing", rec |-> i]
    /\ UNCHANGED << mainVars, faults, dropped >>

AppendFails(i) ==
    /\ Fault /\ Fail
    /\ dropped' = dropped \cup {i}
    /\ UNCHANGED << log, proc, failure, exit >>

DrainReceive ==
    /\ drain.pc = "receive" /\ evq # << >>
    /\ evq' = Tail(evq)
    /\ AppendToWal(Head(evq)) \/ DropUnencoded(Head(evq)) \/ AppendFails(Head(evq))
    /\ UNCHANGED << lock, flushed, synced, torn, sourceVars, sinkVars, began, cut, pruned, abandoned,
                    profile, starts, storeVars >>

SinkEnded == sink.pc \in {"done", "failed"}

\* fanout_event waits for room in the sink's channel; a closed one ends the drain.
DrainPass ==
    /\ drain.pc = "passing"
    /\ IF SinkEnded
       THEN drain' = [pc |-> "closing", rec |-> 0] /\ UNCHANGED sinkq
       ELSE /\ Len(sinkq) < SinkCap
            /\ sinkq' = Append(sinkq, drain.rec)
            /\ drain' = [pc |-> "receive", rec |-> 0]
    /\ UNCHANGED << walVars, mainVars, sourceVars, evq, sink, sunk, ghosts, bounds, storeVars >>

\* flush_tick.
DrainFlush ==
    /\ Fires("flush")
    /\ drain.pc = "receive" /\ flushed < Len(log)
    /\ \/ flushed' = Len(log) /\ NoFault /\ UNCHANGED << mainVars, drain >>
       \/ Fault /\ Fail /\ UNCHANGED << flushed, proc, failure, exit >>
    /\ UNCHANGED << lock, log, synced, torn, sourceVars, evq, sinkVars, ghosts, profile, starts,
                    storeVars >>

\* sync_tick.
DrainSync ==
    /\ Fires("sync")
    /\ drain.pc = "receive" /\ synced < Len(log)
    /\ \/ flushed' = Len(log) /\ synced' = Len(log) /\ NoFault /\ UNCHANGED << mainVars, drain >>
       \/ Fault /\ Fail /\ UNCHANGED << flushed, synced, proc, failure, exit >>
    /\ UNCHANGED << lock, log, torn, sourceVars, evq, sinkVars, ghosts, profile, starts, storeVars >>

\* prune_tick: a synced segment, here one record, that all consumers have passed.
DrainPrune ==
    /\ Fires("prune")
    /\ drain.pc = "receive" /\ synced > 0
    /\ log' = Tail(log) /\ flushed' = flushed - 1 /\ synced' = synced - 1
    /\ pruned' = pruned \cup {Head(log)}
    /\ UNCHANGED << lock, torn, mainVars, sourceVars, drainVars, sinkVars, began, dropped, cut,
                    abandoned, bounds, storeVars >>

\* Faulty variant: the supervisor keeps its sender.
SendersGoneKept == FALSE

\* event_rx.recv returns None.
SendersGone == feed = "stopped" /\ producer # "running" /\ proc = "joining"

DrainEnds ==
    /\ drain.pc = "receive" /\ evq = << >> /\ SendersGone
    /\ drain' = [drain EXCEPT !.pc = "closing"]
    /\ UNCHANGED << walVars, mainVars, sourceVars, evq, sinkVars, ghosts, bounds, storeVars >>

\* The last sync; its failure is logged.  The writer is dropped, and with it the lock.
DrainCloses ==
    /\ drain.pc = "closing"
    /\ \/ flushed' = Len(log) /\ synced' = Len(log) /\ NoFault /\ UNCHANGED abandoned
       \/ Fault /\ abandoned' = TRUE /\ UNCHANGED << flushed, synced >>
    /\ drain' = [drain EXCEPT !.pc = "done"]
    /\ lock' = "free"
    /\ UNCHANGED << log, torn, mainVars, sourceVars, evq, sinkVars, began, dropped, cut, pruned,
                    profile, starts, storeVars >>

-----------------------------------------------------------------------------
(***************************************************************************)
(* ParquetSink.  Its token is never cancelled: it ends with its channel.   *)
(***************************************************************************)
SinkReceive ==
    /\ sink.pc = "receiving" /\ sinkq # << >>
    /\ sinkq' = Tail(sinkq)
    /\ sink' = [sink EXCEPT !.buffer = Append(@, Head(sinkq))]
    /\ UNCHANGED << walVars, mainVars, sourceVars, drainVars, sunk, ghosts, bounds, storeVars >>

\* The rows of a group, in the order of the buffer.
RowsOf(buffer, g) ==
    LET upTo[n \in 0 .. Len(buffer)] ==
            IF n = 0 THEN << >>
            ELSE IF GroupOf(Script[buffer[n]]) = g THEN Append(upTo[n - 1], buffer[n])
            ELSE upTo[n - 1]
    IN  upTo[Len(buffer)]

GroupsIn(buffer) == {GroupOf(Script[i]) : i \in Range(buffer)}

ChannelClosed == drain.pc = "done" /\ sinkq = << >>

\* The interval has passed, or the channel is closed.
SinkFlush ==
    /\ sink.pc = "receiving" /\ sink.buffer # << >>
    /\ Fires("sink") \/ ChannelClosed
    /\ sink' = [sink EXCEPT !.pc = "flushing", !.left = GroupsIn(sink.buffer), !.attempts = 0,
                            !.final = ChannelClosed]
    /\ UNCHANGED << walVars, mainVars, sourceVars, drainVars, sinkq, sunk, ghosts, bounds, storeVars >>

SinkEnds ==
    /\ sink.pc = "receiving" /\ sink.buffer = << >> /\ ChannelClosed
    /\ sink' = [sink EXCEPT !.pc = "done"]
    /\ UNCHANGED << walVars, mainVars, sourceVars, drainVars, sinkq, sunk, ghosts, bounds, storeVars >>

\* write_group.
FlushGroup ==
    /\ sink.pc = "flushing"
    /\ \E g \in sink.left :
        LET rows == RowsOf(sink.buffer, g)
        IN  /\ Put(Object("normal", g, rows))
            /\ sunk' = sunk \cup Range(rows)
            /\ sink' = [sink EXCEPT !.left = @ \ {g}]
    /\ UNCHANGED << walVars, mainVars, sourceVars, drainVars, sinkq, ghosts, bounds, manifests >>

FlushDone ==
    /\ sink.pc = "flushing" /\ sink.left = {}
    /\ sink' = [sink EXCEPT !.buffer = << >>, !.pc = IF sink.final THEN "done" ELSE "receiving"]
    /\ UNCHANGED << walVars, mainVars, sourceVars, drainVars, sinkq, sunk, ghosts, bounds, storeVars >>

\* A failed write: the whole batch again, or the end of the sink.
FlushFails ==
    /\ sink.pc = "flushing" /\ sink.left # {}
    /\ Fault
    /\ sink' = IF sink.attempts < MaxRetries
               THEN [sink EXCEPT !.left = GroupsIn(sink.buffer), !.attempts = @ + 1]
               ELSE [sink EXCEPT !.pc = "failed"]
    /\ abandoned' = (abandoned \/ sink.attempts = MaxRetries)
    /\ UNCHANGED << walVars, mainVars, sourceVars, drainVars, sinkq, sunk, began, dropped, cut,
                    pruned, profile, starts, storeVars >>

-----------------------------------------------------------------------------
(***************************************************************************)
(* The supervisor.                                                         *)
(***************************************************************************)
Exited ==
    {t \in {"checkpoint-producer", "wal-drain", "parquet-sink"} :
        CASE t = "checkpoint-producer" -> producer # "running"
          [] t = "wal-drain" -> drain.pc = "done"
          [] t = "parquet-sink" -> SinkEnded}

FeedReturns ==
    /\ proc = "up" /\ feed = "stopped"
    /\ proc' = "joining" /\ cancelled' = TRUE
    /\ UNCHANGED << walVars, failure, walFailed, exit, sourceVars, drainVars, sinkVars, ghosts,
                    bounds, storeVars >>

\* next_exit: the first task that ended, whyever, is a failure.
TaskExits ==
    /\ proc = "up"
    /\ failure' \in Exited
    /\ proc' = "stopping" /\ cancelled' = TRUE
    /\ UNCHANGED << walVars, walFailed, exit, sourceVars, drainVars, sinkVars, ghosts, bounds, storeVars >>

FeedAwaited ==
    /\ proc = "stopping" /\ feed = "stopped"
    /\ proc' = "joining"
    /\ UNCHANGED << walVars, cancelled, failure, walFailed, exit, sourceVars, drainVars, sinkVars,
                    ghosts, bounds, storeVars >>

\* Faulty variant: the sink is not supervised.
AllButSinkEnded == {"checkpoint-producer", "wal-drain"} \subseteq Exited

AllEnded == Exited = {"checkpoint-producer", "wal-drain", "parquet-sink"}

ExitStatus == IF walFailed \/ failure # "none" THEN "error" ELSE "ok"

\* join_all: every task ended, or none did for its deadline and they are aborted.
Join ==
    /\ proc = "joining"
    /\ AllEnded
    /\ exit' = ExitStatus
    /\ Gone
    /\ UNCHANGED << log, flushed, synced, torn, emitted, sunk, ghosts, bounds, storeVars >>

JoinTimeout ==
    /\ proc = "joining"
    /\ ~AllEnded /\ Setup.slow
    /\ exit' = ExitStatus
    /\ abandoned' = TRUE
    /\ flushed' = Len(log)
    /\ Gone
    /\ UNCHANGED << log, synced, torn, emitted, sunk, began, dropped, cut, pruned, bounds,
                    storeVars >>

\* The process is killed, or the machine loses power.
Crash ==
    /\ proc \in {"up", "stopping", "joining"} /\ Setup.crash # "none"
    /\ \E k \in (IF Setup.crash = "power" THEN synced ELSE flushed) .. Len(log) :
        /\ log' = SubSeq(log, 1, k)
        /\ cut' = cut \cup {log[i] : i \in k + 1 .. Len(log)}
        /\ torn' \in {FALSE, k < Len(log)}
        /\ flushed' = k
        /\ synced' = IF Setup.crash = "power" THEN k ELSE synced
    /\ exit' = "crash"
    /\ Gone
    /\ UNCHANGED << emitted, sunk, began, dropped, pruned, abandoned, bounds, storeVars >>

Tasks ==
    \/ FeedStops \/ ProducerStops
    \/ DrainReceive \/ DrainPass \/ DrainFlush \/ DrainSync \/ DrainPrune \/ DrainEnds \/ DrainCloses
    \/ SinkReceive \/ SinkFlush \/ SinkEnds \/ FlushGroup \/ FlushDone \/ FlushFails
    \/ FeedReturns \/ TaskExits \/ FeedAwaited \/ Join

IngestNext ==
    \/ StartIngest \/ OpenWal \/ OpenRefused \/ Emit \/ AskToStop
    \/ Tasks
    \/ JoinTimeout \/ Crash
================================================================================
