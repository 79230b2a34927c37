---------------------------- MODULE StreamingProofs ----------------------------
(***************************************************************************)
(* Readiness, the books behind a log, and what clients show, for any logs, *)
(* assets, faults, sessions and capacities.                                *)
(***************************************************************************)
EXTENDS Streaming, LiveStateProofs, SequenceTheorems, WellFoundedInduction

\* What the flags say at each point of the process: the first half is what a
\* hydration keeps down, the second what the tailer may leave up.
FlagsInv ==
    /\ pc \in {"down", "hydrate", "inventory", "load", "replay", "finish", "stopped"} \cup Up
    /\ after \in {"open", "tail"}
    /\ pc \in {"down", "inventory", "load", "replay", "finish"} => ~hydrated
    /\ pc = "hydrate" => resync \/ ~hydrated
    /\ pc = "stopped" => resync
    /\ pc \in Up /\ hydrated => recovered

\* The flags say it from the start.
LEMMA FlagsInit == SInit => FlagsInv
BY DEF SInit, Init, ProcessInit, FlagsInv, Up

\* A hydration takes the readiness away before it touches a book.
LEMMA HydrationKeepsFlags ==
    ASSUME FlagsInv,
           \/ Start \/ BeginHydration \/ ReadCheckpoints \/ (\E a \in Assets : LoadCheckpoint(a))
           \/ OpenReplay \/ ReplaySkip \/ ReplayApply \/ ReplayMove \/ ReplayEnd \/ FinishHydration
    PROVE  FlagsInv'
<1>. USE DEF FlagsInv, Up, flags, hydrationVars
<1>1. CASE Start  BY <1>1 DEF Start
<1>2. CASE BeginHydration  BY <1>2 DEF BeginHydration
<1>3. CASE ReadCheckpoints  BY <1>3 DEF ReadCheckpoints
<1>4. CASE \E a \in Assets : LoadCheckpoint(a)  BY <1>4 DEF LoadCheckpoint
<1>5. CASE OpenReplay  BY <1>5 DEF OpenReplay
<1>6. CASE ReplaySkip  BY <1>6 DEF ReplaySkip
<1>7. CASE ReplayApply  BY <1>7 DEF ReplayApply
<1>8. CASE ReplayMove  BY <1>8 DEF ReplayMove
<1>9. CASE ReplayEnd  BY <1>9 DEF ReplayEnd
<1>10. CASE FinishHydration  BY <1>10 DEF FinishHydration
<1>11. QED
  BY <1>1, <1>2, <1>3, <1>4, <1>5, <1>6, <1>7, <1>8, <1>9, <1>10

\* The tailer clears its flag only once the hydration is over, and sets it before the next.
LEMMA TailKeepsFlags ==
    ASSUME FlagsInv,
           \/ SyncNothing \/ SyncChannels \/ SyncBooks
           \/ OpenTail \/ OpenTailFails \/ TailResync \/ TailApply \/ TailSkips \/ ProjectorDies
           \/ TailMove \/ TailIdle
    PROVE  FlagsInv'
<1>. USE DEF FlagsInv, Up, flags, hydrationVars
<1>1. CASE SyncNothing  BY <1>1 DEF SyncNothing
<1>2. CASE SyncChannels  BY <1>2 DEF SyncChannels
<1>3. CASE SyncBooks  BY <1>3 DEF SyncBooks
<1>4. CASE OpenTail  BY <1>4 DEF OpenTail, ClearsResync
<1>5. CASE OpenTailFails  BY <1>5 DEF OpenTailFails
<1>6. CASE TailResync  BY <1>6 DEF TailResync
<1>7. CASE TailApply  BY <1>7 DEF TailApply, Polling
<1>8. CASE TailSkips  BY <1>8 DEF TailSkips, Polling
<1>9. CASE ProjectorDies  BY <1>9 DEF ProjectorDies
<1>10. CASE TailMove  BY <1>10 DEF TailMove, Polling
<1>11. CASE TailIdle  BY <1>11 DEF TailIdle, Polling
<1>12. QED
  BY <1>1, <1>2, <1>3, <1>4, <1>5, <1>6, <1>7, <1>8, <1>9, <1>10, <1>11

\* The other processes and the sessions do not touch the flags; a stop clears them.
LEMMA OthersKeepFlags ==
    ASSUME FlagsInv,
           AppendLog \/ Prune \/ FlushParquet \/ Stop \/ UNCHANGED vars
    PROVE  FlagsInv'
<1>. USE DEF FlagsInv, Up, flags, hydrationVars, processVars, vars
<1>1. CASE AppendLog  BY <1>1 DEF AppendLog
<1>2. CASE Prune  BY <1>2 DEF Prune
<1>3. CASE FlushParquet  BY <1>3 DEF FlushParquet
<1>4. CASE Stop  BY <1>4 DEF Stop, ProcessGone
<1>5. CASE UNCHANGED vars  BY <1>5
<1>6. QED  BY <1>1, <1>2, <1>3, <1>4, <1>5

\* No step of anyone breaks them.
LEMMA FlagsStep == FlagsInv /\ [SNext]_svars => FlagsInv'
<1>. SUFFICES ASSUME FlagsInv, [SNext]_svars  PROVE FlagsInv'
  OBVIOUS
<1>1. CASE Server
  BY <1>1, HydrationKeepsFlags, TailKeepsFlags DEF Server
<1>2. CASE Ingest
  BY <1>2, OthersKeepFlags DEF Ingest
<1>3. CASE Environment
  BY <1>3, OthersKeepFlags, TailKeepsFlags DEF Environment
<1>4. CASE \E s \in Sessions : Connect(s) \/ SessionStep(s) \/ Leave(s)
  <2>1. UNCHANGED vars
    BY <1>4 DEF Connect, SessionStep, Leave, InitSnapshot, RecvLagged, RecvUpdate, RecvClosed
  <2>2. QED  BY <2>1, OthersKeepFlags
<1>5. CASE UNCHANGED svars
  BY <1>5, OthersKeepFlags DEF svars
<1>6. QED  BY <1>1, <1>2, <1>3, <1>4, <1>5 DEF SNext

\* /health/ready answers 200 only after a hydration that went to its end without a
\* fault, and while none is under way or due: for any log, whatever fails, however
\* often the process resynchronizes or restarts (mark_unhydrated, needs_resync).
THEOREM ReadyRecovered == Spec => []ReadyIsRecovered
<1>1. FlagsInv => ReadyIsRecovered
  BY DEF FlagsInv, ReadyIsRecovered, Ready, Up
<1>2. QED  BY <1>1, FlagsInit, FlagsStep, PTL DEF Spec

-----------------------------------------------------------------------------
\* The channels are those of the active assets, but between the two halves of a sync;
\* a process that is down has no books and no sessions.
ChannelsInv ==
    /\ profile \in DOMAIN Profiles
    /\ channels \subseteq Assets
    /\ channels = IF pc = "activate" THEN followed ELSE active
    /\ pc = "down" => known = {} /\ ~bound /\ \A s \in Sessions : stream[s] = NoSession

Fields == {"pc", "asset", "queue", "lagged", "closed", "tries", "shown", "bypassed"}

\* What a session has to show ends with the published book: the last update in its queue,
\* or what it shows already.
EndsPublished(st) ==
    st.pc # "none" /\ ~st.closed =>
        /\ st.asset \in channels
        /\ st.queue # << >> \/ st.shown # NoBook => st.asset \in active /\ ready[st.asset]
        /\ ~st.bypassed /\ st.queue # << >> =>
                st.queue[Len(st.queue)] = published.view[st.asset].book
        /\ ~st.bypassed /\ st.queue = << >> /\ st.shown # NoBook =>
                st.shown = published.view[st.asset].book

SessionsInv ==
    /\ DOMAIN stream = Sessions
    /\ \A s \in Sessions : DOMAIN stream[s] = Fields
    /\ \E S : \A s \in Sessions : stream[s].queue \in Seq(S)
    /\ \A s \in Sessions : EndsPublished(stream[s])

ClientsInv == FlagsInv /\ PublishedInv /\ ChannelsInv /\ SessionsInv

\* A session that is not open has an empty queue.
LEMMA NoSessionRight ==
    DOMAIN NoSession = Fields /\ NoSession.pc = "none" /\ \A S : NoSession.queue \in Seq(S)
BY DEF NoSession, Fields

\* Before the process starts there is no channel and no session.
LEMMA ClientsInit == SInit => ClientsInv
<1>. SUFFICES ASSUME SInit PROVE ClientsInv
  OBVIOUS
<1>1. PublishedInv
  BY PublishedInit DEF SInit, Init
<1>2. ChannelsInv
  BY DEF SInit, Init, LiveInit, ProcessInit, ChannelsInv
<1>3. SessionsInv
  BY NoSessionRight DEF SInit, SessionsInv, EndsPublished
<1>4. QED  BY <1>1, <1>2, <1>3, FlagsInit DEF ClientsInv

\* The steps that touch no book, no channel and no session.
LEMMA QuietSteps ==
    ASSUME FlagsInv,
           \/ BeginHydration \/ ReadCheckpoints \/ OpenReplay \/ ReplaySkip \/ ReplayMove
           \/ ReplayEnd \/ FinishHydration \/ SyncNothing \/ OpenTail \/ TailResync \/ TailMove
           \/ TailIdle \/ AppendLog \/ Prune \/ FlushParquet \/ OpenTailFails \/ TailSkips
           \/ ProjectorDies \/ UNCHANGED vars
    PROVE  /\ UNCHANGED << lvars, channels, profile, followed >>
           /\ pc' = pc \/ (pc \notin {"down", "activate"} /\ pc' \notin {"down", "activate"})
<1>. USE DEF FlagsInv, Up, bounds, trackerVars
<1>1. CASE BeginHydration  BY <1>1 DEF BeginHydration
<1>2. CASE ReadCheckpoints  BY <1>2 DEF ReadCheckpoints
<1>3. CASE OpenReplay  BY <1>3 DEF OpenReplay
<1>4. CASE ReplaySkip  BY <1>4 DEF ReplaySkip
<1>5. CASE ReplayMove  BY <1>5 DEF ReplayMove
<1>6. CASE ReplayEnd  BY <1>6 DEF ReplayEnd
<1>7. CASE FinishHydration  BY <1>7 DEF FinishHydration
<1>8. CASE SyncNothing  BY <1>8 DEF SyncNothing
<1>9. CASE OpenTail  BY <1>9 DEF OpenTail
<1>10. CASE TailResync  BY <1>10 DEF TailResync
<1>11. CASE TailMove  BY <1>11 DEF TailMove, Polling
<1>12. CASE TailIdle  BY <1>12 DEF TailIdle, Polling
<1>13. CASE AppendLog  BY <1>13 DEF AppendLog, processVars
<1>14. CASE Prune  BY <1>14 DEF Prune, processVars
<1>15. CASE FlushParquet  BY <1>15 DEF FlushParquet, processVars
<1>16. CASE OpenTailFails  BY <1>16 DEF OpenTailFails
<1>17. CASE TailSkips  BY <1>17 DEF TailSkips, Polling
<1>18. CASE ProjectorDies  BY <1>18 DEF ProjectorDies, Polling
<1>19. CASE UNCHANGED vars  BY <1>19 DEF vars
<1>20. QED
  BY <1>1, <1>2, <1>3, <1>4, <1>5, <1>6, <1>7, <1>8, <1>9, <1>10, <1>11, <1>12, <1>13, <1>14,
     <1>15, <1>16, <1>17, <1>18, <1>19

\* A step that leaves the read model, the channels and the sessions alone keeps the invariant.
LEMMA QuietKeepsClients ==
    ASSUME ClientsInv, UNCHANGED << lvars, channels, profile, followed, stream >>,
           pc' = pc \/ (pc \notin {"down", "activate"} /\ pc' \notin {"down", "activate"}),
           bound' = bound \/ pc' # "down"
    PROVE  PublishedInv' /\ ChannelsInv' /\ SessionsInv'
<1>1. PublishedInv'
  BY DEF lvars, ClientsInv, PublishedInv
<1>2. ChannelsInv'
  <2>1. (pc' = "activate") = (pc = "activate") /\ (pc' = "down" => pc = "down" /\ bound' = bound)
    OBVIOUS
  <2>2. QED  BY <2>1 DEF lvars, ClientsInv, ChannelsInv
<1>3. SessionsInv'
  BY DEF lvars, ClientsInv, SessionsInv, EndsPublished
<1>4. QED  BY <1>1, <1>2, <1>3

\* A process starts and stops without books and without sessions.
LEMMA StartStopKeepClients ==
    ASSUME ClientsInv,
           \/ Start /\ Untouched
           \/ Stop /\ bound' = FALSE /\ stream' = [s \in Sessions |-> NoSession]
    PROVE  PublishedInv' /\ ChannelsInv' /\ SessionsInv'
<1>1. CASE Start /\ Untouched
  <2>1. Setup.tokens \subseteq Assets
    BY ServeAssumption DEF ClientsInv, ChannelsInv, Setup
  <2>2. \A a \in Assets : ~ready[a] /\ pending[a] = NoPending
    BY <1>1 DEF Start, ClientsInv, ChannelsInv, PublishedInv
  <2>3. PublishedInv'
    BY <1>1, <2>1, <2>2, FullViewRight DEF Start, ClientsInv, PublishedInv
  <2>4. ChannelsInv'
    BY <1>1, <2>1 DEF Start, ClientsInv, ChannelsInv, bounds
  <2>5. SessionsInv'
    BY <1>1, NoSessionRight DEF Start, Untouched, ClientsInv, ChannelsInv, SessionsInv,
       EndsPublished
  <2>6. QED  BY <2>3, <2>4, <2>5
<1>2. CASE Stop /\ bound' = FALSE /\ stream' = [s \in Sessions |-> NoSession]
  <2>1. PublishedInv'
    BY <1>2, FullViewRight DEF Stop, ProcessGone
  <2>2. ChannelsInv'
    BY <1>2 DEF Stop, ProcessGone, ClientsInv, ChannelsInv
  <2>3. SessionsInv'
    BY <1>2, NoSessionRight DEF SessionsInv, EndsPublished
  <2>4. QED  BY <2>1, <2>2, <2>3
<1>3. QED  BY <1>1, <1>2

\* A checkpoint that is loaded changes the book of one asset, and marks its sessions.
LEMMA LoadKeepsClients ==
    ASSUME ClientsInv, NEW a \in Assets, LoadCheckpoint(a), MarkBypassed(a), UNCHANGED bound
    PROVE  PublishedInv' /\ ChannelsInv' /\ SessionsInv'
<1>1. PICK rows : HydrateCheckpoint(a, rows)
  BY DEF LoadCheckpoint
<1>2. PublishedInv'
  BY <1>1, HydrateKeepsViews DEF ClientsInv
<1>3. /\ active' = active /\ channels' = channels /\ profile' = profile
      /\ pc' = pc /\ pc = "load"
  BY DEF LoadCheckpoint, HydrateCheckpoint, bounds
<1>4. ChannelsInv'
  BY <1>3 DEF ClientsInv, ChannelsInv
<1>5. /\ \A b \in Assets : ready[b] => ready'[b]
      /\ \A b \in Assets \ {a} : published'.view[b] = published.view[b]
  BY <1>1 DEF HydrateCheckpoint, ClientsInv, PublishedInv
<1>6. ASSUME NEW s \in Sessions
      PROVE  /\ DOMAIN stream'[s] = Fields /\ stream'[s].queue = stream[s].queue
             /\ EndsPublished(stream[s])'
  <2>1. CASE stream[s].asset = a
    <3>1. stream'[s] = [stream[s] EXCEPT !.bypassed = TRUE]
      BY <2>1 DEF MarkBypassed
    <3>2. QED  BY <1>3, <1>5, <3>1 DEF ClientsInv, SessionsInv, EndsPublished, Fields, ChannelsInv
  <2>2. CASE stream[s].asset # a
    <3>1. stream'[s] = stream[s]
      BY <2>2 DEF MarkBypassed
    <3>2. QED  BY <2>2, <1>3, <1>5, <3>1 DEF ClientsInv, SessionsInv, EndsPublished, ChannelsInv
  <2>3. QED  BY <2>1, <2>2
<1>7. SessionsInv'
  BY <1>6 DEF ClientsInv, SessionsInv, MarkBypassed
<1>8. QED  BY <1>2, <1>4, <1>7

\* A queue of some books is a queue of more books.
LEMMA SeqWidens == ASSUME NEW S, NEW T, S \subseteq T, NEW q \in Seq(S)  PROVE q \in Seq(T)
OBVIOUS

\* The ring of a channel ends with what was sent last, whatever it had to drop.
LEMMA PushEnds ==
    ASSUME NEW S, NEW b \in S, NEW st, DOMAIN st = Fields, st.queue \in Seq(S)
    PROVE  /\ DOMAIN Push(st, b) = Fields
           /\ Push(st, b).queue \in Seq(S)
           /\ Push(st, b).queue # << >> /\ Push(st, b).queue[Len(Push(st, b).queue)] = b
           /\ Push(st, b).pc = st.pc /\ Push(st, b).closed = st.closed
           /\ Push(st, b).asset = st.asset
<1>1. CASE Len(st.queue) < Capacity
  <2>1. Push(st, b) = [st EXCEPT !.queue = Append(st.queue, b), !.bypassed = FALSE]
    BY <1>1 DEF Push
  <2>2. /\ DOMAIN Push(st, b) = Fields /\ Push(st, b).queue = Append(st.queue, b)
        /\ Push(st, b).pc = st.pc /\ Push(st, b).closed = st.closed
        /\ Push(st, b).asset = st.asset
    BY <2>1 DEF Fields
  <2>3. QED  BY <2>2
<1>2. CASE ~(Len(st.queue) < Capacity)
  <2>1. Push(st, b) = [st EXCEPT !.queue = Append(Tail(st.queue), b), !.bypassed = FALSE, !.lagged = TRUE]
    BY <1>2 DEF Push
  <2>2. /\ DOMAIN Push(st, b) = Fields /\ Push(st, b).queue = Append(Tail(st.queue), b)
        /\ Push(st, b).pc = st.pc /\ Push(st, b).closed = st.closed
        /\ Push(st, b).asset = st.asset
    BY <2>1 DEF Fields
  <2>3. st.queue # << >>
    BY <1>2, StreamingAssumption
  <2>4. Tail(st.queue) \in Seq(S)
    BY <2>3
  <2>5. QED  BY <2>2, <2>4
<1>3. QED  BY <1>1, <1>2

\* A record reaches every session whose book it changes.
LEMMA FanoutKeepsSessions ==
    ASSUME ClientsInv, NEW rec, ApplyRecord(rec), Fanout, UNCHANGED channels
    PROVE  SessionsInv'
<1>1. PublishedInv' /\ UpdatesInv' /\ Announced
  BY ApplyRecordPublishes DEF ClientsInv
<1>2. active' = active /\ \A a \in Assets : ready[a] => ready'[a]
  BY ApplyRecordKeepsReady DEF ClientsInv
<1>3. PICK S : \A s \in Sessions : stream[s].queue \in Seq(S)
  BY DEF ClientsInv, SessionsInv
<1>. DEFINE T == S \cup {u.book : u \in updates'}
<1>4. ASSUME NEW s \in Sessions
      PROVE  /\ DOMAIN stream'[s] = Fields /\ stream'[s].queue \in Seq(T)
             /\ EndsPublished(stream[s])'
  <2>. DEFINE mine == {u \in updates' : u.asset = stream[s].asset}
  <2>0. DOMAIN stream[s] = Fields /\ stream[s].queue \in Seq(T) /\ EndsPublished(stream[s])
    <3>. HIDE DEF T
    <3>1. S \subseteq T
      BY DEF T
    <3>2. stream[s].queue \in Seq(T)
      BY <1>3, <3>1, SeqWidens
    <3>3. QED  BY <3>2 DEF ClientsInv, SessionsInv
  <2>1. stream'[s] = IF stream[s].pc = "none" \/ stream[s].closed \/ mine = {} THEN stream[s]
                     ELSE Push(stream[s], (CHOOSE u \in mine : TRUE).book)
    BY DEF Fanout
  <2>2. CASE stream[s].pc = "none" \/ stream[s].closed
    BY <2>0, <2>1, <2>2 DEF EndsPublished
  <2>3. CASE stream[s].pc # "none" /\ ~stream[s].closed /\ mine = {}
    <3>. DEFINE a == stream[s].asset
    <3>1. stream'[s] = stream[s] /\ a \in channels
      BY <2>0, <2>1, <2>3 DEF EndsPublished
    <3>2. ASSUME a \in active, ready[a]
          PROVE  published'.view[a].book = published.view[a].book
      <4>1. a \in Assets /\ a \in known /\ ready'[a]
        BY <1>2, <3>2 DEF ClientsInv, PublishedInv
      <4>2. a \in known' /\ a \in active'
        BY <1>1, <1>2, <3>2, <4>1 DEF PublishedInv
      <4>3. Serves(published', a)
        BY <1>1, <4>1, <4>2 DEF PublishedInv, Serves
      <4>4. ~\E u \in updates' : u.asset = a
        BY <2>3
      <4>5. [asset |-> a, book |-> published'.view[a].book] \notin updates'
        BY <4>4
      <4>6. a \in active' \cap active
        BY <3>2, <4>2
      <4>. HIDE DEF a
      <4>7. QED  BY <1>1, <4>3, <4>5, <4>6 DEF Announced
    <3>3. QED
      BY <1>2, <2>0, <3>1, <3>2 DEF EndsPublished, ClientsInv, ChannelsInv
  <2>4. CASE stream[s].pc # "none" /\ ~stream[s].closed /\ mine # {}
    <3>. DEFINE u == CHOOSE v \in mine : TRUE
    <3>1. u \in updates' /\ u.asset = stream[s].asset
      BY <2>4
    <3>2. u.book \in T
      BY <3>1
    <3>3. stream'[s] = Push(stream[s], u.book)
      BY <2>1, <2>4
    <3>4. u.asset \in active' /\ ready'[u.asset] /\ u.book = published'.view[u.asset].book
      BY <1>1, <3>1 DEF UpdatesInv
    <3>5. stream[s].asset \in channels
      BY <2>0, <2>4 DEF EndsPublished
    <3>. HIDE DEF u, T
    <3>6. /\ DOMAIN stream'[s] = Fields /\ stream'[s].queue \in Seq(T)
          /\ stream'[s].queue # << >> /\ stream'[s].queue[Len(stream'[s].queue)] = u.book
          /\ stream'[s].asset = stream[s].asset
      BY <2>0, <3>2, <3>3, PushEnds
    <3>7. QED  BY <3>1, <3>4, <3>5, <3>6 DEF EndsPublished
  <2>5. QED  BY <2>2, <2>3, <2>4
<1>. HIDE DEF T
<1>5. DOMAIN stream' = Sessions
  BY DEF Fanout
<1>6. QED  BY <1>4, <1>5 DEF SessionsInv

\* A record that is applied and sent to the channels keeps the invariant (apply_record, run_projector).
LEMMA ApplyKeepsClients ==
    ASSUME ClientsInv, ReplayApply \/ TailApply, Fanout, UNCHANGED bound
    PROVE  PublishedInv' /\ ChannelsInv' /\ SessionsInv'
<1>1. PICK rec : ApplyRecord(rec)
  BY DEF ReplayApply, TailApply, ApplyLogged
<1>2. channels' = channels /\ profile' = profile /\ {pc, pc'} \subseteq {"replay"} \cup Up
      /\ pc # "activate" /\ pc' # "activate"
  BY DEF ReplayApply, TailApply, Polling, bounds, Up
<1>3. PublishedInv'
  BY <1>1, ApplyRecordPublishes DEF ClientsInv
<1>4. active' = active
  BY <1>1, ApplyRecordKeepsReady DEF ClientsInv
<1>5. ChannelsInv'
  BY <1>2, <1>4 DEF ClientsInv, ChannelsInv, Up
<1>6. SessionsInv'
  BY <1>1, <1>2, FanoutKeepsSessions
<1>7. QED  BY <1>3, <1>5, <1>6

\* The channels of the assets that go are closed before their books go.
LEMMA SyncKeepsClients ==
    ASSUME ClientsInv,
           \/ SyncChannels /\ CloseChannels /\ UNCHANGED bound
           \/ SyncBooks /\ Untouched
    PROVE  PublishedInv' /\ ChannelsInv' /\ SessionsInv'
<1>1. CASE SyncChannels /\ CloseChannels /\ UNCHANGED bound
  <2>1. UNCHANGED lvars /\ profile' = profile /\ pc' = "activate" /\ channels' = followed'
        /\ channels' \subseteq Assets
    BY <1>1 DEF SyncChannels, bounds, Desired
  <2>2. PublishedInv'
    BY <2>1 DEF ClientsInv, PublishedInv, lvars
  <2>3. ChannelsInv'
    BY <2>1 DEF ClientsInv, ChannelsInv
  <2>4. ASSUME NEW s \in Sessions
        PROVE  /\ DOMAIN stream'[s] = Fields /\ stream'[s].queue = stream[s].queue
               /\ EndsPublished(stream[s])'
    <3>1. CASE stream[s].pc # "none" /\ stream[s].asset \notin channels'
      <4>1. stream'[s] = [stream[s] EXCEPT !.closed = TRUE]
        BY <1>1, <3>1 DEF CloseChannels
      <4>2. QED  BY <4>1 DEF EndsPublished, ClientsInv, SessionsInv, Fields
    <3>2. CASE stream[s].pc = "none" \/ stream[s].asset \in channels'
      <4>1. stream'[s] = stream[s]
        BY <1>1, <3>2 DEF CloseChannels
      <4>2. QED  BY <2>1, <3>2, <4>1 DEF EndsPublished, ClientsInv, SessionsInv, lvars
    <3>3. QED  BY <3>1, <3>2
  <2>5. SessionsInv'
    BY <1>1, <2>4 DEF CloseChannels, ClientsInv, SessionsInv
  <2>6. QED  BY <2>2, <2>3, <2>5
<1>2. CASE SyncBooks /\ Untouched
  <2>1. SetActive(followed) /\ channels = followed /\ channels' = channels /\ followed' = followed
        /\ channels \subseteq Assets /\ profile' = profile /\ pc' \in {"open", "tail"}
    BY <1>2 DEF SyncBooks, bounds, trackerVars, ClientsInv, ChannelsInv, FlagsInv
  <2>2. active' = channels'
    BY <2>1 DEF SetActive
  <2>3. PublishedInv'
    BY <2>1, SetActiveKeepsViews DEF ClientsInv
  <2>4. ChannelsInv'
    BY <2>1, <2>2 DEF ClientsInv, ChannelsInv
  <2>5. \A a \in active' : ready[a] => ready'[a] /\ published'.view[a].book = published.view[a].book
    BY <2>1, SetActiveKeepsViews DEF ClientsInv
  <2>6. SessionsInv'
    BY <1>2, <2>1, <2>2, <2>5 DEF Untouched, ClientsInv, SessionsInv, EndsPublished
  <2>7. QED  BY <2>3, <2>4, <2>6
<1>3. QED  BY <1>1, <1>2

\* A queue that is read to its end was read to its last update.
LEMMA TailEnds ==
    ASSUME NEW S, NEW q \in Seq(S), q # << >>
    PROVE  /\ Tail(q) # << >> => Tail(q)[Len(Tail(q))] = q[Len(q)]
           /\ Tail(q) = << >> => Head(q) = q[Len(q)]
<1>1. /\ Len(q) \in Nat \ {0} /\ Len(Tail(q)) = Len(q) - 1 /\ Head(q) = q[1]
      /\ \A i \in 1..(Len(q) - 1) : Tail(q)[i] = q[i + 1]
  OBVIOUS
<1>2. Tail(q) \in Seq(S)
  OBVIOUS
<1>3. Tail(q) = << >> <=> Len(Tail(q)) = 0
  BY <1>2, EmptySeq
<1>4. CASE Len(q) = 1
  BY <1>1, <1>3, <1>4
<1>5. CASE Len(q) > 1
  <2>1. Tail(q)[Len(q) - 1] = q[Len(q)]
    BY <1>1, <1>5
  <2>2. QED  BY <1>1, <1>3, <1>5, <2>1
<1>6. QED  BY <1>1, <1>4, <1>5

\* A session takes the published book, or the next update of its queue.
LEMMA SessionKeepsClients ==
    ASSUME ClientsInv, NEW s \in Sessions, Connect(s) \/ SessionStep(s) \/ Leave(s)
    PROVE  PublishedInv' /\ ChannelsInv' /\ SessionsInv'
<1>1. UNCHANGED vars /\ bound' = bound
  BY DEF Connect, SessionStep, Leave, InitSnapshot, RecvLagged, RecvUpdate, RecvClosed
<1>2. UNCHANGED << lvars, channels, profile, followed, pc >>
  BY <1>1 DEF vars, bounds, trackerVars
<1>3. PublishedInv'
  BY <1>2 DEF ClientsInv, PublishedInv, lvars
<1>4. PICK S : \A r \in Sessions : stream[r].queue \in Seq(S)
  BY DEF ClientsInv, SessionsInv
<1>. DEFINE st == stream[s]  new == stream'[s]
<1>5. DOMAIN stream = Sessions /\ DOMAIN st = Fields /\ st.queue \in Seq(S) /\ EndsPublished(st)
  BY <1>4 DEF ClientsInv, SessionsInv
<1>6. st.asset \in Assets /\ Serves(published, st.asset) => st.asset \in active /\ ready[st.asset]
  BY DEF ClientsInv, PublishedInv, Serves
<1>7. st.pc # "none" /\ ~st.closed => st.asset \in Assets
  BY <1>5 DEF EndsPublished, ClientsInv, ChannelsInv
<1>8. pc # "down"
  <2>1. CASE Connect(s)
    BY <2>1 DEF Connect, ClientsInv, ChannelsInv
  <2>2. CASE st.pc # "none"
    BY <2>2, NoSessionRight DEF ClientsInv, ChannelsInv
  <2>3. QED  BY <2>1, <2>2 DEF SessionStep, Leave, InitSnapshot, RecvLagged, RecvUpdate, RecvClosed
<1>9. ChannelsInv'
  BY <1>2, <1>8 DEF ClientsInv, ChannelsInv, lvars
\* Where the step leaves the session: as it says itself, in every case.
<1>10. DOMAIN new = Fields /\ new.queue \in Seq(S) /\ EndsPublished(new)
  <2>. DEFINE Fresh == /\ Serves(published, st.asset) /\ st.pc # "none"
                       /\ new = [st EXCEPT !.shown = published.view[st.asset].book, !.pc = "live"]
              Tried == /\ st.pc # "none"
                       /\ \E p \in {"init", "live"} : new = [st EXCEPT !.tries = st.tries + 1, !.pc = p]
  <2>1. CASE new = NoSession
    BY <2>1, NoSessionRight DEF EndsPublished
  <2>2. CASE Connect(s)
    <3>1. PICK a \in channels : new = [NoSession EXCEPT !.pc = "init", !.asset = a]
      BY <1>5, <2>2 DEF Connect
    <3>2. /\ DOMAIN new = Fields /\ new.queue = << >> /\ new.asset = a /\ new.shown = NoBook
      BY <3>1 DEF NoSession, Fields
    <3>3. QED  BY <3>2 DEF EndsPublished
  <2>3. CASE Fresh
    <3>1. /\ DOMAIN new = Fields /\ new.queue = st.queue /\ new.asset = st.asset
          /\ new.closed = st.closed /\ new.bypassed = st.bypassed
          /\ new.shown = published.view[st.asset].book
      BY <1>5, <2>3 DEF Fields
    <3>2. QED  BY <1>5, <1>6, <1>7, <2>3, <3>1 DEF EndsPublished
  <2>4. CASE Tried
    <3>1. /\ DOMAIN new = Fields /\ new.queue = st.queue /\ new.asset = st.asset
          /\ new.closed = st.closed /\ new.bypassed = st.bypassed /\ new.shown = st.shown
      BY <1>5, <2>4 DEF Fields
    <3>2. QED  BY <1>5, <2>4, <3>1 DEF EndsPublished
  <2>5. CASE RecvLagged(s)
    <3>1. /\ DOMAIN new = Fields /\ new.queue = st.queue /\ new.asset = st.asset /\ st.pc # "none"
          /\ new.closed = st.closed /\ new.bypassed = st.bypassed
          /\ new.shown = IF Serves(published, st.asset) THEN published.view[st.asset].book ELSE st.shown
      BY <1>5, <2>5 DEF RecvLagged, Fields
    <3>2. QED  BY <1>5, <1>6, <1>7, <3>1 DEF EndsPublished
  <2>6. CASE RecvUpdate(s)
    <3>1. /\ DOMAIN new = Fields /\ new.queue = Tail(st.queue) /\ new.asset = st.asset
          /\ new.closed = st.closed /\ new.bypassed = st.bypassed /\ new.shown = Head(st.queue)
          /\ st.pc = "live" /\ st.queue # << >>
      BY <1>5, <2>6 DEF RecvUpdate, Fields
    <3>2. new.queue \in Seq(S)
      BY <1>5, <3>1
    <3>3. new.queue # << >> => new.queue[Len(new.queue)] = st.queue[Len(st.queue)]
      BY <1>5, <3>1, TailEnds
    <3>4. new.queue = << >> => new.shown = st.queue[Len(st.queue)]
      BY <1>5, <3>1, TailEnds
    <3>5. QED  BY <1>5, <3>1, <3>2, <3>3, <3>4 DEF EndsPublished
  <2>7. ASSUME InitSnapshot(s) PROVE new = NoSession \/ Fresh \/ Tried
    <3>1. CASE st.asset \notin published.active
      <4>1. new = NoSession
        BY <1>5, <2>7, <3>1 DEF InitSnapshot, Serves
      <4>2. QED  BY <4>1
    <3>2. CASE st.asset \in published.active /\ Serves(published, st.asset)
      <4>1. stream' = [stream EXCEPT ![s].shown = published.view[st.asset].book, ![s].pc = "live"]
            /\ st.pc = "init"
        BY <2>7, <3>2 DEF InitSnapshot, Show
      <4>2. new = [st EXCEPT !.shown = published.view[st.asset].book, !.pc = "live"]
        BY <1>5, <4>1
      <4>3. QED  BY <3>2, <4>1, <4>2
    <3>3. CASE st.asset \in published.active /\ ~Serves(published, st.asset)
      <4>1. stream' = [stream EXCEPT ![s].tries = @ + 1,
                                     ![s].pc = IF st.tries + 1 < Tries THEN "init" ELSE "live"]
            /\ st.pc = "init"
        BY <2>7, <3>3 DEF InitSnapshot
      <4>. DEFINE p == IF st.tries + 1 < Tries THEN "init" ELSE "live"
      <4>2. new = [st EXCEPT !.tries = st.tries + 1, !.pc = p]
        BY <1>5, <4>1
      <4>3. QED  BY <4>1, <4>2
    <3>4. QED  BY <3>1, <3>2, <3>3
  <2>8. RecvClosed(s) \/ Leave(s) => new = NoSession
    BY <1>5 DEF RecvClosed, Leave
  <2>9. QED
    BY <2>1, <2>2, <2>3, <2>4, <2>5, <2>6, <2>7, <2>8 DEF SessionStep
<1>11. DOMAIN stream' = Sessions /\ \A r \in Sessions \ {s} : stream'[r] = stream[r]
  BY <1>5 DEF Connect, SessionStep, Leave, InitSnapshot, Show, RecvLagged, RecvUpdate, RecvClosed
<1>12. \A r \in Sessions : /\ DOMAIN stream'[r] = Fields /\ stream'[r].queue \in Seq(S)
                           /\ EndsPublished(stream'[r])
  BY <1>4, <1>10, <1>11 DEF ClientsInv, SessionsInv
<1>13. \A r \in Sessions : EndsPublished(stream[r])'
  BY <1>2, <1>12 DEF EndsPublished, lvars
<1>14. SessionsInv'
  BY <1>11, <1>12, <1>13 DEF SessionsInv
<1>15. QED  BY <1>3, <1>9, <1>14

\* No step of anyone takes a session off its book.
LEMMA ClientsStep == ClientsInv /\ [SNext]_svars => ClientsInv'
<1>. SUFFICES ASSUME ClientsInv, [SNext]_svars PROVE PublishedInv' /\ ChannelsInv' /\ SessionsInv'
  BY FlagsStep DEF ClientsInv
<1>. USE DEF Untouched
<1>1. CASE Server
  <2>1. CASE \/ Start /\ Untouched
             \/ \E a \in Assets : LoadCheckpoint(a) /\ MarkBypassed(a) /\ UNCHANGED bound
             \/ (ReplayApply \/ TailApply) /\ Fanout /\ UNCHANGED bound
             \/ SyncChannels /\ CloseChannels /\ UNCHANGED bound
             \/ SyncBooks /\ Untouched
    BY <2>1, StartStopKeepClients, LoadKeepsClients, ApplyKeepsClients, SyncKeepsClients
  <2>2. CASE \/ /\ \/ BeginHydration \/ ReadCheckpoints \/ OpenReplay \/ ReplaySkip \/ ReplayMove
                   \/ ReplayEnd \/ SyncNothing \/ OpenTail \/ TailResync \/ TailMove \/ TailIdle
                /\ Untouched
             \/ FinishHydration /\ bound' = TRUE /\ UNCHANGED stream
    <3>1. UNCHANGED stream /\ (bound' = bound \/ pc' # "down")
      BY <2>2 DEF FinishHydration
    <3>2. QED  BY <2>2, <3>1, QuietSteps, QuietKeepsClients DEF ClientsInv
  <2>3. QED  BY <1>1, <2>1, <2>2 DEF Server
<1>2. CASE Ingest
  BY <1>2, QuietSteps, QuietKeepsClients DEF Ingest, ClientsInv
<1>3. CASE Environment
  BY <1>3, QuietSteps, QuietKeepsClients, StartStopKeepClients DEF Environment, ClientsInv
<1>4. CASE \E s \in Sessions : Connect(s) \/ SessionStep(s) \/ Leave(s)
  BY <1>4, SessionKeepsClients
<1>5. CASE UNCHANGED svars
  BY <1>5, QuietSteps, QuietKeepsClients DEF svars, ClientsInv
<1>6. QED  BY <1>1, <1>2, <1>3, <1>4, <1>5 DEF SNext

\* A client with nothing left to receive shows the published book: for any number of
\* sessions and any capacity of the channels, whatever it lagged behind and however
\* markets rotate and the process restarts (ws_orderbook, PerAssetBroadcast).
THEOREM ClientsConverge == Spec => []StreamConverges
<1>1. ClientsInv => StreamConverges
  BY DEF ClientsInv, SessionsInv, EndsPublished, StreamConverges
<1>2. QED  BY <1>1, ClientsInit, ClientsStep, PTL DEF Spec

-----------------------------------------------------------------------------
\* How many records the reader at work has gone past.
Pos == Global(rd)

\* Where a reader may be.
IsPlace(p) == p.seg \in 0 .. LastSeg /\ p.off \in 0 .. PerSeg /\ Global(p) <= written

\* The reader stays within the log, and has in memory no more of a segment than there is.
ReaderInv ==
    /\ profile \in DOMAIN Profiles
    /\ written \in 0 .. Len(Script) /\ stored \in 0 .. written
    /\ first \in 0 .. LastSeg
    /\ DOMAIN rd = {"seg", "off", "have", "earliest"}
    /\ IsPlace(rd) /\ rd.earliest \in 0 .. first
    /\ rd.have # NotLoaded => rd.have \in 0 .. PerSeg /\ rd.seg * PerSeg + rd.have <= written
    /\ committed = NoPosition \/ IsPlace(committed)
    /\ resumeAt = NoPosition \/ IsPlace(resumeAt)
    /\ lost \in 0 .. Pos

\* The tail is to be opened, or the books to be synchronized first.
ToOpen == pc = "finish" \/ (pc \in {"sync", "activate", "open"} /\ after = "open")

\* A hydration has no position yet, or failed to get one.
NoPlaceYet ==
    \/ pc \in {"hydrate", "inventory", "load"}
    \/ resumeAt = NoPosition /\ ToOpen

\* From one reader to the next nobody goes back: neither a hydration, to the earliest
\* segment, nor the tail, to where the hydration ended or to the committed position.
HandoffInv ==
    /\ pc = "down" => Pos = 0 /\ \A a \in Assets : pending[a] = NoPending
    /\ pc \in {"inventory", "load", "replay"} => resumeAt = NoPosition
    /\ pc = "open" => after = "open"
    /\ NoPlaceYet => /\ Pos <= first * PerSeg
                     /\ Pos # 0 => committed # NoPosition /\ Global(committed) = Pos
    /\ ToOpen => resumeAt = NoPosition \/ Global(resumeAt) = Pos

\* The readers that keep the books of a process whose last hydration went well.
AtWork == recovered /\ pc \in {"replay", "finish"} \cup Up

\* Where a hydration has read the inventory, until the next.
Inventoried == pc \in {"inventory", "load", "replay", "finish"} \cup Up

\* A cut is the one of a stored checkpoint of the asset.
CutRight(a) ==
    \/ cuts[a] = NoCut /\ toLoad[a] = 0
    \/ /\ cuts[a] \in 0 .. stored - 1 /\ a \in Setup.tokens
       /\ Script[cuts[a] + 1].kind = "checkpoint" /\ Script[cuts[a] + 1].asset = a
       /\ toLoad[a] = 0 \/ toLoad[a] = cuts[a] + 1

\* What the cuts cover is behind the reader once the
\* replay has ended.
CutsInv ==
    /\ DOMAIN cuts = Assets /\ DOMAIN toLoad = Assets
    /\ Inventoried => \A a \in Assets : CutRight(a)
    /\ pc \in {"replay", "finish"} \cup Up => \A a \in Assets : toLoad[a] = 0
    /\ AtWork /\ pc # "replay" => resumeAt # NoPosition /\ \A a \in Assets : cuts[a] < Pos

\* The assets whose books the process is asked for.
Wanted == IF Follow THEN Assets ELSE Setup.tokens

WantedInv ==
    /\ active \subseteq Wanted
    /\ pc \in {"sync", "activate"} => Follow

\* How far the reader is in the rows f to l.
Upto(l) == IF Pos < l THEN Pos ELSE l

\* What waits of a snapshot are rows that the reader went past, in their order.
RowsRight(a) ==
    pending[a] # NoPending =>
        \E f, l \in DOMAIN Script :
            /\ GroupRun(Script, a, pending[a].key, f, l)
            /\ f <= Pos
            /\ pending[a].rows \in Seq(Range(pending[a].rows))
            /\ Len(pending[a].rows) <= Upto(l) - f + 1
            /\ Len(pending[a].rows) = Upto(l) - f + 1 =>
                  \A k \in 1 .. Upto(l) - f + 1 : pending[a].rows[k] = Script[f + k - 1].row

RowsInv == \A a \in Assets : RowsRight(a)

\* No row of a's snapshot in f to l is missing, and no record after the row before was left out.
Complete(a, f, l) ==
    /\ GroupRun(Script, a, pending[a].key, f, l)
    /\ Len(pending[a].rows) = Upto(l) - f + 1
    /\ lost < Upto(l)

\* A snapshot that waits though the log has gone on, waits because what ended it was
\* skipped before a cut; its book is the one the log has.
WaitsRight(a) ==
    pending[a] # NoPending =>
        \A f, l \in DOMAIN Script : Complete(a, f, l) =>
            /\ cuts[a] < Upto(l)
            /\ l < Pos => /\ \E b \in Assets : Pos <= cuts[b]
                          /\ ~RowsAt(Script, a, Pos)
                          /\ HasBase(Script, a, Pos)
                          /\ LogBook(a, Pos) = Snapshot(GroupRows(pending[a].key)).book

WaitingInv == AtWork => \A a \in Wanted : WaitsRight(a)

\* The record up to which the book of a stands for the log.
Stands(a) == IF Pos <= cuts[a] THEN cuts[a] + 1 ELSE Pos

\* The book of a is the log's.
Current(a) ==
    /\ Stands(a) \in DOMAIN Script /\ HasBase(Script, a, Stands(a))
    /\ book[a] = LogBook(a, Stands(a))
    /\ ~RowsAt(Script, a, Stands(a))

\* The rows that wait are all there are, and meanwhile the book is the log's.
Replaced(a) ==
    \A f, l \in DOMAIN Script : GroupRun(Script, a, pending[a].key, f, l) =>
        /\ Complete(a, f, l)
        /\ Pos <= l => HasBase(Script, a, Pos) /\ book[a] = LogBook(a, Pos)

\* A sound book is the log's, but for a snapshot that is whole and waits.
SoundRight(a) ==
    sound[a] => ready[a] /\ IF pending[a] = NoPending THEN Current(a) ELSE Replaced(a)

SoundInv == AtWork => \A a \in Wanted : SoundRight(a)

\* While checkpoints are loaded, a sound book is the one of its checkpoint.
LoadedInv ==
    /\ pc \in {"inventory", "load"} => DOMAIN sound = Assets
    /\ pc = "inventory" => \A a \in Assets : ~sound[a]
    /\ pc = "load" => \A a \in {b \in Assets : sound[b]} :
        /\ ready[a] /\ pending[a] = NoPending /\ cuts[a] # NoCut /\ toLoad[a] = 0
        /\ book[a] = LogBook(a, cuts[a] + 1)

PlacesInv == ReaderInv /\ HandoffInv /\ CutsInv /\ WantedInv

BooksInv == RowsInv /\ WaitingInv /\ SoundInv /\ LoadedInv

ServedInv == PlacesInv /\ BooksInv

\* Segments follow one another.
LEMMA Segments ==
    ASSUME NEW s \in Nat, NEW t \in Nat
    PROVE  /\ s * PerSeg \in Nat /\ (s + 1) * PerSeg = s * PerSeg + PerSeg
           /\ s < t => s * PerSeg + PerSeg <= t * PerSeg
           /\ s <= t => s * PerSeg <= t * PerSeg
<1>1. PerSeg \in Nat \ {0}
  BY LogTailAssumption
<1>2. s * PerSeg \in Nat /\ (s + 1) * PerSeg = s * PerSeg + PerSeg
  BY <1>1
<1>3. ASSUME s < t PROVE s * PerSeg + PerSeg <= t * PerSeg
  <2>1. PICK d \in Nat : t = s + 1 + d
    <3>1. t - s - 1 \in Nat /\ t = s + 1 + (t - s - 1)
      BY <1>3
    <3>2. QED  BY <3>1
  <2>2. t * PerSeg = s * PerSeg + PerSeg + d * PerSeg /\ d * PerSeg \in Nat
    BY <1>1, <2>1
  <2>3. QED  BY <1>1, <1>2, <2>2
<1>4. QED  BY <1>1, <1>2, <1>3

\* The writer's segment has its last record, or is the first.
LEMMA LastSegFacts ==
    ASSUME NEW w \in Nat
    PROVE  LET q == IF w = 0 THEN 0 ELSE (w - 1) \div PerSeg
           IN  /\ q \in Nat /\ (w = 0 => q = 0)
               /\ w # 0 => q * PerSeg < w
               /\ w <= q * PerSeg + PerSeg
<1>1. PerSeg \in Nat \ {0}
  BY LogTailAssumption
<1>2. CASE w = 0
  BY <1>1, <1>2
<1>3. CASE w # 0
  <2>. DEFINE q == (w - 1) \div PerSeg
  <2>1. w - 1 \in Nat
    BY <1>3
  <2>2. q \in Nat /\ w - 1 = PerSeg * q + ((w - 1) % PerSeg)
    BY <1>1, <2>1
  <2>3. (w - 1) % PerSeg \in 0 .. PerSeg - 1
    BY <1>1, <2>1
  <2>. HIDE DEF q
  <2>4. PerSeg * q = q * PerSeg /\ q * PerSeg \in Nat
    BY <1>1, <2>2
  <2>5. w - 1 = q * PerSeg + ((w - 1) % PerSeg)
    BY <2>2, <2>4
  <2>6. QED  BY <1>1, <1>3, <2>2, <2>3, <2>4, <2>5 DEF q
<1>4. QED  BY <1>2, <1>3

\* A place in the log, in numbers.
LEMMA Places ==
    ASSUME written \in Nat
    PROVE  /\ LastSeg \in Nat /\ LastSeg * PerSeg <= written /\ written <= LastSeg * PerSeg + PerSeg
           /\ \A p : IsPlace(p) => /\ p.seg \in Nat /\ p.off \in Nat /\ p.seg * PerSeg \in Nat
                                   /\ Global(p) \in Nat /\ Global(p) = p.seg * PerSeg + p.off
           /\ \A s \in 0 .. LastSeg : IsPlace([seg |-> s, off |-> 0])
           /\ PerSeg \in Nat \ {0}
<1>1. PerSeg \in Nat \ {0}
  BY LogTailAssumption
<1>2. LastSeg \in Nat /\ LastSeg * PerSeg <= written /\ written <= LastSeg * PerSeg + PerSeg
  <2>1. LastSeg \in Nat /\ (written = 0 => LastSeg = 0)
        /\ (written # 0 => LastSeg * PerSeg < written) /\ written <= LastSeg * PerSeg + PerSeg
    BY LastSegFacts DEF LastSeg
  <2>2. LastSeg * PerSeg \in Nat
    BY <2>1, Segments
  <2>3. written = 0 => LastSeg * PerSeg = 0
    BY <1>1, <2>1
  <2>4. QED  BY <2>1, <2>2, <2>3
<1>3. ASSUME NEW p, IsPlace(p)
      PROVE  /\ p.seg \in Nat /\ p.off \in Nat /\ p.seg * PerSeg \in Nat
             /\ Global(p) \in Nat /\ Global(p) = p.seg * PerSeg + p.off
  <2>1. p.seg \in Nat /\ p.off \in Nat
    BY <1>1, <1>2, <1>3 DEF IsPlace
  <2>2. p.seg * PerSeg \in Nat
    BY <2>1, Segments
  <2>3. QED  BY <2>1, <2>2 DEF Global
<1>4. ASSUME NEW s \in 0 .. LastSeg PROVE IsPlace([seg |-> s, off |-> 0])
  <2>1. s \in Nat /\ s * PerSeg \in Nat /\ s * PerSeg <= LastSeg * PerSeg
    BY <1>2, Segments
  <2>2. LastSeg * PerSeg \in Nat
    BY <1>2, Segments
  <2>3. s * PerSeg + 0 <= written
    BY <1>2, <2>1, <2>2
  <2>4. QED  BY <1>1, <2>3 DEF IsPlace, Global
<1>5. QED  BY <1>1, <1>2, <1>3, <1>4

\* What a load finds of a segment: nothing, or what the log has of it.
LEMMA Loads ==
    ASSUME written \in Nat, first \in Nat, NEW s \in 0 .. LastSeg
    PROVE  /\ InSegment(s) \in 0 .. PerSeg /\ s * PerSeg + InSegment(s) <= written
           /\ Load(s) = NotLoaded \/ Load(s) = InSegment(s)
           /\ Load(s) = NotLoaded => s < first
           /\ s = LastSeg => s * PerSeg + InSegment(s) = written
<1>1. /\ LastSeg \in Nat /\ LastSeg * PerSeg <= written /\ written <= LastSeg * PerSeg + PerSeg
      /\ PerSeg \in Nat
  BY Places
<1>2. s \in Nat /\ s * PerSeg \in Nat /\ s * PerSeg <= LastSeg * PerSeg /\ LastSeg * PerSeg \in Nat
      /\ (s + 1) * PerSeg = s * PerSeg + PerSeg
  BY <1>1, Segments
<1>3. InSegment(s) = IF written < s * PerSeg + PerSeg THEN written - s * PerSeg ELSE PerSeg
  BY <1>2 DEF InSegment
<1>4. InSegment(s) \in 0 .. PerSeg /\ s * PerSeg + InSegment(s) <= written
  BY <1>1, <1>2, <1>3
<1>5. s = LastSeg => s * PerSeg + InSegment(s) = written
  BY <1>1, <1>2, <1>3
<1>6. /\ Load(s) = NotLoaded \/ Load(s) = InSegment(s)
      /\ Load(s) = NotLoaded => s < first
  BY <1>1, <1>4 DEF Load, Exists, NotLoaded
<1>7. QED  BY <1>4, <1>5, <1>6

\* A reader that is opened at a place of the log stays within it.
LEMMA Opened ==
    ASSUME written \in Nat, first \in Nat, NEW p, IsPlace(p)
    PROVE  LET r == ReaderAt(p)
           IN  /\ DOMAIN r = {"seg", "off", "have", "earliest"}
               /\ IsPlace(r) /\ r.earliest = first /\ Global(r) = Global(p)
               /\ r.have # NotLoaded => r.have \in 0 .. PerSeg /\ r.seg * PerSeg + r.have <= written
<1>1. p.seg \in 0 .. LastSeg
  BY DEF IsPlace
<1>. DEFINE r == ReaderAt(p)
<1>2. r.seg = p.seg /\ r.off = p.off /\ r.have = Load(p.seg) /\ r.earliest = first
      /\ DOMAIN r = {"seg", "off", "have", "earliest"}
  BY DEF ReaderAt
<1>. HIDE DEF r
<1>3. IsPlace(r) /\ Global(r) = Global(p)
  BY <1>2 DEF IsPlace, Global
<1>4. r.have # NotLoaded => r.have \in 0 .. PerSeg /\ r.seg * PerSeg + r.have <= written
  BY <1>1, <1>2, Loads
<1>5. QED  BY <1>2, <1>3, <1>4 DEF r

\* The largest of some numbers.
LEMMA MaxIs ==
    ASSUME NEW S \in SUBSET Int, NEW x \in S, \A y \in S : y <= x
    PROVE  MaxOf(S) = x
<1>1. MaxOf(S) \in S /\ \A y \in S : y <= MaxOf(S)
  BY DEF MaxOf
<1>2. MaxOf(S) <= x /\ x <= MaxOf(S) /\ MaxOf(S) \in Int /\ x \in Int
  BY <1>1
<1>3. QED  BY <1>2

\* What was left out last.
LEMMA LostLast ==
    ASSUME NEW n \in Nat, NEW S \in SUBSET (1 .. n), n \in S \/ S = {}, lost \in 0 .. n, Lose(S)
    PROVE  /\ lost' = IF S = {} THEN lost ELSE n
           /\ lost' \in 0 .. n
           /\ \A a \in Assets : sound'[a] => sound[a] /\ (S # {} => n <= cuts[a])
<1>1. lost' = MaxOf({lost} \cup S)
  BY DEF Lose
<1>2. CASE n \in S
  <2>. DEFINE T == {lost} \cup S
  <2>1. T \in SUBSET Int /\ n \in T /\ \A y \in T : y <= n
    BY <1>2
  <2>. HIDE DEF T
  <2>2. MaxOf(T) = n
    BY <2>1, MaxIs
  <2>3. lost' = n
    BY <1>1, <2>2 DEF T
  <2>4. S # {}
    BY <1>2
  <2>5. \A a \in Assets : sound'[a] => sound[a] /\ n <= cuts[a]
    BY <1>2 DEF Lose
  <2>6. lost' \in 0 .. n
    BY <2>3
  <2>7. QED  BY <2>3, <2>4, <2>5, <2>6, Zenon
<1>3. CASE S = {}
  <2>1. {lost} \cup S = {lost}
    BY <1>3
  <2>2. {lost} \in SUBSET Int /\ lost \in {lost} /\ \A y \in {lost} : y <= lost
    OBVIOUS
  <2>3. MaxOf({lost}) = lost
    BY <2>2, MaxIs
  <2>4. QED  BY <1>1, <1>3, <2>1, <2>3 DEF Lose
<1>4. QED  BY <1>2, <1>3

\* What makes a reader right.
IsReader(r) ==
    /\ DOMAIN r = {"seg", "off", "have", "earliest"}
    /\ IsPlace(r) /\ r.earliest \in 0 .. first
    /\ r.have # NotLoaded => r.have \in 0 .. PerSeg /\ r.seg * PerSeg + r.have <= written

\* Steps that leave the log alone.
LEMMA ReaderStays ==
    ASSUME ReaderInv, UNCHANGED << written, first, stored, profile >>,
           IsReader(rd'), committed' = NoPosition \/ IsPlace(committed'),
           resumeAt' = NoPosition \/ IsPlace(resumeAt'), lost' \in 0 .. Global(rd')
    PROVE  ReaderInv'
<1>1. LastSeg' = LastSeg /\ Script' = Script
  BY DEF LastSeg, Script, Setup
<1>2. Pos' = Global(rd')
  BY DEF Pos, Global
<1>3. IsPlace(rd)' /\ (committed = NoPosition \/ IsPlace(committed))'
      /\ (resumeAt = NoPosition \/ IsPlace(resumeAt))'
  BY <1>1 DEF IsReader, IsPlace, Global
<1>4. QED  BY <1>1, <1>2, <1>3 DEF ReaderInv, IsReader

\* What the invariant says of a reader, in numbers.
LEMMA ReaderFacts ==
    ASSUME ReaderInv
    PROVE  /\ written \in Nat /\ first \in Nat /\ first <= LastSeg /\ LastSeg \in Nat
           /\ IsReader(rd) /\ Pos \in Nat /\ Pos <= written /\ lost \in 0 .. Pos
           /\ rd.seg \in 0 .. LastSeg /\ rd.off \in 0 .. PerSeg /\ rd.seg * PerSeg \in Nat
           /\ Pos = rd.seg * PerSeg + rd.off /\ PerSeg \in Nat \ {0} /\ first * PerSeg \in Nat
           /\ first * PerSeg <= written
<1>1. written \in Nat /\ IsReader(rd) /\ IsPlace(rd) /\ lost \in 0 .. Pos
  BY DEF ReaderInv, IsReader
<1>2. LastSeg \in Nat /\ PerSeg \in Nat \ {0} /\ LastSeg * PerSeg <= written
  BY <1>1, Places
<1>3. first \in Nat /\ first <= LastSeg
  BY <1>2 DEF ReaderInv
<1>4. first * PerSeg \in Nat /\ first * PerSeg <= LastSeg * PerSeg /\ LastSeg * PerSeg \in Nat
  BY <1>2, <1>3, Segments
<1>5. rd.seg \in 0 .. LastSeg /\ rd.off \in 0 .. PerSeg /\ rd.seg * PerSeg \in Nat
      /\ Pos = rd.seg * PerSeg + rd.off /\ Pos \in Nat /\ Pos <= written
  BY <1>1, Places DEF IsPlace, Pos
<1>6. first * PerSeg <= written
  BY <1>1, <1>2, <1>4
<1>7. QED  BY <1>1, <1>2, <1>3, <1>4, <1>5, <1>6

\* The log of the profile that is tried is one of a feed.
LEMMA ScriptFacts ==
    ASSUME LogsAreOfAFeed, profile \in DOMAIN Profiles
    PROVE  /\ LogTyped(Script) /\ SnapshotsAreRuns(Script) /\ BooksGrow(Script)
           /\ CheckpointsHold(Script)
           /\ Len(Script) \in Nat /\ DOMAIN Script = 1 .. Len(Script)
<1>1. /\ LogTyped(Script) /\ SnapshotsAreRuns(Script) /\ BooksGrow(Script)
      /\ CheckpointsHold(Script)
  BY DEF LogsAreOfAFeed, Script, Setup
<1>2. Script \in Seq(Range(Script))
  BY <1>1 DEF LogTyped
<1>3. Len(Script) \in Nat /\ DOMAIN Script = 1 .. Len(Script)
  BY <1>2, LenProperties
<1>4. QED  BY <1>1, <1>3

\* A record that is read is the next one of the log.
LEMMA Delivered ==
    ASSUME LogsAreOfAFeed, ReaderInv, HasRecord, Deliver
    PROVE  /\ Index = Pos + 1 /\ Index \in 1 .. written /\ Index \in DOMAIN Script
           /\ IsReader(rd') /\ Global(rd') = Pos + 1
<1>1. /\ rd.have \in 0 .. PerSeg /\ rd.off < rd.have /\ rd.seg * PerSeg + rd.have <= written
  BY ReaderFacts DEF HasRecord, NotLoaded, IsReader
<1>2. /\ rd'.seg = rd.seg /\ rd'.off = rd.off + 1 /\ rd'.have = rd.have /\ rd'.earliest = rd.earliest
      /\ DOMAIN rd' = {"seg", "off", "have", "earliest"}
  BY ReaderFacts DEF Deliver, IsReader
<1>3. Global(rd') = Pos + 1 /\ Pos + 1 <= written
  BY <1>1, <1>2, ReaderFacts DEF Global
<1>4. IsReader(rd')
  BY <1>1, <1>2, <1>3, ReaderFacts DEF IsReader, IsPlace
<1>5. Index = Pos + 1 /\ Index \in 1 .. written
  BY <1>3, ReaderFacts DEF Index, Pos
<1>6. DOMAIN Script = 1 .. Len(Script)
  BY ScriptFacts DEF ReaderInv
<1>7. QED  BY <1>3, <1>4, <1>5, <1>6 DEF ReaderInv

\* A move goes forward, and passes over what is left of the segment.
LEMMA Moved ==
    ASSUME ReaderInv, Move
    PROVE  /\ IsReader(rd') /\ Global(rd') \in Nat /\ Pos <= Global(rd')
           /\ PassedOver = Pos + 1 .. Global(rd')
<1>1. rd' = ReaderAt([seg |-> NextSeg, off |-> 0]) /\ MovesTo
  BY DEF Move
<1>2. NextSeg \in 0 .. LastSeg /\ rd.seg < NextSeg
  <2>1. CASE rd.have # NotLoaded /\ rd.seg + 1 > first
    BY <1>1, <2>1, ReaderFacts DEF NextSeg, MovesTo
  <2>2. CASE rd.have # NotLoaded /\ ~(rd.seg + 1 > first)
    BY <2>2, ReaderFacts DEF NextSeg
  <2>3. CASE rd.have = NotLoaded
    BY <1>1, <2>3, ReaderFacts DEF NextSeg, MovesTo
  <2>4. QED  BY <2>1, <2>2, <2>3
<1>. DEFINE p == [seg |-> NextSeg, off |-> 0]
<1>3. IsPlace(p) /\ p.seg = NextSeg /\ p.off = 0
  BY <1>2, ReaderFacts, Places
<1>. HIDE DEF p
<1>4. NextSeg \in Nat /\ NextSeg * PerSeg \in Nat /\ rd.seg * PerSeg + PerSeg <= NextSeg * PerSeg
  <2>1. NextSeg \in Nat /\ rd.seg \in Nat /\ rd.seg < NextSeg
    BY <1>2, ReaderFacts
  <2>2. NextSeg * PerSeg \in Nat
    BY <2>1, Segments
  <2>3. rd.seg * PerSeg + PerSeg <= NextSeg * PerSeg
    BY <2>1, Segments
  <2>4. QED  BY <2>1, <2>2, <2>3
<1>5. Global(p) = NextSeg * PerSeg
  BY <1>3, <1>4 DEF Global
<1>6. rd' = ReaderAt(p)
  BY <1>1 DEF p
<1>7. IsReader(rd') /\ Global(rd') = NextSeg * PerSeg
  <2>1. first \in 0 .. first /\ written \in Nat /\ first \in Nat
    BY ReaderFacts
  <2>2. QED  BY <1>3, <1>5, <1>6, <2>1, Opened DEF IsReader
<1>8. Pos <= NextSeg * PerSeg
  BY <1>4, ReaderFacts
<1>9. PassedOver = Pos + 1 .. Global(rd')
  BY <1>7 DEF PassedOver, Pos
<1>10. QED  BY <1>4, <1>7, <1>8, <1>9

\* A move passes over the records up to where it stops, or over none.
LEMMA Passed ==
    ASSUME ReaderInv, Move
    PROVE  /\ PassedOver \in SUBSET (1 .. Global(rd'))
           /\ Global(rd') \in PassedOver \/ PassedOver = {}
           /\ PassedOver = {} => Global(rd') = Pos
<1>1. /\ Global(rd') \in Nat /\ Pos \in Nat /\ Pos <= Global(rd')
      /\ PassedOver = Pos + 1 .. Global(rd')
  BY Moved, ReaderFacts
<1>2. QED  BY <1>1

\* What the writer added meanwhile is there to read.
LEMMA Grown ==
    ASSUME ReaderInv, Grow
    PROVE  IsReader(rd') /\ Global(rd') = Pos
<1>1. /\ rd'.seg = rd.seg /\ rd'.off = rd.off /\ rd'.have = Load(rd.seg) /\ rd'.earliest = first
      /\ DOMAIN rd' = {"seg", "off", "have", "earliest"}
  BY ReaderFacts DEF Grow, IsReader
<1>2. Global(rd') = Pos
  BY <1>1, ReaderFacts DEF Global
<1>3. rd'.have # NotLoaded => rd'.have \in 0 .. PerSeg /\ rd'.seg * PerSeg + rd'.have <= written
  BY <1>1, ReaderFacts, Loads
<1>4. QED  BY <1>1, <1>2, <1>3, ReaderFacts DEF IsReader, IsPlace

\* Where next returns nothing, the reader has gone past all records.
LEMMA Ended ==
    ASSUME ReaderInv, AtEnd
    PROVE  IsReader(rd') /\ Global(rd') = Pos /\ Pos = written
<1>1. /\ rd'.seg = rd.seg /\ rd'.off = rd.off /\ rd'.have = rd.have /\ rd'.earliest = first
      /\ DOMAIN rd' = {"seg", "off", "have", "earliest"}
  BY ReaderFacts DEF AtEnd, IsReader
<1>2. Global(rd') = Pos
  BY <1>1, ReaderFacts DEF Global
<1>3. ~HasRecord /\ ~MovesTo /\ Load(rd.seg) <= rd.have
  BY DEF AtEnd
<1>4. /\ InSegment(rd.seg) \in 0 .. PerSeg /\ rd.seg * PerSeg + InSegment(rd.seg) <= written
      /\ Load(rd.seg) = NotLoaded \/ Load(rd.seg) = InSegment(rd.seg)
      /\ Load(rd.seg) = NotLoaded => rd.seg < first
      /\ rd.seg = LastSeg => rd.seg * PerSeg + InSegment(rd.seg) = written
  BY ReaderFacts, Loads
<1>5. rd.have # NotLoaded
  BY <1>3, <1>4, ReaderFacts DEF MovesTo, NotLoaded
<1>6. rd.seg = LastSeg /\ rd.have <= rd.off /\ rd.have \in 0 .. PerSeg
  BY <1>3, <1>5, ReaderFacts DEF MovesTo, HasRecord, IsReader
<1>7. Load(rd.seg) = InSegment(rd.seg)
  BY <1>4, <1>6, ReaderFacts
<1>8. Pos = written
  BY <1>3, <1>4, <1>6, <1>7, ReaderFacts
<1>9. QED  BY <1>1, <1>2, <1>8, ReaderFacts DEF IsReader, IsPlace

\* The earliest segment is in the log, and so is what the reader has of it.
LEMMA OpenedEarliest ==
    ASSUME ReaderInv
    PROVE  /\ IsPlace([seg |-> first, off |-> 0])
           /\ Global([seg |-> first, off |-> 0]) = first * PerSeg
           /\ IsReader(ReaderAtEarliest) /\ Global(ReaderAtEarliest) = first * PerSeg
<1>. DEFINE p == [seg |-> first, off |-> 0]
<1>1. IsPlace(p) /\ p.seg = first /\ p.off = 0
  BY ReaderFacts, Places
<1>. HIDE DEF p
<1>2. Global(p) = first * PerSeg
  BY <1>1, ReaderFacts DEF Global
<1>3. ReaderAtEarliest = ReaderAt(p)
  BY DEF ReaderAtEarliest, p
<1>4. IsReader(ReaderAtEarliest) /\ Global(ReaderAtEarliest) = first * PerSeg
  <2>1. first \in 0 .. first /\ written \in Nat /\ first \in Nat
    BY ReaderFacts
  <2>2. QED  BY <1>1, <1>2, <1>3, <2>1, Opened DEF IsReader
<1>5. QED  BY <1>1, <1>2, <1>4 DEF p

\* Where the tail opens: where the hydration ended, or no earlier than anything was read.
LEMMA TailOpens ==
    ASSUME ReaderInv, HandoffInv, pc = "open"
    PROVE  /\ IsPlace(TailPosition) /\ Global(TailPosition) \in Nat
           /\ Pos <= Global(TailPosition)
           /\ resumeAt # NoPosition => Global(TailPosition) = Pos
<1>1. ToOpen
  BY DEF ToOpen, HandoffInv
<1>2. CASE resumeAt # NoPosition
  <2>1. TailPosition = resumeAt
    BY <1>2 DEF TailPosition
  <2>2. Global(resumeAt) = Pos /\ IsPlace(resumeAt)
    BY <1>1, <1>2 DEF HandoffInv, ReaderInv
  <2>3. QED  BY <1>2, <2>1, <2>2, ReaderFacts
<1>3. CASE resumeAt = NoPosition /\ committed # NoPosition
  <2>1. TailPosition = committed
    BY <1>3 DEF TailPosition
  <2>2. IsPlace(committed) /\ Global(committed) \in Nat
    BY <1>3, ReaderFacts, Places DEF ReaderInv
  <2>3. Pos # 0 => Global(committed) = Pos
    BY <1>1, <1>3 DEF HandoffInv, NoPlaceYet
  <2>4. QED  BY <1>3, <2>1, <2>2, <2>3, ReaderFacts
<1>4. CASE resumeAt = NoPosition /\ committed = NoPosition
  <2>1. TailPosition = [seg |-> first, off |-> 0]
    BY <1>4 DEF TailPosition
  <2>2. IsPlace(TailPosition) /\ Global(TailPosition) = first * PerSeg
    BY <2>1, OpenedEarliest
  <2>3. Pos = 0
    BY <1>1, <1>4 DEF HandoffInv, NoPlaceYet
  <2>4. QED  BY <1>4, <2>2, <2>3, ReaderFacts
<1>5. QED  BY <1>2, <1>3, <1>4

\* The position of a reader is a place.
LEMMA PlaceOfReader ==
    ASSUME NEW r, IsReader(r)
    PROVE  IsPlace([seg |-> r.seg, off |-> r.off])
           /\ Global([seg |-> r.seg, off |-> r.off]) = Global(r)
BY DEF IsReader, IsPlace, Global

\* The ingest process and the hydration keep the reader right.
LEMMA HydrationKeepsReader ==
    ASSUME LogsAreOfAFeed, ReaderInv, HandoffInv,
           \/ Start \/ BeginHydration \/ ReadCheckpoints \/ (\E a \in Assets : LoadCheckpoint(a))
           \/ OpenReplay \/ ReplaySkip \/ ReplayApply \/ ReplayMove \/ ReplayEnd \/ FinishHydration
    PROVE  ReaderInv'
<1>. USE DEF bounds, logVars, ghosts, hydrationVars
<1>0. /\ IsReader(rd) /\ Global(rd) = Pos /\ lost \in 0 .. Global(rd)
      /\ committed = NoPosition \/ IsPlace(committed)
      /\ resumeAt = NoPosition \/ IsPlace(resumeAt)
  BY ReaderFacts DEF ReaderInv, Pos
<1>1. CASE Start
  BY <1>0, <1>1, ReaderStays DEF Start
<1>2. CASE BeginHydration
  BY <1>0, <1>2, ReaderStays DEF BeginHydration
<1>3. CASE ReadCheckpoints
  BY <1>0, <1>3, ReaderStays DEF ReadCheckpoints
<1>4. CASE \E a \in Assets : LoadCheckpoint(a)
  <2>1. UNCHANGED << written, first, committed, stored, profile, rd, lost, resumeAt >>
    BY <1>4 DEF LoadCheckpoint
  <2>2. QED  BY <1>0, <2>1, ReaderStays
<1>5. CASE OpenReplay
  <2>1. UNCHANGED << written, first, committed, stored, profile, resumeAt >>
    BY <1>5 DEF OpenReplay
  <2>2. CASE rd' = ReaderAtEarliest /\ Lose(1 .. first * PerSeg)
    <3>1. IsReader(rd') /\ Global(rd') = first * PerSeg
      BY <2>2, OpenedEarliest
    <3>2. lost \in 0 .. first * PerSeg
      BY <1>5, ReaderFacts DEF OpenReplay, HandoffInv, NoPlaceYet
    <3>3. lost' \in 0 .. first * PerSeg
      <4>. DEFINE n == first * PerSeg
      <4>1. n \in Nat
        BY ReaderFacts
      <4>. HIDE DEF n
      <4>2. n \in 1 .. n \/ 1 .. n = {}
        BY <4>1
      <4>3. lost \in 0 .. n /\ Lose(1 .. n) /\ 1 .. n \in SUBSET (1 .. n)
        BY <2>2, <3>2 DEF n
      <4>4. lost' \in 0 .. n
        BY <4>1, <4>2, <4>3, LostLast
      <4>5. QED  BY <4>4 DEF n
    <3>4. QED  BY <1>0, <2>1, <3>1, <3>3, ReaderStays
  <2>3. CASE UNCHANGED << rd, lost >>
    BY <1>0, <2>1, <2>3, ReaderStays
  <2>4. QED  BY <1>5, <2>2, <2>3 DEF OpenReplay
<1>6. CASE ReplaySkip \/ ReplayApply
  <2>1. HasRecord /\ Deliver
    BY <1>6 DEF ReplaySkip, ReplayApply
  <2>2. UNCHANGED << written, first, committed, stored, profile, resumeAt, lost >>
    BY <1>6 DEF ReplaySkip, ReplayApply, ApplyLogged
  <2>3. IsReader(rd') /\ Global(rd') = Pos + 1
    BY <2>1, Delivered
  <2>4. lost \in 0 .. Pos + 1
    BY ReaderFacts
  <2>5. QED  BY <1>0, <2>2, <2>3, <2>4, ReaderStays
<1>7. CASE ReplayMove
  <2>1. UNCHANGED << written, first, committed, stored, profile, resumeAt >>
    BY <1>7 DEF ReplayMove
  <2>2. CASE Move /\ Lose(PassedOver)
    <3>1. IsReader(rd') /\ Global(rd') \in Nat /\ Pos <= Global(rd')
      BY <2>2, Moved
    <3>2. lost \in 0 .. Global(rd')
      BY <3>1, ReaderFacts
    <3>3. lost' \in 0 .. Global(rd')
      BY <2>2, <3>1, <3>2, Passed, LostLast
    <3>4. QED  BY <1>0, <2>1, <3>1, <3>3, ReaderStays
  <2>3. CASE Grow /\ UNCHANGED ghosts
    BY <1>0, <2>1, <2>3, Grown, ReaderStays
  <2>4. QED  BY <1>7, <2>2, <2>3 DEF ReplayMove
<1>8. CASE ReplayEnd
  <2>1. /\ UNCHANGED << written, first, committed, stored, profile, lost >>
        /\ resumeAt' = [seg |-> rd.seg, off |-> rd.off]
        /\ AtEnd \/ UNCHANGED rd
    BY <1>8 DEF ReplayEnd
  <2>2. IsReader(rd') /\ Global(rd') = Pos
    BY <1>0, <2>1, Ended
  <2>3. IsPlace(resumeAt')
    BY <1>0, <2>1, PlaceOfReader
  <2>4. QED  BY <1>0, <2>1, <2>2, <2>3, ReaderStays
<1>9. CASE FinishHydration
  BY <1>0, <1>9, ReaderStays DEF FinishHydration
<1>10. QED
  BY <1>1, <1>2, <1>3, <1>4, <1>5, <1>6, <1>7, <1>8, <1>9

\* The tailer keeps it right.
LEMMA TailKeepsReader ==
    ASSUME LogsAreOfAFeed, ReaderInv, HandoffInv,
           \/ SyncNothing \/ SyncChannels \/ SyncBooks
           \/ OpenTail \/ OpenTailFails \/ TailResync \/ TailApply \/ TailSkips \/ ProjectorDies
           \/ TailMove \/ TailIdle
    PROVE  ReaderInv'
<1>. USE DEF bounds, logVars, ghosts, hydrationVars
<1>0. /\ IsReader(rd) /\ Global(rd) = Pos /\ lost \in 0 .. Global(rd)
      /\ committed = NoPosition \/ IsPlace(committed)
      /\ resumeAt = NoPosition \/ IsPlace(resumeAt)
  BY ReaderFacts DEF ReaderInv, Pos
<1>1. CASE SyncNothing
  BY <1>0, <1>1, ReaderStays DEF SyncNothing
<1>2. CASE SyncChannels
  BY <1>0, <1>2, ReaderStays DEF SyncChannels
<1>3. CASE SyncBooks
  BY <1>0, <1>3, ReaderStays DEF SyncBooks
<1>4. CASE OpenTail
  <2>1. /\ UNCHANGED << written, first, committed, stored, profile, resumeAt >>
        /\ rd' = ReaderAt(TailPosition) /\ pc = "open"
        /\ lost' = lost \/ lost' = MaxOf({lost, Global(TailPosition)})
    BY <1>4 DEF OpenTail
  <2>2. IsPlace(TailPosition) /\ Global(TailPosition) \in Nat /\ Pos <= Global(TailPosition)
    BY <2>1, TailOpens
  <2>3. IsReader(rd') /\ Global(rd') = Global(TailPosition)
    <3>1. first \in 0 .. first /\ written \in Nat /\ first \in Nat
      BY ReaderFacts
    <3>2. QED  BY <2>1, <2>2, <3>1, Opened DEF IsReader
  <2>4. lost \in 0 .. Global(TailPosition)
    BY <2>2, ReaderFacts
  <2>5. MaxOf({lost, Global(TailPosition)}) = Global(TailPosition)
    <3>1. {lost, Global(TailPosition)} \in SUBSET Int
      BY <2>2, <2>4
    <3>2. \A y \in {lost, Global(TailPosition)} : y <= Global(TailPosition)
      BY <2>2, <2>4
    <3>3. QED  BY <3>1, <3>2, MaxIs
  <2>6. lost' \in 0 .. Global(rd')
    BY <2>1, <2>2, <2>3, <2>4, <2>5
  <2>7. QED  BY <1>0, <2>1, <2>3, <2>6, ReaderStays
<1>5. CASE OpenTailFails
  BY <1>0, <1>5, ReaderStays DEF OpenTailFails
<1>6. CASE TailResync
  <2>1. /\ UNCHANGED << written, first, stored, profile, resumeAt, rd, lost >>
        /\ committed' = [seg |-> rd.seg, off |-> rd.off]
    BY <1>6 DEF TailResync, CommitPosition
  <2>2. QED  BY <1>0, <2>1, PlaceOfReader, ReaderStays
<1>7. CASE TailApply
  <2>1. HasRecord /\ Deliver
    BY <1>7 DEF TailApply
  <2>2. UNCHANGED << written, first, committed, stored, profile, resumeAt, lost >>
    BY <1>7 DEF TailApply, ApplyLogged
  <2>3. IsReader(rd') /\ Global(rd') = Pos + 1 /\ lost \in 0 .. Pos + 1
    BY <2>1, Delivered, ReaderFacts
  <2>4. QED  BY <1>0, <2>2, <2>3, ReaderStays
<1>8. CASE TailSkips
  <2>1. HasRecord /\ Deliver /\ Lose({Index})
    BY <1>8 DEF TailSkips
  <2>2. UNCHANGED << written, first, committed, stored, profile, resumeAt >>
    BY <1>8 DEF TailSkips
  <2>3. IsReader(rd') /\ Global(rd') = Pos + 1 /\ Index = Pos + 1
    BY <2>1, Delivered
  <2>4. lost' \in 0 .. Pos + 1
    <3>. DEFINE n == Pos + 1
    <3>1. n \in Nat /\ {n} \in SUBSET (1 .. n) /\ n \in {n} /\ lost \in 0 .. n
      BY ReaderFacts
    <3>2. Lose({n})
      BY <2>1, <2>3
    <3>. HIDE DEF n
    <3>3. lost' \in 0 .. n
      BY <3>1, <3>2, LostLast
    <3>4. QED  BY <3>3 DEF n
  <2>5. QED  BY <1>0, <2>2, <2>3, <2>4, ReaderStays
<1>9. CASE ProjectorDies
  <2>1. /\ HasRecord /\ Deliver
        /\ committed' = [seg |-> rd'.seg, off |-> rd'.off]
        /\ UNCHANGED << written, first, stored, profile, resumeAt, lost >>
    BY <1>9 DEF ProjectorDies
  <2>2. IsReader(rd') /\ Global(rd') = Pos + 1 /\ lost \in 0 .. Pos + 1
    BY <2>1, Delivered, ReaderFacts
  <2>3. IsPlace(committed')
    BY <2>1, <2>2, PlaceOfReader
  <2>4. QED  BY <1>0, <2>1, <2>2, <2>3, ReaderStays
<1>10. CASE TailMove
  <2>1. UNCHANGED << written, first, committed, stored, profile, resumeAt >>
    BY <1>10 DEF TailMove
  <2>2. CASE Move /\ Lose(PassedOver)
    <3>1. IsReader(rd') /\ Global(rd') \in Nat /\ Pos <= Global(rd')
      BY <2>2, Moved
    <3>2. lost \in 0 .. Global(rd')
      BY <3>1, ReaderFacts
    <3>3. lost' \in 0 .. Global(rd')
      BY <2>2, <3>1, <3>2, Passed, LostLast
    <3>4. QED  BY <1>0, <2>1, <3>1, <3>3, ReaderStays
  <2>3. CASE Grow /\ UNCHANGED ghosts
    BY <1>0, <2>1, <2>3, Grown, ReaderStays
  <2>4. QED  BY <1>10, <2>2, <2>3 DEF TailMove
<1>11. CASE TailIdle
  <2>1. /\ UNCHANGED << written, first, stored, profile, resumeAt, lost >>
        /\ AtEnd
        /\ committed' = [seg |-> rd.seg, off |-> rd.off] \/ committed' = committed
    BY <1>11 DEF TailIdle, CommitPosition
  <2>2. IsReader(rd') /\ Global(rd') = Pos
    BY <2>1, Ended
  <2>3. QED  BY <1>0, <2>1, <2>2, PlaceOfReader, ReaderStays
<1>12. QED
  BY <1>1, <1>2, <1>3, <1>4, <1>5, <1>6, <1>7, <1>8, <1>9, <1>10, <1>11

\* The log grows and loses segments, and no reader notices; a process that ends has none.
LEMMA OthersKeepReader ==
    ASSUME LogsAreOfAFeed, ReaderInv,
           AppendLog \/ Prune \/ FlushParquet \/ Stop \/ UNCHANGED vars
    PROVE  ReaderInv'
<1>. USE DEF processVars, bounds, logVars, ghosts, hydrationVars
<1>0. /\ IsReader(rd) /\ Global(rd) = Pos /\ lost \in 0 .. Global(rd)
      /\ committed = NoPosition \/ IsPlace(committed)
      /\ resumeAt = NoPosition \/ IsPlace(resumeAt)
  BY ReaderFacts DEF ReaderInv, Pos
<1>1. CASE AppendLog
  <2>1. /\ written' = written + 1 /\ written < Len(Script)
        /\ UNCHANGED << first, committed, stored, profile, rd, resumeAt, lost >>
    BY <1>1 DEF AppendLog
  <2>2. LastSeg \in Nat /\ LastSeg * PerSeg <= written /\ PerSeg \in Nat \ {0} /\ written \in Nat
    BY ReaderFacts, Places
  <2>3. LastSeg' \in Nat /\ written' <= LastSeg' * PerSeg + PerSeg
    <3>1. written' \in Nat
      BY <2>1, <2>2
    <3>2. LastSeg' = IF written' = 0 THEN 0 ELSE (written' - 1) \div PerSeg
      BY DEF LastSeg
    <3>3. QED  BY <3>1, <3>2, LastSegFacts
  <2>4. LastSeg <= LastSeg'
    <3>1. SUFFICES ASSUME LastSeg' < LastSeg PROVE FALSE
      BY <2>2, <2>3
    <3>2. LastSeg' * PerSeg + PerSeg <= LastSeg * PerSeg
      BY <2>2, <2>3, <3>1, Segments
    <3>3. PICK x \in Nat, y \in Nat : x = LastSeg' * PerSeg /\ y = LastSeg * PerSeg
      BY <2>2, <2>3, Segments
    <3>4. written' <= x + PerSeg /\ x + PerSeg <= y /\ y <= written
      BY <2>2, <2>3, <3>2, <3>3
    <3>5. QED  BY <2>1, <2>2, <3>4
  <2>5. \A p : IsPlace(p) => IsPlace(p)'
    <3>1. ASSUME NEW p, IsPlace(p) PROVE p.seg \in 0 .. LastSeg' /\ p.off \in 0 .. PerSeg
                                          /\ Global(p) <= written'
      BY <2>1, <2>2, <2>3, <2>4, <3>1, Places DEF IsPlace
    <3>2. QED  BY <3>1 DEF IsPlace, Global
  <2>6. first \in 0 .. LastSeg'
    BY <2>2, <2>3, <2>4, ReaderFacts
  <2>7. written' \in 0 .. Len(Script') /\ stored' \in 0 .. written' /\ Script' = Script
    <3>1. Script' = Script /\ Len(Script) \in Nat
      BY <2>1, ScriptFacts DEF Script, Setup, ReaderInv
    <3>2. QED  BY <2>1, <2>2, <3>1 DEF ReaderInv
  <2>8. rd.have # NotLoaded => rd.have \in 0 .. PerSeg /\ rd.seg * PerSeg + rd.have <= written'
    BY <1>0, <2>1, <2>2, ReaderFacts DEF IsReader
  <2>9. IsPlace(rd)' /\ (committed = NoPosition \/ IsPlace(committed))'
        /\ (resumeAt = NoPosition \/ IsPlace(resumeAt))'
    <3>1. IsPlace(rd)
      BY <1>0 DEF IsReader
    <3>2. QED  BY <1>0, <2>1, <2>5, <3>1 DEF IsPlace, Global
  <2>10. Pos' = Pos
    BY <2>1 DEF Pos, Global
  <2>11. QED  BY <2>1, <2>6, <2>7, <2>8, <2>9, <2>10 DEF ReaderInv
<1>2. CASE Prune
  <2>1. /\ UNCHANGED << written, committed, stored, profile, rd, resumeAt, lost >>
        /\ first < first' /\ first' <= LastSeg /\ first' \in Nat
    <3>1. PICK s \in 1 .. LastSeg : PruneTo(s)
      BY <1>2 DEF Prune
    <3>2. QED  BY <1>2, <3>1, ReaderFacts DEF Prune, PruneTo
  <2>2. LastSeg' = LastSeg /\ Script' = Script /\ Pos' = Pos
    BY <2>1 DEF LastSeg, Script, Setup, Pos, Global
  <2>4. IsPlace(rd)' /\ (committed = NoPosition \/ IsPlace(committed))'
        /\ (resumeAt = NoPosition \/ IsPlace(resumeAt))'
    BY <1>0, <2>1, <2>2 DEF IsReader, IsPlace, Global
  <2>5. first' \in 0 .. LastSeg' /\ rd.earliest \in 0 .. first'
    BY <1>0, <2>1, <2>2, ReaderFacts DEF IsReader
  <2>6. QED  BY <2>1, <2>2, <2>4, <2>5 DEF ReaderInv
<1>3. CASE FlushParquet
  <2>1. UNCHANGED << written, first, committed, profile, rd, resumeAt, lost >> /\ stored' = written
    BY <1>3 DEF FlushParquet
  <2>2. LastSeg' = LastSeg /\ Script' = Script /\ Pos' = Pos
    BY <2>1 DEF LastSeg, Script, Setup, Pos, Global
  <2>3. IsPlace(rd)' /\ (committed = NoPosition \/ IsPlace(committed))'
        /\ (resumeAt = NoPosition \/ IsPlace(resumeAt))'
    BY <1>0, <2>1, <2>2 DEF IsReader, IsPlace, Global
  <2>4. stored' \in 0 .. written'
    BY <2>1, ReaderFacts
  <2>5. QED  BY <2>1, <2>2, <2>3, <2>4 DEF ReaderInv
<1>4. CASE Stop
  <2>1. /\ UNCHANGED << written, first, stored, profile >>
        /\ committed' = [seg |-> rd.seg, off |-> rd.off] \/ committed' = committed
        /\ rd' = NoReader /\ resumeAt' = NoPosition /\ lost' = 0
    BY <1>4 DEF Stop, ProcessGone, CommitPosition
  <2>2. IsReader(rd') /\ Global(rd') = 0
    <3>1. rd' = [seg |-> 0, off |-> 0, have |-> NotLoaded, earliest |-> 0]
      BY <2>1 DEF NoReader
    <3>2. Global(rd') = 0 /\ LastSeg \in Nat /\ PerSeg \in Nat /\ written \in Nat /\ first \in Nat
      BY <3>1, ReaderFacts DEF Global
    <3>3. QED  BY <3>1, <3>2 DEF IsReader, IsPlace
  <2>3. lost' \in 0 .. Global(rd')
    BY <2>1, <2>2
  <2>4. QED  BY <1>0, <2>1, <2>2, <2>3, PlaceOfReader, ReaderStays
<1>5. CASE UNCHANGED vars
  <2>1. UNCHANGED << written, first, committed, stored, profile, rd, resumeAt, lost >>
    BY <1>5 DEF vars
  <2>2. QED  BY <1>0, <2>1, ReaderStays
<1>6. QED  BY <1>1, <1>2, <1>3, <1>4, <1>5

\* The steps that move no reader.
LEMMA PosSame == ASSUME rd' = rd PROVE Pos' = Pos
BY DEF Pos, Global

\* A hydration goes from where a reader was to the earliest segment, and on from there.
LEMMA HydrationHandsOff ==
    ASSUME FlagsInv, ReaderInv, HandoffInv,
           \/ Start \/ BeginHydration \/ ReadCheckpoints \/ (\E a \in Assets : LoadCheckpoint(a))
           \/ OpenReplay \/ ReplaySkip \/ ReplayApply \/ ReplayMove \/ ReplayEnd \/ FinishHydration
    PROVE  HandoffInv'
<1>. USE DEF bounds, logVars, flags, hydrationVars, ToOpen, NoPlaceYet
<1>1. CASE Start
  <2>1. /\ pc = "down" /\ pc' = "hydrate" /\ UNCHANGED << rd, first, committed, resumeAt, after >>
    BY <1>1 DEF Start
  <2>2. Pos' = Pos /\ Pos = 0 /\ first * PerSeg \in Nat
    BY <2>1, PosSame, ReaderFacts DEF HandoffInv
  <2>3. QED  BY <2>1, <2>2 DEF HandoffInv
<1>2. CASE BeginHydration
  <2>1. /\ pc = "hydrate" /\ pc' = "inventory" /\ UNCHANGED << rd, first, committed, after >>
        /\ resumeAt' = NoPosition
    BY <1>2 DEF BeginHydration
  <2>2. QED  BY <2>1, PosSame DEF HandoffInv
<1>3. CASE ReadCheckpoints
  <2>1. /\ pc = "inventory" /\ pc' = "load" /\ UNCHANGED << rd, first, committed, resumeAt, after >>
    BY <1>3 DEF ReadCheckpoints
  <2>2. QED  BY <2>1, PosSame DEF HandoffInv
<1>4. CASE \E a \in Assets : LoadCheckpoint(a)
  <2>1. /\ pc = "load" /\ pc' = "load" /\ UNCHANGED << rd, first, committed, resumeAt, after >>
    BY <1>4 DEF LoadCheckpoint
  <2>2. QED  BY <2>1, PosSame DEF HandoffInv
<1>5. CASE OpenReplay
  <2>1. /\ pc = "load" /\ UNCHANGED << first, committed, resumeAt, after >>
        /\ pc' = "replay" \/ (pc' = "finish" /\ rd' = rd)
    BY <1>5 DEF OpenReplay
  <2>2. CASE pc' = "replay"
    BY <2>1, <2>2 DEF HandoffInv
  <2>3. CASE pc' = "finish" /\ rd' = rd
    BY <2>1, <2>3, PosSame DEF HandoffInv
  <2>4. QED  BY <2>1, <2>2, <2>3
<1>6. CASE ReplaySkip \/ ReplayApply \/ ReplayMove
  <2>1. pc = "replay" /\ pc' = "replay" /\ UNCHANGED << resumeAt, after >>
    BY <1>6 DEF ReplaySkip, ReplayApply, ReplayMove
  <2>2. QED  BY <2>1 DEF HandoffInv
<1>7. CASE ReplayEnd
  <2>1. /\ pc = "replay" /\ pc' = "finish" /\ UNCHANGED << first, committed, after >>
        /\ resumeAt' = [seg |-> rd.seg, off |-> rd.off] /\ (AtEnd \/ rd' = rd)
    BY <1>7 DEF ReplayEnd
  <2>2. Pos' = Pos
    BY <2>1, Ended, PosSame DEF Pos, Global
  <2>3. Global(resumeAt') = Pos /\ resumeAt' # NoPosition
    <3>1. Global([seg |-> rd.seg, off |-> rd.off]) = Pos
      BY ReaderFacts, PlaceOfReader DEF Pos
    <3>2. [seg |-> rd.seg, off |-> rd.off].seg # NoPosition.seg
      BY ReaderFacts DEF NoPosition
    <3>3. QED  BY <2>1, <3>1, <3>2
  <2>4. Global(resumeAt)' = Global(resumeAt')
    BY DEF Global
  <2>5. QED  BY <2>1, <2>2, <2>3, <2>4 DEF HandoffInv
<1>8. CASE FinishHydration
  <2>1. /\ pc = "finish" /\ pc' \in {"sync", "open"} /\ after' = "open"
        /\ UNCHANGED << rd, first, committed, resumeAt >>
    BY <1>8 DEF FinishHydration
  <2>2. QED  BY <2>1, PosSame DEF HandoffInv, Global
<1>9. QED
  BY <1>1, <1>2, <1>3, <1>4, <1>5, <1>6, <1>7, <1>8

\* A tailer whose position was pruned is before the earliest segment.
LEMMA PrunedPosition ==
    ASSUME ReaderInv, NeedsResync
    PROVE  Pos <= first * PerSeg
<1>1. rd.seg < first /\ rd.seg \in Nat /\ first \in Nat
  BY ReaderFacts DEF NeedsResync, IsReader
<1>2. rd.seg * PerSeg + PerSeg <= first * PerSeg
  BY <1>1, Segments
<1>3. QED  BY <1>2, ReaderFacts

\* The tail commits where it is before it gives up its position.
LEMMA TailHandsOff ==
    ASSUME FlagsInv, ReaderInv, HandoffInv,
           \/ SyncNothing \/ SyncChannels \/ SyncBooks
           \/ OpenTail \/ OpenTailFails \/ TailResync \/ TailApply \/ TailSkips \/ ProjectorDies
           \/ TailMove \/ TailIdle
    PROVE  HandoffInv'
<1>. USE DEF bounds, logVars, flags, hydrationVars, ToOpen, NoPlaceYet
<1>1. CASE SyncNothing \/ SyncChannels \/ SyncBooks
  <2>1. /\ pc \in {"sync", "activate"} /\ pc' \in {"activate", after} /\ pc' # "down"
        /\ UNCHANGED << rd, first, committed, resumeAt, after >> /\ after \in {"open", "tail"}
    BY <1>1 DEF SyncNothing, SyncChannels, SyncBooks, FlagsInv
  <2>2. QED  BY <2>1, PosSame DEF HandoffInv, Global
<1>2. CASE OpenTail \/ TailApply \/ TailSkips \/ ProjectorDies \/ TailMove \/ TailIdle
  <2>1. CASE pc' \in {"tail", "next", "stopped"}
    BY <2>1 DEF HandoffInv
  <2>2. CASE pc' = "sync" /\ after' = "tail"
    BY <2>2 DEF HandoffInv
  <2>3. pc' \in {"tail", "next", "stopped"} \/ (pc' = "sync" /\ after' = "tail")
    BY <1>2 DEF OpenTail, TailApply, TailSkips, ProjectorDies, TailMove, TailIdle
  <2>4. QED  BY <2>1, <2>2, <2>3
<1>3. CASE OpenTailFails
  <2>1. UNCHANGED << rd, pc, first, committed, resumeAt, after >> /\ pc = "open"
    BY <1>3 DEF OpenTailFails
  <2>2. QED  BY <2>1, PosSame DEF HandoffInv, Global
<1>4. CASE TailResync
  <2>1. /\ pc' = "hydrate" /\ UNCHANGED << rd, first >> /\ NeedsResync
        /\ committed' = [seg |-> rd.seg, off |-> rd.off]
    BY <1>4 DEF TailResync, CommitPosition
  <2>2. Global(committed') = Pos /\ committed' # NoPosition
    <3>1. Global([seg |-> rd.seg, off |-> rd.off]) = Pos
      BY ReaderFacts, PlaceOfReader DEF Pos
    <3>2. [seg |-> rd.seg, off |-> rd.off].seg # NoPosition.seg
      BY ReaderFacts DEF NoPosition
    <3>3. QED  BY <2>1, <3>1, <3>2
  <2>3. Global(committed)' = Global(committed') /\ Pos' = Pos
    BY <2>1, PosSame DEF Global
  <2>4. QED  BY <2>1, <2>2, <2>3, PrunedPosition DEF HandoffInv
<1>5. QED  BY <1>1, <1>2, <1>3, <1>4

\* What is pruned only moves the earliest segment on.
LEMMA OthersHandOff ==
    ASSUME FlagsInv, ReaderInv, HandoffInv,
           AppendLog \/ Prune \/ FlushParquet \/ Stop \/ UNCHANGED vars
    PROVE  HandoffInv'
<1>. USE DEF processVars, bounds, logVars, hydrationVars, lvars, ToOpen, NoPlaceYet
<1>1. CASE AppendLog \/ FlushParquet \/ UNCHANGED vars
  <2>1. UNCHANGED << rd, pc, first, committed, resumeAt, after, pending >>
    BY <1>1 DEF AppendLog, FlushParquet, vars
  <2>2. QED  BY <2>1, PosSame DEF HandoffInv, Global
<1>2. CASE Prune
  <2>1. UNCHANGED << rd, pc, committed, resumeAt, after, pending >>
    BY <1>2 DEF Prune
  <2>2. first * PerSeg <= first' * PerSeg /\ first' * PerSeg \in Nat
    <3>1. PICK s \in 1 .. LastSeg : PruneTo(s)
      BY <1>2 DEF Prune
    <3>2. first' \in Nat /\ first \in Nat /\ first <= first'
      BY <3>1, ReaderFacts DEF PruneTo
    <3>3. QED  BY <3>2, Segments
  <2>3. NoPlaceYet => Pos <= first' * PerSeg
    BY <2>2, ReaderFacts DEF HandoffInv
  <2>4. Pos' = Pos /\ Global(committed)' = Global(committed) /\ Global(resumeAt)' = Global(resumeAt)
    BY <2>1, PosSame DEF Global
  <2>5. QED  BY <2>1, <2>3, <2>4 DEF HandoffInv
<1>3. CASE Stop
  <2>1. pc' = "down" /\ rd' = NoReader /\ pending' = [a \in Assets |-> NoPending]
    BY <1>3 DEF Stop, ProcessGone
  <2>2. Pos' = 0
    BY <2>1, ReaderFacts DEF Pos, Global, NoReader
  <2>3. QED  BY <2>1, <2>2 DEF HandoffInv
<1>4. QED  BY <1>1, <1>2, <1>3

\* Some records have a last one.
LEMMA HasLast ==
    ASSUME NEW n \in Nat, NEW S \in SUBSET (1 .. n), S # {}
    PROVE  \E i \in S : \A j \in S : j <= i
<1>. DEFINE R == OpToRel(<, Nat)
            T == {n - i : i \in S}
<1>1. T \in SUBSET Nat /\ T # {}
  <2>1. \A i \in S : n - i \in Nat
    OBVIOUS
  <2>2. T \in SUBSET Nat
    BY <2>1
  <2>3. T # {}
    OBVIOUS
  <2>4. QED  BY <2>2, <2>3
<1>2. PICK m \in T : \A k \in T : ~(<< k, m >> \in R)
  BY <1>1, NatLessThanWellFounded, WFMin, Zenon
<1>3. \A k \in T : << k, m >> \in R <=> k < m
  BY <1>1 DEF OpToRel
<1>. HIDE DEF R
<1>4. \A k \in T : ~(k < m)
  BY <1>2, <1>3
<1>5. PICK i \in S : m = n - i
  OBVIOUS
<1>6. ASSUME NEW j \in S PROVE j <= i
  <2>1. n - j \in T
    OBVIOUS
  <2>2. ~(n - j < n - i)
    BY <1>4, <1>5, <2>1
  <2>3. i \in Nat /\ j \in Nat
    OBVIOUS
  <2>4. QED  BY <2>2, <2>3
<1>7. QED  BY <1>6

\* The checkpoint a hydration starts from is a stored one.
LEMMA LatestStored ==
    ASSUME ReaderInv, NEW a
    PROVE  Latest(a) = 0 \/ (Latest(a) \in 1 .. stored /\ Script[Latest(a)].kind = "checkpoint"
                             /\ Script[Latest(a)].asset = a)
<1>1. stored \in Nat /\ StoredOf(a) \in SUBSET (1 .. stored)
  BY ReaderFacts DEF ReaderInv, StoredOf
<1>2. CASE StoredOf(a) = {} \/ a \in Setup.backfilled
  BY <1>2 DEF Latest
<1>3. CASE ~(StoredOf(a) = {} \/ a \in Setup.backfilled)
  <2>1. \E i \in StoredOf(a) : \A j \in StoredOf(a) : j <= i
    BY <1>1, <1>3, HasLast
  <2>2. Latest(a) \in StoredOf(a)
    BY <1>3, <2>1 DEF Latest
  <2>3. QED  BY <2>2 DEF StoredOf
<1>4. QED  BY <1>2, <1>3

\* A cut that is behind what is stored is behind a reader that has read all there is.
LEMMA CutsBehind ==
    ASSUME ReaderInv, NEW a, CutRight(a)
    PROVE  cuts[a] < written
<1>1. written \in Nat /\ Pos \in Nat /\ Pos <= written
  BY ReaderFacts
<1>2. stored \in 0 .. written
  BY DEF ReaderInv
<1>3. CASE cuts[a] = NoCut
  BY <1>1, <1>3 DEF NoCut
<1>4. CASE cuts[a] \in 0 .. stored - 1
  BY <1>1, <1>2, <1>4
<1>5. QED  BY <1>3, <1>4 DEF CutRight

\* Steps that leave the cuts alone.
LEMMA CutsStay ==
    ASSUME CutsInv, UNCHANGED << cuts, toLoad, profile, stored >>, Inventoried' => Inventoried,
           pc' \in {"replay", "finish"} \cup Up => \A a \in Assets : toLoad[a] = 0,
           AtWork' /\ pc' # "replay" => resumeAt' # NoPosition /\ \A a \in Assets : cuts[a] < Pos'
    PROVE  CutsInv'
<1>1. Script' = Script /\ Setup' = Setup
  BY DEF Script, Setup
<1>2. ASSUME Inventoried', NEW a \in Assets PROVE CutRight(a)'
  <2>1. CutRight(a)
    BY <1>2 DEF CutsInv, CutRight, Inventoried
  <2>2. QED  BY <1>1, <2>1 DEF CutRight
<1>3. QED  BY <1>2 DEF CutsInv, CutRight, Inventoried

\* A hydration takes the cuts from the store, and they are behind its replay in the end.
LEMMA HydrationKeepsCuts ==
    ASSUME LogsAreOfAFeed, FlagsInv, ReaderInv, HandoffInv, CutsInv, ReaderInv',
           \/ Start \/ BeginHydration \/ ReadCheckpoints \/ (\E a \in Assets : LoadCheckpoint(a))
           \/ OpenReplay \/ ReplaySkip \/ ReplayApply \/ ReplayMove \/ ReplayEnd \/ FinishHydration
    PROVE  CutsInv'
<1>. USE DEF bounds, flags, hydrationVars, Up, Inventoried, AtWork
<1>1. CASE Start
  <2>1. pc' = "hydrate" /\ UNCHANGED << cuts, toLoad >>
    BY <1>1 DEF Start
  <2>2. QED  BY <2>1 DEF CutsInv
<1>2. CASE BeginHydration
  <2>1. pc' = "inventory" /\ cuts' = [a \in Assets |-> NoCut] /\ toLoad' = [a \in Assets |-> 0]
    BY <1>2 DEF BeginHydration
  <2>2. \A a \in Assets : CutRight(a)'
    BY <2>1 DEF CutRight
  <2>3. QED  BY <2>1, <2>2 DEF CutsInv
<1>3. CASE ReadCheckpoints
  <2>1. pc = "inventory" /\ pc' = "load" /\ UNCHANGED << profile, stored >>
    BY <1>3 DEF ReadCheckpoints
  <2>2. Script' = Script /\ Setup' = Setup
    BY <2>1 DEF Script, Setup
  <2>3. CASE UNCHANGED << cuts, toLoad >>
    <3>1. ASSUME NEW a \in Assets PROVE CutRight(a)'
      <4>1. CutRight(a)
        BY <2>1 DEF CutsInv
      <4>2. QED  BY <2>1, <2>2, <2>3, <4>1 DEF CutRight
    <3>2. QED  BY <2>1, <2>3, <3>1 DEF CutsInv
  <2>4. CASE /\ toLoad' = [a \in Assets |-> IF a \in Setup.tokens THEN Latest(a) ELSE 0]
             /\ cuts' = [a \in Assets |-> IF toLoad'[a] = 0 THEN NoCut ELSE CutOf(toLoad'[a])]
    <3>1. ASSUME NEW a \in Assets PROVE CutRight(a)'
      <4>1. CASE toLoad'[a] = 0
        BY <2>4, <4>1 DEF CutRight
      <4>2. CASE toLoad'[a] # 0
        <5>1. a \in Setup.tokens /\ toLoad'[a] = Latest(a) /\ Latest(a) # 0
          BY <2>4, <4>2
        <5>2. PICK i : i = Latest(a)
          OBVIOUS
        <5>3. i \in 1 .. stored /\ Script[i].kind = "checkpoint" /\ Script[i].asset = a
          BY <5>1, <5>2, LatestStored
        <5>4. cuts'[a] = i - 1
          BY <2>4, <4>2, <5>1, <5>2 DEF CutOf
        <5>5. stored \in Nat /\ cuts'[a] \in 0 .. stored - 1 /\ cuts'[a] + 1 = i
          BY <5>3, <5>4, ReaderFacts DEF ReaderInv
        <5>6. QED  BY <2>1, <2>2, <5>1, <5>2, <5>3, <5>5 DEF CutRight
      <4>3. QED  BY <4>1, <4>2
    <3>2. QED  BY <2>1, <2>4, <3>1 DEF CutsInv
  <2>5. QED  BY <1>3, <2>3, <2>4 DEF ReadCheckpoints
<1>4. CASE \E a \in Assets : LoadCheckpoint(a)
  <2>1. PICK x \in Assets : LoadCheckpoint(x)
    BY <1>4
  <2>2. /\ pc = "load" /\ pc' = "load" /\ UNCHANGED << cuts, profile, stored >>
        /\ toLoad' = [toLoad EXCEPT ![x] = 0]
    BY <2>1 DEF LoadCheckpoint
  <2>3. Script' = Script /\ Setup' = Setup
    BY <2>2 DEF Script, Setup
  <2>4. ASSUME NEW a \in Assets PROVE CutRight(a)'
    <3>1. CutRight(a)
      BY <2>2 DEF CutsInv
    <3>2. toLoad'[a] = 0 \/ toLoad'[a] = toLoad[a]
      BY <2>2 DEF CutsInv
    <3>3. QED  BY <2>2, <2>3, <3>1, <3>2 DEF CutRight
  <2>5. QED  BY <2>2, <2>4 DEF CutsInv
<1>5. CASE OpenReplay
  <2>1. /\ pc = "load" /\ UNCHANGED << cuts, toLoad, profile, stored >> /\ ToLoad = {}
        /\ pc' = "replay" \/ (pc' = "finish" /\ ~recovered')
    BY <1>5 DEF OpenReplay
  <2>2. \A a \in Assets : toLoad[a] = 0
    BY <2>1 DEF ToLoad
  <2>3. QED  BY <2>1, <2>2, CutsStay
<1>6. CASE ReplaySkip \/ ReplayApply \/ ReplayMove
  <2>1. pc = "replay" /\ pc' = "replay" /\ UNCHANGED << cuts, toLoad, profile, stored >>
    BY <1>6 DEF ReplaySkip, ReplayApply, ReplayMove
  <2>2. QED  BY <2>1, CutsStay DEF CutsInv
<1>7. CASE ReplayEnd
  <2>1. /\ pc = "replay" /\ pc' = "finish" /\ UNCHANGED << cuts, toLoad, profile, stored, written >>
        /\ resumeAt' = [seg |-> rd.seg, off |-> rd.off]
        /\ AtEnd \/ ~recovered'
    BY <1>7 DEF ReplayEnd, logVars
  <2>2. resumeAt' # NoPosition
    <3>1. [seg |-> rd.seg, off |-> rd.off].seg # NoPosition.seg
      BY ReaderFacts DEF NoPosition
    <3>2. QED  BY <2>1, <3>1
  <2>3. ASSUME AtEnd PROVE \A a \in Assets : cuts[a] < Pos'
    <3>1. Pos' = written
      BY <2>3, Ended DEF Pos, Global
    <3>2. \A a \in Assets : CutRight(a)
      BY <2>1 DEF CutsInv
    <3>3. QED  BY <3>1, <3>2, CutsBehind
  <2>4. \A a \in Assets : toLoad[a] = 0
    BY <2>1 DEF CutsInv
  <2>5. QED  BY <2>1, <2>2, <2>3, <2>4, CutsStay
<1>8. CASE FinishHydration
  <2>1. /\ pc = "finish" /\ pc' \in {"sync", "open"}
        /\ UNCHANGED << cuts, toLoad, profile, stored, rd, recovered, resumeAt >>
    BY <1>8 DEF FinishHydration
  <2>2. Pos' = Pos
    BY <2>1, PosSame
  <2>3. QED  BY <2>1, <2>2, CutsStay DEF CutsInv
<1>9. QED
  BY <1>1, <1>2, <1>3, <1>4, <1>5, <1>6, <1>7, <1>8

\* The tail goes on beyond the cuts.
LEMMA TailKeepsCuts ==
    ASSUME LogsAreOfAFeed, FlagsInv, ReaderInv, HandoffInv, CutsInv,
           \/ SyncNothing \/ SyncChannels \/ SyncBooks
           \/ OpenTail \/ OpenTailFails \/ TailResync \/ TailApply \/ TailSkips \/ ProjectorDies
           \/ TailMove \/ TailIdle
    PROVE  CutsInv'
<1>. USE DEF bounds, flags, hydrationVars, Up, Inventoried, AtWork, logVars
<1>1. UNCHANGED << cuts, toLoad, profile, stored, recovered, resumeAt >>
  BY DEF SyncNothing, SyncChannels, SyncBooks, OpenTail, OpenTailFails, TailResync, TailApply,
         TailSkips, ProjectorDies, TailMove, TailIdle
<1>2. CASE TailResync \/ ProjectorDies
  <2>1. pc' \in {"hydrate", "stopped"}
    BY <1>2 DEF TailResync, ProjectorDies
  <2>2. QED  BY <1>1, <2>1, CutsStay
<1>3. ASSUME pc \in Up, pc' \in Up, Pos <= Pos', Pos' \in Nat PROVE CutsInv'
  <2>1. \A a \in Assets : CutRight(a) /\ toLoad[a] = 0
    BY <1>3 DEF CutsInv
  <2>2. ASSUME AtWork' PROVE resumeAt' # NoPosition /\ \A a \in Assets : cuts[a] < Pos'
    <3>1. resumeAt # NoPosition /\ \A a \in Assets : cuts[a] < Pos
      BY <1>1, <1>3, <2>2 DEF CutsInv
    <3>2. \A a \in Assets : cuts[a] \in Int
      BY <2>1, ReaderFacts DEF CutRight, NoCut, ReaderInv
    <3>3. QED  BY <1>1, <1>3, <3>1, <3>2, ReaderFacts
  <2>3. QED  BY <1>1, <1>3, <2>1, <2>2, CutsStay
<1>4. CASE SyncNothing \/ SyncChannels \/ SyncBooks \/ OpenTailFails
  <2>1. pc \in Up /\ pc' \in Up /\ rd' = rd
    BY <1>4 DEF SyncNothing, SyncChannels, SyncBooks, OpenTailFails, FlagsInv
  <2>2. QED  BY <1>3, <2>1, PosSame, ReaderFacts
<1>5. CASE OpenTail
  <2>1. pc = "open" /\ pc' = "tail" /\ rd' = ReaderAt(TailPosition)
    BY <1>5 DEF OpenTail
  <2>2. Pos' = Global(TailPosition)
    BY <2>1 DEF ReaderAt, Pos, Global
  <2>3. QED  BY <1>3, <2>1, <2>2, TailOpens
<1>6. CASE TailApply \/ TailSkips
  <2>1. pc \in Up /\ pc' \in Up /\ HasRecord /\ Deliver
    BY <1>6 DEF TailApply, TailSkips, Polling
  <2>2. Pos' = Pos + 1
    BY <2>1, Delivered DEF Pos, Global
  <2>3. QED  BY <1>3, <2>1, <2>2, ReaderFacts
<1>7. CASE TailMove
  <2>1. pc \in Up /\ pc' \in Up /\ (Move \/ Grow)
    BY <1>7 DEF TailMove, Polling
  <2>2. Pos' \in Nat /\ Pos <= Pos'
    BY <2>1, Moved, Grown, ReaderFacts DEF Pos, Global
  <2>3. QED  BY <1>3, <2>1, <2>2
<1>8. CASE TailIdle
  <2>1. pc \in Up /\ pc' \in Up /\ AtEnd
    BY <1>8 DEF TailIdle, Polling
  <2>2. Pos' = Pos
    BY <2>1, Ended DEF Pos, Global
  <2>3. QED  BY <1>3, <2>1, <2>2, ReaderFacts
<1>9. QED  BY <1>2, <1>4, <1>5, <1>6, <1>7, <1>8

\* More is stored, and the cuts are where they were; a process that ends has none.
LEMMA OthersKeepCuts ==
    ASSUME FlagsInv, ReaderInv, CutsInv,
           AppendLog \/ Prune \/ FlushParquet \/ Stop \/ UNCHANGED vars
    PROVE  CutsInv'
<1>. USE DEF processVars, bounds, logVars, hydrationVars, Up, Inventoried, AtWork
<1>1. CASE AppendLog \/ Prune \/ UNCHANGED vars
  <2>1. UNCHANGED << cuts, toLoad, profile, stored, rd, pc, recovered, resumeAt >>
    BY <1>1 DEF AppendLog, Prune, vars
  <2>2. QED  BY <2>1, PosSame, CutsStay DEF CutsInv
<1>2. CASE FlushParquet
  <2>1. UNCHANGED << cuts, toLoad, profile, rd, pc, recovered, resumeAt >> /\ stored' = written
    BY <1>2 DEF FlushParquet
  <2>2. Script' = Script /\ Setup' = Setup /\ Pos' = Pos
    BY <2>1, PosSame DEF Script, Setup
  <2>3. ASSUME NEW a \in Assets, CutRight(a) PROVE CutRight(a)'
    <3>1. cuts[a] \in 0 .. stored - 1 => cuts[a] \in 0 .. written - 1
      BY ReaderFacts DEF ReaderInv
    <3>2. QED  BY <2>1, <2>2, <2>3, <3>1 DEF CutRight
  <2>4. QED  BY <2>1, <2>2, <2>3 DEF CutsInv
<1>3. CASE Stop
  <2>1. pc' = "down" /\ DOMAIN cuts' = Assets /\ DOMAIN toLoad' = Assets
    BY <1>3 DEF Stop, ProcessGone
  <2>2. QED  BY <2>1 DEF CutsInv
<1>4. QED  BY <1>1, <1>2, <1>3

\* The steps that leave it at what the process was asked for.
LEMMA WantedStays ==
    ASSUME WantedInv, profile' = profile,
           active' = active, pc' \in {"sync", "activate"} => Follow \/ pc \in {"sync", "activate"}
    PROVE  WantedInv'
BY DEF WantedInv, Wanted, Follow, Setup

\* The process serves the assets it was started with, or those it follows.
LEMMA HydrationKeepsWanted ==
    ASSUME ClientsInv, WantedInv,
           \/ Start \/ BeginHydration \/ ReadCheckpoints \/ (\E a \in Assets : LoadCheckpoint(a))
           \/ OpenReplay \/ ReplaySkip \/ ReplayApply \/ ReplayMove \/ ReplayEnd \/ FinishHydration
    PROVE  WantedInv'
<1>. USE DEF bounds, lvars
<1>1. CASE Start
  <2>1. active' = Setup.tokens /\ pc' = "hydrate" /\ profile' = profile
    BY <1>1 DEF Start
  <2>2. QED  BY <2>1 DEF WantedInv, Wanted, Follow, Setup
<1>2. CASE BeginHydration \/ ReadCheckpoints \/ OpenReplay \/ ReplaySkip \/ ReplayMove \/ ReplayEnd
  <2>1. /\ active' = active /\ profile' = profile
        /\ pc' \in {"inventory", "load", "replay", "finish"}
    BY <1>2 DEF BeginHydration, ReadCheckpoints, OpenReplay, ReplaySkip, ReplayMove, ReplayEnd
  <2>2. QED  BY <2>1, WantedStays
<1>3. CASE \E a \in Assets : LoadCheckpoint(a)
  <2>1. active' = active /\ profile' = profile /\ pc' = "load"
    BY <1>3 DEF LoadCheckpoint, HydrateCheckpoint
  <2>2. QED  BY <2>1, WantedStays
<1>4. CASE ReplayApply
  <2>1. PICK rec : ApplyRecord(rec)
    BY <1>4 DEF ReplayApply, ApplyLogged
  <2>2. profile' = profile /\ pc' = "replay"
    BY <1>4 DEF ReplayApply
  <2>3. active' = active
    BY <2>1, ApplyRecordKeepsReady DEF ClientsInv
  <2>4. QED  BY <2>2, <2>3, WantedStays
<1>5. CASE FinishHydration
  <2>1. active' = active /\ profile' = profile /\ (pc' = "sync" => Follow) /\ pc' \in {"sync", "open"}
    BY <1>5 DEF FinishHydration
  <2>2. QED  BY <2>1, WantedStays
<1>6. QED
  BY <1>1, <1>2, <1>3, <1>4, <1>5

\* The tail follows the assets it sees, if it was asked to follow.
LEMMA TailKeepsWanted ==
    ASSUME ClientsInv, WantedInv,
           \/ SyncNothing \/ SyncChannels \/ SyncBooks
           \/ OpenTail \/ OpenTailFails \/ TailResync \/ TailApply \/ TailSkips \/ ProjectorDies
           \/ TailMove \/ TailIdle
    PROVE  WantedInv'
<1>. USE DEF bounds, lvars
<1>1. CASE SyncNothing \/ SyncChannels
  <2>1. active' = active /\ profile' = profile /\ pc = "sync"
    BY <1>1 DEF SyncNothing, SyncChannels
  <2>2. QED  BY <2>1, WantedStays
<1>2. CASE SyncBooks
  <2>1. SetActive(followed) /\ profile' = profile /\ pc = "activate"
    BY <1>2 DEF SyncBooks
  <2>2. followed \subseteq Assets /\ Follow
    BY <2>1 DEF ClientsInv, ChannelsInv, WantedInv
  <2>3. active' \subseteq Assets /\ Follow'
    BY <2>1, <2>2 DEF SetActive, Follow, Setup
  <2>4. QED  BY <2>3 DEF WantedInv, Wanted
<1>3. CASE OpenTail \/ OpenTailFails \/ TailResync \/ TailSkips \/ ProjectorDies \/ TailMove
  <2>1. /\ active' = active /\ profile' = profile
        /\ pc' \in {"tail", "open", "hydrate", "stopped", "next"}
    BY <1>3 DEF OpenTail, OpenTailFails, TailResync, TailSkips, ProjectorDies, TailMove
  <2>2. QED  BY <2>1, WantedStays
<1>4. CASE TailApply
  <2>1. PICK rec : ApplyRecord(rec)
    BY <1>4 DEF TailApply, ApplyLogged
  <2>2. profile' = profile /\ (pc' = "sync" => Follow) /\ pc' \in {"sync", "tail"}
    BY <1>4 DEF TailApply, IsNew
  <2>3. active' = active
    BY <2>1, ApplyRecordKeepsReady DEF ClientsInv
  <2>4. QED  BY <2>2, <2>3, WantedStays
<1>5. CASE TailIdle
  <2>1. active' = active /\ profile' = profile /\ (pc' = "sync" => Follow) /\ pc' \in {"sync", "tail"}
    BY <1>5 DEF TailIdle
  <2>2. QED  BY <2>1, WantedStays
<1>6. QED
  BY <1>1, <1>2, <1>3, <1>4, <1>5

\* The other processes ask for nothing; a process that ends serves nothing.
LEMMA OthersKeepWanted ==
    ASSUME WantedInv, AppendLog \/ Prune \/ FlushParquet \/ Stop \/ UNCHANGED vars
    PROVE  WantedInv'
<1>. USE DEF processVars, bounds, lvars
<1>1. CASE AppendLog \/ Prune \/ FlushParquet \/ UNCHANGED vars
  <2>1. UNCHANGED << active, profile, pc >>
    BY <1>1 DEF AppendLog, Prune, FlushParquet, vars
  <2>2. QED  BY <2>1, WantedStays
<1>2. CASE Stop
  <2>1. active' = {} /\ pc' = "down"
    BY <1>2 DEF Stop, ProcessGone
  <2>2. QED  BY <2>1 DEF WantedInv
<1>3. QED  BY <1>1, <1>2

\* Nothing was read, stored or loaded at the start.
LEMMA PlacesInit ==
    ASSUME LogsAreOfAFeed, SInit
    PROVE  ReaderInv /\ HandoffInv /\ CutsInv /\ WantedInv
<1>1. /\ profile \in DOMAIN Profiles /\ written = 0 /\ first = 0 /\ committed = NoPosition
      /\ rd = [seg |-> 0, off |-> 0, have |-> NotLoaded, earliest |-> 0] /\ resumeAt = NoPosition
      /\ stored = 0 /\ lost = 0 /\ pc = "down" /\ after = "open" /\ active = {}
      /\ cuts = [a \in Assets |-> NoCut] /\ toLoad = [a \in Assets |-> 0]
      /\ pending = [a \in Assets |-> NoPending]
  BY DEF SInit, Init, LogInit, LiveInit, ProcessInit, NoReader
<1>2. PerSeg \in Nat \ {0}
  BY LogTailAssumption
<1>3. LastSeg = 0 /\ Pos = 0 /\ Global(rd) = 0
  BY <1>1, <1>2 DEF LastSeg, Pos, Global
<1>4. Len(Script) \in Nat
  BY <1>1, ScriptFacts
<1>5. IsPlace(rd)
  BY <1>1, <1>2, <1>3 DEF IsPlace
<1>6. ReaderInv
  BY <1>1, <1>3, <1>4, <1>5 DEF ReaderInv
<1>7. HandoffInv
  BY <1>1, <1>3 DEF HandoffInv, NoPlaceYet, ToOpen
<1>8. CutsInv
  BY <1>1 DEF CutsInv, Inventoried, AtWork, Up
<1>9. WantedInv
  BY <1>1 DEF WantedInv
<1>10. QED  BY <1>6, <1>7, <1>8, <1>9

-----------------------------------------------------------------------------
\* Record n as the projector gets it is the one of the log, but for a checkpoint's rows,
\* which are of the book the log has there.
LEMMA RecFacts ==
    ASSUME LogsAreOfAFeed, profile \in DOMAIN Profiles, NEW n \in DOMAIN Script
    PROVE  /\ Rec(n).kind = Script[n].kind /\ Rec(n).asset = Script[n].asset
           /\ Script[n].kind # "checkpoint" => Rec(n) = Script[n]
           /\ Script[n].kind = "checkpoint" => Rec(n).rows = RowsOf(LogBook(Script[n].asset, n))
<1>1. Script = Profiles[profile].script
  BY DEF Script, Setup
<1>2. Rec(n) = IF Script[n].kind = "checkpoint"
               THEN [Script[n] EXCEPT !.rows = RowsOf(LogBook(Script[n].asset, n))] ELSE Script[n]
  BY <1>1 DEF Rec, Logs, LogBook
<1>3. Script[n].kind = "checkpoint" => "rows" \in DOMAIN Script[n]
  BY ScriptFacts DEF LogTyped
<1>4. QED  BY <1>2, <1>3

\* The table of the books holds what BookAt says.
LEMMA LogBookIs ==
    ASSUME profile \in DOMAIN Profiles, NEW n \in DOMAIN Script, NEW a \in Assets
    PROVE  LogBook(a, n) = BookAt(Script, a, n)
<1>1. Script = Profiles[profile].script
  BY DEF Script, Setup
<1>2. QED  BY <1>1 DEF LogBook, Books

\* A row is of one run, and a key of one.
LEMMA OneRun ==
    ASSUME NEW log, DOMAIN log \in SUBSET Int, NEW a, NEW b, NEW key, NEW f, NEW l, NEW g, NEW m,
           GroupRun(log, a, key, f, l), GroupRun(log, b, key, g, m)
    PROVE  f = g /\ l = m /\ a = b
<1>1. /\ f \in Int /\ l \in Int /\ f <= l /\ g \in Int /\ m \in Int /\ g <= m
      /\ f \in DOMAIN log /\ l \in DOMAIN log /\ g \in DOMAIN log /\ m \in DOMAIN log
  BY DEF GroupRun
<1>2. \A i \in DOMAIN log : i \in f .. l <=> i \in g .. m
  BY DEF GroupRun
<1>3. f \in g .. m /\ l \in g .. m /\ g \in f .. l /\ m \in f .. l
  BY <1>1, <1>2
<1>4. f = g /\ l = m
  BY <1>1, <1>3
<1>5. log[f].asset = a /\ log[f].asset = b
  BY <1>1, <1>3 DEF GroupRun
<1>6. QED  BY <1>4, <1>5

\* A row that is read is in the run of its key.
LEMMA RunOf ==
    ASSUME LogsAreOfAFeed, profile \in DOMAIN Profiles, NEW n \in DOMAIN Script,
           Script[n].kind = "snapshot"
    PROVE  /\ \E f, l \in DOMAIN Script : GroupRun(Script, Script[n].asset, Script[n].key, f, l)
           /\ \A a, f, l : GroupRun(Script, a, Script[n].key, f, l) =>
                  a = Script[n].asset /\ n \in f .. l
           /\ Snapshot(GroupRows(Script[n].key)).ok
<1>1. /\ \E f, l \in DOMAIN Script : GroupRun(Script, Script[n].asset, Script[n].key, f, l)
      /\ Snapshot(GroupRows(Script[n].key)).ok
  BY ScriptFacts DEF SnapshotsAreRuns, GroupRows
<1>2. ASSUME NEW a, NEW f, NEW l, GroupRun(Script, a, Script[n].key, f, l)
      PROVE  a = Script[n].asset /\ n \in f .. l
  <2>1. n \in f .. l
    BY <1>2 DEF GroupRun
  <2>2. QED  BY <1>2, <2>1 DEF GroupRun
<1>3. QED  BY <1>1, <1>2

\* Only the last row of a run ends it.
LEMMA RunEnds ==
    ASSUME LogsAreOfAFeed, profile \in DOMAIN Profiles, NEW a, NEW key, NEW f, NEW l,
           GroupRun(Script, a, key, f, l), NEW n \in DOMAIN Script
    PROVE  /\ l < n => EndsSnapshot(Script, a, l, n) /\ Script[l].key = key
           /\ \A i \in f .. l : i # l => ~EndsSnapshot(Script, a, i, n)
           /\ \A i \in f .. l : RowsAt(Script, a, i)
           /\ RowsAt(Script, a, n) /\ Script[n].key = key <=> n \in f .. l
<1>1. Len(Script) \in Nat /\ DOMAIN Script = 1 .. Len(Script)
  BY ScriptFacts
<1>2. f \in 1 .. Len(Script) /\ l \in 1 .. Len(Script) /\ f <= l /\ n \in 1 .. Len(Script)
  BY <1>1 DEF GroupRun
<1>3. \A i \in f .. l : i \in DOMAIN Script
  BY <1>1, <1>2
<1>4. \A i \in f .. l : RowsAt(Script, a, i) /\ Script[i].key = key
  BY <1>3 DEF GroupRun, RowsAt
<1>5. \A i \in DOMAIN Script : RowsAt(Script, a, i) /\ Script[i].key = key <=> i \in f .. l
  BY <1>4 DEF GroupRun, RowsAt
<1>6. ASSUME l < n PROVE EndsSnapshot(Script, a, l, n) /\ Script[l].key = key
  <2>1. l \in f .. l /\ l + 1 \in DOMAIN Script /\ l + 1 \notin f .. l
    BY <1>1, <1>2, <1>6
  <2>2. RowsAt(Script, a, l) /\ Script[l].key = key
    BY <1>4, <2>1
  <2>3. ~(RowsAt(Script, a, l + 1) /\ Script[l + 1].key = key)
    BY <1>5, <2>1
  <2>4. QED  BY <1>6, <2>2, <2>3 DEF EndsSnapshot
<1>7. ASSUME NEW i \in f .. l, i # l PROVE ~EndsSnapshot(Script, a, i, n)
  <2>1. i + 1 \in f .. l
    BY <1>2, <1>7
  <2>2. RowsAt(Script, a, i + 1) /\ Script[i + 1].key = key /\ Script[i].key = key
    BY <1>4, <2>1
  <2>3. QED  BY <2>2 DEF EndsSnapshot
<1>8. QED  BY <1>4, <1>5, <1>6, <1>7

\* Record n takes the log's book of a from b to the next.
LogStep(a, n, b) ==
    /\ HasBase(Script, a, n)
    /\ IF Script[n].kind = "delta" /\ Script[n].asset = a
       THEN /\ DeltaFits(b, Script[n].row.level, Script[n].row.size)
            /\ LogBook(a, n) = SetLevel(b, Script[n].row.level, Script[n].row.size)
       ELSE LogBook(a, n) = b

\* What was a base stays one.
LEMMA BaseStays ==
    ASSUME NEW log, NEW a, NEW n \in Int, NEW m \in Int, n <= m, HasBase(log, a, n)
    PROVE  HasBase(log, a, m)
<1>1. PICK i \in 1 .. n : EndsSnapshot(log, a, i, n)
  BY DEF HasBase
<1>2. i \in 1 .. m /\ i < m
  BY <1>1 DEF EndsSnapshot
<1>3. EndsSnapshot(log, a, i, m)
  BY <1>1, <1>2 DEF EndsSnapshot
<1>4. QED  BY <1>2, <1>3 DEF HasBase

\* The record after a run makes the book of its rows.
LEMMA BookOfRun ==
    ASSUME LogsAreOfAFeed, profile \in DOMAIN Profiles, NEW a \in Assets, NEW key, NEW f, NEW l,
           GroupRun(Script, a, key, f, l), NEW n \in DOMAIN Script, n = l + 1
    PROVE  LogStep(a, n, Snapshot(GroupRows(key)).book)
<1>1. Len(Script) \in Nat /\ DOMAIN Script = 1 .. Len(Script) /\ BooksGrow(Script)
  BY ScriptFacts
<1>2. l \in DOMAIN Script /\ l \in Int /\ n \in Int /\ l < n /\ n - 1 = l
  BY <1>1 DEF GroupRun
<1>3. EndsSnapshot(Script, a, l, n) /\ Script[l].key = key
  BY <1>2, RunEnds
<1>4. HasBase(Script, a, n)
  <2>1. l \in 1 .. n
    BY <1>1, <1>2
  <2>2. QED  BY <1>3, <2>1 DEF HasBase
<1>5. EndsSnapshot(Script, a, n - 1, n) /\ Script[n - 1].key = key
  BY <1>2, <1>3
<1>6. LogBook(a, n) = BookAt(Script, a, n)
  BY LogBookIs
<1>. DEFINE b == IF EndsSnapshot(Script, a, n - 1, n)
                 THEN Snapshot(RowsOfKey(Script, Script[n - 1].key)).book
                 ELSE BookAt(Script, a, n - 1)
<1>7. b = Snapshot(GroupRows(key)).book
  BY <1>5 DEF GroupRows
<1>8. IF Script[n].kind = "delta" /\ Script[n].asset = a
      THEN /\ DeltaFits(b, Script[n].row.level, Script[n].row.size)
           /\ BookAt(Script, a, n) = SetLevel(b, Script[n].row.level, Script[n].row.size)
      ELSE BookAt(Script, a, n) = b
  BY <1>1, <1>4 DEF BooksGrow
<1>. HIDE DEF b
<1>9. QED  BY <1>4, <1>6, <1>7, <1>8 DEF LogStep

\* Any other record takes the book on from the one before.
LEMMA BookGoesOn ==
    ASSUME LogsAreOfAFeed, profile \in DOMAIN Profiles, NEW a \in Assets,
           NEW p \in DOMAIN Script, NEW n \in DOMAIN Script, n = p + 1, HasBase(Script, a, p),
           ~EndsSnapshot(Script, a, p, n)
    PROVE  LogStep(a, n, LogBook(a, p))
<1>1. Len(Script) \in Nat /\ DOMAIN Script = 1 .. Len(Script) /\ BooksGrow(Script)
  BY ScriptFacts
<1>2. p \in Int /\ n \in Int /\ p <= n /\ n - 1 = p
  BY <1>1
<1>3. HasBase(Script, a, n)
  BY <1>2, BaseStays
<1>4. LogBook(a, n) = BookAt(Script, a, n) /\ LogBook(a, p) = BookAt(Script, a, p)
  BY LogBookIs
<1>. DEFINE b == IF EndsSnapshot(Script, a, n - 1, n)
                 THEN Snapshot(RowsOfKey(Script, Script[n - 1].key)).book
                 ELSE BookAt(Script, a, n - 1)
<1>5. b = LogBook(a, p)
  BY <1>2, <1>4
<1>6. IF Script[n].kind = "delta" /\ Script[n].asset = a
      THEN /\ DeltaFits(b, Script[n].row.level, Script[n].row.size)
           /\ BookAt(Script, a, n) = SetLevel(b, Script[n].row.level, Script[n].row.size)
      ELSE BookAt(Script, a, n) = b
  BY <1>1, <1>3 DEF BooksGrow
<1>. HIDE DEF b
<1>7. QED  BY <1>3, <1>4, <1>5, <1>6 DEF LogStep

\* What one record does to the book of a, and to what waits of it.
LEMMA Applied ==
    ASSUME PublishedInv, NEW rec, ApplyRecord(rec), NEW a \in Assets
    PROVE  LET own == rec.asset = a
               seeds == rec.kind = "checkpoint" /\ own /\ ~MatReady(rec)[a] /\ Snapshot(rec.rows).ok
           IN  /\ pending'[a] = IF rec.kind = "snapshot" /\ own
                                THEN [key |-> rec.key, rows |-> Append(MatPending(rec)[a].rows, rec.row)]
                                ELSE MatPending(rec)[a]
               /\ MatReady(rec)[a] \/ seeds => ready'[a]
               /\ book'[a] =
                    IF rec.kind = "delta" /\ own /\ DeltaFits(MatBook(rec)[a], rec.row.level, rec.row.size)
                    THEN SetLevel(MatBook(rec)[a], rec.row.level, rec.row.size)
                    ELSE IF seeds THEN Snapshot(rec.rows).book ELSE MatBook(rec)[a]
<1>1. /\ DOMAIN MatBook(rec) = Assets /\ DOMAIN MatPending(rec) = Assets
      /\ MatReady(rec) \in [Assets -> BOOLEAN]
  BY MaterializeFacts
<1>2. CASE ApplyRow(rec)
  <2>1. rec.kind = "snapshot"
    BY <1>2 DEF ApplyRow
  <2>2. pending'[a] = IF rec.asset = a
                      THEN [key |-> rec.key, rows |-> Append(MatPending(rec)[a].rows, rec.row)]
                      ELSE MatPending(rec)[a]
    BY <1>1, <1>2 DEF ApplyRow
  <2>3. book' = MatBook(rec) /\ ready' = MatReady(rec)
    BY <1>2 DEF ApplyRow
  <2>4. QED  BY <2>1, <2>2, <2>3
<1>3. CASE ApplyDelta(rec)
  <2>1. rec.kind = "delta" /\ pending' = MatPending(rec) /\ ready' = MatReady(rec)
    BY <1>3 DEF ApplyDelta
  <2>2. book' = IF DeltaFits(MatBook(rec)[rec.asset], rec.row.level, rec.row.size)
                THEN [MatBook(rec) EXCEPT ![rec.asset] = SetLevel(@, rec.row.level, rec.row.size)]
                ELSE MatBook(rec)
    BY <1>3 DEF ApplyDelta
  <2>3. book'[a] = IF rec.asset = a /\ DeltaFits(MatBook(rec)[a], rec.row.level, rec.row.size)
                   THEN SetLevel(MatBook(rec)[a], rec.row.level, rec.row.size) ELSE MatBook(rec)[a]
    BY <1>1, <2>2
  <2>4. QED  BY <2>1, <2>3
<1>4. CASE ApplyCheckpoint(rec)
  <2>1. rec.kind = "checkpoint" /\ pending' = MatPending(rec)
    BY <1>4 DEF ApplyCheckpoint
  <2>2. /\ book' = IF ~MatReady(rec)[rec.asset] /\ Snapshot(rec.rows).ok
                   THEN [MatBook(rec) EXCEPT ![rec.asset] = Snapshot(rec.rows).book] ELSE MatBook(rec)
        /\ ready' = IF ~MatReady(rec)[rec.asset] /\ Snapshot(rec.rows).ok
                    THEN [MatReady(rec) EXCEPT ![rec.asset] = TRUE] ELSE MatReady(rec)
    BY <1>4 DEF ApplyCheckpoint, Seeds
  <2>3. PICK ok \in BOOLEAN : ok <=> Snapshot(rec.rows).ok
    OBVIOUS
  <2>4. book'[a] = IF ~MatReady(rec)[a] /\ ok /\ rec.asset = a THEN Snapshot(rec.rows).book
                   ELSE MatBook(rec)[a]
    BY <1>1, <2>2, <2>3
  <2>5. MatReady(rec)[a] \/ (rec.asset = a /\ ~MatReady(rec)[a] /\ ok) => ready'[a]
    BY <1>1, <2>2, <2>3
  <2>6. QED  BY <2>1, <2>3, <2>4, <2>5
<1>5. CASE ApplyIngest(rec) \/ ApplyOther(rec)
  <2>1. /\ rec.kind \in {"ingest", "trade"} /\ pending' = MatPending(rec) /\ book' = MatBook(rec)
        /\ ready' = MatReady(rec)
    BY <1>5 DEF ApplyIngest, ApplyOther
  <2>2. QED  BY <2>1
<1>6. QED  BY <1>2, <1>3, <1>4, <1>5 DEF ApplyRecord

\* What a group that waits is, where it is one.
LEMMA RunRead ==
    ASSUME LogsAreOfAFeed, ReaderInv, NEW a \in Assets, RowsRight(a), pending[a] # NoPending
    PROVE  \E f, l \in DOMAIN Script :
             /\ GroupRun(Script, a, pending[a].key, f, l)
             /\ f \in Nat \ {0} /\ l \in Nat /\ f <= Pos /\ f <= l
             /\ pending[a].rows \in Seq(Range(pending[a].rows)) /\ Len(pending[a].rows) \in Nat
             /\ Len(pending[a].rows) <= Upto(l) - f + 1
             /\ Len(pending[a].rows) = Upto(l) - f + 1 =>
                  \A k \in 1 .. Upto(l) - f + 1 : pending[a].rows[k] = Script[f + k - 1].row
             /\ Whole(a) <=> Len(pending[a].rows) = l - f + 1
             /\ LastRow(a) = l
             /\ l <= Pos /\ Len(pending[a].rows) = l - f + 1 =>
                  pending[a].rows = GroupRows(pending[a].key) /\ Snapshot(pending[a].rows).ok
<1>. DEFINE rows == pending[a].rows
            key == pending[a].key
<1>1. PICK f, l \in DOMAIN Script :
        /\ GroupRun(Script, a, key, f, l)
        /\ f <= Pos
        /\ rows \in Seq(Range(rows))
        /\ Len(rows) <= Upto(l) - f + 1
        /\ Len(rows) = Upto(l) - f + 1 =>
              \A k \in 1 .. Upto(l) - f + 1 : rows[k] = Script[f + k - 1].row
  BY DEF RowsRight
<1>. HIDE DEF rows, key
<1>2. Len(Script) \in Nat /\ DOMAIN Script = 1 .. Len(Script) /\ Pos \in Nat
  BY ScriptFacts, ReaderFacts DEF ReaderInv
<1>3. f \in Nat \ {0} /\ l \in Nat /\ f <= l
  BY <1>1, <1>2 DEF GroupRun
<1>4. Len(rows) \in Nat
  BY <1>1, LenProperties
<1>5. GroupRows(key) = [k \in 1 .. l - f + 1 |-> Script[f + k - 1].row]
  BY <1>1 DEF GroupRun, GroupRows
<1>6. Len(GroupRows(key)) = l - f + 1
  <2>1. l - f + 1 \in Nat
    BY <1>3
  <2>2. DOMAIN GroupRows(key) = 1 .. l - f + 1
    BY <1>5
  <2>3. GroupRows(key) \in Seq(Range(GroupRows(key)))
    <3>1. \A i \in 1 .. l - f + 1 : GroupRows(key)[i] \in Range(GroupRows(key))
      BY <2>2 DEF Range
    <3>2. GroupRows(key) = [k \in 1 .. l - f + 1 |-> GroupRows(key)[k]]
      BY <1>5
    <3>3. GroupRows(key) \in [1 .. l - f + 1 -> Range(GroupRows(key))]
      BY <3>1, <3>2
    <3>4. QED  BY <2>1, <3>3, SeqDef
  <2>4. QED  BY <2>1, <2>2, <2>3, LenProperties
<1>7. Whole(a) <=> Len(rows) = l - f + 1
  BY <1>6 DEF Whole, rows, key
<1>8. LastRow(a) = l
  <2>. DEFINE S == {j \in DOMAIN Script : RowsAt(Script, a, j) /\ Script[j].key = key}
  <2>1. \A j \in DOMAIN Script : RowsAt(Script, a, j) /\ Script[j].key = key <=> j \in f .. l
    BY <1>1, RunEnds DEF ReaderInv
  <2>2. S \in SUBSET Int /\ l \in S /\ \A y \in S : y <= l
    BY <1>2, <1>3, <2>1
  <2>3. LastRow(a) = MaxOf(S)
    BY DEF LastRow, key
  <2>. HIDE DEF S
  <2>4. QED  BY <2>2, <2>3, MaxIs
<1>9. ASSUME l <= Pos, Len(rows) = l - f + 1
      PROVE  rows = GroupRows(key) /\ Snapshot(rows).ok
  <2>1. Upto(l) = l
    BY <1>2, <1>3, <1>9 DEF Upto
  <2>2. DOMAIN rows = 1 .. l - f + 1 /\ rows = [k \in DOMAIN rows |-> rows[k]]
    BY <1>1, <1>9, LenProperties, SeqDef
  <2>3. \A k \in 1 .. l - f + 1 : rows[k] = Script[f + k - 1].row
    BY <1>1, <1>9, <2>1
  <2>4. rows = GroupRows(key)
    BY <1>5, <2>2, <2>3
  <2>5. Script[f].kind = "snapshot" /\ Script[f].key = key
    BY <1>1, <1>3 DEF GroupRun
  <2>6. Snapshot(GroupRows(key)).ok
    BY <1>1, <2>5, RunOf DEF ReaderInv
  <2>7. QED  BY <2>4, <2>6
<1>10. QED  BY <1>1, <1>3, <1>4, <1>7, <1>8, <1>9 DEF rows, key

\* The next record ends a group just where the rows are at their end.
LEMMA EndsWhere ==
    ASSUME LogsAreOfAFeed, ReaderInv, NEW a \in Assets, pending[a] # NoPending,
           NEW f, NEW l, GroupRun(Script, a, pending[a].key, f, l), f \in Int, l \in Int, f <= Pos,
           NEW n \in DOMAIN Script, n = Pos + 1
    PROVE  a \in EndedGroups(Rec(n)) <=> l < n
<1>1. Pos \in Nat /\ n \in Int /\ profile \in DOMAIN Profiles
  BY ReaderFacts DEF ReaderInv
<1>2. RowsAt(Script, a, n) /\ Script[n].key = pending[a].key <=> n \in f .. l
  BY <1>1, RunEnds
<1>3. n \in f .. l <=> ~(l < n)
  BY <1>1
<1>4. Rec(n).kind = Script[n].kind /\ Rec(n).asset = Script[n].asset
      /\ (Script[n].kind = "snapshot" => Rec(n).key = Script[n].key)
  BY <1>1, RecFacts
<1>5. a \in EndedGroups(Rec(n))
      <=> ~(Script[n].kind = "snapshot" /\ a = Script[n].asset /\ pending[a].key = Script[n].key)
  BY <1>4 DEF EndedGroups, HasPending
<1>6. QED  BY <1>2, <1>3, <1>5 DEF RowsAt

\* How far the reader is in the rows, in numbers.
LEMMA UptoIs ==
    ASSUME Pos \in Nat, NEW l \in Nat
    PROVE  /\ Upto(l) \in Nat /\ Upto(l) <= Pos /\ Upto(l) <= l
           /\ l <= Pos => Upto(l) = l
           /\ Pos <= l => Upto(l) = Pos
           /\ Pos' \in Nat /\ Pos <= Pos' => Upto(l)' \in Nat /\ Upto(l) <= Upto(l)'
BY DEF Upto

\* Where the reader only goes on, what waits is what it was.
LEMMA RowsForward ==
    ASSUME LogsAreOfAFeed, ReaderInv, NEW a \in Assets, RowsRight(a), profile' = profile,
           pending'[a] = pending[a] \/ pending'[a] = NoPending, Pos' \in Nat, Pos <= Pos'
    PROVE  RowsRight(a)'
<1>. SUFFICES ASSUME pending'[a] # NoPending PROVE RowsRight(a)'
  BY DEF RowsRight
<1>1. pending'[a] = pending[a] /\ pending[a] # NoPending /\ Script' = Script
  BY DEF Script, Setup
<1>2. PICK f, l \in DOMAIN Script :
        /\ GroupRun(Script, a, pending[a].key, f, l)
        /\ f \in Nat \ {0} /\ l \in Nat /\ f <= Pos /\ f <= l
        /\ pending[a].rows \in Seq(Range(pending[a].rows)) /\ Len(pending[a].rows) \in Nat
        /\ Len(pending[a].rows) <= Upto(l) - f + 1
        /\ Len(pending[a].rows) = Upto(l) - f + 1 =>
              \A k \in 1 .. Upto(l) - f + 1 : pending[a].rows[k] = Script[f + k - 1].row
  BY <1>1, RunRead
<1>3. PICK u \in Nat : u = Upto(l) /\ u <= Pos
  <2>1. Upto(l) \in Nat /\ Upto(l) <= Pos
    BY <1>2, ReaderFacts, UptoIs
  <2>2. QED  BY <2>1
<1>4. PICK v \in Nat : v = Upto(l)' /\ u <= v
  <2>1. Upto(l)' \in Nat /\ Upto(l) <= Upto(l)'
    BY <1>2, ReaderFacts, UptoIs
  <2>2. QED  BY <1>3, <2>1
<1>5. Len(pending[a].rows) <= v - f + 1
  BY <1>2, <1>3, <1>4
<1>6. Len(pending[a].rows) = v - f + 1 => v = u
  BY <1>2, <1>3, <1>4
<1>7. Len(pending[a].rows) = v - f + 1 =>
         \A k \in 1 .. v - f + 1 : pending[a].rows[k] = Script[f + k - 1].row
  BY <1>2, <1>3, <1>6
<1>8. f <= Pos'
  BY <1>2, ReaderFacts
<1>9. /\ f \in DOMAIN Script' /\ l \in DOMAIN Script' /\ GroupRun(Script', a, pending'[a].key, f, l)
      /\ pending'[a].rows \in Seq(Range(pending'[a].rows))
      /\ Len(pending'[a].rows) <= Upto(l)' - f + 1
      /\ Len(pending'[a].rows) = Upto(l)' - f + 1 =>
            \A k \in 1 .. Upto(l)' - f + 1 : pending'[a].rows[k] = Script'[f + k - 1].row
  BY <1>1, <1>2, <1>4, <1>5, <1>7
<1>10. QED  BY <1>8, <1>9 DEF RowsRight

\* Record n, the next one, is given to the projector.
Takes(n) ==
    /\ n = Pos + 1 /\ n \in DOMAIN Script /\ Pos' = n
    /\ ApplyLogged(n)
    /\ UNCHANGED << profile, cuts >>

\* Record n is behind no cut of its asset.
Beyond(n) == \A a \in Assets : cuts[a] \in Int /\ (Script[n].asset = a => cuts[a] < n)

\* What the record does to a, in terms of the log.
LEMMA TakenFacts ==
    ASSUME LogsAreOfAFeed, ReaderInv, PublishedInv, NEW n, Takes(n), NEW a \in Assets
    PROVE  LET row == RowsAt(Script, a, n)
               ended == a \in EndedGroups(Rec(n))
           IN  /\ Script' = Script /\ lost' = lost /\ sound'[a] = NextSound(n)[a]
               /\ row => pending'[a].key = Script[n].key
                         /\ pending'[a].rows = Append(IF ended THEN << >> ELSE pending[a].rows, Script[n].row)
                         /\ book'[a] = MatBook(Rec(n))[a]
               /\ ~row /\ ended => pending'[a] = NoPending
               /\ ~row /\ ~ended => pending'[a] = pending[a]
<1>1. ApplyRecord(Rec(n)) /\ lost' = lost /\ sound' = NextSound(n) /\ Script' = Script
  BY DEF Takes, ApplyLogged, Script, Setup
<1>2. Rec(n).kind = Script[n].kind /\ Rec(n).asset = Script[n].asset
      /\ (Script[n].kind # "checkpoint" => Rec(n) = Script[n])
  BY RecFacts DEF Takes, ReaderInv
<1>3. MatPending(Rec(n))[a] = IF a \in EndedGroups(Rec(n)) THEN NoPending ELSE pending[a]
  BY DEF MatPending
<1>4. /\ pending'[a] = IF Rec(n).kind = "snapshot" /\ Rec(n).asset = a
                       THEN [key |-> Rec(n).key, rows |-> Append(MatPending(Rec(n))[a].rows, Rec(n).row)]
                       ELSE MatPending(Rec(n))[a]
      /\ Rec(n).kind = "snapshot" => book'[a] = MatBook(Rec(n))[a]
  BY <1>1, Applied
<1>5. RowsAt(Script, a, n) <=> Rec(n).kind = "snapshot" /\ Rec(n).asset = a
  BY <1>2 DEF RowsAt
<1>6. RowsAt(Script, a, n) => Rec(n) = Script[n]
  BY <1>2 DEF RowsAt
<1>7. ASSUME RowsAt(Script, a, n)
      PROVE  /\ pending'[a].key = Script[n].key
             /\ pending'[a].rows = Append(IF a \in EndedGroups(Rec(n)) THEN << >> ELSE pending[a].rows,
                                          Script[n].row)
             /\ book'[a] = MatBook(Rec(n))[a]
  <2>1. pending'[a] = [key |-> Script[n].key,
                       rows |-> Append(MatPending(Rec(n))[a].rows, Script[n].row)]
    BY <1>4, <1>5, <1>6, <1>7
  <2>2. MatPending(Rec(n))[a].rows = IF a \in EndedGroups(Rec(n)) THEN << >> ELSE pending[a].rows
    BY <1>3 DEF NoPending
  <2>3. QED  BY <1>4, <1>5, <1>7, <2>1, <2>2
<1>8. ASSUME ~RowsAt(Script, a, n) PROVE pending'[a] = MatPending(Rec(n))[a]
  BY <1>4, <1>5, <1>8
<1>9. QED  BY <1>1, <1>3, <1>7, <1>8

\* A row that is taken begins a group, or goes on with the one that waits.
LEMMA TakenRow ==
    ASSUME LogsAreOfAFeed, ReaderInv, PublishedInv, NEW n, Takes(n), NEW a \in Assets, RowsRight(a),
           RowsAt(Script, a, n)
    PROVE  \E g, m \in DOMAIN Script :
             /\ GroupRun(Script, a, pending'[a].key, g, m)
             /\ g \in Nat \ {0} /\ m \in Nat /\ n \in Nat /\ n \in g .. m
             /\ pending'[a] # NoPending
             /\ \/ /\ pending[a] = NoPending \/ a \in EndedGroups(Rec(n))
                   /\ pending'[a].rows = << Script[n].row >>
                \/ /\ pending[a] # NoPending /\ a \notin EndedGroups(Rec(n))
                   /\ pending'[a].key = pending[a].key
                   /\ pending'[a].rows = Append(pending[a].rows, Script[n].row)
                   /\ g <= Pos
<1>1. /\ n = Pos + 1 /\ n \in DOMAIN Script /\ n \in Nat /\ Pos \in Nat /\ profile \in DOMAIN Profiles
      /\ Len(Script) \in Nat /\ DOMAIN Script = 1 .. Len(Script)
  BY ReaderFacts, ScriptFacts DEF Takes, ReaderInv
<1>2. /\ pending'[a].key = Script[n].key
      /\ pending'[a].rows = Append(IF a \in EndedGroups(Rec(n)) THEN << >> ELSE pending[a].rows, Script[n].row)
  BY TakenFacts
<1>3. Script[n].kind = "snapshot" /\ Script[n].asset = a
  BY DEF RowsAt
<1>4. PICK g, m \in DOMAIN Script : GroupRun(Script, a, Script[n].key, g, m)
  BY <1>1, <1>3, RunOf
<1>5. n \in g .. m
  BY <1>1, <1>3, <1>4, RunOf
<1>6. g \in Nat \ {0} /\ m \in Nat
  BY <1>1
<1>7. CASE pending[a] = NoPending \/ a \in EndedGroups(Rec(n))
  <2>1. pending'[a].rows = Append(<< >>, Script[n].row)
    <3>1. (IF a \in EndedGroups(Rec(n)) THEN << >> ELSE pending[a].rows) = << >>
      BY <1>7 DEF NoPending
    <3>2. QED  BY <1>2, <3>1
  <2>2. Append(<< >>, Script[n].row) = << Script[n].row >>
    OBVIOUS
  <2>3. pending'[a] # NoPending
    <3>1. pending'[a].rows # << >>
      BY <2>1, <2>2
    <3>2. QED  BY <3>1 DEF NoPending
  <2>4. QED  BY <1>1, <1>2, <1>4, <1>5, <1>6, <1>7, <2>1, <2>2, <2>3
<1>8. CASE pending[a] # NoPending /\ a \notin EndedGroups(Rec(n))
  <2>1. PICK f, l \in DOMAIN Script :
          /\ GroupRun(Script, a, pending[a].key, f, l)
          /\ f \in Nat \ {0} /\ l \in Nat /\ f <= Pos /\ f <= l
          /\ pending[a].rows \in Seq(Range(pending[a].rows)) /\ Len(pending[a].rows) \in Nat
    BY <1>8, RunRead
  <2>2. ~(l < n)
    BY <1>1, <1>8, <2>1, EndsWhere
  <2>3. n \in f .. l
    BY <1>1, <2>1, <2>2
  <2>4. Script[n].key = pending[a].key
    BY <1>1, <2>1, <2>3, RunEnds
  <2>5. g = f
    <3>1. DOMAIN Script \in SUBSET Int
      BY <1>1
    <3>2. GroupRun(Script, a, pending[a].key, g, m)
      BY <1>4, <2>4
    <3>3. QED  BY <2>1, <3>1, <3>2, OneRun
  <2>6. pending'[a].rows = Append(pending[a].rows, Script[n].row)
    BY <1>2, <1>8
  <2>7. pending'[a] # NoPending
    <3>1. Append(pending[a].rows, Script[n].row) # << >>
      <4>1. PICK s : s = pending[a].rows
        OBVIOUS
      <4>2. s \in Seq(Range(s)) /\ s \in Seq(Range(s) \cup {Script[n].row})
        BY <2>1, <4>1, SeqWidens
      <4>3. Append(s, Script[n].row) # << >>
        BY <4>2, AppendProperties
      <4>4. QED  BY <4>1, <4>3
    <3>2. QED  BY <2>6, <3>1 DEF NoPending
  <2>8. QED  BY <1>1, <1>2, <1>4, <1>5, <1>6, <1>8, <2>1, <2>4, <2>5, <2>6, <2>7
<1>9. QED  BY <1>7, <1>8

\* The rows of a group are taken one after the other.
LEMMA TakenKeepsRows ==
    ASSUME LogsAreOfAFeed, ReaderInv, PublishedInv, NEW n, Takes(n), NEW a \in Assets, RowsRight(a)
    PROVE  RowsRight(a)'
<1>1. n = Pos + 1 /\ n \in DOMAIN Script /\ Pos' = n /\ n \in Nat /\ Pos \in Nat /\ Script' = Script
      /\ profile' = profile
  <2>1. Pos \in Nat
    BY ReaderFacts
  <2>2. n = Pos + 1 /\ n \in DOMAIN Script /\ Pos' = n /\ profile' = profile
    BY DEF Takes
  <2>3. QED  BY <2>1, <2>2, TakenFacts
<1>2. CASE ~RowsAt(Script, a, n)
  <2>1. pending'[a] = pending[a] \/ pending'[a] = NoPending
    BY <1>2, TakenFacts
  <2>2. QED  BY <1>1, <2>1, RowsForward
<1>3. CASE RowsAt(Script, a, n)
  <2>1. PICK g, m \in DOMAIN Script :
          /\ GroupRun(Script, a, pending'[a].key, g, m)
          /\ g \in Nat \ {0} /\ m \in Nat /\ n \in g .. m
          /\ \/ pending'[a].rows = << Script[n].row >>
             \/ /\ pending[a] # NoPending
                /\ pending'[a].key = pending[a].key
                /\ pending'[a].rows = Append(pending[a].rows, Script[n].row)
                /\ g <= Pos
    BY <1>3, TakenRow
  <2>2. Upto(m)' = n
    <3>1. Upto(m)' = IF Pos' < m THEN Pos' ELSE m
      BY DEF Upto
    <3>2. n \in Nat /\ m \in Nat /\ n <= m /\ Pos' = n
      BY <1>1, <2>1
    <3>3. QED  BY <3>1, <3>2
  <2>. DEFINE Right(s) == /\ s \in Seq(Range(s))
                          /\ Len(s) <= n - g + 1
                          /\ Len(s) = n - g + 1 => \A k \in 1 .. n - g + 1 : s[k] = Script[g + k - 1].row
  <2>3. ASSUME pending'[a].rows = << Script[n].row >> PROVE Right(pending'[a].rows)
    <3>1. << Script[n].row >> \in Seq({Script[n].row}) /\ Len(<< Script[n].row >>) = 1
          /\ << Script[n].row >>[1] = Script[n].row
      OBVIOUS
    <3>2. << Script[n].row >> \in Seq(Range(<< Script[n].row >>))
      BY <3>1, SeqOfRange
    <3>3. 1 <= n - g + 1
      BY <1>1, <2>1
    <3>4. 1 = n - g + 1 => n = g /\ \A k \in 1 .. n - g + 1 : k = 1
      BY <1>1, <2>1
    <3>5. 1 = n - g + 1 => \A k \in 1 .. n - g + 1 : << Script[n].row >>[k] = Script[g + k - 1].row
      <4>1. SUFFICES ASSUME 1 = n - g + 1, NEW k \in 1 .. n - g + 1
                     PROVE  << Script[n].row >>[k] = Script[g + k - 1].row
        OBVIOUS
      <4>2. k = 1 /\ g + k - 1 = n
        <5>1. g \in Nat /\ n \in Nat /\ k \in 1 .. 1 /\ g = n
          BY <1>1, <2>1, <4>1
        <5>2. QED  BY <5>1
      <4>3. QED  BY <3>1, <4>2
    <3>6. QED  BY <2>3, <3>1, <3>2, <3>3, <3>5
  <2>4. ASSUME pending[a] # NoPending, pending'[a].key = pending[a].key,
               pending'[a].rows = Append(pending[a].rows, Script[n].row), g <= Pos
        PROVE  Right(pending'[a].rows)
    <3>1. PICK f, l \in DOMAIN Script :
            /\ GroupRun(Script, a, pending[a].key, f, l)
            /\ f \in Nat \ {0} /\ l \in Nat
            /\ pending[a].rows \in Seq(Range(pending[a].rows)) /\ Len(pending[a].rows) \in Nat
            /\ Len(pending[a].rows) <= Upto(l) - f + 1
            /\ Len(pending[a].rows) = Upto(l) - f + 1 =>
                  \A k \in 1 .. Upto(l) - f + 1 : pending[a].rows[k] = Script[f + k - 1].row
      BY <2>4, RunRead
    <3>2. f = g /\ l = m
      <4>1. DOMAIN Script \in SUBSET Int
        BY ScriptFacts DEF ReaderInv
      <4>2. GroupRun(Script, a, pending[a].key, g, m)
        BY <2>1, <2>4
      <4>3. QED  BY <3>1, <4>1, <4>2, OneRun
    <3>3. Upto(l) = Pos
      BY <1>1, <2>1, <3>2 DEF Upto
    <3>4. PICK s, x : s = pending[a].rows /\ x = Script[n].row
      OBVIOUS
    <3>5. s \in Seq(Range(s)) /\ s \in Seq(Range(s) \cup {x})
      BY <3>1, <3>4, SeqWidens
    <3>6. /\ Append(s, x) \in Seq(Range(s) \cup {x}) /\ Len(Append(s, x)) = Len(s) + 1 /\ Len(s) \in Nat
          /\ \A k \in 1 .. Len(s) : Append(s, x)[k] = s[k]
          /\ Append(s, x)[Len(s) + 1] = x
      BY <3>5, AppendProperties, LenProperties
    <3>7. Append(s, x) \in Seq(Range(Append(s, x)))
      BY <3>6, SeqOfRange
    <3>8. /\ Len(s) <= Pos - g + 1
          /\ Len(s) = Pos - g + 1 => \A k \in 1 .. Pos - g + 1 : s[k] = Script[g + k - 1].row
      BY <3>1, <3>2, <3>3, <3>4
    <3>9. Len(Append(s, x)) <= n - g + 1
      BY <1>1, <2>1, <3>6, <3>8
    <3>10. ASSUME Len(Append(s, x)) = n - g + 1, NEW k \in 1 .. n - g + 1
           PROVE  Append(s, x)[k] = Script[g + k - 1].row
      <4>1. Len(s) = Pos - g + 1
        BY <1>1, <2>1, <3>6, <3>10
      <4>2. CASE k \in 1 .. Len(s)
        BY <1>1, <3>6, <3>8, <4>1, <4>2
      <4>3. CASE k = Len(s) + 1
        <5>1. g + k - 1 = n
          <6>1. g \in Nat /\ Pos \in Nat /\ n = Pos + 1 /\ k = Pos - g + 1 + 1
            BY <1>1, <2>1, <4>1, <4>3
          <6>2. QED  BY <6>1
        <5>2. QED  BY <3>4, <3>6, <4>3, <5>1
      <4>4. QED  BY <1>1, <2>1, <3>6, <3>10, <4>1, <4>2, <4>3
    <3>11. QED  BY <2>4, <3>4, <3>7, <3>9, <3>10
  <2>5. Right(pending'[a].rows)
    BY <2>1, <2>3, <2>4
  <2>6. g <= Pos' /\ g \in DOMAIN Script' /\ m \in DOMAIN Script'
        /\ GroupRun(Script', a, pending'[a].key, g, m)
    BY <1>1, <2>1
  <2>7. /\ pending'[a].rows \in Seq(Range(pending'[a].rows))
        /\ Len(pending'[a].rows) <= Upto(m)' - g + 1
        /\ Len(pending'[a].rows) = Upto(m)' - g + 1 =>
              \A k \in 1 .. Upto(m)' - g + 1 : pending'[a].rows[k] = Script'[g + k - 1].row
    BY <1>1, <2>2, <2>5
  <2>. HIDE DEF Right
  <2>8. QED  BY <2>6, <2>7 DEF RowsRight
<1>4. QED  BY <1>2, <1>3

\* After any other record nothing of a waits.
LEMMA TakenOther ==
    ASSUME LogsAreOfAFeed, ReaderInv, PublishedInv, NEW n, Takes(n), NEW a \in Assets, RowsRight(a),
           ~RowsAt(Script, a, n)
    PROVE  pending'[a] = NoPending
<1>. SUFFICES ASSUME pending[a] # NoPending, a \notin EndedGroups(Rec(n)) PROVE FALSE
  BY TakenFacts
<1>1. PICK f, l \in DOMAIN Script :
        /\ GroupRun(Script, a, pending[a].key, f, l)
        /\ f \in Nat \ {0} /\ l \in Nat /\ f <= Pos
  BY RunRead
<1>2. n = Pos + 1 /\ n \in DOMAIN Script /\ Pos \in Nat /\ profile \in DOMAIN Profiles
  BY ReaderFacts DEF Takes, ReaderInv
<1>3. ~(l < n)
  BY <1>1, <1>2, EndsWhere
<1>4. n \in f .. l
  BY <1>1, <1>2, <1>3
<1>5. QED  BY <1>1, <1>2, <1>4, RunEnds

\* A row that was just taken was not before a cut.
LEMMA TakenKeepsWaits ==
    ASSUME LogsAreOfAFeed, ReaderInv, PublishedInv, NEW n, Takes(n), Beyond(n), NEW a \in Assets,
           RowsRight(a)
    PROVE  WaitsRight(a)'
<1>1. /\ n \in DOMAIN Script /\ Pos' = n /\ Script' = Script /\ cuts' = cuts
      /\ Script[n].asset = a => cuts[a] < n
  BY TakenFacts DEF Beyond, Takes
<1>2. CASE ~RowsAt(Script, a, n)
  BY <1>2, TakenOther DEF WaitsRight
<1>3. CASE RowsAt(Script, a, n)
  <2>1. PICK g, m \in DOMAIN Script :
          /\ GroupRun(Script, a, pending'[a].key, g, m)
          /\ g \in Nat \ {0} /\ m \in Nat /\ n \in Nat /\ n \in g .. m
    BY <1>3, TakenRow
  <2>2. cuts[a] < n
    BY <1>1, <1>3 DEF RowsAt
  <2>3. ASSUME NEW f \in DOMAIN Script, NEW l \in DOMAIN Script, Complete(a, f, l)'
        PROVE  cuts'[a] < Upto(l)' /\ ~(l < Pos')
    <3>1. GroupRun(Script, a, pending'[a].key, f, l)
      BY <1>1, <2>3 DEF Complete
    <3>2. l = m
      <4>1. DOMAIN Script \in SUBSET Int
        BY ScriptFacts DEF ReaderInv
      <4>2. QED  BY <2>1, <3>1, <4>1, OneRun
    <3>3. n \in Nat /\ l \in Nat /\ n <= l
      BY <2>1, <3>2
    <3>4. Upto(l)' = IF Pos' < l THEN Pos' ELSE l
      BY DEF Upto
    <3>5. Upto(l)' = n
      BY <1>1, <3>3, <3>4
    <3>6. QED  BY <1>1, <2>2, <3>3, <3>5
  <2>4. QED  BY <1>1, <2>3 DEF WaitsRight
<1>4. QED  BY <1>2, <1>3

\* The book goes on from record to record, where the log's does.
LEMMA TakenOn ==
    ASSUME LogsAreOfAFeed, ReaderInv, PublishedInv, NEW n, Takes(n), Beyond(n), NEW a \in Assets,
           RowsRight(a),
           LogStep(a, n, MatBook(Rec(n))[a]), cuts[a] < n, ready'[a],
           pending[a] = NoPending \/ a \in EndedGroups(Rec(n)),
           \A key, g, m : GroupRun(Script, a, key, g, m) /\ n \in g .. m => g = n,
           Script[n].kind = "checkpoint" /\ Script[n].asset = a => MatReady(Rec(n))[a]
    PROVE  SoundRight(a)'
<1>1. /\ n = Pos + 1 /\ n \in DOMAIN Script /\ Pos' = n /\ Script' = Script /\ cuts' = cuts
      /\ profile' = profile /\ lost' = lost /\ ApplyRecord(Rec(n)) /\ cuts[a] \in Int
  BY TakenFacts DEF Beyond, Takes, ApplyLogged
<1>2. Pos \in Nat /\ lost \in 0 .. Pos /\ n \in Nat /\ profile \in DOMAIN Profiles
  <2>1. Pos \in Nat /\ lost \in 0 .. Pos
    BY ReaderFacts
  <2>2. profile \in DOMAIN Profiles
    BY DEF ReaderInv
  <2>3. QED  BY <1>1, <2>1, <2>2
<1>3. /\ Rec(n).kind = Script[n].kind /\ Rec(n).asset = Script[n].asset
      /\ (Script[n].kind # "checkpoint" => Rec(n) = Script[n])
  BY <1>1, <1>2, RecFacts
<1>4. book'[a] = LogBook(a, n) /\ HasBase(Script, a, n)
  <2>1. book'[a] =
          IF /\ Rec(n).kind = "delta" /\ Rec(n).asset = a
             /\ DeltaFits(MatBook(Rec(n))[a], Rec(n).row.level, Rec(n).row.size)
          THEN SetLevel(MatBook(Rec(n))[a], Rec(n).row.level, Rec(n).row.size)
          ELSE IF /\ Rec(n).kind = "checkpoint" /\ Rec(n).asset = a /\ ~MatReady(Rec(n))[a]
                  /\ Snapshot(Rec(n).rows).ok
               THEN Snapshot(Rec(n).rows).book ELSE MatBook(Rec(n))[a]
    BY <1>1, Applied
  <2>2. CASE Script[n].kind = "delta" /\ Script[n].asset = a
    BY <1>3, <2>1, <2>2 DEF LogStep
  <2>3. CASE ~(Script[n].kind = "delta" /\ Script[n].asset = a)
    <3>1. book'[a] = MatBook(Rec(n))[a]
      BY <1>3, <2>1, <2>3
    <3>2. QED  BY <2>3, <3>1 DEF LogStep
  <2>4. QED  BY <2>2, <2>3 DEF LogStep
<1>5. LogBook(a, n)' = LogBook(a, n)
  BY <1>1 DEF LogBook
<1>6. CASE ~RowsAt(Script, a, n)
  <2>1. pending'[a] = NoPending
    BY <1>6, TakenOther
  <2>2. Stands(a)' = n
    <3>1. Stands(a)' = IF Pos' <= cuts'[a] THEN cuts'[a] + 1 ELSE Pos'
      BY DEF Stands
    <3>2. QED  BY <1>1, <1>2, <3>1
  <2>3. Current(a)'
    BY <1>1, <1>4, <1>5, <1>6, <2>2 DEF Current, LogBook
  <2>4. QED  BY <2>1, <2>3 DEF SoundRight
<1>7. CASE RowsAt(Script, a, n)
  <2>1. PICK g, m \in DOMAIN Script :
          /\ GroupRun(Script, a, pending'[a].key, g, m)
          /\ g \in Nat \ {0} /\ m \in Nat /\ n \in g .. m
          /\ pending'[a] # NoPending /\ pending'[a].rows = << Script[n].row >>
    BY <1>7, TakenRow
  <2>2. g = n
    BY <2>1
  <2>3. ASSUME NEW f \in DOMAIN Script, NEW l \in DOMAIN Script,
               GroupRun(Script, a, pending'[a].key, f, l)
        PROVE  Complete(a, f, l)' /\ HasBase(Script, a, n) /\ book'[a] = LogBook(a, n)
    <3>1. f = n /\ l = m
      <4>1. DOMAIN Script \in SUBSET Int
        BY <1>2, ScriptFacts
      <4>2. QED  BY <2>1, <2>2, <2>3, <4>1, OneRun
    <3>2. Upto(l)' = IF Pos' < l THEN Pos' ELSE l
      BY DEF Upto
    <3>3. l \in Nat /\ n \in Nat /\ n <= l /\ Pos' = n
      BY <1>1, <1>2, <2>1, <3>1
    <3>4. Upto(l)' = n
      BY <3>2, <3>3
    <3>5. Len(<< Script[n].row >>) = 1
      OBVIOUS
    <3>6. Len(pending'[a].rows) = n - f + 1
      BY <1>2, <2>1, <3>1, <3>5
    <3>7. lost' < n
      BY <1>1, <1>2
    <3>8. QED  BY <1>1, <1>4, <2>3, <3>4, <3>6, <3>7 DEF Complete
  <2>4. Replaced(a)'
    BY <1>1, <1>5, <2>3 DEF Replaced, LogBook
  <2>5. QED  BY <2>1, <2>4 DEF SoundRight
<1>8. QED  BY <1>6, <1>7

\* What the model remembers of the record a book is sound by.
LEMMA NextSoundIs ==
    ASSUME LogsAreOfAFeed, profile \in DOMAIN Profiles, NEW n \in DOMAIN Script, NEW a \in Assets,
           NextSound(n)[a]
    PROVE  /\ a \in Materialized(Rec(n)) => Whole(a) /\ lost < LastRow(a)
           /\ a \notin Materialized(Rec(n)) =>
                \/ Script[n].kind = "checkpoint" /\ Script[n].asset = a /\ ~MatReady(Rec(n))[a]
                \/ sound[a]
<1>1. /\ Rec(n).kind = Script[n].kind /\ Rec(n).asset = Script[n].asset
      /\ (Script[n].kind # "checkpoint" => Rec(n) = Script[n])
  BY RecFacts
<1>2. EndedGroups(Script[n]) = EndedGroups(Rec(n))
  <2>1. CASE Script[n].kind = "snapshot"
    <3>1. Rec(n) = Script[n]
      BY <1>1, <2>1
    <3>2. QED  BY <3>1
  <2>2. CASE Script[n].kind # "snapshot"
    BY <1>1, <2>2 DEF EndedGroups
  <2>3. QED  BY <2>1, <2>2
<1>3. Materialized(Script[n]) = Materialized(Rec(n))
  BY <1>2 DEF Materialized
<1>4. MatReady(Script[n]) = MatReady(Rec(n))
  BY <1>3 DEF MatReady
<1>5. NextSound(n)[a] = IF a \in Materialized(Script[n]) THEN Whole(a) /\ lost < LastRow(a)
                        ELSE IF Script[n].kind = "checkpoint" /\ Script[n].asset = a /\ Seeds(a, Script[n])
                             THEN TRUE ELSE sound[a]
  BY DEF NextSound
<1>6. Seeds(a, Script[n]) <=> ~MatReady(Rec(n))[a]
  BY <1>4 DEF Seeds
<1>7. QED  BY <1>3, <1>5, <1>6

\* A snapshot that is whole becomes the book, and is the log's, though what ended it in
\* the log may have been skipped.
LEMMA TakenMaterialized ==
    ASSUME LogsAreOfAFeed, ReaderInv, PublishedInv, NEW n, Takes(n), Beyond(n), NEW a \in Assets,
           RowsRight(a),
           WaitsRight(a), a \in Materialized(Rec(n)), sound'[a]
    PROVE  SoundRight(a)'
<1>1. a \in EndedGroups(Rec(n)) /\ pending[a] # NoPending
  BY MaterializedKnown
<1>2. PICK f, l \in DOMAIN Script :
        /\ GroupRun(Script, a, pending[a].key, f, l)
        /\ f \in Nat \ {0} /\ l \in Nat /\ f <= Pos /\ f <= l
        /\ Whole(a) <=> Len(pending[a].rows) = l - f + 1
        /\ LastRow(a) = l
        /\ l <= Pos /\ Len(pending[a].rows) = l - f + 1 =>
             pending[a].rows = GroupRows(pending[a].key) /\ Snapshot(pending[a].rows).ok
  BY <1>1, RunRead
<1>3. n = Pos + 1 /\ n \in DOMAIN Script /\ cuts[a] \in Int /\ ApplyRecord(Rec(n))
  BY DEF Beyond, Takes, ApplyLogged
<1>4. /\ Pos \in Nat /\ n \in Nat /\ profile \in DOMAIN Profiles
      /\ Len(Script) \in Nat /\ DOMAIN Script = 1 .. Len(Script)
  <2>1. Pos \in Nat
    BY ReaderFacts
  <2>2. profile \in DOMAIN Profiles
    BY DEF ReaderInv
  <2>3. Len(Script) \in Nat /\ DOMAIN Script = 1 .. Len(Script)
    BY <2>2, ScriptFacts
  <2>4. QED  BY <1>3, <2>1, <2>2, <2>3
<1>5. l < n /\ l <= Pos
  <2>1. l < n
    BY <1>1, <1>2, <1>3, EndsWhere
  <2>2. QED  BY <1>2, <1>3, <1>4, <2>1
<1>6. Whole(a) /\ lost < l
  <2>1. NextSound(n)[a]
    BY TakenFacts
  <2>2. QED  BY <1>2, <1>3, <1>4, <2>1, NextSoundIs
<1>7. Upto(l) = l
  BY <1>2, <1>4, <1>5, UptoIs
<1>8. Complete(a, f, l)
  BY <1>2, <1>6, <1>7 DEF Complete
<1>9. /\ cuts[a] < l
      /\ l < Pos => /\ ~RowsAt(Script, a, Pos)
                    /\ HasBase(Script, a, Pos)
                    /\ LogBook(a, Pos) = Snapshot(GroupRows(pending[a].key)).book
  BY <1>1, <1>2, <1>7, <1>8 DEF WaitsRight
<1>10. MatBook(Rec(n))[a] = Snapshot(GroupRows(pending[a].key)).book /\ MatReady(Rec(n))[a]
  BY <1>2, <1>5, <1>6 DEF MatBook, MatReady
<1>11. LogStep(a, n, MatBook(Rec(n))[a])
  <2>1. CASE l = Pos
    BY <1>2, <1>3, <1>4, <1>10, <2>1, BookOfRun
  <2>2. CASE l < Pos
    <3>1. Pos \in DOMAIN Script
      BY <1>2, <1>3, <1>4
    <3>2. ~EndsSnapshot(Script, a, Pos, n)
      BY <1>9, <2>2 DEF EndsSnapshot
    <3>3. LogStep(a, n, LogBook(a, Pos))
      BY <1>3, <1>4, <1>9, <2>2, <3>1, <3>2, BookGoesOn
    <3>4. QED  BY <1>9, <1>10, <2>2, <3>3
  <2>3. QED  BY <1>2, <1>4, <1>5, <2>1, <2>2
<1>12. ASSUME NEW key, NEW g, NEW m, GroupRun(Script, a, key, g, m), n \in g .. m
       PROVE  g = n
  <2>1. g \in Int /\ m \in Int /\ g <= n /\ n <= m
    BY <1>4, <1>12 DEF GroupRun
  <2>. SUFFICES ASSUME g < n PROVE FALSE
    BY <1>4, <2>1
  <2>2. Pos \in g .. m /\ Pos \in DOMAIN Script
    BY <1>2, <1>3, <1>4, <2>1
  <2>3. RowsAt(Script, a, Pos) /\ Script[Pos].key = key
    BY <1>4, <1>12, <2>2, RunEnds
  <2>4. l = Pos
    BY <1>2, <1>4, <1>5, <1>9, <2>3
  <2>5. Script[l].key = pending[a].key
    <3>1. l \in f .. l
      BY <1>2
    <3>2. QED  BY <1>2, <3>1 DEF GroupRun
  <2>6. key = pending[a].key
    BY <2>3, <2>4, <2>5
  <2>7. m = l
    <3>1. DOMAIN Script \in SUBSET Int
      BY <1>4
    <3>2. GroupRun(Script, a, pending[a].key, g, m)
      BY <1>12, <2>6
    <3>3. QED  BY <1>2, <3>1, <3>2, OneRun
  <2>8. QED  BY <1>2, <1>4, <1>5, <2>1, <2>7
<1>13. ready'[a]
  BY <1>3, <1>10, Applied
<1>14. cuts[a] < n
  BY <1>2, <1>3, <1>4, <1>5, <1>9
<1>15. QED  BY <1>1, <1>10, <1>11, <1>12, <1>13, <1>14, TakenOn

\* A checkpoint seeds a book that is not ready, with its rows.
LEMMA SeedsBook ==
    ASSUME PublishedInv, NEW rec, ApplyRecord(rec), NEW a \in Assets,
           rec.kind = "checkpoint", rec.asset = a, ~MatReady(rec)[a], Snapshot(rec.rows).ok
    PROVE  ready'[a] /\ book'[a] = Snapshot(rec.rows).book
<1>1. DOMAIN MatBook(rec) = Assets /\ MatReady(rec) \in [Assets -> BOOLEAN]
  BY MaterializeFacts
<1>2. ApplyCheckpoint(rec)
  BY DEF ApplyRecord, ApplyRow, ApplyDelta, ApplyIngest, ApplyOther
<1>3. /\ book' = [MatBook(rec) EXCEPT ![a] = Snapshot(rec.rows).book]
      /\ ready' = [MatReady(rec) EXCEPT ![a] = TRUE]
  BY <1>2 DEF ApplyCheckpoint, Seeds
<1>4. QED  BY <1>1, <1>3

\* A checkpoint seeds a book that was never initialized with the one of the log.
LEMMA TakenSeeded ==
    ASSUME LogsAreOfAFeed, ReaderInv, PublishedInv, NEW n, Takes(n), Beyond(n), NEW a \in Assets,
           RowsRight(a),
           Script[n].kind = "checkpoint", Script[n].asset = a, ~MatReady(Rec(n))[a]
    PROVE  SoundRight(a)'
<1>1. /\ n \in DOMAIN Script /\ n = Pos + 1 /\ Pos' = n /\ Script' = Script /\ cuts' = cuts
      /\ profile' = profile /\ ApplyRecord(Rec(n)) /\ cuts[a] \in Int /\ cuts[a] < n
  BY TakenFacts DEF Beyond, Takes, ApplyLogged
<1>2. Pos \in Nat /\ n \in Nat
  BY <1>1, ReaderFacts
<1>3. profile \in DOMAIN Profiles
  BY DEF ReaderInv
<1>4. /\ HasBase(Script, a, n)
      /\ Snapshot(RowsOf(BookAt(Script, a, n))) = [ok |-> TRUE, book |-> BookAt(Script, a, n)]
  BY <1>1, <1>3, ScriptFacts DEF CheckpointsHold
<1>5. LogBook(a, n) = BookAt(Script, a, n)
  BY <1>1, <1>3, LogBookIs
<1>6. Rec(n).kind = "checkpoint" /\ Rec(n).asset = a /\ Rec(n).rows = RowsOf(LogBook(a, n))
  BY <1>1, <1>3, RecFacts
<1>7. Snapshot(Rec(n).rows).ok /\ Snapshot(Rec(n).rows).book = LogBook(a, n)
  <2>1. PICK b : b = BookAt(Script, a, n)
    OBVIOUS
  <2>2. PICK s : s = Snapshot(Rec(n).rows)
    OBVIOUS
  <2>3. s = [ok |-> TRUE, book |-> b]
    BY <1>4, <1>5, <1>6, <2>1, <2>2
  <2>4. s.ok /\ s.book = b
    BY <2>3
  <2>5. QED  BY <1>5, <2>1, <2>2, <2>4
<1>8. ready'[a] /\ book'[a] = LogBook(a, n)
  BY <1>1, <1>6, <1>7, SeedsBook
<1>9. ~RowsAt(Script, a, n)
  BY DEF RowsAt
<1>10. pending'[a] = NoPending
  BY <1>9, TakenOther
<1>11. Stands(a)' = n
  <2>1. Stands(a)' = IF Pos' <= cuts'[a] THEN cuts'[a] + 1 ELSE Pos'
    BY DEF Stands
  <2>2. n \in Nat /\ cuts[a] \in Int /\ cuts[a] < n /\ Pos' = n /\ cuts'[a] = cuts[a]
    BY <1>1, <1>2
  <2>3. QED  BY <2>1, <2>2
<1>12. LogBook(a, n)' = LogBook(a, n)
  BY <1>1 DEF LogBook
<1>13. Current(a)'
  BY <1>1, <1>4, <1>8, <1>9, <1>11, <1>12 DEF Current, LogBook
<1>14. QED  BY <1>8, <1>10, <1>13 DEF SoundRight

\* A record that changes nothing of a: the others, and its own up to its cut.
LEMMA UntouchedBook ==
    ASSUME PublishedInv, NEW rec, ApplyRecord(rec), NEW a \in Assets, a \notin Materialized(rec),
           ready[a], rec.kind # "delta" \/ rec.asset # a
    PROVE  book'[a] = book[a] /\ MatReady(rec)[a] /\ ready'[a] /\ MatBook(rec)[a] = book[a]
<1>1. MatReady(rec)[a] /\ MatBook(rec)[a] = book[a]
  BY DEF MatReady, MatBook
<1>2. ready'[a]
  BY ApplyRecordKeepsReady
<1>3. book'[a] = MatBook(rec)[a]
  <2>1. ~(rec.kind = "delta" /\ rec.asset = a /\ DeltaFits(MatBook(rec)[a], rec.row.level, rec.row.size))
    OBVIOUS
  <2>2. ~(rec.kind = "checkpoint" /\ rec.asset = a /\ ~MatReady(rec)[a] /\ Snapshot(rec.rows).ok)
    BY <1>1
  <2>3. QED  BY <2>1, <2>2, Applied
<1>4. QED  BY <1>1, <1>2, <1>3

\* A sound book with nothing that waits goes on with the log.
LEMMA TakenCurrent ==
    ASSUME LogsAreOfAFeed, ReaderInv, PublishedInv, NEW n, Takes(n), Beyond(n), NEW a \in Assets,
           RowsRight(a),
           CutRight(a), ready[a], Current(a), pending[a] = NoPending
    PROVE  SoundRight(a)'
<1>1. /\ n \in DOMAIN Script /\ n = Pos + 1 /\ Pos' = n /\ Script' = Script /\ cuts' = cuts
      /\ profile' = profile /\ ApplyRecord(Rec(n)) /\ cuts[a] \in Int
      /\ Script[n].asset = a => cuts[a] < n
  BY TakenFacts DEF Beyond, Takes, ApplyLogged
<1>2. Pos \in Nat /\ n \in Nat
  BY <1>1, ReaderFacts
<1>3. profile \in DOMAIN Profiles
  BY DEF ReaderInv
<1>4. a \notin Materialized(Rec(n))
  BY MaterializedKnown
<1>5. MatReady(Rec(n))[a] /\ MatBook(Rec(n))[a] = book[a] /\ ready'[a]
  BY <1>1, <1>4, ApplyRecordKeepsReady DEF MatReady, MatBook
<1>6. CASE cuts[a] < Pos
  <2>1. Stands(a) = Pos
    BY <1>1, <1>2, <1>6 DEF Stands
  <2>2. /\ Pos \in DOMAIN Script /\ HasBase(Script, a, Pos) /\ book[a] = LogBook(a, Pos)
        /\ ~RowsAt(Script, a, Pos)
    BY <2>1 DEF Current
  <2>3. ~EndsSnapshot(Script, a, Pos, n)
    BY <2>2 DEF EndsSnapshot
  <2>4. LogStep(a, n, MatBook(Rec(n))[a])
    BY <1>1, <1>3, <1>5, <2>2, <2>3, BookGoesOn
  <2>5. ASSUME NEW key, NEW g, NEW m, GroupRun(Script, a, key, g, m), n \in g .. m
        PROVE  g = n
    <3>1. g \in Int /\ m \in Int /\ g <= n /\ n <= m
      BY <1>3, <2>5, ScriptFacts DEF GroupRun
    <3>. SUFFICES ASSUME g < n PROVE FALSE
      BY <1>2, <3>1
    <3>2. Pos \in g .. m
      BY <1>1, <1>2, <3>1
    <3>3. RowsAt(Script, a, Pos)
      BY <1>3, <2>2, <2>5, <3>2, RunEnds
    <3>4. QED  BY <2>2, <3>3
  <2>6. cuts[a] < n
    BY <1>1, <1>2, <1>6
  <2>7. QED  BY <1>5, <2>4, <2>5, <2>6, TakenOn
<1>7. CASE Pos <= cuts[a]
  <2>1. Stands(a) = cuts[a] + 1
    BY <1>7 DEF Stands
  <2>2. ~RowsAt(Script, a, n) /\ (Script[n].kind # "delta" \/ Script[n].asset # a)
    <3>1. SUFFICES ASSUME Script[n].asset = a PROVE Script[n].kind = "checkpoint"
      BY DEF RowsAt
    <3>2. cuts[a] + 1 = n /\ cuts[a] # NoCut
      BY <1>1, <1>2, <1>7, <3>1 DEF NoCut
    <3>3. Script[cuts[a] + 1].kind = "checkpoint"
      BY <3>2 DEF CutRight
    <3>4. QED  BY <3>2, <3>3
  <2>3. Rec(n).kind = Script[n].kind /\ Rec(n).asset = Script[n].asset
    BY <1>1, <1>3, RecFacts
  <2>4. book'[a] = book[a]
    BY <1>1, <1>4, <2>2, <2>3, UntouchedBook
  <2>5. pending'[a] = NoPending
    BY <2>2, TakenOther
  <2>6. Stands(a)' = Stands(a)
    <3>1. Stands(a)' = IF Pos' <= cuts'[a] THEN cuts'[a] + 1 ELSE Pos'
      BY DEF Stands
    <3>2. n \in Nat /\ cuts[a] \in Int /\ n <= cuts[a] + 1 /\ Pos' = n /\ cuts'[a] = cuts[a]
      BY <1>1, <1>2, <1>7
    <3>3. QED  BY <2>1, <3>1, <3>2
  <2>7. Current(a)'
    BY <1>1, <2>4, <2>6 DEF Current, LogBook
  <2>8. QED  BY <1>5, <2>5, <2>7 DEF SoundRight
<1>8. QED  BY <1>1, <1>2, <1>6, <1>7

\* Nor does it lose anything while a snapshot comes in.
LEMMA TakenReplaced ==
    ASSUME LogsAreOfAFeed, ReaderInv, PublishedInv, NEW n, Takes(n), NEW a \in Assets, RowsRight(a),
           ready[a], Replaced(a), pending[a] # NoPending, a \notin Materialized(Rec(n))
    PROVE  SoundRight(a)'
<1>1. /\ n \in DOMAIN Script /\ n = Pos + 1 /\ Pos' = n /\ Script' = Script
      /\ profile' = profile /\ ApplyRecord(Rec(n)) /\ lost' = lost
  BY TakenFacts DEF Takes, ApplyLogged
<1>2. Pos \in Nat /\ n \in Nat /\ lost \in 0 .. Pos
  BY <1>1, ReaderFacts
<1>3. profile \in DOMAIN Profiles /\ DOMAIN Script \in SUBSET Int
  BY ScriptFacts DEF ReaderInv
<1>4. PICK f, l \in DOMAIN Script :
        /\ GroupRun(Script, a, pending[a].key, f, l)
        /\ f \in Nat \ {0} /\ l \in Nat /\ f <= Pos /\ f <= l
        /\ pending[a].rows \in Seq(Range(pending[a].rows)) /\ Len(pending[a].rows) \in Nat
        /\ l <= Pos /\ Len(pending[a].rows) = l - f + 1 => Snapshot(pending[a].rows).ok
  BY RunRead
<1>5. Complete(a, f, l) /\ (Pos <= l => HasBase(Script, a, Pos) /\ book[a] = LogBook(a, Pos))
  BY <1>4 DEF Replaced
<1>6. n <= l
  <2>. SUFFICES ASSUME l < n PROVE FALSE
    BY <1>2, <1>4
  <2>1. l <= Pos
    BY <1>1, <1>2, <1>4
  <2>2. Upto(l) = l
    BY <1>2, <1>4, <2>1, UptoIs
  <2>3. Snapshot(pending[a].rows).ok
    BY <1>4, <1>5, <2>1, <2>2 DEF Complete
  <2>4. a \in EndedGroups(Rec(n))
    BY <1>1, <1>4, EndsWhere
  <2>5. QED  BY <2>3, <2>4 DEF Materialized
<1>7. n \in f .. l /\ Pos \in f .. l /\ Pos # l /\ Pos \in DOMAIN Script /\ Pos <= l
  <2>1. n \in f .. l /\ Pos \in f .. l /\ Pos # l /\ Pos <= l
    BY <1>1, <1>2, <1>4, <1>6
  <2>2. DOMAIN Script = 1 .. Len(Script) /\ Len(Script) \in Nat
    BY <1>3, ScriptFacts
  <2>3. QED  BY <1>2, <1>4, <1>6, <2>1, <2>2
<1>8. RowsAt(Script, a, n) /\ ~EndsSnapshot(Script, a, Pos, n)
  BY <1>1, <1>3, <1>4, <1>7, RunEnds
<1>9. a \notin EndedGroups(Rec(n))
  BY <1>1, <1>2, <1>4, <1>6, EndsWhere
<1>10. /\ pending'[a] # NoPending /\ pending'[a].key = pending[a].key
       /\ pending'[a].rows = Append(pending[a].rows, Script[n].row)
  BY <1>8, <1>9, TakenRow
<1>11. Len(pending'[a].rows) = Len(pending[a].rows) + 1
  <2>1. PICK s, x : s = pending[a].rows /\ x = Script[n].row
    OBVIOUS
  <2>2. s \in Seq(Range(s) \cup {x})
    BY <1>4, <2>1, SeqWidens
  <2>3. Len(Append(s, x)) = Len(s) + 1
    BY <2>2, AppendProperties
  <2>4. QED  BY <1>10, <2>1, <2>3
<1>12. Script[n].kind = "snapshot" /\ Rec(n) = Script[n]
  BY <1>1, <1>3, <1>8, RecFacts DEF RowsAt
<1>13. book'[a] = book[a] /\ ready'[a]
  BY <1>1, <1>12, UntouchedBook
<1>14. HasBase(Script, a, n) /\ LogBook(a, n) = book[a]
  BY <1>1, <1>3, <1>5, <1>7, <1>8, <1>12, BookGoesOn DEF LogStep
<1>15. Upto(l)' = n
  <2>1. Upto(l)' = IF Pos' < l THEN Pos' ELSE l
    BY DEF Upto
  <2>2. Pos' = n /\ n \in Nat /\ l \in Nat /\ n <= l
    BY <1>1, <1>2, <1>4, <1>6
  <2>3. QED  BY <2>1, <2>2
<1>16. Complete(a, f, l)'
  <2>1. Upto(l) = Pos
    BY <1>2, <1>4, <1>7, UptoIs
  <2>2. Len(pending'[a].rows) = n - f + 1
    BY <1>1, <1>2, <1>4, <1>5, <1>11, <2>1 DEF Complete
  <2>3. lost' < n
    BY <1>1, <1>2
  <2>4. QED  BY <1>1, <1>4, <1>10, <1>15, <2>2, <2>3 DEF Complete
<1>17. ASSUME NEW g \in DOMAIN Script, NEW m \in DOMAIN Script, GroupRun(Script, a, pending'[a].key, g, m)
       PROVE  g = f /\ m = l
  BY <1>3, <1>4, <1>10, <1>17, OneRun
<1>18. LogBook(a, n)' = LogBook(a, n)
  BY <1>1 DEF LogBook
<1>19. Replaced(a)'
  BY <1>1, <1>13, <1>14, <1>16, <1>17, <1>18 DEF Replaced, LogBook
<1>20. QED  BY <1>10, <1>13, <1>19 DEF SoundRight

\* Whatever the record, a book that is sound after it is the log's.
LEMMA TakenKeepsSound ==
    ASSUME LogsAreOfAFeed, ReaderInv, PublishedInv, NEW n, Takes(n), Beyond(n), NEW a \in Assets,
           RowsRight(a),
           WaitsRight(a), CutRight(a), SoundRight(a)
    PROVE  SoundRight(a)'
<1>. SUFFICES ASSUME sound'[a] PROVE SoundRight(a)'
  BY DEF SoundRight
<1>1. n \in DOMAIN Script /\ profile \in DOMAIN Profiles /\ NextSound(n)[a]
  BY TakenFacts DEF Takes, ReaderInv
<1>2. CASE a \in Materialized(Rec(n))
  BY <1>2, TakenMaterialized
<1>3. CASE a \notin Materialized(Rec(n))
  <2>1. CASE Script[n].kind = "checkpoint" /\ Script[n].asset = a /\ ~MatReady(Rec(n))[a]
    BY <2>1, TakenSeeded
  <2>2. CASE sound[a]
    <3>1. ready[a] /\ IF pending[a] = NoPending THEN Current(a) ELSE Replaced(a)
      BY <2>2 DEF SoundRight
    <3>2. CASE pending[a] = NoPending
      BY <3>1, <3>2, TakenCurrent
    <3>3. CASE pending[a] # NoPending
      BY <1>3, <3>1, <3>3, TakenReplaced
    <3>4. QED  BY <3>2, <3>3
  <2>3. QED  BY <1>1, <1>3, <2>1, <2>2, NextSoundIs
<1>4. QED  BY <1>2, <1>3

\* Some numbers have a least one.
LEMMA HasLeast ==
    ASSUME NEW S \in SUBSET Nat, S # {}
    PROVE  \E i \in S : \A j \in S : i <= j
<1>. DEFINE R == OpToRel(<, Nat)
<1>1. PICK m \in S : \A k \in S : ~(<< k, m >> \in R)
  BY NatLessThanWellFounded, WFMin, Zenon
<1>2. \A k \in S : << k, m >> \in R <=> k < m
  BY DEF OpToRel
<1>. HIDE DEF R
<1>3. \A k \in S : ~(k < m)
  BY <1>1, <1>2
<1>4. QED  BY <1>3

\* Record n is skipped in a replay.
Skips(n) ==
    /\ n = Pos + 1 /\ n \in DOMAIN Script /\ Pos' = n
    /\ BeforeCut(n)
    /\ UNCHANGED << profile, cuts, pending, book, ready, sound, lost >>
    /\ \A a \in Assets : CutRight(a) /\ cuts[a] \in Int

\* A record that is skipped is behind the cut of an asset that is asked for, or is of
\* another asset and behind that one's.
LEMMA SkippedBehind ==
    ASSUME LogsAreOfAFeed, ReaderInv, NEW n, Skips(n), NEW a \in Wanted
    PROVE  /\ a \in Assets
           /\ \/ n <= cuts[a]
              \/ Script[n].asset # a /\ \E b \in Assets : n <= cuts[b]
<1>1. n \in Nat \ {0} /\ n \in DOMAIN Script /\ \A b \in Assets : CutRight(b) /\ cuts[b] \in Int
  <2>1. Pos \in Nat
    BY ReaderFacts
  <2>2. QED  BY <2>1 DEF Skips
<1>2. profile \in DOMAIN Profiles /\ Setup.tokens \subseteq Assets
  BY ServeAssumption DEF ReaderInv, Setup
<1>3. a \in Assets
  BY <1>2 DEF Wanted
<1>4. CASE n <= ResumeOffset
  <2>1. ~(Follow \/ \E b \in Setup.tokens : cuts[b] = NoCut)
    BY <1>1, <1>4 DEF ResumeOffset, NoCut
  <2>. DEFINE T == {cuts[b] : b \in Setup.tokens}
  <2>2. a \in Setup.tokens
    BY <2>1 DEF Wanted
  <2>3. T \in SUBSET Nat /\ T # {}
    <3>1. \A b \in Setup.tokens : cuts[b] \in Nat
      <4>1. SUFFICES ASSUME NEW b \in Setup.tokens PROVE cuts[b] \in Nat
        OBVIOUS
      <4>2. CutRight(b) /\ cuts[b] # NoCut
        BY <1>1, <1>2, <2>1
      <4>3. stored \in Nat
        BY ReaderFacts DEF ReaderInv
      <4>4. QED  BY <4>2, <4>3 DEF CutRight
    <3>2. QED  BY <2>2, <3>1
  <2>4. PICK c \in T : \A d \in T : c <= d
    BY <2>3, HasLeast
  <2>5. ResumeOffset = CHOOSE e \in T : \A b \in Setup.tokens : e <= cuts[b]
    BY <2>1 DEF ResumeOffset
  <2>6. \A b \in Setup.tokens : ResumeOffset <= cuts[b]
    <3>1. \A b \in Setup.tokens : c <= cuts[b]
      BY <2>4
    <3>2. QED  BY <2>5, <3>1
  <2>7. ResumeOffset \in T
    <3>1. \A b \in Setup.tokens : c <= cuts[b]
      BY <2>4
    <3>2. QED  BY <2>5, <3>1
  <2>8. ResumeOffset \in Int /\ cuts[a] \in Int /\ ResumeOffset <= cuts[a]
    BY <1>1, <1>3, <2>2, <2>3, <2>6, <2>7
  <2>9. n <= cuts[a]
    BY <1>1, <1>4, <2>8
  <2>10. QED  BY <1>3, <2>9
<1>5. CASE Script[n].asset # NoAsset /\ n <= cuts[Script[n].asset]
  <2>1. Script[n].asset \in Assets
    BY <1>1, <1>2, <1>5, ScriptFacts DEF LogTyped
  <2>2. QED  BY <1>3, <1>5, <2>1
<1>6. QED  BY <1>4, <1>5 DEF Skips, BeforeCut

\* A snapshot that waits goes on to wait while records are skipped.
LEMMA SkipKeepsWaits ==
    ASSUME LogsAreOfAFeed, ReaderInv, NEW n, Skips(n), NEW a \in Wanted, RowsRight(a), WaitsRight(a)
    PROVE  WaitsRight(a)'
<1>. SUFFICES ASSUME pending'[a] # NoPending PROVE WaitsRight(a)'
  BY DEF WaitsRight
<1>1. /\ n \in DOMAIN Script /\ n = Pos + 1 /\ Pos' = n /\ Script' = Script /\ cuts' = cuts
      /\ profile' = profile /\ pending' = pending /\ lost' = lost /\ a \in Assets /\ cuts[a] \in Int
      /\ pending[a] # NoPending
  BY SkippedBehind DEF Skips, Script, Setup
<1>2. Pos \in Nat /\ n \in Nat /\ lost \in 0 .. Pos
  BY <1>1, ReaderFacts
<1>3. profile \in DOMAIN Profiles /\ DOMAIN Script \in SUBSET Int /\ DOMAIN Script = 1 .. Len(Script)
      /\ Len(Script) \in Nat
  BY ScriptFacts DEF ReaderInv
<1>4. PICK f, l \in DOMAIN Script :
        /\ GroupRun(Script, a, pending[a].key, f, l)
        /\ f \in Nat \ {0} /\ l \in Nat /\ f <= Pos /\ f <= l
        /\ Len(pending[a].rows) \in Nat /\ Len(pending[a].rows) <= Upto(l) - f + 1
  BY <1>1, RunRead
<1>5. SUFFICES ASSUME Complete(a, f, l)'
               PROVE  /\ cuts[a] < Upto(l)'
                      /\ l < n => /\ \E b \in Assets : n <= cuts[b]
                                  /\ ~RowsAt(Script, a, n)
                                  /\ HasBase(Script, a, n)
                                  /\ LogBook(a, n)' = Snapshot(GroupRows(pending[a].key)).book
  <2>1. ASSUME NEW g \in DOMAIN Script, NEW m \in DOMAIN Script, Complete(a, g, m)'
        PROVE  g = f /\ m = l
    BY <1>1, <1>3, <1>4, <2>1, OneRun DEF Complete
  <2>2. GroupRows(pending[a].key)' = GroupRows(pending[a].key)
    BY <1>1 DEF GroupRows
  <2>3. QED  BY <1>1, <1>5, <2>1, <2>2 DEF WaitsRight, LogBook, GroupRows
<1>6. PICK u \in Nat : u = Upto(l) /\ u <= Pos
  <2>1. Upto(l) \in Nat /\ Upto(l) <= Pos
    BY <1>2, <1>4, UptoIs
  <2>2. QED  BY <2>1
<1>7. PICK v \in Nat : v = Upto(l)' /\ u <= v
  <2>1. Pos' \in Nat /\ Pos <= Pos'
    BY <1>1, <1>2
  <2>2. Upto(l)' \in Nat /\ Upto(l) <= Upto(l)'
    BY <1>2, <1>4, <2>1, UptoIs
  <2>3. QED  BY <1>6, <2>2
<1>8. Len(pending[a].rows) = v - f + 1 /\ lost < v
  BY <1>1, <1>5, <1>7 DEF Complete
<1>9. v = u
  BY <1>4, <1>6, <1>7, <1>8
<1>10. l <= Pos /\ u = l
  <2>1. Upto(l)' = IF Pos' < l THEN Pos' ELSE l
    BY DEF Upto
  <2>2. v <= Pos /\ Pos' = Pos + 1
    BY <1>1, <1>2, <1>6, <1>9
  <2>3. v = l
    BY <1>2, <1>4, <1>7, <2>1, <2>2
  <2>4. QED  BY <1>6, <1>9, <2>3
<1>11. Complete(a, f, l)
  BY <1>4, <1>6, <1>8, <1>9 DEF Complete
<1>12. /\ cuts[a] < l
       /\ l < Pos => /\ ~RowsAt(Script, a, Pos)
                     /\ HasBase(Script, a, Pos)
                     /\ LogBook(a, Pos) = Snapshot(GroupRows(pending[a].key)).book
  BY <1>1, <1>4, <1>6, <1>10, <1>11 DEF WaitsRight
<1>13. Script[n].asset # a /\ \E b \in Assets : n <= cuts[b]
  <2>1. ~(n <= cuts[a])
    BY <1>1, <1>2, <1>4, <1>10, <1>12
  <2>2. QED  BY <2>1, SkippedBehind
<1>14. ~RowsAt(Script, a, n)
  BY <1>13 DEF RowsAt
<1>15. LogStep(a, n, Snapshot(GroupRows(pending[a].key)).book)
  <2>1. CASE l = Pos
    BY <1>1, <1>3, <1>4, <2>1, BookOfRun
  <2>2. CASE l < Pos
    <3>1. Pos \in DOMAIN Script
      BY <1>1, <1>2, <1>3, <1>4
    <3>2. ~EndsSnapshot(Script, a, Pos, n)
      BY <1>12, <2>2 DEF EndsSnapshot
    <3>3. LogStep(a, n, LogBook(a, Pos))
      BY <1>1, <1>3, <1>12, <2>2, <3>1, <3>2, BookGoesOn
    <3>4. QED  BY <1>12, <2>2, <3>3
  <2>3. QED  BY <1>2, <1>4, <1>10, <2>1, <2>2
<1>16. LogBook(a, n)' = LogBook(a, n)
  BY <1>1 DEF LogBook
<1>17. HasBase(Script, a, n) /\ LogBook(a, n)' = Snapshot(GroupRows(pending[a].key)).book
  BY <1>13, <1>15, <1>16 DEF LogStep
<1>18. QED  BY <1>7, <1>9, <1>10, <1>12, <1>13, <1>14, <1>17

\* A sound book loses nothing by what is skipped.
LEMMA SkipKeepsSound ==
    ASSUME LogsAreOfAFeed, ReaderInv, NEW n, Skips(n), NEW a \in Wanted, RowsRight(a),
           WaitsRight(a), SoundRight(a)
    PROVE  SoundRight(a)'
<1>. SUFFICES ASSUME sound'[a] PROVE SoundRight(a)'
  BY DEF SoundRight
<1>1. /\ n \in DOMAIN Script /\ n = Pos + 1 /\ Pos' = n /\ Script' = Script /\ cuts' = cuts
      /\ profile' = profile /\ pending' = pending /\ lost' = lost /\ a \in Assets /\ cuts[a] \in Int
      /\ book' = book /\ ready' = ready /\ sound' = sound
  BY SkippedBehind DEF Skips, Script, Setup
<1>2. Pos \in Nat /\ n \in Nat /\ lost \in 0 .. Pos
  BY <1>1, ReaderFacts
<1>3. profile \in DOMAIN Profiles /\ DOMAIN Script \in SUBSET Int /\ DOMAIN Script = 1 .. Len(Script)
  BY ScriptFacts DEF ReaderInv
<1>4. ready[a] /\ IF pending[a] = NoPending THEN Current(a) ELSE Replaced(a)
  BY <1>1 DEF SoundRight
<1>5. n <= cuts[a] \/ Script[n].asset # a
  BY SkippedBehind
<1>6. CASE pending[a] = NoPending
  <2>1. Current(a)
    BY <1>4, <1>6
  <2>2. CASE Pos <= cuts[a]
    <3>1. Stands(a) = cuts[a] + 1
      BY <2>2 DEF Stands
    <3>2. Stands(a)' = IF Pos' <= cuts'[a] THEN cuts'[a] + 1 ELSE Pos'
      BY DEF Stands
    <3>3. n \in Nat /\ cuts[a] \in Int /\ n <= cuts[a] + 1 /\ Pos' = n /\ cuts'[a] = cuts[a]
      BY <1>1, <1>2, <2>2
    <3>4. Stands(a)' = Stands(a)
      BY <3>1, <3>2, <3>3
    <3>5. Current(a)'
      BY <1>1, <2>1, <3>4 DEF Current, LogBook
    <3>6. QED  BY <1>1, <1>4, <1>6, <3>5 DEF SoundRight
  <2>3. CASE cuts[a] < Pos
    <3>1. Stands(a) = Pos
      BY <1>1, <1>2, <2>3 DEF Stands
    <3>2. /\ Pos \in DOMAIN Script /\ HasBase(Script, a, Pos) /\ book[a] = LogBook(a, Pos)
          /\ ~RowsAt(Script, a, Pos)
      BY <2>1, <3>1 DEF Current
    <3>3. ~EndsSnapshot(Script, a, Pos, n)
      BY <3>2 DEF EndsSnapshot
    <3>4. LogStep(a, n, LogBook(a, Pos))
      BY <1>1, <1>3, <3>2, <3>3, BookGoesOn
    <3>5. Script[n].asset # a
      BY <1>1, <1>2, <1>5, <2>3
    <3>6. HasBase(Script, a, n) /\ book[a] = LogBook(a, n) /\ ~RowsAt(Script, a, n)
      BY <3>2, <3>4, <3>5 DEF LogStep, RowsAt
    <3>7. Stands(a)' = n
      <4>1. Stands(a)' = IF Pos' <= cuts'[a] THEN cuts'[a] + 1 ELSE Pos'
        BY DEF Stands
      <4>2. n \in Nat /\ cuts[a] \in Int /\ cuts[a] < n /\ Pos' = n /\ cuts'[a] = cuts[a]
        BY <1>1, <1>2, <2>3
      <4>3. QED  BY <4>1, <4>2
    <3>8. Current(a)'
      BY <1>1, <3>6, <3>7 DEF Current, LogBook
    <3>9. QED  BY <1>1, <1>4, <1>6, <3>8 DEF SoundRight
  <2>4. QED  BY <1>1, <1>2, <2>2, <2>3
<1>7. CASE pending[a] # NoPending
  <2>1. PICK f, l \in DOMAIN Script :
          /\ GroupRun(Script, a, pending[a].key, f, l)
          /\ f \in Nat \ {0} /\ l \in Nat /\ f <= Pos /\ f <= l
    BY <1>1, <1>7, RunRead
  <2>2. Complete(a, f, l)
    BY <1>4, <1>7, <2>1 DEF Replaced
  <2>3. cuts[a] < Upto(l) /\ Upto(l) \in Nat /\ Upto(l) <= Pos
    BY <1>2, <1>7, <2>1, <2>2, UptoIs DEF WaitsRight
  <2>4. Script[n].asset # a
    BY <1>1, <1>2, <1>5, <2>3
  <2>5. l < n
    <3>1. n \notin f .. l
      BY <1>1, <1>3, <2>1, <2>4, RunEnds DEF RowsAt
    <3>2. QED  BY <1>1, <1>2, <2>1, <3>1
  <2>6. l <= Pos /\ Upto(l) = l
    <3>1. l <= Pos
      BY <1>1, <1>2, <2>1, <2>5
    <3>2. QED  BY <1>2, <2>1, <3>1, UptoIs
  <2>7. Upto(l)' = l
    <3>1. Upto(l)' = IF Pos' < l THEN Pos' ELSE l
      BY DEF Upto
    <3>2. Pos' = n /\ n \in Nat /\ l \in Nat /\ l < n
      BY <1>1, <1>2, <2>1, <2>5
    <3>3. QED  BY <3>1, <3>2
  <2>8. Complete(a, f, l)'
    BY <1>1, <2>2, <2>6, <2>7 DEF Complete
  <2>9. ~(Pos' <= l)
    BY <1>1, <1>2, <2>1, <2>5
  <2>10. ASSUME NEW g \in DOMAIN Script, NEW m \in DOMAIN Script, GroupRun(Script, a, pending[a].key, g, m)
         PROVE  g = f /\ m = l
    BY <1>3, <2>1, <2>10, OneRun
  <2>11. Replaced(a)'
    BY <1>1, <2>8, <2>9, <2>10 DEF Replaced
  <2>12. QED  BY <1>1, <1>4, <1>7, <2>11 DEF SoundRight
<1>8. QED  BY <1>6, <1>7

\* Where records were left out, only what a cut covers is sound, and nothing is complete.
LEMMA LossKeepsBooks ==
    ASSUME LogsAreOfAFeed, ReaderInv, UNCHANGED << profile, cuts, pending, book, ready >>,
           Pos' \in Nat, Pos <= Pos', lost' = Pos', NEW a \in Assets, cuts[a] \in Int,
           sound'[a] => sound[a] /\ Pos' <= cuts[a], RowsRight(a), WaitsRight(a), SoundRight(a)
    PROVE  WaitsRight(a)' /\ SoundRight(a)'
<1>1. Script' = Script /\ Pos \in Nat
  BY ReaderFacts DEF Script, Setup
<1>2. WaitsRight(a)'
  <2>1. SUFFICES ASSUME NEW f \in DOMAIN Script, NEW l \in DOMAIN Script, Complete(a, f, l)'
                 PROVE  FALSE
    BY <1>1 DEF WaitsRight
  <2>2. l \in Nat
    BY ScriptFacts DEF ReaderInv
  <2>3. Upto(l)' = IF Pos' < l THEN Pos' ELSE l
    BY DEF Upto
  <2>4. ~(Pos' < Upto(l)')
    BY <2>2, <2>3
  <2>5. QED  BY <2>1, <2>4 DEF Complete
<1>3. SoundRight(a)'
  <2>. SUFFICES ASSUME sound'[a] PROVE SoundRight(a)'
    BY DEF SoundRight
  <2>1. ready[a] /\ (IF pending[a] = NoPending THEN Current(a) ELSE Replaced(a)) /\ Pos' <= cuts[a]
    BY DEF SoundRight
  <2>2. CASE pending[a] = NoPending
    <3>1. Stands(a) = cuts[a] + 1
      <4>1. Pos <= cuts[a]
        BY <1>1, <2>1
      <4>2. QED  BY <4>1 DEF Stands
    <3>2. Stands(a)' = IF Pos' <= cuts'[a] THEN cuts'[a] + 1 ELSE Pos'
      BY DEF Stands
    <3>3. Stands(a)' = Stands(a)
      BY <2>1, <3>1, <3>2
    <3>4. Current(a)'
      BY <1>1, <2>1, <2>2, <3>3 DEF Current, LogBook
    <3>5. QED  BY <2>1, <2>2, <3>4 DEF SoundRight
  <2>3. CASE pending[a] # NoPending
    <3>1. PICK f, l \in DOMAIN Script :
            GroupRun(Script, a, pending[a].key, f, l) /\ l \in Nat
      BY <2>3, RunRead
    <3>2. Complete(a, f, l)
      BY <2>1, <2>3, <3>1 DEF Replaced
    <3>3. cuts[a] < Upto(l) /\ Upto(l) \in Nat /\ Upto(l) <= Pos
      BY <1>1, <2>3, <3>1, <3>2, UptoIs DEF WaitsRight
    <3>4. QED  BY <1>1, <2>1, <3>3
  <2>4. QED  BY <2>2, <2>3
<1>4. QED  BY <1>2, <1>3

\* Where nothing changes for a, or its books are dropped, all stays as it is.
LEMMA StayKeepsBooks ==
    ASSUME UNCHANGED << profile, cuts, lost >>, Pos' = Pos, NEW a,
           \/ pending'[a] = pending[a] /\ (sound'[a] => sound[a])
              /\ (sound[a] => book'[a] = book[a] /\ (ready[a] => ready'[a]))
           \/ pending'[a] = NoPending /\ ~sound'[a],
           WaitsRight(a), SoundRight(a)
    PROVE  WaitsRight(a)' /\ SoundRight(a)'
<1>1. Script' = Script
  BY DEF Script, Setup
<1>2. CASE pending'[a] = NoPending /\ ~sound'[a]
  BY <1>2 DEF WaitsRight, SoundRight
<1>3. CASE pending'[a] = pending[a] /\ (sound'[a] => sound[a])
           /\ (sound[a] => book'[a] = book[a] /\ (ready[a] => ready'[a]))
  <2>1. \A f, l : Complete(a, f, l)' <=> Complete(a, f, l)
    BY <1>1, <1>3 DEF Complete, Upto
  <2>2. WaitsRight(a)'
    <3>1. SUFFICES ASSUME pending[a] # NoPending PROVE WaitsRight(a)'
      BY <1>3 DEF WaitsRight
    <3>2. GroupRows(pending[a].key)' = GroupRows(pending[a].key)
      BY <1>1, <1>3 DEF GroupRows
    <3>3. \A l : Upto(l)' = Upto(l)
      BY DEF Upto
    <3>4. LogBook(a, Pos)' = LogBook(a, Pos)
      BY DEF LogBook
    <3>5. QED  BY <1>1, <1>3, <2>1, <3>1, <3>2, <3>3, <3>4 DEF WaitsRight
  <2>3. SoundRight(a)'
    <3>1. SUFFICES ASSUME sound'[a] PROVE SoundRight(a)'
      BY DEF SoundRight
    <3>2. ready[a] /\ (IF pending[a] = NoPending THEN Current(a) ELSE Replaced(a)) /\ sound[a]
      BY <1>3, <3>1 DEF SoundRight
    <3>3. Stands(a)' = Stands(a)
      BY DEF Stands
    <3>4. Current(a) => Current(a)'
      BY <1>1, <1>3, <3>2, <3>3 DEF Current, LogBook
    <3>5. Replaced(a) => Replaced(a)'
      BY <1>1, <1>3, <2>1, <3>2 DEF Replaced, LogBook
    <3>6. QED  BY <1>3, <3>2, <3>4, <3>5 DEF SoundRight
  <2>4. QED  BY <2>2, <2>3
<1>4. QED  BY <1>2, <1>3

\* What is asked for, and the cuts of it.
LEMMA WantedFacts ==
    ASSUME ReaderInv, CutsInv
    PROVE  /\ Wanted \subseteq Assets /\ (profile' = profile => Wanted' = Wanted)
           /\ AtWork => Inventoried
           /\ Inventoried => \A a \in Assets : CutRight(a) /\ cuts[a] \in Int
<1>1. Wanted \subseteq Assets /\ (profile' = profile => Wanted' = Wanted)
  BY ServeAssumption DEF ReaderInv, Wanted, Follow, Setup
<1>2. AtWork => Inventoried
  BY DEF AtWork, Inventoried
<1>3. ASSUME Inventoried, NEW a \in Assets PROVE CutRight(a) /\ cuts[a] \in Int
  <2>1. CutRight(a)
    BY <1>3 DEF CutsInv
  <2>2. stored \in Nat
    BY ReaderFacts DEF ReaderInv
  <2>3. QED  BY <2>1, <2>2 DEF CutRight, NoCut
<1>4. QED  BY <1>1, <1>2, <1>3

\* No checkpoint is loaded after the step.
PastLoads == pc \notin {"inventory", "load"}

\* Steps that change no book.
LEMMA QuietBooks ==
    ASSUME LogsAreOfAFeed, ReaderInv, CutsInv, BooksInv, UNCHANGED << profile, pending >>,
           Pos' = Pos,
           AtWork' => AtWork /\ UNCHANGED << cuts, lost, book, ready, sound >>, LoadedInv'
    PROVE  BooksInv'
<1>1. RowsInv'
  <2>1. Pos \in Nat
    BY ReaderFacts
  <2>2. QED  BY <2>1, RowsForward DEF BooksInv, RowsInv
<1>2. ASSUME AtWork', NEW a \in Wanted' PROVE WaitsRight(a)' /\ SoundRight(a)'
  <2>1. a \in Wanted
    BY <1>2, WantedFacts
  <2>2. WaitsRight(a) /\ SoundRight(a)
    BY <1>2, <2>1 DEF BooksInv, WaitingInv, SoundInv
  <2>3. QED  BY <1>2, <2>2, StayKeepsBooks
<1>3. QED  BY <1>1, <1>2 DEF BooksInv, WaitingInv, SoundInv

\* A record is taken.
LEMMA TakenBooks ==
    ASSUME LogsAreOfAFeed, ReaderInv, CutsInv, PublishedInv, BooksInv, NEW n, Takes(n),
           AtWork' => AtWork /\ Beyond(n), PastLoads'
    PROVE  BooksInv'
<1>1. RowsInv'
  BY TakenKeepsRows DEF BooksInv, RowsInv
<1>2. ASSUME AtWork', NEW a \in Wanted' PROVE WaitsRight(a)' /\ SoundRight(a)'
  <2>1. a \in Wanted /\ a \in Assets
    BY <1>2, WantedFacts DEF Takes
  <2>2. RowsRight(a) /\ WaitsRight(a) /\ SoundRight(a)
    BY <1>2, <2>1 DEF BooksInv, RowsInv, WaitingInv, SoundInv
  <2>3. CutRight(a)
    BY <1>2, <2>1, WantedFacts
  <2>4. QED  BY <1>2, <2>1, <2>2, <2>3, TakenKeepsWaits, TakenKeepsSound
<1>3. LoadedInv'
  BY DEF PastLoads, LoadedInv
<1>4. QED  BY <1>1, <1>2, <1>3 DEF BooksInv, WaitingInv, SoundInv

\* A record is skipped.
LEMMA SkippedBooks ==
    ASSUME LogsAreOfAFeed, ReaderInv, CutsInv, BooksInv, NEW n, Skips(n), AtWork' => AtWork,
           PastLoads'
    PROVE  BooksInv'
<1>1. RowsInv'
  <2>1. Pos' \in Nat /\ Pos <= Pos' /\ profile' = profile /\ pending' = pending
    BY ReaderFacts DEF Skips
  <2>2. QED  BY <2>1, RowsForward DEF BooksInv, RowsInv
<1>2. ASSUME AtWork', NEW a \in Wanted' PROVE WaitsRight(a)' /\ SoundRight(a)'
  <2>1. a \in Wanted /\ a \in Assets
    BY <1>2, WantedFacts DEF Skips
  <2>2. RowsRight(a) /\ WaitsRight(a) /\ SoundRight(a)
    BY <1>2, <2>1 DEF BooksInv, RowsInv, WaitingInv, SoundInv
  <2>3. QED  BY <2>1, <2>2, SkipKeepsWaits, SkipKeepsSound
<1>3. LoadedInv'
  BY DEF PastLoads, LoadedInv
<1>4. QED  BY <1>1, <1>2, <1>3 DEF BooksInv, WaitingInv, SoundInv

\* Records are left out.
LEMMA LostBooks ==
    ASSUME LogsAreOfAFeed, ReaderInv, CutsInv, BooksInv, UNCHANGED << profile, cuts, pending, book, ready >>,
           Pos' \in Nat, Pos <= Pos', NEW S \in SUBSET (1 .. Pos'), Pos' \in S \/ S = {},
           S = {} => Pos' = Pos, Lose(S), AtWork' => AtWork, PastLoads'
    PROVE  BooksInv'
<1>1. RowsInv'
  BY RowsForward DEF BooksInv, RowsInv
<1>2. /\ lost' = IF S = {} THEN lost ELSE Pos'
      /\ \A a \in Assets : sound'[a] => sound[a] /\ (S # {} => Pos' <= cuts[a])
  <2>1. PICK n \in Nat : n = Pos'
    OBVIOUS
  <2>2. lost \in 0 .. n
    BY <2>1, ReaderFacts
  <2>3. S \in SUBSET (1 .. n) /\ (n \in S \/ S = {})
    BY <2>1
  <2>4. /\ lost' = IF S = {} THEN lost ELSE n
        /\ \A a \in Assets : sound'[a] => sound[a] /\ (S # {} => n <= cuts[a])
    BY <2>2, <2>3, LostLast
  <2>5. QED  BY <2>1, <2>4
<1>3. ASSUME AtWork', NEW a \in Wanted' PROVE WaitsRight(a)' /\ SoundRight(a)'
  <2>1. a \in Wanted /\ a \in Assets
    BY <1>3, WantedFacts
  <2>2. RowsRight(a) /\ WaitsRight(a) /\ SoundRight(a)
    BY <1>3, <2>1 DEF BooksInv, RowsInv, WaitingInv, SoundInv
  <2>3. cuts[a] \in Int
    BY <1>3, <2>1, WantedFacts
  <2>4. CASE S = {}
    <3>1. lost' = lost /\ Pos' = Pos /\ (sound'[a] => sound[a])
      BY <1>2, <2>1, <2>4
    <3>2. QED  BY <2>2, <3>1, StayKeepsBooks
  <2>5. CASE S # {}
    <3>1. lost' = Pos' /\ (sound'[a] => sound[a] /\ Pos' <= cuts[a])
      BY <1>2, <2>1, <2>5
    <3>2. QED  BY <2>1, <2>2, <2>3, <3>1, LossKeepsBooks
  <2>6. QED  BY <2>4, <2>5
<1>4. LoadedInv'
  BY DEF PastLoads, LoadedInv
<1>5. QED  BY <1>1, <1>3, <1>4 DEF BooksInv, WaitingInv, SoundInv

\* A checkpoint that is loaded gives the book the log has at its cut.
LEMMA LoadKeepsBooks ==
    ASSUME LogsAreOfAFeed, ReaderInv, CutsInv, PublishedInv, BooksInv, NEW x \in Assets,
           LoadCheckpoint(x)
    PROVE  BooksInv'
<1>1. /\ pc = "load" /\ pc' = "load" /\ x \in ToLoad /\ HydrateCheckpoint(x, Rec(toLoad[x]).rows)
      /\ toLoad' = [toLoad EXCEPT ![x] = 0] /\ sound' = [sound EXCEPT ![x] = pending[x] = NoPending]
      /\ UNCHANGED << rd, cuts, profile, lost >>
  BY DEF LoadCheckpoint, bounds
<1>2. pending' = pending /\ Pos' = Pos
  BY <1>1, PosSame DEF HydrateCheckpoint
<1>3. profile \in DOMAIN Profiles
  BY DEF ReaderInv
<1>4. PICK i : i = toLoad[x]
  OBVIOUS
<1>5. i \in DOMAIN Script /\ Script[i].kind = "checkpoint" /\ Script[i].asset = x /\ cuts[x] + 1 = i
      /\ cuts[x] # NoCut
  <2>1. CutRight(x) /\ i # 0
    BY <1>1, <1>4 DEF CutsInv, Inventoried, ToLoad
  <2>2. cuts[x] \in 0 .. stored - 1 /\ i = cuts[x] + 1
        /\ Script[cuts[x] + 1].kind = "checkpoint" /\ Script[cuts[x] + 1].asset = x
    BY <1>4, <2>1 DEF CutRight
  <2>3. stored \in 0 .. written /\ written \in 0 .. Len(Script) /\ Len(Script) \in Nat
        /\ DOMAIN Script = 1 .. Len(Script)
    BY <1>3, ScriptFacts DEF ReaderInv
  <2>4. cuts[x] # NoCut /\ i \in 1 .. Len(Script)
    BY <2>2, <2>3 DEF NoCut
  <2>5. QED  BY <2>2, <2>3, <2>4
<1>6. Snapshot(Rec(i).rows) = [ok |-> TRUE, book |-> LogBook(x, i)]
  <2>1. Rec(i).rows = RowsOf(LogBook(x, i)) /\ LogBook(x, i) = BookAt(Script, x, i)
    BY <1>3, <1>5, RecFacts, LogBookIs
  <2>2. Snapshot(RowsOf(BookAt(Script, x, i))) = [ok |-> TRUE, book |-> BookAt(Script, x, i)]
    BY <1>3, <1>5, ScriptFacts DEF CheckpointsHold
  <2>3. QED  BY <2>1, <2>2
<1>7. /\ ready'[x] /\ book'[x] = LogBook(x, i)
      /\ \A a \in Assets \ {x} : ready'[a] = ready[a] /\ book'[a] = book[a]
  <2>1. PICK cp : cp = Snapshot(Rec(i).rows)
    OBVIOUS
  <2>2. cp.ok /\ cp.book = LogBook(x, i)
    BY <1>6, <2>1
  <2>3. /\ book' = [book EXCEPT ![x] = IF cp.ok THEN cp.book ELSE @]
        /\ ready' = [ready EXCEPT ![x] = @ \/ cp.ok]
    BY <1>1, <1>4, <2>1 DEF HydrateCheckpoint
  <2>4. DOMAIN book = Assets /\ DOMAIN ready = Assets
    BY DEF PublishedInv
  <2>5. QED  BY <2>2, <2>3, <2>4
<1>8. LoadedInv'
  <2>0. DOMAIN sound = Assets /\ DOMAIN toLoad = Assets
    BY <1>1 DEF BooksInv, LoadedInv, CutsInv
  <2>1. ASSUME NEW a \in Assets, sound'[a]
        PROVE  /\ ready'[a] /\ pending'[a] = NoPending /\ cuts'[a] # NoCut /\ toLoad'[a] = 0
               /\ (book[a] = LogBook(a, cuts[a] + 1))'
    <3>1. CASE a = x
      <4>1. sound'[x] = (pending[x] = NoPending)
        BY <1>1, <2>0
      <4>2. pending[x] = NoPending
        BY <2>1, <3>1, <4>1
      <4>3. LogBook(a, cuts[a] + 1)' = LogBook(x, i)
        BY <1>1, <1>5, <3>1 DEF LogBook
      <4>4. (book[a] = LogBook(a, cuts[a] + 1))'
        BY <1>7, <3>1, <4>3
      <4>5. QED  BY <1>1, <1>2, <1>5, <1>7, <2>0, <3>1, <4>2, <4>4
    <3>2. CASE a # x
      <4>1. sound[a]
        BY <1>1, <2>0, <2>1, <3>2
      <4>2. /\ ready[a] /\ pending[a] = NoPending /\ cuts[a] # NoCut /\ toLoad[a] = 0
            /\ book[a] = LogBook(a, cuts[a] + 1)
        BY <1>1, <4>1 DEF BooksInv, LoadedInv
      <4>3. LogBook(a, cuts[a] + 1)' = LogBook(a, cuts[a] + 1)
        BY <1>1 DEF LogBook
      <4>4. (book[a] = LogBook(a, cuts[a] + 1))'
        BY <1>7, <3>2, <4>2, <4>3
      <4>5. QED  BY <1>1, <1>2, <1>7, <2>0, <3>2, <4>2, <4>4
    <3>3. QED  BY <3>1, <3>2
  <2>2. (DOMAIN sound = Assets)'
    BY <1>1, <2>0
  <2>3. pc' = "load"
    BY <1>1
  <2>4. QED  BY <2>1, <2>2, <2>3 DEF LoadedInv
<1>9. ~AtWork'
  BY <1>1 DEF AtWork, Up
<1>10. QED  BY <1>1, <1>2, <1>8, <1>9, QuietBooks

\* The replay opens where the log begins; what it left out, cuts cover.
LEMMA OpenKeepsBooks ==
    ASSUME LogsAreOfAFeed, ReaderInv, HandoffInv, CutsInv, BooksInv, OpenReplay
    PROVE  BooksInv'
<1>1. /\ pc = "load" /\ UNCHANGED << profile, pending, cuts, book, ready >>
      /\ \/ rd' = ReaderAtEarliest /\ Lose(1 .. first * PerSeg) /\ pc' = "replay"
         \/ pc' = "finish" /\ ~recovered' /\ rd' = rd
  BY DEF OpenReplay, lvars
<1>2. CASE pc' = "finish" /\ ~recovered' /\ rd' = rd
  <2>1. ~AtWork' /\ LoadedInv' /\ Pos' = Pos
    BY <1>2, PosSame DEF AtWork, LoadedInv
  <2>2. QED  BY <1>1, <2>1, QuietBooks
<1>3. CASE rd' = ReaderAtEarliest /\ Lose(1 .. first * PerSeg) /\ pc' = "replay"
  <2>1. PICK n \in Nat : n = first * PerSeg
    BY ReaderFacts
  <2>2. Pos' = n /\ Pos <= n /\ Pos \in Nat
    <3>1. Pos' = Global(rd')
      BY DEF Pos, Global
    <3>2. NoPlaceYet
      BY <1>1 DEF NoPlaceYet
    <3>3. QED  BY <1>3, <2>1, <3>1, <3>2, OpenedEarliest, ReaderFacts DEF HandoffInv
  <2>3. /\ lost' = n
        /\ \A a \in Assets : sound'[a] => sound[a] /\ n <= cuts[a]
    <3>1. 1 .. n \in SUBSET (1 .. n) /\ (n \in 1 .. n \/ 1 .. n = {}) /\ lost \in 0 .. n
          /\ (1 .. n = {} => n = 0 /\ lost = 0)
      BY <2>2, ReaderFacts
    <3>2. Lose(1 .. n)
      BY <1>3, <2>1
    <3>3. /\ lost' = IF 1 .. n = {} THEN lost ELSE n
          /\ \A a \in Assets : sound'[a] => sound[a] /\ (1 .. n # {} => n <= cuts[a])
      BY <3>1, <3>2, LostLast
    <3>4. ASSUME NEW a \in Assets, sound'[a], 1 .. n = {} PROVE n <= cuts[a]
      <4>1. cuts[a] # NoCut
        BY <1>1, <3>3, <3>4 DEF BooksInv, LoadedInv
      <4>2. stored \in Nat /\ CutRight(a)
        BY <1>1, ReaderFacts DEF ReaderInv, CutsInv, Inventoried
      <4>3. cuts[a] \in 0 .. stored - 1
        BY <4>1, <4>2 DEF CutRight
      <4>4. QED  BY <3>1, <3>4, <4>2, <4>3
    <3>5. QED  BY <3>1, <3>3, <3>4
  <2>4. RowsInv'
    BY <1>1, <2>2, RowsForward DEF BooksInv, RowsInv
  <2>5. Script' = Script
    BY <1>1 DEF Script, Setup
  <2>6. ASSUME NEW a \in Assets PROVE WaitsRight(a)'
    <3>1. SUFFICES ASSUME NEW f \in DOMAIN Script, NEW l \in DOMAIN Script, Complete(a, f, l)'
                   PROVE  FALSE
      BY <2>5 DEF WaitsRight
    <3>2. l \in Nat
      BY ScriptFacts DEF ReaderInv
    <3>3. Upto(l)' = IF Pos' < l THEN Pos' ELSE l
      BY DEF Upto
    <3>4. ~(lost' < Upto(l)')
      BY <2>2, <2>3, <3>2, <3>3
    <3>5. QED  BY <3>1, <3>4 DEF Complete
  <2>7. ASSUME NEW a \in Assets PROVE SoundRight(a)'
    <3>1. SUFFICES ASSUME sound'[a] PROVE SoundRight(a)'
      BY DEF SoundRight
    <3>2. sound[a] /\ n <= cuts[a]
      BY <2>3, <3>1
    <3>3. /\ ready[a] /\ pending[a] = NoPending /\ cuts[a] # NoCut
          /\ book[a] = LogBook(a, cuts[a] + 1)
      BY <1>1, <3>2 DEF BooksInv, LoadedInv
    <3>4. CutRight(a) /\ stored \in 0 .. written /\ written \in 0 .. Len(Script)
          /\ Len(Script) \in Nat /\ DOMAIN Script = 1 .. Len(Script) /\ profile \in DOMAIN Profiles
      BY <1>1, ScriptFacts DEF ReaderInv, CutsInv, Inventoried
    <3>5. cuts[a] \in 0 .. stored - 1 /\ Script[cuts[a] + 1].kind = "checkpoint"
          /\ Script[cuts[a] + 1].asset = a
      BY <3>3, <3>4 DEF CutRight
    <3>6. cuts[a] + 1 \in DOMAIN Script
      BY <3>4, <3>5
    <3>7. HasBase(Script, a, cuts[a] + 1)
      BY <3>4, <3>5, <3>6, ScriptFacts DEF CheckpointsHold
    <3>8. Stands(a)' = cuts[a] + 1
      <4>1. Stands(a)' = IF Pos' <= cuts'[a] THEN cuts'[a] + 1 ELSE Pos'
        BY DEF Stands
      <4>2. QED  BY <1>1, <2>2, <3>2, <4>1
    <3>9. ~RowsAt(Script, a, cuts[a] + 1)
      BY <3>5 DEF RowsAt
    <3>10. Current(a)'
      BY <1>1, <2>5, <3>3, <3>6, <3>7, <3>8, <3>9 DEF Current, LogBook
    <3>11. QED  BY <1>1, <3>3, <3>10 DEF SoundRight
  <2>8. Wanted' \subseteq Assets
    BY <1>1, WantedFacts
  <2>9. LoadedInv'
    BY <1>3 DEF LoadedInv
  <2>10. QED  BY <2>4, <2>6, <2>7, <2>8, <2>9 DEF BooksInv, WaitingInv, SoundInv
<1>4. QED  BY <1>1, <1>2, <1>3

\* What a move passes over is left out.
LEMMA MovedBooks ==
    ASSUME LogsAreOfAFeed, ReaderInv, CutsInv, BooksInv, Move, Lose(PassedOver),
           UNCHANGED << profile, cuts, pending, book, ready >>, AtWork' => AtWork, PastLoads'
    PROVE  BooksInv'
<1>1. Pos' = Global(rd')
  BY DEF Pos, Global
<1>2. Pos' \in Nat /\ Pos <= Pos'
  BY <1>1, Moved
<1>3. PICK S : S = PassedOver
  OBVIOUS
<1>4. S \in SUBSET (1 .. Pos') /\ (Pos' \in S \/ S = {}) /\ (S = {} => Pos' = Pos)
  BY <1>1, <1>3, Passed
<1>5. Lose(S)
  BY <1>3
<1>6. QED  BY <1>2, <1>4, <1>5, LostBooks

\* A reader that finds more in its segment has gone past nothing yet.
LEMMA GrownBooks ==
    ASSUME LogsAreOfAFeed, ReaderInv, CutsInv, BooksInv, Grow,
           UNCHANGED << profile, cuts, pending, book, ready, sound, lost >>, AtWork' => AtWork,
           PastLoads'
    PROVE  BooksInv'
<1>1. Pos' = Pos
  BY Grown DEF Pos, Global
<1>2. LoadedInv'
  BY DEF PastLoads, LoadedInv
<1>3. QED  BY <1>1, <1>2, QuietBooks

\* A hydration, from its beginning to the books of the whole log.
LEMMA HydrationKeepsBooks ==
    ASSUME LogsAreOfAFeed, ClientsInv, PlacesInv, BooksInv,
           \/ Start \/ BeginHydration \/ ReadCheckpoints \/ (\E a \in Assets : LoadCheckpoint(a))
           \/ OpenReplay \/ ReplaySkip \/ ReplayApply \/ ReplayMove \/ ReplayEnd \/ FinishHydration
    PROVE  BooksInv'
<1>. USE DEF bounds, flags, hydrationVars, lvars, ghosts
<1>0. ReaderInv /\ HandoffInv /\ CutsInv /\ PublishedInv /\ FlagsInv
  BY DEF PlacesInv, ClientsInv
<1>1. CASE Start
  <2>1. UNCHANGED << profile, pending, rd >> /\ pc' = "hydrate"
    BY <1>1 DEF Start
  <2>2. ~AtWork' /\ LoadedInv' /\ Pos' = Pos
    BY <2>1, PosSame DEF AtWork, Up, LoadedInv
  <2>3. QED  BY <1>0, <2>1, <2>2, QuietBooks
<1>2. CASE BeginHydration
  <2>1. /\ UNCHANGED << profile, pending, rd >> /\ pc' = "inventory"
        /\ sound' = [a \in Assets |-> FALSE]
    BY <1>2 DEF BeginHydration
  <2>2. ~AtWork' /\ Pos' = Pos
    BY <2>1, PosSame DEF AtWork, Up
  <2>3. DOMAIN sound' = Assets /\ \A a \in Assets : ~sound'[a]
    BY <2>1
  <2>4. LoadedInv'
    BY <2>1, <2>3 DEF LoadedInv
  <2>5. QED  BY <1>0, <2>1, <2>2, <2>4, QuietBooks
<1>3. CASE ReadCheckpoints
  <2>1. UNCHANGED << profile, pending, rd, sound >> /\ pc = "inventory" /\ pc' = "load"
    BY <1>3 DEF ReadCheckpoints
  <2>2. ~AtWork' /\ Pos' = Pos
    BY <2>1, PosSame DEF AtWork, Up
  <2>3. DOMAIN sound' = Assets /\ \A a \in Assets : ~sound'[a]
    BY <2>1 DEF BooksInv, LoadedInv
  <2>4. LoadedInv'
    BY <2>1, <2>3 DEF LoadedInv
  <2>5. QED  BY <1>0, <2>1, <2>2, <2>4, QuietBooks
<1>4. CASE \E a \in Assets : LoadCheckpoint(a)
  BY <1>0, <1>4, LoadKeepsBooks
<1>5. CASE OpenReplay
  BY <1>0, <1>5, OpenKeepsBooks
<1>6. CASE ReplaySkip
  <2>1. /\ pc = "replay" /\ pc' = "replay" /\ HasRecord /\ Deliver /\ BeforeCut(Index)
        /\ UNCHANGED << profile, cuts, pending, book, ready, sound, lost, recovered >>
    BY <1>6 DEF ReplaySkip
  <2>2. Index = Pos + 1 /\ Index \in DOMAIN Script /\ Pos' = Index
    BY <1>0, <2>1, Delivered DEF Pos, Global
  <2>3. \A a \in Assets : CutRight(a) /\ cuts[a] \in Int
    BY <1>0, <2>1, WantedFacts DEF Inventoried
  <2>4. Skips(Index)
    BY <2>1, <2>2, <2>3 DEF Skips
  <2>5. (AtWork' => AtWork) /\ PastLoads'
    BY <2>1 DEF AtWork, PastLoads
  <2>6. QED  BY <1>0, <2>4, <2>5, SkippedBooks
<1>7. CASE ReplayApply
  <2>1. /\ pc = "replay" /\ pc' = "replay" /\ HasRecord /\ Deliver /\ ~BeforeCut(Index)
        /\ ApplyLogged(Index) /\ UNCHANGED << profile, cuts, recovered >>
    BY <1>7 DEF ReplayApply
  <2>2. Index = Pos + 1 /\ Index \in DOMAIN Script /\ Pos' = Index
    BY <1>0, <2>1, Delivered DEF Pos, Global
  <2>3. Takes(Index)
    BY <2>1, <2>2 DEF Takes
  <2>4. Beyond(Index)
    <3>1. \A a \in Assets : cuts[a] \in Int
      BY <1>0, <2>1, WantedFacts DEF Inventoried
    <3>2. Index \in Int
      BY <1>0, <2>2, ReaderFacts
    <3>3. ASSUME NEW a \in Assets, Script[Index].asset = a PROVE cuts[a] < Index
      <4>1. ~(Index <= cuts[a])
        BY <2>1, <3>3, RecordsAssumption DEF BeforeCut
      <4>2. QED  BY <3>1, <3>2, <4>1
    <3>4. QED  BY <3>1, <3>3 DEF Beyond
  <2>5. (AtWork' => AtWork) /\ PastLoads'
    BY <2>1 DEF AtWork, PastLoads
  <2>6. QED  BY <1>0, <2>3, <2>4, <2>5, TakenBooks
<1>8. CASE ReplayMove
  <2>1. /\ pc = "replay" /\ pc' = "replay" /\ UNCHANGED << profile, cuts, pending, book, ready, recovered >>
        /\ (Move /\ Lose(PassedOver)) \/ (Grow /\ UNCHANGED << sound, lost >>)
    BY <1>8 DEF ReplayMove
  <2>2. (AtWork' => AtWork) /\ PastLoads'
    BY <2>1 DEF AtWork, PastLoads
  <2>3. CASE Move /\ Lose(PassedOver)
    BY <1>0, <2>1, <2>2, <2>3, MovedBooks
  <2>4. CASE Grow /\ UNCHANGED << sound, lost >>
    BY <1>0, <2>1, <2>2, <2>4, GrownBooks
  <2>5. QED  BY <2>1, <2>3, <2>4
<1>9. CASE ReplayEnd
  <2>1. /\ pc = "replay" /\ pc' = "finish"
        /\ UNCHANGED << profile, cuts, pending, book, ready, sound, lost >>
        /\ (AtEnd /\ UNCHANGED recovered) \/ (rd' = rd /\ ~recovered')
    BY <1>9 DEF ReplayEnd
  <2>2. Pos' = Pos
    <3>1. CASE AtEnd
      BY <1>0, <3>1, Ended DEF Pos, Global
    <3>2. QED  BY <2>1, <3>1, PosSame
  <2>3. (AtWork' => AtWork) /\ LoadedInv'
    BY <2>1 DEF AtWork, LoadedInv
  <2>4. QED  BY <1>0, <2>1, <2>2, <2>3, QuietBooks
<1>10. CASE FinishHydration
  <2>1. /\ pc = "finish" /\ pc' \in {"sync", "open"}
        /\ UNCHANGED << rd, profile, cuts, pending, book, ready, sound, lost, recovered >>
    BY <1>10 DEF FinishHydration
  <2>2. (AtWork' => AtWork) /\ LoadedInv' /\ Pos' = Pos
    BY <2>1, PosSame DEF AtWork, LoadedInv
  <2>3. QED  BY <1>0, <2>1, <2>2, QuietBooks
<1>11. QED
  BY <1>1, <1>2, <1>3, <1>4, <1>5, <1>6, <1>7, <1>8, <1>9, <1>10

\* Where no books are kept, only the rows that wait are of interest.
LEMMA IdleBooks ==
    ASSUME LogsAreOfAFeed, ReaderInv, BooksInv, UNCHANGED << profile, pending >>,
           Pos' \in Nat, Pos <= Pos', ~AtWork', PastLoads'
    PROVE  BooksInv'
<1>1. RowsInv'
  BY RowsForward DEF BooksInv, RowsInv
<1>2. QED  BY <1>1 DEF BooksInv, WaitingInv, SoundInv, LoadedInv, PastLoads

\* Books that are dropped are not sound any more; the others are what they were.
LEMMA SyncKeepsBooks ==
    ASSUME LogsAreOfAFeed, ReaderInv, CutsInv, PublishedInv, FlagsInv, BooksInv, SyncBooks
    PROVE  BooksInv'
<1>. USE DEF bounds, flags, hydrationVars
<1>1. /\ pc = "activate" /\ pc' = after /\ SetActive(followed) /\ UNCHANGED << profile, rd, cuts, lost, recovered >>
      /\ sound' = [a \in Assets |-> a \in followed /\ sound[a]]
  BY DEF SyncBooks
<1>2. Pos' = Pos /\ Pos \in Nat
  BY <1>1, PosSame, ReaderFacts
<1>3. (AtWork' => AtWork) /\ PastLoads'
  BY <1>1 DEF AtWork, PastLoads, Up, FlagsInv
<1>4. ASSUME NEW a \in Assets
      PROVE  /\ pending'[a] = pending[a] \/ pending'[a] = NoPending
             /\ a \notin followed => pending'[a] = NoPending /\ ~sound'[a]
             /\ a \in followed =>
                  /\ pending'[a] = pending[a] /\ (sound'[a] => sound[a])
                  /\ ready'[a] = ready[a]
                  /\ ready[a] => book'[a] = book[a]
  <2>1. pending'[a] = IF a \in followed THEN pending[a] ELSE NoPending
    BY <1>1 DEF SetActive, PendingOf
  <2>2. sound'[a] <=> a \in followed /\ sound[a]
    BY <1>1
  <2>3. ready'[a] = (a \in followed /\ ready[a])
    BY <1>1 DEF SetActive
  <2>4. book'[a] = IF a \in followed /\ a \in known THEN book[a] ELSE EmptyBook
    BY <1>1 DEF SetActive
  <2>5. (ready[a] => a \in known) /\ ready[a] \in BOOLEAN
    BY DEF PublishedInv
  <2>6. QED  BY <2>1, <2>2, <2>3, <2>4, <2>5
<1>5. RowsInv'
  BY <1>1, <1>2, <1>4, RowsForward DEF BooksInv, RowsInv
<1>6. ASSUME AtWork', NEW a \in Wanted' PROVE WaitsRight(a)' /\ SoundRight(a)'
  <2>1. a \in Wanted /\ a \in Assets
    BY <1>1, <1>6, WantedFacts
  <2>2. WaitsRight(a) /\ SoundRight(a)
    BY <1>3, <1>6, <2>1 DEF BooksInv, WaitingInv, SoundInv
  <2>3. CASE a \notin followed
    <3>1. pending'[a] = NoPending /\ ~sound'[a]
      BY <1>4, <2>1, <2>3
    <3>2. QED  BY <1>1, <1>2, <2>2, <3>1, StayKeepsBooks
  <2>4. CASE a \in followed
    <3>1. sound[a] => ready[a]
      BY <2>2 DEF SoundRight
    <3>2. /\ pending'[a] = pending[a] /\ (sound'[a] => sound[a])
          /\ (sound[a] => book'[a] = book[a] /\ (ready[a] => ready'[a]))
      BY <1>4, <2>1, <2>4, <3>1
    <3>3. QED  BY <1>1, <1>2, <2>2, <3>2, StayKeepsBooks
  <2>5. QED  BY <2>3, <2>4
<1>7. QED  BY <1>3, <1>5, <1>6 DEF BooksInv, WaitingInv, SoundInv, LoadedInv, PastLoads

\* The tail goes on with the books of the hydration.
LEMMA TailKeepsBooks ==
    ASSUME LogsAreOfAFeed, ClientsInv, PlacesInv, BooksInv,
           \/ SyncNothing \/ SyncChannels \/ SyncBooks
           \/ OpenTail \/ OpenTailFails \/ TailResync \/ TailApply \/ TailSkips \/ ProjectorDies
           \/ TailMove \/ TailIdle
    PROVE  BooksInv'
<1>. USE DEF bounds, flags, hydrationVars, lvars, ghosts
<1>0. ReaderInv /\ HandoffInv /\ CutsInv /\ PublishedInv /\ FlagsInv
  BY DEF PlacesInv, ClientsInv
<1>1. CASE SyncNothing \/ SyncChannels \/ OpenTailFails
  <2>1. /\ pc \in Up /\ pc' \in Up
        /\ UNCHANGED << rd, profile, cuts, pending, book, ready, sound, lost, recovered >>
    BY <1>0, <1>1 DEF SyncNothing, SyncChannels, OpenTailFails, Up, FlagsInv
  <2>2. (AtWork' => AtWork) /\ LoadedInv' /\ Pos' = Pos
    BY <2>1, PosSame DEF AtWork, LoadedInv, Up
  <2>3. QED  BY <1>0, <2>1, <2>2, QuietBooks
<1>2. CASE SyncBooks
  BY <1>0, <1>2, SyncKeepsBooks
<1>3. CASE OpenTail
  <2>1. /\ pc = "open" /\ pc' = "tail" /\ rd' = ReaderAt(TailPosition)
        /\ UNCHANGED << profile, pending, cuts, book, ready, recovered >>
        /\ resumeAt # NoPosition => UNCHANGED << sound, lost >>
    BY <1>3 DEF OpenTail
  <2>2. Pos' = Global(TailPosition)
    BY <2>1 DEF ReaderAt, Pos, Global
  <2>3. Pos' \in Nat /\ Pos <= Pos' /\ (resumeAt # NoPosition => Pos' = Pos)
    BY <1>0, <2>1, <2>2, TailOpens
  <2>4. CASE AtWork'
    <3>1. AtWork
      BY <2>1, <2>4 DEF AtWork, Up
    <3>2. resumeAt # NoPosition
      BY <1>0, <2>1, <3>1 DEF CutsInv
    <3>3. LoadedInv'
      BY <2>1 DEF LoadedInv
    <3>4. QED  BY <1>0, <2>1, <2>3, <3>1, <3>2, <3>3, QuietBooks
  <2>5. CASE ~AtWork'
    <3>1. PastLoads'
      BY <2>1 DEF PastLoads
    <3>2. QED  BY <1>0, <2>1, <2>3, <2>5, <3>1, IdleBooks
  <2>6. QED  BY <2>4, <2>5
<1>4. CASE TailResync
  <2>1. pc' = "hydrate" /\ UNCHANGED << profile, pending, rd >>
    BY <1>4 DEF TailResync
  <2>2. ~AtWork' /\ PastLoads' /\ Pos' = Pos /\ Pos \in Nat
    BY <1>0, <2>1, PosSame, ReaderFacts DEF AtWork, Up, PastLoads
  <2>3. QED  BY <1>0, <2>1, <2>2, IdleBooks
<1>5. CASE ProjectorDies
  <2>1. pc' = "stopped" /\ UNCHANGED << profile, pending >> /\ HasRecord /\ Deliver
    BY <1>5 DEF ProjectorDies
  <2>2. Pos' = Pos + 1 /\ Pos \in Nat
    BY <1>0, <2>1, Delivered, ReaderFacts DEF Pos, Global
  <2>3. ~AtWork' /\ PastLoads'
    BY <2>1 DEF AtWork, Up, PastLoads
  <2>4. QED  BY <1>0, <2>1, <2>2, <2>3, IdleBooks
<1>6. CASE TailApply
  <2>1. /\ pc \in {"tail", "next"} /\ pc' \in {"tail", "sync"} /\ HasRecord /\ Deliver
        /\ ApplyLogged(Index) /\ UNCHANGED << profile, cuts, recovered >>
    BY <1>6 DEF TailApply, Polling
  <2>2. Index = Pos + 1 /\ Index \in DOMAIN Script /\ Pos' = Index
    BY <1>0, <2>1, Delivered DEF Pos, Global
  <2>3. Takes(Index)
    BY <2>1, <2>2 DEF Takes
  <2>4. (AtWork' => AtWork) /\ PastLoads'
    BY <2>1 DEF AtWork, PastLoads, Up
  <2>5. ASSUME AtWork PROVE Beyond(Index)
    <3>1. \A a \in Assets : cuts[a] \in Int
      BY <1>0, <2>5, WantedFacts
    <3>2. \A a \in Assets : cuts[a] < Pos
      BY <1>0, <2>1, <2>5 DEF CutsInv
    <3>3. Pos \in Nat
      BY <1>0, ReaderFacts
    <3>4. QED  BY <2>2, <3>1, <3>2, <3>3 DEF Beyond
  <2>6. QED  BY <1>0, <2>3, <2>4, <2>5, TakenBooks
<1>7. CASE TailSkips
  <2>1. /\ pc \in {"tail", "next"} /\ pc' = "tail" /\ HasRecord /\ Deliver /\ Lose({Index})
        /\ UNCHANGED << profile, cuts, pending, book, ready, recovered >>
    BY <1>7 DEF TailSkips, Polling
  <2>2. Index = Pos + 1 /\ Pos' = Index /\ Pos \in Nat
    BY <1>0, <2>1, Delivered, ReaderFacts DEF Pos, Global
  <2>3. (AtWork' => AtWork) /\ PastLoads'
    BY <2>1 DEF AtWork, PastLoads, Up
  <2>4. PICK S : S = {Index}
    OBVIOUS
  <2>5. S \in SUBSET (1 .. Pos') /\ Pos' \in S /\ S # {} /\ Pos' \in Nat /\ Pos <= Pos'
    BY <2>2, <2>4
  <2>6. Lose(S)
    BY <2>1, <2>4
  <2>7. QED  BY <1>0, <2>1, <2>3, <2>5, <2>6, LostBooks
<1>8. CASE TailMove
  <2>1. /\ pc \in {"tail", "next"} /\ pc' = "next"
        /\ UNCHANGED << profile, cuts, pending, book, ready, recovered >>
        /\ (Move /\ Lose(PassedOver)) \/ (Grow /\ UNCHANGED << sound, lost >>)
    BY <1>8 DEF TailMove, Polling
  <2>2. (AtWork' => AtWork) /\ PastLoads'
    BY <2>1 DEF AtWork, PastLoads, Up
  <2>3. CASE Move /\ Lose(PassedOver)
    BY <1>0, <2>1, <2>2, <2>3, MovedBooks
  <2>4. CASE Grow /\ UNCHANGED << sound, lost >>
    BY <1>0, <2>1, <2>2, <2>4, GrownBooks
  <2>5. QED  BY <2>1, <2>3, <2>4
<1>9. CASE TailIdle
  <2>1. /\ pc \in {"tail", "next"} /\ pc' \in {"sync", "tail"} /\ AtEnd
        /\ UNCHANGED << profile, cuts, pending, book, ready, sound, lost, recovered >>
    BY <1>9 DEF TailIdle, Polling
  <2>2. Pos' = Pos
    BY <1>0, <2>1, Ended DEF Pos, Global
  <2>3. (AtWork' => AtWork) /\ LoadedInv'
    BY <2>1 DEF AtWork, LoadedInv, Up
  <2>4. QED  BY <1>0, <2>1, <2>2, <2>3, QuietBooks
<1>10. QED
  BY <1>1, <1>2, <1>3, <1>4, <1>5, <1>6, <1>7, <1>8, <1>9

\* The log grows and is pruned elsewhere; a process that ends leaves no books.
LEMMA OthersKeepBooks ==
    ASSUME LogsAreOfAFeed, PlacesInv, BooksInv,
           AppendLog \/ Prune \/ FlushParquet \/ Stop \/ UNCHANGED vars
    PROVE  BooksInv'
<1>. USE DEF bounds, hydrationVars, lvars, ghosts, processVars
<1>0. ReaderInv /\ CutsInv
  BY DEF PlacesInv
<1>1. CASE AppendLog \/ Prune \/ FlushParquet \/ UNCHANGED vars
  <2>1. UNCHANGED << rd, profile, pc, cuts, toLoad, pending, book, ready, sound, lost, recovered >>
    BY <1>1 DEF AppendLog, Prune, FlushParquet, vars
  <2>2. (AtWork' => AtWork) /\ Pos' = Pos
    BY <2>1, PosSame DEF AtWork
  <2>3. LoadedInv
    BY DEF BooksInv
  <2>4. LoadedInv'
    BY <2>1, <2>3 DEF LoadedInv, LogBook
  <2>5. QED  BY <1>0, <2>1, <2>2, <2>4, QuietBooks
<1>2. CASE Stop
  <2>1. pc' = "down" /\ pending' = [a \in Assets |-> NoPending]
    BY <1>2 DEF Stop, ProcessGone
  <2>2. ~AtWork' /\ LoadedInv'
    BY <2>1 DEF AtWork, Up, LoadedInv
  <2>3. RowsInv'
    BY <2>1 DEF RowsInv, RowsRight
  <2>4. QED  BY <2>2, <2>3 DEF BooksInv, WaitingInv, SoundInv
<1>3. QED  BY <1>1, <1>2

\* A process that was not started has no books.
LEMMA ServedInit ==
    ASSUME LogsAreOfAFeed, SInit
    PROVE  ServedInv
<1>1. PlacesInv
  BY PlacesInit DEF PlacesInv
<1>2. pc = "down" /\ \A a \in Assets : pending[a] = NoPending
  BY DEF SInit, Init, LiveInit
<1>3. BooksInv
  BY <1>2 DEF BooksInv, RowsInv, RowsRight, WaitingInv, SoundInv, LoadedInv, AtWork, Up
<1>4. QED  BY <1>1, <1>3 DEF ServedInv

\* No step of anyone breaks it.
LEMMA ServedStep ==
    ASSUME LogsAreOfAFeed, ClientsInv, ServedInv, [SNext]_svars
    PROVE  ServedInv'
<1>0. FlagsInv /\ ReaderInv /\ HandoffInv /\ CutsInv /\ WantedInv /\ PlacesInv /\ BooksInv
  BY DEF ClientsInv, ServedInv, PlacesInv
<1>1. CASE \/ Start \/ BeginHydration \/ ReadCheckpoints \/ (\E a \in Assets : LoadCheckpoint(a))
           \/ OpenReplay \/ ReplaySkip \/ ReplayApply \/ ReplayMove \/ ReplayEnd \/ FinishHydration
  <2>1. ReaderInv'
    BY <1>0, <1>1, HydrationKeepsReader
  <2>2. HandoffInv'
    BY <1>0, <1>1, HydrationHandsOff
  <2>3. CutsInv'
    BY <1>0, <1>1, <2>1, HydrationKeepsCuts
  <2>4. WantedInv'
    BY <1>0, <1>1, HydrationKeepsWanted
  <2>5. BooksInv'
    BY <1>0, <1>1, HydrationKeepsBooks
  <2>6. QED  BY <2>1, <2>2, <2>3, <2>4, <2>5 DEF ServedInv, PlacesInv
<1>2. CASE \/ SyncNothing \/ SyncChannels \/ SyncBooks
           \/ OpenTail \/ OpenTailFails \/ TailResync \/ TailApply \/ TailSkips \/ ProjectorDies
           \/ TailMove \/ TailIdle
  <2>1. ReaderInv'
    BY <1>0, <1>2, TailKeepsReader
  <2>2. HandoffInv'
    BY <1>0, <1>2, TailHandsOff
  <2>3. CutsInv'
    BY <1>0, <1>2, TailKeepsCuts
  <2>4. WantedInv'
    BY <1>0, <1>2, TailKeepsWanted
  <2>5. BooksInv'
    BY <1>0, <1>2, TailKeepsBooks
  <2>6. QED  BY <2>1, <2>2, <2>3, <2>4, <2>5 DEF ServedInv, PlacesInv
<1>3. CASE AppendLog \/ Prune \/ FlushParquet \/ Stop \/ UNCHANGED vars
  <2>1. ReaderInv'
    BY <1>0, <1>3, OthersKeepReader
  <2>2. HandoffInv'
    BY <1>0, <1>3, OthersHandOff
  <2>3. CutsInv'
    BY <1>0, <1>3, OthersKeepCuts
  <2>4. WantedInv'
    BY <1>0, <1>3, OthersKeepWanted
  <2>5. BooksInv'
    BY <1>0, <1>3, OthersKeepBooks
  <2>6. QED  BY <2>1, <2>2, <2>3, <2>4, <2>5 DEF ServedInv, PlacesInv
<1>4. CASE Server
  BY <1>1, <1>2, <1>4 DEF Server
<1>5. CASE Ingest \/ Environment
  BY <1>2, <1>3, <1>5 DEF Ingest, Environment
<1>6. CASE \E s \in Sessions : Connect(s) \/ SessionStep(s) \/ Leave(s)
  <2>1. UNCHANGED vars
    BY <1>6 DEF Connect, SessionStep, Leave, InitSnapshot, RecvLagged, RecvUpdate, RecvClosed
  <2>2. QED  BY <1>3, <2>1
<1>7. CASE UNCHANGED svars
  BY <1>3, <1>7 DEF svars
<1>8. QED  BY <1>4, <1>5, <1>6, <1>7 DEF SNext

\* A process that is ready has its reader where Reached says, beyond every cut.
LEMMA ReadyAtWork ==
    ASSUME FlagsInv, PlacesInv, Ready
    PROVE  AtWork /\ Reached = Pos /\ \A a \in Assets : cuts[a] \in Int /\ cuts[a] < Pos
<1>1. ReaderInv /\ HandoffInv /\ CutsInv
  BY DEF PlacesInv
<1>2. recovered /\ pc \in Up /\ pc # "replay" /\ after \in {"open", "tail"}
  BY DEF FlagsInv, Ready, Up
<1>3. AtWork
  BY <1>2 DEF AtWork
<1>4. resumeAt # NoPosition /\ \A a \in Assets : cuts[a] < Pos
  BY <1>1, <1>2, <1>3 DEF CutsInv
<1>5. \A a \in Assets : cuts[a] \in Int
  BY <1>1, <1>3, WantedFacts
<1>6. Reached = Pos
  <2>1. CASE pc \in {"tail", "next"} \/ after = "tail"
    BY <2>1 DEF Reached, Pos
  <2>2. CASE ~(pc \in {"tail", "next"} \/ after = "tail")
    <3>1. ToOpen
      BY <1>2, <2>2 DEF ToOpen, Up
    <3>2. Global(resumeAt) = Pos
      BY <1>1, <1>4, <3>1 DEF HandoffInv
    <3>3. QED  BY <2>2, <3>2 DEF Reached
  <2>3. QED  BY <2>1, <2>2
<1>7. QED  BY <1>3, <1>4, <1>5, <1>6

\* Then every sound book is the one the log leads to.
LEMMA ReadyBooks ==
    ASSUME LogsAreOfAFeed, FlagsInv, ServedInv, Ready, NEW a \in Wanted, sound[a]
    PROVE  book[a] = LogBook(a, Pos)
<1>1. ReaderInv /\ CutsInv /\ PlacesInv
  BY DEF ServedInv, PlacesInv
<1>2. a \in Assets /\ AtWork /\ Pos \in Nat /\ \A b \in Assets : cuts[b] \in Int /\ cuts[b] < Pos
  BY <1>1, WantedFacts, ReadyAtWork, ReaderFacts
<1>3. RowsRight(a) /\ WaitsRight(a) /\ SoundRight(a)
  BY <1>2 DEF ServedInv, BooksInv, RowsInv, WaitingInv, SoundInv
<1>4. CASE pending[a] = NoPending
  <2>1. Stands(a) = Pos
    BY <1>2 DEF Stands
  <2>2. Current(a)
    BY <1>3, <1>4 DEF SoundRight
  <2>3. QED  BY <2>1, <2>2 DEF Current
<1>5. CASE pending[a] # NoPending
  <2>1. Replaced(a)
    BY <1>3, <1>5 DEF SoundRight
  <2>2. PICK f, l \in DOMAIN Script : GroupRun(Script, a, pending[a].key, f, l)
    BY <1>3, <1>5 DEF RowsRight
  <2>3. Complete(a, f, l) /\ (Pos <= l => book[a] = LogBook(a, Pos))
    BY <2>1, <2>2 DEF Replaced
  <2>4. ~(l < Pos)
    <3>1. SUFFICES ASSUME l < Pos PROVE FALSE
      OBVIOUS
    <3>2. \E b \in Assets : Pos <= cuts[b]
      BY <1>3, <1>5, <2>3, <3>1 DEF WaitsRight
    <3>3. QED  BY <1>2, <3>2
  <2>5. l \in Int
    BY <1>1, ScriptFacts DEF ReaderInv
  <2>6. QED  BY <1>2, <2>3, <2>4, <2>5
<1>6. QED  BY <1>4, <1>5

\* What the snapshot request answers of a book that is served.
LEMMA AnsweredBook ==
    ASSUME PublishedInv, NEW a \in Assets, OrderbookSnapshot(published, a, MaxDepth).status = OK
    PROVE  /\ a \in active
           /\ OrderbookSnapshot(published, a, MaxDepth).levels = Shown(book[a].size, MaxDepth)
<1>1. DepthAllowed(MaxDepth) /\ a \in published.active /\ Serves(published, a)
  BY DEF OrderbookSnapshot, BadRequest, NotFound, Unavailable, Refusal, OK
<1>2. published.active = active /\ published.view[a].book = book[a].size
  BY <1>1 DEF PublishedInv, Serves
<1>3. QED  BY <1>1, <1>2 DEF OrderbookSnapshot

\* ServedInv is what it takes.
LEMMA ServedIsServed ==
    ASSUME LogsAreOfAFeed, ClientsInv, ServedInv
    PROVE  ServedFromLog
<1>1. SUFFICES ASSUME Ready, NEW a \in Assets, sound[a],
                      OrderbookSnapshot(published, a, MaxDepth).status = OK
               PROVE  OrderbookSnapshot(published, a, MaxDepth).levels
                          = Shown(LogBook(a, Reached).size, MaxDepth)
  BY DEF ServedFromLog
<1>2. a \in active /\ OrderbookSnapshot(published, a, MaxDepth).levels = Shown(book[a].size, MaxDepth)
  BY <1>1, AnsweredBook DEF ClientsInv
<1>3. a \in Wanted
  BY <1>2 DEF ServedInv, PlacesInv, WantedInv
<1>4. book[a] = LogBook(a, Pos)
  BY <1>1, <1>3, ReadyBooks DEF ClientsInv
<1>5. Reached = Pos
  BY <1>1, ReadyAtWork DEF ClientsInv, ServedInv
<1>6. QED  BY <1>2, <1>4, <1>5

\* A ready process serves, of every asset whose book goes back to a whole snapshot or to a
\* checkpoint the retained log continues, the book the log leads to at the reader's position:
\* for any logs of a feed, whatever is pruned, skipped, flushed or fails, however often the
\* process resynchronizes or restarts, and whatever the cuts of its checkpoints are
\* (hydrate, replay_wal_tail, spawn_wal_tailer, get_orderbook_snapshot).
THEOREM ServedFromLogAlways == LogsAreOfAFeed => (Spec => []ServedFromLog)
<1>. SUFFICES ASSUME LogsAreOfAFeed PROVE Spec => []ServedFromLog
  OBVIOUS
<1>1. SInit => ClientsInv /\ ServedInv
  BY ClientsInit, ServedInit
<1>2. ClientsInv /\ ServedInv /\ [SNext]_svars => ClientsInv' /\ ServedInv'
  BY ClientsStep, ServedStep
<1>3. ClientsInv /\ ServedInv => ServedFromLog
  BY ServedIsServed
<1>4. QED  BY <1>1, <1>2, <1>3, PTL DEF Spec
================================================================================
