---------------------------- MODULE LiveStateProofs ----------------------------
(***************************************************************************)
(* What the projector publishes and broadcasts, for any assets, prices and *)
(* records.  A record republishes only some views (refresh_asset_views):   *)
(* PublishedInv says of every view what is right all the same.             *)
(***************************************************************************)
EXTENDS LiveState, TLAPS

\* The books and the readiness in the views are the projector's; groups wait and books
\* are ready only where there is an entry.
PublishedInv ==
    /\ DOMAIN book = Assets /\ DOMAIN pending = Assets
    /\ ready \in [Assets -> BOOLEAN]
    /\ active \subseteq Assets
    /\ \A a \in Assets : ready[a] \/ pending[a] # NoPending => a \in known
    /\ DOMAIN published = {"active", "session", "view"} /\ DOMAIN published.view = Assets
    /\ published.active = active
    /\ \A a \in Assets :
        /\ published.view[a].has <=> a \in known
        /\ a \in known => published.view[a].book = book[a].size /\ (published.view[a].ready <=> ready[a])

\* Every change of a book that is served is in the updates: see NothingSilent.
Announced ==
    \A a \in active' \cap active :
        Serves(published', a) /\ published'.view[a] # published.view[a]
        /\ (Serves(published, a) => published'.view[a].book # published.view[a].book)
        => [asset |-> a, book |-> published'.view[a].book] \in updates'

\* The updates have the books that are published, of assets that are active and ready.
UpdatesInv ==
    \A u \in updates : u.asset \in active /\ ready[u.asset] /\ u.book = published.view[u.asset].book

\* Readers start with nothing.
LEMMA PublishedInit == LiveInit => PublishedInv /\ UpdatesInv
<1>. SUFFICES ASSUME LiveInit PROVE PublishedInv /\ UpdatesInv
  OBVIOUS
<1>1. \A a \in Assets : View(a) = [has |-> FALSE]
  BY DEF LiveInit, View, NoView
<1>2. published = [active |-> {}, session |-> "starting", view |-> [a \in Assets |-> View(a)]]
  BY DEF LiveInit, FullView
<1>3. QED  BY <1>1, <1>2 DEF LiveInit, PublishedInv, UpdatesInv

\* What is materialized on the way had an entry.
LEMMA MaterializedKnown ==
    ASSUME PublishedInv, NEW rec
    PROVE  /\ Materialized(rec) \subseteq EndedGroups(rec)
           /\ EndedGroups(rec) \subseteq Assets \cap known
           /\ \A a \in EndedGroups(rec) : pending[a] # NoPending
BY DEF PublishedInv, Materialized, EndedGroups, HasPending

\* A step that republishes what it changed, and broadcasts it where it is served.
LEMMA RefreshPublishes ==
    ASSUME PublishedInv, NEW rec, NEW changed, NEW sent,
           DOMAIN book' = Assets, DOMAIN pending' = Assets, ready' \in [Assets -> BOOLEAN],
           active' = active,
           known \subseteq known', known' \subseteq known \cup changed \cup Materialized(rec),
           \A a \in Assets : ready'[a] \/ pending'[a] # NoPending => a \in known',
           \A a \in Assets \ (changed \cup Materialized(rec)) :
               book'[a] = book[a] /\ ready'[a] = ready[a],
           \A a \in Assets \ (sent \cup Materialized(rec)) :
               book'[a] = book[a] /\ ready'[a] = ready[a],
           Refresh(changed, rec), Broadcast(sent, rec)
    PROVE  PublishedInv' /\ UpdatesInv' /\ Announced
<1>1. PublishedInv'
  <2>1. \A a \in Assets : published'.view[a] = IF a \in changed \cup Materialized(rec)
                                             THEN View(a)' ELSE published.view[a]
    BY DEF Refresh
  <2>2. DOMAIN published' = {"active", "session", "view"} /\ DOMAIN published'.view = Assets
        /\ published'.active = active'
    BY DEF Refresh, PublishedInv
  <2>3. ASSUME NEW a \in Assets, a \in changed \cup Materialized(rec)
        PROVE  /\ published'.view[a].has <=> a \in known'
               /\ a \in known' => /\ published'.view[a].book = book'[a].size
                                 /\ (published'.view[a].ready <=> ready'[a])
    <3>1. published'.view[a] = View(a)'
      BY <2>1, <2>3
    <3>2. CASE a \in known'
      BY <3>1, <3>2 DEF View
    <3>3. CASE a \notin known'
      BY <3>1, <3>3 DEF View, NoView
    <3>4. QED  BY <3>2, <3>3
  <2>4. ASSUME NEW a \in Assets, a \notin changed \cup Materialized(rec)
        PROVE  /\ published'.view[a].has <=> a \in known'
               /\ a \in known' => /\ published'.view[a].book = book'[a].size
                                 /\ (published'.view[a].ready <=> ready'[a])
    <3>1. published'.view[a] = published.view[a]
      BY <2>1, <2>4
    <3>2. (a \in known') = (a \in known)
      BY <2>4
    <3>3. book'[a] = book[a] /\ ready'[a] = ready[a]
      BY <2>4
    <3>4. QED  BY <3>1, <3>2, <3>3 DEF PublishedInv
  <2>5. active' \subseteq Assets
    BY DEF PublishedInv
  <2>6. QED  BY <2>2, <2>3, <2>4, <2>5 DEF PublishedInv
<1>2. \A a \in Assets \cap known' : published'.view[a].book = book'[a].size
  BY <1>1 DEF PublishedInv
<1>3. UpdatesInv'
  BY <1>1, <1>2 DEF Broadcast, UpdatesInv, PublishedInv
<1>4. Announced
  <2>. SUFFICES ASSUME NEW a \in active' \cap active, Serves(published', a),
                       Serves(published, a) => published'.view[a].book # published.view[a].book
                PROVE  [asset |-> a, book |-> published'.view[a].book] \in updates'
    BY DEF Announced
  <2>1. a \in Assets /\ a \in known' /\ ready'[a]
    BY <1>1 DEF PublishedInv, Serves
  <2>2. CASE a \in sent \cup Materialized(rec)
    BY <2>1, <2>2, <1>2 DEF Broadcast
  <2>3. CASE a \notin sent \cup Materialized(rec)
    <3>1. book'[a] = book[a] /\ ready[a]
      BY <2>1, <2>3
    <3>2. a \in known /\ Serves(published, a)
      BY <2>1, <3>1 DEF PublishedInv, Serves
    <3>3. published'.view[a].book = published.view[a].book
      BY <2>1, <3>1, <3>2, <1>2 DEF PublishedInv
    <3>4. QED  BY <3>2, <3>3
  <2>4. QED  BY <2>2, <2>3
<1>5. QED  BY <1>1, <1>3, <1>4

\* What materialize_pending_before_record leaves alone.
LEMMA MaterializeFacts ==
    ASSUME PublishedInv, NEW rec
    PROVE  /\ DOMAIN MatBook(rec) = Assets /\ DOMAIN MatPending(rec) = Assets
           /\ MatReady(rec) \in [Assets -> BOOLEAN]
           /\ \A a \in Assets : MatReady(rec)[a] \/ MatPending(rec)[a] # NoPending => a \in known
           /\ \A a \in Assets \ Materialized(rec) :
                MatBook(rec)[a] = book[a] /\ MatReady(rec)[a] = ready[a]
           /\ known \cup EndedGroups(rec) = known
<1>1. /\ DOMAIN MatBook(rec) = Assets /\ DOMAIN MatPending(rec) = Assets
      /\ MatReady(rec) \in [Assets -> BOOLEAN]
  BY DEF PublishedInv, MatBook, MatPending, MatReady
<1>2. \A a \in Assets : MatReady(rec)[a] \/ MatPending(rec)[a] # NoPending => a \in known
  BY MaterializedKnown DEF PublishedInv, MatReady, MatPending
<1>3. \A a \in Assets \ Materialized(rec) :
        MatBook(rec)[a] = book[a] /\ MatReady(rec)[a] = ready[a]
  BY DEF PublishedInv, MatBook, MatReady
<1>4. known \cup EndedGroups(rec) = known
  BY MaterializedKnown
<1>5. QED  BY <1>1, <1>2, <1>3, <1>4

\* Whatever the record, the views that are not republished are still right, and every
\* change of a served book is broadcast.
LEMMA ApplyRecordPublishes ==
    ASSUME PublishedInv, NEW rec, ApplyRecord(rec)
    PROVE  PublishedInv' /\ UpdatesInv' /\ Announced
<1>1. CASE ApplyRow(rec)
  <2>1. DOMAIN book' = Assets /\ DOMAIN pending' = Assets /\ ready' \in [Assets -> BOOLEAN]
    BY <1>1, MaterializeFacts DEF ApplyRow
  <2>2. known' = known \cup {rec.asset}
    BY <1>1, MaterializeFacts DEF ApplyRow
  <2>3. \A a \in Assets : ready'[a] \/ pending'[a] # NoPending => a \in known'
    BY <1>1, <2>2, MaterializeFacts DEF ApplyRow
  <2>4. \A a \in Assets \ Materialized(rec) : book'[a] = book[a] /\ ready'[a] = ready[a]
    BY <1>1, MaterializeFacts DEF ApplyRow
  <2>5. active' = active /\ Refresh({rec.asset}, rec) /\ Broadcast({}, rec)
    BY <1>1 DEF ApplyRow
  <2>6. QED  BY <2>1, <2>2, <2>3, <2>4, <2>5, RefreshPublishes
<1>2. CASE ApplyDelta(rec)
  <2>1. DOMAIN book' = Assets /\ DOMAIN pending' = Assets /\ ready' \in [Assets -> BOOLEAN]
    BY <1>2, MaterializeFacts DEF ApplyDelta
  <2>2. known' = known \cup {rec.asset}
    BY <1>2, MaterializeFacts DEF ApplyDelta
  <2>3. \A a \in Assets : ready'[a] \/ pending'[a] # NoPending => a \in known'
    BY <1>2, <2>2, MaterializeFacts DEF ApplyDelta
  <2>4. \A a \in Assets \ ({rec.asset} \cup Materialized(rec)) :
            book'[a] = book[a] /\ ready'[a] = ready[a]
    BY <1>2, MaterializeFacts DEF ApplyDelta
  <2>5. active' = active /\ Refresh({rec.asset}, rec) /\ Broadcast({rec.asset}, rec)
    BY <1>2 DEF ApplyDelta
  <2>6. QED  BY <2>1, <2>2, <2>3, <2>4, <2>5, RefreshPublishes
<1>3. CASE ApplyIngest(rec)
  <2>. DEFINE named == {rec.asset} \cap Assets
  <2>1. DOMAIN book' = Assets /\ DOMAIN pending' = Assets /\ ready' \in [Assets -> BOOLEAN]
    BY <1>3, MaterializeFacts DEF ApplyIngest
  <2>2. known' = known \cup named
    BY <1>3, MaterializeFacts DEF ApplyIngest
  <2>3. \A a \in Assets : ready'[a] \/ pending'[a] # NoPending => a \in known'
    BY <1>3, <2>2, MaterializeFacts DEF ApplyIngest
  <2>4. \A a \in Assets \ Materialized(rec) : book'[a] = book[a] /\ ready'[a] = ready[a]
    BY <1>3, MaterializeFacts DEF ApplyIngest
  <2>5. active' = active /\ Refresh(named, rec) /\ Broadcast({}, rec)
    BY <1>3 DEF ApplyIngest
  <2>. HIDE DEF named
  <2>6. QED  BY <2>1, <2>2, <2>3, <2>4, <2>5, RefreshPublishes
<1>4. CASE ApplyCheckpoint(rec)
  <2>. DEFINE seeded == IF Seeds(rec.asset, rec) THEN {rec.asset} ELSE {}
  <2>1. DOMAIN book' = Assets /\ DOMAIN pending' = Assets /\ ready' \in [Assets -> BOOLEAN]
    BY <1>4, MaterializeFacts DEF ApplyCheckpoint
  <2>2. known' = known \cup seeded
    BY <1>4, MaterializeFacts DEF ApplyCheckpoint
  <2>3. \A a \in Assets : ready'[a] \/ pending'[a] # NoPending => a \in known'
    BY <1>4, <2>2, MaterializeFacts DEF ApplyCheckpoint
  <2>4. \A a \in Assets \ (seeded \cup Materialized(rec)) :
            book'[a] = book[a] /\ ready'[a] = ready[a]
    BY <1>4, MaterializeFacts DEF ApplyCheckpoint
  <2>5. active' = active /\ Refresh(seeded, rec) /\ Broadcast(seeded, rec)
    BY <1>4 DEF ApplyCheckpoint
  <2>. HIDE DEF seeded
  <2>6. QED  BY <2>1, <2>2, <2>3, <2>4, <2>5, RefreshPublishes
<1>5. CASE ApplyOther(rec)
  <2>1. DOMAIN book' = Assets /\ DOMAIN pending' = Assets /\ ready' \in [Assets -> BOOLEAN]
    BY <1>5, MaterializeFacts DEF ApplyOther
  <2>2. known' = known
    BY <1>5, MaterializeFacts DEF ApplyOther
  <2>3. \A a \in Assets : ready'[a] \/ pending'[a] # NoPending => a \in known'
    BY <1>5, <2>2, MaterializeFacts DEF ApplyOther
  <2>4. \A a \in Assets \ Materialized(rec) : book'[a] = book[a] /\ ready'[a] = ready[a]
    BY <1>5, MaterializeFacts DEF ApplyOther
  <2>5. active' = active /\ Refresh({}, rec) /\ Broadcast({}, rec)
    BY <1>5 DEF ApplyOther
  <2>6. QED  BY <2>1, <2>2, <2>3, <2>4, <2>5, RefreshPublishes
<1>6. QED  BY <1>1, <1>2, <1>3, <1>4, <1>5 DEF ApplyRecord

\* A checkpoint that is loaded changes one book, and republishes it.
LEMMA HydrateKeepsViews ==
    ASSUME PublishedInv, NEW a \in Assets, NEW rows, HydrateCheckpoint(a, rows)
    PROVE  PublishedInv' /\ UpdatesInv'
<1>1. /\ DOMAIN book' = Assets /\ pending' = pending /\ ready' \in [Assets -> BOOLEAN]
      /\ known' = known \cup {a} /\ active' = active
      /\ \A b \in Assets \ {a} : book'[b] = book[b] /\ ready'[b] = ready[b]
  BY DEF HydrateCheckpoint, PublishedInv
<1>2. published' = [published EXCEPT !.view[a] = View(a)']
  BY DEF HydrateCheckpoint
<1>3. /\ DOMAIN published' = {"active", "session", "view"} /\ DOMAIN published'.view = Assets
      /\ published'.active = active'
      /\ published'.view[a] = View(a)'
      /\ \A b \in Assets \ {a} : published'.view[b] = published.view[b]
  BY <1>1, <1>2 DEF PublishedInv
<1>4. View(a)' = [has |-> TRUE, book |-> book'[a].size, ready |-> ready'[a],
                  warning |-> warning'[a], pending |-> pending'[a] # NoPending]
  BY <1>1 DEF View
<1>5. PublishedInv'
  BY <1>1, <1>3, <1>4 DEF PublishedInv
<1>6. QED  BY <1>5 DEF HydrateCheckpoint, UpdatesInv

\* A view of everything (build_published_state) is right.
LEMMA FullViewRight ==
    ASSUME DOMAIN book' = Assets, DOMAIN pending' = Assets, ready' \in [Assets -> BOOLEAN],
           active' \subseteq Assets,
           \A a \in Assets : ready'[a] \/ pending'[a] # NoPending => a \in known',
           published' = FullView'
    PROVE  PublishedInv'
<1>1. published' = [active |-> active', session |-> session', view |-> [a \in Assets |-> View(a)']]
  BY DEF FullView
<1>2. \A a \in Assets : published'.view[a].has <=> a \in known'
  <2>. SUFFICES ASSUME NEW a \in Assets PROVE published'.view[a].has <=> a \in known'
    OBVIOUS
  <2>1. CASE a \in known'
    BY <1>1, <2>1 DEF View
  <2>2. CASE a \notin known'
    BY <1>1, <2>2 DEF View, NoView
  <2>3. QED  BY <2>1, <2>2
<1>3. \A a \in Assets : a \in known' => /\ published'.view[a].book = book'[a].size
                                        /\ (published'.view[a].ready <=> ready'[a])
  BY <1>1 DEF View
<1>4. QED  BY <1>1, <1>2, <1>3 DEF PublishedInv

\* A book that is ready stays ready, whatever the record.
LEMMA ApplyRecordKeepsReady ==
    ASSUME PublishedInv, NEW rec, ApplyRecord(rec)
    PROVE  active' = active /\ \A a \in Assets : ready[a] => ready'[a]
<1>1. MatReady(rec) \in [Assets -> BOOLEAN] /\ \A a \in Assets : ready[a] => MatReady(rec)[a]
  BY DEF PublishedInv, MatReady
<1>2. ready' = MatReady(rec) \/ ready' = [MatReady(rec) EXCEPT ![rec.asset] = TRUE]
  BY DEF ApplyRecord, ApplyRow, ApplyDelta, ApplyIngest, ApplyCheckpoint, ApplyOther
<1>3. active' = active
  BY DEF ApplyRecord, ApplyRow, ApplyDelta, ApplyIngest, ApplyCheckpoint, ApplyOther
<1>4. QED  BY <1>1, <1>2, <1>3

\* A change of the active set republishes everything.
LEMMA SetActiveKeepsViews ==
    ASSUME PublishedInv, NEW S \in SUBSET Assets, SetActive(S)
    PROVE  /\ PublishedInv' /\ UpdatesInv'
           /\ \A a \in active' \cap active :
                published'.view[a].ready => ready[a] /\ published'.view[a].book = book[a].size
           /\ \A a \in active' : ready[a] => ready'[a] /\ published'.view[a].book = published.view[a].book
<1>1. /\ DOMAIN book' = Assets /\ DOMAIN pending' = Assets /\ ready' \in [Assets -> BOOLEAN]
      /\ known' = S /\ active' = S
      /\ \A a \in Assets : ready'[a] \/ pending'[a] # NoPending => a \in known'
      /\ \A a \in S \cap known : book'[a] = book[a]
      /\ \A a \in S : ready'[a] = ready[a]
  BY DEF SetActive, PendingOf, PublishedInv
<1>2. published' = FullView'
  BY DEF SetActive
<1>3. PublishedInv'
  BY <1>1, <1>2, FullViewRight
<1>4. \A a \in known' : published'.view[a].book = book'[a].size /\ (published'.view[a].ready <=> ready'[a])
  BY <1>1, <1>3 DEF PublishedInv
<1>5. \A a \in active' \cap active :
          published'.view[a].ready => ready[a] /\ published'.view[a].book = book[a].size
  BY <1>1, <1>4 DEF PublishedInv
<1>6. \A a \in active' : ready[a] => ready'[a] /\ published'.view[a].book = published.view[a].book
  BY <1>1, <1>4 DEF PublishedInv
<1>7. QED  BY <1>3, <1>5, <1>6 DEF SetActive, UpdatesInv
================================================================================
