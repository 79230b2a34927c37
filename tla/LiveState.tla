------------------------------- MODULE LiveState -------------------------------
(***************************************************************************)
(* The live read model (pb-api/src/live_state.rs): one projector task owns *)
(* the books, applies records one at a time, publishes a read-only view    *)
(* and broadcasts the books a record changed.                              *)
(*                                                                         *)
(* A venue snapshot arrives as one record per level.  The projector holds  *)
(* the rows of one snapshot (the records with the same key) back until     *)
(* another record shows that the group has ended.                          *)
(***************************************************************************)
EXTENDS Records

VARIABLES
    known,      \* the assets LiveState::assets has an entry for
    book,       \* book[a]: the order book
    ready,      \* ready[a]: initialized_from_snapshot
    warning,    \* warning[a]: latest_warning, by kind
    pending,    \* pending[a]: the snapshot group being collected
    active,     \* active_assets
    session,    \* session_status
    published,  \* what readers see
    updates     \* the updates broadcast for the last command: asset and book

lvars == << known, book, ready, warning, pending, active, session, published, updates >>

NoPending == [key |-> << >>, rows |-> << >>]

NoView == [has |-> FALSE]

\* build_asset_view.
View(a) ==
    IF a \in known
    THEN [has |-> TRUE, book |-> book[a].size, ready |-> ready[a], warning |-> warning[a],
          pending |-> pending[a] # NoPending]
    ELSE NoView

\* build_published_state, from nothing.
FullView == [active |-> active, session |-> session, view |-> [a \in Assets |-> View(a)]]

\* snapshot_from_published answers with a book.
Serves(p, a) == a \in p.active /\ p.view[a].has /\ p.view[a].ready

LiveInit ==
    /\ known = {}
    /\ book = [a \in Assets |-> EmptyBook]
    /\ ready = [a \in Assets |-> FALSE]
    /\ warning = [a \in Assets |-> "none"]
    /\ pending = [a \in Assets |-> NoPending]
    /\ active = {}
    /\ session = "starting"
    /\ published = FullView
    /\ updates = {}

(***************************************************************************)
(* materialize_pending_before_record.                                      *)
(***************************************************************************)
HasPending == {a \in Assets : pending[a] # NoPending}

\* Faulty variant: only the rows of other snapshots end a group.
EndedByRows(rec) ==
    {a \in HasPending : rec.kind = "snapshot" /\ (a # rec.asset \/ pending[a].key # rec.key)}

\* The groups that end before rec: a row of one asset ends the groups of all the
\* others, a record of any other kind ends them all.
EndedGroups(rec) ==
    {a \in HasPending : rec.kind = "snapshot" => a # rec.asset \/ pending[a].key # rec.key}

\* Those of them that give a book; the others are dropped, with a warning.
Materialized(rec) == {a \in EndedGroups(rec) : Snapshot(pending[a].rows).ok}

MatBook(rec) ==
    [a \in Assets |-> IF a \in Materialized(rec) THEN Snapshot(pending[a].rows).book ELSE book[a]]

MatReady(rec) == [a \in Assets |-> ready[a] \/ a \in Materialized(rec)]

\* check_book_integrity: a crossed book is served, with a warning.
Checked(w, b) == IF Crossed(b) THEN "crossed_book" ELSE w

MatWarning(rec) ==
    [a \in Assets |-> IF a \in Materialized(rec) THEN Checked(warning[a], MatBook(rec)[a])
                      ELSE IF a \in EndedGroups(rec) THEN "book_apply_error"
                      ELSE warning[a]]

MatPending(rec) ==
    [a \in Assets |-> IF a \in EndedGroups(rec) THEN NoPending ELSE pending[a]]

(***************************************************************************)
(* apply_and_broadcast, after apply_record: republish the views of the     *)
(* changed assets, then broadcast the books of those in `sent` that are    *)
(* active and ready.                                                       *)
(***************************************************************************)
\* Faulty variant: the assets materialized on the way are left out.
RefreshOnly(changed, rec) ==
    published' = [active |-> published.active,
                  session |-> session',
                  view |-> [a \in Assets |-> IF a \in changed THEN View(a)'
                                             ELSE published.view[a]]]

Refresh(changed, rec) ==
    published' = [active |-> published.active,
                  session |-> session',
                  view |-> [a \in Assets |-> IF a \in changed \cup Materialized(rec)
                                             THEN View(a)' ELSE published.view[a]]]

\* Faulty variant: the assets materialized on the way are left out.
BroadcastOnly(sent, rec) ==
    updates' = {[asset |-> a, book |-> book'[a].size] : a \in {b \in sent : b \in active /\ ready'[b]}}

Broadcast(sent, rec) ==
    updates' = {[asset |-> a, book |-> book'[a].size] :
                    a \in {b \in sent \cup Materialized(rec) : b \in active /\ ready'[b]}}

\* record_snapshot_event.
ApplyRow(rec) ==
    /\ rec.kind = "snapshot"
    /\ book' = MatBook(rec)
    /\ ready' = MatReady(rec)
    /\ warning' = MatWarning(rec)
    /\ pending' = [MatPending(rec) EXCEPT ![rec.asset] =
                        [key |-> rec.key, rows |-> Append(@.rows, rec.row)]]
    /\ known' = known \cup EndedGroups(rec) \cup {rec.asset}
    /\ UNCHANGED << active, session >>
    /\ Refresh({rec.asset}, rec)
    /\ Broadcast({}, rec)

\* record_delta_event: whether or not the book was ever initialized.
ApplyDelta(rec) ==
    /\ rec.kind = "delta"
    /\ LET a == rec.asset
           b == MatBook(rec)[a]
           fits == DeltaFits(b, rec.row.level, rec.row.size)
       IN  /\ book' = IF fits
                      THEN [MatBook(rec) EXCEPT ![a] = SetLevel(@, rec.row.level, rec.row.size)]
                      ELSE MatBook(rec)
           /\ warning' = [MatWarning(rec) EXCEPT ![a] = IF fits THEN Checked(@, book'[a])
                                                        ELSE "book_apply_error"]
           /\ known' = known \cup EndedGroups(rec) \cup {a}
           /\ ready' = MatReady(rec)
           /\ pending' = MatPending(rec)
           /\ UNCHANGED << active, session >>
           /\ Refresh({a}, rec)
           /\ Broadcast({a}, rec)

\* record_ingest_event: a session change, and a warning for the asset it names.
ApplyIngest(rec) ==
    /\ rec.kind = "ingest"
    /\ LET named == {rec.asset} \cap Assets
       IN  /\ session' = CASE rec.event = "reconnect_start" -> "reconnecting"
                           [] rec.event = "reconnect_success" -> "connected"
                           [] OTHER -> session
           /\ book' = MatBook(rec)
           /\ ready' = MatReady(rec)
           /\ warning' = [a \in Assets |-> IF a \in named THEN rec.event ELSE MatWarning(rec)[a]]
           /\ pending' = MatPending(rec)
           /\ known' = known \cup EndedGroups(rec) \cup named
           /\ UNCHANGED active
           /\ Refresh(named, rec)
           /\ Broadcast({}, rec)

\* Faulty variant: a book that is live is reset to the checkpoint.
SeedsLive(a, rec) == TRUE

\* A tailed checkpoint seeds only a book that was never initialized.
Seeds(a, rec) == ~MatReady(rec)[a]

ApplyCheckpoint(rec) ==
    /\ rec.kind = "checkpoint"
    /\ LET a == rec.asset
           cp == Snapshot(rec.rows)
           seeds == Seeds(a, rec)
       IN  /\ book' = IF seeds /\ cp.ok THEN [MatBook(rec) EXCEPT ![a] = cp.book] ELSE MatBook(rec)
           /\ ready' = IF seeds /\ cp.ok THEN [MatReady(rec) EXCEPT ![a] = TRUE] ELSE MatReady(rec)
           /\ warning' = IF ~seeds THEN MatWarning(rec)
                         ELSE [MatWarning(rec) EXCEPT ![a] = IF cp.ok THEN Checked(@, cp.book)
                                                             ELSE "book_apply_error"]
           /\ known' = known \cup EndedGroups(rec) \cup (IF seeds THEN {a} ELSE {})
           /\ pending' = MatPending(rec)
           /\ UNCHANGED << active, session >>
           /\ Refresh(IF seeds THEN {a} ELSE {}, rec)
           /\ Broadcast(IF seeds THEN {a} ELSE {}, rec)

\* A trade (or a validation record) only ends the pending groups.
ApplyOther(rec) ==
    /\ rec.kind = "trade"
    /\ book' = MatBook(rec)
    /\ ready' = MatReady(rec)
    /\ warning' = MatWarning(rec)
    /\ pending' = MatPending(rec)
    /\ known' = known \cup EndedGroups(rec)
    /\ UNCHANGED << active, session >>
    /\ Refresh({}, rec)
    /\ Broadcast({}, rec)

ApplyRecord(rec) ==
    ApplyRow(rec) \/ ApplyDelta(rec) \/ ApplyIngest(rec) \/ ApplyCheckpoint(rec) \/ ApplyOther(rec)

\* Faulty variant: a book that is live is left as it is.
HydrateUninitialized(a, rows) ==
    LET cp == Snapshot(rows)
    IN  /\ book' = [book EXCEPT ![a] = IF ready[a] \/ ~cp.ok THEN @ ELSE cp.book]
        /\ ready' = [ready EXCEPT ![a] = @ \/ cp.ok]
        /\ warning' = [warning EXCEPT ![a] = IF cp.ok THEN Checked(@, cp.book)
                                              ELSE "book_apply_error"]
        /\ known' = known \cup {a}
        /\ UNCHANGED << pending, active, session >>
        /\ published' = [published EXCEPT !.view[a] = View(a)']
        /\ updates' = {}

\* HydrateCheckpoint: the book is set whatever it was; what is pending stays, and
\* nothing is broadcast.
HydrateCheckpoint(a, rows) ==
    LET cp == Snapshot(rows)
    IN  /\ book' = [book EXCEPT ![a] = IF cp.ok THEN cp.book ELSE @]
        /\ ready' = [ready EXCEPT ![a] = @ \/ cp.ok]
        /\ warning' = [warning EXCEPT ![a] = IF cp.ok THEN Checked(@, cp.book)
                                              ELSE "book_apply_error"]
        /\ known' = known \cup {a}
        /\ UNCHANGED << pending, active, session >>
        /\ published' = [published EXCEPT !.view[a] = View(a)']
        /\ updates' = {}

PendingOf(S) == [a \in Assets |-> IF a \in S THEN pending[a] ELSE NoPending]

\* set_active_assets, then rebuild_all_asset_views: books of assets that are not
\* active any more are dropped, with what was pending for them.
SetActive(S) ==
    /\ active' = S
    /\ known' = S
    /\ book' = [a \in Assets |-> IF a \in S /\ a \in known THEN book[a] ELSE EmptyBook]
    /\ ready' = [a \in Assets |-> a \in S /\ ready[a]]
    /\ warning' = [a \in Assets |-> IF a \in S THEN warning[a] ELSE "none"]
    /\ pending' = PendingOf(S)
    /\ UNCHANGED session
    /\ published' = FullView'
    /\ updates' = {}
================================================================================
