------------------------------- MODULE Reconcile -------------------------------
(***************************************************************************)
(* The reconcile command (pb-bin/src/commands/reconcile.rs, replace_group  *)
(* in pb-store/src/writer.rs): it takes the lock of the WAL, validates what *)
(* is retained, and replaces every group of a complete hour by one object  *)
(* with the records of the WAL.  The object is first staged out of sight,  *)
(* a manifest switches the readers to it, it is copied to its place, a     *)
(* second manifest switches them there, and what it supersedes is deleted. *)
(* It may fail or be killed between any two steps.                         *)
(***************************************************************************)
EXTENDS Ingest

VARIABLES
    rc,      \* where reconcile is, the groups left, and of the group replaced: what is
             \* superseded and what is left to delete; the deletions that failed
    outcome  \* of the last reconcile: "none", "ok", "unclean", "refused" or "aborted"

reconcileVars == << rc, outcome >>

NotReconciling ==
    [pc |-> "off", left |-> {}, group |-> [key |-> 0, hour |-> 0], stale |-> {}, delete |-> {}, failed |-> 0]

ReconcileInit == rc = NotReconciling /\ outcome = "none"

-----------------------------------------------------------------------------
\* is_receive_time_partitioned.
Supported(i) == Script[i].kind = "event"

\* The places of the log that hold one.
SupportedAt == {n \in 1 .. Len(log) : Supported(log[n])}

FirstAt == Script[log[Min(SupportedAt)]].at
LastAt == Script[log[Max(SupportedAt)]].at

TimesGrow == \A m, n \in SupportedAt : m < n => Script[log[m]].at <= Script[log[n]].at

\* Faulty variant: the hour of the first record counts when the record is at its start.
CompleteFromStart(h) ==
    FirstAt <= h * HourLen /\ (h + 1) * HourLen <= LastAt

\* contains_complete_hour: strictly after the first record, for more records of its
\* time may have been pruned.
CompleteHour(h) ==
    FirstAt < h * HourLen /\ (h + 1) * HourLen <= LastAt

RecordsToPublish == {i \in Range(log) : Supported(i) /\ CompleteHour(HourOf(Script[i].at))}

GroupsToPublish == {GroupOf(Script[i]) : i \in RecordsToPublish}

\* Pass 1 refuses a torn tail, times that go back, an implausible or empty span, and a
\* WAL without a complete hour.
Recoverable ==
    /\ ~torn
    /\ SupportedAt # {}
    /\ TimesGrow
    /\ FirstAt > 0 /\ FirstAt < LastAt
    /\ RecordsToPublish # {}

\* Where operators keep to the rule, no process that writes to the store runs.
Offline == Setup.offline => proc \in {"down", "waiting"}

ReconcileStart ==
    /\ Offline /\ lock = "free"
    /\ log # << >>
    /\ IF Recoverable
       THEN /\ lock' = "reconcile"
            /\ rc' = [NotReconciling EXCEPT !.pc = "list", !.left = GroupsToPublish]
            /\ UNCHANGED outcome
       ELSE outcome' = "refused" /\ UNCHANGED << lock, rc >>
    /\ UNCHANGED << faults, storeVars >>

-----------------------------------------------------------------------------
(***************************************************************************)
(* replace_group.                                                          *)
(***************************************************************************)
Group == rc.group
\* A key has a dataset, so the group of a supported record has no others.
WalRows == RowsOf(log, Group)
Staged == Object("recovery", Group, WalRows)
Recovered == Object("normal", Group, WalRows)

\* publish_recovery_manifest: the put is atomic, and refused if it is not valid.
Publish(active, superseded) ==
    LET manifest == [active |-> {active}, superseded |-> superseded]
    IN  ValidManifest(Group, manifest) /\ manifests' = [manifests EXCEPT ![Group] = manifest]

\* Hour by hour.
ListGroup ==
    /\ rc.pc = "list"
    /\ \E g \in rc.left :
        /\ \A other \in rc.left : g.hour <= other.hour
        /\ LET previous == manifests[g]
           IN  rc' = [rc EXCEPT !.pc = "stage", !.left = @ \ {g}, !.group = g,
                                !.stale = Listing(g, "normal") \cup Listing(g, "recovery")
                                          \cup previous.active \cup previous.superseded]
    /\ UNCHANGED << lock, faults, outcome, storeVars >>

PutStaged ==
    /\ rc.pc = "stage"
    /\ Put(Staged)
    /\ rc' = [rc EXCEPT !.pc = "staged"]
    /\ UNCHANGED << lock, faults, outcome, manifests >>

\* Faulty variant: only what was there before is superseded.
PublishStagedBare ==
    /\ rc.pc = "staged"
    /\ Publish(Staged, rc.stale \ {Staged})
    /\ rc' = [rc EXCEPT !.pc = "promote"]
    /\ UNCHANGED << lock, faults, outcome, objects >>

\* The object's future place is superseded as well, so that its copy stays out of sight.
PublishStaged ==
    /\ rc.pc = "staged"
    /\ Publish(Staged, (rc.stale \cup {Recovered}) \ {Staged})
    /\ rc' = [rc EXCEPT !.pc = "promote"]
    /\ UNCHANGED << lock, faults, outcome, objects >>

PutRecovered ==
    /\ rc.pc = "promote"
    /\ Put(Recovered)
    /\ rc' = [rc EXCEPT !.pc = "promoted"]
    /\ UNCHANGED << lock, faults, outcome, manifests >>

\* Faulty variant: the staged object is forgotten.
PublishRecoveredOnly ==
    /\ rc.pc = "promoted"
    /\ LET superseded == rc.stale \ {Recovered}
       IN  /\ Publish(Recovered, superseded)
           /\ rc' = [rc EXCEPT !.pc = "delete", !.delete = superseded]
    /\ UNCHANGED << lock, faults, outcome, objects >>

PublishRecovered ==
    /\ rc.pc = "promoted"
    /\ LET superseded == (rc.stale \cup {Staged}) \ {Recovered}
       IN  /\ Publish(Recovered, superseded)
           /\ rc' = [rc EXCEPT !.pc = "delete", !.delete = superseded]
    /\ UNCHANGED << lock, faults, outcome, objects >>

\* What is already gone is no failure.
DeleteStale ==
    /\ rc.pc = "delete"
    /\ \E o \in rc.delete :
        \/ /\ objects' = objects \ {o}
           /\ rc' = [rc EXCEPT !.delete = @ \ {o}]
           /\ NoFault
        \/ /\ Fault /\ o \in objects
           /\ rc' = [rc EXCEPT !.delete = @ \ {o}, !.failed = @ + 1]
           /\ UNCHANGED objects
    /\ UNCHANGED << lock, outcome, manifests >>

GroupReplaced ==
    /\ rc.pc = "delete" /\ rc.delete = {}
    /\ IF rc.left # {}
       THEN rc' = [rc EXCEPT !.pc = "list"] /\ UNCHANGED << lock, outcome >>
       ELSE /\ rc' = NotReconciling /\ lock' = "free"
            /\ outcome' = IF rc.failed > 0 THEN "unclean" ELSE "ok"
    /\ UNCHANGED << faults, storeVars >>

\* An error of the store, or a kill.
ReconcileAborts ==
    /\ rc.pc # "off"
    /\ Fault
    /\ rc' = NotReconciling /\ lock' = "free" /\ outcome' = "aborted"
    /\ UNCHANGED storeVars

ReconcileNext ==
    /\ \/ ReconcileStart \/ ListGroup \/ PutStaged \/ PublishStaged \/ PutRecovered
       \/ PublishRecovered \/ DeleteStale \/ GroupReplaced \/ ReconcileAborts
    /\ UNCHANGED << log, flushed, synced, torn, mainVars, sourceVars, drainVars, sinkVars, ghosts,
                    profile, starts >>
================================================================================
