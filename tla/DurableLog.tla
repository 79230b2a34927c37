------------------------------ MODULE DurableLog ------------------------------
(***************************************************************************)
(* What the WAL promises as a log, with no segments, buffers or files:     *)
(* records are appended in order; a growing prefix of the log is durable;  *)
(* a crash takes a suffix that is not durable, and never a record out of   *)
(* the middle; pruning takes a prefix.                                     *)
(***************************************************************************)
EXTENDS Naturals

CONSTANT MaxRec  \* bound: the records are 1..MaxRec, in the order appended

VARIABLES
    log,      \* the records in the log
    durable,  \* those a crash cannot take
    next      \* the next record

\* p is an initial part of the log l.
IsPrefixOf(p, l) == p \subseteq l /\ \A a \in p, b \in l : b < a => b \in p

Init ==
    /\ log = {}
    /\ durable = {}
    /\ next = 1

Append ==
    /\ next <= MaxRec
    /\ log' = log \cup {next}
    /\ next' = next + 1
    /\ durable \subseteq durable'
    /\ IsPrefixOf(durable', log)

Harden ==
    /\ durable \subseteq durable'
    /\ IsPrefixOf(durable', log)
    /\ UNCHANGED << log, next >>

Crash ==
    /\ durable \subseteq log'
    /\ IsPrefixOf(log', log)
    /\ durable \subseteq durable'
    /\ IsPrefixOf(durable', log')
    /\ UNCHANGED next

Trim ==
    /\ log' \subseteq log
    /\ IsPrefixOf(log \ log', log)
    /\ durable' = durable \cap log'
    /\ UNCHANGED next

Next == Append \/ Harden \/ Crash \/ Trim

Spec == Init /\ [][Next]_<< log, durable, next >>
=============================================================================
