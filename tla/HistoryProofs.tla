----------------------------- MODULE HistoryProofs -----------------------------
(***************************************************************************)
(* Proofs about ingest, its rotation and the store, for any script, any    *)
(* faults and any capacities: the WAL is first, a clean exit left nothing  *)
(* behind, no market is subscribed to twice or left early, and no reader   *)
(* loses a row or sees one twice while reconcile replaces it.              *)
(***************************************************************************)
EXTENDS History, WellFoundedInduction, TLAPS

Sizes ==
    /\ log \in Seq(Nat) /\ evq \in Seq(Nat) /\ sinkq \in Seq(Nat) /\ sink.buffer \in Seq(Nat)
    /\ flushed \in 0 .. Len(log) /\ synced \in 0 .. flushed
    /\ emitted \in Nat /\ began \in 0 .. emitted
    /\ sink.attempts \in 0 .. MaxRetries

Places ==
    /\ proc \in {"down", "waiting", "up", "stopping", "joining"}
    /\ feed \in {"off", "running", "stopped"}
    /\ drain \in [pc : {"off", "receive", "passing", "closing", "done"}, rec : Nat]
    /\ DOMAIN sink = {"pc", "buffer", "left", "attempts", "final"}
    /\ sink.pc \in {"off", "receiving", "flushing", "done", "failed"}

Flags == cancelled \in BOOLEAN /\ walFailed \in BOOLEAN /\ abandoned \in BOOLEAN

\* A process that has the WAL, or had it.
Alive == proc \in {"up", "stopping", "joining"}

Passing == IF drain.pc = "passing" THEN {drain.rec} ELSE {}

\* While no feed runs nothing is on its way.
AtRest ==
    /\ ~Alive => feed = "off" /\ evq = << >> /\ drain.pc = "off"
    /\ proc = "waiting" => began = emitted

\* What is with the sink or on its way there came from the WAL.
OnlyFromWal ==
    sunk \cup Range(sinkq) \cup Range(sink.buffer) \cup Passing \subseteq Range(log) \cup cut \cup pruned

\* Of what was emitted since the process began, the WAL has all that left the event channel.
InWal ==
    Alive => \A i \in began + 1 .. emitted :
                i \in dropped \cup Range(evq) \cup Range(log) \cup pruned

\* And it is with the sink, on its way there, or in the store, unless something was abandoned.
InStore ==
    (Alive /\ ~abandoned) =>
        \A i \in began + 1 .. emitted :
            i \in dropped \cup Range(evq) \cup Passing \cup Range(sinkq) \cup Range(sink.buffer) \cup sunk

\* A drain that ends well has emptied its channel, and synced.
DrainOver ==
    /\ (drain.pc \in {"closing", "done"} /\ ~walFailed /\ ~abandoned) => evq = << >> /\ feed = "stopped"
    /\ (drain.pc = "done" /\ ~abandoned) => synced = Len(log)

\* A sink ends with its channel or gives up; a flush leaves out no group.
SinkOver ==
    /\ sink.pc = "failed" => abandoned
    /\ sink.pc = "done" => drain.pc = "done" /\ sinkq = << >> /\ sink.buffer = << >>
    /\ sink.pc = "flushing" =>
        /\ \A i \in Range(sink.buffer) : i \in sunk \/ GroupOf(Script[i]) \in sink.left
        /\ sink.final => drain.pc = "done" /\ sinkq = << >>

Rots ==
    [pc : {"off", "plan", "sleep", "discover", "retire", "ended"}, front : Int, next : Int,
     active : Int, target : Int, tries : Int]

RotTypes == clock \in Nat /\ rot \in Rots /\ spawned \in Seq(Nat)

\* Without a feed there is no rotation, and nothing is subscribed.
NoFeed ==
    /\ feed = "off" => rot.pc = "off"
    /\ rot.pc = "off" => spawned = << >> /\ rot.front = None

\* The front is no later than the active bucket, the target is a later one.
Targets ==
    /\ rot.front >= None /\ rot.front <= rot.active
    /\ rot.pc \in {"sleep", "discover", "retire"} =>
        /\ rot.target \in Nat
        /\ rot.active = None \/ rot.target >= rot.active + Bucket
        /\ rot.next \in {None, rot.target}
    /\ rot.pc = "plan" => rot.next = None

LastBucket == IF rot.pc = "retire" THEN rot.target ELSE rot.active

\* The markets subscribed are in the order of their buckets.
Subscribed ==
    /\ \A i, j \in 1 .. Len(spawned) : i < j => spawned[i] < spawned[j]
    /\ rot.pc # "ended" => \A i \in 1 .. Len(spawned) : spawned[i] <= LastBucket

\* Between its discovery and the boundary the next market is subscribed, or was given up
\* after all attempts; at no other time is there one.
Succeeded ==
    /\ rot.pc = "retire" => \/ rot.next = rot.target /\ rot.target \in Range(spawned)
                            \/ rot.next = None /\ rot.tries = Attempts
    /\ rot.pc # "retire" => rot.next = None

-----------------------------------------------------------------------------
(***************************************************************************)
(* Operators.                                                              *)
(***************************************************************************)
\* A set of numbers has a least one.
LEMMA LeastOf ==
    ASSUME NEW S \in SUBSET Nat, S # {}
    PROVE  \E n \in S : \A m \in S : n <= m
<1> DEFINE R == OpToRel(<, Nat)
<1>1. PICK n \in S : \A m \in S : ~(<< m, n >> \in R)
    BY NatLessThanWellFounded, WFMin, Zenon
<1>2. \A m \in S : << m, n >> \in R <=> m < n
    BY DEF OpToRel
<1> HIDE DEF R
<1>3. \A m \in S : ~(m < n)
    BY <1>1, <1>2
<1> QED
    BY <1>3

\* The elements of a sequence.
LEMMA RangeFacts ==
    ASSUME NEW s \in Seq(Nat)
    PROVE  /\ Len(s) \in Nat /\ Range(s) \subseteq Nat
           /\ \A x : x \in Range(s) <=> \E i \in 1 .. Len(s) : s[i] = x
BY DEF Range

\* Append adds one.
LEMMA AppendRange ==
    ASSUME NEW s \in Seq(Nat), NEW x \in Nat
    PROVE  /\ Append(s, x) \in Seq(Nat) /\ Len(Append(s, x)) = Len(s) + 1
           /\ Range(Append(s, x)) = Range(s) \cup {x}
<1> DEFINE t == Append(s, x)
<1>1. /\ t \in Seq(Nat) /\ Len(t) = Len(s) + 1 /\ Len(s) \in Nat
      /\ \A i \in 1 .. Len(s) : t[i] = s[i]
      /\ t[Len(s) + 1] = x
    OBVIOUS
<1> HIDE DEF t
<1>2. \A i : i \in 1 .. Len(t) <=> i \in 1 .. Len(s) \/ i = Len(s) + 1
    BY <1>1
<1>a. /\ \A y : y \in Range(t) <=> \E i \in 1 .. Len(t) : t[i] = y
      /\ \A y : y \in Range(s) <=> \E i \in 1 .. Len(s) : s[i] = y
    BY <1>1, RangeFacts, Zenon
<1>3. \A y : y \in Range(t) <=> y \in Range(s) \/ y = x
    <2>1. (Len(s) + 1) \in 1 .. Len(t)
        BY <1>1
    <2> QED
        BY <1>1, <1>2, <1>a, <2>1, Zenon
<1> QED
    BY <1>1, <1>3 DEF t

\* The head and the tail have them all.
LEMMA TailRange ==
    ASSUME NEW s \in Seq(Nat), s # << >>
    PROVE  /\ Head(s) \in Nat /\ Tail(s) \in Seq(Nat) /\ Len(Tail(s)) = Len(s) - 1 /\ Len(s) > 0
           /\ Range(s) = {Head(s)} \cup Range(Tail(s))
<1> DEFINE t == Tail(s)
<1>1. /\ t \in Seq(Nat) /\ Len(s) \in Nat \ {0} /\ Len(t) = Len(s) - 1 /\ Head(s) = s[1] /\ s[1] \in Nat
      /\ \A i \in 1 .. Len(t) : t[i] = s[i + 1]
    OBVIOUS
<1> HIDE DEF t
<1>2. \A y : y \in Range(t) => y \in Range(s)
    <2> SUFFICES ASSUME NEW i \in 1 .. Len(t) PROVE t[i] \in Range(s)
        BY <1>1, RangeFacts, SMTT(20)
    <2>1. i + 1 \in 1 .. Len(s)
        BY <1>1
    <2> QED
        BY <1>1, <2>1, RangeFacts
<1>3. \A y : y \in Range(s) => y \in Range(t) \/ y = s[1]
    <2> SUFFICES ASSUME NEW i \in 1 .. Len(s), i # 1 PROVE s[i] \in Range(t)
        BY RangeFacts
    <2>1. i - 1 \in 1 .. Len(t) /\ (i - 1) + 1 = i
        BY <1>1
    <2>2. t[i - 1] = s[i]
        BY <1>1, <2>1
    <2> QED
        BY <1>1, <2>1, <2>2, RangeFacts
<1>4. s[1] \in Range(s)
    BY <1>1, RangeFacts
<1> QED
    BY <1>1, <1>2, <1>3, <1>4 DEF t

\* So have a prefix and what is cut off.
LEMMA CutRange ==
    ASSUME NEW s \in Seq(Nat), NEW k \in 0 .. Len(s)
    PROVE  /\ SubSeq(s, 1, k) \in Seq(Nat) /\ Len(SubSeq(s, 1, k)) = k
           /\ Range(s) = Range(SubSeq(s, 1, k)) \cup {s[i] : i \in k + 1 .. Len(s)}
<1> DEFINE t == SubSeq(s, 1, k)
<1>1. /\ t \in Seq(Nat) /\ Len(t) = k /\ Len(s) \in Nat /\ k \in Nat /\ k <= Len(s)
      /\ \A i \in 1 .. k : t[i] = s[i]
    OBVIOUS
<1> HIDE DEF t
<1>2. \A i : i \in 1 .. Len(s) <=> i \in 1 .. k \/ i \in k + 1 .. Len(s)
    BY <1>1
<1>3. \A y : y \in Range(t) <=> \E i \in 1 .. k : s[i] = y
    BY <1>1, RangeFacts, ZenonT(30)
<1>4. \A y : y \in Range(s) <=> y \in Range(t) \/ \E i \in k + 1 .. Len(s) : s[i] = y
    BY <1>2, <1>3, RangeFacts
<1> QED
    BY <1>1, <1>4 DEF t

\* The empty sequence has none.
LEMMA NoRange == << >> \in Seq(Nat) /\ Len(<< >>) = 0 /\ Range(<< >>) = {}
BY DEF Range

\* The numbers of records stand in the order they were emitted in.
Ascending(s) == \A i, j \in 1 .. Len(s) : i < j => s[i] < s[j]

LEMMA AppendAscending ==
    ASSUME NEW s \in Seq(Nat), NEW x \in Nat, Ascending(s), \A y \in Range(s) : y < x
    PROVE  Ascending(Append(s, x))
<1> DEFINE t == Append(s, x)
<1>1. /\ Len(t) = Len(s) + 1 /\ Len(s) \in Nat
      /\ \A i \in 1 .. Len(s) : t[i] = s[i] /\ s[i] \in Nat /\ s[i] < x
      /\ t[Len(s) + 1] = x
    BY RangeFacts
<1> HIDE DEF t
<1>2. \A i : i \in 1 .. Len(t) <=> i \in 1 .. Len(s) \/ i = Len(s) + 1
    BY <1>1
<1>3. Ascending(t)
    <2> SUFFICES ASSUME NEW i \in 1 .. Len(t), NEW j \in 1 .. Len(t), i < j PROVE t[i] < t[j]
        BY DEF Ascending
    <2>1. i \in 1 .. Len(s) /\ (j \in 1 .. Len(s) \/ j = Len(s) + 1)
        BY <1>1
    <2>2. j \in 1 .. Len(s) => s[i] < s[j]
        BY <2>1 DEF Ascending
    <2> QED
        BY <1>1, <2>1, <2>2
<1> QED
    BY <1>3 DEF t

LEMMA TailAscending ==
    ASSUME NEW s \in Seq(Nat), s # << >>, Ascending(s)
    PROVE  Ascending(Tail(s)) /\ \A y \in Range(Tail(s)) : Head(s) < y
<1> DEFINE t == Tail(s)
<1>1. /\ t \in Seq(Nat) /\ Len(s) \in Nat \ {0} /\ Len(t) = Len(s) - 1 /\ Head(s) = s[1]
      /\ \A i \in 1 .. Len(t) : t[i] = s[i + 1]
    OBVIOUS
<1> HIDE DEF t
<1>2. \A i \in 1 .. Len(t) : i + 1 \in 1 .. Len(s) /\ 1 \in 1 .. Len(s) /\ 1 < i + 1
    BY <1>1
<1>3. Ascending(t)
    <2> SUFFICES ASSUME NEW i \in 1 .. Len(t), NEW j \in 1 .. Len(t), i < j PROVE t[i] < t[j]
        BY DEF Ascending
    <2>1. i + 1 \in 1 .. Len(s) /\ j + 1 \in 1 .. Len(s) /\ i + 1 < j + 1
        BY <1>1
    <2>2. s[i + 1] < s[j + 1]
        BY <2>1 DEF Ascending
    <2> QED
        BY <1>1, <2>2
<1>4. \A i \in 1 .. Len(t) : s[1] < t[i]
    BY <1>1, <1>2 DEF Ascending
<1>5. \A y \in Range(t) : s[1] < y
    BY <1>1, <1>4, RangeFacts
<1> QED
    BY <1>1, <1>3, <1>5 DEF t

LEMMA CutAscending ==
    ASSUME NEW s \in Seq(Nat), NEW k \in 0 .. Len(s), Ascending(s)
    PROVE  Ascending(SubSeq(s, 1, k))
<1>1. PICK t : t = SubSeq(s, 1, k)
    OBVIOUS
<1>2. Len(t) = k /\ Len(s) \in Nat /\ k \in Nat /\ k <= Len(s) /\ \A i \in 1 .. k : t[i] = s[i]
    BY <1>1
<1>3. Ascending(t)
    BY <1>2 DEF Ascending
<1> QED
    BY <1>1, <1>3

LEMMA NothingAscends == Ascending(<< >>)
BY DEF Ascending

LEMMA AscendingOnce ==
    ASSUME NEW s \in Seq(Nat), Ascending(s)
    PROVE  IsInjective(s)
<1>1. /\ DOMAIN s = 1 .. Len(s) /\ Len(s) \in Nat /\ \A i \in 1 .. Len(s) : s[i] \in Nat
    OBVIOUS
<1> QED
    BY <1>1 DEF IsInjective, Ascending

\* The rows the sink writes for a group are the buffered records of that group
\* (write_group), in their order: none is lost and none is made up.
LEMMA RowsOfFacts ==
    ASSUME NEW b \in Seq(Nat), NEW g
    PROVE  /\ RowsOf(b, g) \in Seq(Nat)
           /\ Range(RowsOf(b, g)) = {i \in Range(b) : GroupOf(Script[i]) = g}
           /\ Ascending(b) => Ascending(RowsOf(b, g))
<1> DEFINE Mine(n) == GroupOf(Script[b[n]]) = g
<1> DEFINE Row(f, m) == IF m = 0 THEN << >>
                        ELSE IF Mine(m) THEN Append(f[m - 1], b[m])
                        ELSE f[m - 1]
<1> DEFINE Body(f, n) == [m \in 0 .. n |-> Row(f, m)]
<1> DEFINE Exists(n) == \E f : f = Body(f, n)
<1>0. Len(b) \in Nat
    OBVIOUS
<1>1. Exists(0)
    <2> DEFINE f == [m \in 0 .. 0 |-> << >>]
    <2>1. f = Body(f, 0)
        OBVIOUS
    <2> QED
        BY <2>1
<1>2. ASSUME NEW n \in Nat \ {0}, Exists(n - 1) PROVE Exists(n)
    <2>1. PICK f : f = Body(f, n - 1)
        BY <1>2
    <2> DEFINE h == [m \in 0 .. n |-> IF m = n THEN Row(f, n) ELSE f[m]]
    <2>2. ASSUME NEW m \in 0 .. n PROVE h[m] = Row(h, m)
        <3>1. m # 0 => m - 1 \in 0 .. n - 1 /\ h[m - 1] = f[m - 1]
            OBVIOUS
        <3>2. Row(h, m) = Row(f, m)
            BY <3>1
        <3>3. CASE m = n
            BY <3>2, <3>3
        <3>4. CASE m # n
            <4>1. m \in 0 .. n - 1
                BY <3>4
            <4>2. f[m] = Row(f, m)
                BY <2>1, <4>1, Zenon
            <4> QED
                BY <3>2, <3>4, <4>2
        <3> QED
            BY <3>3, <3>4
    <2>3. h = Body(h, n)
        BY <2>2
    <2> QED
        BY <2>3
<1>3. Exists(Len(b))
    <2> DEFINE Missing == {n \in Nat : ~Exists(n)}
    <2> SUFFICES ASSUME Missing # {} PROVE FALSE
        BY <1>0, Zenon
    <2>1. Missing \in SUBSET Nat
        OBVIOUS
    <2> HIDE DEF Exists
    <2>2. PICK n \in Missing : \A m \in Missing : n <= m
        BY <2>1, LeastOf
    <2>3. n \in Nat \ {0}
        BY <1>1, <2>2
    <2>4. n - 1 \in Nat /\ ~(n <= n - 1)
        BY <2>3
    <2>5. Exists(n - 1)
        BY <2>2, <2>4
    <2> QED
        BY <1>2, <2>2, <2>3, <2>5
<1> DEFINE upTo == CHOOSE f : f = Body(f, Len(b))
<1>4. upTo = Body(upTo, Len(b))
    BY <1>3, Zenon
<1>5. RowsOf(b, g) = upTo[Len(b)]
    BY DEF RowsOf
<1> HIDE DEF upTo
<1> DEFINE Right(n) == /\ upTo[n] \in Seq(Nat)
                       /\ Range(upTo[n]) = {b[i] : i \in {j \in 1 .. n : Mine(j)}}
                       /\ Ascending(b) => Ascending(upTo[n])
<1>6. Right(0)
    <2>1. upTo[0] = << >>
        BY <1>0, <1>4
    <2> QED
        BY <2>1, NothingAscends DEF Range
<1>7. ASSUME NEW n \in 1 .. Len(b), Right(n - 1) PROVE Right(n)
    <2> DEFINE s == upTo[n - 1]
    <2>0. n \in 0 .. Len(b) /\ n # 0
        BY <1>0
    <2>1. upTo[n] = IF Mine(n) THEN Append(s, b[n]) ELSE s
        <3> HIDE DEF Mine
        <3>1. upTo[n] = Row(upTo, n)
            BY <1>4, <2>0, Zenon
        <3> QED
            BY <2>0, <3>1
    <2>2. b[n] \in Nat
        OBVIOUS
    <2> HIDE DEF s
    <2>3. s \in Seq(Nat) /\ Range(s) = {b[i] : i \in {j \in 1 .. n - 1 : Mine(j)}}
        BY <1>7 DEF s
    <2>a. Ascending(b) => Ascending(s)
        BY <1>7 DEF s
    <2>4. \A j : j \in 1 .. n <=> j \in 1 .. n - 1 \/ j = n
        BY <1>0
    <2>b. ASSUME Ascending(b) PROVE \A j \in 1 .. n - 1 : b[j] < b[n]
        <3>1. \A j \in 1 .. n - 1 : j \in 1 .. Len(b) /\ j < n
            BY <1>0
        <3> QED
            BY <2>b, <3>1 DEF Ascending
    <2> HIDE DEF Mine
    <2>c. ASSUME Ascending(b) PROVE Ascending(Append(s, b[n]))
        <3>1. \A y \in Range(s) : y < b[n]
            BY <2>3, <2>b, <2>c
        <3> QED
            BY <2>2, <2>3, <2>a, <2>c, <3>1, AppendAscending
    <2>5. CASE Mine(n)
        <3>1. Range(Append(s, b[n])) = Range(s) \cup {b[n]}
            BY <2>2, <2>3, AppendRange
        <3>2. {b[i] : i \in {j \in 1 .. n : Mine(j)}} = {b[i] : i \in {j \in 1 .. n - 1 : Mine(j)}} \cup {b[n]}
            BY <2>4, <2>5
        <3>3. Append(s, b[n]) \in Seq(Nat)
            BY <2>2, <2>3
        <3> QED
            BY <2>1, <2>5, <2>c, <3>1, <3>2, <3>3, <2>3, Zenon
    <2>6. CASE ~Mine(n)
        <3>1. {j \in 1 .. n : Mine(j)} = {j \in 1 .. n - 1 : Mine(j)}
            BY <2>4, <2>6
        <3> QED
            BY <2>1, <2>3, <2>6, <2>a, <3>1, Zenon
    <2> QED
        BY <2>5, <2>6
<1>8. Right(Len(b))
    <2> DEFINE Missing == {n \in 0 .. Len(b) : ~Right(n)}
    <2> HIDE DEF Right
    <2> SUFFICES ASSUME Missing # {} PROVE FALSE
        BY <1>0
    <2>1. Missing \in SUBSET Nat
        BY <1>0
    <2>2. PICK n \in Missing : \A m \in Missing : n <= m
        BY <2>1, LeastOf
    <2>3. n # 0
        BY <1>6, <2>2
    <2>4. n \in 1 .. Len(b) /\ n - 1 \in 0 .. Len(b) /\ ~(n <= n - 1)
        BY <1>0, <2>2, <2>3
    <2>5. Right(n - 1)
        BY <2>2, <2>4
    <2> QED
        BY <1>7, <2>2, <2>4, <2>5
<1>9. \A x : x \in Range(RowsOf(b, g)) <=> \E i \in 1 .. Len(b) : Mine(i) /\ x = b[i]
    BY <1>5, <1>8
<1> QED
    BY <1>5, <1>8, <1>9, RangeFacts

-----------------------------------------------------------------------------
(***************************************************************************)
(* The ingest process.                                                     *)
(***************************************************************************)
\* The inductive invariant of the ingest process.
IngestInv ==
    /\ Sizes /\ Places /\ Flags /\ AtRest
    /\ OnlyFromWal /\ InWal /\ InStore
    /\ DrainOver /\ SinkOver
    /\ CleanExitStored

USE DEF walVars, mainVars, sourceVars, drainVars, sinkVars, ghosts, bounds, storeVars, NoFault, Fault

\* Steps of the supervisor, the producer and the feed that touch no record.
LEMMA ControlStep ==
    ASSUME IngestInv, proc' \in {"down", "waiting", "up", "stopping", "joining"},
           Alive' = Alive, proc' = "waiting" => proc = "waiting", proc = "down" => proc' = "down",
           proc' = "down" => proc = "down",
           feed' \in {feed, "stopped"}, feed = "off" => feed' = "off", cancelled' \in BOOLEAN,
           UNCHANGED << log, flushed, synced, evq, sinkq, emitted, began, walFailed, abandoned, drain,
                        sink, sunk, cut, pruned, dropped, profile, exit >>
    PROVE  IngestInv'
<1> USE DEF IngestInv
<1>1. Sizes'
    BY DEF Sizes, Places
<1>2. Places'
    BY DEF Places
<1>3. Flags'
    BY DEF Flags
<1>4. AtRest'
    BY DEF Places, AtRest, Alive
<1>5. OnlyFromWal'
    BY DEF Sizes, Places, OnlyFromWal, Passing
<1>6. InWal'
    BY DEF Sizes, Places, AtRest, InWal, Alive
<1>7. InStore'
    BY DEF Sizes, Places, Flags, AtRest, InStore, SinkOver, Alive, Passing
<1>8. DrainOver'
    BY DEF Places, AtRest, DrainOver, SinkOver, Alive
<1>9. SinkOver'
    BY DEF Places, AtRest, SinkOver, Alive, Script, Setup
<1>10. CleanExitStored'
    BY DEF Places, AtRest, CleanExitStored, Alive
<1> QED
    BY <1>1, <1>2, <1>3, <1>4, <1>5, <1>6, <1>7, <1>8, <1>9, <1>10 DEF IngestInv

\* What a process leaves in memory when it ends, however it ends, is gone; no record
\* of the WAL goes unless it is known to be cut off.
LEMMA GoneStep ==
    ASSUME IngestInv, Gone, UNCHANGED << emitted, began, sunk, dropped, profile >>,
           log' \in Seq(Nat), flushed' \in 0 .. Len(log'), synced' \in 0 .. flushed',
           abandoned' \in BOOLEAN,
           Range(log) \cup cut \cup pruned \subseteq Range(log') \cup cut' \cup pruned',
           CleanExitStored'
    PROVE  IngestInv'
<1> USE DEF IngestInv
<1>1. /\ proc' = "down" /\ cancelled' = FALSE /\ walFailed' = FALSE /\ feed' = "off"
      /\ evq' = << >> /\ sinkq' = << >>
      /\ drain' \in [pc : {"off", "receive", "passing", "closing", "done"}, rec : Nat]
      /\ drain'.pc = "off"
      /\ DOMAIN sink' = {"pc", "buffer", "left", "attempts", "final"}
      /\ sink'.pc = "off" /\ sink'.buffer = << >> /\ sink'.attempts = 0
    BY DEF Gone, NoSink
<1>2. Sizes'
    BY <1>1, NoRange, IngestAssumption DEF Sizes
<1>b. Places' /\ Flags'
    BY <1>1 DEF Places, Flags
<1>3. AtRest'
    BY <1>1 DEF AtRest, Alive
<1>4. OnlyFromWal'
    BY <1>1, NoRange DEF OnlyFromWal, Passing
<1>5. InWal' /\ InStore'
    BY <1>1 DEF InWal, InStore, Alive
<1>6. DrainOver' /\ SinkOver'
    BY <1>1 DEF DrainOver, SinkOver
<1> QED
    BY <1>2, <1>b, <1>3, <1>4, <1>5, <1>6

\* A process starts: nothing has been emitted since.
LEMMA StartIngestStep ==
    ASSUME IngestInv, StartIngest
    PROVE  IngestInv'
<1> USE DEF IngestInv, StartIngest
<1>a. /\ DOMAIN sink' = {"pc", "buffer", "left", "attempts", "final"}
      /\ sink'.pc = "receiving" /\ sink'.buffer = << >> /\ sink'.attempts = 0
      /\ sink'.buffer \in Seq(Nat) /\ sink'.attempts \in 0 .. MaxRetries
    BY IngestAssumption DEF NoSink
<1>1. Sizes'
    BY <1>a DEF Sizes, Places
<1>2. Places'
    BY <1>a DEF Places
<1>3. Flags'
    BY DEF Flags
<1>4. AtRest'
    BY DEF Places, AtRest, Alive
<1>5. OnlyFromWal'
    BY <1>a, NoRange DEF Sizes, Places, OnlyFromWal, Passing
<1>6. InWal'
    BY DEF Sizes, Places, AtRest, InWal, Alive
<1>7. InStore'
    BY DEF Sizes, Places, Flags, AtRest, InStore, SinkOver, Alive, Passing
<1>8. DrainOver'
    BY DEF Places, AtRest, DrainOver, SinkOver, Alive
<1>9. SinkOver'
    BY <1>a DEF Places, AtRest, SinkOver, Alive, Script, Setup
<1>10. CleanExitStored'
    BY DEF Places, AtRest, CleanExitStored, Alive
<1> QED
    BY <1>1, <1>2, <1>3, <1>4, <1>5, <1>6, <1>7, <1>8, <1>9, <1>10 DEF IngestInv

\* It opens the WAL.
LEMMA OpenWalStep ==
    ASSUME IngestInv, OpenWal
    PROVE  IngestInv'
<1> USE DEF IngestInv, OpenWal
<1>1. Sizes'
    BY DEF Sizes, Places
<1>2. Places'
    BY DEF Places
<1>3. Flags'
    BY DEF Flags
<1>4. AtRest'
    BY DEF Places, AtRest, Alive
<1>5. OnlyFromWal'
    BY DEF Sizes, Places, OnlyFromWal, Passing
<1>6. InWal'
    BY DEF Sizes, Places, AtRest, InWal, Alive
<1>7. InStore'
    BY DEF Sizes, Places, Flags, AtRest, InStore, SinkOver, Alive, Passing
<1>8. DrainOver'
    BY DEF Places, AtRest, DrainOver, SinkOver, Alive
<1>9. SinkOver'
    BY DEF Places, AtRest, SinkOver, Alive, Script, Setup
<1>10. CleanExitStored'
    BY DEF Places, AtRest, CleanExitStored, Alive
<1> QED
    BY <1>1, <1>2, <1>3, <1>4, <1>5, <1>6, <1>7, <1>8, <1>9, <1>10 DEF IngestInv

\* It does not get the lock.
LEMMA OpenRefusedStep ==
    ASSUME IngestInv, OpenRefused
    PROVE  IngestInv'
<1>1. CleanExitStored'
    <2>1. proc = "waiting" /\ began' = emitted'
        BY DEF IngestInv, AtRest, OpenRefused
    <2> QED
        BY <2>1 DEF IngestInv, OpenRefused, Sizes, CleanExitStored
<1> QED
    BY <1>1, GoneStep DEF IngestInv, Sizes, Flags, OpenRefused

\* A record enters the event channel.
LEMMA EmitStep ==
    ASSUME IngestInv, Emit
    PROVE  IngestInv'
<1> USE DEF IngestInv, Emit
<1>a. /\ emitted + 1 \in Nat /\ evq \in Seq(Nat)
      /\ evq' \in Seq(Nat) /\ Range(evq') = Range(evq) \cup {emitted + 1}
    BY AppendRange DEF Sizes
<1>1. Sizes'
    BY <1>a DEF Sizes, Places
<1>2. Places'
    BY DEF Places
<1>3. Flags'
    BY DEF Flags
<1>4. AtRest'
    BY DEF Places, AtRest, Alive
<1>5. OnlyFromWal'
    BY DEF Sizes, Places, OnlyFromWal, Passing
<1>6. InWal'
    BY <1>a DEF Sizes, Places, AtRest, InWal, Alive
<1>7. InStore'
    BY <1>a DEF Sizes, Places, Flags, AtRest, InStore, SinkOver, Alive, Passing
<1>8. DrainOver'
    BY DEF Places, AtRest, DrainOver, SinkOver, Alive
<1>9. SinkOver'
    BY DEF Places, AtRest, SinkOver, Alive, Script, Setup
<1>10. CleanExitStored'
    BY DEF Places, AtRest, CleanExitStored, Alive
<1> QED
    BY <1>1, <1>2, <1>3, <1>4, <1>5, <1>6, <1>7, <1>8, <1>9, <1>10 DEF IngestInv

\* A record leaves the event channel for the WAL.
LEMMA AppendToWalStep ==
    ASSUME IngestInv, DrainReceive, AppendToWal(Head(evq))
    PROVE  IngestInv'
<1> USE DEF IngestInv
<1>a. /\ evq \in Seq(Nat) /\ evq # << >> /\ drain.pc = "receive" /\ evq' = Tail(evq)
      /\ UNCHANGED << flushed, synced, emitted, feed, sinkq, sink, sunk, began, cut, pruned, abandoned, profile >>
    BY DEF DrainReceive, Sizes
<1>b. PICK i \in Nat : i = Head(evq)
    BY <1>a, TailRange
<1>c. evq' \in Seq(Nat) /\ Range(evq) = {i} \cup Range(evq')
    BY <1>a, <1>b, TailRange
<1>d. log' = Append(log, i) /\ drain' = [pc |-> "passing", rec |-> i] /\ UNCHANGED << dropped, mainVars >>
    BY <1>b DEF AppendToWal
<1>e. log' \in Seq(Nat) /\ Len(log') = Len(log) + 1 /\ Range(log') = Range(log) \cup {i}
    BY <1>b, <1>d, AppendRange DEF Sizes
<1>1. Sizes'
    BY ONLY IngestInv, <1>a, <1>b, <1>c, <1>d, <1>e DEF IngestInv, Sizes, Places
<1>2. Places'
    BY ONLY IngestInv, <1>a, <1>b, <1>c, <1>d, <1>e DEF IngestInv, Places
<1>3. Flags'
    BY ONLY IngestInv, <1>a, <1>b, <1>c, <1>d, <1>e DEF IngestInv, Flags
<1>4. AtRest'
    BY ONLY IngestInv, <1>a, <1>b, <1>c, <1>d, <1>e DEF IngestInv, Places, AtRest, Alive
<1>5. OnlyFromWal'
    BY ONLY IngestInv, <1>a, <1>b, <1>c, <1>d, <1>e DEF IngestInv, Sizes, Places, OnlyFromWal, Passing
<1>6. InWal'
    BY ONLY IngestInv, <1>a, <1>b, <1>c, <1>d, <1>e DEF IngestInv, Sizes, Places, AtRest, InWal, Alive
<1>7. InStore'
    BY ONLY IngestInv, <1>a, <1>b, <1>c, <1>d, <1>e
    DEF IngestInv, Sizes, Places, Flags, AtRest, InStore, SinkOver, Alive, Passing
<1>8. DrainOver'
    BY ONLY IngestInv, <1>a, <1>b, <1>c, <1>d, <1>e DEF IngestInv, Places, AtRest, DrainOver, SinkOver, Alive
<1>9. SinkOver'
    BY ONLY IngestInv, <1>a, <1>b, <1>c, <1>d, <1>e DEF IngestInv, Places, AtRest, SinkOver, Alive, Script, Setup
<1>10. CleanExitStored'
    BY ONLY IngestInv, <1>a, <1>b, <1>c, <1>d, <1>e DEF IngestInv, Places, AtRest, CleanExitStored, Alive
<1> QED
    BY <1>1, <1>2, <1>3, <1>4, <1>5, <1>6, <1>7, <1>8, <1>9, <1>10 DEF IngestInv

\* A record that does not encode is dropped, and noted.
LEMMA DropUnencodedStep ==
    ASSUME IngestInv, DrainReceive, DropUnencoded(Head(evq))
    PROVE  IngestInv'
<1> USE DEF IngestInv
<1>a. /\ evq \in Seq(Nat) /\ evq # << >> /\ drain.pc = "receive" /\ evq' = Tail(evq)
      /\ UNCHANGED << flushed, synced, emitted, feed, sinkq, sink, sunk, began, cut, pruned, abandoned, profile >>
    BY DEF DrainReceive, Sizes
<1>b. PICK i \in Nat : i = Head(evq)
    BY <1>a, TailRange
<1>c. evq' \in Seq(Nat) /\ Range(evq) = {i} \cup Range(evq')
    BY <1>a, <1>b, TailRange
<1>d. dropped' = dropped \cup {i} /\ UNCHANGED << log, drain, mainVars >>
    BY <1>b DEF DropUnencoded
<1>1. Sizes'
    BY ONLY IngestInv, <1>a, <1>b, <1>c, <1>d DEF IngestInv, Sizes, Places
<1>2. Places'
    BY ONLY IngestInv, <1>a, <1>b, <1>c, <1>d DEF IngestInv, Places
<1>3. Flags'
    BY ONLY IngestInv, <1>a, <1>b, <1>c, <1>d DEF IngestInv, Flags
<1>4. AtRest'
    BY ONLY IngestInv, <1>a, <1>b, <1>c, <1>d DEF IngestInv, Places, AtRest, Alive
<1>5. OnlyFromWal'
    BY ONLY IngestInv, <1>a, <1>b, <1>c, <1>d DEF IngestInv, Sizes, Places, OnlyFromWal, Passing
<1>6. InWal'
    BY ONLY IngestInv, <1>a, <1>b, <1>c, <1>d DEF IngestInv, Sizes, Places, AtRest, InWal, Alive
<1>7. InStore'
    BY ONLY IngestInv, <1>a, <1>b, <1>c, <1>d DEF IngestInv, Sizes, Places, Flags, AtRest, InStore, SinkOver, Alive, Passing
<1>8. DrainOver'
    BY ONLY IngestInv, <1>a, <1>b, <1>c, <1>d DEF IngestInv, Places, AtRest, DrainOver, SinkOver, Alive
<1>9. SinkOver'
    BY ONLY IngestInv, <1>a, <1>b, <1>c, <1>d DEF IngestInv, Places, AtRest, SinkOver, Alive, Script, Setup
<1>10. CleanExitStored'
    BY ONLY IngestInv, <1>a, <1>b, <1>c, <1>d DEF IngestInv, Places, AtRest, CleanExitStored, Alive
<1> QED
    BY <1>1, <1>2, <1>3, <1>4, <1>5, <1>6, <1>7, <1>8, <1>9, <1>10 DEF IngestInv

\* The WAL fails: the process is told to stop.
LEMMA AppendFailsStep ==
    ASSUME IngestInv, DrainReceive, AppendFails(Head(evq))
    PROVE  IngestInv'
<1> USE DEF IngestInv
<1>a. /\ evq \in Seq(Nat) /\ evq # << >> /\ drain.pc = "receive" /\ evq' = Tail(evq)
      /\ UNCHANGED << flushed, synced, emitted, feed, sinkq, sink, sunk, began, cut, pruned, abandoned, profile >>
    BY DEF DrainReceive, Sizes
<1>b. PICK i \in Nat : i = Head(evq)
    BY <1>a, TailRange
<1>c. evq' \in Seq(Nat) /\ Range(evq) = {i} \cup Range(evq')
    BY <1>a, <1>b, TailRange
<1>d. /\ dropped' = dropped \cup {i} /\ walFailed' = TRUE /\ cancelled' = TRUE
      /\ drain' = [pc |-> "closing", rec |-> 0] /\ UNCHANGED << log, proc, failure, exit >>
    BY <1>b DEF AppendFails, Fail
<1>1. Sizes'
    BY ONLY IngestInv, <1>a, <1>b, <1>c, <1>d DEF IngestInv, Sizes, Places
<1>2. Places'
    BY ONLY IngestInv, <1>a, <1>b, <1>c, <1>d DEF IngestInv, Places
<1>3. Flags'
    BY ONLY IngestInv, <1>a, <1>b, <1>c, <1>d DEF IngestInv, Flags
<1>4. AtRest'
    BY ONLY IngestInv, <1>a, <1>b, <1>c, <1>d DEF IngestInv, Places, AtRest, Alive
<1>5. OnlyFromWal'
    BY ONLY IngestInv, <1>a, <1>b, <1>c, <1>d DEF IngestInv, Sizes, Places, OnlyFromWal, Passing
<1>6. InWal'
    BY ONLY IngestInv, <1>a, <1>b, <1>c, <1>d DEF IngestInv, Sizes, Places, AtRest, InWal, Alive
<1>7. InStore'
    BY ONLY IngestInv, <1>a, <1>b, <1>c, <1>d DEF IngestInv, Sizes, Places, Flags, AtRest, InStore, SinkOver, Alive, Passing
<1>8. DrainOver'
    BY ONLY IngestInv, <1>a, <1>b, <1>c, <1>d DEF IngestInv, Places, AtRest, DrainOver, SinkOver, Alive
<1>9. SinkOver'
    BY ONLY IngestInv, <1>a, <1>b, <1>c, <1>d DEF IngestInv, Places, AtRest, SinkOver, Alive, Script, Setup
<1>10. CleanExitStored'
    BY ONLY IngestInv, <1>a, <1>b, <1>c, <1>d DEF IngestInv, Places, AtRest, CleanExitStored, Alive
<1> QED
    BY <1>1, <1>2, <1>3, <1>4, <1>5, <1>6, <1>7, <1>8, <1>9, <1>10 DEF IngestInv

\* The drain passes its record on, or finds that the sink has ended.
LEMMA DrainPassStep ==
    ASSUME IngestInv, DrainPass
    PROVE  IngestInv'
<1> USE DEF IngestInv, DrainPass, SinkEnded
<1>a. drain.pc = "passing" /\ drain.rec \in Nat /\ sinkq \in Seq(Nat)
    BY DEF Places, Sizes
<1>b. \/ drain' = [pc |-> "closing", rec |-> 0] /\ UNCHANGED sinkq /\ sink.pc = "failed"
      \/ /\ sinkq' = Append(sinkq, drain.rec) /\ sinkq' \in Seq(Nat)
         /\ Range(sinkq') = Range(sinkq) \cup {drain.rec}
         /\ drain' = [pc |-> "receive", rec |-> 0]
    BY <1>a, AppendRange DEF SinkOver
<1>c. UNCHANGED << log, flushed, synced, evq, emitted, began, proc, cancelled, walFailed, abandoned, feed,
                   sink, sunk, cut, pruned, dropped, profile, exit >>
    OBVIOUS
<1>1. Sizes'
    BY ONLY IngestInv, <1>a, <1>b, <1>c DEF IngestInv, Sizes, Places
<1>2. Places'
    BY ONLY IngestInv, <1>a, <1>b, <1>c DEF IngestInv, Places
<1>3. Flags'
    BY ONLY IngestInv, <1>a, <1>b, <1>c DEF IngestInv, Flags
<1>4. AtRest'
    BY ONLY IngestInv, <1>a, <1>b, <1>c DEF IngestInv, Places, AtRest, Alive
<1>5. OnlyFromWal'
    BY ONLY IngestInv, <1>a, <1>b, <1>c DEF IngestInv, Sizes, Places, OnlyFromWal, Passing
<1>6. InWal'
    BY ONLY IngestInv, <1>a, <1>b, <1>c DEF IngestInv, Sizes, Places, AtRest, InWal, Alive
<1>7. InStore'
    BY ONLY IngestInv, <1>a, <1>b, <1>c DEF IngestInv, Sizes, Places, Flags, AtRest, InStore, SinkOver, Alive, Passing
<1>8. DrainOver'
    BY ONLY IngestInv, <1>a, <1>b, <1>c DEF IngestInv, Places, AtRest, DrainOver, SinkOver, Alive
<1>9. SinkOver'
    BY ONLY IngestInv, <1>a, <1>b, <1>c DEF IngestInv, Places, AtRest, SinkOver, Alive, Script, Setup
<1>10. CleanExitStored'
    BY ONLY IngestInv, <1>a, <1>b, <1>c DEF IngestInv, Places, AtRest, CleanExitStored, Alive
<1> QED
    BY <1>1, <1>2, <1>3, <1>4, <1>5, <1>6, <1>7, <1>8, <1>9, <1>10 DEF IngestInv

\* A flush.
LEMMA DrainFlushStep ==
    ASSUME IngestInv, DrainFlush
    PROVE  IngestInv'
<1> USE DEF IngestInv, DrainFlush, Fail
<1>1. Sizes'
    BY DEF Sizes, Places
<1>2. Places'
    BY DEF Places
<1>3. Flags'
    BY DEF Flags
<1>4. AtRest'
    BY DEF Places, AtRest, Alive
<1>5. OnlyFromWal'
    BY DEF Sizes, Places, OnlyFromWal, Passing
<1>6. InWal'
    BY DEF Sizes, Places, AtRest, InWal, Alive
<1>7. InStore'
    BY DEF Sizes, Places, Flags, AtRest, InStore, SinkOver, Alive, Passing
<1>8. DrainOver'
    BY DEF Places, AtRest, DrainOver, SinkOver, Alive
<1>9. SinkOver'
    BY DEF Places, AtRest, SinkOver, Alive, Script, Setup
<1>10. CleanExitStored'
    BY DEF Places, AtRest, CleanExitStored, Alive
<1> QED
    BY <1>1, <1>2, <1>3, <1>4, <1>5, <1>6, <1>7, <1>8, <1>9, <1>10 DEF IngestInv

\* A sync.
LEMMA DrainSyncStep ==
    ASSUME IngestInv, DrainSync
    PROVE  IngestInv'
<1> USE DEF IngestInv, DrainSync, Fail
<1>1. Sizes'
    BY DEF Sizes, Places
<1>2. Places'
    BY DEF Places
<1>3. Flags'
    BY DEF Flags
<1>4. AtRest'
    BY DEF Places, AtRest, Alive
<1>5. OnlyFromWal'
    BY DEF Sizes, Places, OnlyFromWal, Passing
<1>6. InWal'
    BY DEF Sizes, Places, AtRest, InWal, Alive
<1>7. InStore'
    BY DEF Sizes, Places, Flags, AtRest, InStore, SinkOver, Alive, Passing
<1>8. DrainOver'
    BY DEF Places, AtRest, DrainOver, SinkOver, Alive
<1>9. SinkOver'
    BY DEF Places, AtRest, SinkOver, Alive, Script, Setup
<1>10. CleanExitStored'
    BY DEF Places, AtRest, CleanExitStored, Alive
<1> QED
    BY <1>1, <1>2, <1>3, <1>4, <1>5, <1>6, <1>7, <1>8, <1>9, <1>10 DEF IngestInv

\* A segment is pruned: its records are noted.
LEMMA DrainPruneStep ==
    ASSUME IngestInv, DrainPrune
    PROVE  IngestInv'
<1> USE DEF IngestInv, DrainPrune
<1>a. PICK h \in Nat : h = Head(log)
    BY TailRange DEF Sizes
<1>b. /\ log' \in Seq(Nat) /\ Len(log') = Len(log) - 1 /\ Range(log) = {h} \cup Range(log')
      /\ pruned' = pruned \cup {h} /\ flushed' = flushed - 1 /\ synced' = synced - 1 /\ synced > 0
    BY <1>a, TailRange DEF Sizes
<1>c. UNCHANGED << evq, sinkq, emitted, began, proc, cancelled, walFailed, abandoned, feed, drain,
                   sink, sunk, cut, dropped, profile, exit >> /\ drain.pc = "receive"
    OBVIOUS
<1>1. Sizes'
    BY ONLY IngestInv, <1>b, <1>c DEF IngestInv, Sizes, Places
<1>2. Places'
    BY ONLY IngestInv, <1>b, <1>c DEF IngestInv, Places
<1>3. Flags'
    BY ONLY IngestInv, <1>b, <1>c DEF IngestInv, Flags
<1>4. AtRest'
    BY ONLY IngestInv, <1>b, <1>c DEF IngestInv, Places, AtRest, Alive
<1>5. OnlyFromWal'
    BY ONLY IngestInv, <1>b, <1>c DEF IngestInv, Sizes, Places, OnlyFromWal, Passing
<1>6. InWal'
    BY ONLY IngestInv, <1>b, <1>c DEF IngestInv, Sizes, Places, AtRest, InWal, Alive
<1>7. InStore'
    BY ONLY IngestInv, <1>b, <1>c DEF IngestInv, Sizes, Places, Flags, AtRest, InStore, SinkOver, Alive, Passing
<1>8. DrainOver'
    BY ONLY IngestInv, <1>b, <1>c DEF IngestInv, Places, AtRest, DrainOver, SinkOver, Alive
<1>9. SinkOver'
    BY ONLY IngestInv, <1>b, <1>c DEF IngestInv, Places, AtRest, SinkOver, Alive, Script, Setup
<1>10. CleanExitStored'
    BY ONLY IngestInv, <1>b, <1>c DEF IngestInv, Places, AtRest, CleanExitStored, Alive
<1> QED
    BY <1>1, <1>2, <1>3, <1>4, <1>5, <1>6, <1>7, <1>8, <1>9, <1>10 DEF IngestInv

\* Its channel is closed.
LEMMA DrainEndsStep ==
    ASSUME IngestInv, DrainEnds
    PROVE  IngestInv'
<1> USE DEF IngestInv, DrainEnds, SendersGone
<1>1. Sizes'
    BY DEF Sizes, Places
<1>2. Places'
    BY DEF Places
<1>3. Flags'
    BY DEF Flags
<1>4. AtRest'
    BY DEF Places, AtRest, Alive
<1>5. OnlyFromWal'
    BY DEF Sizes, Places, OnlyFromWal, Passing
<1>6. InWal'
    BY DEF Sizes, Places, AtRest, InWal, Alive
<1>7. InStore'
    BY DEF Sizes, Places, Flags, AtRest, InStore, SinkOver, Alive, Passing
<1>8. DrainOver'
    BY DEF Places, AtRest, DrainOver, SinkOver, Alive
<1>9. SinkOver'
    BY DEF Places, AtRest, SinkOver, Alive, Script, Setup
<1>10. CleanExitStored'
    BY DEF Places, AtRest, CleanExitStored, Alive
<1> QED
    BY <1>1, <1>2, <1>3, <1>4, <1>5, <1>6, <1>7, <1>8, <1>9, <1>10 DEF IngestInv

\* The last sync.
LEMMA DrainClosesStep ==
    ASSUME IngestInv, DrainCloses
    PROVE  IngestInv'
<1> USE DEF IngestInv, DrainCloses
<1>1. Sizes'
    BY DEF Sizes, Places
<1>2. Places'
    BY DEF Places
<1>3. Flags'
    BY DEF Flags
<1>4. AtRest'
    BY DEF Places, AtRest, Alive
<1>5. OnlyFromWal'
    BY DEF Sizes, Places, OnlyFromWal, Passing
<1>6. InWal'
    BY DEF Sizes, Places, AtRest, InWal, Alive
<1>7. InStore'
    BY DEF Sizes, Places, Flags, AtRest, InStore, SinkOver, Alive, Passing
<1>8. DrainOver'
    BY DEF Places, AtRest, DrainOver, SinkOver, Alive
<1>9. SinkOver'
    BY DEF Places, AtRest, SinkOver, Alive, Script, Setup
<1>10. CleanExitStored'
    BY DEF Places, AtRest, CleanExitStored, Alive
<1> QED
    BY <1>1, <1>2, <1>3, <1>4, <1>5, <1>6, <1>7, <1>8, <1>9, <1>10 DEF IngestInv

\* The sink takes a record.
LEMMA SinkReceiveStep ==
    ASSUME IngestInv, SinkReceive
    PROVE  IngestInv'
<1> USE DEF IngestInv, SinkReceive
<1>a. PICK h \in Nat : h = Head(sinkq)
    BY TailRange DEF Sizes
<1>b. /\ sinkq' \in Seq(Nat) /\ Range(sinkq) = {h} \cup Range(sinkq') /\ sinkq # << >>
    BY <1>a, TailRange DEF Sizes
<1>c. /\ DOMAIN sink' = {"pc", "buffer", "left", "attempts", "final"}
      /\ sink'.pc = "receiving" /\ sink'.buffer = Append(sink.buffer, h) /\ sink'.attempts = sink.attempts
    BY <1>a DEF Places
<1>d. sink'.buffer \in Seq(Nat) /\ Range(sink'.buffer) = Range(sink.buffer) \cup {h}
    BY <1>c, AppendRange DEF Sizes
<1>e. UNCHANGED << log, flushed, synced, evq, emitted, began, proc, cancelled, walFailed, abandoned, feed,
                   drain, sunk, cut, pruned, dropped, profile, exit >> /\ sink.pc = "receiving"
    OBVIOUS
<1>1. Sizes'
    BY ONLY IngestInv, <1>b, <1>c, <1>d, <1>e DEF IngestInv, Sizes, Places
<1>2. Places'
    BY ONLY IngestInv, <1>b, <1>c, <1>d, <1>e DEF IngestInv, Places
<1>3. Flags'
    BY ONLY IngestInv, <1>b, <1>c, <1>d, <1>e DEF IngestInv, Flags
<1>4. AtRest'
    BY ONLY IngestInv, <1>b, <1>c, <1>d, <1>e DEF IngestInv, Places, AtRest, Alive
<1>5. OnlyFromWal'
    BY ONLY IngestInv, <1>b, <1>c, <1>d, <1>e DEF IngestInv, Sizes, Places, OnlyFromWal, Passing
<1>6. InWal'
    BY ONLY IngestInv, <1>b, <1>c, <1>d, <1>e DEF IngestInv, Sizes, Places, AtRest, InWal, Alive
<1>7. InStore'
    BY ONLY IngestInv, <1>b, <1>c, <1>d, <1>e DEF IngestInv, Sizes, Places, Flags, AtRest, InStore, SinkOver, Alive, Passing
<1>8. DrainOver'
    BY ONLY IngestInv, <1>b, <1>c, <1>d, <1>e DEF IngestInv, Places, AtRest, DrainOver, SinkOver, Alive
<1>9. SinkOver'
    BY ONLY IngestInv, <1>b, <1>c, <1>d, <1>e DEF IngestInv, Places, AtRest, SinkOver, Alive, Script, Setup
<1>10. CleanExitStored'
    BY ONLY IngestInv, <1>b, <1>c, <1>d, <1>e DEF IngestInv, Places, AtRest, CleanExitStored, Alive
<1> QED
    BY <1>1, <1>2, <1>3, <1>4, <1>5, <1>6, <1>7, <1>8, <1>9, <1>10 DEF IngestInv

\* A flush of the sink begins.
LEMMA SinkFlushStep ==
    ASSUME IngestInv, SinkFlush
    PROVE  IngestInv'
<1> USE DEF IngestInv, SinkFlush
<1>a. /\ DOMAIN sink' = {"pc", "buffer", "left", "attempts", "final"}
      /\ sink'.pc = "flushing" /\ sink'.buffer = sink.buffer /\ sink'.left = GroupsIn(sink.buffer)
      /\ sink'.attempts = 0 /\ sink'.final = ChannelClosed /\ 0 \in 0 .. MaxRetries
    BY IngestAssumption DEF Places
<1>d. UNCHANGED << log, flushed, synced, evq, sinkq, emitted, began, proc, cancelled, walFailed, abandoned, feed,
                   drain, sunk, cut, pruned, dropped, profile, exit >> /\ sink.pc = "receiving"
    OBVIOUS
<1>e. Script' = Script
    BY <1>d DEF Script, Setup
<1>1. Sizes'
    BY ONLY IngestInv, <1>a, <1>d, <1>e DEF IngestInv, Sizes, Places
<1>2. Places'
    BY ONLY IngestInv, <1>a, <1>d, <1>e DEF IngestInv, Places
<1>3. Flags'
    BY ONLY IngestInv, <1>a, <1>d, <1>e DEF IngestInv, Flags
<1>4. AtRest'
    BY ONLY IngestInv, <1>a, <1>d, <1>e DEF IngestInv, Places, AtRest, Alive
<1>5. OnlyFromWal'
    BY ONLY IngestInv, <1>a, <1>d, <1>e DEF IngestInv, Sizes, Places, OnlyFromWal, Passing
<1>6. InWal'
    BY ONLY IngestInv, <1>a, <1>d, <1>e DEF IngestInv, Sizes, Places, AtRest, InWal, Alive
<1>7. InStore'
    BY ONLY IngestInv, <1>a, <1>d, <1>e DEF IngestInv, Sizes, Places, Flags, AtRest, InStore, SinkOver, Alive, Passing
<1>8. DrainOver'
    BY ONLY IngestInv, <1>a, <1>d, <1>e DEF IngestInv, Places, AtRest, DrainOver, SinkOver, Alive
<1>9. SinkOver'
    BY ONLY IngestInv, <1>a, <1>d, <1>e
    DEF IngestInv, Places, AtRest, SinkOver, Alive, Script, Setup, GroupsIn, ChannelClosed
<1>10. CleanExitStored'
    BY ONLY IngestInv, <1>a, <1>d, <1>e DEF IngestInv, Places, AtRest, CleanExitStored, Alive
<1> QED
    BY <1>1, <1>2, <1>3, <1>4, <1>5, <1>6, <1>7, <1>8, <1>9, <1>10 DEF IngestInv

\* The sink ends with its channel.
LEMMA SinkEndsStep ==
    ASSUME IngestInv, SinkEnds
    PROVE  IngestInv'
<1> USE DEF IngestInv, SinkEnds, ChannelClosed
<1>1. Sizes'
    BY DEF Sizes, Places
<1>2. Places'
    BY DEF Places
<1>3. Flags'
    BY DEF Flags
<1>4. AtRest'
    BY DEF Places, AtRest, Alive
<1>5. OnlyFromWal'
    BY DEF Sizes, Places, OnlyFromWal, Passing
<1>6. InWal'
    BY DEF Sizes, Places, AtRest, InWal, Alive
<1>7. InStore'
    BY DEF Sizes, Places, Flags, AtRest, InStore, SinkOver, Alive, Passing
<1>8. DrainOver'
    BY DEF Places, AtRest, DrainOver, SinkOver, Alive
<1>9. SinkOver'
    BY DEF Places, AtRest, SinkOver, Alive, Script, Setup
<1>10. CleanExitStored'
    BY DEF Places, AtRest, CleanExitStored, Alive
<1> QED
    BY <1>1, <1>2, <1>3, <1>4, <1>5, <1>6, <1>7, <1>8, <1>9, <1>10 DEF IngestInv

\* A group is written: all of its rows are in the store.
LEMMA FlushGroupStep ==
    ASSUME IngestInv, FlushGroup
    PROVE  IngestInv'
<1> USE DEF IngestInv, FlushGroup
<1>a. PICK g \in sink.left : sunk' = sunk \cup Range(RowsOf(sink.buffer, g)) /\ sink' = [sink EXCEPT !.left = @ \ {g}]
    OBVIOUS
<1>b. sunk' = sunk \cup {i \in Range(sink.buffer) : GroupOf(Script[i]) = g}
    BY <1>a, RowsOfFacts DEF Sizes
<1>c. /\ DOMAIN sink' = {"pc", "buffer", "left", "attempts", "final"}
      /\ sink'.pc = "flushing" /\ sink'.buffer = sink.buffer /\ sink'.attempts = sink.attempts
      /\ sink'.final = sink.final /\ sink'.left = sink.left \ {g}
    BY <1>a DEF Places
<1>d. UNCHANGED << log, flushed, synced, evq, sinkq, emitted, began, proc, cancelled, walFailed, abandoned, feed,
                   drain, cut, pruned, dropped, profile, exit >> /\ sink.pc = "flushing"
    OBVIOUS
<1>e. Script' = Script
    BY <1>d DEF Script, Setup
<1>1. Sizes'
    BY ONLY IngestInv, <1>b, <1>c, <1>d, <1>e DEF IngestInv, Sizes, Places
<1>2. Places'
    BY ONLY IngestInv, <1>b, <1>c, <1>d, <1>e DEF IngestInv, Places
<1>3. Flags'
    BY ONLY IngestInv, <1>b, <1>c, <1>d, <1>e DEF IngestInv, Flags
<1>4. AtRest'
    BY ONLY IngestInv, <1>b, <1>c, <1>d, <1>e DEF IngestInv, Places, AtRest, Alive
<1>5. OnlyFromWal'
    BY ONLY IngestInv, <1>b, <1>c, <1>d, <1>e DEF IngestInv, Sizes, Places, OnlyFromWal, Passing
<1>6. InWal'
    BY ONLY IngestInv, <1>b, <1>c, <1>d, <1>e DEF IngestInv, Sizes, Places, AtRest, InWal, Alive
<1>7. InStore'
    BY ONLY IngestInv, <1>b, <1>c, <1>d, <1>e DEF IngestInv, Sizes, Places, Flags, AtRest, InStore, SinkOver, Alive, Passing
<1>8. DrainOver'
    BY ONLY IngestInv, <1>b, <1>c, <1>d, <1>e DEF IngestInv, Places, AtRest, DrainOver, SinkOver, Alive
<1>9. SinkOver'
    BY ONLY IngestInv, <1>b, <1>c, <1>d, <1>e DEF IngestInv, Places, AtRest, SinkOver, Alive, Script, Setup
<1>10. CleanExitStored'
    BY ONLY IngestInv, <1>b, <1>c, <1>d, <1>e DEF IngestInv, Places, AtRest, CleanExitStored, Alive
<1> QED
    BY <1>1, <1>2, <1>3, <1>4, <1>5, <1>6, <1>7, <1>8, <1>9, <1>10 DEF IngestInv

\* A flush is done: all that was buffered is in the store.
LEMMA FlushDoneStep ==
    ASSUME IngestInv, FlushDone
    PROVE  IngestInv'
<1> USE DEF IngestInv, FlushDone
<1>a. /\ DOMAIN sink' = {"pc", "buffer", "left", "attempts", "final"}
      /\ sink'.pc = IF sink.final THEN "done" ELSE "receiving"
      /\ sink'.buffer = << >> /\ sink'.buffer \in Seq(Nat) /\ Range(sink'.buffer) = {} /\ sink'.attempts = sink.attempts
    BY NoRange DEF Places
<1>b. Range(sink.buffer) \subseteq sunk
    BY DEF SinkOver
<1>d. UNCHANGED << log, flushed, synced, evq, sinkq, emitted, began, proc, cancelled, walFailed, abandoned, feed,
                   drain, sunk, cut, pruned, dropped, profile, exit >> /\ sink.pc = "flushing"
    OBVIOUS
<1>1. Sizes'
    BY ONLY IngestInv, <1>a, <1>b, <1>d DEF IngestInv, Sizes, Places
<1>2. Places'
    BY ONLY IngestInv, <1>a, <1>b, <1>d DEF IngestInv, Places
<1>3. Flags'
    BY ONLY IngestInv, <1>a, <1>b, <1>d DEF IngestInv, Flags
<1>4. AtRest'
    BY ONLY IngestInv, <1>a, <1>b, <1>d DEF IngestInv, Places, AtRest, Alive
<1>5. OnlyFromWal'
    BY ONLY IngestInv, <1>a, <1>b, <1>d DEF IngestInv, Sizes, Places, OnlyFromWal, Passing
<1>6. InWal'
    BY ONLY IngestInv, <1>a, <1>b, <1>d DEF IngestInv, Sizes, Places, AtRest, InWal, Alive
<1>7. InStore'
    BY ONLY IngestInv, <1>a, <1>b, <1>d DEF IngestInv, Sizes, Places, Flags, AtRest, InStore, SinkOver, Alive, Passing
<1>8. DrainOver'
    BY ONLY IngestInv, <1>a, <1>b, <1>d DEF IngestInv, Places, AtRest, DrainOver, SinkOver, Alive
<1>9. SinkOver'
    BY ONLY IngestInv, <1>a, <1>b, <1>d DEF IngestInv, Places, AtRest, SinkOver, Alive, Script, Setup
<1>10. CleanExitStored'
    BY ONLY IngestInv, <1>a, <1>b, <1>d DEF IngestInv, Places, AtRest, CleanExitStored, Alive
<1> QED
    BY <1>1, <1>2, <1>3, <1>4, <1>5, <1>6, <1>7, <1>8, <1>9, <1>10 DEF IngestInv

\* A failed write; too many of them end the sink.
LEMMA FlushFailsStep ==
    ASSUME IngestInv, FlushFails
    PROVE  IngestInv'
<1> USE DEF IngestInv, FlushFails
<1>a. /\ DOMAIN sink' = {"pc", "buffer", "left", "attempts", "final"}
      /\ sink'.buffer = sink.buffer /\ sink'.attempts \in 0 .. MaxRetries
      /\ \/ sink'.pc = "flushing" /\ sink'.left = GroupsIn(sink.buffer) /\ sink'.final = sink.final
         \/ sink'.pc = "failed" /\ abandoned'
    <2>1. CASE sink.attempts < MaxRetries
        <3>1. sink' = [sink EXCEPT !.left = GroupsIn(sink.buffer), !.attempts = @ + 1]
            BY <2>1
        <3>2. sink.attempts + 1 \in 0 .. MaxRetries
            BY <2>1, IngestAssumption DEF Sizes
        <3> QED
            BY <3>1, <3>2 DEF Places
    <2>2. CASE ~(sink.attempts < MaxRetries)
        <3>1. sink' = [sink EXCEPT !.pc = "failed"] /\ sink.attempts = MaxRetries
            BY <2>2, IngestAssumption DEF Sizes
        <3> QED
            BY <3>1 DEF Places, Sizes
    <2> QED
        BY <2>1, <2>2
<1>b. abandoned' \in BOOLEAN /\ (abandoned => abandoned')
    BY DEF Flags
<1>d. UNCHANGED << log, flushed, synced, evq, sinkq, emitted, began, proc, cancelled, walFailed, feed,
                   drain, sunk, cut, pruned, dropped, profile, exit >> /\ sink.pc = "flushing"
    OBVIOUS
<1>e. Script' = Script
    BY <1>d DEF Script, Setup
<1>1. Sizes'
    BY ONLY IngestInv, <1>a, <1>b, <1>d, <1>e DEF IngestInv, Sizes, Places
<1>2. Places'
    BY ONLY IngestInv, <1>a, <1>b, <1>d, <1>e DEF IngestInv, Places
<1>3. Flags'
    BY ONLY IngestInv, <1>a, <1>b, <1>d, <1>e DEF IngestInv, Flags
<1>4. AtRest'
    BY ONLY IngestInv, <1>a, <1>b, <1>d, <1>e DEF IngestInv, Places, AtRest, Alive
<1>5. OnlyFromWal'
    BY ONLY IngestInv, <1>a, <1>b, <1>d, <1>e DEF IngestInv, Sizes, Places, OnlyFromWal, Passing
<1>6. InWal'
    BY ONLY IngestInv, <1>a, <1>b, <1>d, <1>e DEF IngestInv, Sizes, Places, AtRest, InWal, Alive
<1>7. InStore'
    BY ONLY IngestInv, <1>a, <1>b, <1>d, <1>e DEF IngestInv, Sizes, Places, Flags, AtRest, InStore, SinkOver, Alive, Passing
<1>8. DrainOver'
    BY ONLY IngestInv, <1>a, <1>b, <1>d, <1>e DEF IngestInv, Places, AtRest, DrainOver, SinkOver, Alive
<1>9. SinkOver'
    BY ONLY IngestInv, <1>a, <1>b, <1>d, <1>e DEF IngestInv, Places, AtRest, SinkOver, Alive, Script, Setup, GroupsIn
<1>10. CleanExitStored'
    BY ONLY IngestInv, <1>a, <1>b, <1>d, <1>e DEF IngestInv, Places, AtRest, CleanExitStored, Alive
<1> QED
    BY <1>1, <1>2, <1>3, <1>4, <1>5, <1>6, <1>7, <1>8, <1>9, <1>10 DEF IngestInv

\* Every task ended, and well: all that was emitted is in the WAL, on disk, and stored.
LEMMA JoinStep ==
    ASSUME IngestInv, Join
    PROVE  IngestInv'
<1> USE DEF IngestInv
<1>1. /\ proc = "joining" /\ exit' = ExitStatus /\ Gone
      /\ UNCHANGED << log, flushed, synced, emitted, sunk, began, dropped, cut, pruned, abandoned, profile >>
    BY DEF Join
<1>2. drain.pc = "done" /\ sink.pc \in {"done", "failed"}
    <2>1. "wal-drain" \in Exited /\ "parquet-sink" \in Exited
        BY DEF Join, AllEnded
    <2> QED
        BY <2>1 DEF Exited, SinkEnded
<1>3. ASSUME exit' = "ok", ~abandoned PROVE CleanExitStored'
    <2>1. ~walFailed
        BY <1>1, <1>3 DEF ExitStatus
    <2>2. evq = << >> /\ sinkq = << >> /\ sink.buffer = << >> /\ synced = Len(log) /\ drain.pc # "passing"
        BY <1>2, <1>3, <2>1 DEF DrainOver, SinkOver
    <2>3. SubSeq(log, 1, synced) = log
        BY <2>2 DEF Sizes
    <2>4. \A i \in began + 1 .. emitted : i \in dropped \cup Range(log) \cup pruned
        BY <1>1, <2>2, NoRange DEF InWal, Alive
    <2>5. \A i \in began + 1 .. emitted : i \in dropped \cup sunk
        BY <1>1, <1>3, <2>2, NoRange DEF InStore, Alive, Passing
    <2> QED
        BY <1>1, <2>3, <2>4, <2>5 DEF CleanExitStored
<1>4. CleanExitStored'
    BY <1>1, <1>3 DEF CleanExitStored
<1> QED
    BY <1>1, <1>4, GoneStep DEF Sizes, Flags

\* They did not end in time.
LEMMA JoinTimeoutStep ==
    ASSUME IngestInv, JoinTimeout
    PROVE  IngestInv'
<1> USE DEF IngestInv
<1>1. /\ Gone /\ abandoned' = TRUE /\ flushed' = Len(log)
      /\ UNCHANGED << log, synced, emitted, sunk, began, dropped, cut, pruned, profile >>
    BY DEF JoinTimeout
<1>2. flushed' \in 0 .. Len(log') /\ synced' \in 0 .. flushed' /\ log' \in Seq(Nat)
    BY <1>1 DEF Sizes
<1>3. CleanExitStored'
    BY <1>1 DEF CleanExitStored
<1> QED
    BY <1>1, <1>2, <1>3, GoneStep

\* A crash: what it cuts off the WAL is noted.
LEMMA CrashStep ==
    ASSUME IngestInv, Crash
    PROVE  IngestInv'
<1> USE DEF IngestInv
<1>1. PICK k \in (IF Setup.crash = "power" THEN synced ELSE flushed) .. Len(log) :
        /\ log' = SubSeq(log, 1, k)
        /\ cut' = cut \cup {log[i] : i \in k + 1 .. Len(log)}
        /\ flushed' = k
        /\ synced' = IF Setup.crash = "power" THEN k ELSE synced
    BY DEF Crash
<1>2. Gone /\ exit' = "crash" /\ UNCHANGED << emitted, sunk, began, dropped, pruned, abandoned, profile >>
    BY DEF Crash
<1>3. k \in 0 .. Len(log) /\ synced' \in 0 .. k
    BY <1>1 DEF Sizes
<1>4. /\ log' \in Seq(Nat) /\ Len(log') = k
      /\ Range(log) = Range(log') \cup {log[i] : i \in k + 1 .. Len(log)}
    BY <1>1, <1>3, CutRange DEF Sizes
<1>5. CleanExitStored'
    BY <1>2 DEF CleanExitStored
<1> QED
    BY <1>1, <1>2, <1>3, <1>4, <1>5, GoneStep DEF Flags

\* A step of the supervisor or of a source, and one that is not of the ingest process.
LEMMA ControlSteps ==
    ASSUME IngestInv,
           \/ AskToStop \/ FeedStops \/ ProducerStops \/ FeedReturns \/ TaskExits \/ FeedAwaited
           \/ RotationReturns \/ ReconcileNext \/ UNCHANGED ingestVars
    PROVE  IngestInv'
<1> USE DEF Alive
<1>1. Places /\ Flags
    BY DEF IngestInv
<1>2. CASE AskToStop
    BY <1>1, <1>2, ControlStep DEF AskToStop, Places, Flags
<1>3. CASE FeedStops
    BY <1>1, <1>3, ControlStep DEF FeedStops, Places, Flags
<1>4. CASE ProducerStops
    BY <1>1, <1>4, ControlStep DEF ProducerStops, Places, Flags
<1>5. CASE FeedReturns
    BY <1>1, <1>5, ControlStep DEF FeedReturns, Places, Flags
<1>6. CASE TaskExits
    BY <1>1, <1>6, ControlStep DEF TaskExits, Places, Flags
<1>7. CASE FeedAwaited
    BY <1>1, <1>7, ControlStep DEF FeedAwaited, Places, Flags
<1>8. CASE RotationReturns
    BY <1>1, <1>8, ControlStep DEF RotationReturns, Places, Flags
<1>9. CASE ReconcileNext
    BY <1>1, <1>9, ControlStep DEF ReconcileNext, Places, Flags
<1>10. CASE UNCHANGED ingestVars
    BY <1>1, <1>10, ControlStep DEF ingestVars, Places, Flags
<1> QED
    BY <1>2, <1>3, <1>4, <1>5, <1>6, <1>7, <1>8, <1>9, <1>10

\* A task takes a step.
LEMMA TasksStep ==
    ASSUME IngestInv, Tasks
    PROVE  IngestInv'
<1>1. CASE DrainReceive
    BY <1>1, AppendToWalStep, DropUnencodedStep, AppendFailsStep DEF DrainReceive
<1> QED
    BY <1>1, ControlSteps, DrainPassStep, DrainFlushStep, DrainSyncStep, DrainPruneStep, DrainEndsStep,
       DrainClosesStep, SinkReceiveStep, SinkFlushStep, SinkEndsStep, FlushGroupStep, FlushDoneStep,
       FlushFailsStep, JoinStep DEF Tasks

\* Every step of the system preserves the invariant of the ingest process.
LEMMA NextStep ==
    ASSUME IngestInv, [Next]_vars
    PROVE  IngestInv'
<1>1. CASE IngestNext
    BY <1>1, TasksStep, ControlSteps, StartIngestStep, OpenWalStep, OpenRefusedStep, EmitStep,
       JoinTimeoutStep, CrashStep DEF IngestNext
<1>2. CASE RotationReturns \/ ReconcileNext \/ UNCHANGED ingestVars
    BY <1>2, ControlSteps
<1> QED
    BY <1>1, <1>2 DEF Next, vars, IngestStep

\* Nothing has happened yet.
LEMMA InitInv ==
    ASSUME Init
    PROVE  IngestInv
<1> USE DEF Init, IngestInit
<1>1. Sizes
    BY NoRange, IngestAssumption DEF Sizes, NoSink
<1>2. Places /\ Flags
    BY DEF Places, Flags, NoSink
<1>3. AtRest
    BY DEF AtRest, Alive
<1>4. OnlyFromWal
    BY NoRange DEF OnlyFromWal, Passing, NoSink
<1>5. InWal /\ InStore
    BY DEF InWal, InStore, Alive
<1>6. DrainOver /\ SinkOver
    BY DEF DrainOver, SinkOver, NoSink
<1>7. CleanExitStored
    BY DEF CleanExitStored
<1> QED
    BY <1>1, <1>2, <1>3, <1>4, <1>5, <1>6, <1>7 DEF IngestInv

\* The invariant of the ingest process holds in every state.
THEOREM IngestInvariant == Spec => []IngestInv
BY InitInv, NextStep, PTL DEF Spec

\* The write-ahead rule (wal_drain): no record is in the sink's channel, its buffer or
\* the store that the WAL did not get first, whatever fails, and across any number of
\* processes and crashes.
THEOREM WalFirstAlways == Spec => []WalFirst
<1>1. IngestInv => WalFirst
    BY DEF IngestInv, OnlyFromWal, WalFirst
<1> QED
    BY <1>1, IngestInvariant, PTL

\* An ingest that ends well has every record of its life on disk in the WAL and in the
\* store (run, join_all): nothing is lost between the event channel, the WAL, the
\* sink's channel, its buffer and the retries of its flush.
THEOREM CleanExitStoredAlways == Spec => []CleanExitStored
<1>1. IngestInv => CleanExitStored
    BY DEF IngestInv
<1> QED
    BY <1>1, IngestInvariant, PTL

-----------------------------------------------------------------------------
(***************************************************************************)
(* The rotation.                                                           *)
(***************************************************************************)
RotInv == RotTypes /\ NoFeed /\ Targets /\ Subscribed

\* The next target is no earlier than the bucket after the active one.
LEMMA NextTarget ==
    ASSUME RotTypes, Targets
    PROVE  /\ NextTargetBucket \in Nat
           /\ rot.active = None \/ NextTargetBucket >= rot.active + Bucket
<1>1. Bucket \in Nat \ {0}
    BY RotationAssumption
<1>2. clock \div Bucket \in Nat
    BY <1>1 DEF RotTypes
<1>3. CurrentBucket \in Nat
    BY <1>1, <1>2 DEF CurrentBucket
<1>4. CASE rot.active = None
    BY <1>3, <1>4 DEF NextTargetBucket
<1>5. CASE rot.active # None
    <2>1. PICK x \in Nat : x = CurrentBucket
        BY <1>3
    <2>2. rot.active \in Int /\ rot.active >= -1
        BY DEF RotTypes, Rots, Targets, None
    <2>3. rot.active + Bucket \in Nat
        BY <1>1, <2>2
    <2>4. PICK y \in Nat : y = rot.active + Bucket
        BY <2>3
    <2>5. Max({y, x}) \in {y, x} /\ Max({y, x}) >= y
        BY <2>1, <2>4 DEF Max
    <2>6. NextTargetBucket = Max({y, x})
        BY <1>5, <2>1, <2>4, Zenon DEF NextTargetBucket
    <2> QED
        BY <2>1, <2>4, <2>5, <2>6
<1> QED
    BY <1>4, <1>5

\* A market of a later bucket is subscribed.
LEMMA LaterMarket ==
    ASSUME NEW s \in Seq(Nat), NEW t \in Nat, \A i, j \in 1 .. Len(s) : i < j => s[i] < s[j],
           \A i \in 1 .. Len(s) : s[i] < t
    PROVE  /\ Append(s, t) \in Seq(Nat)
           /\ \A i, j \in 1 .. Len(Append(s, t)) : i < j => Append(s, t)[i] < Append(s, t)[j]
           /\ \A i \in 1 .. Len(Append(s, t)) : Append(s, t)[i] <= t
OBVIOUS

\* A step of the rotation.
LEMMA RotationKeeps ==
    ASSUME RotInv, RotationStep \/ Tick, UNCHANGED feed
    PROVE  RotInv'
<1> USE DEF RotInv, Rots, None
<1>1. CASE Plan /\ feed = "running"
    <2>1. PICK t \in Nat : t = NextTargetBucket /\ (rot.active = None \/ t >= rot.active + Bucket)
        BY NextTarget
    <2>a. PICK p \in {"sleep", "discover"} : rot' = [rot EXCEPT !.target = t, !.tries = 0, !.pc = p]
        BY <1>1, <2>1 DEF Plan
    <2>b. rot \in Rots /\ rot.pc = "plan" /\ UNCHANGED << clock, spawned >>
        BY <1>1 DEF Plan, RotTypes
    <2>2. /\ rot' \in Rots /\ rot'.target = t /\ rot'.pc \in {"sleep", "discover"}
          /\ rot'.active = rot.active /\ rot'.front = rot.front /\ rot'.next = rot.next
          /\ rot.pc = "plan" /\ UNCHANGED << clock, spawned >>
        <3>b. PICK u \in Int, z \in Int : u = t /\ z = 0
            OBVIOUS
        <3>c. [rot EXCEPT !.target = u, !.tries = z] \in Rots
            BY ONLY <2>b DEF Rots
        <3>0. PICK q \in Rots : q = [rot EXCEPT !.target = t, !.tries = 0]
            BY <3>b, <3>c, Zenon
        <3>a. rot' = [q EXCEPT !.pc = p]
            BY <2>a, <3>0
        <3>1. rot' \in Rots
            BY ONLY <3>a DEF Rots
        <3>2. DOMAIN rot = {"pc", "front", "next", "active", "target", "tries"}
            BY <2>b DEF Rots
        <3>3. /\ rot'.target = t /\ rot'.pc = p
              /\ rot'.active = rot.active /\ rot'.front = rot.front /\ rot'.next = rot.next
            BY ONLY <2>a, <3>2
        <3> QED
            BY <2>b, <3>1, <3>3
    <2>3. RotTypes' /\ NoFeed' /\ Targets'
        BY <1>1, <2>1, <2>2 DEF RotTypes, NoFeed, Targets
    <2>4. Subscribed'
        BY <2>2 DEF Subscribed, LastBucket
    <2> QED
        BY <2>3, <2>4
<1>2. CASE Wake /\ feed = "running"
    <2>1. /\ rot' \in Rots /\ rot'.target = rot.target /\ rot'.pc = "discover" /\ rot.pc = "sleep"
          /\ rot'.active = rot.active /\ rot'.front = rot.front /\ rot'.next = rot.next
          /\ UNCHANGED << clock, spawned >>
        BY <1>2 DEF Wake, RotTypes
    <2>2. RotTypes' /\ NoFeed' /\ Targets'
        BY <1>2, <2>1 DEF RotTypes, NoFeed, Targets
    <2>3. Subscribed'
        BY <2>1 DEF Subscribed, LastBucket
    <2> QED
        BY <2>2, <2>3
<1>3. CASE DiscoverFound /\ feed = "running"
    <2>1. PICK t \in Nat : t = rot.target /\ rot.active < t
        BY <1>3, RotationAssumption DEF DiscoverFound, Targets, RotTypes
    <2>2. /\ rot' \in Rots /\ rot'.target = t /\ rot'.pc = "retire" /\ rot.pc = "discover"
          /\ rot'.active = rot.active /\ rot'.front = rot.front /\ rot'.next = t
          /\ spawned' = Append(spawned, t) /\ UNCHANGED clock
        BY <1>3, <2>1 DEF DiscoverFound, RotTypes
    <2>3. \A i \in 1 .. Len(spawned) : spawned[i] < t
        BY <2>1, <2>2 DEF Subscribed, LastBucket, RotTypes
    <2>4. /\ spawned' \in Seq(Nat)
          /\ \A i, j \in 1 .. Len(spawned') : i < j => spawned'[i] < spawned'[j]
          /\ \A i \in 1 .. Len(spawned') : spawned'[i] <= t
        BY <2>2, <2>3, LaterMarket DEF Subscribed, RotTypes
    <2>5. RotTypes' /\ NoFeed' /\ Targets'
        BY <1>3, <2>1, <2>2, <2>4 DEF RotTypes, NoFeed, Targets
    <2>6. Subscribed'
        BY <2>2, <2>4 DEF Subscribed, LastBucket
    <2> QED
        BY <2>5, <2>6
<1>4. CASE DiscoverFails /\ feed = "running"
    <2>a. /\ rot \in Rots /\ rot.pc = "discover" /\ UNCHANGED << clock, spawned >>
          /\ rot' = [rot EXCEPT !.tries = rot.tries + 1,
                                !.pc = IF rot.tries + 1 = Attempts THEN "retire" ELSE "discover"]
        BY <1>4 DEF DiscoverFails, RotTypes
    <2>b. PICK n \in Int : n = rot.tries + 1
        BY <2>a
    <2>c. PICK p \in {"retire", "discover"} : p = IF n = Attempts THEN "retire" ELSE "discover"
        OBVIOUS
    <2>d. rot' = [rot EXCEPT !.tries = n, !.pc = p]
        BY <2>a, <2>b, <2>c, Zenon
    <2>e. rot \in Rots /\ rot.pc = "discover" /\ UNCHANGED << clock, spawned >>
        BY <2>a
    <2>1. /\ rot' \in Rots /\ rot'.target = rot.target /\ rot'.pc \in {"retire", "discover"} /\ rot.pc = "discover"
          /\ rot'.active = rot.active /\ rot'.front = rot.front /\ rot'.next = rot.next
          /\ UNCHANGED << clock, spawned >>
        BY ONLY <2>d, <2>e DEF Rots
    <2>2. RotTypes' /\ NoFeed' /\ Targets'
        BY <1>4, <2>1 DEF RotTypes, NoFeed, Targets
    <2>3. rot.active <= rot.target
        BY <2>1, RotationAssumption DEF Targets, RotTypes
    <2>4. Subscribed'
        BY <2>1, <2>3 DEF Subscribed, LastBucket, RotTypes
    <2> QED
        BY <2>2, <2>4
<1>5. CASE Retire /\ feed = "running"
    <2>1. /\ rot' \in Rots /\ rot'.pc = "plan" /\ rot.pc = "retire"
          /\ rot'.active = rot.target /\ rot'.front = rot.next /\ rot'.next = None
          /\ UNCHANGED << clock, spawned >>
        <3>1. /\ rot \in Rots /\ rot.pc = "retire" /\ UNCHANGED << clock, spawned >>
              /\ rot' = [rot EXCEPT !.pc = "plan", !.front = rot.next, !.next = None, !.active = rot.target]
            BY <1>5 DEF Retire, RotTypes
        <3>2. PICK n \in Int, a \in Int : n = rot.next /\ a = rot.target
            BY <3>1
        <3>3. rot' = [rot EXCEPT !.pc = "plan", !.front = n, !.next = None, !.active = a]
            BY <3>1, <3>2
        <3>4. None \in Int
            BY DEF None
        <3> HIDE DEF None
        <3> QED
            BY ONLY <3>1, <3>2, <3>3, <3>4 DEF Rots
    <2>2. RotTypes' /\ NoFeed' /\ Targets'
        BY <1>5, <2>1 DEF RotTypes, NoFeed, Targets
    <2>3. Subscribed'
        BY <2>1 DEF Subscribed, LastBucket
    <2> QED
        BY <2>2, <2>3
<1>6. CASE Break /\ feed = "running"
    <2>1. /\ rot' \in Rots /\ rot'.pc = "ended" /\ rot'.active = None /\ rot'.front = None
          /\ UNCHANGED << clock, spawned >>
        BY <1>6 DEF Break, Idle
    <2>2. RotTypes' /\ NoFeed' /\ Targets'
        BY <1>6, <2>1 DEF RotTypes, NoFeed, Targets
    <2>3. Subscribed'
        BY <2>1 DEF Subscribed
    <2> QED
        BY <2>2, <2>3
<1>7. CASE Tick
    BY <1>7 DEF Tick, RotTypes, NoFeed, Targets, Subscribed, LastBucket
<1> QED
    BY <1>1, <1>2, <1>3, <1>4, <1>5, <1>6, <1>7 DEF RotationStep, RotationNext

\* A step of the process that the rotation follows.
LEMMA FollowKeeps ==
    ASSUME RotInv, RotationFollows
    PROVE  RotInv'
<1> USE DEF RotInv, Rots, None
<1>1. CASE feed' = "off"
    <2>1. rot' = Idle /\ spawned' = << >> /\ clock' = clock
        BY <1>1 DEF RotationFollows
    <2> QED
        BY <2>1 DEF Idle, RotTypes, NoFeed, Targets, Subscribed, LastBucket
<1>2. CASE feed' # "off" /\ feed = "off" /\ Setup.rotates
    <2>1. /\ rot' \in Rots /\ rot'.pc = "plan" /\ rot'.active = None /\ rot'.front = None /\ rot'.next = None
          /\ spawned' = spawned /\ spawned = << >> /\ clock' = clock
        BY <1>2 DEF RotationFollows, Idle, NoFeed
    <2> QED
        BY <1>2, <2>1 DEF RotTypes, NoFeed, Targets, Subscribed, LastBucket
<1>3. CASE feed' # "off" /\ ~(feed = "off" /\ Setup.rotates)
    <2>1. UNCHANGED << clock, rot, spawned >>
        BY <1>3 DEF RotationFollows
    <2> QED
        BY <1>3, <2>1 DEF RotTypes, NoFeed, Targets, Subscribed, LastBucket
<1> QED
    BY <1>1, <1>2, <1>3

\* The rotation's invariant holds in every state.
THEOREM RotationInvariant == Spec => []RotInv
<1>1. Init => RotInv
    <2> USE DEF Init, RotationInit, Idle, Rots, None
    <2>1. Init => RotTypes /\ NoFeed
        BY DEF RotTypes, NoFeed
    <2>2. Init => Targets /\ Subscribed
        BY DEF Targets, Subscribed, LastBucket
    <2> QED
        BY <2>1, <2>2 DEF RotInv
<1>2. ASSUME RotInv, [Next]_vars PROVE RotInv'
    <2>1. CASE RotationFollows
        BY <1>2, <2>1, FollowKeeps
    <2>2. CASE (RotationStep \/ Tick) /\ UNCHANGED ingestVars
        BY <1>2, <2>2, RotationKeeps DEF ingestVars
    <2>3. CASE UNCHANGED rotationVars /\ (RotationReturns \/ ReconcileNext \/ UNCHANGED ingestVars)
        <3>1. UNCHANGED << clock, rot, spawned >> /\ (feed' = "off" => feed = "off")
            BY <2>3 DEF rotationVars, RotationReturns, ReconcileNext, ingestVars
        <3> QED
            BY <1>2, <3>1 DEF RotInv, RotTypes, NoFeed, Targets, Subscribed, LastBucket
    <2> QED
        BY <1>2, <2>1, <2>2, <2>3 DEF Next, vars, IngestStep, readerVars
<1> QED
    BY <1>1, <1>2, PTL DEF Spec

\* No market is subscribed to twice in the life of a process, however long a discovery
\* takes and however the clock moves on meanwhile (next_target_bucket).
THEOREM NoMarketTwiceAlways == Spec => []NoMarketTwice
<1>1. ASSUME RotInv PROVE NoMarketTwice
    <2>1. spawned \in Seq(Nat) /\ \A i, j \in 1 .. Len(spawned) : i < j => spawned[i] < spawned[j]
        BY <1>1 DEF RotInv, RotTypes, Subscribed
    <2> QED
        BY <2>1 DEF NoMarketTwice, IsInjective
<1> QED
    BY <1>1, RotationInvariant, PTL

\* A step of the rotation leaves no market without a successor.
LEMMA SuccessorKeeps ==
    ASSUME RotTypes, Succeeded, RotationNext
    PROVE  Succeeded'
<1>1. CASE Plan
    <2>1. rot.pc = "plan" /\ rot'.pc # "retire" /\ rot'.next = rot.next
        BY <1>1 DEF Plan, RotTypes, Rots
    <2> QED
        BY <2>1 DEF Succeeded
<1>2. CASE Wake
    <2>1. rot.pc = "sleep" /\ rot'.pc = "discover" /\ rot'.next = rot.next
        BY <1>2 DEF Wake, RotTypes, Rots
    <2> QED
        BY <2>1 DEF Succeeded
<1>3. CASE DiscoverFound
    <2>1. PICK t : t = rot.target
        OBVIOUS
    <2>2. rot'.pc = "retire" /\ rot'.next = t /\ rot'.target = t /\ spawned' = Append(spawned, t)
        BY <1>3, <2>1 DEF DiscoverFound, RotTypes, Rots
    <2>3. t \in Range(spawned')
        <3>1. spawned \in Seq(Nat)
            BY DEF RotTypes
        <3>2. Len(spawned) + 1 \in DOMAIN spawned' /\ spawned'[Len(spawned) + 1] = t
            BY <2>2, <3>1
        <3> QED
            BY <3>2 DEF Range
    <2> QED
        BY <2>2, <2>3 DEF Succeeded
<1>4. CASE DiscoverFails
    <2>1. PICK n : n = rot.tries + 1
        OBVIOUS
    <2>2. /\ rot.pc = "discover" /\ rot'.next = rot.next /\ rot'.tries = n
          /\ rot'.pc = IF n = Attempts THEN "retire" ELSE "discover"
        BY <1>4, <2>1 DEF DiscoverFails, RotTypes, Rots
    <2> QED
        BY <2>2 DEF Succeeded
<1>5. CASE Retire
    <2>1. rot'.pc = "plan" /\ rot'.next = None
        BY <1>5 DEF Retire, RotTypes, Rots
    <2> QED
        BY <2>1 DEF Succeeded
<1>6. CASE Break
    <2>1. rot'.pc = "ended" /\ rot'.next = None
        BY <1>6 DEF Break, Idle
    <2> QED
        BY <2>1 DEF Succeeded
<1> QED
    BY <1>1, <1>2, <1>3, <1>4, <1>5, <1>6 DEF RotationNext

\* And it is so in every state.
THEOREM SuccessorInvariant == Spec => []Succeeded
<1>1. Init => Succeeded
    BY DEF Init, RotationInit, Idle, Succeeded
<1>2. ASSUME RotInv, Succeeded, [Next]_vars PROVE Succeeded'
    <2>1. CASE RotationFollows
        <3>1. rot' \in {Idle, [Idle EXCEPT !.pc = "plan"]} \/ UNCHANGED << rot, spawned >>
            BY <2>1 DEF RotationFollows
        <3>2. CASE rot' \in {Idle, [Idle EXCEPT !.pc = "plan"]}
            BY <3>2 DEF Idle, Succeeded
        <3>3. CASE UNCHANGED << rot, spawned >>
            BY <1>2, <3>3 DEF Succeeded
        <3> QED
            BY <3>1, <3>2, <3>3
    <2>2. CASE RotationStep
        BY <1>2, <2>2, SuccessorKeeps DEF RotationStep, RotInv
    <2>3. CASE UNCHANGED rotationVars \/ Tick
        <3>1. UNCHANGED << rot, spawned >>
            BY <2>3 DEF rotationVars, Tick
        <3> QED
            BY <1>2, <3>1 DEF Succeeded
    <2> QED
        BY <1>2, <2>1, <2>2, <2>3 DEF Next, vars, IngestStep
<1> QED
    BY <1>1, <1>2, RotationInvariant, PTL DEF Spec

\* A market is left only once its bucket has ended, and its successor is then of a later
\* bucket and subscribed, unless every attempt to find one failed (run_rotation,
\* retire_at_boundary): the front is no later than the active bucket, the target is a
\* whole bucket after that one, and a discovery ends in one of the two ways.
THEOREM CutOverCleanAlways == Spec => CutOverClean
<1> DEFINE CutOver ==
        /\ clock >= rot.front + Bucket
        /\ \/ rot'.front \in Range(spawned) /\ rot'.front >= rot.front + Bucket
           \/ rot'.front = None /\ rot.tries = Attempts
<1>1. ASSUME RotInv, Succeeded, [Next]_vars, rot.front # None, rot'.front # rot.front, ~cancelled, feed' = "running"
      PROVE  CutOver
    <2>1. CASE RotationFollows
        <3>1. rot' = rot \/ feed = "off"
            BY <1>1, <2>1 DEF RotationFollows
        <3> QED
            BY <1>1, <3>1 DEF RotInv, NoFeed
    <2>2. CASE RotationStep
        <3>1. CASE Retire
            <4>1. rot.pc = "retire" /\ clock >= rot.target /\ rot'.front = rot.next
                BY <1>1, <3>1 DEF Retire, RetiresNow, RotInv, RotTypes, Rots
            <4>2. rot.target \in Nat /\ rot.target >= rot.active + Bucket /\ rot.front <= rot.active
                BY <1>1, <4>1 DEF RotInv, Targets, RotTypes, Rots, None
            <4>3. clock >= rot.front + Bucket /\ rot.target >= rot.front + Bucket
                BY <1>1, <4>1, <4>2, RotationAssumption DEF RotInv, RotTypes, Rots
            <4>4. \/ rot.next = rot.target /\ rot.target \in Range(spawned)
                  \/ rot.next = None /\ rot.tries = Attempts
                BY <1>1, <4>1 DEF Succeeded
            <4> QED
                BY <4>1, <4>3, <4>4
        <3>2. CASE ~Retire
            <4>1. rot'.front = rot.front
                BY <1>1, <2>2, <3>2 DEF RotationStep, RotationNext, Plan, Wake, DiscoverFound, DiscoverFails,
                                        Break, RotInv, RotTypes, Rots
            <4> QED
                BY <1>1, <4>1
        <3> QED
            BY <3>1, <3>2
    <2>3. CASE UNCHANGED rotationVars \/ Tick
        BY <1>1, <2>3 DEF rotationVars, Tick
    <2> QED
        BY <1>1, <2>1, <2>2, <2>3 DEF Next, vars, IngestStep
<1>2. RotInv /\ Succeeded /\ [Next]_vars =>
        [(rot.front # None /\ rot'.front # rot.front /\ ~cancelled /\ feed' = "running") => CutOver]_vars
    BY <1>1
<1> QED
    BY <1>2, RotationInvariant, SuccessorInvariant, PTL DEF Spec, CutOverClean

-----------------------------------------------------------------------------
(***************************************************************************)
(* What is stored and read: the objects, the manifests, a reconcile that   *)
(* replaces groups and a reader that resolves them meanwhile.              *)
(***************************************************************************)
\* What the WAL ever had.
Ever == Range(log) \cup cut \cup pruned

\* The objects of the store, and those its manifests speak of.
Mentioned(g) == manifests[g].active \cup manifests[g].superseded
Known == objects \cup UNION {Mentioned(g) : g \in DOMAIN manifests}

\* Operators run reconcile while no process that writes to the store runs
\* (operations.md).
Operated == \A p \in DOMAIN Profiles : Profiles[p].offline

\* The times of reception do not go back along the log.
ClockKeepsUp ==
    \A p \in DOMAIN Profiles :
        LET script == Profiles[p].script
        IN  \A m, n \in 1 .. Len(script) :
                (m < n /\ script[m].kind = "event" /\ script[n].kind = "event") => script[m].at <= script[n].at

\* Records go from one place to the next in the order they were emitted in.
InLine ==
    /\ profile \in DOMAIN Profiles
    /\ emitted <= Len(Script)
    /\ Ascending(evq) /\ Ascending(log) /\ Ascending(sinkq) /\ Ascending(sink.buffer)
    /\ Ever \cup Range(evq) \subseteq 1 .. emitted
    /\ \A x \in Ever, y \in Range(evq) : x < y
    /\ \A x \in pruned, y \in Range(log) : x < y
    /\ \A x \in Range(sink.buffer), y \in Range(sinkq) \cup Passing : x < y
    /\ \A x \in Range(sinkq), y \in Passing : x < y
    /\ ~Alive => sinkq = << >> /\ sink.buffer = << >> /\ sink.pc \in {"off", "receiving"}

\* The object a flush makes of the group of record x.
Flushed(x) == Object("normal", GroupOf(Script[x]), RowsOf(sink.buffer, GroupOf(Script[x])))

\* What is on its way to the store is not there, but for the groups of a flush under way.
Fresh ==
    /\ \A o \in Known : Range(o.rows) \cap (Range(sinkq) \cup Passing) = {}
    /\ sink.pc = "receiving" => \A o \in Known : Range(o.rows) \cap Range(sink.buffer) = {}
    /\ \A o \in Known : \A x \in Range(o.rows) \cap Range(sink.buffer) : o = Flushed(x)

\* An object holds records of its group, in order.
Filed(o) ==
    /\ o.place \in {"normal", "recovery"}
    /\ o.rows \in Seq(Nat) /\ Ascending(o.rows)
    /\ \A x \in Range(o.rows) : x \in Ever /\ GroupOf(Script[x]) = o.group

\* What a listing of the moment shows of a group has no row twice.
StoreOK ==
    /\ DOMAIN manifests = {GroupOf(r) : r \in Range(Script)}
    /\ \A o \in Known : Filed(o)
    /\ \A g \in DOMAIN manifests :
          /\ InScope(g, manifests[g])
          /\ manifests[g].active \cap manifests[g].superseded = {}
          /\ Disjoint(Resolve(Listing(g, "normal"), manifests[g]))

Replacing == {"stage", "staged", "promote", "promoted"}

\* Where a reconcile is, and what it has done to the group it replaces.
ReconcileOK ==
    /\ DOMAIN rc = {"pc", "left", "group", "stale", "delete", "failed"}
    /\ rc.pc # "off" =>
        /\ rc.pc \in {"list", "delete"} \cup Replacing
        /\ lock = "reconcile" /\ ~Alive
        /\ rc.left \subseteq GroupsToPublish
        /\ rc.pc # "list" => Group \in GroupsToPublish
        /\ rc.pc \in Replacing =>
              /\ rc.stale \subseteq Known
              /\ \A o \in Known : o.group = Group => o \in rc.stale \cup {Staged, Recovered}
        /\ rc.pc = "staged" => Staged \in objects
        /\ rc.pc = "promote" => Recovered \in manifests[Group].superseded
        /\ rc.pc = "promoted" => Recovered \in objects
        /\ rc.pc = "delete" =>
              /\ Recovered \in objects \ rc.delete
              /\ rc.delete \subseteq manifests[Group].superseded

\* The one object a group is replaced by.
Replacement(g) == Object("normal", g, RowsOf(log, g))

\* What is replaced without a failure is the one object of its group.
ReplacedOK ==
    rc.pc # "off" =>
        /\ rc.failed \in Nat
        /\ (rc.pc = "delete" /\ rc.failed = 0) =>
              \A o \in objects : o.group = Group => o = Recovered \/ o \in rc.delete
        /\ rc.failed = 0 =>
              \A g \in GroupsToPublish \ rc.left :
                  (rc.pc = "list" \/ g # Group) =>
                      /\ Replacement(g) \in objects
                      /\ \A o \in objects : o.group = g => o = Replacement(g)

\* Whatever a reader has listed, the manifest of the moment makes of it a whole group.
ReaderOK ==
    /\ DOMAIN reader = {"pc", "group", "listing", "left", "files", "attempt", "since"}
    /\ reader.pc \in {"idle", "list", "manifest", "files", "error"}
    /\ reader.pc \in {"list", "manifest", "files"} =>
        /\ reader.group \in DOMAIN manifests
        /\ reader.since \subseteq View(reader.group) \cup cut
    /\ reader.pc = "manifest" =>
        LET files == Resolve(reader.listing, manifests[reader.group])
        IN  /\ reader.listing \subseteq {o \in Known : o.group = reader.group}
            /\ reader.since \subseteq RowsIn(files) \cup cut
            /\ Disjoint(files)
    /\ reader.pc = "files" =>
        /\ reader.since \subseteq RowsIn(reader.left \cup reader.files) \cup cut
        /\ Disjoint(reader.left \cup reader.files)

HistoryInv == InLine /\ Fresh /\ StoreOK /\ ReconcileOK /\ ReplacedOK /\ ReaderOK

-----------------------------------------------------------------------------
\* Nothing moves along, or the process is not alive and holds nothing.
LEMMA LineKept ==
    ASSUME InLine, UNCHANGED << profile, emitted, evq, log, cut, pruned, sinkq >>,
           sink'.buffer = sink.buffer, Passing' \subseteq Passing, Alive => Alive',
           Alive' \/ sink'.pc = sink.pc \/ sink'.pc \in {"off", "receiving"}
    PROVE  InLine'
<1>1. Script' = Script /\ Ever' = Ever
    BY DEF Script, Setup, Ever
<1> QED
    BY <1>1 DEF InLine

\* A flush makes of a group what it made of it, while the buffer stays.
LEMMA FlushedKept ==
    ASSUME UNCHANGED profile, sink'.buffer = sink.buffer
    PROVE  \A x : Flushed(x)' = Flushed(x)
BY DEF Flushed, RowsOf, GroupOf, HourOf, Script, Setup, Object

\* Nothing new is on its way, and the store stays.
LEMMA FreshKept ==
    ASSUME Fresh, UNCHANGED << profile, storeVars >>,
           sink'.buffer = sink.buffer, Range(sinkq') \cup Passing' \subseteq Range(sinkq) \cup Passing,
           sink'.pc = "receiving" => sink.pc = "receiving" \/ sink.buffer = << >>
    PROVE  Fresh'
<1>1. Known' = Known
    BY DEF Known, Mentioned
<1>2. \A x : Flushed(x)' = Flushed(x)
    BY FlushedKept
<1>3. Range(<< >>) = {}
    BY NoRange
<1> QED
    BY <1>1, <1>2, <1>3 DEF Fresh

\* Steps that move no record along.
LEMMA QuietLine ==
    ASSUME IngestInv, InLine, Fresh,
           \/ StartIngest \/ OpenWal \/ AskToStop \/ FeedStops \/ ProducerStops \/ DrainFlush \/ DrainSync
           \/ DrainEnds \/ DrainCloses \/ SinkFlush \/ SinkEnds \/ FlushFails
           \/ FeedReturns \/ TaskExits \/ FeedAwaited \/ RotationReturns \/ UNCHANGED ingestVars
    PROVE  InLine' /\ Fresh'
<1>1. Places /\ Sizes /\ AtRest
    BY DEF IngestInv
<1>2. CASE StartIngest
    <2>1. sink'.buffer = << >> /\ sink'.pc = "receiving"
        BY <1>2 DEF StartIngest, NoSink
    <2>2. sink.buffer = << >> /\ ~Alive
        BY <1>2 DEF StartIngest, InLine, Alive
    <2>3. UNCHANGED << profile, emitted, evq, log, cut, pruned, sinkq, drain, storeVars >>
        BY <1>2 DEF StartIngest
    <2> QED
        BY <2>1, <2>2, <2>3, LineKept, FreshKept DEF Passing
<1>3. CASE OpenWal
    <2>1. UNCHANGED << profile, emitted, evq, log, cut, pruned, sinkq, sink, storeVars >> /\ Alive' /\ Passing' = {}
        BY <1>3 DEF OpenWal, Alive, Passing
    <2> QED
        BY <2>1, LineKept, FreshKept
<1>4. CASE AskToStop \/ FeedStops \/ ProducerStops \/ FeedReturns \/ TaskExits \/ FeedAwaited
           \/ RotationReturns \/ UNCHANGED ingestVars
    <2>1. UNCHANGED << profile, emitted, evq, log, cut, pruned, sinkq, sink, drain, storeVars >> /\ (Alive => Alive')
        BY <1>4 DEF AskToStop, FeedStops, ProducerStops, FeedReturns, TaskExits, FeedAwaited, RotationReturns,
             ingestVars, Alive
    <2> QED
        BY <2>1, LineKept, FreshKept DEF Passing
<1>5. CASE DrainFlush \/ DrainSync \/ DrainEnds \/ DrainCloses
    <2>1. UNCHANGED << profile, emitted, evq, log, cut, pruned, sinkq, sink, proc, storeVars >>
        BY <1>5 DEF DrainFlush, DrainSync, DrainEnds, DrainCloses
    <2>2. drain' = drain \/ Passing' = {}
        BY <1>1, <1>5 DEF DrainFlush, DrainSync, DrainEnds, DrainCloses, Fail, Passing, Places
    <2>3. Passing' \subseteq Passing
        BY <2>2 DEF Passing
    <2> QED
        BY <2>1, <2>3, LineKept, FreshKept DEF Alive
<1>6. CASE SinkFlush \/ SinkEnds \/ FlushFails
    <2>1. UNCHANGED << profile, emitted, evq, log, cut, pruned, sinkq, drain, proc, storeVars >>
        BY <1>6 DEF SinkFlush, SinkEnds, FlushFails
    <2>2. sink'.buffer = sink.buffer /\ sink'.pc # "receiving"
        BY <1>1, <1>6 DEF SinkFlush, SinkEnds, FlushFails, Places
    <2>3. Alive
        BY <1>1, <1>6 DEF SinkFlush, SinkEnds, FlushFails, InLine, AtRest, ChannelClosed
    <2> QED
        BY <2>1, <2>2, <2>3, LineKept, FreshKept DEF Alive, Passing
<1> QED
    BY <1>2, <1>3, <1>4, <1>5, <1>6

\* The script is a sequence.
LEMMA ScriptLength ==
    ASSUME profile \in DOMAIN Profiles
    PROVE  Len(Script) \in Nat /\ DOMAIN Script = 1 .. Len(Script)
<1>1. Script \in Seq(Range(Script))
    BY ScriptAssumption DEF Script, Setup
<1> QED
    BY <1>1

\* A record is emitted: it is the latest.
LEMMA EmitLine ==
    ASSUME IngestInv, InLine, Fresh, Emit
    PROVE  InLine' /\ Fresh'
<1>1. evq \in Seq(Nat) /\ emitted \in Nat
    BY DEF IngestInv, Sizes
<1>2. PICK n \in Nat : n = emitted + 1
    BY <1>1
<1>3. /\ emitted' = n /\ evq' = Append(evq, n) /\ n <= Len(Script)
      /\ UNCHANGED << profile, log, cut, pruned, sinkq, sink, drain, proc, storeVars >>
    BY <1>1, <1>2, ScriptLength DEF Emit, InLine
<1>4. Script' = Script /\ Ever' = Ever /\ Passing' = Passing
    BY <1>3 DEF Script, Setup, Ever, Passing
<1>5. /\ Range(evq') = Range(evq) \cup {n}
      /\ \A y \in Ever \cup Range(evq) : y \in Nat /\ y < n /\ y \in 1 .. n
    BY <1>1, <1>2, <1>3, AppendRange DEF InLine
<1>6. Ascending(evq')
    BY <1>1, <1>3, <1>5, AppendAscending DEF InLine
<1>7. n \in 1 .. n
    BY <1>1, <1>2
<1>8. InLine'
    BY <1>3, <1>4, <1>5, <1>6, <1>7 DEF InLine, Alive
<1>9. Fresh'
    BY <1>3, <1>4, FreshKept
<1> QED
    BY <1>8, <1>9

\* The drain takes a record from the event channel, and the WAL gets it or not.
LEMMA ReceiveLine ==
    ASSUME IngestInv, InLine, Fresh, StoreOK, DrainReceive
    PROVE  InLine' /\ Fresh'
<1>1. /\ evq \in Seq(Nat) /\ log \in Seq(Nat) /\ sinkq \in Seq(Nat) /\ sink.buffer \in Seq(Nat) /\ emitted \in Nat
      /\ Passing = {} /\ DOMAIN drain = {"pc", "rec"} /\ evq # << >>
    BY DEF IngestInv, Sizes, Places, DrainReceive, Passing
<1>2. PICK i \in Nat : i = Head(evq)
    BY <1>1, TailRange
<1>3. /\ evq' = Tail(evq) /\ UNCHANGED << profile, emitted, cut, pruned, sinkq, sink, storeVars >>
      /\ \/ log' = Append(log, i) /\ Passing' = {i} /\ proc' = proc
         \/ log' = log /\ Passing' = {} /\ proc' = proc
    BY <1>1, <1>2 DEF DrainReceive, AppendToWal, DropUnencoded, AppendFails, Fail, Passing
<1>4. /\ Range(evq) = {i} \cup Range(evq') /\ Ascending(evq') /\ \A y \in Range(evq') : i < y
    BY <1>1, <1>2, <1>3, TailRange, TailAscending DEF InLine
<1>5. Script' = Script /\ Alive' = Alive /\ Known' = Known
    BY <1>3 DEF Script, Setup, Alive, Known, Mentioned
<1>6. CASE log' = Append(log, i) /\ Passing' = {i}
    <2>1. \A x \in Ever : x < i
        BY <1>4 DEF InLine
    <2>2. Range(log') = Range(log) \cup {i} /\ Ascending(log')
        BY <1>1, <1>6, <2>1, AppendRange, AppendAscending DEF InLine, Ever
    <2>3. Ever' = Ever \cup {i}
        BY <1>3, <2>2 DEF Ever
    <2>4. Range(sinkq) \cup Range(sink.buffer) \subseteq Ever
        BY DEF IngestInv, OnlyFromWal, Ever
    <2>5. \A x \in pruned : x < i
        BY <2>1 DEF Ever
    <2>6. InLine'
        BY <1>1, <1>3, <1>4, <1>5, <1>6, <2>1, <2>2, <2>3, <2>4, <2>5 DEF InLine
    <2>7. \A o \in Known : i \notin Range(o.rows)
        <3>1. \A o \in Known : Range(o.rows) \subseteq Ever
            BY DEF StoreOK, Filed
        <3>2. i \notin Ever
            BY <2>1
        <3> QED
            BY <3>1, <3>2
    <2>8. \A x : Flushed(x)' = Flushed(x)
        BY <1>3, FlushedKept
    <2>9. Fresh'
        BY <1>1, <1>3, <1>5, <1>6, <2>7, <2>8 DEF Fresh
    <2> QED
        BY <2>6, <2>9
<1>7. CASE log' = log /\ Passing' = {}
    <2>1. Ever' = Ever
        BY <1>3, <1>7 DEF Ever
    <2>2. InLine'
        BY <1>1, <1>3, <1>4, <1>5, <1>7, <2>1 DEF InLine
    <2>3. Fresh'
        BY <1>3, <1>7, FreshKept
    <2> QED
        BY <2>2, <2>3
<1> QED
    BY <1>3, <1>6, <1>7

\* It passes the record on.
LEMMA PassLine ==
    ASSUME IngestInv, InLine, Fresh, DrainPass
    PROVE  InLine' /\ Fresh'
<1>1. /\ sinkq \in Seq(Nat) /\ drain.rec \in Nat /\ Passing = {drain.rec} /\ DOMAIN drain = {"pc", "rec"}
    BY DEF IngestInv, Sizes, Places, DrainPass, Passing
<1>2. /\ UNCHANGED << profile, emitted, evq, log, cut, pruned, sink, proc, storeVars >>
      /\ Passing' = {}
      /\ sinkq' = sinkq \/ sinkq' = Append(sinkq, drain.rec)
    BY DEF DrainPass, Passing
<1>3. CASE sinkq' = sinkq
    BY <1>2, <1>3, LineKept, FreshKept DEF Alive
<1>4. CASE sinkq' = Append(sinkq, drain.rec)
    <2>1. PICK n \in Nat : n = drain.rec
        BY <1>1
    <2>2. Range(sinkq') = Range(sinkq) \cup {n} /\ Passing = {n} /\ Ascending(sinkq')
        BY <1>1, <1>4, <2>1, AppendRange, AppendAscending DEF InLine
    <2>3. Alive /\ Alive' /\ Script' = Script /\ Ever' = Ever
        BY <1>2 DEF IngestInv, AtRest, DrainPass, Alive, Script, Setup, Ever
    <2>4. InLine'
        BY <1>2, <2>2, <2>3 DEF InLine
    <2>5. Fresh'
        BY <1>2, <2>2, FreshKept
    <2> QED
        BY <2>4, <2>5
<1> QED
    BY <1>2, <1>3, <1>4

\* The first record of the log is pruned.
LEMMA PruneLine ==
    ASSUME IngestInv, InLine, Fresh, DrainPrune
    PROVE  InLine' /\ Fresh'
<1>1. log \in Seq(Nat) /\ log # << >>
    BY DEF IngestInv, Sizes, DrainPrune
<1>2. /\ UNCHANGED << profile, emitted, evq, cut, sinkq, drain, sink, proc, storeVars >>
      /\ log' = Tail(log) /\ pruned' = pruned \cup {Head(log)}
    BY DEF DrainPrune
<1>3. PICK h \in Nat : h = Head(log)
    BY <1>1, TailRange
<1>4. Range(log) = {h} \cup Range(log') /\ Ascending(log') /\ \A y \in Range(log') : h < y
    BY <1>1, <1>2, <1>3, TailRange, TailAscending DEF InLine
<1>5. Ever' = Ever /\ Script' = Script /\ Alive' = Alive /\ Passing' = Passing
    BY <1>2, <1>3, <1>4 DEF Ever, Script, Setup, Alive, Passing
<1>6. InLine'
    BY <1>2, <1>3, <1>4, <1>5 DEF InLine
<1>7. Fresh'
    BY <1>2, <1>5, FreshKept
<1> QED
    BY <1>6, <1>7

\* The sink takes a record into its buffer.
LEMMA SinkReceiveLine ==
    ASSUME IngestInv, InLine, Fresh, SinkReceive
    PROVE  InLine' /\ Fresh'
<1>1. sinkq \in Seq(Nat) /\ sinkq # << >> /\ sink.buffer \in Seq(Nat) /\ sink.pc = "receiving"
    BY DEF IngestInv, Sizes, SinkReceive
<1>2. PICK h \in Nat : h = Head(sinkq)
    BY <1>1, TailRange
<1>3. /\ UNCHANGED << profile, emitted, evq, log, cut, pruned, drain, proc, storeVars >>
      /\ sinkq' = Tail(sinkq) /\ sink'.buffer = Append(sink.buffer, h) /\ sink'.pc = "receiving"
    BY <1>1, <1>2 DEF IngestInv, Places, SinkReceive
<1>4. Range(sinkq) = {h} \cup Range(sinkq') /\ Ascending(sinkq') /\ \A y \in Range(sinkq') : h < y
    BY <1>1, <1>2, <1>3, TailRange, TailAscending DEF InLine
<1>5. Range(sink'.buffer) = Range(sink.buffer) \cup {h} /\ Ascending(sink'.buffer)
    BY <1>1, <1>2, <1>3, <1>4, AppendRange, AppendAscending DEF InLine
<1>6. Ever' = Ever /\ Script' = Script /\ Alive /\ Alive' /\ Passing' = Passing /\ Known' = Known
    BY <1>1, <1>3 DEF Ever, Script, Setup, Alive, Passing, Known, Mentioned, InLine
<1>7. InLine'
    BY <1>3, <1>4, <1>5, <1>6 DEF InLine
<1>8. \A o \in Known : /\ Range(o.rows) \cap (Range(sinkq') \cup Passing) = {}
                       /\ Range(o.rows) \cap Range(sink'.buffer) = {}
    BY <1>1, <1>4, <1>5 DEF Fresh
<1>9. Fresh'
    BY <1>6, <1>8 DEF Fresh
<1> QED
    BY <1>7, <1>9

\* A group is written: its object has buffered rows, and none that another object has.
LEMMA FlushedObject ==
    ASSUME IngestInv, InLine, Fresh, StoreOK, FlushGroup
    PROVE  \E g : LET o == Object("normal", g, RowsOf(sink.buffer, g))
                  IN  /\ Filed(o) /\ o.group = g
                      /\ objects' = objects \cup {o} /\ Known' = Known \cup {o}
                      /\ Range(o.rows) = {x \in Range(sink.buffer) : GroupOf(Script[x]) = g}
                      /\ \A p \in Known : p = o \/ Range(p.rows) \cap Range(o.rows) = {}
                      /\ UNCHANGED manifests
<1>1. PICK g \in sink.left : objects' = objects \cup {Object("normal", g, RowsOf(sink.buffer, g))}
    BY DEF FlushGroup, Put
<1>2. PICK o : o = Object("normal", g, RowsOf(sink.buffer, g))
    OBVIOUS
<1>3. o.place = "normal" /\ o.group = g /\ o.rows = RowsOf(sink.buffer, g)
    BY <1>2 DEF Object
<1>4. sink.buffer \in Seq(Nat) /\ Range(sink.buffer) \subseteq Ever
    BY DEF IngestInv, Sizes, OnlyFromWal, Ever
<1>5. /\ o.rows \in Seq(Nat) /\ Ascending(o.rows)
      /\ Range(o.rows) = {x \in Range(sink.buffer) : GroupOf(Script[x]) = g}
    BY <1>3, <1>4, RowsOfFacts DEF InLine
<1>6. Filed(o)
    BY <1>3, <1>4, <1>5 DEF Filed
<1>7. UNCHANGED manifests /\ Known' = Known \cup {o}
    BY <1>1, <1>2 DEF FlushGroup, Known, Mentioned
<1>8. \A x \in Range(o.rows) : Flushed(x) = o
    BY <1>2, <1>5 DEF Flushed
<1>9. ASSUME NEW p \in Known, p # o PROVE Range(p.rows) \cap Range(o.rows) = {}
    BY <1>5, <1>8, <1>9 DEF Fresh
<1> QED
    BY <1>1, <1>2, <1>3, <1>5, <1>6, <1>7, <1>9

\* write_group: the buffer stays until the flush is done.
LEMMA FlushGroupLine ==
    ASSUME IngestInv, InLine, Fresh, StoreOK, FlushGroup
    PROVE  InLine' /\ Fresh'
<1>1. PICK g, o : /\ o = Object("normal", g, RowsOf(sink.buffer, g))
                  /\ Known' = Known \cup {o}
                  /\ Range(o.rows) = {x \in Range(sink.buffer) : GroupOf(Script[x]) = g}
    BY FlushedObject
<1>2. /\ UNCHANGED << profile, emitted, evq, log, cut, pruned, drain, proc, sinkq >>
      /\ sink'.buffer = sink.buffer /\ sink'.pc = "flushing" /\ sink.pc = "flushing"
    BY DEF FlushGroup, IngestInv, Places
<1>3. Alive /\ Passing' = Passing
    BY <1>2 DEF InLine, Passing
<1>4. InLine'
    BY <1>2, <1>3, LineKept DEF Alive
<1>5. \A x : Flushed(x)' = Flushed(x)
    BY <1>2, FlushedKept
<1>6. \A x \in Range(o.rows) : Flushed(x) = o
    BY <1>1 DEF Flushed
<1>7. \A x \in Range(sink.buffer) : x \in Nat
    BY RangeFacts DEF IngestInv, Sizes
<1>8. Range(o.rows) \cap (Range(sinkq) \cup Passing) = {}
    <2>1. \A x \in Range(o.rows) : x \in Nat /\ \A y \in Range(sinkq) \cup Passing : x < y
        BY <1>1, <1>7 DEF InLine
    <2>2. \A x \in Nat : ~(x < x)
        OBVIOUS
    <2> QED
        BY <2>1, <2>2
<1>9. Fresh'
    BY <1>1, <1>2, <1>3, <1>5, <1>6, <1>8 DEF Fresh
<1> QED
    BY <1>4, <1>9

\* A flush is done.
LEMMA FlushDoneLine ==
    ASSUME IngestInv, InLine, Fresh, FlushDone
    PROVE  InLine' /\ Fresh'
<1>1. /\ UNCHANGED << profile, emitted, evq, log, cut, pruned, drain, proc, sinkq, storeVars >>
      /\ sink'.buffer = << >> /\ sink.pc = "flushing"
    BY DEF FlushDone, IngestInv, Places
<1>2. Alive /\ Passing' = Passing /\ Ever' = Ever /\ Script' = Script /\ Known' = Known
    BY <1>1 DEF InLine, Passing, Ever, Script, Setup, Known, Mentioned
<1>3. InLine'
    BY <1>1, <1>2, NoRange, NothingAscends DEF InLine, Alive
<1>4. Fresh'
    BY <1>1, <1>2, NoRange DEF Fresh
<1> QED
    BY <1>3, <1>4

\* A process ends, however it ends.
LEMMA GoneLine ==
    ASSUME IngestInv, InLine, Fresh, OpenRefused \/ Join \/ JoinTimeout \/ Crash
    PROVE  InLine' /\ Fresh' /\ Ever' = Ever /\ cut \subseteq cut' /\ UNCHANGED << profile, storeVars >>
<1>1. /\ UNCHANGED << profile, emitted, pruned, storeVars >> /\ Gone
    BY DEF OpenRefused, Join, JoinTimeout, Crash
<1>2. log \in Seq(Nat)
    BY DEF IngestInv, Sizes
<1>3. Ever' = Ever /\ cut \subseteq cut' /\ Range(log') \subseteq Range(log) /\ Ascending(log')
    <2>1. CASE Crash
        <3>1. PICK k \in (IF Setup.crash = "power" THEN synced ELSE flushed) .. Len(log) :
                /\ log' = SubSeq(log, 1, k)
                /\ cut' = cut \cup {log[i] : i \in k + 1 .. Len(log)}
            BY <2>1 DEF Crash
        <3>2. k \in 0 .. Len(log)
            BY <3>1 DEF IngestInv, Sizes
        <3>3. Range(log) = Range(log') \cup {log[i] : i \in k + 1 .. Len(log)} /\ Ascending(log')
            BY <1>2, <3>1, <3>2, CutRange, CutAscending DEF InLine
        <3> QED
            BY <1>1, <3>1, <3>3 DEF Ever
    <2>2. CASE OpenRefused \/ Join \/ JoinTimeout
        <3>1. UNCHANGED << log, cut >>
            BY <2>2 DEF OpenRefused, Join, JoinTimeout
        <3> QED
            BY <1>1, <3>1 DEF Ever, InLine
    <2> QED
        BY <2>1, <2>2
<1>4. evq' = << >> /\ sinkq' = << >> /\ sink'.buffer = << >> /\ sink'.pc = "off" /\ Passing' = {} /\ ~Alive'
    BY <1>1 DEF Gone, NoSink, Passing, Alive
<1>5. Script' = Script
    BY <1>1 DEF Script, Setup
<1>6. InLine'
    BY <1>1, <1>3, <1>4, <1>5, NoRange, NothingAscends DEF InLine
<1>7. Fresh'
    BY <1>4, NoRange DEF Fresh
<1> QED
    BY <1>1, <1>3, <1>6, <1>7

-----------------------------------------------------------------------------
(***************************************************************************)
(* What the log proves.                                                    *)
(***************************************************************************)
\* Records of one key are of one kind.
LEMMA ScriptFacts ==
    ASSUME profile \in DOMAIN Profiles
    PROVE  \A x, y \in 1 .. Len(Script) :
              /\ Script[x] \in Range(Script) /\ Script[x].at \in Nat
              /\ Script[x].key = Script[y].key => Script[x].kind = Script[y].kind
<1>1. PICK s : s = Script
    OBVIOUS
<1>2. /\ s \in Seq(Range(s))
      /\ \A r, t \in Range(s) : r.at \in Nat /\ (r.key = t.key => r.kind = t.kind)
    BY <1>1, ScriptAssumption DEF Script, Setup
<1>3. \A x \in 1 .. Len(s) : s[x] \in Range(s)
    BY <1>2
<1> QED
    BY <1>1, <1>2, <1>3

\* A record is not before its hour.
LEMMA HourStart ==
    ASSUME NEW at \in Nat
    PROVE  HourOf(at) \in Int /\ HourOf(at) * HourLen <= at
<1>1. PICK n \in Nat \ {0} : n = HourLen
    BY StoreAssumption
<1>2. at \div n \in Nat /\ (at \div n) * n <= at
    OBVIOUS
<1>3. at = 0 => HourOf(at) = -1
    BY DEF HourOf, InvalidHour
<1>4. at # 0 => HourOf(at) = at \div n
    BY <1>1 DEF HourOf
<1> QED
    BY <1>1, <1>2, <1>3, <1>4

\* A group has records of one kind and of one hour.
LEMMA GroupFacts ==
    ASSUME InLine, emitted \in Nat, NEW x \in 1 .. emitted, NEW y \in 1 .. emitted,
           GroupOf(Script[x]) = GroupOf(Script[y])
    PROVE  (Supported(x) <=> Supported(y)) /\ HourOf(Script[x].at) = HourOf(Script[y].at)
<1>1. Script[x].key = Script[y].key /\ HourOf(Script[x].at) = HourOf(Script[y].at)
    BY DEF GroupOf
<1>2. x \in 1 .. Len(Script) /\ y \in 1 .. Len(Script)
    BY ScriptLength DEF InLine
<1> QED
    BY <1>1, <1>2, ScriptFacts DEF InLine, Supported

\* The groups of the log are groups of the script.
LEMMA GroupsKnown ==
    ASSUME InLine, StoreOK, emitted \in Nat
    PROVE  GroupsToPublish \subseteq DOMAIN manifests
<1>1. \A x \in Range(log) : x \in 1 .. Len(Script)
    BY ScriptLength DEF InLine, Ever
<1>2. \A x \in Range(log) : Script[x] \in Range(Script)
    BY <1>1, ScriptFacts DEF InLine
<1> QED
    BY <1>2 DEF GroupsToPublish, RecordsToPublish, StoreOK

\* Of a group that is replaced nothing was pruned: an earlier record of its hour would be
\* earlier than the first one that is retained (contains_complete_hour).
LEMMA NothingPruned ==
    ASSUME ClockKeepsUp, IngestInv, InLine, NEW x \in pruned
    PROVE  GroupOf(Script[x]) \notin GroupsToPublish
<1> SUFFICES ASSUME NEW y \in RecordsToPublish, GroupOf(Script[x]) = GroupOf(Script[y])
             PROVE  FALSE
    BY DEF GroupsToPublish
<1>1. emitted \in Nat /\ log \in Seq(Nat)
    BY DEF IngestInv, Sizes
<1>2. x \in 1 .. emitted /\ y \in 1 .. emitted /\ y \in Range(log) /\ Supported(y)
    BY DEF InLine, Ever, RecordsToPublish
<1>3. Supported(x) /\ HourOf(Script[x].at) = HourOf(Script[y].at)
    BY <1>1, <1>2, GroupFacts
<1>4. PICK h \in Int, t \in Nat : h = HourOf(Script[y].at) /\ t = Script[x].at /\ h * HourLen <= t
    <2>1. Script[x].at \in Nat
        BY <1>1, <1>2, ScriptFacts, ScriptLength DEF InLine
    <2> QED
        BY <1>3, <2>1, HourStart
<1>5. PICK n \in SupportedAt : FirstAt = Script[log[n]].at
    <2>1. PICK i \in 1 .. Len(log) : log[i] = y
        BY <1>1, <1>2, RangeFacts
    <2>2. i \in SupportedAt /\ SupportedAt \in SUBSET Nat
        BY <1>1, <1>2, <2>1 DEF SupportedAt
    <2>3. \E m \in SupportedAt : \A k \in SupportedAt : m <= k
        BY <2>2, LeastOf
    <2>4. Min(SupportedAt) \in SupportedAt
        BY <2>3 DEF Min
    <2> QED
        BY <2>4 DEF FirstAt
<1>6. PICK z : z = log[n]
    OBVIOUS
<1>7. z \in Range(log) /\ Supported(z)
    BY <1>1, <1>5, <1>6, RangeFacts DEF SupportedAt
<1>8. x < z /\ z \in 1 .. emitted
    BY <1>7 DEF InLine, Ever
<1>9. Script[x].at <= Script[z].at
    <2>1. x \in 1 .. Len(Script) /\ z \in 1 .. Len(Script)
        BY <1>1, <1>2, <1>8, ScriptLength DEF InLine
    <2> QED
        BY <1>3, <1>7, <1>8, <2>1 DEF ClockKeepsUp, InLine, Supported, Script, Setup
<1>10. FirstAt < h * HourLen
    BY <1>4 DEF RecordsToPublish, CompleteHour
<1>11. Script[z].at \in Nat /\ HourLen \in Nat
    BY <1>1, <1>8, ScriptFacts, ScriptLength, StoreAssumption DEF InLine
<1>12. h * HourLen \in Int
    BY <1>11
<1> QED
    BY <1>4, <1>5, <1>6, <1>9, <1>10, <1>11, <1>12

\* What replaces a group has every row the store may have of it, but for what a crash cut off.
LEMMA WalHasAll ==
    ASSUME ClockKeepsUp, IngestInv, InLine, NEW g \in GroupsToPublish
    PROVE  /\ RowsOf(log, g) \in Seq(Nat) /\ Ascending(RowsOf(log, g))
           /\ Range(RowsOf(log, g)) = {x \in Range(log) : GroupOf(Script[x]) = g}
           /\ {x \in Ever : GroupOf(Script[x]) = g} \subseteq Range(RowsOf(log, g)) \cup cut
<1>1. log \in Seq(Nat)
    BY DEF IngestInv, Sizes
<1>2. \A x \in pruned : GroupOf(Script[x]) # g
    BY NothingPruned
<1> QED
    BY <1>1, <1>2, RowsOfFacts DEF Ever, InLine

-----------------------------------------------------------------------------
(***************************************************************************)
(* What a step may do to what is stored: nothing known is forgotten, no    *)
(* row in sight goes, and a manifest changes only to show one object for   *)
(* all others of its group.                                                *)
(***************************************************************************)
Shows(g, o) ==
    /\ o \in objects' /\ Ascending(o.rows) /\ o.rows \in Seq(Nat)
    /\ manifests'[g].active = {o}
    /\ \A p \in Known' : p.group = g => p \in {o} \cup manifests'[g].superseded

StoreSafe ==
    /\ Known \subseteq Known' /\ cut \subseteq cut' /\ DOMAIN manifests' = DOMAIN manifests
    /\ \A g \in DOMAIN manifests : View(g) \subseteq View(g)' \cup cut'
    /\ \A g \in DOMAIN manifests : manifests'[g] = manifests[g] \/ \E o : Shows(g, o)

\* One object has no row twice.
LEMMA OneObject ==
    ASSUME NEW o, o.rows \in Seq(Nat), Ascending(o.rows)
    PROVE  Disjoint({o}) /\ RowsIn({o}) = Range(o.rows)
BY AscendingOnce DEF Disjoint, RowsIn

\* All listings of a group then show the one object.
LEMMA ShownAlone ==
    ASSUME NEW g, NEW o, Shows(g, o), NEW L, L \subseteq {p \in Known' : p.group = g}
    PROVE  Resolve(L, manifests'[g]) = {o}
BY DEF Shows, Resolve

\* A reader that starts now sees the one object.
LEMMA ShownView ==
    ASSUME NEW g, NEW o, Shows(g, o)
    PROVE  View(g)' = Range(o.rows) /\ Resolve(Listing(g, "normal"), manifests[g])' = {o}
<1>1. Listing(g, "normal")' \subseteq {p \in Known' : p.group = g}
    BY DEF Listing, Known
<1>2. Resolve(Listing(g, "normal")', manifests'[g]) = {o}
    BY <1>1, ShownAlone
<1>3. Resolve(Listing(g, "normal"), manifests[g])' = Resolve(Listing(g, "normal")', manifests'[g])
    BY DEF Resolve
<1>4. View(g)' = RowsIn({o} \cap objects')
    BY <1>2, <1>3 DEF View, RowsIn
<1>5. {o} \cap objects' = {o}
    BY DEF Shows
<1> QED
    BY <1>2, <1>3, <1>4, <1>5, OneObject DEF Shows

\* A reader that does not move keeps what it needs.
LEMMA ReaderKept ==
    ASSUME ReaderOK, StoreSafe, UNCHANGED readerVars
    PROVE  ReaderOK'
<1>1. reader' = reader
    BY DEF readerVars
<1>2. /\ DOMAIN reader = {"pc", "group", "listing", "left", "files", "attempt", "since"}
      /\ reader.pc \in {"idle", "list", "manifest", "files", "error"}
    BY DEF ReaderOK
<1>3. PICK g : g = reader.group
    OBVIOUS
<1>4. reader.pc \in {"list", "manifest", "files"} => g \in DOMAIN manifests' /\ reader.since \subseteq View(g)' \cup cut'
    BY <1>3 DEF ReaderOK, StoreSafe
<1>5. ASSUME reader.pc = "manifest"
      PROVE  /\ reader.listing \subseteq {o \in Known' : o.group = g}
             /\ reader.since \subseteq RowsIn(Resolve(reader.listing, manifests'[g])) \cup cut'
             /\ Disjoint(Resolve(reader.listing, manifests'[g]))
    <2>1. /\ g \in DOMAIN manifests
          /\ reader.listing \subseteq {o \in Known : o.group = g}
          /\ reader.since \subseteq RowsIn(Resolve(reader.listing, manifests[g])) \cup cut
          /\ Disjoint(Resolve(reader.listing, manifests[g]))
        BY <1>3, <1>5 DEF ReaderOK
    <2>2. reader.listing \subseteq {o \in Known' : o.group = g}
        BY <2>1 DEF StoreSafe
    <2>3. CASE manifests'[g] = manifests[g]
        BY <2>1, <2>2, <2>3 DEF StoreSafe
    <2>4. ASSUME NEW o, Shows(g, o)
          PROVE  /\ reader.since \subseteq RowsIn(Resolve(reader.listing, manifests'[g])) \cup cut'
                 /\ Disjoint(Resolve(reader.listing, manifests'[g]))
        <3>1. Resolve(reader.listing, manifests'[g]) = {o}
            BY <2>2, <2>4, ShownAlone
        <3>2. View(g)' = RowsIn({o}) /\ Disjoint({o})
            BY <2>4, ShownView, OneObject DEF Shows
        <3> QED
            BY <1>4, <1>5, <3>1, <3>2
    <2> QED
        BY <2>1, <2>2, <2>3, <2>4 DEF StoreSafe
<1>6. reader.pc = "files" =>
        /\ reader.since \subseteq RowsIn(reader.left \cup reader.files) \cup cut'
        /\ Disjoint(reader.left \cup reader.files)
    BY DEF ReaderOK, StoreSafe
<1> QED
    BY <1>1, <1>2, <1>3, <1>4, <1>5, <1>6 DEF ReaderOK

\* Nor does one that moves lose sight of what it began with.
LEMMA ReaderMoves ==
    ASSUME StoreOK, ReaderOK, ReaderNext, UNCHANGED ingestVars
    PROVE  ReaderOK'
<1>1. UNCHANGED << objects, manifests, cut >>
    BY DEF ingestVars
<1>2. Known' = Known /\ \A g : View(g)' = View(g)
    BY <1>1 DEF Known, Mentioned, View, Listing, Resolve
<1>3. DOMAIN reader = {"pc", "group", "listing", "left", "files", "attempt", "since"}
    BY DEF ReaderOK
<1>4. PICK k : k = reader.group
    OBVIOUS
<1>5. CASE \E g \in DOMAIN manifests : ReadStart(g)
    <2>1. PICK g \in DOMAIN manifests : reader' = [NotReading EXCEPT !.pc = "list", !.group = g, !.since = View(g)]
        BY <1>5 DEF ReadStart
    <2>2. PICK v : v = View(g)
        OBVIOUS
    <2>3. /\ reader'.pc = "list" /\ reader'.group = g /\ reader'.since = v
          /\ DOMAIN reader' = {"pc", "group", "listing", "left", "files", "attempt", "since"}
        BY <2>1, <2>2 DEF NotReading
    <2> QED
        BY <1>1, <1>2, <2>1, <2>2, <2>3 DEF ReaderOK
<1>6. CASE ReadListing
    <2>1. PICK L : L = Listing(k, "normal")
        OBVIOUS
    <2>2. /\ reader.pc = "list" /\ reader'.pc = "manifest" /\ reader'.listing = L /\ reader'.group = k
          /\ reader'.since = reader.since
          /\ DOMAIN reader' = {"pc", "group", "listing", "left", "files", "attempt", "since"}
        BY <1>3, <1>4, <1>6, <2>1 DEF ReadListing
    <2>3. k \in DOMAIN manifests /\ reader.since \subseteq View(k) \cup cut
        BY <1>4, <2>2 DEF ReaderOK
    <2>4. L \subseteq {o \in Known : o.group = k} /\ Disjoint(Resolve(L, manifests[k]))
        BY <2>1, <2>3 DEF StoreOK, Listing, Known
    <2>5. View(k) \subseteq RowsIn(Resolve(L, manifests[k]))
        BY <2>1 DEF View, RowsIn
    <2> QED
        BY <1>1, <1>2, <2>2, <2>3, <2>4, <2>5 DEF ReaderOK
<1>7. CASE ReadManifest
    <2>1. PICK F : F = Resolve(reader.listing, manifests[k])
        OBVIOUS
    <2>2. /\ reader.pc = "manifest" /\ reader'.pc = "files" /\ reader'.group = k /\ reader'.since = reader.since
          /\ reader'.left = F /\ reader'.files = {}
          /\ DOMAIN reader' = {"pc", "group", "listing", "left", "files", "attempt", "since"}
        BY <1>3, <1>4, <1>7, <2>1 DEF ReadManifest
    <2>3. /\ k \in DOMAIN manifests /\ reader.since \subseteq View(k) \cup cut
          /\ reader.since \subseteq RowsIn(F) \cup cut /\ Disjoint(F)
        BY <1>4, <2>1, <2>2 DEF ReaderOK
    <2>4. reader'.left \cup reader'.files = F
        BY <2>2
    <2> QED
        BY <1>1, <1>2, <2>2, <2>3, <2>4 DEF ReaderOK
<1>8. CASE ReadFile
    <2>1. PICK o \in reader.left :
            \/ reader' = [reader EXCEPT !.left = reader.left \ {o}, !.files = reader.files \cup {o}]
            \/ reader' = [reader EXCEPT !.pc = "list", !.attempt = 1]
            \/ reader' = [reader EXCEPT !.pc = "error"]
        BY <1>8 DEF ReadFile
    <2>2. /\ reader'.group = k /\ reader'.since = reader.since /\ reader.pc = "files"
          /\ DOMAIN reader' = {"pc", "group", "listing", "left", "files", "attempt", "since"}
          /\ \/ reader'.pc \in {"list", "error"}
             \/ reader'.pc = "files" /\ reader'.left = reader.left \ {o} /\ reader'.files = reader.files \cup {o}
        BY <1>3, <1>4, <1>8, <2>1 DEF ReadFile
    <2>3. reader'.pc = "files" => reader'.left \cup reader'.files = reader.left \cup reader.files
        BY <2>2
    <2>4. /\ k \in DOMAIN manifests /\ reader.since \subseteq View(k) \cup cut
          /\ reader.since \subseteq RowsIn(reader.left \cup reader.files) \cup cut
          /\ Disjoint(reader.left \cup reader.files)
        BY <1>4, <2>2 DEF ReaderOK
    <2> QED
        BY <1>1, <1>2, <2>2, <2>3, <2>4 DEF ReaderOK
<1>9. CASE ReadEnds
    BY <1>9 DEF ReadEnds, NotReading, ReaderOK
<1> QED
    BY <1>5, <1>6, <1>7, <1>8, <1>9 DEF ReaderNext

-----------------------------------------------------------------------------
(***************************************************************************)
(* The steps of ingest, as the store sees them.                            *)
(***************************************************************************)
LEMMA StoreKept ==
    ASSUME StoreOK, UNCHANGED << profile, storeVars >>, Ever \subseteq Ever', cut \subseteq cut'
    PROVE  StoreOK' /\ StoreSafe
<1>1. Known' = Known /\ Script' = Script /\ \A g : View(g)' = View(g)
    BY DEF Known, Mentioned, Script, Setup, View, Listing, Resolve
<1>2. \A o \in Known : Filed(o)'
    BY <1>1 DEF StoreOK, Filed, GroupOf, HourOf
<1>3. StoreOK'
    BY <1>1, <1>2 DEF StoreOK, Listing, Resolve
<1>4. StoreSafe
    BY <1>1 DEF StoreSafe
<1> QED
    BY <1>3, <1>4

\* An object that has no row of another one is added.
LEMMA DisjointPlus ==
    ASSUME NEW F, NEW o, Disjoint(F), IsInjective(o.rows), NEW H, H \subseteq F \cup {o},
           \A p \in F : p = o \/ Range(p.rows) \cap Range(o.rows) = {}
    PROVE  Disjoint(H)
BY DEF Disjoint

\* write_group: one more object, with rows that are in no other.
LEMMA FlushGroupStore ==
    ASSUME IngestInv, InLine, Fresh, StoreOK, FlushGroup
    PROVE  StoreOK' /\ StoreSafe
<1>1. PICK k : LET o == Object("normal", k, RowsOf(sink.buffer, k))
               IN  /\ Filed(o)
                   /\ objects' = objects \cup {o} /\ Known' = Known \cup {o}
                   /\ \A p \in Known : p = o \/ Range(p.rows) \cap Range(o.rows) = {}
                   /\ UNCHANGED manifests
    BY FlushedObject
<1>2. PICK o : o = Object("normal", k, RowsOf(sink.buffer, k))
    OBVIOUS
<1>3. /\ Filed(o) /\ objects' = objects \cup {o} /\ Known' = Known \cup {o}
      /\ \A p \in Known : p = o \/ Range(p.rows) \cap Range(o.rows) = {}
      /\ UNCHANGED << manifests, profile, log, cut, pruned >>
    BY <1>1, <1>2 DEF FlushGroup
<1>4. Ever' = Ever /\ Script' = Script
    BY <1>3 DEF Ever, Script, Setup
<1>5. \A p \in Known' : Filed(p)'
    BY <1>3, <1>4 DEF StoreOK, Filed, GroupOf, HourOf
<1>6. IsInjective(o.rows)
    BY <1>3, AscendingOnce DEF Filed
<1>7. ASSUME NEW g \in DOMAIN manifests
      PROVE  Disjoint(Resolve(Listing(g, "normal"), manifests[g]))' /\ View(g) \subseteq View(g)'
    <2>1. PICK F : F = Resolve(Listing(g, "normal"), manifests[g])
        OBVIOUS
    <2>2. PICK H : H = Resolve(Listing(g, "normal"), manifests[g])'
        OBVIOUS
    <2>3. F \subseteq H /\ H \subseteq F \cup {o} /\ F \subseteq Known
        BY <1>3, <2>1, <2>2 DEF Resolve, Listing, Known, Mentioned
    <2>4. Disjoint(F)
        BY <2>1 DEF StoreOK
    <2>5. Disjoint(H)
        BY <1>3, <1>6, <2>3, <2>4, DisjointPlus
    <2>6. View(g) = RowsIn(F \cap objects) /\ View(g)' = RowsIn(H \cap objects')
        BY <2>1, <2>2 DEF View, RowsIn, Listing, Resolve
    <2>7. View(g) \subseteq View(g)'
        BY <1>3, <2>3, <2>6 DEF RowsIn
    <2>8. Disjoint(Resolve(Listing(g, "normal"), manifests[g]))' <=> Disjoint(H)
        BY <2>2 DEF Disjoint
    <2> QED
        BY <2>5, <2>7, <2>8
<1>8. StoreOK'
    BY <1>3, <1>4, <1>5, <1>7 DEF StoreOK
<1>9. StoreSafe
    BY <1>3, <1>7 DEF StoreSafe
<1> QED
    BY <1>8, <1>9

-----------------------------------------------------------------------------
(***************************************************************************)
(* The steps of reconcile, as the store sees them.                         *)
(***************************************************************************)
\* What readers see of a group are records of the group that the WAL had.
LEMMA ViewFiled ==
    ASSUME StoreOK, NEW g \in DOMAIN manifests
    PROVE  /\ Resolve(Listing(g, "normal"), manifests[g]) \subseteq {o \in Known : o.group = g}
           /\ View(g) \subseteq {x \in Ever : GroupOf(Script[x]) = g}
<1>1. Resolve(Listing(g, "normal"), manifests[g]) \subseteq {o \in Known : o.group = g}
    <2>1. \A o \in manifests[g].active : o \in Known /\ o.group = g
        BY DEF StoreOK, Known, Mentioned, InScope
    <2>2. \A o \in Listing(g, "normal") : o \in Known /\ o.group = g
        BY DEF Listing, Known
    <2> QED
        BY <2>1, <2>2 DEF Resolve
<1>2. \A o \in Known : o.group = g => Range(o.rows) \subseteq {x \in Ever : GroupOf(Script[x]) = g}
    BY DEF StoreOK, Filed
<1> QED
    BY <1>1, <1>2 DEF View, RowsIn

\* Where an object belongs does not change with the store.
LEMMA FiledKept ==
    ASSUME UNCHANGED << profile, log, cut, pruned >>
    PROVE  Ever' = Ever /\ Script' = Script /\ \A o : Filed(o)' <=> Filed(o)
BY DEF Ever, Script, Setup, Filed, GroupOf, HourOf

\* An object is put where no reader looks for it, or looks past it.
LEMMA PutStep ==
    ASSUME StoreOK, NEW o, Filed(o), objects' = objects \cup {o},
           UNCHANGED << manifests, profile, log, cut, pruned >>,
           o.place = "recovery" \/ o \in manifests[o.group].superseded
    PROVE  StoreOK' /\ StoreSafe /\ Known' = Known \cup {o}
<1>1. Known' = Known \cup {o}
    BY DEF Known, Mentioned
<1>2. \A p \in Known' : Filed(p)'
    BY <1>1, FiledKept DEF StoreOK
<1>3. ASSUME NEW g \in DOMAIN manifests
      PROVE  Resolve(Listing(g, "normal"), manifests[g])' = Resolve(Listing(g, "normal"), manifests[g])
    BY DEF Listing, Resolve
<1>4. \A g \in DOMAIN manifests : View(g) \subseteq View(g)'
    BY <1>3 DEF View, RowsIn
<1>5. StoreOK'
    BY <1>2, <1>3, FiledKept DEF StoreOK
<1>6. StoreSafe
    BY <1>1, <1>4 DEF StoreSafe
<1> QED
    BY <1>1, <1>5, <1>6

\* A superseded object is deleted: readers see what they saw.
LEMMA DeleteStep ==
    ASSUME StoreOK, NEW k \in DOMAIN manifests, NEW o \in manifests[k].superseded, objects' = objects \ {o},
           UNCHANGED << manifests, profile, log, cut, pruned >>
    PROVE  StoreOK' /\ StoreSafe /\ Known' = Known
<1>1. Known' = Known
    BY DEF Known, Mentioned
<1>2. o.group = k /\ o \notin manifests[k].active
    BY DEF StoreOK, InScope
<1>3. ASSUME NEW g \in DOMAIN manifests
      PROVE  Resolve(Listing(g, "normal"), manifests[g])' = Resolve(Listing(g, "normal"), manifests[g]) /\ View(g) = View(g)'
    <2>1. PICK F : F = Resolve(Listing(g, "normal"), manifests[g])
        OBVIOUS
    <2>2. o \notin F
        BY <1>2, <2>1 DEF StoreOK, Resolve, Listing, InScope
    <2>3. Resolve(Listing(g, "normal"), manifests[g])' = F
        BY <2>1, <2>2 DEF Resolve, Listing
    <2>4. View(g) = RowsIn(F \cap objects) /\ View(g)' = RowsIn(F \cap objects')
        BY <2>1, <2>3 DEF View, RowsIn
    <2>5. F \cap objects = F \cap objects'
        BY <2>2
    <2> QED
        BY <2>1, <2>3, <2>4, <2>5
<1>4. StoreOK'
    BY <1>1, <1>3, FiledKept DEF StoreOK
<1>5. StoreSafe
    BY <1>1, <1>3 DEF StoreSafe
<1> QED
    BY <1>1, <1>4, <1>5

\* A manifest shows one object of a group that is there, in place of all others.
LEMMA PublishStep ==
    ASSUME StoreOK, NEW k \in DOMAIN manifests, NEW o \in objects, NEW X, Filed(o), o.group = k, o \notin X,
           manifests' = [manifests EXCEPT ![k] = [active |-> {o}, superseded |-> X]],
           \A p \in X : p.group = k /\ Filed(p),
           \A p \in Known : p.group = k => p \in X \cup {o},
           {x \in Ever : GroupOf(Script[x]) = k} \subseteq Range(o.rows) \cup cut,
           UNCHANGED << objects, profile, log, cut, pruned >>
    PROVE  StoreOK' /\ StoreSafe /\ Known' = Known \cup X
<1>1. /\ DOMAIN manifests' = DOMAIN manifests
      /\ manifests'[k].active = {o} /\ manifests'[k].superseded = X
      /\ \A g \in DOMAIN manifests : g # k => manifests'[g] = manifests[g]
    OBVIOUS
<1>2. Known' = Known \cup X
    <2>1. \A p : p \in Known <=>
                p \in objects \/ \E g \in DOMAIN manifests : p \in manifests[g].active \cup manifests[g].superseded
        BY DEF Known, Mentioned
    <2>2. \A p : p \in Known' <=>
                p \in objects \/ \E g \in DOMAIN manifests : p \in manifests'[g].active \cup manifests'[g].superseded
        BY <1>1 DEF Known, Mentioned
    <2>3. \A p \in manifests[k].active \cup manifests[k].superseded : p \in X \cup {o}
        BY <2>1 DEF StoreOK, InScope
    <2>4. ASSUME NEW p \in Known PROVE p \in Known'
        <3>1. CASE p \in objects
            BY <2>2, <3>1
        <3>2. CASE \E g \in DOMAIN manifests : p \in manifests[g].active \cup manifests[g].superseded
            <4>1. PICK g \in DOMAIN manifests : p \in manifests[g].active \cup manifests[g].superseded
                BY <3>2
            <4>2. p \in manifests'[g].active \cup manifests'[g].superseded
                BY <1>1, <2>3, <4>1
            <4> QED
                BY <2>2, <4>2
        <3> QED
            BY <2>1, <3>1, <3>2
    <2>5. ASSUME NEW p \in X PROVE p \in Known'
        BY <1>1, <2>2
    <2>6. ASSUME NEW p \in Known' PROVE p \in Known \cup X
        <3>1. CASE p \in objects
            BY <2>1, <3>1
        <3>2. CASE \E g \in DOMAIN manifests : p \in manifests'[g].active \cup manifests'[g].superseded
            <4>1. PICK g \in DOMAIN manifests : p \in manifests'[g].active \cup manifests'[g].superseded
                BY <3>2
            <4> QED
                BY <1>1, <2>1, <4>1
        <3> QED
            BY <2>2, <3>1, <3>2
    <2> QED
        BY <2>4, <2>5, <2>6
<1>3. Shows(k, o)
    BY <1>1, <1>2 DEF Shows, Filed
<1>4. View(k) \subseteq View(k)' \cup cut'
    BY <1>3, ShownView, ViewFiled
<1>5. \A g \in DOMAIN manifests :
        g # k => /\ Resolve(Listing(g, "normal"), manifests[g])' = Resolve(Listing(g, "normal"), manifests[g])
                 /\ View(g)' = View(g)
    BY <1>1 DEF Resolve, Listing, View
<1>6. Disjoint(Resolve(Listing(k, "normal"), manifests[k])')
    <2>1. Resolve(Listing(k, "normal"), manifests[k])' = {o}
        BY <1>3, ShownView
    <2>2. Disjoint({o})
        BY OneObject DEF Filed
    <2> QED
        BY <2>1, <2>2
<1>7. \A p \in Known' : Filed(p)'
    BY <1>2, FiledKept DEF StoreOK
<1>8. ASSUME NEW g \in DOMAIN manifests
      PROVE  /\ InScope(g, manifests'[g])
             /\ manifests'[g].active \cap manifests'[g].superseded = {}
             /\ Disjoint(Resolve(Listing(g, "normal"), manifests[g])')
    <2>1. CASE g = k
        BY <1>1, <1>6, <2>1 DEF InScope
    <2>2. CASE g # k
        BY <1>1, <1>5, <2>2 DEF StoreOK
    <2> QED
        BY <2>1, <2>2
<1>9. StoreOK'
    BY <1>1, <1>7, <1>8, FiledKept DEF StoreOK
<1>10. StoreSafe
    <2>1. \A g \in DOMAIN manifests : View(g) \subseteq View(g)' \cup cut'
        BY <1>4, <1>5
    <2>2. \A g \in DOMAIN manifests : manifests'[g] = manifests[g] \/ \E q : Shows(g, q)
        BY <1>1, <1>3
    <2> QED
        BY <1>1, <1>2, <2>1, <2>2 DEF StoreSafe
<1> QED
    BY <1>2, <1>9, <1>10

-----------------------------------------------------------------------------
(***************************************************************************)
(* The steps of reconcile.                                                 *)
(***************************************************************************)
RcFields == {"pc", "left", "group", "stale", "delete", "failed"}

\* Ingest and the log stand still.
Still == UNCHANGED << log, proc, cut, pruned, profile >>

\* What is published follows from the log alone.
LEMMA LogFacts ==
    ASSUME UNCHANGED << log, profile >>
    PROVE  /\ GroupsToPublish' = GroupsToPublish /\ RecordsToPublish' = RecordsToPublish
           /\ \A g : Replacement(g)' = Replacement(g)
           /\ rc'.group = rc.group => Group' = Group /\ Staged' = Staged /\ Recovered' = Recovered
<1>1. Script' = Script
    BY DEF Script, Setup
<1>2. FirstAt' = FirstAt /\ LastAt' = LastAt
    BY <1>1 DEF FirstAt, LastAt, SupportedAt, Supported
<1>3. RecordsToPublish' = RecordsToPublish
    BY <1>1, <1>2 DEF RecordsToPublish, Supported, CompleteHour, HourOf
<1>4. GroupsToPublish' = GroupsToPublish
    BY <1>1, <1>3 DEF GroupsToPublish, GroupOf, HourOf
<1>5. \A g : RowsOf(log, g)' = RowsOf(log, g)
    BY <1>1 DEF RowsOf, GroupOf, HourOf
<1>6. \A g : Replacement(g)' = Replacement(g)
    BY <1>5 DEF Replacement, Object
<1>7. rc'.group = rc.group => Group' = Group /\ Staged' = Staged /\ Recovered' = Recovered
    BY <1>5 DEF Group, Staged, Recovered, WalRows, Object
<1> QED
    BY <1>3, <1>4, <1>6, <1>7

\* Nor does it change while reconcile works.
LEMMA StillFacts ==
    ASSUME Still
    PROVE  /\ GroupsToPublish' = GroupsToPublish /\ RecordsToPublish' = RecordsToPublish
           /\ \A g : Replacement(g)' = Replacement(g)
           /\ rc'.group = rc.group => Group' = Group /\ Staged' = Staged /\ Recovered' = Recovered
           /\ Alive' = Alive
BY LogFacts DEF Still, Alive

\* What a group is replaced by.
LEMMA ReplacementFacts ==
    ASSUME ClockKeepsUp, IngestInv, InLine, StoreOK, ReconcileOK, rc.pc \notin {"off", "list"}
    PROVE  /\ Group \in DOMAIN manifests /\ Group \in GroupsToPublish
           /\ Filed(Staged) /\ Staged.group = Group /\ Staged.place = "recovery"
           /\ Filed(Recovered) /\ Recovered.group = Group /\ Recovered.place = "normal"
           /\ Recovered = Replacement(Group)
           /\ {x \in Ever : GroupOf(Script[x]) = Group} \subseteq Range(Staged.rows) \cup cut
           /\ {x \in Ever : GroupOf(Script[x]) = Group} \subseteq Range(Recovered.rows) \cup cut
<1>1. Group \in GroupsToPublish
    BY DEF ReconcileOK
<1>2. Group \in DOMAIN manifests
    BY <1>1, GroupsKnown DEF IngestInv, Sizes
<1>3. PICK w : w = WalRows
    OBVIOUS
<1>4. /\ w \in Seq(Nat) /\ Ascending(w)
      /\ \A x \in Range(w) : x \in Ever /\ GroupOf(Script[x]) = Group
      /\ {x \in Ever : GroupOf(Script[x]) = Group} \subseteq Range(w) \cup cut
    BY <1>1, <1>3, WalHasAll DEF WalRows, Ever
<1>5. Staged.group = Group /\ Staged.place = "recovery" /\ Staged.rows = w
    BY <1>3 DEF Staged, Object
<1>6. Recovered.group = Group /\ Recovered.place = "normal" /\ Recovered.rows = w
    BY <1>3 DEF Recovered, Object
<1>7. Recovered = Replacement(Group)
    BY DEF Recovered, Replacement, WalRows
<1>8. Filed(Staged)
    BY <1>4, <1>5 DEF Filed
<1>9. Filed(Recovered)
    BY <1>4, <1>6 DEF Filed
<1> QED
    BY <1>1, <1>2, <1>4, <1>5, <1>6, <1>7, <1>8, <1>9

ReconcileGoal == StoreOK' /\ StoreSafe /\ ReconcileOK' /\ ReplacedOK'

\* Nothing is replaced yet.
LEMMA ReconcileStartStep ==
    ASSUME Operated, InLine, StoreOK, ReconcileOK, ReconcileStart, Still
    PROVE  ReconcileGoal
<1>1. UNCHANGED storeVars /\ Ever' = Ever /\ cut' = cut /\ profile' = profile
    BY FiledKept DEF ReconcileStart, Still
<1>2. StoreOK' /\ StoreSafe
    BY <1>1, StoreKept
<1>3. rc.pc = "off" /\ DOMAIN rc = RcFields
    BY DEF ReconcileStart, ReconcileOK, RcFields
<1>4. CASE rc' = rc
    <2>1. ReconcileOK'
        BY <1>3, <1>4 DEF ReconcileOK, RcFields
    <2>2. ReplacedOK'
        BY <1>3, <1>4 DEF ReplacedOK
    <2> QED
        BY <1>2, <2>1, <2>2 DEF ReconcileGoal
<1>5. CASE lock' = "reconcile" /\ rc' = [NotReconciling EXCEPT !.pc = "list", !.left = GroupsToPublish]
    <2>1. PICK L : L = GroupsToPublish
        OBVIOUS
    <2>2. /\ DOMAIN rc' = RcFields /\ rc'.pc = "list" /\ rc'.left = L /\ rc'.failed = 0
        BY <1>5, <2>1 DEF NotReconciling, RcFields
    <2>3. Setup.offline
        BY DEF Operated, InLine, Setup
    <2>4. ~Alive'
        BY <2>3, StillFacts DEF ReconcileStart, Offline, Alive
    <2>5. GroupsToPublish' = L
        BY <2>1, StillFacts
    <2>6. ReconcileOK'
        BY <1>5, <2>2, <2>4, <2>5 DEF ReconcileOK, RcFields, Replacing
    <2>7. ReplacedOK'
        BY <2>2, <2>5 DEF ReplacedOK
    <2> QED
        BY <1>2, <2>6, <2>7 DEF ReconcileGoal
<1> QED
    BY <1>2, <1>4, <1>5 DEF ReconcileStart, ReconcileGoal

\* All that is known of the group is superseded, wherever a listing or its manifest shows it.
LEMMA ListGroupStep ==
    ASSUME IngestInv, InLine, StoreOK, ReconcileOK, ReplacedOK, ListGroup, Still
    PROVE  ReconcileGoal
<1>1. UNCHANGED storeVars /\ Ever' = Ever /\ cut' = cut /\ profile' = profile
    BY FiledKept DEF ListGroup, Still
<1>2. StoreOK' /\ StoreSafe /\ Known' = Known
    BY <1>1, StoreKept DEF Known, Mentioned
<1>3. PICK g \in rc.left :
        rc' = [rc EXCEPT !.pc = "stage", !.left = rc.left \ {g}, !.group = g,
                         !.stale = Listing(g, "normal") \cup Listing(g, "recovery")
                                   \cup manifests[g].active \cup manifests[g].superseded]
    BY DEF ListGroup
<1>4. PICK T : T = Listing(g, "normal") \cup Listing(g, "recovery") \cup manifests[g].active \cup manifests[g].superseded
    OBVIOUS
<1>5. PICK L : L = rc.left \ {g}
    OBVIOUS
<1>6. DOMAIN rc = RcFields /\ rc.pc = "list" /\ lock = "reconcile" /\ ~Alive /\ rc.left \subseteq GroupsToPublish
    BY DEF ListGroup, ReconcileOK, RcFields
<1>7. /\ DOMAIN rc' = RcFields /\ rc'.pc = "stage" /\ rc'.left = L /\ rc'.stale = T /\ rc'.failed = rc.failed
      /\ rc'.group = g
    BY <1>3, <1>4, <1>5, <1>6 DEF RcFields
<1>8. Group' = g
    BY <1>7 DEF Group
<1>9. \A o \in Known : Filed(o) /\ o.place \in {"normal", "recovery"}
    BY DEF StoreOK, Filed
<1>10. \A h \in DOMAIN manifests : \A o \in Mentioned(h) : o.group = h
    BY DEF StoreOK, InScope, Mentioned
<1>11. ASSUME NEW o \in Known, o.group = g PROVE o \in T
    <2>1. CASE o \in objects
        BY <1>4, <1>9, <1>11, <2>1 DEF Listing
    <2>2. CASE o \in UNION {Mentioned(h) : h \in DOMAIN manifests}
        <3>1. PICK h \in DOMAIN manifests : o \in Mentioned(h)
            BY <2>2
        <3>2. h = g
            BY <1>10, <1>11, <3>1
        <3> QED
            BY <1>4, <3>1, <3>2 DEF Mentioned
    <2> QED
        BY <2>1, <2>2 DEF Known
<1>12. T \subseteq Known
    <2>1. g \in DOMAIN manifests
        BY <1>6, GroupsKnown DEF IngestInv, Sizes
    <2> QED
        BY <1>4, <2>1 DEF Listing, Known, Mentioned
<1>13. GroupsToPublish' = GroupsToPublish /\ Alive' = Alive /\ \A h : Replacement(h)' = Replacement(h)
    BY StillFacts
<1>14. ReconcileOK'
    <2>1. lock' = "reconcile" /\ ~Alive'
        BY <1>6, <1>13 DEF ListGroup
    <2>2. Group' \in GroupsToPublish' /\ L \subseteq GroupsToPublish'
        BY <1>5, <1>6, <1>8, <1>13
    <2>3. T \subseteq Known' /\ \A o \in Known' : o.group = Group' => o \in T
        BY <1>2, <1>8, <1>11, <1>12
    <2> QED
        BY <1>7, <2>1, <2>2, <2>3 DEF ReconcileOK, RcFields, Replacing
<1>15. ReplacedOK'
    <2>1. /\ rc.failed \in Nat
          /\ rc.failed = 0 => \A h \in GroupsToPublish \ rc.left :
                /\ Replacement(h) \in objects
                /\ \A o \in objects : o.group = h => o = Replacement(h)
        BY <1>6 DEF ReplacedOK
    <2>2. objects' = objects
        BY <1>1 DEF storeVars
    <2>3. rc.failed = 0 => \A h \in GroupsToPublish' \ L :
                h # Group' =>
                    /\ Replacement(h)' \in objects'
                    /\ \A o \in objects' : o.group = h => o = Replacement(h)'
        BY <1>5, <1>8, <1>13, <2>1, <2>2
    <2> QED
        BY <1>7, <2>1, <2>3 DEF ReplacedOK
<1> QED
    BY <1>2, <1>14, <1>15 DEF ReconcileGoal

\* The groups that are done keep their one object when others are touched.
LEMMA DoneKept ==
    ASSUME ReplacedOK, Still, rc.pc # "off", DOMAIN rc = RcFields,
           rc'.pc \notin {"off", "list"}, rc.pc \notin {"off", "list"},
           rc'.group = rc.group, rc'.left = rc.left, rc'.failed = rc.failed,
           \A o \in objects : o.group # Group => o \in objects',
           \A o \in objects' : o.group # Group => o \in objects,
           (rc'.pc = "delete" /\ rc'.failed = 0) =>
              \A o \in objects' : o.group = Group => o = Recovered \/ o \in rc'.delete
    PROVE  ReplacedOK'
<1>1. /\ GroupsToPublish' = GroupsToPublish /\ Group' = Group /\ Recovered' = Recovered
      /\ \A h : Replacement(h)' = Replacement(h)
    BY StillFacts
<1>2. \A h : Replacement(h).group = h
    BY DEF Replacement, Object
<1>3. /\ rc.failed \in Nat
      /\ rc.failed = 0 => \A h \in GroupsToPublish \ rc.left :
            h # Group => /\ Replacement(h) \in objects
                         /\ \A o \in objects : o.group = h => o = Replacement(h)
    BY DEF ReplacedOK
<1>4. rc'.failed = 0 => \A h \in GroupsToPublish' \ rc'.left :
            h # Group => /\ Replacement(h) \in objects'
                         /\ \A o \in objects' : o.group = h => o = Replacement(h)
    BY <1>1, <1>2, <1>3
<1> QED
    BY <1>1, <1>3, <1>4 DEF ReplacedOK

\* The staged object is out of sight.
LEMMA PutStagedStep ==
    ASSUME ClockKeepsUp, IngestInv, InLine, StoreOK, ReconcileOK, ReplacedOK, PutStaged, Still
    PROVE  ReconcileGoal
<1>1. DOMAIN rc = RcFields /\ rc.pc = "stage" /\ lock = "reconcile" /\ ~Alive /\ rc.left \subseteq GroupsToPublish
    BY DEF PutStaged, ReconcileOK, RcFields
<1>2. /\ Group \in DOMAIN manifests /\ Group \in GroupsToPublish
      /\ Filed(Staged) /\ Staged.group = Group /\ Staged.place = "recovery"
    BY <1>1, ReplacementFacts
<1>3. objects' = objects \cup {Staged} /\ manifests' = manifests
    BY DEF PutStaged, Put
<1>4. StoreOK' /\ StoreSafe /\ Known' = Known \cup {Staged}
    BY <1>2, <1>3, PutStep DEF Still
<1>5. /\ DOMAIN rc' = RcFields /\ rc'.pc = "staged" /\ rc'.left = rc.left /\ rc'.stale = rc.stale
      /\ rc'.failed = rc.failed /\ rc'.group = rc.group
    BY <1>1 DEF PutStaged, RcFields
<1>6. GroupsToPublish' = GroupsToPublish /\ Alive' = Alive /\ Group' = Group /\ Staged' = Staged /\ Recovered' = Recovered
    BY <1>5, StillFacts
<1>7. rc.stale \subseteq Known /\ \A o \in Known : o.group = Group => o \in rc.stale \cup {Staged, Recovered}
    BY <1>1 DEF ReconcileOK, Replacing
<1>8. ReconcileOK'
    <2>1. lock' = "reconcile"
        BY <1>1 DEF PutStaged
    <2>2. rc.stale \subseteq Known' /\ \A o \in Known' : o.group = Group => o \in rc.stale \cup {Staged, Recovered}
        BY <1>4, <1>7
    <2>3. Staged \in objects'
        BY <1>3
    <2> QED
        BY <1>1, <1>2, <1>5, <1>6, <2>1, <2>2, <2>3 DEF ReconcileOK, RcFields, Replacing
<1>9. ReplacedOK'
    BY <1>1, <1>2, <1>3, <1>5, DoneKept
<1> QED
    BY <1>4, <1>8, <1>9 DEF ReconcileGoal

\* The copy is superseded before it is there.
LEMMA PutRecoveredStep ==
    ASSUME ClockKeepsUp, IngestInv, InLine, StoreOK, ReconcileOK, ReplacedOK, PutRecovered, Still
    PROVE  ReconcileGoal
<1>1. /\ DOMAIN rc = RcFields /\ rc.pc = "promote" /\ lock = "reconcile" /\ ~Alive /\ rc.left \subseteq GroupsToPublish
      /\ Recovered \in manifests[Group].superseded
    BY DEF PutRecovered, ReconcileOK, RcFields
<1>2. /\ Group \in DOMAIN manifests /\ Group \in GroupsToPublish
      /\ Filed(Recovered) /\ Recovered.group = Group
    BY <1>1, ReplacementFacts
<1>3. objects' = objects \cup {Recovered} /\ manifests' = manifests
    BY DEF PutRecovered, Put
<1>4. StoreOK' /\ StoreSafe /\ Known' = Known \cup {Recovered}
    BY <1>1, <1>2, <1>3, PutStep DEF Still
<1>5. /\ DOMAIN rc' = RcFields /\ rc'.pc = "promoted" /\ rc'.left = rc.left /\ rc'.stale = rc.stale
      /\ rc'.failed = rc.failed /\ rc'.group = rc.group
    BY <1>1 DEF PutRecovered, RcFields
<1>6. GroupsToPublish' = GroupsToPublish /\ Alive' = Alive /\ Group' = Group /\ Staged' = Staged /\ Recovered' = Recovered
    BY <1>5, StillFacts
<1>7. rc.stale \subseteq Known /\ \A o \in Known : o.group = Group => o \in rc.stale \cup {Staged, Recovered}
    BY <1>1 DEF ReconcileOK, Replacing
<1>8. ReconcileOK'
    <2>1. lock' = "reconcile"
        BY <1>1 DEF PutRecovered
    <2>2. rc.stale \subseteq Known' /\ \A o \in Known' : o.group = Group => o \in rc.stale \cup {Staged, Recovered}
        BY <1>4, <1>7
    <2>3. Recovered \in objects'
        BY <1>3
    <2> QED
        BY <1>1, <1>2, <1>5, <1>6, <2>1, <2>2, <2>3 DEF ReconcileOK, RcFields, Replacing
<1>9. ReplacedOK'
    BY <1>1, <1>2, <1>3, <1>5, DoneKept
<1> QED
    BY <1>4, <1>8, <1>9 DEF ReconcileGoal

\* Readers go over to the staged object,
LEMMA PublishStagedStep ==
    ASSUME ClockKeepsUp, IngestInv, InLine, StoreOK, ReconcileOK, ReplacedOK, PublishStaged, Still
    PROVE  ReconcileGoal
<1>1. /\ DOMAIN rc = RcFields /\ rc.pc = "staged" /\ lock = "reconcile" /\ ~Alive /\ rc.left \subseteq GroupsToPublish
      /\ Staged \in objects
    BY DEF PublishStaged, ReconcileOK, RcFields
<1>2. /\ Group \in DOMAIN manifests /\ Group \in GroupsToPublish
      /\ Filed(Staged) /\ Staged.group = Group /\ Staged.place = "recovery"
      /\ Filed(Recovered) /\ Recovered.group = Group /\ Recovered.place = "normal"
      /\ {x \in Ever : GroupOf(Script[x]) = Group} \subseteq Range(Staged.rows) \cup cut
    BY <1>1, ReplacementFacts
<1>3. rc.stale \subseteq Known /\ \A o \in Known : o.group = Group => o \in rc.stale \cup {Staged, Recovered}
    BY <1>1 DEF ReconcileOK, Replacing
<1>4. PICK X : X = (rc.stale \cup {Recovered}) \ {Staged}
    OBVIOUS
<1>5. /\ manifests' = [manifests EXCEPT ![Group] = [active |-> {Staged}, superseded |-> X]]
      /\ InScope(Group, [active |-> {Staged}, superseded |-> X])
      /\ objects' = objects
    BY <1>4 DEF PublishStaged, Publish, ValidManifest
<1>6. \A p \in X : p.group = Group /\ Filed(p)
    <2>1. \A p \in X : p.group = Group
        BY <1>5 DEF InScope
    <2> QED
        BY <1>2, <1>3, <1>4, <2>1 DEF StoreOK
<1>7. Staged \notin X /\ Recovered \in X /\ \A p \in Known : p.group = Group => p \in X \cup {Staged}
    BY <1>2, <1>3, <1>4
<1>8. StoreOK' /\ StoreSafe /\ Known' = Known \cup X
    BY <1>1, <1>2, <1>5, <1>6, <1>7, PublishStep DEF Still
<1>9. /\ DOMAIN rc' = RcFields /\ rc'.pc = "promote" /\ rc'.left = rc.left /\ rc'.stale = rc.stale
      /\ rc'.failed = rc.failed /\ rc'.group = rc.group
    BY <1>1 DEF PublishStaged, RcFields
<1>10. GroupsToPublish' = GroupsToPublish /\ Alive' = Alive /\ Group' = Group /\ Staged' = Staged /\ Recovered' = Recovered
    BY <1>9, StillFacts
<1>11. ReconcileOK'
    <2>1. lock' = "reconcile"
        BY <1>1 DEF PublishStaged
    <2>2. rc.stale \subseteq Known' /\ \A o \in Known' : o.group = Group => o \in rc.stale \cup {Staged, Recovered}
        BY <1>3, <1>4, <1>8
    <2>3. Recovered \in manifests'[Group].superseded
        BY <1>2, <1>5, <1>7
    <2> QED
        BY <1>1, <1>2, <1>9, <1>10, <2>1, <2>2, <2>3 DEF ReconcileOK, RcFields, Replacing
<1>12. ReplacedOK'
    BY <1>1, <1>2, <1>5, <1>9, DoneKept
<1> QED
    BY <1>8, <1>11, <1>12 DEF ReconcileGoal

\* and then to its copy.
LEMMA PublishRecoveredStep ==
    ASSUME ClockKeepsUp, IngestInv, InLine, StoreOK, ReconcileOK, ReplacedOK, PublishRecovered, Still
    PROVE  ReconcileGoal
<1>1. /\ DOMAIN rc = RcFields /\ rc.pc = "promoted" /\ lock = "reconcile" /\ ~Alive /\ rc.left \subseteq GroupsToPublish
      /\ Recovered \in objects
    BY DEF PublishRecovered, ReconcileOK, RcFields
<1>2. /\ Group \in DOMAIN manifests /\ Group \in GroupsToPublish
      /\ Filed(Staged) /\ Staged.group = Group /\ Staged.place = "recovery"
      /\ Filed(Recovered) /\ Recovered.group = Group /\ Recovered.place = "normal"
      /\ {x \in Ever : GroupOf(Script[x]) = Group} \subseteq Range(Recovered.rows) \cup cut
    BY <1>1, ReplacementFacts
<1>3. rc.stale \subseteq Known /\ \A o \in Known : o.group = Group => o \in rc.stale \cup {Staged, Recovered}
    BY <1>1 DEF ReconcileOK, Replacing
<1>4. PICK X : X = (rc.stale \cup {Staged}) \ {Recovered}
    OBVIOUS
<1>5. /\ manifests' = [manifests EXCEPT ![Group] = [active |-> {Recovered}, superseded |-> X]]
      /\ InScope(Group, [active |-> {Recovered}, superseded |-> X])
      /\ objects' = objects
      /\ rc' = [rc EXCEPT !.pc = "delete", !.delete = X]
    BY <1>4 DEF PublishRecovered, Publish, ValidManifest
<1>6. \A p \in X : p.group = Group /\ Filed(p)
    <2>1. \A p \in X : p.group = Group
        BY <1>5 DEF InScope
    <2> QED
        BY <1>2, <1>3, <1>4, <2>1 DEF StoreOK
<1>7. Recovered \notin X /\ \A p \in Known : p.group = Group => p \in X \cup {Recovered}
    BY <1>2, <1>3, <1>4
<1>8. StoreOK' /\ StoreSafe /\ Known' = Known \cup X
    BY <1>1, <1>2, <1>5, <1>6, <1>7, PublishStep DEF Still
<1>9. /\ DOMAIN rc' = RcFields /\ rc'.pc = "delete" /\ rc'.left = rc.left /\ rc'.delete = X
      /\ rc'.failed = rc.failed /\ rc'.group = rc.group
    BY <1>1, <1>5 DEF RcFields
<1>10. GroupsToPublish' = GroupsToPublish /\ Alive' = Alive /\ Group' = Group /\ Recovered' = Recovered
    BY <1>9, StillFacts
<1>11. ReconcileOK'
    <2>1. lock' = "reconcile"
        BY <1>1 DEF PublishRecovered
    <2>2. Recovered \in objects' \ X /\ X \subseteq manifests'[Group].superseded
        BY <1>1, <1>2, <1>5, <1>7
    <2> QED
        BY <1>1, <1>2, <1>9, <1>10, <2>1, <2>2 DEF ReconcileOK, RcFields, Replacing
<1>12. ReplacedOK'
    <2>1. \A o \in objects' : o.group = Group => o = Recovered \/ o \in rc'.delete
        BY <1>5, <1>7, <1>9 DEF Known
    <2> QED
        BY <1>1, <1>2, <1>5, <1>9, <2>1, DoneKept
<1> QED
    BY <1>8, <1>11, <1>12 DEF ReconcileGoal

\* Only what is superseded is deleted; a deletion that fails is counted.
LEMMA DeleteStaleStep ==
    ASSUME ClockKeepsUp, IngestInv, InLine, StoreOK, ReconcileOK, ReplacedOK, DeleteStale, Still
    PROVE  ReconcileGoal
<1>1. /\ DOMAIN rc = RcFields /\ rc.pc = "delete" /\ lock = "reconcile" /\ ~Alive /\ rc.left \subseteq GroupsToPublish
      /\ Recovered \in objects \ rc.delete
      /\ rc.delete \subseteq manifests[Group].superseded
    BY DEF DeleteStale, ReconcileOK, RcFields
<1>2. /\ Group \in DOMAIN manifests /\ Group \in GroupsToPublish /\ Recovered.group = Group
    BY <1>1, ReplacementFacts
<1>3. PICK o \in rc.delete :
        \/ objects' = objects \ {o} /\ rc' = [rc EXCEPT !.delete = rc.delete \ {o}]
        \/ objects' = objects /\ rc' = [rc EXCEPT !.delete = rc.delete \ {o}, !.failed = rc.failed + 1]
    BY DEF DeleteStale
<1>4. PICK D, n : D = rc.delete \ {o} /\ n = rc.failed + 1
    OBVIOUS
<1>5. /\ DOMAIN rc' = RcFields /\ rc'.pc = "delete" /\ rc'.left = rc.left /\ rc'.delete = D /\ rc'.group = rc.group
      /\ \/ rc'.failed = rc.failed /\ objects' = objects \ {o}
         \/ rc'.failed = n /\ objects' = objects
    BY <1>1, <1>3, <1>4 DEF RcFields
<1>6. UNCHANGED manifests /\ lock' = "reconcile"
    BY <1>1 DEF DeleteStale
<1>7. StoreOK' /\ StoreSafe
    <2>1. CASE objects' = objects \ {o}
        <3>1. o \in manifests[Group].superseded
            BY <1>1
        <3> QED
            BY <1>2, <1>6, <2>1, <3>1, DeleteStep DEF Still
    <2>2. CASE objects' = objects
        <3>1. UNCHANGED storeVars /\ Ever' = Ever /\ cut' = cut /\ profile' = profile
            BY <1>6, <2>2, FiledKept DEF Still
        <3> QED
            BY <3>1, StoreKept
    <2> QED
        BY <1>5, <2>1, <2>2
<1>8. GroupsToPublish' = GroupsToPublish /\ Alive' = Alive /\ Group' = Group /\ Recovered' = Recovered
    BY <1>5, StillFacts
<1>9. ReconcileOK'
    <2>1. Recovered \in objects' \ D /\ D \subseteq manifests'[Group].superseded
        BY <1>1, <1>4, <1>5, <1>6
    <2> QED
        BY <1>1, <1>2, <1>5, <1>6, <1>8, <2>1 DEF ReconcileOK, RcFields, Replacing
<1>10. ReplacedOK'
    <2>1. rc.failed \in Nat
        BY <1>1 DEF ReplacedOK
    <2>2. CASE rc'.failed = n
        <3>1. rc'.failed \in Nat /\ rc'.failed # 0
            BY <1>4, <2>1, <2>2
        <3> QED
            BY <1>5, <3>1 DEF ReplacedOK
    <2>3. CASE rc'.failed = rc.failed /\ objects' = objects \ {o}
        <3>1. o.group = Group
            BY <1>1, <1>2 DEF StoreOK, InScope
        <3>2. rc.failed = 0 => \A p \in objects : p.group = Group => p = Recovered \/ p \in rc.delete
            BY <1>1 DEF ReplacedOK
        <3>3. rc'.failed = 0 => \A p \in objects' : p.group = Group => p = Recovered \/ p \in rc'.delete
            BY <1>4, <1>5, <2>3, <3>2
        <3> QED
            BY <1>1, <1>5, <2>3, <3>1, <3>3, DoneKept
    <2> QED
        BY <1>5, <2>2, <2>3
<1> QED
    BY <1>7, <1>9, <1>10 DEF ReconcileGoal

\* A group is done: when nothing failed, its one object is all there is of it.
LEMMA GroupReplacedStep ==
    ASSUME ClockKeepsUp, IngestInv, InLine, StoreOK, ReconcileOK, ReplacedOK, GroupReplaced, Still
    PROVE  /\ ReconcileGoal
           /\ (rc.failed = 0 /\ rc'.pc = "off") =>
                 \A g \in GroupsToPublish :
                    Replacement(g) \in objects /\ \A o \in objects : o.group = g => o = Replacement(g)
<1>1. /\ DOMAIN rc = RcFields /\ rc.pc = "delete" /\ rc.delete = {} /\ lock = "reconcile" /\ ~Alive
      /\ rc.left \subseteq GroupsToPublish /\ Recovered \in objects
    BY DEF GroupReplaced, ReconcileOK, RcFields
<1>2. UNCHANGED storeVars /\ Ever' = Ever /\ cut' = cut /\ profile' = profile
    BY FiledKept DEF GroupReplaced, Still
<1>3. StoreOK' /\ StoreSafe
    BY <1>2, StoreKept
<1>4. Recovered = Replacement(Group)
    BY <1>1, ReplacementFacts
<1>5. rc.failed \in Nat /\ (rc.failed = 0 => \A o \in objects : o.group = Group => o = Recovered)
    BY <1>1 DEF ReplacedOK
<1>6. rc.failed = 0 => \A g \in GroupsToPublish \ rc.left :
            Replacement(g) \in objects /\ \A o \in objects : o.group = g => o = Replacement(g)
    <2>1. rc.failed = 0 => \A g \in GroupsToPublish \ rc.left :
            g # Group => Replacement(g) \in objects /\ \A o \in objects : o.group = g => o = Replacement(g)
        BY <1>1 DEF ReplacedOK
    <2> QED
        BY <1>1, <1>4, <1>5, <2>1
<1>7. GroupsToPublish' = GroupsToPublish /\ Alive' = Alive /\ \A h : Replacement(h)' = Replacement(h)
    BY StillFacts
<1>8. CASE rc.left # {} /\ rc' = [rc EXCEPT !.pc = "list"] /\ lock' = lock
    <2>1. DOMAIN rc' = RcFields /\ rc'.pc = "list" /\ rc'.left = rc.left /\ rc'.failed = rc.failed
        BY <1>1, <1>8 DEF RcFields
    <2>2. ReconcileOK'
        BY <1>1, <1>7, <1>8, <2>1 DEF ReconcileOK, RcFields, Replacing
    <2>3. ReplacedOK'
        BY <1>2, <1>5, <1>6, <1>7, <2>1 DEF ReplacedOK
    <2> QED
        BY <1>3, <2>1, <2>2, <2>3 DEF ReconcileGoal
<1>9. CASE rc.left = {} /\ rc' = NotReconciling
    <2>1. DOMAIN rc' = RcFields /\ rc'.pc = "off"
        BY <1>9 DEF NotReconciling, RcFields
    <2>2. ReconcileOK' /\ ReplacedOK'
        BY <2>1 DEF ReconcileOK, ReplacedOK, RcFields
    <2> QED
        BY <1>3, <1>6, <1>9, <2>2 DEF ReconcileGoal
<1> QED
    BY <1>8, <1>9 DEF GroupReplaced

\* What is stored is left as it is.
LEMMA ReconcileAbortsStep ==
    ASSUME StoreOK, ReconcileAborts, Still
    PROVE  ReconcileGoal
<1>1. UNCHANGED storeVars /\ Ever' = Ever /\ cut' = cut /\ profile' = profile
    BY FiledKept DEF ReconcileAborts, Still
<1>2. StoreOK' /\ StoreSafe
    BY <1>1, StoreKept
<1>3. DOMAIN rc' = RcFields /\ rc'.pc = "off"
    BY DEF ReconcileAborts, NotReconciling, RcFields
<1>4. ReconcileOK' /\ ReplacedOK'
    BY <1>3 DEF ReconcileOK, ReplacedOK, RcFields
<1> QED
    BY <1>2, <1>4 DEF ReconcileGoal

\* Reconcile: no record moves, for no ingest is alive to move one.
LEMMA ReconcileStep ==
    ASSUME Operated, ClockKeepsUp, IngestInv, InLine, Fresh, StoreOK, ReconcileOK, ReplacedOK, ReconcileNext
    PROVE  InLine' /\ Fresh' /\ ReconcileGoal
<1>1. UNCHANGED << log, flushed, synced, torn, mainVars, sourceVars, drainVars, sinkVars, ghosts, profile, starts >>
    BY DEF ReconcileNext
<1>2. Still
    BY <1>1 DEF Still
<1>3. Passing' = Passing /\ Alive' = Alive
    BY <1>1 DEF Passing, Alive
<1>4. InLine'
    BY <1>1, <1>3, LineKept
<1>5. Fresh'
    <2>1. CASE ReconcileStart
        <3>1. UNCHANGED storeVars
            BY <2>1 DEF ReconcileStart
        <3> QED
            BY <1>1, <1>3, <3>1, FreshKept
    <2>2. CASE rc.pc # "off"
        <3>1. ~Alive
            BY <2>2 DEF ReconcileOK
        <3>2. sinkq' = << >> /\ sink'.buffer = << >> /\ Passing' = {}
            BY <1>1, <1>3, <3>1 DEF InLine, IngestInv, AtRest, Passing
        <3> QED
            BY <3>2, NoRange DEF Fresh
    <2> QED
        BY <2>1, <2>2 DEF ReconcileNext, ListGroup, PutStaged, PublishStaged, PutRecovered, PublishRecovered,
             DeleteStale, GroupReplaced, ReconcileAborts
<1>6. ReconcileGoal
    BY <1>2, ReconcileStartStep, ListGroupStep, PutStagedStep, PublishStagedStep, PutRecoveredStep,
       PublishRecoveredStep, DeleteStaleStep, GroupReplacedStep, ReconcileAbortsStep DEF ReconcileNext
<1> QED
    BY <1>4, <1>5, <1>6

-----------------------------------------------------------------------------
(***************************************************************************)
(* All steps together.                                                     *)
(***************************************************************************)
LEMMA IngestStore ==
    ASSUME IngestInv, InLine, Fresh, StoreOK, IngestNext \/ RotationReturns \/ UNCHANGED ingestVars
    PROVE  InLine' /\ Fresh' /\ StoreOK' /\ StoreSafe
<1>1. CASE FlushGroup
    BY <1>1, FlushGroupLine, FlushGroupStore
<1>2. CASE OpenRefused \/ Join \/ JoinTimeout \/ Crash
    BY <1>2, GoneLine, StoreKept
<1>3. CASE DrainReceive
    <2>1. UNCHANGED << profile, storeVars, cut, pruned >>
        BY <1>3 DEF DrainReceive
    <2>2. log \in Seq(Nat) /\ evq \in Seq(Nat) /\ evq # << >>
        BY <1>3 DEF IngestInv, Sizes, DrainReceive
    <2>3. PICK i \in Nat : i = Head(evq)
        BY <2>2, TailRange
    <2>4. log' = log \/ log' = Append(log, i)
        BY <1>3, <2>3 DEF DrainReceive, AppendToWal, DropUnencoded, AppendFails
    <2>5. Range(log) \subseteq Range(log')
        BY <2>2, <2>4, AppendRange
    <2> QED
        BY <1>3, <2>1, <2>5, ReceiveLine, StoreKept DEF Ever
<1>4. CASE DrainPrune
    <2>1. UNCHANGED << profile, storeVars, cut >> /\ log' = Tail(log) /\ pruned' = pruned \cup {Head(log)}
        BY <1>4 DEF DrainPrune
    <2>2. log \in Seq(Nat) /\ log # << >>
        BY <1>4 DEF IngestInv, Sizes, DrainPrune
    <2>3. Range(log) = Range(log') \cup {Head(log)}
        BY <2>1, <2>2, TailRange
    <2>4. Ever \subseteq Ever'
        BY <2>1, <2>3 DEF Ever
    <2> QED
        BY <1>4, <2>1, <2>4, PruneLine, StoreKept
<1>5. CASE Emit \/ DrainPass \/ SinkReceive \/ FlushDone
    <2>1. UNCHANGED << profile, storeVars, log, cut, pruned >>
        BY <1>5 DEF Emit, DrainPass, SinkReceive, FlushDone
    <2> QED
        BY <1>5, <2>1, EmitLine, PassLine, SinkReceiveLine, FlushDoneLine, StoreKept DEF Ever
<1>6. CASE \/ StartIngest \/ OpenWal \/ AskToStop \/ FeedStops \/ ProducerStops \/ DrainFlush \/ DrainSync
           \/ DrainEnds \/ DrainCloses \/ SinkFlush \/ SinkEnds \/ FlushFails
           \/ FeedReturns \/ TaskExits \/ FeedAwaited \/ RotationReturns \/ UNCHANGED ingestVars
    <2>1. UNCHANGED << profile, storeVars, log, cut, pruned >>
        BY <1>6 DEF StartIngest, OpenWal, AskToStop, FeedStops, ProducerStops, DrainFlush, DrainSync,
             DrainEnds, DrainCloses, SinkFlush, SinkEnds, FlushFails, FeedReturns, TaskExits, FeedAwaited,
             RotationReturns, ingestVars
    <2> QED
        BY <1>6, <2>1, QuietLine, StoreKept DEF Ever
<1> QED
    BY <1>1, <1>2, <1>3, <1>4, <1>5, <1>6 DEF IngestNext, Tasks

\* While reconcile works ingest does nothing but wait.
LEMMA IngestWaits ==
    ASSUME IngestInv, InLine, ReconcileOK, rc.pc # "off", IngestNext \/ RotationReturns \/ UNCHANGED ingestVars
    PROVE  UNCHANGED << profile, log, cut, pruned, lock, objects, manifests >> /\ ~Alive'
<1>1. /\ lock = "reconcile" /\ ~Alive /\ feed = "off" /\ drain.pc = "off"
      /\ sinkq = << >> /\ sink.buffer = << >> /\ sink.pc \in {"off", "receiving"}
    BY DEF ReconcileOK, InLine, IngestInv, AtRest
<1>2. ~(\/ Emit \/ FeedStops \/ RotationReturns)
    BY <1>1 DEF Emit, FeedStops, RotationReturns
<1>3. ~(\/ DrainReceive \/ DrainPass \/ DrainFlush \/ DrainSync \/ DrainPrune \/ DrainEnds \/ DrainCloses)
    BY <1>1 DEF DrainReceive, DrainPass, DrainFlush, DrainSync, DrainPrune, DrainEnds, DrainCloses
<1>4. ~(\/ SinkReceive \/ SinkFlush \/ SinkEnds \/ FlushGroup \/ FlushDone \/ FlushFails)
    BY <1>1 DEF SinkReceive, SinkFlush, SinkEnds, FlushGroup, FlushDone, FlushFails, ChannelClosed
<1>5. ~(\/ OpenWal \/ AskToStop \/ FeedReturns \/ TaskExits \/ FeedAwaited \/ Join \/ JoinTimeout \/ Crash)
    BY <1>1 DEF OpenWal, AskToStop, FeedReturns, TaskExits, FeedAwaited, Join, JoinTimeout, Crash, Alive
<1>6. StartIngest \/ ProducerStops \/ OpenRefused \/ UNCHANGED ingestVars
    BY <1>2, <1>3, <1>4, <1>5 DEF IngestNext, Tasks
<1>7. CASE StartIngest
    BY <1>7 DEF StartIngest, Alive
<1>8. CASE ProducerStops
    BY <1>1, <1>8 DEF ProducerStops, Alive
<1>9. CASE OpenRefused
    BY <1>1, <1>9 DEF OpenRefused, Gone, Alive
<1>10. CASE UNCHANGED ingestVars
    BY <1>1, <1>10 DEF ingestVars, Alive
<1> QED
    BY <1>6, <1>7, <1>8, <1>9, <1>10

\* Nor does what reconcile relies on change.
LEMMA ReconcileWaits ==
    ASSUME IngestInv, InLine, ReconcileOK, ReplacedOK, rc' = rc,
           IngestNext \/ RotationReturns \/ UNCHANGED ingestVars
    PROVE  ReconcileOK' /\ ReplacedOK'
<1>1. CASE rc.pc = "off"
    BY <1>1 DEF ReconcileOK, ReplacedOK
<1>2. CASE rc.pc # "off"
    <2>1. UNCHANGED << profile, log, cut, pruned, lock, objects, manifests >> /\ ~Alive'
        BY <1>2, IngestWaits
    <2>2. /\ GroupsToPublish' = GroupsToPublish /\ \A g : Replacement(g)' = Replacement(g)
          /\ Group' = Group /\ Staged' = Staged /\ Recovered' = Recovered
        BY <2>1, LogFacts DEF Group
    <2>3. Known' = Known
        BY <2>1 DEF Known, Mentioned
    <2>4. ReconcileOK'
        BY <2>1, <2>2, <2>3 DEF ReconcileOK
    <2>5. ReplacedOK'
        BY <2>1, <2>2 DEF ReplacedOK
    <2> QED
        BY <2>4, <2>5
<1> QED
    BY <1>1, <1>2

\* Every step preserves the invariant, and takes no row out of sight.
LEMMA HistoryStep ==
    ASSUME Operated, ClockKeepsUp, IngestInv, HistoryInv, [Next]_vars
    PROVE  HistoryInv' /\ StoreSafe
<1>1. InLine /\ Fresh /\ StoreOK /\ ReconcileOK /\ ReplacedOK /\ ReaderOK
    BY DEF HistoryInv
<1>2. CASE (IngestNext \/ RotationReturns \/ UNCHANGED ingestVars) /\ UNCHANGED << reconcileVars, readerVars >>
    <2>1. InLine' /\ Fresh' /\ StoreOK' /\ StoreSafe
        BY <1>1, <1>2, IngestStore
    <2>2. ReconcileOK' /\ ReplacedOK'
        BY <1>1, <1>2, ReconcileWaits DEF reconcileVars
    <2>3. ReaderOK'
        BY <1>1, <1>2, <2>1, ReaderKept
    <2> QED
        BY <2>1, <2>2, <2>3 DEF HistoryInv
<1>3. CASE ReconcileNext /\ UNCHANGED readerVars
    <2>1. InLine' /\ Fresh' /\ ReconcileGoal
        BY <1>1, <1>3, ReconcileStep
    <2>2. ReaderOK'
        BY <1>1, <1>3, <2>1, ReaderKept DEF ReconcileGoal
    <2> QED
        BY <2>1, <2>2 DEF HistoryInv, ReconcileGoal
<1>4. CASE ReaderNext /\ UNCHANGED << ingestVars, reconcileVars >>
    <2>1. InLine' /\ Fresh' /\ StoreOK' /\ StoreSafe
        BY <1>1, <1>4, IngestStore
    <2>2. ReconcileOK' /\ ReplacedOK'
        BY <1>1, <1>4, ReconcileWaits DEF reconcileVars
    <2>3. ReaderOK'
        BY <1>1, <1>4, ReaderMoves
    <2> QED
        BY <2>1, <2>2, <2>3 DEF HistoryInv
<1> QED
    BY <1>2, <1>3, <1>4 DEF Next, vars, IngestStep

\* Nothing is stored yet.
LEMMA HistoryInit ==
    ASSUME Init
    PROVE  HistoryInv
<1> USE DEF Init, IngestInit
<1>1. Known = {} /\ Ever = {} /\ emitted = 0 /\ Range(evq) = {} /\ Passing = {}
    <2>1. \A g \in DOMAIN manifests : Mentioned(g) = {}
        BY DEF Mentioned, NoManifest
    <2> QED
        BY <2>1, NoRange DEF Known, Ever, Passing
<1>2. InLine
    <2>1. 0 <= Len(Script)
        BY ScriptLength
    <2>2. ~Alive /\ sink.buffer = << >> /\ sink.pc = "off"
        BY DEF Alive, NoSink
    <2> QED
        BY <1>1, <2>1, <2>2, NoRange, NothingAscends DEF InLine
<1>3. Fresh
    BY <1>1 DEF Fresh
<1>4. StoreOK
    <2>1. \A g \in DOMAIN manifests : manifests[g].active = {} /\ manifests[g].superseded = {}
        BY DEF NoManifest
    <2>2. \A g : Listing(g, "normal") = {}
        BY DEF Listing
    <2>3. Disjoint({})
        BY DEF Disjoint
    <2>4. \A g \in DOMAIN manifests : Resolve(Listing(g, "normal"), manifests[g]) = {}
        BY <2>1, <2>2 DEF Resolve
    <2>5. DOMAIN manifests = {GroupOf(r) : r \in Range(Script)}
        OBVIOUS
    <2> QED
        BY <1>1, <2>1, <2>3, <2>4, <2>5 DEF StoreOK, InScope
<1>5. ReconcileOK /\ ReplacedOK
    BY DEF ReconcileInit, NotReconciling, ReconcileOK, ReplacedOK
<1>6. ReaderOK
    BY DEF NotReading, ReaderOK
<1> QED
    BY <1>2, <1>3, <1>4, <1>5, <1>6 DEF HistoryInv

\* The invariant of what is stored and read holds in every state, where reconcile runs
\* offline and the times of reception do not go back.
THEOREM StoreInvariant == Operated /\ ClockKeepsUp => (Spec => [](IngestInv /\ HistoryInv))
<1> SUFFICES ASSUME Operated, ClockKeepsUp PROVE Spec => [](IngestInv /\ HistoryInv)
    OBVIOUS
<1>1. Init => IngestInv /\ HistoryInv
    BY InitInv, HistoryInit
<1>2. (IngestInv /\ HistoryInv) /\ [Next]_vars => (IngestInv /\ HistoryInv)'
    BY NextStep, HistoryStep
<1> QED
    BY <1>1, <1>2, PTL DEF Spec

\* A read sees each row of its group once, and every row that was in sight when it began
\* but for what a crash cut off the WAL (read_dataset_with_view_retry, dataset_files):
\* whatever it listed, the manifest of any later moment makes of it a whole generation.
THEOREM ReadIsOneGenerationAlways == Operated /\ ClockKeepsUp => (Spec => []ReadIsOneGeneration)
<1> SUFFICES ASSUME Operated, ClockKeepsUp PROVE Spec => []ReadIsOneGeneration
    OBVIOUS
<1>1. ASSUME HistoryInv PROVE ReadIsOneGeneration
    <2> SUFFICES ASSUME reader.pc = "files", reader.left = {}
                 PROVE  Disjoint(reader.files) /\ reader.since \subseteq RowsIn(reader.files) \cup cut
        BY DEF ReadIsOneGeneration
    <2>1. reader.left \cup reader.files = reader.files
        OBVIOUS
    <2> QED
        BY <1>1, <2>1 DEF HistoryInv, ReaderOK
<1> QED
    BY <1>1, StoreInvariant, PTL

\* Staging, publishing, promoting and deleting (replace_group), a flush of the sink, a
\* kill between any two of them: no row in sight goes out of sight but for what a crash
\* cut off the WAL.
THEOREM ViewNeverLosesAlways == Operated /\ ClockKeepsUp => (Spec => ViewNeverLoses)
<1> SUFFICES ASSUME Operated, ClockKeepsUp PROVE Spec => ViewNeverLoses
    OBVIOUS
<1>1. (IngestInv /\ HistoryInv) /\ [Next]_vars => [\A g \in DOMAIN manifests : View(g) \subseteq View(g)' \cup cut']_vars
    BY HistoryStep DEF StoreSafe
<1> QED
    BY <1>1, StoreInvariant, PTL DEF Spec, ViewNeverLoses

\* Once reconcile ends well the one object of every complete hour has the rows of the
\* WAL, and nothing else of the hour is left, superseded or staged: a scan that knows no
\* manifest is right.
LEMMA ReplacedAll ==
    ASSUME Operated, ClockKeepsUp, IngestInv, HistoryInv, [Next]_vars,
           rc.pc # "off", rc'.pc = "off", outcome' = "ok", NEW g \in GroupsToPublish
    PROVE  /\ Disjoint(Listing(g, "normal"))'
           /\ RowsIn(Listing(g, "normal"))' = {i \in RecordsToPublish : GroupOf(Script[i]) = g}
           /\ Listing(g, "recovery")' = {}
<1>1. InLine /\ StoreOK /\ ReconcileOK /\ ReplacedOK
    BY DEF HistoryInv
<1>2. ReconcileNext
    <2>1. rc' # rc
        OBVIOUS
    <2> QED
        BY <2>1 DEF Next, vars, reconcileVars
<1>3. Still
    BY <1>2 DEF ReconcileNext, mainVars, ghosts, Still
<1>4. GroupReplaced
    <2>1. DOMAIN rc = RcFields /\ lock = "reconcile"
        BY <1>1 DEF ReconcileOK, RcFields
    <2>2. ~ReconcileStart /\ ~ReconcileAborts
        BY <2>1 DEF ReconcileStart, ReconcileAborts
    <2>3. ~ListGroup /\ ~PutStaged /\ ~PutRecovered
        BY <2>1 DEF RcFields, ListGroup, PutStaged, PutRecovered
    <2>4. ~PublishStaged /\ ~PublishRecovered
        BY <2>1 DEF RcFields, PublishStaged, PublishRecovered
    <2>5. ~DeleteStale
        BY <2>1 DEF RcFields, DeleteStale
    <2> QED
        BY <1>2, <2>2, <2>3, <2>4, <2>5 DEF ReconcileNext
<1>5. rc.failed = 0 /\ objects' = objects
    <2>1. rc.failed \in Nat
        BY <1>1 DEF ReplacedOK
    <2>2. ~(rc.failed > 0)
        <3>1. CASE rc.left # {}
            <4>1. rc' = [rc EXCEPT !.pc = "list"] /\ DOMAIN rc = RcFields
                BY <1>1, <1>4, <3>1 DEF GroupReplaced, ReconcileOK, RcFields
            <4> QED
                BY <4>1 DEF RcFields
        <3>2. CASE rc.left = {}
            BY <1>4, <3>2 DEF GroupReplaced
        <3> QED
            BY <3>1, <3>2
    <2>3. objects' = objects
        BY <1>4 DEF GroupReplaced, storeVars
    <2> QED
        BY <2>1, <2>2, <2>3
<1>6. Replacement(g) \in objects /\ \A o \in objects : o.group = g => o = Replacement(g)
    BY <1>1, <1>3, <1>4, <1>5, GroupReplacedStep
<1>7. PICK r : r = Replacement(g)
    OBVIOUS
<1>8. r.place = "normal" /\ r.group = g /\ r.rows = RowsOf(log, g)
    BY <1>7 DEF Replacement, Object
<1>9. Listing(g, "normal")' = {r} /\ Listing(g, "recovery")' = {}
    BY <1>5, <1>6, <1>7, <1>8 DEF Listing
<1>10. /\ r.rows \in Seq(Nat) /\ Ascending(r.rows)
       /\ Range(r.rows) = {x \in Range(log) : GroupOf(Script[x]) = g}
    BY <1>1, <1>8, WalHasAll
<1>11. Range(r.rows) = {i \in RecordsToPublish : GroupOf(Script[i]) = g}
    <2>1. PICK y \in RecordsToPublish : GroupOf(Script[y]) = g
        BY DEF GroupsToPublish
    <2>2. emitted \in Nat
        BY DEF IngestInv, Sizes
    <2>3. \A x \in Range(log) : x \in 1 .. emitted
        BY <1>1 DEF InLine, Ever
    <2>4. y \in Range(log) /\ Supported(y) /\ CompleteHour(HourOf(Script[y].at))
        BY <2>1 DEF RecordsToPublish
    <2>5. ASSUME NEW x \in Range(log), GroupOf(Script[x]) = g PROVE x \in RecordsToPublish
        <3>1. Supported(x) /\ HourOf(Script[x].at) = HourOf(Script[y].at)
            BY <1>1, <2>1, <2>2, <2>3, <2>4, <2>5, GroupFacts
        <3> QED
            BY <2>4, <3>1 DEF RecordsToPublish
    <2> QED
        BY <1>10, <2>5 DEF RecordsToPublish
<1>12. Disjoint({r}) /\ RowsIn({r}) = Range(r.rows)
    BY <1>10, OneObject
<1> QED
    BY <1>9, <1>11, <1>12 DEF Disjoint, RowsIn

\* A reconcile that ends well (reconcile, replace_group) leaves each complete hour, as the
\* WAL has it, to a scan of the normal objects, and no staged object.
THEOREM DirectScanSafeAlways == Operated /\ ClockKeepsUp => (Spec => DirectScanSafe)
<1> SUFFICES ASSUME Operated, ClockKeepsUp PROVE Spec => DirectScanSafe
    OBVIOUS
<1>1. (IngestInv /\ HistoryInv) /\ [Next]_vars =>
        [(rc.pc # "off" /\ rc'.pc = "off" /\ outcome' = "ok") =>
            \A g \in GroupsToPublish :
                /\ Disjoint(Listing(g, "normal"))'
                /\ RowsIn(Listing(g, "normal"))' = {i \in RecordsToPublish : GroupOf(Script[i]) = g}
                /\ Listing(g, "recovery")' = {}]_vars
    BY ReplacedAll
<1> QED
    BY <1>1, StoreInvariant, PTL DEF Spec, DirectScanSafe

\* An hour that reconcile replaces is retained as a whole (contains_complete_hour): nothing
\* of it was pruned.
THEOREM WholeHoursOnlyAlways == Operated /\ ClockKeepsUp => (Spec => []WholeHoursOnly)
<1> SUFFICES ASSUME Operated, ClockKeepsUp PROVE Spec => []WholeHoursOnly
    OBVIOUS
<1>1. IngestInv /\ HistoryInv => WholeHoursOnly
    BY NothingPruned DEF HistoryInv, WholeHoursOnly
<1> QED
    BY <1>1, StoreInvariant, PTL

\* While reconcile holds the lock of the WAL only reconcile changes the objects of the
\* store: where it runs offline, no sink is left to flush.
THEOREM AloneInTheStoreAlways == Operated /\ ClockKeepsUp => (Spec => AloneInTheStore)
<1> SUFFICES ASSUME Operated, ClockKeepsUp PROVE Spec => AloneInTheStore
    OBVIOUS
<1>1. ASSUME IngestInv, HistoryInv, [Next]_vars, rc.pc # "off", rc' = rc PROVE objects' = objects
    <2>1. InLine /\ ReconcileOK
        BY <1>1 DEF HistoryInv
    <2>2. CASE IngestNext \/ RotationReturns \/ UNCHANGED ingestVars
        BY <1>1, <2>1, <2>2, IngestWaits
    <2>3. CASE ReconcileNext
        <3>1. DOMAIN rc = RcFields /\ lock = "reconcile"
            BY <1>1, <2>1 DEF ReconcileOK, RcFields
        <3>2. ~ReconcileStart
            BY <3>1 DEF ReconcileStart
        <3>3. ~PutStaged /\ ~PutRecovered
            BY <1>1, <3>1 DEF RcFields, PutStaged, PutRecovered
        <3>4. CASE DeleteStale
            <4>1. PICK o \in rc.delete : rc'.delete = rc.delete \ {o}
                BY <3>1, <3>4 DEF DeleteStale, RcFields
            <4> QED
                BY <1>1, <4>1
        <3> QED
            BY <2>3, <3>2, <3>3, <3>4 DEF ReconcileNext, ListGroup, PublishStaged, PublishRecovered, GroupReplaced,
                 ReconcileAborts
    <2> QED
        BY <1>1, <2>2, <2>3 DEF Next, vars, IngestStep
<1>2. (IngestInv /\ HistoryInv) /\ [Next]_vars => [rc.pc # "off" /\ rc' = rc => UNCHANGED objects]_vars
    BY <1>1
<1> QED
    BY <1>2, StoreInvariant, PTL DEF Spec, AloneInTheStore
================================================================================
