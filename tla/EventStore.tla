----------------------------- MODULE EventStore -----------------------------
(***************************************************************************)
(* Crate store: a bounded buffer of recent events.  record, the anchors of *)
(* ingest and evict_idle_content run under one write lock; their loops are *)
(* one step per evicted event, so that other tasks run in between, but     *)
(* nothing else takes the lock until the last step has freed it.           *)
(*                                                                         *)
(* The deque is the entries of recorded, all there ever were, at the       *)
(* positions in retained: push_back appends, remove takes a position out.  *)
(***************************************************************************)
EXTENDS Integers, Sequences, FiniteSets

CONSTANTS
    Threads,          \* thread ids
    None,             \* no thread: of an event, or asked for in a query
    PerThreadBytes, GlobalBytes, Retention

ASSUME NoneIsNoThread == None \notin Threads
ASSUME LocksAreNoThreads == Threads \cap {"free", "expiring", "capping"} = {}
ASSUME StoreLimits ==
    PerThreadBytes \in Nat /\ GlobalBytes \in Nat /\ Retention \in Nat

Kinds == {"turn/started", "lifecycle", "delta"}
Entries == [sequence : Nat, thread : Threads \cup {None}, kind : Kinds,
            size : Nat, time : Nat, reconstructed : BOOLEAN]

VARIABLES
    recorded,       \* every entry that was pushed, in order
    retained,       \* the positions of those still held
    bytes, threadBytes,
    gaps,           \* per thread, and for events of no thread: what was evicted
    lock            \* "free", the pruning loop under way, or the idle thread evicted

storeVars == <<recorded, retained, bytes, threadBytes, gaps, lock>>

NoGap == [before |-> 0, deltas |-> 0, lifecycle |-> 0]
Gaps == [before : Nat, deltas : Nat, lifecycle : Nat]

StoreTypeOK ==
    /\ recorded \in Seq(Entries)
    /\ retained \subseteq DOMAIN recorded
    /\ bytes \in Nat /\ threadBytes \in [Threads -> Nat]
    /\ gaps \in [Threads \cup {None} -> Gaps]
    /\ lock \in {"free", "expiring", "capping"} \cup Threads

StoreInit ==
    /\ recorded = <<>> /\ retained = {} /\ bytes = 0
    /\ threadBytes = [t \in Threads |-> 0]
    /\ gaps = [k \in Threads \cup {None} |-> NoGap]
    /\ lock = "free"

Add(t, n) == IF t = None THEN threadBytes ELSE [threadBytes EXCEPT ![t] = @ + n]
Monus(m, n) == IF m < n THEN 0 ELSE m - n

\* record_locked, up to its call of prune_locked.
Record(e) ==
    /\ lock = "free"
    /\ recorded' = Append(recorded, e)
    /\ retained' = retained \cup {Len(recorded) + 1}
    /\ bytes' = bytes + e.size
    /\ threadBytes' = Add(e.thread, e.size)
    /\ lock' = "expiring"
    /\ UNCHANGED gaps

\* The anchor is dropped if the genuine turn/started is still held.  Which turn an
\* event is of is left out: one that is held may be of that turn or of another.
RecordReconstructed(e) ==
    \/ Record(e)
    \/ /\ \E i \in retained : /\ recorded[i].thread = e.thread
                               /\ recorded[i].kind = "turn/started"
                               /\ ~recorded[i].reconstructed
       /\ lock = "free" /\ UNCHANGED storeVars

\* Mutant: the gap ends at the event evicted last.
WidenedToLast(gap, e) ==
    [before |-> e.sequence,
     deltas |-> gap.deltas + (IF e.kind = "delta" THEN 1 ELSE 0),
     lifecycle |-> gap.lifecycle + (IF e.kind = "delta" THEN 0 ELSE 1)]

\* Mutant: an anchor is not an event of the wire and is not counted.
WidenedByWire(gap, e) ==
    [before |-> IF e.sequence > gap.before THEN e.sequence ELSE gap.before,
     deltas |-> gap.deltas + (IF e.kind = "delta" THEN 1 ELSE 0),
     lifecycle |-> gap.lifecycle + (IF e.kind = "delta" \/ e.reconstructed THEN 0 ELSE 1)]

\* remove_at: the sequence of a gap is the highest evicted one, not the last.
Widened(gap, e) ==
    [before |-> IF e.sequence > gap.before THEN e.sequence ELSE gap.before,
     deltas |-> gap.deltas + (IF e.kind = "delta" THEN 1 ELSE 0),
     lifecycle |-> gap.lifecycle + (IF e.kind = "delta" THEN 0 ELSE 1)]

RemoveAt(i) ==
    LET e == recorded[i] IN
    /\ retained' = retained \ {i}
    /\ bytes' = Monus(bytes, e.size)
    /\ threadBytes' = IF e.thread = None THEN threadBytes
                      ELSE [threadBytes EXCEPT ![e.thread] = Monus(@, e.size)]
    /\ gaps' = [gaps EXCEPT ![e.thread] = Widened(@, e)]
    /\ UNCHANGED recorded

First(i, S) == i \in S /\ \A j \in S : i <= j
Last(i, S) == i \in S /\ \A j \in S : j <= i

\* The first loop of prune_locked.  The newest entry is never removed by it,
\* so the cutoff stays.
Cutoff == Monus(recorded[Len(recorded)].time, Retention)
Expired(i) == First(i, retained) /\ recorded[i].time < Cutoff

Expire ==
    /\ lock = "expiring" /\ \E i \in retained : Expired(i) /\ RemoveAt(i)
    /\ UNCHANGED lock
AllExpired ==
    /\ lock = "expiring" /\ ~\E i \in retained : Expired(i)
    /\ lock' = "capping"
    /\ UNCHANGED <<recorded, retained, bytes, threadBytes, gaps>>

\* Mutant: the limit of a thread counts only while the store is full.
PressingWhenFull ==
    LET Heavy == {t \in Threads : threadBytes[t] > PerThreadBytes} IN
    IF bytes > GlobalBytes THEN (IF Heavy # {} THEN Heavy ELSE {None}) ELSE {}

\* The second loop: some thread over its limit or, if there is none, all of
\* them; their oldest delta or, if there is none, the oldest event of anyone.
Over == {t \in Threads : threadBytes[t] > PerThreadBytes}
Pressing == IF Over # {} THEN Over ELSE IF bytes > GlobalBytes THEN {None} ELSE {}
Deltas(thread) ==
    {i \in retained : recorded[i].kind = "delta" /\ thread \in {None, recorded[i].thread}}
Victims(thread) == IF Deltas(thread) # {} THEN Deltas(thread) ELSE retained

Evict ==
    /\ lock = "capping"
    /\ \E thread \in Pressing, i \in retained : First(i, Victims(thread)) /\ RemoveAt(i)
    /\ UNCHANGED lock
Pruned ==
    /\ lock = "capping" /\ Pressing = {}
    /\ lock' = "free"
    /\ UNCHANGED <<recorded, retained, bytes, threadBytes, gaps>>

Prune == Expire \/ AllExpired \/ Evict

\* evict_idle_content, for one thread: its deltas, the newest first.  Without
\* any the call changes nothing.  No crate calls it, so EventPlane does not.
EvictIdle(t) ==
    /\ lock = "free" /\ Deltas(t) # {} /\ lock' = t
    /\ UNCHANGED <<recorded, retained, bytes, threadBytes, gaps>>
EvictIdleDelta ==
    /\ lock \in Threads
    /\ \E i \in retained : Last(i, Deltas(lock)) /\ RemoveAt(i)
    /\ lock' = IF Cardinality(Deltas(lock)) = 1 THEN "free" ELSE lock

\* A caller of the store may record anything.
StoreNext ==
    \/ \E e \in Entries : Record(e) \/ RecordReconstructed(e)
    \/ Prune \/ Pruned
    \/ (\E t \in Threads : EvictIdle(t)) \/ EvictIdleDelta

StoreSpec == StoreInit /\ [][StoreNext]_storeVars

\* query_sequence, by the positions of the events it returns; query_time looks
\* for the gap in the same way.
QuerySequence(thread, after, through) ==
    [events |-> {i \in retained : /\ recorded[i].sequence \in after + 1 .. through
                                  /\ thread \in {None, recorded[i].thread}},
     gap |-> gaps[thread]]

-----------------------------------------------------------------------------
(* Properties                                                              *)

\* Whatever the window of a query that event i was recorded for, the event is
\* returned or the gap reported reaches into the window.
Honest(thread) ==
    lock = "free" =>
        \A i \in DOMAIN recorded : thread \in {None, recorded[i].thread} =>
            \A after \in 0 .. recorded[i].sequence - 1 :
                LET answer == QuerySequence(thread, after, recorded[i].sequence)
                IN i \in answer.events
                   \/ (answer.gap # NoGap /\ after < answer.gap.before)

\* README: a query returns gap metadata instead of pretending the history is
\* complete.  Of a query about one thread it is true, though deltas, expired
\* events and other threads' victims leave in an order that is not theirs.
NamedQueriesAreHonest == \A t \in Threads : Honest(t)

\* Of a query about all threads it is not: its gap is the one of the events
\* that have no thread.
AllQueriesAreHonest == Honest(None)

\* The counts of a gap are the events missing from it, plane by plane: nothing
\* is evicted uncounted, counted twice or counted for another thread.
Missing(k) == {i \in DOMAIN recorded \ retained : recorded[i].thread = k}
EvictionsAreCounted ==
    \A k \in Threads \cup {None} :
        LET deltas == {i \in Missing(k) : recorded[i].kind = "delta"} IN
        /\ gaps[k].deltas = Cardinality(deltas)
        /\ gaps[k].lifecycle = Cardinality(Missing(k) \ deltas)

\* The bytes of the events in S, each named by its event and its place in it.
Octets(S) == UNION {{i} \X (1 .. recorded[i].size) : i \in S}
Size(S) == Cardinality(Octets(S))

\* Event store spec: the store remains within its hard limits.  Of the events
\* really held, not of the counters, whenever the lock is free.
WithinLimits ==
    lock = "free" =>
        /\ Size(retained) <= GlobalBytes
        /\ \A t \in Threads :
              Size({i \in retained : recorded[i].thread = t}) <= PerThreadBytes
=============================================================================
