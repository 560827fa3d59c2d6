----------------------------- MODULE IngestProofs -----------------------------
(***************************************************************************)
(* The snapshot keeps the entries it must, whatever operations are called  *)
(* on it; the ingestor calls no others; what the ingestor's states say is  *)
(* so in the snapshot; and at rest each turn in flight is known, or there  *)
(* is a reason for it: for any threads, turns, limits and connections.     *)
(***************************************************************************)
EXTENDS Ingest, FiniteSetTheorems, TLAPS

-----------------------------------------------------------------------------
(* The table                                                               *)

TableInv == TableTypeOK /\ EntriesAreKept

\* Every operation of the table keeps the entries that are needed.
LEMMA TableStep == ASSUME TableInv, [TableNext]_tableVars PROVE TableInv'
<1> USE DEF TableInv, TableTypeOK, EntriesAreKept, Upsert, Remove
<1>1. ASSUME NEW e \in Event, ApplyToTable(e) PROVE TableInv'
  <2>1. e.thread \in Threads /\ e.turn \in Turns \cup {None} BY DEF Event
  <2>2. TurnAfter(e) \in Turns \cup {None} BY <2>1 DEF TurnAfter
  <2> QED BY <1>1, <2>1, <2>2 DEF ApplyToTable
<1>2. ASSUME NEW t \in Threads, BeginSubscription(t) PROVE TableInv'
  BY <1>2 DEF BeginSubscription
<1>3. ASSUME NEW t \in Threads, FinishSubscription(t) PROVE TableInv'
  BY <1>3 DEF FinishSubscription
<1>4. ASSUME NEW t \in Threads, CancelSubscription(t) PROVE TableInv'
  BY <1>4 DEF CancelSubscription
<1>5. ASSUME NEW t \in Threads, Unsubscribe(t) PROVE TableInv'
  BY <1>5 DEF Unsubscribe
<1>6. ASSUME NEW t \in Threads, NEW u \in Turns \cup {None}, ReconcileThread(t, u)
      PROVE TableInv'
  BY <1>6 DEF ReconcileThread
<1>7. CASE EvictIdle BY <1>7 DEF EvictIdle
<1>8. CASE UNCHANGED tableVars BY <1>8 DEF tableVars
<1> QED BY <1>1, <1>2, <1>3, <1>4, <1>5, <1>6, <1>7, <1>8 DEF TableNext

\* The table alone, under any calls, set_subscribed(false) and evict_idle
\* included, which nothing calls today.
THEOREM TableKeepsEntries == TableSpec => []EntriesAreKept
<1>1. TableInit => TableInv BY DEF TableInit, TableInv, TableTypeOK, EntriesAreKept
<1>2. TableInv /\ [TableNext]_tableVars => TableInv' BY TableStep
<1>3. TableInv => EntriesAreKept BY DEF TableInv
<1> QED BY <1>1, <1>2, <1>3, PTL DEF TableSpec

-----------------------------------------------------------------------------
(* Types                                                                   *)

\* The pass looks at a thread while it is between its list and its end.
CurInv == pass \in {"read", "answered", "discover", "join"} => cur \in Threads

\* A daemon's answer about a thread is one of the turns, or none.
LEMMA RunningType == \A t \in Threads : Running(t) \in Turns \cup {None}
BY DEF Running

\* Notes that concern a thread are events.
LEMMA NoteType ==
  ASSUME NEW t \in Threads, NEW u \in Turns \cup {None},
         NEW k \in {"signal", "idle", "turn/started", "turn/completed"}
  PROVE  Note(k, t, u) \in Event
BY DEF Note, Event

\* Going on to the next thread of a list, or ending the pass.
LEMMA AdvanceType ==
  ASSUME NEW rest \in SUBSET Threads, Advance(rest), due \in BOOLEAN, booted \in BOOLEAN
  PROVE  /\ pass' \in {"idle", "read"} /\ found' \in SUBSET Threads
         /\ cur' \in Threads \cup {None} /\ due' \in BOOLEAN /\ booted' \in BOOLEAN
         /\ pass' = "read" => cur' \in Threads
BY DEF Advance

\* The check of discover leaves well-typed states behind.
LEMMA EnterType ==
  ASSUME TypeOK, NEW t \in Threads, Enter(t)
  PROVE  /\ states' \in [Threads -> Settled \cup Retained]
         /\ pc' \in [Threads -> {"idle", "begin", "resume", "resumed", "retry",
                                 "read", "answered"}]
BY DEF Enter, TypeOK, Settled, Retained

\* A counter of a thread goes up, and down while it is above zero.
LEMMA Counting ==
  ASSUME NEW f \in [Threads -> Nat], NEW t \in Threads
  PROVE  /\ [f EXCEPT ![t] = @ + 1] \in [Threads -> Nat]
         /\ f[t] > 0 => [f EXCEPT ![t] = @ - 1] \in [Threads -> Nat]
<1>1. f[t] \in Nat /\ f[t] + 1 \in Nat /\ (f[t] > 0 => f[t] - 1 \in Nat) OBVIOUS
<1> QED BY <1>1, Zenon

\* The inductive strengthening of TypeOK.
TypeInv == TypeOK /\ CurInv

\* An applied event.
LEMMA ApplyType == ASSUME TableTypeOK, NEW e \in Event, ApplyToTable(e) PROVE TableTypeOK'
<1>1. e.thread \in Threads /\ e.turn \in Turns \cup {None} BY DEF Event
<1>2. TurnAfter(e) \in Turns \cup {None} BY <1>1 DEF TurnAfter, TableTypeOK
<1> QED BY <1>1, <1>2 DEF ApplyToTable, Upsert, Remove, TableTypeOK

\* Events, turns and connections.
LEMMA DaemonTypes ==
  ASSUME TypeInv,
         \/ Reconnect \/ Ingress \/ \E u \in Turns : TurnStarts(u) \/ TurnEnds(u)
         \/ \E t \in Threads : ThreadUpdated(t)
  PROVE  TypeInv'
<1> USE Limits DEF TypeInv, TypeOK, CurInv
<1>1. ASSUME NEW u \in Turns, TurnStarts(u) PROVE TypeInv'
  <2> DEFINE t == ThreadOf[u]
  <2>1. t \in Threads OBVIOUS
  <2>2. Note("signal", t, None) \in Event /\ Note("turn/started", t, u) \in Event
    BY <2>1, NoteType
  <2>3. feed' \in Seq(Event) BY <1>1, <2>2 DEF TurnStarts
  <2> QED BY <1>1, <2>1, <2>3 DEF TurnStarts, Updated, tableVars, taskVars, passVars, pastVars, TableTypeOK
<1>2. ASSUME NEW u \in Turns, TurnEnds(u) PROVE TypeInv'
  <2> DEFINE t == ThreadOf[u]
  <2>1. t \in Threads OBVIOUS
  <2>2. Note("idle", t, None) \in Event /\ Note("turn/completed", t, u) \in Event
    BY <2>1, NoteType
  <2>3. feed' \in Seq(Event) BY <1>2, <2>2 DEF TurnEnds
  <2> QED BY <1>2, <2>1, <2>3 DEF TurnEnds, Updated, tableVars, taskVars, passVars, pastVars, TableTypeOK
<1>3. CASE Reconnect
  <2>1. PICK n \in 0 .. Len(feed) :
          /\ feed' = SubSeq(feed, 1, n)
          /\ unsure' = unsure \cup {e.thread : e \in {x \in Range(SubSeq(feed, 1, n)) : x.turn # None}}
    BY <1>3 DEF Reconnect
  <2>2. feed' \in Seq(Event) BY <2>1
  <2>3. \A x \in Range(SubSeq(feed, 1, n)) : x \in Event BY <2>1, <2>2 DEF Range
  <2>4. unsure' \subseteq Threads BY <2>1, <2>3 DEF Event
  <2>5. conn' \in 1 .. MaxConns /\ due' \in BOOLEAN BY <1>3 DEF Reconnect
  <2> QED BY <1>3, <2>2, <2>4, <2>5 DEF Reconnect, tableVars, taskVars, TableTypeOK
<1>4. CASE Ingress
  <2>1. Head(feed) \in Event /\ feed' \in Seq(Event) BY <1>4 DEF Ingress
  <2>2. Head(feed).thread \in Threads /\ Head(feed).turn \in Turns \cup {None}
    BY <2>1 DEF Event
  <2>4. TableTypeOK'
    <3>1. ApplyToTable(Head(feed)) BY <1>4 DEF Ingress
    <3> QED BY <2>1, <3>1, ApplyType
  <2>5. signals' \in [Threads -> Nat]
    <3>1. signals' \in {[signals EXCEPT ![Head(feed).thread] = @ + 1], signals}
      BY <1>4, Zenon DEF Ingress
    <3>2. [signals EXCEPT ![Head(feed).thread] = @ + 1] \in [Threads -> Nat]
      BY <2>2, Counting
    <3> QED BY <3>1, <3>2
  <2>6. unsure' \subseteq Threads
    <3>1. unsure' \in {unsure \cup {Head(feed).thread}, unsure} BY <1>4, Zenon DEF Ingress
    <3> QED BY <2>2, <3>1
  <2> QED BY <1>4, <2>1, <2>4, <2>5, <2>6 DEF Ingress, passVars
<1>5. ASSUME NEW t \in Threads, ThreadUpdated(t) PROVE TypeInv'
  BY <1>5 DEF ThreadUpdated, Updated, tableVars, taskVars, passVars, pastVars, TableTypeOK
<1> QED BY <1>1, <1>2, <1>3, <1>4, <1>5

\* The steps of a discover.
LEMMA DiscoverTypes ==
  ASSUME TypeInv, NEW t \in Threads, HandleSignal(t) \/ Discover(t) PROVE TypeInv'
<1> USE Limits DEF TypeInv, TypeOK, CurInv, TableTypeOK, tableVars, daemonVars, taskVars,
        passVars, pastVars, Settled, Retained
<1>1. CASE HandleSignal(t)
  <2>1. /\ states' \in [Threads -> Settled \cup Retained]
        /\ pc' \in [Threads -> {"idle", "begin", "resume", "resumed", "retry",
                                "read", "answered"}]
    BY <1>1, EnterType DEF HandleSignal
  <2>2. signals' \in [Threads -> Nat] BY <1>1, Counting DEF HandleSignal
  <2> QED BY <1>1, <2>1, <2>2 DEF HandleSignal
<1>2. CASE Begin(t) BY <1>2 DEF Begin, BeginSubscription, Upsert
<1>3. CASE Attach(t) BY <1>3 DEF Attach
<1>4. CASE ResumeOk(t) BY <1>4 DEF ResumeOk, FinishSubscription, Upsert
<1>5. CASE ResumeAgain(t)
  <2>1. attempt[t] \in 1 .. RetryLimit /\ attempt[t] < RetryLimit BY <1>5 DEF ResumeAgain
  <2>2. attempt[t] + 1 \in 1 .. RetryLimit BY <2>1
  <2>3. attempt' \in [Threads -> 1 .. RetryLimit] BY <1>5, <2>2, Zenon DEF ResumeAgain
  <2> QED BY <1>5, <2>3 DEF ResumeAgain
<1>6. CASE RetryElapses(t) BY <1>6 DEF RetryElapses
<1>7. CASE ResumeFails(t)
  <2>1. cancels' \in [Threads -> Nat] BY <1>7, Counting DEF ResumeFails
  <2>2. states' \in [Threads -> Settled \cup Retained] BY <1>7 DEF ResumeFails
  <2> QED BY <1>7, <2>1, <2>2 DEF ResumeFails
<1>8. ASSUME Returns(t) PROVE /\ pass' \in {"idle", "list", "page", "read", "answered", "discover", "join", "off"}
                              /\ found' \in SUBSET Threads /\ cur' \in Threads \cup {None}
                              /\ due' \in BOOLEAN /\ booted' \in BOOLEAN /\ CurInv'
  BY <1>8, AdvanceType DEF Returns
<1>9. CASE Cancel(t)
  <2>1. cancels' \in [Threads -> Nat] BY <1>9, Counting DEF Cancel
  <2>2. TableTypeOK' BY <1>9 DEF Cancel, CancelSubscription, Remove
  <2> QED BY <1>9, <1>8, <2>1, <2>2 DEF Cancel
<1>10. CASE AnswerRead(t) BY <1>10, RunningType DEF AnswerRead
<1>11. CASE ReadOk(t)
  <2>1. TableTypeOK' BY <1>11 DEF ReadOk, ReconcileThread, Upsert
  <2> QED BY <1>11, <2>1, <1>8 DEF ReadOk
<1>12. CASE ReadFails(t) BY <1>12, <1>8 DEF ReadFails
<1> QED BY <1>1, <1>2, <1>3, <1>4, <1>5, <1>6, <1>7, <1>9, <1>10, <1>11, <1>12 DEF Discover

\* A page leads on to the next one, or the list is through.
LEMMA PageType ==
  ASSUME TypeInv, NEW ahead \in SUBSET Threads, Page(ahead)
  PROVE  /\ pass' \in {"page", "idle", "read"} /\ found' \in SUBSET Threads
         /\ behind' \in SUBSET Threads /\ cur' \in Threads \cup {None}
         /\ due' \in BOOLEAN /\ booted' \in BOOLEAN /\ skipped' \in SUBSET Threads
         /\ pass' = "read" => cur' \in Threads
<1> USE DEF TypeInv, TypeOK
<1>1. PICK some \in SUBSET ahead :
        \/ /\ pass' = "page" /\ found' = found \cup some /\ behind' = ahead \ some
           /\ UNCHANGED <<cur, due, booted, skipped>>
        \/ /\ Advance(found \cup some) /\ behind' = {}
           /\ skipped' = skipped \cup (ahead \ some)
  BY DEF Page
<1>2. found \cup some \in SUBSET Threads OBVIOUS
<1> QED BY <1>1, <1>2, AdvanceType

\* The steps of the pass.
LEMMA ReconcileTypes == ASSUME TypeInv, Reconcile PROVE TypeInv'
<1> USE Limits DEF TypeInv, TypeOK, CurInv, TableTypeOK, tableVars, daemonVars, taskVars,
        passVars, pastVars
<1>1. CASE StartPass BY <1>1 DEF StartPass
<1>2. CASE FirstPage \/ NextPage
  <2>1. Page(above) \/ Page(behind) BY <1>2 DEF FirstPage, NextPage
  <2> QED BY <1>2, <2>1, PageType DEF FirstPage, NextPage
<1>3. CASE ListFails BY <1>3 DEF ListFails
<1>4. CASE AnswerCandidate BY <1>4, AdvanceType, RunningType DEF AnswerCandidate
<1>5. CASE CandidateRead BY <1>5 DEF CandidateRead, ReconcileThread, Upsert
<1>6. CASE CandidateFails BY <1>6, AdvanceType DEF CandidateFails
<1>7. CASE DiscoverCandidate
  <2>1. cur \in Threads BY <1>7 DEF DiscoverCandidate
  <2>2. /\ states' \in [Threads -> Settled \cup Retained]
        /\ pc' \in [Threads -> {"idle", "begin", "resume", "resumed", "retry",
                                "read", "answered"}]
    BY <1>7, <2>1, EnterType DEF DiscoverCandidate
  <2> QED BY <1>7, <2>1, <2>2, AdvanceType DEF DiscoverCandidate
<1> QED BY <1>1, <1>2, <1>3, <1>4, <1>5, <1>6, <1>7 DEF Reconcile

\* Every step keeps the types.
LEMMA TypeStep == ASSUME TypeInv, [Next]_vars PROVE TypeInv'
<1>1. CASE UNCHANGED vars
  BY <1>1 DEF vars, TypeInv, TypeOK, CurInv, TableTypeOK, tableVars, daemonVars, taskVars,
      passVars, pastVars
<1> QED BY <1>1, DaemonTypes, DiscoverTypes, ReconcileTypes DEF Next

\* TypeInv is an inductive invariant.
LEMMA TypeInvariant == Spec => []TypeInv
<1>1. Init => TypeInv
  <2> SUFFICES ASSUME Init PROVE TypeInv OBVIOUS
  <2>1. TableTypeOK BY DEF Init, TableInit, TableTypeOK
  <2>2. conn \in 1 .. MaxConns /\ attempt \in [Threads -> 1 .. RetryLimit] BY Limits DEF Init
  <2>3. due \in BOOLEAN /\ booted \in BOOLEAN /\ listed \in BOOLEAN BY Zenon DEF Init
  <2>4. states \in [Threads -> Settled \cup Retained] /\ feed \in Seq(Event)
    BY DEF Init, Settled, Retained
  <2>5. status \in [Turns -> {"unborn", "running", "ended"}] BY DEF Init
  <2>6. /\ signals \in [Threads -> Nat] /\ cancels \in [Threads -> Nat]
        /\ answer \in [Threads -> Turns \cup {None}]
        /\ pc \in [Threads -> {"idle", "begin", "resume", "resumed", "retry",
                                "read", "answered"}]
    BY DEF Init
  <2>7. /\ attached \subseteq Threads /\ above \subseteq Threads /\ found \subseteq Threads
        /\ skipped \subseteq Threads /\ unsure \subseteq Threads
        /\ behind \subseteq Threads /\ moved \subseteq Threads /\ undone \subseteq Threads
        /\ pass = "idle" /\ cur = None /\ curAnswer = None
    BY DEF Init
  <2> QED BY <2>1, <2>2, <2>3, <2>4, <2>5, <2>6, <2>7 DEF TypeInv, TypeOK, CurInv
<1> QED BY <1>1, TypeStep, PTL DEF Spec

\* Counts, positions and answers keep their ranges: an attempt never passes the
\* retry limit, and the pass always has a thread to look at.
THEOREM TypeCorrect == Spec => []TypeOK
<1>1. TypeInv => TypeOK BY DEF TypeInv
<1> QED BY <1>1, TypeInvariant, PTL

-----------------------------------------------------------------------------
(* The ingestor and the table                                              *)

\* Each step is an operation of the table, or leaves the table alone.
LEMMA TableCalls == ASSUME TypeInv, [Next]_vars PROVE [TableNext]_tableVars
<1> USE DEF TypeInv
<1>1. ASSUME NEW u \in Turns, TurnStarts(u) \/ TurnEnds(u) PROVE UNCHANGED tableVars
  BY <1>1 DEF TurnStarts, TurnEnds
<1>2. CASE Reconnect \/ \E t \in Threads : ThreadUpdated(t) BY <1>2 DEF Reconnect, ThreadUpdated
<1>3. CASE Ingress
  <2>1. Head(feed) \in Event BY <1>3 DEF Ingress, TypeOK
  <2> QED BY <1>3, <2>1 DEF Ingress, TableNext
<1>4. ASSUME NEW t \in Threads, HandleSignal(t) \/ Discover(t)
      PROVE  TableNext \/ UNCHANGED tableVars
  <2>1. CASE Begin(t) BY <2>1 DEF Begin, TableNext
  <2>2. CASE ResumeOk(t) BY <2>2 DEF ResumeOk, TableNext
  <2>3. CASE Cancel(t) BY <2>3 DEF Cancel, TableNext
  <2>4. CASE ReadOk(t)
    <3>1. answer[t] \in Turns \cup {None} BY DEF TypeOK
    <3> QED BY <2>4, <3>1 DEF ReadOk, TableNext
  <2>5. CASE HandleSignal(t) BY <2>5 DEF HandleSignal
  <2>6. CASE Attach(t) \/ ResumeAgain(t) \/ RetryElapses(t) \/ ResumeFails(t)
    BY <2>6 DEF Attach, ResumeAgain, RetryElapses, ResumeFails
  <2>7. CASE AnswerRead(t) \/ ReadFails(t) BY <2>7 DEF AnswerRead, ReadFails
  <2> QED BY <1>4, <2>1, <2>2, <2>3, <2>4, <2>5, <2>6, <2>7 DEF Discover
<1>5. CASE CandidateRead
  <2>1. cur \in Threads /\ curAnswer \in Turns \cup {None}
    BY <1>5 DEF CandidateRead, CurInv, TypeOK
  <2> QED BY <1>5, <2>1 DEF CandidateRead, TableNext
<1>6. CASE StartPass \/ FirstPage \/ NextPage \/ ListFails \/ AnswerCandidate \/ CandidateFails \/ DiscoverCandidate
  BY <1>6 DEF StartPass, FirstPage, NextPage, ListFails, AnswerCandidate, CandidateFails, DiscoverCandidate
<1>7. CASE UNCHANGED vars BY <1>7 DEF vars
<1> QED BY <1>1, <1>2, <1>3, <1>4, <1>5, <1>6, <1>7 DEF Next, Reconcile

\* The ingestor, with the ingress task beside it, is one of the behaviours of the
\* table: it implements TableSpec, on the very variables.
THEOREM IngestImplementsTable == Spec => TableSpec
<1>1. Init => TableInit BY DEF Init
<1>2. TypeInv /\ [Next]_vars => [TableNext]_tableVars BY TableCalls
<1> QED BY <1>1, <1>2, TypeInvariant, PTL DEF Spec, TableSpec

\* No step of ingress, discovery or reconciliation takes away an entry that is
\* subscribed, being subscribed, or has an active turn.
THEOREM EntriesKept == Spec => []EntriesAreKept
BY IngestImplementsTable, TableKeepsEntries, PTL

\* A discover between begin and finish has its mark, or has lost it to a cancel.
MarkInv == \A t \in Threads : Resuming(t) => t \in subscribing \/ t \in undone

LEMMA MarkStep == TypeInv /\ MarkInv /\ [Next]_vars => MarkInv'
<1> SUFFICES ASSUME TypeInv, MarkInv, [Next]_vars PROVE MarkInv' OBVIOUS
<1> USE DEF TypeInv, TypeOK, MarkInv, Resuming, tableVars, taskVars, pastVars
<1>1. CASE UNCHANGED <<subscribing, pc, undone>> BY <1>1
<1>2. ASSUME NEW t \in Threads, Enter(t), UNCHANGED <<subscribing, undone>> PROVE MarkInv'
  BY <1>2 DEF Enter
<1>3. ASSUME NEW u \in Turns, TurnStarts(u) \/ TurnEnds(u)
      PROVE  UNCHANGED <<subscribing, pc, undone>>
  BY <1>3 DEF TurnStarts, TurnEnds
<1>4. CASE Reconnect \/ Ingress \/ UNCHANGED vars \/ \E t \in Threads : ThreadUpdated(t)
  BY <1>1, <1>4 DEF Reconnect, Ingress, ApplyToTable, vars, ThreadUpdated
<1>5. ASSUME NEW t \in Threads, HandleSignal(t) PROVE MarkInv'
  BY <1>2, <1>5 DEF HandleSignal
<1>6. ASSUME NEW t \in Threads, Discover(t) PROVE MarkInv'
  <2>1. CASE Begin(t) BY <2>1 DEF Begin, BeginSubscription
  <2>2. CASE Attach(t) BY <2>2 DEF Attach
  <2>3. CASE ResumeOk(t) BY <2>3 DEF ResumeOk, FinishSubscription
  <2>4. CASE ResumeAgain(t) BY <2>4 DEF ResumeAgain
  <2>5. CASE RetryElapses(t) BY <2>5 DEF RetryElapses
  <2>6. CASE ResumeFails(t) BY <2>6 DEF ResumeFails
  <2>7. CASE Cancel(t) BY <2>7 DEF Cancel, CancelSubscription
  <2>8. CASE AnswerRead(t) BY <2>8 DEF AnswerRead
  <2>9. CASE ReadOk(t) BY <2>9 DEF ReadOk, ReconcileThread
  <2>10. CASE ReadFails(t) BY <2>10 DEF ReadFails
  <2> QED BY <1>6, <2>1, <2>2, <2>3, <2>4, <2>5, <2>6, <2>7, <2>8, <2>9, <2>10 DEF Discover
<1>7. CASE DiscoverCandidate BY <1>2, <1>7 DEF DiscoverCandidate, CurInv
<1>8. CASE StartPass \/ FirstPage \/ NextPage \/ ListFails \/ AnswerCandidate \/ CandidateRead
           \/ CandidateFails
  BY <1>1, <1>8 DEF StartPass, FirstPage, NextPage, ListFails, AnswerCandidate, CandidateRead,
     CandidateFails, ReconcileThread
<1> QED BY <1>1, <1>3, <1>4, <1>5, <1>6, <1>7, <1>8 DEF Next, Reconcile

\* Whatever is applied, pruned or reconciled, and however many discovers of the
\* thread have failed before, a resume under way keeps its mark and its entry,
\* unless one of those discovers cancels it late.
THEOREM ResumesKeepTheirMark == Spec => []ResumesAreMarked
<1>1. Init => MarkInv BY DEF Init, MarkInv, Resuming
<1>2. MarkInv /\ EntriesAreKept => ResumesAreMarked
  BY DEF MarkInv, EntriesAreKept, ResumesAreMarked
<1> QED BY <1>1, <1>2, MarkStep, TypeInvariant, EntriesKept, PTL DEF Spec

-----------------------------------------------------------------------------
(* The states of the ingestor                                              *)

\* A discover past its check holds its place until it is through or has failed,
\* and the flag of a Subscribed thread is never taken back.
ManagedInv ==
    \A t \in Threads :
        /\ pc[t] # "idle" => Holding(t)
        /\ states[t] = "Subscribed" => t \in subscribed

\* Every other step moves the discovers it concerns forward, keeps or gives up
\* their places, and takes no new one.
OldPlaces ==
    /\ \A t \in Threads : Holding(t)' => Holding(t)
    /\ \A t \in Threads : pc'[t] = "begin" => pc[t] = "begin"

\* Only a thread that nobody holds gets a new discover, and it keeps all others.
LEMMA EnterStep ==
  ASSUME TypeOK, TypeOK', ManagedInv, NEW t \in Threads, Enter(t), subscribed \subseteq subscribed'
  PROVE  /\ ManagedInv'
         /\ OldPlaces \/ /\ ~Holding(t)
                         /\ Cardinality({s \in Threads : Holding(s)}) < SubscriptionCap
                         /\ \A s \in Threads : Holding(s)' <=> Holding(s) \/ s = t
                         /\ \A s \in Threads : pc'[s] = "begin" /\ pc[s] # "begin" => s = t
<1> USE DEF TypeOK, ManagedInv, OldPlaces, Holding, Retained
<1>1. CASE UNCHANGED <<states, pc>> BY <1>1
<1>2. CASE ~Holding(t) /\ states' = [states EXCEPT ![t] = "CapacityDegraded"] /\ UNCHANGED pc
  BY <1>2
<1>3. CASE /\ ~Holding(t) /\ ~(Cardinality({s \in Threads : Holding(s)}) >= SubscriptionCap)
           /\ states' = [states EXCEPT ![t] = "Subscribing"]
           /\ pc' = [pc EXCEPT ![t] = "begin"]
  <2>1. \A s \in Threads : Holding(s)' <=> Holding(s) \/ s = t BY <1>3
  <2>2. IsFiniteSet({s \in Threads : Holding(s)}) BY FS_Subset, Limits
  <2>3. Cardinality({s \in Threads : Holding(s)}) < SubscriptionCap
    BY <1>3, <2>2, FS_CardinalityType, Limits
  <2>4. ManagedInv' /\ \A s \in Threads : pc'[s] = "begin" /\ pc[s] # "begin" => s = t
    BY <1>3
  <2> QED BY <1>3, <2>1, <2>3, <2>4
<1> QED BY <1>1, <1>2, <1>3 DEF Enter

\* No step of the system takes a subscribed flag back.
LEMMA SubscribedGrows ==
  ASSUME TypeInv, [Next]_vars PROVE subscribed \subseteq subscribed'
<1> USE DEF tableVars
<1>1. ASSUME NEW u \in Turns, TurnStarts(u) \/ TurnEnds(u) PROVE UNCHANGED tableVars
  BY <1>1 DEF TurnStarts, TurnEnds
<1>2. CASE Reconnect \/ \E t \in Threads : ThreadUpdated(t) BY <1>2 DEF Reconnect, ThreadUpdated
<1>3. CASE Ingress BY <1>3 DEF Ingress, ApplyToTable
<1>4. ASSUME NEW t \in Threads, HandleSignal(t) \/ Discover(t)
      PROVE  subscribed \subseteq subscribed'
  <2>1. CASE Begin(t) BY <2>1 DEF Begin, BeginSubscription
  <2>2. CASE ResumeOk(t) BY <2>2 DEF ResumeOk, FinishSubscription
  <2>3. CASE Cancel(t) BY <2>3 DEF Cancel, CancelSubscription
  <2>4. CASE ReadOk(t) BY <2>4 DEF ReadOk, ReconcileThread
  <2>5. CASE HandleSignal(t) BY <2>5 DEF HandleSignal
  <2>6. CASE Attach(t) \/ ResumeAgain(t) \/ RetryElapses(t) \/ ResumeFails(t)
    BY <2>6 DEF Attach, ResumeAgain, RetryElapses, ResumeFails
  <2>7. CASE AnswerRead(t) \/ ReadFails(t) BY <2>7 DEF AnswerRead, ReadFails
  <2> QED BY <1>4, <2>1, <2>2, <2>3, <2>4, <2>5, <2>6, <2>7 DEF Discover
<1>5. CASE CandidateRead BY <1>5 DEF CandidateRead, ReconcileThread
<1>6. CASE StartPass \/ FirstPage \/ NextPage \/ ListFails \/ AnswerCandidate \/ CandidateFails \/ DiscoverCandidate
  BY <1>6 DEF StartPass, FirstPage, NextPage, ListFails, AnswerCandidate, CandidateFails, DiscoverCandidate
<1>7. CASE UNCHANGED vars BY <1>7 DEF vars
<1> QED BY <1>1, <1>2, <1>3, <1>4, <1>5, <1>6, <1>7 DEF Next, Reconcile

\* The steps of a discover past its check.
LEMMA DiscoverPlaces ==
  ASSUME TypeOK, TypeOK', ManagedInv, NEW t \in Threads, Discover(t),
         subscribed \subseteq subscribed'
  PROVE  ManagedInv' /\ OldPlaces
<1> USE DEF TypeOK, ManagedInv, OldPlaces, Holding, Retained
<1>1. CASE Begin(t) BY <1>1 DEF Begin
<1>2. CASE Attach(t) BY <1>2 DEF Attach
<1>3. CASE ResumeOk(t) BY <1>3 DEF ResumeOk, FinishSubscription
<1>4. CASE ResumeAgain(t) BY <1>4 DEF ResumeAgain
<1>5. CASE RetryElapses(t) BY <1>5 DEF RetryElapses
<1>6. CASE ResumeFails(t) BY <1>6 DEF ResumeFails
<1>7. CASE Cancel(t) BY <1>7 DEF Cancel
<1>8. CASE AnswerRead(t) BY <1>8 DEF AnswerRead
<1>9. CASE ReadOk(t) BY <1>9 DEF ReadOk
<1>10. CASE ReadFails(t) BY <1>10 DEF ReadFails
<1> QED BY <1>1, <1>2, <1>3, <1>4, <1>5, <1>6, <1>7, <1>8, <1>9, <1>10 DEF Discover

\* The steps that leave the states and the positions alone.
LEMMA OtherPlaces ==
  ASSUME ManagedInv, UNCHANGED <<states, pc>>, subscribed \subseteq subscribed'
  PROVE  ManagedInv' /\ OldPlaces
BY DEF ManagedInv, OldPlaces, Holding

\* Either a step takes no new place, or it is the check of a discover.
LEMMA Places ==
  ASSUME TypeInv, TypeInv', ManagedInv, [Next]_vars
  PROVE  /\ ManagedInv'
         /\ OldPlaces \/ \E t \in Threads : Enter(t)
<1> USE SubscribedGrows DEF TypeInv
<1>1. ASSUME NEW t \in Threads, Enter(t) PROVE ManagedInv'
  BY <1>1, EnterStep
<1>2. ASSUME NEW t \in Threads, HandleSignal(t) PROVE Enter(t)
  BY <1>2 DEF HandleSignal
<1>3. CASE DiscoverCandidate
  <2>1. cur \in Threads /\ Enter(cur) BY <1>3 DEF DiscoverCandidate, CurInv
  <2> QED BY <1>1, <2>1
<1>4. ASSUME NEW t \in Threads, Discover(t) PROVE ManagedInv' /\ OldPlaces
  BY <1>4, DiscoverPlaces
<1>5. ASSUME NEW u \in Turns, TurnStarts(u) \/ TurnEnds(u) PROVE UNCHANGED <<states, pc>>
  BY <1>5 DEF TurnStarts, TurnEnds, taskVars
<1>6. CASE Reconnect \/ Ingress \/ UNCHANGED vars \/ \E t \in Threads : ThreadUpdated(t)
  BY <1>6, OtherPlaces DEF Reconnect, Ingress, vars, taskVars, ThreadUpdated
<1>7. CASE StartPass \/ FirstPage \/ NextPage \/ ListFails \/ AnswerCandidate \/ CandidateRead \/ CandidateFails
  BY <1>7, OtherPlaces DEF StartPass, FirstPage, NextPage, ListFails, AnswerCandidate, CandidateRead,
     CandidateFails, taskVars
<1> QED BY <1>1, <1>2, <1>3, <1>4, <1>5, <1>6, <1>7, OtherPlaces DEF Next, Reconcile

\* ManagedInv is an invariant, given the types.
LEMMA ManagedInvariant == Spec => []ManagedInv
<1>1. Init => ManagedInv BY DEF Init, ManagedInv, Holding, Retained
<1>2. TypeInv /\ TypeInv' /\ ManagedInv /\ [Next]_vars => ManagedInv' BY Places
<1> QED BY <1>1, <1>2, TypeInvariant, PTL DEF Spec

\* A Subscribed thread is in the snapshot, flag set, whatever is pruned,
\* cancelled late or reconciled beside it.
THEOREM SubscribedAreTracked == Spec => []SubscribedIsTracked
<1>1. ManagedInv /\ EntriesAreKept => SubscribedIsTracked
  BY DEF ManagedInv, EntriesAreKept, SubscribedIsTracked
<1> QED BY <1>1, ManagedInvariant, EntriesKept, PTL

\* However many signals and passes discover a thread at once, one gets past the
\* check, and the next not before that one is through or has failed.
THEOREM OneDiscoverAtATime == Spec => NoCompetingDiscovery
<1>1. ASSUME TypeInv, TypeInv', ManagedInv, [Next]_vars,
             NEW t \in Threads, pc'[t] = "begin", pc[t] # "begin"
      PROVE  pc[t] = "idle"
  <2>1. PICK s \in Threads : Enter(s) BY <1>1, Places DEF OldPlaces
  <2>2. s = t /\ ~Holding(t) BY <1>1, <2>1, EnterStep, SubscribedGrows DEF TypeInv, OldPlaces
  <2> QED BY <1>1, <2>2 DEF ManagedInv
<1>2. TypeInv /\ TypeInv' /\ ManagedInv /\ [Next]_vars =>
        [\A t \in Threads : pc'[t] = "begin" /\ pc[t] # "begin" => pc[t] = "idle"]_vars
  BY <1>1
<1> QED BY <1>2, TypeInvariant, ManagedInvariant, PTL DEF Spec, NoCompetingDiscovery

\* The places taken never exceed the cap, for any cap and any number of threads.
THEOREM CapRespected == Spec => []WithinCap
<1> DEFINE Taken == {t \in Threads : Holding(t)}
<1>1. Init => WithinCap
  <2> SUFFICES ASSUME Init PROVE WithinCap OBVIOUS
  <2>1. Taken = {} BY DEF Init, Holding, Retained
  <2> QED BY <2>1, FS_EmptySet, Limits DEF WithinCap
<1>2. ASSUME TypeInv, TypeInv', ManagedInv, WithinCap, [Next]_vars PROVE WithinCap'
  <2>1. IsFiniteSet(Taken) /\ IsFiniteSet(Taken')
    BY FS_Subset, Limits
  <2>2. Cardinality(Taken) \in Nat /\ Cardinality(Taken') \in Nat
    BY <2>1, FS_CardinalityType
  <2>3. CASE Taken' \subseteq Taken
    BY <1>2, <2>1, <2>2, <2>3, FS_Subset, Limits DEF WithinCap
  <2>4. ASSUME NEW t \in Threads, Enter(t), ~(Taken' \subseteq Taken) PROVE WithinCap'
    <3>1. /\ ~Holding(t) /\ Cardinality(Taken) < SubscriptionCap
          /\ \A s \in Threads : Holding(s)' <=> Holding(s) \/ s = t
      BY <1>2, <2>4, EnterStep, SubscribedGrows DEF TypeInv, OldPlaces
    <3>2. Taken' = Taken \cup {t} BY <3>1
    <3>3. Cardinality(Taken \cup {t}) = Cardinality(Taken) + 1
      BY <2>1, <3>1, FS_AddElement
    <3> QED BY <3>1, <3>2, <3>3, <2>2, Limits DEF WithinCap
  <2> QED BY <1>2, <2>3, <2>4, Places DEF OldPlaces
<1> QED BY <1>1, <1>2, TypeInvariant, ManagedInvariant, PTL DEF Spec

-----------------------------------------------------------------------------
(* The turns of the daemon                                                 *)

OneRunning ==
    \A u, w \in Turns :
        status[u] = "running" /\ status[w] = "running" /\ ThreadOf[u] = ThreadOf[w] => u = w

\* Running, of any table of turns st.
RunningIn(st, t) ==
    IF \E u \in Turns : ThreadOf[u] = t /\ st[u] = "running"
    THEN CHOOSE u \in Turns : ThreadOf[u] = t /\ st[u] = "running"
    ELSE None

LEMMA RunningIsIn ==
  \A t : Running(t) = RunningIn(status, t) /\ Running(t)' = RunningIn(status', t)
BY DEF Running, RunningIn

LEMMA RunningInIs ==
  ASSUME NEW st, NEW t,
         \A u, w \in Turns :
            st[u] = "running" /\ st[w] = "running" /\ ThreadOf[u] = ThreadOf[w] => u = w
  PROVE  /\ \A u \in Turns : RunningIn(st, t) = u <=> ThreadOf[u] = t /\ st[u] = "running"
         /\ RunningIn(st, t) \in Turns \cup {None}
<1> DEFINE P(u) == ThreadOf[u] = t /\ st[u] = "running"
           c == CHOOSE u \in Turns : P(u)
<1>1. CASE \E u \in Turns : P(u)
  <2>1. c \in Turns /\ P(c) BY <1>1
  <2>2. RunningIn(st, t) = c BY <1>1 DEF RunningIn
  <2> HIDE DEF c
  <2> QED BY <2>1, <2>2
<1>2. CASE ~\E u \in Turns : P(u)
  BY <1>2, TurnsAreNamed DEF RunningIn
<1> QED BY <1>1, <1>2

\* A thread with no turn in flight gets one.
LEMMA StartsRunning ==
  ASSUME TypeOK, OneRunning, NEW u \in Turns, TurnStarts(u)
  PROVE  /\ OneRunning' /\ Running(ThreadOf[u]) = None /\ Running(ThreadOf[u])' = u
         /\ \A t : t # ThreadOf[u] => Running(t)' = Running(t)
<1>1. status' = [status EXCEPT ![u] = "running"] /\ Running(ThreadOf[u]) = None
      /\ status \in [Turns -> {"unborn", "running", "ended"}]
  BY DEF TurnStarts, TypeOK
<1>2. \A w \in Turns : ThreadOf[w] = ThreadOf[u] => status[w] # "running"
  BY <1>1, RunningIsIn, RunningInIs, TurnsAreNamed DEF OneRunning
<1>3. OneRunning' BY <1>1, <1>2 DEF OneRunning
<1>4. \A t : /\ \A w \in Turns : RunningIn(status, t) = w <=> ThreadOf[w] = t /\ status[w] = "running"
             /\ \A w \in Turns : RunningIn(status', t) = w <=> ThreadOf[w] = t /\ status'[w] = "running"
             /\ RunningIn(status, t) \in Turns \cup {None}
             /\ RunningIn(status', t) \in Turns \cup {None}
  BY <1>3, RunningInIs DEF OneRunning
<1>5. RunningIn(status', ThreadOf[u]) = u BY <1>1, <1>4
<1>6. ASSUME NEW t, t # ThreadOf[u] PROVE RunningIn(status', t) = RunningIn(status, t)
  <2>1. \A w \in Turns : ThreadOf[w] = t => status'[w] = status[w] BY <1>1, <1>6
  <2> QED BY <1>4, <2>1
<1> QED BY <1>1, <1>3, <1>5, <1>6, RunningIsIn

\* The turn in flight of a thread ends.
LEMMA EndsRunning ==
  ASSUME TypeOK, OneRunning, NEW u \in Turns, TurnEnds(u)
  PROVE  /\ OneRunning' /\ Running(ThreadOf[u]) = u /\ Running(ThreadOf[u])' = None
         /\ \A t : t # ThreadOf[u] => Running(t)' = Running(t)
<1>1. status' = [status EXCEPT ![u] = "ended"] /\ status[u] = "running"
      /\ status \in [Turns -> {"unborn", "running", "ended"}]
  BY DEF TurnEnds, TypeOK
<1>3. OneRunning' BY <1>1 DEF OneRunning
<1>4. \A t : /\ \A w \in Turns : RunningIn(status, t) = w <=> ThreadOf[w] = t /\ status[w] = "running"
             /\ \A w \in Turns : RunningIn(status', t) = w <=> ThreadOf[w] = t /\ status'[w] = "running"
             /\ RunningIn(status, t) \in Turns \cup {None}
             /\ RunningIn(status', t) \in Turns \cup {None}
  BY <1>3, RunningInIs DEF OneRunning
<1>5. RunningIn(status, ThreadOf[u]) = u BY <1>1, <1>4
<1>6. RunningIn(status', ThreadOf[u]) = None
  <2>1. \A w \in Turns : ThreadOf[w] = ThreadOf[u] => status'[w] # "running"
    BY <1>1 DEF OneRunning
  <2> QED BY <1>4, <2>1
<1>7. ASSUME NEW t, t # ThreadOf[u] PROVE RunningIn(status', t) = RunningIn(status, t)
  <2>1. \A w \in Turns : ThreadOf[w] = t => status'[w] = status[w] BY <1>1, <1>7
  <2> QED BY <1>4, <2>1
<1> QED BY <1>3, <1>5, <1>6, <1>7, RunningIsIn

\* Nothing else starts or ends a turn.
LEMMA StillRunning ==
  ASSUME [Next]_vars, \A u \in Turns : ~TurnStarts(u) /\ ~TurnEnds(u)
  PROVE  UNCHANGED status /\ \A t : Running(t)' = Running(t)
<1>1. UNCHANGED status
  <2>1. CASE UNCHANGED vars BY <2>1 DEF vars, daemonVars
  <2>2. CASE Reconnect \/ Ingress \/ \E t \in Threads : ThreadUpdated(t)
    BY <2>2 DEF Reconnect, Ingress, ThreadUpdated
  <2>3. ASSUME NEW t \in Threads, HandleSignal(t) \/ Discover(t) PROVE UNCHANGED status
    BY <2>3 DEF HandleSignal, Discover, Begin, Attach, ResumeOk, ResumeAgain, RetryElapses,
       ResumeFails, Cancel, AnswerRead, ReadOk, ReadFails, daemonVars
  <2>4. CASE Reconcile
    BY <2>4 DEF Reconcile, StartPass, FirstPage, NextPage, ListFails, AnswerCandidate, CandidateRead,
       CandidateFails, DiscoverCandidate, daemonVars
  <2> QED BY <2>1, <2>2, <2>3, <2>4 DEF Next
<1> QED BY <1>1 DEF Running

\* The daemon runs one turn of a thread at a time.
LEMMA OneRunningStep == TypeOK /\ OneRunning /\ [Next]_vars => OneRunning'
<1> SUFFICES ASSUME TypeOK, OneRunning, [Next]_vars PROVE OneRunning' OBVIOUS
<1>1. CASE UNCHANGED status BY <1>1 DEF OneRunning
<1> QED BY <1>1, StartsRunning, EndsRunning, StillRunning

-----------------------------------------------------------------------------
(* Threads that are not heard                                              *)

\* A discover under way owns the state of its thread; on the first connection
\* what was resumed is attached.
OwnedInv ==
    \A t \in Threads :
        /\ states[t] \in {"Subscribing", "RetryWait"} => pc[t] \notin {"idle", "read", "answered"}
        /\ states[t] = "Subscribed" => pc[t] \in {"idle", "read", "answered"}
        /\ conn = 1 /\ (states[t] = "Subscribed" \/ pc[t] = "resumed") => t \in attached

LEMMA EnterOwned ==
  ASSUME TypeOK, ManagedInv, OwnedInv, NEW t \in Threads, Enter(t), UNCHANGED <<conn, attached>>
  PROVE  OwnedInv'
BY DEF TypeOK, ManagedInv, OwnedInv, Enter, Holding, Retained

LEMMA OwnedStep == TypeInv /\ ManagedInv /\ OwnedInv /\ [Next]_vars => OwnedInv'
<1> SUFFICES ASSUME TypeInv, ManagedInv, OwnedInv, [Next]_vars PROVE OwnedInv' OBVIOUS
<1> USE DEF TypeInv, TypeOK, OwnedInv, daemonVars, taskVars
<1>1. CASE UNCHANGED <<states, pc, conn, attached>> BY <1>1
<1>2. ASSUME NEW u \in Turns, TurnStarts(u) \/ TurnEnds(u) PROVE UNCHANGED <<states, pc, conn, attached>>
  BY <1>2 DEF TurnStarts, TurnEnds
<1>3. CASE Reconnect
  <2>1. conn' # 1 /\ UNCHANGED <<states, pc>> BY <1>3 DEF Reconnect
  <2> QED BY <2>1
<1>4. CASE Ingress \/ UNCHANGED vars \/ \E t \in Threads : ThreadUpdated(t)
  BY <1>1, <1>4 DEF Ingress, vars, ThreadUpdated
<1>5. ASSUME NEW t \in Threads, HandleSignal(t) PROVE OwnedInv'
  BY <1>5, EnterOwned DEF HandleSignal
<1>6. ASSUME NEW t \in Threads, Discover(t) PROVE OwnedInv'
  <2>1. CASE Begin(t) BY <2>1, <1>6 DEF Begin
  <2>2. CASE Attach(t) BY <2>2, <1>6 DEF Attach
  <2>3. CASE ResumeOk(t) BY <2>3, <1>6 DEF ResumeOk
  <2>4. CASE ResumeAgain(t) BY <2>4, <1>6 DEF ResumeAgain
  <2>5. CASE RetryElapses(t) BY <2>5, <1>6 DEF RetryElapses
  <2>6. CASE ResumeFails(t) BY <2>6, <1>6 DEF ResumeFails
  <2>7. CASE Cancel(t) BY <1>1, <2>7 DEF Cancel
  <2>8. CASE AnswerRead(t) BY <2>8, <1>6 DEF AnswerRead
  <2>9. CASE ReadOk(t) \/ ReadFails(t) BY <2>9, <1>6 DEF ReadOk, ReadFails
  <2> QED BY <1>6, <2>1, <2>2, <2>3, <2>4, <2>5, <2>6, <2>7, <2>8, <2>9 DEF Discover
<1>7. CASE DiscoverCandidate BY <1>7, EnterOwned DEF DiscoverCandidate, CurInv
<1>8. CASE StartPass \/ FirstPage \/ NextPage \/ ListFails \/ AnswerCandidate \/ CandidateRead \/ CandidateFails
  BY <1>1, <1>8 DEF StartPass, FirstPage, NextPage, ListFails, AnswerCandidate, CandidateRead, CandidateFails
<1> QED BY <1>2, <1>1, <1>3, <1>4, <1>5, <1>6, <1>7, <1>8 DEF Next, Reconcile

\* Until the connection is lost a Subscribed thread is resumed on it, at rest or
\* not: what daemon-transport/spec.md says of every connection holds of the first.
THEOREM SubscribedIsAttached ==
    Spec => [](conn = 1 => \A t \in Threads : states[t] = "Subscribed" => t \in attached)
<1>1. Init => OwnedInv BY DEF Init, OwnedInv
<1>2. OwnedInv => (conn = 1 => \A t \in Threads : states[t] = "Subscribed" => t \in attached)
  BY DEF OwnedInv
<1> QED BY <1>1, <1>2, OwnedStep, TypeInvariant, ManagedInvariant, PTL DEF Spec

\* The pass has t before it, or has left it aside.
Ahead(t) ==
    \/ t \in found \cup behind \cup skipped
    \/ cur = t /\ pass \in {"read", "answered", "discover"}

\* A list that is not being read has no threads left, and a pass that is over no
\* candidates.
ListInv ==
    /\ pass \in {"idle", "list"} => found = {}
    /\ pass # "page" => behind = {}

\* A thread in flight that nobody has looked at: the pass has it before it, or
\* the next list will have it.
SightInv ==
    ListInv /\ \A t \in Threads :
        states[t] = "Unseen" /\ Running(t) # None => t \in above \/ Ahead(t)

\* No other thread becomes Unseen, nor the one whose discover begins.
LEMMA NeverUnseen ==
  ASSUME TypeInv, [Next]_vars
  PROVE  \A t \in Threads : states'[t] = "Unseen" => states[t] = "Unseen"
<1> USE DEF TypeInv, TypeOK, taskVars
<1>1. ASSUME NEW t \in Threads, Enter(t) PROVE \A s \in Threads : states'[s] = "Unseen" => states[s] = "Unseen"
  BY <1>1 DEF Enter
<1>2. ASSUME NEW u \in Turns, TurnStarts(u) \/ TurnEnds(u) PROVE UNCHANGED states
  BY <1>2 DEF TurnStarts, TurnEnds
<1>3. CASE Reconnect \/ Ingress \/ UNCHANGED vars \/ \E t \in Threads : ThreadUpdated(t)
  BY <1>3 DEF Reconnect, Ingress, vars, ThreadUpdated
<1>4. ASSUME NEW t \in Threads, HandleSignal(t) PROVE Enter(t) BY <1>4 DEF HandleSignal
<1>5. ASSUME NEW t \in Threads, Discover(t) PROVE \A s \in Threads : states'[s] = "Unseen" => states[s] = "Unseen"
  <2>1. CASE ResumeOk(t) \/ ResumeAgain(t) \/ RetryElapses(t) \/ ResumeFails(t)
    BY <2>1 DEF ResumeOk, ResumeAgain, RetryElapses, ResumeFails
  <2>2. CASE Begin(t) \/ Attach(t) \/ Cancel(t) \/ AnswerRead(t) \/ ReadOk(t) \/ ReadFails(t)
    BY <2>2 DEF Begin, Attach, Cancel, AnswerRead, ReadOk, ReadFails
  <2> QED BY <1>5, <2>1, <2>2 DEF Discover
<1>6. CASE DiscoverCandidate
  <2>1. cur \in Threads /\ Enter(cur) BY <1>6 DEF DiscoverCandidate, CurInv
  <2> QED BY <1>1, <2>1
<1>7. CASE StartPass \/ FirstPage \/ NextPage \/ ListFails \/ AnswerCandidate \/ CandidateRead \/ CandidateFails
  BY <1>7 DEF StartPass, FirstPage, NextPage, ListFails, AnswerCandidate, CandidateRead, CandidateFails
<1> QED BY <1>1, <1>2, <1>3, <1>4, <1>5, <1>6, <1>7 DEF Next, Reconcile

\* The check of discover leaves no thread Unseen that it looks at.
LEMMA EnterSees ==
  ASSUME TypeOK, NEW t \in Threads, Enter(t) PROVE states'[t] # "Unseen"
BY DEF TypeOK, Enter, Holding, Retained

\* The pass goes on past a thread it need not come back to.
LEMMA AdvanceAhead ==
  ASSUME ListInv, pass # "page", Advance(found), UNCHANGED behind, skipped \subseteq skipped',
         pass \in {"read", "answered", "discover"} =>
            states'[cur] # "Unseen" \/ Running(cur) = None \/ cur \in skipped'
  PROVE  /\ ListInv'
         /\ \A t \in Threads :
               states'[t] = "Unseen" /\ Running(t) # None /\ Ahead(t) => Ahead(t)'
<1>1. /\ pass' \in {"idle", "read"} /\ (pass' = "idle" => found' = {})
      /\ \A t \in found : t \in found' \/ (cur' = t /\ pass' = "read")
  BY DEF Advance
<1> QED BY <1>1 DEF ListInv, Ahead

\* A page puts what is ahead of the list before the pass, behind the cursor, or
\* aside; of what the pass had before it none is lost.
LEMMA PageAhead ==
  ASSUME NEW ahead, Page(ahead)
  PROVE  /\ ListInv'
         /\ \A t \in found \cup ahead \cup skipped : Ahead(t)'
<1>1. PICK some \in SUBSET ahead :
        \/ /\ pass' = "page" /\ found' = found \cup some /\ behind' = ahead \ some
           /\ UNCHANGED <<cur, due, booted, skipped>>
        \/ /\ Advance(found \cup some) /\ behind' = {}
           /\ skipped' = skipped \cup (ahead \ some)
  BY DEF Page
<1>2. CASE Advance(found \cup some) /\ behind' = {} /\ skipped' = skipped \cup (ahead \ some)
  <2>1. /\ pass' \in {"idle", "read"} /\ (pass' = "idle" => found' = {})
        /\ \A t \in found \cup some : t \in found' \/ (cur' = t /\ pass' = "read")
    BY <1>2 DEF Advance
  <2> QED BY <1>2, <2>1 DEF ListInv, Ahead
<1> QED BY <1>1, <1>2 DEF ListInv, Ahead

\* The daemon's own steps and those that begin a list or give it up.
Turning ==
    \/ \E u \in Turns : TurnStarts(u) \/ TurnEnds(u)
    \/ \E t \in Threads : ThreadUpdated(t)
    \/ FirstPage \/ ListFails

\* In all others what the pass has before it stays there until it is looked at.
LEMMA AheadStep ==
  ASSUME TypeInv, ListInv, [Next]_vars, ~Turning
  PROVE  /\ UNCHANGED <<above, moved>> /\ ListInv'
         /\ \A t \in Threads :
               states'[t] = "Unseen" /\ Running(t) # None /\ Ahead(t) => Ahead(t)'
<1> DEFINE Goal == /\ UNCHANGED <<above, moved>> /\ ListInv'
                   /\ \A t \in Threads :
                        states'[t] = "Unseen" /\ Running(t) # None /\ Ahead(t) => Ahead(t)'
<1> USE DEF TypeInv
<1>1. ASSUME UNCHANGED <<above, behind, moved, found, cur, skipped>>,
             pass' = pass \/ (pass = "answered" /\ pass' = "discover")
                          \/ (pass = "read" /\ pass' = "answered")
                          \/ (pass = "idle" /\ pass' = "list")
      PROVE  Goal
  BY <1>1 DEF ListInv, Ahead
<1>2. CASE Reconnect \/ Ingress \/ UNCHANGED vars
  BY <1>1, <1>2 DEF Reconnect, Ingress, vars, daemonVars, passVars, pastVars
<1>3. ASSUME NEW t \in Threads, HandleSignal(t) \/ Discover(t) PROVE Goal
  <2>1. /\ UNCHANGED <<above, behind, moved, skipped>>
        /\ UNCHANGED <<pass, found, cur>> \/ Returns(t)
    BY <1>3 DEF HandleSignal, Discover, Begin, Attach, ResumeOk, ResumeAgain, RetryElapses,
       ResumeFails, Cancel, AnswerRead, ReadOk, ReadFails, daemonVars, passVars, pastVars
  <2>2. CASE UNCHANGED <<pass, found, cur>> BY <1>1, <2>1, <2>2
  <2>3. CASE pass = "join" /\ Advance(found) BY <2>1, <2>3, AdvanceAhead
  <2> QED BY <2>1, <2>2, <2>3 DEF Returns
<1>4. CASE StartPass \/ CandidateRead
  BY <1>1, <1>4 DEF StartPass, CandidateRead, daemonVars, pastVars
<1>5. CASE NextPage
  <2>1. pass = "page" /\ Page(behind) /\ UNCHANGED <<above, moved>> BY <1>5 DEF NextPage
  <2> QED BY <2>1, PageAhead DEF Ahead
<1>6. CASE AnswerCandidate
  <2>1. CASE Running(cur) = None /\ Advance(found)
    BY <1>6, <2>1, AdvanceAhead DEF AnswerCandidate, daemonVars, pastVars
  <2>2. CASE pass' = "answered" /\ UNCHANGED <<found, cur>>
    BY <1>1, <1>6, <2>2 DEF AnswerCandidate, daemonVars, pastVars
  <2> QED BY <1>6, <2>1, <2>2 DEF AnswerCandidate
<1>7. CASE CandidateFails BY <1>7, AdvanceAhead DEF CandidateFails, daemonVars
<1>8. CASE DiscoverCandidate
  <2>1. /\ cur \in Threads /\ Enter(cur) /\ pass = "discover"
        /\ UNCHANGED <<above, behind, moved, skipped>>
    BY <1>8 DEF DiscoverCandidate, CurInv, daemonVars, pastVars
  <2>2. states'[cur] # "Unseen" BY <2>1, EnterSees
  <2>3. CASE Advance(found) BY <2>1, <2>2, <2>3, AdvanceAhead
  <2>4. CASE pass' = "join" /\ UNCHANGED <<found, cur>>
    BY <2>1, <2>2, <2>4 DEF ListInv, Ahead
  <2> QED BY <1>8, <2>3, <2>4 DEF DiscoverCandidate
<1> QED BY <1>2, <1>3, <1>4, <1>5, <1>6, <1>7, <1>8 DEF Next, Reconcile, Turning

\* A turn starts or ends, or goes on: its thread is above, the others stay.
LEMMA UpdateStep ==
  ASSUME TypeInv, OneRunning, NEW s \in Threads,
         \/ \E u \in Turns : ThreadOf[u] = s /\ (TurnStarts(u) \/ TurnEnds(u))
         \/ ThreadUpdated(s)
  PROVE  /\ above' = above \cup {s} /\ behind' = behind \ {s}
         /\ moved' = moved \cup ({s} \cap behind)
         /\ UNCHANGED <<pass, found, cur, skipped, listed, states, signals>>
         /\ \A t : t # s => Running(t)' = Running(t)
<1>1. ASSUME NEW u \in Turns, ThreadOf[u] = s, TurnStarts(u) \/ TurnEnds(u)
      PROVE  \A t : t # s => Running(t)' = Running(t)
  BY <1>1, StartsRunning, EndsRunning DEF TypeInv
<1>2. ASSUME ThreadUpdated(s) PROVE \A t : Running(t)' = Running(t)
  BY <1>2 DEF ThreadUpdated, Running
<1> QED BY <1>1, <1>2 DEF TurnStarts, TurnEnds, ThreadUpdated, Updated, taskVars, passVars, pastVars

LEMMA SightStep == TypeInv /\ OneRunning /\ SightInv /\ [Next]_vars => SightInv'
<1> SUFFICES ASSUME TypeInv, OneRunning, SightInv, [Next]_vars PROVE SightInv' OBVIOUS
<1>1. \A t \in Threads : states'[t] = "Unseen" => states[t] = "Unseen" BY NeverUnseen
<1>2. ASSUME NEW s \in Threads,
             \/ \E u \in Turns : ThreadOf[u] = s /\ (TurnStarts(u) \/ TurnEnds(u))
             \/ ThreadUpdated(s)
      PROVE  SightInv'
  <2>1. /\ above' = above \cup {s} /\ behind' = behind \ {s}
        /\ UNCHANGED <<pass, found, cur, skipped>>
        /\ \A t : t # s => Running(t)' = Running(t)
    BY <1>2, UpdateStep
  <2> QED BY <1>1, <2>1 DEF SightInv, ListInv, Ahead
<1>3. ASSUME \A u \in Turns : ~TurnStarts(u) /\ ~TurnEnds(u)
      PROVE  \A t : Running(t)' = Running(t)
  BY <1>3, StillRunning
<1>4. CASE FirstPage
  <2>1. pass = "list" /\ Page(above) BY <1>4 DEF FirstPage
  <2>2. \A t : Running(t)' = Running(t) BY <1>4 DEF FirstPage, Running
  <2>3. found = {} /\ behind = {} BY <2>1 DEF SightInv, ListInv
  <2> QED BY <1>1, <2>1, <2>2, <2>3, PageAhead DEF SightInv, Ahead
<1>5. CASE ListFails
  <2>1. /\ pass \in {"list", "page"} /\ pass' \in {"idle", "off"}
        /\ above' = above \cup found \cup behind /\ found' = {} /\ behind' = {}
        /\ UNCHANGED <<status, skipped>>
    BY <1>5 DEF ListFails
  <2>2. \A t : Running(t)' = Running(t) BY <2>1 DEF Running
  <2> QED BY <1>1, <2>1, <2>2 DEF SightInv, ListInv, Ahead
<1>6. CASE ~Turning
  <2>1. \A t : Running(t)' = Running(t) BY <1>3, <1>6 DEF Turning
  <2> QED BY <1>1, <1>6, <2>1, AheadStep DEF SightInv
<1>7. \A u \in Turns : ThreadOf[u] \in Threads BY Limits
<1> QED BY <1>2, <1>4, <1>5, <1>6, <1>7 DEF Turning

\* Its signal is in the feed, or a task has been spawned for it.
Called(q, s, t) ==
    (\E i \in 1 .. Len(q) : q[i].kind = "signal" /\ q[i].thread = t) \/ s[t] > 0

\* A thread updated since the list began, with a turn that began since then too, is
\* on its way to a discover of its own; if the turn is older the pass has the thread
\* before it, but for one that has moved past the cursor.
CallInv ==
    listed => \A t \in above : states[t] = "Unseen" /\ Running(t) # None =>
        Called(feed, signals, t) \/ t \in moved \/ Ahead(t)

\* More events do not take away a call.
LEMMA CalledOn ==
  ASSUME NEW q \in Seq(Event), NEW p, p \in Seq(Event), NEW s, NEW t, Called(q, s, t)
  PROVE  Called(q \o p, s, t)
BY DEF Called

\* An applied signal has its task.
LEMMA CalledThrough ==
  ASSUME TypeInv, Ingress, NEW t \in Threads, Called(feed, signals, t)
  PROVE  Called(feed', signals', t)
<1> DEFINE e == Head(feed)
<1>1. e \in Event /\ feed \in Seq(Event) /\ feed # <<>> /\ feed' = Tail(feed) /\ e = feed[1]
      /\ e.thread \in Threads
  <2>1. feed \in Seq(Event) /\ feed # <<>> /\ feed' = Tail(feed) BY DEF Ingress, TypeInv, TypeOK
  <2>2. e \in Event /\ e = feed[1] BY <2>1
  <2> QED BY <2>1, <2>2 DEF Event
<1>2. signals' = IF e.kind = "signal" THEN [signals EXCEPT ![e.thread] = @ + 1] ELSE signals
  BY DEF Ingress
<1>3. signals \in [Threads -> Nat] BY DEF TypeInv, TypeOK
<1>4. CASE signals[t] > 0
  <2>1. signals'[t] > 0 BY <1>1, <1>2, <1>3, <1>4
  <2> QED BY <2>1 DEF Called
<1>5. ASSUME NEW i \in 1 .. Len(feed), feed[i].kind = "signal", feed[i].thread = t
      PROVE  Called(feed', signals', t)
  <2>1. CASE i = 1
    <3>1. signals'[t] = signals[t] + 1 BY <1>1, <1>2, <1>3, <1>5, <2>1
    <3> QED BY <3>1, <1>3 DEF Called
  <2>2. CASE i # 1
    <3>1. i - 1 \in 1 .. Len(Tail(feed)) /\ Tail(feed)[i - 1] = feed[i] BY <1>1, <2>2
    <3> QED BY <3>1, <1>1, <1>5 DEF Called
  <2> QED BY <2>1, <2>2
<1> QED BY <1>4, <1>5 DEF Called

LEMMA CallStep ==
  TypeInv /\ OneRunning /\ SightInv /\ CallInv /\ [Next]_vars => CallInv'
<1> SUFFICES ASSUME TypeInv, OneRunning, SightInv, CallInv, [Next]_vars PROVE CallInv' OBVIOUS
<1> USE DEF TypeInv
<1>0. above \subseteq Threads /\ above' \subseteq Threads
  <2>1. TypeInv' BY TypeStep
  <2> QED BY <2>1 DEF TypeOK
<1>1. \A t \in Threads : states'[t] = "Unseen" => states[t] = "Unseen" BY NeverUnseen
<1>2. ASSUME NEW s \in Threads,
             \/ \E u \in Turns : ThreadOf[u] = s /\ (TurnStarts(u) \/ TurnEnds(u))
             \/ ThreadUpdated(s),
             \A t \in Threads : Called(feed, signals, t) => Called(feed', signals, t),
             \/ Running(s)' = None \/ Called(feed', signals, s)
             \/ Running(s)' = Running(s)
      PROVE  CallInv'
  <2>1. /\ above' = above \cup {s} /\ behind' = behind \ {s}
        /\ moved' = moved \cup ({s} \cap behind)
        /\ UNCHANGED <<pass, found, cur, skipped, listed, states, signals>>
        /\ \A t : t # s => Running(t)' = Running(t)
    BY <1>2, UpdateStep
  <2>2. ASSUME listed, states[s] = "Unseen", Running(s) # None
        PROVE  Called(feed, signals, s) \/ s \in moved \/ Ahead(s)
    BY <2>2 DEF CallInv, SightInv
  <2>3. ASSUME NEW t \in Threads, Ahead(t) PROVE Ahead(t)' \/ t \in moved'
    BY <2>1, <2>3 DEF Ahead
  <2> QED BY <1>0, <1>2, <2>1, <2>2, <2>3 DEF CallInv
<1>3. ASSUME NEW u \in Turns, TurnStarts(u) PROVE CallInv'
  <2> DEFINE t == ThreadOf[u]
             n == Note("signal", t, None)
             m == Note("turn/started", t, u)
  <2>1. t \in Threads /\ n \in Event /\ m \in Event /\ feed \in Seq(Event)
    BY Limits, NoteType DEF TypeOK
  <2>2. PICK p \in Seq(Event) : feed' = Append(feed, n) \o p
    BY <1>3, <2>1, <<>> \in Seq(Event), <<m>> \in Seq(Event) DEF TurnStarts
  <2>3. Append(feed, n) \in Seq(Event) /\ Append(feed, n) = feed \o <<n>> /\ <<n>> \in Seq(Event)
    BY <2>1
  <2>4. Called(Append(feed, n), signals, t)
    <3>1. Len(Append(feed, n)) = Len(feed) + 1 /\ Append(feed, n)[Len(feed) + 1] = n
          /\ Len(feed) + 1 \in 1 .. Len(Append(feed, n))
      BY <2>1
    <3> QED BY <3>1 DEF Called, Note
  <2>5. Called(feed', signals, t) BY <2>2, <2>3, <2>4, CalledOn
  <2>6. ASSUME NEW s \in Threads, Called(feed, signals, s) PROVE Called(feed', signals, s)
    BY <2>1, <2>2, <2>3, <2>6, CalledOn
  <2> QED BY <1>2, <1>3, <2>1, <2>5, <2>6
<1>4. ASSUME NEW u \in Turns, TurnEnds(u) PROVE CallInv'
  <2> DEFINE t == ThreadOf[u]
  <2>1. t \in Threads /\ feed \in Seq(Event) /\ Note("turn/completed", t, u) \in Event
        /\ Note("idle", t, None) \in Event
    BY Limits, NoteType DEF TypeOK
  <2>2. PICK n \in Event : feed' = feed \o <<n>>
    <3>1. PICK n \in Event : feed' = Append(feed, n) BY <1>4, <2>1 DEF TurnEnds
    <3> QED BY <2>1, <3>1
  <2>3. <<n>> \in Seq(Event) BY <2>2
  <2>4. \A s \in Threads : Called(feed, signals, s) => Called(feed', signals, s)
    BY <2>1, <2>2, <2>3, CalledOn
  <2>5. Running(t)' = None BY <1>4, EndsRunning
  <2> QED BY <1>2, <1>4, <2>1, <2>4, <2>5
<1>5. ASSUME NEW t \in Threads, ThreadUpdated(t) PROVE CallInv'
  <2>1. UNCHANGED <<feed, status>> BY <1>5 DEF ThreadUpdated
  <2>2. Running(t)' = Running(t) BY <2>1 DEF Running
  <2> QED BY <1>2, <1>5, <2>1, <2>2
<1>6. CASE FirstPage BY <1>6 DEF FirstPage, CallInv
<1>7. CASE ListFails
  <2>1. CASE pass = "page" BY <1>7, <2>1 DEF ListFails, CallInv
  <2>2. CASE pass = "list"
    <3>1. found = {} /\ behind = {} BY <2>2 DEF SightInv, ListInv
    <3>2. /\ above' = above /\ found' = {} /\ behind' = {}
          /\ UNCHANGED <<status, moved, skipped, feed, signals, states>> /\ (listed' => listed)
      BY <1>7, <2>2, <3>1 DEF ListFails, taskVars
    <3>3. \A t : Running(t)' = Running(t) BY <3>2 DEF Running
    <3>4. \A t : Ahead(t) => Ahead(t)' BY <2>2, <3>1, <3>2 DEF Ahead
    <3> QED BY <3>2, <3>3, <3>4 DEF CallInv
  <2> QED BY <1>7, <2>1, <2>2 DEF ListFails
<1>8. CASE ~Turning
  <2> DEFINE Calls == /\ listed' => listed
                      /\ \A t \in Threads : states'[t] = "Unseen" /\ Called(feed, signals, t) =>
                              Called(feed', signals', t)
  <2>1. \A t : Running(t)' = Running(t) BY <1>8, StillRunning DEF Turning
  <2>2. /\ UNCHANGED <<above, moved>>
        /\ \A t \in Threads :
              states'[t] = "Unseen" /\ Running(t) # None /\ Ahead(t) => Ahead(t)'
    BY <1>8, AheadStep DEF SightInv
  <2>3. ASSUME UNCHANGED <<listed, feed, signals>> PROVE Calls BY <2>3
  <2>4. ASSUME Calls PROVE CallInv' BY <1>0, <1>1, <2>1, <2>2, <2>4 DEF CallInv
  <2>5. CASE Reconnect BY <2>5 DEF Reconnect, CallInv
  <2>6. CASE Ingress BY <2>4, <2>6, CalledThrough DEF Ingress
  <2>7. ASSUME NEW t \in Threads, HandleSignal(t) PROVE CallInv'
    <3>1. states'[t] # "Unseen" BY <2>7, EnterSees DEF HandleSignal
    <3>2. signals' = [signals EXCEPT ![t] = @ - 1] /\ signals \in [Threads -> Nat]
          /\ UNCHANGED <<listed, feed>>
      BY <2>7 DEF HandleSignal, TypeOK, daemonVars, pastVars
    <3> QED BY <2>4, <3>1, <3>2 DEF Called
  <2>8. ASSUME NEW t \in Threads, Discover(t) PROVE CallInv'
    BY <2>3, <2>4, <2>8 DEF Discover, Begin, Attach, ResumeOk, ResumeAgain, RetryElapses,
       ResumeFails, Cancel, AnswerRead, ReadOk, ReadFails, daemonVars, pastVars
  <2>9. CASE StartPass \/ NextPage \/ AnswerCandidate \/ CandidateRead \/ CandidateFails
             \/ DiscoverCandidate
    BY <2>3, <2>4, <2>9 DEF StartPass, NextPage, AnswerCandidate, CandidateRead,
       CandidateFails, DiscoverCandidate, daemonVars, taskVars, pastVars
  <2>10. CASE UNCHANGED vars
    BY <2>3, <2>4, <2>10 DEF vars, daemonVars, taskVars, pastVars
  <2> QED BY <1>8, <2>5, <2>6, <2>7, <2>8, <2>9, <2>10 DEF Next, Reconcile, Turning
<1> QED BY <1>3, <1>4, <1>5, <1>6, <1>7, <1>8 DEF Turning

\* A turn in flight that the connection does not hear about is in a thread that
\* failed, is over the cap, was listed and passed over, is Subscribed of old, or
\* moved past the cursor of a list and stays above the watermark: for any threads,
\* turns, limits and pages, and any order of signals, passes, answers and reconnects.
THEOREM BlindSpots == Spec => []BlindSpotsAreReported
<1> DEFINE I == TypeInv /\ ManagedInv /\ OneRunning /\ OwnedInv /\ SightInv /\ CallInv
<1>1. Init => OneRunning /\ OwnedInv /\ SightInv /\ CallInv
  <2> SUFFICES ASSUME Init PROVE OneRunning /\ OwnedInv /\ SightInv /\ CallInv OBVIOUS
  <2>1. OneRunning /\ OwnedInv /\ CallInv BY DEF Init, OneRunning, OwnedInv, CallInv
  <2>2. \A t \in Threads : Running(t) # None => t \in above BY DEF Init, Running
  <2>3. ListInv BY DEF Init, ListInv
  <2> QED BY <2>1, <2>2, <2>3 DEF SightInv
<1>2. I /\ [Next]_vars => (OneRunning /\ OwnedInv /\ SightInv /\ CallInv)'
  <2> SUFFICES ASSUME I, [Next]_vars PROVE (OneRunning /\ OwnedInv /\ SightInv /\ CallInv)'
    OBVIOUS
  <2>1. OneRunning' BY OneRunningStep DEF TypeInv
  <2>2. OwnedInv' BY OwnedStep
  <2>3. SightInv' BY SightStep
  <2>4. CallInv' BY CallStep
  <2> QED BY <2>1, <2>2, <2>3, <2>4
<1>3. I => BlindSpotsAreReported
  <2> SUFFICES ASSUME I, AtRest, NEW t \in Threads \ attached, Running(t) # None
               PROVE  \/ states[t] \in {"Failed", "Ephemeral", "CapacityDegraded"}
                      \/ states[t] = "Subscribed" /\ conn > 1
                      \/ t \in skipped
                      \/ t \in moved \cap above
    BY DEF BlindSpotsAreReported
  <2> USE DEF AtRest, Quiet
  <2>1. states[t] \in Settled \cup Retained /\ conn \in 1 .. MaxConns
    BY DEF TypeInv, TypeOK
  <2>2. CASE states[t] = "Subscribed"
    <3>1. conn # 1 BY <2>2 DEF OwnedInv
    <3> QED BY <2>1, <2>2, <3>1, Limits
  <2>3. CASE states[t] = "Unseen"
    <3>1. feed = <<>> /\ signals[t] = 0 /\ listed /\ pass = "idle" OBVIOUS
    <3>2. ~Called(feed, signals, t) BY <3>1 DEF Called
    <3>3. Ahead(t) => t \in skipped BY <3>1 DEF SightInv, ListInv, Ahead
    <3>4. t \in above \/ t \in skipped BY <2>3, <3>3 DEF SightInv
    <3>5. t \in above => t \in moved \/ t \in skipped BY <2>3, <3>1, <3>2, <3>3 DEF CallInv
    <3> QED BY <3>4, <3>5
  <2>4. CASE states[t] \in {"Subscribing", "RetryWait"} BY <2>4 DEF OwnedInv
  <2> QED BY <2>1, <2>2, <2>3, <2>4 DEF Settled, Retained
<1>4. Spec => []I
  BY <1>1, <1>2, TypeInvariant, ManagedInvariant, PTL DEF Spec
<1> QED BY <1>3, <1>4, PTL

-----------------------------------------------------------------------------
(* The turn in flight                                                      *)

\* The turn events of t in a feed q.
Turned(q, t) == {i \in 1 .. Len(q) : q[i].thread = t /\ q[i].turn # None}
IsStart(e) == e.kind = "turn/started"
IsEnd(e) == e.kind = "turn/completed"

\* The newest of them agrees with the turn r that the daemon runs.
Latest(q, t, r) ==
    \A i \in Turned(q, t) : (\A j \in Turned(q, t) : j <= i) =>
        r = IF IsStart(q[i]) THEN q[i].turn ELSE None

\* What ends is what the event before has started.
Paired(q, t) ==
    \A i, j \in Turned(q, t) :
        i < j /\ (\A k \in Turned(q, t) : k <= i \/ j <= k) /\ IsEnd(q[j]) =>
            IsStart(q[i]) /\ q[i].turn = q[j].turn

\* The turn v known of t is the daemon's once q has been applied: q brings it,
\* and if all it has is the end of a turn, v is that turn or already none.
Fits(v, q, t, r) ==
    /\ Turned(q, t) = {} => v = r
    /\ \A i \in Turned(q, t) : Turned(q, t) = {i} /\ IsEnd(q[i]) => v \in {q[i].turn, None}

WellFormed(e) == e.turn = None <=> e.kind \in {"signal", "idle"}

\* An event that is not about a turn of t.
LEMMA Unrelated ==
  ASSUME NEW q \in Seq(Event), NEW e \in Event, NEW t, NEW r, ~(e.thread = t /\ e.turn # None)
  PROVE  /\ Turned(Append(q, e), t) = Turned(q, t)
         /\ Latest(q, t, r) => Latest(Append(q, e), t, r)
         /\ Paired(q, t) => Paired(Append(q, e), t)
         /\ \A v : Fits(v, q, t, r) => Fits(v, Append(q, e), t, r)
<1> DEFINE p == Append(q, e)
<1>1. Len(p) = Len(q) + 1 /\ p[Len(q) + 1] = e /\ \A i \in 1 .. Len(q) : p[i] = q[i]
      /\ Len(q) \in Nat
  OBVIOUS
<1> HIDE DEF p
<1>2. Turned(p, t) = Turned(q, t) /\ \A i \in Turned(q, t) : p[i] = q[i]
  BY <1>1 DEF Turned
<1>3. /\ Latest(q, t, r) => Latest(p, t, r)
      /\ Paired(q, t) => Paired(p, t)
      /\ \A v : Fits(v, q, t, r) => Fits(v, p, t, r)
  BY <1>2 DEF Latest, Paired, Fits
<1> QED BY <1>2, <1>3 DEF p

\* A turn of t starts, and the event says so.
LEMMA Started ==
  ASSUME NEW q \in Seq(Event), NEW e \in Event, NEW t,
         IsStart(e), e.thread = t, e.turn # None, Paired(q, t)
  PROVE  /\ Latest(Append(q, e), t, e.turn) /\ Paired(Append(q, e), t)
         /\ \A v : Fits(v, Append(q, e), t, e.turn)
<1> DEFINE p == Append(q, e)
<1>1. Len(p) = Len(q) + 1 /\ p[Len(q) + 1] = e /\ (\A i \in 1 .. Len(q) : p[i] = q[i])
      /\ Len(q) \in Nat
  OBVIOUS
<1> HIDE DEF p
<1>2. Turned(p, t) = Turned(q, t) \cup {Len(q) + 1} /\ Turned(q, t) \subseteq 1 .. Len(q)
      /\ \A i \in Turned(q, t) : p[i] = q[i]
  BY <1>1 DEF Turned
<1>3. ~IsEnd(e) BY DEF IsStart, IsEnd
<1>4. Latest(p, t, e.turn) BY <1>1, <1>2 DEF Latest
<1>5. Paired(p, t)
  <2> SUFFICES ASSUME NEW i \in Turned(p, t), NEW j \in Turned(p, t), i < j,
                      \A k \in Turned(p, t) : k <= i \/ j <= k, IsEnd(p[j])
               PROVE  IsStart(p[i]) /\ p[i].turn = p[j].turn
    BY DEF Paired
  <2>1. j \in Turned(q, t) BY <1>1, <1>2, <1>3
  <2>2. i \in Turned(q, t) BY <1>1, <1>2, <2>1
  <2> QED BY <1>2, <2>1, <2>2 DEF Paired
<1>6. ASSUME NEW v PROVE Fits(v, p, t, e.turn)
  BY <1>1, <1>2, <1>3 DEF Fits
<1> QED BY <1>4, <1>5, <1>6 DEF p

\* The turn r of t ends, and the event says so.
LEMMA Ended ==
  ASSUME NEW q \in Seq(Event), NEW e \in Event, NEW t,
         IsEnd(e), e.thread = t, e.turn # None, Paired(q, t), Latest(q, t, e.turn)
  PROVE  /\ Latest(Append(q, e), t, None) /\ Paired(Append(q, e), t)
         /\ \A v : Fits(v, q, t, e.turn) => Fits(v, Append(q, e), t, None)
<1> DEFINE p == Append(q, e)
           n == Len(q) + 1
<1>1. Len(p) = n /\ p[n] = e /\ (\A i \in 1 .. Len(q) : p[i] = q[i])
      /\ Len(q) \in Nat
  OBVIOUS
<1> HIDE DEF p
<1>2. Turned(p, t) = Turned(q, t) \cup {n} /\ Turned(q, t) \subseteq 1 .. Len(q)
      /\ \A i \in Turned(q, t) : p[i] = q[i]
  BY <1>1 DEF Turned
<1>3. ~IsStart(e) BY DEF IsStart, IsEnd
<1>4. Latest(p, t, None) BY <1>1, <1>2, <1>3 DEF Latest
<1>5. Paired(p, t)
  <2> SUFFICES ASSUME NEW i \in Turned(p, t), NEW j \in Turned(p, t), i < j,
                      \A k \in Turned(p, t) : k <= i \/ j <= k, IsEnd(p[j])
               PROVE  IsStart(p[i]) /\ p[i].turn = p[j].turn
    BY DEF Paired
  <2>1. i \in Turned(q, t) BY <1>1, <1>2
  <2>2. CASE j = n
    <3>1. \A k \in Turned(q, t) : k <= i BY <1>1, <1>2, <2>2
    <3>2. e.turn = IF IsStart(q[i]) THEN q[i].turn ELSE None BY <2>1, <3>1 DEF Latest
    <3> QED BY <1>1, <1>2, <2>1, <2>2, <3>2
  <2>3. CASE j # n
    <3>1. j \in Turned(q, t) BY <1>2, <2>3
    <3> QED BY <1>2, <2>1, <3>1 DEF Paired
  <2> QED BY <2>2, <2>3
<1>6. ASSUME NEW v, Fits(v, q, t, e.turn) PROVE Fits(v, p, t, None)
  <2>1. Turned(p, t) # {} BY <1>2
  <2>2. ASSUME NEW i \in Turned(p, t), Turned(p, t) = {i} PROVE v \in {p[i].turn, None}
    <3>1. i = n /\ Turned(q, t) = {} BY <1>1, <1>2, <2>2
    <3> QED BY <1>1, <1>6, <3>1 DEF Fits
  <2> QED BY <2>1, <2>2 DEF Fits
<1> QED BY <1>4, <1>5, <1>6 DEF p

\* The positions of what is left of a feed.
LEMMA TailTurned ==
  ASSUME NEW q \in Seq(Event), q # <<>>, NEW t
  PROVE  /\ \A i \in Turned(Tail(q), t) : i \in Nat /\ i + 1 \in Turned(q, t) /\ Tail(q)[i] = q[i + 1]
         /\ \A i \in Turned(q, t) : i \in Nat /\ i >= 1 /\ (i # 1 => i - 1 \in Turned(Tail(q), t))
<1>1. Len(Tail(q)) = Len(q) - 1 /\ Len(q) \in Nat /\ \A i \in 1 .. Len(Tail(q)) : Tail(q)[i] = q[i + 1]
  OBVIOUS
<1> QED BY <1>1 DEF Turned

\* An event leaves the feed: the rest is still in order, and brings what was
\* known, changed by the event, to what the daemon runs.
LEMMA Applied ==
  ASSUME NEW q \in Seq(Event), q # <<>>, WellFormed(q[1]), NEW t, NEW r,
         Latest(q, t, r), Paired(q, t)
  PROVE  /\ Turned(Tail(q), t) # {} => Turned(q, t) # {}
         /\ Latest(Tail(q), t, r) /\ Paired(Tail(q), t)
         /\ \A v, w :
              /\ Fits(v, q, t, r)
              /\ \/ w = v /\ q[1].thread # t
                 \/ w = v /\ ~IsStart(q[1]) /\ ~IsEnd(q[1])
                 \/ w = q[1].turn /\ q[1].thread = t /\ IsStart(q[1])
                 \/ w = (IF v = q[1].turn THEN None ELSE v) /\ q[1].thread = t /\ IsEnd(q[1])
              => Fits(w, Tail(q), t, r)
<1> DEFINE p == Tail(q)
<1>1. /\ \A i \in Turned(p, t) : i \in Nat /\ i + 1 \in Turned(q, t) /\ p[i] = q[i + 1]
      /\ \A i \in Turned(q, t) : i \in Nat /\ i >= 1 /\ (i # 1 => i - 1 \in Turned(p, t))
  BY TailTurned
<1>2. 1 \in Turned(q, t) <=> q[1].thread = t /\ q[1].turn # None
  <2>1. 1 \in 1 .. Len(q) OBVIOUS
  <2> QED BY <2>1 DEF Turned
<1> HIDE DEF p
<1>3. Latest(p, t, r)
  <2> SUFFICES ASSUME NEW i \in Turned(p, t), \A j \in Turned(p, t) : j <= i
               PROVE  r = IF IsStart(p[i]) THEN p[i].turn ELSE None
    BY DEF Latest
  <2>1. i + 1 \in Turned(q, t) /\ \A j \in Turned(q, t) : j <= i + 1 BY <1>1
  <2> QED BY <1>1, <2>1 DEF Latest
<1>4. Paired(p, t)
  <2> SUFFICES ASSUME NEW i \in Turned(p, t), NEW j \in Turned(p, t), i < j,
                      \A k \in Turned(p, t) : k <= i \/ j <= k, IsEnd(p[j])
               PROVE  IsStart(p[i]) /\ p[i].turn = p[j].turn
    BY DEF Paired
  <2>1. /\ i \in Nat /\ i + 1 \in Turned(q, t) /\ p[i] = q[i + 1]
        /\ j \in Nat /\ j + 1 \in Turned(q, t) /\ p[j] = q[j + 1]
    BY <1>1
  <2>2. ASSUME NEW k \in Turned(q, t) PROVE k <= i + 1 \/ j + 1 <= k
    <3>1. k \in Nat /\ (k = 1 \/ k - 1 \in Turned(p, t)) BY <1>1
    <3>2. k = 1 \/ k - 1 <= i \/ j <= k - 1 BY <3>1
    <3> QED BY <2>1, <3>1, <3>2
  <2>3. i + 1 < j + 1 BY <2>1
  <2> QED BY <2>1, <2>2, <2>3 DEF Paired
<1>5. ASSUME NEW v, NEW w, Fits(v, q, t, r),
             \/ w = v /\ q[1].thread # t
             \/ w = v /\ ~IsStart(q[1]) /\ ~IsEnd(q[1])
             \/ w = q[1].turn /\ q[1].thread = t /\ IsStart(q[1])
             \/ w = (IF v = q[1].turn THEN None ELSE v) /\ q[1].thread = t /\ IsEnd(q[1])
      PROVE  Fits(w, p, t, r)
  <2>0. q[1].turn = None <=> ~IsStart(q[1]) /\ ~IsEnd(q[1])
    <3>1. q[1] \in Event OBVIOUS
    <3> QED BY <3>1 DEF WellFormed, IsStart, IsEnd, Event
  <2>1. CASE 1 \notin Turned(q, t)
    <3>1. w = v BY <1>2, <1>5, <2>0, <2>1
    <3>2. ASSUME Turned(p, t) = {} PROVE Turned(q, t) = {} BY <1>1, <2>1, <3>2
    <3>3. ASSUME NEW i \in Turned(p, t), Turned(p, t) = {i}
          PROVE  Turned(q, t) = {i + 1} /\ p[i] = q[i + 1]
      <4>1. i + 1 \in Turned(q, t) /\ p[i] = q[i + 1] BY <1>1
      <4>2. ASSUME NEW k \in Turned(q, t) PROVE k = i + 1
        <5>1. k \in Nat /\ k - 1 \in Turned(p, t) BY <1>1, <2>1
        <5> QED BY <3>3, <5>1
      <4> QED BY <4>1, <4>2
    <3> QED BY <1>5, <3>1, <3>2, <3>3 DEF Fits
  <2>2. CASE 1 \in Turned(q, t)
    <3>1. q[1].turn # None /\ q[1].thread = t BY <1>2, <2>2
    <3>2. ASSUME Turned(p, t) = {} PROVE w = r
      <4>1. Turned(q, t) = {1} BY <1>1, <2>2, <3>2
      <4>2. r = IF IsStart(q[1]) THEN q[1].turn ELSE None BY <4>1 DEF Latest
      <4>3. IsEnd(q[1]) => v \in {q[1].turn, None} BY <1>5, <4>1 DEF Fits
      <4>4. ~(IsStart(q[1]) /\ IsEnd(q[1])) BY DEF IsStart, IsEnd
      <4> QED BY <1>5, <2>0, <3>1, <4>2, <4>3, <4>4
    <3>3. ASSUME NEW i \in Turned(p, t), Turned(p, t) = {i}, IsEnd(p[i])
          PROVE  w \in {p[i].turn, None}
      <4>1. i \in Nat /\ i + 1 \in Turned(q, t) /\ p[i] = q[i + 1] BY <1>1
      <4>2. \A k \in Turned(q, t) : k \in Nat /\ (k <= 1 \/ i + 1 <= k)
        <5> SUFFICES ASSUME NEW k \in Turned(q, t), k # 1 PROVE k \in Nat /\ k >= i + 1
          BY <1>1
        <5>1. k \in Nat /\ k - 1 \in Turned(p, t) BY <1>1
        <5> QED BY <3>3, <4>1, <5>1
      <4>3. 1 < i + 1
        <5>1. i \in 1 .. Len(p) BY DEF Turned
        <5> QED BY <4>1, <5>1
      <4>4. IsStart(q[1]) /\ q[1].turn = p[i].turn
        BY <2>2, <3>3, <4>1, <4>2, <4>3 DEF Paired
      <4>5. ~IsEnd(q[1]) BY <4>4 DEF IsStart, IsEnd
      <4> QED BY <1>5, <3>1, <4>4, <4>5
    <3> QED BY <3>2, <3>3 DEF Fits
  <2> QED BY <2>1, <2>2
<1>6. Turned(p, t) # {} => Turned(q, t) # {} BY <1>1
<1> QED BY <1>3, <1>4, <1>5, <1>6 DEF p
\* The discover of t is over, and has succeeded.
Through(t) == states[t] = "Subscribed" /\ pc[t] = "idle"

\* What is known of t: the answers of its reads under way, and its entry once
\* the discover is through.
Known(t, q, r) ==
    /\ pc[t] = "answered" => Fits(answer[t], q, t, r)
    /\ Through(t) =>
          /\ Fits(active[t], q, t, r)
          /\ pass = "answered" /\ cur = t => Fits(curAnswer, q, t, r)

\* The feed is well-formed; what it holds of a thread that is not in doubt is in
\* order, sent because the thread is attached, and what is known fits to it.
NewsInv ==
    /\ \A i \in 1 .. Len(feed) : WellFormed(feed[i])
    /\ \A t \in Threads \ unsure :
          /\ Turned(feed, t) # {} => t \in attached
          /\ Latest(feed, t, Running(t)) /\ Paired(feed, t)
          /\ t \in attached => Known(t, feed, Running(t))

\* A turn of a thread starts.
LEMMA StartNews == ASSUME TypeInv, OneRunning, NewsInv, NEW u \in Turns, TurnStarts(u) PROVE NewsInv'
<1> DEFINE t == ThreadOf[u]
           n == Note("signal", t, None)
           m == Note("turn/started", t, u)
           f == Append(feed, n)
<1>1. t \in Threads /\ n \in Event /\ m \in Event /\ feed \in Seq(Event) /\ u # None
  BY Limits, NoteType, TurnsAreNamed DEF TypeInv, TypeOK
<1>2. f \in Seq(Event) /\ feed' = IF t \in attached THEN Append(f, m) ELSE f
  BY <1>1 DEF TurnStarts
<1>3. /\ n.thread = t /\ n.turn = None /\ WellFormed(n)
      /\ m.thread = t /\ m.turn = u /\ IsStart(m) /\ WellFormed(m)
  BY <1>1 DEF Note, WellFormed, IsStart
<1>4. UNCHANGED <<entries, active, attached, states, pc, answer, pass, cur, curAnswer, unsure>>
  BY DEF TurnStarts, tableVars, taskVars, passVars, pastVars
<1>5. Running(t)' = u /\ \A s : s # t => Running(s)' = Running(s)
  BY StartsRunning DEF TypeInv
<1> HIDE DEF t, n, m
<1>6. \A i \in 1 .. Len(feed') : WellFormed(feed'[i])
  <2>1. \A i \in 1 .. Len(f) : WellFormed(f[i]) BY <1>1, <1>3 DEF NewsInv
  <2>2. \A i \in 1 .. Len(Append(f, m)) : WellFormed(Append(f, m)[i]) BY <1>1, <1>2, <1>3, <2>1
  <2> QED BY <1>2, <2>1, <2>2
<1>7. ASSUME NEW s \in Threads \ unsure
      PROVE  /\ Turned(f, s) = Turned(feed, s)
             /\ Latest(f, s, Running(s)) /\ Paired(f, s)
             /\ \A v : Fits(v, feed, s, Running(s)) => Fits(v, f, s, Running(s))
  BY <1>1, <1>3, Unrelated DEF NewsInv
<1> HIDE DEF f
<1>8. ASSUME NEW s \in Threads \ unsure
      PROVE  /\ Turned(feed', s) # {} => s \in attached
             /\ Latest(feed', s, Running(s)') /\ Paired(feed', s)
             /\ s \in attached =>
                   \A v : Fits(v, feed, s, Running(s)) => Fits(v, feed', s, Running(s)')
  <2>1. CASE s # t
    <3>1. CASE t \in attached
      <4>1. /\ Turned(Append(f, m), s) = Turned(f, s)
            /\ Latest(Append(f, m), s, Running(s)) /\ Paired(Append(f, m), s)
            /\ \A v : Fits(v, f, s, Running(s)) => Fits(v, Append(f, m), s, Running(s))
        BY <1>1, <1>2, <1>3, <1>7, <2>1, Unrelated
      <4> QED BY <1>2, <1>5, <1>7, <2>1, <3>1, <4>1 DEF NewsInv
    <3>2. CASE t \notin attached BY <1>2, <1>5, <1>7, <2>1, <3>2 DEF NewsInv
    <3> QED BY <3>1, <3>2
  <2>2. CASE s = t /\ t \in attached
    <3>1. /\ Latest(Append(f, m), t, u) /\ Paired(Append(f, m), t)
          /\ \A v : Fits(v, Append(f, m), t, u)
      BY <1>1, <1>2, <1>3, <1>7, <2>2, Started
    <3> QED BY <1>2, <1>5, <2>2, <3>1
  <2>3. CASE s = t /\ t \notin attached
    <3>1. Turned(f, t) = {} BY <1>7, <2>3 DEF NewsInv
    <3> QED BY <1>2, <2>3, <3>1 DEF Latest, Paired
  <2> QED BY <2>1, <2>2, <2>3
<1> QED BY <1>4, <1>6, <1>8 DEF NewsInv, Known, Through

\* The turn in flight of a thread ends.
LEMMA EndNews == ASSUME TypeInv, OneRunning, NewsInv, NEW u \in Turns, TurnEnds(u) PROVE NewsInv'
<1> DEFINE t == ThreadOf[u]
           n == Note("idle", t, None)
           m == Note("turn/completed", t, u)
<1>1. t \in Threads /\ n \in Event /\ m \in Event /\ feed \in Seq(Event) /\ u # None
  BY Limits, NoteType, TurnsAreNamed DEF TypeInv, TypeOK
<1>2. feed' = IF t \in attached THEN Append(feed, m) ELSE Append(feed, n)
  BY DEF TurnEnds
<1>3. /\ n.thread = t /\ n.turn = None /\ WellFormed(n)
      /\ m.thread = t /\ m.turn = u /\ IsEnd(m) /\ WellFormed(m)
  BY <1>1 DEF Note, WellFormed, IsEnd
<1>4. UNCHANGED <<entries, active, attached, states, pc, answer, pass, cur, curAnswer, unsure>>
  BY DEF TurnEnds, tableVars, taskVars, passVars, pastVars
<1>5. Running(t) = u /\ Running(t)' = None /\ \A s : s # t => Running(s)' = Running(s)
  BY EndsRunning DEF TypeInv
<1> HIDE DEF t, n, m
<1>6. \A i \in 1 .. Len(feed') : WellFormed(feed'[i])
  <2>1. \A i \in 1 .. Len(Append(feed, m)) : WellFormed(Append(feed, m)[i])
    BY <1>1, <1>3 DEF NewsInv
  <2>2. \A i \in 1 .. Len(Append(feed, n)) : WellFormed(Append(feed, n)[i])
    BY <1>1, <1>3 DEF NewsInv
  <2> QED BY <1>2, <2>1, <2>2
<1>7. ASSUME NEW s \in Threads \ unsure
      PROVE  /\ Turned(feed', s) # {} => s \in attached
             /\ Latest(feed', s, Running(s)') /\ Paired(feed', s)
             /\ s \in attached =>
                   \A v : Fits(v, feed, s, Running(s)) => Fits(v, feed', s, Running(s)')
  <2>1. CASE s # t
    <3>1. PICK e \in {n, m} : feed' = Append(feed, e) BY <1>2
    <3>2. e \in Event /\ e.thread # s BY <1>1, <1>3, <2>1, <3>1
    <3> QED BY <1>1, <1>5, <2>1, <3>1, <3>2, Unrelated DEF NewsInv
  <2>2. CASE s = t /\ t \in attached
    <3>1. Latest(feed, t, u) /\ Paired(feed, t) BY <1>5, <2>2 DEF NewsInv
    <3>2. /\ Latest(Append(feed, m), t, None) /\ Paired(Append(feed, m), t)
          /\ \A v : Fits(v, feed, t, u) => Fits(v, Append(feed, m), t, None)
      BY <1>1, <1>3, <3>1, Ended
    <3> QED BY <1>2, <1>5, <2>2, <3>2
  <2>3. CASE s = t /\ t \notin attached
    <3>1. Turned(Append(feed, n), t) = Turned(feed, t) BY <1>1, <1>3, Unrelated
    <3>2. Turned(feed', t) = {} BY <1>2, <2>3, <3>1 DEF NewsInv
    <3> QED BY <2>3, <3>2 DEF Latest, Paired
  <2> QED BY <2>1, <2>2, <2>3
<1> QED BY <1>4, <1>6, <1>7 DEF NewsInv, Known, Through

\* A new connection: what was resumed is resumed no more, and what the feed still
\* brings puts its threads in doubt.
LEMMA ReconnectNews == ASSUME TypeInv, NewsInv, Reconnect PROVE NewsInv'
<1>1. PICK n \in 0 .. Len(feed) :
        /\ feed' = SubSeq(feed, 1, n)
        /\ unsure' = unsure \cup {e.thread : e \in {x \in Range(SubSeq(feed, 1, n)) : x.turn # None}}
  BY DEF Reconnect
<1>2. feed \in Seq(Event) /\ attached' = {} BY DEF Reconnect, TypeInv, TypeOK
<1>3. Len(feed') = n /\ \A i \in 1 .. n : feed'[i] = feed[i] /\ i \in 1 .. Len(feed)
  BY <1>1, <1>2
<1>4. \A i \in 1 .. Len(feed') : WellFormed(feed'[i]) BY <1>3 DEF NewsInv
<1>5. ASSUME NEW t \in Threads \ unsure' PROVE Turned(feed', t) = {}
  <2>1. ASSUME NEW i \in 1 .. Len(feed'), feed'[i].thread = t, feed'[i].turn # None PROVE FALSE
    <3>1. feed'[i] \in Range(SubSeq(feed, 1, n)) BY <1>1, <1>2, <1>3, <2>1 DEF Range
    <3> QED BY <1>1, <1>5, <2>1, <3>1
  <2> QED BY <2>1 DEF Turned
<1> QED BY <1>2, <1>4, <1>5 DEF NewsInv, Latest, Paired

\* An event is applied; a read on its way that it is newer than is in doubt.
LEMMA IngressNews == ASSUME TypeInv, NewsInv, Ingress PROVE NewsInv'
<1> DEFINE e == feed[1]
<1>1. feed \in Seq(Event) /\ feed # <<>> /\ feed' = Tail(feed) /\ Head(feed) = e /\ e \in Event
  <2>1. feed \in Seq(Event) /\ feed # <<>> /\ feed' = Tail(feed) BY DEF Ingress, TypeInv, TypeOK
  <2> QED BY <2>1
<1>2. UNCHANGED <<status, attached, states, pc, answer, pass, cur, curAnswer>>
  BY DEF Ingress, passVars
<1>3. \A t : Running(t)' = Running(t) BY <1>2 DEF Running
<1>4. e.thread \in Threads /\ WellFormed(e) /\ e.kind \in {"signal", "idle", "turn/started", "turn/completed"}
  <2>1. 1 \in 1 .. Len(feed) BY <1>1
  <2> QED BY <1>1, <2>1 DEF NewsInv, Event
<1>5. \A i \in 1 .. Len(feed') : WellFormed(feed'[i])
  <2>1. \A i \in 1 .. Len(Tail(feed)) : Tail(feed)[i] = feed[i + 1] /\ i + 1 \in 1 .. Len(feed)
    BY <1>1
  <2> QED BY <1>1, <2>1 DEF NewsInv
<1>6. active' = [active EXCEPT ![e.thread] = TurnAfter(e)] /\ active \in [Threads -> Turns \cup {None}]
  BY <1>1 DEF Ingress, ApplyToTable, Upsert, Remove, TypeInv, TypeOK, TableTypeOK
<1>7. unsure' = IF \E u \in Answers(e.thread) : \/ IsEnd(e) /\ u = e.turn
                                                \/ IsStart(e) /\ u # e.turn
                THEN unsure \cup {e.thread} ELSE unsure
  BY <1>1 DEF Ingress, IsEnd, IsStart
<1> HIDE DEF e
<1>8. ASSUME NEW t \in Threads \ unsure',
             NEW v, Fits(v, feed, t, Running(t)), v \in Answers(t)
      PROVE  Fits(v, feed', t, Running(t))
  <2>1. /\ \/ e.thread # t
           \/ ~IsStart(e) /\ ~IsEnd(e)
           \/ v = e.turn /\ e.thread = t /\ IsStart(e)
           \/ v = (IF v = e.turn THEN None ELSE v) /\ e.thread = t /\ IsEnd(e)
    BY <1>7, <1>8 DEF IsStart, IsEnd
  <2>2. t \notin unsure BY <1>7, <1>8
  <2> QED BY <1>1, <1>4, <1>8, <2>1, <2>2, Applied DEF NewsInv, e
<1>9. ASSUME NEW t \in Threads \ unsure', Fits(active[t], feed, t, Running(t))
      PROVE  Fits(active'[t], feed', t, Running(t))
  <2>1. \/ active'[t] = active[t] /\ e.thread # t
        \/ active'[t] = active[t] /\ ~IsStart(e) /\ ~IsEnd(e)
        \/ active'[t] = e.turn /\ e.thread = t /\ IsStart(e)
        \/ active'[t] = (IF active[t] = e.turn THEN None ELSE active[t]) /\ e.thread = t /\ IsEnd(e)
    <3>1. CASE e.thread # t BY <1>4, <1>6, <3>1
    <3>2. CASE e.thread = t
      <4>1. active'[t] = TurnAfter(e) BY <1>6, <3>2
      <4>2. CASE IsStart(e) BY <3>2, <4>1, <4>2 DEF TurnAfter, IsStart
      <4>3. CASE IsEnd(e)
        <5>1. e.turn # None BY <1>4, <4>3 DEF WellFormed, IsEnd
        <5>2. TurnAfter(e) = IF active[t] = e.turn THEN None ELSE active[t]
          BY <3>2, <4>3, <5>1 DEF TurnAfter, IsEnd
        <5> QED BY <3>2, <4>1, <4>3, <5>2
      <4>4. CASE ~IsStart(e) /\ ~IsEnd(e)
        <5>1. TurnAfter(e) = active[t] BY <3>2, <4>4 DEF TurnAfter, IsStart, IsEnd
        <5> QED BY <4>1, <4>4, <5>1
      <4> QED BY <4>2, <4>3, <4>4
    <3> QED BY <3>1, <3>2
  <2>2. t \notin unsure BY <1>7, <1>9
  <2> QED BY <1>1, <1>4, <1>9, <2>1, <2>2, Applied DEF NewsInv, e
<1>10. ASSUME NEW t \in Threads \ unsure'
       PROVE  /\ Turned(feed', t) # {} => t \in attached
              /\ Latest(feed', t, Running(t)) /\ Paired(feed', t)
  <2>2. t \notin unsure BY <1>7
  <2> QED BY <1>1, <1>4, <2>2, Applied DEF NewsInv, e
<1>11. ASSUME NEW t \in Threads \ unsure', t \in attached
       PROVE  Known(t, feed, Running(t))'
  <2>1. Known(t, feed, Running(t)) BY <1>7, <1>11 DEF NewsInv
  <2>2. pc[t] = "answered" => answer[t] \in Answers(t) BY DEF Answers
  <2>3. pass = "answered" /\ cur = t => curAnswer \in Answers(t) BY DEF Answers
  <2> QED BY <1>2, <1>3, <1>8, <1>9, <1>11, <2>1, <2>2, <2>3 DEF Known, Through
<1> QED BY <1>2, <1>3, <1>5, <1>10, <1>11 DEF NewsInv

\* A step that neither touches the feed nor the turns of the daemon, and adds
\* only to what is in doubt.
QuietStep == UNCHANGED <<feed, status>> /\ attached \subseteq attached' /\ unsure \subseteq unsure'

LEMMA QuietNews ==
  ASSUME NewsInv, QuietStep,
         \A t \in attached' \ unsure' :
            Known(t, feed, Running(t)) \/ t \notin attached => Known(t, feed, Running(t))'
  PROVE  NewsInv'
<1>1. \A t : Running(t)' = Running(t) BY DEF Running, QuietStep
<1> QED BY <1>1 DEF NewsInv, QuietStep

\* A thread of which nothing new is known.
LEMMA KnownStill ==
  ASSUME QuietStep, NEW t, Known(t, feed, Running(t)),
         pc'[t] = "answered" => pc[t] = "answered" /\ answer'[t] = answer[t],
         Through(t)' => Through(t) /\ active'[t] = active[t],
         pass' = "answered" => pass = "answered" /\ UNCHANGED <<cur, curAnswer>>
  PROVE  Known(t, feed, Running(t))'
<1>1. Running(t)' = Running(t) BY DEF Running, QuietStep
<1> QED BY <1>1 DEF Known, QuietStep

\* What the daemon says now fits.
LEMMA FitsNow ==
  ASSUME NEW q, NEW t, NEW r, Latest(q, t, r) PROVE Fits(r, q, t, r)
<1> SUFFICES ASSUME NEW i \in Turned(q, t), Turned(q, t) = {i}, IsEnd(q[i])
             PROVE  r \in {q[i].turn, None}
  BY DEF Fits
<1>1. i <= i BY DEF Turned
<1>2. r = IF IsStart(q[i]) THEN q[i].turn ELSE None BY <1>1 DEF Latest
<1> QED BY <1>2

\* Going on, the pass holds no answer.
LEMMA ReturnsNews ==
  ASSUME NEW t, Returns(t)
  PROVE  pass' = "answered" => pass = "answered" /\ UNCHANGED cur
BY DEF Returns, Advance

\* The steps of a discover.
LEMMA DiscoverNews ==
  ASSUME TypeInv, OwnedInv, NewsInv, NEW t \in Threads, HandleSignal(t) \/ Discover(t)
  PROVE  NewsInv'
<1> USE DEF TypeInv, TypeOK, TableTypeOK, QuietStep, tableVars, daemonVars, taskVars, passVars, pastVars
<1>1. ASSUME QuietStep, UNCHANGED <<answer, curAnswer>>,
             UNCHANGED <<pass, cur>> \/ Returns(t),
             \A s \in Threads : active'[s] = active[s],
             \A s \in Threads : /\ pc'[s] = "answered" => pc[s] = "answered"
                                /\ Through(s)' => Through(s),
             t \in attached \/ UNCHANGED attached \/ (pc'[t] = "resumed" /\ UNCHANGED states),
             attached' \subseteq attached \cup {t}
      PROVE  NewsInv'
  <2>1. ASSUME NEW s \in attached', s \in attached, Known(s, feed, Running(s))
        PROVE  Known(s, feed, Running(s))'
    BY <1>1, <2>1, KnownStill, ReturnsNews
  <2>2. ASSUME t \notin attached, t \in attached' PROVE Known(t, feed, Running(t))'
    BY <1>1, <2>2 DEF Known, Through
  <2> QED BY <1>1, <2>1, <2>2, QuietNews
<1>2. CASE HandleSignal(t)
  <2>1. QuietStep /\ UNCHANGED <<answer, curAnswer, pass, cur, active, attached>>
    BY <1>2 DEF HandleSignal
  <2>2. \A s \in Threads : /\ pc'[s] = "answered" => pc[s] = "answered"
                           /\ Through(s)' => Through(s)
    BY <1>2 DEF HandleSignal, Enter, Through
  <2> QED BY <1>1, <2>1, <2>2
<1>3. CASE Begin(t) BY <1>1, <1>3 DEF Begin, BeginSubscription, Upsert, Through
<1>4. CASE Attach(t) BY <1>1, <1>4 DEF Attach, Through
<1>5. CASE ResumeOk(t) BY <1>1, <1>5 DEF ResumeOk, FinishSubscription, Upsert, Through
<1>6. CASE ResumeAgain(t) BY <1>1, <1>6 DEF ResumeAgain, Through
<1>7. CASE RetryElapses(t) BY <1>1, <1>7 DEF RetryElapses, Through
<1>8. CASE ResumeFails(t) BY <1>1, <1>8 DEF ResumeFails, Through
<1>9. CASE Cancel(t)
  <2>1. \A s \in Threads : active'[s] = active[s]
    BY <1>9 DEF Cancel, CancelSubscription, Remove
  <2> QED BY <1>1, <1>9, <2>1 DEF Cancel, Through
<1>10. CASE AnswerRead(t)
  <2>1. QuietStep /\ UNCHANGED <<attached, active, states, pass, cur, curAnswer, unsure>>
    BY <1>10 DEF AnswerRead
  <2>2. pc[t] = "read" /\ pc' = [pc EXCEPT ![t] = "answered"] /\ answer' = [answer EXCEPT ![t] = Running(t)]
    BY <1>10 DEF AnswerRead
  <2>3. ASSUME NEW s \in attached \ unsure, Known(s, feed, Running(s))
        PROVE  Known(s, feed, Running(s))'
    <3>1. CASE s # t BY <2>1, <2>2, <2>3, <3>1, KnownStill DEF Through
    <3>2. CASE s = t
      <4>1. Fits(Running(t), feed, t, Running(t)) BY <2>3, <3>2, FitsNow DEF NewsInv
      <4>2. Running(t)' = Running(t) /\ feed' = feed BY <2>1 DEF Running
      <4>3. answer'[t] = Running(t) /\ ~Through(t)' BY <2>2 DEF Through
      <4> QED BY <3>2, <4>1, <4>2, <4>3 DEF Known
    <3> QED BY <3>1, <3>2
  <2> QED BY <2>1, <2>3, QuietNews DEF NewsInv
<1>11. CASE ReadOk(t)
  <2>1. QuietStep /\ UNCHANGED <<attached, states, curAnswer>> BY <1>11 DEF ReadOk
  <2>2. /\ pc[t] = "answered" /\ pc' = [pc EXCEPT ![t] = "idle"]
        /\ answer' = [answer EXCEPT ![t] = None] /\ active' = [active EXCEPT ![t] = answer[t]]
        /\ Returns(t) /\ unsure' = IF Answers(t) = {answer[t]} THEN unsure ELSE unsure \cup {t}
    BY <1>11 DEF ReadOk, ReconcileThread, Upsert
  <2>3. ASSUME NEW s \in attached \ unsure', Known(s, feed, Running(s))
        PROVE  Known(s, feed, Running(s))'
    <3>1. CASE s # t BY <2>1, <2>2, <2>3, <3>1, KnownStill, ReturnsNews DEF Through
    <3>2. CASE s = t
      <4>1. Fits(answer[t], feed, t, Running(t)) BY <2>2, <2>3, <3>2 DEF Known
      <4>2. Running(t)' = Running(t) /\ feed' = feed BY <2>1 DEF Running
      <4>3. pc'[t] = "idle" /\ active'[t] = answer[t] BY <2>2
      <4>4. pass' = "answered" /\ cur' = t => curAnswer' = answer[t]
        BY <2>1, <2>2, <2>3, <3>2, ReturnsNews DEF Answers
      <4> QED BY <3>2, <4>1, <4>2, <4>3, <4>4 DEF Known
    <3> QED BY <3>1, <3>2
  <2> QED BY <2>1, <2>3, QuietNews DEF NewsInv
<1>12. CASE ReadFails(t)
  <2>1. QuietStep /\ UNCHANGED <<attached, states, active, answer, curAnswer>> BY <1>12 DEF ReadFails
  <2>2. pc' = [pc EXCEPT ![t] = "idle"] /\ Returns(t) /\ t \in unsure' BY <1>12 DEF ReadFails
  <2>3. ASSUME NEW s \in attached \ unsure', Known(s, feed, Running(s))
        PROVE  Known(s, feed, Running(s))'
    BY <2>1, <2>2, <2>3, KnownStill, ReturnsNews DEF Through
  <2> QED BY <2>1, <2>3, QuietNews
<1> QED BY <1>2, <1>3, <1>4, <1>5, <1>6, <1>7, <1>8, <1>9, <1>10, <1>11, <1>12 DEF Discover

\* The steps of the pass.
LEMMA ReconcileNews ==
  ASSUME TypeInv, NewsInv, Reconcile PROVE NewsInv'
<1> USE DEF TypeInv, TypeOK, TableTypeOK, QuietStep, tableVars, daemonVars, taskVars, passVars, pastVars
<1>1. ASSUME QuietStep, UNCHANGED <<attached, active, answer>>,
             \A s \in Threads : /\ pc'[s] = "answered" => pc[s] = "answered"
                                /\ Through(s)' => Through(s),
             pass' # "answered"
      PROVE  NewsInv'
  <2>1. ASSUME NEW s \in attached, Known(s, feed, Running(s)) PROVE Known(s, feed, Running(s))'
    BY <1>1, <2>1, KnownStill
  <2> QED BY <1>1, <2>1, QuietNews
<1>2. CASE StartPass BY <1>1, <1>2 DEF StartPass, Through
<1>3. CASE FirstPage \/ NextPage
  <2>1. Page(above) \/ Page(behind) BY <1>3 DEF FirstPage, NextPage
  <2>2. pass' # "answered" BY <2>1 DEF Page, Advance
  <2> QED BY <1>1, <1>3, <2>2 DEF FirstPage, NextPage, Through
<1>4. CASE ListFails BY <1>1, <1>4 DEF ListFails, Through
<1>5. CASE AnswerCandidate /\ Running(cur) = None
  <2>1. pass' # "answered" BY <1>5 DEF AnswerCandidate, Advance
  <2> QED BY <1>1, <1>5, <2>1 DEF AnswerCandidate, Through
<1>6. CASE AnswerCandidate /\ Running(cur) # None
  <2>1. QuietStep /\ UNCHANGED <<attached, active, answer, pc, states, unsure, cur>>
    BY <1>6 DEF AnswerCandidate
  <2>2. curAnswer' = Running(cur) BY <1>6 DEF AnswerCandidate
  <2>3. ASSUME NEW s \in attached \ unsure, Known(s, feed, Running(s))
        PROVE  Known(s, feed, Running(s))'
    <3>1. Fits(Running(s), feed, s, Running(s)) BY <2>3, FitsNow DEF NewsInv
    <3>2. Running(s)' = Running(s) /\ feed' = feed BY <2>1 DEF Running
    <3> QED BY <2>1, <2>2, <2>3, <3>1, <3>2 DEF Known, Through
  <2> QED BY <2>1, <2>3, QuietNews
<1>7. CASE CandidateRead
  <2>1. QuietStep /\ UNCHANGED <<attached, answer, pc, states, cur>> /\ pass' = "discover" /\ pass = "answered"
    BY <1>7 DEF CandidateRead
  <2>2. active' = [active EXCEPT ![cur] = curAnswer] BY <1>7 DEF CandidateRead, ReconcileThread, Upsert
  <2>3. ASSUME NEW s \in attached \ unsure', Known(s, feed, Running(s))
        PROVE  Known(s, feed, Running(s))'
    <3>1. CASE s # cur BY <2>1, <2>2, <2>3, <3>1, KnownStill DEF Through
    <3>2. CASE s = cur
      <4>1. Running(s)' = Running(s) /\ feed' = feed /\ active'[s] = curAnswer
        BY <2>1, <2>2, <2>3, <3>2 DEF Running
      <4> QED BY <2>1, <2>3, <3>2, <4>1 DEF Known, Through
    <3> QED BY <3>1, <3>2
  <2> QED BY <2>1, <2>3, QuietNews
<1>8. CASE CandidateFails
  <2>1. pass' # "answered" BY <1>8 DEF CandidateFails, Advance
  <2> QED BY <1>1, <1>8, <2>1 DEF CandidateFails, Through
<1>9. CASE DiscoverCandidate
  <2>1. pass' # "answered" BY <1>9 DEF DiscoverCandidate, Advance
  <2>2. \A s \in Threads : /\ pc'[s] = "answered" => pc[s] = "answered"
                           /\ Through(s)' => Through(s)
    BY <1>9 DEF DiscoverCandidate, Enter, Through
  <2> QED BY <1>1, <1>9, <2>1, <2>2 DEF DiscoverCandidate
<1> QED BY <1>2, <1>3, <1>4, <1>5, <1>6, <1>7, <1>8, <1>9 DEF Reconcile

\* For any threads, turns and connections, and for all the orders of reads and
\* events: at rest the snapshot has the turn in flight of every subscribed thread
\* the connection hears about and that is not in doubt.
THEOREM KnownTurns == Spec => []TurnIsKnown
<1> DEFINE I == TypeInv /\ ManagedInv /\ OneRunning /\ OwnedInv /\ NewsInv
<1>1. Init => OneRunning /\ OwnedInv /\ NewsInv
  BY DEF Init, OneRunning, OwnedInv, NewsInv, Turned, Latest, Paired
<1>2. I /\ [Next]_vars => (OneRunning /\ OwnedInv /\ NewsInv)'
  <2> SUFFICES ASSUME I, [Next]_vars PROVE (OneRunning /\ OwnedInv /\ NewsInv)' OBVIOUS
  <2>1. OneRunning' BY OneRunningStep DEF TypeInv
  <2>2. OwnedInv' BY OwnedStep
  <2>3. NewsInv'
    <3>1. CASE UNCHANGED vars \/ \E t \in Threads : ThreadUpdated(t)
      BY <3>1 DEF ThreadUpdated, vars, tableVars, daemonVars, taskVars, passVars, pastVars,
         NewsInv, Known, Through, Running
    <3> QED BY <3>1, StartNews, EndNews, ReconnectNews, IngressNews, DiscoverNews, ReconcileNews
        DEF Next
  <2> QED BY <2>1, <2>2, <2>3
<1>3. I => TurnIsKnown
  <2> SUFFICES ASSUME I, AtRest, NEW t \in attached, states[t] = "Subscribed", t \notin unsure
               PROVE  active[t] = Running(t)
    BY DEF TurnIsKnown
  <2>1. t \in Threads /\ feed = <<>> /\ pc[t] = "idle" BY DEF TypeInv, TypeOK, AtRest, Quiet
  <2>2. Turned(feed, t) = {} BY <2>1 DEF Turned
  <2>3. Fits(active[t], feed, t, Running(t)) BY <2>1 DEF NewsInv, Known, Through
  <2> QED BY <2>2, <2>3 DEF Fits
<1>4. Spec => []I
  BY <1>1, <1>2, TypeInvariant, ManagedInvariant, PTL DEF Spec
<1> QED BY <1>3, <1>4, PTL
=============================================================================
