-------------------------------- MODULE Ingest --------------------------------
(***************************************************************************)
(* ThreadIngestor of crate ingest over the snapshot of the reducer:        *)
(* threads are discovered by signals and by the reconciliation pass of each *)
(* connection, resumed and read.  A signal is the event thread/started, or *)
(* thread/status/changed to active; core spawns a task for each.  At most  *)
(* one discover of a thread gets past the check of its state; an earlier   *)
(* one that has failed may still have its cancel_subscription to do.       *)
(*                                                                         *)
(* The daemon is external: it sends status changes to every client, and a  *)
(* thread's turn events to the connections that resumed the thread.  What  *)
(* it sends goes through the ingress in order; its answers reach their     *)
(* callers directly, and so may be used before or after events that were   *)
(* sent earlier or later.  It lists threads page by page, the last updated *)
(* first; the cursor of a page stands for the time stamp it ends with, and *)
(* two updates never bear the same one.                                    *)
(***************************************************************************)
EXTENDS ThreadTable, Naturals, Sequences, Functions

CONSTANTS
    ThreadOf,           \* ThreadOf[u]: the thread of turn u
    SubscriptionCap,    \* subscription_cap (512 in the code)
    RetryLimit,         \* resume_retry_limit (8)
    PageSize,           \* reconcile_page_size (50)
    CandidateLimit,     \* reconcile_candidate_limit (200), also of all pages
    MaxConns            \* connections of one behaviour

ASSUME Limits ==
    /\ ThreadOf \in [Turns -> Threads]
    /\ SubscriptionCap \in Nat /\ RetryLimit \in Nat \ {0}
    /\ PageSize \in Nat \ {0} /\ CandidateLimit \in Nat \ {0} /\ MaxConns \in Nat \ {0}
    /\ IsFiniteSet(Threads)

VARIABLES
    status,         \* status[u] of a turn at the daemon
    conn,           \* the number of the connection
    attached,       \* threads resumed on it
    feed,           \* events on their way to the reducer
    above,          \* threads updated since the time stamp of the watermark, or
                    \* since the first page of the list that is being read
    behind,         \* threads of that list that are behind its cursor
    moved,          \* history: threads updated while they were
    signals,        \* signals[t]: tasks spawned that have not called discover
    states,         \* states[t]: its SubscriptionState
    attempt,        \* attempt[t]: of the resume of t
    pc,             \* pc[t]: where the discover of t is
    answer,         \* answer[t]: the turn in flight its read has shown
    cancels,        \* cancels[t]: failed discovers that have yet to cancel
    pass,           \* where the reconciliation is
    found,          \* candidates: threads listed and still to be looked at
    cur, curAnswer, \* the one it looks at, and the turn the read has shown
    due, booted,    \* a pass is due; the first one has succeeded
    listed,         \* history: a list of this connection has been answered
    skipped,        \* history: listed threads a pass has not looked at
    unsure,         \* history: threads whose read failed, or was not the newest
    undone          \* history: resumes under way whose mark was cancelled

daemonVars == <<status, conn, attached, feed, above, behind, moved>>
taskVars == <<signals, states, attempt, pc, answer, cancels>>
passVars == <<pass, found, cur, curAnswer, due, booted>>
pastVars == <<listed, skipped, unsure, undone>>
vars == <<tableVars, daemonVars, taskVars, passVars, pastVars>>

Settled == {"Unseen", "Subscribed", "Ephemeral", "CapacityDegraded", "Failed"}
Retained == {"Subscribing", "RetryWait", "Subscribed"}

TypeOK ==
    /\ TableTypeOK
    /\ status \in [Turns -> {"unborn", "running", "ended"}]
    /\ conn \in 1 .. MaxConns
    /\ attached \subseteq Threads /\ above \subseteq Threads
    /\ behind \subseteq Threads /\ moved \subseteq Threads
    /\ feed \in Seq(Event)
    /\ signals \in [Threads -> Nat]
    /\ states \in [Threads -> Settled \cup Retained]
    /\ attempt \in [Threads -> 1 .. RetryLimit]
    /\ pc \in [Threads -> {"idle", "begin", "resume", "resumed", "retry",
                           "read", "answered"}]
    /\ answer \in [Threads -> Turns \cup {None}] /\ cancels \in [Threads -> Nat]
    /\ pass \in {"idle", "list", "page", "read", "answered", "discover", "join", "off"}
    /\ found \subseteq Threads /\ cur \in Threads \cup {None}
    /\ curAnswer \in Turns \cup {None} /\ due \in BOOLEAN /\ booted \in BOOLEAN
    /\ listed \in BOOLEAN /\ skipped \subseteq Threads /\ unsure \subseteq Threads
    /\ undone \subseteq Threads

Init ==
    /\ TableInit
    /\ status \in [Turns -> {"unborn", "running"}]
    /\ \A u, v \in Turns :
          status[u] = "running" /\ status[v] = "running" /\ u # v => ThreadOf[u] # ThreadOf[v]
    /\ conn = 1 /\ attached = {} /\ feed = <<>> /\ behind = {} /\ moved = {}
    /\ above \in SUBSET Threads        \* those that exist
    /\ \A u \in Turns : status[u] = "running" => ThreadOf[u] \in above
    /\ signals = [t \in Threads |-> 0] /\ states = [t \in Threads |-> "Unseen"]
    /\ attempt = [t \in Threads |-> 1] /\ pc = [t \in Threads |-> "idle"]
    /\ answer = [t \in Threads |-> None] /\ cancels = [t \in Threads |-> 0]
    /\ pass = "idle" /\ found = {} /\ cur = None /\ curAnswer = None
    /\ due = TRUE /\ booted = FALSE
    /\ listed = FALSE /\ skipped = {} /\ unsure = {} /\ undone = {}

-----------------------------------------------------------------------------
(* The daemon and the connection                                           *)

Running(t) ==
    IF \E u \in Turns : ThreadOf[u] = t /\ status[u] = "running"
    THEN CHOOSE u \in Turns : ThreadOf[u] = t /\ status[u] = "running"
    ELSE None

Note(kind, t, u) == [kind |-> kind, thread |-> t, turn |-> u]

\* A thread that is updated gets ahead of the cursor of a list being read.
Updated(t) ==
    /\ above' = above \cup {t} /\ behind' = behind \ {t}
    /\ moved' = moved \cup ({t} \cap behind)

\* By the turn in flight, say; of idle threads no property speaks.
ThreadUpdated(t) ==
    /\ Running(t) # None /\ Updated(t)
    /\ UNCHANGED <<tableVars, status, conn, attached, feed, taskVars, passVars, pastVars>>

TurnStarts(u) ==
    LET t == ThreadOf[u] IN
    /\ status[u] = "unborn" /\ Running(t) = None
    /\ status' = [status EXCEPT ![u] = "running"]
    /\ Updated(t)
    /\ feed' = Append(feed, Note("signal", t, None)) \o
                  (IF t \in attached THEN <<Note("turn/started", t, u)>> ELSE <<>>)
    /\ UNCHANGED <<tableVars, conn, attached, taskVars, passVars, pastVars>>

\* Of the status change to idle a thread that gets the event has no need.
TurnEnds(u) ==
    LET t == ThreadOf[u] IN
    /\ status[u] = "running"
    /\ status' = [status EXCEPT ![u] = "ended"]
    /\ Updated(t)
    /\ feed' = Append(feed, IF t \in attached THEN Note("turn/completed", t, u)
                                             ELSE Note("idle", t, None))
    /\ UNCHANGED <<tableVars, conn, attached, taskVars, passVars, pastVars>>

\* The connection is lost, with what was on the socket, and made again; events
\* of the time in between are lost too.  A pass under way goes on; the reconnect
\* task is woken.
Reconnect ==
    /\ conn < MaxConns /\ conn' = conn + 1
    /\ attached' = {} /\ listed' = FALSE /\ due' = booted
    /\ \E n \in 0 .. Len(feed) :
          LET kept == SubSeq(feed, 1, n) IN
          /\ feed' = kept
          /\ unsure' = unsure \cup {e.thread : e \in {x \in Range(kept) : x.turn # None}}
    /\ UNCHANGED <<tableVars, status, above, taskVars,
                   behind, moved, pass, found, cur, curAnswer, booted, skipped, undone>>

\* What reads of t on their way to the reducer have shown.
Answers(t) ==
    (IF pc[t] = "answered" THEN {answer[t]} ELSE {}) \cup
    (IF pass = "answered" /\ cur = t THEN {curAnswer} ELSE {})

\* An event is applied, and core spawns a task for a signal.  A read of the
\* thread that is on its way to the reducer is overtaken if the event is newer.
Ingress ==
    /\ feed # <<>>
    /\ feed' = Tail(feed)
    /\ ApplyToTable(Head(feed))
    /\ LET e == Head(feed)
           Older(u) == \/ e.kind = "turn/completed" /\ u = e.turn
                       \/ e.kind = "turn/started" /\ u # e.turn
       IN
       /\ signals' = IF e.kind = "signal" THEN [signals EXCEPT ![e.thread] = @ + 1] ELSE signals
       /\ unsure' = IF \E u \in Answers(e.thread) : Older(u)
                     THEN unsure \cup {e.thread} ELSE unsure
    /\ UNCHANGED <<status, conn, attached, above, behind, moved, states, attempt, pc, answer,
                   cancels, passVars, listed, skipped, undone>>

-----------------------------------------------------------------------------
(* discover                                                                *)

\* Mutant: a thread that waits for its retry is not counted.
HoldingNow(t) == states[t] \in {"Subscribing", "Subscribed"}

\* AlreadyManaged, and counted against the cap.
Holding(t) == states[t] \in Retained

\* The check under the lock of the states, at the start of discover.
Enter(t) ==
    IF Holding(t) THEN UNCHANGED <<states, pc>>
    ELSE IF Cardinality({s \in Threads : Holding(s)}) >= SubscriptionCap
    THEN states' = [states EXCEPT ![t] = "CapacityDegraded"] /\ UNCHANGED pc
    ELSE /\ states' = [states EXCEPT ![t] = "Subscribing"]
         /\ pc' = [pc EXCEPT ![t] = "begin"]

\* Between begin_subscription and finish_subscription.
Resuming(t) == pc[t] \in {"resume", "resumed", "retry"}

HandleSignal(t) ==
    /\ signals[t] > 0
    /\ signals' = [signals EXCEPT ![t] = @ - 1]
    /\ Enter(t)
    /\ UNCHANGED <<tableVars, daemonVars, attempt, answer, cancels, passVars, pastVars>>

Begin(t) ==
    /\ pc[t] = "begin" /\ pc' = [pc EXCEPT ![t] = "resume"]
    /\ BeginSubscription(t)
    /\ UNCHANGED <<daemonVars, signals, states, attempt, answer, cancels, passVars, pastVars>>

\* The daemon performs the resume.
Attach(t) ==
    /\ pc[t] = "resume" /\ pc' = [pc EXCEPT ![t] = "resumed"]
    /\ attached' = attached \cup {t}
    /\ UNCHANGED <<tableVars, status, conn, feed, above, behind, moved, signals, states, attempt,
                   answer, cancels, passVars, pastVars>>

\* The answer to it has come.
ResumeOk(t) ==
    /\ pc[t] = "resumed" /\ pc' = [pc EXCEPT ![t] = "read"]
    /\ FinishSubscription(t)
    /\ states' = [states EXCEPT ![t] = "Subscribed"]
    /\ attempt' = [attempt EXCEPT ![t] = 1] /\ undone' = undone \ {t}
    /\ UNCHANGED <<daemonVars, signals, answer, cancels, passVars, listed, skipped, unsure>>

\* Mutant: no limit.
ResumeForever(t) ==
    /\ pc[t] = "resume" /\ pc' = [pc EXCEPT ![t] = "retry"]
    /\ attempt' = [attempt EXCEPT ![t] = @ + 1]
    /\ states' = [states EXCEPT ![t] = "RetryWait"]
    /\ UNCHANGED <<tableVars, daemonVars, signals, answer, cancels, passVars, pastVars>>

\* Not written, or refused for want of a rollout.
ResumeAgain(t) ==
    /\ pc[t] = "resume" /\ attempt[t] < RetryLimit
    /\ pc' = [pc EXCEPT ![t] = "retry"]
    /\ attempt' = [attempt EXCEPT ![t] = @ + 1]
    /\ states' = [states EXCEPT ![t] = "RetryWait"]
    /\ UNCHANGED <<tableVars, daemonVars, signals, answer, cancels, passVars, pastVars>>

RetryElapses(t) ==
    /\ pc[t] = "retry" /\ pc' = [pc EXCEPT ![t] = "resume"]
    /\ states' = [states EXCEPT ![t] = "Subscribing"]
    /\ UNCHANGED <<tableVars, daemonVars, signals, attempt, answer, cancels, passVars, pastVars>>

\* Any other error; the daemon may have performed the resume all the same.
ResumeFails(t) ==
    /\ pc[t] \in {"resume", "resumed"}
    /\ \E s \in {"Failed"} \cup
               (IF pc[t] = "resume" /\ attempt[t] = RetryLimit THEN {"Ephemeral"} ELSE {}) :
          states' = [states EXCEPT ![t] = s]
    /\ pc' = [pc EXCEPT ![t] = "idle"]
    /\ cancels' = [cancels EXCEPT ![t] = @ + 1]
    /\ attempt' = [attempt EXCEPT ![t] = 1] /\ undone' = undone \ {t}
    /\ UNCHANGED <<tableVars, daemonVars, signals, answer, passVars, listed, skipped, unsure>>

\* The pass goes on to one of the threads left of its list; after the last the
\* gate opens, on whatever connection there is.
Advance(rest) ==
    IF rest = {}
    THEN pass' = "idle" /\ found' = {} /\ cur' = None /\ due' = FALSE /\ booted' = TRUE
    ELSE /\ \E t \in rest : cur' = t /\ found' = rest \ {t}
         /\ pass' = "read" /\ UNCHANGED <<due, booted>>

\* The pass waits for the discover it has called.
Returns(t) ==
    IF pass = "join" /\ cur = t THEN Advance(found)
    ELSE UNCHANGED <<pass, found, cur, due, booted>>

\* By now another discover of the thread may be under way.
Cancel(t) ==
    /\ cancels[t] > 0 /\ cancels' = [cancels EXCEPT ![t] = @ - 1]
    /\ CancelSubscription(t) /\ Returns(t)
    /\ undone' = IF Resuming(t) THEN undone \cup {t} ELSE undone
    /\ UNCHANGED <<daemonVars, signals, states, attempt, pc, answer, curAnswer,
                   listed, skipped, unsure>>

AnswerRead(t) ==
    /\ pc[t] = "read" /\ pc' = [pc EXCEPT ![t] = "answered"]
    /\ answer' = [answer EXCEPT ![t] = Running(t)]
    /\ UNCHANGED <<tableVars, daemonVars, signals, states, attempt, cancels, passVars, pastVars>>

\* Mutant: the turn that the read has shown is not put into the snapshot.
ReadUnused(t) ==
    /\ pc[t] = "answered" /\ pc' = [pc EXCEPT ![t] = "idle"]
    /\ answer' = [answer EXCEPT ![t] = None] /\ Returns(t)
    /\ UNCHANGED <<tableVars, daemonVars, signals, states, attempt, cancels, curAnswer, pastVars>>

ReadOk(t) ==
    /\ pc[t] = "answered" /\ pc' = [pc EXCEPT ![t] = "idle"]
    /\ answer' = [answer EXCEPT ![t] = None]
    /\ ReconcileThread(t, answer[t]) /\ Returns(t)
    /\ unsure' = IF Answers(t) = {answer[t]} THEN unsure ELSE unsure \cup {t}
    /\ UNCHANGED <<daemonVars, signals, states, attempt, cancels, curAnswer,
                   listed, skipped, undone>>

ReadFails(t) ==
    /\ pc[t] = "read" /\ pc' = [pc EXCEPT ![t] = "idle"]
    /\ unsure' = unsure \cup {t} /\ Returns(t)
    /\ UNCHANGED <<tableVars, daemonVars, signals, states, attempt, answer, cancels, curAnswer,
                   listed, skipped, undone>>

Discover(t) ==
    \/ Begin(t) \/ Attach(t) \/ ResumeOk(t) \/ ResumeAgain(t) \/ RetryElapses(t)
    \/ ResumeFails(t) \/ Cancel(t) \/ AnswerRead(t) \/ ReadOk(t) \/ ReadFails(t)

-----------------------------------------------------------------------------
(* reconcile: run's first, then the reconnect task's                       *)

StartPass ==
    /\ pass = "idle" /\ due /\ pass' = "list" /\ due' = FALSE
    /\ UNCHANGED <<tableVars, daemonVars, taskVars, found, cur, curAnswer, booted, pastVars>>

\* A page of the threads in ahead.  If it is full its cursor may lead on; else the
\* list has reached the watermark or its end, or there are enough candidates.
Page(ahead) ==
    \E some \in SUBSET ahead :
        LET found2 == found \cup some IN
        /\ Cardinality(some) <= PageSize /\ Cardinality(found2) <= CandidateLimit
        /\ \/ /\ Cardinality(some) = PageSize /\ Cardinality(found2) < CandidateLimit
              /\ pass' = "page" /\ found' = found2 /\ behind' = ahead \ some
              /\ UNCHANGED <<cur, due, booted, skipped>>
           \/ /\ some = ahead \/ Cardinality(found2) = CandidateLimit
              /\ Advance(found2) /\ behind' = {}
              /\ skipped' = skipped \cup (ahead \ some)

\* The newest time stamp, which the watermark will take, is of the first page.
FirstPage ==
    /\ pass = "list" /\ Page(above)
    /\ above' = {} /\ moved' = {} /\ listed' = TRUE
    /\ UNCHANGED <<tableVars, status, conn, attached, feed, taskVars, curAnswer, unsure, undone>>

\* Mutant: the watermark takes the time at which the list has ended.
NextPageNow ==
    /\ pass = "page" /\ Page(behind)
    /\ above' = IF pass' = "page" THEN above ELSE {}
    /\ UNCHANGED <<tableVars, status, conn, attached, feed, moved, taskVars, curAnswer,
                   listed, unsure, undone>>

NextPage ==
    /\ pass = "page" /\ Page(behind)
    /\ UNCHANGED <<tableVars, status, conn, attached, feed, above, moved, taskVars, curAnswer,
                   listed, unsure, undone>>

\* A page fails, and the watermark stays.  run fails with its first list; after a
\* reconnect the error is logged.
ListFails ==
    /\ pass \in {"list", "page"} /\ pass' = IF booted THEN "idle" ELSE "off"
    /\ above' = above \cup found \cup behind /\ found' = {} /\ behind' = {}
    /\ listed' = (listed /\ pass = "list")
    /\ UNCHANGED <<tableVars, status, conn, attached, feed, moved, taskVars, cur, curAnswer,
                   due, booted, skipped, unsure, undone>>

\* A thread that the read shows idle is left alone.
AnswerCandidate ==
    /\ pass = "read"
    /\ IF Running(cur) = None
       THEN Advance(found) /\ UNCHANGED curAnswer
       ELSE /\ pass' = "answered" /\ curAnswer' = Running(cur)
            /\ UNCHANGED <<found, cur, due, booted>>
    /\ UNCHANGED <<tableVars, daemonVars, taskVars, pastVars>>

\* An active one is put into the snapshot before it is discovered.
CandidateRead ==
    /\ pass = "answered" /\ pass' = "discover" /\ curAnswer' = None
    /\ ReconcileThread(cur, curAnswer)
    /\ unsure' = IF Answers(cur) = {curAnswer} THEN unsure ELSE unsure \cup {cur}
    /\ UNCHANGED <<daemonVars, taskVars, found, cur, due, booted, listed, skipped, undone>>

\* A read that fails is passed over.
CandidateFails ==
    /\ pass = "read" /\ Advance(found)
    /\ skipped' = skipped \cup {cur}
    /\ UNCHANGED <<tableVars, daemonVars, taskVars, curAnswer, listed, unsure, undone>>

DiscoverCandidate ==
    /\ pass = "discover" /\ Enter(cur)
    /\ IF pc'[cur] # pc[cur]
       THEN pass' = "join" /\ UNCHANGED <<found, cur, due, booted>>
       ELSE Advance(found)
    /\ UNCHANGED <<tableVars, daemonVars, signals, attempt, answer, cancels, curAnswer, pastVars>>

Reconcile ==
    \/ StartPass \/ FirstPage \/ NextPage \/ ListFails \/ AnswerCandidate
    \/ CandidateRead \/ CandidateFails \/ DiscoverCandidate

Quiet ==
    /\ feed = <<>> /\ \A t \in Threads : pc[t] = "idle" /\ cancels[t] = 0 /\ signals[t] = 0
    /\ pass = "idle" /\ ~due

Next ==
    \/ /\ pass # "off"
       /\ \/ \E u \in Turns : TurnStarts(u) \/ TurnEnds(u)
          \/ Reconnect \/ Ingress
          \/ \E t \in Threads : ThreadUpdated(t) \/ HandleSignal(t) \/ Discover(t)
          \/ Reconcile
    \/ (Quiet \/ pass = "off") /\ UNCHANGED vars

Spec == Init /\ [][Next]_vars

-----------------------------------------------------------------------------
(* Properties                                                              *)

\* The threads resumed or being resumed never exceed the cap, however many
\* signals and passes discover them at once: the cap is checked and the place
\* taken under one lock, and waiting for a retry keeps the place.
WithinCap == Cardinality({t \in Threads : Holding(t)}) <= SubscriptionCap

\* A discover gets past the check only when no other is between its check and
\* the end of its read: neither two resumes of a thread at a time, nor one of a
\* thread that another discover has subscribed and is about to reconcile.
NoCompetingDiscovery ==
    [][\A t \in Threads : pc'[t] = "begin" /\ pc[t] # "begin" => pc[t] = "idle"]_vars

\* A thread that the ingestor calls Subscribed is in the snapshot with its flag
\* set, and no pruning takes it away: finish_subscription precedes the state,
\* and a late cancel_subscription of an earlier discover cannot undo it.
SubscribedIsTracked ==
    \A t \in Threads : states[t] = "Subscribed" => t \in entries \cap subscribed

\* From begin_subscription to finish_subscription a discover has its mark and its
\* entry, whatever events are applied meanwhile, and however many earlier discovers
\* of the thread have failed; only the cancel that one of these still owed takes the
\* mark away, and with it what protects the entry.
ResumesAreMarked ==
    \A t \in Threads : Resuming(t) => t \in subscribing \cap entries \/ t \in undone

\* Nothing is under way, and a list asked on this connection has been answered.
AtRest == Quiet /\ listed

\* The snapshot has the turn in flight of each subscribed thread, which the
\* connection hears about, for all the orders of reads and events, but for those
\* of unsure: a read that failed, one that was overwritten by an older one or
\* overtaken by a newer event, and events of a former connection.
TurnIsKnown ==
    AtRest => \A t \in attached :
        states[t] = "Subscribed" => active[t] = Running(t) \/ t \in unsure

\* A thread with a turn in flight that this connection does not hear about is in a
\* state that says so; was Subscribed on a former connection; was listed and not
\* looked at (limit, or a read that failed); or was updated between two pages, which
\* moved it ahead of the cursor.  Of the last kind the pass sees nothing, but the
\* watermark stays below them: the next pass will list them.
BlindSpotsAreReported ==
    AtRest => \A t \in Threads \ attached : Running(t) # None =>
        \/ states[t] \in {"Failed", "Ephemeral", "CapacityDegraded"}
        \/ states[t] = "Subscribed" /\ conn > 1
        \/ t \in skipped
        \/ t \in moved \cap above

\* What daemon-transport/spec.md:28-37 says of a reconnect: resubscription is
\* complete when the gate reopens.  A Subscribed thread is resumed on the
\* connection there is.
ReconnectResubscribes ==
    AtRest => \A t \in Threads : states[t] = "Subscribed" => t \in attached
=============================================================================
