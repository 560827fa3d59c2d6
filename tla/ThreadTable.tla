----------------------------- MODULE ThreadTable -----------------------------
(***************************************************************************)
(* The thread snapshot of crate reducer: the entries of Snapshot.threads,  *)
(* the active turn and the subscribed flag of each, and the marks of the   *)
(* subscriptions under way, all under one lock.  An entry that is neither  *)
(* subscribed, nor being subscribed, nor has an active turn is pruned when *)
(* an event of its thread is applied.  The status string, the raw thread   *)
(* and the sequence number of an entry play no part in that.               *)
(***************************************************************************)
EXTENDS FiniteSets

CONSTANTS Threads, Turns

None == "none"

ASSUME TurnsAreNamed == None \notin Turns

VARIABLES
    entries,        \* keys of Snapshot.threads
    active,         \* active[t]: active_turn_id
    subscribed,     \* threads whose entry has the flag set
    subscribing     \* ReducerState.subscribing

tableVars == <<entries, active, subscribed, subscribing>>

Event == [kind : {"signal", "idle", "turn/started", "turn/completed"},
          thread : Threads, turn : Turns \cup {None}]

TableTypeOK ==
    /\ entries \subseteq Threads /\ subscribing \subseteq Threads
    /\ subscribed \subseteq Threads
    /\ active \in [Threads -> Turns \cup {None}]

TableInit ==
    /\ entries = {} /\ subscribed = {} /\ subscribing = {}
    /\ active = [t \in Threads |-> None]

\* The entry of t with active turn u: inserted, replaced or left in place.
Upsert(t, u) ==
    /\ entries' = entries \cup {t}
    /\ active' = [active EXCEPT ![t] = u]

Remove(t) ==
    /\ entries' = entries \ {t}
    /\ active' = [active EXCEPT ![t] = None]

\* The active turn that event e leaves behind.
TurnAfter(e) ==
    CASE e.kind = "turn/started" -> e.turn
      [] e.kind = "turn/completed" /\ e.turn \in {active[e.thread], None} -> None
      [] OTHER -> active[e.thread]

\* Mutant: pruning looks at the flag of the entry alone.
ApplyPruningPending(e) ==
    /\ IF e.thread \notin subscribed /\ TurnAfter(e) = None
       THEN Remove(e.thread) ELSE Upsert(e.thread, TurnAfter(e))
    /\ UNCHANGED <<subscribed, subscribing>>

\* The first lock section of apply, pruning included.
ApplyToTable(e) ==
    /\ IF e.thread \notin subscribing \cup subscribed /\ TurnAfter(e) = None
       THEN Remove(e.thread) ELSE Upsert(e.thread, TurnAfter(e))
    /\ UNCHANGED <<subscribed, subscribing>>

BeginSubscription(t) ==
    /\ subscribing' = subscribing \cup {t}
    /\ Upsert(t, active[t])
    /\ UNCHANGED subscribed

\* Mutant: the mark goes, and the flag is set if the entry is still there.
FinishIfPresent(t) ==
    /\ subscribing' = subscribing \ {t}
    /\ subscribed' = subscribed \cup ({t} \cap entries)
    /\ UNCHANGED <<entries, active>>

FinishSubscription(t) ==
    /\ subscribing' = subscribing \ {t}
    /\ subscribed' = subscribed \cup {t}
    /\ Upsert(t, active[t])

CancelSubscription(t) ==
    /\ subscribing' = subscribing \ {t}
    /\ IF t \notin subscribed /\ active[t] = None
       THEN Remove(t) ELSE UNCHANGED <<entries, active>>
    /\ UNCHANGED subscribed

\* reconcile_thread replaces the entry by what a read shows, whatever the
\* order of the read and of the events applied; only the flag survives.
ReconcileThread(t, u) == Upsert(t, u) /\ UNCHANGED <<subscribed, subscribing>>

\* set_subscribed(t, false), and evict_idle.
Unsubscribe(t) ==
    /\ subscribing' = subscribing \ {t}
    /\ subscribed' = subscribed \ {t}
    /\ IF active[t] = None THEN Remove(t) ELSE UNCHANGED <<entries, active>>

EvictIdle ==
    /\ entries' = {t \in entries : t \in subscribing \cup subscribed \/ active[t] # None}
    /\ UNCHANGED <<active, subscribed, subscribing>>

TableNext ==
    \/ \E e \in Event : ApplyToTable(e)
    \/ \E t \in Threads :
          \/ BeginSubscription(t) \/ FinishSubscription(t) \/ CancelSubscription(t)
          \/ Unsubscribe(t) \/ \E u \in Turns \cup {None} : ReconcileThread(t, u)
    \/ EvictIdle

TableSpec == TableInit /\ [][TableNext]_tableVars

-----------------------------------------------------------------------------
(* Properties                                                              *)

\* No event, eviction or reconciliation takes away the entry of a thread that bears
\* the flag or the mark, or has an active turn: what the ingestor's promises rest on.
EntriesAreKept ==
    subscribing \cup subscribed \cup {t \in Threads : active[t] # None} \subseteq entries

=============================================================================
