--------------------------- MODULE LifecycleStream ---------------------------
(***************************************************************************)
(* The reducer's replay log, the lifecycle topic of EventHub, and one      *)
(* LifecycleStream that receives from the topic and recovers from the log  *)
(* when it lags.  The log and the topic hold the last LogCap and RingCap   *)
(* of the events that were applied and published, so each is a window on   *)
(* one history; a position in it is tokio's position in the channel.       *)
(***************************************************************************)
EXTENDS Integers, Sequences

CONSTANTS LogCap, RingCap

ASSUME StreamLimits == LogCap \in Nat \ {0} /\ RingCap \in Nat \ {0}

VARIABLES
    atSequence,     \* Snapshot.at_sequence, of both planes
    logged,         \* sequence numbers of all lifecycle events applied
    sent,           \* how many of them have been published
    mode,           \* what recv is doing
    cursor,         \* LifecycleStream.cursor
    next,           \* position of the receiver in the topic
    since,          \* the position it started from
    heard,          \* history: the events recv has returned, replayed or not
    known           \* history: what the subscriber has been told not to expect

streamVars == <<atSequence, logged, sent, mode, cursor, next, since, heard, known>>
hubVars == <<atSequence, logged, sent>>

StreamTypeOK ==
    /\ atSequence \in Nat /\ logged \in Seq(Nat) /\ sent \in 0 .. Len(logged)
    /\ mode \in {"closed", "receiving", "lagging", "tooOld"}
    /\ cursor \in Nat /\ known \in Nat /\ heard \subseteq Nat
    /\ since \in Nat \ {0} /\ next \in Nat \ {0}

StreamInit ==
    /\ atSequence = 0 /\ logged = <<>> /\ sent = 0
    /\ mode = "closed" /\ cursor = 0 /\ next = 1 /\ since = 1
    /\ heard = {} /\ known = 0

\* The two lock sections of Reducer::apply, then EventHub::publish.
Fold(s) ==
    /\ s > atSequence /\ atSequence' = s
    /\ UNCHANGED <<logged, sent, mode, cursor, next, since, heard, known>>
AppendToLog ==
    /\ logged' = Append(logged, atSequence)
    /\ UNCHANGED <<atSequence, sent, mode, cursor, next, since, heard, known>>
Publish ==
    /\ sent < Len(logged) /\ sent' = sent + 1
    /\ UNCHANGED <<atSequence, logged, mode, cursor, next, since, heard, known>>

\* Mutant: the receiver starts at the last event published.
SubscribeAtLast(after) ==
    /\ mode = "closed" /\ mode' = "receiving"
    /\ cursor' = after /\ known' = after
    /\ next' = sent /\ since' = sent
    /\ UNCHANGED <<hubVars, heard>>

\* handle.lifecycle(after): the receiver starts at the end of the topic.
Subscribe(after) ==
    /\ mode = "closed" /\ mode' = "receiving"
    /\ cursor' = after /\ known' = after
    /\ next' = sent + 1 /\ since' = sent + 1
    /\ UNCHANGED <<hubVars, heard>>

RingStart == IF sent > RingCap THEN sent - RingCap + 1 ELSE 1
LogStart == IF Len(logged) > LogCap THEN Len(logged) - LogCap + 1 ELSE 1

RecvEvent ==
    /\ mode = "receiving" /\ next \in RingStart .. sent
    /\ cursor' = logged[next] /\ heard' = heard \cup {logged[next]}
    /\ next' = next + 1
    /\ UNCHANGED <<hubVars, mode, since, known>>

\* The channel has overwritten the receiver's position and moves it up to the
\* oldest event it holds; recv then asks the reducer.
RecvLagged ==
    /\ mode = "receiving" /\ next < RingStart
    /\ next' = RingStart /\ mode' = "lagging"
    /\ UNCHANGED <<hubVars, cursor, since, heard, known>>

\* Mutant: one event too many is taken for retained.
TooOldByTwo == logged # <<>> /\ cursor + 2 < logged[LogStart]

\* events_since, under the lock of the log.
TooOld == logged # <<>> /\ cursor + 1 < logged[LogStart]
Retained == {logged[i] : i \in LogStart .. Len(logged)}

ReadLog ==
    /\ mode = "lagging"
    /\ IF TooOld
       THEN mode' = "tooOld" /\ UNCHANGED <<cursor, heard>>
       ELSE /\ mode' = "receiving"
            /\ heard' = heard \cup {s \in Retained : s > cursor}
            /\ cursor' = IF \E s \in Retained : s > cursor
                         THEN logged[Len(logged)] ELSE cursor
    /\ UNCHANGED <<hubVars, next, since, known>>

\* The snapshot that comes with GapTooOld is read after that lock is dropped.
ReadSnapshot ==
    /\ mode = "tooOld" /\ mode' = "receiving"
    /\ cursor' = atSequence /\ known' = atSequence
    /\ UNCHANGED <<hubVars, next, since, heard>>

Receive == RecvEvent \/ RecvLagged \/ ReadLog \/ ReadSnapshot

\* Events come in order and are applied and published by one task.
StreamNext ==
    \/ \E s \in Nat : Fold(s)
    \/ (logged = <<>> \/ atSequence > logged[Len(logged)]) /\ atSequence > 0 /\ AppendToLog
    \/ Publish
    \/ \E after \in 0 .. atSequence : Subscribe(after)
    \/ Receive

StreamSpec == StreamInit /\ [][StreamNext]_streamVars

-----------------------------------------------------------------------------
(* Properties                                                              *)

\* Event streaming spec: unavailable transitions are never claimed to be
\* recovered.  Every event published since the stream was made that it has
\* moved past, or that lies at or before its cursor, has been returned by recv
\* or is covered by what the subscriber asked for or was told in a GapTooOld.
NoSilentLoss ==
    \A i \in since .. sent :
        (i < next /\ mode = "receiving") \/ logged[i] <= cursor =>
            logged[i] \in heard \/ logged[i] <= known
=============================================================================
