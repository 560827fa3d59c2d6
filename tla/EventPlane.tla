----------------------------- MODULE EventPlane -----------------------------
(***************************************************************************)
(* AuthoritativeIngress: one task takes each event from the transport,     *)
(* applies it to the reducer, records it in the store and publishes it,    *)
(* while a subscriber receives and the ingestor puts anchors of turns it   *)
(* found in flight into the store.                                         *)
(***************************************************************************)
EXTENDS EventStore, LifecycleStream

CONSTANTS
    Sizes,          \* encoded lengths of an event
    Pauses,         \* time that may pass before an event
    MaxEvents       \* events of one behaviour

ASSUME PlaneBounds ==
    Sizes \subseteq Nat \ {0} /\ Pauses \subseteq Nat /\ MaxEvents \in Nat

VARIABLES
    stage,          \* where process is with the event
    event,          \* the event in process, or the last one
    clock,
    anchor,         \* per thread: what discover has done about its turn
    sampled         \* per thread: the sequence the anchor is to carry

planeVars == <<stage, event, clock, anchor, sampled>>
allVars == <<storeVars, streamVars, planeVars>>

Stages == {"idle", "folded", "applied", "recording", "recorded"}

PlaneTypeOK ==
    /\ StoreTypeOK /\ StreamTypeOK
    /\ stage \in Stages /\ (stage # "idle" => event \in Entries) /\ clock \in Nat
    /\ anchor \in [Threads -> {"none", "sampled", "done"}]
    /\ sampled \in [Threads -> Nat]

PlaneInit ==
    /\ StoreInit /\ StreamInit
    /\ stage = "idle" /\ event = None /\ clock = 0
    /\ anchor = [t \in Threads |-> "none"] /\ sampled = [t \in Threads |-> 0]

\* receiver.recv() yields an event; apply takes its first lock.
Arrive(thread, kind, size, pause) ==
    /\ stage = "idle" /\ atSequence < MaxEvents
    /\ kind = "turn/started" => thread # None
    /\ Fold(atSequence + 1)
    /\ clock' = clock + pause
    /\ event' = [sequence |-> atSequence + 1, thread |-> thread, kind |-> kind,
                 size |-> size, time |-> clock + pause, reconstructed |-> FALSE]
    /\ stage' = IF kind = "delta" THEN "applied" ELSE "folded"
    /\ UNCHANGED <<storeVars, anchor, sampled>>

ApplyToLog ==
    /\ stage = "folded" /\ AppendToLog /\ stage' = "applied"
    /\ UNCHANGED <<storeVars, event, clock, anchor, sampled>>

RecordEvent ==
    /\ stage = "applied" /\ Record(event) /\ stage' = "recording"
    /\ UNCHANGED <<streamVars, event, clock, anchor, sampled>>

\* The pruning ends; if it was that of record, record returns.
EndPruning ==
    /\ Pruned
    /\ stage' = IF stage = "recording" THEN "recorded" ELSE stage
    /\ UNCHANGED <<streamVars, event, clock, anchor, sampled>>

PublishEvent ==
    /\ stage = "recorded" /\ stage' = "idle"
    /\ IF event.kind = "delta" THEN UNCHANGED streamVars ELSE Publish
    /\ UNCHANGED <<storeVars, event, clock, anchor, sampled>>

\* discover has found a turn in flight: current_sequence, then the store.
SampleSequence(t) ==
    /\ anchor[t] = "none"
    /\ anchor' = [anchor EXCEPT ![t] = "sampled"]
    /\ sampled' = [sampled EXCEPT ![t] = atSequence]
    /\ UNCHANGED <<storeVars, streamVars, stage, event, clock>>

RecordAnchor(t, size) ==
    /\ anchor[t] = "sampled"
    /\ RecordReconstructed([sequence |-> sampled[t], thread |-> t, kind |-> "turn/started",
                            size |-> size, time |-> clock, reconstructed |-> TRUE])
    /\ anchor' = [anchor EXCEPT ![t] = "done"]
    /\ UNCHANGED <<streamVars, stage, event, clock, sampled>>

Subscribes == \E after \in {0, atSequence} : Subscribe(after)

Quiet ==
    /\ stage = "idle" /\ atSequence = MaxEvents /\ lock = "free"
    /\ UNCHANGED allVars

PlaneNext ==
    \/ \E thread \in Threads \cup {None}, kind \in Kinds, size \in Sizes, pause \in Pauses :
          Arrive(thread, kind, size, pause)
    \/ ApplyToLog \/ RecordEvent \/ EndPruning \/ PublishEvent
    \/ Prune /\ UNCHANGED <<streamVars, planeVars>>
    \/ \E t \in Threads : SampleSequence(t) \/ \E size \in Sizes : RecordAnchor(t, size)
    \/ (Subscribes \/ Receive) /\ UNCHANGED <<storeVars, planeVars>>
    \/ Quiet

PlaneSpec == PlaneInit /\ [][PlaneNext]_allVars
=============================================================================
