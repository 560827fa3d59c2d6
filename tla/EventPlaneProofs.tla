-------------------------- MODULE EventPlaneProofs --------------------------
(***************************************************************************)
(* The event plane is made of a store and a stream that behave as their    *)
(* own modules say, for any threads, capacities and number of events, so   *)
(* what is proved of those holds in it.                                    *)
(***************************************************************************)
EXTENDS EventPlane, EventStoreProofs, LifecycleStreamProofs

\* The task's own state, and what it has not told the log yet.
TaskInv ==
    /\ stage \in Stages /\ clock \in Nat
    /\ stage # "idle" => event \in Entries
    /\ stage = "folded" =>
          atSequence > 0 /\ \A i \in DOMAIN logged : logged[i] < atSequence
    /\ anchor \in [Threads -> {"none", "sampled", "done"}]
    /\ sampled \in [Threads -> Nat]

PlaneInv == StoreInv /\ StreamInv /\ TaskInv

LEMMA ArriveStep ==
    ASSUME PlaneInv, NEW thread \in Keys, NEW kind \in Kinds, NEW size \in Sizes,
           NEW pause \in Pauses, Arrive(thread, kind, size, pause)
    PROVE  StreamNext /\ UNCHANGED storeVars /\ TaskInv'
<1>1. size \in Nat /\ pause \in Nat /\ clock + pause \in Nat
  BY PlaneBounds DEF PlaneInv, TaskInv
<1>2. atSequence \in Nat /\ atSequence + 1 \in Nat
  BY DEF PlaneInv, StreamInv, StreamTypeOK
<1>3. StreamNext
  BY <1>2 DEF Arrive, StreamNext
<1>4. event' \in Entries
  BY <1>1, <1>2 DEF Arrive, Entries, Keys
<1>5. /\ atSequence' = atSequence + 1 /\ logged' = logged
      /\ \A i \in DOMAIN logged : logged[i] \in Nat /\ logged[i] <= atSequence
  BY LogFacts DEF Arrive, Fold, PlaneInv, StreamInv, Ordered
<1>6. TaskInv'
  BY <1>1, <1>2, <1>4, <1>5 DEF Arrive, PlaneInv, TaskInv, Stages
<1> QED BY <1>3, <1>6 DEF Arrive

LEMMA ProcessStep ==
    ASSUME PlaneInv, ApplyToLog \/ RecordEvent \/ EndPruning \/ PublishEvent
    PROVE  [StoreNext]_storeVars /\ [StreamNext]_streamVars /\ TaskInv'
<1>1. CASE ApplyToLog
  <2>1. logged = <<>> \/ atSequence > logged[Len(logged)]
    BY <1>1, LogFacts DEF ApplyToLog, PlaneInv, TaskInv, StreamInv, StreamTypeOK
  <2>2. StreamNext /\ UNCHANGED storeVars
    BY <1>1, <2>1 DEF ApplyToLog, StreamNext, PlaneInv, TaskInv
  <2>3. TaskInv'
    BY <1>1 DEF ApplyToLog, PlaneInv, TaskInv, Stages
  <2> QED BY <2>2, <2>3
<1>2. CASE RecordEvent
  <2>1. event \in Entries /\ Record(event)
    BY <1>2 DEF RecordEvent, PlaneInv, TaskInv
  <2>2. StoreNext /\ UNCHANGED streamVars
    BY <1>2, <2>1 DEF RecordEvent, StoreNext
  <2>3. TaskInv'
    BY <1>2 DEF RecordEvent, streamVars, PlaneInv, TaskInv, Stages
  <2> QED BY <2>2, <2>3
<1>3. CASE EndPruning
  BY <1>3 DEF EndPruning, StoreNext, streamVars, PlaneInv, TaskInv, Stages
<1>4. CASE PublishEvent
  BY <1>4 DEF PublishEvent, Publish, StreamNext, streamVars, PlaneInv, TaskInv, Stages
<1> QED BY <1>1, <1>2, <1>3, <1>4

LEMMA AnchorStep ==
    ASSUME PlaneInv, NEW t \in Threads,
           SampleSequence(t) \/ \E size \in Sizes : RecordAnchor(t, size)
    PROVE  [StoreNext]_storeVars /\ UNCHANGED streamVars /\ TaskInv'
<1>1. CASE SampleSequence(t)
  BY <1>1 DEF SampleSequence, streamVars, PlaneInv, TaskInv, StreamInv, StreamTypeOK
<1>2. ASSUME NEW size \in Sizes, RecordAnchor(t, size)
      PROVE  StoreNext /\ UNCHANGED streamVars /\ TaskInv'
  <2> DEFINE e == [sequence |-> sampled[t], thread |-> t, kind |-> "turn/started",
                   size |-> size, time |-> clock, reconstructed |-> TRUE]
  <2>1. e \in Entries
    BY PlaneBounds DEF PlaneInv, TaskInv, Entries, Kinds
  <2>2. RecordReconstructed(e) /\ UNCHANGED streamVars
    BY <1>2 DEF RecordAnchor
  <2>3. StoreNext
    BY <2>1, <2>2 DEF StoreNext
  <2>4. TaskInv'
    BY <1>2 DEF RecordAnchor, streamVars, PlaneInv, TaskInv
  <2> QED BY <2>2, <2>3, <2>4
<1> QED BY <1>1, <1>2

LEMMA SubscriberStep ==
    ASSUME PlaneInv, Subscribes \/ Receive, UNCHANGED <<storeVars, planeVars>>
    PROVE  StreamNext /\ TaskInv'
<1>1. StreamNext
  <2>1. 0 \in 0 .. atSequence /\ atSequence \in 0 .. atSequence
    BY DEF PlaneInv, StreamInv, StreamTypeOK
  <2> QED BY <2>1 DEF Subscribes, StreamNext
<1>2. UNCHANGED hubVars
  BY DEF Subscribes, Subscribe, Receive, RecvEvent, RecvLagged, ReadLog, ReadSnapshot, hubVars
<1>3. TaskInv'
  BY <1>2 DEF hubVars, planeVars, PlaneInv, TaskInv
<1> QED BY <1>1, <1>3

LEMMA PlaneStep ==
    PlaneInv /\ [PlaneNext]_allVars =>
        [StoreNext]_storeVars /\ [StreamNext]_streamVars /\ TaskInv'
<1> SUFFICES ASSUME PlaneInv, [PlaneNext]_allVars
             PROVE  [StoreNext]_storeVars /\ [StreamNext]_streamVars /\ TaskInv'
  OBVIOUS
<1>1. CASE UNCHANGED allVars
  BY <1>1 DEF allVars, planeVars, streamVars, PlaneInv, TaskInv
<1>2. CASE \E thread \in Threads \cup {None}, kind \in Kinds, size \in Sizes, pause \in Pauses :
              Arrive(thread, kind, size, pause)
  BY <1>2, ArriveStep DEF Keys
<1>3. CASE ApplyToLog \/ RecordEvent \/ EndPruning \/ PublishEvent
  BY <1>3, ProcessStep
<1>4. CASE Prune /\ UNCHANGED <<streamVars, planeVars>>
  BY <1>4 DEF StoreNext, streamVars, planeVars, PlaneInv, TaskInv
<1>5. CASE \E t \in Threads : SampleSequence(t) \/ \E size \in Sizes : RecordAnchor(t, size)
  BY <1>5, AnchorStep
<1>6. CASE (Subscribes \/ Receive) /\ UNCHANGED <<storeVars, planeVars>>
  BY <1>6, SubscriberStep
<1>7. CASE Quiet
  BY <1>1, <1>7 DEF Quiet
<1> QED BY <1>1, <1>2, <1>3, <1>4, <1>5, <1>6, <1>7 DEF PlaneNext

THEOREM PlaneInvariance == PlaneSpec => []PlaneInv
<1>1. PlaneInit => PlaneInv
  BY StoreInvInit, StreamInvInit DEF PlaneInit, PlaneInv, TaskInv, Stages
<1>2. PlaneInv /\ [PlaneNext]_allVars => PlaneInv'
  BY PlaneStep, StoreInvStep, StreamInvStep DEF PlaneInv
<1> QED BY <1>1, <1>2, PTL DEF PlaneSpec

\* Every behaviour of the plane is one of the store and one of the stream.
THEOREM PlaneImplementsParts == PlaneSpec => StoreSpec /\ StreamSpec
<1>1. PlaneInit => StoreInit /\ StreamInit
  BY DEF PlaneInit
<1>2. PlaneInv /\ [PlaneNext]_allVars => [StoreNext]_storeVars /\ [StreamNext]_streamVars
  BY PlaneStep
<1> QED BY <1>1, <1>2, PlaneInvariance, PTL DEF PlaneSpec, StoreSpec, StreamSpec

\* Types of the store, the stream and the ingress task.
THEOREM PlaneTypeCorrect == PlaneSpec => []PlaneTypeOK
<1>1. PlaneInv => PlaneTypeOK
  BY DEF PlaneInv, StoreInv, StreamInv, TaskInv, PlaneTypeOK
<1> QED BY <1>1, PlaneInvariance, PTL

\* The subscriber of the plane misses no event unknowingly, and a query about
\* one thread reports what is missing from it.
THEOREM PlaneIsHonest == PlaneSpec => []NoSilentLoss /\ []NamedQueriesAreHonest
  BY PlaneImplementsParts, StreamLosesNothingSilently, StoreIsHonest, PTL

\* While events are processed and anchors put in between, the store keeps to its
\* limits and its gaps count what it has let go.
THEOREM PlaneStoreIsSound == PlaneSpec => []WithinLimits /\ []EvictionsAreCounted
  BY PlaneImplementsParts, StoreStaysWithinLimits, StoreCountsEvictions, PTL
=============================================================================
