------------------------ MODULE LifecycleStreamProofs ------------------------
(***************************************************************************)
(* Theorems about LifecycleStream, for any capacities of the log and the   *)
(* topic and any number of events.                                         *)
(***************************************************************************)
EXTENDS LifecycleStream, TLAPS

Ordered ==
    /\ \A i, j \in DOMAIN logged : i < j => logged[i] < logged[j]
    /\ \A i \in DOMAIN logged : 0 < logged[i] /\ logged[i] <= atSequence

\* NoSilentLoss, of events that are applied and not yet published as well: the
\* log may have been replayed up to those.
Covered ==
    \A i \in since .. Len(logged) :
        (i < next /\ mode = "receiving") \/ logged[i] <= cursor =>
            logged[i] \in heard \/ logged[i] <= known

\* A cursor that is ahead of the log got there by a snapshot.
CursorKnown == cursor <= known \/ \E i \in DOMAIN logged : cursor <= logged[i]

\* A receiver is never ahead of the topic.
Behind == next <= sent + 1

StreamInv == StreamTypeOK /\ Ordered /\ Covered /\ CursorKnown /\ Behind

LEMMA LogFacts ==
    ASSUME StreamTypeOK
    PROVE  /\ Len(logged) \in Nat /\ DOMAIN logged = 1 .. Len(logged)
           /\ \A i \in DOMAIN logged : logged[i] \in Nat
  BY DEF StreamTypeOK

LEMMA StreamInvInit == StreamInit => StreamInv
  BY DEF StreamInit, StreamInv, StreamTypeOK, Ordered, Covered, CursorKnown, Behind

\* A step of the ingress task.
LEMMA IngressStep ==
    ASSUME StreamInv,
           \/ \E s \in Nat : Fold(s)
           \/ (logged = <<>> \/ atSequence > logged[Len(logged)]) /\ atSequence > 0 /\ AppendToLog
           \/ Publish
    PROVE  StreamInv'
<1>1. CASE \E s \in Nat : Fold(s)
  BY <1>1 DEF Fold, StreamInv, StreamTypeOK, Ordered, Covered, CursorKnown, Behind
<1>2. CASE (logged = <<>> \/ atSequence > logged[Len(logged)]) /\ atSequence > 0 /\ AppendToLog
  <2> USE <1>2 DEF AppendToLog
  <2>1. /\ Len(logged') = Len(logged) + 1 /\ DOMAIN logged' = 1 .. Len(logged) + 1
        /\ logged' \in Seq(Nat) /\ logged'[Len(logged) + 1] = atSequence
        /\ \A i \in DOMAIN logged : logged'[i] = logged[i]
        /\ DOMAIN logged = 1 .. Len(logged) /\ Len(logged) \in Nat
    BY DEF StreamInv, StreamTypeOK
  <2>2. \A i \in DOMAIN logged : logged[i] < atSequence
    BY <2>1 DEF StreamInv, StreamTypeOK, Ordered
  <2>3. StreamTypeOK' /\ Behind'
    BY <2>1 DEF StreamInv, StreamTypeOK, Behind
  <2>4. Ordered'
    BY <2>1, <2>2 DEF StreamInv, StreamTypeOK, Ordered
  <2>5. CursorKnown'
    BY <2>1 DEF StreamInv, CursorKnown
  <2>6. Covered'
    <3> SUFFICES ASSUME NEW i \in since .. Len(logged'),
                        (i < next /\ mode = "receiving") \/ logged'[i] <= cursor
                 PROVE  logged'[i] \in heard \/ logged'[i] <= known
      BY DEF Covered
    <3>1. CASE i \in DOMAIN logged
      BY <3>1, <2>1 DEF StreamInv, StreamTypeOK, Covered
    <3>2. CASE i = Len(logged) + 1
      <4>1. atSequence <= cursor
        BY <3>2, <2>1 DEF StreamInv, StreamTypeOK, Behind
      <4>2. cursor <= known
        BY <4>1, <2>1, <2>2 DEF StreamInv, StreamTypeOK, CursorKnown
      <4> QED BY <4>1, <4>2, <3>2, <2>1 DEF StreamInv, StreamTypeOK
    <3> QED BY <3>1, <3>2, <2>1 DEF StreamInv, StreamTypeOK
  <2> QED BY <2>3, <2>4, <2>5, <2>6 DEF StreamInv
<1>3. CASE Publish
  BY <1>3 DEF Publish, StreamInv, StreamTypeOK, Ordered, Covered, CursorKnown, Behind
<1> QED BY <1>1, <1>2, <1>3

LEMMA SubscribeStep ==
    ASSUME StreamInv, NEW after \in 0 .. atSequence, Subscribe(after)
    PROVE  StreamInv'
  BY DEF Subscribe, hubVars, StreamInv, StreamTypeOK, Ordered, Covered, CursorKnown, Behind

\* What a replay leaves out of the events after the cursor is nothing.
LEMMA ReplayIsComplete ==
    ASSUME StreamInv, ~TooOld, NEW i \in DOMAIN logged, logged[i] > cursor
    PROVE  logged[i] \in Retained
<1>1. logged # <<>> /\ Len(logged) \in Nat \ {0} /\ DOMAIN logged = 1 .. Len(logged)
  BY DEF StreamInv, StreamTypeOK
<1>2. LogStart \in DOMAIN logged
  BY <1>1, StreamLimits DEF LogStart
<1>3. logged[LogStart] <= logged[i]
  BY <1>1, <1>2 DEF TooOld, StreamInv, StreamTypeOK
<1>4. LogStart <= i
  <2> SUFFICES ASSUME i < LogStart PROVE FALSE
    BY <1>1, <1>2
  <2>1. logged[i] < logged[LogStart]
    BY <1>2 DEF StreamInv, Ordered
  <2> QED BY <2>1, <1>2, <1>3, LogFacts DEF StreamInv
<1> QED BY <1>1, <1>2, <1>4 DEF Retained

LEMMA ReceiveStep ==
    ASSUME StreamInv, Receive
    PROVE  StreamInv'
<1> USE DEF hubVars
<1>1. CASE RecvEvent
  <2> USE <1>1 DEF RecvEvent
  <2>1. next \in DOMAIN logged /\ next <= sent /\ logged[next] \in Nat
    BY DEF StreamInv, StreamTypeOK, RingStart
  <2>2. StreamTypeOK' /\ Behind'
    <3>1. next \in Nat /\ sent \in Nat /\ heard \subseteq Nat
      BY LogFacts DEF StreamInv, StreamTypeOK
    <3>2. next' \in Nat \ {0} /\ next' <= sent + 1
      BY <2>1, <3>1
    <3>3. cursor' \in Nat /\ heard' \subseteq Nat
      BY <2>1, <3>1
    <3> QED BY <3>2, <3>3 DEF StreamInv, StreamTypeOK, Behind
  <2>3. CursorKnown' /\ Ordered'
    BY <2>1 DEF StreamInv, StreamTypeOK, CursorKnown, Ordered
  <2>4. Covered'
    <3> SUFFICES ASSUME NEW i \in since .. Len(logged),
                        i < next + 1 \/ logged[i] <= logged[next], i # next
                 PROVE  logged[i] \in heard \/ logged[i] <= known
      BY <2>1 DEF Covered
    <3>1. i \in DOMAIN logged /\ i \in Nat /\ next \in Nat
      BY DEF StreamInv, StreamTypeOK
    <3>2. i < next
      <4> SUFFICES ASSUME next < i PROVE FALSE
        BY <3>1
      <4>1. logged[next] < logged[i]
        BY <3>1, <2>1 DEF StreamInv, Ordered
      <4> QED BY <4>1, <3>1, <2>1, LogFacts DEF StreamInv
    <3> QED BY <3>2 DEF StreamInv, Covered
  <2> QED BY <2>2, <2>3, <2>4 DEF StreamInv
<1>2. CASE RecvLagged
  BY <1>2, StreamLimits
  DEF RecvLagged, RingStart, StreamInv, StreamTypeOK, Ordered, Covered, CursorKnown, Behind
<1>3. CASE ReadLog /\ TooOld
  BY <1>3 DEF ReadLog, StreamInv, StreamTypeOK, Ordered, Covered, CursorKnown, Behind
<1>4. CASE ReadLog /\ ~TooOld
  <2> USE <1>4 DEF ReadLog
  <2>1. Retained \subseteq Nat
    BY StreamLimits DEF Retained, LogStart, StreamInv, StreamTypeOK
  <2>2. Retained # {} => Len(logged) \in DOMAIN logged /\ logged[Len(logged)] \in Nat
    BY StreamLimits DEF Retained, LogStart, StreamInv, StreamTypeOK
  <2>3. StreamTypeOK' /\ Behind' /\ Ordered'
    BY <2>1, <2>2 DEF StreamInv, StreamTypeOK, Behind, Ordered
  <2>5. CursorKnown'
    <3>1. CASE \E s \in Retained : s > cursor
      BY <3>1, <2>2 DEF CursorKnown
    <3>2. CASE ~\E s \in Retained : s > cursor
      BY <3>2 DEF StreamInv, CursorKnown
    <3> QED BY <3>1, <3>2
  <2>4. Covered'
    <3> SUFFICES ASSUME NEW i \in since .. Len(logged)
                 PROVE  logged[i] \in heard' \/ logged[i] <= known
      BY DEF Covered
    <3>1. i \in DOMAIN logged /\ logged[i] \in Nat /\ cursor \in Nat
      BY DEF StreamInv, StreamTypeOK
    <3>2. CASE logged[i] <= cursor
      BY <3>1, <3>2 DEF StreamInv, Covered
    <3>3. CASE logged[i] > cursor
      BY <3>1, <3>3, ReplayIsComplete
    <3> QED BY <3>1, <3>2, <3>3
  <2> QED BY <2>3, <2>4, <2>5 DEF StreamInv
<1>5. CASE ReadSnapshot
  BY <1>5
  DEF ReadSnapshot, StreamInv, StreamTypeOK, Ordered, Covered, CursorKnown, Behind
<1> QED BY <1>1, <1>2, <1>3, <1>4, <1>5 DEF Receive

LEMMA StreamInvStep == StreamInv /\ [StreamNext]_streamVars => StreamInv'
<1> SUFFICES ASSUME StreamInv, [StreamNext]_streamVars
             PROVE  StreamInv'
  OBVIOUS
<1>1. CASE StreamNext
  BY <1>1, IngressStep, SubscribeStep, ReceiveStep DEF StreamNext
<1>2. CASE UNCHANGED streamVars
  BY <1>2 DEF streamVars, StreamInv, StreamTypeOK, Ordered, Covered, CursorKnown, Behind
<1> QED BY <1>1, <1>2

THEOREM StreamInvariance == StreamSpec => []StreamInv
  BY StreamInvInit, StreamInvStep, PTL DEF StreamSpec

\* A subscriber that lags, is replayed to or is given a snapshot never passes
\* over a lifecycle event that it neither heard nor was told to have missed.
THEOREM StreamLosesNothingSilently == StreamSpec => []NoSilentLoss
<1>1. StreamInv => NoSilentLoss
  BY DEF StreamInv, StreamTypeOK, Covered, NoSilentLoss
<1> QED BY <1>1, StreamInvariance, PTL
=============================================================================
