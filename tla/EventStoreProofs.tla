-------------------------- MODULE EventStoreProofs --------------------------
(***************************************************************************)
(* Theorems about EventStore, for any threads, limits and entries, in any  *)
(* order of their sequence numbers and times.                              *)
(***************************************************************************)
EXTENDS EventStore, FiniteSetTheorems, TLAPS

Keys == Threads \cup {None}
Locks == {"free", "expiring", "capping"} \cup Threads

\* What has been evicted lies at or below the gap of its thread.
Bounded(i) ==
    LET gap == gaps[recorded[i].thread] IN
    /\ recorded[i].sequence <= gap.before
    /\ gap.deltas + gap.lifecycle > 0

GapInv == \A i \in DOMAIN recorded \ retained : Bounded(i)

StoreInv == StoreTypeOK /\ GapInv

LEMMA StoreInvInit == StoreInit => StoreInv
  BY DEF StoreInit, StoreInv, StoreTypeOK, GapInv, NoGap, Gaps

LEMMA EntryFacts ==
    ASSUME StoreTypeOK
    PROVE  /\ Len(recorded) \in Nat /\ DOMAIN recorded = 1 .. Len(recorded)
           /\ \A i \in DOMAIN recorded : recorded[i] \in Entries
  BY DEF StoreTypeOK

LEMMA RecordStep ==
    ASSUME StoreInv, NEW e \in Entries, Record(e)
    PROVE  StoreInv'
<1> USE DEF Record
<1>1. e.thread \in Keys /\ e.size \in Nat
  BY DEF Entries, Keys
<1>2. /\ recorded' \in Seq(Entries) /\ DOMAIN recorded' = 1 .. Len(recorded) + 1
      /\ \A i \in DOMAIN recorded : recorded'[i] = recorded[i]
  BY DEF StoreInv, StoreTypeOK
<1>3. retained' \subseteq DOMAIN recorded' /\ DOMAIN recorded' \ retained' \subseteq DOMAIN recorded \ retained
  BY <1>2, EntryFacts DEF StoreInv, StoreTypeOK
<1>4. bytes' \in Nat /\ threadBytes' \in [Threads -> Nat]
  BY <1>1 DEF StoreInv, StoreTypeOK, Add, Keys
<1>5. StoreTypeOK'
  BY <1>2, <1>3, <1>4 DEF StoreInv, StoreTypeOK
<1>6. GapInv'
  BY <1>2, <1>3 DEF StoreInv, GapInv, Bounded
<1> QED BY <1>5, <1>6 DEF StoreInv

LEMMA WidenedCovers ==
    ASSUME NEW gap \in Gaps, NEW e \in Entries
    PROVE  LET wide == Widened(gap, e) IN
           /\ wide \in Gaps
           /\ e.sequence <= wide.before /\ gap.before <= wide.before
           /\ wide.deltas + wide.lifecycle > gap.deltas + gap.lifecycle
  BY DEF Gaps, Entries, Widened

LEMMA RemoveStep ==
    ASSUME StoreInv, NEW i \in retained, RemoveAt(i), lock' \in Locks
    PROVE  StoreInv'
<1> DEFINE e == recorded[i]
           k == e.thread
<1> USE DEF RemoveAt
<1>1. i \in DOMAIN recorded /\ e \in Entries /\ k \in Keys /\ e.size \in Nat
  BY EntryFacts DEF StoreInv, StoreTypeOK, Entries, Keys
<1>2. bytes' \in Nat /\ threadBytes' \in [Threads -> Nat]
  BY <1>1 DEF StoreInv, StoreTypeOK, Monus, Keys
<1>3. gaps \in [Keys -> Gaps] /\ gaps' = [gaps EXCEPT ![k] = Widened(gaps[k], e)]
  BY <1>1 DEF StoreInv, StoreTypeOK, Keys
<1>4. gaps' \in [Keys -> Gaps]
  BY <1>1, <1>3, WidenedCovers
<1>5. StoreTypeOK'
  BY <1>2, <1>4 DEF StoreInv, StoreTypeOK, Keys, Locks
<1>6. ASSUME NEW j \in DOMAIN recorded' \ retained'
      PROVE  Bounded(j)'
  <2>1. recorded' = recorded /\ j \in DOMAIN recorded /\ recorded[j] \in Entries
    BY EntryFacts DEF StoreInv
  <2>2. recorded[j].thread \in Keys /\ recorded[j].sequence \in Nat
    BY <2>1 DEF Entries, Keys
  <2> DEFINE old == gaps[recorded[j].thread]
             new == gaps'[recorded[j].thread]
  <2>3. /\ old.before \in Nat /\ old.deltas + old.lifecycle \in Nat
        /\ new.before \in Nat /\ new.deltas + new.lifecycle \in Nat
    BY <2>2, <1>3, <1>4 DEF Gaps
  <2>4. old.before <= new.before /\ old.deltas + old.lifecycle <= new.deltas + new.lifecycle
    <3>1. CASE recorded[j].thread = k
      <4>1. new = Widened(old, e)
        BY <3>1, <1>1, <1>3
      <4> QED BY <4>1, <1>1, <1>3, <2>2, <2>3, WidenedCovers
    <3>2. CASE recorded[j].thread # k
      <4>1. new = old
        BY <3>2, <1>1, <1>3, <2>2
      <4> QED BY <4>1, <2>3
    <3> QED BY <3>1, <3>2
  <2>5. CASE j = i
    <3>1. new = Widened(old, e)
      BY <2>5, <1>1, <1>3
    <3>2. e.sequence <= new.before /\ new.deltas + new.lifecycle > old.deltas + old.lifecycle
      BY <3>1, <1>1, <1>3, <2>2, WidenedCovers
    <3> QED BY <3>2, <2>1, <2>3, <2>5 DEF Bounded
  <2>6. CASE j # i
    <3>1. Bounded(j)
      BY <2>1, <2>6 DEF StoreInv, GapInv
    <3> QED BY <3>1, <2>1, <2>2, <2>3, <2>4 DEF Bounded
  <2> QED BY <2>5, <2>6
<1>7. GapInv'
  BY <1>6 DEF GapInv
<1> QED BY <1>5, <1>7 DEF StoreInv

\* The steps that only move the lock.
LEMMA LockStep ==
    ASSUME StoreInv, lock' \in Locks, UNCHANGED <<recorded, retained, bytes, threadBytes, gaps>>
    PROVE  StoreInv'
  BY DEF StoreInv, StoreTypeOK, GapInv, Bounded, Locks

LEMMA PruneStep ==
    ASSUME StoreInv, Prune \/ Pruned
    PROVE  StoreInv'
<1>1. CASE Expire
  <2>1. PICK i \in retained : RemoveAt(i)
    BY <1>1 DEF Expire
  <2>2. lock' \in Locks
    BY <1>1 DEF Expire, StoreInv, StoreTypeOK, Locks
  <2> QED BY <2>1, <2>2, RemoveStep
<1>2. CASE AllExpired
  BY <1>2, LockStep DEF AllExpired, Locks
<1>3. CASE Evict
  <2>1. PICK i \in retained : RemoveAt(i)
    BY <1>3 DEF Evict
  <2>2. lock' \in Locks
    BY <1>3 DEF Evict, StoreInv, StoreTypeOK, Locks
  <2> QED BY <2>1, <2>2, RemoveStep
<1>4. CASE Pruned
  BY <1>4, LockStep DEF Pruned, Locks
<1> QED BY <1>1, <1>2, <1>3, <1>4 DEF Prune

LEMMA IdleStep ==
    ASSUME StoreInv, (\E t \in Threads : EvictIdle(t)) \/ EvictIdleDelta
    PROVE  StoreInv'
<1>1. CASE \E t \in Threads : EvictIdle(t)
  BY <1>1, LockStep DEF EvictIdle, Locks
<1>2. CASE EvictIdleDelta
  <2>1. PICK i \in retained : RemoveAt(i)
    BY <1>2 DEF EvictIdleDelta
  <2>2. lock' \in Locks
    BY <1>2 DEF EvictIdleDelta, Locks
  <2> QED BY <2>1, <2>2, RemoveStep
<1> QED BY <1>1, <1>2

LEMMA StoreInvStep == StoreInv /\ [StoreNext]_storeVars => StoreInv'
<1> SUFFICES ASSUME StoreInv, [StoreNext]_storeVars
             PROVE  StoreInv'
  OBVIOUS
<1>1. CASE UNCHANGED storeVars
  BY <1>1 DEF storeVars, StoreInv, StoreTypeOK, GapInv, Bounded
<1>2. ASSUME NEW e \in Entries, Record(e) \/ RecordReconstructed(e)
      PROVE  StoreInv'
  BY <1>1, <1>2, RecordStep DEF RecordReconstructed
<1>3. CASE StoreNext
  BY <1>2, <1>3, PruneStep, IdleStep DEF StoreNext
<1> QED BY <1>1, <1>3

THEOREM StoreInvariance == StoreSpec => []StoreInv
  BY StoreInvInit, StoreInvStep, PTL DEF StoreSpec

LEMMA BoundedIsHonest == StoreInv => NamedQueriesAreHonest
<1> SUFFICES ASSUME StoreInv, NEW t \in Threads,
                    NEW i \in DOMAIN recorded, t \in {None, recorded[i].thread},
                    NEW after \in 0 .. recorded[i].sequence - 1, i \notin retained
             PROVE  LET gap == gaps[t] IN gap # NoGap /\ after < gap.before
  <2>1. ASSUME StoreInv, NEW i \in DOMAIN recorded, NEW after \in 0 .. recorded[i].sequence - 1
        PROVE  recorded[i].sequence \in after + 1 .. recorded[i].sequence
    BY <2>1, EntryFacts DEF StoreInv, Entries
  <2> QED BY <2>1 DEF NamedQueriesAreHonest, Honest, QuerySequence
<1>1. t = recorded[i].thread /\ t \in Keys
  BY NoneIsNoThread DEF Keys
<1>2. Bounded(i) /\ recorded[i].sequence \in Nat
  BY EntryFacts DEF StoreInv, GapInv, Entries
<1>3. gaps[t] \in Gaps
  BY <1>1 DEF StoreInv, StoreTypeOK, Keys
<1> QED BY <1>1, <1>2, <1>3 DEF Bounded, Gaps, NoGap

\* README: a query returns gap metadata instead of pretending the history is
\* complete.  For every window on the events of one thread.
THEOREM StoreIsHonest == StoreSpec => []NamedQueriesAreHonest
  BY StoreInvariance, BoundedIsHonest, PTL

-----------------------------------------------------------------------------
(* The counts of the gaps                                                  *)

MissingDeltas(k) == {i \in Missing(k) : recorded[i].kind = "delta"}
MissingOthers(k) == Missing(k) \ MissingDeltas(k)

\* Only finitely many entries have ever been recorded.
LEMMA FiniteMissing ==
    ASSUME StoreTypeOK, NEW k
    PROVE  IsFiniteSet(MissingDeltas(k)) /\ IsFiniteSet(MissingOthers(k))
<1>1. IsFiniteSet(1 .. Len(recorded))
  BY EntryFacts, FS_Interval
<1>2. MissingDeltas(k) \in SUBSET (1 .. Len(recorded)) /\ MissingOthers(k) \in SUBSET (1 .. Len(recorded))
  BY EntryFacts DEF MissingDeltas, MissingOthers, Missing
<1> QED BY <1>1, <1>2, FS_Subset

\* An eviction adds its entry to the missing of one thread, in one plane, and to
\* the same count of the same gap.
LEMMA RemoveCounts ==
    ASSUME StoreInv, EvictionsAreCounted, NEW i \in retained, RemoveAt(i)
    PROVE  EvictionsAreCounted'
<1> DEFINE e == recorded[i]
<1>0. i \in DOMAIN recorded /\ e \in Entries /\ e.thread \in Keys /\ recorded' = recorded
      /\ retained' = retained \ {i}
  BY EntryFacts DEF StoreInv, StoreTypeOK, Entries, Keys, RemoveAt
<1> SUFFICES ASSUME NEW k \in Keys
             PROVE  /\ gaps'[k].deltas = Cardinality(MissingDeltas(k)')
                    /\ gaps'[k].lifecycle = Cardinality(MissingOthers(k)')
  BY DEF EvictionsAreCounted, MissingDeltas, MissingOthers, Keys
<1>1. /\ gaps[k].deltas = Cardinality(MissingDeltas(k))
      /\ gaps[k].lifecycle = Cardinality(MissingOthers(k))
      /\ gaps \in [Keys -> Gaps] /\ gaps' = [gaps EXCEPT ![e.thread] = Widened(gaps[e.thread], e)]
  BY <1>0 DEF EvictionsAreCounted, MissingDeltas, MissingOthers, Keys, StoreInv, StoreTypeOK, RemoveAt
<1>2. /\ IsFiniteSet(MissingDeltas(k)) /\ IsFiniteSet(MissingOthers(k))
      /\ i \notin MissingDeltas(k) /\ i \notin MissingOthers(k)
  BY FiniteMissing DEF StoreInv, MissingDeltas, MissingOthers, Missing
<1>3. CASE e.thread # k
  <2>1. MissingDeltas(k)' = MissingDeltas(k) /\ MissingOthers(k)' = MissingOthers(k)
    BY <1>0, <1>3 DEF MissingDeltas, MissingOthers, Missing
  <2>2. gaps'[k] = gaps[k]
    BY <1>0, <1>1, <1>3
  <2> QED BY <1>1, <2>1, <2>2
<1>4. CASE e.thread = k
  <2>1. gaps'[k] = Widened(gaps[k], e) /\ gaps[k].deltas \in Nat /\ gaps[k].lifecycle \in Nat
    BY <1>0, <1>1, <1>4 DEF Gaps
  <2>2. CASE e.kind = "delta"
    <3>1. MissingDeltas(k)' = MissingDeltas(k) \cup {i} /\ MissingOthers(k)' = MissingOthers(k)
      BY <1>0, <1>4, <2>2 DEF MissingDeltas, MissingOthers, Missing
    <3>2. Cardinality(MissingDeltas(k) \cup {i}) = Cardinality(MissingDeltas(k)) + 1
      BY <1>2, FS_AddElement
    <3> QED BY <1>1, <2>1, <2>2, <3>1, <3>2 DEF Widened
  <2>3. CASE e.kind # "delta"
    <3>1. MissingOthers(k)' = MissingOthers(k) \cup {i} /\ MissingDeltas(k)' = MissingDeltas(k)
      BY <1>0, <1>4, <2>3 DEF MissingDeltas, MissingOthers, Missing
    <3>2. Cardinality(MissingOthers(k) \cup {i}) = Cardinality(MissingOthers(k)) + 1
      BY <1>2, FS_AddElement
    <3> QED BY <1>1, <2>1, <2>3, <3>1, <3>2 DEF Widened
  <2> QED BY <2>2, <2>3
<1> QED BY <1>3, <1>4

\* Every other step leaves what is missing and the gaps as they are.
LEMMA CountStep ==
    StoreInv /\ EvictionsAreCounted /\ [StoreNext]_storeVars => EvictionsAreCounted'
<1> SUFFICES ASSUME StoreInv, EvictionsAreCounted, [StoreNext]_storeVars
             PROVE  EvictionsAreCounted'
  OBVIOUS
<1>1. ASSUME UNCHANGED <<recorded, retained, gaps>> PROVE EvictionsAreCounted'
  BY <1>1 DEF EvictionsAreCounted, Missing
<1>2. ASSUME NEW e \in Entries, Record(e) PROVE EvictionsAreCounted'
  <2>1. /\ DOMAIN recorded' \ retained' = DOMAIN recorded \ retained /\ gaps' = gaps
        /\ \A i \in DOMAIN recorded : recorded'[i] = recorded[i]
    BY <1>2, EntryFacts DEF Record, StoreInv, StoreTypeOK
  <2>2. \A k : MissingDeltas(k)' = MissingDeltas(k) /\ MissingOthers(k)' = MissingOthers(k)
    BY <2>1 DEF MissingDeltas, MissingOthers, Missing
  <2> QED BY <2>1, <2>2 DEF EvictionsAreCounted, MissingDeltas, MissingOthers
<1>3. CASE Prune \/ Pruned \/ EvictIdleDelta
  BY <1>1, <1>3, RemoveCounts DEF Prune, Pruned, Expire, AllExpired, Evict, EvictIdleDelta
<1>4. CASE \E t \in Threads : EvictIdle(t)
  BY <1>1, <1>4 DEF EvictIdle
<1>5. ASSUME NEW e \in Entries, RecordReconstructed(e) PROVE EvictionsAreCounted'
  BY <1>1, <1>2, <1>5 DEF RecordReconstructed, storeVars
<1> QED BY <1>1, <1>2, <1>3, <1>4, <1>5 DEF StoreNext, storeVars

\* remove_at counts every eviction once, for the thread and the plane of the event,
\* whichever loop has chosen it.
THEOREM StoreCountsEvictions == StoreSpec => []EvictionsAreCounted
<1>1. StoreInit => EvictionsAreCounted
  <2> SUFFICES ASSUME StoreInit PROVE EvictionsAreCounted
    OBVIOUS
  <2>1. \A k : Missing(k) = {}
    BY DEF StoreInit, Missing
  <2> QED BY <2>1, FS_EmptySet DEF StoreInit, EvictionsAreCounted, NoGap
<1> QED BY <1>1, CountStep, StoreInvariance, PTL DEF StoreSpec

-----------------------------------------------------------------------------
(* The bytes of the events held                                            *)

\* The bytes of another entry come on top of those of a finite set of bytes.
LEMMA AddedOctets ==
    ASSUME NEW O, IsFiniteSet(O), NEW i, NEW n \in Nat, \A b : <<i, b>> \notin O
    PROVE  /\ IsFiniteSet(O \cup ({i} \X (1 .. n)))
           /\ Cardinality(O \cup ({i} \X (1 .. n))) = Cardinality(O) + n
<1> DEFINE P == {i} \X (1 .. n)
           m == Cardinality(P)
<1>1. IsFiniteSet({i}) /\ Cardinality({i}) = 1
  BY FS_Singleton
<1>2. IsFiniteSet(1 .. n) /\ Cardinality(1 .. n) = n
  BY FS_Interval
<1>3. IsFiniteSet(P) /\ m = Cardinality({i}) * Cardinality(1 .. n)
  BY <1>1, <1>2, FS_Product, Zenon
<1>4. m = n
  BY <1>1, <1>2, <1>3
<1>5. O \cap P = {}
  OBVIOUS
<1> HIDE DEF P
<1>6. Cardinality(O \cap P) = 0 /\ Cardinality(O) \in Nat
  BY <1>5, FS_EmptySet, FS_CardinalityType
<1>7. IsFiniteSet(O \cup P) /\ Cardinality(O \cup P) = Cardinality(O) + m - Cardinality(O \cap P)
  BY <1>3, FS_Union, Zenon
<1>8. Cardinality(O \cup P) = Cardinality(O) + n
  BY <1>4, <1>6, <1>7
<1> QED BY <1>7, <1>8 DEF P

\* Octets and Size of the entries at S of any sequence r.
OctetsIn(r, S) == UNION {{i} \X (1 .. r[i].size) : i \in S}
SizeIn(r, S) == Cardinality(OctetsIn(r, S))

\* One entry more, or one taken out.
LEMMA SizeOfOneMore ==
    ASSUME NEW r, NEW S, IsFiniteSet(OctetsIn(r, S)), NEW i, i \notin S, r[i].size \in Nat
    PROVE  /\ IsFiniteSet(OctetsIn(r, S \cup {i})) /\ SizeIn(r, S) \in Nat
           /\ SizeIn(r, S \cup {i}) = SizeIn(r, S) + r[i].size
<1>1. \A b : <<i, b>> \notin OctetsIn(r, S)
  BY DEF OctetsIn
<1>2. OctetsIn(r, S \cup {i}) = OctetsIn(r, S) \cup ({i} \X (1 .. r[i].size))
  BY DEF OctetsIn
<1> DEFINE O == OctetsIn(r, S)
           n == r[i].size
<1>o. IsFiniteSet(O) /\ n \in Nat /\ \A b : <<i, b>> \notin O
  BY <1>1
<1> HIDE DEF O, n
<1>3. IsFiniteSet(O \cup ({i} \X (1 .. n))) /\ Cardinality(O \cup ({i} \X (1 .. n))) = Cardinality(O) + n
  BY <1>o, AddedOctets
<1> USE DEF O, n
<1> QED BY <1>2, <1>3, FS_CardinalityType DEF SizeIn

LEMMA SizeOfOneLess ==
    ASSUME NEW r, NEW S, IsFiniteSet(OctetsIn(r, S)), NEW i \in S, r[i].size \in Nat
    PROVE  /\ IsFiniteSet(OctetsIn(r, S \ {i})) /\ SizeIn(r, S \ {i}) \in Nat
           /\ SizeIn(r, S) = SizeIn(r, S \ {i}) + r[i].size
<1>1. OctetsIn(r, S \ {i}) \in SUBSET OctetsIn(r, S)
  BY DEF OctetsIn
<1>2. IsFiniteSet(OctetsIn(r, S \ {i}))
  BY <1>1, FS_Subset
<1>3. (S \ {i}) \cup {i} = S
  OBVIOUS
<1> QED BY <1>2, <1>3, SizeOfOneMore

\* Entries that two sequences share.
LEMMA SizeOfShared ==
    ASSUME NEW q, NEW r, NEW S, \A i \in S : q[i] = r[i]
    PROVE  OctetsIn(q, S) = OctetsIn(r, S) /\ SizeIn(q, S) = SizeIn(r, S)
<1>1. OctetsIn(q, S) = OctetsIn(r, S)
  BY DEF OctetsIn
<1> QED BY <1>1 DEF SizeIn

Held(t) == {i \in retained : recorded[i].thread = t}

\* The counters are the bytes held, in all and thread by thread.
CounterInv ==
    /\ IsFiniteSet(OctetsIn(recorded, retained)) /\ bytes = SizeIn(recorded, retained)
    /\ \A t \in Threads : /\ IsFiniteSet(OctetsIn(recorded, Held(t)))
                          /\ threadBytes[t] = SizeIn(recorded, Held(t))

\* Out of its loops the pruning has left nothing over a limit.
LimitInv ==
    lock \notin {"expiring", "capping"} =>
        bytes <= GlobalBytes /\ \A t \in Threads : threadBytes[t] <= PerThreadBytes

LEMMA RecordCounters ==
    ASSUME StoreInv, CounterInv, NEW e \in Entries, Record(e)
    PROVE  CounterInv'
<1> DEFINE n == Len(recorded) + 1
<1>1. /\ n \notin DOMAIN recorded /\ recorded'[n] = e /\ e.size \in Nat
      /\ retained \subseteq DOMAIN recorded
      /\ \A i \in DOMAIN recorded : recorded'[i] = recorded[i]
      /\ retained' = retained \cup {n}
  <2>1. recorded \in Seq(Entries) /\ recorded' = Append(recorded, e) /\ DOMAIN recorded = 1 .. Len(recorded)
        /\ Len(recorded) \in Nat /\ retained' = retained \cup {n} /\ retained \subseteq DOMAIN recorded
    BY EntryFacts DEF Record, StoreInv, StoreTypeOK
  <2>2. e.size \in Nat
    BY DEF Entries
  <2> QED BY <2>1, <2>2
<1> HIDE DEF n
<1>2. ASSUME NEW S \in SUBSET retained, IsFiniteSet(OctetsIn(recorded, S))
      PROVE  /\ IsFiniteSet(OctetsIn(recorded', S \cup {n}))
             /\ SizeIn(recorded', S \cup {n}) = SizeIn(recorded, S) + e.size
  <2>1. /\ OctetsIn(recorded', S) = OctetsIn(recorded, S)
        /\ SizeIn(recorded', S) = SizeIn(recorded, S)
    BY <1>1, SizeOfShared
  <2>2. n \notin S /\ recorded'[n].size = e.size
    BY <1>1
  <2> QED BY <1>1, <1>2, <2>1, <2>2, SizeOfOneMore
<1>3. /\ IsFiniteSet(OctetsIn(recorded', retained'))
      /\ bytes' = SizeIn(recorded', retained')
  BY <1>1, <1>2 DEF Record, CounterInv
<1>4. ASSUME NEW t \in Threads
      PROVE  /\ IsFiniteSet(OctetsIn(recorded', Held(t)'))
             /\ threadBytes'[t] = SizeIn(recorded', Held(t)')
  <2>0. /\ Held(t) \in SUBSET retained /\ threadBytes[t] = SizeIn(recorded, Held(t))
        /\ IsFiniteSet(OctetsIn(recorded, Held(t)))
        /\ threadBytes \in [Threads -> Nat] /\ e.thread \in Keys
    BY DEF Held, CounterInv, StoreInv, StoreTypeOK, Entries, Keys
  <2>1. CASE e.thread = t
    <3>1. Held(t)' = Held(t) \cup {n}
      BY <1>1, <2>1 DEF Held
    <3>2. threadBytes'[t] = threadBytes[t] + e.size
      BY <2>0, <2>1, NoneIsNoThread DEF Record, Add
    <3> QED BY <1>2, <2>0, <3>1, <3>2
  <2>2. CASE e.thread # t
    <3>1. Held(t)' = Held(t)
      BY <1>1, <2>2 DEF Held
    <3>2. threadBytes'[t] = threadBytes[t]
      BY <2>0, <2>2 DEF Record, Add
    <3>3. \A i \in Held(t) : recorded'[i] = recorded[i]
      BY <1>1, <2>0
    <3> QED BY <2>0, <3>1, <3>2, <3>3, SizeOfShared
  <2> QED BY <2>1, <2>2
<1> QED BY <1>3, <1>4 DEF CounterInv

\* An eviction takes off what the entry has brought, never more than is there.
LEMMA RemoveCounters ==
    ASSUME StoreInv, CounterInv, NEW i \in retained, RemoveAt(i)
    PROVE  /\ CounterInv'
           /\ bytes' <= bytes /\ \A t \in Threads : threadBytes'[t] <= threadBytes[t]
<1> DEFINE e == recorded[i]
<1>0. /\ i \in DOMAIN recorded /\ e.thread \in Keys /\ recorded[i].size \in Nat
      /\ recorded' = recorded /\ retained' = retained \ {i}
      /\ bytes \in Nat /\ threadBytes \in [Threads -> Nat]
  BY EntryFacts DEF StoreInv, StoreTypeOK, Entries, Keys, RemoveAt
<1>1. /\ IsFiniteSet(OctetsIn(recorded', retained'))
      /\ bytes' = SizeIn(recorded', retained') /\ bytes' <= bytes
  <2>1. /\ IsFiniteSet(OctetsIn(recorded, retained \ {i})) /\ SizeIn(recorded, retained \ {i}) \in Nat
        /\ bytes = SizeIn(recorded, retained \ {i}) + e.size
    BY <1>0, SizeOfOneLess DEF CounterInv
  <2>2. bytes' = bytes - e.size
    BY <1>0, <2>1 DEF RemoveAt, Monus
  <2> QED BY <1>0, <2>1, <2>2
<1>2. ASSUME NEW t \in Threads
      PROVE  /\ IsFiniteSet(OctetsIn(recorded', Held(t)'))
             /\ threadBytes'[t] = SizeIn(recorded', Held(t)') /\ threadBytes'[t] <= threadBytes[t]
  <2>0. /\ IsFiniteSet(OctetsIn(recorded, Held(t))) /\ threadBytes[t] = SizeIn(recorded, Held(t))
        /\ threadBytes[t] \in Nat
    BY <1>0 DEF CounterInv
  <2>1. CASE e.thread = t
    <3>1. Held(t)' = Held(t) \ {i} /\ i \in Held(t)
      BY <1>0, <2>1 DEF Held
    <3>2. /\ IsFiniteSet(OctetsIn(recorded, Held(t) \ {i})) /\ SizeIn(recorded, Held(t) \ {i}) \in Nat
          /\ threadBytes[t] = SizeIn(recorded, Held(t) \ {i}) + e.size
      BY <1>0, <2>0, <3>1, SizeOfOneLess
    <3>3. threadBytes'[t] = threadBytes[t] - e.size
      BY <1>0, <2>1, <3>2, NoneIsNoThread DEF RemoveAt, Monus
    <3> QED BY <1>0, <3>1, <3>2, <3>3
  <2>2. CASE e.thread # t
    <3>1. Held(t)' = Held(t)
      BY <1>0, <2>2 DEF Held
    <3>2. threadBytes'[t] = threadBytes[t]
      BY <1>0, <2>2 DEF RemoveAt
    <3> QED BY <1>0, <2>0, <3>1, <3>2
  <2> QED BY <2>1, <2>2
<1> QED BY <1>1, <1>2 DEF CounterInv

\* The loops end when nothing is over a limit; other steps free no lock that an
\* insertion has taken.
LEMMA LimitStep ==
    StoreInv /\ StoreInv' /\ CounterInv /\ LimitInv /\ [StoreNext]_storeVars =>
        CounterInv' /\ LimitInv'
<1> SUFFICES ASSUME StoreInv, StoreInv', CounterInv, LimitInv, [StoreNext]_storeVars
             PROVE  CounterInv' /\ LimitInv'
  OBVIOUS
<1>0. bytes \in Nat /\ \A t \in Threads : threadBytes[t] \in Nat
  BY DEF StoreInv, StoreTypeOK
<1>1. ASSUME UNCHANGED <<recorded, retained, bytes, threadBytes>> PROVE CounterInv'
  BY <1>1 DEF CounterInv, Held
<1>2. ASSUME NEW e \in Entries, Record(e) PROVE CounterInv' /\ LimitInv'
  BY <1>2, RecordCounters DEF Record, LimitInv
<1>3. CASE Expire \/ Evict
  <2>1. \E i \in retained : RemoveAt(i)
    BY <1>3 DEF Expire, Evict
  <2> QED BY <1>3, <2>1, RemoveCounters DEF Expire, Evict, LimitInv
<1>4. CASE AllExpired
  BY <1>1, <1>4 DEF AllExpired, LimitInv
<1>5. CASE Pruned
  <2>1. ~(bytes > GlobalBytes) /\ \A t \in Threads : ~(threadBytes[t] > PerThreadBytes)
    BY <1>5 DEF Pruned, Pressing, Over
  <2> QED BY <1>0, <1>1, <1>5, <2>1, StoreLimits DEF Pruned, LimitInv
<1>6. CASE \E t \in Threads : EvictIdle(t)
  BY <1>1, <1>6 DEF EvictIdle, LimitInv
<1>7. CASE EvictIdleDelta
  <2>1. PICK i \in retained : RemoveAt(i)
    BY <1>7 DEF EvictIdleDelta
  <2>2. /\ CounterInv' /\ bytes' <= bytes
        /\ \A t \in Threads : threadBytes'[t] <= threadBytes[t]
    BY <2>1, RemoveCounters
  <2>3. bytes' \in Nat /\ \A t \in Threads : threadBytes'[t] \in Nat
    BY DEF StoreInv, StoreTypeOK
  <2>4. lock \notin {"expiring", "capping"}
    BY <1>7, LocksAreNoThreads DEF EvictIdleDelta
  <2> QED BY <1>0, <2>2, <2>3, <2>4, StoreLimits DEF LimitInv
<1>8. CASE UNCHANGED storeVars
  BY <1>1, <1>8 DEF storeVars, LimitInv
<1>9. ASSUME NEW e \in Entries, RecordReconstructed(e) PROVE CounterInv' /\ LimitInv'
  BY <1>2, <1>8, <1>9 DEF RecordReconstructed
<1> QED BY <1>2, <1>3, <1>4, <1>5, <1>6, <1>7, <1>8, <1>9 DEF StoreNext, Prune

\* prune_locked: however an insertion, an expiry or an idle release has left the
\* store, the events held when the lock is free fit the limits.
THEOREM StoreStaysWithinLimits == StoreSpec => []WithinLimits
<1>1. StoreInit => CounterInv /\ LimitInv
  <2> SUFFICES ASSUME StoreInit PROVE CounterInv /\ LimitInv
    OBVIOUS
  <2>1. OctetsIn(recorded, {}) = {}
    BY DEF OctetsIn
  <2>2. IsFiniteSet(OctetsIn(recorded, {})) /\ SizeIn(recorded, {}) = 0
    BY <2>1, FS_EmptySet DEF SizeIn
  <2>3. retained = {} /\ \A t \in Threads : Held(t) = {}
    BY DEF StoreInit, Held
  <2>4. CounterInv
    BY <2>2, <2>3 DEF StoreInit, CounterInv
  <2> QED BY <2>4, StoreLimits DEF StoreInit, LimitInv
<1>2. CounterInv /\ LimitInv => WithinLimits
  <2>1. \A S : Size(S) = SizeIn(recorded, S)
    BY DEF Size, SizeIn, Octets, OctetsIn
  <2> QED BY <2>1 DEF CounterInv, LimitInv, WithinLimits, Held
<1> QED BY <1>1, <1>2, LimitStep, StoreInvariance, PTL DEF StoreSpec
=============================================================================
