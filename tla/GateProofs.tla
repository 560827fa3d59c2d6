----------------------------- MODULE GateProofs -----------------------------
(***************************************************************************)
(* Theorems about ReconnectGate, for any number of passes and actions.     *)
(***************************************************************************)
EXTENDS ReconnectGate, TransportProofs

-----------------------------------------------------------------------------
(* The transport under the tasks of core.                                  *)

LookOnly ==
    UNCHANGED <<callVars, handleVars, queue, link, conn, health, ready, pending,
                daemonVars, frameVars>> /\ fresh' = FALSE

WatchType ==
    /\ watcher \in {"asleep", "due", "listing", "marking", "off"}
    /\ job \in Seq(Passes) /\ booted \in BOOLEAN /\ closing \in BOOLEAN
    /\ watcher \in {"listing", "marking"} => job # <<>>

LEMMA CurrentIsPass ==
    ASSUME job \in Seq(Passes), job # <<>>
    PROVE  Current \in Passes /\ Current \in Markers /\ Current \in Reqs
  <1>1. Current \in Passes
    BY DEF Current
  <1> QED BY <1>1, PassesReadAndMark DEF Passes, Reqs

LEMMA AppendCurrent ==
    ASSUME job \in Seq(Passes), NEW p \in Passes, job' = Append(job, p)
    PROVE  job' \in Seq(Passes) /\ job' # <<>> /\ Current' = p
  BY DEF Current

\* A step of the composition is one of the transport, or a look at health.
LEMMA GateSteps == WatchType /\ [GateNext]_allVars => [Next]_vars \/ LookOnly
  <1> SUFFICES ASSUME WatchType, [GateNext]_allVars PROVE [Next]_vars \/ LookOnly
    OBVIOUS
  <1>1. CASE Base
    BY <1>1 DEF Next
  <1>2. ASSUME NEW p \in Passes, StartPass(p) PROVE Next
    BY <1>2 DEF StartPass, Next, Start, Passes, Reqs
  <1>3. CASE ListOk
    BY <1>3, CurrentIsPass DEF ListOk, Next, WatchType
  <1>4. CASE BootFails \/ CloseTransport \/ IngressTaskEnds
    BY <1>4 DEF BootFails, CloseTransport, IngressTaskEnds, Next
  <1>5. CASE ListFails \/ Marked \/ WatcherStops \/ CloseHandle \/ Halted \/ UNCHANGED allVars
    BY <1>5 DEF ListFails, Marked, WatcherStops, CloseHandle, Halted, allVars
  <1>6. CASE LookAtHealth
    BY <1>6 DEF LookAtHealth, LookOnly
  <1>7. ASSUME NEW a \in ActionReqs, ActionStarts(a) PROVE Next
    BY <1>7 DEF ActionStarts, Next, Reqs
  <1> QED BY <1>1, <1>2, <1>3, <1>4, <1>5, <1>6, <1>7 DEF GateNext

LEMMA LookKeeps == DInv /\ LookOnly => DInv'
  <1> SUFFICES ASSUME DInv, LookOnly PROVE DInv'
    OBVIOUS
  <1> USE DEF LookOnly, callVars, handleVars, daemonVars, frameVars
  <1>1. TypeOK'
    BY DEF DInv, IInv, TypeOK
  <1>2. NoTwins(queue)' /\ Queued' = Queued
    BY DEF DInv, IInv, NoTwins, Queued
  <1>3. ASSUME NEW r \in Reqs PROVE RequestInv(r)' /\ DeliveryInv(r)'
    <2>1. RequestInv(r) /\ DeliveryInv(r)
      BY DEF DInv, IInv
    <2> QED BY <1>2, <2>1 DEF RequestInv, DeliveryInv, Unseen
  <1> QED BY <1>1, <1>2, <1>3 DEF DInv, IInv

LEMMA WatchTypeStep == WatchType /\ [GateNext]_allVars => WatchType'
  <1> SUFFICES ASSUME WatchType, [GateNext]_allVars PROVE WatchType'
    OBVIOUS
  <1>1. ASSUME NEW p \in Passes, StartPass(p) PROVE WatchType'
    BY <1>1, AppendCurrent DEF StartPass, WatchType
  <1>2. CASE UNCHANGED gateVars
    BY <1>2 DEF gateVars, WatchType
  <1>3. CASE ListOk \/ ListFails \/ BootFails \/ Marked
    BY <1>3 DEF ListOk, ListFails, BootFails, Marked, WatchType
  <1>4. CASE LookAtHealth \/ WatcherStops \/ CloseHandle
    BY <1>4 DEF LookAtHealth, WatcherStops, CloseHandle, WatchType
  <1>5. CASE CloseTransport \/ IngressTaskEnds \/ Halted \/ UNCHANGED allVars
    BY <1>2, <1>5 DEF CloseTransport, IngressTaskEnds, Halted, allVars
  <1>6. ASSUME NEW a \in ActionReqs, ActionStarts(a) PROVE WatchType'
    BY <1>2, <1>6 DEF ActionStarts
  <1> QED BY <1>1, <1>2, <1>3, <1>4, <1>5, <1>6 DEF GateNext

LEMMA GateBase == GateSpec => [](DInv /\ WatchType)
  <1>1. GateInit => DInv /\ WatchType
    <2>1. <<>> \in Seq(Passes)
      OBVIOUS
    <2> QED BY <2>1, InvInit, DeliveryInit DEF GateInit, DInv, WatchType
  <1>2. DInv /\ WatchType /\ [GateNext]_allVars => (DInv /\ WatchType)'
    BY GateSteps, LookKeeps, WatchTypeStep, InvStep, DeliveryStep DEF DInv
  <1> QED BY <1>1, <1>2, PTL DEF GateSpec

\* The tasks of core and the transport they drive keep their types.
THEOREM GateTypeCorrect == GateSpec => []GateTypeOK
  <1>1. DInv /\ WatchType => GateTypeOK
    BY DEF DInv, IInv, WatchType, GateTypeOK
  <1> QED BY <1>1, GateBase, PTL

\* What a result means, and to which connection a pending request belongs, is the
\* same under the tasks of core.
THEOREM ResultsHoldUnderCore ==
    GateSpec => [](SafeToRetryIsSafe /\ AnswerIsTheDaemons /\ PendingOfThisConnection)
  <1>1. DInv => SafeToRetryIsSafe /\ AnswerIsTheDaemons
    BY DEF DInv, IInv, RequestInv, Unseen, SafeToRetryIsSafe, AnswerIsTheDaemons
  <1>2. DInv => PendingOfThisConnection
    BY DEF DInv, IInv, DeliveryInv, TypeOK, PendingOfThisConnection
  <1> QED BY <1>1, <1>2, GateBase, PTL

\* No action or list request is written twice, whatever the reconciliation, the
\* reconnect task and the shutdown do in between.
THEOREM WrittenOnceUnderCore == GateSpec => WrittenOnce
  <1>1. DInv /\ WatchType /\ [GateNext]_allVars =>
          [\A r \in Reqs : onConn[r] # 0 =>
               onConn'[r] = onConn[r] /\ (r \notin wire => r \notin wire')]_vars
    <2>1. LookOnly => UNCHANGED <<onConn, wire>>
      BY DEF LookOnly, daemonVars
    <2> QED BY <2>1, GateSteps, WriteStep
  <1> QED BY <1>1, GateBase, PTL DEF GateSpec, WrittenOnce

\* Every frame of every connection reaches the ingress task once and in order,
\* until core drops the receiver in its shutdown.
THEOREM IngressUnderCore == GateSpec => []IngressLossless
  <1>1. GateInit => IngressInv
    BY DEF GateInit, Init, IngressInv, InOrder
  <1>2. DInv /\ WatchType /\ IngressInv /\ [GateNext]_allVars => IngressInv'
    <2>1. LookOnly /\ IngressInv => IngressInv'
      BY DEF LookOnly, IngressInv, InOrder, frameVars
    <2> QED BY <2>1, GateSteps, IngressStep DEF DInv, IInv
  <1>3. DInv /\ IngressInv => IngressLossless
    BY NothingSkipped DEF DInv, IInv
  <1> QED BY <1>1, <1>2, <1>3, GateBase, PTL DEF GateSpec

\* The callers of core, the controller and the reconciliation among them, see a
\* behaviour of RequestContract: a step of core is one of the transport, or a
\* look at the health, which no caller sees.
THEOREM CoreKeepsContract == GateSpec => ImplementsContract
  <1>1. DInv /\ WatchType /\ [GateNext]_allVars => [Contract!Next]_(Contract!contractVars)
    <2>1. LookOnly => UNCHANGED Contract!contractVars
      BY DEF LookOnly, callVars, daemonVars, Contract!contractVars, AbstractCall
    <2> QED BY <2>1, GateSteps, ContractStep DEF DInv
  <1>2. GateInit => Contract!Init
    BY ContractInit DEF GateInit
  <1>3. GateSpec => Contract!Init /\ [][Contract!Next]_(Contract!contractVars)
    BY <1>1, <1>2, GateBase, PTL DEF GateSpec
  <1> QED BY <1>3 DEF ImplementsContract, Contract!Spec

-----------------------------------------------------------------------------
(* The first reconciliation comes before any action.                       *)

\* Only a caller moves its own call, and only drive writes.
LEMMA CallerMoves ==
    Base \/ StopBegin \/ DropIngress \/ Quiet \/ (\E m \in Markers : MarkReady(m)) =>
        call' = call \/ \E r \in Reqs : Proceed(r)
  <1>1. CASE Loop
    BY <1>1 DEF Loop, ConnectOk, ConnectFails, HandshakeEvent, HandshakeOk, Retry,
                RejectWhileDisconnected, callVars
  <1>2. CASE Drive
    BY <1>2 DEF Drive, TakeCommand, WriteRequest, WriteFails, WriteNote, TakeReconciled,
                TakeShutdown, ReadResponse, ReadEvent, HandOver, HandOverFails, ConnectionLost,
                callVars
  <1>3. CASE \/ \E m \in Markers : MarkReady(m) \/ MarkSend(m) \/ MarkFails(m)
             \/ \E n \in Notes : SendNote(n)
    BY <1>3 DEF MarkReady, MarkSend, MarkFails, SendNote, callVars
  <1>4. CASE StopBegin \/ StopSend \/ Daemon \/ Consume \/ DropIngress \/ Quiet
    BY <1>4 DEF StopBegin, StopSend, Daemon, Perform, Consume, DropIngress, Quiet, vars, callVars
  <1> QED BY <1>1, <1>2, <1>3, <1>4 DEF Base

LEMMA ResultsStay ==
    ASSUME DInv, [Next]_vars, NEW s \in Reqs, call[s] \in Results
    PROVE  call'[s] = call[s]
  <1>t. call \in [Reqs -> {"idle", "sending", "waiting"} \cup Results]
    BY DEF DInv, IInv, TypeOK
  <1>1. ASSUME NEW r \in Reqs, Start(r) \/ Proceed(r) PROVE call'[s] = call[s]
    BY <1>1, <1>t DEF Start, Refuse, Pass, Proceed, Enqueue, EnqueueFails, Return, TimeOut,
       Results, Verdicts, SafeToRetry
  <1>2. CASE UNCHANGED vars
    BY <1>2 DEF vars, callVars
  <1> QED BY <1>1, <1>2, CallerMoves DEF Next

LEMMA IdleStays ==
    ASSUME DInv, NEW s \in Reqs, call[s] = "idle",
           Base \/ StopBegin \/ DropIngress \/ Quiet \/ (\E m \in Markers : MarkReady(m))
    PROVE  call'[s] = "idle"
  <1>1. ASSUME NEW r \in Reqs, Proceed(r) PROVE call'[s] = "idle"
    <2>1. call[r] \in {"sending", "waiting"} /\ \E x : call' = [call EXCEPT ![r] = x]
      BY <1>1 DEF Proceed, Enqueue, EnqueueFails, Return, TimeOut
    <2>2. call \in [Reqs -> {"idle", "sending", "waiting"} \cup Results]
      BY DEF DInv, IInv, TypeOK
    <2> QED BY <2>1, <2>2
  <1> QED BY <1>1, CallerMoves

LEMMA WritesStay ==
    ASSUME DInv, [Next]_vars, NEW s \in Reqs
    PROVE  /\ conn' >= conn
           /\ \/ onConn'[s] = onConn[s]
              \/ /\ call[s] \in {"waiting", "TimedOut"}
                 /\ call' = call /\ onConn'[s] = conn /\ conn' = conn
  <1>t. onConn \in [Reqs -> Nat] /\ conn \in Nat /\ queue \in Seq(Commands)
    BY DEF DInv, IInv, TypeOK
  <1>0. CASE UNCHANGED <<onConn, conn>>
    BY <1>0, <1>t
  <1>1. ASSUME NEW r \in Reqs, WriteRequest(r)
        PROVE  /\ conn' >= conn
               /\ \/ onConn'[s] = onConn[s]
                  \/ /\ call[s] \in {"waiting", "TimedOut"}
                     /\ call' = call /\ onConn'[s] = conn /\ conn' = conn
    <2>1. Request(r) \in Queued
      BY <1>1, <1>t, TailElems DEF WriteRequest, Queued
    <2>2. call[r] \in {"waiting", "TimedOut"}
      BY <2>1 DEF DInv, IInv, RequestInv
    <2> QED BY <1>1, <1>t, <2>2 DEF WriteRequest, callVars, linkVars
  <1>2. CASE HandshakeOk
    BY <1>2, <1>t DEF HandshakeOk, daemonVars
  <1>3. ASSUME NEW r \in Reqs, Start(r) \/ Proceed(r) PROVE UNCHANGED <<onConn, conn>>
    BY <1>3 DEF Start, Refuse, Pass, Proceed, Enqueue, EnqueueFails, Return, TimeOut,
                linkVars, daemonVars
  <1>4. ASSUME \/ \E m \in Markers : MarkReady(m) \/ MarkSend(m) \/ MarkFails(m)
               \/ \E n \in Notes : SendNote(n)
        PROVE  UNCHANGED <<onConn, conn>>
    BY <1>4 DEF MarkReady, MarkSend, MarkFails, SendNote, linkVars, daemonVars
  <1>5. ASSUME StopBegin \/ StopSend \/ Daemon \/ Consume \/ DropIngress \/ Quiet \/ UNCHANGED vars
        PROVE  UNCHANGED <<onConn, conn>>
    BY <1>5 DEF StopBegin, StopSend, Daemon, Perform, Consume, DropIngress, Quiet, vars,
                linkVars, daemonVars
  <1>6. ASSUME Loop, ~HandshakeOk PROVE UNCHANGED <<onConn, conn>>
    BY <1>6 DEF Loop, ConnectOk, ConnectFails, HandshakeEvent, Retry, RejectWhileDisconnected,
                daemonVars
  <1>7. ASSUME Drive, ~\E r \in Reqs : WriteRequest(r) PROVE UNCHANGED <<onConn, conn>>
    BY <1>7 DEF Drive, TakeCommand, WriteFails, WriteNote, TakeReconciled, TakeShutdown,
                ReadResponse, ReadEvent, HandOver, HandOverFails, ConnectionLost, Disconnect,
                EndTask, linkVars, daemonVars
  <1> QED BY <1>0, <1>1, <1>2, <1>3, <1>4, <1>5, <1>6, <1>7 DEF Next, Base

\* The closure exists only when a pass has succeeded, and no action without it.
FirstInv ==
    /\ watcher = "marking" => call[Current] = "Ok"
    /\ booted => \E p \in Passes : call[p] = "Ok"
    /\ ~booted => \A a \in ActionReqs : call[a] = "idle"
    /\ FirstReconciliationFirst

LEMMA FirstStep == DInv /\ WatchType /\ FirstInv /\ [GateNext]_allVars => FirstInv'
  <1> SUFFICES ASSUME DInv, WatchType, FirstInv, [GateNext]_allVars PROVE FirstInv'
    OBVIOUS
  <1>n. [Next]_vars \/ LookOnly
    BY GateSteps
  <1>t. /\ Passes \subseteq Reqs /\ ActionReqs \subseteq Reqs /\ "Ok" \in Results
        /\ onConn \in [Reqs -> Nat] /\ conn \in Nat
    BY DEF Passes, Reqs, Results, Verdicts, DInv, IInv, TypeOK
  <1>ok. ASSUME NEW p \in Passes, call[p] = "Ok"
         PROVE  call'[p] = "Ok" /\ onConn'[p] = onConn[p] /\ onConn[p] <= conn
    <2>1. CASE [Next]_vars
      BY <1>ok, <1>t, <2>1, ResultsStay, WritesStay DEF DInv, DeliveryInv
    <2>2. CASE LookOnly
      BY <1>ok, <1>t, <2>2 DEF LookOnly, callVars, daemonVars, DInv, DeliveryInv
    <2> QED BY <1>n, <2>1, <2>2
  <1>1. FirstReconciliationFirst'
    <2> SUFFICES ASSUME NEW a \in ActionReqs, onConn'[a] # 0
                 PROVE  \E p \in Passes : call'[p] = "Ok" /\ onConn'[p] <= onConn'[a]
      BY DEF FirstReconciliationFirst
    <2>1. CASE onConn'[a] = onConn[a]
      BY <1>ok, <2>1 DEF FirstInv, FirstReconciliationFirst
    <2>2. CASE onConn'[a] = conn /\ call[a] \in {"waiting", "TimedOut"}
      <3>1. PICK p \in Passes : call[p] = "Ok"
        BY <2>2 DEF FirstInv, WatchType
      <3> QED BY <1>ok, <2>2, <3>1
    <2>3. CASE LookOnly
      BY <2>1, <2>3 DEF LookOnly, daemonVars
    <2> QED BY <1>n, <1>t, <2>1, <2>2, <2>3, WritesStay
  <1>2. ASSUME UNCHANGED booted, booted \/ \A a \in ActionReqs : call'[a] = "idle",
               watcher' = "marking" => watcher = "marking" /\ job' = job
        PROVE  FirstInv'
    <2>1. watcher' = "marking" => call'[Current'] = "Ok"
      BY <1>2, <1>ok, CurrentIsPass DEF FirstInv, WatchType, Current
    <2> QED BY <1>1, <1>2, <1>ok, <2>1 DEF FirstInv
  <1>3. CASE Base /\ UNCHANGED gateVars
    BY <1>2, <1>3, <1>t, IdleStays DEF gateVars, FirstInv
  <1>4. ASSUME NEW p \in Passes, StartPass(p) PROVE FirstInv'
    <2>1. \A a \in ActionReqs : call'[a] = call[a]
      BY <1>4, <1>t, DistinctRequests DEF StartPass, Pass, Passes
    <2> QED BY <1>2, <1>4, <2>1 DEF StartPass, FirstInv
  <1>5. CASE ListOk
    <2>1. call' = call /\ watcher' = "marking" /\ call[Current] = "Ok" /\ UNCHANGED <<job, booted>>
      BY <1>5 DEF ListOk, MarkReady, callVars
    <2> QED BY <1>1, <2>1 DEF FirstInv, Current
  <1>6. CASE ListFails \/ WatcherStops \/ CloseHandle \/ LookAtHealth
    BY <1>2, <1>6 DEF ListFails, WatcherStops, CloseHandle, LookAtHealth, vars, callVars, FirstInv
  <1>7. CASE BootFails
    BY <1>2, <1>7 DEF BootFails, StopBegin, callVars, FirstInv
  <1>8. CASE Marked
    <2>1. /\ call' = call /\ watcher' # "marking" /\ call[Current] = "Ok"
          /\ booted => booted'
      BY <1>8 DEF Marked, vars, callVars, FirstInv
    <2>2. Current \in Passes
      BY <1>8, CurrentIsPass DEF Marked, WatchType
    <2>3. booted' => \E p \in Passes : call'[p] = "Ok"
      BY <2>1, <2>2
    <2> QED BY <1>1, <2>1, <2>3 DEF FirstInv
  <1>9. CASE CloseTransport \/ IngressTaskEnds
    BY <1>2, <1>9 DEF CloseTransport, IngressTaskEnds, StopBegin, DropIngress, callVars, gateVars, FirstInv
  <1>10. ASSUME NEW a \in ActionReqs, ActionStarts(a) PROVE FirstInv'
    BY <1>2, <1>10 DEF ActionStarts, gateVars
  <1>11. CASE Halted \/ UNCHANGED allVars
    BY <1>2, <1>11 DEF Halted, allVars, vars, callVars, gateVars, FirstInv
  <1> QED BY <1>3, <1>4, <1>5, <1>6, <1>7, <1>8, <1>9, <1>10, <1>11 DEF GateNext

\* With any number of connections and passes, no action is on a socket before
\* a thread/list has succeeded there or on an earlier connection.
THEOREM ReconciledBeforeActions == GateSpec => []FirstReconciliationFirst
  <1>1. GateInit => FirstInv
    BY DEF GateInit, Init, FirstInv, FirstReconciliationFirst, Reqs
  <1>2. FirstInv => FirstReconciliationFirst
    BY DEF FirstInv
  <1> QED BY <1>1, <1>2, FirstStep, GateBase, PTL DEF GateSpec

-----------------------------------------------------------------------------
(* What an open gate stands for.                                           *)

\* The gate is open, or a call of mark_reconciled has opened it or may yet.
Announced ==
    \/ ready
    \/ \E m \in Markers : marker[m] # "idle" \/ Reconciled(m) \in Queued

\* Short of mark_reconciled itself the transport announces nothing.
LEMMA AnnouncedBefore ==
    ASSUME TypeOK, Announced',
           Base \/ StopBegin \/ DropIngress \/ (\E r \in Reqs : Start(r))
    PROVE  Announced
  <1>0. queue \in Seq(Commands) /\ marker \in [Markers -> {"idle", "sending", "waiting", "done", "failed"}]
    BY DEF TypeOK
  <1>1. ASSUME ready' => ready, UNCHANGED <<marker, queue>> PROVE Announced
    BY <1>1 DEF Announced, Queued
  <1>2. ASSUME NEW c \in Commands, \A m \in Markers : c # Reconciled(m),
               queue' = Append(queue, c), UNCHANGED <<ready, marker>>
        PROVE  Announced
    <2>1. Queued' = Queued \cup {c}
      BY <1>0, <1>2, AppendElems DEF Queued
    <2> QED BY <1>2, <2>1 DEF Announced
  <1>3. ASSUME queue # <<>>, queue' = Tail(queue), ready' => ready, UNCHANGED marker
        PROVE  Announced
    <2>1. Queued' \subseteq Queued
      BY <1>0, <1>3, TailElems DEF Queued
    <2> QED BY <1>3, <2>1 DEF Announced
  <1>4. ASSUME NEW r \in Reqs, Start(r) \/ Proceed(r) PROVE Announced
    <2>1. CASE Enqueue(r)
      <3>1. Request(r) \in Commands /\ \A m \in Markers : Request(r) # Reconciled(m)
        BY CommandsInSet, CommandsDiffer
      <3> QED BY <1>2, <2>1, <3>1 DEF Enqueue, handleVars, linkVars
    <2> QED BY <1>1, <1>4, <2>1 DEF Start, Refuse, Pass, Proceed, EnqueueFails, Return, TimeOut,
               handleVars, linkVars
  <1>5. ASSUME NEW m \in Markers, MarkSend(m) \/ MarkFails(m) PROVE Announced
    <2>1. marker[m] = "sending"
      BY <1>5 DEF MarkSend, MarkFails
    <2> QED BY <2>1 DEF Announced
  <1>6. ASSUME NEW n \in Notes, SendNote(n) PROVE Announced
    <2>1. Notify(n) \in Commands /\ \A m \in Markers : Notify(n) # Reconciled(m)
      BY CommandsInSet DEF Notify, Reconciled
    <2> QED BY <1>1, <1>2, <1>6, <2>1 DEF SendNote, linkVars
  <1>7. CASE StopBegin \/ StopSend
    <2>1. Shutdown \in Commands /\ \A m \in Markers : Shutdown # Reconciled(m)
      BY CommandsInSet DEF Shutdown, Reconciled
    <2> QED BY <1>1, <1>2, <1>7, <2>1 DEF StopBegin, StopSend, linkVars
  <1>8. ASSUME queue # <<>>, queue' = <<>> \/ queue' = Tail(queue), ready' => ready,
               \A m \in Markers : marker'[m] = marker[m] \/ Reconciled(m) \in Queued
        PROVE  Announced
    <2>1. Queued' \subseteq Queued
      <3>1. CASE queue' = <<>> BY <3>1 DEF Queued, Elems
      <3>2. CASE queue' = Tail(queue) BY <1>0, <1>8, <3>2, TailElems DEF Queued
      <3> QED BY <1>8, <3>1, <3>2
    <2> QED BY <1>8, <2>1 DEF Announced
  <1>9. CASE Loop
    <2>1. CASE RejectWhileDisconnected
      <3>1. queue # <<>> /\ ready' = ready /\ (queue' = <<>> \/ queue' = Tail(queue))
        BY <2>1 DEF RejectWhileDisconnected, EndTask
      <3>2. Head(queue) \in Queued /\ Elems(Tail(queue)) \subseteq Queued
        BY <1>0, <3>1, TailElems DEF Queued
      <3>3. \A m \in Markers : marker'[m] = marker[m] \/ Reconciled(m) \in Queued
        BY <2>1, <3>2 DEF RejectWhileDisconnected, EndTask
      <3> QED BY <1>8, <3>1, <3>3
    <2> QED BY <1>1, <1>9, <2>1 DEF Loop, ConnectOk, ConnectFails, HandshakeEvent, HandshakeOk,
               Retry, handleVars
  <1>10. CASE Drive
    <2>1. ASSUME NEW r \in Reqs, WriteRequest(r) \/ WriteFails(r) \/ ReadResponse(r) PROVE Announced
      BY <1>1, <1>3, <2>1 DEF WriteRequest, WriteFails, ReadResponse, Disconnect, handleVars, linkVars
    <2>2. ASSUME NEW n \in Notes, WriteNote(n) PROVE Announced
      BY <1>3, <2>2 DEF WriteNote, Disconnect, handleVars, linkVars
    <2>3. ASSUME NEW m \in Markers, TakeReconciled(m) PROVE Announced
      <3>1. Reconciled(m) \in Queued
        BY <1>0, <2>3, TailElems DEF TakeReconciled, Queued
      <3> QED BY <3>1 DEF Announced
    <2>4. CASE TakeShutdown
      <3>1. queue # <<>> /\ queue' = <<>> /\ ready' = ready
        BY <2>4 DEF TakeShutdown, EndTask
      <3>2. Elems(Tail(queue)) \subseteq Queued
        BY <1>0, <3>1, TailElems DEF Queued
      <3>3. \A m \in Markers : marker'[m] = marker[m] \/ Reconciled(m) \in Queued
        BY <2>4, <3>2 DEF TakeShutdown, EndTask
      <3> QED BY <1>8, <3>1, <3>3
    <2>5. CASE HandOverFails
      <3>1. queue' = <<>> /\ ready' = ready
        BY <2>5 DEF HandOverFails, EndTask
      <3>2. \A m \in Markers : marker'[m] = marker[m] \/ Reconciled(m) \in Queued
        BY <2>5 DEF HandOverFails, EndTask, Queued
      <3>3. Queued' \subseteq Queued
        BY <3>1 DEF Queued, Elems
      <3> QED BY <3>1, <3>2, <3>3 DEF Announced
    <2>6. CASE ReadEvent \/ HandOver \/ ConnectionLost
      BY <1>1, <2>6 DEF ReadEvent, HandOver, ConnectionLost, Disconnect, handleVars, linkVars
    <2> QED BY <1>10, <2>1, <2>2, <2>3, <2>4, <2>5, <2>6 DEF Drive, TakeCommand
  <1>11. CASE Daemon \/ Consume \/ DropIngress
    BY <1>1, <1>11 DEF Daemon, Perform, Consume, DropIngress, handleVars, linkVars
  <1> QED BY <1>4, <1>5, <1>6, <1>7, <1>9, <1>10, <1>11 DEF Base

\* Whatever is announced rests on a thread/list that has succeeded.
OpenInv == Announced => \E p \in Passes : call[p] = "Ok"

LEMMA OpenStep == DInv /\ WatchType /\ OpenInv /\ [GateNext]_allVars => OpenInv'
  <1> SUFFICES ASSUME DInv, WatchType, OpenInv, [GateNext]_allVars, Announced'
               PROVE  \E p \in Passes : call'[p] = "Ok"
    BY DEF OpenInv
  <1>t. TypeOK /\ \A p \in Passes : p \in Reqs
    BY DEF DInv, IInv, Passes, Reqs
  <1>ok. ASSUME NEW p \in Passes, call[p] = "Ok" PROVE call'[p] = "Ok"
    <2>1. CASE [Next]_vars
      BY <1>ok, <1>t, <2>1, ResultsStay DEF Results, Verdicts
    <2>2. CASE LookOnly
      BY <1>ok, <2>2 DEF LookOnly, callVars
    <2> QED BY <2>1, <2>2, GateSteps
  <1>1. CASE Announced
    <2>1. PICK p \in Passes : call[p] = "Ok"
      BY <1>1 DEF OpenInv
    <2> QED BY <1>ok, <2>1
  <1>2. CASE ListOk
    <2>1. call[Current] = "Ok" /\ Current \in Passes
      BY <1>2, CurrentIsPass DEF ListOk, WatchType
    <2> QED BY <1>ok, <2>1
  <1>3. CASE ~Announced /\ ~ListOk
    <2>1. ASSUME UNCHANGED <<ready, marker, queue>> PROVE FALSE
      BY <1>3, <2>1 DEF Announced, Queued
    <2>2. CASE Base \/ BootFails \/ CloseTransport \/ IngressTaskEnds
      BY <1>3, <1>t, <2>2, AnnouncedBefore DEF BootFails, CloseTransport, IngressTaskEnds
    <2>3. ASSUME NEW p \in Passes, StartPass(p) PROVE FALSE
      <3>1. Start(p)
        BY <2>3 DEF StartPass, Start
      <3> QED BY <1>3, <1>t, <3>1, AnnouncedBefore
    <2>4. ASSUME NEW a \in ActionReqs, ActionStarts(a) PROVE FALSE
      <3>1. Start(a) /\ a \in Reqs
        BY <2>4 DEF ActionStarts, Reqs
      <3> QED BY <1>3, <1>t, <3>1, AnnouncedBefore
    <2>5. CASE ListFails \/ Marked \/ LookAtHealth \/ WatcherStops \/ CloseHandle \/ Halted
               \/ UNCHANGED allVars
      BY <2>1, <2>5 DEF ListFails, Marked, LookAtHealth, WatcherStops, CloseHandle, Halted, allVars,
         vars, handleVars, linkVars
    <2> QED BY <1>3, <2>2, <2>3, <2>4, <2>5 DEF GateNext
  <1> QED BY <1>1, <1>2, <1>3

\* mark_reconciled does not name a connection, so an open gate may stand for a
\* thread/list of an earlier one; but it never stands for none.  Neither a
\* Reconciled command left over in the queue nor a reconnect opens it before the
\* first list has succeeded.
THEOREM OpenGateHasAList ==
    GateSpec => [](ready => \E p \in Passes : call[p] = "Ok" /\ onConn[p] <= conn)
  <1>1. GateInit => OpenInv
    BY DEF GateInit, Init, OpenInv, Announced, Queued, Elems
  <1>2. DInv /\ OpenInv => (ready => \E p \in Passes : call[p] = "Ok" /\ onConn[p] <= conn)
    BY DEF DInv, DeliveryInv, OpenInv, Announced, Passes, Reqs
  <1> QED BY <1>1, <1>2, OpenStep, GateBase, PTL DEF GateSpec

-----------------------------------------------------------------------------
(* The wake-up of the reconnect task.                                      *)

\* The connection is up, its gate closed, and nobody need look at the health.
Unnoticed == Driving /\ ~ready /\ ~fresh

\* A request the daemon has still to answer on this connection.
Reach(p) == Request(p) \in Queued \/ (p \in pending /\ p \in wire \cup answers)

\* The reconciliation p is under way, or it timed out and its answer is to come.
Owed(p) == \/ call[p] = "sending"
           \/ call[p] \in {"waiting", "TimedOut"} /\ Reach(p)

\* A health other than Reconciling is published only with the gate, or off
\* this connection.
PhaseInv == link = "driving" /\ ~ready => health = "Reconciling"

\* What can leave a connection unnoticed: reading a frame and opening the gate
\* both publish, and so does every other change of the connection.
LEMMA UnnoticedBefore ==
    ASSUME DInv, [Next]_vars, Unnoticed'
    PROVE  Unnoticed
  <1>t. seq \in Nat /\ held \in Nat
    BY DEF DInv, IInv, TypeOK
  <1> USE DEF Unnoticed, Driving
  <1>1. CASE UNCHANGED <<linkVars, held>>
    BY <1>1 DEF linkVars
  <1>2. CASE Loop
    BY <1>2 DEF Loop, ConnectOk, ConnectFails, HandshakeEvent, HandshakeOk, Retry,
                RejectWhileDisconnected, EndTask, Publish
  <1>3. ASSUME NEW r \in Reqs, WriteRequest(r) \/ WriteFails(r) \/ ReadResponse(r)
        PROVE  Unnoticed
    BY <1>1, <1>3, <1>t DEF WriteRequest, WriteFails, ReadResponse, Disconnect, Publish, frameVars
  <1>4. ASSUME NEW n \in Notes, WriteNote(n) PROVE Unnoticed
    BY <1>1, <1>4 DEF WriteNote, Disconnect, Publish, frameVars
  <1>5. ASSUME NEW m \in Markers, TakeReconciled(m) \/ MarkReady(m) \/ MarkSend(m) \/ MarkFails(m)
        PROVE  Unnoticed
    BY <1>1, <1>5 DEF TakeReconciled, MarkReady, MarkSend, MarkFails, Publish, frameVars
  <1>6. CASE TakeShutdown \/ ReadEvent \/ HandOver \/ HandOverFails \/ ConnectionLost
    BY <1>6, <1>t DEF TakeShutdown, ReadEvent, HandOver, HandOverFails, ConnectionLost, EndTask,
                Disconnect, Publish, linkVars, frameVars
  <1>7. ASSUME NEW r \in Reqs, Start(r) \/ Proceed(r) PROVE Unnoticed
    BY <1>1, <1>7 DEF Start, Refuse, Pass, Proceed, Enqueue, EnqueueFails, Return, TimeOut, frameVars
  <1>8. CASE \/ StopBegin \/ StopSend \/ Daemon \/ Consume \/ DropIngress \/ Quiet
             \/ UNCHANGED vars \/ \E n \in Notes : SendNote(n)
    BY <1>1, <1>8 DEF StopBegin, StopSend, Daemon, Perform, Consume, DropIngress, Quiet, vars,
                SendNote, frameVars
  <1> QED BY <1>2, <1>3, <1>4, <1>5, <1>6, <1>7, <1>8 DEF Next, Base, Drive, TakeCommand

LEMMA PhaseStep == PhaseInv /\ [Next]_vars => PhaseInv'
  <1> SUFFICES ASSUME PhaseInv, [Next]_vars PROVE PhaseInv'
    OBVIOUS
  <1> USE DEF PhaseInv
  <1>1. CASE UNCHANGED linkVars
    BY <1>1 DEF linkVars
  <1>2. CASE Loop
    BY <1>2 DEF Loop, ConnectOk, ConnectFails, HandshakeEvent, HandshakeOk, Retry,
                RejectWhileDisconnected, EndTask, Publish
  <1>3. ASSUME NEW r \in Reqs, WriteRequest(r) \/ WriteFails(r) \/ ReadResponse(r)
        PROVE  PhaseInv'
    BY <1>1, <1>3 DEF WriteRequest, WriteFails, ReadResponse, Disconnect, Publish
  <1>4. ASSUME NEW n \in Notes, WriteNote(n) PROVE PhaseInv'
    BY <1>1, <1>4 DEF WriteNote, Disconnect, Publish
  <1>5. ASSUME NEW m \in Markers, TakeReconciled(m) \/ MarkReady(m) \/ MarkSend(m) \/ MarkFails(m)
        PROVE  PhaseInv'
    BY <1>1, <1>5 DEF TakeReconciled, MarkReady, MarkSend, MarkFails, Publish
  <1>6. CASE TakeShutdown \/ ReadEvent \/ HandOver \/ HandOverFails \/ ConnectionLost
    BY <1>1, <1>6 DEF TakeShutdown, ReadEvent, HandOver, HandOverFails, ConnectionLost, EndTask,
                Disconnect, Publish
  <1>7. ASSUME NEW r \in Reqs, Start(r) \/ Proceed(r) PROVE PhaseInv'
    BY <1>1, <1>7 DEF Start, Refuse, Pass, Proceed, Enqueue, EnqueueFails, Return, TimeOut
  <1>8. CASE \/ StopBegin \/ StopSend \/ Daemon \/ Consume \/ DropIngress \/ Quiet
             \/ UNCHANGED vars \/ \E n \in Notes : SendNote(n)
    BY <1>1, <1>8 DEF StopBegin, StopSend, Daemon, Perform, Consume, DropIngress, Quiet, vars,
                SendNote
  <1> QED BY <1>2, <1>3, <1>4, <1>5, <1>6, <1>7, <1>8 DEF Next, Base, Drive, TakeCommand

LEMMA ReachStays ==
    ASSUME DInv, [Next]_vars, Unnoticed', NEW p \in Reqs, Reach(p)
    PROVE  Reach(p)'
  <1>u. Unnoticed
    BY UnnoticedBefore
  <1>t. /\ queue \in Seq(Commands) /\ NoTwins(queue)
        /\ seq \in Nat /\ held = 0 /\ link = "driving" /\ held' = 0 /\ link' = "driving"
        /\ fresh' = FALSE
    BY <1>u DEF DInv, IInv, TypeOK, Unnoticed, Driving
  <1>p. /\ Request(p) \in Queued => p \notin pending
        /\ p \in pending => onConn[p] = conn
    BY DEF DInv, IInv, RequestInv, DeliveryInv
  <1>tail. queue # <<>> /\ queue' = Tail(queue) => Queued \subseteq {Head(queue)} \cup Queued'
    BY <1>t, HeadOrTail DEF Queued
  <1>add. \A c \in Commands : queue' = Append(queue, c) => Queued \subseteq Queued'
    BY <1>t, AppendElems DEF Queued
  <1>1. ASSUME Queued \subseteq Queued', UNCHANGED <<pending, wire, answers>>
        PROVE  Reach(p)'
    BY <1>1 DEF Reach
  <1>same. queue' = queue => Queued \subseteq Queued'
    BY DEF Queued
  <1>2. ASSUME NEW r \in Reqs, WriteRequest(r) PROVE Reach(p)'
    <2>1. /\ pending' = pending \cup {r} /\ wire' = wire \cup {r} /\ answers' = answers
          /\ Queued \subseteq {Request(r)} \cup Queued'
      BY <1>2, <1>tail DEF WriteRequest
    <2>2. Request(p) = Request(r) => p = r
      BY CommandsDiffer
    <2> QED BY <2>1, <2>2 DEF Reach
  <1>3. ASSUME NEW n \in Notes, WriteNote(n) PROVE Reach(p)'
    <2>1. UNCHANGED <<pending, wire, answers>> /\ Queued \subseteq {Notify(n)} \cup Queued'
      BY <1>3, <1>t, <1>tail DEF WriteNote, Disconnect, daemonVars
    <2> QED BY <2>1, CommandsDiffer DEF Reach
  <1>4. ASSUME NEW r \in Reqs, NEW v \in Verdicts, Perform(r, v) PROVE Reach(p)'
    <2>1. /\ pending' = pending /\ wire' = wire \ {r} /\ Queued \subseteq Queued'
          /\ answers' = IF onConn[r] = conn THEN answers \cup {r} ELSE answers
      BY <1>4, <1>t, <1>same DEF Perform
    <2> QED BY <1>p, <2>1 DEF Reach
  <1>5. ASSUME NEW r \in Reqs, Start(r) \/ Proceed(r) PROVE Reach(p)'
    BY <1>1, <1>5, <1>same, <1>add, CommandsInSet
       DEF Start, Refuse, Pass, Proceed, Enqueue, EnqueueFails, Return, TimeOut, daemonVars
  <1>6. ASSUME NEW m \in Markers, MarkReady(m) \/ MarkSend(m) \/ MarkFails(m) PROVE Reach(p)'
    BY <1>1, <1>6, <1>same, <1>add, CommandsInSet DEF MarkReady, MarkSend, MarkFails, daemonVars
  <1>7. ASSUME NEW n \in Notes, SendNote(n) PROVE Reach(p)'
    BY <1>1, <1>7, <1>same, <1>add, CommandsInSet DEF SendNote, daemonVars
  <1>8. CASE StopBegin \/ StopSend
    BY <1>1, <1>8, <1>same, <1>add, CommandsInSet DEF StopBegin, StopSend, daemonVars
  <1>9. CASE Consume \/ DropIngress \/ Quiet \/ UNCHANGED vars
    BY <1>1, <1>9, <1>same DEF Consume, DropIngress, Quiet, vars, daemonVars
  <1>10. ~Loop
    BY <1>t DEF Loop, ConnectOk, ConnectFails, HandshakeEvent, HandshakeOk, Retry,
                RejectWhileDisconnected
  <1>11. \A r \in Reqs : ~WriteFails(r) /\ ~ReadResponse(r)
    BY <1>t DEF WriteFails, ReadResponse, Disconnect
  <1>12. \A m \in Markers : ~TakeReconciled(m)
    BY <1>t DEF TakeReconciled, Publish
  <1>13. ~TakeShutdown /\ ~ReadEvent /\ ~HandOver /\ ~HandOverFails /\ ~ConnectionLost
    BY <1>t DEF TakeShutdown, ReadEvent, HandOver, HandOverFails, ConnectionLost, EndTask,
                Disconnect
  <1> QED BY <1>2, <1>3, <1>4, <1>5, <1>6, <1>7, <1>8, <1>9, <1>10, <1>11, <1>12, <1>13
          DEF Next, Base, Drive, TakeCommand, Daemon

LEMMA OwedStays ==
    ASSUME DInv, Base \/ StopBegin \/ DropIngress, Unnoticed', NEW p \in Reqs, Owed(p)
    PROVE  Owed(p)'
  <1>n. [Next]_vars
    BY DEF Next
  <1>t. call \in [Reqs -> {"idle", "sending", "waiting"} \cup Results] /\ queue \in Seq(Commands)
    BY DEF DInv, IInv, TypeOK
  <1>u. Driving
    BY <1>n, UnnoticedBefore DEF Unnoticed
  <1>r. Reach(p) => Reach(p)' /\ reply[p] = "empty"
    BY <1>n, ReachStays DEF Reach, DInv, IInv, RequestInv
  <1>1. CASE call' = call
    BY <1>1, <1>r DEF Owed
  <1>2. ASSUME NEW r \in Reqs, Proceed(r) PROVE Owed(p)'
    <2>1. CASE r # p
      <3>1. call'[p] = call[p]
        BY <1>2, <1>t, <2>1 DEF Proceed, Enqueue, EnqueueFails, Return, TimeOut
      <3> QED BY <1>r, <3>1 DEF Owed
    <2>2. CASE r = p /\ Enqueue(p)
      <3>1. Request(p) \in Queued' /\ call'[p] = "waiting"
        BY <1>t, <2>2, AppendElems, CommandsInSet DEF Enqueue, Queued
      <3> QED BY <3>1 DEF Owed, Reach
    <2>3. CASE r = p /\ TimeOut(p)
      <3>1. call[p] = "waiting" /\ call'[p] = "TimedOut"
        BY <1>t, <2>3 DEF TimeOut
      <3> QED BY <1>r, <3>1 DEF Owed
    <2>4. ~EnqueueFails(p) /\ ~Return(p)
      BY <1>r, <1>u DEF EnqueueFails, Return, Driving, Owed
    <2> QED BY <1>2, <2>1, <2>2, <2>3, <2>4 DEF Proceed
  <1> QED BY <1>1, <1>2, CallerMoves

\* Where the reconnect task may be while the connection is unnoticed.
WakeInv ==
    /\ PhaseInv
    /\ watcher = "asleep" => booted
    /\ Unnoticed => watcher # "marking"
    /\ Unnoticed /\ watcher = "listing" => Owed(Current)
    /\ Unnoticed /\ watcher = "asleep" => \E p \in Passes : call[p] = "TimedOut" /\ Reach(p)

LEMMA WakeStep == DInv /\ WatchType /\ WakeInv /\ [GateNext]_allVars => WakeInv'
  <1> SUFFICES ASSUME DInv, WatchType, WakeInv, [GateNext]_allVars PROVE WakeInv'
    OBVIOUS
  <1>n. [Next]_vars \/ LookOnly
    BY GateSteps
  <1>t. /\ Passes \subseteq Reqs /\ "TimedOut" \in Results
        /\ call \in [Reqs -> {"idle", "sending", "waiting"} \cup Results]
    BY DEF Passes, Reqs, Results, DInv, IInv, TypeOK
  <1>c. job # <<>> => Current \in Passes /\ Current \in Reqs
    BY CurrentIsPass DEF WatchType
  <1>ph. PhaseInv'
    <2>1. CASE LookOnly
      BY <2>1 DEF LookOnly, WakeInv, PhaseInv
    <2> QED BY <1>n, <2>1, PhaseStep DEF WakeInv
  <1>b. [Next]_vars /\ Unnoticed' => Unnoticed
    BY UnnoticedBefore
  <1>timed. ASSUME [Next]_vars, Unnoticed', NEW p \in Passes, call[p] = "TimedOut", Reach(p)
            PROVE  call'[p] = "TimedOut" /\ Reach(p)'
    BY <1>t, <1>timed, ResultsStay, ReachStays
  <1>1. ASSUME [Next]_vars, UNCHANGED <<watcher, job>>, booted => booted',
               Unnoticed' /\ watcher = "listing" => Owed(Current)'
        PROVE  WakeInv'
    <2>1. Unnoticed' /\ watcher = "asleep" =>
            \E p \in Passes : call'[p] = "TimedOut" /\ Reach(p)'
      BY <1>1, <1>b, <1>timed DEF WakeInv
    <2> QED BY <1>1, <1>b, <1>ph, <2>1 DEF WakeInv
  <1>2. CASE (Base \/ StopBegin \/ DropIngress) /\ UNCHANGED gateVars
    <2>1. [Next]_vars /\ UNCHANGED <<watcher, job, booted>>
      BY <1>2 DEF Next, gateVars
    <2>2. ASSUME Unnoticed', watcher = "listing" PROVE Owed(Current)'
      <3>1. Current \in Reqs /\ Owed(Current) /\ Current' = Current
        BY <1>b, <1>c, <2>1, <2>2 DEF WakeInv, WatchType, Current
      <3>2. \A p \in Reqs : Owed(p) => Owed(p)'
        BY <1>2, <2>2, OwedStays
      <3> QED BY <3>1, <3>2 DEF Owed, Reach
    <2> QED BY <1>1, <2>1, <2>2
  <1>3. ASSUME NEW p \in Passes, StartPass(p) PROVE WakeInv'
    <2>1. /\ watcher' = "listing" /\ job' = Append(job, p) /\ call' = [call EXCEPT ![p] = "sending"]
      BY <1>3 DEF StartPass, Pass
    <2>2. Current' = p
      BY <2>1, AppendCurrent DEF WatchType
    <2>3. Owed(Current)'
      BY <1>t, <2>1, <2>2 DEF Owed
    <2> QED BY <1>ph, <2>1, <2>3 DEF WakeInv
  <1>4. CASE ListOk
    <2>1. watcher' = "marking" /\ ready'
      BY <1>4 DEF ListOk, MarkReady
    <2> QED BY <1>ph, <2>1 DEF WakeInv, Unnoticed
  <1>5. CASE ListFails
    <2>1. /\ watcher = "listing" /\ watcher' = "asleep" /\ booted' /\ UNCHANGED vars
          /\ call[Current] \in Results \ {"Ok"}
      BY <1>5 DEF ListFails
    <2>2. ASSUME Unnoticed' PROVE \E p \in Passes : call'[p] = "TimedOut" /\ Reach(p)'
      <3>1. Owed(Current) /\ Current \in Passes
        BY <1>b, <1>c, <2>1, <2>2 DEF WakeInv, WatchType
      <3>2. call[Current] = "TimedOut" /\ Reach(Current)
        BY <2>1, <3>1 DEF Owed, Results, Verdicts, SafeToRetry
      <3> QED BY <1>timed, <2>1, <2>2, <3>1, <3>2
    <2> QED BY <1>ph, <2>1, <2>2 DEF WakeInv
  <1>6. CASE BootFails
    BY <1>6, <1>ph DEF BootFails, WakeInv
  <1>7. CASE Marked
    <2>1. watcher = "marking" /\ UNCHANGED vars /\ watcher' \in {"asleep", "off"}
          /\ (watcher' = "asleep" => booted')
      BY <1>7 DEF Marked
    <2>2. ~Unnoticed'
      BY <1>b, <2>1 DEF WakeInv
    <2> QED BY <1>ph, <2>1, <2>2 DEF WakeInv
  <1>8. CASE LookAtHealth
    <2>1. /\ watcher = "asleep" /\ UNCHANGED <<link, ready, held, health, booted>>
          /\ watcher' = IF health = "Reconciling" /\ ~ready THEN "due" ELSE "asleep"
      BY <1>8 DEF LookAtHealth, frameVars
    <2>2. Unnoticed' => watcher' = "due"
      BY <2>1 DEF Unnoticed, Driving, WakeInv, PhaseInv
    <2> QED BY <1>ph, <2>1, <2>2 DEF WakeInv
  <1>9. CASE WatcherStops
    BY <1>9, <1>ph DEF WatcherStops, WakeInv
  <1>10. ASSUME UNCHANGED <<vars, watcher, job, booted>> PROVE WakeInv'
    <2>1. Unnoticed' /\ watcher = "listing" => Owed(Current)'
      BY <1>10, <1>b DEF WakeInv, Owed, Reach, Queued, Current, vars, callVars, daemonVars
    <2> QED BY <1>1, <1>10, <2>1
  <1>11. ASSUME NEW a \in ActionReqs, ActionStarts(a) PROVE WakeInv'
    <2>1. /\ [Next]_vars /\ Start(a) /\ UNCHANGED <<watcher, job, booted>>
      BY <1>11 DEF ActionStarts, Next, Reqs, gateVars
    <2>2. ASSUME Unnoticed', watcher = "listing" PROVE Owed(Current)'
      <3>1. Current \in Passes /\ Owed(Current) /\ Current' = Current
        BY <1>b, <1>c, <2>1, <2>2 DEF WakeInv, WatchType, Current
      <3>2. Current # a /\ call'[Current] = call[Current]
        BY <1>t, <2>1, <3>1, DistinctRequests DEF Start, Refuse, Pass, Passes
      <3>3. Reach(Current) => Reach(Current)'
        <4>1. \A p \in Reqs : Reach(p) => Reach(p)'
          BY <2>1, <2>2, ReachStays
        <4> QED BY <1>t, <3>1, <4>1 DEF Reach
      <3> QED BY <3>1, <3>2, <3>3 DEF Owed
    <2> QED BY <1>1, <2>1, <2>2
  <1> QED BY <1>2, <1>3, <1>4, <1>5, <1>6, <1>7, <1>8, <1>9, <1>10, <1>11
          DEF GateNext, CloseHandle, CloseTransport, IngressTaskEnds, Halted, allVars, gateVars

\* The reconnect task sleeps through no connection: if the gate is closed and no
\* look at the health is due, a list that timed out is still to be answered.
THEOREM NoWakeUpLost == GateSpec => []NoLostWakeUp
  <1>1. GateInit => WakeInv
    BY DEF GateInit, Init, WakeInv, PhaseInv, Unnoticed, Driving
  <1>2. DInv /\ WakeInv => NoLostWakeUp
    BY DEF DInv, DeliveryInv, WakeInv, Unnoticed, Reach, NoLostWakeUp, Passes, Reqs
  <1> QED BY <1>1, <1>2, WakeStep, GateBase, PTL DEF GateSpec
=============================================================================
