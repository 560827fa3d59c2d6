---------------------------- MODULE TransportProofs ----------------------------
(***************************************************************************)
(* Theorems about Transport, for any number of requests, any channel       *)
(* capacity and any number of connections.                                 *)
(***************************************************************************)
EXTENDS Transport, TLAPS

Unseen(r) == runs[r] = 0 /\ r \notin wire

\* No two commands in the queue are the same request.
NoTwins(q) == \A i, j \in DOMAIN q : \A r \in Reqs :
    q[i] = Request(r) /\ q[j] = Request(r) => i = j

\* Where a request is decides what its caller has been and can be told.
RequestInv(r) ==
    /\ Request(r) \in Queued =>
         /\ call[r] \in {"waiting", "TimedOut"} /\ reply[r] = "empty"
         /\ Unseen(r) /\ r \notin pending
    /\ r \in pending => call[r] \in {"waiting", "TimedOut"} /\ reply[r] = "empty"
    /\ r \in wire => /\ runs[r] = 0
                     /\ call[r] \in {"waiting", "TimedOut", "Unknown"}
                     /\ reply[r] \in {"empty", "Unknown"}
    /\ call[r] \in {"idle", "sending"} => Unseen(r) /\ reply[r] = "empty"
    /\ reply[r] \in {"NotWritten", "dropped"} =>
         Unseen(r) /\ Request(r) \notin Queued /\ r \notin pending
    /\ reply[r] \in Verdicts => runs[r] = 1 /\ verdict[r] = reply[r]
    /\ call[r] \in SafeToRetry =>
         Unseen(r) /\ Request(r) \notin Queued /\ r \notin pending
    /\ call[r] \in Verdicts => runs[r] = 1 /\ verdict[r] = call[r]
    /\ r \in answers => runs[r] = 1 /\ verdict[r] \in Verdicts

IInv == TypeOK /\ NoTwins(queue) /\ \A r \in Reqs : RequestInv(r)
-----------------------------------------------------------------------------
(* The command queue.                                                      *)

LEMMA AppendElems ==
    ASSUME NEW S, NEW q \in Seq(S), NEW c \in S
    PROVE  Elems(Append(q, c)) = Elems(q) \cup {c}
  <1>1. /\ DOMAIN q = 1..Len(q) /\ Len(q) \in Nat
        /\ DOMAIN Append(q, c) = 1..(Len(q) + 1)
        /\ \A i \in 1..Len(q) : Append(q, c)[i] = q[i]
        /\ Append(q, c)[Len(q) + 1] = c
    OBVIOUS
  <1>2. Elems(Append(q, c)) \subseteq Elems(q) \cup {c}
    BY <1>1 DEF Elems
  <1>3. Elems(q) \subseteq Elems(Append(q, c))
    <2> SUFFICES ASSUME NEW i \in DOMAIN q PROVE q[i] \in Elems(Append(q, c))
      BY DEF Elems
    <2> i \in DOMAIN Append(q, c) /\ Append(q, c)[i] = q[i]
      BY <1>1
    <2> QED BY DEF Elems
  <1>4. c \in Elems(Append(q, c))
    BY <1>1, Len(q) + 1 \in DOMAIN Append(q, c) DEF Elems
  <1> QED BY <1>2, <1>3, <1>4

LEMMA TailElems ==
    ASSUME NEW S, NEW q \in Seq(S), q # <<>>
    PROVE  /\ Head(q) \in Elems(q) /\ Head(q) \in S
           /\ Tail(q) \in Seq(S)
           /\ Elems(Tail(q)) \subseteq Elems(q)
  <1>1. /\ DOMAIN q = 1..Len(q) /\ Len(q) \in Nat \ {0}
        /\ DOMAIN Tail(q) = 1..(Len(q) - 1)
        /\ \A i \in DOMAIN Tail(q) : Tail(q)[i] = q[i + 1]
        /\ Head(q) = q[1] /\ Head(q) \in S /\ Tail(q) \in Seq(S)
    OBVIOUS
  <1>2. Head(q) \in Elems(q)
    BY <1>1, 1 \in DOMAIN q DEF Elems
  <1>3. ASSUME NEW i \in DOMAIN Tail(q) PROVE Tail(q)[i] \in Elems(q)
    BY <1>1, i + 1 \in DOMAIN q DEF Elems
  <1> QED BY <1>1, <1>2, <1>3 DEF Elems

\* What leaves a queue without twins is no longer in it.
LEMMA HeadLeaves ==
    ASSUME NEW S, NEW q \in Seq(S), q # <<>>, NoTwins(q)
    PROVE  /\ NoTwins(Tail(q))
           /\ \A r \in Reqs : Head(q) = Request(r) => Request(r) \notin Elems(Tail(q))
  <1>1. /\ Len(Tail(q)) = Len(q) - 1 /\ Len(q) >= 1
        /\ \A i \in 1..Len(Tail(q)) : Tail(q)[i] = q[i + 1]
        /\ DOMAIN q = 1..Len(q) /\ DOMAIN Tail(q) = 1..Len(Tail(q))
        /\ Head(q) = q[1] /\ Len(q) \in Nat
    OBVIOUS
  <1>2. NoTwins(Tail(q))
    <2>1. SUFFICES ASSUME NEW i \in DOMAIN Tail(q), NEW j \in DOMAIN Tail(q), NEW r \in Reqs,
                          Tail(q)[i] = Request(r), Tail(q)[j] = Request(r)
                   PROVE  i = j
      BY DEF NoTwins
    <2>2. /\ i + 1 \in DOMAIN q /\ j + 1 \in DOMAIN q
          /\ q[i + 1] = Request(r) /\ q[j + 1] = Request(r)
      BY <1>1, <2>1
    <2>3. i + 1 = j + 1
      BY <2>2 DEF NoTwins
    <2> QED BY <1>1, <2>3
  <1>3. ASSUME NEW r \in Reqs, Head(q) = Request(r), Request(r) \in Elems(Tail(q))
        PROVE  FALSE
    <2>1. PICK i \in DOMAIN Tail(q) : Tail(q)[i] = Request(r)
      BY <1>3 DEF Elems
    <2>2. i + 1 \in DOMAIN q /\ 1 \in DOMAIN q /\ q[i + 1] = Request(r) /\ q[1] = Request(r)
      BY <1>1, <1>3, <2>1
    <2>3. i + 1 = 1
      BY <2>2 DEF NoTwins
    <2> QED BY <1>1, <2>3
  <1> QED BY <1>2, <1>3

LEMMA AppendNoTwins ==
    ASSUME NEW S, NEW q \in Seq(S), NEW c \in S, NoTwins(q),
           \A r \in Reqs : c = Request(r) => Request(r) \notin Elems(q)
    PROVE  NoTwins(Append(q, c))
  <1>1. /\ DOMAIN q = 1..Len(q) /\ Len(q) \in Nat
        /\ DOMAIN Append(q, c) = DOMAIN q \cup {Len(q) + 1}
        /\ \A i \in DOMAIN q : Append(q, c)[i] = q[i]
        /\ Append(q, c)[Len(q) + 1] = c
    OBVIOUS
  <1>2. ASSUME NEW i \in DOMAIN q, NEW r \in Reqs, q[i] = Request(r), c = Request(r)
        PROVE  FALSE
    BY <1>2 DEF Elems
  <1>3. ASSUME NEW i \in DOMAIN q, NEW j \in DOMAIN q, NEW r \in Reqs,
               q[i] = Request(r), q[j] = Request(r)
        PROVE  i = j
    BY <1>3 DEF NoTwins
  <1> QED BY <1>1, <1>2, <1>3 DEF NoTwins

-----------------------------------------------------------------------------
(* Type correctness.                                                       *)

LEMMA CommandsInSet ==
    /\ \A r \in Reqs : Request(r) \in Commands
    /\ \A n \in Notes : Notify(n) \in Commands
    /\ \A m \in Markers : Reconciled(m) \in Commands
    /\ Shutdown \in Commands
  BY DEF Commands

\* Commands of different kinds, or of different requests, are different.
LEMMA CommandsDiffer ==
    /\ \A r, s \in Reqs : Request(r) = Request(s) => r = s
    /\ \A r \in Reqs, n \in Notes : Request(r) # Notify(n)
    /\ \A r \in Reqs, m \in Markers : Request(r) # Reconciled(m)
    /\ \A r \in Reqs : Request(r) # Shutdown
  BY DEF Request, Notify, Reconciled, Shutdown

\* Every step leaves the queue as it is, empties it, takes its head, or adds
\* one command to it, which is a request only when its caller sends it.
QueueStep(c) ==
    \/ queue' = queue
    \/ queue' = <<>>
    \/ queue # <<>> /\ queue' = Tail(queue)
    \/ /\ queue' = Append(queue, c) /\ c \in Commands
       /\ \A r \in Reqs : c = Request(r) => call[r] = "sending"

LEMMA QueueSteps == [Next]_vars => \E c : QueueStep(c)
  <1> SUFFICES ASSUME [Next]_vars PROVE \E c : QueueStep(c)
    OBVIOUS
  <1> USE DEF QueueStep
  <1>1. ASSUME NEW r \in Reqs, Start(r) \/ Proceed(r) PROVE \E c : QueueStep(c)
    <2>1. CASE Enqueue(r)
      <3>1. QueueStep(Request(r))
        BY <2>1, CommandsInSet, CommandsDiffer DEF Enqueue
      <3> QED BY <3>1
    <2> QED BY <1>1, <2>1 DEF Start, Refuse, Pass, Proceed, EnqueueFails, Return, TimeOut
  <1>2. ASSUME NEW m \in Markers, MarkReady(m) \/ MarkSend(m) \/ MarkFails(m)
        PROVE  \E c : QueueStep(c)
    <2>1. QueueStep(Reconciled(m))
      BY <1>2, CommandsInSet, CommandsDiffer DEF MarkReady, MarkSend, MarkFails
    <2> QED BY <2>1
  <1>3. ASSUME NEW n \in Notes, SendNote(n) PROVE \E c : QueueStep(c)
    <2>1. QueueStep(Notify(n))
      BY <1>3, CommandsInSet, CommandsDiffer DEF SendNote
    <2> QED BY <2>1
  <1>4. CASE StopBegin \/ StopSend
    <2>1. QueueStep(Shutdown)
      BY <1>4, CommandsInSet, CommandsDiffer DEF StopBegin, StopSend
    <2> QED BY <2>1
  <1>5. CASE Loop
    BY <1>5 DEF Loop, ConnectOk, ConnectFails, HandshakeEvent, HandshakeOk, Retry,
                RejectWhileDisconnected, EndTask
  <1>6. CASE Drive
    BY <1>6 DEF Drive, TakeCommand, WriteRequest, WriteFails, WriteNote, TakeReconciled,
                TakeShutdown, EndTask, ReadResponse, ReadEvent, HandOver, HandOverFails,
                ConnectionLost
  <1>7. CASE Daemon \/ Consume \/ DropIngress \/ Quiet \/ UNCHANGED vars
    BY <1>7 DEF Daemon, Perform, Consume, DropIngress, Quiet, vars
  <1> QED BY <1>1, <1>2, <1>3, <1>4, <1>5, <1>6, <1>7 DEF Next, Base

LEMMA QueueType == queue \in Seq(Commands) /\ [Next]_vars => queue' \in Seq(Commands)
  <1> SUFFICES ASSUME queue \in Seq(Commands), [Next]_vars PROVE queue' \in Seq(Commands)
    OBVIOUS
  <1>1. PICK c : QueueStep(c)
    BY QueueSteps
  <1>2. queue # <<>> => Tail(queue) \in Seq(Commands)
    OBVIOUS
  <1>3. c \in Commands => Append(queue, c) \in Seq(Commands)
    OBVIOUS
  <1>4. <<>> \in Seq(Commands)
    OBVIOUS
  <1> QED BY <1>1, <1>2, <1>3, <1>4 DEF QueueStep

LEMMA IngressType ==
    ingress \in Seq(Nat) /\ seq \in Nat /\ held \in Nat /\ [Next]_vars => ingress' \in Seq(Nat)
  <1> SUFFICES ASSUME ingress \in Seq(Nat), seq \in Nat, held \in Nat, [Next]_vars
               PROVE  ingress' \in Seq(Nat)
    OBVIOUS
  <1>0. CASE HandshakeEvent
    BY <1>0, seq + 1 \in Nat DEF HandshakeEvent
  <1>1. CASE HandshakeOk
    BY <1>1, seq + 1 \in Nat DEF HandshakeOk
  <1>2. CASE HandOver
    BY <1>2 DEF HandOver
  <1>3. CASE DropIngress
    BY <1>3 DEF DropIngress
  <1>4. CASE Consume
    BY <1>4 DEF Consume
  <1>5. ASSUME NEW r \in Reqs, Start(r) \/ Proceed(r) PROVE ingress' \in Seq(Nat)
    BY <1>5 DEF Start, Refuse, Pass, Proceed, Enqueue, EnqueueFails, Return, TimeOut, frameVars
  <1>6. ASSUME NEW m \in Markers, MarkReady(m) \/ MarkSend(m) \/ MarkFails(m)
        PROVE  ingress' \in Seq(Nat)
    BY <1>6 DEF MarkReady, MarkSend, MarkFails, frameVars
  <1>7. ASSUME NEW n \in Notes, SendNote(n) PROVE ingress' \in Seq(Nat)
    BY <1>7 DEF SendNote, frameVars
  <1>8. CASE StopBegin \/ StopSend
    BY <1>8 DEF StopBegin, StopSend, frameVars
  <1>9. CASE Loop /\ ~HandshakeEvent /\ ~HandshakeOk
    BY <1>9 DEF Loop, ConnectOk, ConnectFails, Retry, RejectWhileDisconnected, frameVars
  <1>10. CASE Drive /\ ~HandOver
    BY <1>10 DEF Drive, TakeCommand, WriteRequest, WriteFails, WriteNote, TakeReconciled,
                 TakeShutdown, ReadResponse, ReadEvent, HandOverFails, ConnectionLost, frameVars
  <1>11. CASE Daemon \/ Quiet \/ UNCHANGED vars
    BY <1>11 DEF Daemon, Perform, Quiet, vars, frameVars
  <1> QED BY <1>0, <1>1, <1>2, <1>3, <1>4, <1>5, <1>6, <1>7, <1>8, <1>9, <1>10, <1>11 DEF Next, Base

\* A response on its way to the client carries a verdict.
AnswersDecided == \A r \in answers : verdict[r] \in Verdicts

LEMMA TypeStep == TypeOK /\ AnswersDecided /\ [Next]_vars => TypeOK'
  <1> SUFFICES ASSUME TypeOK, AnswersDecided, [Next]_vars PROVE TypeOK'
    OBVIOUS
  <1>q. queue' \in Seq(Commands)
    BY QueueType DEF TypeOK
  <1>i. ingress' \in Seq(Nat)
    BY IngressType DEF TypeOK
  <1> USE DEF TypeOK, callVars, handleVars, linkVars, daemonVars, frameVars,
              Results, Replies, Verdicts, SafeToRetry
  <1>1. ASSUME NEW r \in Reqs, Start(r) PROVE TypeOK'
    <2>1. CASE Refuse(r)
      BY <2>1 DEF Refuse
    <2>2. CASE Pass(r)
      BY <2>2 DEF Pass
    <2> QED BY <1>1, <2>1, <2>2 DEF Start
  <1>2. ASSUME NEW r \in Reqs, Proceed(r) PROVE TypeOK'
    <2>1. CASE Enqueue(r)
      BY <2>1, <1>q DEF Enqueue
    <2>2. CASE EnqueueFails(r)
      BY <2>2 DEF EnqueueFails
    <2>3. CASE Return(r)
      <3>1. (IF reply[r] = "dropped" THEN "Closed" ELSE reply[r]) \in Results
        BY <2>3 DEF Return
      <3> QED BY <2>3, <3>1 DEF Return
    <2>4. CASE TimeOut(r)
      BY <2>4 DEF TimeOut
    <2> QED BY <1>2, <2>1, <2>2, <2>3, <2>4 DEF Proceed
  <1>3. ASSUME NEW m \in Markers, MarkReady(m) \/ MarkSend(m) \/ MarkFails(m) PROVE TypeOK'
    <2>1. CASE MarkReady(m)
      BY <2>1 DEF MarkReady
    <2>2. CASE MarkSend(m)
      BY <2>2, <1>q DEF MarkSend
    <2>3. CASE MarkFails(m)
      BY <2>3 DEF MarkFails
    <2> QED BY <1>3, <2>1, <2>2, <2>3
  <1>4. ASSUME NEW n \in Notes, SendNote(n) PROVE TypeOK'
    BY <1>4, <1>q DEF SendNote
  <1>5. CASE StopBegin \/ StopSend
    <2>1. CASE StopBegin
      BY <2>1 DEF StopBegin
    <2>2. CASE StopSend
      BY <2>2, <1>q DEF StopSend
    <2> QED BY <1>5, <2>1, <2>2
  <1>6. CASE Loop
    <2>1. CASE ConnectOk \/ ConnectFails \/ Retry
      BY <2>1 DEF ConnectOk, ConnectFails, Retry, Publish
    <2>e. CASE HandshakeEvent
      <3>1. /\ seq' = seq + 1 /\ health' = "Handshaking" /\ fresh' = TRUE
            /\ UNCHANGED <<callVars, handleVars, queue, link, conn, ready, pending,
                           daemonVars, held, ingressOpen, consumed>>
        BY <2>e DEF HandshakeEvent, Publish
      <3>2. seq' \in Nat
        BY <3>1
      <3> HIDE <1>q
      <3> QED BY <3>1, <3>2, <1>i
    <2>2. CASE HandshakeOk
      <3>1. /\ seq' = seq + 1 /\ conn' = conn + 1 /\ link' = "driving"
            /\ health' = "Reconciling" /\ fresh' = TRUE /\ ready' = FALSE
            /\ UNCHANGED <<callVars, handleVars, queue, pending, daemonVars,
                           held, ingressOpen, consumed>>
        BY <2>2 DEF HandshakeOk, Publish
      <3>2. seq' \in Nat /\ conn' \in Nat
        BY <3>1
      <3>3. fresh' \in BOOLEAN /\ ready' \in BOOLEAN /\ ingressOpen' \in BOOLEAN
        BY <3>1
      <3> HIDE <1>q
      <3> QED BY <3>1, <3>2, <3>3, <1>i
    <2>3. CASE RejectWhileDisconnected
      <3>1. CASE Head(queue) = Shutdown
        BY <2>3, <1>q, <3>1 DEF RejectWhileDisconnected, EndTask
      <3>2. CASE Head(queue) # Shutdown
        <4>1. /\ reply' = [r \in Reqs |->
                             IF Head(queue) = Request(r) THEN "NotWritten" ELSE reply[r]]
              /\ marker' = [m \in Markers |->
                             IF Head(queue) = Reconciled(m) THEN "done" ELSE marker[m]]
              /\ link' = "connecting" /\ health' = "Connecting" /\ fresh' = TRUE
              /\ UNCHANGED <<call, notes, stopper, conn, ready, pending, daemonVars, frameVars>>
          BY <2>3, <3>2 DEF RejectWhileDisconnected, Publish
        <4>2. \A r \in Reqs : reply'[r] \in {"NotWritten", reply[r]}
          BY <4>1
        <4>3. \A m \in Markers : marker'[m] \in {"done", marker[m]}
          BY <4>1
        <4> QED BY <4>1, <4>2, <4>3, <1>q
      <3> QED BY <3>1, <3>2
    <2> QED BY <1>6, <2>1, <2>e, <2>2, <2>3 DEF Loop
  <1>7. CASE Drive
    <2> USE DEF Driving, Publish
    <2>d. Drained \in [Reqs -> {"empty", "dropped"} \cup Replies]
      BY DEF Drained
    <2>1. ASSUME NEW r \in Reqs, WriteRequest(r) PROVE TypeOK'
      BY <2>1, <1>q DEF WriteRequest
    <2>2. ASSUME NEW r \in Reqs, WriteFails(r) PROVE TypeOK'
      <3>1. [Drained EXCEPT ![r] = "NotWritten"]
              \in [Reqs -> {"empty", "dropped"} \cup Replies]
        BY <2>d
      <3> QED BY <2>2, <1>q, <3>1 DEF WriteFails, Disconnect
    <2>3. ASSUME NEW r \in Reqs, ReadResponse(r) PROVE TypeOK'
      <3>1. verdict[r] \in Verdicts
        BY <2>3 DEF ReadResponse, AnswersDecided
      <3> QED BY <2>3, <3>1 DEF ReadResponse
    <2>4. ASSUME NEW n \in Notes, WriteNote(n) PROVE TypeOK'
      BY <2>4, <1>q, <2>d DEF WriteNote, Disconnect
    <2>5. ASSUME NEW m \in Markers, TakeReconciled(m) PROVE TypeOK'
      BY <2>5, <1>q DEF TakeReconciled
    <2>6. CASE TakeShutdown
      BY <2>6, <1>q, <2>d DEF TakeShutdown, EndTask
    <2>7. CASE ReadEvent
      BY <2>7 DEF ReadEvent
    <2>8. CASE HandOver
      BY <2>8, <1>i DEF HandOver
    <2>9. CASE HandOverFails
      BY <2>9, <1>q, <2>d DEF HandOverFails, EndTask
    <2>10. CASE ConnectionLost
      BY <2>10, <2>d DEF ConnectionLost, Disconnect
    <2> QED BY <1>7, <2>1, <2>2, <2>3, <2>4, <2>5, <2>6, <2>7, <2>8, <2>9, <2>10
            DEF Drive, TakeCommand
  <1>8. CASE Daemon
    BY <1>8 DEF Daemon, Perform
  <1>9. CASE Consume
    <2>1. Head(ingress) \in Nat
      BY <1>9 DEF Consume
    <2> QED BY <1>9, <1>i, <2>1 DEF Consume
  <1>10. CASE DropIngress
    BY <1>10, <1>i DEF DropIngress
  <1>11. CASE Quiet \/ UNCHANGED vars
    BY <1>11 DEF Quiet, vars
  <1> QED BY <1>1, <1>2, <1>3, <1>4, <1>5, <1>6, <1>7, <1>8, <1>9, <1>10, <1>11 DEF Next, Base

-----------------------------------------------------------------------------
(* The queue has no twins, and every request is where RequestInv says.     *)

LEMMA InvInit == Init => IInv
  <1> SUFFICES ASSUME Init PROVE IInv
    OBVIOUS
  <1>1. TypeOK
    <2>1. queue \in Seq(Commands) /\ ingress \in Seq(Nat)
      BY DEF Init
    <2> QED BY <2>1 DEF Init, TypeOK, Results, Replies, Verdicts, SafeToRetry
  <1>2. NoTwins(queue)
    BY DEF Init, NoTwins
  <1>3. ASSUME NEW r \in Reqs PROVE RequestInv(r)
    BY DEF Init, RequestInv, Unseen, Queued, Elems, Verdicts, SafeToRetry
  <1> QED BY <1>1, <1>2, <1>3 DEF IInv

LEMMA NoTwinsStep == IInv /\ [Next]_vars => NoTwins(queue)'
  <1> SUFFICES ASSUME IInv, [Next]_vars PROVE NoTwins(queue')
    BY DEF NoTwins
  <1>1. PICK c : QueueStep(c)
    BY QueueSteps
  <1>2. queue \in Seq(Commands) /\ NoTwins(queue)
    BY DEF IInv, TypeOK
  <1>3. CASE queue' = <<>>
    BY <1>3 DEF NoTwins
  <1>4. CASE queue # <<>> /\ queue' = Tail(queue)
    BY <1>2, <1>4, HeadLeaves
  <1>5. CASE /\ queue' = Append(queue, c) /\ c \in Commands
             /\ \A r \in Reqs : c = Request(r) => call[r] = "sending"
    <2>1. \A r \in Reqs : c = Request(r) => Request(r) \notin Elems(queue)
      BY <1>5 DEF IInv, RequestInv, Queued
    <2> QED BY <1>2, <1>5, <2>1, AppendNoTwins
  <1> QED BY <1>1, <1>2, <1>3, <1>4, <1>5 DEF QueueStep

LEMMA RequestStep == IInv /\ [Next]_vars => \A s \in Reqs : RequestInv(s)'
  <1> SUFFICES ASSUME IInv, [Next]_vars, NEW s \in Reqs PROVE RequestInv(s)'
    OBVIOUS
  <1>s. RequestInv(s)
    BY DEF IInv
  <1>t. /\ call \in [Reqs -> {"idle", "sending", "waiting"} \cup Results]
        /\ reply \in [Reqs -> {"empty", "dropped"} \cup Replies]
        /\ runs \in [Reqs -> Nat] /\ verdict \in [Reqs -> {"none"} \cup Verdicts]
        /\ queue \in Seq(Commands) /\ NoTwins(queue)
    BY DEF IInv, TypeOK
  <1>same. queue' = queue => Queued' = Queued
    BY DEF Queued
  <1>none. queue' = <<>> => Queued' = {}
    BY DEF Queued, Elems
  <1>tail. queue # <<>> /\ queue' = Tail(queue) =>
             /\ Queued' \subseteq Queued /\ Head(queue) \in Queued
             /\ Head(queue) = Request(s) => Request(s) \notin Queued'
    BY <1>t, TailElems, HeadLeaves DEF Queued
  <1>add. \A c \in Commands : queue' = Append(queue, c) => Queued' = Queued \cup {c}
    BY <1>t, AppendElems DEF Queued
  <1> USE <1>s, <1>t DEF RequestInv, Unseen, Verdicts, SafeToRetry, Results, Replies
  <1>1. ASSUME NEW r \in Reqs, Start(r) PROVE RequestInv(s)'
    <2>1. CASE Refuse(r)
      BY <2>1, <1>same DEF Refuse, daemonVars
    <2>2. CASE Pass(r)
      BY <2>2, <1>same DEF Pass, daemonVars
    <2> QED BY <1>1, <2>1, <2>2 DEF Start
  <1>2. ASSUME NEW r \in Reqs, Proceed(r) PROVE RequestInv(s)'
    <2>1. CASE Enqueue(r)
      <3>1. Queued' = Queued \cup {Request(r)}
        BY <2>1, <1>add, CommandsInSet DEF Enqueue
      <3>2. Request(s) \in Queued' => Request(s) \in Queued \/ r = s
        BY <3>1, CommandsDiffer
      <3> QED BY <2>1, <3>2 DEF Enqueue, daemonVars
    <2>2. CASE EnqueueFails(r)
      BY <2>2, <1>same DEF EnqueueFails, daemonVars
    <2>3. CASE Return(r)
      BY <2>3, <1>same DEF Return, daemonVars
    <2>4. CASE TimeOut(r)
      BY <2>4, <1>same DEF TimeOut, daemonVars
    <2> QED BY <1>2, <2>1, <2>2, <2>3, <2>4 DEF Proceed
  <1>3. ASSUME UNCHANGED <<call, reply, pending, daemonVars>>,
               Request(s) \in Queued' => Request(s) \in Queued
        PROVE  RequestInv(s)'
    BY <1>3 DEF daemonVars
  <1>4. ASSUME NEW m \in Markers, MarkReady(m) \/ MarkSend(m) \/ MarkFails(m)
        PROVE  RequestInv(s)'
    <2>1. Request(s) \in Queued' => Request(s) \in Queued
      BY <1>4, <1>same, <1>add, CommandsInSet, CommandsDiffer
         DEF MarkReady, MarkSend, MarkFails
    <2> QED BY <1>3, <1>4, <2>1 DEF MarkReady, MarkSend, MarkFails, callVars
  <1>5. ASSUME NEW n \in Notes, SendNote(n) PROVE RequestInv(s)'
    <2>1. Request(s) \in Queued' => Request(s) \in Queued
      BY <1>5, <1>same, <1>add, CommandsInSet, CommandsDiffer DEF SendNote
    <2> QED BY <1>3, <1>5, <2>1 DEF SendNote, callVars
  <1>6. CASE StopBegin \/ StopSend
    <2>1. Request(s) \in Queued' => Request(s) \in Queued
      BY <1>6, <1>same, <1>add, CommandsInSet, CommandsDiffer DEF StopBegin, StopSend
    <2> QED BY <1>3, <1>6, <2>1 DEF StopBegin, StopSend, callVars
  <1>7. CASE Loop
    <2>1. CASE ConnectOk \/ ConnectFails \/ HandshakeEvent \/ HandshakeOk \/ Retry
      BY <2>1, <1>3, <1>same DEF ConnectOk, ConnectFails, HandshakeEvent, HandshakeOk, Retry, callVars
    <2>2. CASE RejectWhileDisconnected
      <3>1. CASE Head(queue) = Shutdown
        <4>1. /\ reply' = [r \in Reqs |->
                     IF Request(r) \in Elems(Tail(queue)) THEN "dropped" ELSE reply[r]]
              /\ Queued' = {} /\ Elems(Tail(queue)) \subseteq Queued
              /\ UNCHANGED <<call, pending, daemonVars>>
          BY <2>2, <3>1, <1>none, TailElems DEF RejectWhileDisconnected, EndTask, Queued
        <4> QED BY <4>1 DEF daemonVars
      <3>2. CASE Head(queue) # Shutdown
        <4>1. /\ reply' = [r \in Reqs |->
                     IF Head(queue) = Request(r) THEN "NotWritten" ELSE reply[r]]
              /\ Queued' \subseteq Queued /\ Head(queue) \in Queued
              /\ Head(queue) = Request(s) => Request(s) \notin Queued'
              /\ UNCHANGED <<call, pending, daemonVars>>
          BY <2>2, <3>2, <1>tail DEF RejectWhileDisconnected
        <4> QED BY <4>1 DEF daemonVars
      <3> QED BY <3>1, <3>2
    <2> QED BY <1>7, <2>1, <2>2 DEF Loop
  <1>8. CASE Drive
    <2>1. ASSUME NEW r \in Reqs, WriteRequest(r) PROVE RequestInv(s)'
      <3>1. /\ Queued' \subseteq Queued /\ Request(r) \in Queued
            /\ r = s => Request(s) \notin Queued'
        BY <2>1, <1>tail DEF WriteRequest
      <3> QED BY <2>1, <3>1 DEF WriteRequest, callVars
    <2>2. ASSUME NEW r \in Reqs, WriteFails(r) PROVE RequestInv(s)'
      <3>1. /\ Queued' \subseteq Queued /\ Request(r) \in Queued
            /\ r = s => Request(s) \notin Queued'
        BY <2>2, <1>tail DEF WriteFails
      <3>2. /\ reply'[s] = IF s = r THEN "NotWritten"
                           ELSE IF s \in pending THEN "Unknown" ELSE reply[s]
            /\ pending' = {} /\ answers' = {} /\ UNCHANGED <<call, wire, runs, verdict>>
        BY <2>2 DEF WriteFails, Disconnect, Drained
      <3> QED BY <3>1, <3>2
    <2>3. ASSUME NEW r \in Reqs, ReadResponse(r) PROVE RequestInv(s)'
      BY <2>3, <1>same DEF ReadResponse
    <2>4. ASSUME NEW n \in Notes, WriteNote(n) PROVE RequestInv(s)'
      <3>1. Queued' \subseteq Queued
        BY <2>4, <1>tail DEF WriteNote
      <3>2. CASE UNCHANGED <<reply, linkVars, pending, answers>>
        BY <2>4, <3>1, <3>2 DEF WriteNote
      <3>3. CASE Disconnect(Drained)
        BY <2>4, <3>1, <3>3 DEF WriteNote, Disconnect, Drained
      <3> QED BY <2>4, <3>2, <3>3 DEF WriteNote
    <2>5. ASSUME NEW m \in Markers, TakeReconciled(m) PROVE RequestInv(s)'
      BY <2>5, <1>3, <1>tail DEF TakeReconciled, callVars
    <2>6. CASE TakeShutdown
      <3>1. /\ reply'[s] = IF Request(s) \in Elems(Tail(queue)) THEN "dropped"
                           ELSE IF s \in pending THEN "Unknown" ELSE reply[s]
            /\ Queued' = {} /\ Elems(Tail(queue)) \subseteq Queued
            /\ pending' = {} /\ answers' = {} /\ UNCHANGED <<call, wire, runs, verdict>>
        BY <2>6, <1>none, TailElems DEF TakeShutdown, EndTask, Drained, Queued
      <3> QED BY <3>1
    <2>7. CASE ReadEvent \/ HandOver
      BY <2>7, <1>3, <1>same DEF ReadEvent, HandOver, callVars
    <2>8. CASE HandOverFails
      <3>1. /\ reply'[s] = IF Request(s) \in Queued THEN "dropped"
                           ELSE IF s \in pending THEN "Unknown" ELSE reply[s]
            /\ Queued' = {}
            /\ pending' = {} /\ answers' = {} /\ UNCHANGED <<call, wire, runs, verdict>>
        BY <2>8, <1>none DEF HandOverFails, EndTask, Drained, Queued
      <3> QED BY <3>1
    <2>9. CASE ConnectionLost
      BY <2>9, <1>same DEF ConnectionLost, Disconnect, Drained
    <2> QED BY <1>8, <2>1, <2>2, <2>3, <2>4, <2>5, <2>6, <2>7, <2>8, <2>9
            DEF Drive, TakeCommand
  <1>9. ASSUME NEW r \in Reqs, NEW v \in Verdicts, Perform(r, v) PROVE RequestInv(s)'
    BY <1>9, <1>same DEF Perform, callVars
  <1>10. CASE Consume \/ DropIngress \/ Quiet \/ UNCHANGED vars
    BY <1>10, <1>3, <1>same DEF Consume, DropIngress, Quiet, vars, callVars
  <1> QED BY <1>1, <1>2, <1>4, <1>5, <1>6, <1>7, <1>8, <1>9, <1>10 DEF Next, Base, Daemon

LEMMA InvStep == IInv /\ [Next]_vars => IInv'
  <1>1. IInv => AnswersDecided
    BY DEF IInv, RequestInv, AnswersDecided, TypeOK
  <1> QED BY <1>1, TypeStep, NoTwinsStep, RequestStep DEF IInv

THEOREM Invariance == Spec => []IInv
  BY InvInit, InvStep, PTL DEF Spec

\* Every variable keeps its type: the crate's phases, replies and results are
\* the only ones, and the maps stay total over the requests.
THEOREM TypeCorrect == Spec => []TypeOK
  <1>1. IInv => TypeOK
    BY DEF IInv
  <1> QED BY <1>1, Invariance, PTL

\* NotWritten and Closed are safe to retry, for any number of callers, any
\* interleaving with the connection task and any number of reconnects.
THEOREM RetrySafety == Spec => []SafeToRetryIsSafe
  <1>1. IInv => SafeToRetryIsSafe
    BY DEF IInv, RequestInv, Unseen, SafeToRetryIsSafe
  <1> QED BY <1>1, Invariance, PTL

\* Ok and Rejected are the daemon's verdict on the request of that caller.
THEOREM AnswersAreTrue == Spec => []AnswerIsTheDaemons
  <1>1. IInv => AnswerIsTheDaemons
    BY DEF IInv, RequestInv, AnswerIsTheDaemons
  <1> QED BY <1>1, Invariance, PTL

-----------------------------------------------------------------------------
(* Who answers a waiting caller, and on which connection a request is.     *)

LEMMA HeadOrTail ==
    ASSUME NEW S, NEW q \in Seq(S), q # <<>>
    PROVE  Elems(q) \subseteq {Head(q)} \cup Elems(Tail(q))
  <1> SUFFICES ASSUME NEW i \in DOMAIN q, q[i] # Head(q) PROVE q[i] \in Elems(Tail(q))
    BY DEF Elems
  <1>1. /\ DOMAIN q = 1..Len(q) /\ Len(q) \in Nat \ {0}
        /\ DOMAIN Tail(q) = 1..(Len(q) - 1)
        /\ \A j \in DOMAIN Tail(q) : Tail(q)[j] = q[j + 1]
        /\ Head(q) = q[1]
    OBVIOUS
  <1>2. i - 1 \in DOMAIN Tail(q) /\ Tail(q)[i - 1] = q[i]
    BY <1>1
  <1> QED BY <1>2 DEF Elems

\* A waiting caller is owed an answer by the queue or the pending map, which
\* is of this connection; a request that may still be written never was.
DeliveryInv(r) ==
    /\ call[r] = "waiting" /\ reply[r] = "empty" => Request(r) \in Queued \/ r \in pending
    /\ r \in pending => link = "driving" /\ onConn[r] = conn
    /\ call[r] \in {"idle", "sending"} \/ Request(r) \in Queued => onConn[r] = 0
    /\ onConn[r] <= conn

DInv == IInv /\ \A r \in Reqs : DeliveryInv(r)

LEMMA DeliveryInit == Init => \A r \in Reqs : DeliveryInv(r)
  BY DEF Init, DeliveryInv, Queued, Elems

LEMMA DeliveryStep == DInv /\ [Next]_vars => \A s \in Reqs : DeliveryInv(s)'
  <1> SUFFICES ASSUME DInv, [Next]_vars, NEW s \in Reqs PROVE DeliveryInv(s)'
    OBVIOUS
  <1>s. DeliveryInv(s) /\ RequestInv(s)
    BY DEF DInv, IInv
  <1>t. /\ call \in [Reqs -> {"idle", "sending", "waiting"} \cup Results]
        /\ reply \in [Reqs -> {"empty", "dropped"} \cup Replies]
        /\ onConn \in [Reqs -> Nat] /\ conn \in Nat
        /\ verdict \in [Reqs -> {"none"} \cup Verdicts]
        /\ queue \in Seq(Commands) /\ NoTwins(queue)
    BY DEF DInv, IInv, TypeOK
  <1>c. Request(s) \in Queued => call[s] \in {"waiting", "TimedOut"}
    BY <1>s DEF RequestInv
  <1>same. queue' = queue => Queued' = Queued
    BY DEF Queued
  <1>none. queue' = <<>> => Queued' = {}
    BY DEF Queued, Elems
  <1>tail. queue # <<>> /\ queue' = Tail(queue) =>
             /\ Queued' \subseteq Queued /\ Queued \subseteq {Head(queue)} \cup Queued'
             /\ Head(queue) \in Queued
             /\ Head(queue) = Request(s) => Request(s) \notin Queued'
    BY <1>t, TailElems, HeadLeaves, HeadOrTail DEF Queued
  <1>add. \A c \in Commands : queue' = Append(queue, c) => Queued' = Queued \cup {c}
    BY <1>t, AppendElems DEF Queued
  <1> USE <1>s, <1>t DEF DeliveryInv, Verdicts, SafeToRetry, Results, Replies
  <1>1. ASSUME NEW r \in Reqs, Start(r) PROVE DeliveryInv(s)'
    <2>1. CASE Refuse(r)
      BY <2>1, <1>same DEF Refuse, daemonVars, linkVars
    <2>2. CASE Pass(r)
      BY <2>2, <1>same DEF Pass, daemonVars, linkVars
    <2> QED BY <1>1, <2>1, <2>2 DEF Start
  <1>2. ASSUME NEW r \in Reqs, Proceed(r) PROVE DeliveryInv(s)'
    <2>1. CASE Enqueue(r)
      <3>1. Queued' = Queued \cup {Request(r)}
        BY <2>1, <1>add, CommandsInSet DEF Enqueue
      <3>2. Request(s) \in Queued' <=> Request(s) \in Queued \/ r = s
        BY <3>1, CommandsDiffer
      <3> QED BY <2>1, <3>2 DEF Enqueue, daemonVars, linkVars
    <2>2. CASE EnqueueFails(r)
      BY <2>2, <1>same DEF EnqueueFails, daemonVars, linkVars
    <2>3. CASE Return(r)
      BY <2>3, <1>same DEF Return, daemonVars, linkVars
    <2>4. CASE TimeOut(r)
      BY <2>4, <1>same DEF TimeOut, daemonVars, linkVars
    <2> QED BY <1>2, <2>1, <2>2, <2>3, <2>4 DEF Proceed
  <1>3. ASSUME UNCHANGED <<call, reply, pending, link, conn, onConn>>,
               Request(s) \in Queued' <=> Request(s) \in Queued
        PROVE  DeliveryInv(s)'
    BY <1>3
  <1>4. ASSUME NEW m \in Markers, MarkReady(m) \/ MarkSend(m) \/ MarkFails(m)
        PROVE  DeliveryInv(s)'
    <2>1. Request(s) \in Queued' <=> Request(s) \in Queued
      BY <1>4, <1>same, <1>add, CommandsInSet, CommandsDiffer
         DEF MarkReady, MarkSend, MarkFails
    <2> QED BY <1>3, <1>4, <2>1 DEF MarkReady, MarkSend, MarkFails, callVars, daemonVars, linkVars
  <1>5. ASSUME NEW n \in Notes, SendNote(n) PROVE DeliveryInv(s)'
    <2>1. Request(s) \in Queued' <=> Request(s) \in Queued
      BY <1>5, <1>same, <1>add, CommandsInSet, CommandsDiffer DEF SendNote
    <2> QED BY <1>3, <1>5, <2>1 DEF SendNote, callVars, daemonVars, linkVars
  <1>6. CASE StopBegin \/ StopSend
    <2>1. Request(s) \in Queued' <=> Request(s) \in Queued
      BY <1>6, <1>same, <1>add, CommandsInSet, CommandsDiffer DEF StopBegin, StopSend
    <2> QED BY <1>3, <1>6, <2>1 DEF StopBegin, StopSend, callVars, daemonVars, linkVars
  <1>7. CASE Loop
    <2>1. CASE ConnectOk \/ ConnectFails \/ HandshakeEvent \/ Retry
      BY <2>1, <1>same DEF ConnectOk, ConnectFails, HandshakeEvent, Retry, callVars, daemonVars
    <2>2. CASE HandshakeOk
      <3>1. /\ link = "handshaking" /\ conn' = conn + 1 /\ Queued' = Queued
            /\ UNCHANGED <<call, reply, pending, onConn>>
        BY <2>2, <1>same DEF HandshakeOk, callVars, daemonVars
      <3> QED BY <3>1
    <2>3. CASE RejectWhileDisconnected
      <3>1. CASE Head(queue) = Shutdown
        <4>1. /\ reply' = [r \in Reqs |->
                     IF Request(r) \in Elems(Tail(queue)) THEN "dropped" ELSE reply[r]]
              /\ Queued' = {} /\ UNCHANGED <<call, pending, conn, onConn>>
              /\ link = "backoff" /\ queue # <<>>
          BY <2>3, <3>1, <1>none DEF RejectWhileDisconnected, EndTask, daemonVars
        <4>2. Request(s) \in Queued => reply'[s] = "dropped"
          BY <3>1, <4>1, HeadOrTail, CommandsDiffer DEF Queued
        <4> QED BY <4>1, <4>2
      <3>2. CASE Head(queue) # Shutdown
        <4>1. /\ reply' = [r \in Reqs |->
                     IF Head(queue) = Request(r) THEN "NotWritten" ELSE reply[r]]
              /\ Queued' \subseteq Queued /\ Queued \subseteq {Head(queue)} \cup Queued'
              /\ UNCHANGED <<call, pending, conn, onConn>> /\ link = "backoff"
          BY <2>3, <3>2, <1>tail DEF RejectWhileDisconnected, daemonVars
        <4> QED BY <4>1
      <3> QED BY <3>1, <3>2
    <2> QED BY <1>7, <2>1, <2>2, <2>3 DEF Loop
  <1>8. CASE Drive
    <2>1. ASSUME NEW r \in Reqs, WriteRequest(r) PROVE DeliveryInv(s)'
      <3>1. /\ Queued' \subseteq Queued /\ Queued \subseteq {Request(r)} \cup Queued'
            /\ Request(r) \in Queued
            /\ r = s => Request(s) \notin Queued'
        BY <2>1, <1>tail DEF WriteRequest
      <3>2. /\ pending' = pending \cup {r} /\ onConn' = [onConn EXCEPT ![r] = conn]
            /\ link = "driving" /\ UNCHANGED <<call, reply, link, conn>>
        BY <2>1 DEF WriteRequest, callVars, linkVars, Driving
      <3>3. CASE r = s
        BY <1>c, <3>1, <3>2, <3>3
      <3>4. CASE r # s
        BY <3>1, <3>2, <3>4, CommandsDiffer
      <3> QED BY <3>3, <3>4
    <2>d. ASSUME pending' = {}, UNCHANGED <<call, conn, onConn>>,
                 Request(s) \in Queued' => Request(s) \in Queued,
                 \/ reply'[s] # "empty"
                 \/ reply'[s] = reply[s] /\ s \notin pending
                      /\ (Request(s) \in Queued => Request(s) \in Queued')
          PROVE  DeliveryInv(s)'
      BY <2>d
    <2>2. ASSUME NEW r \in Reqs, WriteFails(r) PROVE DeliveryInv(s)'
      <3>1. /\ Queued' \subseteq Queued /\ Queued \subseteq {Request(r)} \cup Queued'
        BY <2>2, <1>tail DEF WriteFails
      <3>2. /\ reply'[s] = IF s = r THEN "NotWritten"
                           ELSE IF s \in pending THEN "Unknown" ELSE reply[s]
            /\ pending' = {} /\ UNCHANGED <<call, conn, onConn>>
        BY <2>2 DEF WriteFails, Disconnect, Drained
      <3>3. r # s => (Request(s) \in Queued => Request(s) \in Queued')
        BY <3>1, CommandsDiffer
      <3> QED BY <2>d, <3>1, <3>2, <3>3
    <2>3. ASSUME NEW r \in Reqs, ReadResponse(r) PROVE DeliveryInv(s)'
      <3>1. verdict[r] \in Verdicts
        BY <2>3 DEF ReadResponse, DInv, IInv, RequestInv
      <3> QED BY <2>3, <3>1, <1>same DEF ReadResponse, linkVars
    <2>4. ASSUME NEW n \in Notes, WriteNote(n) PROVE DeliveryInv(s)'
      <3>1. Request(s) \in Queued' <=> Request(s) \in Queued
        BY <2>4, <1>tail, CommandsDiffer DEF WriteNote
      <3>2. CASE UNCHANGED <<reply, linkVars, pending, answers>>
        BY <2>4, <3>1, <3>2, <1>3 DEF WriteNote, linkVars
      <3>3. CASE Disconnect(Drained) /\ UNCHANGED conn
        BY <2>4, <3>1, <3>3, <2>d DEF WriteNote, Disconnect, Drained
      <3> QED BY <2>4, <3>2, <3>3 DEF WriteNote
    <2>5. ASSUME NEW m \in Markers, TakeReconciled(m) PROVE DeliveryInv(s)'
      <3>1. Request(s) \in Queued' <=> Request(s) \in Queued
        BY <2>5, <1>tail, CommandsDiffer DEF TakeReconciled
      <3> QED BY <2>5, <3>1, <1>3 DEF TakeReconciled, callVars, daemonVars
    <2>6. CASE TakeShutdown
      <3>1. /\ reply'[s] = IF Request(s) \in Elems(Tail(queue)) THEN "dropped"
                           ELSE IF s \in pending THEN "Unknown" ELSE reply[s]
            /\ Queued' = {} /\ pending' = {} /\ UNCHANGED <<call, conn, onConn>>
            /\ queue # <<>> /\ Head(queue) = Shutdown
        BY <2>6, <1>none DEF TakeShutdown, EndTask, Drained
      <3>2. Request(s) \in Queued => Request(s) \in Elems(Tail(queue))
        BY <3>1, HeadOrTail, CommandsDiffer DEF Queued
      <3> QED BY <2>d, <3>1, <3>2
    <2>7. CASE ReadEvent \/ HandOver
      BY <2>7, <1>3, <1>same DEF ReadEvent, HandOver, callVars, daemonVars, linkVars
    <2>8. CASE HandOverFails
      <3>1. /\ reply'[s] = IF Request(s) \in Queued THEN "dropped"
                           ELSE IF s \in pending THEN "Unknown" ELSE reply[s]
            /\ Queued' = {} /\ pending' = {} /\ UNCHANGED <<call, conn, onConn>>
        BY <2>8, <1>none DEF HandOverFails, EndTask, Drained, Queued
      <3> QED BY <2>d, <3>1
    <2>9. CASE ConnectionLost
      BY <2>9, <1>same, <2>d DEF ConnectionLost, Disconnect, Drained
    <2> QED BY <1>8, <2>1, <2>2, <2>3, <2>4, <2>5, <2>6, <2>7, <2>8, <2>9
            DEF Drive, TakeCommand
  <1>9. ASSUME NEW r \in Reqs, NEW v \in Verdicts, Perform(r, v) PROVE DeliveryInv(s)'
    BY <1>9, <1>3, <1>same DEF Perform, callVars, linkVars
  <1>10. CASE Consume \/ DropIngress \/ Quiet \/ UNCHANGED vars
    BY <1>10, <1>3, <1>same DEF Consume, DropIngress, Quiet, vars, callVars, daemonVars, linkVars
  <1> QED BY <1>1, <1>2, <1>4, <1>5, <1>6, <1>7, <1>8, <1>9, <1>10 DEF Next, Base, Daemon

THEOREM Delivery == Spec => []DInv
  <1>1. Init => DInv
    BY InvInit, DeliveryInit DEF DInv
  <1>2. DInv /\ [Next]_vars => DInv'
    BY InvStep, DeliveryStep DEF DInv
  <1> QED BY <1>1, <1>2, PTL DEF Spec

\* The pending map is emptied with its connection, so an answer of one
\* connection cannot meet an entry of another.
THEOREM PendingIsCurrent == Spec => []PendingOfThisConnection
  <1>1. DInv => PendingOfThisConnection
    BY DEF DInv, IInv, TypeOK, DeliveryInv, PendingOfThisConnection
  <1> QED BY <1>1, Delivery, PTL

\* Only drive writes, and what it takes from the queue has not been written.
LEMMA WriteStep ==
    DInv /\ [Next]_vars =>
      [\A r \in Reqs : onConn[r] # 0 =>
           onConn'[r] = onConn[r] /\ (r \notin wire => r \notin wire')]_vars
  <1> SUFFICES ASSUME DInv, [Next]_vars, NEW s \in Reqs, onConn[s] # 0
               PROVE  onConn'[s] = onConn[s] /\ (s \notin wire => s \notin wire')
    OBVIOUS
  <1>t. onConn \in [Reqs -> Nat]
    BY DEF DInv, IInv, TypeOK
  <1>1. ASSUME NEW r \in Reqs, WriteRequest(r)
        PROVE  onConn'[s] = onConn[s] /\ (s \notin wire => s \notin wire')
    <2>1. onConn[r] = 0
      <3>1. Request(r) \in Queued
        BY <1>1, TailElems DEF WriteRequest, DInv, IInv, TypeOK, Queued
      <3> QED BY <3>1 DEF DInv, DeliveryInv
    <2> QED BY <1>1, <1>t, <2>1 DEF WriteRequest
  <1>2. CASE UNCHANGED <<wire, onConn>>
    BY <1>2
  <1>3. ASSUME NEW r \in Reqs, Start(r) \/ Proceed(r) PROVE UNCHANGED <<wire, onConn>>
    BY <1>3 DEF Start, Refuse, Pass, Proceed, Enqueue, EnqueueFails, Return, TimeOut, daemonVars
  <1>4. ASSUME NEW m \in Markers, MarkReady(m) \/ MarkSend(m) \/ MarkFails(m)
        PROVE  UNCHANGED <<wire, onConn>>
    BY <1>4 DEF MarkReady, MarkSend, MarkFails, daemonVars
  <1>5. ASSUME NEW n \in Notes, SendNote(n) PROVE UNCHANGED <<wire, onConn>>
    BY <1>5 DEF SendNote, daemonVars
  <1>6. CASE StopBegin \/ StopSend \/ Loop \/ Consume \/ DropIngress \/ Quiet \/ UNCHANGED vars
    BY <1>2, <1>6 DEF StopBegin, StopSend, Loop, ConnectOk, ConnectFails, HandshakeEvent,
       HandshakeOk, Retry, RejectWhileDisconnected, Consume, DropIngress, Quiet, vars, daemonVars
  <1>7. CASE Drive /\ ~\E r \in Reqs : WriteRequest(r)
    BY <1>2, <1>7 DEF Drive, TakeCommand, WriteFails, WriteNote, TakeReconciled, TakeShutdown,
       ReadResponse, ReadEvent, HandOver, HandOverFails, ConnectionLost, daemonVars
  <1>8. CASE Daemon
    BY <1>8 DEF Daemon, Perform
  <1> QED BY <1>1, <1>2, <1>3, <1>4, <1>5, <1>6, <1>7, <1>8 DEF Next, Base, Drive, TakeCommand

\* A frame that has been written is never written again, whatever times out
\* and however often the connection is made again.
THEOREM NeverWrittenTwice == Spec => WrittenOnce
  BY WriteStep, Delivery, PTL DEF Spec, WrittenOnce

-----------------------------------------------------------------------------
(* The authoritative ingress.                                              *)

\* The frame in hand is the newest, and only drive has one; a consumer that
\* has gone leaves an empty channel.
InOrder(q, c) == \A i \in DOMAIN q : q[i] = c + i
IngressInv ==
    /\ InOrder(ingress, consumed)
    /\ held # 0 => held = seq /\ link = "driving"
    /\ ~ingressOpen => ingress = <<>>
    /\ ingressOpen => consumed + Len(ingress) + (IF held = 0 THEN 0 ELSE 1) = seq

LEMMA AppendInOrder ==
    ASSUME NEW q \in Seq(Nat), NEW c \in Nat, InOrder(q, c)
    PROVE  /\ InOrder(Append(q, c + Len(q) + 1), c)
           /\ Len(Append(q, c + Len(q) + 1)) = Len(q) + 1
  <1>1. /\ DOMAIN q = 1..Len(q) /\ Len(q) \in Nat
        /\ DOMAIN Append(q, c + Len(q) + 1) = 1..(Len(q) + 1)
        /\ \A i \in 1..Len(q) : Append(q, c + Len(q) + 1)[i] = q[i]
        /\ Append(q, c + Len(q) + 1)[Len(q) + 1] = c + Len(q) + 1
        /\ Len(Append(q, c + Len(q) + 1)) = Len(q) + 1
    OBVIOUS
  <1>2. ASSUME NEW i \in 1..(Len(q) + 1) PROVE Append(q, c + Len(q) + 1)[i] = c + i
    <2>1. CASE i = Len(q) + 1
      BY <1>1, <2>1
    <2>2. CASE i # Len(q) + 1
      <3>1. i \in 1..Len(q)
        BY <1>1, <2>2
      <3>2. q[i] = c + i
        BY <1>1, <3>1 DEF InOrder
      <3> QED BY <1>1, <3>1, <3>2
    <2> QED BY <2>1, <2>2
  <1> QED BY <1>1, <1>2 DEF InOrder

LEMMA TailInOrder ==
    ASSUME NEW q \in Seq(Nat), NEW c \in Nat, InOrder(q, c), q # <<>>
    PROVE  /\ Head(q) = c + 1
           /\ InOrder(Tail(q), Head(q))
           /\ Len(Tail(q)) = Len(q) - 1
  <1>1. /\ DOMAIN q = 1..Len(q) /\ Len(q) \in Nat \ {0}
        /\ DOMAIN Tail(q) = 1..(Len(q) - 1)
        /\ \A i \in DOMAIN Tail(q) : Tail(q)[i] = q[i + 1]
        /\ Head(q) = q[1] /\ Len(Tail(q)) = Len(q) - 1
    OBVIOUS
  <1>2. Head(q) = c + 1
    BY <1>1, 1 \in DOMAIN q DEF InOrder
  <1>3. ASSUME NEW i \in DOMAIN Tail(q) PROVE Tail(q)[i] = Head(q) + i
    <2>1. i + 1 \in DOMAIN q /\ i \in Nat
      BY <1>1
    <2>2. q[i + 1] = c + (i + 1)
      BY <2>1 DEF InOrder
    <2> QED BY <1>1, <1>2, <2>1, <2>2
  <1> QED BY <1>1, <1>2, <1>3 DEF InOrder

LEMMA IngressStep == TypeOK /\ IngressInv /\ [Next]_vars => IngressInv'
  <1> SUFFICES ASSUME TypeOK, IngressInv, [Next]_vars PROVE IngressInv'
    OBVIOUS
  <1>t. /\ ingress \in Seq(Nat) /\ seq \in Nat /\ held \in Nat /\ consumed \in Nat
        /\ Len(ingress) \in Nat /\ ingressOpen \in BOOLEAN
    BY DEF TypeOK
  <1>0. ASSUME UNCHANGED <<ingress, held, seq, ingressOpen, consumed>>,
               held # 0 => link' = link
        PROVE  IngressInv'
    BY <1>0 DEF IngressInv, InOrder
  <1>1. CASE HandshakeEvent \/ HandshakeOk
    <2>1. /\ link = "handshaking" /\ ingressOpen /\ UNCHANGED <<held, ingressOpen, consumed>>
          /\ seq' = seq + 1 /\ ingress' = Append(ingress, seq + 1)
      BY <1>1 DEF HandshakeEvent, HandshakeOk
    <2>2. held = 0 /\ seq + 1 = consumed + Len(ingress) + 1
      BY <1>t, <2>1 DEF IngressInv
    <2>3. InOrder(ingress', consumed) /\ Len(ingress') = Len(ingress) + 1
      BY <1>t, <2>1, <2>2, AppendInOrder DEF IngressInv
    <2> QED BY <1>t, <2>1, <2>2, <2>3 DEF IngressInv
  <1>2. CASE HandOver
    <2>1. /\ ingressOpen /\ held # 0 /\ held' = 0 /\ ingress' = Append(ingress, held)
          /\ UNCHANGED <<seq, ingressOpen, consumed>>
      BY <1>2 DEF HandOver
    <2>2. held = consumed + Len(ingress) + 1 /\ held = seq
      BY <1>t, <2>1 DEF IngressInv
    <2>3. InOrder(ingress', consumed) /\ Len(ingress') = Len(ingress) + 1
      BY <1>t, <2>1, <2>2, AppendInOrder DEF IngressInv
    <2> QED BY <1>t, <2>1, <2>2, <2>3 DEF IngressInv
  <1>3. CASE Consume
    <2>1. /\ ingress # <<>> /\ consumed' = Head(ingress) /\ ingress' = Tail(ingress)
          /\ ingressOpen /\ UNCHANGED <<seq, held, link, ingressOpen>>
      BY <1>3 DEF Consume, linkVars
    <2>2. /\ consumed' = consumed + 1 /\ InOrder(ingress', consumed')
          /\ Len(ingress') = Len(ingress) - 1
      BY <1>t, <2>1, TailInOrder DEF IngressInv
    <2> QED BY <1>t, <2>1, <2>2 DEF IngressInv
  <1>4. CASE DropIngress
    BY <1>4 DEF DropIngress, IngressInv, InOrder, linkVars
  <1>5. CASE ReadEvent \/ \E r \in Reqs : ReadResponse(r)
    <2>1. /\ link = "driving" /\ held = 0 /\ seq' = seq + 1 /\ held' = seq + 1
          /\ UNCHANGED <<link, ingress, ingressOpen, consumed>>
      BY <1>5 DEF ReadEvent, ReadResponse, Driving, linkVars
    <2>2. held' = seq' /\ held' # 0 /\ link' = "driving"
      BY <1>t, <2>1 DEF IngressInv
    <2>3. InOrder(ingress', consumed')
      BY <2>1 DEF IngressInv, InOrder
    <2>4. ingressOpen' => consumed' + Len(ingress') + 1 = seq'
      BY <1>t, <2>1 DEF IngressInv
    <2> QED BY <2>1, <2>2, <2>3, <2>4 DEF IngressInv
  <1>6. CASE HandOverFails
    BY <1>6 DEF HandOverFails, IngressInv, InOrder, EndTask
  <1>7. ASSUME NEW r \in Reqs, Start(r) \/ Proceed(r) PROVE IngressInv'
    BY <1>0, <1>7 DEF Start, Refuse, Pass, Proceed, Enqueue, EnqueueFails, Return, TimeOut,
       frameVars, linkVars
  <1>8. ASSUME NEW m \in Markers, MarkReady(m) \/ MarkSend(m) \/ MarkFails(m) PROVE IngressInv'
    BY <1>0, <1>8 DEF MarkReady, MarkSend, MarkFails, frameVars, linkVars
  <1>9. ASSUME NEW n \in Notes, SendNote(n) PROVE IngressInv'
    BY <1>0, <1>9 DEF SendNote, frameVars, linkVars
  <1>10. CASE StopBegin \/ StopSend \/ Daemon \/ Quiet \/ UNCHANGED vars
    BY <1>0, <1>10 DEF StopBegin, StopSend, Daemon, Perform, Quiet, vars, frameVars, linkVars
  <1>11. CASE ConnectOk \/ ConnectFails \/ Retry \/ RejectWhileDisconnected
    <2>1. held = 0 /\ UNCHANGED frameVars
      BY <1>11 DEF ConnectOk, ConnectFails, Retry, RejectWhileDisconnected, IngressInv
    <2> QED BY <1>0, <2>1 DEF frameVars
  <1>12. CASE TakeCommand \/ ConnectionLost
    <2>1. held = 0 /\ UNCHANGED frameVars
      BY <1>12 DEF TakeCommand, WriteRequest, WriteFails, WriteNote, TakeReconciled,
         TakeShutdown, ConnectionLost, Driving
    <2> QED BY <1>0, <2>1 DEF frameVars
  <1> QED BY <1>0, <1>1, <1>2, <1>3, <1>4, <1>5, <1>6, <1>7, <1>8, <1>9, <1>10, <1>11, <1>12
          DEF Next, Base, Loop, Drive

LEMMA NothingSkipped == TypeOK /\ IngressInv => IngressLossless
  <1> SUFFICES ASSUME TypeOK, IngressInv PROVE IngressLossless
    OBVIOUS
  <1>1. ingress \in [1..Len(ingress) -> Nat]
    BY DEF TypeOK
  <1>2. ingress = [i \in DOMAIN ingress |-> consumed + i]
    BY <1>1 DEF IngressInv, InOrder
  <1> QED BY <1>2 DEF IngressInv, IngressLossless

\* Every frame that took a number reaches the ingress consumer once and in
\* order, whatever the channel's capacity and however often the connection is
\* made again; only a consumer that has gone loses any.
THEOREM IngressComplete == Spec => []IngressLossless
  <1>1. Init => IngressInv
    BY DEF Init, IngressInv, InOrder
  <1>2. Spec => []IngressInv
    BY <1>1, IngressStep, TypeCorrect, PTL DEF Spec
  <1> QED BY <1>2, NothingSkipped, TypeCorrect, PTL

-----------------------------------------------------------------------------
(* The transport implements the contract its callers rely on.              *)

LEMMA ContractInit == Init => Contract!Init
  BY DEF Init, Contract!Init, AbstractCall

LEMMA ContractStep == IInv /\ [Next]_vars => [Contract!Next]_(Contract!contractVars)
  <1> SUFFICES ASSUME IInv, [Next]_vars PROVE [Contract!Next]_(Contract!contractVars)
    OBVIOUS
  <1>t. /\ call \in [Reqs -> {"idle", "sending", "waiting"} \cup Results]
        /\ reply \in [Reqs -> {"empty", "dropped"} \cup Replies]
        /\ runs \in [Reqs -> Nat] /\ verdict \in [Reqs -> {"none"} \cup Verdicts]
        /\ \A r \in Reqs : RequestInv(r)
    BY DEF IInv, TypeOK
  <1>same. ASSUME UNCHANGED <<call, runs, verdict>> PROVE UNCHANGED Contract!contractVars
    BY <1>same DEF Contract!contractVars, AbstractCall
  <1>1. ASSUME NEW r \in Reqs, Start(r) PROVE Contract!Next
    <2>1. CASE Refuse(r)
      <3>1. Contract!Refuse(r)
        BY <2>1, <1>t DEF Refuse, Contract!Refuse, AbstractCall, daemonVars
      <3> QED BY <3>1 DEF Contract!Next
    <2>2. CASE Pass(r)
      <3>1. Contract!Begin(r)
        BY <2>2, <1>t DEF Pass, Contract!Begin, AbstractCall, daemonVars
      <3> QED BY <3>1 DEF Contract!Next
    <2> QED BY <1>1, <2>1, <2>2 DEF Start
  <1>2. ASSUME NEW r \in Reqs, Proceed(r) PROVE [Contract!Next]_(Contract!contractVars)
    <2>1. CASE Enqueue(r)
      <3>1. AbstractCall' = AbstractCall
        BY <2>1, <1>t DEF Enqueue, AbstractCall
      <3> QED BY <2>1, <3>1 DEF Enqueue, daemonVars, Contract!contractVars
    <2>2. ASSUME NEW res \in Results, call[r] \in {"sending", "waiting"},
                 call' = [call EXCEPT ![r] = res], UNCHANGED <<runs, verdict>>,
                 res \in SafeToRetry => runs[r] = 0,
                 res \in Verdicts => verdict[r] = res
          PROVE  Contract!Next
      <3>1. Contract!Return(r, res)
        BY <2>2, <1>t DEF Contract!Return, AbstractCall, Contract!SafeToRetry,
           Contract!Verdicts, SafeToRetry, Verdicts, Results
      <3>2. res \in Contract!Results
        BY DEF Results, Verdicts, SafeToRetry, Contract!Results, Contract!Verdicts,
               Contract!SafeToRetry, Contract!Ambiguous
      <3> QED BY <3>1, <3>2 DEF Contract!Next
    <2>3. CASE EnqueueFails(r)
      BY <2>3, <2>2, <1>t DEF EnqueueFails, RequestInv, Unseen, Results, SafeToRetry,
         Verdicts, daemonVars
    <2>4. CASE Return(r)
      <3> DEFINE res == IF reply[r] = "dropped" THEN "Closed" ELSE reply[r]
      <3>1. /\ res \in Results
            /\ res \in SafeToRetry => runs[r] = 0
            /\ res \in Verdicts => verdict[r] = res
        BY <2>4, <1>t DEF Return, RequestInv, Unseen, Results, Replies, SafeToRetry, Verdicts
      <3>2. /\ call[r] \in {"sending", "waiting"} /\ call' = [call EXCEPT ![r] = res]
            /\ UNCHANGED <<runs, verdict>>
        BY <2>4 DEF Return, daemonVars
      <3> HIDE DEF res
      <3> QED BY <2>2, <3>1, <3>2
    <2>5. CASE TimeOut(r)
      BY <2>5, <2>2 DEF TimeOut, Results, SafeToRetry, Verdicts, daemonVars
    <2> QED BY <1>2, <2>1, <2>3, <2>4, <2>5 DEF Proceed
  <1>3. ASSUME NEW r \in Reqs, NEW v \in Verdicts, Perform(r, v) PROVE Contract!Next
    <2>1. runs[r] = 0 /\ call[r] \in {"waiting", "TimedOut", "Unknown"}
      BY <1>3, <1>t DEF Perform, RequestInv
    <2>2. /\ AbstractCall[r] \in {"open", "TimedOut", "Unknown"}
          /\ AbstractCall' = AbstractCall
      BY <1>3, <2>1 DEF Perform, AbstractCall, callVars
    <2>3. runs' = [runs EXCEPT ![r] = 1] /\ verdict' = [verdict EXCEPT ![r] = v]
      BY <1>3, <1>t, <2>1 DEF Perform
    <2>4. Contract!Perform(r, v)
      BY <2>1, <2>2, <2>3 DEF Contract!Perform, Contract!SafeToRetry
    <2> QED BY <2>4 DEF Contract!Next, Contract!Verdicts, Verdicts
  <1>4. CASE \/ \E m \in Markers : MarkReady(m) \/ MarkSend(m) \/ MarkFails(m)
             \/ \E n \in Notes : SendNote(n)
             \/ StopBegin \/ StopSend
    BY <1>4, <1>same DEF MarkReady, MarkSend, MarkFails, SendNote, StopBegin, StopSend,
       callVars, daemonVars
  <1>5. CASE Loop
    BY <1>5, <1>same DEF Loop, ConnectOk, ConnectFails, HandshakeEvent, HandshakeOk, Retry,
       RejectWhileDisconnected, callVars, daemonVars
  <1>6. CASE Drive
    BY <1>6, <1>same DEF Drive, TakeCommand, WriteRequest, WriteFails, WriteNote,
       TakeReconciled, TakeShutdown, ReadResponse, ReadEvent, HandOver, HandOverFails,
       ConnectionLost, callVars, daemonVars
  <1>7. CASE Consume \/ DropIngress \/ Quiet \/ UNCHANGED vars
    BY <1>7, <1>same DEF Consume, DropIngress, Quiet, vars, callVars, daemonVars
  <1> QED BY <1>1, <1>2, <1>3, <1>4, <1>5, <1>6, <1>7 DEF Next, Base, Daemon

\* Whatever the connection task, the socket and the daemon do, callers see a
\* behaviour of RequestContract.
THEOREM TransportImplementsContract == Spec => ImplementsContract
  <1>1. Spec => Contract!Init /\ [][Contract!Next]_(Contract!contractVars)
    BY ContractInit, ContractStep, Invariance, PTL DEF Spec
  <1> QED BY <1>1 DEF ImplementsContract, Contract!Spec
=============================================================================
