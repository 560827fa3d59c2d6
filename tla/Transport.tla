------------------------------- MODULE Transport -------------------------------
(***************************************************************************)
(* The connection task of crate transport and the handle its callers use.  *)
(* One task (connection_loop and drive) owns the socket; callers reach it  *)
(* through a bounded command channel and get their answer through a        *)
(* oneshot.  Every inbound frame takes a sequence number and goes to the   *)
(* bounded authoritative ingress channel.  The daemon at the other end of  *)
(* the socket is external: it performs the frames it reads, whenever it    *)
(* likes, and may answer.                                                  *)
(*                                                                         *)
(* A request's identifier, next_id.fetch_add, is the request itself.       *)
(***************************************************************************)
EXTENDS Naturals, Sequences

CONSTANTS
    ActionReqs,     \* calls of request_action, which the gate guards
    PlainReqs,      \* calls of request, which it does not
    Markers,        \* calls of mark_reconciled
    Notes,          \* calls of notify
    CommandCap,     \* capacity of the command channel (256 in the code)
    IngressCap,     \* capacity of the ingress channel (8192 in the code)
    MaxConns,       \* bound: connections that complete the handshake
    MaxFrames       \* bound: no daemon event is read past this sequence

ASSUME DistinctRequests == ActionReqs \cap PlainReqs = {}
ASSUME Capacities == CommandCap \in Nat \ {0} /\ IngressCap \in Nat \ {0}
ASSUME Bounds == MaxConns \in Nat /\ MaxFrames \in Nat

Reqs == ActionReqs \cup PlainReqs

VARIABLES
    call,           \* call[r]: where the caller of r is, or what it returned
    reply,          \* reply[r]: the oneshot its caller waits on
    notes,          \* the notifications whose notify has returned
    marker,         \* marker[m]: where the call m of mark_reconciled is
    stopper,        \* where the call of shutdown is
    queue,          \* the command channel
    link,           \* where connection_loop is
    conn,           \* number of the latest connection to finish its handshake
    health,         \* the phase in the health watch channel
    fresh,          \* the watch channel holds a value nobody has looked at
    ready,          \* reconcile_ready, the action gate
    pending,        \* the requests in drive's pending map
    wire,           \* frames written that the daemon has not performed
    onConn,         \* onConn[r]: the connection r was written on, 0 if none
    answers,        \* responses of the current connection not read yet
    runs,           \* runs[r]: how often the daemon has performed r
    verdict,        \* verdict[r]: what the daemon decided about r
    seq,            \* the sequence counter of inbound frames
    held,           \* the frame drive is sending to the ingress, 0 if none
    ingress,        \* the ingress channel
    ingressOpen,    \* its receiver still exists
    consumed        \* the latest frame the ingress consumer has taken

callVars == <<call, reply>>
handleVars == <<notes, marker, stopper>>
linkVars == <<link, conn, health, fresh, ready>>
daemonVars == <<wire, onConn, answers, runs, verdict>>
frameVars == <<seq, held, ingress, ingressOpen, consumed>>
vars == <<callVars, handleVars, queue, linkVars, pending, daemonVars, frameVars>>

Verdicts == {"Ok", "Rejected"}
SafeToRetry == {"NotWritten", "Closed"}
Results == Verdicts \cup SafeToRetry \cup {"Unknown", "TimedOut"}
Replies == Verdicts \cup {"NotWritten", "Unknown"}

Request(r) == [kind |-> "Request", of |-> r]
Notify(n) == [kind |-> "Notify", of |-> n]
Reconciled(m) == [kind |-> "Reconciled", of |-> m]
Shutdown == [kind |-> "Shutdown", of |-> "stopper"]
Commands == {Request(r) : r \in Reqs} \cup {Notify(n) : n \in Notes}
              \cup {Reconciled(m) : m \in Markers} \cup {Shutdown}

Elems(q) == {q[i] : i \in DOMAIN q}
Queued == Elems(queue)
HasRoom == Len(queue) < CommandCap

TypeOK ==
    /\ call \in [Reqs -> {"idle", "sending", "waiting"} \cup Results]
    /\ reply \in [Reqs -> {"empty", "dropped"} \cup Replies]
    /\ notes \subseteq Notes
    /\ marker \in [Markers -> {"idle", "sending", "waiting", "done", "failed"}]
    /\ stopper \in {"idle", "sending", "waiting", "done"}
    /\ queue \in Seq(Commands)
    /\ link \in {"connecting", "handshaking", "backoff", "driving", "stopped"}
    /\ conn \in Nat
    /\ health \in {"Connecting", "Handshaking", "Reconciling", "Connected",
                   "Degraded", "Stopped"}
    /\ fresh \in BOOLEAN /\ ready \in BOOLEAN /\ ingressOpen \in BOOLEAN
    /\ pending \subseteq Reqs /\ wire \subseteq Reqs /\ answers \subseteq Reqs
    /\ onConn \in [Reqs -> Nat]
    /\ runs \in [Reqs -> Nat]
    /\ verdict \in [Reqs -> {"none"} \cup Verdicts]
    /\ seq \in Nat /\ held \in Nat /\ consumed \in Nat
    /\ ingress \in Seq(Nat)

Init ==
    /\ call = [r \in Reqs |-> "idle"] /\ reply = [r \in Reqs |-> "empty"]
    /\ notes = {} /\ marker = [m \in Markers |-> "idle"] /\ stopper = "idle"
    /\ queue = <<>>
    /\ link = "connecting" /\ conn = 0 /\ health = "Connecting"
    /\ fresh = TRUE /\ ready = FALSE
    /\ pending = {}
    /\ wire = {} /\ onConn = [r \in Reqs |-> 0] /\ answers = {}
    /\ runs = [r \in Reqs |-> 0] /\ verdict = [r \in Reqs |-> "none"]
    /\ seq = 0 /\ held = 0 /\ ingress = <<>> /\ ingressOpen = TRUE /\ consumed = 0

-----------------------------------------------------------------------------
(* The callers: request_inner.                                             *)

\* The gate turns an action away while reconcile_ready is false.
Refuse(r) ==
    /\ call[r] = "idle" /\ r \in ActionReqs /\ ~ready
    /\ call' = [call EXCEPT ![r] = "NotWritten"]
    /\ UNCHANGED <<reply, handleVars, queue, linkVars, pending, daemonVars, frameVars>>

\* Past the gate: from here on the gate is not looked at again.
Pass(r) ==
    /\ call[r] = "idle"
    /\ r \in PlainReqs \/ ready
    /\ call' = [call EXCEPT ![r] = "sending"]
    /\ UNCHANGED <<reply, handleVars, queue, linkVars, pending, daemonVars, frameVars>>

Enqueue(r) ==
    /\ call[r] = "sending" /\ link # "stopped" /\ HasRoom
    /\ call' = [call EXCEPT ![r] = "waiting"]
    /\ queue' = Append(queue, Request(r))
    /\ UNCHANGED <<reply, handleVars, linkVars, pending, daemonVars, frameVars>>

\* The receiver of the command channel is gone.
EnqueueFails(r) ==
    /\ call[r] = "sending" /\ link = "stopped"
    /\ call' = [call EXCEPT ![r] = "Closed"]
    /\ UNCHANGED <<reply, handleVars, queue, linkVars, pending, daemonVars, frameVars>>

\* Mutants: a dropped oneshot passed on as it is, and an error answer taken
\* for a success.
ReturnRaw(r) ==
    /\ call[r] = "waiting" /\ reply[r] # "empty"
    /\ call' = [call EXCEPT ![r] = reply[r]]
    /\ UNCHANGED <<reply, handleVars, queue, linkVars, pending, daemonVars, frameVars>>
ReturnOk(r) ==
    /\ call[r] = "waiting" /\ reply[r] # "empty"
    /\ call' = [call EXCEPT ![r] = IF reply[r] = "Rejected" THEN "Ok" ELSE reply[r]]
    /\ UNCHANGED <<reply, handleVars, queue, linkVars, pending, daemonVars, frameVars>>

Return(r) ==
    /\ call[r] = "waiting" /\ reply[r] # "empty"
    /\ call' = [call EXCEPT ![r] = IF reply[r] = "dropped" THEN "Closed" ELSE reply[r]]
    /\ UNCHANGED <<reply, handleVars, queue, linkVars, pending, daemonVars, frameVars>>

\* Mutant: a timeout reported as a failure to write.
TimeOutAsNotWritten(r) ==
    /\ call[r] = "waiting" /\ reply[r] = "empty"
    /\ call' = [call EXCEPT ![r] = "NotWritten"]
    /\ UNCHANGED <<reply, handleVars, queue, linkVars, pending, daemonVars, frameVars>>

\* request_timeout elapses; the command stays wherever it is.
TimeOut(r) ==
    /\ call[r] = "waiting" /\ reply[r] = "empty"
    /\ call' = [call EXCEPT ![r] = "TimedOut"]
    /\ UNCHANGED <<reply, handleVars, queue, linkVars, pending, daemonVars, frameVars>>

\* notify: no answer; a closed channel is an error without effect.
SendNote(n) ==
    /\ n \notin notes
    /\ notes' = notes \cup {n}
    /\ IF link = "stopped" THEN UNCHANGED queue
       ELSE HasRoom /\ queue' = Append(queue, Notify(n))
    /\ UNCHANGED <<callVars, marker, stopper, linkVars, pending, daemonVars, frameVars>>

(* mark_reconciled: the gate opens first, the connection task hears later. *)

MarkReady(m) ==
    /\ marker[m] = "idle"
    /\ ready' = TRUE
    /\ marker' = [marker EXCEPT ![m] = "sending"]
    /\ UNCHANGED <<callVars, notes, stopper, queue, link, conn, health, fresh,
                   pending, daemonVars, frameVars>>

MarkSend(m) ==
    /\ marker[m] = "sending" /\ link # "stopped" /\ HasRoom
    /\ marker' = [marker EXCEPT ![m] = "waiting"]
    /\ queue' = Append(queue, Reconciled(m))
    /\ UNCHANGED <<callVars, notes, stopper, linkVars, pending, daemonVars, frameVars>>

MarkFails(m) ==
    /\ marker[m] = "sending" /\ link = "stopped"
    /\ ready' = FALSE
    /\ marker' = [marker EXCEPT ![m] = "failed"]
    /\ UNCHANGED <<callVars, notes, stopper, queue, link, conn, health, fresh,
                   pending, daemonVars, frameVars>>

(* shutdown *)

StopBegin ==
    /\ stopper = "idle"
    /\ stopper' = "sending"
    /\ UNCHANGED <<callVars, notes, marker, queue, linkVars, pending, daemonVars, frameVars>>

StopSend ==
    /\ stopper = "sending"
    /\ IF link = "stopped" THEN stopper' = "done" /\ UNCHANGED queue
       ELSE /\ HasRoom /\ stopper' = "waiting"
            /\ queue' = Append(queue, Shutdown)
    /\ UNCHANGED <<callVars, notes, marker, linkVars, pending, daemonVars, frameVars>>

-----------------------------------------------------------------------------
(* connection_loop                                                         *)

\* Mutant: the health value changes and its receivers are not notified.
PublishQuietly(phase) == health' = phase /\ UNCHANGED fresh

Publish(phase) == health' = phase /\ fresh' = TRUE

\* The task ends with replies rep: its command receiver is dropped, and with
\* it every oneshot still inside a queued command.
EndTask(rest, rep) ==
    /\ link' = "stopped"
    /\ queue' = <<>>
    /\ reply' = [r \in Reqs |-> IF Request(r) \in Elems(rest) THEN "dropped" ELSE rep[r]]
    /\ marker' = [m \in Markers |-> IF Reconciled(m) \in Elems(rest) THEN "failed" ELSE marker[m]]
    /\ stopper' = IF stopper = "waiting" THEN "done" ELSE stopper

ConnectOk ==
    /\ link = "connecting"
    /\ link' = "handshaking" /\ Publish("Handshaking")
    /\ UNCHANGED <<callVars, handleVars, queue, conn, ready, pending, daemonVars, frameVars>>

ConnectFails ==
    /\ link \in {"connecting", "handshaking"}
    /\ link' = "backoff" /\ Publish("Degraded")
    /\ UNCHANGED <<callVars, handleVars, queue, conn, ready, pending, daemonVars, frameVars>>

\* Any frame read before the response to initialize, a refusal included, is
\* numbered and handed over like those of drive.
HandshakeEvent ==
    /\ link = "handshaking" /\ seq < MaxFrames
    /\ ingressOpen /\ Len(ingress) < IngressCap
    /\ seq' = seq + 1 /\ ingress' = Append(ingress, seq + 1)
    /\ Publish("Handshaking")
    /\ UNCHANGED <<callVars, handleVars, queue, link, conn, ready, pending, daemonVars,
                   held, ingressOpen, consumed>>

\* initialize succeeds: its response is a frame like any other, and the gate
\* closes for the new connection.
HandshakeOk ==
    /\ link = "handshaking" /\ conn < MaxConns
    /\ ingressOpen /\ Len(ingress) < IngressCap
    /\ seq' = seq + 1 /\ ingress' = Append(ingress, seq + 1)
    /\ link' = "driving" /\ conn' = conn + 1 /\ Publish("Reconciling")
    /\ ready' = FALSE
    /\ UNCHANGED <<callVars, handleVars, queue, pending, daemonVars,
                   held, ingressOpen, consumed>>

\* The retry delay passes without a command.
Retry ==
    /\ link = "backoff" /\ queue = <<>>
    /\ link' = "connecting" /\ Publish("Connecting")
    /\ UNCHANGED <<callVars, handleVars, queue, conn, ready, pending, daemonVars, frameVars>>

\* Mutant: the retry delay is a plain sleep that takes no command.
RejectNothing ==
    /\ link = "backoff" /\ queue # <<>>
    /\ link' = "connecting" /\ Publish("Connecting")
    /\ UNCHANGED <<callVars, handleVars, queue, conn, ready, pending, daemonVars, frameVars>>

\* reject_while_disconnected: one command cuts the delay short.
RejectWhileDisconnected ==
    /\ link = "backoff" /\ queue # <<>>
    /\ \/ /\ Head(queue) = Shutdown
          /\ EndTask(Tail(queue), reply)
          /\ UNCHANGED <<health, fresh>>
       \/ /\ Head(queue) # Shutdown
          /\ queue' = Tail(queue)
          /\ reply' = [r \in Reqs |->
                         IF Head(queue) = Request(r) THEN "NotWritten" ELSE reply[r]]
          /\ marker' = [m \in Markers |->
                         IF Head(queue) = Reconciled(m) THEN "done" ELSE marker[m]]
          /\ link' = "connecting" /\ Publish("Connecting")
          /\ UNCHANGED stopper
    /\ UNCHANGED <<call, notes, conn, ready, pending, daemonVars, frameVars>>

-----------------------------------------------------------------------------
(* drive                                                                   *)

\* drive waits in its select: no frame is being handed to the ingress.
Driving == link = "driving" /\ held = 0

\* Mutant: the pending requests are told they were not written.
DrainedAsNotWritten == [r \in Reqs |-> IF r \in pending THEN "NotWritten" ELSE reply[r]]

\* What drive's last loop tells the requests it still has pending.
Drained == [r \in Reqs |-> IF r \in pending THEN "Unknown" ELSE reply[r]]

\* Mutant: the pending map outlives the connection.
DisconnectKeepingPending(rep) ==
    /\ reply' = rep
    /\ pending' = pending /\ answers' = {}
    /\ ready' = FALSE
    /\ link' = "connecting" /\ Publish("Connecting")

\* DriveExit::Disconnected: the gate closes and the loop connects again.
Disconnect(rep) ==
    /\ reply' = rep
    /\ pending' = {} /\ answers' = {}
    /\ ready' = FALSE
    /\ link' = "connecting" /\ Publish("Connecting")

\* Mutant: the command stays queued until it is answered.
WriteRequestKept(r) ==
    /\ Driving /\ queue # <<>> /\ Head(queue) = Request(r)
    /\ queue' = queue
    /\ pending' = pending \cup {r}
    /\ wire' = wire \cup {r} /\ onConn' = [onConn EXCEPT ![r] = conn]
    /\ UNCHANGED <<callVars, handleVars, linkVars, answers, runs, verdict, frameVars>>

WriteRequest(r) ==
    /\ Driving /\ queue # <<>> /\ Head(queue) = Request(r)
    /\ queue' = Tail(queue)
    /\ pending' = pending \cup {r}
    /\ wire' = wire \cup {r} /\ onConn' = [onConn EXCEPT ![r] = conn]
    /\ UNCHANGED <<callVars, handleVars, linkVars, answers, runs, verdict, frameVars>>

WriteFails(r) ==
    /\ Driving /\ queue # <<>> /\ Head(queue) = Request(r)
    /\ queue' = Tail(queue)
    /\ Disconnect([Drained EXCEPT ![r] = "NotWritten"])
    /\ UNCHANGED <<call, handleVars, conn, wire, onConn, runs, verdict, frameVars>>

WriteNote(n) ==
    /\ Driving /\ queue # <<>> /\ Head(queue) = Notify(n)
    /\ queue' = Tail(queue)
    /\ \/ UNCHANGED <<reply, linkVars, pending, answers>>
       \/ Disconnect(Drained) /\ UNCHANGED conn
    /\ UNCHANGED <<call, handleVars, wire, onConn, runs, verdict, frameVars>>

TakeReconciled(m) ==
    /\ Driving /\ queue # <<>> /\ Head(queue) = Reconciled(m)
    /\ queue' = Tail(queue)
    /\ ready' = TRUE /\ Publish("Connected")
    /\ marker' = [marker EXCEPT ![m] = "done"]
    /\ UNCHANGED <<callVars, notes, stopper, link, conn, pending, daemonVars, frameVars>>

TakeShutdown ==
    /\ Driving /\ queue # <<>> /\ Head(queue) = Shutdown
    /\ EndTask(Tail(queue), Drained)
    /\ pending' = {} /\ answers' = {} /\ Publish("Stopped")
    /\ UNCHANGED <<call, notes, conn, ready, wire, onConn, runs, verdict, frameVars>>

\* A response resolves its caller before its event reaches the ingress.
ReadResponse(r) ==
    /\ Driving /\ r \in answers
    /\ answers' = answers \ {r}
    /\ seq' = seq + 1 /\ held' = seq + 1
    /\ reply' = IF r \in pending THEN [reply EXCEPT ![r] = verdict[r]] ELSE reply
    /\ pending' = pending \ {r}
    /\ UNCHANGED <<call, handleVars, queue, linkVars, wire, onConn, runs, verdict,
                   ingress, ingressOpen, consumed>>

\* A notification or a server request: seen, numbered, never answered.
ReadEvent ==
    /\ Driving /\ seq < MaxFrames
    /\ seq' = seq + 1 /\ held' = seq + 1
    /\ UNCHANGED <<callVars, handleVars, queue, linkVars, pending, daemonVars,
                   ingress, ingressOpen, consumed>>

\* Mutant: try_send, which loses the frame when the channel is full.
HandOverTrying ==
    /\ link = "driving" /\ held # 0 /\ ingressOpen
    /\ ingress' = IF Len(ingress) < IngressCap THEN Append(ingress, held) ELSE ingress
    /\ held' = 0 /\ fresh' = TRUE
    /\ UNCHANGED <<callVars, handleVars, queue, link, conn, health, ready, pending,
                   daemonVars, seq, ingressOpen, consumed>>

\* ingress.send: drive does nothing else until there is room.
HandOver ==
    /\ link = "driving" /\ held # 0 /\ ingressOpen /\ Len(ingress) < IngressCap
    /\ ingress' = Append(ingress, held) /\ held' = 0
    /\ fresh' = TRUE
    /\ UNCHANGED <<callVars, handleVars, queue, link, conn, health, ready, pending,
                   daemonVars, seq, ingressOpen, consumed>>

\* DriveExit::CommandsClosed: the task ends and says so to nobody.
HandOverFails ==
    /\ link = "driving" /\ held # 0 /\ ~ingressOpen
    /\ held' = 0
    /\ EndTask(queue, Drained)
    /\ pending' = {} /\ answers' = {}
    /\ UNCHANGED <<call, notes, conn, health, fresh, ready, wire, onConn, runs, verdict,
                   seq, ingress, ingressOpen, consumed>>

\* The stream ends, a read or a ping fails, or the read idles too long.
ConnectionLost ==
    /\ Driving
    /\ Disconnect(Drained)
    /\ UNCHANGED <<call, handleVars, queue, conn, wire, onConn, runs, verdict, frameVars>>

-----------------------------------------------------------------------------
(* The daemon and the consumers of the two channels.                       *)

\* The daemon performs a frame it has read, of this connection or of one the
\* client has given up; only on this connection can it still answer.
Perform(r, v) ==
    /\ r \in wire
    /\ wire' = wire \ {r}
    /\ runs' = [runs EXCEPT ![r] = @ + 1] /\ verdict' = [verdict EXCEPT ![r] = v]
    /\ answers' = IF link = "driving" /\ onConn[r] = conn THEN answers \cup {r} ELSE answers
    /\ UNCHANGED <<callVars, handleVars, queue, linkVars, pending, onConn, frameVars>>

Consume ==
    /\ ingressOpen /\ ingress # <<>>
    /\ consumed' = Head(ingress) /\ ingress' = Tail(ingress)
    /\ UNCHANGED <<callVars, handleVars, queue, linkVars, pending, daemonVars,
                   seq, held, ingressOpen>>

\* The ingress task ends and drops its receiver.
DropIngress ==
    /\ ingressOpen
    /\ ingressOpen' = FALSE /\ ingress' = <<>>
    /\ UNCHANGED <<callVars, handleVars, queue, linkVars, pending, daemonVars,
                   seq, held, consumed>>

Finished(r) == call[r] \in Results

\* Nothing is left to happen once the task has ended and every call returned.
Quiet ==
    /\ link = "stopped" /\ stopper = "done"
    /\ \A r \in Reqs : Finished(r)
    /\ UNCHANGED vars

-----------------------------------------------------------------------------
Start(r) == Refuse(r) \/ Pass(r)
Proceed(r) == Enqueue(r) \/ EnqueueFails(r) \/ Return(r) \/ TimeOut(r)
Loop ==
    \/ ConnectOk \/ ConnectFails \/ HandshakeEvent \/ HandshakeOk
    \/ Retry \/ RejectWhileDisconnected
TakeCommand ==
    \/ \E r \in Reqs : WriteRequest(r) \/ WriteFails(r)
    \/ \E n \in Notes : WriteNote(n)
    \/ \E m \in Markers : TakeReconciled(m)
    \/ TakeShutdown
Drive ==
    \/ TakeCommand
    \/ \E r \in Reqs : ReadResponse(r)
    \/ ReadEvent \/ HandOver \/ HandOverFails \/ ConnectionLost
Daemon == \E r \in Reqs, v \in Verdicts : Perform(r, v)

\* What happens whoever calls: the connection task, the daemon, and every
\* call already under way.
Base ==
    \/ \E r \in Reqs : Proceed(r)
    \/ \E m \in Markers : MarkSend(m) \/ MarkFails(m)
    \/ \E n \in Notes : SendNote(n)
    \/ StopSend \/ Loop \/ Drive \/ Daemon \/ Consume

Next ==
    \/ Base \/ StopBegin \/ DropIngress \/ Quiet
    \/ \E r \in Reqs : Start(r)
    \/ \E m \in Markers : MarkReady(m)

Spec == Init /\ [][Next]_vars

-----------------------------------------------------------------------------
(* Properties                                                              *)

\* A call told NotWritten or Closed may be sent again: the daemon has not
\* performed it and no copy of it is left in the command queue or on a
\* socket.  send_not_written_safe and discover retry on the strength of it.
SafeToRetryIsSafe ==
    \A r \in Reqs : call[r] \in SafeToRetry =>
        runs[r] = 0 /\ r \notin wire /\ Request(r) \notin Queued

\* An answer is the daemon's own verdict on this very request, whatever the
\* order in which responses arrive and whichever connection they belong to.
AnswerIsTheDaemons ==
    \A r \in Reqs : call[r] \in Verdicts => runs[r] = 1 /\ verdict[r] = call[r]

\* The pending map never carries an entry over to another connection.
PendingOfThisConnection ==
    pending # {} => link = "driving" /\ \A r \in pending : onConn[r] = conn

\* The authoritative ingress is lossless and in order: the consumer takes
\* every sequence number once, across reconnects and a full channel.
IngressLossless ==
    /\ ingress = [i \in DOMAIN ingress |-> consumed + i]
    /\ ingressOpen => consumed + Len(ingress) + (IF held = 0 THEN 0 ELSE 1) = seq

\* No frame is written twice, on one connection or on two.
WrittenOnce ==
    [][\A r \in Reqs : onConn[r] # 0 =>
           onConn'[r] = onConn[r] /\ (r \notin wire => r \notin wire')]_vars

\* What callers may conclude from a result, as one contract: RequestContract.
AbstractCall ==
    [r \in Reqs |-> IF call[r] \in {"sending", "waiting"} THEN "open" ELSE call[r]]
Contract == INSTANCE RequestContract WITH call <- AbstractCall
ImplementsContract == Contract!Spec

(* Fairness: the connection task runs (every await of it but the ingress
   send has a timeout or a peer), callers wake and time out, the ingress
   task consumes, and tokio's channel hands out its slots in order.        *)
Fairness ==
    /\ WF_vars(Loop)
    /\ SF_vars(TakeCommand) /\ WF_vars(HandOver) /\ WF_vars(HandOverFails)
    /\ WF_vars(Consume)
    /\ \A r \in Reqs : /\ SF_vars(Enqueue(r)) /\ WF_vars(EnqueueFails(r))
                       /\ WF_vars(Return(r)) /\ WF_vars(TimeOut(r))
    /\ \A m \in Markers : SF_vars(MarkSend(m)) /\ WF_vars(MarkFails(m))
    /\ SF_vars(StopSend)
FairSpec == Spec /\ Fairness

\* Every call of request returns, and a shutdown under way completes, although
\* neither the send of a command nor the ingress send has a timeout.
EveryCallReturns ==
    \A r \in Reqs : (call[r] = "sending") ~> Finished(r)
ShutdownCompletes == (stopper = "sending") ~> (stopper = "done")
=============================================================================
