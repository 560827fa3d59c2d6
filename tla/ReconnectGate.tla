---------------------------- MODULE ReconnectGate ----------------------------
(***************************************************************************)
(* CodexControl::run around the transport: the initial reconciliation, the *)
(* task that reconciles again after a reconnect, and the handle's          *)
(* shutdown.  A reconciliation is its thread/list request; the reads and   *)
(* resumes that follow it are in crate ingest and cannot make it fail.     *)
(* Pass p of the reconciliation is request p and call p of mark_reconciled.*)
(***************************************************************************)
EXTENDS Transport

ASSUME PassesReadAndMark == Markers = PlainReqs /\ Notes = {}

Passes == PlainReqs

VARIABLES
    watcher,        \* where the reconnect task, or run before it, is
    job,            \* the passes started, the one under way included
    booted,         \* run has handed the handle to the closure
    closing         \* shutdown_tx has been sent, or dropped with run's error

gateVars == <<watcher, job, booted, closing>>
allVars == <<vars, gateVars>>

GateTypeOK ==
    /\ TypeOK
    /\ watcher \in {"asleep", "due", "listing", "marking", "off"}
    /\ job \in Seq(Passes)
    /\ booted \in BOOLEAN /\ closing \in BOOLEAN

GateInit ==
    /\ Init
    /\ watcher = "due" /\ job = <<>> /\ booted = FALSE /\ closing = FALSE

Current == job[Len(job)]

\* The passes come one after another; which of the identifiers one has is of no
\* consequence.
Unused(p) == call[p] = "idle" /\ p = CHOOSE q \in Passes : call[q] = "idle"

\* thread/list goes out.
StartPass(p) ==
    /\ watcher = "due" /\ Unused(p) /\ Pass(p)
    /\ watcher' = "listing" /\ job' = Append(job, p)
    /\ UNCHANGED <<booted, closing>>

\* Mutant: the outcome of the reconciliation is ignored.
ListReturns ==
    /\ watcher = "listing" /\ call[Current] \in Results
    /\ MarkReady(Current)
    /\ watcher' = "marking"
    /\ UNCHANGED <<job, booted, closing>>

\* The list has come back: mark_reconciled opens the gate, on whatever
\* connection there is by now.
ListOk ==
    /\ watcher = "listing" /\ call[Current] = "Ok"
    /\ MarkReady(Current)
    /\ watcher' = "marking"
    /\ UNCHANGED <<job, booted, closing>>

\* After a reconnect a failure is logged and the task goes back to sleep.
ListFails ==
    /\ watcher = "listing" /\ booted /\ call[Current] \in Results \ {"Ok"}
    /\ watcher' = "asleep"
    /\ UNCHANGED <<vars, job, booted, closing>>

\* Before the closure runs it ends run, which shuts the transport down.
BootFails ==
    /\ watcher = "listing" /\ ~booted /\ call[Current] \in Results \ {"Ok"}
    /\ StopBegin
    /\ watcher' = "off" /\ closing' = TRUE
    /\ UNCHANGED <<job, booted>>

\* mark_reconciled has returned; the first time, the closure starts.
Marked ==
    /\ watcher = "marking" /\ marker[Current] \in {"done", "failed"}
    /\ IF booted \/ marker[Current] = "done"
       THEN watcher' = "asleep" /\ booted' = TRUE /\ UNCHANGED closing
       ELSE watcher' = "off" /\ closing' = TRUE /\ UNCHANGED booted
    /\ UNCHANGED <<vars, job>>

\* health.changed(): the latest value counts, the ones in between are gone.
LookAtHealth ==
    /\ watcher = "asleep" /\ fresh
    /\ fresh' = FALSE
    /\ watcher' = IF health = "Reconciling" /\ ~ready THEN "due" ELSE "asleep"
    /\ UNCHANGED <<callVars, handleVars, queue, link, conn, health, ready, pending,
                   daemonVars, frameVars, job, booted, closing>>

WatcherStops ==
    /\ watcher = "asleep" /\ closing
    /\ watcher' = "off"
    /\ UNCHANGED <<vars, job, booted, closing>>

\* Handle::shutdown tells the tasks first.
CloseHandle ==
    /\ booted /\ ~closing
    /\ closing' = TRUE
    /\ UNCHANGED <<vars, watcher, job, booted>>

\* Then transport.shutdown; the ingress task may or may not have ended by then.
CloseTransport == closing /\ StopBegin /\ UNCHANGED gateVars
IngressTaskEnds == closing /\ DropIngress /\ UNCHANGED gateVars

ActionStarts(a) == booted /\ Start(a) /\ UNCHANGED gateVars

Halted ==
    /\ watcher = "off" \/ (watcher = "due" /\ \A p \in Passes : call[p] # "idle")
    /\ link = "stopped" /\ UNCHANGED allVars

GateNext ==
    \/ Base /\ UNCHANGED gateVars
    \/ \E p \in Passes : StartPass(p)
    \/ ListOk \/ ListFails \/ BootFails \/ Marked \/ LookAtHealth \/ WatcherStops
    \/ CloseHandle \/ CloseTransport \/ IngressTaskEnds
    \/ \E a \in ActionReqs : ActionStarts(a)
    \/ Halted

GateSpec == GateInit /\ [][GateNext]_allVars

-----------------------------------------------------------------------------
(* Properties                                                              *)

\* run's comment: a reconnect cannot reopen action traffic until reconciliation
\* has run against that new connection.  mark_reconciled does not say which
\* connection it speaks of.
GateIsOfThisConnection ==
    link = "driving" /\ ready =>
        \E p \in Passes : call[p] = "Ok" /\ onConn[p] = conn

\* README: action traffic remains gated until post-reconnect reconciliation
\* completes.  The gate is looked at before the command is queued only.
ActionsAreGated ==
    [][\A a \in ActionReqs : onConn'[a] # onConn[a] => ready]_allVars

\* No action reaches a socket before the first reconciliation has succeeded,
\* on that connection or an earlier one.
FirstReconciliationFirst ==
    \A a \in ActionReqs : onConn[a] # 0 =>
        \E p \in Passes : call[p] = "Ok" /\ onConn[p] <= onConn[a]

\* The reconnect task never sleeps through a connection it should reconcile:
\* with the gate closed, no look at the health channel due and the task asleep,
\* a list request that timed out is still to be answered on this connection,
\* and its answer will be the frame that wakes the task.
NoLostWakeUp ==
    booted /\ watcher = "asleep" /\ ~fresh /\ Driving /\ ~ready =>
        \E p \in Passes : /\ call[p] = "TimedOut"
                          /\ \/ Request(p) \in Queued
                             \/ p \in wire \cup answers /\ onConn[p] = conn

GateFairness ==
    /\ WF_allVars(Loop /\ UNCHANGED gateVars)
    /\ SF_allVars(TakeCommand /\ UNCHANGED gateVars)
    /\ WF_allVars((HandOver \/ HandOverFails) /\ UNCHANGED gateVars)
    /\ SF_allVars((\E r \in Reqs : ReadResponse(r)) /\ UNCHANGED gateVars)
    /\ WF_allVars((Daemon \/ Consume) /\ UNCHANGED gateVars)
    /\ \A p \in Passes :
          /\ SF_allVars((Enqueue(p) \/ MarkSend(p)) /\ UNCHANGED gateVars)
          /\ WF_allVars((Return(p) \/ TimeOut(p)) /\ UNCHANGED gateVars)
    /\ WF_allVars((\E p \in Passes : StartPass(p)) \/ ListOk \/ ListFails
                   \/ BootFails \/ Marked \/ LookAtHealth)
FairGateSpec == GateSpec /\ GateFairness

\* A pass is due, and the passes that the model allows are used up.
OutOfPasses == watcher = "due" /\ \A p \in Passes : call[p] # "idle"

\* A connection that stays up, with a daemon that answers, ends with the gate
\* open for good, whatever timed out or was refused on the way, unless the
\* handle is closed or one pass more than the model allows is called for.
GateReopens ==
    <>[](link = "driving") => <>[]ready \/ <>OutOfPasses \/ <>closing
=============================================================================
