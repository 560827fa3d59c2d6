----------------------------- MODULE Supervisor -----------------------------
(***************************************************************************)
(* Supervisor of crate supervisor: initialize, which CodexControl::run     *)
(* calls before it spawns the transport, and the monitor, which run starts *)
(* after the first reconciliation.  The processes are external: the daemon *)
(* and the GUI come and go by themselves, and the supervisor knows them by *)
(* a ps listing, the version command and the records of lsof for the       *)
(* socket, each a step of its own.  The GUI is "shared" if it was launched *)
(* in daemon mode and "plain" if the user opened it; `open' has no effect  *)
(* on one that runs.  A listing shows the daemon from the moment that the  *)
(* start command runs, and the GUI once it is up.                          *)
(***************************************************************************)
EXTENDS Naturals

CONSTANT MaxFaults      \* failures of the environment in one behaviour

ASSUME FaultBound == MaxFaults \in Nat

VARIABLES
    daemon, compatible, \* the managed daemon; its version command succeeds
    gui,                \* the process of the GUI
    linked,             \* the GUI is connected to the socket,
    other,              \* another client is, and
    own,                \* Warden's own transport is
    asked,              \* the GUI has been asked to quit
    restartGui,         \* restart_gui_on_initialize
    pc,                 \* where initialize, then the monitor, is
    seen,               \* its last ps listing
    event,              \* the last MonitorEvent
    faults

processes == <<daemon, compatible, gui, linked, other, own>>
vars == <<processes, asked, restartGui, pc, seen, event, faults>>

Listing == [daemon : BOOLEAN, running : BOOLEAN, shared : BOOLEAN]
Initializing == {"preflight", "look", "start", "version", "inspect", "attached",
                 "quit", "quitting", "launch", "verify", "verified"}
Monitoring == {"sleep", "restart", "check", "socket", "relaunch"}
Events == {"none", "Healthy", "DaemonRestarted", "GuiRestarted",
           "Incompatible", "UserActionRequired"}

TypeOK ==
    /\ daemon \in {"none", "starting", "up"} /\ compatible \in BOOLEAN
    /\ gui \in {"none", "launching", "plain", "shared"}
    /\ linked \in BOOLEAN /\ other \in BOOLEAN /\ own \in BOOLEAN
    /\ linked => gui = "shared" /\ daemon = "up"
    /\ other \/ own => daemon = "up"
    /\ own => pc \in Monitoring \cup {"ready"}
    /\ asked \in BOOLEAN /\ restartGui \in BOOLEAN
    /\ pc \in Initializing \cup Monitoring \cup {"ready", "failed", "stopped"}
    /\ seen \in Listing /\ event \in Events /\ faults \in 0 .. MaxFaults

Init ==
    /\ daemon \in {"none", "up"} /\ compatible \in BOOLEAN
    /\ gui \in {"none", "plain", "shared"}
    /\ linked \in BOOLEAN /\ other \in BOOLEAN /\ own = FALSE
    /\ linked => gui = "shared" /\ daemon = "up"
    /\ other => daemon = "up"
    /\ asked = FALSE /\ restartGui \in BOOLEAN
    /\ pc = "preflight" /\ seen = [daemon |-> FALSE, running |-> FALSE, shared |-> FALSE]
    /\ event = "none" /\ faults = 0

Fault == faults < MaxFaults /\ faults' = faults + 1
Reliable == UNCHANGED faults

-----------------------------------------------------------------------------
(* The processes                                                           *)

DaemonStarts ==
    /\ daemon = "starting" /\ daemon' = "up" /\ Reliable
    /\ UNCHANGED <<compatible, gui, linked, other, own, asked, restartGui, pc, seen, event>>

\* The daemon dies, or never comes up; every connection goes with it.
DaemonDies ==
    /\ daemon # "none" /\ daemon' = "none" /\ Fault
    /\ linked' = FALSE /\ other' = FALSE /\ own' = FALSE
    /\ UNCHANGED <<compatible, gui, asked, restartGui, pc, seen, event>>

\* An update of either side.
VersionChanges ==
    /\ compatible' = ~compatible /\ Fault
    /\ UNCHANGED <<daemon, gui, linked, other, own, asked, restartGui, pc, seen, event>>

GuiComesUp ==
    /\ gui = "launching" /\ gui' = "shared" /\ Reliable
    /\ UNCHANGED <<daemon, compatible, linked, other, own, asked, restartGui, pc, seen, event>>

UserOpensGui ==
    /\ gui = "none" /\ gui' = "plain" /\ Fault
    /\ UNCHANGED <<daemon, compatible, linked, other, own, asked, restartGui, pc, seen, event>>

\* The GUI quits, by the user's hand or as asked, however late that is.
GuiQuits ==
    /\ gui \in {"plain", "shared"} /\ gui' = "none" /\ linked' = FALSE
    /\ IF asked THEN Reliable ELSE Fault
    /\ asked' = FALSE
    /\ UNCHANGED <<daemon, compatible, other, own, restartGui, pc, seen, event>>

GuiLinks ==
    /\ gui = "shared" /\ daemon = "up" /\ ~linked /\ linked' = TRUE /\ Reliable
    /\ UNCHANGED <<daemon, compatible, gui, other, own, asked, restartGui, pc, seen, event>>

GuiUnlinks ==
    /\ linked /\ linked' = FALSE /\ Fault
    /\ UNCHANGED <<daemon, compatible, gui, other, own, asked, restartGui, pc, seen, event>>

OtherComesOrGoes ==
    /\ daemon = "up" /\ other' = ~other /\ Reliable
    /\ UNCHANGED <<daemon, compatible, gui, linked, own, asked, restartGui, pc, seen, event>>

\* The transport connects once run has spawned it, and reconnects.
OwnConnects ==
    /\ pc \in Monitoring \cup {"ready"} /\ daemon = "up" /\ ~own /\ own' = TRUE /\ Reliable
    /\ UNCHANGED <<daemon, compatible, gui, linked, other, asked, restartGui, pc, seen, event>>

Environment ==
    \/ DaemonStarts \/ DaemonDies \/ VersionChanges \/ GuiComesUp \/ UserOpensGui \/ GuiQuits
    \/ GuiLinks \/ GuiUnlinks \/ OtherComesOrGoes \/ OwnConnects

-----------------------------------------------------------------------------
(* What the supervisor asks and does                                       *)

\* The daemon runs, or its start command does; the GUI runs, in daemon mode.
Processes == [daemon |-> daemon # "none", running |-> gui \in {"plain", "shared"},
              shared |-> gui = "shared"]

VersionOk == daemon = "up" /\ compatible

\* More than one record of lsof: the listener and any client.
Connected == linked \/ other \/ own

Goto(p) == pc' = p /\ UNCHANGED event
Report(e) == pc' = "sleep" /\ event' = e

\* What a step of the supervisor that only looks leaves alone.
Looks == UNCHANGED <<processes, asked, restartGui>>

\* Mutant: the daemon is reported as restarted, and is not.
SpawnNothing == UNCHANGED daemon

\* `daemon start'; there can be one instance only.
SpawnDaemon == daemon' = IF daemon = "none" THEN "starting" ELSE daemon

\* Mutant: a new instance, whether one runs or not.
LaunchAnother == gui' = "launching"

LaunchGui == gui' = IF gui = "none" THEN "launching" ELSE gui

-----------------------------------------------------------------------------
(* initialize                                                              *)

Preflight ==
    /\ pc = "preflight" /\ \E p \in {"look", "failed"} : Goto(p)
    /\ Looks /\ UNCHANGED seen /\ Reliable

Look ==
    /\ pc = "look" /\ seen' = Processes
    /\ Goto(IF Processes.daemon THEN "version" ELSE "start")
    /\ Looks /\ Reliable

Start ==
    /\ pc = "start" /\ SpawnDaemon /\ Goto("version") /\ Reliable
    /\ UNCHANGED <<compatible, gui, linked, other, own, asked, restartGui, seen>>

AskVersion ==
    /\ pc = "version" /\ VersionOk /\ Goto("inspect")
    /\ Looks /\ UNCHANGED seen /\ Reliable

\* The listing is kept for the decision that lsof may follow.
Decide(p) == IF p.running THEN "quit" ELSE "launch"
Inspect ==
    /\ pc = "inspect" /\ seen' = Processes
    /\ Goto(IF Processes.shared /\ ~restartGui THEN "attached" ELSE Decide(Processes))
    /\ Looks /\ Reliable

Attached ==
    /\ pc = "attached" /\ Goto(IF Connected THEN "ready" ELSE Decide(seen))
    /\ Looks /\ UNCHANGED seen /\ Reliable

AskToQuit ==
    /\ pc = "quit" /\ asked' = (gui \in {"plain", "shared"}) /\ Goto("quitting")
    /\ UNCHANGED <<processes, restartGui, seen>> /\ Reliable

\* Mutant: the GUI is taken to be gone after one poll.
PollOnce ==
    /\ pc = "quitting" /\ seen' = Processes /\ Goto("launch")
    /\ Looks /\ Reliable

PollQuit ==
    /\ pc = "quitting" /\ seen' = Processes
    /\ Goto(IF Processes.running THEN "quitting" ELSE "launch")
    /\ Looks /\ Reliable

Launch ==
    /\ pc = "launch" /\ LaunchGui /\ Goto("verify") /\ Reliable
    /\ UNCHANGED <<daemon, compatible, linked, other, own, asked, restartGui, seen>>

Verify ==
    /\ pc = "verify" /\ seen' = Processes
    /\ Goto(IF Processes.shared THEN "verified" ELSE "verify")
    /\ Looks /\ Reliable

Verified ==
    /\ pc = "verified" /\ Goto(IF Connected THEN "ready" ELSE "verify")
    /\ Looks /\ UNCHANGED seen /\ Reliable

\* Mutant: the wait for a GUI asked to quit has no deadline.
DeadlineButQuit ==
    /\ pc \in {"version", "verify"} /\ Goto("failed")
    /\ Looks /\ UNCHANGED seen /\ Reliable

\* The deadline of one of the three loops has passed at its head.
Deadline ==
    /\ pc \in {"version", "quitting", "verify"} /\ Goto("failed")
    /\ Looks /\ UNCHANGED seen /\ Reliable

\* A listing or a command fails.
InitializeFails ==
    /\ pc \in Initializing \ {"preflight", "version", "attached", "verified"} /\ Goto("failed")
    /\ Looks /\ UNCHANGED seen /\ Fault

\* lsof fails: as if nobody were connected.
LsofFails ==
    /\ \/ pc = "attached" /\ Goto(Decide(seen))
       \/ pc = "verified" /\ Goto("verify")
    /\ Looks /\ UNCHANGED seen /\ Fault

\* The first reconciliation has ended, well or not.
RunGoesOn ==
    /\ pc = "ready" /\ \E p \in {"sleep", "failed"} : Goto(p) /\ own' = (own /\ p = "sleep")
    /\ UNCHANGED <<daemon, compatible, gui, linked, other, asked, restartGui, seen>> /\ Reliable

Initialize ==
    \/ Preflight \/ Look \/ Start \/ AskVersion \/ Inspect \/ Attached \/ AskToQuit \/ PollQuit
    \/ Launch \/ Verify \/ Verified \/ InitializeFails \/ LsofFails \/ RunGoesOn

-----------------------------------------------------------------------------
(* check, in the loop of monitor                                           *)

\* Mutant: the listing of the GUI is not taken again.
WakeStale ==
    /\ pc = "sleep" /\ seen' = [seen EXCEPT !.daemon = Processes.daemon]
    /\ Goto(IF Processes.daemon THEN "check" ELSE "restart")
    /\ Looks /\ Reliable

Wake ==
    /\ pc = "sleep" /\ seen' = Processes
    /\ Goto(IF Processes.daemon THEN "check" ELSE "restart")
    /\ Looks /\ Reliable

RestartDaemon ==
    /\ pc = "restart" /\ SpawnDaemon /\ Report("DaemonRestarted") /\ Reliable
    /\ UNCHANGED <<compatible, gui, linked, other, own, asked, restartGui, seen>>

\* Mutant: a GUI that is gone is reported like one that is not attached.
NotAttachedReported == Report("UserActionRequired")

\* Not attached, by the listing alone if it does not show daemon mode.
NotAttached == IF seen.running THEN Report("UserActionRequired") ELSE Goto("relaunch")

CheckVersion ==
    /\ pc = "check"
    /\ \/ ~VersionOk /\ Report("Incompatible")
       \/ VersionOk /\ seen.shared /\ Goto("socket")
       \/ VersionOk /\ ~seen.shared /\ NotAttached
    /\ Looks /\ UNCHANGED seen /\ Reliable

CheckSocket ==
    /\ pc = "socket" /\ Report(IF Connected THEN "Healthy" ELSE "UserActionRequired")
    /\ Looks /\ UNCHANGED seen /\ Reliable

Relaunch ==
    /\ pc = "relaunch" /\ LaunchGui /\ Report("GuiRestarted") /\ Reliable
    /\ UNCHANGED <<daemon, compatible, linked, other, own, asked, restartGui, seen>>

\* A listing, a command or lsof fails.
CheckFails ==
    /\ pc \in Monitoring /\ Report(IF pc = "check" THEN "Incompatible" ELSE "UserActionRequired")
    /\ Looks /\ UNCHANGED seen /\ Fault

\* shutdown drops the check at whatever await it is, and leaves the daemon.
Stop ==
    /\ pc \in Monitoring /\ Goto("stopped") /\ own' = FALSE
    /\ UNCHANGED <<daemon, compatible, gui, linked, other, asked, restartGui, seen>> /\ Reliable

Monitor == Wake \/ RestartDaemon \/ CheckVersion \/ CheckSocket \/ Relaunch \/ CheckFails

Next == Environment \/ Initialize \/ Deadline \/ Monitor \/ Stop

Fairness ==
    /\ WF_vars(Initialize) /\ WF_vars(Monitor) /\ SF_vars(Deadline)
    /\ WF_vars(DaemonStarts) /\ WF_vars(GuiComesUp)

Spec == Init /\ [][Next]_vars /\ Fairness

-----------------------------------------------------------------------------
(* Properties                                                              *)

\* run ends before or while the monitor works.
Over == pc \in {"failed", "stopped"}

\* Nothing is launched over a GUI that the last listing shows running, and only
\* such a one is asked to quit: a running GUI cannot be put into daemon mode, so
\* one that ignores the request ends initialize, and one that a failed lsof made
\* look detached is asked first (gui-supervisor/spec.md "Graceful relaunch").
LaunchesWhenGone ==
    /\ pc \in {"launch", "relaunch"} => ~seen.running
    /\ pc \in {"quit", "quitting"} => seen.running

\* Whatever the processes do, initialize comes to an end: a GUI that ignores
\* the request to quit, a daemon that never answers and a GUI that never
\* connects each run into a deadline.
InitializeEnds == <>(pc \notin Initializing)

\* While the monitor runs, a daemon that died, or whose start failed, is up in
\* the end: a listing that shows a start under way does not suppress the next one.
DaemonComesBack == <>[](daemon = "up") \/ <>Over

\* While the monitor runs, a GUI that was quit is running again in the end,
\* unless the daemon stays incompatible, in which case check returns before it
\* looks at the GUI.
GuiComesBack == <>[](gui # "none") \/ <>[]~compatible \/ <>Over

\* The monitor settles on the right report: Healthy if the GUI is connected for
\* good, UserActionRequired if it runs outside daemon mode for good.
ReportSettles ==
    /\ <>[](linked /\ compatible) => <>[](event = "Healthy") \/ <>Over
    /\ <>[](gui = "plain" /\ compatible) => <>[](event = "UserActionRequired") \/ <>Over

\* gui-supervisor/spec.md "Ongoing GUI and daemon supervision" has the monitor
\* check the actual attachment of the GUI: Healthy means that a client other
\* than Warden's own transport is connected.
HealthyIsAttached == [][event' = "Healthy" /\ pc = "socket" => linked \/ other]_vars
=============================================================================
