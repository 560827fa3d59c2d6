--------------------------- MODULE SupervisorProofs ---------------------------
(***************************************************************************)
(* The safety invariants of Supervisor, and what its initialize may        *)
(* conclude from lsof, for any number of failures.                         *)
(***************************************************************************)
EXTENDS Supervisor, TLAPS

IInv == TypeOK /\ LaunchesWhenGone

\* Nothing has been looked at yet.
LEMMA InitEstablishes == Init => IInv
<1> SUFFICES ASSUME Init PROVE IInv OBVIOUS
<1>1. seen \in Listing /\ event \in Events /\ faults \in 0 .. MaxFaults
  BY FaultBound, SMT DEF Init, Listing, Events
<1>2. linked \in BOOLEAN /\ other \in BOOLEAN /\ own \in BOOLEAN /\ asked \in BOOLEAN
  BY Zenon DEF Init
<1>3. ~own /\ pc = "preflight" BY Zenon DEF Init
<1> QED BY <1>1, <1>2, <1>3, Zenon DEF Init, IInv, TypeOK, LaunchesWhenGone, Initializing

\* Failures are counted up to the bound.
LEMMA FaultStep ==
  ASSUME faults \in 0 .. MaxFaults, Fault \/ Reliable PROVE faults' \in 0 .. MaxFaults
BY FaultBound DEF Fault, Reliable

\* What ps shows is a listing.
LEMMA ListingType == TypeOK => Processes \in Listing
BY DEF TypeOK, Processes, Listing

\* The processes move as they like and leave the supervisor where it is.
LEMMA EnvironmentStep == ASSUME IInv, Environment PROVE IInv'
<1> USE FaultBound DEF IInv, TypeOK, LaunchesWhenGone, Initializing, Monitoring,
        Fault, Reliable
<1>1. CASE DaemonStarts BY <1>1 DEF DaemonStarts
<1>2. CASE DaemonDies
  <2>1. faults' \in 0 .. MaxFaults BY <1>2, FaultStep DEF DaemonDies
  <2>2. ~linked' /\ ~other' /\ ~own' /\ linked' \in BOOLEAN /\ other' \in BOOLEAN /\ own' \in BOOLEAN BY <1>2, Zenon DEF DaemonDies
  <2> QED BY <1>2, <2>1, <2>2 DEF DaemonDies
<1>3. CASE VersionChanges BY <1>3 DEF VersionChanges
<1>4. CASE GuiComesUp BY <1>4 DEF GuiComesUp
<1>5. CASE UserOpensGui BY <1>5 DEF UserOpensGui
<1>6. CASE GuiQuits
  <2>1. faults' \in 0 .. MaxFaults BY <1>6, FaultStep DEF GuiQuits
  <2>2. ~linked' /\ ~asked' /\ linked' \in BOOLEAN /\ asked' \in BOOLEAN BY <1>6, Zenon DEF GuiQuits
  <2> QED BY <1>6, <2>1, <2>2 DEF GuiQuits
<1>7. CASE GuiLinks BY <1>7 DEF GuiLinks
<1>8. CASE GuiUnlinks
  <2>1. faults' \in 0 .. MaxFaults BY <1>8, FaultStep DEF GuiUnlinks
  <2>2. ~linked' /\ linked' \in BOOLEAN BY <1>8, Zenon DEF GuiUnlinks
  <2> QED BY <1>8, <2>1, <2>2 DEF GuiUnlinks
<1>9. CASE OtherComesOrGoes BY <1>9 DEF OtherComesOrGoes
<1>10. CASE OwnConnects BY <1>10 DEF OwnConnects
<1> QED BY <1>1, <1>2, <1>3, <1>4, <1>5, <1>6, <1>7, <1>8, <1>9, <1>10 DEF Environment

\* Each step of initialize that leads to a launch or to a request to quit goes by
\* the listing it has just taken, or has kept since.
LEMMA InitializeStep == ASSUME IInv, Initialize \/ Deadline PROVE IInv'
<1> USE FaultBound, ListingType DEF IInv, TypeOK, LaunchesWhenGone, Initializing, Monitoring,
        Goto, Looks, Fault, Reliable, processes
<1>1. CASE Preflight BY <1>1 DEF Preflight
<1>2. CASE Look BY <1>2 DEF Look
<1>3. CASE Start BY <1>3 DEF Start, SpawnDaemon
<1>4. CASE AskVersion BY <1>4 DEF AskVersion
<1>5. CASE Inspect BY <1>5 DEF Inspect, Decide
<1>6. CASE Attached BY <1>6 DEF Attached, Decide
<1>7. CASE AskToQuit BY <1>7 DEF AskToQuit
<1>8. CASE PollQuit BY <1>8 DEF PollQuit
<1>9. CASE Launch BY <1>9 DEF Launch, LaunchGui
<1>10. CASE Verify BY <1>10 DEF Verify
<1>11. CASE Verified BY <1>11 DEF Verified
<1>12. CASE InitializeFails BY <1>12 DEF InitializeFails
<1>13. CASE LsofFails BY <1>13 DEF LsofFails, Decide
<1>14. CASE RunGoesOn BY <1>14 DEF RunGoesOn
<1>15. CASE Deadline BY <1>15 DEF Deadline
<1> QED BY <1>1, <1>2, <1>3, <1>4, <1>5, <1>6, <1>7, <1>8, <1>9, <1>10, <1>11, <1>12,
           <1>13, <1>14, <1>15 DEF Initialize

\* The monitor relaunches by the listing that began the check.
LEMMA MonitorStep == ASSUME IInv, Monitor \/ Stop PROVE IInv'
<1> USE FaultBound, ListingType DEF IInv, TypeOK, LaunchesWhenGone, Initializing, Monitoring,
        Events, Goto, Report, Looks, Fault, Reliable, processes
<1>1. CASE Wake BY <1>1 DEF Wake
<1>2. CASE RestartDaemon BY <1>2 DEF RestartDaemon, SpawnDaemon
<1>3. CASE CheckVersion BY <1>3 DEF CheckVersion, NotAttached
<1>4. CASE CheckSocket BY <1>4 DEF CheckSocket
<1>5. CASE Relaunch BY <1>5 DEF Relaunch, LaunchGui
<1>6. CASE CheckFails BY <1>6 DEF CheckFails
<1>7. CASE Stop BY <1>7 DEF Stop
<1> QED BY <1>1, <1>2, <1>3, <1>4, <1>5, <1>6, <1>7 DEF Monitor

\* So does a step that changes nothing.
LEMMA StutterStep == ASSUME IInv, UNCHANGED vars PROVE IInv'
BY DEF IInv, TypeOK, LaunchesWhenGone, vars, processes

\* IInv is an inductive invariant.
LEMMA Inductive == Spec => []IInv
<1>1. IInv /\ [Next]_vars => IInv'
  BY EnvironmentStep, InitializeStep, MonitorStep, StutterStep DEF Next
<1> QED BY <1>1, InitEstablishes, PTL DEF Spec

\* Connections exist only with the daemon up, the GUI's only in daemon mode,
\* Warden's own only after initialize, whatever happens between two looks.
THEOREM TypeCorrect == Spec => []TypeOK
<1>1. IInv => TypeOK BY DEF IInv
<1> QED BY <1>1, Inductive, PTL

\* Nothing is launched over a GUI that the last listing shows, and only such a
\* GUI is asked to quit, in initialize and in the monitor.
THEOREM LaunchesAreSafe == Spec => []LaunchesWhenGone
<1>1. IInv => LaunchesWhenGone BY DEF IInv
<1> QED BY <1>1, Inductive, PTL

\* Whoever initialize finds connected is the GUI or a client of somebody else.
ReadyIsAttached ==
    [][pc' = "ready" /\ pc \in Initializing => linked \/ other]_vars

\* lsof cannot tell the GUI from Warden's own transport, and the monitor takes the
\* one for the other; initialize cannot, because run spawns the transport after
\* it, so that the records that end initialize are not Warden's.
THEOREM InitializeSeesOthers == Spec => ReadyIsAttached
<1>1. ASSUME IInv, [Next]_vars, pc \in Initializing, pc' = "ready"
      PROVE  linked \/ other
  <2>1. ~own
    BY <1>1 DEF IInv, TypeOK, Monitoring, Initializing
  <2>2. pc' # pc
    BY <1>1 DEF Initializing
  <2>3. Connected
    <3>1. CASE Environment \/ UNCHANGED vars
      BY <2>2, <3>1 DEF Environment, DaemonStarts, DaemonDies, VersionChanges, GuiComesUp,
         UserOpensGui, GuiQuits, GuiLinks, GuiUnlinks, OtherComesOrGoes, OwnConnects, vars
    <3>2. CASE Initialize
      BY <1>1, <3>2 DEF Initialize, Preflight, Look, Start, AskVersion, Inspect, Attached,
         AskToQuit, PollQuit, Launch, Verify, Verified, InitializeFails, LsofFails, RunGoesOn,
         Goto, Decide
    <3>3. CASE Deadline \/ Monitor \/ Stop
      BY <1>1, <3>3 DEF Deadline, Monitor, Stop, Wake, RestartDaemon, CheckVersion, CheckSocket,
         Relaunch, CheckFails, Goto, Report, NotAttached
    <3> QED BY <1>1, <3>1, <3>2, <3>3 DEF Next
  <2> QED BY <2>1, <2>3 DEF Connected
<1>2. IInv /\ [Next]_vars => [pc' = "ready" /\ pc \in Initializing => linked \/ other]_vars
  BY <1>1
<1> QED BY <1>2, Inductive, PTL DEF Spec, ReadyIsAttached
=============================================================================
