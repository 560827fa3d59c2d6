SPECIFICATION Spec
CONSTANT MaxFaults = 5
CHECK_DEADLOCK FALSE
INVARIANTS
    TypeOK
    LaunchesWhenGone
PROPERTIES
    InitializeEnds
    DaemonComesBack
    GuiComesBack
    ReportSettles
