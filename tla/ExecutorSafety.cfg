SPECIFICATION Spec
CONSTANTS
    Timeouts = {0, 1}
    StopAfters = {0, 1}
    Graces = {0, 1}
    Signalable = {TRUE, FALSE}
    ExitCodes = {0, 1}
    WaitErrors = TRUE
    Daemons = TRUE
    CallerMayDrop = TRUE
    Horizon = 6
INVARIANTS
    Inv
    TypeOK
    KillIsLast
    NoEarlySignal
    HonestExitCode
    StoppedIsLate
    TimeoutCondemns
    OutputComplete
PROPERTIES
    NoLateWake
    ImplementsContract
