SPECIFICATION PromptSpec
CONSTANTS
    Timeouts = {1}
    StopAfters = {1}
    Graces = {1}
    Signalable = {TRUE}
    ExitCodes = {0}
    WaitErrors = FALSE
    Daemons = FALSE
    CallerMayDrop = FALSE
    Horizon = 8
INVARIANT
    StoppedMeansStopped
