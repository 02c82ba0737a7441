SPECIFICATION PromptSpec
CONSTANTS
    Timeouts = {0, 2}
    StopAfters = {0, 1, 3}
    Graces = {0, 1, 2}
    Signalable = {TRUE, FALSE}
    ExitCodes = {0}
    WaitErrors = TRUE
    Daemons = FALSE
    CallerMayDrop = FALSE
    Horizon = 10
INVARIANTS
    AnsweredByDeadline
