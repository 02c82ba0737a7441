SPECIFICATION FairSpec
CONSTANTS
    Stdio = {TRUE, FALSE}
    MaxCalls = 2
    MaxRecords = 3
INVARIANTS
    TypeOK
    EveryExitFlushes
    ExitSaysWhy
PROPERTIES
    EndsWhenAsked
