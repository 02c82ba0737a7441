SPECIFICATION Spec
CONSTANTS
    ExitCodes = {0, 1}
    NameOrder <- MCNameOrder
    Limits <- MCLimits
    Requests <- MCRequests
INVARIANTS
    TypeOK
    ArgvIsTheCall
    ArgvInOrder
    NothingRunsUnchecked
    SuccessIsReal
    RecordAgrees
