SPECIFICATION Spec
CONSTANTS
    GroupNames <- MCGroupNames
    ToolNames <- MCToolNames
    FullName <- MCFullName
    Limits <- MCLimits
    BuiltIn <- MCBuiltIn
    Files <- MCFiles
INVARIANTS
    TypeOK
    VerdictIsTheFiles
    ValidateIsEnough
    RegistryIsTheFile
    AboveMaxIsMixed
    AuthFailsClosed
