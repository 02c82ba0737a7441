SPECIFICATION Spec
CONSTANTS
    Budgets = {0, 1, 2, 3}
    MAX_STREAM_BYTES = 8
    ChunkSizes = {1, 3}
    MaxPending = 4
INVARIANTS
    TypeOK
    HeadIsFirst
    TailIsLast
    RenderIsExact
    KeepsWithinBudget
