SPECIFICATION Spec
CONSTANTS
    Budgets = {0, 1}
    MAX_STREAM_BYTES = 4
    ChunkSizes = {1, 2}
    MaxPending = 8
INVARIANT
    CeilingIsHard
