\* A two-byte buffer, chunks of up to three bytes, four bytes of output, and
\* cursors that are stale, made up or at the end of the range of a u64.
SPECIFICATION FairSpec
CONSTANTS
    Byte = {x, y}
    MaxBytes = 2
    ChunkBytes = 3
    MaxOutput = 4
    U64Max = 9
    Cursors <- MCCursors
    Limits = {0, 1, 3}
INVARIANT NothingSkipped
PROPERTIES IsALog CatchesUp
CHECK_DEADLOCK FALSE
