\* Two streams, buffers of one byte, up to four bytes of output on each and
\* one and two bytes of input.
SPECIFICATION SSpec
CONSTANTS
    Policies = {"helper", "patient", "calls", "reads", "writes"}
    Streams = {"stdout", "stderr"}
    Output <- MCOutput
    PipeBytes = 1
    ChunkBytes = 1
    ChannelBytes = 1
    Writes = {"one", "two"}
    WriteBytes <- MCWriteBytes
    StdinChannel = 1
    StdinBuffer = 2
INVARIANTS TrueStatus AllCollected InputInOrder
PROPERTIES WaitReturns RunReturns DroppedDies
CHECK_DEADLOCK FALSE
