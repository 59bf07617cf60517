\* Three keys; a builder whose floats are finite and two whose are not; two
\* rewards of one overflow a sum; two rounds.
SPECIFICATION Spec
CONSTANTS
    Keys = {1, 2, 3}
    Builders <- MCBuilders
    Rewards <- MCRewards
    FMax = 1
    KNum = 1
    KDen = 1
    Depths = {0, 3}
    ForeignFiles <- MCForeignFiles
    MaxRounds = 2
INVARIANTS TreeSound RoundTrip DiskBehind PendingIsPath CountsFlowDown
CHECK_DEADLOCK FALSE
