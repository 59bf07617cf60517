\* A terminate message that races with a failure.
SPECIFICATION FairSpec
CONSTANTS
    InitialDelay = 1
    MaxDelay = 3
    MaxKills = 1
PROPERTY RemoteKill
