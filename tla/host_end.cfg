\* Every way a mitb process can end, with and without agent and viewer.
SPECIFICATION FairSpec
CONSTANTS
    InitialDelay = 1
    MaxDelay = 3
    MaxKills = 1
INVARIANTS CleanEnd StopsOnPurpose
PROPERTIES ShutdownStops ExitsOrFails
