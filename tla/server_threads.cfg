\* Several threads: two connections to one room, limits of one event, time.
CONSTANTS
    Conn = {c1, c2}
    Handles = {h1}
    IPs = {ip1}
    Aliases <- LookalikeAlias
    AllowAgentRoomCreation = TRUE
    MaxRooms = 1
    RoomTtl = 2
    AuthRateLimit = 1
    AuthRateWindow = 1
    RoomSignalRateLimit = 1
    RoomSignalRateWindow = 2
    MaxClientId = 2
    MaxTime = 2
    MultiThread = TRUE
    QueueCapacity = 2
    Talkers = {c1}
SPECIFICATION HSpec
INVARIANTS RegistryInv NoPeerMissed RatesBounded
PROPERTY RoomGrace
