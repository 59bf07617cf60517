CONSTANTS
    Conn = {c1, c2}
    Handles = {h1}
    IPs = {ip1}
    Aliases <- LookalikeAlias
    AllowAgentRoomCreation = TRUE
    MaxRooms = 1
    RoomTtl = 1
    AuthRateLimit = 3
    AuthRateWindow = 1
    RoomSignalRateLimit = 1
    RoomSignalRateWindow = 1
    MaxClientId = 3
    MaxTime = 0
    MultiThread = TRUE
    QueueCapacity = 1
    Talkers = {c1, c2}
SYMMETRY ConnSymmetry
SPECIFICATION Spec
INVARIANT ConnectedFirst
