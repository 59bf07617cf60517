CONSTANTS
    Conn = {c1, c2}
    Handles = {h1}
    IPs = {ip1}
    Aliases = {}
    AllowAgentRoomCreation = TRUE
    MaxRooms = 1
    RoomTtl = 1
    AuthRateLimit = 2
    AuthRateWindow = 1
    RoomSignalRateLimit = 1
    RoomSignalRateWindow = 1
    MaxClientId = 2
    MaxTime = 0
    MultiThread = TRUE
    QueueCapacity = 1
    Talkers = {c1, c2}
SPECIFICATION StalledSocketSpec
PROPERTY PenalizedLeaves
