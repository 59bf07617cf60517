\* One thread: two connections, two rooms for a quota of one, room expiry.
CONSTANTS
    Conn = {c1, c2}
    Handles = {h1, h2}
    IPs = {ip1}
    Aliases <- OneAlias
    AllowAgentRoomCreation = TRUE
    MaxRooms = 1
    RoomTtl = 1
    AuthRateLimit = 2
    AuthRateWindow = 2
    RoomSignalRateLimit = 1
    RoomSignalRateWindow = 1
    MaxClientId = 3
    MaxTime = 1
    MultiThread = FALSE
    QueueCapacity = 1
    Talkers = {}
SPECIFICATION FairSpec
INVARIANTS ConnectedFirst RosterInSync RoomsWithinQuota
PROPERTIES HandshakeEnds PenalizedLeaves GhostsVanish
