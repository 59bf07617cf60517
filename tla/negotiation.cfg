\* Two sockets of the page, two sessions of the agent, three of them in all.
CONSTANTS
    MaxSockets = 2
    MaxSessions = 2
    MaxConnections = 3
    Aliased = FALSE
SPECIFICATION Spec
INVARIANTS OneSocket AgentsShown SurvivesLoss
PROPERTIES PairsUp LoginEnds
CHECK_DEADLOCK FALSE
