\* Two channels, a ring of one report and three reports.
SPECIFICATION FairSpec
CONSTANTS
    Channels = {c1, c2}
    Capacity = 1
    MaxReports = 3
INVARIANTS NoneLost AtMostTwice
PROPERTY Reaches
CHECK_DEADLOCK FALSE
