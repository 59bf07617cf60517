\* A grid of four by three, sequences of up to five characters and controls,
\* and a host that tracks one column more than the viewer draws.
CONSTANTS
    cols = 4
    rows = 3
    TabStop = 2
    Params = {0, 1, 2}
    Styles = {plain, bright}
    DefaultStyle = plain
    HostCols = 5
    HostRows = 3
    MaxFed = 5
SPECIFICATION SSpec
INVARIANTS InGrid DrawnAligned
PROPERTIES MainScreenKept AnswersTrue
CHECK_DEADLOCK FALSE
