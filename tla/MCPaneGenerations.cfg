\* Two crashes, each between a pane's row and the row of the generation counter.
CONSTANTS
    p1 = p1
    p2 = p2
    z1 = z1
    s1 = s1
    tab = tab
    c1 = c1
    PaneIDs = {p1, p2}
    ZellijPaneIDs = {z1}
    SessionIDs = {s1}
    TabIDs = {tab}
    Callers = {c1}
    MaxGeneration = 2
    MaxFifo = 5
    MaxCrashes = 2

SPECIFICATION Spec
INVARIANT HighWaterMarkKept
CHECK_DEADLOCK FALSE
