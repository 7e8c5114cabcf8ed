\* Two pane IDs on one Zellij pane, two racing operations, one crash.
CONSTANTS
    p1 = p1
    p2 = p2
    z1 = z1
    s1 = s1
    tab = tab
    c1 = c1
    c2 = c2
    PaneIDs = {p1, p2}
    ZellijPaneIDs = {z1}
    SessionIDs = {s1}
    TabIDs = {tab}
    Callers = {c1, c2}
    MaxGeneration = 2
    MaxFifo = 5
    MaxCrashes = 1
SYMMETRY CallerSymmetry
SPECIFICATION Spec
INVARIANTS
    RestartFindsRegistry
    ClosureAnnouncedOnce
PROPERTIES
    StaleCallersAreHarmless
CHECK_DEADLOCK FALSE
