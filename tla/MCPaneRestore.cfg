\* A backend failure revives a terminal record whose Zellij pane is managed again.
CONSTANTS
    p1 = p1
    p2 = p2
    z1 = z1
    s1 = s1
    tab = tab
    c1 = c1
    c2 = c2
    PaneIDs = {p1, p2}
    ZellijPaneIDs = {z1}
    SessionIDs = {s1}
    TabIDs = {tab}
    Callers = {c1, c2}
    MaxGeneration = 2
    MaxFifo = 5
    MaxCrashes = 1

SPECIFICATION Spec
INVARIANT RestoreNeverRefused
CHECK_DEADLOCK FALSE
