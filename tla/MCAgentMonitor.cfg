\* Two generations of the pane, three epochs, late callbacks of all of them.
CONSTANTS
    idleConfirmationCount = 3
    MaxGeneration = 2
    MaxToken = 3
    MaxIdleToken = 8
SPECIFICATION FairSpec
INVARIANTS
    EvidenceIsCurrent
PROPERTIES
    IdleIsConfirmed
    ImplementsEpochs
    MonitorSettles
CHECK_DEADLOCK FALSE
