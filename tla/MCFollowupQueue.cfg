\* Two instructions, a crash anywhere, saves whose outcome stays unknown.
CONSTANTS
    none = none
    t1 = t1
    Requests = {}
    NoRequest = none
    Texts = {t1}
    MaxPending = 2
    MaxItems = 2
    MaxFifo = 2
    MaxCrashes = 1
    MaxEpoch = 1
    MaxRevision = 1
VIEW WithoutAcks
SPECIFICATION Spec
INVARIANTS
    DeliveredOnceInOrder
    AttentionCanBeResolved
PROPERTIES
    ImplementsDelivery
    PauseHolds
CHECK_DEADLOCK FALSE
