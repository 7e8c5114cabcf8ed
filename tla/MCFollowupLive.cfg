\* One instruction with two texts and a retried request under fairness: edits and
\* acknowledged decisions against a crash and a monitor that is bound again.
CONSTANTS
    r1 = r1
    none = none
    t1 = t1
    t2 = t2
    Requests = {r1}
    NoRequest = none
    Texts = {t1, t2}
    MaxPending = 1
    MaxItems = 1
    MaxFifo = 1
    MaxCrashes = 1
    MaxEpoch = 2
    MaxRevision = 1
SPECIFICATION FairSpec
INVARIANTS
    TypedTextIsDurable
    AcknowledgedIsDurable
PROPERTIES
    ClaimIsTemporary
CHECK_DEADLOCK FALSE
