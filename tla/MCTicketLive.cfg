\* One ticket, that users finish, cancel, reopen or claim, and others meddle with.
CONSTANTS
    Tickets = {1}
    MaxWorkers = 2
    UserActions = {"done", "cancel", "reopen", "next"}
    MaxOps = 2
    MaxEvents = 1

SPECIFICATION FairSpec
PROPERTIES
    SlotsAreReleased
CHECK_DEADLOCK FALSE
