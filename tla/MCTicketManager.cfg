\* Two tickets and two slots.  Users add tickets, and finish, cancel, reopen or claim one;
\* or somebody else meddles with its pane.
CONSTANTS
    Tickets = {1, 2}
    MaxWorkers = 2
    UserActions = {"done", "cancel", "reopen", "next"}
    MaxOps = 2
    MaxEvents = 1

SPECIFICATION Spec
INVARIANTS
    InProgressIsOwned
    EachWorkerHasOneSlot
PROPERTIES
    CompletionIsEarned
    RequeueAfterClose
CHECK_DEADLOCK FALSE
