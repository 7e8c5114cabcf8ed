SPECIFICATION Spec
CONSTANTS
  Daemons = {"d1", "d2"}
  Clients = {"c1", "c2"}
  Paths = {"run.sock", "other.sock"}
  MaxUnsaved = 1
  Legacy = "legacy"
  None = "none"
INVARIANTS
    PromisesAreKept
    OwnSocketAndDatabase
PROPERTIES
    StopsAndRequestsEnd
CHECK_DEADLOCK FALSE
