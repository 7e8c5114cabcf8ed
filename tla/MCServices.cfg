SPECIFICATION Spec
CONSTANTS
  VoiceAgents = {"a"}
  Tickets = {"t1"}
  Subscribers = {"idle-loop"}
  Capacity = 1
  RecentLimit = 2
  MaxChanges = 4
  BufferN = 2
  HistoryN = 1
  Agents = {"a", "b", "h"}
  Tracked = {"a", "b"}
  Restored = {"b"}
  Listers = {"l1"}
  Count = 3
  MaxClock = 3
  PlanTabs <- PlanTabsValue
  Tabs = {"a", "b"}
  FaultN = 1
  NodeOrder <- NodeOrderValue
  GroupOf <- GroupOfValue
  Height = 2
  RuntimeFaultN = 1
INVARIANTS
    StartIsAllOrNothing
    FocusGoesRound
    PlanIsAllOrNothing
    FinishedIsSpokenOnce
PROPERTIES
    
    SelectionIsKept
    ServicesKeepUp
CHECK_DEADLOCK FALSE
