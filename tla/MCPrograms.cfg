SPECIFICATION Spec
CONSTANTS
  Debaters <- DebatersValue
  Rounds = 2
  MaxEchoes = 1
  Subscribers = {"driver"}
  BufferN = 1
  HistoryN = 1
  DebateRounds = 3
  Uses <- UsesValue
  AskN = 1
  TextN = 4
  TagN = 5
  Nodes <- NodesValue
  Broad <- BroadValue
  BodyN = 3
  MaxDepth = 2
  Urls = {"u", "v"}
  RequestN = 2
  RedirectN = 1
  RowN = 2
  ListHeight = 1
  ChannelN = 1
  RowAgents = {"a", "b"}
  FlightN = 2
  SequenceN = 3
  VersionN = 2
  WordN = 2
INVARIANTS
    DebateIsHonest
    BreaksOffCleanly
    MessagesMeetRequests
    TreeIsFaithful
    TableIsConsistent
    AnswersMeetPopups
PROPERTIES
    NeverShowsOlder
    WorkComesToAnEnd
CHECK_DEADLOCK FALSE
