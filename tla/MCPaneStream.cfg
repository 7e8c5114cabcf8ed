SPECIFICATION Spec
CONSTANTS
  Blank = "blank"
  Marker = "marker"
  Texts = {"blank", "marker", "work"}
  Ready = {"work"}
  Lines <- MCLines
  Watchers = {"w"}
  Streams = {"client"}
  Subscribers = {"w", "client"}
  BufferN = 1
  HistoryN = 2
  MaxGeneration = 2
  MaxLines = 3
INVARIANTS
    OneProcessPerPane
    FramesAreDelivered
    MarkerNotMissed
