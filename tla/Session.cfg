\* Two handlers, three messages of the server and two connections.
CONSTANTS
  h1 = h1
  h2 = h2
  p1 = p1
  p2 = p2
  Handlers = {h1, h2}
  Main = main
  Nobody = nobody
  Players = {p1, p2}
  NoPlayer = none
  MaxChunks = 1
  Capacity = 1
  MaxInbox = 1
  MaxMessages = 3
  MaxSessions = 2
SPECIFICATION Spec
CHECK_DEADLOCK FALSE
INVARIANTS PlayerAgrees RecorderAgrees QuietWhenDisconnected
PROPERTIES ReconnectsAfterLoss
