SPECIFICATION FairSpec
CONSTANTS
  c1 = c1
  c2 = c2
  c3 = c3
  Conns = {c1, c2, c3}
  Listener = Listener
  Remote = Remote
  None = None
  Requests <- SoleRequests
  AllowRemote = FALSE
  AllowExit = FALSE
  TrackFirst = FALSE
PROPERTIES
  EndedConnReaped
CHECK_DEADLOCK FALSE
