SPECIFICATION Spec
CONSTANTS
  c1 = c1
  c2 = c2
  c3 = c3
  Conns = {c1, c2, c3}
  Listener = Listener
  Remote = Remote
  None = None
  Requests <- RivalRequests
  AllowRemote = TRUE
  AllowExit = TRUE
  TrackFirst = TRUE
INVARIANTS
  TypeOK
  ConnectionsKept
  NothingLost
  NoStrandedPlayer
PROPERTIES
  ImplementsSession
\* clients may stay silent, and threads may wait for one another for ever
CHECK_DEADLOCK FALSE
