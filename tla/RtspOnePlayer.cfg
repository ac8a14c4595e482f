SPECIFICATION Spec
CONSTANTS
  c1 = c1
  c2 = c2
  c3 = c3
  Conns = {c1, c2}
  Listener = Listener
  Remote = Remote
  None = None
  Requests <- TwoSources
  AllowRemote = FALSE
  AllowExit = FALSE
  TrackFirst = TRUE
INVARIANTS
  OnePlayerAtOnce
CHECK_DEADLOCK FALSE
