SPECIFICATION MCSpec
CONSTANTS
  Max = 4
  Packet = 3
  Counts = {2, 3}
  MaxBytes = 9
  Monitor = Monitor
  Callers = {t1, t2, t3}
  QueueCount = 2
  Capacity <- TwoCapacities
  Senders = {s1, s2}
  MaxMessage = 3
  Stuck = {1}
  Servers = {"a", "b"}
  Clients = {"a", "b", "no id"}
  MaxBad = 2
  Length = 4
  History = 3
  Tolerance = 1
  Threshold = 5
  Settling = 3
  Chunk = 3
  LeadIn = 6
  Desired = 2
  LongestWait = 2
  Leads <- LateOrEarly
  Gaps <- BackOrForth
  Gone = {"length", "nothing"}
  MaxTroubles = 2
  MaxStall = 2
INVARIANTS
  TypesOK
  ReaderSafe
  ActivityFollows
  ServicesKept
  FramesOnTarget
PROPERTIES
  TeardownCompletes
  NobodyWaits
  GoneIsNoticed
  SyncRegained
\* the streams end, clients may be silent, and threads are stopped
CHECK_DEADLOCK FALSE
