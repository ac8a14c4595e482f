SPECIFICATION MCSpec
CONSTANTS
  Formats = {"f1"}
  DefaultFormat = "f2"
  Volumes = {"loud", "soft"}
  OpenFailures = {"absent"}
  Words = {1, 2}
  MaxTries = 2
  MaxUpdate = 2
  Clocks = {"a", "b"}
  ClockOffset <- TenOrTwenty
  Lines = {0, 5}
  Frames = {0, 1}
  Settle = 1
  Stable = 2
  Steady = {TRUE, FALSE}
  Overlaps = {FALSE}
  Interval = 6
  Limit = 5
  Delay = 2
  Processing = 1
  History = 2
  Factor = 150
  MaxTime = 17
  Tags = {"minm", "asar"}
  Silent = {}
  Values = {"x", "y"}
  Room = 2
  Connections = {"a", "b"}
  Nobody = "nobody"
  Requests <- FullHalfNone
  Loudest <- Half
  Settings <- VolumeSettings
  Taper <- TaperOfThese
  Apart = TRUE
  MaxRequests = 2
  Sizes = {2, 3}
  MaxAsk = 2
  MaxFrames = 5
  MaxQueued = 2
  EmptyOnly = TRUE
INVARIANTS
  TypesOK
  BackEndsKept
  ClocksRight
  TagsAnnounced
  LevelsRight
PROPERTIES
  AnswersRight
\* the program ends, and so does the time that is looked at
CHECK_DEADLOCK FALSE
