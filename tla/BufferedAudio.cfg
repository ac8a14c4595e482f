SPECIFICATION FairSpec
CONSTANTS
  SeqMod = 16
  PlayerMod = 4
  MaxDeferred = 2
  FirstSeq = 14
  MaxBlock = 3
  MaxQueue = 2
  CalmSources = {TRUE, FALSE}
  Watched = {"ahead"}
INVARIANTS
  TypeOK
PROPERTIES
  FlushesHonoured
  SequentialIfCalm
  FlushCompletes
\* the connection is closed in the end
CHECK_DEADLOCK FALSE
