SPECIFICATION Spec
CONSTANTS
  SeqMod = 10
  BufFrames = 5
  FirstSeq = 7
  MaxPacket = 6
  MaxTime = 2
  MaxGap = 1
  MaxLate = 1
  MaxWindow = 4
  DacLead = 1
  PacketLength = 1
  HighTimestamps = TRUE
INVARIANTS
  TypeOK
  BufferKept
PROPERTIES
  StepsRight
  
\* a stream ends
CHECK_DEADLOCK FALSE
