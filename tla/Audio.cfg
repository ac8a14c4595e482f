SPECIFICATION MCSpec
CONSTANTS
  Names = {"FL", "FR", "FC", "--"}
  Dashes = "--"
  NoName = "none"
  Most = 3
  One = 16
  Fewest = 3
  MostFrames = 12
  Shortest = 5
  Limit = 3
  BasicLimit = 1
INVARIANTS TypesOK PacketsRight  
CHECK_DEADLOCK FALSE
