SPECIFICATION StreamSpec
CONSTANTS
  Longest = 2
  Tag = 1
  Messages = {1, 2, 3, 4}
  Buffer = 6
  Counts = {1, 3}
  LoneBytes = TRUE
  MaxBytes = 5
INVARIANT WaitsForBlock
\* the writer stops
CHECK_DEADLOCK FALSE
