SPECIFICATION MCSpec
CONSTANTS
  NoPin = 0
  Passwords = {0, 1111}
  Typed = {1111, 3333}
  Kinds = {"transient", "normal"}
  Salts = {9, 14}
  Secrets = {13, 29}
  Stays = {FALSE}
  MaxTries = 2
  MaxFrames = 2
  Longest = 2
  Tag = 1
  Messages = {1, 2, 3, 4}
  Buffer = 6
  Counts = {1, 3}
  LoneBytes = FALSE
  MaxBytes = 7
  Devices = {"d1", "d2"}
  Connections = {c1, c2}
  Nodes = {1, 2, 3}
  Apart = TRUE
  c1 = c1
  c2 = c2
  us = us
  o1 = o1
  o2 = o2
INVARIANTS
  TypesOK
  NeverGarbled
  StreamsAgree
  PairingsKept
  
PROPERTIES
  PairsRight
  
\* the exchanges end
CHECK_DEADLOCK FALSE
