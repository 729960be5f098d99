SPECIFICATION FairSpec
CONSTANTS
  Sessions = {s1, s2}
  Procs = {p1, p2}
  ChunkSizes = {1, 2}
  BodySizes = {0}
  MaxStaged = 2
  Metered = TRUE
  MaxChunks = 2
  Faults = {"crash", "s3"}
  MaxFaults = 1
INVARIANTS StagedBytesAccounted AssembledOnce
CHECK_DEADLOCK FALSE
PROPERTY SessionsReclaimed
