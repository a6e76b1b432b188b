SPECIFICATION FairSpec
CONSTANTS
  c1 = c1
  c2 = c2
  Callers = {c1, c2}
  SSPISteps = 2
  Windows = TRUE
  Profiles <- MCProfiles
  Chunks <- MCChunks
  DownChunks <- MCDown
  None = None
INVARIANTS
  StreamsInOrder
  HandlerReleasesAll
  DrainedMeansDone
PROPERTY
  EverythingEnds
CHECK_DEADLOCK FALSE
