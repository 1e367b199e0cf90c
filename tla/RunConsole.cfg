SPECIFICATION FairSpec
CONSTANTS
  Histories <- EveryPlace
  Other = "RUNNING"
  Queries = {"run", "runs", "run-events"}
  MaxSteps = 2
  MaxTurns = 1
INVARIANTS
  TypeOK
  RefusedOnlyIfMoved
  GraphTruthful
PROPERTIES
  OwnActionShown
  TimelineCatchesUp
  LiveRunFollowed
CHECK_DEADLOCK FALSE
