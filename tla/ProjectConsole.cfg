SPECIFICATION FairSpec
CONSTANTS
  Pages = {"projects", "overview", "engagements", "scope", "runs"}
  Theirs = {"engagements", "scope"}
  Started = 2
  MaxSteps = 2
  MaxTurns = 1
INVARIANTS
  TypeOK
  DoublesOnlyIfLost
PROPERTIES
  ListsCatchUp
CHECK_DEADLOCK FALSE
