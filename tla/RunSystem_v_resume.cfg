SPECIFICATION FairSpec

CONSTANTS
  r2 = r2
  r4 = r4
  p1 = p1
  p2 = p2
  NoRun = NoRun
  Runs = {r1}
  Workers = {w1}
  Reqs = {q1}
  PlanLen <- TwoSteps
  Projects = {p1}
  ProjectOf <- InP1
  HasEngagement <- AllRuns
  EngagedIn <- InP1
  Sensitive <- NothingSensitive
  MaxConcurrent = 2
  OwnerOps = {"transition", "approve"}
  OwnerTargets = {"PAUSED", "QUEUED"}
  Prepared <- AtTheGate
  FaultKinds = {}
  MaxRequests = 3
  MaxFaults = 0
  MaxEdits = 0

PROPERTIES
  QueuedLeaves
