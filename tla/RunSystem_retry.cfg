SPECIFICATION FairSpec

CONSTANTS
  r2 = r2
  r4 = r4
  p1 = p1
  p2 = p2
  NoRun = NoRun
  Runs = {r1}
  Workers = {w1, w2}
  Reqs = {q1}
  PlanLen <- TwoSteps
  Projects = {p1}
  ProjectOf <- InP1
  HasEngagement <- AllRuns
  EngagedIn <- InP1
  Sensitive <- NothingSensitive
  MaxConcurrent = 2
  OwnerOps = {"create", "transition", "cancel", "approve"}
  OwnerTargets = {"DRAFT", "PLANNING", "AWAITING_PLAN_APPROVAL", "PAUSED", "QUEUED"}
  Prepared <- NoRow
  FaultKinds = {}
  MaxRequests = 9
  MaxFaults = 0
  MaxEdits = 1

PROPERTIES
  CancelStopsWorkers
  FailureReported
  JobsSettle
