SPECIFICATION Spec

CONSTANTS
  r2 = r2
  r4 = r4
  p1 = p1
  p2 = p2
  NoRun = NoRun
  Runs = {r1}
  Workers = {w1, w2}
  Reqs = {q1, q2}
  PlanLen <- TwoSteps
  Projects = {p1}
  ProjectOf <- InP1
  HasEngagement <- AllRuns
  EngagedIn <- InP1
  Sensitive <- NothingSensitive
  MaxConcurrent = 2
  OwnerOps = {"transition", "cancel", "approve", "reject"}
  OwnerTargets = {"QUEUED", "RUNNING", "PAUSED", "AWAITING_ACTION_APPROVAL"}
  Prepared <- AtTheGate
  FaultKinds = {"worker", "api", "redis"}
  MaxRequests = 3
  MaxFaults = 1
  MaxEdits = 0

SYMMETRY Alike

INVARIANTS
  TypeOK
  StepsInOrder
  JobsBacked
  TrailComplete
  ExecutionApproved
  WorkerCompletionBacked

PROPERTIES
  LegalUnlessStale
  LedgerSpec
  ApprovalsSpentOnce
