SPECIFICATION FairSpec

CONSTANTS
  r2 = r2
  r4 = r4
  p1 = p1
  p2 = p2
  NoRun = NoRun
  Runs = {r1, r2, r3, r4}
  Workers = {w1, w2}
  Reqs = {q1}
  PlanLen <- OneStep
  Projects = {p1, p2}
  ProjectOf <- R4InP2
  HasEngagement <- NotR2
  EngagedIn <- InP1
  Sensitive <- FirstStepsSensitive
  MaxConcurrent = 2
  OwnerOps = {"approve"}
  OwnerTargets = {}
  Prepared <- AtTheGate
  FaultKinds = {}
  MaxRequests = 2
  MaxFaults = 0
  MaxEdits = 0

INVARIANTS
  ConcurrencyBounded
  ApprovalCheckNeverDenies

PROPERTIES
  JobsSettle
