SPECIFICATION Spec
CONSTANTS
  host = host
  lit = lit
  wide = wide
  other = other
  carve = carve
  risky = risky
  c1 = c1
  c2 = c2
  Rules = {wide, other, carve, risky}
  Excludes = {carve}
  Covers <- WideAndNarrow
  UnsafeRules = {carve, risky}
  Targets = {host, lit}
  UnsafeTargets = {lit}
  HostNames = {host}
  Claims = {c1, c2}
  TargetOf <- OneEach
  Reqs = {q1, q2}
  Prepared = {wide}
  FaultKinds = {"api"}
  MaxEdits = 4
  MaxFaults = 1
SYMMETRY Alike
INVARIANTS
  TypeOK
  AllowedInsideWindow
  DecisionsAudited
  RulesTraced
CHECK_DEADLOCK FALSE
