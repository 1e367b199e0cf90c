SPECIFICATION Spec
CONSTANTS
  Evidence = {e1, e2}
  MadeUp = {x1}
  Findings = {f1, f2}
  f1 = f1
  Reports = {p1}
  Reviewers = {u1, u2}
  NoOne = NoOne
  Reqs = {q1, q2}
  Uploaded = {e1}
  Created = {f1}
  StatePatches = {"needs_evidence", "verified"}
  ReviewStatuses = {"integrity_verified", "rejected"}
  LinkLists <- OnceOrTwice
  FaultKinds = {"storage", "api"}
  MaxRequests = 3
  MaxFaults = 0
SYMMETRY Alike
PROPERTY VerificationMovesFinding
CHECK_DEADLOCK FALSE
