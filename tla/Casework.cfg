SPECIFICATION Spec
CONSTANTS
  Evidence = {e1, e2}
  MadeUp = {x1}
  Findings = {f1, f2}
  f1 = f1
  Reports = {p1}
  Reviewers = {u1, u2}
  NoOne = NoOne
  Reqs = {q1, q2}
  Uploaded = {e1}
  Created = {f1}
  StatePatches = {"needs_evidence", "verified"}
  ReviewStatuses = {"integrity_verified", "rejected"}
  LinkLists <- OnceOrTwice
  FaultKinds = {"storage", "api"}
  MaxRequests = 4
  MaxFaults = 1
SYMMETRY Alike
INVARIANTS
  TypeOK
  PathMeansObject
  StateTraceable
  ExportedProof
  DuplicateLinksBounded
PROPERTIES
  OnlyReviewsJudge
CHECK_DEADLOCK FALSE
