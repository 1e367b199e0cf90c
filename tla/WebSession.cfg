SPECIFICATION FairSpec
CONSTANTS
  Emails = {ada, bob}
  Registered = {ada}
  Tabs = {t1, t2}
  Sids = {s1, s2}
  Reqs = {q1, q2}
  NoOne = NoOne
  MaxSent = 3
  MaxMoves = 1
  MaxFaults = 1
INVARIANTS
  TypeOK
  OneAccountPerAddress
  ActsAsShown
  SignedOutForgets
  ReloadKeepsRights
PROPERTIES
  CheckingEnds
CHECK_DEADLOCK FALSE
