SPECIFICATION Spec
CONSTANTS
  Emails = {ada}
  Registered = {ada}
  Tabs = {t1, t2}
  Sids = {s1}
  Reqs = {q1, q2}
  NoOne = NoOne
  MaxSent = 3
  MaxMoves = 1
  MaxFaults = 0
PROPERTIES
  LogoutIsImmediate
CHECK_DEADLOCK FALSE
