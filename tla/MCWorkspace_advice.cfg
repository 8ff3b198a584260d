SPECIFICATION LiveSpec
CONSTANTS
  p1 = p1  p2 = p2  p3 = p3  A = A  B = B  m1 = m1  m2 = m2
  Process <- OneProcess
  Archive <- OneArchiveOnly
  Machine <- OneMachine
  MaxSnapshot = 1
  MaxRepairs = 1
  MaxKills = 1
  MaxErrors = 0
  MaxDamage = 0
  Permitted <- Kind
  Guide = "status"
  None = None

PROPERTIES EventuallyCurrent
CHECK_DEADLOCK FALSE
