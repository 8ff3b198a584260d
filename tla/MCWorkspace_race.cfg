SPECIFICATION Spec
CONSTANTS
  p1 = p1  p2 = p2  p3 = p3  A = A  B = B  m1 = m1  m2 = m2
  Process <- TwoProcesses
  Archive <- TwoArchives
  Machine <- OneMachine
  MaxSnapshot = 1
  MaxRepairs = 1
  MaxKills = 1
  MaxErrors = 0
  MaxDamage = 1
  Permitted <- Kind
  Guide = "any"
  None = None
SYMMETRY Symmetry
INVARIANTS OneArchive
PROPERTIES NothingSwappedUnderneath
