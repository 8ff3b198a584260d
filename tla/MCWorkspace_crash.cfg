SPECIFICATION Spec
CONSTANTS
  p1 = p1  p2 = p2  p3 = p3  A = A  B = B  m1 = m1  m2 = m2
  Process <- TwoProcesses
  Archive <- OneArchiveOnly
  Machine <- TwoMachines
  MaxSnapshot = 2
  MaxRepairs = 0
  MaxKills = 1
  MaxErrors = 1
  MaxDamage = 0
  Permitted <- Downloads
  Guide = "any"
  None = None
SYMMETRY Symmetry
INVARIANTS StatusIsTrue
PROPERTIES SuccessIsThere
