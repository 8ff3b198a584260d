SPECIFICATION Spec
CONSTANTS
  p1 = p1  p2 = p2  p3 = p3  A = A  B = B  m1 = m1  m2 = m2
  Process <- TwoProcesses
  Archive <- OneArchiveOnly
  Machine <- TwoMachines
  MaxSnapshot = 2
  MaxRepairs = 1
  MaxKills = 0
  MaxErrors = 0
  MaxDamage = 1
  Permitted <- Repairs
  Guide = "any"
  None = None
SYMMETRY Symmetry
INVARIANTS StatusIsTrue
