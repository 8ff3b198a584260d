SPECIFICATION WorkspaceSpec
CONSTANTS
  A = A  B = B  note = note  shot = shot
  Anonymous = Anonymous  NoTime = NoTime  NoFix = NoFix  NoSnapshot = NoSnapshot  NoReader = NoReader
  o1 = o1  m1 = m1  m2 = m2  a1 = a1  s1 = s1  s2 = s2
  MaxGap = 10
  MaxSteps = 3
  RootEntry = 0
  Snapshot <- SmallHistory
  Fragile <- FragileBlobs
  MaxDamage = 1
  Opener = {o1}
  Message = {m1, m2}
  Artifact = {a1}
  Subject = {s1, s2}
  MaxKills = 2
INVARIANTS OneTextPerEntry NothingLost SnapshotsAreWhole
     InvocationsRebuild
  BranchesReach ContextsHold SamplesLead ArcsHold  OpenedIsWhole
PROPERTIES RowsAreKept
