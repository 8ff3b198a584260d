SPECIFICATION FairSpec
CONSTANTS
  blob = blob  pointer = pointer  c1 = c1  c2 = c2  c3 = c3  v1 = v1  v2 = v2
  Absent = Absent  Torn = Torn
  Once = {blob}
  Mutable = {pointer}
  Client = {c1, c2}
  Content = {v1, v2}
  Locked = TRUE
PROPERTIES NoBlindOverwrite ImplementsAtomicStore PutsReturn
