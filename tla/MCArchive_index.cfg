SPECIFICATION FairSpec
CONSTANTS
  m1 = m1  m2 = m2  n1 = n1  n2 = n2  u1 = u1  u2 = u2  u3 = u3
  s1 = s1  s2 = s2  b1 = b1  b2 = b2  None = None  Corrupt = Corrupt
  Machine = {m1, m2}
  Namespace = {n1, n2}
  Prefix <- TwoPrefixes
  Uploader = {u1, u2, u3}
  Owner <- OwnersAll
  State = {s1}
  Blob = {b1}
  FilesOf <- OneFile
  Stamp = {1, 2}
  MaxAttempts = 2
  MaxFaults = 0
  MaxDamage = 0
INVARIANTS ListedHaveLatest
PROPERTIES IndexNeverForgets ImplementsRegister Healed 
