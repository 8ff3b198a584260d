SPECIFICATION SideSpec
CONSTANTS
  m1 = m1  n1 = n1  u1 = u1  u2 = u2
  s1 = s1  s2 = s2  b1 = b1  b2 = b2  None = None  Corrupt = Corrupt
  Machine = {m1}
  Namespace = {n1}
  Prefix <- OnePrefix
  Uploader = {u1, u2}
  Owner <- OwnersSame
  State = {s1, s2}
  Blob = {b1, b2}
  FilesOf <- GrowingFiles
  Stamp = {1}
  MaxAttempts = 2
  MaxFaults = 1
  MaxDamage = 1
  p1 = p1  p2 = p2  home = home  other = other  work = work  aside = aside
  Cli = {p1, p2}
  Place = {home, other}
  Dir = {work, aside}
  DefaultPlace = home
  DefaultDir = work
INVARIANTS TypeOK PointerClosed SuccessIsDurable InspectionTells SelectedIsInitialised
PROPERTIES NoLostUpdate NoSilentRestart  MovesByTable
SYMMETRY Interchangeable
