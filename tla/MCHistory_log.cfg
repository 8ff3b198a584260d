SPECIFICATION HistorySpec
CONSTANTS
  history = history  v = v  w = w  long = long  None = None
  e1 = e1  e2 = e2  x = x  y = y
  File = {history}
  Image = {}
  Content = {v, w, long}
  SizeOf <- TwoSizes
  MaxTime = 3
  MaxInode = 1
  Grain = 1
  Lag = 0
  Toggled = FALSE
  Exporter = {e1, e2}
  Session = {1, 2, 3}
  Base <- TwoShareX
  MaxChanges = 3
  MaxStops = 1
INVARIANTS NeverMasked PublishedFresh
PROPERTIES ExportTells NothingVanishes
