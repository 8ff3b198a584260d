SPECIFICATION Spec
CONSTANTS
  log = log  image = image  v = v  w = w  long = long  None = None
  File = {image}
  Image = {image}
  Content = {v, w, long}
  SizeOf <- TwoSizes
  MaxTime = 3
  MaxInode = 0
  Grain = 1
  Lag = 0
  Toggled = TRUE
INVARIANTS NeverMasked
