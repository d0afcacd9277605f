SPECIFICATION AppearanceSpec
CONSTANTS
  p1 = p1
  p2 = p2
  q = q
  Starts = {x1, x2}
  Streams = {s1, s2}
  Pictures = {p1, p2, q}
  AssetOf <- Assets
  SizeOf <- Sizes
  Default = Default
  None = None
  MaxGeneration = 2
  MaxCacheEntries = 2
  MaxCacheBytes = 2
  MaxBindings = 1
  MaxImages = 3
SYMMETRY Symmetries
INVARIANTS
  AppearanceInv
PROPERTIES
  NeverOlder
CHECK_DEADLOCK FALSE
