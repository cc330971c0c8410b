SPECIFICATION Spec
CONSTANTS
  Runs = {r1, r2}
  Flags <- CacheFlags
  MaxHeight = 4
  Chains <- MCChains
  Low = 1
  High = 7
  StableGasThreshold = 5
  ConsecutiveStableBlocks = 2
  CachedHeights = {{1}, {2, 3}}
INVARIANTS
  TypeOK
  BlocksOfChain
  WindowShown
PROPERTIES
  CacheKept
  Terminates
