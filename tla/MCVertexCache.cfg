SPECIFICATION CacheSpec
CONSTANTS
  VERTEX_BUFFER_SIZE = 5
  VERTEX_CACHE_SIZE = 4
  Indices <- MCIndices
  SeqLimit = 3
  OutsideSets <- MCOutside
  ArrayCounts <- MCCounts
INVARIANTS
  PrimitivesExact
  LocksMatchUse
