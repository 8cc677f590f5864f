SPECIFICATION Spec
CONSTANTS
  Null = Null
  Blocks = {1, 2, 3, 4}
  Names = {1}
  Units = {0, 1}
  Objects = {11, 12, 13}
  defaultTexture = 11
  Images <- MCImages
  Lods = {0, 1}
  Params = {0, 1}
  Stale = Stale
  MaxChanges = 2
  MaxOdd = 1
CHECK_DEADLOCK FALSE
INVARIANTS
  NamesResolve
  ReferencesCounted
  BlocksOwned
  RasterizerFollows
  UploadsFit
  DrawsSampleTexels
