SPECIFICATION Spec
CONSTANTS
  o1 = o1
  o2 = o2
  u1 = u1
  u2 = u2
  None = None
  Names <- MCNames
  Objects <- MCObjects
  Units <- MCUnits
  Sizes <- MCSizes
  MaxLong = 4
SYMMETRY Symmetry
INVARIANTS
  PointersLive
  CopiesStayInside
