SPECIFICATION Spec
CONSTANTS
  VERTICES = 5
  Planes = {"left", "near"}
  MaxCount = 6
INVARIANTS
  BatchesFit
  BatchesExact
