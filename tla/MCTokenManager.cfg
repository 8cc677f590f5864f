SPECIFICATION TokenSpec
CONSTANTS
  TokenCount = 8
  MaxBatch = 2
  NameLimit = 7
INVARIANTS
  RunsSortedAndMerged
PROPERTY
  ImplementsNameSpace
