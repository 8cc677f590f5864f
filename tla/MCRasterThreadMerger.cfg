SPECIFICATION FairSpec
CONSTANTS
  r1 = r1
  r2 = r2
  e1 = e1
  p = p
  Renderers <- TwoRenderers
  Managers <- OneRenderer
  Checked = TRUE
  Togglers <- OneRenderer
  Platform = p
  Nobody = Nobody
  MaxLease = 4
CHECK_DEADLOCK FALSE
INVARIANTS
  LeaseMatchesQueues
  RasterizesWhatItOwns
  ChecksHold
PROPERTIES
  WaitReturns
