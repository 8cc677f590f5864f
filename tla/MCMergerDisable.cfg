SPECIFICATION Spec
CONSTANTS
  r1 = r1
  r2 = r2
  e1 = e1
  p = p
  Renderers <- OneRenderer
  Managers <- OneRenderer
  Checked = TRUE
  Togglers <- OtherThread
  Platform = p
  Nobody = Nobody
  MaxLease = 2
CHECK_DEADLOCK FALSE
PROPERTY
  UnmergedNowMeansSplit
