SPECIFICATION Spec
CONSTANTS
  t1 = t1
  t2 = t2
  c1 = c1
  c2 = c2
  s1 = s1
  s2 = s2
  p1 = p1
  w1 = w1
  Threads <- MCThreads
  Contexts <- MCContexts
  WindowSurfaces <- MCWindowSurfaces
  Pbuffers <- MCPbuffers
  Windows <- MCWindows
  WindowOf <- MCWindowOf
  None = None
  NumBuffers = 2
  May <- Plain
SYMMETRY Symmetry
CHECK_DEADLOCK FALSE
INVARIANTS
  NoFailure
  BindingsAgree
  BuffersAccounted
  RasterizerFollowsSurface
  ContextOnOneThread
