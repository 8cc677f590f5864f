SPECIFICATION LoopsSpec
CONSTANTS
  q1 = q1
  q2 = q2
  p1 = p1
  Queues <- MCQueues
  Posters <- MCPosters
  Joinable <- OneLoop
  Pausable <- OtherLoop
  Unmerged = Unmerged
  Nothing = Nothing
  MaxTime = 1
  MaxTasks = 3
  MaxPauses = 1
  MaxMerges = 1
  Disciplined = FALSE
  ResumeSubsumed = FALSE
CHECK_DEADLOCK FALSE
INVARIANTS
  NoOversleep
  MergeTopology
  PeekIsEarliest
