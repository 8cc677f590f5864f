SPECIFICATION FairLoopsSpec
CONSTANTS
  q1 = q1
  q2 = q2
  p1 = p1
  Queues <- MCQueues
  Posters <- MCPosters
  Joinable <- MCQueues
  Pausable <- MCQueues
  Unmerged = Unmerged
  Nothing = Nothing
  MaxTime = 1
  MaxTasks = 3
  MaxPauses = 0
  MaxMerges = 1
  Disciplined = TRUE
  ResumeSubsumed = FALSE
CHECK_DEADLOCK FALSE
INVARIANT
  NoFailure
PROPERTIES
  TasksAreHandled
  JoinReturns
