SPECIFICATION Spec
CONSTANTS
  t1 = t1
  t2 = t2
  t3 = t3
  Threads <- MCThreads
  NoThread = NoThread
  Ids = 4
  MaxCount = 2
  MaxSignals = 3
  MaxResets = 1
  MaxWaits = 4
CHECK_DEADLOCK FALSE
INVARIANTS
  OneWaitPerSignal
  SignalIsTaken
  LatchWaitsForAll
  NotUsedAfterWait
PROPERTY
  WaitersReleased
