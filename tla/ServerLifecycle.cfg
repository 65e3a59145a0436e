\* Two lives, two workers, two control events, one failing call.
SPECIFICATION FairSpec
CONSTANTS
  ThreadCount = 2
  MaxWorkerThread = 16
  Prompt = TRUE
  MaxLives = 2
  MaxEvents = 2
  MaxFailures = 1
INVARIANTS
  OnlyEarlyEventsLost
  WorkersOfThisLife
  WorkersJoined
PROPERTIES
  CleanupCompletes
  WorkersEnd
CHECK_DEADLOCK FALSE
