\* Does every control event reach a running server?
SPECIFICATION Spec
CONSTANTS
  ThreadCount = 2
  MaxWorkerThread = 16
  Prompt = TRUE
  MaxLives = 2
  MaxEvents = 2
  MaxFailures = 0
INVARIANT CtrlInitiatesShutdown
CHECK_DEADLOCK FALSE
