\* Three contexts, of which the oldest closes: does the cleanup reach the rest?
SPECIFICATION Spec
CONSTANTS
  c1 = c1  c2 = c2  c3 = c3
  main = main  w1 = w1
  NULL = NULL
  Ctx = {c1, c2, c3}
  Threads = {main, w1}
  Workers = {w1}
  Main = main
  MaxFailures = 0
CONSTRAINT Quiet
PROPERTY CleanupClosesAll
CHECK_DEADLOCK FALSE
