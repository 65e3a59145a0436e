\* The list of client contexts, up to the first removal that is not benign.
SPECIFICATION Spec
CONSTANTS
  c1 = c1  c2 = c2  c3 = c3  c4 = c4  c5 = c5
  main = main  w1 = w1  w2 = w2
  NULL = NULL
  Ctx = {c1, c2, c3, c4, c5}
  Threads = {main, w1, w2}
  Workers = {w1, w2}
  Main = main
  MaxFailures = 1
CONSTRAINT Untainted
SYMMETRY Symmetry
INVARIANTS
  TypeOK
  IntactUnlessTainted
  NoneLost
  SweepOnTrack
PROPERTY RemovalExact
CHECK_DEADLOCK FALSE
