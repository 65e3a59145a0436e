\* Two clients, two workers, every failure, a shutdown in time or not.
SPECIFICATION Spec
CONSTANTS
  w1 = w1  w2 = w2  main = main
  c1 = c1  c2 = c2  listen = listen
  k1 = k1  k2 = k2
  NUL = NUL  NULL = NULL
  Workers = {w1, w2}
  Main = main
  Ctx = {c1, c2}
  Listen = listen
  Clients = {k1, k2}
  Stream <- MCStream
  MaxBlock = 2
  Verbose = TRUE
  Prompt = FALSE
  MaxFailures = 1
  MaxApiFailures = 1
CONSTRAINT Bounded
SYMMETRY Symmetry
INVARIANTS
  OneOwner
  AllocatedWhileUsed
  AcceptChain
  EchoInOrder
PROPERTIES
  FreesOnlyCompleted
  UsesCtxtList
CHECK_DEADLOCK FALSE
