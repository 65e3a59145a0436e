\* Does the server go on until its operator stops it?
SPECIFICATION Spec
CONSTANTS
  w1 = w1  w2 = w2  main = main
  c1 = c1  c2 = c2  listen = listen
  k1 = k1  k2 = k2
  NUL = NUL  NULL = NULL
  Workers = {w1, w2}
  Main = main
  Ctx = {c1, c2}
  Listen = listen
  Clients = {k1, k2}
  Stream <- MCStream
  MaxBlock = 2
  Verbose = FALSE
  Prompt = TRUE
  MaxFailures = 0
  MaxApiFailures = 0
INVARIANT OnlyOperatorStops
CHECK_DEADLOCK FALSE
