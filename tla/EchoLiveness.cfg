\* Progress: every block is echoed, and the shutdown comes to its end.
SPECIFICATION FairSpec
CONSTANTS
  w1 = w1  main = main
  c1 = c1  c2 = c2  listen = listen
  k1 = k1  k2 = k2
  NUL = NUL  NULL = NULL
  Workers = {w1}
  Main = main
  Ctx = {c1, c2}
  Listen = listen
  Clients = {k1, k2}
  Stream <- ShortStream
  MaxBlock = 1
  Verbose = FALSE
  Prompt = TRUE
  MaxFailures = 0
  MaxApiFailures = 1
PROPERTIES EchoCompletes ShutdownCompletes
CHECK_DEADLOCK FALSE
