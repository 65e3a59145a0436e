SPECIFICATION Spec
CONSTANTS
  Producers = {p1, p2}
  Consumer = c
  Nodes = {d, n1, n2, n3}
  Dummy = d
  Null = null
  Values = {v, w}
  Getters = {g1, g2, g3}
  Capacity = 3
  Users = {u1, u2}
  Entries = {e1, e2, e3}
  Nobody = nobody
INVARIANTS ChainIntact NobodySleepsOnValue FrontIsWhatWasPeeked
PROPERTIES ImplementsFifo CallsEnd
CHECK_DEADLOCK FALSE
