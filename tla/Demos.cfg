SPECIFICATION MCSpec
CONSTANTS
  Main = Main
  NoTask = NoTask
  Root = root
  a = a
  b = b
  c = c
  Items <- MCItems
  Key <- MCKey
  Tasks <- MCTasks
  Cores = {1, 3}
  MaxSpurious = 1
  Workers = {w1, w2}
  StartAccepts = 2
  MaxClients = 2
  MaxFailures = 2
  None = none
INVARIANTS NoTaskForgotten MainGetsSorted CapacityKept RecordsOwned
PROPERTIES SortStops PacketsTaken
CHECK_DEADLOCK FALSE
