SPECIFICATION FairSpec
CONSTANTS
  w1 = w1
  w2 = w2
  w3 = w3
  t1 = t1
  t2 = t2
  t3 = t3
  Workers <- MCWorkers
  Main = main
  Tasks <- MCTasks
  Pinned <- MCPinned
  NoTask = NoTask
CHECK_DEADLOCK FALSE
INVARIANTS
  WorkersQuiet
  CountsExact
  NoSignalLost
PROPERTY MainGoesOn
