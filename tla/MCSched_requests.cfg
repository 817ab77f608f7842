SPECIFICATION Spec
CONSTANTS
  Tasks = {t1, t2}
  Workers = {w1}
  Main = main
  NoThread = NoThread
  NoTask = NoTask
  NoEvent = NoEvent
  Events = {e1, e2}
  OwnedEvents = {e1}
  Requests = {"MY_TID", "YIELD", "SEND", "RECEIVE", "REPLY", "CREATE", "WAIT", "FREE", "AWAIT_EVENT", "RUN_SYNC", "SET_DESTRUCTOR"}
  Kinds <- AllKinds
SYMMETRY Symmetry
INVARIANTS
  EndsClean
  NoLateTouch
  PinnedRunsHere
