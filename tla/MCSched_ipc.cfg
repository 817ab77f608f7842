SPECIFICATION Spec
CONSTANTS
  Tasks = {t1, t2, t3}
  Workers = {w1}
  Main = main
  NoThread = NoThread
  NoTask = NoTask
  NoEvent = NoEvent
  Events = {}
  OwnedEvents = {}
  Requests = {"SEND", "RECEIVE", "REPLY", "FREE"}
  Kinds <- CreatedKinds
SYMMETRY Symmetry
INVARIANTS
  OnePlace
  RepliesOwed
PROPERTY ImplementsRendezvous
