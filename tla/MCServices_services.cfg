SPECIFICATION FairSpec
CONSTANTS
  Tids = {1, 2}
  Names = {"a"}
  NameOutlives = TRUE
  OneName = TRUE
  Delays = {2}
  TickMod = 8
  Rounding = 2
  MaxTicks = 3
  MaxLives = 2
CHECK_DEADLOCK FALSE
INVARIANTS
  AnswersOwed
  NamesOfLiving
PROPERTIES
  SleepsLongEnough
  SleepEnds
