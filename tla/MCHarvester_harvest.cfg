SPECIFICATION HFairSpec
CONSTANTS
  tree = tree
  rock = rock
  store = store
  hut = hut
  wood = wood
  stone = stone
  us = us
  them = them
  here = here
  none = none
  Sites = {store}
  Buildings = {hut}
  Faction = {us, them}
  Neutral = us
  Resource = {wood, stone}
  Place = {here}
  MaxAmount = 1
  MaxMade = 0
  MaxQueued = 1
  Recapacity = FALSE
  None = none
  Deposits = {tree, rock}
  KindOf <- MCKindOf
  InGround <- MCInGround
  MaxCarry <- MCMaxCarry
  Speed <- MCOnes
  CycleUnits = 1
  Priority <- MCPriority
  Us = us
  Strategy = "gathering"
  Stock <- MCStock
  Room <- MCRoom
  Wish <- MCWish
  Needs <- MCNeeds
  Zombies = FALSE
  RoomAssured = TRUE
  StaleSaves = FALSE
  MaxNear = 1
  MaxInbox = 2
  MaxEvents = 1
INVARIANTS
  GoodsKept
  NoneFailed
  HarvestHandlersExact
PROPERTY HarvestEnds
CHECK_DEADLOCK FALSE
