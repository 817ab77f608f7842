SPECIFICATION BFairSpec
CONSTANTS
  hut = hut
  shed = shed
  wood = wood
  us = us
  here = here
  none = none
  Sites = {}
  Buildings = {hut, shed}
  Faction = {us}
  Neutral = us
  Resource = {wood}
  Place = {here}
  MaxAmount = 1
  MaxMade = 2
  MaxQueued = 1
  Recapacity = FALSE
  NoTarget = none
  Combatable = {hut}
  MaxHp = 2
  MaxInbox = 2
  MaxDamage = 1
  Zombies = FALSE
  OrderInMotion = FALSE
INVARIANTS
  HandlersExact
  BuildsSupplied
  NoneFails
PROPERTY BuildingEnds
CHECK_DEADLOCK FALSE
