SPECIFICATION Spec
CONSTANTS
  hut = hut
  store = store
  wood = wood
  us = us
  them = them
  here = here
  there = there
  Sites = {store}
  Buildings = {hut, store}
  Faction = {us, them}
  Neutral = us
  Resource = {wood}
  Place = {here, there}
  MaxAmount = 2
  MaxMade = 2
  MaxQueued = 1
  Recapacity = FALSE
SYMMETRY Symmetry
INVARIANTS
  
  SupplyAsked
  BlockersExact
  LoadRestores
CHECK_DEADLOCK FALSE
