SPECIFICATION Spec
CONSTANTS
  gate = gate
  gate2 = gate2
  lot = lot
  lot2 = lot2
  hall = hall
  road = road
  road2 = road2
  s1 = s1
  s2 = s2
  Entities <- MCEntities
  Files <- MCTrimmed
  FirstFile <- Large
  Sessions = {s1}
  Crashing = {}
  MaxVersion = 3
  NoRow = NoRow
PROPERTY RemovedEntitiesArePruned
CHECK_DEADLOCK FALSE
