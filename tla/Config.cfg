SPECIFICATION Spec
CONSTANTS
  gate = gate
  gate2 = gate2
  lot = lot
  lot2 = lot2
  hall = hall
  road = road
  road2 = road2
  s1 = s1
  s2 = s2
  Entities <- MCEntities
  Files <- MCFiles
  FirstFile <- Small
  Sessions = {s1, s2}
  Crashing = {s2}
  MaxVersion = 3
  NoRow = NoRow
INVARIANTS
  TypeOK
  RowsAreOneFile
  TwinWithinConfig
  TwinCompleteWhenQuiet
PROPERTY LoadsEnd
