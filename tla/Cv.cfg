SPECIFICATION Spec
CONSTANTS
  lotA = lotA
  lotB = lotB
  Nothing = Nothing
  LotOrder <- MCLotOrder
  Spaces <- MCSpaces
  Capacity <- MCCapacity
  FramesOf <- MCFramesOf
  Sheets <- MCSheets
  Reported <- MCReported
  MaxTime = 2
INVARIANTS
  PostedCountIsNear
  TrustIsEarned
PROPERTY CamerasAreSampled
