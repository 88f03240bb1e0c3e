SPECIFICATION Spec
CONSTANTS
  north = north
  lotA = lotA
  lotB = lotB
  ra = ra
  ra2 = ra2
  rb = rb
  rc = rc
  Nothing = Nothing
  Gates = {north}
  Roads = {ra, ra2, rb, rc}
  Destinations = {}
  LotOrder <- MCLotOrder
  RouteEdges <- MCRouteEdges
  Estimates = {1, 3}
  FirstTwin <- MCFirstTwin
  LotRows <- MCLotRows
  GateRows <- MCGateRows
  RoadStatuses <- MCRoadStatuses
  FirstTrained = {lotA}
  Recorded = {lotA}
  Mae <- MCMae
  Weights <- MCBalanced
  MaxUpdates = 2
  MaxRequests = 2
INVARIANTS
  TypeOK
  RecommendedWasFeasible
  FailsOnlyWhenCandidateCloses
  ForecastIsOnRecord
  NotDominated
  RiskWithinItsParts
PROPERTY RequestsEnd
