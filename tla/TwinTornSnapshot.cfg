SPECIFICATION HistorySpec
CONSTANTS
  campus = campus
  lot = lot
  gate = gate
  vehicle = vehicle
  session1 = session1
  session2 = session2
  NULL = NULL
  NoRow = NoRow
  Campus = campus
  Lots = {lot}
  Gates = {gate}
  Roads = {}
  Sessions = {session1, session2}
  Fresh <- MCFresh
  Aging <- MCAging
  Vehicles = {}
  Observers = {}
  Forecasters = {}
  Loaders = {session1}
  Initialisers = {}
  Recorders = {session2}
  Crashing = {}
  Config <- MCConfig
  Observations <- NoObservations
  Forecasts = {}
  MaxTime = 0
INVARIANT SnapshotIsPointInTime
