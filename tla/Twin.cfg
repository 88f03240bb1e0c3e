SPECIFICATION HistorySpec
CONSTANTS
  campus = campus
  lot = lot
  gate = gate
  vehicle = vehicle
  session1 = session1
  session2 = session2
  NULL = NULL
  NoRow = NoRow
  Campus = campus
  Lots = {lot}
  Gates = {gate}
  Roads = {}
  Sessions = {session1, session2}
  Fresh <- MCFresh
  Aging <- MCAging
  Vehicles = {vehicle}
  Observers = {session1}
  Forecasters = {session2}
  Loaders = {session2}
  Initialisers = {session1}
  Recorders = {session2}
  Crashing = {session1, session2}
  Config <- MCGrowingConfig
  Observations <- MCObservations
  Forecasts = {2}
  MaxTime = 1
INVARIANTS
  TypeOK
  MirrorsConfig
PROPERTIES
  RegisterSpec
  OnlyOwnersWrite
  FreshnessOnlyDecays
