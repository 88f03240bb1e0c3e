SPECIFICATION Spec
CONSTANTS
  lot = lot
  gate = gate
  client1 = client1
  client2 = client2
  Sessions = {client1, client2}
  Requests <- MCRequests
  Crashing = {client2}
  Config <- MCConfig
  Lots = {lot}
  Gates = {gate}
  Plausible = {1, 2}
  MaxRows <- MCRows
  Malformed = Malformed
  TooLarge <- MCTooLarge
  Blank = Blank
  NULL = NULL
INVARIANTS
  TypeOK
  RawHasOneVerdict
  RecordedIsAPrefix
  NoDuplicateAccepted
  TwinShowsOnlyAccepted
  SyncFailsOnlyAcrossReload
PROPERTY BatchesAddUp
