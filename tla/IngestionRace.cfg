SPECIFICATION Spec
CONSTANTS
  lot = lot
  gate = gate
  client1 = client1
  client2 = client2
  Sessions = {client1, client2}
  Requests <- MCSharedKey
  Crashing = {}
  Config <- MCConfig
  Lots = {lot}
  Gates = {gate}
  Plausible = {1, 2}
  MaxRows <- MCSharedRows
  Malformed = Malformed
  TooLarge <- MCTooLarge
  Blank = Blank
  NULL = NULL
INVARIANT NoDuplicateAccepted
