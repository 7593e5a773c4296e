SPECIFICATION FairSpec
CONSTANTS
  NoToken = NoToken
  NoRow = NoRow
  NoRecord = NoRecord
  NoMutation = NoMutation
  Logins = 2
  Rotations = 1
  Family <- MCFamily
  Token <- MCToken
  Grace = 1
  MaxTime = 1
  MaxRevision = 4
  MaxFaults = 2
  MaxRestarts = 0
INVARIANTS
  NewestLoginWins
PROPERTIES
  VolatileSessionSettles
CHECK_DEADLOCK FALSE
