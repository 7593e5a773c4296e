SPECIFICATION Spec
CONSTANTS
  NoToken = NoToken
  NoRow = NoRow
  NoRecord = NoRecord
  NoMutation = NoMutation
  Logins = 1
  Rotations = 1
  Family <- MCFamily
  Token <- MCToken
  Grace = 1
  MaxTime = 0
  MaxRevision = 4
  MaxFaults = 1
  MaxRestarts = 0
PROPERTY RotatedPairStaysEffective
CHECK_DEADLOCK FALSE
