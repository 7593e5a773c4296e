SPECIFICATION Spec
CONSTANTS
  NoToken = NoToken
  NoRow = NoRow
  NoRecord = NoRecord
  NoMutation = NoMutation
  Logins = 1
  Rotations = 1
  Family <- MCFamily
  Token <- MCToken
  Grace = 1
  MaxTime = 1
  MaxRevision = 3
  MaxFaults = 3
  MaxRestarts = 0
INVARIANT SignOutSticks
CHECK_DEADLOCK FALSE
