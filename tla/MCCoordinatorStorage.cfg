SPECIFICATION Spec
CONSTANTS
  NoToken = NoToken
  NoRow = NoRow
  NoRecord = NoRecord
  NoMutation = NoMutation
  Logins = 1
  Rotations = 2
  Family <- MCFamily
  Token <- MCToken
  Grace = 1
  MaxTime = 2
  MaxRevision = 4
  MaxFaults = 2
  MaxRestarts = 1
INVARIANTS
  TypeOK
  SignOutSticks
  LagAtMostOne
PROPERTIES
  SignOutIsJustified
  EffectiveNeverRegresses
CHECK_DEADLOCK FALSE
