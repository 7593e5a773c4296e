SPECIFICATION FairSpec
CONSTANTS
  NoToken = NoToken
  NoRow = NoRow
  NoSession = NoSession
  NoRequest = NoRequest
  raw = raw
  tokens = {t1, t2, t3}
  Token <- MCToken
  Session = {s1}
  Request = {r1, r2}
  LegacySession = {s1}
  RawToken <- MCRawToken
  Grace = 2
  Lifetime = 9
  DrainFlags = {TRUE}
  ClockSkew = 0
  MaxTime = 1
PROPERTY EveryRequestAnswered
CHECK_DEADLOCK FALSE
