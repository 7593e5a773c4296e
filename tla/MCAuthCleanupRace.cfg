SPECIFICATION Spec
CONSTANTS
  NoToken = NoToken
  NoRow = NoRow
  NoSession = NoSession
  NoRequest = NoRequest
  raw = raw
  tokens = {t1, t2, t3}
  Token <- MCToken
  Session = {s1}
  Request = {r1}
  LegacySession = {}
  RawToken <- MCRawToken
  Grace = 1
  Lifetime = 4
  DrainFlags = {}
  ClockSkew = 0
  MaxTime = 2
PROPERTY GraceSurvivesCleanup
CHECK_DEADLOCK FALSE
