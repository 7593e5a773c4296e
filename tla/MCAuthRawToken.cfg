SPECIFICATION Spec
CONSTANTS
  NoToken = NoToken
  NoRow = NoRow
  NoSession = NoSession
  NoRequest = NoRequest
  raw = raw
  tokens = {t1, t2}
  Token <- MCToken
  Session = {s1}
  Request = {r1}
  LegacySession = {s1}
  RawToken <- MCRawToken
  Grace = 2
  Lifetime = 4
  DrainFlags = {}
  ClockSkew = 0
  MaxTime = 2
PROPERTY GraceHonouredForRawTokens
CHECK_DEADLOCK FALSE
