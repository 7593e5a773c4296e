SPECIFICATION Spec
CONSTANTS
  NoToken = NoToken
  NoRow = NoRow
  NoSession = NoSession
  NoRequest = NoRequest
  raw = raw
  tokens = {t1, t2, t3}
  Token <- MCToken
  Session = {s1}
  Request = {r1, r2}
  LegacySession = {}
  RawToken <- MCRawToken
  Grace = 2
  Lifetime = 3
  DrainFlags = {}
  ClockSkew = 1
  MaxTime = 4
SYMMETRY Symmetry
INVARIANTS
  TypeOK
  PrefetchStillValid
  GrantMatchesRow
PROPERTIES
  AnswersAreCurrent
  GraceHonoured
  ImplementsTokenFamily
CHECK_DEADLOCK FALSE
