SPECIFICATION RecoverySpec
CONSTANTS
  c1 = c1  c2 = c2  h1 = h1  h2 = h2  a1 = a1  a2 = a2  e1 = e1  e2 = e2  s1 = s1  s2 = s2
  w1 = w1  w2 = w2  ka = ka  kb = kb  p = p  q = q  d1 = d1  d2 = d2  u1 = u1  u2 = u2
  i1 = i1  ha = ha  hb = hb  hc = hc
  Challenge = {c1, c2}
  Email = {e1, e2}
  Account = {a1, a2}
  Handler = {h1, h2}
  Secret = {s1, s2}
  Worker = {w1, w2}
  Epoch = {ka, kb}
  Identity = {p, q}
  Device = {d1, d2}
  UnlockChallenge = {u1, u2}
  IdemKey = {i1}
  SetHash = {ha, hb, hc}
  NoEmail = NoEmail  NoAccount = NoAccount  NoChallenge = NoChallenge  NoSecret = NoSecret
  NoRow = NoRow  NoLog = NoLog  NoSession = NoSession
  NoIdentity = NoIdentity  NoBackup = NoBackup  NoEnvelope = NoEnvelope  NoRequest = NoRequest
  MaxAttempts = 2
  MaxFailures = 2
  MaxPassword = 2
  HomeAddress <- MCHomeAddress
  AccountMix <- MCAccountMix
  E2eMix <- MCE2eMix
  Owner = a1
  Pairing <- MCPairing
SYMMETRY Interchangeable
CHECK_DEADLOCK FALSE
INVARIANTS
  AccountTypeOK
  OneEffectPerCode
  AttemptsRespected
  OldSessionsEnd
  LockoutOutrunAtMost
  TotpProven
  E2eTypeOK
  RetriesHaveOneEffect
  NoEnvelopeAfterRevoke
  ResetCloses
PROPERTIES
  
  SecretsNeverReturn
  FrozenWhileLocked
  IdentityStable
  LockSparesRecovery
  RevocationOutlivesLaterApprovals
