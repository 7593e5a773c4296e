SPECIFICATION E2eSpec
CONSTANTS
  w1 = w1  w2 = w2  ka = ka  p = p  d1 = d1  u1 = u1  i1 = i1  ha = ha  hb = hb
  Worker = {w1, w2}
  Epoch = {ka}
  Identity = {p}
  Device = {d1}
  UnlockChallenge = {u1}
  IdemKey = {i1}
  SetHash = {ha, hb}
  NoIdentity = NoIdentity  NoBackup = NoBackup  NoEnvelope = NoEnvelope  NoRequest = NoRequest
  E2eMix <- MCE2eMix
CHECK_DEADLOCK FALSE
PROPERTY PutNeedsFreshRevision
