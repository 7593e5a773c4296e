SPECIFICATION OrganizerFairSpec
CONSTANTS
  d1 = d1  d2 = d2  f = f  g = g  p = p
  Device = {d1, d2}
  Folder = {f, g}
  Peer = {p}
  Overlay <- MCOverlay
  FirstMembers = {{}}
  MaxFolders = 2
  MaxRetries = 1
  NoWrite = NoWrite  NoRefresh = NoRefresh  Asked = Asked
  Budget <- MCBudget
  Changes = 2
  Disturbances = 1
CHECK_DEADLOCK FALSE
INVARIANTS
  OrganizerTypeOK
  QuietCopiesAgree
PROPERTIES
  ItemsSurvive
  SavedMeansStored
  WritesSettle
