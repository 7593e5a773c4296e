SPECIFICATION FrankingSpec
CONSTANTS
  reporter = reporter
  accused = accused
  Nobody = Nobody
  others = {r1, r2, r3}
  Person <- MCPerson
  Reviewer <- MCPerson
  Handler = {h1, h2}
  MaxViewers = 2
SYMMETRY Symmetry
INVARIANTS
  FrankingTypeOK
  ExclusiveViewers
  
  AuditTellsViewers
PROPERTY ClosedIsFinal
CHECK_DEADLOCK FALSE
