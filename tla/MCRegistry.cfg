SPECIFICATION ScenarioSpec
CONSTANTS
  d1 = d1
  d2 = d2
  n1 = n1
  n2 = n2
  p1 = p1
  Domain = {d1, d2}
  Name = {n1, n2}
  Port = {p1}
  Payload <- ScenarioPayload
  MaxDeployments = 3
  MaxIncidents = 2
  NoRow = NoRow
  NoText = NoText
  NoDomain = NoDomain
  NoCert = NoCert
SYMMETRY Symmetry
INVARIANT TypeOK
INVARIANT UnflaggedFilesFollowDatabase
INVARIANT NginxFollowsFiles
INVARIANT StartsUnlessFlagged
INVARIANT HistoryAgreesWithRow
INVARIANT DomainsDisjoint
INVARIANT TlsCovered
PROPERTY SuccessHeals
PROPERTY OthersUndisturbed
CHECK_DEADLOCK FALSE
