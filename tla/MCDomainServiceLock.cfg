SPECIFICATION FairSpec
CONSTANTS
  d1 = d1
  d2 = d2
  n1 = n1
  n2 = n2
  p1 = p1
  Domain = {d1}
  Name = {n1, n2}
  Port = {p1}
  Payload <- LockPayload
  MaxDeployments = 2
  MaxIncidents = 1
  NoRow = NoRow
  NoText = NoText
  NoDomain = NoDomain
  NoCert = NoCert
PROPERTY LockReleased
PROPERTY CleanRestartRecovers
CHECK_DEADLOCK FALSE
