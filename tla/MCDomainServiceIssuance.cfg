SPECIFICATION Spec
CONSTANTS
  d1 = d1
  d2 = d2
  n1 = n1
  n2 = n2
  p1 = p1
  Domain = {d1}
  Name = {n1, n2}
  Port = {p1}
  Payload <- TlsPayload
  MaxDeployments = 4
  MaxIncidents = 1
  NoRow = NoRow
  NoText = NoText
  NoDomain = NoDomain
  NoCert = NoCert
INVARIANT FailedIssuanceRestores
CHECK_DEADLOCK FALSE
