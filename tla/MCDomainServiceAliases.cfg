SPECIFICATION Spec
CONSTANTS
  d1 = d1
  d2 = d2
  n1 = n1
  n2 = n2
  p1 = p1
  Domain = {d1, d2}
  Name = {n1, n2}
  Port = {p1}
  Payload <- AliasPayload
  MaxDeployments = 2
  MaxIncidents = 0
  NoRow = NoRow
  NoText = NoText
  NoDomain = NoDomain
  NoCert = NoCert
INVARIANT LiveNamesDisjoint
CHECK_DEADLOCK FALSE
