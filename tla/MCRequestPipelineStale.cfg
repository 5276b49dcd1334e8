SPECIFICATION SnapshotSpec
CONSTANTS
  d1 = d1
  d2 = d2
  p1 = p1
  p2 = p2
  Request = {r1, r2}
  User = {u1}
  Asked <- Contention
  Domain = {d1, d2}
  Port = {p1, p2}
  MaxDeployments = 2
  Snapshot = TRUE
  NoRow = NoRow
  Gone = Gone
  Keep = Keep
  NoUser = NoUser
  NoWork = NoWork
  NoView = NoView
INVARIANT PortsDisjoint
