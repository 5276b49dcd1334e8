SPECIFICATION FairSpec
CONSTANTS
  d1 = d1
  d2 = d2
  p1 = p1
  p2 = p2
  Request = {r1, r2}
  User = {u1}
  Asked <- Contention
  Domain = {d1, d2}
  Port = {p1, p2}
  MaxDeployments = 2
  Snapshot = FALSE
  NoRow = NoRow
  Gone = Gone
  Keep = Keep
  NoUser = NoUser
  NoWork = NoWork
  NoView = NoView
INVARIANTS
  TypeOK
  WaitersAreQueued
  PortsDisjoint
  HistoryAgrees
PROPERTIES
  SerialSpec
  AnswersAreTrue
  Answered
