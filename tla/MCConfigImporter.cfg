SPECIFICATION ScenarioSpec
CONSTANTS
  a = a
  b = b
  db = db
  slug = slug
  long = long
  u = u
  p1 = p1
  p2 = p2
  Name = {a, b, db, slug}
  BadName = wildcard
  Upstream = {u}
  BadUpstream = BadUpstream
  Odd = Odd
  Port = {p1, p2}
  Reserved = {p2}
  Unsavable <- MCUnsavable
  Path <- MCPath
  FileOrder <- MCFileOrder
  HandWritten <- MCHandWritten
  Asked <- MCAsked
  Certificates <- NoCertificates
  File <- MCFile
  NoName = NoName
  NoRule = NoRule
  NoRow = NoRow
  NoFile = NoFile
INVARIANT TypeOK
INVARIANT RowsDisjoint
INVARIANT ImportIsComplete
INVARIANT ReadsBack
PROPERTY NotOverwritten
