SPECIFICATION Spec
CONSTANTS
  Domain = {d1, d2}
  Name = {n1, n2}
  Cert = {c1, c2}
  NoCert = NoCert
  NoColumn = NoColumn
  Comments <- NoComments
  MaxRows = 3
SYMMETRY Interchangeable
INVARIANT TypeOK
INVARIANT HistoryIsUnambiguous
INVARIANT RoundTrip
