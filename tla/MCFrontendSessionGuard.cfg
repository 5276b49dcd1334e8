SPECIFICATION QuietSpec
CONSTANTS
  r1 = r1
  r2 = r2
  n1 = n1
  Request = {r1, r2}
  Navigation = {n1}
  MaxPairs = 3
  Nobody = Nobody
PROPERTY RotatedTokensArePreserved
