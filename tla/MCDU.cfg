SPECIFICATION CSpec
CONSTANTS
  UEs = {u1, u2, u3}
  Cells = {c1, c2}
  Links = {k1, k2}
  Carried <- MCCarried
  TotalPrbs = 3
  Required = {1, 2, 4}
  NoCoverage = NoCoverage
  MaxCount = 4
SYMMETRY Symmetry
INVARIANTS TypeOK PoolSound SessionsHaveLink CountersBalance
PROPERTIES ImplementsAdmission
