SPECIFICATION FSpec
CONSTANTS
  UEs = {u1, u2}
  Cells = {c1, c2}
  Links = {k1}
  Carried <- MCCarried
  TotalPrbs = 1
  Required = {1}
  NoCoverage = NoCoverage
  AttachFlow <- ShortFlow
  TraceMax = 8
  NoUe = NoUe
  MaxOwed = 1
SYMMETRY Symmetry
CONSTRAINT Bounds
INVARIANTS CleanLadder LockHeldForReason
PROPERTIES FrozenUntilReset
