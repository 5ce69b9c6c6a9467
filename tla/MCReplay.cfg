SPECIFICATION FairSpec
CONSTANTS
  UEs = {u1, u2}
  Plans <- AnyThree
INVARIANTS Accounted
PROPERTIES ReplayEnds
CHECK_DEADLOCK FALSE
