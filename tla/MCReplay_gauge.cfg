SPECIFICATION Spec
CONSTANTS
  UEs = {u1, u2}
  Plans <- AnyThree
INVARIANTS GaugeIsConnected
CHECK_DEADLOCK FALSE
