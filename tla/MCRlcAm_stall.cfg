SPECIFICATION Spec
CONSTANTS
  Window = 2
  Length <- TwoSdus
  Starts = {3}
  MaxRetx = 1
  PollPdu = 0
  PollByte = 0
  MaxWindow = 0
  MaxSnPerStatus = 2
  MaxGrant = 2
  MaxInFlight = 2
  MaxLosses = 1
  MaxDiscards = 0
  MaxCount = 2
  None = None
CHECK_DEADLOCK FALSE
INVARIANTS NoSilentStall
