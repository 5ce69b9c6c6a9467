SPECIFICATION FairSpec
CONSTANTS
  Window = 2
  Length <- Lengths
  Starts = {3}
  MaxRetx = 1
  PollPdu = 2
  PollByte = 2
  MaxWindow = 0
  MaxSnPerStatus = 2
  MaxGrant = 2
  MaxInFlight = 2
  MaxLosses = 1
  MaxDiscards = 1
  MaxCount = 2
  None = None
CHECK_DEADLOCK FALSE
INVARIANTS WindowsAgree MaxRetxTold
PROPERTIES ImplementsBearer AllConfirmed
