SPECIFICATION FairSpec
CONSTANTS
    Size <- Sizes
    Capacity = 2
    ByteLimit = 5
    HeadSize = 1
    Width = 16
    MaxDlPdu = 2
    MaxInputs = 3
    Refusals = {"update", "timer"}
INVARIANTS QueueSound TotalsExact MacKnows
PROPERTIES ReportsGoForward NothingForgotten
CHECK_DEADLOCK FALSE
