SPECIFICATION FairSpec
CONSTANTS
    Slots <- TwoSlots
    MissLimit = 2
    Lead = 1
    Ring = 1
    MaxFaults = 2
INVARIANTS OncePerBlock NoFalseMiss
PROPERTIES Recycles Served Stops
CHECK_DEADLOCK FALSE
