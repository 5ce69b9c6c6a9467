SPECIFICATION FairSpec
CONSTANTS
  Reqs = {r1, r2, r3}
  Conns = {c1, c2, c3}
  None = None
  MaxLosses = 2
INVARIANTS OneLink ReplyIsRead
PROPERTIES EveryRequestEnds
