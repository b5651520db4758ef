\* Two threads, two bodies, three appends, one error or crash, one power
\* loss and one edit, in any order.
SPECIFICATION FairSpec
CONSTANTS
  Writers = {w1, w2}
  Bodies = {b1, b2}
  Forged = Forged
  MaxAppends = 3
  MaxFaults = 1
  MaxLosses = 1
  MaxEdits = 1
INVARIANTS
  TypeOK
  ChainVerifies
  ForgerMustRewriteTheTail
  KeptHashAnchorsHistory
PROPERTIES
  ImplementsLog
  AppendsEnd
\* The appends are bounded by MaxAppends, so every behaviour comes to rest.
CHECK_DEADLOCK FALSE
