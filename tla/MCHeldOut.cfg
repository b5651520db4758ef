\* Two seeds, sizes and shares of them in five datasets, five commands, two of which may die.
SPECIFICATION Spec
CONSTANTS
  Seeds = {1, 2}
  Dataset <- MCDataset
  HashOf <- MCHashOf
  MaxCommands = 5
  MaxCrashes = 2
INVARIANTS
  TypeOK
  LooksAreLogged
  ReportsCountTheirRun
  ChecksumNamesTheScored
  CompleteMeansConsistent
  SealHoldsUnlessMoved
\* The commands are bounded by MaxCommands, so every behaviour comes to rest.
CHECK_DEADLOCK FALSE
