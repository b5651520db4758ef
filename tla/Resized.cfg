\* The same seed in two sizes, and nothing dies.
SPECIFICATION Spec
CONSTANTS
  Seeds = {1, 2}
  Dataset <- MCOneShare
  HashOf <- MCHashOf
  MaxCommands = 4
  MaxCrashes = 0
INVARIANT HeldOutStaysUnseen
CHECK_DEADLOCK FALSE
