\* Two threads, one charge key, four calls, one error or crash, two power losses.
SPECIFICATION PowerSpec
CONSTANTS
  Workers = {w1, w2}
  Subs = {s1}
  Attempts = {1}
  ContactActions = {}
  Amounts = {1}
  Methods <- MCMethods
  Mandate <- MCMandate
  Named <- MCNamed
  NoRequest = NoRequest
  MaxTime = 0
  MaxCalls = 4
  MaxFaults = 1
  MaxLosses = 2
SYMMETRY MCSymmetry
INVARIANTS
  RepeatsOnlyByPowerLoss
  SurvivingResultsAreTrue
\* The calls and the losses are bounded, so every behaviour comes to rest.
CHECK_DEADLOCK FALSE
