\* One thread, one power loss between two calls of the same charge.
SPECIFICATION PowerSpec
CONSTANTS
  Workers = {w1}
  Subs = {s1}
  Attempts = {1}
  ContactActions = {}
  Amounts = {1}
  Methods <- MCMethods
  Mandate <- MCMandate
  Named <- MCNamed
  NoRequest = NoRequest
  MaxTime = 0
  MaxCalls = 2
  MaxFaults = 0
  MaxLosses = 1
INVARIANT AtMostOnce
\* The calls and the losses are bounded, so every behaviour comes to rest.
CHECK_DEADLOCK FALSE
