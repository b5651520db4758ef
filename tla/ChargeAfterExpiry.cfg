\* One thread; the clock passes the expiry while it holds its request.
SPECIFICATION Spec
CONSTANTS
  Workers = {w1}
  Subs = {s1}
  Attempts = {1}
  ContactActions = {}
  Amounts = {1}
  Methods <- MCMethods
  Mandate <- MCMandate
  Named <- MCNoOther
  NoRequest = NoRequest
  MaxTime = 2
  MaxCalls = 2
  MaxFaults = 0
INVARIANT NoChargeAfterExpiry
\* The calls are bounded by MaxCalls, so every behaviour comes to rest.
CHECK_DEADLOCK FALSE
