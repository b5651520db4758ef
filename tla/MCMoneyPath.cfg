\* Two threads, one subscription, one attempt: a charge and a contact key,
\* three calls, up to two crashes or errors anywhere.
SPECIFICATION FairSpec
CONSTANTS
  Workers = {w1, w2}
  Subs = {s1}
  Attempts = {1}
  ContactActions <- MCContactActions
  Amounts = {0, 1, 2}
  Methods <- MCMethods
  Mandate <- MCMandate
  Named <- MCNamed
  NoRequest = NoRequest
  MaxTime = 1
  MaxCalls = 3
  MaxFaults = 2
INVARIANTS
  TypeOK
  AtMostOnce
  ReceiptsAreTrue
  WithinEnvelope
  StrandedOnlyByFaults
PROPERTIES
  ClaimsSettle
  ImplementsOnceOnly
\* The calls are bounded by MaxCalls, so every behaviour comes to rest.
CHECK_DEADLOCK FALSE
