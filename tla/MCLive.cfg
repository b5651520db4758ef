SPECIFICATION Spec
CONSTANTS
  p1 = p1
  p2 = p2
  known = known
  blank = blank
  Operators = {p1, p2}
  Envelopes = {known, blank}
  DECLINE_CODES = {known}
  PROBE_PATHS <- MCPaths
  Carries <- MCCarries
  Payment <- MCPayment
  Page = 1
  MaxCalls = 4
  MaxPayments = 2
  MaxFaults = 1
  MaxUnsure = 1
CONSTRAINT FewUnsure
SYMMETRY Symmetry
INVARIANTS
  TypeOK
  TranscriptAccounts
  ArtefactsAreBacked
CHECK_DEADLOCK FALSE
