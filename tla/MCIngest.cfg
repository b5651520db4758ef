\* Two handlers, every kind of event, two of them nameless, three deliveries,
\* one death.
SPECIFICATION FairSpec
CONSTANTS
  Handlers = {h1, h2}
  Events = {"paid", "x", "y", "noise", "toxic"}
  Bodies = {"full", "bare", "bad", "huge"}
  BodyOf <- MCBodyOf
  Kind <- MCKind
  Distinguishing = {"full"}
  Nameless = {"paid", "y"}
  MaxDeliveries = 3
  MaxFaults = 1
INVARIANTS
  TypeOK
  RedeliveriesAddNothing
  LogAccountsForTable
PROPERTIES
  HandlersReturn
  ImplementsInbox
\* The deliveries are bounded by MaxDeliveries, so every behaviour comes to rest.
CHECK_DEADLOCK FALSE
