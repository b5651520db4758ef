\* The limits of the code, every policy, 1512 records under four set-ups.
SPECIFICATION FairSpec
CONSTANTS
  Records <- MCRecords
  Configs <- MCConfigs
  Policies = {"agent", "do_nothing", "retry_once", "retry_3x_fixed", "contact_once"}
  MAX_SLOTS = 8
  RECOVERY_WINDOW_HOURS = 720
INVARIANTS
  TypeOK
  HardRetriesAreTheAmbiguityFloor
  EscalationComesFirst
PROPERTIES
  HarnessNeverIntervenes
  OutreachEndsCharging
  EveryRecordEnds
\* A record whose loop has ended and whose review is done or not needed is at rest.
CHECK_DEADLOCK FALSE
