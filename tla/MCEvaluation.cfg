\* Splits of two records, the policies of the command line, two evaluations.
SPECIFICATION EvaluationSpec
CONSTANTS
  Records <- MCRecords
  Configs <- MCConfigs
  Policies = {"agent", "do_nothing", "retry_once", "retry_3x_fixed", "contact_once"}
  MAX_SLOTS = 8
  RECOVERY_WINDOW_HOURS = 720
  Batches <- MCBatches
  Truths <- MCTruths
  Chosen <- MCChosen
  max_attempts = 4
  MaxRuns = 2
INVARIANTS
  EvaluationTypeOK
  BeatenOnlyBeyondItsReach
  MoreRetriesNeverLose
  BooksBalance
  QueueHoldsEveryEscalation
\* An evaluation ends.
CHECK_DEADLOCK FALSE
