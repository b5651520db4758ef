----------------------------- MODULE MCRecoveryLoop -----------------------------
(***************************************************************************)
(* RecoveryLoop for model checking: the error tuples of the code, mandates  *)
(* that are lapsed, run out during the ladder or last, and four set-ups.    *)
(***************************************************************************)
EXTENDS RecoveryLoop

(* What a record's error tuple says, and what is true of it; the last tuple *)
(* is one that no class emits.                                              *)
MCDeclines ==
  UNION {{[candidates |-> C, truth |-> class] : class \in C} : C \in TUPLE_INDEX}
    \cup {[candidates |-> {}, truth |-> "HARD_NOT_PERMITTED"]}

(* Months that turn soon and late, propensities that never reach the floor, *)
(* fall below it after an attempt, and never do.                            *)
MCRecords ==
  {[candidates |-> d.candidates, truth |-> d.truth, method |-> m, plan_amount |-> a,
    max_amount |-> 12999, allowed_method |-> "CARD", expiry |-> e,
    month_turn |-> turn, patience |-> p] :
   d \in MCDeclines, m \in {"CARD", "UPI_AUTOPAY"}, a \in {499, 12999, 25999},
   e \in {-120, 60, 4000}, turn \in {150, 500}, p \in {0, 1, 8}}

(* config/agent-frozen.json; as many attempts as the fields allow; a ladder *)
(* that outlasts the write-off; a window shorter than the ladder.           *)
Frozen ==
  [max_charge_attempts |-> 3, max_contact_actions |-> 2,
   soft_retry_delays |-> <<48, 96, 168>>, technical_retry_delay |-> 36,
   limit_exceeded_delay |-> 48, payday_alignment |-> TRUE, payday_buffer |-> 8,
   payday_max_wait |-> 240, contact_delay |-> 12, contact_on_expiry |-> TRUE,
   ambiguity_shortens_ladder |-> TRUE, hitl_amount_threshold |-> 5000,
   recovery_window |-> 720, queue |-> TRUE]
Greedy ==
  [Frozen EXCEPT !.max_charge_attempts = 8, !.max_contact_actions = 4,
                 !.ambiguity_shortens_ladder = FALSE, !.hitl_amount_threshold = 20000]
Slow == [Frozen EXCEPT !.soft_retry_delays = <<400, 900>>, !.queue = FALSE]
Short ==
  [Frozen EXCEPT !.recovery_window = 60, !.contact_on_expiry = FALSE, !.payday_alignment = FALSE]
MCConfigs == {Frozen, Greedy, Slow, Short}
===============================================================================
