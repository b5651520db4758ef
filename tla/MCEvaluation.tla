----------------------------- MODULE MCEvaluation -----------------------------
(***************************************************************************)
(* Evaluation for model checking: two records of a split, of every kind the *)
(* agent treats differently, with truths that answer early, late or never.  *)
(***************************************************************************)
EXTENDS Evaluation

R(candidates, truth, method, amount, expiry, month_turn, patience) ==
  [candidates |-> candidates, truth |-> truth, method |-> method, plan_amount |-> amount,
   max_amount |-> 12999, allowed_method |-> method, expiry |-> expiry,
   month_turn |-> month_turn, patience |-> patience]

Short_of_funds ==
  R({"SOFT_INSUFFICIENT_FUNDS"}, "SOFT_INSUFFICIENT_FUNDS", "UPI_AUTOPAY", 499, 4000, 200, 8)
Ambiguous ==
  R({"SOFT_INSUFFICIENT_FUNDS", "SOFT_ISSUER_TECHNICAL", "HARD_DO_NOT_HONOR"},
    "SOFT_ISSUER_TECHNICAL", "CARD", 499, 60, 500, 8)
Expired == R({"EXPIRY_CARD_EXPIRED"}, "EXPIRY_CARD_EXPIRED", "CARD", 499, 4000, 500, 8)
Large == R({"SOFT_LIMIT_EXCEEDED"}, "SOFT_LIMIT_EXCEEDED", "CARD", 12999, 4000, 500, 8)
Limited == [Large EXCEPT !.plan_amount = 499]
Refused == R({"HARD_RISK_FLAGGED"}, "HARD_RISK_FLAGGED", "CARD", 25999, -120, 500, 0)

Overcharged == [Short_of_funds EXCEPT !.plan_amount = 25999]

MCRecords == {Short_of_funds, Ambiguous, Expired, Large, Limited, Refused, Overcharged}
MCBatches ==
  {<<Short_of_funds, Large>>, <<Large, Ambiguous>>, <<Expired, Refused>>,
   <<Overcharged, Limited>>}

(* Draws that no probability reaches until the slot, and then one that a    *)
(* likely action does, or any.                                              *)
Draws(hit, p) == [i \in 1 .. 8 |-> IF i = hit THEN p ELSE 9999]
W(funds_return, outage_end, intent, draws) ==
  [funds_return |-> funds_return, outage_end |-> outage_end, base_intent |-> intent,
   customer |-> 100, draws |-> draws]
MCTruths ==
  {W(100, 40, 5000, Draws(hit, p)) : hit \in {1, 2, 5}, p \in {900, 3000, 6000}}
    \cup {W(20, 3, 5000, Draws(1, 8000)), W(400, 59, 5000, Draws(1, 6000)),
           W(20, 3, 5000, Draws(3, 6000)), W(100, 40, 7000, Draws(4, 4000))}

MCChosen == <<"do_nothing", "retry_once", "retry_3x_fixed", "contact_once", "agent">>

Frozen ==
  [max_charge_attempts |-> 3, max_contact_actions |-> 2,
   soft_retry_delays |-> <<48, 96, 168>>, technical_retry_delay |-> 36,
   limit_exceeded_delay |-> 48, payday_alignment |-> TRUE, payday_buffer |-> 8,
   payday_max_wait |-> 240, contact_delay |-> 12, contact_on_expiry |-> TRUE,
   ambiguity_shortens_ladder |-> TRUE, hitl_amount_threshold |-> 5000,
   recovery_window |-> 720, queue |-> FALSE]
MCConfigs == {Frozen, [Frozen EXCEPT !.queue = TRUE]}
===============================================================================
