------------------------------ MODULE RecoveryLoop ------------------------------
(***************************************************************************)
(* The recovery loop over one failed charge: eval/harness.run_record, which *)
(* asks a policy for a decision, enforces the safety envelope and then asks *)
(* the world, with the policies it runs: policy/agent.ReclaimAgent (over    *)
(* diagnose/classifier and diagnose/propensity, policy/timing and           *)
(* policy/hitl) and the baselines of eval/baselines.  Times are hours since *)
(* the charge failed.                                                       *)
(***************************************************************************)
EXTENDS Integers, Sequences

CONSTANTS
  Records,                \* the failed charges a behaviour may be about
  Configs,                \* how the agent may be set up
  Policies,               \* which policies may be run
  MAX_SLOTS,              \* actions the harness lets reach the world
  RECOVERY_WINDOW_HOURS   \* when the harness writes a charge off

Policy == {"agent", "do_nothing", "retry_once", "retry_3x_fixed", "contact_once"}

(* The classes of a decline in the order the classifier prefers them.       *)
AMBIGUITY_PREFERENCE ==
  <<"SOFT_INSUFFICIENT_FUNDS", "HARD_DO_NOT_HONOR", "SOFT_ISSUER_TECHNICAL",
    "SOFT_LIMIT_EXCEEDED", "EXPIRY_CARD_EXPIRED", "EXPIRY_MANDATE_EXPIRED",
    "HARD_RISK_FLAGGED", "HARD_MANDATE_REVOKED", "HARD_NOT_PERMITTED", "UNKNOWN">>

DeclineClass == {AMBIGUITY_PREFERENCE[i] : i \in 1..10}

is_hard(class) ==
  class \in {"HARD_DO_NOT_HONOR", "HARD_RISK_FLAGGED", "HARD_MANDATE_REVOKED",
             "HARD_NOT_PERMITTED"}

(* The classes behind each error tuple the taxonomy knows: every class has  *)
(* a tuple of its own, and one is shared.                                   *)
TUPLE_INDEX ==
  {{class} : class \in DeclineClass}
    \cup {{"SOFT_INSUFFICIENT_FUNDS", "SOFT_ISSUER_TECHNICAL", "HARD_DO_NOT_HONOR"}}

Methods == {"CARD", "UPI_AUTOPAY", "EMANDATE"}

(* candidates are the classes that emit the record's error tuple ({} when   *)
(* no class does), truth the sealed true class, patience the number of      *)
(* attempts after which the propensity falls below the agent's floor: no    *)
(* attempt made ever raises it, whatever the record and the floor are.      *)
Record ==
  [candidates: SUBSET DeclineClass, truth: DeclineClass,
   method: Methods, plan_amount: Nat,
   max_amount: Nat, allowed_method: Methods, expiry: Int,
   month_turn: Nat, patience: Nat]

(* The knobs of AgentConfig; queue tells whether the agent was given one.   *)
Config ==
  [max_charge_attempts: Nat, max_contact_actions: Nat,
   soft_retry_delays: Seq(Nat), technical_retry_delay: Nat, limit_exceeded_delay: Nat,
   payday_alignment: BOOLEAN, payday_buffer: Nat, payday_max_wait: Nat,
   contact_delay: Nat, contact_on_expiry: BOOLEAN,
   ambiguity_shortens_ladder: BOOLEAN, hitl_amount_threshold: Nat,
   recovery_window: Nat, queue: BOOLEAN]

ASSUME RecordsAssumption ==
  \A r \in Records : r \in Record /\ (r.candidates # {} => r.truth \in r.candidates)
ASSUME ConfigsAssumption ==
  \A c \in Configs : c \in Config /\ c.soft_retry_delays # <<>>
ASSUME PoliciesAssumption == Policies \subseteq Policy
ASSUME LimitsAssumption == MAX_SLOTS \in Nat \ {0} /\ RECOVERY_WINDOW_HOURS \in Nat

VARIABLES
  record, config, policy,      \* chosen once
  elapsed,                     \* hours at which the last action happened
  charge_attempts, contact_actions,
  hard_decline_retries,
  terminal,                    \* the terminal reason, "none" while the loop runs
  review                       \* the item in the review queue, "none" without

chosen == <<record, config, policy>>
spent == <<elapsed, charge_attempts, contact_actions, hard_decline_retries>>
vars == <<chosen, spent, terminal, review>>

(* len(history): what reached the world was a charge or a contact.          *)
slot == charge_attempts + contact_actions

Init ==
  /\ record \in Records /\ config \in Configs /\ policy \in Policies
  /\ elapsed = 0
  /\ charge_attempts = 0 /\ contact_actions = 0 /\ hard_decline_retries = 0
  /\ terminal = "none"
  /\ review = "none"

AtLeast(a, b) == IF a < b THEN b ELSE a
AtMost(a, b) == IF a < b THEN a ELSE b

-------------------------------------------------------------------------------
(* Diagnosis.                                                               *)

(* The first of the candidates in the order of preference.                  *)
prefer(candidates) ==
  AMBIGUITY_PREFERENCE[CHOOSE i \in 1..10 :
    /\ AMBIGUITY_PREFERENCE[i] \in candidates
    /\ \A j \in 1..10 : AMBIGUITY_PREFERENCE[j] \in candidates => i <= j]

decline_class == IF record.candidates = {} THEN "UNKNOWN" ELSE prefer(record.candidates)

(* Mutant: only the class that was chosen counts.                           *)
HardChosen == record.candidates = {} \/ is_hard(decline_class)

hard_possible == record.candidates = {} \/ \E c \in record.candidates : is_hard(c)

(* score >= retry_min_propensity.                                           *)
Promising == charge_attempts < record.patience

-------------------------------------------------------------------------------
(* The agent.                                                               *)

charge_budget ==
  AtLeast(0, IF config.ambiguity_shortens_ladder /\ hard_possible
             THEN config.max_charge_attempts - 1
             ELSE config.max_charge_attempts)

ladder ==
  config.soft_retry_delays[AtMost(charge_attempts + 1, Len(config.soft_retry_delays))]

payday == record.month_turn + config.payday_buffer

(* _retry_target_hours.                                                     *)
RetryTarget ==
  CASE decline_class = "SOFT_ISSUER_TECHNICAL" ->
         AtLeast(ladder, config.technical_retry_delay)
    [] decline_class = "SOFT_LIMIT_EXCEEDED" ->
         AtLeast(ladder, config.limit_exceeded_delay)
    [] /\ decline_class = "SOFT_INSUFFICIENT_FUNDS"
       /\ config.payday_alignment
       /\ payday <= config.payday_max_wait -> AtLeast(ladder, payday)
    [] OTHER -> ladder

RetryDelay == AtLeast(1, RetryTarget - elapsed)

(* Mandate.permits, and mandate.permits, which also wants amount > 0.       *)
Permits(at) ==
  /\ record.plan_amount <= record.max_amount
  /\ record.method = record.allowed_method
  /\ at <= record.expiry

(* Mutant: the agent asks about now, not about the planned moment.          *)
AgentPermitsNow == record.plan_amount > 0 /\ Permits(elapsed)

AgentPermits == record.plan_amount > 0 /\ Permits(elapsed + RetryDelay)

(* Mutant: a retry more than a day ahead is left for a later decision.      *)
WantsChargeSoon ==
  /\ charge_attempts < charge_budget
  /\ ~is_hard(decline_class) /\ decline_class # "EXPIRY_CARD_EXPIRED"
  /\ Promising /\ RetryDelay <= 36

WantsCharge ==
  /\ charge_attempts < charge_budget
  /\ ~is_hard(decline_class)
  /\ decline_class # "EXPIRY_CARD_EXPIRED"
  /\ Promising

(* Mutant: the first attempt is let through, a human is asked about others. *)
NeedsHumanLater == charge_attempts > 0 /\ record.plan_amount > config.hitl_amount_threshold

NeedsHuman == record.plan_amount > config.hitl_amount_threshold

(* The outreach of decide: contact_on_hard_decline makes no difference, the *)
(* fallback sends the same link.                                            *)
Outreach ==
  IF decline_class = "EXPIRY_CARD_EXPIRED" /\ record.method = "CARD"
  THEN IF config.contact_on_expiry THEN "REQUEST_CARD_UPDATE" ELSE "STOP"
  ELSE "SEND_PAYMENT_LINK"

Stopping(reason) == [action |-> "STOP", delay |-> 0, reason |-> reason]
Acting(action, delay) == [action |-> action, delay |-> delay, reason |-> "none"]

AgentDecision ==
  CASE elapsed >= config.recovery_window -> Stopping("RECOVERY_WINDOW_CLOSED")
    [] elapsed < config.recovery_window /\ WantsCharge /\ AgentPermits ->
         IF NeedsHuman THEN Acting("ESCALATE_HUMAN", 0) ELSE Acting("RETRY_CHARGE", RetryDelay)
    [] /\ elapsed < config.recovery_window /\ ~(WantsCharge /\ AgentPermits)
       /\ contact_actions < config.max_contact_actions
       /\ Outreach # "STOP" -> Acting(Outreach, AtLeast(1, config.contact_delay - elapsed))
    [] OTHER ->
         Stopping(IF is_hard(decline_class) THEN "HARD_DECLINE_STOP" ELSE "POLICY_STOPPED")

-------------------------------------------------------------------------------
(* The baselines.                                                           *)

Baseline(attempts, limit, action) ==
  IF attempts >= limit THEN Stopping("POLICY_STOPPED") ELSE Acting(action, 24)

decision ==
  CASE policy = "agent"          -> AgentDecision
    [] policy = "do_nothing"     -> Stopping("NO_ACTION_TAKEN")
    [] policy = "retry_once"     -> Baseline(charge_attempts, 1, "RETRY_CHARGE")
    [] policy = "retry_3x_fixed" -> Baseline(charge_attempts, 3, "RETRY_CHARGE")
    [] policy = "contact_once"   -> Baseline(contact_actions, 1, "SEND_PAYMENT_LINK")

-------------------------------------------------------------------------------
(* The harness: one action for each way an iteration of run_record ends.    *)

Running == terminal = "none"
t_hours == elapsed + decision.delay
moves_money == decision.action = "RETRY_CHARGE"

Halt(reason) ==
  /\ terminal' = reason
  /\ UNCHANGED <<chosen, spent>>

Stop ==
  /\ Running
  /\ decision.action = "STOP"
  /\ Halt(decision.reason)
  /\ UNCHANGED review

(* decide has put the item into the queue, if there is one.                 *)
Escalate ==
  /\ Running
  /\ decision.action = "ESCALATE_HUMAN"
  /\ Halt("ESCALATED_TO_HUMAN")
  /\ review' = IF config.queue THEN "pending" ELSE review

Proposes == Running /\ decision.action \notin {"STOP", "ESCALATE_HUMAN"}

(* Mutant: one action too many.                                             *)
SlotLeftAtCap == slot <= MAX_SLOTS

SlotLeft == slot < MAX_SLOTS

AttemptCap ==
  /\ Proposes /\ ~SlotLeft
  /\ Halt("ATTEMPT_CAP_REACHED")
  /\ UNCHANGED review

WithinWindow == t_hours <= RECOVERY_WINDOW_HOURS

(* Mutant: an action past the window is skipped and the policy asked again. *)
WindowSkipped ==
  /\ Proposes /\ SlotLeft /\ ~WithinWindow
  /\ UNCHANGED vars

WindowClosed ==
  /\ Proposes /\ SlotLeft /\ ~WithinWindow
  /\ Halt("RECOVERY_WINDOW_CLOSED")
  /\ UNCHANGED review

InEnvelope == moves_money => Permits(t_hours)

Blocked ==
  /\ Proposes /\ SlotLeft /\ WithinWindow /\ ~InEnvelope
  /\ Halt("MANDATE_VIOLATION_BLOCKED")
  /\ UNCHANGED review

(* What a retry, or a card update, can never bring about in the world.      *)
CanSucceed ==
  /\ moves_money => record.truth \notin {"HARD_MANDATE_REVOKED", "HARD_NOT_PERMITTED",
                                         "EXPIRY_MANDATE_EXPIRED"}
  /\ decision.action = "REQUEST_CARD_UPDATE" => record.method = "CARD"

Resolve(succeeded) ==
  /\ Proposes /\ SlotLeft /\ WithinWindow /\ InEnvelope
  /\ succeeded => CanSucceed
  /\ elapsed' = t_hours
  /\ terminal' = IF succeeded THEN "RECOVERED" ELSE terminal
  /\ UNCHANGED <<chosen, review>>

Charge ==
  /\ moves_money
  /\ \E succeeded \in BOOLEAN : Resolve(succeeded)
  /\ charge_attempts' = charge_attempts + 1
  /\ hard_decline_retries' =
       IF is_hard(record.truth) THEN hard_decline_retries + 1 ELSE hard_decline_retries
  /\ UNCHANGED contact_actions

Contact ==
  /\ ~moves_money
  /\ \E succeeded \in BOOLEAN : Resolve(succeeded)
  /\ contact_actions' = contact_actions + 1
  /\ UNCHANGED <<charge_attempts, hard_decline_retries>>

Loop == Stop \/ Escalate \/ AttemptCap \/ WindowClosed \/ Blocked \/ Charge \/ Contact

(* An operator approves or rejects the pending item.                        *)
Review(verdict) ==
  /\ review = "pending"
  /\ review' = verdict
  /\ UNCHANGED <<chosen, spent, terminal>>

Next == Loop \/ \E verdict \in {"approved", "rejected"} : Review(verdict)

Spec == Init /\ [][Next]_vars

(* run_record is a loop in one thread over pure, total calls: it goes on    *)
(* until it breaks.  Nobody need ever look at the review queue.             *)
FairSpec == Spec /\ WF_vars(Loop)

-------------------------------------------------------------------------------
(* Properties.                                                              *)

TerminalReason ==
  {"RECOVERED", "POLICY_STOPPED", "HARD_DECLINE_STOP", "ESCALATED_TO_HUMAN", "NO_ACTION_TAKEN",
   "RECOVERY_WINDOW_CLOSED", "ATTEMPT_CAP_REACHED", "MANDATE_VIOLATION_BLOCKED"}

(* Types.  No policy gets more than MAX_SLOTS actions out of the harness,   *)
(* and none of them later than the write-off (outcome_model.MAX_SLOTS,      *)
(* RECOVERY_WINDOW_HOURS).                                                  *)
TypeOK ==
  /\ record \in Records /\ config \in Configs /\ policy \in Policies
  /\ charge_attempts \in Nat /\ contact_actions \in Nat /\ slot <= MAX_SLOTS
  /\ elapsed \in 0..RECOVERY_WINDOW_HOURS
  /\ hard_decline_retries \in 0..charge_attempts
  /\ terminal \in {"none"} \cup TerminalReason
  /\ review \in {"none", "pending", "approved", "rejected"}

(* Consent has to hold when the money moves, not when the charge is decided *)
(* upon: whatever the policy, no charge reaches the world outside the       *)
(* mandate (harness.run_record, "safety envelope").                         *)
ChargesStayWithinMandate == [][charge_attempts' > charge_attempts => Permits(elapsed')]_vars

(* A set-up with room for its own budgets: the harness's limits lie beyond  *)
(* the agent's.  That of config/agent-frozen.json is one; the bounds of     *)
(* AgentConfig's fields admit others.                                       *)
Fits(c) ==
  /\ c.max_charge_attempts + c.max_contact_actions <= MAX_SLOTS
  /\ \A hours \in {c.soft_retry_delays[i] : i \in DOMAIN c.soft_retry_delays}
        \cup {c.technical_retry_delay, c.limit_exceeded_delay, c.payday_max_wait,
              c.contact_delay} : hours + MAX_SLOTS <= RECOVERY_WINDOW_HOURS

(* The harness never has to stop the agent: not for a mandate (ADR-0003     *)
(* criterion 4, test_the_agent_never_proposes_a_charge_the_mandate_forbids),*)
(* not for the attempt cap (test_the_agent_always_terminates) and not for   *)
(* the window.                                                              *)
HarnessNeverIntervenes ==
  [][policy = "agent" /\ Fits(config) => ~(AttemptCap \/ WindowClosed \/ Blocked)]_vars

(* Once the agent has turned to the customer it never goes back to the      *)
(* instrument: nobody who was sent a link is debited as well (agent.decide, *)
(* "fall through to outreach instead").                                     *)
OutreachEndsCharging ==
  [][policy = "agent" /\ contact_actions > 0 => UNCHANGED charge_attempts]_vars

(* The agent charges a decline that is truly hard only when the error tuple *)
(* is one that soft declines emit as well, or one nobody knows, and then    *)
(* spends at least one attempt less than it might                           *)
(* (test_the_agents_remaining_hard_retries_are_exactly_the_ambiguity_floor, *)
(* "Uncertainty should cost attempts").                                     *)
HardRetriesAreTheAmbiguityFloor ==
  policy = "agent" /\ hard_decline_retries > 0 =>
    /\ record.candidates # {record.truth}
    /\ config.ambiguity_shortens_ladder => hard_decline_retries < config.max_charge_attempts

(* A human is asked before anything else is done: no charge above the       *)
(* threshold reaches the world, before an escalation or without one, and an *)
(* escalated record has cost nothing (hitl, "submitting is instead of       *)
(* executing"; test_an_escalated_action_does_not_execute).                  *)
EscalationComesFirst ==
  /\ policy = "agent" /\ record.plan_amount > config.hitl_amount_threshold =>
       charge_attempts = 0
  /\ terminal = "ESCALATED_TO_HUMAN" => slot = 0
  /\ review # "none" => terminal = "ESCALATED_TO_HUMAN"

(* Every record comes to a terminal reason under every policy               *)
(* (run_record's while True; Policy.decide, "must terminate").              *)
EveryRecordEnds == <>(terminal # "none")
===============================================================================
