--------------------------- MODULE RecoveryLoopProofs ---------------------------
(***************************************************************************)
(* Theorems about RecoveryLoop, for any records, set-ups and limits.        *)
(*                                                                          *)
(* The heart is Outreached: after a contact the agent no longer wants, or   *)
(* is no longer permitted, to charge.  It is inductive because nothing that *)
(* made it turn to the customer can change again: the class, the budget and *)
(* the propensity depend on the attempts, which stand still, and the moment *)
(* of the next charge only moves away, past an expiry it was already past.  *)
(***************************************************************************)
EXTENDS RecoveryLoop, TLAPS

(* What the agent would charge for, were no human needed.                   *)
MayCharge == WantsCharge /\ AgentPermits

Budgeted ==
  policy = "agent" => /\ charge_attempts <= charge_budget
                      /\ contact_actions <= config.max_contact_actions

Outreached == policy = "agent" /\ contact_actions > 0 => ~MayCharge

Charged ==
  policy = "agent" /\ charge_attempts > 0 => ~is_hard(decline_class) /\ ~NeedsHuman

HardInTruth == hard_decline_retries > 0 => is_hard(record.truth)

Escalated ==
  /\ terminal = "ESCALATED_TO_HUMAN" => slot = 0
  /\ review # "none" => terminal = "ESCALATED_TO_HUMAN"

(* Actions come early enough to leave room for those still to come.         *)
Timely ==
  policy = "agent" /\ Fits(config) => elapsed + MAX_SLOTS <= RECOVERY_WINDOW_HOURS + slot

LoopInv ==
  TypeOK /\ Budgeted /\ Outreached /\ Charged /\ HardInTruth /\ Escalated /\ Timely

-------------------------------------------------------------------------------
(* The numbers a decision is made of.                                       *)

LEMMA LeastAndMost ==
  ASSUME NEW a \in Int, NEW b \in Int
  PROVE  /\ AtLeast(a, b) \in Int /\ AtLeast(a, b) >= a /\ AtLeast(a, b) >= b
         /\ AtLeast(a, b) = a \/ AtLeast(a, b) = b
         /\ AtMost(a, b) = a \/ AtMost(a, b) = b
         /\ AtMost(a, b) <= a /\ AtMost(a, b) <= b
  BY DEF AtLeast, AtMost

(* The later a delay of at least an hour to a target starts, the later it   *)
(* ends.                                                                    *)
LEMMA LaterIsLater ==
  ASSUME NEW e \in Nat, NEW f \in Nat, e <= f, NEW t \in Nat, NEW x \in Int,
         f + AtLeast(1, t - f) <= x
  PROVE  e + AtLeast(1, t - e) <= x
  BY DEF AtLeast

(* The fields of the record and of the set-up.                              *)
LEMMA ChosenTyped ==
  ASSUME TypeOK
  PROVE  /\ record \in Record /\ (record.candidates # {} => record.truth \in record.candidates)
         /\ record.plan_amount \in Nat /\ record.max_amount \in Nat
         /\ record.expiry \in Int /\ record.month_turn \in Nat /\ record.patience \in Nat
         /\ record.candidates \in SUBSET DeclineClass /\ record.truth \in DeclineClass
         /\ config \in Config /\ config.soft_retry_delays # <<>>
         /\ config.soft_retry_delays \in Seq(Nat)
         /\ config.max_charge_attempts \in Nat /\ config.max_contact_actions \in Nat
         /\ config.technical_retry_delay \in Nat /\ config.limit_exceeded_delay \in Nat
         /\ config.payday_buffer \in Nat /\ config.payday_max_wait \in Nat
         /\ config.contact_delay \in Nat
         /\ config.hitl_amount_threshold \in Nat /\ config.recovery_window \in Nat
         /\ policy \in Policy
<1>1. /\ record \in Record /\ config \in Config /\ config.soft_retry_delays # <<>>
      /\ record.candidates # {} => record.truth \in record.candidates
      /\ policy \in Policy
  BY RecordsAssumption, ConfigsAssumption, PoliciesAssumption DEF TypeOK
<1> QED
  BY <1>1 DEF Record, Config

LEMMA LadderTyped ==
  ASSUME TypeOK
  PROVE  /\ ladder \in Nat
         /\ \E i \in DOMAIN config.soft_retry_delays : ladder = config.soft_retry_delays[i]
<1> DEFINE s == config.soft_retry_delays
           n == Len(s)
           k == AtMost(charge_attempts + 1, n)
<1>1. s \in Seq(Nat) /\ s # <<>> /\ charge_attempts \in Nat
  BY ChosenTyped DEF TypeOK
<1>2. n \in Nat /\ n >= 1 /\ DOMAIN s = 1..n
  BY <1>1
<1>3. k \in 1..n
  BY <1>1, <1>2 DEF AtMost
<1>4. s[k] \in Nat /\ k \in DOMAIN s
  BY <1>1, <1>2, <1>3
<1> QED
  BY <1>4 DEF ladder

LEMMA TargetTyped ==
  ASSUME TypeOK
  PROVE  /\ RetryTarget \in Nat
         /\ RetryDelay \in Nat /\ RetryDelay >= 1
         /\ elapsed + RetryDelay = AtLeast(elapsed + 1, RetryTarget)
<1>1. ladder \in Nat
  BY LadderTyped
<1>0. /\ record.month_turn \in Nat /\ config.payday_buffer \in Nat
      /\ config.technical_retry_delay \in Nat /\ config.limit_exceeded_delay \in Nat
  BY ChosenTyped
<1>2. payday \in Nat
  BY <1>0 DEF payday
<1>3. elapsed \in Nat
  BY LimitsAssumption DEF TypeOK
<1>4. RetryTarget \in Nat
  BY <1>0, <1>1, <1>2 DEF RetryTarget, AtLeast
<1> QED
  BY <1>3, <1>4 DEF RetryDelay, AtLeast

LEMMA BudgetTyped ==
  ASSUME TypeOK
  PROVE  /\ charge_budget \in Nat /\ charge_budget <= config.max_charge_attempts
         /\ config.ambiguity_shortens_ladder /\ hard_possible /\ charge_budget > 0 =>
              charge_budget < config.max_charge_attempts
<1> DEFINE m == config.max_charge_attempts
<1>1. m \in Nat
  BY ChosenTyped
<1> HIDE DEF m
<1>2. charge_budget = AtLeast(0, IF config.ambiguity_shortens_ladder /\ hard_possible
                                 THEN m - 1 ELSE m)
  BY DEF charge_budget, m
<1>3. CASE config.ambiguity_shortens_ladder /\ hard_possible
  <2>1. charge_budget = AtLeast(0, m - 1)
    BY <1>2, <1>3
  <2> QED
    BY <1>1, <2>1 DEF AtLeast, m
<1>4. CASE ~(config.ambiguity_shortens_ladder /\ hard_possible)
  <2>1. charge_budget = AtLeast(0, m)
    BY <1>2, <1>4
  <2> QED
    BY <1>1, <1>4, <2>1 DEF AtLeast, m
<1> QED
  BY <1>3, <1>4

-------------------------------------------------------------------------------
(* Decisions.                                                               *)

Actions == {"STOP", "ESCALATE_HUMAN", "RETRY_CHARGE", "SEND_PAYMENT_LINK", "REQUEST_CARD_UPDATE"}

(* What an agent's decision says about the gates it went through.           *)
LEMMA AgentDecides ==
  ASSUME TypeOK, policy = "agent"
  PROVE  /\ decision.action \in Actions
         /\ decision.action = "STOP" => decision.reason \in TerminalReason \ {"ESCALATED_TO_HUMAN"}
         /\ decision.action = "ESCALATE_HUMAN" => MayCharge /\ NeedsHuman
         /\ decision.action = "RETRY_CHARGE" =>
              MayCharge /\ ~NeedsHuman /\ decision.delay = RetryDelay
         /\ decision.action \in {"SEND_PAYMENT_LINK", "REQUEST_CARD_UPDATE"} =>
              /\ ~MayCharge
              /\ contact_actions < config.max_contact_actions
              /\ decision.delay = AtLeast(1, config.contact_delay - elapsed)
<1>1. decision = AgentDecision
  BY DEF decision
<1>2. Outreach \in {"STOP", "SEND_PAYMENT_LINK", "REQUEST_CARD_UPDATE"}
  BY DEF Outreach
<1>3. CASE elapsed >= config.recovery_window
  <2>1. decision = Stopping("RECOVERY_WINDOW_CLOSED")
    <3>1. ~(elapsed < config.recovery_window)
      BY <1>3, ChosenTyped, LimitsAssumption DEF TypeOK
    <3> QED
      BY <1>1, <1>3, <3>1 DEF AgentDecision
  <2> QED
    BY <2>1 DEF Stopping, Actions, TerminalReason
<1>4. CASE ~(elapsed >= config.recovery_window)
  <2>0. elapsed < config.recovery_window
    BY <1>4, ChosenTyped, LimitsAssumption DEF TypeOK
  <2>1. CASE MayCharge
    <3>1. decision = IF NeedsHuman THEN Acting("ESCALATE_HUMAN", 0)
                                   ELSE Acting("RETRY_CHARGE", RetryDelay)
      BY <1>1, <1>4, <2>0, <2>1 DEF AgentDecision, MayCharge
    <3> QED
      BY <2>1, <3>1 DEF Acting, Actions
  <2>2. CASE ~MayCharge /\ contact_actions < config.max_contact_actions /\ Outreach # "STOP"
    <3>1. decision = Acting(Outreach, AtLeast(1, config.contact_delay - elapsed))
      BY <1>1, <1>4, <2>0, <2>2 DEF AgentDecision, MayCharge
    <3> QED
      BY <1>2, <2>2, <3>1 DEF Acting, Actions
  <2>3. CASE ~MayCharge /\ ~(contact_actions < config.max_contact_actions /\ Outreach # "STOP")
    <3>1. decision = Stopping(IF is_hard(decline_class) THEN "HARD_DECLINE_STOP"
                                                        ELSE "POLICY_STOPPED")
      BY <1>1, <1>4, <2>0, <2>3 DEF AgentDecision, MayCharge
    <3> QED
      BY <3>1 DEF Stopping, Actions, TerminalReason
  <2> QED
    BY <2>1, <2>2, <2>3
<1> QED
  BY <1>3, <1>4

LEMMA BaselineDecides ==
  ASSUME TypeOK, policy # "agent"
  PROVE  /\ decision.action \in Actions \ {"ESCALATE_HUMAN"}
         /\ decision.action = "STOP" => decision.reason \in TerminalReason \ {"ESCALATED_TO_HUMAN"}
         /\ decision.delay \in Nat
<1>1. policy \in Policy \ {"agent"}
  BY ChosenTyped
<1>2. CASE policy = "do_nothing"
  BY <1>2 DEF decision, Stopping, Actions, TerminalReason
<1>3. CASE policy = "retry_once"
  BY <1>3 DEF decision, Baseline, Stopping, Acting, Actions, TerminalReason
<1>4. CASE policy = "retry_3x_fixed"
  BY <1>4 DEF decision, Baseline, Stopping, Acting, Actions, TerminalReason
<1>5. CASE policy = "contact_once"
  BY <1>5 DEF decision, Baseline, Stopping, Acting, Actions, TerminalReason
<1> QED
  BY <1>1, <1>2, <1>3, <1>4, <1>5 DEF Policy

LEMMA DecisionTyped ==
  ASSUME TypeOK, decision.action \notin {"STOP", "ESCALATE_HUMAN"}
  PROVE  /\ decision.delay \in Nat
         /\ policy = "agent" => decision.delay >= 1
         /\ ~moves_money => decision.action \in {"SEND_PAYMENT_LINK", "REQUEST_CARD_UPDATE"}
<1>1. CASE policy = "agent"
  <2>1. CASE decision.action = "RETRY_CHARGE"
    BY <1>1, <2>1, AgentDecides, TargetTyped DEF moves_money
  <2>2. CASE decision.action \in {"SEND_PAYMENT_LINK", "REQUEST_CARD_UPDATE"}
    <3>1. config.contact_delay - elapsed \in Int
      BY ChosenTyped, LimitsAssumption DEF TypeOK
    <3>2. decision.delay = AtLeast(1, config.contact_delay - elapsed)
      BY <1>1, <2>2, AgentDecides
    <3> QED
      BY <2>2, <3>1, <3>2 DEF AtLeast
  <2> QED
    BY <1>1, <2>1, <2>2, AgentDecides DEF Actions
<1>2. CASE policy # "agent"
  BY <1>2, BaselineDecides DEF Actions, moves_money
<1> QED
  BY <1>1, <1>2

(* A set-up that fits leaves room for its own actions.                      *)
LEMMA FittingTimes ==
  ASSUME TypeOK, Fits(config)
  PROVE  /\ config.max_charge_attempts + config.max_contact_actions <= MAX_SLOTS
         /\ MAX_SLOTS <= RECOVERY_WINDOW_HOURS
         /\ RetryTarget + MAX_SLOTS <= RECOVERY_WINDOW_HOURS
         /\ config.contact_delay + MAX_SLOTS <= RECOVERY_WINDOW_HOURS
<1>0. /\ record.month_turn \in Nat /\ config.payday_buffer \in Nat /\ config.contact_delay \in Nat
      /\ config.technical_retry_delay \in Nat /\ config.limit_exceeded_delay \in Nat
      /\ config.payday_max_wait \in Nat
  BY ChosenTyped
<1>1. /\ config.max_charge_attempts + config.max_contact_actions <= MAX_SLOTS
      /\ config.technical_retry_delay + MAX_SLOTS <= RECOVERY_WINDOW_HOURS
      /\ config.limit_exceeded_delay + MAX_SLOTS <= RECOVERY_WINDOW_HOURS
      /\ config.payday_max_wait + MAX_SLOTS <= RECOVERY_WINDOW_HOURS
      /\ config.contact_delay + MAX_SLOTS <= RECOVERY_WINDOW_HOURS
  BY DEF Fits
<1>2. ladder + MAX_SLOTS <= RECOVERY_WINDOW_HOURS /\ ladder \in Nat
  BY LadderTyped DEF Fits
<1>3. payday \in Nat
  BY <1>0 DEF payday
<1>4. RetryTarget + MAX_SLOTS <= RECOVERY_WINDOW_HOURS
  BY <1>0, <1>1, <1>2, <1>3, LimitsAssumption DEF RetryTarget, AtLeast
<1> QED
  BY <1>0, <1>1, <1>4, LimitsAssumption

(* What the agent does next is an hour away or early enough.                *)
LEMMA AgentMovesEarly ==
  ASSUME TypeOK, policy = "agent", Fits(config),
         decision.action \notin {"STOP", "ESCALATE_HUMAN"}
  PROVE  \/ decision.delay = 1
         \/ elapsed + decision.delay + MAX_SLOTS <= RECOVERY_WINDOW_HOURS
<1>1. /\ elapsed \in Nat /\ RetryTarget \in Nat /\ config.contact_delay \in Nat
      /\ MAX_SLOTS \in Nat /\ RECOVERY_WINDOW_HOURS \in Nat
  BY ChosenTyped, TargetTyped, LimitsAssumption DEF TypeOK
<1>2. /\ RetryTarget + MAX_SLOTS <= RECOVERY_WINDOW_HOURS
      /\ config.contact_delay + MAX_SLOTS <= RECOVERY_WINDOW_HOURS
  BY FittingTimes
<1>3. \/ decision.delay = AtLeast(1, RetryTarget - elapsed)
      \/ decision.delay = AtLeast(1, config.contact_delay - elapsed)
  BY AgentDecides DEF Actions, RetryDelay
<1> QED
  BY <1>1, <1>2, <1>3 DEF AtLeast

-------------------------------------------------------------------------------
(* What stays.                                                              *)

LEMMA SameDiagnosis ==
  ASSUME UNCHANGED chosen
  PROVE  /\ record' = record /\ config' = config /\ policy' = policy
         /\ decline_class' = decline_class
         /\ hard_possible' = hard_possible
         /\ charge_budget' = charge_budget
         /\ NeedsHuman' = NeedsHuman
<1>1. record' = record /\ config' = config /\ policy' = policy
  BY DEF chosen
<1>2. decline_class' = decline_class /\ hard_possible' = hard_possible
  BY <1>1 DEF decline_class, hard_possible
<1>3. charge_budget' = charge_budget
  BY <1>1, <1>2 DEF charge_budget
<1> QED
  BY <1>1, <1>2, <1>3 DEF NeedsHuman

(* A charge that is not wanted or not permitted does not become so with     *)
(* time, as long as no other is made.                                       *)
LEMMA NoSecondThoughts ==
  ASSUME TypeOK, TypeOK', UNCHANGED chosen, UNCHANGED charge_attempts, elapsed <= elapsed',
         ~MayCharge
  PROVE  ~MayCharge'
<1>1. /\ record' = record /\ config' = config /\ decline_class' = decline_class
      /\ charge_budget' = charge_budget
  BY SameDiagnosis
<1>2. WantsCharge' = WantsCharge
  BY <1>1 DEF WantsCharge, Promising
<1>3. RetryTarget' = RetryTarget
  <2>1. ladder' = ladder /\ payday' = payday
    BY <1>1 DEF ladder, payday
  <2> QED
    BY <1>1, <2>1 DEF RetryTarget
<1>4. /\ RetryDelay = AtLeast(1, RetryTarget - elapsed)
      /\ RetryDelay' = AtLeast(1, RetryTarget - elapsed')
  BY <1>3 DEF RetryDelay
<1>5. /\ elapsed \in Nat /\ elapsed' \in Nat /\ RetryTarget \in Nat /\ record.expiry \in Int
  BY TargetTyped, ChosenTyped, LimitsAssumption DEF TypeOK
<1>6. elapsed' + RetryDelay' <= record.expiry => elapsed + RetryDelay <= record.expiry
  BY <1>4, <1>5, LaterIsLater
<1>7. AgentPermits' => AgentPermits
  BY <1>1, <1>6 DEF AgentPermits, Permits
<1> QED
  BY <1>2, <1>7 DEF MayCharge

-------------------------------------------------------------------------------
(* The invariant.                                                           *)

LEMMA InitTyped == Init => TypeOK
  BY RecordsAssumption, ConfigsAssumption, PoliciesAssumption, LimitsAssumption
  DEF Init, TypeOK, slot, TerminalReason

LEMMA InitInv == Init => LoopInv
<1> SUFFICES ASSUME Init PROVE LoopInv
  OBVIOUS
<1>1. TypeOK
  BY InitTyped
<1>2. Budgeted
  BY <1>1, ChosenTyped, BudgetTyped DEF Init, Budgeted
<1>3. Outreached /\ Charged /\ HardInTruth /\ Escalated
  BY DEF Init, Outreached, Charged, HardInTruth, Escalated, slot
<1>4. Timely
  BY <1>1, FittingTimes, LimitsAssumption DEF Init, Timely, slot
<1> QED
  BY <1>1, <1>2, <1>3, <1>4 DEF LoopInv

(* A step that ends the loop, or reviews an item, spends nothing.           *)
LEMMA Halting ==
  ASSUME LoopInv, TypeOK', UNCHANGED <<chosen, spent>>,
         Escalated'
  PROVE  LoopInv'
<1>1. /\ UNCHANGED chosen /\ charge_attempts' = charge_attempts /\ elapsed' = elapsed
      /\ contact_actions' = contact_actions /\ hard_decline_retries' = hard_decline_retries
  BY DEF spent
<1>2. /\ record' = record /\ config' = config /\ policy' = policy /\ decline_class' = decline_class
      /\ charge_budget' = charge_budget /\ NeedsHuman' = NeedsHuman
  BY <1>1, SameDiagnosis
<1>3. elapsed <= elapsed'
  BY <1>1, LimitsAssumption DEF LoopInv, TypeOK
<1>4. Budgeted' /\ Charged' /\ HardInTruth'
  BY <1>1, <1>2 DEF LoopInv, Budgeted, Charged, HardInTruth
<1>5. Outreached'
  BY <1>1, <1>2, <1>3, NoSecondThoughts DEF LoopInv, Outreached
<1>6. Timely'
  BY <1>1, <1>2 DEF LoopInv, Timely, Fits, slot
<1> QED
  BY <1>4, <1>5, <1>6 DEF LoopInv

LEMMA StopPreserves == ASSUME LoopInv, Stop PROVE LoopInv'
<1>1. UNCHANGED <<chosen, spent>> /\ review' = review /\ terminal' = decision.reason
  BY DEF Stop, Halt
<1>2. decision.reason \in TerminalReason \ {"ESCALATED_TO_HUMAN"}
  BY AgentDecides, BaselineDecides DEF LoopInv, Stop
<1>3. TypeOK'
  BY <1>1, <1>2 DEF LoopInv, TypeOK, chosen, spent, slot
<1>4. Escalated'
  BY <1>1, <1>2 DEF Stop, Running, LoopInv, Escalated, slot, spent
<1> QED
  BY <1>1, <1>3, <1>4, Halting

(* The agent asks a human only while nothing has been done.                 *)
LEMMA EscalatePreserves == ASSUME LoopInv, Escalate PROVE LoopInv'
<1>1. /\ UNCHANGED <<chosen, spent>> /\ terminal' = "ESCALATED_TO_HUMAN"
      /\ review' = "pending" \/ review' = review
  BY DEF Escalate, Halt
<1>2. TypeOK'
  BY <1>1 DEF LoopInv, TypeOK, chosen, spent, slot, TerminalReason
<1>3. policy = "agent"
  BY BaselineDecides DEF LoopInv, Escalate
<1>4. MayCharge /\ NeedsHuman
  BY <1>3, AgentDecides DEF LoopInv, Escalate
<1>5. charge_attempts = 0 /\ contact_actions = 0
  BY <1>3, <1>4 DEF LoopInv, Charged, Outreached, TypeOK
<1>6. Escalated'
  BY <1>1, <1>5 DEF Escalated, spent, slot
<1> QED
  BY <1>1, <1>2, <1>6, Halting

LEMMA InterventionPreserves ==
  ASSUME LoopInv, AttemptCap \/ WindowClosed \/ Blocked
  PROVE  LoopInv'
<1>1. /\ UNCHANGED <<chosen, spent>> /\ review' = review /\ terminal = "none"
      /\ terminal' \in TerminalReason \ {"ESCALATED_TO_HUMAN"}
  BY DEF AttemptCap, WindowClosed, Blocked, Halt, Proposes, Running, TerminalReason
<1>2. TypeOK'
  BY <1>1 DEF LoopInv, TypeOK, chosen, spent, slot
<1>3. Escalated'
  BY <1>1 DEF LoopInv, Escalated, slot, spent
<1> QED
  BY <1>1, <1>2, <1>3, Halting

LEMMA ReviewPreserves ==
  ASSUME LoopInv, NEW verdict \in {"approved", "rejected"}, Review(verdict)
  PROVE  LoopInv'
<1>1. UNCHANGED <<chosen, spent>> /\ terminal' = terminal /\ review = "pending" /\ review' = verdict
  BY DEF Review
<1>2. TypeOK'
  BY <1>1 DEF LoopInv, TypeOK, chosen, spent, slot
<1>3. Escalated'
  BY <1>1 DEF LoopInv, Escalated, slot, spent
<1> QED
  BY <1>1, <1>2, <1>3, Halting

-------------------------------------------------------------------------------
(* Actions that reach the world.                                            *)

(* Common to charges and contacts.                                          *)
LEMMA Resolving ==
  ASSUME LoopInv, NEW succeeded \in BOOLEAN, Resolve(succeeded), slot' = slot + 1
  PROVE  /\ UNCHANGED chosen /\ review' = review /\ terminal = "none"
         /\ elapsed' = elapsed + decision.delay /\ elapsed <= elapsed'
         /\ elapsed' \in 0..RECOVERY_WINDOW_HOURS
         /\ slot < MAX_SLOTS /\ slot' <= MAX_SLOTS /\ slot \in Nat
         /\ terminal' \in {"none", "RECOVERED"}
         /\ Escalated' /\ Timely'
<1>1. /\ UNCHANGED chosen /\ review' = review /\ terminal = "none"
      /\ elapsed' = elapsed + decision.delay /\ terminal' \in {"none", "RECOVERED"}
      /\ elapsed' <= RECOVERY_WINDOW_HOURS /\ slot < MAX_SLOTS
      /\ decision.action \notin {"STOP", "ESCALATE_HUMAN"}
  BY DEF Resolve, Proposes, Running, SlotLeft, WithinWindow, t_hours
<1>2. decision.delay \in Nat
  BY <1>1, DecisionTyped DEF LoopInv
<1>3. elapsed \in 0..RECOVERY_WINDOW_HOURS /\ slot \in Nat
  BY DEF LoopInv, TypeOK, slot
<1>4. elapsed <= elapsed' /\ elapsed' \in 0..RECOVERY_WINDOW_HOURS /\ slot' <= MAX_SLOTS
  BY <1>1, <1>2, <1>3, LimitsAssumption
<1>5. Escalated'
  BY <1>1 DEF LoopInv, Escalated
<1>6. Timely'
  <2> SUFFICES ASSUME policy = "agent", Fits(config)
               PROVE  elapsed' + MAX_SLOTS <= RECOVERY_WINDOW_HOURS + slot'
    BY <1>1, SameDiagnosis DEF Timely, Fits
  <2>1. elapsed + MAX_SLOTS <= RECOVERY_WINDOW_HOURS + slot
    BY DEF LoopInv, Timely
  <2>2. decision.delay = 1 \/ elapsed' + MAX_SLOTS <= RECOVERY_WINDOW_HOURS
    BY <1>1, AgentMovesEarly DEF LoopInv
  <2> QED
    BY <1>1, <1>3, <2>1, <2>2, LimitsAssumption
<1> QED
  BY <1>1, <1>3, <1>4, <1>5, <1>6

LEMMA ChargePreserves == ASSUME LoopInv, Charge PROVE LoopInv'
<1> PICK succeeded \in BOOLEAN : Resolve(succeeded)
  BY DEF Charge
<1>1. /\ charge_attempts' = charge_attempts + 1 /\ contact_actions' = contact_actions
      /\ decision.action = "RETRY_CHARGE"
      /\ hard_decline_retries' \in {hard_decline_retries, hard_decline_retries + 1}
      /\ hard_decline_retries' # hard_decline_retries => is_hard(record.truth)
  BY DEF Charge, moves_money
<1>2. /\ charge_attempts \in Nat /\ contact_actions \in Nat
      /\ hard_decline_retries \in 0..charge_attempts
  BY DEF LoopInv, TypeOK
<1>3. slot' = slot + 1
  BY <1>1, <1>2 DEF slot
<1>4. /\ UNCHANGED chosen /\ review' = review /\ terminal' \in {"none", "RECOVERED"}
      /\ elapsed' \in 0..RECOVERY_WINDOW_HOURS /\ slot' <= MAX_SLOTS
      /\ Escalated' /\ Timely'
  BY <1>3, Resolving
<1>5. /\ record' = record /\ config' = config /\ policy' = policy /\ decline_class' = decline_class
      /\ charge_budget' = charge_budget /\ NeedsHuman' = NeedsHuman
  BY <1>4, SameDiagnosis
<1>6. TypeOK'
  <2>1. /\ charge_attempts' \in Nat /\ contact_actions' \in Nat
        /\ hard_decline_retries' \in 0..charge_attempts'
    BY <1>1, <1>2
  <2> QED
    BY <1>4, <1>5, <2>1 DEF LoopInv, TypeOK, TerminalReason
<1>7. policy = "agent" => /\ WantsCharge /\ MayCharge /\ ~NeedsHuman
  BY <1>1, AgentDecides DEF LoopInv, MayCharge
<1>8. Budgeted'
  <2>1. policy = "agent" => charge_attempts < charge_budget
    BY <1>7 DEF WantsCharge
  <2>2. charge_budget \in Nat
    BY BudgetTyped DEF LoopInv
  <2> QED
    BY <1>1, <1>2, <1>5, <2>1, <2>2 DEF LoopInv, Budgeted
<1>9. Charged' /\ Outreached' /\ HardInTruth'
  <2>1. policy = "agent" => contact_actions = 0
    BY <1>2, <1>7 DEF LoopInv, Outreached
  <2>2. Charged'
    BY <1>5, <1>7 DEF Charged, WantsCharge
  <2>3. Outreached'
    BY <1>1, <1>5, <2>1 DEF Outreached
  <2>4. HardInTruth'
    BY <1>1, <1>5 DEF LoopInv, HardInTruth
  <2> QED
    BY <2>2, <2>3, <2>4
<1> QED
  BY <1>4, <1>6, <1>8, <1>9 DEF LoopInv

LEMMA ContactPreserves == ASSUME LoopInv, Contact PROVE LoopInv'
<1> PICK succeeded \in BOOLEAN : Resolve(succeeded)
  BY DEF Contact
<1>1. /\ charge_attempts' = charge_attempts /\ contact_actions' = contact_actions + 1
      /\ hard_decline_retries' = hard_decline_retries /\ ~moves_money
      /\ decision.action \notin {"STOP", "ESCALATE_HUMAN"}
  BY DEF Contact, Resolve, Proposes
<1>2. /\ charge_attempts \in Nat /\ contact_actions \in Nat
      /\ hard_decline_retries \in 0..charge_attempts
  BY DEF LoopInv, TypeOK
<1>3. slot' = slot + 1
  BY <1>1, <1>2 DEF slot
<1>4. /\ UNCHANGED chosen /\ review' = review /\ terminal' \in {"none", "RECOVERED"}
      /\ elapsed' \in 0..RECOVERY_WINDOW_HOURS /\ slot' <= MAX_SLOTS /\ elapsed <= elapsed'
      /\ Escalated' /\ Timely'
  BY <1>3, Resolving
<1>5. /\ record' = record /\ config' = config /\ policy' = policy /\ decline_class' = decline_class
      /\ charge_budget' = charge_budget /\ NeedsHuman' = NeedsHuman
  BY <1>4, SameDiagnosis
<1>6. TypeOK'
  <2>1. contact_actions' \in Nat
    BY <1>1, <1>2
  <2> QED
    BY <1>1, <1>4, <1>5, <2>1 DEF LoopInv, TypeOK, TerminalReason
<1>7. policy = "agent" => /\ ~MayCharge
                          /\ contact_actions < config.max_contact_actions
  BY <1>1, AgentDecides, DecisionTyped DEF LoopInv
<1>8. Budgeted'
  <2>1. config.max_contact_actions \in Nat
    BY ChosenTyped DEF LoopInv
  <2> QED
    BY <1>1, <1>2, <1>5, <1>7, <2>1 DEF LoopInv, Budgeted
<1>9. Outreached'
  BY <1>1, <1>4, <1>5, <1>6, <1>7, NoSecondThoughts DEF LoopInv, Outreached
<1>10. Charged' /\ HardInTruth'
  BY <1>1, <1>5 DEF LoopInv, Charged, HardInTruth
<1> QED
  BY <1>4, <1>6, <1>8, <1>9, <1>10 DEF LoopInv

LEMMA NextPreserves == LoopInv /\ [Next]_vars => LoopInv'
<1> SUFFICES ASSUME LoopInv, [Next]_vars PROVE LoopInv'
  OBVIOUS
<1>1. CASE UNCHANGED vars
  <2>1. UNCHANGED <<chosen, spent>> /\ terminal' = terminal /\ review' = review
    BY <1>1 DEF vars
  <2>2. TypeOK' /\ Escalated'
    BY <2>1 DEF LoopInv, TypeOK, Escalated, chosen, spent, slot
  <2> QED
    BY <2>1, <2>2, Halting
<1>2. CASE Stop
  BY <1>2, StopPreserves
<1>3. CASE Escalate
  BY <1>3, EscalatePreserves
<1>4. CASE AttemptCap \/ WindowClosed \/ Blocked
  BY <1>4, InterventionPreserves
<1>5. CASE Charge
  BY <1>5, ChargePreserves
<1>6. CASE Contact
  BY <1>6, ContactPreserves
<1>7. CASE \E verdict \in {"approved", "rejected"} : Review(verdict)
  BY <1>7, ReviewPreserves
<1> QED
  BY <1>1, <1>2, <1>3, <1>4, <1>5, <1>6, <1>7 DEF Next, Loop

(* The inductive invariant holds.                                           *)
THEOREM LoopInvariance == Spec => []LoopInv
<1> QED
  BY InitInv, NextPreserves, PTL DEF Spec

-------------------------------------------------------------------------------
(* What follows from it.                                                    *)

(* Types, and the harness's two limits: MAX_SLOTS actions, all of them      *)
(* within the write-off (harness.run_record, "safety envelope").            *)
THEOREM LoopTypeCorrect == Spec => []TypeOK
<1>1. LoopInv => TypeOK
  BY DEF LoopInv
<1> QED
  BY <1>1, LoopInvariance, PTL

LEMMA ChargesPermitted ==
  ASSUME LoopInv, Next, charge_attempts' > charge_attempts
  PROVE  Permits(elapsed')
<1>1. charge_attempts \in Nat
  BY DEF LoopInv, TypeOK
<1>2. ~(charge_attempts' = charge_attempts)
  BY <1>1
<1>3. Charge
  BY <1>2 DEF Next, Loop, Stop, Escalate, AttemptCap, WindowClosed, Blocked, Contact, Review,
              Halt, spent
<1>4. InEnvelope /\ moves_money /\ elapsed' = t_hours
  BY <1>3 DEF Charge, Resolve
<1> QED
  BY <1>4 DEF InEnvelope, Permits

(* Whatever the policy, no charge reaches the world outside the mandate at  *)
(* the time it is made (harness.run_record, "safety envelope").             *)
THEOREM MandateBoundsCharges == Spec => ChargesStayWithinMandate
<1>1. LoopInv /\ [Next]_vars => [charge_attempts' > charge_attempts => Permits(elapsed')]_vars
  BY ChargesPermitted
<1> QED
  BY <1>1, LoopInvariance, PTL DEF Spec, ChargesStayWithinMandate

LEMMA NothingToStop ==
  ASSUME LoopInv, policy = "agent", Fits(config)
  PROVE  ~(AttemptCap \/ WindowClosed \/ Blocked)
<1> SUFFICES ASSUME Proposes
             PROVE  SlotLeft /\ WithinWindow /\ InEnvelope
  BY DEF AttemptCap, WindowClosed, Blocked
<1>1. TypeOK /\ decision.action \notin {"STOP", "ESCALATE_HUMAN"}
  BY DEF LoopInv, Proposes
<1>2. SlotLeft
  <2>1. /\ charge_attempts \in Nat /\ contact_actions \in Nat /\ MAX_SLOTS \in Nat
        /\ config.max_charge_attempts \in Nat /\ config.max_contact_actions \in Nat
        /\ charge_budget \in Nat /\ charge_budget <= config.max_charge_attempts
        /\ config.max_charge_attempts + config.max_contact_actions <= MAX_SLOTS
    BY <1>1, ChosenTyped, BudgetTyped, FittingTimes, LimitsAssumption DEF TypeOK
  <2>2. charge_attempts <= charge_budget /\ contact_actions <= config.max_contact_actions
    BY DEF LoopInv, Budgeted
  <2>3. charge_attempts < charge_budget \/ contact_actions < config.max_contact_actions
    BY <1>1, AgentDecides DEF Actions, MayCharge, WantsCharge
  <2> QED
    BY <2>1, <2>2, <2>3 DEF SlotLeft, slot
<1>3. WithinWindow
  <2>1. /\ elapsed \in Nat /\ slot \in Nat /\ MAX_SLOTS \in Nat
        /\ RECOVERY_WINDOW_HOURS \in Nat /\ decision.delay \in Nat
    BY <1>1, DecisionTyped, LimitsAssumption DEF TypeOK, slot
  <2>2. elapsed + MAX_SLOTS <= RECOVERY_WINDOW_HOURS + slot /\ slot < MAX_SLOTS
    BY <1>2 DEF LoopInv, Timely, SlotLeft
  <2>3. decision.delay = 1 \/ elapsed + decision.delay + MAX_SLOTS <= RECOVERY_WINDOW_HOURS
    BY <1>1, AgentMovesEarly
  <2> QED
    BY <2>1, <2>2, <2>3 DEF WithinWindow, t_hours
<1>4. InEnvelope
  BY <1>1, AgentDecides DEF InEnvelope, moves_money, MayCharge, AgentPermits, t_hours
<1> QED
  BY <1>2, <1>3, <1>4

(* An agent whose set-up fits is never stopped by the harness: it asks      *)
(* about the mandate first (mandate.permits, at the planned moment), spends *)
(* within its budgets and plans within the window (agent.decide).           *)
THEOREM AgentNeedsNoStopping == Spec => HarnessNeverIntervenes
<1>1. LoopInv /\ [Next]_vars =>
        [policy = "agent" /\ Fits(config) => ~(AttemptCap \/ WindowClosed \/ Blocked)]_vars
  BY NothingToStop
<1> QED
  BY <1>1, LoopInvariance, PTL DEF Spec, HarnessNeverIntervenes

(* After a contact the agent never charges (agent.decide, "fall through to  *)
(* outreach instead").                                                      *)
THEOREM ContactIsTheEndOfCharging == Spec => OutreachEndsCharging
<1>1. LoopInv /\ [Next]_vars =>
        [policy = "agent" /\ contact_actions > 0 => UNCHANGED charge_attempts]_vars
  <2> SUFFICES ASSUME LoopInv, Next, policy = "agent", contact_actions > 0
               PROVE  UNCHANGED charge_attempts
    OBVIOUS
  <2>1. ~Charge
    BY AgentDecides DEF LoopInv, Outreached, Charge, moves_money
  <2> QED
    BY <2>1 DEF Next, Loop, Stop, Escalate, AttemptCap, WindowClosed, Blocked, Contact, Review,
                Halt, spent
<1> QED
  BY <1>1, LoopInvariance, PTL DEF Spec, OutreachEndsCharging

(* The classifier chooses the only candidate there is.                      *)
LEMMA SoleCandidate ==
  ASSUME NEW class \in DeclineClass
  PROVE  prefer({class}) = class
<1>1. PICK i \in 1..10 : AMBIGUITY_PREFERENCE[i] = class
  BY DEF DeclineClass
<1>2. \A j \in 1..10 : AMBIGUITY_PREFERENCE[j] = class => i = j
  BY <1>1 DEF AMBIGUITY_PREFERENCE
<1>3. /\ AMBIGUITY_PREFERENCE[i] \in {class}
      /\ \A j \in 1..10 : AMBIGUITY_PREFERENCE[j] \in {class} => i <= j
  BY <1>1, <1>2
<1> QED
  BY <1>3 DEF prefer

LEMMA HardFloor == LoopInv => HardRetriesAreTheAmbiguityFloor
<1> SUFFICES ASSUME LoopInv, policy = "agent", hard_decline_retries > 0
             PROVE  /\ record.candidates # {record.truth}
                    /\ config.ambiguity_shortens_ladder =>
                         hard_decline_retries < config.max_charge_attempts
  BY DEF HardRetriesAreTheAmbiguityFloor
<1>1. TypeOK /\ is_hard(record.truth)
  BY DEF LoopInv, HardInTruth
<1>2. charge_attempts \in Nat /\ hard_decline_retries \in 0..charge_attempts
  BY DEF LoopInv, TypeOK
<1>3. ~is_hard(decline_class) /\ charge_attempts <= charge_budget
  BY <1>2 DEF LoopInv, Charged, Budgeted
<1>4. record.truth \in DeclineClass /\ (record.candidates # {} => record.truth \in record.candidates)
  BY <1>1, ChosenTyped
<1>5. record.candidates # {record.truth}
  BY <1>1, <1>3, <1>4, SoleCandidate DEF decline_class
<1>6. hard_possible
  BY <1>1, <1>4 DEF hard_possible
<1>7. /\ charge_budget \in Nat /\ config.max_charge_attempts \in Nat
      /\ config.ambiguity_shortens_ladder /\ charge_budget > 0 =>
           charge_budget < config.max_charge_attempts
  BY <1>1, <1>6, BudgetTyped, ChosenTyped
<1> QED
  BY <1>2, <1>3, <1>5, <1>7

(* The agent retries a hard decline only on a tuple that is not its own,    *)
(* and one attempt short of its limit                                       *)
(* (test_the_agents_remaining_hard_retries_are_exactly_the_ambiguity_floor).*)
THEOREM HardRetriesAreTheFloor == Spec => []HardRetriesAreTheAmbiguityFloor
  BY HardFloor, LoopInvariance, PTL

LEMMA HumansAsked == LoopInv => EscalationComesFirst
<1> SUFFICES ASSUME LoopInv PROVE EscalationComesFirst
  OBVIOUS
<1>1. charge_attempts \in Nat
  BY DEF LoopInv, TypeOK
<1>2. policy = "agent" /\ record.plan_amount > config.hitl_amount_threshold =>
        charge_attempts = 0
  BY <1>1 DEF LoopInv, Charged, NeedsHuman
<1> QED
  BY <1>2 DEF LoopInv, Escalated, EscalationComesFirst

(* Nothing above the threshold is charged, and a record is escalated before *)
(* anything is done about it (hitl, "instead of executing").                *)
THEOREM HumansComeFirst == Spec => []EscalationComesFirst
  BY HumansAsked, LoopInvariance, PTL

-------------------------------------------------------------------------------
(* What a policy may spend.                                                 *)

(* The baselines count what they did and act a day apart.                   *)
Plain ==
  /\ policy = "do_nothing" => charge_attempts = 0 /\ contact_actions = 0
  /\ policy = "retry_once" => charge_attempts <= 1 /\ contact_actions = 0
  /\ policy = "retry_3x_fixed" => charge_attempts <= 3 /\ contact_actions = 0
  /\ policy = "contact_once" => charge_attempts = 0 /\ contact_actions <= 1
  /\ policy # "agent" => elapsed = 24 * slot

(* No policy spends more than it is meant to: the agent its two budgets, an *)
(* attempt fewer when a decline may be hard (agent.decide, charge_budget),  *)
(* the baselines what their names say, a day after one another              *)
(* (baselines.py).                                                          *)
BudgetsHold ==
  /\ policy = "agent" =>
       /\ charge_attempts <= config.max_charge_attempts
       /\ contact_actions <= config.max_contact_actions
       /\ config.ambiguity_shortens_ladder /\ hard_possible /\ charge_attempts > 0 =>
            charge_attempts < config.max_charge_attempts
  /\ Plain

LEMMA NextPlain ==
  ASSUME LoopInv, Plain, [Next]_vars
  PROVE  Plain'
<1>1. ASSUME UNCHANGED <<policy, charge_attempts, contact_actions, elapsed>>
      PROVE  Plain'
  BY <1>1 DEF Plain, slot
<1>2. CASE Charge \/ Contact
  <2>1. /\ policy' = policy /\ elapsed' = elapsed + decision.delay
        /\ decision.action \notin {"STOP", "ESCALATE_HUMAN"}
        /\ \/ /\ decision.action = "RETRY_CHARGE"
              /\ charge_attempts' = charge_attempts + 1 /\ contact_actions' = contact_actions
           \/ /\ decision.action # "RETRY_CHARGE"
              /\ charge_attempts' = charge_attempts /\ contact_actions' = contact_actions + 1
    BY <1>2 DEF Charge, Contact, Resolve, Proposes, chosen, t_hours, moves_money
  <2>2. charge_attempts \in Nat /\ contact_actions \in Nat /\ elapsed \in Nat
    BY LimitsAssumption DEF LoopInv, TypeOK
  <2>3. policy \in Policy
    BY ChosenTyped DEF LoopInv
  <2>4. CASE policy = "agent"
    BY <2>1, <2>4 DEF Plain
  <2>5. CASE policy = "do_nothing"
    BY <2>1, <2>5 DEF decision, Stopping
  <2>6. CASE policy = "retry_once"
    <3>1. decision.action = "RETRY_CHARGE" /\ decision.delay = 24 /\ ~(charge_attempts >= 1)
      BY <2>1, <2>6 DEF decision, Baseline, Stopping, Acting
    <3> QED
      BY <2>1, <2>2, <2>6, <3>1 DEF Plain, slot
  <2>7. CASE policy = "retry_3x_fixed"
    <3>1. decision.action = "RETRY_CHARGE" /\ decision.delay = 24 /\ ~(charge_attempts >= 3)
      BY <2>1, <2>7 DEF decision, Baseline, Stopping, Acting
    <3> QED
      BY <2>1, <2>2, <2>7, <3>1 DEF Plain, slot
  <2>8. CASE policy = "contact_once"
    <3>1. /\ decision.action = "SEND_PAYMENT_LINK" /\ decision.delay = 24
          /\ ~(contact_actions >= 1)
      BY <2>1, <2>8 DEF decision, Baseline, Stopping, Acting
    <3> QED
      BY <2>1, <2>2, <2>8, <3>1 DEF Plain, slot
  <2> QED
    BY <2>3, <2>4, <2>5, <2>6, <2>7, <2>8 DEF Policy
<1>3. CASE ~(Charge \/ Contact)
  BY <1>1, <1>3 DEF Next, Loop, Stop, Escalate, AttemptCap, WindowClosed, Blocked, Review, Halt,
                    vars, chosen, spent
<1> QED
  BY <1>2, <1>3

LEMMA BudgetsFollow == LoopInv /\ Plain => BudgetsHold
<1> SUFFICES ASSUME LoopInv, Plain, policy = "agent"
             PROVE  /\ charge_attempts <= config.max_charge_attempts
                    /\ contact_actions <= config.max_contact_actions
                    /\ config.ambiguity_shortens_ladder /\ hard_possible /\ charge_attempts > 0
                         => charge_attempts < config.max_charge_attempts
  BY DEF BudgetsHold
<1>1. /\ charge_attempts \in Nat /\ charge_attempts <= charge_budget
      /\ contact_actions <= config.max_contact_actions
  BY DEF LoopInv, TypeOK, Budgeted
<1>2. /\ charge_budget \in Nat /\ charge_budget <= config.max_charge_attempts
      /\ config.max_charge_attempts \in Nat
      /\ config.ambiguity_shortens_ladder /\ hard_possible /\ charge_budget > 0 =>
           charge_budget < config.max_charge_attempts
  BY BudgetTyped, ChosenTyped DEF LoopInv
<1> QED
  BY <1>1, <1>2

(* The budgets hold for every record, set-up and policy, with or without    *)
(* the harness's own cap.                                                   *)
THEOREM PoliciesKeepTheirBudgets == Spec => []BudgetsHold
<1>1. Init => Plain
  BY DEF Init, Plain, slot
<1>2. LoopInv /\ Plain /\ [Next]_vars => Plain'
  BY NextPlain
<1> QED
  BY <1>1, <1>2, BudgetsFollow, LoopInvariance, PTL DEF Spec

-------------------------------------------------------------------------------
(* Termination.                                                             *)

(* An iteration of run_record either ends the record or uses up one of the  *)
(* MAX_SLOTS actions, for good; nothing else touches either.                *)
EachStepCounts ==
  [][/\ Loop => terminal' # "none" \/ (slot' = slot + 1 /\ slot' <= MAX_SLOTS)
     /\ terminal = "none" /\ ~Loop => UNCHANGED <<slot, terminal>>
     /\ terminal # "none" => UNCHANGED <<slot, terminal>>]_vars

LEMMA Counting ==
  ASSUME LoopInv, Next
  PROVE  /\ Loop => terminal' # "none" \/ (slot' = slot + 1 /\ slot' <= MAX_SLOTS)
         /\ ~Loop => UNCHANGED <<slot, terminal>>
         /\ terminal # "none" => UNCHANGED <<slot, terminal>>
<1>1. charge_attempts \in Nat /\ contact_actions \in Nat /\ slot \in Nat /\ MAX_SLOTS \in Nat
  BY LimitsAssumption DEF LoopInv, TypeOK, slot
<1>2. ASSUME Stop \/ Escalate \/ AttemptCap \/ WindowClosed \/ Blocked
      PROVE  terminal = "none" /\ terminal' # "none"
  <2>1. CASE Stop
    <3>1. decision.reason \in TerminalReason
      BY <2>1, AgentDecides, BaselineDecides DEF Stop, LoopInv
    <3> QED
      BY <2>1, <3>1 DEF Stop, Running, Halt, TerminalReason
  <2>2. CASE Escalate \/ AttemptCap \/ WindowClosed \/ Blocked
    BY <2>2 DEF Escalate, AttemptCap, WindowClosed, Blocked, Proposes, Running, Halt
  <2> QED
    BY <1>2, <2>1, <2>2
<1>3. ASSUME Charge \/ Contact
      PROVE  terminal = "none" /\ slot' = slot + 1 /\ slot' <= MAX_SLOTS
  <2>1. slot' = slot + 1
    BY <1>1, <1>3 DEF Charge, Contact, slot
  <2>2. terminal = "none" /\ slot < MAX_SLOTS
    BY <1>3 DEF Charge, Contact, Resolve, Proposes, Running, SlotLeft
  <2> QED
    BY <1>1, <2>1, <2>2
<1>4. ASSUME NEW verdict, Review(verdict)
      PROVE  UNCHANGED <<slot, terminal>>
  BY <1>4 DEF Review, spent, slot
<1> QED
  BY <1>2, <1>3, <1>4 DEF Next, Loop

(* Every iteration counts: with MAX_SLOTS of them left at most, no policy   *)
(* can keep run_record going for ever.                                      *)
THEOREM IterationsAreCounted == Spec => EachStepCounts
<1>1. LoopInv /\ [Next]_vars =>
        [/\ Loop => terminal' # "none" \/ (slot' = slot + 1 /\ slot' <= MAX_SLOTS)
         /\ terminal = "none" /\ ~Loop => UNCHANGED <<slot, terminal>>
         /\ terminal # "none" => UNCHANGED <<slot, terminal>>]_vars
  BY Counting
<1> QED
  BY <1>1, LoopInvariance, PTL DEF Spec, EachStepCounts

(* run_record goes on until it breaks: the weak fairness of FairSpec with   *)
(* "the record has not ended" written out where WF has ENABLED.  Whatever   *)
(* is decided, one of the ways in which an iteration ends applies.          *)
GoesOn == <>(terminal # "none") \/ <><<Loop>>_vars

LEMMA WeakFairnessGoesOn ==
  WF_vars(Loop) /\ [](terminal # "none" \/ ENABLED <<Loop>>_vars) => []GoesOn
  BY PTL DEF GoesOn

At(n) == terminal = "none" /\ slot = n

(* From the n-th action on run_record comes to the end or to the m-th.      *)
Climbs(n, m) ==
  []LoopInv /\ [][Next]_vars /\ []GoesOn
    => [](At(n) => <>(terminal # "none" \/ At(m)))

LEMMA SlotBySlot ==
  ASSUME NEW n \in Nat, NEW m \in Nat, m = n + 1
  PROVE  Climbs(n, m)
<1>1. LoopInv /\ [Next]_vars =>
        (At(n) => At(n)' \/ At(m)' \/ (terminal # "none")')
  <2> SUFFICES ASSUME LoopInv, [Next]_vars, At(n)
               PROVE  At(n)' \/ At(m)' \/ (terminal # "none")'
    OBVIOUS
  <2>1. CASE UNCHANGED vars
    BY <2>1 DEF vars, spent, slot, At
  <2>2. CASE Next
    BY <2>2, Counting DEF At
  <2> QED
    BY <2>1, <2>2
<1>2. LoopInv /\ [Next]_vars /\ <<Loop>>_vars =>
        (At(n) => At(m)' \/ (terminal # "none")')
  <2> SUFFICES ASSUME LoopInv, [Next]_vars, <<Loop>>_vars, At(n)
               PROVE  At(m)' \/ (terminal # "none")'
    OBVIOUS
  <2>1. Next
    OBVIOUS
  <2> QED
    BY <2>1, Counting DEF At
<1>3. At(n) => ~(terminal # "none")
  BY DEF At
<1> QED
  BY <1>1, <1>2, <1>3, PTL DEF GoesOn, Climbs

(* With the limit of the code, eight actions, every record comes to an end  *)
(* under every policy, set-up and world: slot by slot, and there are at most*)
(* eight (outcome_model.MAX_SLOTS).                                         *)
THEOREM EveryRecordEndsInTime ==
  ASSUME MAX_SLOTS <= 8
  PROVE  Spec /\ []GoesOn => EveryRecordEnds
<1>0. Climbs(0, 1)
  BY SlotBySlot
<1>1. Climbs(1, 2)
  BY SlotBySlot
<1>2. Climbs(2, 3)
  BY SlotBySlot
<1>3. Climbs(3, 4)
  BY SlotBySlot
<1>4. Climbs(4, 5)
  BY SlotBySlot
<1>5. Climbs(5, 6)
  BY SlotBySlot
<1>6. Climbs(6, 7)
  BY SlotBySlot
<1>7. Climbs(7, 8)
  BY SlotBySlot
<1>8. Climbs(8, 9)
  BY SlotBySlot
<1>9. LoopInv => ~At(9)
  <2>1. LoopInv => slot <= MAX_SLOTS /\ MAX_SLOTS \in Nat /\ slot \in Nat
    BY LimitsAssumption DEF LoopInv, TypeOK, slot
  <2> QED
    BY <2>1 DEF At
<1>10. Init => At(0)
  BY DEF Init, At, slot
<1> QED
  BY <1>0, <1>1, <1>2, <1>3, <1>4, <1>5, <1>6, <1>7, <1>8, <1>9, <1>10, LoopInvariance, PTL
     DEF Spec, EveryRecordEnds, Climbs

===============================================================================
