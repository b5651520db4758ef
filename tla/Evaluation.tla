------------------------------- MODULE Evaluation -------------------------------
(***************************************************************************)
(* An evaluation: eval/runner.evaluate over eval/harness, eval/costs and    *)
(* eval/metrics.  It computes the ceiling of every record, runs every policy*)
(* over every record through the loop of RecoveryLoop, with a world that    *)
(* answers by the draw fixed for the slot, and reduces the outcomes to      *)
(* metrics.  An agent's review queue (policy/hitl) outlives the evaluation. *)
(***************************************************************************)
EXTENDS RecoveryLoop, World

CONSTANTS
  Batches,        \* the splits that may be evaluated: sequences of records
  Truths,         \* what may be true of a record
  Chosen,         \* the policies, in the order they are run
  max_attempts,   \* settings.max_attempts
  MaxRuns         \* bound: evaluations that share a queue

ASSUME BatchesAssumption ==
  \A b \in Batches : b \in Seq(Records) /\ b # <<>>
ASSUME TruthsAssumption == \A w \in Truths : w \in WorldRecord /\ w.draws # <<>>
ASSUME ChosenAssumption == Chosen \in Seq(Policies) /\ Chosen # <<>>
ASSUME AttemptsAssumption == max_attempts \in Nat /\ MaxRuns \in Nat \ {0}

VARIABLES
  batch, world,   \* the records and the truth of each, chosen once
  run,            \* which evaluation this is
  turn,           \* 0: the ceilings are computed; k: the k-th policy is run; then
  row,            \* the ceiling is scored, and the record in hand
  ceiling,        \* record -> its OracleResult
  cost,           \* what the record in hand has cost, in paise
  predicted,      \* predicted_recoverable of its first decision
  chance,         \* history: the probability of its last action
  ends,           \* run -> policy -> the terminal reasons of its outcomes
  books,          \* policy, and the ceiling after them -> the metrics of its outcomes
  shelf           \* the review queue, but for the item of the record in hand

loopVars == <<record, policy, spent, terminal, review>>
scoreVars == <<cost, predicted, chance>>
fixedVars == <<config, batch, world>>
evaluationVars ==
  <<vars, batch, world, run, turn, row, ceiling, scoreVars, ends, books, shelf>>

Rows == DOMAIN batch
Runs == 1 .. MaxRuns
Turns == DOMAIN Chosen
CeilingTurn == Len(Chosen) + 1
Over == turn = CeilingTurn + 1

(* The metrics that are sums over outcomes (metrics.compute): the rates, the*)
(* medians and the intervals are functions of these.                        *)
Metrics ==
  {"n", "recovered", "gross", "cost", "charges", "contacts", "hard_retries", "violations",
   "escalations", "gated", "self_halted", "recoverable", "wasted", "missed",
   "tp", "fp", "tn", "fn"}

NoOutcomes == [m \in Metrics |-> 0]

(* The loop variables as run_record sets them before the loop.              *)
Fresh(r, p) ==
  /\ record' = r /\ policy' = p
  /\ elapsed' = 0
  /\ charge_attempts' = 0 /\ contact_actions' = 0 /\ hard_decline_retries' = 0
  /\ terminal' = "none"
  /\ review' = "none"
  /\ cost' = 0 /\ predicted' = FALSE /\ chance' = 0

EvaluationInit ==
  /\ batch \in Batches
  /\ world \in [Rows -> Truths]
  /\ record = batch[1] /\ policy = Chosen[1]
  /\ Init
  /\ run = 1 /\ turn = 0 /\ row = 1
  /\ ceiling = [i \in Rows |-> NoResult]
  /\ cost = 0 /\ predicted = FALSE /\ chance = 0
  /\ ends = [r \in Runs |-> [k \in Turns |-> <<>>]]
  /\ books = [k \in 1 .. CeilingTurn |-> NoOutcomes]
  /\ shelf = {}

(* The next record, or the first one of the next policy.                    *)
NextRow ==
  /\ row' = IF row < Len(batch) THEN row + 1 ELSE 1
  /\ turn' = IF row < Len(batch) THEN turn ELSE turn + 1

-------------------------------------------------------------------------------
(* compute_oracles: oracle_recovers for one record after the other.         *)

Slots == AtMost(max_attempts, MAX_SLOTS)
Searching == turn = 0 /\ ceiling[row].found = "searching"
HasOption ==
  /\ Len(ceiling[row].best) < Slots
  /\ Permitted(batch[row], ceiling[row], RECOVERY_WINDOW_HOURS) # {}

(* One slot: the likeliest option, and the draw any policy would face.      *)
OracleSlot ==
  /\ Searching /\ HasOption
  /\ LET c == ceiling[row]
         o == BestOption(batch[row], world[row], c, RECOVERY_WINDOW_HOURS)
         p == ChanceOf(batch[row], world[row], c, o)
         hit == draw(world[row], Len(c.best)) < p
         charged == IF ActionOf(o) = "RETRY_CHARGE" THEN 1 ELSE 0
     IN /\ ceiling' = [ceiling EXCEPT ![row] =
             [elapsed |-> MomentOf(c, o), charges |-> c.charges + charged,
              contacts |-> c.contacts + (1 - charged),
              found |-> IF hit THEN "recovered" ELSE "searching",
              best |-> Append(c.best, p)]]
        /\ IF hit THEN NextRow ELSE UNCHANGED <<row, turn>>
  /\ UNCHANGED <<vars, batch, world, run, scoreVars, ends, books, shelf>>

OracleMisses ==
  /\ Searching /\ ~HasOption
  /\ ceiling' = [ceiling EXCEPT ![row].found = "missed"]
  /\ NextRow
  /\ UNCHANGED <<vars, batch, world, run, scoreVars, ends, books, shelf>>

-------------------------------------------------------------------------------
(* run_policy: run_record with the sealed truth.                            *)

(* Mutant: a link is free.                                                  *)
cost_without_links(action) ==
  CASE action = "RETRY_CHARGE" -> 200
    [] action = "REQUEST_CARD_UPDATE" -> 50
    [] OTHER -> 0

cost_of(action) ==
  CASE action = "RETRY_CHARGE" -> 200
    [] action \in {"SEND_PAYMENT_LINK", "REQUEST_CARD_UPDATE"} -> 50
    [] OTHER -> 0

Chance ==
  success_probability(record, world[row], decision.action, 2 * t_hours,
                      charge_attempts, contact_actions)

(* Mutant: every policy draws numbers of its own.                           *)
SucceedsByItsOwnDraw == draw(world[row], slot + turn) < Chance

Succeeds == draw(world[row], slot) < Chance

(* The first decision's predicted_recoverable.  The propensity predicts with*)
(* the floor that the frozen set-up charges by.                             *)
Predicts ==
  CASE policy = "agent"      -> decision.action # "STOP" /\ record.patience > 0
    [] policy = "do_nothing" -> FALSE
    [] OTHER                 -> TRUE

Running_record ==
  /\ turn \in Turns
  /\ Running
  /\ predicted' = IF slot = 0 THEN Predicts ELSE predicted
  /\ UNCHANGED <<batch, world, run, turn, row, ceiling, ends, books, shelf>>

Halts ==
  /\ Running_record
  /\ Stop \/ Escalate \/ AttemptCap \/ WindowClosed \/ Blocked
  /\ UNCHANGED <<cost, chance>>

Acts ==
  /\ Running_record
  /\ Charge \/ Contact
  /\ terminal' = "RECOVERED" <=> Succeeds
  /\ cost' = cost + cost_of(decision.action)
  /\ chance' = Chance

-------------------------------------------------------------------------------
(* metrics.compute and metrics.exceptions, outcome by outcome.              *)

SELF_HALTED ==
  {"RECOVERED", "POLICY_STOPPED", "HARD_DECLINE_STOP", "ESCALATED_TO_HUMAN", "NO_ACTION_TAKEN",
   "MANDATE_EXPIRED"}

When(condition, amount) == IF condition THEN amount ELSE 0

Outcome(reason, charges, contacts, spending, hard, prediction, reachable) ==
  [reason |-> reason, charges |-> charges, contacts |-> contacts, cost |-> spending,
   hard |-> hard, predicted |-> prediction, reachable |-> reachable]

(* What an outcome o of a record worth amount adds to each metric.          *)
Share(o, amount) ==
  [n            |-> 1,
   recovered    |-> When(o.reason = "RECOVERED", 1),
   gross        |-> When(o.reason = "RECOVERED", amount),
   cost         |-> o.cost,
   charges      |-> o.charges,
   contacts     |-> o.contacts,
   hard_retries |-> o.hard,
   violations   |-> When(o.reason = "MANDATE_VIOLATION_BLOCKED", 1),
   escalations  |-> When(o.reason = "ESCALATED_TO_HUMAN", 1),
   gated        |-> When(o.reason = "ESCALATED_TO_HUMAN", amount),
   self_halted  |-> When(o.reason \in SELF_HALTED, 1),
   recoverable  |-> When(o.reachable, amount),
   wasted       |-> When(~o.reachable, o.cost),
   missed       |-> When(o.reason # "RECOVERED" /\ o.reachable, 1),
   tp           |-> When(o.predicted /\ o.reachable, 1),
   fp           |-> When(o.predicted /\ ~o.reachable, 1),
   tn           |-> When(~o.predicted /\ ~o.reachable, 1),
   fn           |-> When(~o.predicted /\ o.reachable, 1)]

Enter(k, o) ==
  books' = [books EXCEPT ![k] =
              [m \in Metrics |-> books[k][m] + Share(o, batch[row].plan_amount)[m]]]

Item(status) ==
  [run |-> run, turn |-> turn, row |-> row, amount |-> record.plan_amount, status |-> status]

(* Mutant: items are kept by subscription.                                  *)
ShelvedByRecord ==
  IF review = "none" THEN shelf
  ELSE {item \in shelf : item.row # row} \cup {Item(review)}

(* The item of the record in hand, if there is one, stays in the queue.     *)
Shelved == IF review = "none" THEN shelf ELSE shelf \cup {Item(review)}

(* run_record has come to its end.                                          *)
Score ==
  /\ turn \in Turns
  /\ ~Running
  /\ Enter(turn, Outcome(terminal, charge_attempts, contact_actions, cost,
                         hard_decline_retries, predicted, ceiling[row].found = "recovered"))
  /\ ends' = [ends EXCEPT ![run][turn] = Append(@, terminal)]
  /\ shelf' = Shelved
  /\ NextRow
  /\ Fresh(batch[row'], IF turn' \in Turns THEN Chosen[turn'] ELSE Chosen[1])
  /\ UNCHANGED <<fixedVars, run, ceiling>>

(* run_oracle: the ceiling is charged like a policy.                        *)
ScoreCeiling ==
  /\ turn = CeilingTurn
  /\ LET c == ceiling[row]
         won == c.found = "recovered"
     IN Enter(CeilingTurn,
              Outcome(IF won THEN "RECOVERED" ELSE "POLICY_STOPPED", c.charges, c.contacts,
                      c.charges * cost_of("RETRY_CHARGE") + c.contacts * cost_of("SEND_PAYMENT_LINK"),
                      0, won, won))
  /\ NextRow
  /\ UNCHANGED <<vars, batch, world, run, ceiling, scoreVars, ends, shelf>>

(* The same split is evaluated again, with the same agent.                  *)
EvaluateAgain ==
  /\ Over /\ run < MaxRuns
  /\ run' = run + 1 /\ turn' = 0 /\ row' = 1
  /\ ceiling' = [i \in Rows |-> NoResult]
  /\ books' = [k \in 1 .. CeilingTurn |-> NoOutcomes]
  /\ UNCHANGED <<vars, batch, world, scoreVars, ends, shelf>>

-------------------------------------------------------------------------------
(* An operator resolves a pending item: of the record in hand, or another.  *)

ReviewInHand(verdict) ==
  /\ Review(verdict)
  /\ UNCHANGED <<batch, world, run, turn, row, ceiling, scoreVars, ends, books, shelf>>

ReviewOnShelf(item, verdict) ==
  /\ item.status = "pending"
  /\ shelf' = (shelf \ {item}) \cup {[item EXCEPT !.status = verdict]}
  /\ UNCHANGED <<vars, batch, world, run, turn, row, ceiling, scoreVars, ends, books>>

Evaluates ==
  OracleSlot \/ OracleMisses \/ Halts \/ Acts \/ Score \/ ScoreCeiling \/ EvaluateAgain

EvaluationNext ==
  \/ Evaluates
  \/ \E verdict \in {"approved", "rejected"} :
       ReviewInHand(verdict) \/ \E item \in shelf : ReviewOnShelf(item, verdict)

EvaluationSpec == EvaluationInit /\ [][EvaluationNext]_evaluationVars

-------------------------------------------------------------------------------
(* Properties.                                                              *)

(* Types, and the limits of the ceiling: no more actions than it is allowed,*)
(* none after the write-off, and a charge only of what the mandate covers   *)
(* (oracle_recovers, "the ceiling must respect the same envelope").         *)
CeilingOK(i) ==
  /\ ceiling[i] \in OracleResult
  /\ ceiling[i].charges + ceiling[i].contacts = Len(ceiling[i].best)
  /\ Len(ceiling[i].best) <= Slots
  /\ ceiling[i].elapsed <= 2 * RECOVERY_WINDOW_HOURS
  /\ ceiling[i].charges > 0 => /\ batch[i].plan_amount <= batch[i].max_amount
                               /\ batch[i].method = batch[i].allowed_method

EvaluationTypeOK ==
  /\ TypeOK
  /\ batch \in Batches /\ world \in [Rows -> Truths]
  /\ run \in Runs /\ turn \in 0 .. CeilingTurn + 1 /\ row \in Rows
  /\ DOMAIN ceiling = Rows /\ \A i \in Rows : CeilingOK(i)
  /\ cost \in Nat /\ predicted \in BOOLEAN /\ chance \in Nat
  /\ ends \in [Runs -> [Turns -> Seq(TerminalReason)]]
  /\ books \in [1 .. CeilingTurn -> [Metrics -> Nat]]
  /\ \A item \in shelf : /\ item.run \in 1 .. run /\ item.turn \in Turns /\ item.row \in Rows
                          /\ item.amount = batch[item.row].plan_amount
                          /\ item.status \in {"pending", "approved", "rejected"}

(* The oracle is no upper bound, but a policy beats it in known ways alone: *)
(* what a policy recovers and the oracle does not, it recovers with an      *)
(* action more than the oracle tried, or with one likelier than the oracle's*)
(* choice for that slot; and its first action is likelier only at an hour   *)
(* that is not on the oracle's grid (oracle_recovers, "Greedy is optimal    *)
(* within a slot").                                                         *)
OnGrid(hours) ==
  \E i \in DOMAIN ORACLE_DELAY_GRID : ORACLE_DELAY_GRID[i] = 2 * hours

BeatenOnlyBeyondItsReach ==
  turn \in Turns /\ terminal = "RECOVERED" /\ ceiling[row].found = "missed" =>
    \/ slot > Len(ceiling[row].best)
    \/ /\ chance > ceiling[row].best[slot]
       /\ slot = 1 => ~OnGrid(elapsed)

(* Policies that act alike have the same luck, whichever is run first: three*)
(* fixed retries recover whatever the one blind retry does (module doc of   *)
(* outcome_model.py, "Common random numbers").                              *)
MoreRetriesNeverLose ==
  \A r \in Runs : \A k, m \in Turns : \A i \in DOMAIN ends[r][k] \cap DOMAIN ends[r][m] :
    /\ Chosen[k] = "retry_once" /\ Chosen[m] = "retry_3x_fixed"
    /\ ends[r][k][i] = "RECOVERED"
    => ends[r][m][i] = "RECOVERED"

(* The books balance: what was spent is what the actions cost, every outcome*)
(* is in one cell of the confusion matrix, and all policies are measured    *)
(* against the same achievable money, which is what the ceiling, charged    *)
(* like a policy, has recovered (metrics.compute; run_oracle, "charged the  *)
(* same per-action costs as every other policy").                           *)
Balanced(b) ==
  /\ b["cost"] = 200 * b["charges"] + 50 * b["contacts"]
  /\ b["tp"] + b["fp"] + b["tn"] + b["fn"] = b["n"]
  /\ b["wasted"] <= b["cost"]
  /\ b["missed"] <= b["tp"] + b["fn"]
  /\ b["recovered"] + b["escalations"] + b["violations"] <= b["n"]

BooksBalance ==
  /\ \A k \in 1 .. CeilingTurn : Balanced(books[k])
  /\ Over => \A k \in Turns :
       /\ books[k]["n"] = Len(batch) /\ Len(ends[run][k]) = Len(batch)
       /\ books[k]["recoverable"] = books[CeilingTurn]["gross"]
       /\ books[k]["tp"] + books[k]["fn"] = books[CeilingTurn]["recovered"]

(* No escalation gets lost or is queued twice: the queue of an agent that   *)
(* has one holds an item for each outcome that says so, of that amount and  *)
(* whatever has become of it, and no others (hitl, "Escalation is a         *)
(* first-class outcome"; ReviewQueue.submit, all).                          *)
QueueHoldsEveryEscalation ==
  /\ \A r \in Runs : \A k \in Turns : \A i \in DOMAIN ends[r][k] :
       config.queue /\ ends[r][k][i] = "ESCALATED_TO_HUMAN"
         <=> \E item \in shelf : item.run = r /\ item.turn = k /\ item.row = i
  /\ \A x, y \in shelf : x.run = y.run /\ x.turn = y.turn /\ x.row = y.row => x = y
===============================================================================
