---------------------------- MODULE EvaluationProofs ----------------------------
(***************************************************************************)
(* Theorems about Evaluation, for any splits, truths and policies.          *)
(*                                                                          *)
(* The loop of RecoveryLoop goes on under the evaluation, and its inductive *)
(* invariant with it: Halts, Acts and ReviewInHand are steps of its Next,   *)
(* and Score puts the loop back where it starts.  On it stand               *)
(*   CeilingInv  what the ceiling has tried is sound so far: each option it *)
(*               took was the best of those permitted, and each but the     *)
(*               last lost its draw;                                        *)
(*   QueueInv    the queue and the ended records tell of the same           *)
(*               escalations;                                               *)
(*   BooksInv    each metric is the sum of the shares of the records so far *)
(*               (AddsUp, along the partial sums of the split);             *)
(*   LuckInv     the loop of a baseline that only retries has drawn what    *)
(*               each slot fixes, so runs of two such baselines are alike   *)
(*               slot by slot.                                              *)
(* The ceiling's greedy choice is a CHOOSE of the first best option; that   *)
(* there is one is LeastOf, by well-founded induction on the naturals.      *)
(*                                                                          *)
(* Seen through the loop's variables an evaluation is one loop after the    *)
(* other, which is what carries the promises of RecoveryLoop over to it.    *)
(***************************************************************************)
EXTENDS Evaluation, RecoveryLoopProofs, WellFoundedInduction

(* Where the evaluation is.                                                 *)
Placed ==
  /\ batch \in Batches /\ world \in [Rows -> Truths]
  /\ run \in Runs /\ turn \in 0 .. CeilingTurn + 1 /\ row \in Rows

(* The loop is about the record and the policy in hand, and waits at its    *)
(* start for the first of them while no policy is run.                      *)
Idle ==
  /\ record = batch[1] /\ policy = Chosen[1]
  /\ elapsed = 0 /\ charge_attempts = 0 /\ contact_actions = 0
  /\ terminal = "none" /\ review = "none" /\ cost = 0

InHand ==
  /\ turn \in Turns => record = batch[row] /\ policy = Chosen[turn]
  /\ turn \notin Turns => Idle

Spent ==
  /\ cost = 200 * charge_attempts + 50 * contact_actions
  /\ predicted \in BOOLEAN /\ chance \in Nat

Base == LoopInv /\ Placed /\ InHand /\ Spent

-------------------------------------------------------------------------------
(* What never changes.                                                      *)

LEMMA BatchTyped ==
  ASSUME Placed
  PROVE  /\ batch \in Seq(Records) /\ Len(batch) \in Nat /\ Len(batch) >= 1
         /\ Rows = 1 .. Len(batch) /\ row \in 1 .. Len(batch) /\ 1 \in Rows
         /\ \A i \in Rows : batch[i] \in Records /\ batch[i] \in Record /\ world[i] \in Truths
<1>1. batch \in Seq(Records) /\ batch # <<>> /\ world \in [Rows -> Truths] /\ row \in Rows
  BY BatchesAssumption DEF Placed
<1>2. Len(batch) \in Nat /\ Len(batch) >= 1 /\ Rows = 1 .. Len(batch)
  BY <1>1 DEF Rows
<1>3. \A i \in Rows : batch[i] \in Records /\ world[i] \in Truths
  BY <1>1, <1>2
<1>4. \A r \in Records : r \in Record
  BY RecordsAssumption
<1>5. QED
  BY <1>1, <1>2, <1>3, <1>4

LEMMA ChosenPolicies ==
  /\ Len(Chosen) \in Nat /\ Len(Chosen) >= 1 /\ Turns = 1 .. Len(Chosen)
  /\ CeilingTurn \in Nat /\ CeilingTurn = Len(Chosen) + 1
  /\ \A k \in Turns : Chosen[k] \in Policies
  BY ChosenAssumption DEF Turns, CeilingTurn

LEMMA TruthTyped ==
  ASSUME NEW w \in Truths
  PROVE  /\ w \in WorldRecord /\ w.draws \in Seq(Probability) /\ Len(w.draws) \in Nat
         /\ Len(w.draws) >= 1
<1>1. w \in WorldRecord /\ w.draws # <<>>
  BY TruthsAssumption
<1>2. w.draws \in Seq(Probability)
  BY <1>1 DEF WorldRecord
<1>3. QED
  BY <1>1, <1>2

LEMMA DrawTyped ==
  ASSUME NEW w \in Truths, NEW s \in Nat
  PROVE  draw(w, s) \in Nat
<1>1. w.draws \in Seq(Probability) /\ Len(w.draws) \in Nat /\ Len(w.draws) >= 1
  BY TruthTyped
<1>2. (IF s < Len(w.draws) THEN s + 1 ELSE Len(w.draws)) \in 1 .. Len(w.draws)
  BY <1>1
<1>3. \A k \in 1 .. Len(w.draws) : w.draws[k] \in Probability
  BY <1>1
<1>4. \A x \in Probability : x \in Nat
  BY DEF Probability
<1>5. QED
  BY <1>2, <1>3, <1>4 DEF draw

(* Whatever the factors come to.                                            *)
LEMMA ChanceTyped ==
  ASSUME NEW r, NEW w, NEW action, NEW t, NEW charges, NEW contacts
  PROVE  /\ success_probability(r, w, action, t, charges, contacts) \in Nat
         /\ success_probability(r, w, action, t, charges, contacts) <= 9700
<1>1. \A p : Capped(p) \in Nat /\ Capped(p) <= 9700
  <2>1. SUFFICES ASSUME NEW p PROVE Capped(p) \in Nat /\ Capped(p) <= 9700
    OBVIOUS
  <2>2. \A x \in (0 .. MAX_PROBABILITY) \cup {MAX_PROBABILITY} : x \in Nat /\ x <= 9700
    BY DEF MAX_PROBABILITY
  <2>3. Capped(p) \in (0 .. MAX_PROBABILITY) \cup {MAX_PROBABILITY}
    BY Zenon DEF Capped
  <2>4. PICK x \in (0 .. MAX_PROBABILITY) \cup {MAX_PROBABILITY} : Capped(p) = x
    BY <2>3, Zenon
  <2>5. x \in Nat /\ x <= 9700
    BY <2>2
  <2>6. QED
    BY <2>4, <2>5
<1>2. CASE action = "RETRY_CHARGE"
  BY <1>1, <1>2 DEF success_probability
<1>3. CASE action = "SEND_PAYMENT_LINK"
  BY <1>1, <1>3 DEF success_probability
<1>4. CASE action = "REQUEST_CARD_UPDATE" /\ r.method = "CARD"
  BY <1>1, <1>4 DEF success_probability
<1>5. CASE /\ action # "RETRY_CHARGE" /\ action # "SEND_PAYMENT_LINK"
           /\ ~(action = "REQUEST_CARD_UPDATE" /\ r.method = "CARD")
  BY <1>5 DEF success_probability
<1>6. QED
  BY <1>2, <1>3, <1>4, <1>5

-------------------------------------------------------------------------------
(* The loop under the evaluation.                                           *)

LEMMA MovesOn ==
  ASSUME Placed, NextRow, UNCHANGED batch, turn \in 0 .. CeilingTurn
  PROVE  /\ row' \in Rows /\ turn' \in 0 .. CeilingTurn + 1
         /\ \/ row' = row + 1 /\ turn' = turn
            \/ row = Len(batch) /\ row' = 1 /\ turn' = turn + 1
  BY BatchTyped, ChosenPolicies DEF NextRow

LEMMA StartsAgain == Init' => LoopInv'
  BY InitInv, PTL

LEMMA InitBase == EvaluationInit => Base
<1> SUFFICES ASSUME EvaluationInit PROVE Base
  OBVIOUS
<1>1. LoopInv
  BY InitInv DEF EvaluationInit
<1>2. Placed
  <2>1. batch \in Seq(Records) /\ batch # <<>>
    BY BatchesAssumption DEF EvaluationInit
  <2>2. 1 \in Rows
    BY <2>1 DEF Rows
  <2>3. 1 \in Runs
    BY AttemptsAssumption DEF Runs
  <2>4. 0 \in 0 .. CeilingTurn + 1
    BY ChosenPolicies
  <2>5. QED
    BY <2>2, <2>3, <2>4 DEF EvaluationInit, Placed
<1>3. InHand
  BY ChosenPolicies DEF EvaluationInit, Init, InHand, Idle
<1>4. Spent
  <2>1. cost = 0 /\ charge_attempts = 0 /\ contact_actions = 0 /\ predicted = FALSE /\ chance = 0
    BY DEF EvaluationInit, Init
  <2>2. 0 = 200 * 0 + 50 * 0
    OBVIOUS
  <2>3. QED
    BY <2>1, <2>2 DEF Spent
<1>5. QED
  BY <1>1, <1>2, <1>3, <1>4 DEF Base

(* Steps that leave the loop alone.                                         *)
LEMMA LoopRests ==
  ASSUME Base, UNCHANGED vars, UNCHANGED scoreVars
  PROVE  LoopInv' /\ Spent'
<1>1. LoopInv'
  BY NextPreserves DEF Base
<1>2. Spent'
  BY DEF Base, Spent, vars, spent, scoreVars
<1>3. QED
  BY <1>1, <1>2

LEMMA OracleBase ==
  ASSUME Base, OracleSlot \/ OracleMisses PROVE Base'
<1>1. /\ UNCHANGED vars /\ UNCHANGED scoreVars /\ UNCHANGED <<batch, world, run>> /\ turn = 0
      /\ NextRow \/ UNCHANGED <<row, turn>>
  BY DEF OracleSlot, OracleMisses, Searching
<1>2. /\ row' \in Rows /\ turn' \in 0 .. CeilingTurn + 1 /\ turn' \in {0, 1}
      /\ turn' = 1 => row' = 1
  <2>1. CASE NextRow
    BY <1>1, <2>1, MovesOn, ChosenPolicies DEF Base
  <2>2. CASE UNCHANGED <<row, turn>>
    BY <1>1, <2>2 DEF Base, Placed
  <2>3. QED
    BY <1>1, <2>1, <2>2
<1>3. Placed'
  BY <1>1, <1>2 DEF Base, Placed, Rows
<1>4. Idle
  BY <1>1, ChosenPolicies DEF Base, InHand
<1>5. Idle'
  BY <1>1, <1>4 DEF Idle, vars, chosen, spent, scoreVars
<1>6. InHand'
  BY <1>1, <1>2, <1>5, ChosenPolicies DEF InHand, Idle, Turns
<1>7. QED
  BY <1>1, <1>3, <1>6, LoopRests DEF Base

(* An iteration of the loop.                                                *)
LEMMA LoopOn ==
  ASSUME Base, Running_record, Next, UNCHANGED fixedVars
  PROVE  LoopInv' /\ Placed' /\ InHand' /\ predicted' \in BOOLEAN
<1>1. turn \in Turns /\ UNCHANGED <<batch, world, run, turn, row>>
  BY DEF Running_record
<1>2. LoopInv'
  BY NextPreserves DEF Base
<1>3. Placed'
  BY <1>1 DEF Base, Placed, Rows
<1>4. UNCHANGED <<record, policy>>
  BY DEF Next, Loop, Stop, Escalate, AttemptCap, WindowClosed, Blocked, Charge, Contact, Resolve,
         Review, Halt, chosen
<1>5. InHand'
  BY <1>1, <1>4 DEF Base, InHand, Turns
<1>6. Predicts \in BOOLEAN
  BY DEF Predicts
<1>7. predicted' \in BOOLEAN
  <2>1. predicted \in BOOLEAN /\ (predicted' = Predicts \/ predicted' = predicted)
    BY DEF Base, Spent, Running_record
  <2>2. QED
    BY <1>6, <2>1
<1>8. QED
  BY <1>2, <1>3, <1>5, <1>7

LEMMA HaltsBase ==
  ASSUME Base, Halts PROVE Base'
<1>1. Running_record /\ (Stop \/ Escalate \/ AttemptCap \/ WindowClosed \/ Blocked)
  BY DEF Halts
<1>2. UNCHANGED <<chosen, spent>> /\ cost' = cost /\ chance' = chance
  BY <1>1 DEF Halts, Stop, Escalate, AttemptCap, WindowClosed, Blocked, Halt
<1>3. UNCHANGED fixedVars
  BY <1>1, <1>2 DEF fixedVars, chosen, Running_record
<1>4. LoopInv' /\ Placed' /\ InHand' /\ predicted' \in BOOLEAN
  BY <1>1, <1>3, LoopOn DEF Next, Loop
<1>5. Spent'
  BY <1>2, <1>4 DEF Base, Spent, spent
<1>6. QED
  BY <1>4, <1>5 DEF Base

(* A step that reaches the world.                                           *)
LEMMA Reaching ==
  ASSUME Base, Acts
  PROVE  /\ Running_record /\ turn \in Turns /\ terminal = "none" /\ UNCHANGED chosen
         /\ Proposes /\ SlotLeft /\ WithinWindow /\ InEnvelope
         /\ elapsed' = t_hours /\ (terminal' = "RECOVERED" <=> Succeeds)
         /\ terminal' \in {"none", "RECOVERED"} /\ review' = review
         /\ chance' = Chance /\ cost' = cost + cost_of(decision.action)
         /\ charge_attempts \in Nat /\ contact_actions \in Nat
         /\ \/ /\ decision.action = "RETRY_CHARGE"
               /\ charge_attempts' = charge_attempts + 1 /\ contact_actions' = contact_actions
            \/ /\ decision.action \in {"SEND_PAYMENT_LINK", "REQUEST_CARD_UPDATE"}
               /\ charge_attempts' = charge_attempts /\ contact_actions' = contact_actions + 1
<1>1. PICK succeeded \in BOOLEAN : Resolve(succeeded)
  BY DEF Acts, Charge, Contact
<1>2. /\ terminal = "none" /\ terminal' \in {"none", "RECOVERED"} /\ UNCHANGED chosen
      /\ elapsed' = t_hours /\ Proposes /\ SlotLeft /\ WithinWindow /\ InEnvelope
      /\ decision.action \notin {"STOP", "ESCALATE_HUMAN"} /\ review' = review
  BY <1>1 DEF Resolve, Proposes, Running
<1>3. /\ Running_record /\ turn \in Turns /\ (terminal' = "RECOVERED" <=> Succeeds)
      /\ chance' = Chance /\ cost' = cost + cost_of(decision.action)
  BY DEF Acts, Running_record
<1>4. charge_attempts \in Nat /\ contact_actions \in Nat
  BY DEF Base, LoopInv, TypeOK
<1>5. CASE Charge
  BY <1>2, <1>3, <1>4, <1>5 DEF Charge, moves_money
<1>6. CASE Contact
  <2>1. decision.action \in {"SEND_PAYMENT_LINK", "REQUEST_CARD_UPDATE"}
    BY <1>2, <1>6, DecisionTyped DEF Contact, Base, LoopInv
  <2>2. QED
    BY <1>2, <1>3, <1>4, <1>6, <2>1 DEF Contact
<1>7. QED
  BY <1>5, <1>6 DEF Acts

LEMMA ActsBase ==
  ASSUME Base, Acts PROVE Base'
<1>1. /\ Running_record /\ UNCHANGED chosen /\ chance' = Chance
      /\ cost' = cost + cost_of(decision.action)
      /\ charge_attempts \in Nat /\ contact_actions \in Nat
      /\ \/ /\ decision.action = "RETRY_CHARGE"
            /\ charge_attempts' = charge_attempts + 1 /\ contact_actions' = contact_actions
         \/ /\ decision.action \in {"SEND_PAYMENT_LINK", "REQUEST_CARD_UPDATE"}
            /\ charge_attempts' = charge_attempts /\ contact_actions' = contact_actions + 1
  BY Reaching
<1>2. UNCHANGED fixedVars
  BY <1>1 DEF fixedVars, chosen, Running_record
<1>3. LoopInv' /\ Placed' /\ InHand' /\ predicted' \in BOOLEAN
  BY <1>1, <1>2, LoopOn DEF Next, Loop, Acts
<1>4. chance' \in Nat
  BY <1>1, ChanceTyped DEF Chance
<1>5. cost = 200 * charge_attempts + 50 * contact_actions
  BY DEF Base, Spent
<1>6. \/ decision.action = "RETRY_CHARGE" /\ cost_of(decision.action) = 200
      \/ decision.action # "RETRY_CHARGE" /\ cost_of(decision.action) = 50
  BY <1>1 DEF cost_of
<1>7. cost' = 200 * charge_attempts' + 50 * contact_actions'
  BY <1>1, <1>5, <1>6
<1>8. QED
  BY <1>3, <1>4, <1>7 DEF Base, Spent

LEMMA ScoreBase ==
  ASSUME Base, Score PROVE Base'
<1>1. /\ turn \in Turns /\ NextRow /\ UNCHANGED <<config, batch, world, run>>
      /\ Fresh(batch[row'], IF turn' \in Turns THEN Chosen[turn'] ELSE Chosen[1])
  BY DEF Score, fixedVars
<1>2. turn \in 0 .. CeilingTurn
  BY <1>1, ChosenPolicies
<1>3. /\ row' \in Rows /\ turn' \in 0 .. CeilingTurn + 1
      /\ \/ row' = row + 1 /\ turn' = turn
         \/ row = Len(batch) /\ row' = 1 /\ turn' = turn + 1
  BY <1>1, <1>2, MovesOn DEF Base
<1>4. /\ record' = batch[row'] /\ elapsed' = 0 /\ charge_attempts' = 0 /\ contact_actions' = 0
      /\ policy' = (IF turn' \in Turns THEN Chosen[turn'] ELSE Chosen[1])
      /\ hard_decline_retries' = 0 /\ terminal' = "none" /\ review' = "none" /\ cost' = 0
      /\ predicted' = FALSE /\ chance' = 0
  BY <1>1 DEF Fresh
<1>5. batch' = batch /\ config' = config /\ world' = world /\ run' = run
  BY <1>1
<1>6. Placed'
  BY <1>3, <1>5 DEF Base, Placed, Rows
<1>7. LoopInv'
  <2>1. record' \in Records
    BY <1>3, <1>4, BatchTyped DEF Base
  <2>2. policy' \in Policies
    BY <1>4, ChosenPolicies
  <2>3. config' \in Configs
    BY <1>5 DEF Base, LoopInv, TypeOK
  <2>4. Init'
    BY <1>4, <2>1, <2>2, <2>3 DEF Init
  <2>5. QED
    BY <2>4, StartsAgain
<1>8. InHand'
  <2>1. CASE turn' \in Turns
    BY <1>4, <1>5, <2>1 DEF InHand, Turns
  <2>2. CASE turn' \notin Turns
    <3>1. row' = 1
      BY <1>1, <1>3, <2>2
    <3>2. Idle'
      BY <1>4, <1>5, <2>2, <3>1 DEF Idle
    <3>3. QED
      BY <2>2, <3>2 DEF InHand, Turns
  <2>3. QED
    BY <2>1, <2>2
<1>9. Spent'
  <2>1. 0 = 200 * 0 + 50 * 0
    OBVIOUS
  <2>2. QED
    BY <1>4, <2>1 DEF Spent
<1>10. QED
  BY <1>6, <1>7, <1>8, <1>9 DEF Base

LEMMA ScoreCeilingBase ==
  ASSUME Base, ScoreCeiling PROVE Base'
<1>1. /\ turn = CeilingTurn /\ NextRow
      /\ UNCHANGED vars /\ UNCHANGED scoreVars /\ UNCHANGED <<batch, world, run>>
  BY DEF ScoreCeiling
<1>2. row' \in Rows /\ turn' \in {CeilingTurn, CeilingTurn + 1}
  BY <1>1, MovesOn, ChosenPolicies DEF Base
<1>3. turn \notin Turns /\ turn' \notin Turns /\ turn' \in 0 .. CeilingTurn + 1
  BY <1>1, <1>2, ChosenPolicies
<1>4. Placed'
  BY <1>1, <1>2, <1>3 DEF Base, Placed, Rows
<1>5. Idle
  BY <1>3 DEF Base, InHand
<1>6. Idle'
  BY <1>1, <1>5 DEF Idle, vars, chosen, spent, scoreVars
<1>7. QED
  BY <1>1, <1>3, <1>4, <1>6, LoopRests DEF Base, InHand, Turns

LEMMA AgainBase ==
  ASSUME Base, EvaluateAgain PROVE Base'
<1>1. /\ turn = CeilingTurn + 1 /\ run < MaxRuns /\ run' = run + 1 /\ turn' = 0 /\ row' = 1
      /\ UNCHANGED vars /\ UNCHANGED scoreVars /\ UNCHANGED <<batch, world>>
  BY DEF EvaluateAgain, Over
<1>2. turn \notin Turns /\ turn' \notin Turns /\ turn' \in 0 .. CeilingTurn + 1
  BY <1>1, ChosenPolicies
<1>3. run' \in Runs
  BY <1>1, AttemptsAssumption DEF Base, Placed, Runs
<1>4. Placed'
  BY <1>1, <1>2, <1>3, BatchTyped DEF Base, Placed, Rows, Runs
<1>5. Idle
  BY <1>2 DEF Base, InHand
<1>6. Idle'
  BY <1>1, <1>5 DEF Idle, vars, chosen, spent, scoreVars
<1>7. QED
  BY <1>1, <1>2, <1>4, <1>6, LoopRests DEF Base, InHand, Turns

LEMMA ReviewBase ==
  ASSUME Base, NEW verdict \in {"approved", "rejected"}, ReviewInHand(verdict)
  PROVE  Base'
<1>1. /\ Review(verdict) /\ review = "pending" /\ UNCHANGED <<chosen, spent, terminal>>
      /\ UNCHANGED <<batch, world, run, turn, row>> /\ UNCHANGED scoreVars
  BY DEF ReviewInHand, Review
<1>2. LoopInv'
  BY <1>1, ReviewPreserves DEF Base
<1>3. Placed'
  BY <1>1 DEF Base, Placed, Rows
<1>4. turn \in Turns
  BY <1>1 DEF Base, InHand, Idle
<1>5. InHand'
  BY <1>1, <1>4 DEF Base, InHand, chosen, Turns
<1>6. Spent'
  BY <1>1 DEF Base, Spent, spent, scoreVars
<1>7. QED
  BY <1>2, <1>3, <1>5, <1>6 DEF Base

LEMMA NextBase == Base /\ [EvaluationNext]_evaluationVars => Base'
<1> SUFFICES ASSUME Base, [EvaluationNext]_evaluationVars PROVE Base'
  OBVIOUS
<1>1. ASSUME UNCHANGED <<vars, batch, world, run, turn, row, scoreVars>> PROVE Base'
  <2>1. Placed' /\ InHand'
    BY <1>1 DEF Base, Placed, InHand, Idle, Rows, Turns, vars, chosen, spent, scoreVars
  <2>2. QED
    BY <1>1, <2>1, LoopRests DEF Base
<1>2. CASE UNCHANGED evaluationVars
  BY <1>1, <1>2 DEF evaluationVars
<1>3. CASE \E verdict \in {"approved", "rejected"} : \E item \in shelf : ReviewOnShelf(item, verdict)
  BY <1>1, <1>3 DEF ReviewOnShelf
<1>4. CASE \E verdict \in {"approved", "rejected"} : ReviewInHand(verdict)
  BY <1>4, ReviewBase
<1>5. CASE Evaluates
  BY <1>5, OracleBase, HaltsBase, ActsBase, ScoreBase, ScoreCeilingBase, AgainBase DEF Evaluates
<1>6. QED
  BY <1>2, <1>3, <1>4, <1>5 DEF EvaluationNext

-------------------------------------------------------------------------------
(* The ceiling.                                                             *)

Less == {p \in Nat \X Nat : p[1] < p[2]}

LEMMA LeastOf ==
  ASSUME NEW T, T \subseteq Nat, T # {}
  PROVE  \E x \in T : \A y \in T : x <= y
<1>1. PICK x \in T : \A y \in T : ~(<<y, x>> \in Less)
  <2>1. IsWellFoundedOn(Less, Nat)
    BY NatLessThanWellFounded, Zenon DEF OpToRel, Less
  <2>2. QED
    BY <2>1, WFMin, Zenon
<1>2. \A y \in T : y \in Nat /\ x \in Nat /\ ~(y < x)
  BY <1>1 DEF Less
<1>3. \A y \in T : x <= y
  BY <1>2
<1>4. QED
  BY <1>1, <1>3

LEMMA ChanceBounded ==
  ASSUME NEW r, NEW w, NEW c, NEW o
  PROVE  ChanceOf(r, w, c, o) \in Nat /\ ChanceOf(r, w, c, o) <= 9700
  BY ChanceTyped DEF ChanceOf

(* The search among the options finds the first of the likeliest.           *)
LEMMA BestIsLikeliest ==
  ASSUME NEW r, NEW w, NEW c, NEW window, Permitted(r, c, window) # {}
  PROVE  /\ BestOption(r, w, c, window) \in Permitted(r, c, window)
         /\ \A q \in Permitted(r, c, window) :
              ChanceOf(r, w, c, q) <= ChanceOf(r, w, c, BestOption(r, w, c, window))
<1> DEFINE S == Permitted(r, c, window)
           C(q) == ChanceOf(r, w, c, q)
           Key(q) == 7 * q[1] + q[2]
           Likeliest(o) == \A q \in S : C(q) <= C(o)
           First(o) == \A q \in S : \/ C(q) < C(o)
                                    \/ C(q) = C(o) /\ ~Before(q, o)
<1>1. \A q \in S : q[1] \in Nat /\ q[2] \in 1 .. 7
  BY DEF Permitted, Option, ORACLE_ACTIONS, ORACLE_DELAY_GRID
<1>2. \A q \in S : C(q) \in Nat /\ C(q) <= 9700
  BY ChanceBounded
<1>3. \A q \in S, o \in S : Key(q) \in Nat /\ (Before(q, o) => Key(q) < Key(o))
  BY <1>1 DEF Before
<1>4. BestOption(r, w, c, window) = CHOOSE o \in S : First(o)
  BY DEF BestOption
<1> HIDE DEF S, C, Key
<1>5. PICK o \in S : Likeliest(o)
  <2> DEFINE T == {9700 - C(q) : q \in S}
  <2>1. T \subseteq Nat /\ T # {}
    BY <1>2 DEF S
  <2> HIDE DEF T
  <2>2. PICK x \in T : \A y \in T : x <= y
    BY <2>1, LeastOf
  <2>3. PICK o \in S : x = 9700 - C(o)
    BY DEF T
  <2>4. \A q \in S : 9700 - C(o) <= 9700 - C(q)
    BY <2>2, <2>3 DEF T
  <2>5. QED
    BY <1>2, <2>3, <2>4
<1>6. PICK f \in S : First(f)
  <2> DEFINE T == {Key(q) : q \in {s \in S : C(s) = C(o)}}
  <2>1. T \subseteq Nat /\ T # {}
    BY <1>3
  <2> HIDE DEF T
  <2>2. PICK x \in T : \A y \in T : x <= y
    BY <2>1, LeastOf
  <2>3. PICK f \in S : C(f) = C(o) /\ x = Key(f)
    BY DEF T
  <2>4. ASSUME NEW q \in S PROVE C(q) < C(f) \/ (C(q) = C(f) /\ ~Before(q, f))
    <3>1. CASE C(q) = C(o)
      <4>1. Key(f) <= Key(q) /\ Key(f) \in Nat /\ Key(q) \in Nat
        BY <1>3, <2>2, <2>3, <3>1 DEF T
      <4>2. QED
        BY <1>3, <2>3, <3>1, <4>1
    <3>2. CASE C(q) # C(o)
      BY <1>2, <1>5, <2>3, <3>2
    <3>3. QED
      BY <3>1, <3>2
  <2>5. QED
    BY <2>3, <2>4
<1>7. BestOption(r, w, c, window) \in S /\ First(BestOption(r, w, c, window))
  BY <1>4, <1>6
<1>8. \A q \in S : C(q) <= C(BestOption(r, w, c, window))
  BY <1>2, <1>7
<1>9. QED
  BY <1>7, <1>8 DEF S, C

(* A ceiling c of a record r with the truth w: its limits, that no draw     *)
(* before the last fell below the chance tried, and that its first try is   *)
(* the likeliest there is.                                                  *)
Within(c, r) ==
  /\ c.charges + c.contacts = Len(c.best)
  /\ Len(c.best) <= Slots
  /\ c.elapsed <= 2 * RECOVERY_WINDOW_HOURS
  /\ c.charges > 0 => r.plan_amount <= r.max_amount /\ r.method = r.allowed_method

Tried(c, w) ==
  \A s \in 1 .. Len(c.best) :
    s < Len(c.best) \/ c.found # "recovered" => c.best[s] <= draw(w, s - 1)

StartsBest(c, r, w) ==
  /\ c.best = <<>> => c.elapsed = 0
  /\ c.best # <<>> => \A o \in Permitted(r, NoResult, RECOVERY_WINDOW_HOURS) :
                         ChanceOf(r, w, NoResult, o) <= c.best[1]

Sound(c, r, w) == c \in OracleResult /\ Within(c, r) /\ Tried(c, w) /\ StartsBest(c, r, w)

Ceilings ==
  /\ ceiling \in [Rows -> OracleResult]
  /\ \A i \in Rows : Sound(ceiling[i], batch[i], world[i])

CeilingInv == Base /\ Ceilings

LEMMA SlotsTyped == Slots \in Nat
  BY AttemptsAssumption, LimitsAssumption DEF Slots, AtMost

LEMMA ResultTyped ==
  ASSUME NEW c \in OracleResult
  PROVE  /\ c.elapsed \in Nat /\ c.charges \in Nat /\ c.contacts \in Nat
         /\ c.best \in Seq(Nat) /\ Len(c.best) \in Nat
         /\ c.found \in {"searching", "recovered", "missed"}
  BY DEF OracleResult

LEMMA NoResultSound ==
  ASSUME NEW r, NEW w
  PROVE  NoResult \in OracleResult /\ Sound(NoResult, r, w)
<1>1. NoResult \in OracleResult
  BY DEF NoResult, OracleResult
<1>2. /\ NoResult.best = <<>> /\ Len(NoResult.best) = 0 /\ NoResult.elapsed = 0
      /\ NoResult.charges = 0 /\ NoResult.contacts = 0
  BY DEF NoResult
<1>3. Within(NoResult, r)
  BY <1>2, SlotsTyped, LimitsAssumption DEF Within
<1>4. Tried(NoResult, w) /\ StartsBest(NoResult, r, w)
  BY <1>2 DEF Tried, StartsBest
<1>5. QED
  BY <1>1, <1>3, <1>4 DEF Sound

LEMMA Appended ==
  ASSUME NEW best \in Seq(Nat), NEW p \in Nat
  PROVE  /\ Append(best, p) \in Seq(Nat) /\ Len(Append(best, p)) = Len(best) + 1
         /\ Append(best, p) # <<>> /\ Append(best, p)[Len(best) + 1] = p
         /\ \A s \in 1 .. Len(best) : Append(best, p)[s] = best[s]
  OBVIOUS

(* One slot of the search.                                                  *)
LEMMA SlotSound ==
  ASSUME NEW r, NEW w \in Truths, NEW c, Sound(c, r, w), c.found = "searching",
         Len(c.best) < Slots, Permitted(r, c, RECOVERY_WINDOW_HOURS) # {},
         NEW o, o = BestOption(r, w, c, RECOVERY_WINDOW_HOURS),
         NEW p, p = ChanceOf(r, w, c, o),
         NEW hit \in BOOLEAN, hit <=> draw(w, Len(c.best)) < p,
         NEW charged, charged = IF ActionOf(o) = "RETRY_CHARGE" THEN 1 ELSE 0,
         NEW d, d = [elapsed |-> MomentOf(c, o), charges |-> c.charges + charged,
                     contacts |-> c.contacts + (1 - charged),
                     found |-> IF hit THEN "recovered" ELSE "searching",
                     best |-> Append(c.best, p)]
  PROVE  Sound(d, r, w)
<1>1. /\ c \in OracleResult /\ c.elapsed \in Nat /\ c.charges \in Nat /\ c.contacts \in Nat
      /\ c.best \in Seq(Nat) /\ Len(c.best) \in Nat
  BY ResultTyped DEF Sound
<1>2. /\ o \in Permitted(r, c, RECOVERY_WINDOW_HOURS)
      /\ \A q \in Permitted(r, c, RECOVERY_WINDOW_HOURS) : ChanceOf(r, w, c, q) <= p
  BY BestIsLikeliest
<1>3. p \in Nat
  BY ChanceBounded
<1>4. /\ MomentOf(c, o) \in Nat /\ MomentOf(c, o) <= 2 * RECOVERY_WINDOW_HOURS
      /\ ActionOf(o) = "RETRY_CHARGE" => InMandate(r, MomentOf(c, o))
  <2>1. /\ o[2] \in 1 .. 7 /\ MomentOf(c, o) <= 2 * RECOVERY_WINDOW_HOURS
        /\ ActionOf(o) = "RETRY_CHARGE" => InMandate(r, MomentOf(c, o))
    BY <1>2 DEF Permitted, Option, ORACLE_ACTIONS, ORACLE_DELAY_GRID
  <2>2. ORACLE_DELAY_GRID[o[2]] \in Nat
    BY <2>1 DEF ORACLE_DELAY_GRID
  <2>3. QED
    BY <1>1, <2>1, <2>2 DEF MomentOf
<1>5. /\ charged \in {0, 1} /\ 1 - charged \in Nat
      /\ charged = 1 => r.plan_amount <= r.max_amount /\ r.method = r.allowed_method
  BY <1>4 DEF InMandate
<1>6. /\ d.elapsed = MomentOf(c, o) /\ d.charges = c.charges + charged
      /\ d.contacts = c.contacts + (1 - charged) /\ d.best = Append(c.best, p)
      /\ d.found = (IF hit THEN "recovered" ELSE "searching")
  OBVIOUS
<1>7. /\ d.best \in Seq(Nat) /\ Len(d.best) = Len(c.best) + 1 /\ d.best # <<>>
      /\ d.best[Len(c.best) + 1] = p
      /\ \A s \in 1 .. Len(c.best) : d.best[s] = c.best[s]
  BY <1>1, <1>3, <1>6, Appended
<1>8. d \in OracleResult
  <2>1. c.charges + charged \in Nat /\ c.contacts + (1 - charged) \in Nat
    BY <1>1, <1>5
  <2>2. Append(c.best, p) \in Seq(Nat)
    BY <1>1, <1>3
  <2>3. QED
    BY <1>4, <2>1, <2>2 DEF OracleResult
<1>9. Within(d, r)
  <2>1. /\ c.charges + c.contacts = Len(c.best)
        /\ c.charges > 0 => r.plan_amount <= r.max_amount /\ r.method = r.allowed_method
    BY DEF Sound, Within
  <2>2. d.charges + d.contacts = Len(d.best) /\ Len(d.best) <= Slots
    <3>1. \A m, n \in Nat, x \in {0, 1} : (m + x) + (n + (1 - x)) = m + n + 1
      OBVIOUS
    <3>2. d.charges + d.contacts = c.charges + c.contacts + 1
      BY <1>1, <1>5, <1>6, <3>1
    <3>3. QED
      BY <1>1, <1>7, <2>1, <3>2, SlotsTyped
  <2>3. d.charges > 0 => r.plan_amount <= r.max_amount /\ r.method = r.allowed_method
    BY <1>1, <1>5, <1>6, <2>1
  <2>4. QED
    BY <1>4, <1>6, <2>2, <2>3 DEF Within
<1>10. Tried(d, w)
  <2>1. SUFFICES ASSUME NEW s \in 1 .. Len(d.best),
                        s < Len(d.best) \/ d.found # "recovered"
                 PROVE  d.best[s] <= draw(w, s - 1)
    BY DEF Tried
  <2>2. CASE s \in 1 .. Len(c.best)
    BY <1>7, <2>2 DEF Sound, Tried
  <2>3. CASE s \notin 1 .. Len(c.best)
    <3>1. s = Len(c.best) + 1 /\ s - 1 = Len(c.best)
      BY <1>1, <1>7, <2>1, <2>3
    <3>2. ~hit
      BY <1>1, <1>6, <1>7, <2>1, <3>1
    <3>3. draw(w, Len(c.best)) \in Nat
      BY <1>1, DrawTyped
    <3>4. p <= draw(w, Len(c.best))
      BY <1>3, <3>2, <3>3
    <3>5. QED
      BY <1>7, <3>1, <3>4
  <2>4. QED
    BY <2>2, <2>3
<1>11. StartsBest(d, r, w)
  <2>1. CASE c.best # <<>>
    <3>1. 1 \in 1 .. Len(c.best)
      BY <1>1, <2>1
    <3>2. d.best[1] = c.best[1]
      BY <1>7, <3>1
    <3>3. QED
      BY <1>7, <2>1, <3>2 DEF Sound, StartsBest
  <2>2. CASE c.best = <<>>
    <3>1. Len(c.best) = 0 /\ c.elapsed = 0
      BY <2>2 DEF Sound, StartsBest
    <3>2. c.charges = 0 /\ c.contacts = 0
      BY <1>1, <3>1 DEF Sound, Within
    <3>3. c = NoResult
      BY <1>1, <2>2, <3>1, <3>2 DEF OracleResult, NoResult
    <3>4. d.best[1] = p
      BY <1>7, <3>1
    <3>5. QED
      BY <1>2, <1>7, <3>3, <3>4 DEF StartsBest
  <2>3. QED
    BY <2>1, <2>2
<1>12. QED
  BY <1>8, <1>9, <1>10, <1>11 DEF Sound

LEMMA InitCeilings == EvaluationInit => Ceilings
<1> SUFFICES ASSUME EvaluationInit PROVE Ceilings
  OBVIOUS
<1>1. ceiling = [i \in Rows |-> NoResult]
  BY DEF EvaluationInit
<1>2. QED
  BY <1>1, NoResultSound DEF Ceilings

LEMMA OracleSlotCeilings ==
  ASSUME CeilingInv, OracleSlot PROVE Ceilings'
<1> DEFINE c == ceiling[row]
           o == BestOption(batch[row], world[row], c, RECOVERY_WINDOW_HOURS)
           p == ChanceOf(batch[row], world[row], c, o)
           hit == draw(world[row], Len(c.best)) < p
           charged == IF ActionOf(o) = "RETRY_CHARGE" THEN 1 ELSE 0
           d == [elapsed |-> MomentOf(c, o), charges |-> c.charges + charged,
                 contacts |-> c.contacts + (1 - charged),
                 found |-> IF hit THEN "recovered" ELSE "searching",
                 best |-> Append(c.best, p)]
<1>1. /\ ceiling' = [ceiling EXCEPT ![row] = d] /\ UNCHANGED <<batch, world>>
      /\ c.found = "searching" /\ Len(c.best) < Slots
      /\ Permitted(batch[row], c, RECOVERY_WINDOW_HOURS) # {}
  BY DEF OracleSlot, Searching, HasOption
<1>2. /\ row \in Rows /\ world[row] \in Truths /\ Sound(c, batch[row], world[row])
      /\ ceiling \in [Rows -> OracleResult]
  BY BatchTyped DEF CeilingInv, Base, Placed, Ceilings
<1>3. hit \in BOOLEAN
  OBVIOUS
<1> HIDE DEF c, o, p, hit, charged, d
<1>4. Sound(d, batch[row], world[row])
  BY <1>1, <1>2, <1>3, SlotSound DEF o, p, hit, charged, d
<1>5. d \in OracleResult
  BY <1>4 DEF Sound
<1>6. ceiling' \in [Rows -> OracleResult] /\ ceiling'[row] = d
      /\ \A i \in Rows : i # row => ceiling'[i] = ceiling[i]
  BY <1>1, <1>2, <1>5
<1>7. \A i \in Rows : Sound(ceiling'[i], batch[i], world[i])
  BY <1>4, <1>6 DEF CeilingInv, Ceilings
<1>8. QED
  BY <1>1, <1>6, <1>7 DEF Ceilings, Rows

LEMMA OracleMissesCeilings ==
  ASSUME CeilingInv, OracleMisses PROVE Ceilings'
<1> DEFINE d == [ceiling[row] EXCEPT !.found = "missed"]
<1>1. /\ ceiling' = [ceiling EXCEPT ![row] = d] /\ UNCHANGED <<batch, world>>
      /\ ceiling[row].found = "searching"
  BY DEF OracleMisses, Searching
<1>2. /\ row \in Rows /\ Sound(ceiling[row], batch[row], world[row])
      /\ ceiling \in [Rows -> OracleResult] /\ ceiling[row] \in OracleResult
  BY DEF CeilingInv, Base, Placed, Ceilings, Sound
<1>3. /\ d \in OracleResult /\ d.found = "missed" /\ d.elapsed = ceiling[row].elapsed
      /\ d.charges = ceiling[row].charges /\ d.contacts = ceiling[row].contacts
      /\ d.best = ceiling[row].best
  BY <1>2 DEF OracleResult
<1> HIDE DEF d
<1>4. Sound(d, batch[row], world[row])
  <2>1. Within(d, batch[row])
    BY <1>2, <1>3 DEF Sound, Within
  <2>2. Tried(d, world[row]) /\ StartsBest(d, batch[row], world[row])
    BY <1>1, <1>2, <1>3 DEF Sound, Tried, StartsBest
  <2>3. QED
    BY <1>3, <2>1, <2>2 DEF Sound
<1>5. ceiling' \in [Rows -> OracleResult] /\ ceiling'[row] = d
      /\ \A i \in Rows : i # row => ceiling'[i] = ceiling[i]
  BY <1>1, <1>2, <1>3
<1>6. \A i \in Rows : Sound(ceiling'[i], batch[i], world[i])
  BY <1>4, <1>5 DEF CeilingInv, Ceilings
<1>7. QED
  BY <1>1, <1>5, <1>6 DEF Ceilings, Rows

LEMMA NextCeilings == CeilingInv /\ [EvaluationNext]_evaluationVars => CeilingInv'
<1> SUFFICES ASSUME CeilingInv, [EvaluationNext]_evaluationVars PROVE Ceilings'
  BY NextBase DEF CeilingInv
<1>1. ASSUME UNCHANGED <<batch, world, ceiling>> PROVE Ceilings'
  BY <1>1 DEF CeilingInv, Ceilings, Rows
<1>2. CASE UNCHANGED evaluationVars
  BY <1>1, <1>2 DEF evaluationVars
<1>3. CASE \E verdict \in {"approved", "rejected"} :
             ReviewInHand(verdict) \/ \E item \in shelf : ReviewOnShelf(item, verdict)
  BY <1>1, <1>3 DEF ReviewInHand, ReviewOnShelf
<1>4. CASE Halts \/ Acts \/ Score \/ ScoreCeiling
  BY <1>1, <1>4 DEF Halts, Acts, Running_record, Score, ScoreCeiling, fixedVars
<1>5. CASE EvaluateAgain
  <2>1. ceiling' = [i \in Rows |-> NoResult] /\ UNCHANGED <<batch, world>>
    BY <1>5 DEF EvaluateAgain
  <2>2. QED
    BY <2>1, NoResultSound DEF Ceilings, Rows
<1>6. QED
  BY <1>2, <1>3, <1>4, <1>5, OracleSlotCeilings, OracleMissesCeilings
  DEF EvaluationNext, Evaluates

(* The search for the ceilings is sound at every slot, and the loop keeps   *)
(* its invariant under the evaluation (outcome_model.oracle_recovers).      *)
THEOREM EvaluationInvariance == EvaluationSpec => []CeilingInv
<1>1. EvaluationInit => CeilingInv
  BY InitBase, InitCeilings DEF CeilingInv
<1>2. QED
  BY <1>1, NextCeilings, PTL DEF EvaluationSpec

-------------------------------------------------------------------------------
(* The outcomes and the queue.                                              *)

(* How many outcomes policy k has by now in evaluation r.                   *)
Done(r, k) ==
  IF r < run \/ (r = run /\ k < turn) THEN Len(batch)
  ELSE IF r = run /\ k = turn THEN row - 1 ELSE 0

EndsTyped ==
  /\ ends \in [Runs -> [Turns -> Seq(TerminalReason)]]
  /\ \A r \in Runs, k \in Turns : Len(ends[r][k]) = Done(r, k)

ShelfItem ==
  [run: Runs, turn: Turns, row: Rows, amount: Nat, status: {"pending", "approved", "rejected"}]

(* An item is there only of an outcome, and its record's.                   *)
ShelfTyped ==
  /\ shelf \subseteq ShelfItem
  /\ \A item \in shelf : /\ item.run <= run /\ item.amount = batch[item.row].plan_amount
                         /\ item.row <= Len(ends[item.run][item.turn])

(* An escalation of the record in hand is in the queue, if there is one.    *)
Queued == review # "none" <=> terminal = "ESCALATED_TO_HUMAN" /\ config.queue

QueueInv == Base /\ EndsTyped /\ ShelfTyped /\ Queued /\ QueueHoldsEveryEscalation

LEMMA InitQueue == EvaluationInit => QueueInv
<1> SUFFICES ASSUME EvaluationInit PROVE QueueInv
  OBVIOUS
<1>1. Base
  BY InitBase
<1>2. /\ ends = [r \in Runs |-> [k \in Turns |-> <<>>]] /\ shelf = {}
      /\ run = 1 /\ turn = 0 /\ row = 1 /\ review = "none" /\ terminal = "none"
  BY DEF EvaluationInit, Init
<1>3. EndsTyped
  <2>1. \A r \in Runs, k \in Turns : Done(r, k) = 0
    BY <1>2, ChosenPolicies DEF Done, Runs
  <2>2. <<>> \in Seq(TerminalReason) /\ Len(<<>>) = 0
    OBVIOUS
  <2>3. QED
    BY <1>2, <2>1, <2>2 DEF EndsTyped
<1>4. ShelfTyped /\ Queued
  BY <1>2 DEF ShelfTyped, Queued
<1>5. QueueHoldsEveryEscalation
  BY <1>2 DEF QueueHoldsEveryEscalation
<1>6. QED
  BY <1>1, <1>3, <1>4, <1>5 DEF QueueInv

(* Steps that add no outcome.                                               *)
LEMMA QueueRests ==
  ASSUME QueueInv, Base', UNCHANGED <<batch, ends, shelf, config>>, Queued', run <= run',
         \A r \in Runs, k \in Turns : Done(r, k)' = Done(r, k)
  PROVE  QueueInv'
<1>1. EndsTyped'
  BY DEF QueueInv, EndsTyped, Runs, Turns
<1>2. ShelfTyped'
  <2>1. run \in Nat /\ run' \in Nat /\ \A item \in shelf : item.run \in Nat
    BY AttemptsAssumption DEF QueueInv, Base, Placed, Runs, ShelfTyped, ShelfItem
  <2>2. \A item \in shelf : item.run <= run'
    BY <2>1 DEF QueueInv, ShelfTyped
  <2>3. QED
    BY <2>2 DEF QueueInv, ShelfTyped, ShelfItem, Rows, Turns, Runs
<1>3. QueueHoldsEveryEscalation'
  BY DEF QueueInv, QueueHoldsEveryEscalation, Runs, Turns
<1>4. QED
  BY <1>1, <1>2, <1>3 DEF QueueInv

LEMMA OracleQueue ==
  ASSUME QueueInv, OracleSlot \/ OracleMisses PROVE QueueInv'
<1>1. /\ UNCHANGED <<batch, ends, shelf, config, run, review, terminal>> /\ turn = 0
      /\ NextRow \/ UNCHANGED <<row, turn>>
  BY DEF OracleSlot, OracleMisses, Searching, vars, chosen
<1>2. Base'
  BY OracleBase DEF QueueInv
<1>3. turn' = 0 \/ (turn' = 1 /\ row' = 1)
  BY <1>1 DEF NextRow
<1>4. \A r \in Runs, k \in Turns : Done(r, k)' = Done(r, k)
  BY <1>1, <1>3, ChosenPolicies DEF Done
<1>5. Queued'
  BY <1>1 DEF QueueInv, Queued
<1>6. run <= run'
  BY <1>1 DEF QueueInv, Base, Placed, Runs
<1>7. QED
  BY <1>1, <1>2, <1>4, <1>5, <1>6, QueueRests

LEMMA LoopQueue ==
  ASSUME QueueInv, Halts \/ Acts PROVE QueueInv'
<1>1. /\ UNCHANGED <<batch, ends, shelf, run, turn, row>> /\ terminal = "none"
  BY DEF Halts, Acts, Running_record, Running
<1>2. Base'
  BY HaltsBase, ActsBase DEF QueueInv
<1>3. review = "none"
  BY <1>1 DEF QueueInv, Queued
<1>4. config' = config
  BY Reaching DEF QueueInv, Halts, Stop, Escalate, AttemptCap, WindowClosed, Blocked, Halt, chosen
<1>5. Queued'
  <2>1. CASE Acts
    BY <1>3, <2>1, Reaching DEF QueueInv, Queued
  <2>2. CASE Stop
    <3>1. decision.reason \in TerminalReason \ {"ESCALATED_TO_HUMAN"}
      BY <2>2, AgentDecides, BaselineDecides DEF QueueInv, Base, LoopInv, Stop
    <3>2. QED
      BY <1>3, <2>2, <3>1 DEF Stop, Halt, Queued
  <2>3. CASE Escalate
    BY <1>3, <1>4, <2>3 DEF Escalate, Halt, Queued
  <2>4. CASE AttemptCap \/ WindowClosed \/ Blocked
    BY <1>3, <2>4 DEF AttemptCap, WindowClosed, Blocked, Halt, Queued
  <2>5. QED
    BY <2>1, <2>2, <2>3, <2>4 DEF Halts
<1>6. \A r \in Runs, k \in Turns : Done(r, k)' = Done(r, k)
  BY <1>1 DEF Done
<1>7. run <= run'
  BY <1>1 DEF QueueInv, Base, Placed, Runs
<1>8. QED
  BY <1>1, <1>2, <1>4, <1>5, <1>6, <1>7, QueueRests

LEMMA ScoreCeilingQueue ==
  ASSUME QueueInv, ScoreCeiling PROVE QueueInv'
<1>1. /\ UNCHANGED <<batch, ends, shelf, config, run, review, terminal>> /\ turn = CeilingTurn
      /\ NextRow
  BY DEF ScoreCeiling, vars, chosen
<1>2. Base'
  BY ScoreCeilingBase DEF QueueInv
<1>3. turn' \in {CeilingTurn, CeilingTurn + 1}
  BY <1>1 DEF NextRow
<1>4. \A r \in Runs, k \in Turns : Done(r, k)' = Done(r, k)
  BY <1>1, <1>3, ChosenPolicies DEF Done
<1>5. Queued'
  BY <1>1 DEF QueueInv, Queued
<1>6. run <= run'
  BY <1>1 DEF QueueInv, Base, Placed, Runs
<1>7. QED
  BY <1>1, <1>2, <1>4, <1>5, <1>6, QueueRests

LEMMA AgainQueue ==
  ASSUME QueueInv, EvaluateAgain PROVE QueueInv'
<1>1. /\ UNCHANGED <<batch, ends, shelf, config, review, terminal>> /\ turn = CeilingTurn + 1
      /\ run' = run + 1 /\ turn' = 0 /\ row' = 1
  BY DEF EvaluateAgain, Over, vars, chosen
<1>2. Base'
  BY AgainBase DEF QueueInv
<1>3. run \in Nat /\ \A r \in Runs : r \in Nat
  BY AttemptsAssumption DEF QueueInv, Base, Placed, Runs
<1>4. \A r \in Runs, k \in Turns : Done(r, k)' = Done(r, k)
  BY <1>1, <1>3, ChosenPolicies DEF Done
<1>5. Queued'
  BY <1>1 DEF QueueInv, Queued
<1>6. QED
  BY <1>1, <1>2, <1>3, <1>4, <1>5, QueueRests

(* The outcome of the record in hand is added.                              *)
LEMMA ScoreEnds ==
  ASSUME QueueInv, Score
  PROVE  /\ EndsTyped' /\ UNCHANGED <<batch, config, run>>
         /\ run \in Runs /\ turn \in Turns /\ row \in Rows /\ row \in Nat
         /\ Len(ends[run][turn]) = row - 1
         /\ ends'[run][turn] = Append(ends[run][turn], terminal)
         /\ \A r \in Runs, k \in Turns :
              r # run \/ k # turn => ends'[r][k] = ends[r][k]
<1>1. /\ turn \in Turns /\ terminal # "none" /\ NextRow /\ UNCHANGED <<config, batch, world, run>>
      /\ ends' = [ends EXCEPT ![run][turn] = Append(@, terminal)]
  BY DEF Score, Running, fixedVars
<1>2. /\ run \in Runs /\ row \in Rows /\ row \in Nat /\ turn \in Nat /\ run \in Nat
      /\ \A r \in Runs : r \in Nat
  BY <1>1, BatchTyped, ChosenPolicies, AttemptsAssumption DEF QueueInv, Base, Placed, Runs
<1>3. terminal \in TerminalReason
  BY <1>1 DEF QueueInv, Base, LoopInv, TypeOK
<1>4. /\ ends \in [Runs -> [Turns -> Seq(TerminalReason)]]
      /\ \A r \in Runs, k \in Turns : Len(ends[r][k]) = Done(r, k)
  BY DEF QueueInv, EndsTyped
<1>5. /\ ends[run] \in [Turns -> Seq(TerminalReason)]
      /\ ends[run][turn] \in Seq(TerminalReason)
  BY <1>1, <1>2, <1>4
<1>6. Len(ends[run][turn]) = row - 1
  BY <1>1, <1>2, <1>4, ChosenPolicies DEF Done
<1>7. /\ ends'[run] = [ends[run] EXCEPT ![turn] = Append(ends[run][turn], terminal)]
      /\ \A r \in Runs : r # run => ends'[r] = ends[r]
  BY <1>1, <1>2, <1>4
<1>8. /\ ends'[run][turn] = Append(ends[run][turn], terminal)
      /\ \A k \in Turns : k # turn => ends'[run][k] = ends[run][k]
  BY <1>1, <1>5, <1>7
<1>9. Append(ends[run][turn], terminal) \in Seq(TerminalReason)
  BY <1>3, <1>5
<1>10. ends' \in [Runs -> [Turns -> Seq(TerminalReason)]]
  <2>1. [ends[run] EXCEPT ![turn] = Append(ends[run][turn], terminal)]
          \in [Turns -> Seq(TerminalReason)]
    BY <1>1, <1>5, <1>9
  <2>2. ends' = [ends EXCEPT ![run] =
                   [ends[run] EXCEPT ![turn] = Append(ends[run][turn], terminal)]]
    BY <1>1, <1>2, <1>4
  <2>3. QED
    BY <1>2, <1>4, <2>1, <2>2
<1>11. Len(ends'[run][turn]) = row
  BY <1>2, <1>5, <1>6, <1>8
<1>12. \/ row' = row + 1 /\ turn' = turn
       \/ row = Len(batch) /\ row' = 1 /\ turn' = turn + 1
  BY <1>1, MovesOn, ChosenPolicies DEF QueueInv, Base
<1>13. \A r \in Runs, k \in Turns : Len(ends'[r][k]) = Done(r, k)'
  <2>1. SUFFICES ASSUME NEW r \in Runs, NEW k \in Turns PROVE Len(ends'[r][k]) = Done(r, k)'
    OBVIOUS
  <2>2. Done(r, k)' = IF r < run \/ (r = run /\ k < turn') THEN Len(batch)
                      ELSE IF r = run /\ k = turn' THEN row' - 1 ELSE 0
    BY <1>1 DEF Done
  <2>3. r \in Nat /\ k \in Nat /\ Len(batch) \in Nat
    BY <1>2, ChosenPolicies, BatchTyped DEF QueueInv, Base
  <2>4. CASE r = run /\ k = turn
    BY <1>2, <1>11, <1>12, <2>2, <2>3, <2>4
  <2>5. CASE r # run \/ k # turn
    <3>1. ends'[r][k] = ends[r][k] /\ Len(ends[r][k]) = Done(r, k)
      BY <1>4, <1>7, <1>8, <2>5
    <3>2. Done(r, k)' = Done(r, k)
      BY <1>2, <1>12, <2>2, <2>3, <2>5 DEF Done
    <3>3. QED
      BY <3>1, <3>2
  <2>6. QED
    BY <2>4, <2>5
<1>14. EndsTyped'
  BY <1>10, <1>13 DEF EndsTyped, Runs, Turns
<1>15. QED
  BY <1>1, <1>2, <1>6, <1>7, <1>8, <1>14

LEMMA ScoreQueue ==
  ASSUME QueueInv, Score PROVE QueueInv'
<1> DEFINE new == Item(review)
<1>1. /\ EndsTyped' /\ UNCHANGED <<batch, config, run>>
      /\ run \in Runs /\ turn \in Turns /\ row \in Rows /\ row \in Nat
      /\ Len(ends[run][turn]) = row - 1
      /\ ends'[run][turn] = Append(ends[run][turn], terminal)
      /\ \A r \in Runs, k \in Turns : r # run \/ k # turn => ends'[r][k] = ends[r][k]
  BY ScoreEnds
<1>2. Base'
  BY ScoreBase DEF QueueInv
<1>3. /\ record = batch[row] /\ record.plan_amount \in Nat
      /\ review \in {"none", "pending", "approved", "rejected"}
      /\ run \in Nat
  BY <1>1, ChosenTyped, AttemptsAssumption DEF QueueInv, Base, InHand, LoopInv, TypeOK, Runs
<1>4. /\ new.run = run /\ new.turn = turn /\ new.row = row
      /\ new.amount = batch[row].plan_amount /\ new.status = review
      /\ review # "none" => new \in ShelfItem
  BY <1>1, <1>3 DEF Item, ShelfItem
<1>5. /\ review = "none" => shelf' = shelf
      /\ review # "none" => shelf' = shelf \cup {new}
  BY DEF Score, Shelved
<1> HIDE DEF new
<1>6. ends[run][turn] \in Seq(TerminalReason)
  BY <1>1 DEF QueueInv, EndsTyped
<1>7. /\ Len(ends'[run][turn]) = row /\ ends'[run][turn][row] = terminal
      /\ \A i \in 1 .. row - 1 : ends'[run][turn][i] = ends[run][turn][i]
      /\ DOMAIN ends'[run][turn] = 1 .. row /\ DOMAIN ends[run][turn] = 1 .. row - 1
  BY <1>1, <1>6
<1>8. \A item \in shelf : /\ item \in ShelfItem /\ item.run \in Runs /\ item.turn \in Turns
                          /\ item.row \in Nat /\ item.row <= Len(ends[item.run][item.turn])
                          /\ item.run <= run /\ item.amount = batch[item.row].plan_amount
  BY BatchTyped DEF QueueInv, Base, ShelfTyped, ShelfItem
<1>9. ShelfTyped'
  <2>1. shelf' \subseteq ShelfItem
    BY <1>4, <1>5, <1>8
  <2>2. ASSUME NEW item \in shelf'
        PROVE  /\ item.run <= run /\ item.amount = batch[item.row].plan_amount
               /\ item.row <= Len(ends'[item.run][item.turn])
    <3>1. CASE item \in shelf
      <4>1. CASE item.run = run /\ item.turn = turn
        BY <1>1, <1>7, <1>8, <3>1, <4>1
      <4>2. CASE item.run # run \/ item.turn # turn
        BY <1>1, <1>8, <3>1, <4>2
      <4>3. QED
        BY <4>1, <4>2
    <3>2. CASE item = new
      BY <1>1, <1>3, <1>4, <1>7, <3>2
    <3>3. QED
      BY <1>5, <3>1, <3>2
  <2>3. QED
    BY <1>1, <2>1, <2>2 DEF ShelfTyped, ShelfItem, Rows, Turns, Runs
<1>10. Queued'
  BY DEF Score, Fresh, Queued
<1>11. \A item \in shelf : ~(item.run = run /\ item.turn = turn /\ item.row = row)
  BY <1>1, <1>8
<1>12. ASSUME NEW r \in Runs, NEW k \in Turns, NEW i \in DOMAIN ends'[r][k]
       PROVE  config.queue /\ ends'[r][k][i] = "ESCALATED_TO_HUMAN"
                <=> \E item \in shelf' : item.run = r /\ item.turn = k /\ item.row = i
  <2>1. CASE r = run /\ k = turn /\ i = row
    <3>1. (\E item \in shelf' : item.run = r /\ item.turn = k /\ item.row = i)
            <=> review # "none"
      BY <1>4, <1>5, <1>11, <2>1
    <3>2. QED
      BY <1>7, <2>1, <3>1 DEF QueueInv, Queued
  <2>2. CASE ~(r = run /\ k = turn /\ i = row)
    <3>1. i \in DOMAIN ends[r][k] /\ ends'[r][k][i] = ends[r][k][i]
      <4>1. CASE r = run /\ k = turn
        BY <1>1, <1>7, <2>2, <4>1
      <4>2. CASE r # run \/ k # turn
        BY <1>1, <4>2
      <4>3. QED
        BY <4>1, <4>2
    <3>2. (\E item \in shelf' : item.run = r /\ item.turn = k /\ item.row = i)
            <=> \E item \in shelf : item.run = r /\ item.turn = k /\ item.row = i
      BY <1>4, <1>5, <2>2
    <3>3. QED
      BY <3>1, <3>2 DEF QueueInv, QueueHoldsEveryEscalation
  <2>3. QED
    BY <2>1, <2>2
<1>13. \A x, y \in shelf' : x.run = y.run /\ x.turn = y.turn /\ x.row = y.row => x = y
  BY <1>4, <1>5, <1>11 DEF QueueInv, QueueHoldsEveryEscalation
<1>14. QueueHoldsEveryEscalation'
  BY <1>1, <1>12, <1>13 DEF QueueHoldsEveryEscalation, Runs, Turns
<1>15. QED
  BY <1>1, <1>2, <1>9, <1>10, <1>14 DEF QueueInv

LEMMA ShelfReviewQueue ==
  ASSUME QueueInv, NEW verdict \in {"approved", "rejected"}, NEW item \in shelf,
         ReviewOnShelf(item, verdict)
  PROVE  QueueInv'
<1> DEFINE new == [item EXCEPT !.status = verdict]
<1>1. /\ shelf' = (shelf \ {item}) \cup {new}
      /\ UNCHANGED <<batch, ends, config, run, turn, row, review, terminal>>
      /\ UNCHANGED evaluationVars \/ ReviewOnShelf(item, verdict)
  BY DEF ReviewOnShelf, vars, chosen
<1>2. Base'
  BY NextBase DEF QueueInv, EvaluationNext
<1>3. /\ item \in ShelfItem /\ new \in ShelfItem /\ new.run = item.run /\ new.turn = item.turn
      /\ new.row = item.row /\ new.amount = item.amount
  BY DEF QueueInv, ShelfTyped, ShelfItem
<1> HIDE DEF new
<1>4. \A r \in Runs, k \in Turns : Done(r, k)' = Done(r, k)
  BY <1>1 DEF Done
<1>5. EndsTyped'
  BY <1>1, <1>4 DEF QueueInv, EndsTyped, Runs, Turns
<1>6. ShelfTyped'
  BY <1>1, <1>3 DEF QueueInv, ShelfTyped, ShelfItem, Rows, Turns, Runs
<1>7. Queued'
  BY <1>1 DEF QueueInv, Queued
<1>8. QueueHoldsEveryEscalation'
  <2>1. ASSUME NEW r, NEW k, NEW i
        PROVE  (\E x \in shelf' : x.run = r /\ x.turn = k /\ x.row = i)
                 <=> \E x \in shelf : x.run = r /\ x.turn = k /\ x.row = i
    BY <1>1, <1>3
  <2>2. \A x, y \in shelf' : x.run = y.run /\ x.turn = y.turn /\ x.row = y.row => x = y
    BY <1>1, <1>3 DEF QueueInv, QueueHoldsEveryEscalation
  <2>3. QED
    BY <1>1, <2>1, <2>2 DEF QueueInv, QueueHoldsEveryEscalation, Runs, Turns
<1>9. QED
  BY <1>2, <1>5, <1>6, <1>7, <1>8 DEF QueueInv

LEMMA NextQueue == QueueInv /\ [EvaluationNext]_evaluationVars => QueueInv'
<1> SUFFICES ASSUME QueueInv, [EvaluationNext]_evaluationVars PROVE QueueInv'
  OBVIOUS
<1>0. Base' /\ run \in Nat
  BY NextBase, AttemptsAssumption DEF QueueInv, Base, Placed, Runs
<1>1. ASSUME UNCHANGED <<batch, ends, shelf, config, run, turn, row>>, Queued' PROVE QueueInv'
  <2>1. \A r \in Runs, k \in Turns : Done(r, k)' = Done(r, k)
    BY <1>1 DEF Done
  <2>2. QED
    BY <1>0, <1>1, <2>1, QueueRests
<1>2. CASE UNCHANGED evaluationVars
  BY <1>1, <1>2 DEF evaluationVars, vars, chosen, QueueInv, Queued
<1>3. CASE \E verdict \in {"approved", "rejected"} : ReviewInHand(verdict)
  <2>1. /\ UNCHANGED <<batch, ends, shelf, config, run, turn, row, terminal>>
        /\ review = "pending" /\ review' \in {"approved", "rejected"}
    BY <1>3 DEF ReviewInHand, Review, chosen
  <2>2. Queued'
    BY <2>1 DEF QueueInv, Queued
  <2>3. QED
    BY <1>1, <2>1, <2>2
<1>4. CASE \E verdict \in {"approved", "rejected"} : \E item \in shelf : ReviewOnShelf(item, verdict)
  BY <1>4, ShelfReviewQueue
<1>5. CASE Evaluates
  BY <1>5, OracleQueue, LoopQueue, ScoreQueue, ScoreCeilingQueue, AgainQueue DEF Evaluates
<1>6. QED
  BY <1>2, <1>3, <1>4, <1>5 DEF EvaluationNext

(* An agent with a queue has an item in it for each escalation it ended     *)
(* with, and for nothing else, over as many evaluations as share it         *)
(* (hitl.ReviewQueue.submit, resolve, all).                                 *)
THEOREM NoEscalationIsLost == EvaluationSpec => []QueueHoldsEveryEscalation
<1>1. QueueInv => QueueHoldsEveryEscalation
  BY DEF QueueInv
<1>2. QED
  BY <1>1, InitQueue, NextQueue, PTL DEF EvaluationSpec

-------------------------------------------------------------------------------
(* The books.                                                               *)

Books ==
  /\ books \in [1 .. CeilingTurn -> [Metrics -> Nat]]
  /\ \A k \in 1 .. CeilingTurn : Balanced(books[k])

(* How many outcomes there are in a column of the books.                    *)
Counted(k) ==
  IF turn > k THEN Len(batch) ELSE IF turn = k THEN row - 1 ELSE 0

OutcomeType ==
  [reason: {"none"} \cup TerminalReason, charges: Nat, contacts: Nat, cost: Nat, hard: Nat,
   predicted: BOOLEAN, reachable: BOOLEAN]

LEMMA NothingBalances == NoOutcomes \in [Metrics -> Nat] /\ Balanced(NoOutcomes)
<1>1. NoOutcomes \in [Metrics -> Nat] /\ \A m \in Metrics : NoOutcomes[m] = 0
  BY DEF NoOutcomes
<1>2. QED
  BY <1>1 DEF Balanced, Metrics

(* A column with one outcome more.                                          *)
Entered(b, o, amount) == [m \in Metrics |-> b[m] + Share(o, amount)[m]]

(* What an outcome adds keeps a column in balance.                          *)
LEMMA ShareBalances ==
  ASSUME NEW b \in [Metrics -> Nat], Balanced(b), NEW amount \in Nat,
         NEW o \in OutcomeType, o.cost = 200 * o.charges + 50 * o.contacts,
         NEW c, c = Entered(b, o, amount)
  PROVE  /\ c \in [Metrics -> Nat] /\ Balanced(c)
         /\ c["n"] = b["n"] + 1
         /\ c["recoverable"] = b["recoverable"] + (IF o.reachable THEN amount ELSE 0)
         /\ c["gross"] = b["gross"] + (IF o.reason = "RECOVERED" THEN amount ELSE 0)
         /\ c["recovered"] = b["recovered"] + (IF o.reason = "RECOVERED" THEN 1 ELSE 0)
         /\ c["tp"] + c["fn"] = b["tp"] + b["fn"] + (IF o.reachable THEN 1 ELSE 0)
<1> DEFINE s == Share(o, amount)
<1>1. /\ o.reason \in {"none"} \cup TerminalReason /\ o.charges \in Nat /\ o.contacts \in Nat
      /\ o.cost \in Nat /\ o.hard \in Nat /\ o.predicted \in BOOLEAN /\ o.reachable \in BOOLEAN
  BY DEF OutcomeType
<1>3. /\ s["n"] = 1 /\ s["recovered"] = (IF o.reason = "RECOVERED" THEN 1 ELSE 0)
      /\ s["gross"] = (IF o.reason = "RECOVERED" THEN amount ELSE 0)
      /\ s["cost"] = o.cost /\ s["charges"] = o.charges /\ s["contacts"] = o.contacts
      /\ s["hard_retries"] = o.hard
      /\ s["violations"] = (IF o.reason = "MANDATE_VIOLATION_BLOCKED" THEN 1 ELSE 0)
      /\ s["escalations"] = (IF o.reason = "ESCALATED_TO_HUMAN" THEN 1 ELSE 0)
      /\ s["gated"] = (IF o.reason = "ESCALATED_TO_HUMAN" THEN amount ELSE 0)
      /\ s["self_halted"] = (IF o.reason \in SELF_HALTED THEN 1 ELSE 0)
      /\ s["recoverable"] = (IF o.reachable THEN amount ELSE 0) /\ s["wasted"] = (IF ~o.reachable THEN o.cost ELSE 0)
      /\ s["missed"] = (IF o.reason # "RECOVERED" /\ o.reachable THEN 1 ELSE 0)
      /\ s["tp"] = (IF o.predicted /\ o.reachable THEN 1 ELSE 0) /\ s["fp"] = (IF o.predicted /\ ~o.reachable THEN 1 ELSE 0)
      /\ s["tn"] = (IF ~o.predicted /\ ~o.reachable THEN 1 ELSE 0) /\ s["fn"] = (IF ~o.predicted /\ o.reachable THEN 1 ELSE 0)
  BY DEF Share, When
<1>4. \A m \in Metrics : s[m] \in Nat
  <2>1. /\ s["n"] \in Nat /\ s["recovered"] \in Nat /\ s["gross"] \in Nat /\ s["cost"] \in Nat
        /\ s["charges"] \in Nat /\ s["contacts"] \in Nat /\ s["hard_retries"] \in Nat
        /\ s["violations"] \in Nat /\ s["escalations"] \in Nat /\ s["gated"] \in Nat
    BY <1>1, <1>3
  <2>2. /\ s["self_halted"] \in Nat /\ s["recoverable"] \in Nat /\ s["wasted"] \in Nat
        /\ s["missed"] \in Nat /\ s["tp"] \in Nat /\ s["fp"] \in Nat
        /\ s["tn"] \in Nat /\ s["fn"] \in Nat
    BY <1>1, <1>3
  <2> HIDE DEF s
  <2>3. QED
    BY <2>1, <2>2 DEF Metrics
<1>5. \A m \in Metrics : b[m] \in Nat /\ c[m] = b[m] + s[m]
  BY DEF Entered
<1>6. c \in [Metrics -> Nat]
  BY <1>4, <1>5 DEF Entered
<1> HIDE DEF s
<1>7. /\ c["n"] = b["n"] + s["n"] /\ c["cost"] = b["cost"] + s["cost"]
      /\ c["charges"] = b["charges"] + s["charges"] /\ c["contacts"] = b["contacts"] + s["contacts"]
      /\ c["recovered"] = b["recovered"] + s["recovered"] /\ c["gross"] = b["gross"] + s["gross"]
      /\ c["violations"] = b["violations"] + s["violations"]
      /\ c["escalations"] = b["escalations"] + s["escalations"]
      /\ c["recoverable"] = b["recoverable"] + s["recoverable"]
      /\ c["wasted"] = b["wasted"] + s["wasted"] /\ c["missed"] = b["missed"] + s["missed"]
      /\ c["tp"] = b["tp"] + s["tp"] /\ c["fp"] = b["fp"] + s["fp"]
      /\ c["tn"] = b["tn"] + s["tn"] /\ c["fn"] = b["fn"] + s["fn"]
  BY <1>5 DEF Metrics
<1>8. /\ s["cost"] = 200 * s["charges"] + 50 * s["contacts"]
      /\ s["tp"] + s["fp"] + s["tn"] + s["fn"] = s["n"]
      /\ s["wasted"] <= s["cost"]
      /\ s["missed"] <= s["tp"] + s["fn"]
      /\ s["recovered"] + s["escalations"] + s["violations"] <= s["n"]
      /\ s["tp"] + s["fn"] = IF o.reachable THEN 1 ELSE 0
  BY <1>1, <1>3
<1>9. /\ b["n"] \in Nat /\ b["cost"] \in Nat /\ b["charges"] \in Nat /\ b["contacts"] \in Nat
      /\ b["recovered"] \in Nat /\ b["violations"] \in Nat /\ b["escalations"] \in Nat
      /\ b["wasted"] \in Nat /\ b["missed"] \in Nat
      /\ b["tp"] \in Nat /\ b["fp"] \in Nat /\ b["tn"] \in Nat /\ b["fn"] \in Nat
  BY <1>5 DEF Metrics
<1>10. /\ s["n"] \in Nat /\ s["cost"] \in Nat /\ s["charges"] \in Nat /\ s["contacts"] \in Nat
       /\ s["recovered"] \in Nat /\ s["violations"] \in Nat /\ s["escalations"] \in Nat
       /\ s["wasted"] \in Nat /\ s["missed"] \in Nat
       /\ s["tp"] \in Nat /\ s["fp"] \in Nat /\ s["tn"] \in Nat /\ s["fn"] \in Nat
  BY <1>4 DEF Metrics
<1>11. Balanced(c)
  <2>0. /\ b["cost"] = 200 * b["charges"] + 50 * b["contacts"]
        /\ b["tp"] + b["fp"] + b["tn"] + b["fn"] = b["n"]
        /\ b["wasted"] <= b["cost"] /\ b["missed"] <= b["tp"] + b["fn"]
        /\ b["recovered"] + b["escalations"] + b["violations"] <= b["n"]
    BY DEF Balanced
  <2>1. c["cost"] = 200 * c["charges"] + 50 * c["contacts"]
    BY <1>7, <1>8, <1>9, <1>10, <2>0
  <2>2. c["tp"] + c["fp"] + c["tn"] + c["fn"] = c["n"]
    BY <1>7, <1>8, <1>9, <1>10, <2>0
  <2>3. c["wasted"] <= c["cost"] /\ c["missed"] <= c["tp"] + c["fn"]
    BY <1>7, <1>8, <1>9, <1>10, <2>0
  <2>4. c["recovered"] + c["escalations"] + c["violations"] <= c["n"]
    <3>1. /\ c["recovered"] = b["recovered"] + s["recovered"] /\ c["n"] = b["n"] + s["n"]
          /\ c["escalations"] = b["escalations"] + s["escalations"]
          /\ c["violations"] = b["violations"] + s["violations"]
      BY <1>7
    <3>2. /\ s["recovered"] + s["escalations"] + s["violations"] <= s["n"]
          /\ b["recovered"] + b["escalations"] + b["violations"] <= b["n"]
      BY <1>8, <2>0
    <3>3. QED
      BY <1>9, <1>10, <3>1, <3>2
  <2>5. QED
    BY <2>1, <2>2, <2>3, <2>4 DEF Balanced
<1>12. c["tp"] + c["fn"] = b["tp"] + b["fn"] + (IF o.reachable THEN 1 ELSE 0)
  BY <1>7, <1>8, <1>9, <1>10
<1>13. QED
  BY <1>3, <1>6, <1>7, <1>11, <1>12

(* The records whose ceiling is known.                                      *)
Settled == IF turn = 0 THEN row - 1 ELSE Len(batch)

Achievable(i) == When(ceiling[i].found = "recovered", batch[i].plan_amount)
Achieved(i) == When(ceiling[i].found = "recovered", 1)

(* f and g add up what can be achieved, in money and in records; and every  *)
(* column of the books is as far on the way as it has outcomes.             *)
SumsBy(f, g) ==
  /\ f \in [0 .. Settled -> Nat] /\ g \in [0 .. Settled -> Nat]
  /\ f[0] = 0 /\ g[0] = 0
  /\ \A i \in 1 .. Settled : f[i] = f[i - 1] + Achievable(i) /\ g[i] = g[i - 1] + Achieved(i)

ColumnsBy(f, g) ==
  /\ \A k \in 1 .. CeilingTurn :
       /\ books[k]["n"] = Counted(k)
       /\ books[k]["recoverable"] = f[Counted(k)]
       /\ books[k]["tp"] + books[k]["fn"] = g[Counted(k)]
  /\ books[CeilingTurn]["gross"] = f[Counted(CeilingTurn)]
  /\ books[CeilingTurn]["recovered"] = g[Counted(CeilingTurn)]

AddsUp(f, g) == SumsBy(f, g) /\ ColumnsBy(f, g)

BooksInv == CeilingInv /\ Books /\ \E f, g : AddsUp(f, g)

LEMMA AchievableTyped ==
  ASSUME Base, NEW i \in Rows
  PROVE  Achievable(i) \in Nat /\ Achieved(i) \in Nat
<1>1. batch[i] \in Record
  BY BatchTyped DEF Base
<1>2. batch[i].plan_amount \in Nat
  BY <1>1 DEF Record
<1>3. QED
  BY <1>2 DEF Achievable, Achieved, When

(* Empty books, and no ceiling known.                                       *)
Emptied == books = [k \in 1 .. CeilingTurn |-> NoOutcomes] /\ turn = 0 /\ row = 1

BooksKept == Books /\ \E f, g : AddsUp(f, g)

LEMMA EmptyBooks == Emptied => BooksKept
<1> SUFFICES ASSUME Emptied PROVE BooksKept
  OBVIOUS
<1>0. books = [k \in 1 .. CeilingTurn |-> NoOutcomes] /\ turn = 0 /\ row = 1
  BY DEF Emptied
<1> DEFINE f == [i \in 0 .. 0 |-> 0]
<1>1. Books
  BY <1>0, NothingBalances DEF Books
<1>2. CeilingTurn \in 1 .. CeilingTurn
  BY ChosenPolicies
<1>3. \A k \in 1 .. CeilingTurn : Counted(k) = 0
  BY <1>0 DEF Counted
<1>4. /\ \A m \in Metrics : NoOutcomes[m] = 0 /\ \A k \in 1 .. CeilingTurn : books[k] = NoOutcomes
  BY <1>0 DEF NoOutcomes
<1>5. f \in [0 .. 0 -> Nat] /\ f[0] = 0 /\ Settled = 0
  BY <1>0 DEF Settled
<1> HIDE DEF f
<1>6. SumsBy(f, f)
  BY <1>5 DEF SumsBy
<1>7. ColumnsBy(f, f)
  <2>1. \A k \in 1 .. CeilingTurn :
          /\ books[k]["n"] = 0 /\ books[k]["recoverable"] = 0
          /\ books[k]["tp"] = 0 /\ books[k]["fn"] = 0
          /\ books[k]["gross"] = 0 /\ books[k]["recovered"] = 0
    BY <1>4 DEF Metrics
  <2>2. QED
    BY <1>2, <1>3, <1>5, <2>1 DEF ColumnsBy
<1>8. QED
  BY <1>1, <1>6, <1>7 DEF AddsUp, BooksKept

LEMMA EmptyAgain == Emptied' => BooksKept'
  BY EmptyBooks, PTL

(* One more ceiling is known.                                               *)
LEMMA CeilingAddsUp ==
  ASSUME BooksInv, Base', turn = 0, NextRow, UNCHANGED <<batch, books>>,
         \A i \in Rows : i # row => ceiling'[i] = ceiling[i]
  PROVE  \E f, g : AddsUp(f, g)'
<1> PICK f, g : AddsUp(f, g)
  BY DEF BooksInv
<1> PICK n \in Rows : n = row
  BY DEF BooksInv, CeilingInv, Base, Placed
<1>1. /\ n = row /\ n \in 1 .. Len(batch) /\ n - 1 \in Nat /\ Rows = 1 .. Len(batch) /\ n \in Nat
      /\ Len(batch) \in Nat
  BY BatchTyped DEF BooksInv, CeilingInv, Base
<1>2. \/ turn' = 0 /\ row' = n + 1
      \/ turn' = 1 /\ row' = 1 /\ n = Len(batch)
  BY <1>1 DEF NextRow
<1>3. Settled = n - 1 /\ Settled' = n
  BY <1>1, <1>2 DEF Settled
<1>4. /\ f \in [0 .. n - 1 -> Nat] /\ g \in [0 .. n - 1 -> Nat] /\ f[0] = 0 /\ g[0] = 0
      /\ \A i \in 1 .. n - 1 : f[i] = f[i - 1] + Achievable(i) /\ g[i] = g[i - 1] + Achieved(i)
  BY <1>3 DEF AddsUp, SumsBy
<1>5. \A i \in 1 .. n - 1 : Achievable(i)' = Achievable(i) /\ Achieved(i)' = Achieved(i)
  BY <1>1 DEF Achievable, Achieved
<1>6. Achievable(n)' \in Nat /\ Achieved(n)' \in Nat
  <2>1. batch[n].plan_amount \in Nat
    <3>1. batch[n] \in Record
      BY BatchTyped DEF BooksInv, CeilingInv, Base
    <3>2. QED
      BY <3>1 DEF Record
  <2>2. QED
    BY <2>1 DEF Achievable, Achieved, When
<1> PICK a \in Nat, b \in Nat : a = Achievable(n)' /\ b = Achieved(n)'
  BY <1>6
<1> DEFINE F == [i \in 0 .. n |-> IF i < n THEN f[i] ELSE f[n - 1] + a]
           G == [i \in 0 .. n |-> IF i < n THEN g[i] ELSE g[n - 1] + b]
<1>7. /\ F \in [0 .. n -> Nat] /\ G \in [0 .. n -> Nat] /\ F[0] = 0 /\ G[0] = 0
      /\ \A i \in 0 .. n - 1 : F[i] = f[i] /\ G[i] = g[i]
      /\ F[n] = f[n - 1] + a /\ G[n] = g[n - 1] + b
  BY <1>1, <1>4
<1> HIDE DEF F, G
<1>8. ASSUME NEW i \in 1 .. n
      PROVE  F[i] = F[i - 1] + Achievable(i)' /\ G[i] = G[i - 1] + Achieved(i)'
  <2>1. CASE i = n
    <3>1. F[n] = F[n - 1] + a /\ G[n] = G[n - 1] + b
      BY <1>1, <1>7
    <3>2. QED
      BY <2>1, <3>1
  <2>2. CASE i \in 1 .. n - 1
    BY <1>1, <1>4, <1>5, <1>7, <2>2
  <2>3. QED
    BY <1>1, <2>1, <2>2
<1>9. SumsBy(F, G)'
  BY <1>3, <1>7, <1>8 DEF SumsBy, F, G
<1>10. \A k \in 1 .. CeilingTurn : Counted(k) = 0 /\ Counted(k)' = 0
  BY <1>2, ChosenPolicies DEF Counted
<1>11. ColumnsBy(F, G)'
  <2>1. \A k \in 1 .. CeilingTurn : books'[k] = books[k]
    OBVIOUS
  <2>2. CeilingTurn \in 1 .. CeilingTurn
    BY ChosenPolicies
  <2>3. QED
    BY <1>4, <1>7, <1>10, <2>1, <2>2 DEF AddsUp, ColumnsBy, CeilingTurn
<1>12. AddsUp(F, G)'
  BY <1>9, <1>11 DEF AddsUp
<1>13. QED
  BY <1>12

(* An outcome is entered in the column in hand.                             *)
LEMMA ColumnAddsUp ==
  ASSUME BooksInv, Base', NEW o \in OutcomeType, turn \in 1 .. CeilingTurn, NextRow,
         Enter(turn, o), UNCHANGED <<batch, ceiling>>,
         o.cost = 200 * o.charges + 50 * o.contacts,
         o.reachable <=> ceiling[row].found = "recovered",
         turn = CeilingTurn => (o.reason = "RECOVERED" <=> o.reachable)
  PROVE  Books' /\ \E f, g : AddsUp(f, g)'
<1> PICK f, g : AddsUp(f, g)
  BY DEF BooksInv
<1> PICK n \in Rows : n = row
  BY DEF BooksInv, CeilingInv, Base, Placed
<1>1. /\ n = row /\ n \in 1 .. Len(batch) /\ n - 1 \in Nat /\ Rows = 1 .. Len(batch) /\ n \in Nat
      /\ Len(batch) \in Nat /\ turn \in Nat /\ turn >= 1 /\ CeilingTurn \in Nat
  BY BatchTyped, ChosenPolicies DEF BooksInv, CeilingInv, Base
<1>2. \/ turn' = turn /\ row' = n + 1
      \/ turn' = turn + 1 /\ row' = 1 /\ n = Len(batch)
  BY <1>1 DEF NextRow
<1>3. Settled = Len(batch) /\ Settled' = Len(batch)
  BY <1>1, <1>2 DEF Settled
<1>4. /\ f \in [0 .. Len(batch) -> Nat] /\ g \in [0 .. Len(batch) -> Nat]
      /\ f[0] = 0 /\ g[0] = 0
      /\ f[n] = f[n - 1] + Achievable(n) /\ g[n] = g[n - 1] + Achieved(n)
  BY <1>1, <1>3 DEF AddsUp, SumsBy
<1>5. SumsBy(f, g)'
  BY <1>3 DEF AddsUp, SumsBy, Achievable, Achieved
<1>6. /\ Counted(turn) = n - 1 /\ \A k \in 1 .. CeilingTurn : k = turn => Counted(k)' = n
      /\ \A k \in 1 .. CeilingTurn : k # turn => Counted(k)' = Counted(k)
  BY <1>1, <1>2 DEF Counted
<1> DEFINE b == books[turn]
           c == Entered(b, o, batch[row].plan_amount)
<1>7. /\ b \in [Metrics -> Nat] /\ Balanced(b) /\ books' = [books EXCEPT ![turn] = c]
      /\ books \in [1 .. CeilingTurn -> [Metrics -> Nat]]
      /\ \A k \in 1 .. CeilingTurn : Balanced(books[k])
  BY DEF BooksInv, Books, Enter, Entered
<1>8. batch[row].plan_amount \in Nat
  <2>1. batch[row] \in Record
    BY <1>1, BatchTyped DEF BooksInv, CeilingInv, Base
  <2>2. QED
    BY <2>1 DEF Record
<1> HIDE DEF b, c
<1>9. /\ c \in [Metrics -> Nat] /\ Balanced(c) /\ c["n"] = b["n"] + 1
      /\ c["recoverable"] = b["recoverable"] + (IF o.reachable THEN batch[row].plan_amount ELSE 0)
      /\ c["gross"] = b["gross"]
           + (IF o.reason = "RECOVERED" THEN batch[row].plan_amount ELSE 0)
      /\ c["recovered"] = b["recovered"] + (IF o.reason = "RECOVERED" THEN 1 ELSE 0)
      /\ c["tp"] + c["fn"] = b["tp"] + b["fn"] + (IF o.reachable THEN 1 ELSE 0)
  <2>1. PICK bb \in [Metrics -> Nat], amount \in Nat : bb = b /\ amount = batch[row].plan_amount
    BY <1>7, <1>8
  <2>2. PICK cc : cc = Entered(bb, o, amount)
    OBVIOUS
  <2>3. bb \in [Metrics -> Nat] /\ Balanced(bb) /\ c = cc
    BY <1>7, <2>1, <2>2 DEF c
  <2>4. /\ cc \in [Metrics -> Nat] /\ Balanced(cc) /\ cc["n"] = bb["n"] + 1
        /\ cc["recoverable"] = bb["recoverable"] + (IF o.reachable THEN amount ELSE 0)
        /\ cc["gross"] = bb["gross"] + (IF o.reason = "RECOVERED" THEN amount ELSE 0)
        /\ cc["recovered"] = bb["recovered"] + (IF o.reason = "RECOVERED" THEN 1 ELSE 0)
        /\ cc["tp"] + cc["fn"] = bb["tp"] + bb["fn"] + (IF o.reachable THEN 1 ELSE 0)
    BY <2>2, <2>3, ShareBalances
  <2>5. QED
    BY <2>1, <2>3, <2>4
<1>10. /\ books' \in [1 .. CeilingTurn -> [Metrics -> Nat]] /\ books'[turn] = c
       /\ \A k \in 1 .. CeilingTurn : k # turn => books'[k] = books[k]
  BY <1>7, <1>9
<1>11. Books'
  BY <1>7, <1>9, <1>10 DEF Books, CeilingTurn
<1>12. /\ Achievable(n) = IF o.reachable THEN batch[row].plan_amount ELSE 0
       /\ Achieved(n) = IF o.reachable THEN 1 ELSE 0
  BY <1>1 DEF Achievable, Achieved, When
<1>13. /\ b["n"] = n - 1 /\ b["recoverable"] = f[n - 1] /\ b["tp"] + b["fn"] = g[n - 1]
       /\ turn = CeilingTurn => b["gross"] = f[n - 1] /\ b["recovered"] = g[n - 1]
  BY <1>6 DEF AddsUp, ColumnsBy, b
<1>14. /\ c["n"] = n /\ c["recoverable"] = f[n] /\ c["tp"] + c["fn"] = g[n]
       /\ turn = CeilingTurn => c["gross"] = f[n] /\ c["recovered"] = g[n]
  <2>1. c["n"] = n /\ c["recoverable"] = f[n] /\ c["tp"] + c["fn"] = g[n]
    BY <1>1, <1>4, <1>9, <1>12, <1>13
  <2>2. CASE turn = CeilingTurn
    <3>1. /\ Achievable(n) = IF o.reason = "RECOVERED" THEN batch[row].plan_amount ELSE 0
          /\ Achieved(n) = IF o.reason = "RECOVERED" THEN 1 ELSE 0
      BY <1>12, <2>2
    <3>2. QED
      BY <1>4, <1>9, <1>13, <2>1, <2>2, <3>1
  <2>3. QED
    BY <2>1, <2>2
<1>15. ColumnsBy(f, g)'
  <2>1. ASSUME NEW k \in 1 .. CeilingTurn
        PROVE  /\ books'[k]["n"] = Counted(k)' /\ books'[k]["recoverable"] = f[Counted(k)']
               /\ books'[k]["tp"] + books'[k]["fn"] = g[Counted(k)']
               /\ k = CeilingTurn => /\ books'[k]["gross"] = f[Counted(k)']
                                     /\ books'[k]["recovered"] = g[Counted(k)']
    <3>1. CASE k = turn
      BY <1>6, <1>10, <1>14, <3>1
    <3>2. CASE k # turn
      <4>1. books'[k] = books[k] /\ Counted(k)' = Counted(k)
        BY <1>6, <1>10, <3>2
      <4>2. QED
        BY <4>1 DEF AddsUp, ColumnsBy
    <3>3. QED
      BY <3>1, <3>2
  <2>2. CeilingTurn \in 1 .. CeilingTurn
    BY ChosenPolicies
  <2>3. /\ books'[CeilingTurn]["gross"] = f[Counted(CeilingTurn)']
        /\ books'[CeilingTurn]["recovered"] = g[Counted(CeilingTurn)']
    BY <2>1, <2>2
  <2>4. QED
    BY <2>1, <2>3 DEF ColumnsBy, CeilingTurn, Counted
<1>16. AddsUp(f, g)'
  BY <1>5, <1>15 DEF AddsUp
<1>17. QED
  BY <1>11, <1>16

LEMMA ScoreBooks ==
  ASSUME BooksInv, Score, Base' PROVE Books' /\ \E f, g : AddsUp(f, g)'
<1> DEFINE o == Outcome(terminal, charge_attempts, contact_actions, cost,
                        hard_decline_retries, predicted, ceiling[row].found = "recovered")
<1>1. /\ turn \in Turns /\ Enter(turn, o) /\ NextRow /\ UNCHANGED <<batch, ceiling>>
  BY DEF Score, fixedVars
<1>2. /\ turn \in 1 .. CeilingTurn /\ turn # CeilingTurn
  BY <1>1, ChosenPolicies
<1>3. /\ terminal \in {"none"} \cup TerminalReason /\ charge_attempts \in Nat
      /\ contact_actions \in Nat /\ hard_decline_retries \in Nat /\ predicted \in BOOLEAN
      /\ cost = 200 * charge_attempts + 50 * contact_actions
  BY DEF BooksInv, CeilingInv, Base, LoopInv, TypeOK, Spent
<1>4. cost \in Nat
  BY <1>3
<1>5. /\ o \in OutcomeType /\ o.cost = 200 * o.charges + 50 * o.contacts
      /\ o.reachable <=> ceiling[row].found = "recovered"
  BY <1>3, <1>4 DEF Outcome, OutcomeType
<1> HIDE DEF o
<1>6. QED
  BY <1>1, <1>2, <1>5, ColumnAddsUp

LEMMA ScoreCeilingBooks ==
  ASSUME BooksInv, ScoreCeiling, Base' PROVE Books' /\ \E f, g : AddsUp(f, g)'
<1> DEFINE c == ceiling[row]
           won == c.found = "recovered"
           o == Outcome(IF won THEN "RECOVERED" ELSE "POLICY_STOPPED", c.charges, c.contacts,
                        c.charges * cost_of("RETRY_CHARGE")
                          + c.contacts * cost_of("SEND_PAYMENT_LINK"),
                        0, won, won)
<1>1. turn = CeilingTurn /\ Enter(CeilingTurn, o) /\ NextRow /\ UNCHANGED <<batch, ceiling>>
  BY DEF ScoreCeiling, vars
<1>2. turn \in 1 .. CeilingTurn /\ Enter(turn, o)
  BY <1>1, ChosenPolicies
<1>3. c.charges \in Nat /\ c.contacts \in Nat
  BY ResultTyped DEF BooksInv, CeilingInv, Base, Placed, Ceilings
<1>4. /\ c.charges * cost_of("RETRY_CHARGE") + c.contacts * cost_of("SEND_PAYMENT_LINK")
           = 200 * c.charges + 50 * c.contacts
      /\ 200 * c.charges + 50 * c.contacts \in Nat
  <2>1. cost_of("RETRY_CHARGE") = 200 /\ cost_of("SEND_PAYMENT_LINK") = 50
    BY DEF cost_of
  <2> HIDE DEF c
  <2>2. QED
    BY <1>3, <2>1
<1>5. /\ o.reason = (IF won THEN "RECOVERED" ELSE "POLICY_STOPPED") /\ o.charges = c.charges
      /\ o.contacts = c.contacts /\ o.cost = 200 * c.charges + 50 * c.contacts
      /\ o.hard = 0 /\ (o.predicted <=> won) /\ (o.reachable <=> won)
  BY <1>4 DEF Outcome
<1>6. o \in OutcomeType
  BY <1>3, <1>4 DEF Outcome, OutcomeType, TerminalReason
<1>7. (o.reachable <=> ceiling[row].found = "recovered") /\ (o.reason = "RECOVERED" <=> o.reachable)
  BY <1>5
<1> HIDE DEF o, c, won
<1>8. o.cost = 200 * o.charges + 50 * o.contacts
  BY <1>5
<1>9. QED
  BY <1>1, <1>2, <1>6, <1>7, <1>8, ColumnAddsUp

LEMMA NextBooks == BooksInv /\ [EvaluationNext]_evaluationVars => BooksInv'
<1> SUFFICES ASSUME BooksInv, [EvaluationNext]_evaluationVars
             PROVE  Books' /\ \E f, g : AddsUp(f, g)'
  BY NextCeilings DEF BooksInv
<1>0. Base'
  BY NextBase DEF BooksInv, CeilingInv
<1>1. ASSUME UNCHANGED <<batch, ceiling, books, turn, row>>
      PROVE  Books' /\ \E f, g : AddsUp(f, g)'
  <2>1. PICK f, g : AddsUp(f, g)
    BY DEF BooksInv
  <2>2. AddsUp(f, g)'
    BY <1>1, <2>1 DEF AddsUp, SumsBy, ColumnsBy, Counted, Settled, Achievable, Achieved, CeilingTurn
  <2>3. Books'
    BY <1>1 DEF BooksInv, Books, CeilingTurn
  <2>4. QED
    BY <2>2, <2>3
<1>2. CASE UNCHANGED evaluationVars
  BY <1>1, <1>2 DEF evaluationVars
<1>3. CASE \E verdict \in {"approved", "rejected"} :
             ReviewInHand(verdict) \/ \E item \in shelf : ReviewOnShelf(item, verdict)
  BY <1>1, <1>3 DEF ReviewInHand, ReviewOnShelf
<1>4. CASE Halts \/ Acts
  BY <1>1, <1>4 DEF Halts, Acts, Running_record
<1>5. CASE OracleSlot \/ OracleMisses
  <2>1. /\ turn = 0 /\ UNCHANGED <<batch, books>>
        /\ NextRow \/ UNCHANGED <<row, turn>>
    BY <1>5 DEF OracleSlot, OracleMisses, Searching
  <2>2. \A i \in Rows : i # row => ceiling'[i] = ceiling[i]
    <3>1. ceiling \in [Rows -> OracleResult]
      BY DEF BooksInv, CeilingInv, Ceilings
    <3>2. \E d : ceiling' = [ceiling EXCEPT ![row] = d]
      BY <1>5 DEF OracleSlot, OracleMisses
    <3>3. QED
      BY <3>1, <3>2
  <2>3. CASE NextRow
    BY <1>0, <2>1, <2>2, <2>3, CeilingAddsUp DEF BooksInv, Books, CeilingTurn
  <2>4. CASE UNCHANGED <<row, turn>>
    <3>1. PICK f, g : AddsUp(f, g)
      BY DEF BooksInv
    <3>2. /\ row \in Nat /\ row <= Len(batch) /\ Rows = 1 .. Len(batch) /\ Len(batch) \in Nat
          /\ Settled = row - 1
      BY <2>1, BatchTyped DEF BooksInv, CeilingInv, Base, Settled
    <3>3. \A i \in 1 .. Settled : Achievable(i)' = Achievable(i) /\ Achieved(i)' = Achieved(i)
      BY <2>1, <2>2, <3>2 DEF Achievable, Achieved
    <3>4. AddsUp(f, g)'
      BY <2>1, <2>4, <3>1, <3>3
      DEF AddsUp, SumsBy, ColumnsBy, Counted, Settled, CeilingTurn
    <3>5. Books'
      BY <2>1 DEF BooksInv, Books, CeilingTurn
    <3>6. QED
      BY <3>4, <3>5
  <2>5. QED
    BY <2>1, <2>3, <2>4
<1>6. CASE EvaluateAgain
  <2>1. /\ books' = [k \in 1 .. CeilingTurn |-> NoOutcomes] /\ turn' = 0 /\ row' = 1
    BY <1>6 DEF EvaluateAgain
  <2>2. Emptied'
    BY <2>1 DEF Emptied, CeilingTurn
  <2>3. QED
    BY <2>2, EmptyAgain DEF BooksKept
<1>7. QED
  BY <1>0, <1>2, <1>3, <1>4, <1>5, <1>6, ScoreBooks, ScoreCeilingBooks
  DEF EvaluationNext, Evaluates

LEMMA BooksInvariance == EvaluationSpec => [](BooksInv /\ QueueInv)
<1>1. EvaluationInit => BooksInv /\ QueueInv
  <2> SUFFICES ASSUME EvaluationInit PROVE BooksInv /\ QueueInv
    OBVIOUS
  <2>1. Emptied
    BY DEF EvaluationInit, Emptied
  <2>2. QED
    BY <2>1, InitBase, InitCeilings, EmptyBooks, InitQueue DEF CeilingInv, BooksInv, BooksKept
<1>2. QED
  BY <1>1, NextBooks, NextQueue, PTL DEF EvaluationSpec

(* The books balance, and every policy is measured against what the ceiling *)
(* recovers of the same records (metrics.compute, run_oracle).              *)
THEOREM BooksAlwaysBalance == EvaluationSpec => []BooksBalance
<1>1. BooksInv /\ QueueInv => BooksBalance
  <2> SUFFICES ASSUME BooksInv, QueueInv PROVE BooksBalance
    OBVIOUS
  <2>1. \A k \in 1 .. CeilingTurn : Balanced(books[k])
    BY DEF BooksInv, Books
  <2>2. ASSUME Over, NEW k \in Turns
        PROVE  /\ books[k]["n"] = Len(batch) /\ Len(ends[run][k]) = Len(batch)
               /\ books[k]["recoverable"] = books[CeilingTurn]["gross"]
               /\ books[k]["tp"] + books[k]["fn"] = books[CeilingTurn]["recovered"]
    <3>1. turn = CeilingTurn + 1 /\ run \in Runs
      BY <2>2 DEF Over, QueueInv, Base, Placed
    <3>2. /\ k \in 1 .. CeilingTurn /\ Counted(k) = Len(batch) /\ Done(run, k) = Len(batch)
          /\ Counted(CeilingTurn) = Len(batch)
      BY <3>1, ChosenPolicies DEF Counted, Done
    <3>3. PICK f, g : ColumnsBy(f, g)
      BY DEF BooksInv, AddsUp
    <3>4. QED
      BY <3>1, <3>2, <3>3 DEF ColumnsBy, QueueInv, EndsTyped
  <2>3. QED
    BY <2>1, <2>2 DEF BooksBalance
<1>2. QED
  BY <1>1, BooksInvariance, PTL

(* Types, and the limits of the ceiling (outcome_model.oracle_recovers).    *)
THEOREM EvaluationTypeCorrect == EvaluationSpec => []EvaluationTypeOK
<1>1. BooksInv /\ QueueInv => EvaluationTypeOK
  <2> SUFFICES ASSUME BooksInv, QueueInv PROVE EvaluationTypeOK
    OBVIOUS
  <2>1. TypeOK
    BY DEF QueueInv, Base, LoopInv
  <2>2. /\ batch \in Batches /\ world \in [Rows -> Truths]
        /\ run \in Runs /\ turn \in 0 .. CeilingTurn + 1 /\ row \in Rows
    BY DEF QueueInv, Base, Placed
  <2>3. DOMAIN ceiling = Rows /\ \A i \in Rows : CeilingOK(i)
    BY DEF BooksInv, CeilingInv, Ceilings, Sound, Within, CeilingOK
  <2>4. cost \in Nat /\ predicted \in BOOLEAN /\ chance \in Nat
    <3>1. charge_attempts \in Nat /\ contact_actions \in Nat
      BY <2>1 DEF TypeOK
    <3>2. QED
      BY <3>1 DEF QueueInv, Base, Spent
  <2>5. /\ ends \in [Runs -> [Turns -> Seq(TerminalReason)]]
        /\ books \in [1 .. CeilingTurn -> [Metrics -> Nat]]
    BY DEF QueueInv, EndsTyped, BooksInv, Books
  <2>6. ASSUME NEW item \in shelf
        PROVE  /\ item.run \in 1 .. run /\ item.turn \in Turns /\ item.row \in Rows
               /\ item.amount = batch[item.row].plan_amount
               /\ item.status \in {"pending", "approved", "rejected"}
    <3>1. /\ item.run \in Runs /\ item.turn \in Turns /\ item.row \in Rows /\ item.run <= run
          /\ item.amount = batch[item.row].plan_amount
          /\ item.status \in {"pending", "approved", "rejected"}
      BY DEF QueueInv, ShelfTyped, ShelfItem
    <3>2. item.run \in 1 .. run
      BY <2>2, <3>1, AttemptsAssumption DEF Runs
    <3>3. QED
      BY <3>1, <3>2
  <2>7. QED
    BY <2>1, <2>2, <2>3, <2>4, <2>5, <2>6 DEF EvaluationTypeOK
<1>2. QED
  BY <1>1, BooksInvariance, PTL

-------------------------------------------------------------------------------
(* Luck.                                                                    *)

(* The draws and the mandate let a first charge after a day succeed.        *)
FirstRetryWins(i) ==
  /\ 24 <= RECOVERY_WINDOW_HOURS
  /\ batch[i].plan_amount <= batch[i].max_amount
  /\ batch[i].method = batch[i].allowed_method
  /\ 24 <= batch[i].expiry
  /\ draw(world[i], 0) < success_probability(batch[i], world[i], "RETRY_CHARGE", 48, 0, 0)

Untouched == elapsed = 0 /\ charge_attempts = 0 /\ contact_actions = 0

(* The one retry wins where the first retry does, the first of three as     *)
(* well, and nothing else ends the three before it.                         *)
Retries ==
  turn \in Turns =>
    /\ policy = "retry_once" =>
         /\ contact_actions = 0
         /\ charge_attempts = 0 => elapsed = 0
         /\ terminal = "RECOVERED" => FirstRetryWins(row)
    /\ policy = "retry_3x_fixed" /\ FirstRetryWins(row) =>
         terminal = "RECOVERED" \/ (terminal = "none" /\ Untouched)

Alike ==
  \A r \in Runs : \A k \in Turns : \A i \in DOMAIN ends[r][k] :
    /\ Chosen[k] = "retry_once" /\ ends[r][k][i] = "RECOVERED" => FirstRetryWins(i)
    /\ Chosen[k] = "retry_3x_fixed" /\ FirstRetryWins(i) => ends[r][k][i] = "RECOVERED"

(* What recovers a record was likelier than its draw, and the first action  *)
(* is one that the ceiling might have taken at that hour.                   *)
Lucky ==
  turn \in Turns /\ terminal = "RECOVERED" =>
    /\ slot >= 1 /\ draw(world[row], slot - 1) < chance
    /\ slot = 1 => \E j \in 1 .. 3 :
         /\ chance = success_probability(record, world[row], ORACLE_ACTIONS[j], 2 * elapsed, 0, 0)
         /\ ORACLE_ACTIONS[j] = "RETRY_CHARGE" => InMandate(record, 2 * elapsed)

LuckInv == CeilingInv /\ QueueInv /\ Retries /\ Alike /\ Lucky

(* No policy stops with a recovery.                                         *)
LEMMA StopsWithout ==
  ASSUME TypeOK, decision.action = "STOP" PROVE decision.reason # "RECOVERED"
<1>1. policy \in Policy
  BY ChosenTyped
<1>2. CASE policy = "agent"
  <2>1. decision = AgentDecision
    BY <1>2 DEF decision
  <2>2. Outreach \in {"STOP", "SEND_PAYMENT_LINK", "REQUEST_CARD_UPDATE"}
    BY DEF Outreach
  <2>3. elapsed \in Nat /\ config.recovery_window \in Nat
    BY ChosenTyped, LimitsAssumption DEF TypeOK
  <2>4. QED
    BY <2>1, <2>2, <2>3 DEF AgentDecision, Stopping, Acting
<1>3. CASE policy # "agent"
  BY <1>1, <1>3 DEF decision, Policy, Baseline, Stopping, Acting
<1>4. QED
  BY <1>2, <1>3

LEMMA HaltsWithout ==
  ASSUME Base, Halts PROVE terminal' # "RECOVERED" /\ UNCHANGED <<chosen, spent>>
  BY StopsWithout DEF Base, LoopInv, Halts, Stop, Escalate, AttemptCap, WindowClosed, Blocked, Halt

(* A loop at its start has nothing to answer for.                           *)
LEMMA FreshLuck ==
  ASSUME Untouched', terminal' = "none" PROVE Retries' /\ Lucky'
  BY DEF Untouched, Retries, Lucky

(* A first retry, after a day.                                              *)
LEMMA FirstRetry ==
  ASSUME policy \in {"retry_once", "retry_3x_fixed"}, Untouched
  PROVE  /\ decision.action = "RETRY_CHARGE" /\ t_hours = 24 /\ slot = 0
         /\ Permits(24) <=> /\ record.plan_amount <= record.max_amount
                            /\ record.method = record.allowed_method
                            /\ 24 <= record.expiry
         /\ Chance = success_probability(record, world[row], "RETRY_CHARGE", 48, 0, 0)
<1>1. decision = Acting("RETRY_CHARGE", 24)
  BY DEF decision, Baseline, Untouched
<1>2. decision.action = "RETRY_CHARGE" /\ decision.delay = 24
  BY <1>1 DEF Acting
<1>3. t_hours = 24 /\ slot = 0 /\ 2 * t_hours = 48
  BY <1>2 DEF t_hours, slot, Untouched
<1>4. Chance = success_probability(record, world[row], "RETRY_CHARGE", 48, 0, 0)
  BY <1>2, <1>3 DEF Chance, Untouched
<1>5. QED
  BY <1>2, <1>3, <1>4 DEF Permits

LEMMA HaltsRetries ==
  ASSUME LuckInv, Halts PROVE Retries'
<1>1. /\ turn \in Turns /\ terminal = "none" /\ UNCHANGED <<batch, world, turn, row>>
      /\ terminal' # "RECOVERED" /\ UNCHANGED <<chosen, spent>>
      /\ record = batch[row]
  BY HaltsWithout DEF LuckInv, QueueInv, Base, InHand, Halts, Running_record, Running
<1>2. ~(policy = "retry_3x_fixed" /\ FirstRetryWins(row))
  <2> SUFFICES ASSUME policy = "retry_3x_fixed", FirstRetryWins(row) PROVE FALSE
    OBVIOUS
  <2>1. Untouched
    BY <1>1 DEF LuckInv, Retries
  <2>2. /\ decision.action = "RETRY_CHARGE" /\ t_hours = 24 /\ slot = 0
        /\ Permits(24) <=> /\ record.plan_amount <= record.max_amount
                           /\ record.method = record.allowed_method
                           /\ 24 <= record.expiry
    BY <2>1, FirstRetry
  <2>3. SlotLeft /\ WithinWindow /\ InEnvelope
    BY <1>1, <2>2, LimitsAssumption DEF SlotLeft, WithinWindow, InEnvelope, FirstRetryWins
  <2>4. QED
    BY <2>2, <2>3 DEF Halts, Stop, Escalate, AttemptCap, WindowClosed, Blocked
<1>3. policy' = policy /\ charge_attempts' = charge_attempts /\ elapsed' = elapsed
      /\ contact_actions' = contact_actions /\ \A i : FirstRetryWins(i)' <=> FirstRetryWins(i)
  BY <1>1 DEF chosen, spent, FirstRetryWins
<1>4. FirstRetryWins(row)' <=> FirstRetryWins(row)
  BY <1>1 DEF FirstRetryWins
<1>5. QED
  BY <1>1, <1>2, <1>3, <1>4 DEF LuckInv, Retries

LEMMA ActsRetries ==
  ASSUME LuckInv, Acts PROVE Retries'
<1>1. /\ Running_record /\ turn \in Turns /\ terminal = "none" /\ UNCHANGED chosen
      /\ Proposes /\ SlotLeft /\ WithinWindow /\ InEnvelope
      /\ elapsed' = t_hours /\ (terminal' = "RECOVERED" <=> Succeeds)
      /\ charge_attempts \in Nat /\ contact_actions \in Nat
      /\ \/ /\ decision.action = "RETRY_CHARGE"
            /\ charge_attempts' = charge_attempts + 1 /\ contact_actions' = contact_actions
         \/ /\ decision.action \in {"SEND_PAYMENT_LINK", "REQUEST_CARD_UPDATE"}
            /\ charge_attempts' = charge_attempts /\ contact_actions' = contact_actions + 1
  BY Reaching DEF LuckInv, QueueInv
<1>2. UNCHANGED <<batch, world, turn, row>> /\ policy' = policy /\ record = batch[row]
  BY <1>1 DEF Running_record, chosen, LuckInv, QueueInv, Base, InHand
<1>3. FirstRetryWins(row)' <=> FirstRetryWins(row)
  BY <1>2 DEF FirstRetryWins
<1>4. ASSUME policy \in {"retry_once", "retry_3x_fixed"}, Untouched
      PROVE  terminal' = "RECOVERED" <=> FirstRetryWins(row)
  <2>1. /\ decision.action = "RETRY_CHARGE" /\ t_hours = 24 /\ slot = 0
        /\ Permits(24) <=> /\ record.plan_amount <= record.max_amount
                           /\ record.method = record.allowed_method
                           /\ 24 <= record.expiry
        /\ Chance = success_probability(record, world[row], "RETRY_CHARGE", 48, 0, 0)
    BY <1>4, FirstRetry
  <2>2. 24 <= RECOVERY_WINDOW_HOURS /\ Permits(24)
    BY <1>1, <2>1 DEF WithinWindow, InEnvelope, moves_money
  <2>3. Succeeds <=> draw(world[row], 0)
                       < success_probability(record, world[row], "RETRY_CHARGE", 48, 0, 0)
    BY <2>1 DEF Succeeds
  <2>4. QED
    BY <1>1, <1>2, <2>1, <2>2, <2>3 DEF FirstRetryWins
<1>5. ASSUME policy = "retry_once"
      PROVE  /\ contact_actions' = 0 /\ charge_attempts' # 0
             /\ terminal' = "RECOVERED" => FirstRetryWins(row)
  <2>1. contact_actions = 0 /\ (charge_attempts = 0 => elapsed = 0)
    BY <1>1, <1>5 DEF LuckInv, Retries
  <2>2. charge_attempts = 0 /\ decision.action = "RETRY_CHARGE"
    BY <1>1, <1>5 DEF decision, Baseline, Stopping, Acting, Proposes
  <2>3. Untouched
    BY <2>1, <2>2 DEF Untouched
  <2>4. QED
    BY <1>1, <1>4, <1>5, <2>1, <2>2, <2>3
<1>6. ASSUME policy = "retry_3x_fixed", FirstRetryWins(row) PROVE terminal' = "RECOVERED"
  <2>1. Untouched
    BY <1>1, <1>6 DEF LuckInv, Retries
  <2>2. QED
    BY <1>4, <1>6, <2>1
<1>7. QED
  BY <1>2, <1>3, <1>5, <1>6 DEF Retries

LEMMA ActsLucky ==
  ASSUME LuckInv, Acts PROVE Lucky'
<1>1. /\ Running_record /\ UNCHANGED chosen /\ InEnvelope
      /\ elapsed' = t_hours /\ (terminal' = "RECOVERED" <=> Succeeds) /\ chance' = Chance
      /\ charge_attempts \in Nat /\ contact_actions \in Nat
      /\ \/ /\ decision.action = "RETRY_CHARGE"
            /\ charge_attempts' = charge_attempts + 1 /\ contact_actions' = contact_actions
         \/ /\ decision.action \in {"SEND_PAYMENT_LINK", "REQUEST_CARD_UPDATE"}
            /\ charge_attempts' = charge_attempts /\ contact_actions' = contact_actions + 1
  BY Reaching DEF LuckInv, QueueInv
<1>2. UNCHANGED <<batch, world, turn, row>> /\ record' = record
  BY <1>1 DEF Running_record, chosen
<1>3. slot \in Nat /\ slot' = slot + 1 /\ slot' - 1 = slot /\ slot' >= 1
  BY <1>1 DEF slot
<1>4. SUFFICES ASSUME terminal' = "RECOVERED"
               PROVE  /\ draw(world[row], slot) < Chance
                      /\ slot = 0 => \E j \in 1 .. 3 :
                           /\ Chance = success_probability(record, world[row], ORACLE_ACTIONS[j],
                                                           2 * t_hours, 0, 0)
                           /\ ORACLE_ACTIONS[j] = "RETRY_CHARGE" => InMandate(record, 2 * t_hours)
  BY <1>1, <1>2, <1>3 DEF Lucky
<1>5. draw(world[row], slot) < Chance
  BY <1>1, <1>4 DEF Succeeds
<1>6. ASSUME slot = 0
      PROVE  \E j \in 1 .. 3 :
               /\ Chance = success_probability(record, world[row], ORACLE_ACTIONS[j],
                                               2 * t_hours, 0, 0)
               /\ ORACLE_ACTIONS[j] = "RETRY_CHARGE" => InMandate(record, 2 * t_hours)
  <2>1. charge_attempts = 0 /\ contact_actions = 0
    BY <1>1, <1>6 DEF slot
  <2>2. Chance = success_probability(record, world[row], decision.action, 2 * t_hours, 0, 0)
    BY <2>1 DEF Chance
  <2>3. decision.action = "RETRY_CHARGE" => InMandate(record, 2 * t_hours)
    <3>1. record.expiry \in Int /\ t_hours \in Int
      <4>1. TypeOK /\ decision.action \notin {"STOP", "ESCALATE_HUMAN"}
        BY <1>1 DEF LuckInv, QueueInv, Base, LoopInv
      <4>2. decision.delay \in Nat /\ elapsed \in Nat /\ record.expiry \in Int
        BY <4>1, DecisionTyped, ChosenTyped, LimitsAssumption DEF TypeOK
      <4>3. QED
        BY <4>2 DEF t_hours
    <3>2. QED
      BY <1>1, <3>1 DEF InEnvelope, moves_money, Permits, InMandate
  <2>4. PICK j \in 1 .. 3 : ORACLE_ACTIONS[j] = decision.action
    <3>1. /\ ORACLE_ACTIONS[1] = "RETRY_CHARGE" /\ ORACLE_ACTIONS[2] = "SEND_PAYMENT_LINK"
          /\ ORACLE_ACTIONS[3] = "REQUEST_CARD_UPDATE" /\ 1 \in 1 .. 3 /\ 2 \in 1 .. 3 /\ 3 \in 1 .. 3
      BY DEF ORACLE_ACTIONS
    <3>2. QED
      BY <1>1, <3>1
  <2>5. QED
    BY <2>2, <2>3, <2>4
<1>7. QED
  BY <1>5, <1>6

LEMMA ScoreAlike ==
  ASSUME LuckInv, Score PROVE Alike'
<1>1. /\ EndsTyped' /\ UNCHANGED <<batch, config, run>>
      /\ run \in Runs /\ turn \in Turns /\ row \in Rows /\ row \in Nat
      /\ Len(ends[run][turn]) = row - 1
      /\ ends'[run][turn] = Append(ends[run][turn], terminal)
      /\ \A r \in Runs, k \in Turns : r # run \/ k # turn => ends'[r][k] = ends[r][k]
  BY ScoreEnds DEF LuckInv
<1>2. /\ policy = Chosen[turn] /\ terminal # "none" /\ UNCHANGED world
      /\ ends[run][turn] \in Seq(TerminalReason)
  BY <1>1 DEF LuckInv, QueueInv, Base, InHand, EndsTyped, Score, Running, fixedVars
<1>3. /\ ends'[run][turn][row] = terminal
      /\ \A i \in 1 .. row - 1 : ends'[run][turn][i] = ends[run][turn][i]
      /\ DOMAIN ends'[run][turn] = 1 .. row /\ DOMAIN ends[run][turn] = 1 .. row - 1
  BY <1>1, <1>2
<1>4. /\ Chosen[turn] = "retry_once" /\ terminal = "RECOVERED" => FirstRetryWins(row)
      /\ Chosen[turn] = "retry_3x_fixed" /\ FirstRetryWins(row) => terminal = "RECOVERED"
  BY <1>1, <1>2 DEF LuckInv, Retries
<1>5. ASSUME NEW r \in Runs, NEW k \in Turns, NEW i \in DOMAIN ends'[r][k]
      PROVE  /\ Chosen[k] = "retry_once" /\ ends'[r][k][i] = "RECOVERED" => FirstRetryWins(i)
             /\ Chosen[k] = "retry_3x_fixed" /\ FirstRetryWins(i) => ends'[r][k][i] = "RECOVERED"
  <2>1. CASE r = run /\ k = turn /\ i = row
    BY <1>3, <1>4, <2>1
  <2>2. CASE ~(r = run /\ k = turn /\ i = row)
    <3>1. i \in DOMAIN ends[r][k] /\ ends'[r][k][i] = ends[r][k][i]
      <4>1. CASE r = run /\ k = turn
        BY <1>1, <1>3, <2>2, <4>1
      <4>2. CASE r # run \/ k # turn
        BY <1>1, <4>2
      <4>3. QED
        BY <4>1, <4>2
    <3>2. QED
      BY <3>1 DEF LuckInv, Alike
  <2>3. QED
    BY <2>1, <2>2
<1>6. QED
  BY <1>1, <1>2, <1>5 DEF Alike, FirstRetryWins, Runs, Turns

LEMMA NextLuck == LuckInv /\ [EvaluationNext]_evaluationVars => LuckInv'
<1> SUFFICES ASSUME LuckInv, [EvaluationNext]_evaluationVars PROVE Retries' /\ Alike' /\ Lucky'
  BY NextCeilings, NextQueue DEF LuckInv
<1>1. ASSUME UNCHANGED <<batch, world, ends>> PROVE Alike'
  BY <1>1 DEF LuckInv, Alike, FirstRetryWins, Runs, Turns
<1>2. ASSUME UNCHANGED <<batch, world, turn, row, record, policy, elapsed, charge_attempts,
                         contact_actions, terminal, chance>>
      PROVE  Retries' /\ Lucky'
  BY <1>2 DEF LuckInv, Retries, Lucky, Untouched, FirstRetryWins, slot, Turns
<1>3. CASE UNCHANGED evaluationVars
  BY <1>1, <1>2, <1>3 DEF evaluationVars, vars, chosen, spent, scoreVars
<1>4. CASE \E verdict \in {"approved", "rejected"} :
             ReviewInHand(verdict) \/ \E item \in shelf : ReviewOnShelf(item, verdict)
  BY <1>1, <1>2, <1>4 DEF ReviewInHand, ReviewOnShelf, Review, vars, chosen, spent, scoreVars
<1>5. CASE OracleSlot \/ OracleMisses \/ ScoreCeiling \/ EvaluateAgain
  <2>1. UNCHANGED vars /\ UNCHANGED <<batch, world, ends>> /\ turn \notin Turns
    BY <1>5, ChosenPolicies
    DEF OracleSlot, OracleMisses, Searching, ScoreCeiling, EvaluateAgain, Over
  <2>2. Idle
    BY <2>1 DEF LuckInv, QueueInv, Base, InHand
  <2>3. Untouched' /\ terminal' = "none"
    BY <2>1, <2>2 DEF Idle, Untouched, vars, spent
  <2>4. QED
    BY <1>1, <2>1, <2>3, FreshLuck
<1>6. CASE Halts
  <2>1. UNCHANGED <<batch, world, ends>> /\ terminal' # "RECOVERED"
    BY <1>6, HaltsWithout DEF LuckInv, QueueInv, Halts, Running_record
  <2>2. QED
    BY <1>1, <1>6, <2>1, HaltsRetries DEF Lucky
<1>7. CASE Acts
  <2>1. UNCHANGED <<batch, world, ends>>
    BY <1>7 DEF Acts, Running_record
  <2>2. QED
    BY <1>1, <1>7, <2>1, ActsRetries, ActsLucky
<1>8. CASE Score
  <2>1. Untouched' /\ terminal' = "none"
    BY <1>8 DEF Score, Fresh, Untouched
  <2>2. QED
    BY <1>8, <2>1, FreshLuck, ScoreAlike
<1>9. QED
  BY <1>3, <1>4, <1>5, <1>6, <1>7, <1>8 DEF EvaluationNext, Evaluates

LEMMA LuckInvariance == EvaluationSpec => []LuckInv
<1>1. EvaluationInit => LuckInv
  <2> SUFFICES ASSUME EvaluationInit PROVE LuckInv
    OBVIOUS
  <2>1. CeilingInv /\ QueueInv
    BY InitBase, InitCeilings, InitQueue DEF CeilingInv
  <2>2. turn \notin Turns /\ ends = [r \in Runs |-> [k \in Turns |-> <<>>]]
    BY ChosenPolicies DEF EvaluationInit
  <2>3. Retries /\ Lucky /\ Alike
    BY <2>2 DEF Retries, Lucky, Alike
  <2>4. QED
    BY <2>1, <2>3 DEF LuckInv
<1>2. QED
  BY <1>1, NextLuck, PTL DEF EvaluationSpec

(* Three fixed retries recover whatever one retry does, for any draws and   *)
(* in whichever order the two are run ("Common random numbers").            *)
THEOREM SameLuckForAll == EvaluationSpec => []MoreRetriesNeverLose
<1>1. LuckInv => MoreRetriesNeverLose
  BY DEF LuckInv, Alike, MoreRetriesNeverLose
<1>2. QED
  BY <1>1, LuckInvariance, PTL

(* What beats the ceiling went further than it tries, or found an hour that *)
(* is not on its grid (outcome_model.oracle_recovers).                      *)
THEOREM CeilingIsBeatenFromBeyond == EvaluationSpec => []BeatenOnlyBeyondItsReach
<1>1. LuckInv => BeatenOnlyBeyondItsReach
  <2> SUFFICES ASSUME LuckInv, turn \in Turns, terminal = "RECOVERED",
                      ceiling[row].found = "missed", ~(slot > Len(ceiling[row].best))
               PROVE  /\ chance > ceiling[row].best[slot]
                      /\ slot = 1 => ~OnGrid(elapsed)
    BY DEF BeatenOnlyBeyondItsReach
  <2>1. /\ row \in Rows /\ record = batch[row] /\ world[row] \in Truths
        /\ Sound(ceiling[row], batch[row], world[row]) /\ chance \in Nat
        /\ charge_attempts \in Nat /\ contact_actions \in Nat
        /\ elapsed \in Nat /\ elapsed <= RECOVERY_WINDOW_HOURS
    BY BatchTyped, LimitsAssumption
    DEF LuckInv, CeilingInv, Ceilings, Base, Placed, InHand, Spent, LoopInv, TypeOK
  <2>2. ceiling[row].best \in Seq(Nat) /\ Len(ceiling[row].best) \in Nat
    BY <2>1, ResultTyped DEF Sound
  <2>3. /\ slot >= 1 /\ draw(world[row], slot - 1) < chance
        /\ slot = 1 => \E j \in 1 .. 3 :
             /\ chance = success_probability(record, world[row], ORACLE_ACTIONS[j],
                                             2 * elapsed, 0, 0)
             /\ ORACLE_ACTIONS[j] = "RETRY_CHARGE" => InMandate(record, 2 * elapsed)
    BY DEF LuckInv, Lucky
  <2>4. slot \in 1 .. Len(ceiling[row].best) /\ slot - 1 \in Nat
    BY <2>1, <2>2, <2>3 DEF slot
  <2>5. PICK s \in 1 .. Len(ceiling[row].best) : s = slot
    BY <2>4
  <2>6. /\ ceiling[row].best[s] \in Nat
        /\ chance > ceiling[row].best[s]
    <3>1. s - 1 \in Nat /\ ceiling[row].best[s] \in Nat
      BY <2>2, <2>5
    <3>2. draw(world[row], s - 1) \in Nat
      BY <2>1, <3>1, DrawTyped
    <3>3. \A n \in 1 .. Len(ceiling[row].best) :
            ceiling[row].best[n] <= draw(world[row], n - 1)
      BY <2>1 DEF Sound, Tried
    <3>4. ceiling[row].best[s] <= draw(world[row], s - 1)
      BY <3>3
    <3>5. draw(world[row], s - 1) < chance
      BY <2>3, <2>5
    <3>6. QED
      BY <2>1, <3>1, <3>2, <3>4, <3>5
  <2>7. ASSUME slot = 1, OnGrid(elapsed) PROVE FALSE
    <3>1. PICK j \in 1 .. 3 :
            /\ chance = success_probability(record, world[row], ORACLE_ACTIONS[j],
                                            2 * elapsed, 0, 0)
            /\ ORACLE_ACTIONS[j] = "RETRY_CHARGE" => InMandate(record, 2 * elapsed)
      BY <2>3, <2>7
    <3>2. PICK i \in 1 .. 7 : ORACLE_DELAY_GRID[i] = 2 * elapsed
      BY <2>7 DEF OnGrid, ORACLE_DELAY_GRID
    <3>3. /\ ActionOf(<<j, i>>) = ORACLE_ACTIONS[j] /\ MomentOf(NoResult, <<j, i>>) = 2 * elapsed
          /\ <<j, i>> \in Option
      <4>1. ActionOf(<<j, i>>) = ORACLE_ACTIONS[j] /\ <<j, i>> \in Option
        BY DEF ActionOf, Option, ORACLE_ACTIONS, ORACLE_DELAY_GRID
      <4>2. MomentOf(NoResult, <<j, i>>) = 0 + ORACLE_DELAY_GRID[i]
        BY DEF MomentOf, NoResult
      <4>3. QED
        BY <2>1, <3>2, <4>1, <4>2
    <3>4. <<j, i>> \in Permitted(batch[row], NoResult, RECOVERY_WINDOW_HOURS)
      BY <2>1, <3>1, <3>3, LimitsAssumption DEF Permitted
    <3>5. ChanceOf(batch[row], world[row], NoResult, <<j, i>>) = chance
      BY <2>1, <3>1, <3>3 DEF ChanceOf, NoResult
    <3>6. ceiling[row].best # <<>>
      BY <2>4
    <3>7. chance <= ceiling[row].best[1]
      BY <2>1, <3>4, <3>5, <3>6 DEF Sound, StartsBest
    <3>8. QED
      BY <2>1, <2>5, <2>6, <2>7, <3>7
  <2>8. QED
    BY <2>5, <2>6, <2>7
<1>2. QED
  BY <1>1, LuckInvariance, PTL

-------------------------------------------------------------------------------
(* The evaluation as a sequence of loops.                                   *)

(* One record after the other goes through the loop of RecoveryLoop, from   *)
(* its start to a terminal reason, under one set-up: nothing that the       *)
(* ceiling, the books or the queue do comes in between (runner.run_policy,  *)
(* "for record in records").                                                *)
OneLoopAfterAnother ==
  Init /\ [][Next \/ (terminal # "none" /\ config' = config /\ Init')]_vars

(* What a step of the evaluation is to the loop.                            *)
LEMMA LoopView ==
  ASSUME Base, [EvaluationNext]_evaluationVars
  PROVE  \/ Next
         \/ terminal # "none" /\ config' = config /\ Init'
         \/ UNCHANGED vars
<1>1. CASE Score
  <2>1. /\ Base' /\ terminal # "none" /\ config' = config
        /\ Fresh(batch[row'], IF turn' \in Turns THEN Chosen[turn'] ELSE Chosen[1])
    BY <1>1, ScoreBase DEF Score, fixedVars, Running
  <2>2. record' \in Records /\ config' \in Configs /\ policy' \in Policies
    BY <2>1 DEF Base, LoopInv, TypeOK
  <2>3. Init'
    BY <2>1, <2>2 DEF Fresh, Init
  <2>4. QED
    BY <2>1, <2>3
<1>2. CASE Halts \/ Acts \/ \E verdict \in {"approved", "rejected"} : ReviewInHand(verdict)
  BY <1>2 DEF Halts, Acts, ReviewInHand, Next, Loop
<1>3. CASE \/ OracleSlot \/ OracleMisses \/ ScoreCeiling \/ EvaluateAgain
           \/ \E verdict \in {"approved", "rejected"}, item \in shelf :
                ReviewOnShelf(item, verdict)
           \/ UNCHANGED evaluationVars
  BY <1>3 DEF OracleSlot, OracleMisses, ScoreCeiling, EvaluateAgain, ReviewOnShelf, evaluationVars
<1>4. QED
  BY <1>1, <1>2, <1>3 DEF EvaluationNext, Evaluates

LEMMA BaseInvariance == EvaluationSpec => []Base
  BY InitBase, NextBase, PTL DEF EvaluationSpec

(* Every evaluation does to its loop variables what run_record does, and    *)
(* starts it again only when it has ended.                                  *)
THEOREM EvaluationsAreLoops == EvaluationSpec => OneLoopAfterAnother
<1>1. EvaluationInit => Init
  BY DEF EvaluationInit
<1>2. Base /\ [EvaluationNext]_evaluationVars =>
        [Next \/ (terminal # "none" /\ config' = config /\ Init')]_vars
  BY LoopView
<1>3. QED
  BY <1>1, <1>2, BaseInvariance, PTL DEF EvaluationSpec, OneLoopAfterAnother

(* What is proved of one record holds of every record of an evaluation:     *)
(* consent where money moves, the agent within the harness's limits, the    *)
(* ambiguity floor and humans asked first.                                  *)
LoopPromises ==
  /\ [](HardRetriesAreTheAmbiguityFloor /\ EscalationComesFirst)
  /\ ChargesStayWithinMandate
  /\ HarnessNeverIntervenes

LEMMA StartSpendsNothing == Init' => charge_attempts' = 0
  BY DEF Init

THEOREM LoopPromisesHoldInEvaluations == EvaluationSpec => LoopPromises
<1>1. Base => LoopInv
  BY DEF Base
<1>2. Base /\ [EvaluationNext]_evaluationVars =>
        [charge_attempts' > charge_attempts => Permits(elapsed')]_vars
  <2> SUFFICES ASSUME Base, [EvaluationNext]_evaluationVars, charge_attempts' > charge_attempts,
                      ~UNCHANGED vars
               PROVE  Permits(elapsed')
    OBVIOUS
  <2>1. charge_attempts \in Nat
    BY DEF Base, LoopInv, TypeOK
  <2>2. ~Init'
    BY <2>1, StartSpendsNothing
  <2>3. Next
    BY <2>2, LoopView
  <2>4. QED
    BY <1>1, <2>3, ChargesPermitted
<1>3. Base /\ [EvaluationNext]_evaluationVars =>
        [policy = "agent" /\ Fits(config) => ~(AttemptCap \/ WindowClosed \/ Blocked)]_vars
  BY <1>1, NothingToStop
<1>4. QED
  BY <1>1, <1>2, <1>3, HardFloor, HumansAsked, BaseInvariance, PTL
  DEF EvaluationSpec, LoopPromises, ChargesStayWithinMandate, HarnessNeverIntervenes

-------------------------------------------------------------------------------
(* Termination.                                                             *)

(* How far a step of the evaluation takes it: to the next evaluation, the   *)
(* next policy, the next record, the next option of the ceiling, the next   *)
(* action of the policy, or the end of a record, each within its limit.     *)
Further ==
  \/ run' = run + 1 /\ run' <= MaxRuns
  \/ run' = run /\ turn' = turn + 1 /\ turn' <= CeilingTurn + 1
  \/ UNCHANGED <<run, turn>> /\ row' = row + 1 /\ row' <= Len(batch)
  \/ /\ UNCHANGED <<run, turn, row>> /\ turn = 0
     /\ Len(ceiling'[row].best) = Len(ceiling[row].best) + 1
     /\ Len(ceiling'[row].best) <= Slots
  \/ /\ UNCHANGED <<run, turn, row>> /\ turn \in Turns /\ terminal = "none"
     /\ terminal' # "none" \/ (slot' = slot + 1 /\ slot' <= MAX_SLOTS)

(* Nothing that an operator does takes it back.                             *)
Undisturbed == UNCHANGED <<run, turn, row, ceiling, terminal, slot, batch>>

(* Every step of an evaluation takes it further, and reviews do not disturb *)
(* it, so that evaluate ends, whatever the policies decide (Policy.decide,  *)
(* "must terminate").                                                       *)
AlwaysFurther ==
  [][(Evaluates => Further) /\ (~Evaluates => Undisturbed)]_evaluationVars

LEMMA StepsGoFurther ==
  ASSUME CeilingInv, CeilingInv', EvaluationNext
  PROVE  (Evaluates => Further) /\ (~Evaluates => Undisturbed)
<1>1. Base /\ Base' /\ LoopInv
  BY DEF CeilingInv, Base
<1>2. /\ turn \in 0 .. CeilingTurn + 1 /\ row \in 1 .. Len(batch) /\ Len(batch) \in Nat
      /\ CeilingTurn \in Nat
  BY <1>1, BatchTyped, ChosenPolicies DEF Base, Placed
<1>3. ASSUME NextRow, turn <= CeilingTurn, run' = run
      PROVE  Further
  <2>1. CASE row < Len(batch)
    BY <1>2, <1>3, <2>1 DEF NextRow, Further
  <2>2. CASE ~(row < Len(batch))
    BY <1>2, <1>3, <2>2 DEF NextRow, Further
  <2>3. QED
    BY <2>1, <2>2
<1>4. ASSUME OracleSlot
      PROVE  Further
  <2>1. turn = 0 /\ run' = run /\ batch' = batch /\ (NextRow \/ UNCHANGED <<row, turn>>)
    BY <1>4 DEF OracleSlot, Searching
  <2>2. CASE NextRow
    BY <1>2, <1>3, <2>1, <2>2
  <2>3. CASE UNCHANGED <<row, turn>>
    <3>1. row \in Rows /\ Rows' = Rows
      BY <1>1, <2>1 DEF Base, Placed, Rows
    <3>2. PICK p : ceiling'[row].best = Append(ceiling[row].best, p)
      <4>1. row \in DOMAIN ceiling
        BY <3>1 DEF CeilingInv, Ceilings
      <4>2. QED
        BY <1>4, <4>1 DEF OracleSlot
    <3>3. ceiling[row].best \in Seq(Nat) /\ ceiling'[row].best \in Seq(Nat)
      BY <2>1, <2>3, <3>1, ResultTyped DEF CeilingInv, Ceilings, Sound, OracleResult, Rows
    <3>4. Len(ceiling'[row].best) = Len(ceiling[row].best) + 1
      BY <3>2, <3>3
    <3>5. Len(ceiling[row].best) < Slots
      BY <1>4 DEF OracleSlot, HasOption
    <3>6. QED
      BY <2>1, <2>3, <3>3, <3>4, <3>5, SlotsTyped DEF Further
  <2>4. QED
    BY <2>1, <2>2, <2>3
<1>5. ASSUME OracleMisses
      PROVE  Further
  BY <1>2, <1>3, <1>5 DEF OracleMisses, Searching
<1>6. ASSUME Halts \/ Acts
      PROVE  Further
  <2>1. /\ Loop /\ Next /\ turn \in Turns /\ terminal = "none"
        /\ UNCHANGED <<run, turn, row>>
    BY <1>6 DEF Halts, Acts, Running_record, Running, Loop, Next
  <2>2. terminal' # "none" \/ (slot' = slot + 1 /\ slot' <= MAX_SLOTS)
    BY <1>1, <2>1, Counting
  <2>3. QED
    BY <2>1, <2>2 DEF Further
<1>7. ASSUME Score
      PROVE  Further
  <2>1. NextRow /\ run' = run /\ turn \in Turns
    BY <1>7 DEF Score
  <2>2. QED
    BY <1>3, <2>1, ChosenPolicies
<1>8. ASSUME ScoreCeiling
      PROVE  Further
  BY <1>2, <1>3, <1>8 DEF ScoreCeiling
<1>9. ASSUME EvaluateAgain
      PROVE  Further
  <2>1. run < MaxRuns /\ run' = run + 1 /\ run \in 1 .. MaxRuns /\ MaxRuns \in Nat
    BY <1>1, <1>9, AttemptsAssumption DEF EvaluateAgain, Base, Placed, Runs
  <2>2. QED
    BY <2>1 DEF Further
<1>10. ASSUME NEW verdict \in {"approved", "rejected"}, ReviewInHand(verdict)
       PROVE  Undisturbed
  BY <1>10 DEF ReviewInHand, Review, Undisturbed, spent, slot
<1>11. ASSUME NEW verdict \in {"approved", "rejected"}, NEW item \in shelf,
              ReviewOnShelf(item, verdict)
       PROVE  Undisturbed
  BY <1>11 DEF ReviewOnShelf, Undisturbed, vars, spent, slot
<1>12. QED
  BY <1>4, <1>5, <1>6, <1>7, <1>8, <1>9, <1>10, <1>11 DEF EvaluationNext, Evaluates

(* An evaluation has a number of steps that its split, its policies and the *)
(* limits of the harness bound: each of them uses up something for good.    *)
THEOREM EvaluationsGetDone == EvaluationSpec => AlwaysFurther
<1>1. CeilingInv /\ CeilingInv' /\ [EvaluationNext]_evaluationVars =>
        [(Evaluates => Further) /\ (~Evaluates => Undisturbed)]_evaluationVars
  BY StepsGoFurther
<1>2. QED
  BY <1>1, EvaluationInvariance, PTL DEF EvaluationSpec, AlwaysFurther

===============================================================================
