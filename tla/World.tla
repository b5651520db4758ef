--------------------------------- MODULE World ---------------------------------
(***************************************************************************)
(* The world of generator/outcome_model.py: what no policy is shown of a    *)
(* record, how likely an action is to succeed, and the options the ceiling  *)
(* chooses among.  Probabilities are in ten-thousandths, rounded down after *)
(* every factor; times are half hours since the charge failed, the unit of  *)
(* the ceiling's shortest delay.                                            *)
(***************************************************************************)
EXTENDS Integers, Sequences

Probability == 0 .. 10000
MAX_PROBABILITY == 9700

(* WorldRecord; customer is _customer_multiplier of the record, in percent. *)
WorldRecord ==
  [funds_return: Nat, outage_end: Nat, base_intent: Probability, customer: Nat,
   draws: Seq(Probability)]

RETRY_BASE ==
  [SOFT_INSUFFICIENT_FUNDS |-> 5500, SOFT_ISSUER_TECHNICAL |-> 7200, SOFT_LIMIT_EXCEEDED |-> 4500,
   HARD_DO_NOT_HONOR |-> 400, HARD_RISK_FLAGGED |-> 100, HARD_MANDATE_REVOKED |-> 0,
   HARD_NOT_PERMITTED |-> 0, EXPIRY_CARD_EXPIRED |-> 200, EXPIRY_MANDATE_EXPIRED |-> 0,
   UNKNOWN |-> 3500]

LINK_RECEPTIVITY ==
  [SOFT_INSUFFICIENT_FUNDS |-> 50, SOFT_ISSUER_TECHNICAL |-> 60, SOFT_LIMIT_EXCEEDED |-> 70,
   HARD_DO_NOT_HONOR |-> 85, HARD_RISK_FLAGGED |-> 75, HARD_MANDATE_REVOKED |-> 25,
   HARD_NOT_PERMITTED |-> 80, EXPIRY_CARD_EXPIRED |-> 90, EXPIRY_MANDATE_EXPIRED |-> 85,
   UNKNOWN |-> 70]

CARD_UPDATE_FIT(class) ==
  CASE class = "EXPIRY_CARD_EXPIRED" -> 95
    [] class = "HARD_RISK_FLAGGED"   -> 60
    [] class = "HARD_DO_NOT_HONOR"   -> 35
    [] OTHER                         -> 8

METHOD_MULTIPLIER == [UPI_AUTOPAY |-> 95, CARD |-> 100, EMANDATE |-> 90]

Times(p, percent) == (p * percent) \div 100

(* p, percent of it after every earlier attempt.                            *)
Decayed(p, percent) ==
  LET left[n \in Nat] == IF n = 0 THEN p ELSE Times(left[n - 1], percent) IN left

timing_multiplier(t) ==
  CASE t < 12               -> 45
    [] t >= 12 /\ t < 48    -> 85
    [] t >= 48 /\ t <= 240  -> 100
    [] t > 240 /\ t <= 672  -> 88
    [] t > 672              -> 72

(* Whether the money is there, or the issuer is up again.                   *)
moment_multiplier(class, w, t) ==
  CASE class = "SOFT_INSUFFICIENT_FUNDS" -> IF t >= w.funds_return THEN 150 ELSE 55
    [] class = "SOFT_ISSUER_TECHNICAL"   -> IF t < w.outage_end THEN 15 ELSE 120
    [] OTHER                             -> 100

(* No factor is negative.                                                   *)
Capped(p) == IF p \in 0 .. MAX_PROBABILITY THEN p ELSE MAX_PROBABILITY

Asked(p, w, contacts) == Times(Decayed(p, 70)[contacts], w.customer)

success_probability(r, w, action, t, charges, contacts) ==
  CASE action = "RETRY_CHARGE" ->
         Capped(Times(Times(Times(Decayed(Times(RETRY_BASE[r.truth], timing_multiplier(t)),
                                          62)[charges],
                                  METHOD_MULTIPLIER[r.method]),
                            w.customer),
                      moment_multiplier(r.truth, w, t)))
    [] action = "SEND_PAYMENT_LINK" ->
         Capped(Times(Asked(Times(w.base_intent, LINK_RECEPTIVITY[r.truth]), w, contacts),
                      IF t > 672 THEN 80 ELSE 100))
    [] action = "REQUEST_CARD_UPDATE" /\ r.method = "CARD" ->
         Capped(Asked(Times(w.base_intent, CARD_UPDATE_FIT(r.truth)), w, contacts))
    [] OTHER -> 0

(* The number the slot has been given for good; all that come after the last*)
(* share it.                                                                *)
draw(w, slots) == w.draws[IF slots < Len(w.draws) THEN slots + 1 ELSE Len(w.draws)]

-------------------------------------------------------------------------------
(* The ceiling.                                                             *)

ORACLE_DELAY_GRID == <<1, 12, 48, 96, 144, 240, 336>>
ORACLE_ACTIONS == <<"RETRY_CHARGE", "SEND_PAYMENT_LINK", "REQUEST_CARD_UPDATE">>

Option == (1 .. Len(ORACLE_ACTIONS)) \X (1 .. Len(ORACLE_DELAY_GRID))

(* How far the search for one record has come.  best holds the probability  *)
(* chosen for each slot so far.                                             *)
OracleResult ==
  [elapsed: Nat, charges: Nat, contacts: Nat,
   found: {"searching", "recovered", "missed"}, best: Seq(Nat)]

NoResult == [elapsed |-> 0, charges |-> 0, contacts |-> 0, found |-> "searching", best |-> <<>>]

ActionOf(o) == ORACLE_ACTIONS[o[1]]
MomentOf(c, o) == c.elapsed + ORACLE_DELAY_GRID[o[2]]
ChanceOf(r, w, c, o) ==
  success_probability(r, w, ActionOf(o), MomentOf(c, o), c.charges, c.contacts)

(* mandate.permits.                                                         *)
InMandate(r, t) ==
  r.plan_amount <= r.max_amount /\ r.method = r.allowed_method /\ t <= 2 * r.expiry

(* Mutant: the mandate is left to the harness.                              *)
PermittedToAnyone(r, c, window) == {o \in Option : MomentOf(c, o) <= 2 * window}

Permitted(r, c, window) ==
  {o \in Option :
     /\ MomentOf(c, o) <= 2 * window
     /\ ActionOf(o) = "RETRY_CHARGE" => InMandate(r, MomentOf(c, o))}

(* The loops go through the actions, and for each through the delays.       *)
Before(o, q) == o[1] < q[1] \/ (o[1] = q[1] /\ o[2] < q[2])

(* Mutant: the comparison with the best so far is the wrong way round.      *)
WorstOption(r, w, c, window) ==
  CHOOSE o \in Permitted(r, c, window) :
    \A q \in Permitted(r, c, window) : ChanceOf(r, w, c, o) <= ChanceOf(r, w, c, q)

(* The first of the likeliest options.                                      *)
BestOption(r, w, c, window) ==
  CHOOSE o \in Permitted(r, c, window) :
    \A q \in Permitted(r, c, window) :
      \/ ChanceOf(r, w, c, q) < ChanceOf(r, w, c, o)
      \/ ChanceOf(r, w, c, q) = ChanceOf(r, w, c, o) /\ ~Before(q, o)
===============================================================================
