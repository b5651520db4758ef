----------------------------- MODULE MCMoneyPath -----------------------------
(***************************************************************************)
(* The values the constants of MoneyPath take for model checking.           *)
(***************************************************************************)
EXTENDS MoneyPathProperties

MCMandate == [s \in Subs |-> [max |-> 1, method |-> "card", expiry |-> 1]]
(* Another mandate a caller may name: another cap, method and end.          *)
MCNamed == [s \in Subs |-> {[max |-> 2, method |-> "upi_autopay", expiry |-> 0]}]
MCNoOther == [s \in Subs |-> {}]
MCContactActions == {"send_payment_link"}
MCMethods == {"card", "upi_autopay"}
===============================================================================
