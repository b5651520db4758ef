----------------------------- MODULE MCPowerLoss -----------------------------
(***************************************************************************)
(* The values the constants of PowerLoss take for model checking.           *)
(***************************************************************************)
EXTENDS PowerLoss, TLC

MCMandate == [s \in Subs |-> [max |-> 1, method |-> "card", expiry |-> 0]]
MCNamed == [s \in Subs |-> {[max |-> 2, method |-> "card", expiry |-> 0]}]
MCMethods == {"card"}

(* Threads are interchangeable.                                             *)
MCSymmetry == Permutations(Workers)
===============================================================================
