--------------------------------- MODULE MCLive ---------------------------------
(***************************************************************************)
(* Live for model checking: two operators, one endpoint to probe, a payment *)
(* that failed as the taxonomy has it, one that failed with a blank envelope*)
(* and one that was captured, and a listing shorter than the payments.      *)
(***************************************************************************)
EXTENDS Live, TLC

CONSTANTS
  p1, p2, known, blank,
  MaxUnsure   \* bound: answers other than ok, but for those that a fault took

Symmetry == Permutations({p1, p2})

MCPaths == <<"/settlements">>
MCCarries == (known :> EXPECTED_FIELDS) @@ (blank :> {})
MCPayment ==
  {[status |-> "failed", envelope |-> known], [status |-> "failed", envelope |-> blank],
   [status |-> "captured", envelope |-> blank]}

(* The constraint of the state graph that MaxUnsure names.                  *)
Unsure(a) == a # NoAnswer /\ a.status # "ok"
FewUnsure ==
  Cardinality({l \in Recorded : Unsure(l.answer)})
    + Cardinality({p \in Operators : Unsure(answer[p])}) <= MaxUnsure
===============================================================================
