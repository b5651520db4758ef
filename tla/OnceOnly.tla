------------------------------- MODULE OnceOnly -------------------------------
(***************************************************************************)
(* What ADR-0004 promises of one logical action, with no store, no worker   *)
(* and no clock in sight: somebody takes the action, its effect happens at  *)
(* most once, and what is then reported of it is that effect, for good.     *)
(***************************************************************************)
CONSTANTS Actions,      \* the logical actions (idempotency keys)
          Outcomes,     \* what an effect can turn out to be
          NoOutcome     \* nothing reported yet

VARIABLES taken,        \* the actions somebody has taken on
          effects,      \* action -> the set of effects it has had outside
          reported      \* action -> the outcome on record, or NoOutcome

onceVars == <<taken, effects, reported>>

Init ==
  /\ taken = {}
  /\ effects = [a \in Actions |-> {}]
  /\ reported = [a \in Actions |-> NoOutcome]

Take(a) ==
  /\ a \notin taken
  /\ taken' = taken \cup {a}
  /\ UNCHANGED <<effects, reported>>

Perform(a) ==
  /\ a \in taken
  /\ effects[a] = {}
  /\ \E o \in effects'[a] : o \in Outcomes /\ effects' = [effects EXCEPT ![a] = {o}]
  /\ UNCHANGED <<taken, reported>>

Report(a) ==
  /\ reported[a] = NoOutcome
  /\ \E o \in effects[a] : reported' = [reported EXCEPT ![a] = o]
  /\ UNCHANGED <<taken, effects>>

Next ==
  \E a \in Actions : Take(a) \/ Perform(a) \/ Report(a)

Spec == Init /\ [][Next]_onceVars
===============================================================================
