-------------------------- MODULE MoneyPathProperties --------------------------
(***************************************************************************)
(* What MoneyPath is checked for, and how it implements OnceOnly.           *)
(***************************************************************************)
EXTENDS MoneyPath

(* Every variable stays in the set its comment gives it.                    *)
TypeOK ==
  /\ pc \in [Workers -> Locations]
  /\ request \in [Workers -> Request \cup {NoRequest}]
  /\ answer \in [Workers -> Nat]
  /\ reply \in [Workers -> Reply]
  /\ claimed \subseteq Keys
  /\ result \in [Keys -> Outcome]
  /\ presented \in Seq(Presentation)
  /\ now \in Nat
  /\ calls \in Nat
  /\ faults \in Nat

(* A worker that has won a key and has not returned from its call yet.      *)
Holds(w, k) == pc[w] \in {"won", "answered"} /\ request[w].key = k

(* The gateway is asked to perform one logical action at most once, whatever*)
(* replays, crashes and errors there are: no customer is debited, and none  *)
(* is messaged, twice (ADR-0004; execute_charge, execute_contact).          *)
AtMostOnce ==
  \A i, j \in DOMAIN presented : presented[i].key = presented[j].key => i = j

(* A row of the idempotency table that has a result tells exactly what the  *)
(* gateway did for that very key: no result is recorded for an action that  *)
(* never ran, under another action's reference, or with another amount.     *)
ResultsAreTrue ==
  \A k \in Keys : result[k] # NoResult =>
    LET i == result[k].reference
    IN i \in DOMAIN presented /\ presented[i].key = k /\ result[k] = OutcomeOf(i)

(* A receipt never claims more than what happened: one that says executed,  *)
(* or a replay that carries an outcome, is about a gateway call made for its*)
(* own key and agrees with it.                                              *)
ReceiptsAreTrue ==
  \A w \in Workers : reply[w].kind = "executed" \/ reply[w].outcome # NoResult =>
    LET o == reply[w].outcome
    IN /\ o.reference \in DOMAIN presented
       /\ presented[o.reference].key = request[w].key
       /\ o = OutcomeOf(o.reference)

(* p has a positive amount up to the cap of m, the method of m, and a time  *)
(* of authorisation before m expires.                                       *)
Within(p, m) == p.amount \in 1 .. m.max /\ p.method = m.method /\ p.at <= m.expiry

(* No debit leaves the envelope it was authorised against, which is the     *)
(* consent envelope of the subscription it debits unless a caller named     *)
(* another one for that very subscription: a request that waits, is         *)
(* replayed or races never comes out with another's amount, method or       *)
(* mandate (ADR-0003; authorize, ChargeRequest).                            *)
WithinEnvelope ==
  \A i \in DOMAIN presented : LET p == presented[i] IN
    MovesMoney(p.key) =>
      /\ Within(p, p.mandate)
      /\ Within(p, Mandate[p.key[1]]) \/ p.mandate \in Named[p.key[1]]

(* A key that is claimed, has no result and is in no worker's hands is spent*)
(* for ever: every later call of that action replays a non-answer.  Each    *)
(* such key is paid for by a crash or an error; a refusal (module doc of    *)
(* executor.py), a lost race or a replay never strands one.                 *)
StrandedOnlyByFaults ==
  Cardinality({k \in claimed : result[k] = NoResult
                                /\ \A w \in Workers : ~Holds(w, k)}) <= faults

(* ResultAlreadyRecorded cannot come out of the executor: the worker that   *)
(* records is the one that claimed, and the row is there and still empty.   *)
RecordNeverRefused == \A w \in Workers : reply[w].kind # "ResultAlreadyRecorded"

(* In a behaviour without faults a claimed action ends with its result on   *)
(* record, whatever the other workers do.                                   *)
ClaimsSettle ==
  \A k \in Keys : k \in claimed ~> (result[k] # NoResult \/ faults > 0)

-------------------------------------------------------------------------------
(* The refinement: an action has the effects the gateway has seen for its   *)
(* key (two of them would be a set of two: their references differ).        *)
EffectsOf(k) == {OutcomeOf(i) : i \in {j \in DOMAIN presented : presented[j].key = k}}

Abstract == INSTANCE OnceOnly WITH
  Actions <- Keys, Outcomes <- Outcome, NoOutcome <- NoResult,
  taken <- claimed, effects <- [k \in Keys |-> EffectsOf(k)], reported <- result

(* The executor implements the promise: keys are taken once and for good,   *)
(* act at most once, and their recorded outcome is that act's and is never  *)
(* revised.                                                                 *)
ImplementsOnceOnly == Abstract!Spec

-------------------------------------------------------------------------------
(* What the repository says and the code does not do; each is the subject of*)
(* a run that finds it violated.                                            *)

(* execute_charge: "A lost claim means this exact logical action already    *)
(* ran."                                                                    *)
ReplayMeansItRan ==
  \A w \in Workers : reply[w].kind = "replayed" /\ MovesMoney(request[w].key) =>
    \E i \in DOMAIN presented : presented[i].key = request[w].key

(* executor.py's module doc: execution re-verifies the mandate "because time*)
(* passes between authorising and executing and a mandate can expire in the *)
(* gap".  (A charge asked for a time that was past already needs no gap.)   *)
NoChargeAfterExpiry ==
  \A i \in DOMAIN presented : LET p == presented[i] IN
    MovesMoney(p.key) /\ ~p.backdated => p.when <= p.mandate.expiry
===============================================================================
