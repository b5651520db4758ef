------------------------------ MODULE MoneyPath ------------------------------
(***************************************************************************)
(* The money path: policy/executor.py over policy/mandate.py,               *)
(* store/idempotency.py and a payment gateway.  Each worker (a thread, with *)
(* its own SQLite connection) runs one execute_charge or execute_contact at *)
(* a time, in the order the module doc of executor.py demands: mandate,     *)
(* then idempotency key, then gateway, then the recorded result.            *)
(*                                                                          *)
(* Atomic steps are the ones the store makes atomic: one INSERT, one UPDATE,*)
(* one SELECT; and the gateway call.  Anything may happen between two of    *)
(* them: another worker, a crash, the clock.                                *)
(***************************************************************************)
EXTENDS Naturals, Sequences, FiniteSets

CONSTANTS
  Workers,          \* threads that call the executor
  Subs,             \* subscription ids
  Attempts,         \* attempt numbers
  ContactActions,   \* the action types that do not move money
  Amounts,          \* charge amounts a caller may ask for
  Methods,          \* payment methods
  Mandate,          \* subscription -> [max, method, expiry], the consent envelope
  Named,            \* subscription -> the other mandates that callers name for it
  NoRequest,        \* a worker that holds no request
  MaxTime,          \* bound: the clock runs 0..MaxTime
  MaxCalls,         \* bound: calls begun in a behaviour
  MaxFaults         \* bound: crashes and errors in a behaviour

RetryCharge == "retry_charge"

Keys == Subs \X Attempts \X ({RetryCharge} \cup ContactActions)

MovesMoney(k) == k[3] = RetryCharge

Mandates == [max: Nat, method: Methods, expiry: Nat]

(* mandate is the one that the token was signed against; nothing in token or*)
(* request ties it to the subscription.  backdated is history: the time it  *)
(* was asked for was past already.                                          *)
Request == [key: Keys, mandate: Mandates, amount: Nat, method: Methods, at: Nat,
            backdated: BOOLEAN]

ASSUME BoundsAssumption == MaxTime \in Nat /\ MaxCalls \in Nat /\ MaxFaults \in Nat
ASSUME AmountsAssumption == Amounts \subseteq Nat
ASSUME ActionsAssumption == RetryCharge \notin ContactActions
ASSUME MandateAssumption ==
  Mandate \in [Subs -> Mandates] /\ Named \in [Subs -> SUBSET Mandates]
ASSUME NoRequestAssumption == NoRequest \notin Request

(* The fields of the JSON that record_result stores, and that a receipt     *)
(* repeats.  Reference 0 stands for a NULL result column; the other fields  *)
(* then have the defaults of recorded.get(...) in execute_charge.           *)
Outcome == [succeeded: BOOLEAN, amount: Nat, reference: Nat]
NoResult == [succeeded |-> FALSE, amount |-> 0, reference |-> 0]

(* What a call hands back: a receipt (executed or replayed) or the exception*)
(* that escaped it.  NoReply: the call is running, or died with its process.*)
ReplyKinds == {"none", "executed", "replayed", "MandateViolation",
               "OperationalError", "GatewayError", "ResultAlreadyRecorded"}
Reply == [kind: ReplyKinds, outcome: Outcome]
NoReply == [kind |-> "none", outcome |-> NoResult]
Raised(exception) == [kind |-> exception, outcome |-> NoResult]

VARIABLES
  pc,         \* where a worker is: idle, ready, lost, won, answered
  request,    \* the ChargeRequest (or contact) a worker carries
  answer,     \* index in presented of the gateway call a worker has just made
  reply,      \* what a worker's last call handed back
  claimed,    \* the keys present in the idempotency table
  result,     \* key -> the result column of its row
  presented,  \* the gateway's own record of what it was asked to do, in order
  now,        \* the clock
  calls,      \* calls begun so far
  faults      \* crashes and errors so far

workerVars == <<pc, request, answer, reply>>
storeVars == <<claimed, result>>
vars == <<workerVars, storeVars, presented, now, calls, faults>>

Locations == {"idle", "ready", "lost", "won", "answered"}
Presentation ==
  [key: Keys, mandate: Mandates, amount: Nat, method: Methods, at: Nat,
   backdated: BOOLEAN, when: Nat, ok: BOOLEAN]

Init ==
  /\ pc = [w \in Workers |-> "idle"]
  /\ request = [w \in Workers |-> NoRequest]
  /\ answer = [w \in Workers |-> 0]
  /\ reply = [w \in Workers |-> NoReply]
  /\ claimed = {}
  /\ result = [k \in Keys |-> NoResult]
  /\ presented = <<>>
  /\ now = 0 /\ calls = 0 /\ faults = 0

-------------------------------------------------------------------------------
(* Beginning a call.                                                        *)

(* Mutant: the cap is not checked.                                          *)
AuthorisesAnyAmount(m, amount, method, at) ==
  /\ amount > 0
  /\ method = m.method
  /\ at <= m.expiry

(* authorize: the four checks of the consent envelope.                      *)
Authorises(m, amount, method, at) ==
  /\ amount > 0
  /\ amount <= m.max
  /\ method = m.method
  /\ at <= m.expiry

Begin(w, r, place, back) ==
  /\ pc[w] = "idle"
  /\ calls < MaxCalls
  /\ calls' = calls + 1
  /\ request' = [request EXCEPT ![w] = r]
  /\ pc' = [pc EXCEPT ![w] = place]
  /\ reply' = [reply EXCEPT ![w] = back]
  /\ UNCHANGED <<answer, storeVars, presented, now, faults>>

(* The envelope of build_charge: the record's mandate, unless the caller    *)
(* names another.                                                           *)
Envelopes(s) == {Mandate[s]} \cup Named[s]

(* build_charge inside the envelope: the token is signed over the mandate,  *)
(* the amount, the method and the time asked for, and packed into a request.*)
BuildCharge(w, s, n, m, amount, method, at) ==
  /\ Authorises(m, amount, method, at)
  /\ Begin(w, [key |-> <<s, n, RetryCharge>>, mandate |-> m, amount |-> amount,
               method |-> method, at |-> at, backdated |-> at < now], "ready", NoReply)

(* Mutant: the key is claimed before the mandate is checked.                *)
RefuseChargeBurnsKey(w, s, m, amount, method, at) ==
  /\ ~Authorises(m, amount, method, at)
  /\ pc[w] = "idle" /\ calls < MaxCalls
  /\ calls' = calls + 1
  /\ claimed' = claimed \cup {<<s, n, RetryCharge>> : n \in Attempts}
  /\ reply' = [reply EXCEPT ![w] = Raised("MandateViolation")]
  /\ UNCHANGED <<pc, request, answer, result, presented, now, faults>>

(* build_charge outside the envelope raises before any key is touched.      *)
RefuseCharge(w, s, m, amount, method, at) ==
  /\ ~Authorises(m, amount, method, at)
  /\ Begin(w, NoRequest, "idle", Raised("MandateViolation"))

(* execute_contact needs no mandate and carries no money.                   *)
BeginContact(w, s, n, a) ==
  Begin(w, [key |-> <<s, n, a>>, mandate |-> Mandate[s], amount |-> 0,
            method |-> Mandate[s].method, at |-> now, backdated |-> FALSE], "ready", NoReply)

-------------------------------------------------------------------------------
(* The rest of the call.                                                    *)

KeyOf(w) == request[w].key

Goto(w, place) ==
  /\ pc' = [pc EXCEPT ![w] = place]
  /\ UNCHANGED <<request, reply>>

Return(w, r) ==
  /\ pc' = [pc EXCEPT ![w] = "idle"]
  /\ answer' = [answer EXCEPT ![w] = 0]
  /\ reply' = [reply EXCEPT ![w] = r]
  /\ UNCHANGED request

(* claim: the INSERT wins ...                                               *)
ClaimWon(w) ==
  /\ pc[w] = "ready"
  /\ KeyOf(w) \notin claimed
  /\ claimed' = claimed \cup {KeyOf(w)}
  /\ Goto(w, "won")
  /\ UNCHANGED <<answer, result, presented, now, calls, faults>>

(* ... or the PRIMARY KEY refuses it, and a charge goes to read the result. *)
ChargeClaimLost(w) ==
  /\ pc[w] = "ready"
  /\ KeyOf(w) \in claimed
  /\ MovesMoney(KeyOf(w))
  /\ Goto(w, "lost")
  /\ UNCHANGED <<answer, storeVars, presented, now, calls, faults>>

(* A contact that lost the claim says "already sent" without looking.       *)
ContactClaimLost(w) ==
  /\ pc[w] = "ready"
  /\ KeyOf(w) \in claimed
  /\ ~MovesMoney(KeyOf(w))
  /\ Return(w, [kind |-> "replayed", outcome |-> NoResult])
  /\ UNCHANGED <<storeVars, presented, now, calls, faults>>

(* Mutant: the loser records the failure it assumes.                        *)
ReadPriorRewrites(w) ==
  /\ pc[w] = "lost"
  /\ Return(w, [kind |-> "replayed", outcome |-> result[KeyOf(w)]])
  /\ result' = [result EXCEPT ![KeyOf(w)] = NoResult]
  /\ UNCHANGED <<claimed, presented, now, calls, faults>>

(* Mutant: a replay is presumed to have succeeded.                          *)
ReadPriorAssumesSuccess(w) ==
  /\ pc[w] = "lost"
  /\ Return(w, [kind |-> "replayed",
                outcome |-> [result[KeyOf(w)] EXCEPT !.succeeded = TRUE]])
  /\ UNCHANGED <<storeVars, presented, now, calls, faults>>

(* get, then a receipt made of the recorded result, or of defaults when the *)
(* row has none yet.                                                        *)
ReadPrior(w) ==
  /\ pc[w] = "lost"
  /\ Return(w, [kind |-> "replayed", outcome |-> result[KeyOf(w)]])
  /\ UNCHANGED <<storeVars, presented, now, calls, faults>>

(* The call the gateway sees.                                               *)
Presents(w, ok) ==
  presented' = Append(presented,
                 [key |-> KeyOf(w), mandate |-> request[w].mandate,
                  amount |-> request[w].amount, method |-> request[w].method,
                  at |-> request[w].at, backdated |-> request[w].backdated,
                  when |-> now, ok |-> ok])

(* gateway.charge / gateway.contact answers.                                *)
Present(w, ok) ==
  /\ pc[w] = "won"
  /\ Presents(w, ok)
  /\ answer' = [answer EXCEPT ![w] = Len(presented) + 1]
  /\ Goto(w, "answered")
  /\ UNCHANGED <<storeVars, now, calls, faults>>

(* Mutant: a failed charge is recorded without its amount.                  *)
OutcomeOfPartly(i) ==
  IF presented[i].ok
  THEN [succeeded |-> TRUE, amount |-> presented[i].amount, reference |-> i]
  ELSE [succeeded |-> FALSE, reference |-> i]

(* The outcome of the i-th gateway call as the executor records it.         *)
OutcomeOf(i) ==
  [succeeded |-> presented[i].ok,
   amount    |-> IF presented[i].ok THEN presented[i].amount ELSE 0,
   reference |-> i]

(* Mutant: only a successful outcome is recorded.                           *)
RecordResultIfSucceeded(w) ==
  /\ pc[w] = "answered"
  /\ result' = IF presented[answer[w]].ok
                 THEN [result EXCEPT ![KeyOf(w)] = OutcomeOf(answer[w])] ELSE result
  /\ Return(w, [kind |-> "executed", outcome |-> OutcomeOf(answer[w])])
  /\ UNCHANGED <<claimed, presented, now, calls, faults>>

(* record_result: UPDATE ... WHERE key = ? AND result IS NULL; no row       *)
(* changed is an exception, otherwise the receipt is returned.              *)
RecordResult(w) ==
  LET k == KeyOf(w)
      o == OutcomeOf(answer[w])
      hit == k \in claimed /\ result[k] = NoResult
  IN /\ pc[w] = "answered"
     /\ result' = IF hit THEN [result EXCEPT ![k] = o] ELSE result
     /\ Return(w, IF hit THEN [kind |-> "executed", outcome |-> o]
                         ELSE Raised("ResultAlreadyRecorded"))
     /\ UNCHANGED <<claimed, presented, now, calls, faults>>

-------------------------------------------------------------------------------
(* Errors and crashes.                                                      *)

Fault == faults < MaxFaults /\ faults' = faults + 1

(* SQLite gives up waiting for the write lock after busy_timeout; only      *)
(* IntegrityError is caught, so the error leaves the call.                  *)
StoreBusy(w) ==
  /\ Fault
  /\ pc[w] \in {"ready", "answered"}
  /\ Return(w, Raised("OperationalError"))
  /\ UNCHANGED <<storeVars, presented, now, calls>>

(* Mutant: a gateway error gives the key back so that it can be retried.    *)
GatewayRaisesAndReleases(w) ==
  /\ Fault
  /\ pc[w] = "won"
  /\ \/ UNCHANGED presented
     \/ \E ok \in BOOLEAN : Presents(w, ok)
  /\ claimed' = claimed \ {KeyOf(w)}
  /\ Return(w, Raised("GatewayError"))
  /\ UNCHANGED <<result, now, calls>>

(* The gateway raises without having acted, or having acted: the request    *)
(* went out and its response was lost.                                      *)
GatewayRaises(w) ==
  /\ Fault
  /\ pc[w] = "won"
  /\ \/ UNCHANGED presented
     \/ \E ok \in BOOLEAN : Presents(w, ok)
  /\ Return(w, Raised("GatewayError"))
  /\ UNCHANGED <<storeVars, now, calls>>

(* A worker's process dies: its request and its token go with it, the rows  *)
(* it committed stay.                                                       *)
Crash(w) ==
  /\ Fault
  /\ pc[w] # "idle"
  /\ pc' = [pc EXCEPT ![w] = "idle"]
  /\ request' = [request EXCEPT ![w] = NoRequest]
  /\ answer' = [answer EXCEPT ![w] = 0]
  /\ reply' = [reply EXCEPT ![w] = NoReply]
  /\ UNCHANGED <<storeVars, presented, now, calls>>

Tick ==
  /\ now < MaxTime
  /\ now' = now + 1
  /\ UNCHANGED <<workerVars, storeVars, presented, calls, faults>>

-------------------------------------------------------------------------------
(* A charge may be asked for any time, also one that is past.               *)
BeginCall(w) ==
  \E s \in Subs, n \in Attempts :
    \/ \E m \in Envelopes(s), amount \in Amounts, method \in Methods, at \in 0 .. MaxTime :
         \/ BuildCharge(w, s, n, m, amount, method, at)
         \/ RefuseCharge(w, s, m, amount, method, at)
    \/ \E a \in ContactActions : BeginContact(w, s, n, a)

Step(w) ==
  \/ ClaimWon(w)
  \/ ChargeClaimLost(w)
  \/ ContactClaimLost(w)
  \/ ReadPrior(w)
  \/ \E ok \in BOOLEAN : Present(w, ok)
  \/ RecordResult(w)

Fails(w) == StoreBusy(w) \/ GatewayRaises(w) \/ Crash(w)

Next == Tick \/ \E w \in Workers : BeginCall(w) \/ Step(w) \/ Fails(w)

Spec == Init /\ [][Next]_vars

(* A thread that is inside a call goes on with it: every store call returns *)
(* or raises within busy_timeout, and the gateway answers or raises.        *)
FairSpec == Spec /\ \A w \in Workers : WF_vars(Step(w))
===============================================================================
