--------------------------- MODULE MoneyPathProofs ---------------------------
(***************************************************************************)
(* Proofs about MoneyPath, for any number of workers, subscriptions,        *)
(* attempts and calls, and any mandates.                                    *)
(***************************************************************************)
EXTENDS MoneyPathProperties, TLAPS, FiniteSetTheorems

USE BoundsAssumption, AmountsAssumption, MandateAssumption, NoRequestAssumption

(* A worker inside a call carries a request, and one that holds the         *)
(* gateway's answer holds the index of a call the gateway has seen.         *)
Carrying ==
  \A w \in Workers :
    /\ pc[w] # "idle" => request[w] \in Request
    /\ pc[w] = "answered" => answer[w] \in DOMAIN presented

Typed == TypeOK /\ Carrying

(* A held key is claimed and its result is still to be written; while it is *)
(* won the gateway has not heard of it, once answered the answer is its own.*)
Holding ==
  \A w \in Workers :
    /\ pc[w] \in {"won", "answered"} =>
         request[w].key \in claimed /\ result[request[w].key] = NoResult
    /\ pc[w] = "won" => \A i \in DOMAIN presented : presented[i].key # request[w].key
    /\ pc[w] = "answered" => presented[answer[w]].key = request[w].key

(* No two workers hold one key.                                             *)
Exclusive ==
  \A v, w \in Workers :
    pc[v] \in {"won", "answered"} /\ pc[w] \in {"won", "answered"}
      /\ request[v].key = request[w].key => v = w

(* What the gateway has seen was claimed.                                   *)
PresentedClaimed == \A i \in DOMAIN presented : presented[i].key \in claimed

(* What has a result was claimed.                                           *)
RecordedClaimed == \A k \in Keys : result[k] # NoResult => k \in claimed

(* r, a request or what the gateway was asked, was authorised as it stands  *)
(* against the mandate it carries, if it moves money.                       *)
Consents(r) ==
  MovesMoney(r.key) => /\ r.mandate \in Envelopes(r.key[1])
                       /\ Authorises(r.mandate, r.amount, r.method, r.at)

Authorised == \A w \in Workers : request[w] \in Request => Consents(request[w])

PresentedAuthorised == \A i \in DOMAIN presented : Consents(presented[i])

Claims == Holding /\ Exclusive /\ PresentedClaimed /\ RecordedClaimed /\ AtMostOnce

-------------------------------------------------------------------------------
(* Types.                                                                   *)

LEMMA OutcomeType ==
  ASSUME TypeOK, NEW i \in DOMAIN presented
  PROVE  OutcomeOf(i) \in Outcome /\ OutcomeOf(i) # NoResult
<1>1. presented[i] \in Presentation /\ i \in Nat /\ i # 0
  BY DEF TypeOK
<1> QED
  BY <1>1 DEF OutcomeOf, Outcome, NoResult, Presentation

LEMMA EnvelopesTyped ==
  ASSUME NEW s \in Subs
  PROVE  Envelopes(s) \subseteq Mandates
BY DEF Envelopes

LEMMA NoResultType ==
  /\ NoResult \in Outcome
  /\ NoReply \in Reply
  /\ \A e \in ReplyKinds : Raised(e) \in Reply
BY DEF NoResult, Outcome, NoReply, Raised, Reply, ReplyKinds

(* Beginning a call, for any request and any place to go.                   *)
LEMMA BeginTyped ==
  ASSUME Typed, NEW w \in Workers, NEW r, NEW place, NEW back, Begin(w, r, place, back),
         r \in Request \cup {NoRequest},
         place \in {"idle", "ready"}, place = "ready" => r \in Request,
         back \in Reply
  PROVE  Typed'
<1>1. TypeOK'
  BY DEF Typed, TypeOK, Begin, storeVars, Locations
<1>2. Carrying'
  BY DEF Typed, TypeOK, Carrying, Begin, storeVars
<1> QED
  BY <1>1, <1>2 DEF Typed

(* A call that returns, in whatever way, leaves its worker idle.            *)
LEMMA ReturnTyped ==
  ASSUME Typed, NEW w \in Workers, NEW r \in Reply, Return(w, r)
  PROVE  /\ pc' \in [Workers -> Locations]
         /\ request' \in [Workers -> Request \cup {NoRequest}]
         /\ answer' \in [Workers -> Nat]
         /\ reply' \in [Workers -> Reply]
         /\ \A v \in Workers : pc'[v] # "idle" =>
              v # w /\ pc'[v] = pc[v] /\ request'[v] = request[v] /\ answer'[v] = answer[v]
BY DEF Typed, TypeOK, Return, Locations

(* The gateway's record grows by what the worker asked.                     *)
LEMMA PresentsTyped ==
  ASSUME Typed, NEW w \in Workers, NEW ok \in BOOLEAN, pc[w] # "idle", Presents(w, ok)
  PROVE  /\ presented' \in Seq(Presentation)
         /\ Len(presented') = Len(presented) + 1
         /\ DOMAIN presented' = DOMAIN presented \cup {Len(presented) + 1}
         /\ \A i \in DOMAIN presented : presented'[i] = presented[i]
         /\ presented'[Len(presented) + 1].key = request[w].key
         /\ presented'[Len(presented) + 1].mandate = request[w].mandate
         /\ presented'[Len(presented) + 1].amount = request[w].amount
         /\ presented'[Len(presented) + 1].method = request[w].method
         /\ presented'[Len(presented) + 1].at = request[w].at
<1> DEFINE p == [key |-> KeyOf(w), mandate |-> request[w].mandate,
                 amount |-> request[w].amount, method |-> request[w].method,
                 at |-> request[w].at, backdated |-> request[w].backdated,
                 when |-> now, ok |-> ok]
<1>1. request[w] \in Request
  BY DEF Typed, Carrying
<1>2. p \in Presentation
  BY <1>1 DEF Typed, TypeOK, KeyOf, Request, Presentation
<1>3. presented \in Seq(Presentation) /\ presented' = Append(presented, p)
  BY DEF Typed, TypeOK, Presents
<1>4. p.key = request[w].key /\ p.mandate = request[w].mandate /\ p.amount = request[w].amount
      /\ p.method = request[w].method /\ p.at = request[w].at
  BY DEF KeyOf
<1> HIDE DEF p
<1> QED
  BY <1>2, <1>3, <1>4

LEMMA BeginCallTyped ==
  ASSUME Typed, NEW w \in Workers, BeginCall(w)
  PROVE  Typed'
<1> PICK s \in Subs, n \in Attempts :
      \/ \E m \in Envelopes(s), amount \in Amounts, method \in Methods, at \in 0 .. MaxTime :
           \/ BuildCharge(w, s, n, m, amount, method, at)
           \/ RefuseCharge(w, s, m, amount, method, at)
      \/ \E a \in ContactActions : BeginContact(w, s, n, a)
  BY DEF BeginCall
<1>1. CASE \E a \in ContactActions : BeginContact(w, s, n, a)
  <2> PICK a \in ContactActions : BeginContact(w, s, n, a)
    BY <1>1
  <2> DEFINE r == [key |-> <<s, n, a>>, mandate |-> Mandate[s], amount |-> 0,
                   method |-> Mandate[s].method, at |-> now, backdated |-> FALSE]
  <2>1. r \in Request
    BY DEF Request, Mandates, Keys, Typed, TypeOK
  <2>2. Begin(w, r, "ready", NoReply)
    BY DEF BeginContact
  <2> HIDE DEF r
  <2> QED
    BY <2>1, <2>2, BeginTyped, NoResultType
<1>2. ASSUME NEW m \in Envelopes(s), NEW amount \in Amounts, NEW method \in Methods,
             NEW at \in 0 .. MaxTime, BuildCharge(w, s, n, m, amount, method, at)
      PROVE  Typed'
  <2> DEFINE r == [key |-> <<s, n, RetryCharge>>, mandate |-> m, amount |-> amount,
                   method |-> method, at |-> at, backdated |-> at < now]
  <2>1. m \in Mandates
    BY EnvelopesTyped
  <2>2. r \in Request
    BY <2>1 DEF Request, Keys
  <2>3. Begin(w, r, "ready", NoReply)
    BY <1>2 DEF BuildCharge
  <2> HIDE DEF r
  <2> QED
    BY <2>2, <2>3, BeginTyped, NoResultType
<1>3. ASSUME NEW m \in Envelopes(s), NEW amount \in Amounts, NEW method \in Methods,
             NEW at \in 0 .. MaxTime, RefuseCharge(w, s, m, amount, method, at)
      PROVE  Typed'
  <2>1. Begin(w, NoRequest, "idle", Raised("MandateViolation"))
    BY <1>3 DEF RefuseCharge
  <2>2. Raised("MandateViolation") \in Reply
    BY NoResultType DEF ReplyKinds
  <2> QED
    BY <2>1, <2>2, BeginTyped
<1> QED
  BY <1>1, <1>2, <1>3

LEMMA StepTyped ==
  ASSUME Typed, NEW w \in Workers, Step(w)
  PROVE  Typed'
<1>1. request[w] \in Request
  BY DEF Typed, Carrying, Step, ClaimWon, ChargeClaimLost, ContactClaimLost, ReadPrior,
         Present, RecordResult
<1>2. KeyOf(w) \in Keys
  BY <1>1 DEF KeyOf, Request
<1>3. CASE ClaimWon(w)
  BY <1>1, <1>2, <1>3 DEF ClaimWon, Goto, Typed, TypeOK, Carrying, Locations
<1>4. CASE ChargeClaimLost(w)
  BY <1>1, <1>4 DEF ChargeClaimLost, Goto, Typed, TypeOK, Carrying, Locations, storeVars
<1>5. CASE ContactClaimLost(w)
  <2>1. [kind |-> "replayed", outcome |-> NoResult] \in Reply
    BY NoResultType DEF Reply, ReplyKinds
  <2> QED
    BY <1>5, <2>1, ReturnTyped DEF ContactClaimLost, Typed, TypeOK, Carrying, storeVars
<1>6. CASE ReadPrior(w)
  <2>1. [kind |-> "replayed", outcome |-> result[KeyOf(w)]] \in Reply
    BY <1>2 DEF Reply, ReplyKinds, Typed, TypeOK
  <2> QED
    BY <1>6, <2>1, ReturnTyped DEF ReadPrior, Typed, TypeOK, Carrying, storeVars
<1>7. ASSUME NEW ok \in BOOLEAN, Present(w, ok)
      PROVE  Typed'
  <2>1. pc[w] = "won" /\ Presents(w, ok)
        /\ answer' = [answer EXCEPT ![w] = Len(presented) + 1] /\ Goto(w, "answered")
        /\ UNCHANGED <<storeVars, now, calls, faults>>
    BY <1>7 DEF Present
  <2>2. /\ presented' \in Seq(Presentation)
        /\ DOMAIN presented' = DOMAIN presented \cup {Len(presented) + 1}
    BY <2>1, PresentsTyped
  <2>. Len(presented) \in Nat
    BY DEF Typed, TypeOK
  <2>3. TypeOK'
    BY <2>1, <2>2 DEF Typed, TypeOK, Goto, Locations, storeVars
  <2>4. Carrying'
    BY <1>1, <2>1, <2>2 DEF Typed, TypeOK, Carrying, Goto
  <2> QED
    BY <2>3, <2>4 DEF Typed
<1>8. CASE RecordResult(w)
  <2> DEFINE k == KeyOf(w)
             o == OutcomeOf(answer[w])
             hit == k \in claimed /\ result[k] = NoResult
             r == IF hit THEN [kind |-> "executed", outcome |-> o]
                         ELSE Raised("ResultAlreadyRecorded")
  <2>1. /\ pc[w] = "answered"
        /\ result' = IF hit THEN [result EXCEPT ![k] = o] ELSE result
        /\ Return(w, r)
        /\ UNCHANGED <<claimed, presented, now, calls, faults>>
    BY <1>8 DEF RecordResult
  <2>2. o \in Outcome
    BY <2>1, OutcomeType DEF Typed, Carrying
  <2>3. r \in Reply
    BY <2>2, NoResultType DEF Reply, ReplyKinds
  <2> HIDE DEF k, o, hit, r
  <2>4. result' \in [Keys -> Outcome]
    BY <1>2, <2>1, <2>2 DEF Typed, TypeOK
  <2> QED
    BY <2>1, <2>3, <2>4, ReturnTyped DEF Typed, TypeOK, Carrying
<1> QED
  BY <1>3, <1>4, <1>5, <1>6, <1>7, <1>8 DEF Step

LEMMA FailsTyped ==
  ASSUME Typed, NEW w \in Workers, Fails(w)
  PROVE  Typed'
<1>0. faults' \in Nat
  BY DEF Fails, StoreBusy, GatewayRaises, Crash, Fault, Typed, TypeOK
<1>1. CASE StoreBusy(w)
  <2>1. Raised("OperationalError") \in Reply
    BY NoResultType DEF ReplyKinds
  <2> QED
    BY <1>0, <1>1, <2>1, ReturnTyped DEF StoreBusy, Typed, TypeOK, Carrying, storeVars
<1>2. CASE GatewayRaises(w)
  <2>1. Raised("GatewayError") \in Reply
    BY NoResultType DEF ReplyKinds
  <2>2. presented' \in Seq(Presentation) /\ DOMAIN presented \subseteq DOMAIN presented'
    <3>1. CASE UNCHANGED presented
      BY <3>1 DEF Typed, TypeOK
    <3>2. ASSUME NEW ok \in BOOLEAN, Presents(w, ok)
          PROVE  presented' \in Seq(Presentation) /\ DOMAIN presented \subseteq DOMAIN presented'
      BY <1>2, <3>2, PresentsTyped DEF GatewayRaises
    <3> QED
      BY <1>2, <3>1, <3>2 DEF GatewayRaises
  <2>3. Return(w, Raised("GatewayError")) /\ UNCHANGED <<storeVars, now, calls>>
    BY <1>2 DEF GatewayRaises
  <2> QED
    BY <1>0, <2>1, <2>2, <2>3, ReturnTyped DEF Typed, TypeOK, Carrying, storeVars
<1>3. CASE Crash(w)
  BY <1>0, <1>3, NoResultType DEF Crash, Typed, TypeOK, Carrying, Locations, storeVars
<1> QED
  BY <1>1, <1>2, <1>3 DEF Fails

LEMMA InitTyped == Init => Typed
BY NoResultType DEF Init, Typed, TypeOK, Carrying, Locations

LEMMA NextTyped == Typed /\ [Next]_vars => Typed'
<1> SUFFICES ASSUME Typed, [Next]_vars
             PROVE  Typed'
  OBVIOUS
<1>1. CASE Tick
  BY <1>1 DEF Tick, Typed, TypeOK, Carrying, workerVars, storeVars
<1>2. CASE UNCHANGED vars
  BY <1>2 DEF vars, workerVars, storeVars, Typed, TypeOK, Carrying
<1> QED
  BY <1>1, <1>2, BeginCallTyped, StepTyped, FailsTyped DEF Next

(* Every variable keeps its type, and a running call its request, in every  *)
(* behaviour of the executor.                                               *)
THEOREM TypeCorrect == Spec => []TypeOK
<1>1. Typed => TypeOK
  BY DEF Typed
<1> QED
  BY <1>1, InitTyped, NextTyped, PTL DEF Spec

-------------------------------------------------------------------------------
(* One key, one holder, one effect.                                         *)

(* A step that leaves the store and the gateway alone and makes no new      *)
(* holder changes nothing that Claims is about.                             *)
LEMMA QuietClaims ==
  ASSUME Claims, UNCHANGED <<claimed, result, presented>>,
         \A v \in Workers : pc'[v] \in {"won", "answered"} =>
           pc'[v] = pc[v] /\ request'[v] = request[v] /\ answer'[v] = answer[v]
  PROVE  Claims'
BY DEF Claims, Holding, Exclusive, PresentedClaimed, RecordedClaimed, AtMostOnce, OutcomeOf

(* Every way a call begins: where it puts its worker, and what it leaves    *)
(* alone.                                                                   *)
Begins(w, r, place, back) ==
  /\ pc' = [pc EXCEPT ![w] = place]
  /\ request' = [request EXCEPT ![w] = r]
  /\ reply' = [reply EXCEPT ![w] = back]
  /\ UNCHANGED <<answer, claimed, result, presented, now, faults>>
  /\ place \in {"idle", "ready"}
  /\ back.outcome = NoResult /\ back.kind \in {"none", "MandateViolation"}
  /\ r \in Request => Consents(r)

LEMMA BeginCallFrame ==
  ASSUME Typed, NEW w \in Workers, BeginCall(w)
  PROVE  \E r, place, back : Begins(w, r, place, back)
<1> PICK s \in Subs, n \in Attempts :
      \/ \E m \in Envelopes(s), amount \in Amounts, method \in Methods, at \in 0 .. MaxTime :
           \/ BuildCharge(w, s, n, m, amount, method, at)
           \/ RefuseCharge(w, s, m, amount, method, at)
      \/ \E a \in ContactActions : BeginContact(w, s, n, a)
  BY DEF BeginCall
<1>1. CASE \E a \in ContactActions : BeginContact(w, s, n, a)
  <2> PICK a \in ContactActions : BeginContact(w, s, n, a)
    BY <1>1
  <2> DEFINE r == [key |-> <<s, n, a>>, mandate |-> Mandate[s], amount |-> 0,
                   method |-> Mandate[s].method, at |-> now, backdated |-> FALSE]
  <2>1. Begin(w, r, "ready", NoReply)
    BY DEF BeginContact
  <2>2. ~MovesMoney(r.key)
    BY ActionsAssumption DEF MovesMoney
  <2>3. Begins(w, r, "ready", NoReply)
    BY <2>1, <2>2 DEF Begin, Begins, Consents, NoReply, storeVars
  <2> QED
    BY <2>3
<1>2. ASSUME NEW m \in Envelopes(s), NEW amount \in Amounts, NEW method \in Methods,
             NEW at \in 0 .. MaxTime, BuildCharge(w, s, n, m, amount, method, at)
      PROVE  \E r, place, back : Begins(w, r, place, back)
  <2> DEFINE r == [key |-> <<s, n, RetryCharge>>, mandate |-> m, amount |-> amount,
                   method |-> method, at |-> at, backdated |-> at < now]
  <2>1. Begin(w, r, "ready", NoReply)
    BY <1>2 DEF BuildCharge
  <2>2. Consents(r)
    BY <1>2 DEF BuildCharge, Consents
  <2>3. Begins(w, r, "ready", NoReply)
    BY <2>1, <2>2 DEF Begin, Begins, NoReply, storeVars
  <2> QED
    BY <2>3
<1>3. ASSUME NEW m \in Envelopes(s), NEW amount \in Amounts, NEW method \in Methods,
             NEW at \in 0 .. MaxTime, RefuseCharge(w, s, m, amount, method, at)
      PROVE  \E r, place, back : Begins(w, r, place, back)
  <2>1. Begin(w, NoRequest, "idle", Raised("MandateViolation"))
    BY <1>3 DEF RefuseCharge
  <2>2. Begins(w, NoRequest, "idle", Raised("MandateViolation"))
    BY <2>1 DEF Begin, Begins, Raised, storeVars
  <2> QED
    BY <2>2
<1> QED
  BY <1>1, <1>2, <1>3

LEMMA ClaimWonClaims ==
  ASSUME Typed, Claims, NEW w \in Workers, ClaimWon(w)
  PROVE  Claims'
<1> DEFINE k == request[w].key
<1>1. /\ k \in Keys /\ k \notin claimed
      /\ claimed' = claimed \cup {k}
      /\ pc' = [pc EXCEPT ![w] = "won"]
      /\ pc[w] = "ready"
      /\ UNCHANGED <<request, reply, answer, result, presented>>
  BY DEF ClaimWon, KeyOf, Goto, Typed, Carrying, Request
<1>2. result[k] = NoResult /\ \A i \in DOMAIN presented : presented[i].key # k
  BY <1>1 DEF Claims, RecordedClaimed, PresentedClaimed
<1>3. \A v \in Workers : pc[v] \in {"won", "answered"} => request[v].key # k
  BY <1>1 DEF Claims, Holding
<1> HIDE DEF k
<1>4. Holding'
  BY <1>1, <1>2 DEF Typed, TypeOK, Claims, Holding, k
<1>5. Exclusive'
  BY <1>1, <1>3 DEF Typed, TypeOK, Claims, Exclusive, k
<1>6. PresentedClaimed' /\ RecordedClaimed' /\ AtMostOnce'
  BY <1>1 DEF Claims, PresentedClaimed, RecordedClaimed, AtMostOnce
<1> QED
  BY <1>4, <1>5, <1>6 DEF Claims

(* The gateway sees a key that was won: the one call it gets.               *)
LEMMA PresentsOnce ==
  ASSUME Typed, Claims, NEW w \in Workers, NEW ok \in BOOLEAN,
         pc[w] = "won", Presents(w, ok), UNCHANGED <<claimed, result>>
  PROVE  /\ AtMostOnce'
         /\ PresentedClaimed'
         /\ RecordedClaimed'
<1>1. /\ DOMAIN presented' = DOMAIN presented \cup {Len(presented) + 1}
      /\ \A i \in DOMAIN presented : presented'[i] = presented[i]
      /\ presented'[Len(presented) + 1].key = request[w].key
  BY PresentsTyped
<1>2. \A i \in DOMAIN presented : presented[i].key # request[w].key
  BY DEF Claims, Holding
<1>3. request[w].key \in claimed
  BY DEF Claims, Holding
<1>4. AtMostOnce'
  BY <1>1, <1>2 DEF Claims, AtMostOnce
<1>5. PresentedClaimed'
  BY <1>1, <1>3 DEF Claims, PresentedClaimed
<1>6. RecordedClaimed'
  BY DEF Claims, RecordedClaimed
<1> QED
  BY <1>4, <1>5, <1>6

LEMMA PresentClaims ==
  ASSUME Typed, Claims, NEW w \in Workers, NEW ok \in BOOLEAN, Present(w, ok)
  PROVE  Claims'
<1> DEFINE n == Len(presented) + 1
<1>1. /\ pc[w] = "won" /\ Presents(w, ok)
      /\ answer' = [answer EXCEPT ![w] = n]
      /\ pc' = [pc EXCEPT ![w] = "answered"]
      /\ UNCHANGED <<request, reply, claimed, result>>
  BY DEF Present, Goto, storeVars
<1>2. /\ DOMAIN presented' = DOMAIN presented \cup {n}
      /\ \A i \in DOMAIN presented : presented'[i] = presented[i]
      /\ presented'[n].key = request[w].key
  BY <1>1, PresentsTyped
<1>3. \A v \in Workers \ {w} : pc[v] = "won" => request[v].key # request[w].key
  BY <1>1 DEF Claims, Exclusive
<1> HIDE DEF n
<1>4. Holding'
  BY <1>1, <1>2, <1>3 DEF Typed, TypeOK, Carrying, Claims, Holding
<1>5. Exclusive'
  BY <1>1 DEF Typed, TypeOK, Claims, Exclusive
<1> QED
  BY <1>1, <1>4, <1>5, PresentsOnce DEF Claims

LEMMA RecordResultClaims ==
  ASSUME Typed, Claims, NEW w \in Workers, RecordResult(w)
  PROVE  /\ Claims'
         /\ result' = [result EXCEPT ![request[w].key] = OutcomeOf(answer[w])]
         /\ reply' = [reply EXCEPT ![w] =
                        [kind |-> "executed", outcome |-> OutcomeOf(answer[w])]]
         /\ UNCHANGED <<claimed, presented, request>>
         /\ presented[answer[w]].key = request[w].key
         /\ answer[w] \in DOMAIN presented
<1> DEFINE k == request[w].key
           o == OutcomeOf(answer[w])
<1>1. /\ pc[w] = "answered" /\ k \in Keys
      /\ k \in claimed /\ result[k] = NoResult
      /\ answer[w] \in DOMAIN presented /\ presented[answer[w]].key = k
  BY DEF RecordResult, Claims, Holding, Typed, Carrying, Request
<1>2. /\ result' = [result EXCEPT ![k] = o]
      /\ Return(w, [kind |-> "executed", outcome |-> o])
      /\ UNCHANGED <<claimed, presented>>
  BY <1>1 DEF RecordResult, KeyOf
<1>3. /\ pc' = [pc EXCEPT ![w] = "idle"]
      /\ answer' = [answer EXCEPT ![w] = 0]
      /\ reply' = [reply EXCEPT ![w] = [kind |-> "executed", outcome |-> o]]
      /\ UNCHANGED request
  BY <1>2 DEF Return
<1>4. \A v \in Workers \ {w} : pc[v] \in {"won", "answered"} => request[v].key # k
  BY <1>1 DEF Claims, Exclusive
<1> HIDE DEF o
<1>5. Holding'
  BY <1>1, <1>2, <1>3, <1>4 DEF Typed, TypeOK, Claims, Holding
<1>6. Exclusive'
  BY <1>3 DEF Typed, TypeOK, Claims, Exclusive
<1>7. PresentedClaimed' /\ RecordedClaimed' /\ AtMostOnce'
  BY <1>1, <1>2 DEF Typed, TypeOK, Claims, PresentedClaimed, RecordedClaimed, AtMostOnce
<1> QED
  BY <1>1, <1>2, <1>3, <1>5, <1>6, <1>7 DEF Claims, o

(* GatewayRaises is a quiet step or a presentation whose holder lets go.    *)
LEMMA GatewayRaisesClaims ==
  ASSUME Typed, Claims, NEW w \in Workers, GatewayRaises(w)
  PROVE  Claims'
<1>1. /\ pc[w] = "won"
      /\ UNCHANGED presented \/ \E ok \in BOOLEAN : Presents(w, ok)
      /\ pc' = [pc EXCEPT ![w] = "idle"]
      /\ answer' = [answer EXCEPT ![w] = 0]
      /\ UNCHANGED <<request, claimed, result>>
  BY DEF GatewayRaises, Return, storeVars
<1>2. CASE UNCHANGED presented
  BY <1>1, <1>2, QuietClaims DEF Typed, TypeOK
<1>3. ASSUME NEW ok \in BOOLEAN, Presents(w, ok)
      PROVE  Claims'
  <2>1. /\ DOMAIN presented' = DOMAIN presented \cup {Len(presented) + 1}
        /\ \A i \in DOMAIN presented : presented'[i] = presented[i]
        /\ presented'[Len(presented) + 1].key = request[w].key
    BY <1>1, <1>3, PresentsTyped
  <2>2. \A v \in Workers \ {w} : pc[v] \in {"won", "answered"} =>
           request[v].key # request[w].key
    BY <1>1 DEF Claims, Exclusive
  <2>3. Holding'
    BY <1>1, <2>1, <2>2 DEF Typed, TypeOK, Carrying, Claims, Holding
  <2>4. Exclusive'
    BY <1>1 DEF Typed, TypeOK, Claims, Exclusive
  <2> QED
    BY <1>1, <1>3, <2>3, <2>4, PresentsOnce DEF Claims
<1> QED
  BY <1>1, <1>2, <1>3

LEMMA InitClaims == Init => Claims
BY DEF Init, Claims, Holding, Exclusive, PresentedClaimed, RecordedClaimed, AtMostOnce

LEMMA NextClaims == Typed /\ Claims /\ [Next]_vars => Claims'
<1> SUFFICES ASSUME Typed, Claims, [Next]_vars
             PROVE  Claims'
  OBVIOUS
<1>1. CASE Tick \/ UNCHANGED vars
  BY <1>1, QuietClaims DEF Tick, vars, workerVars, storeVars
<1>2. ASSUME NEW w \in Workers, BeginCall(w)
      PROVE  Claims'
  <2>1. PICK r, place, back : Begins(w, r, place, back)
    BY <1>2, BeginCallFrame
  <2> QED
    BY <2>1, QuietClaims DEF Begins, Typed, TypeOK
<1>3. ASSUME NEW w \in Workers, Step(w)
      PROVE  Claims'
  <2>1. CASE ChargeClaimLost(w)
    BY <2>1, QuietClaims DEF ChargeClaimLost, Goto, storeVars, Typed, TypeOK
  <2>2. CASE ContactClaimLost(w)
    BY <2>2, QuietClaims DEF ContactClaimLost, Return, storeVars, Typed, TypeOK
  <2>3. CASE ReadPrior(w)
    BY <2>3, QuietClaims DEF ReadPrior, Return, storeVars, Typed, TypeOK
  <2> QED
    BY <1>3, <2>1, <2>2, <2>3, ClaimWonClaims, PresentClaims, RecordResultClaims DEF Step
<1>4. ASSUME NEW w \in Workers, Fails(w)
      PROVE  Claims'
  <2>1. CASE StoreBusy(w)
    BY <2>1, QuietClaims DEF StoreBusy, Return, storeVars, Typed, TypeOK
  <2>2. CASE Crash(w)
    BY <2>2, QuietClaims DEF Crash, storeVars, Typed, TypeOK
  <2> QED
    BY <1>4, <2>1, <2>2, GatewayRaisesClaims DEF Fails
<1> QED
  BY <1>1, <1>2, <1>3, <1>4 DEF Next

(* Whatever the interleaving of workers, replays, crashes and errors, the   *)
(* gateway is asked to perform a logical action at most once.               *)
THEOREM ActionsHappenAtMostOnce == Spec => []AtMostOnce
<1>1. Init => Typed /\ Claims
  BY InitTyped, InitClaims
<1>2. Typed /\ Claims /\ [Next]_vars => (Typed /\ Claims)'
  BY NextTyped, NextClaims
<1>3. Typed /\ Claims => AtMostOnce
  BY DEF Claims
<1> QED
  BY <1>1, <1>2, <1>3, PTL DEF Spec

-------------------------------------------------------------------------------
(* What is recorded and what is returned is what the gateway did.           *)

(* The gateway's record only grows, so an outcome once there never changes. *)
LEMMA PresentedGrows ==
  ASSUME Typed, [Next]_vars
  PROVE  \A i \in DOMAIN presented : i \in DOMAIN presented' /\ OutcomeOf(i)' = OutcomeOf(i)
                                      /\ presented'[i] = presented[i]
<1>1. CASE UNCHANGED presented
  BY <1>1 DEF OutcomeOf
<1>2. ASSUME NEW w \in Workers, NEW ok \in BOOLEAN, pc[w] = "won", Presents(w, ok)
      PROVE  \A i \in DOMAIN presented :
               i \in DOMAIN presented' /\ presented'[i] = presented[i]
  BY <1>2, PresentsTyped
<1>3. \/ UNCHANGED presented
      \/ \E w \in Workers, ok \in BOOLEAN : pc[w] = "won" /\ Presents(w, ok)
  <2>1. CASE UNCHANGED vars \/ Tick
    BY <2>1 DEF vars, Tick
  <2>2. ASSUME NEW w \in Workers, BeginCall(w)
        PROVE  UNCHANGED presented
    BY <2>2, BeginCallFrame DEF Begins
  <2>3. ASSUME NEW w \in Workers, Step(w)
        PROVE  \/ UNCHANGED presented
               \/ \E ok \in BOOLEAN : pc[w] = "won" /\ Presents(w, ok)
    BY <2>3 DEF Step, ClaimWon, ChargeClaimLost, ContactClaimLost, ReadPrior, Present,
                RecordResult
  <2>4. ASSUME NEW w \in Workers, Fails(w)
        PROVE  \/ UNCHANGED presented
               \/ \E ok \in BOOLEAN : pc[w] = "won" /\ Presents(w, ok)
    BY <2>4 DEF Fails, StoreBusy, GatewayRaises, Crash
  <2> QED
    BY <2>1, <2>2, <2>3, <2>4 DEF Next
<1> QED
  BY <1>1, <1>2, <1>3 DEF OutcomeOf

(* Only record_result writes the result column.                             *)
LEMMA ResultFrame ==
  ASSUME Typed, [Next]_vars
  PROVE  UNCHANGED result \/ \E w \in Workers : RecordResult(w)
<1>1. ASSUME NEW w \in Workers, BeginCall(w)
      PROVE  UNCHANGED result
  BY <1>1, BeginCallFrame DEF Begins
<1>2. ASSUME NEW w \in Workers, Step(w)
      PROVE  UNCHANGED result \/ RecordResult(w)
  BY <1>2 DEF Step, ClaimWon, ChargeClaimLost, ContactClaimLost, ReadPrior, Present,
              storeVars
<1>3. ASSUME NEW w \in Workers, Fails(w)
      PROVE  UNCHANGED result
  BY <1>3 DEF Fails, StoreBusy, GatewayRaises, Crash, storeVars
<1> QED
  BY <1>1, <1>2, <1>3 DEF Next, Tick, vars, storeVars

(* What a step can do to a worker's reply.                                  *)
ReplyKept(v) == reply'[v] = reply[v] /\ request'[v] = request[v]
ReplyEmpty(v) ==
  /\ reply'[v].outcome = NoResult
  /\ reply'[v].kind \notin {"executed", "ResultAlreadyRecorded"}
ReplyRead(v) ==
  /\ reply'[v] = [kind |-> "replayed", outcome |-> result[request[v].key]]
  /\ request[v] \in Request
  /\ UNCHANGED <<request, presented>>

LEMMA ReplyFrame ==
  ASSUME Typed, [Next]_vars, NEW v \in Workers
  PROVE  ReplyKept(v) \/ ReplyEmpty(v) \/ ReplyRead(v) \/ RecordResult(v)
<1>1. CASE UNCHANGED vars \/ Tick
  BY <1>1 DEF vars, workerVars, Tick, ReplyKept
<1>2. ASSUME NEW w \in Workers, BeginCall(w)
      PROVE  ReplyKept(v) \/ ReplyEmpty(v)
  <2>1. PICK r, place, back : Begins(w, r, place, back)
    BY <1>2, BeginCallFrame
  <2> QED
    BY <2>1 DEF Begins, ReplyKept, ReplyEmpty, Typed, TypeOK
<1>3. ASSUME NEW w \in Workers, NEW r, Return(w, r), v # w
      PROVE  ReplyKept(v)
  BY <1>3 DEF Typed, TypeOK, Return, ReplyKept
<1>4. ASSUME NEW r, Return(v, r)
      PROVE  reply'[v] = r /\ UNCHANGED request
  BY <1>4 DEF Typed, TypeOK, Return
<1>5. ASSUME NEW w \in Workers, Step(w)
      PROVE  ReplyKept(v) \/ ReplyEmpty(v) \/ ReplyRead(v) \/ RecordResult(v)
  <2>1. CASE ClaimWon(w) \/ ChargeClaimLost(w) \/ \E ok \in BOOLEAN : Present(w, ok)
    BY <2>1 DEF ClaimWon, ChargeClaimLost, Present, Goto, ReplyKept
  <2>2. CASE ContactClaimLost(w)
    BY <1>3, <1>4, <2>2 DEF ContactClaimLost, ReplyEmpty
  <2>3. CASE ReadPrior(w)
    BY <1>3, <1>4, <2>3 DEF ReadPrior, ReplyRead, KeyOf, Typed, Carrying
  <2>4. CASE RecordResult(w)
    BY <1>3, <2>4 DEF RecordResult
  <2> QED
    BY <1>5, <2>1, <2>2, <2>3, <2>4 DEF Step
<1>6. ASSUME NEW w \in Workers, Fails(w)
      PROVE  ReplyKept(v) \/ ReplyEmpty(v)
  <2>1. CASE StoreBusy(w)
    BY <1>3, <1>4, <2>1 DEF StoreBusy, ReplyEmpty, Raised
  <2>2. CASE GatewayRaises(w)
    BY <1>3, <1>4, <2>2 DEF GatewayRaises, ReplyEmpty, Raised
  <2>3. CASE Crash(w)
    BY <2>3 DEF Crash, Typed, TypeOK, ReplyKept, ReplyEmpty, NoReply
  <2> QED
    BY <1>6, <2>1, <2>2, <2>3 DEF Fails
<1> QED
  BY <1>1, <1>2, <1>5, <1>6 DEF Next

Truths == ResultsAreTrue /\ ReceiptsAreTrue /\ RecordNeverRefused

LEMMA InitTruths == Init => Truths
BY DEF Init, Truths, ResultsAreTrue, ReceiptsAreTrue, RecordNeverRefused, NoReply

LEMMA NextResultsTrue ==
  ASSUME Typed, Claims, ResultsAreTrue, [Next]_vars
  PROVE  ResultsAreTrue'
<1>1. CASE UNCHANGED result
  BY <1>1, PresentedGrows DEF ResultsAreTrue
<1>2. ASSUME NEW w \in Workers, RecordResult(w)
      PROVE  ResultsAreTrue'
  <2> DEFINE k == request[w].key
             n == answer[w]
  <2>1. /\ result' = [result EXCEPT ![k] = OutcomeOf(n)]
        /\ UNCHANGED presented
        /\ n \in DOMAIN presented /\ presented[n].key = k
    BY <1>2, RecordResultClaims
  <2>2. OutcomeOf(n).reference = n
    BY DEF OutcomeOf
  <2>3. result \in [Keys -> Outcome]
    BY DEF Typed, TypeOK
  <2>4. ASSUME NEW j \in Keys, result'[j] # NoResult
        PROVE  /\ result'[j].reference \in DOMAIN presented
               /\ presented[result'[j].reference].key = j
               /\ result'[j] = OutcomeOf(result'[j].reference)
    <3> HIDE DEF k, n
    <3>1. CASE j = k
      BY <2>1, <2>2, <2>3, <3>1
    <3>2. CASE j # k
      BY <2>1, <2>3, <2>4, <3>2 DEF ResultsAreTrue
    <3> QED
      BY <3>1, <3>2
  <2> QED
    BY <2>1, <2>4 DEF ResultsAreTrue, OutcomeOf
<1> QED
  BY <1>1, <1>2, ResultFrame

LEMMA NextReceiptsTrue ==
  ASSUME Typed, Claims, Truths, [Next]_vars
  PROVE  ReceiptsAreTrue' /\ RecordNeverRefused'
<1> DEFINE True(v) ==
      reply[v].kind = "executed" \/ reply[v].outcome # NoResult =>
        LET o == reply[v].outcome
        IN /\ o.reference \in DOMAIN presented
           /\ presented[o.reference].key = request[v].key
           /\ o = OutcomeOf(o.reference)
<1> SUFFICES ASSUME NEW v \in Workers
             PROVE  True(v)' /\ reply'[v].kind # "ResultAlreadyRecorded"
  BY DEF ReceiptsAreTrue, RecordNeverRefused
<1>1. CASE ReplyKept(v)
  BY <1>1, PresentedGrows DEF ReplyKept, Truths, ReceiptsAreTrue, RecordNeverRefused
<1>2. CASE ReplyEmpty(v)
  BY <1>2 DEF ReplyEmpty
<1>3. CASE ReplyRead(v)
  <2>1. request[v].key \in Keys
    BY <1>3 DEF ReplyRead, Request
  <2>2. reply'[v].kind = "replayed" /\ reply'[v].outcome = result[request[v].key]
    BY <1>3 DEF ReplyRead
  <2>3. \A i : OutcomeOf(i)' = OutcomeOf(i)
    BY <1>3 DEF ReplyRead, OutcomeOf
  <2> QED
    BY <1>3, <2>1, <2>2, <2>3 DEF ReplyRead, Truths, ResultsAreTrue
<1>4. CASE RecordResult(v)
  <2>1. /\ reply'[v] = [kind |-> "executed", outcome |-> OutcomeOf(answer[v])]
        /\ UNCHANGED <<presented, request>>
        /\ presented[answer[v]].key = request[v].key
        /\ answer[v] \in DOMAIN presented
    BY <1>4, RecordResultClaims DEF Typed, TypeOK
  <2>2. OutcomeOf(answer[v]).reference = answer[v]
    BY DEF OutcomeOf
  <2>3. \A i : OutcomeOf(i)' = OutcomeOf(i)
    BY <2>1 DEF OutcomeOf
  <2> QED
    BY <2>1, <2>2, <2>3
<1> QED
  BY <1>1, <1>2, <1>3, <1>4, ReplyFrame

LEMMA NextTruths == Typed /\ Claims /\ Truths /\ [Next]_vars => Truths'
BY NextResultsTrue, NextReceiptsTrue DEF Truths

(* The inductive invariant: types, one holder per claimed key, and the truth*)
(* of what is written down.                                                 *)
IInv == Typed /\ Claims /\ Truths

(* IInv holds throughout every behaviour of the executor.                   *)
THEOREM Invariance == Spec => []IInv
<1>1. Init => IInv
  BY InitTyped, InitClaims, InitTruths DEF IInv
<1>2. IInv /\ [Next]_vars => IInv'
  BY NextTyped, NextClaims, NextTruths DEF IInv
<1> QED
  BY <1>1, <1>2, PTL DEF Spec

(* The idempotency table tells what the gateway did, key by key.            *)
THEOREM RecordedResultsAreTrue == Spec => []ResultsAreTrue
<1>1. IInv => ResultsAreTrue
  BY DEF IInv, Truths
<1> QED
  BY <1>1, Invariance, PTL

(* A receipt, first-hand or replayed, never reports an outcome that the     *)
(* gateway did not give for that very action.                               *)
THEOREM ReturnedReceiptsAreTrue == Spec => []ReceiptsAreTrue
<1>1. IInv => ReceiptsAreTrue
  BY DEF IInv, Truths
<1> QED
  BY <1>1, Invariance, PTL

(* The executor never meets its own write-once guard.                       *)
THEOREM RecordIsNeverRefused == Spec => []RecordNeverRefused
<1>1. IInv => RecordNeverRefused
  BY DEF IInv, Truths
<1> QED
  BY <1>1, Invariance, PTL

(* Callers are never told different things: two receipts of one action that *)
(* carry an outcome, first-hand or replayed, to whichever thread, carry the *)
(* same one (execute_charge, "replayed").                                   *)
ReceiptsAgree ==
  \A v, w \in Workers :
    /\ request[v].key = request[w].key
    /\ reply[v].outcome # NoResult /\ reply[w].outcome # NoResult
    => reply[v].outcome = reply[w].outcome

(* It takes both that what a receipt says is true and that an action has    *)
(* only one truth.                                                          *)
THEOREM ReceiptsNeverDisagree == Spec => []ReceiptsAgree
<1>1. IInv => ReceiptsAgree
  <2> SUFFICES ASSUME IInv, NEW v \in Workers, NEW w \in Workers,
                      request[v].key = request[w].key,
                      reply[v].outcome # NoResult, reply[w].outcome # NoResult
               PROVE  reply[v].outcome = reply[w].outcome
    BY DEF ReceiptsAgree
  <2>1. ReceiptsAreTrue /\ AtMostOnce
    BY DEF IInv, Truths, Claims
  <2>2. PICK i : i = reply[v].outcome.reference
    OBVIOUS
  <2>3. PICK j : j = reply[w].outcome.reference
    OBVIOUS
  <2>4. i \in DOMAIN presented /\ presented[i].key = request[v].key
        /\ reply[v].outcome = OutcomeOf(i)
    BY <2>1, <2>2 DEF ReceiptsAreTrue
  <2>5. j \in DOMAIN presented /\ presented[j].key = request[w].key
        /\ reply[w].outcome = OutcomeOf(j)
    BY <2>1, <2>3 DEF ReceiptsAreTrue
  <2>6. i = j
    BY <2>1, <2>4, <2>5 DEF AtMostOnce
  <2> QED
    BY <2>4, <2>5, <2>6
<1> QED
  BY <1>1, Invariance, PTL

-------------------------------------------------------------------------------
(* Consent.                                                                 *)

LEMMA NextAuthorised ==
  ASSUME Typed, Authorised, [Next]_vars
  PROVE  Authorised'
<1>1. ASSUME UNCHANGED request
      PROVE  Authorised'
  BY <1>1 DEF Authorised
<1>2. ASSUME NEW w \in Workers, BeginCall(w)
      PROVE  Authorised'
  <2> PICK r, place, back : Begins(w, r, place, back)
    BY <1>2, BeginCallFrame
  <2> QED
    BY DEF Begins, Authorised, Typed, TypeOK
<1>3. ASSUME NEW w \in Workers, Step(w)
      PROVE  UNCHANGED request
  BY <1>3 DEF Step, ClaimWon, ChargeClaimLost, ContactClaimLost, ReadPrior, Present,
              RecordResult, Goto, Return
<1>4. ASSUME NEW w \in Workers, Fails(w)
      PROVE  Authorised'
  <2>1. CASE Crash(w)
    BY <2>1 DEF Crash, Authorised, Typed, TypeOK
  <2>2. CASE StoreBusy(w) \/ GatewayRaises(w)
    BY <1>1, <2>2 DEF StoreBusy, GatewayRaises, Return
  <2> QED
    BY <1>4, <2>1, <2>2 DEF Fails
<1> QED
  BY <1>1, <1>2, <1>3, <1>4 DEF Next, Tick, vars, workerVars

LEMMA NextPresentedAuthorised ==
  ASSUME Typed, Authorised, PresentedAuthorised, [Next]_vars
  PROVE  PresentedAuthorised'
<1>1. ASSUME UNCHANGED presented
      PROVE  PresentedAuthorised'
  BY <1>1 DEF PresentedAuthorised
<1>2. ASSUME NEW w \in Workers, NEW ok \in BOOLEAN, pc[w] = "won", Presents(w, ok)
      PROVE  PresentedAuthorised'
  <2> DEFINE r == request[w]
  <2>1. r \in Request
    BY <1>2 DEF Typed, Carrying
  <2>2. Consents(r)
    BY <2>1 DEF Authorised
  <2>3. /\ DOMAIN presented' = DOMAIN presented \cup {Len(presented) + 1}
        /\ \A i \in DOMAIN presented : presented'[i] = presented[i]
        /\ presented'[Len(presented) + 1].key = r.key
        /\ presented'[Len(presented) + 1].mandate = r.mandate
        /\ presented'[Len(presented) + 1].amount = r.amount
        /\ presented'[Len(presented) + 1].method = r.method
        /\ presented'[Len(presented) + 1].at = r.at
    BY <1>2, PresentsTyped
  <2>4. Consents(presented'[Len(presented) + 1])
    BY <2>2, <2>3 DEF Consents
  <2>5. \A i \in DOMAIN presented : Consents(presented'[i])
    BY <2>3 DEF PresentedAuthorised
  <2>6. \A i \in DOMAIN presented' : Consents(presented'[i])
    BY <2>3, <2>4, <2>5
  <2> QED
    BY <2>6 DEF PresentedAuthorised
<1>3. ASSUME NEW w \in Workers, BeginCall(w)
      PROVE  UNCHANGED presented
  BY <1>3, BeginCallFrame DEF Begins
<1>4. ASSUME NEW w \in Workers, Step(w) \/ Fails(w)
      PROVE  \/ UNCHANGED presented
             \/ \E ok \in BOOLEAN : pc[w] = "won" /\ Presents(w, ok)
  BY <1>4 DEF Step, Fails, ClaimWon, ChargeClaimLost, ContactClaimLost, ReadPrior, Present,
              RecordResult, StoreBusy, GatewayRaises, Crash
<1> QED
  BY <1>1, <1>2, <1>3, <1>4 DEF Next, Tick, vars

LEMMA AuthorisedIsWithin ==
  ASSUME Typed, PresentedAuthorised
  PROVE  WithinEnvelope
<1> SUFFICES ASSUME NEW i \in DOMAIN presented, MovesMoney(presented[i].key)
             PROVE  LET p == presented[i]
                    IN /\ Within(p, p.mandate)
                       /\ Within(p, Mandate[p.key[1]]) \/ p.mandate \in Named[p.key[1]]
  BY DEF WithinEnvelope
<1>1. PICK p \in Presentation : p = presented[i]
  BY DEF Typed, TypeOK
<1>2. p.mandate \in Mandates /\ p.amount \in Nat
  BY <1>1 DEF Presentation
<1>3. p.mandate \in Envelopes(p.key[1]) /\ Authorises(p.mandate, p.amount, p.method, p.at)
  BY <1>1 DEF PresentedAuthorised, Consents
<1>4. Within(p, p.mandate)
  BY <1>2, <1>3 DEF Within, Authorises, Mandates
<1> QED
  BY <1>1, <1>3, <1>4 DEF Envelopes

(* No charge reaches the gateway with an amount, a method or a time of      *)
(* authorisation outside the mandate its token names, which is that of the  *)
(* subscription it debits unless a caller named another for it.             *)
THEOREM ChargesStayWithinEnvelope == Spec => []WithinEnvelope
<1>1. Init => Typed /\ Authorised /\ PresentedAuthorised
  BY InitTyped DEF Init, Authorised, PresentedAuthorised
<1>2. Typed /\ Authorised /\ PresentedAuthorised /\ [Next]_vars
        => (Typed /\ Authorised /\ PresentedAuthorised)'
  BY NextTyped, NextAuthorised, NextPresentedAuthorised
<1> QED
  BY <1>1, <1>2, AuthorisedIsWithin, PTL DEF Spec

-------------------------------------------------------------------------------
(* Keys that are spent for ever.                                            *)

Stranded == {k \in claimed : result[k] = NoResult /\ \A w \in Workers : ~Holds(w, k)}

StrandInv == IsFiniteSet(Stranded) /\ Cardinality(Stranded) <= faults

(* What a step may add to the keys that are stranded: none, or by a fault   *)
(* the one of its worker.                                                   *)
LEMMA StrandGrows ==
  ASSUME Typed, StrandInv, NEW k,
         \/ Stranded' \subseteq Stranded /\ faults' = faults
         \/ Stranded' \subseteq Stranded \cup {k} /\ faults' = faults + 1
  PROVE  StrandInv'
<1>1. IsFiniteSet(Stranded) /\ Cardinality(Stranded) \in Nat
      /\ Cardinality(Stranded) <= faults /\ faults \in Nat
  BY FS_CardinalityType DEF StrandInv, Typed, TypeOK
<1>2. /\ IsFiniteSet(Stranded \cup {k})
      /\ Cardinality(Stranded \cup {k}) \in Nat
      /\ Cardinality(Stranded \cup {k}) <= Cardinality(Stranded) + 1
  <2>1. PICK S : S = Stranded
    OBVIOUS
  <2>2. IsFiniteSet(S) /\ Cardinality(S) \in Nat
    BY <1>1, <2>1
  <2>3. IsFiniteSet(S \cup {k}) /\ Cardinality(S \cup {k}) \in {Cardinality(S), Cardinality(S) + 1}
    BY <2>2, FS_AddElement
  <2> QED
    BY <2>1, <2>2, <2>3
<1>3. CASE Stranded' \subseteq Stranded /\ faults' = faults
  <2>1. IsFiniteSet(Stranded') /\ Cardinality(Stranded') <= Cardinality(Stranded)
    BY <1>1, <1>3, FS_Subset
  <2>2. Cardinality(Stranded') \in Nat
    BY <2>1, FS_CardinalityType
  <2> QED
    BY <1>1, <1>3, <2>1, <2>2 DEF StrandInv
<1>4. CASE Stranded' \subseteq Stranded \cup {k} /\ faults' = faults + 1
  <2>1. IsFiniteSet(Stranded') /\ Cardinality(Stranded') <= Cardinality(Stranded \cup {k})
    BY <1>2, <1>4, FS_Subset
  <2>2. Cardinality(Stranded') \in Nat
    BY <2>1, FS_CardinalityType
  <2> QED
    BY <1>1, <1>2, <1>4, <2>1, <2>2 DEF StrandInv
<1> QED
  BY <1>3, <1>4

(* Whoever holds a key and goes on holding it strands none.                 *)
LEMMA NoneLetGo ==
  ASSUME claimed' = claimed, result' = result,
         \A w \in Workers : pc[w] \in {"won", "answered"} =>
           pc'[w] \in {"won", "answered"} /\ request'[w] = request[w]
  PROVE  Stranded' \subseteq Stranded
BY DEF Stranded, Holds

(* A worker that lets go strands its key at most.                           *)
LEMMA OneLetsGo ==
  ASSUME NEW w \in Workers, claimed' = claimed, result' = result,
         \A v \in Workers \ {w} : pc'[v] = pc[v] /\ request'[v] = request[v]
  PROVE  Stranded' \subseteq Stranded \cup {request[w].key}
BY DEF Stranded, Holds

LEMMA NextStrands == Typed /\ Claims /\ StrandInv /\ [Next]_vars => StrandInv'
<1> SUFFICES ASSUME Typed, Claims, StrandInv, [Next]_vars
             PROVE  StrandInv'
  OBVIOUS
<1>1. CASE Tick \/ UNCHANGED vars
  BY <1>1, NoneLetGo, StrandGrows DEF Tick, vars, workerVars, storeVars
<1>2. ASSUME NEW w \in Workers, BeginCall(w)
      PROVE  StrandInv'
  <2>1. PICK r, place, back : Begins(w, r, place, back)
    BY <1>2, BeginCallFrame
  <2>2. pc[w] = "idle"
    BY <1>2 DEF BeginCall, BuildCharge, RefuseCharge, BeginContact, Begin
  <2>3. Stranded' \subseteq Stranded /\ faults' = faults
    BY <2>1, <2>2, NoneLetGo DEF Begins, Typed, TypeOK
  <2> QED
    BY <2>3, StrandGrows
<1>3. ASSUME NEW w \in Workers, Step(w)
      PROVE  Stranded' \subseteq Stranded /\ faults' = faults
  <2>1. CASE ClaimWon(w)
    <3>1. /\ claimed' = claimed \cup {request[w].key}
          /\ pc[w] = "ready" /\ pc' = [pc EXCEPT ![w] = "won"]
          /\ UNCHANGED <<request, result, faults>>
      BY <2>1 DEF ClaimWon, KeyOf, Goto
    <3>2. \A v \in Workers : pc[v] \in {"won", "answered"} => pc'[v] = pc[v]
      BY <3>1 DEF Typed, TypeOK
    <3>3. pc'[w] = "won"
      BY <3>1 DEF Typed, TypeOK
    <3> QED
      BY <3>1, <3>2, <3>3 DEF Stranded, Holds
  <2>2. CASE ChargeClaimLost(w)
    BY <2>2, NoneLetGo DEF ChargeClaimLost, Goto, storeVars, Typed, TypeOK
  <2>3. CASE ContactClaimLost(w)
    BY <2>3, NoneLetGo DEF ContactClaimLost, Return, storeVars, Typed, TypeOK
  <2>4. CASE ReadPrior(w)
    BY <2>4, NoneLetGo DEF ReadPrior, Return, storeVars, Typed, TypeOK
  <2>5. ASSUME NEW ok \in BOOLEAN, Present(w, ok)
        PROVE  Stranded' \subseteq Stranded /\ faults' = faults
    BY <2>5, NoneLetGo DEF Present, Goto, storeVars, Typed, TypeOK
  <2>6. CASE RecordResult(w)
    <3>1. /\ result' = [result EXCEPT ![request[w].key] = OutcomeOf(answer[w])]
          /\ UNCHANGED <<claimed, request>> /\ answer[w] \in DOMAIN presented
      BY <2>6, RecordResultClaims
    <3>2. pc' = [pc EXCEPT ![w] = "idle"] /\ faults' = faults /\ pc[w] = "answered"
      BY <2>6 DEF RecordResult, Return
    <3>3. request[w].key \in Keys /\ OutcomeOf(answer[w]) # NoResult
      BY <3>1, <3>2, OutcomeType DEF Typed, Carrying, Request
    <3>4. result'[request[w].key] # NoResult
          /\ \A k \in Keys \ {request[w].key} : result'[k] = result[k]
      BY <3>1, <3>3 DEF Typed, TypeOK
    <3>5. \A v \in Workers \ {w} : pc'[v] = pc[v]
      BY <3>2 DEF Typed, TypeOK
    <3>6. claimed \subseteq Keys
      BY DEF Typed, TypeOK
    <3> QED
      BY <3>1, <3>2, <3>4, <3>5, <3>6 DEF Stranded, Holds
  <2> QED
    BY <1>3, <2>1, <2>2, <2>3, <2>4, <2>5, <2>6 DEF Step
<1>4. ASSUME NEW w \in Workers, Fails(w)
      PROVE  Stranded' \subseteq Stranded \cup {request[w].key} /\ faults' = faults + 1
  BY <1>4, OneLetsGo
  DEF Fails, StoreBusy, GatewayRaises, Crash, Fault, Return, storeVars, Typed, TypeOK
<1> QED
  BY <1>1, <1>2, <1>3, <1>4, StrandGrows DEF Next

LEMMA StrandInvariance == Spec => [](Typed /\ Claims /\ StrandInv)
<1>1. Init => Typed /\ Claims /\ StrandInv
  <2> SUFFICES ASSUME Init
               PROVE  StrandInv
    BY InitTyped, InitClaims
  <2>1. Stranded = {} /\ faults = 0
    BY DEF Init, Stranded
  <2> QED
    BY <2>1, FS_EmptySet DEF StrandInv
<1>2. Typed /\ Claims /\ StrandInv /\ [Next]_vars => (Typed /\ Claims /\ StrandInv)'
  BY NextTyped, NextClaims, NextStrands
<1> QED
  BY <1>1, <1>2, PTL DEF Spec

(* Only a crash or an error leaves a key spent without a result, one key    *)
(* each: refusals, lost races and replays never do.                         *)
THEOREM KeysAreSpentByFaults == Spec => []StrandedOnlyByFaults
<1>1. StrandInv => StrandedOnlyByFaults
  BY DEF StrandInv, Stranded, StrandedOnlyByFaults
<1> QED
  BY <1>1, StrandInvariance, PTL

-------------------------------------------------------------------------------
(* The refinement.                                                          *)

Effects == [k \in Keys |-> EffectsOf(k)]

(* The gateway call of a won key is the first and only effect of that key.  *)
LEMMA PresentsPerforms ==
  ASSUME Typed, Claims, NEW w \in Workers, NEW ok \in BOOLEAN,
         pc[w] = "won", Presents(w, ok), UNCHANGED <<claimed, result>>
  PROVE  Abstract!Perform(request[w].key)
<1> PICK k : k = request[w].key
  OBVIOUS
<1> PICK n : n = Len(presented) + 1
  OBVIOUS
<1>1. k \in Keys /\ k \in claimed /\ \A i \in DOMAIN presented : presented[i].key # k
  BY DEF Claims, Holding, Typed, Carrying, Request
<1>0. n \in Nat /\ n \notin DOMAIN presented
  BY DEF Typed, TypeOK
<1>2. /\ presented' \in Seq(Presentation)
      /\ DOMAIN presented' = DOMAIN presented \cup {n}
      /\ \A i \in DOMAIN presented : presented'[i] = presented[i]
      /\ presented'[n].key = k
  BY PresentsTyped
<1>3. OutcomeOf(n)' \in Outcome
  <2>0. presented' \in Seq(Presentation) /\ n \in DOMAIN presented'
    BY <1>2
  <2>1. presented'[n] \in Presentation
    BY <2>0
  <2> QED
    BY <1>0, <2>1 DEF OutcomeOf, Outcome, Presentation
<1>4. EffectsOf(k) = {}
  BY <1>1 DEF EffectsOf
<1>5. EffectsOf(k)' = {OutcomeOf(n)'}
  BY <1>1, <1>2 DEF EffectsOf, OutcomeOf
<1>6. \A j \in Keys : j # k => EffectsOf(j)' = EffectsOf(j)
  <2> SUFFICES ASSUME NEW j \in Keys, j # k
               PROVE  EffectsOf(j)' = EffectsOf(j)
    OBVIOUS
  <2>1. {i \in DOMAIN presented' : presented'[i].key = j}
          = {i \in DOMAIN presented : presented[i].key = j}
    BY <1>2
  <2>2. \A i \in DOMAIN presented : OutcomeOf(i)' = OutcomeOf(i)
    BY <1>2 DEF OutcomeOf
  <2> QED
    BY <2>1, <2>2 DEF EffectsOf
<1>7. Effects' = [Effects EXCEPT ![k] = {OutcomeOf(n)'}]
  BY <1>1, <1>5, <1>6 DEF Effects
<1>8. Effects[k] = {} /\ Effects'[k] = {OutcomeOf(n)'}
  BY <1>1, <1>4, <1>5 DEF Effects
<1> QED
  BY <1>1, <1>3, <1>7, <1>8 DEF Abstract!Perform, Effects

(* A step that leaves the store and the gateway alone is a stutter.         *)
LEMMA QuietStutters ==
  ASSUME UNCHANGED <<claimed, result, presented>>
  PROVE  UNCHANGED Abstract!onceVars
BY DEF Abstract!onceVars, EffectsOf, OutcomeOf

LEMMA RecordResultReports ==
  ASSUME Typed, Claims, NEW w \in Workers, RecordResult(w)
  PROVE  Abstract!Report(request[w].key)
<1> DEFINE k == request[w].key
           n == answer[w]
<1>1. /\ result' = [result EXCEPT ![k] = OutcomeOf(n)]
      /\ UNCHANGED <<claimed, presented>>
      /\ presented[n].key = k /\ n \in DOMAIN presented
  BY RecordResultClaims
<1>2. k \in Keys /\ result[k] = NoResult
  BY DEF RecordResult, Claims, Holding, Typed, Carrying, Request
<1>3. OutcomeOf(n) \in EffectsOf(k)
  BY <1>1 DEF EffectsOf
<1>4. UNCHANGED Effects
  BY <1>1 DEF Effects, EffectsOf, OutcomeOf
<1> QED
  BY <1>1, <1>2, <1>3, <1>4 DEF Abstract!Report, Effects

LEMMA StepSimulates ==
  Typed /\ Claims /\ [Next]_vars => [Abstract!Next]_(Abstract!onceVars)
<1> SUFFICES ASSUME Typed, Claims, [Next]_vars
             PROVE  Abstract!Next \/ UNCHANGED Abstract!onceVars
  OBVIOUS
<1>1. CASE Tick \/ UNCHANGED vars
  BY <1>1, QuietStutters DEF Tick, vars, workerVars, storeVars
<1>2. ASSUME NEW w \in Workers, BeginCall(w)
      PROVE  UNCHANGED Abstract!onceVars
  BY <1>2, BeginCallFrame, QuietStutters DEF Begins
<1>3. ASSUME NEW w \in Workers, pc[w] # "idle"
      PROVE  request[w].key \in Keys
  BY <1>3 DEF Typed, Carrying, Request
<1>4. ASSUME NEW w \in Workers, Step(w)
      PROVE  Abstract!Next \/ UNCHANGED Abstract!onceVars
  <2>1. CASE ClaimWon(w)
    <3>1. Abstract!Take(request[w].key)
      BY <2>1 DEF ClaimWon, KeyOf, Abstract!Take, EffectsOf, OutcomeOf
    <3> QED
      BY <1>3, <2>1, <3>1 DEF ClaimWon, Abstract!Next
  <2>2. CASE ChargeClaimLost(w) \/ ContactClaimLost(w) \/ ReadPrior(w)
    BY <2>2, QuietStutters DEF ChargeClaimLost, ContactClaimLost, ReadPrior, storeVars
  <2>3. ASSUME NEW ok \in BOOLEAN, Present(w, ok)
        PROVE  Abstract!Next
    <3>1. /\ pc[w] = "won" /\ Presents(w, ok)
          /\ UNCHANGED <<claimed, result>>
      BY <2>3 DEF Present, storeVars
    <3> QED
      BY <1>3, <3>1, PresentsPerforms DEF Abstract!Next
  <2>4. CASE RecordResult(w)
    BY <1>3, <2>4, RecordResultReports DEF RecordResult, Abstract!Next
  <2> QED
    BY <1>4, <2>1, <2>2, <2>3, <2>4 DEF Step
<1>5. ASSUME NEW w \in Workers, Fails(w)
      PROVE  Abstract!Next \/ UNCHANGED Abstract!onceVars
  <2>1. CASE StoreBusy(w) \/ Crash(w)
    BY <2>1, QuietStutters DEF StoreBusy, Crash, storeVars
  <2>2. CASE GatewayRaises(w)
    <3>1. /\ pc[w] = "won"
          /\ UNCHANGED presented \/ \E ok \in BOOLEAN : Presents(w, ok)
          /\ UNCHANGED <<claimed, result>>
      BY <2>2 DEF GatewayRaises, storeVars
    <3> QED
      BY <1>3, <3>1, PresentsPerforms, QuietStutters DEF Abstract!Next
  <2> QED
    BY <1>5, <2>1, <2>2 DEF Fails
<1> QED
  BY <1>1, <1>2, <1>4, <1>5 DEF Next

(* The executor implements OnceOnly: every step takes, performs or reports  *)
(* one action, or is invisible to whoever only sees the promise.            *)
THEOREM ExecutorImplementsOnceOnly == Spec => ImplementsOnceOnly
<1>1. Init => Abstract!Init
  BY DEF Init, Abstract!Init, EffectsOf
<1>2. Init => Typed /\ Claims
  BY InitTyped, InitClaims
<1>3. Typed /\ Claims /\ [Next]_vars => (Typed /\ Claims)'
  BY NextTyped, NextClaims
<1> QED
  BY <1>1, <1>2, <1>3, StepSimulates, PTL DEF Spec, ImplementsOnceOnly, Abstract!Spec

-------------------------------------------------------------------------------
(* Every claim settles.  While there are no faults a claimed key without a  *)
(* result is held by some worker, and stays in the hands of that one until  *)
(* the result is on record.                                                 *)

(* A thread inside a call leaves it or takes its next step, sooner or later:*)
(* the weak fairness of FairSpec with "inside a call" written out where WF  *)
(* has ENABLED.  Step has an action for every place such a thread can be at,*)
(* and at "ready" for either answer of the PRIMARY KEY.                     *)
GoesOn(w) == <>(pc[w] = "idle") \/ <><<Step(w)>>_vars
AllGoOn == \A w \in Workers : GoesOn(w)

LEMMA WeakFairnessGoesOn ==
  ASSUME NEW w \in Workers
  PROVE  WF_vars(Step(w)) /\ [](pc[w] # "idle" => ENABLED <<Step(w)>>_vars) => []GoesOn(w)
<1>1. pc[w] # "idle" <=> ~(pc[w] = "idle")
  OBVIOUS
<1> QED
  BY <1>1, PTL DEF GoesOn

SettleInv == Typed /\ Claims /\ StrandInv

Settled(k) == result[k] # NoResult \/ faults > 0

HeldAt(w, k, place) == pc[w] = place /\ request[w].key = k

(* Somebody holds what is claimed and not settled.                          *)
LEMMA ClaimedIsHeld ==
  ASSUME SettleInv, NEW k \in Keys, k \in claimed, ~Settled(k)
  PROVE  \E w \in Workers : Holds(w, k)
<1>1. faults = 0 /\ result[k] = NoResult
  BY DEF SettleInv, Typed, TypeOK, Settled
<1>2. Stranded = {}
  <2>1. IsFiniteSet(Stranded) /\ Cardinality(Stranded) <= 0
    BY <1>1 DEF SettleInv, StrandInv
  <2>2. Cardinality(Stranded) = 0
    BY <2>1, FS_CardinalityType
  <2> QED
    BY <2>1, <2>2, FS_EmptySet
<1> QED
  BY <1>1, <1>2 DEF Stranded

(* What is settled stays so, and a holder moves on to its result.           *)
LEMMA HolderMoves ==
  ASSUME SettleInv, NEW k \in Keys, NEW w \in Workers, [Next]_vars
  PROVE  /\ HeldAt(w, k, "won") =>
              HeldAt(w, k, "won")' \/ HeldAt(w, k, "answered")' \/ Settled(k)'
         /\ HeldAt(w, k, "answered") => HeldAt(w, k, "answered")' \/ Settled(k)'
         /\ Step(w) /\ HeldAt(w, k, "won") => ~HeldAt(w, k, "won")'
         /\ Step(w) /\ HeldAt(w, k, "answered") => Settled(k)'
<1>1. Typed /\ Claims /\ faults \in Nat /\ pc \in [Workers -> Locations]
      /\ result \in [Keys -> Outcome]
  BY DEF SettleInv, Typed, TypeOK
<1>2. ASSUME NEW v \in Workers, BeginCall(v), pc[w] # "idle"
      PROVE  pc'[w] = pc[w] /\ request'[w] = request[w]
  <2>1. PICK r, place, back : Begins(v, r, place, back)
    BY <1>1, <1>2, BeginCallFrame
  <2>2. pc[v] = "idle"
    BY <1>2 DEF BeginCall, BuildCharge, RefuseCharge, BeginContact, Begin
  <2> QED
    BY <1>2, <2>1, <2>2 DEF Begins, Typed, TypeOK
<1>3. ASSUME NEW v \in Workers, Fails(v)
      PROVE  Settled(k)'
  <2>1. faults' = faults + 1
    BY <1>3 DEF Fails, StoreBusy, GatewayRaises, Crash, Fault
  <2> QED
    BY <1>1, <2>1 DEF Settled
<1>4. ASSUME NEW v \in Workers, Step(v), v # w
      PROVE  pc'[w] = pc[w] /\ request'[w] = request[w]
  BY <1>1, <1>4 DEF Step, ClaimWon, ChargeClaimLost, ContactClaimLost, ReadPrior, Present,
     RecordResult, Goto, Return
<1>5. ASSUME NEW ok \in BOOLEAN, Present(w, ok)
      PROVE  pc[w] = "won" /\ pc'[w] = "answered" /\ request'[w] = request[w]
  BY <1>1, <1>5 DEF Present, Goto
<1>6. ASSUME RecordResult(w), request[w].key = k
      PROVE  pc[w] = "answered" /\ Settled(k)'
  <2>1. result' = [result EXCEPT ![k] = OutcomeOf(answer[w])] /\ answer[w] \in DOMAIN presented
    BY <1>1, <1>6, RecordResultClaims
  <2>2. OutcomeOf(answer[w]) # NoResult
    BY <1>1, <2>1, OutcomeType DEF Typed
  <2> QED
    BY <1>1, <1>6, <2>1, <2>2 DEF Settled, RecordResult
<1>7. ASSUME Step(w), pc[w] \in {"won", "answered"}
      PROVE  (\E ok \in BOOLEAN : Present(w, ok)) \/ RecordResult(w)
  BY <1>7 DEF Step, ClaimWon, ChargeClaimLost, ContactClaimLost, ReadPrior
<1>8. ASSUME Tick \/ UNCHANGED vars
      PROVE  pc'[w] = pc[w] /\ request'[w] = request[w]
  BY <1>8 DEF Tick, vars, workerVars
<1>9. Step(w) => /\ HeldAt(w, k, "won") => HeldAt(w, k, "answered")'
                 /\ HeldAt(w, k, "answered") => Settled(k)'
  BY <1>5, <1>6, <1>7 DEF HeldAt
<1>10. (pc[w] # "idle" => pc'[w] = pc[w] /\ request'[w] = request[w]) \/ Settled(k)' \/ Step(w)
  BY <1>2, <1>3, <1>4, <1>8 DEF Next
<1> QED
  BY <1>9, <1>10 DEF HeldAt

LEMMA HolderSettles ==
  ASSUME NEW k \in Keys, NEW w \in Workers
  PROVE  []SettleInv /\ [][Next]_vars /\ []GoesOn(w) => [](Holds(w, k) => <>Settled(k))
<1> DEFINE Won == HeldAt(w, k, "won")
           Answered == HeldAt(w, k, "answered")
           Done == Settled(k)
           Out == pc[w] = "idle"
<1>1. SettleInv /\ [Next]_vars =>
        /\ Won => Won' \/ Answered' \/ Done'
        /\ Answered => Answered' \/ Done'
  BY HolderMoves
<1>2. SettleInv /\ [Next]_vars /\ <<Step(w)>>_vars =>
        /\ Won => ~Won'
        /\ Answered => Done'
  BY HolderMoves
<1>3. /\ Holds(w, k) => Won \/ Answered
      /\ ~(Won /\ Answered) /\ ~(Out /\ (Won \/ Answered))
  BY DEF Holds, HeldAt
<1> QED
  BY <1>1, <1>2, <1>3, PTL DEF GoesOn

(* Whoever it is that holds the key.                                        *)
LEMMA SomeHolderSettles ==
  ASSUME NEW k \in Keys, []SettleInv, [][Next]_vars, []AllGoOn
  PROVE  (\E w \in Workers : Holds(w, k)) => <>Settled(k)
<1>1. ASSUME NEW w \in Workers
      PROVE  Holds(w, k) => <>Settled(k)
  <2>1. AllGoOn => GoesOn(w)
    BY DEF AllGoOn
  <2>2. []SettleInv /\ [][Next]_vars /\ []GoesOn(w) => [](Holds(w, k) => <>Settled(k))
    BY HolderSettles
  <2> QED
    BY <2>1, <2>2, PTL
<1> HIDE DEF Holds, Settled
<1> QED
  BY <1>1

LEMMA ClaimSettles ==
  ASSUME NEW k \in Keys, []SettleInv, [][Next]_vars, []AllGoOn
  PROVE  k \in claimed ~> Settled(k)
<1>1. (\E w \in Workers : Holds(w, k)) => <>Settled(k)
  BY SomeHolderSettles
<1>2. SettleInv /\ k \in claimed => Settled(k) \/ \E w \in Workers : Holds(w, k)
  BY ClaimedIsHeld
<1> QED
  BY <1>1, <1>2, PTL

(* In a behaviour without faults, in which threads inside a call go on,     *)
(* every claimed action comes to have its result on record, whoever claimed *)
(* it and whoever else is after it.                                         *)
THEOREM EveryClaimSettles == Spec /\ []AllGoOn => ClaimsSettle
<1> SUFFICES ASSUME Spec, []AllGoOn, NEW k \in Keys
             PROVE  k \in claimed ~> (result[k] # NoResult \/ faults > 0)
  BY DEF ClaimsSettle
<1>1. []SettleInv /\ [][Next]_vars
  BY StrandInvariance, PTL DEF Spec, SettleInv
<1>2. k \in claimed ~> Settled(k)
  BY <1>1, ClaimSettles
<1> QED
  BY <1>2 DEF Settled

===============================================================================
