--------------------------- MODULE PowerLossProofs ---------------------------
(***************************************************************************)
(* Theorems about PowerLoss, for any workers, keys, mandates and bounds.    *)
(*                                                                          *)
(* A power loss takes from Claims of MoneyPathProofs that what the gateway  *)
(* has seen was claimed, and with it AtMostOnce.  What is left is counted:  *)
(* a key that is not claimed, or won and not presented yet, has been        *)
(* presented once for a loss at most, so presenting it makes one more       *)
(* (Counted).  That whatever comes back is true rests on every state in the *)
(* write-ahead log being true of what the gateway has done (Walled), which  *)
(* it remains, as the gateway's record only grows.                          *)
(*                                                                          *)
(* What does not count presentations survives: consent and the truth of     *)
(* receipts.  And nothing but the loss is to blame: without one this is     *)
(* MoneyPath.                                                               *)
(***************************************************************************)
EXTENDS PowerLoss, MoneyPathProofs

(* A held key is claimed and its result still to be written; an answer in   *)
(* hand is of its own key.                                                  *)
Held ==
  \A w \in Workers :
    /\ pc[w] \in {"won", "answered"} =>
         request[w].key \in claimed /\ result[request[w].key] = NoResult
    /\ pc[w] = "answered" => presented[answer[w]].key = request[w].key

Stores == [claimed: SUBSET Keys, result: [Keys -> Outcome]]

(* An outcome that a row of key k tells, if it has one, is the gateway's.   *)
Told(k, o) ==
  o # NoResult => /\ o.reference \in DOMAIN presented
                  /\ presented[o.reference].key = k
                  /\ o = OutcomeOf(o.reference)

TrueStore(s) ==
  \A k \in Keys : (s.result[k] # NoResult => k \in s.claimed) /\ Told(k, s.result[k])

Walled ==
  /\ wal \in Seq(Stores) /\ Len(wal) > 0
  /\ \A i \in 1 .. Len(wal) : TrueStore(wal[i])

Presentations(k) == {i \in DOMAIN presented : presented[i].key = k}

(* The gateway is still to hear of the claim of k, or k has none.           *)
Open(k) == k \notin claimed \/ \E w \in Workers : pc[w] = "won" /\ request[w].key = k

Counted ==
  /\ losses \in Nat
  /\ \A k \in Keys :
       /\ Cardinality(Presentations(k)) <= losses + 1
       /\ Open(k) => Cardinality(Presentations(k)) <= losses

PowerInv == Typed /\ Held /\ Exclusive /\ TrueStore(Store) /\ Walled /\ Counted

-------------------------------------------------------------------------------
(* The kinds of steps of the money path.                                    *)

Quiet ==
  /\ UNCHANGED <<claimed, result, presented>>
  /\ \A v \in Workers : pc'[v] \in {"won", "answered"} =>
       pc'[v] = pc[v] /\ request'[v] = request[v] /\ answer'[v] = answer[v]

Wins(w) ==
  /\ request[w].key \in Keys \ claimed
  /\ claimed' = claimed \cup {request[w].key}
  /\ pc' = [pc EXCEPT ![w] = "won"]
  /\ UNCHANGED <<request, answer, result, presented>>

Reaches(w) ==
  /\ pc[w] = "won" /\ request[w].key \in Keys
  /\ \E ok \in BOOLEAN : Presents(w, ok)
  /\ \/ /\ pc' = [pc EXCEPT ![w] = "answered"]
        /\ answer' = [answer EXCEPT ![w] = Len(presented) + 1]
     \/ /\ pc' = [pc EXCEPT ![w] = "idle"]
        /\ answer' = [answer EXCEPT ![w] = 0]
  /\ UNCHANGED <<request, claimed, result>>

Records(w) ==
  /\ pc[w] = "answered" /\ request[w].key \in Keys
  /\ answer[w] \in DOMAIN presented
  /\ result' = [result EXCEPT ![request[w].key] = OutcomeOf(answer[w])]
  /\ pc' = [pc EXCEPT ![w] = "idle"] /\ answer' = [answer EXCEPT ![w] = 0]
  /\ UNCHANGED <<request, claimed, presented>>

LEMMA StepKinds ==
  ASSUME Typed, Held, [Next]_vars
  PROVE  Quiet \/ \E w \in Workers : Wins(w) \/ Reaches(w) \/ Records(w)
<1>1. CASE Tick \/ UNCHANGED vars
  BY <1>1 DEF Tick, vars, workerVars, storeVars, Quiet
<1>2. ASSUME NEW w \in Workers, BeginCall(w)
      PROVE  Quiet
  <2>1. PICK r, place, back : Begins(w, r, place, back)
    BY <1>2, BeginCallFrame
  <2> QED
    BY <2>1 DEF Begins, Quiet, Typed, TypeOK
<1>3. ASSUME NEW w \in Workers, pc[w] # "idle"
      PROVE  request[w].key \in Keys
  BY <1>3 DEF Typed, Carrying, Request
<1>4. ASSUME NEW w \in Workers, Step(w)
      PROVE  Quiet \/ Wins(w) \/ Reaches(w) \/ Records(w)
  <2>1. CASE ClaimWon(w)
    BY <1>3, <2>1 DEF ClaimWon, KeyOf, Goto, Wins
  <2>2. CASE ChargeClaimLost(w)
    BY <2>2 DEF ChargeClaimLost, Goto, storeVars, Quiet, Typed, TypeOK
  <2>3. CASE ContactClaimLost(w)
    BY <2>3 DEF ContactClaimLost, Return, storeVars, Quiet, Typed, TypeOK
  <2>4. CASE ReadPrior(w)
    BY <2>4 DEF ReadPrior, Return, storeVars, Quiet, Typed, TypeOK
  <2>5. ASSUME NEW ok \in BOOLEAN, Present(w, ok)
        PROVE  Reaches(w)
    BY <1>3, <2>5 DEF Present, Goto, storeVars, Reaches
  <2>6. CASE RecordResult(w)
    <3>1. pc[w] = "answered" /\ KeyOf(w) \in claimed /\ result[KeyOf(w)] = NoResult
      BY <2>6 DEF RecordResult, Held, KeyOf
    <3>2. /\ result' = [result EXCEPT ![KeyOf(w)] = OutcomeOf(answer[w])]
          /\ Return(w, [kind |-> "executed", outcome |-> OutcomeOf(answer[w])])
          /\ UNCHANGED <<claimed, presented>>
      BY <2>6, <3>1 DEF RecordResult
    <3>3. answer[w] \in DOMAIN presented
      BY <3>1 DEF Typed, Carrying
    <3> QED
      BY <1>3, <3>1, <3>2, <3>3 DEF Records, Return, KeyOf
  <2> QED
    BY <1>4, <2>1, <2>2, <2>3, <2>4, <2>5, <2>6 DEF Step
<1>5. ASSUME NEW w \in Workers, Fails(w)
      PROVE  Quiet \/ Reaches(w)
  <2>1. CASE StoreBusy(w)
    BY <2>1 DEF StoreBusy, Return, storeVars, Quiet, Typed, TypeOK
  <2>2. CASE Crash(w)
    BY <2>2 DEF Crash, storeVars, Quiet, Typed, TypeOK
  <2>3. CASE GatewayRaises(w)
    <3>1. /\ pc[w] = "won"
          /\ UNCHANGED presented \/ \E ok \in BOOLEAN : Presents(w, ok)
          /\ pc' = [pc EXCEPT ![w] = "idle"] /\ answer' = [answer EXCEPT ![w] = 0]
          /\ UNCHANGED <<request, claimed, result>>
      BY <2>3 DEF GatewayRaises, Return, storeVars
    <3>2. CASE UNCHANGED presented
      BY <3>1, <3>2 DEF Quiet, Typed, TypeOK
    <3>3. CASE \E ok \in BOOLEAN : Presents(w, ok)
      BY <1>3, <3>1, <3>3 DEF Reaches
    <3> QED
      BY <3>1, <3>2, <3>3
  <2> QED
    BY <1>5, <2>1, <2>2, <2>3 DEF Fails
<1> QED
  BY <1>1, <1>2, <1>4, <1>5 DEF Next

(* The gateway's record after it was reached.                               *)
LEMMA ReachesPresents ==
  ASSUME Typed, NEW w \in Workers, Reaches(w)
  PROVE  \E n : /\ n = Len(presented) + 1 /\ n \notin DOMAIN presented
                /\ DOMAIN presented' = DOMAIN presented \cup {n}
                /\ \A i \in DOMAIN presented : presented'[i] = presented[i]
                /\ presented'[n].key = request[w].key
<1>1. PICK ok \in BOOLEAN : Presents(w, ok)
  BY DEF Reaches
<1>2. Len(presented) + 1 \notin DOMAIN presented
  BY DEF Typed, TypeOK
<1>3. pc[w] # "idle"
  BY DEF Reaches
<1>4. /\ DOMAIN presented' = DOMAIN presented \cup {Len(presented) + 1}
      /\ \A i \in DOMAIN presented : presented'[i] = presented[i]
      /\ presented'[Len(presented) + 1].key = request[w].key
  BY <1>1, <1>3, PresentsTyped
<1> QED
  BY <1>2, <1>4

-------------------------------------------------------------------------------
(* Steps of the money path.                                                 *)

LEMMA NextHeld ==
  ASSUME Typed, Held, Exclusive, TrueStore(Store), [Next]_vars
  PROVE  Held' /\ Exclusive'
<1>1. CASE Quiet
  BY <1>1 DEF Quiet, Held, Exclusive
<1>2. ASSUME NEW w \in Workers, Wins(w)
      PROVE  Held' /\ Exclusive'
  <2>1. PICK k \in Keys : k = request[w].key
    BY <1>2 DEF Wins
  <2>2. /\ k \notin claimed /\ claimed' = claimed \cup {k}
        /\ pc' = [pc EXCEPT ![w] = "won"]
        /\ UNCHANGED <<request, answer, result, presented>>
    BY <1>2, <2>1 DEF Wins
  <2>3. result[k] = NoResult
    BY <2>2 DEF TrueStore, Store
  <2>4. \A v \in Workers : pc[v] \in {"won", "answered"} => request[v].key # k
    BY <2>2 DEF Held
  <2>5. pc'[w] = "won" /\ \A v \in Workers \ {w} : pc'[v] = pc[v]
    BY <2>2 DEF Typed, TypeOK
  <2> QED
    BY <2>1, <2>2, <2>3, <2>4, <2>5 DEF Held, Exclusive
<1>3. ASSUME NEW w \in Workers, Reaches(w)
      PROVE  Held' /\ Exclusive'
  <2>1. PICK n : /\ n = Len(presented) + 1
                 /\ DOMAIN presented' = DOMAIN presented \cup {n}
                 /\ \A i \in DOMAIN presented : presented'[i] = presented[i]
                 /\ presented'[n].key = request[w].key
    BY <1>3, ReachesPresents
  <2>2. /\ pc[w] = "won"
        /\ \/ pc' = [pc EXCEPT ![w] = "answered"] /\ answer' = [answer EXCEPT ![w] = n]
           \/ pc' = [pc EXCEPT ![w] = "idle"] /\ answer' = [answer EXCEPT ![w] = 0]
        /\ UNCHANGED <<request, claimed, result>>
    BY <1>3, <2>1 DEF Reaches
  <2>3. /\ (pc'[w] = "answered" /\ answer'[w] = n) \/ pc'[w] = "idle"
        /\ \A v \in Workers \ {w} : pc'[v] = pc[v] /\ answer'[v] = answer[v]
    BY <2>2 DEF Typed, TypeOK
  <2>4. \A v \in Workers : pc[v] = "answered" => answer[v] \in DOMAIN presented
    BY DEF Typed, Carrying
  <2>5. Held'
    BY <2>1, <2>2, <2>3, <2>4 DEF Held
  <2>6. Exclusive'
    BY <2>2, <2>3 DEF Exclusive
  <2> QED
    BY <2>5, <2>6
<1>4. ASSUME NEW w \in Workers, Records(w)
      PROVE  Held' /\ Exclusive'
  <2>1. PICK k \in Keys : k = request[w].key
    BY <1>4 DEF Records
  <2>2. PICK o : o = OutcomeOf(answer[w])
    OBVIOUS
  <2>3. /\ pc[w] = "answered" /\ result' = [result EXCEPT ![k] = o]
        /\ pc' = [pc EXCEPT ![w] = "idle"] /\ answer' = [answer EXCEPT ![w] = 0]
        /\ UNCHANGED <<request, claimed, presented>>
    BY <1>4, <2>1, <2>2 DEF Records
  <2>4. pc'[w] = "idle" /\ \A v \in Workers \ {w} : pc'[v] = pc[v] /\ answer'[v] = answer[v]
    BY <2>3 DEF Typed, TypeOK
  <2>5. \A j \in Keys \ {k} : result'[j] = result[j]
    BY <2>3 DEF Typed, TypeOK
  <2>6. \A v \in Workers \ {w} : pc[v] \in {"won", "answered"} => request[v].key # k
    BY <2>1, <2>3 DEF Exclusive
  <2>7. \A v \in Workers : pc[v] # "idle" => request[v].key \in Keys
    BY DEF Typed, Carrying, Request
  <2>8. Held'
    BY <2>3, <2>4, <2>5, <2>6, <2>7 DEF Held
  <2>9. Exclusive'
    BY <2>3, <2>4 DEF Exclusive
  <2> QED
    BY <2>8, <2>9
<1> QED
  BY <1>1, <1>2, <1>3, <1>4, StepKinds

(* A store that tells the truth goes on telling it.                         *)
LEMMA TruthStays ==
  ASSUME Typed, [Next]_vars, NEW s, TrueStore(s)
  PROVE  TrueStore(s)'
<1>1. ASSUME NEW k \in Keys, NEW o, Told(k, o)
      PROVE  Told(k, o)'
  <2>1. CASE o = NoResult
    BY <2>1 DEF Told
  <2>2. CASE o # NoResult
    <3>1. PICK n : n = o.reference
      OBVIOUS
    <3>2. n \in DOMAIN presented /\ presented[n].key = k /\ o = OutcomeOf(n)
      BY <1>1, <2>2, <3>1 DEF Told
    <3>3. n \in DOMAIN presented' /\ OutcomeOf(n)' = OutcomeOf(n) /\ presented'[n] = presented[n]
      BY <3>2, PresentedGrows
    <3> QED
      BY <3>1, <3>2, <3>3 DEF Told, OutcomeOf
  <2> QED
    BY <2>1, <2>2
<1> QED
  BY <1>1 DEF TrueStore

LEMMA NextTrueStore ==
  ASSUME Typed, Held, TrueStore(Store), [Next]_vars
  PROVE  TrueStore(Store)'
<1>1. PICK s : s = Store
  OBVIOUS
<1>2. PICK t : t = Store'
  OBVIOUS
<1>3. TrueStore(s)'
  BY <1>1, TruthStays
<1>4. /\ s.claimed = claimed /\ s.result = result
      /\ t.claimed = claimed' /\ t.result = result'
  BY <1>1, <1>2 DEF Store
<1>5. ASSUME t.result = s.result, s.claimed \subseteq t.claimed
      PROVE  TrueStore(t)'
  BY <1>3, <1>5 DEF TrueStore
<1>6. ASSUME NEW w \in Workers, Records(w)
      PROVE  TrueStore(t)'
  <2>1. PICK n : n = answer[w]
    OBVIOUS
  <2>2. PICK k \in Keys : k = request[w].key
    BY <1>6 DEF Records
  <2>3. PICK o : o = OutcomeOf(n)
    OBVIOUS
  <2>4. /\ result' = [result EXCEPT ![k] = o]
        /\ n \in DOMAIN presented
        /\ UNCHANGED <<claimed, presented>> /\ pc[w] = "answered"
    BY <1>6, <2>1, <2>2, <2>3 DEF Records
  <2>5. presented[n].key = k /\ k \in claimed
    BY <2>1, <2>2, <2>4 DEF Held
  <2>6. o.reference = n /\ OutcomeOf(n)' = o
    BY <2>3, <2>4 DEF OutcomeOf
  <2>7. Told(k, o)'
    BY <2>4, <2>5, <2>6 DEF Told
  <2>8. t.result[k] = o /\ \A j \in Keys \ {k} : t.result[j] = s.result[j]
    BY <1>4, <2>4 DEF Typed, TypeOK
  <2>9. k \in t.claimed /\ t.claimed = s.claimed
    BY <1>4, <2>4, <2>5
  <2>10. ASSUME NEW j \in Keys
         PROVE  (t.result[j] # NoResult => j \in t.claimed) /\ Told(j, t.result[j])'
    <3>1. CASE j = k
      BY <2>7, <2>8, <2>9, <3>1
    <3>2. CASE j # k
      BY <1>3, <2>8, <2>9, <3>2 DEF TrueStore
    <3> QED
      BY <3>1, <3>2
  <2> QED
    BY <2>10 DEF TrueStore
<1>7. TrueStore(t)'
  <2>1. CASE Quiet \/ \E w \in Workers : Wins(w) \/ Reaches(w)
    BY <1>4, <1>5, <2>1 DEF Quiet, Wins, Reaches
  <2> QED
    BY <1>6, <2>1, StepKinds
<1> QED
  BY <1>2, <1>7 DEF TrueStore, Told

LEMMA PresentationsFinite ==
  ASSUME Typed
  PROVE  \A k \in Keys : /\ IsFiniteSet(Presentations(k))
                         /\ Cardinality(Presentations(k)) \in Nat
<1> SUFFICES ASSUME NEW k \in Keys
             PROVE  IsFiniteSet(Presentations(k))
  BY FS_CardinalityType
<1>1. Len(presented) \in Nat /\ DOMAIN presented = 1 .. Len(presented)
  BY DEF Typed, TypeOK
<1>2. IsFiniteSet(1 .. Len(presented))
  BY <1>1, FS_Interval
<1>3. Presentations(k) \in SUBSET (1 .. Len(presented))
  BY <1>1 DEF Presentations
<1> QED
  BY <1>2, <1>3, FS_Subset

(* What the gateway has seen of each key, in a step of the money path.      *)
LEMMA NextCounted ==
  ASSUME Typed, Held, Exclusive, Counted, [Next]_vars, losses' = losses
  PROVE  Counted'
<1>1. \A k \in Keys : IsFiniteSet(Presentations(k)) /\ Cardinality(Presentations(k)) \in Nat
  BY PresentationsFinite
<1>2. ASSUME UNCHANGED presented, \A k \in Keys : Open(k)' => Open(k)
      PROVE  Counted'
  <2>1. \A k \in Keys : Presentations(k)' = Presentations(k)
    BY <1>2 DEF Presentations
  <2> QED
    BY <1>2, <2>1 DEF Counted
<1>3. CASE Quiet
  BY <1>2, <1>3 DEF Quiet, Open
<1>4. ASSUME NEW w \in Workers, Wins(w)
      PROVE  Counted'
  <2>1. pc'[w] = "won" /\ \A v \in Workers \ {w} : pc'[v] = pc[v]
    BY <1>4 DEF Wins, Typed, TypeOK
  <2> QED
    BY <1>2, <1>4, <2>1 DEF Wins, Open
<1>5. ASSUME NEW w \in Workers, Records(w)
      PROVE  Counted'
  <2>1. pc'[w] = "idle" /\ \A v \in Workers \ {w} : pc'[v] = pc[v]
    BY <1>5 DEF Records, Typed, TypeOK
  <2> QED
    BY <1>2, <1>5, <2>1 DEF Records, Open
<1>6. ASSUME NEW w \in Workers, Reaches(w)
      PROVE  Counted'
  <2>1. PICK k \in Keys : k = request[w].key
    BY <1>6 DEF Reaches
  <2>2. PICK n : /\ n = Len(presented) + 1 /\ n \notin DOMAIN presented
                 /\ DOMAIN presented' = DOMAIN presented \cup {n}
                 /\ \A i \in DOMAIN presented : presented'[i] = presented[i]
                 /\ presented'[n].key = k
    BY <1>6, <2>1, ReachesPresents
  <2>3. /\ pc[w] = "won" /\ UNCHANGED <<request, claimed>>
        /\ pc'[w] # "won" /\ \A v \in Workers \ {w} : pc'[v] = pc[v]
    BY <1>6 DEF Reaches, Typed, TypeOK
  <2>4. k \in claimed
    BY <2>1, <2>3 DEF Held
  <2>5. Open(k) /\ ~Open(k)'
    <3>1. \A v \in Workers \ {w} : pc[v] = "won" => request[v].key # k
      BY <2>1, <2>3 DEF Exclusive
    <3> QED
      BY <2>1, <2>3, <2>4, <3>1 DEF Open
  <2>6. Presentations(k)' = Presentations(k) \cup {n}
    BY <2>2 DEF Presentations
  <2>7. /\ Cardinality(Presentations(k)') <= Cardinality(Presentations(k)) + 1
        /\ Cardinality(Presentations(k)') \in Nat
    <3>1. PICK S : S = Presentations(k)
      OBVIOUS
    <3>2. IsFiniteSet(S)
      BY <1>1, <2>1, <3>1
    <3>3. /\ IsFiniteSet(S \cup {n}) /\ Cardinality(S) \in Nat
          /\ \/ Cardinality(S \cup {n}) = Cardinality(S)
             \/ Cardinality(S \cup {n}) = Cardinality(S) + 1
      BY <3>2, FS_AddElement, FS_CardinalityType
    <3>4. Presentations(k)' = S \cup {n}
      BY <2>6, <3>1
    <3> QED
      BY <3>1, <3>3, <3>4
  <2>8. Cardinality(Presentations(k)') <= losses + 1
    BY <1>1, <2>5, <2>7 DEF Counted
  <2>9. ASSUME NEW j \in Keys, j # k
        PROVE  Presentations(j)' = Presentations(j) /\ (Open(j)' => Open(j))
    BY <2>2, <2>3, <2>9 DEF Presentations, Open
  <2>10. ASSUME NEW j \in Keys
         PROVE  /\ Cardinality(Presentations(j)') <= losses + 1
                /\ Open(j)' => Cardinality(Presentations(j)') <= losses
    <3>1. CASE j = k
      BY <2>5, <2>8, <3>1
    <3>2. CASE j # k
      BY <2>9, <3>2 DEF Counted
    <3> QED
      BY <3>1, <3>2
  <2> QED
    BY <2>10 DEF Counted
<1> QED
  BY <1>3, <1>4, <1>5, <1>6, StepKinds

-------------------------------------------------------------------------------
(* Steps of the log.                                                        *)

LEMMA StoreTyped == Typed => Store \in Stores /\ Store.claimed = claimed /\ Store.result = result
  BY DEF Typed, TypeOK, Store, Stores

LEMMA NextPower ==
  ASSUME PowerInv, Next, losses' = losses,
         wal' = IF storeVars' = storeVars THEN wal ELSE Append(wal, Store')
  PROVE  PowerInv'
<1>1. Typed' /\ Held' /\ Exclusive' /\ TrueStore(Store)' /\ Counted'
  BY NextTyped, NextHeld, NextTrueStore, NextCounted DEF PowerInv
<1>2. Store' \in Stores
  BY <1>1 DEF Typed, TypeOK, Store, Stores
<1>3. PICK t \in Stores : t = Store'
  BY <1>2
<1>4. TrueStore(t)'
  BY <1>1, <1>3 DEF TrueStore, Told
<1>5. PICK u : u = wal
  OBVIOUS
<1>6. /\ u \in Seq(Stores) /\ Len(u) \in Nat /\ Len(u) > 0
      /\ \A i \in 1 .. Len(u) : TrueStore(u[i])'
  <2>1. u \in Seq(Stores) /\ Len(u) \in Nat /\ Len(u) > 0
    BY <1>5 DEF PowerInv, Walled
  <2>2. ASSUME NEW i \in 1 .. Len(u)
        PROVE  TrueStore(u[i])'
    <3>1. PICK s : s = u[i]
      OBVIOUS
    <3>2. TrueStore(s)
      BY <1>5, <3>1 DEF PowerInv, Walled
    <3>3. TrueStore(s)'
      BY <3>2, TruthStays DEF PowerInv
    <3> QED
      BY <3>1, <3>3
  <2> QED
    BY <2>1, <2>2
<1>7. PICK x : x = wal'
  OBVIOUS
<1>8. x \in Seq(Stores) /\ Len(x) > 0 /\ \A i \in 1 .. Len(x) : TrueStore(x[i])'
  <2>1. CASE x = u
    BY <1>6, <2>1
  <2>2. CASE x = Append(u, t)
    <3>1. /\ x \in Seq(Stores) /\ Len(x) = Len(u) + 1 /\ x[Len(x)] = t
          /\ \A i \in 1 .. Len(u) : x[i] = u[i]
      BY <1>3, <1>6, <2>2
    <3>2. ASSUME NEW i \in 1 .. Len(x)
          PROVE  TrueStore(x[i])'
      <4>1. CASE i = Len(x)
        BY <1>4, <3>1, <4>1
      <4>2. CASE i \in 1 .. Len(u)
        BY <1>6, <3>1, <4>2
      <4> QED
        BY <1>6, <3>1, <4>1, <4>2
    <3> QED
      BY <1>6, <3>1, <3>2
  <2> QED
    BY <1>3, <1>5, <1>7, <2>1, <2>2
<1>9. Walled'
  BY <1>7, <1>8 DEF Walled
<1> QED
  BY <1>1, <1>9 DEF PowerInv

LEMMA CheckpointPower == PowerInv /\ Checkpoint => PowerInv'
<1> SUFFICES ASSUME PowerInv, Checkpoint
             PROVE  PowerInv'
  OBVIOUS
<1>1. UNCHANGED <<vars, losses>> /\ wal' = <<Store>>
  BY DEF Checkpoint
<1>2. UNCHANGED <<claimed, result, presented, pc, request, answer, reply, now, calls, faults>>
  BY <1>1 DEF vars, workerVars, storeVars
<1>3. Typed' /\ Held' /\ Exclusive' /\ TrueStore(Store)' /\ Counted'
  <2>1. Typed'
    BY <1>2 DEF PowerInv, Typed, TypeOK, Carrying
  <2>2. Held' /\ Exclusive'
    BY <1>2 DEF PowerInv, Held, Exclusive
  <2>3. TrueStore(Store)'
    BY <1>2 DEF PowerInv, TrueStore, Told, Store, OutcomeOf
  <2>4. Counted'
    BY <1>1, <1>2 DEF PowerInv, Counted, Presentations, Open
  <2> QED
    BY <2>1, <2>2, <2>3, <2>4
<1>4. PICK s \in Stores : s = Store
  BY StoreTyped DEF PowerInv
<1>5. TrueStore(s)'
  BY <1>2, <1>4 DEF PowerInv, TrueStore, Told, Store, OutcomeOf
<1>6. PICK x : x = wal'
  OBVIOUS
<1>7. x \in Seq(Stores) /\ Len(x) > 0 /\ \A i \in 1 .. Len(x) : TrueStore(x[i])'
  BY <1>1, <1>4, <1>5, <1>6
<1>8. Walled'
  BY <1>6, <1>7 DEF Walled
<1> QED
  BY <1>3, <1>8 DEF PowerInv

(* After a power loss nothing is held, the rows are those of one state of   *)
(* the log, and every key may have lost the claim that kept it from being   *)
(* presented again: hence one more presentation for one more loss.          *)
LEMMA LosePowerPower == PowerInv /\ LosePower => PowerInv'
<1> SUFFICES ASSUME PowerInv, LosePower
             PROVE  PowerInv'
  OBVIOUS
<1>1. PICK i \in DOMAIN wal : claimed' = wal[i].claimed /\ result' = wal[i].result
                              /\ wal' = <<wal[i]>>
  BY DEF LosePower
<1>2. PICK s : s = wal[i]
  OBVIOUS
<1>3. s \in Stores /\ TrueStore(s)
  BY <1>1, <1>2 DEF PowerInv, Walled
<1>4. claimed' = s.claimed /\ result' = s.result /\ wal' = <<s>>
  BY <1>1, <1>2
<1>5. s.claimed \subseteq Keys /\ s.result \in [Keys -> Outcome]
  BY <1>3 DEF Stores
<1>6. /\ losses' = losses + 1 /\ UNCHANGED <<presented, now, calls, faults>>
      /\ pc' = [w \in Workers |-> "idle"] /\ request' = [w \in Workers |-> NoRequest]
      /\ answer' = [w \in Workers |-> 0] /\ reply' = [w \in Workers |-> NoReply]
  BY DEF LosePower
<1>7. Typed'
  <2>1. NoReply \in Reply
    BY DEF NoReply, Reply, ReplyKinds, NoResult, Outcome
  <2>2. TypeOK'
    BY <1>4, <1>5, <1>6, <2>1 DEF PowerInv, Typed, TypeOK, Locations
  <2>3. Carrying'
    BY <1>6 DEF Carrying
  <2> QED
    BY <2>2, <2>3 DEF Typed
<1>8. Held' /\ Exclusive'
  BY <1>6 DEF Held, Exclusive
<1>9. TrueStore(s)'
  BY <1>3, <1>6 DEF TrueStore, Told, OutcomeOf
<1>10. TrueStore(Store)'
  BY <1>4, <1>9 DEF TrueStore, Told, Store
<1>11. Walled'
  <2>1. PICK x : x = wal'
    OBVIOUS
  <2>2. x \in Seq(Stores) /\ Len(x) > 0 /\ \A j \in 1 .. Len(x) : TrueStore(x[j])'
    BY <1>3, <1>4, <1>9, <2>1
  <2> QED
    BY <2>1, <2>2 DEF Walled
<1>12. Counted'
  <2>1. \A k \in Keys : Presentations(k)' = Presentations(k)
    BY <1>6 DEF Presentations
  <2>2. \A k \in Keys : IsFiniteSet(Presentations(k)) /\ Cardinality(Presentations(k)) \in Nat
    BY PresentationsFinite DEF PowerInv
  <2> QED
    BY <1>6, <2>1, <2>2 DEF PowerInv, Counted
<1> QED
  BY <1>7, <1>8, <1>10, <1>11, <1>12 DEF PowerInv

LEMMA PowerInitHolds == PowerInit => PowerInv
<1> SUFFICES ASSUME PowerInit
             PROVE  PowerInv
  OBVIOUS
<1>1. Init /\ wal = <<Store>> /\ losses = 0
  BY DEF PowerInit
<1>2. Typed
  BY <1>1, InitTyped
<1>3. /\ pc = [w \in Workers |-> "idle"] /\ presented = <<>>
      /\ claimed = {} /\ result = [k \in Keys |-> NoResult]
  BY <1>1 DEF Init
<1>4. Held /\ Exclusive
  BY <1>3 DEF Held, Exclusive
<1>5. PICK s \in Stores : s = Store
  BY <1>2, StoreTyped
<1>6. TrueStore(s)
  BY <1>3, <1>5 DEF TrueStore, Told, Store
<1>7. Walled
  <2>1. PICK x : x = wal
    OBVIOUS
  <2>2. x \in Seq(Stores) /\ Len(x) > 0 /\ \A i \in 1 .. Len(x) : TrueStore(x[i])
    BY <1>1, <1>5, <1>6, <2>1
  <2> QED
    BY <2>1, <2>2 DEF Walled
<1>8. Counted
  <2>1. \A k \in Keys : Presentations(k) = {}
    BY <1>3 DEF Presentations
  <2>2. \A k \in Keys : Cardinality(Presentations(k)) = 0
    BY <2>1, FS_EmptySet
  <2> QED
    BY <1>1, <2>2 DEF Counted
<1> QED
  BY <1>2, <1>4, <1>5, <1>6, <1>7, <1>8 DEF PowerInv

LEMMA PowerStep == PowerInv /\ [PowerNext]_powerVars => PowerInv'
<1> SUFFICES ASSUME PowerInv, [PowerNext]_powerVars
             PROVE  PowerInv'
  OBVIOUS
<1>1. CASE Commit
  BY <1>1, NextPower DEF Commit
<1>2. CASE Checkpoint
  BY <1>2, CheckpointPower
<1>3. CASE LosePower
  BY <1>3, LosePowerPower
<1>4. CASE UNCHANGED powerVars
  <2>1. UNCHANGED <<claimed, result, presented, pc, request, answer, reply,
                    now, calls, faults, wal, losses>>
    BY <1>4 DEF powerVars, vars, workerVars, storeVars
  <2>2. Typed' /\ Held' /\ Exclusive'
    BY <2>1 DEF PowerInv, Typed, TypeOK, Carrying, Held, Exclusive
  <2>3. TrueStore(Store)' /\ Walled'
    BY <2>1 DEF PowerInv, TrueStore, Told, Store, OutcomeOf, Walled
  <2>4. Counted'
    BY <2>1 DEF PowerInv, Counted, Presentations, Open
  <2> QED
    BY <2>2, <2>3, <2>4 DEF PowerInv
<1> QED
  BY <1>1, <1>2, <1>3, <1>4 DEF PowerNext

(* The invariant of the money path under power losses: the keys in hand are *)
(* claimed and unanswered, every state of the write-ahead log is true, and  *)
(* presentations are counted against losses (db.py's synchronous = NORMAL). *)
THEOREM PowerInvariance == PowerSpec => []PowerInv
  BY PowerInitHolds, PowerStep, PTL DEF PowerSpec

(* With commits that a power loss can take back (synchronous = NORMAL), an  *)
(* action still reaches the gateway once and once more for each loss at     *)
(* most: no replay, race or error of claim repeats it.                      *)
THEOREM RepeatsArePaidFor == PowerSpec => []RepeatsOnlyByPowerLoss
<1>1. PowerInv => RepeatsOnlyByPowerLoss
  <2> SUFFICES ASSUME PowerInv, NEW k \in Keys
               PROVE  Cardinality(Presentations(k)) <= 1 + losses
    BY DEF RepeatsOnlyByPowerLoss, Presentations
  <2>1. Cardinality(Presentations(k)) \in Nat
    BY PresentationsFinite DEF PowerInv
  <2> QED
    BY <2>1 DEF PowerInv, Counted
<1> QED
  BY <1>1, PowerInvariance, PTL

(* Whatever prefix of the commits a restart finds, a row with a result has  *)
(* its claim and tells what the gateway did for that very key.              *)
THEOREM WhatSurvivesIsTrue == PowerSpec => []SurvivingResultsAreTrue
<1>1. PowerInv => SurvivingResultsAreTrue
  BY DEF PowerInv, TrueStore, Told, Store, SurvivingResultsAreTrue, ResultsAreTrue
<1> QED
  BY <1>1, PowerInvariance, PTL

-------------------------------------------------------------------------------
(* What a power loss leaves as it was.                                      *)

(* Requests die with their processes, and no other is ever presented.       *)
Consented == Typed /\ Authorised /\ PresentedAuthorised

LEMMA PowerConsented ==
  ASSUME PowerInv, Consented, [PowerNext]_powerVars
  PROVE  Consented'
<1>1. Typed'
  BY PowerStep DEF PowerInv
<1>2. CASE LosePower
  <2>1. request' = [w \in Workers |-> NoRequest] /\ presented' = presented
    BY <1>2 DEF LosePower
  <2>2. Authorised'
    BY <2>1, NoRequestAssumption DEF Authorised
  <2>3. PresentedAuthorised'
    BY <2>1 DEF Consented, PresentedAuthorised
  <2> QED
    BY <1>1, <2>2, <2>3 DEF Consented
<1>3. CASE [Next]_vars
  BY <1>3, NextTyped, NextAuthorised, NextPresentedAuthorised DEF Consented
<1>4. LosePower \/ [Next]_vars
  BY DEF PowerNext, Commit, Checkpoint, powerVars
<1> QED
  BY <1>2, <1>3, <1>4

(* A charge that is repeated because its claim was lost is still within the *)
(* envelope its token names, with its subscription's own unless a caller    *)
(* named another (ADR-0003).                                                *)
THEOREM RepeatsStayWithinEnvelope == PowerSpec => []WithinEnvelope
<1>1. PowerInit => Consented
  <2>1. Init => Typed
    BY InitTyped
  <2>2. Init => Authorised /\ PresentedAuthorised
    BY NoRequestAssumption DEF Init, Authorised, PresentedAuthorised
  <2> QED
    BY <2>1, <2>2 DEF PowerInit, Consented
<1>2. PowerInv /\ Consented /\ [PowerNext]_powerVars => Consented'
  BY PowerConsented
<1>3. Consented => WithinEnvelope
  BY AuthorisedIsWithin DEF Consented
<1> QED
  BY <1>1, <1>2, <1>3, PowerInvariance, PTL DEF PowerSpec

(* A receipt in a caller's hands; a power loss leaves nobody with one.      *)
Receipted == ReceiptsAreTrue /\ RecordNeverRefused

LEMMA LosePowerReceipted ==
  ASSUME LosePower
  PROVE  Receipted'
<1>1. reply' = [w \in Workers |-> NoReply]
  BY DEF LosePower
<1> QED
  BY <1>1 DEF Receipted, ReceiptsAreTrue, RecordNeverRefused, NoReply

LEMMA NextReceipted ==
  ASSUME PowerInv, Receipted, [Next]_vars
  PROVE  Receipted'
<1> DEFINE True(v) ==
      reply[v].kind = "executed" \/ reply[v].outcome # NoResult =>
        LET o == reply[v].outcome
        IN /\ o.reference \in DOMAIN presented
           /\ presented[o.reference].key = request[v].key
           /\ o = OutcomeOf(o.reference)
<1> USE DEF PowerInv
<1> SUFFICES ASSUME NEW v \in Workers
             PROVE  True(v)' /\ reply'[v].kind # "ResultAlreadyRecorded"
  BY DEF Receipted, ReceiptsAreTrue, RecordNeverRefused
<1>1. CASE ReplyKept(v)
  BY <1>1, PresentedGrows DEF ReplyKept, Receipted, ReceiptsAreTrue, RecordNeverRefused
<1>2. CASE ReplyEmpty(v)
  BY <1>2 DEF ReplyEmpty
<1>3. CASE ReplyRead(v)
  <2>1. request[v].key \in Keys
    BY <1>3 DEF ReplyRead, Request
  <2>2. reply'[v].kind = "replayed" /\ reply'[v].outcome = result[request[v].key]
    BY <1>3 DEF ReplyRead
  <2>3. Told(request[v].key, result[request[v].key])
    BY <2>1 DEF TrueStore, Store
  <2>4. \A i : OutcomeOf(i)' = OutcomeOf(i)
    BY <1>3 DEF ReplyRead, OutcomeOf
  <2> QED
    BY <1>3, <2>2, <2>3, <2>4 DEF ReplyRead, Told
<1>4. CASE RecordResult(v)
  <2>1. pc[v] = "answered"
    BY <1>4 DEF RecordResult
  <2>2. /\ request[v].key \in claimed /\ result[request[v].key] = NoResult
        /\ presented[answer[v]].key = request[v].key
    BY <2>1 DEF Held
  <2>3. answer[v] \in DOMAIN presented
    BY <2>1 DEF Typed, Carrying
  <2>4. /\ reply'[v] = [kind |-> "executed", outcome |-> OutcomeOf(answer[v])]
        /\ UNCHANGED <<presented, request>>
    BY <1>4, <2>2 DEF RecordResult, KeyOf, Return, Typed, TypeOK
  <2>5. OutcomeOf(answer[v]).reference = answer[v]
    BY DEF OutcomeOf
  <2>6. \A i : OutcomeOf(i)' = OutcomeOf(i)
    BY <2>4 DEF OutcomeOf
  <2> QED
    BY <2>2, <2>3, <2>4, <2>5, <2>6
<1> QED
  BY <1>1, <1>2, <1>3, <1>4, ReplyFrame

(* Before and after any number of power losses a receipt, first-hand or     *)
(* replayed, reports what the gateway did for that very action, and         *)
(* record_result never meets a row that is gone or has been written.        *)
THEOREM ReceiptsStayTrue == PowerSpec => [](ReceiptsAreTrue /\ RecordNeverRefused)
<1>1. PowerInit => Receipted
  BY InitTruths DEF PowerInit, Receipted, Truths
<1>2. PowerInv /\ Receipted /\ [PowerNext]_powerVars => Receipted'
  <2>1. [PowerNext]_powerVars => LosePower \/ [Next]_vars
    BY DEF PowerNext, Commit, Checkpoint, powerVars
  <2> QED
    BY <2>1, LosePowerReceipted, NextReceipted
<1>3. Receipted <=> ReceiptsAreTrue /\ RecordNeverRefused
  BY DEF Receipted
<1> QED
  BY <1>1, <1>2, <1>3, PowerInvariance, PTL DEF PowerSpec

(* Only a power loss forgets: while there is none, a claim stands and a     *)
(* result on record is never revised (idempotency.py, "AND result IS NULL").*)
Remembers ==
  /\ claimed \subseteq claimed'
  /\ \A k \in Keys : result[k] # NoResult => result'[k] = result[k]

ForgetsOnlyByPowerLoss == [][losses' = losses => Remembers]_powerVars

THEOREM OnlyPowerLossForgets == PowerSpec => ForgetsOnlyByPowerLoss
<1>1. ASSUME PowerInv, PowerNext, losses' = losses
      PROVE  Remembers
  <2>1. ~LosePower
    BY <1>1 DEF LosePower, PowerInv, Counted
  <2>2. [Next]_vars
    BY <1>1, <2>1 DEF PowerNext, Commit, Checkpoint
  <2>3. CASE UNCHANGED vars
    BY <2>3 DEF vars, storeVars, Remembers
  <2>4. CASE Quiet \/ \E w \in Workers : Wins(w) \/ Reaches(w)
    BY <2>4 DEF Quiet, Wins, Reaches, Remembers
  <2>5. ASSUME NEW w \in Workers, Records(w)
        PROVE  Remembers
    <3>1. /\ result' = [result EXCEPT ![request[w].key] = OutcomeOf(answer[w])]
          /\ claimed' = claimed /\ result[request[w].key] = NoResult
      BY <1>1, <2>5 DEF Records, PowerInv, Held
    <3>2. result \in [Keys -> Outcome]
      BY <1>1 DEF PowerInv, Typed, TypeOK
    <3> QED
      BY <3>1, <3>2 DEF Remembers
  <2> QED
    BY <1>1, <2>2, <2>3, <2>4, <2>5, StepKinds DEF PowerInv
<1>2. PowerInv /\ [PowerNext]_powerVars => [losses' = losses => Remembers]_powerVars
  BY <1>1
<1> QED
  BY <1>2, PowerInvariance, PTL DEF PowerSpec, ForgetsOnlyByPowerLoss

(* A machine that never loses power runs MoneyPath, whose theorems then all *)
(* hold: nothing but the loss itself sets this module apart.                *)
THEOREM NoLossNoDifference ==
  ASSUME MaxLosses = 0
  PROVE  PowerSpec => Spec
<1>1. PowerInit => Init
  BY DEF PowerInit
<1>2. PowerInv /\ [PowerNext]_powerVars => [Next]_vars
  <2>1. PowerInv => losses \in Nat
    BY DEF PowerInv, Counted
  <2>2. PowerInv => ~LosePower
    BY <2>1 DEF LosePower
  <2> QED
    BY <2>2 DEF PowerNext, Commit, Checkpoint, powerVars
<1> QED
  BY <1>1, <1>2, PowerInvariance, PTL DEF PowerSpec, Spec

===============================================================================
