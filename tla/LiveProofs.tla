------------------------------ MODULE LiveProofs ------------------------------
(***************************************************************************)
(* Theorems about Live, for any operators, endpoints, payments and faults.  *)
(*                                                                          *)
(* That artefacts are backed rests on Backed: whatever a command has        *)
(* returned with has a line in the transcript already.  That the transcript *)
(* accounts for the sandbox rests on OneEach, by which a call explains at   *)
(* most one object, on Apart, by which no answer is recorded twice, and on  *)
(* counting what every fault can hide.                                      *)
(***************************************************************************)
EXTENDS Live, TLAPS, FiniteSetTheorems

(* A call is on its way only for a command that has not ended, and it is    *)
(* the next one of that command's programme.                                *)
InFlight ==
  \A p \in Operators : answer[p] # NoAnswer =>
    /\ Len(results[p]) < Len(Programme[doing[p]])
    /\ answer[p].path = Programme[doing[p]][Len(results[p]) + 1]

(* No listing shows more payments than there are.                           *)
Listed ==
  /\ \A p \in Operators : /\ answer[p].listed <= Len(payments)
                          /\ \A i \in DOMAIN results[p] : results[p][i].listed <= Len(payments)
  /\ \A l \in Recorded : l.answer.listed <= Len(payments)

Typed == TypeOK /\ InFlight /\ Listed

Returned == {a \in Answer : a.status # "lost"}

LEMMA Types ==
  ASSUME Typed
  PROVE  /\ \A p \in Operators :
              /\ answer[p] \in Answer /\ results[p] \in Seq(Returned) /\ doing[p] \in Commands
              /\ Len(results[p]) \in Nat /\ Len(results[p]) <= Len(Programme[doing[p]])
              /\ \A i \in 1 .. Len(results[p]) : results[p][i] \in Answer
         /\ transcript \subseteq Line /\ gone \subseteq Line /\ ragged \in BOOLEAN
         /\ objects \subseteq Object /\ payments \in Seq(Payment) /\ Len(payments) \in Nat
         /\ issued \in Nat /\ faults \in Nat /\ outages \in Nat
<1>1. \A p \in Operators : results[p] \in Seq(Returned)
  BY DEF Typed, TypeOK, Returned
<1>2. \A p \in Operators : \A i \in 1 .. Len(results[p]) : results[p][i] \in Returned
  BY <1>1
<1>3. \A p \in Operators : Len(results[p]) \in Nat
  BY <1>1
<1>4. QED
  BY <1>1, <1>2, <1>3 DEF Typed, TypeOK, Returned

LEMMA Programmes ==
  /\ Commands = {"probe", "seed", "reconcile", "none"}
  /\ Programme["probe"] = PROBE_PATHS /\ Programme["seed"] = SeedPaths
  /\ Programme["reconcile"] = <<"/payments">> /\ Programme["none"] = <<>>
  /\ \A c \in Commands : Len(Programme[c]) \in Nat
  /\ \A c \in Commands : c # "none" => Len(Programme[c]) > 0
  /\ \A c \in Commands : \A i \in 1 .. Len(Programme[c]) : Programme[c][i] \in Paths
  /\ Len(SeedPaths) = 3 /\ Len(<<"/payments">>) = 1
<1>1. Commands = {"probe", "seed", "reconcile", "none"}
  BY DEF Commands, Programme
<1>2. /\ Programme["probe"] = PROBE_PATHS /\ Programme["seed"] = SeedPaths
      /\ Programme["reconcile"] = <<"/payments">> /\ Programme["none"] = <<>>
  BY DEF Programme
<1>3. Len(SeedPaths) = 3
  BY DEF SeedPaths
<1>4. Len(<<"/payments">>) = 1 /\ <<"/payments">>[1] = "/payments"
  OBVIOUS
<1>5. Len(PROBE_PATHS) > 0 /\ Len(PROBE_PATHS) \in Nat
  BY PathsAssumption
<1>6. \A c \in Commands : \A i \in 1 .. Len(Programme[c]) : Programme[c][i] \in Paths
  <2> SUFFICES ASSUME NEW c \in Commands, NEW i \in 1 .. Len(Programme[c])
               PROVE  Programme[c][i] \in Paths
    OBVIOUS
  <2>1. CASE c = "probe"
    BY <2>1, <1>2 DEF Paths
  <2>2. CASE c = "seed"
    BY <2>2, <1>2, <1>3 DEF Paths
  <2>3. CASE c = "reconcile"
    <3>1. i = 1
      BY <2>3, <1>2, <1>4
    <3>2. QED
      BY <3>1, <2>3, <1>2, <1>4 DEF Paths
  <2>4. CASE c = "none"
    BY <2>4, <1>2
  <2>5. QED
    BY <1>1, <2>1, <2>2, <2>3, <2>4
<1>7. \A c \in Commands : Len(Programme[c]) \in Nat /\ (c # "none" => Len(Programme[c]) > 0)
  <2>1. Len(<<>>) = 0
    OBVIOUS
  <2>2. \A c \in Commands : Len(Programme[c]) = (CASE c = "probe" -> Len(PROBE_PATHS)
          [] c = "seed" -> 3 [] c = "reconcile" -> 1 [] c = "none" -> 0)
    BY <1>1, <1>2, <1>3, <1>4, <2>1
  <2>3. QED
    BY <1>1, <1>5, <2>2
<1>8. QED
  BY <1>1, <1>2, <1>3, <1>4, <1>6, <1>7

LEMMA NoAnswerTyped == NoAnswer \in Answer /\ NoAnswer.call = 0 /\ NoAnswer.object = NoObject
                       /\ NoAnswer.listed = 0
<1>1. "" \in Paths /\ "lost" \in Status
  BY DEF Status, Paths
<1>2. QED
  BY <1>1 DEF NoAnswer, Answer

LEMMA InitTyped == Init => Typed
<1> SUFFICES ASSUME Init PROVE Typed
  OBVIOUS
<1>1. "none" \in Commands /\ Len(Programme["none"]) = 0
  BY Programmes
<1>2. seeded \in File(Ids) /\ reconciliation \in File(Report)
  BY DEF Init, File, Ids, NoIds, Report, NoReport
<1>3. results \in [Operators -> Seq({a \in Answer : a.status # "lost"})]
  BY DEF Init
<1>4. /\ payments \in Seq(Payment) /\ objects \subseteq Object
      /\ transcript \subseteq Line /\ gone \subseteq Line /\ writing \subseteq Operators
  BY DEF Init
<1>5. \A p \in Operators : doing[p] = "none" /\ results[p] = <<>> /\ answer[p] = NoAnswer
  BY DEF Init
<1>6. doing \in [Operators -> Commands] /\ answer \in [Operators -> Answer]
  BY <1>1, NoAnswerTyped DEF Init
<1>7. \A p \in Operators : Len(results[p]) <= Len(Programme[doing[p]])
  BY <1>1, <1>5
<1>8. ragged \in BOOLEAN /\ issued \in Nat /\ faults \in Nat /\ outages \in Nat
  BY DEF Init
<1>10. Listed
  BY <1>5, NoAnswerTyped DEF Init, Listed, Recorded
<1>9. QED
  BY <1>2, <1>3, <1>4, <1>5, <1>6, <1>7, <1>8, <1>10 DEF Typed, TypeOK, InFlight

(* What a request does, without its alternatives.                           *)
Answered(path, status, o) ==
  [call |-> issued + 1, path |-> path, status |-> status, object |-> o,
   listed |-> IF path = "/payments" THEN Len(payments) ELSE 0]

Made_by(p, path, status, made, o) ==
  /\ \/ made = {}
     \/ status # "refused" /\ made = {[path |-> path, call |-> issued + 1]}
     \/ made \subseteq objects
  /\ o \in made \cup {NoObject}
  /\ objects' = objects \cup made
  /\ answer' = [answer EXCEPT ![p] = Answered(path, status, o)]

LEMMA RequestShape ==
  ASSUME NEW p \in Operators, NEW command, NEW path, NEW status \in Status,
         Request(p, command, path, status)
  PROVE  \E made, o : Made_by(p, path, status, made, o)
<1>1. PICK acts \in Acts(status) :
        LET made == IF Posts(command) /\ acts THEN Made(path) ELSE {}
        IN /\ objects' = objects \cup made
           /\ \E o \in IF status = "ok" /\ made # {} THEN made ELSE {NoObject} :
                answer' = [answer EXCEPT ![p] = Answered(path, status, o)]
  BY DEF Request, Answered
<1> DEFINE made == IF Posts(command) /\ acts THEN Made(path) ELSE {}
<1>2. PICK o \in IF status = "ok" /\ made # {} THEN made ELSE {NoObject} :
        answer' = [answer EXCEPT ![p] = Answered(path, status, o)]
  BY <1>1
<1>3. o \in made \cup {NoObject}
  BY <1>2
<1>4. status = "refused" => made = {}
  BY <1>1 DEF Acts
<1>5. \/ made = {} \/ made = {[path |-> path, call |-> issued + 1]}
      \/ made \subseteq objects
  BY DEF Made, Existing
<1>8. objects' = objects \cup made
  BY <1>1
<1> HIDE DEF made
<1>7. Made_by(p, path, status, made, o)
  BY <1>2, <1>3, <1>4, <1>5, <1>8 DEF Made_by
<1>9. QED
  BY <1>7

LEMMA RequestTyped ==
  ASSUME Typed, NEW p \in Operators, NEW command \in Commands, NEW path \in Paths,
         NEW status \in Status, Request(p, command, path, status),
         Len(results[p]) < Len(Programme[command]),
         path = Programme[command][Len(results[p]) + 1]
  PROVE  Typed'
<1>1. PICK made, o : Made_by(p, path, status, made, o)
  BY RequestShape
<1>2. issued \in Nat /\ Len(payments) \in Nat
  BY DEF Typed, TypeOK
<1>3. [path |-> path, call |-> issued + 1] \in Object
  BY <1>2 DEF Object
<1>4. made \subseteq Object
  BY <1>1, <1>3 DEF Typed, TypeOK, Made_by
<1>5. Answered(path, status, o) \in Answer
  BY <1>1, <1>2, <1>4 DEF Answered, Answer, Made_by
<1>6. /\ issued' \in Nat /\ objects' \subseteq Object
      /\ doing' = [doing EXCEPT ![p] = command]
      /\ UNCHANGED <<payments, results, writing, transcript, ragged, gone, seeded,
                     reconciliation, faults, outages>>
  BY <1>1, <1>2, <1>4 DEF Request, log, artefacts, losses, Typed, TypeOK, Made_by
<1>7. answer' \in [Operators -> Answer] /\ doing' \in [Operators -> Commands]
  BY <1>1, <1>5, <1>6 DEF Typed, TypeOK, Made_by
<1>8. \A q \in Operators : Len(results'[q]) <= Len(Programme[doing'[q]])
  <2> SUFFICES ASSUME NEW q \in Operators PROVE Len(results'[q]) <= Len(Programme[doing'[q]])
    OBVIOUS
  <2>1. /\ results'[q] = results[q] /\ Len(results[q]) \in Nat
        /\ Len(results[q]) <= Len(Programme[doing[q]])
    BY <1>6 DEF Typed, TypeOK
  <2>2. doing'[q] = IF q = p THEN command ELSE doing[q]
    BY <1>6 DEF Typed, TypeOK
  <2>3. Len(Programme[command]) \in Nat
    BY Programmes
  <2>4. QED
    BY <2>1, <2>2, <2>3
<1>9. TypeOK'
  BY <1>6, <1>7, <1>8 DEF Typed, TypeOK
<1>10. InFlight'
  <2> SUFFICES ASSUME NEW q \in Operators, answer'[q] # NoAnswer
               PROVE  /\ Len(results'[q]) < Len(Programme[doing'[q]])
                      /\ answer'[q].path = Programme[doing'[q]][Len(results'[q]) + 1]
    BY DEF InFlight
  <2>1. CASE q = p
    <3>1. /\ answer'[q] = Answered(path, status, o)
          /\ doing'[q] = command /\ results'[q] = results[p]
      BY <2>1, <1>1, <1>6 DEF Typed, TypeOK, Made_by
    <3>2. QED
      BY <3>1 DEF Answered
  <2>2. CASE q # p
    <3>1. answer'[q] = answer[q] /\ doing'[q] = doing[q] /\ results'[q] = results[q]
      BY <2>2, <1>1, <1>6 DEF Typed, TypeOK, Made_by
    <3>2. QED
      BY <3>1 DEF Typed, InFlight
  <2>3. QED
    BY <2>1, <2>2
<1>11. Answered(path, status, o).listed <= Len(payments)
  BY <1>2 DEF Answered
<1>12. Listed'
  <2> SUFFICES ASSUME NEW q \in Operators
               PROVE  answer'[q].listed <= Len(payments)
    BY <1>6 DEF Typed, Listed, Recorded
  <2>1. answer'[q] = IF q = p THEN Answered(path, status, o) ELSE answer[q]
    BY <1>1 DEF Made_by, Typed, TypeOK
  <2>2. QED
    BY <2>1, <1>11 DEF Typed, Listed
<1>13. QED
  BY <1>9, <1>10, <1>12 DEF Typed

(* A command that ends, as it should or not.                                *)
LEMMA ExitTyped ==
  ASSUME Typed, NEW p \in Operators, Exit(p), UNCHANGED <<sandbox, gone, outages>>,
         transcript' \subseteq Line, ragged' \in BOOLEAN,
         \A l \in transcript' : l.answer.listed <= Len(payments),
         seeded' \in File(Ids), reconciliation' \in File(Report), faults' \in Nat
  PROVE  Typed'
<1>1. /\ doing' = [doing EXCEPT ![p] = "none"] /\ results' = [results EXCEPT ![p] = <<>>]
      /\ answer' = [answer EXCEPT ![p] = NoAnswer]
      /\ UNCHANGED <<objects, payments, issued, gone, outages>> /\ writing' \subseteq writing
  BY DEF Exit, sandbox
<1>2. /\ doing' \in [Operators -> Commands] /\ answer' \in [Operators -> Answer]
      /\ results' \in [Operators -> Seq({a \in Answer : a.status # "lost"})]
  BY <1>1, Programmes, NoAnswerTyped DEF Typed, TypeOK
<1>3. \A q \in Operators :
        \/ /\ doing'[q] = "none" /\ results'[q] = <<>> /\ answer'[q] = NoAnswer
        \/ UNCHANGED <<doing[q], results[q], answer[q]>>
  BY <1>1 DEF Typed, TypeOK
<1>4. \A q \in Operators : Len(results'[q]) <= Len(Programme[doing'[q]])
  BY <1>3, Programmes DEF Typed, TypeOK
<1>5. InFlight'
  BY <1>3 DEF Typed, InFlight
<1>6. Listed'
  <2>1. \A l \in Recorded' : l.answer.listed <= Len(payments)
    BY <1>1 DEF Typed, Listed, Recorded
  <2>2. QED
    BY <1>1, <1>3, <2>1, Types, NoAnswerTyped DEF Typed, Listed
<1>7. QED
  BY <1>1, <1>2, <1>4, <1>5, <1>6 DEF Typed, TypeOK

LEMMA ReportTyped ==
  ASSUME Typed, NEW a \in Answer, a.listed <= Len(payments)
  PROVE  ReportOn(a) \in Report
<1> DEFINE S == IF a.status = "ok" THEN Observations(a.listed) ELSE {}
<1>1. S \subseteq Nat /\ S \subseteq 1 .. Len(payments)
  BY Types DEF Observations, Answer
<1>2. \A i \in S : payments[i].envelope \in Envelopes
  BY <1>1, Types, EnvelopesAssumption
<1>3. ReportOn(a) = reconcile(S)
  BY DEF ReportOn
<1> HIDE DEF S
<1>4. reconcile(S) \in Report
  BY <1>1, <1>2, EnvelopesAssumption DEF reconcile, Report
<1>5. QED
  BY <1>3, <1>4

LEMMA CountableOperators ==
  /\ IsFiniteSet(Running) /\ Cardinality(Running) \in Nat
  /\ InHands \subseteq Operators /\ Running \subseteq Operators
<1>1. Running \subseteq Operators /\ InHands \subseteq Operators
  BY DEF Running, InHands
<1>2. QED
  BY <1>1, OperatorsAssumption, FS_Subset, FS_CardinalityType

LEMMA PowerFailsTyped == Typed /\ PowerFails => Typed'
<1> SUFFICES ASSUME Typed, PowerFails PROVE Typed'
  OBVIOUS
<1>1. \A q \in Operators : doing'[q] = "none" /\ results'[q] = <<>> /\ answer'[q] = NoAnswer
  BY DEF PowerFails
<1>2. /\ doing' \in [Operators -> Commands] /\ answer' \in [Operators -> Answer]
      /\ results' \in [Operators -> Seq({a \in Answer : a.status # "lost"})]
  BY Programmes, NoAnswerTyped DEF PowerFails
<1>3. \A q \in Operators : Len(results'[q]) <= Len(Programme[doing'[q]])
  BY <1>1, Programmes
<1>4. seeded' \in File(Ids) /\ reconciliation' \in File(Report)
  BY DEF PowerFails, Survives, File, Ids, NoIds, Report, NoReport, Typed, TypeOK
<1>5. /\ transcript' \subseteq Line /\ gone' \subseteq Line /\ ragged' \in BOOLEAN
      /\ writing' \subseteq Operators /\ Recorded' \subseteq Recorded
  BY DEF PowerFails, Recorded, Typed, TypeOK
<1>6. /\ faults' \in Nat /\ outages' \in Nat
      /\ UNCHANGED <<objects, payments, issued>>
  BY CountableOperators DEF PowerFails, sandbox, Typed, TypeOK
<1>7. InFlight'
  BY <1>1 DEF InFlight
<1>8. Listed'
  BY <1>1, <1>5, <1>6, Types, NoAnswerTyped DEF Typed, Listed
<1>9. QED
  BY <1>2, <1>3, <1>4, <1>5, <1>6, <1>7, <1>8 DEF Typed, TypeOK

LEMMA NextTyped == Typed /\ [Next]_liveVars => Typed'
<1> SUFFICES ASSUME Typed, [Next]_liveVars PROVE Typed'
  OBVIOUS
<1>1. CASE UNCHANGED liveVars
  BY <1>1 DEF liveVars, Typed, TypeOK, InFlight, Listed, Recorded
<1>2. ASSUME NEW payment \in Payment, Pay(payment)
      PROVE  Typed'
  <2>1. payments' \in Seq(Payment)
    BY <1>2 DEF Pay, Typed, TypeOK
  <2>2. QED
    <3>1. Len(payments') = Len(payments) + 1
      BY <1>2, Types DEF Pay
    <3>2. Listed'
      <4>1. UNCHANGED <<answer, results, transcript, gone>>
        BY <1>2 DEF Pay, log
      <4>2. /\ \A p \in Operators : answer[p].listed \in Nat /\ answer[p].listed <= Len(payments)
            /\ \A p \in Operators : \A i \in DOMAIN results[p] :
                 results[p][i].listed \in Nat /\ results[p][i].listed <= Len(payments)
            /\ \A l \in Recorded : l.answer.listed \in Nat /\ l.answer.listed <= Len(payments)
        BY Types DEF Typed, Listed, Answer, Line, Recorded
      <4>3. QED
        BY <4>1, <4>2, <3>1, Types DEF Listed, Recorded
    <3>3. QED
      BY <1>2, <2>1, <3>2 DEF Pay, log, artefacts, losses, Typed, TypeOK, InFlight
<1>3. ASSUME NEW p \in Operators, Step(p)
      PROVE  Typed'
  <2> USE <1>3
  <2>1. ASSUME NEW status \in Status, NEW command \in Commands, Begin(p, command, status)
        PROVE  Typed'
    <3>1. doing[p] = "none" /\ command # "none"
      BY <2>1 DEF Begin
    <3>2. Len(results[p]) \in Nat /\ Len(results[p]) <= Len(Programme["none"])
      BY <3>1 DEF Typed, TypeOK
    <3>3. Len(results[p]) = 0
      BY <3>2, Programmes
    <3>4. Request(p, command, Programme[command][1], status)
      BY <2>1 DEF Begin
    <3>5. Programme[command][1] \in Paths /\ Len(results[p]) < Len(Programme[command])
      BY <3>1, <3>3, Programmes
    <3>6. QED
      BY <3>3, <3>4, <3>5, RequestTyped
  <2>2. ASSUME NEW status \in Status, Call(p, status)
        PROVE  Typed'
    <3>1. /\ doing[p] \in Commands /\ Len(results[p]) \in Nat
          /\ Len(results[p]) <= Len(Programme[doing[p]])
      BY DEF Typed, TypeOK
    <3>2. Len(results[p]) # Len(Programme[doing[p]])
      BY <2>2 DEF Call, Done
    <3>3. Len(results[p]) + 1 \in 1 .. Len(Programme[doing[p]])
      BY <3>1, <3>2, Programmes
    <3>4. QED
      BY <2>2, <3>1, <3>3, Programmes, RequestTyped DEF Call
  <2>3. CASE Record(p)
    <3>1. answer[p] # NoAnswer /\ answer[p] \in Answer /\ doing[p] \in Commands
      BY <2>3, Types DEF Record
    <3>2. /\ transcript' \subseteq Line /\ ragged' \in BOOLEAN
          /\ \A l \in transcript' : l.answer.listed <= Len(payments)
      <4>1. [answer |-> answer[p], whole |-> ~ragged] \in Line
        BY <3>1, Types DEF Line
      <4>2. answer[p].listed <= Len(payments)
        BY DEF Typed, Listed
      <4>3. /\ transcript' = transcript \cup {[answer |-> answer[p], whole |-> ~ragged]}
            /\ ragged' \in BOOLEAN
        BY <2>3 DEF Record, AppendLine
      <4>4. \A l \in transcript : l.answer.listed <= Len(payments)
        BY DEF Typed, Listed, Recorded
      <4>5. transcript' \subseteq Line
        BY <4>1, <4>3, Types
      <4>6. \A l \in transcript' : l.answer.listed <= Len(payments)
        BY <4>2, <4>3, <4>4
      <4>7. QED
        BY <4>3, <4>5, <4>6
    <3>3. UNCHANGED <<objects, payments, issued, gone, seeded, reconciliation, faults, outages>>
      BY <2>3 DEF Record, AppendLine, sandbox, artefacts, losses
    <3>4. CASE answer[p].status = "lost"
      <4>1. Exit(p)
        BY <2>3, <3>4 DEF Record
      <4>2. QED
        BY <4>1, <3>2, <3>3, ExitTyped DEF sandbox, Typed, TypeOK
    <3>5. CASE answer[p].status # "lost"
      <4>1. /\ results' = [results EXCEPT ![p] = Append(results[p], answer[p])]
            /\ answer' = [answer EXCEPT ![p] = NoAnswer] /\ UNCHANGED <<doing, writing>>
        BY <2>3, <3>5 DEF Record, Return
      <4>2. /\ results[p] \in Seq({a \in Answer : a.status # "lost"})
            /\ Len(results[p]) < Len(Programme[doing[p]])
        BY <3>1 DEF Typed, TypeOK, InFlight
      <4>3. /\ Append(results[p], answer[p]) \in Seq({a \in Answer : a.status # "lost"})
            /\ Len(Append(results[p], answer[p])) <= Len(Programme[doing[p]])
        BY <4>2, <3>1, <3>5, Programmes
      <4>4. /\ results' \in [Operators -> Seq({a \in Answer : a.status # "lost"})]
            /\ answer' \in [Operators -> Answer]
        BY <4>1, <4>3, NoAnswerTyped DEF Typed, TypeOK
      <4>5. \A q \in Operators :
              \/ q = p /\ results'[q] = Append(results[p], answer[p]) /\ answer'[q] = NoAnswer
              \/ results'[q] = results[q] /\ answer'[q] = answer[q]
        BY <4>1 DEF Typed, TypeOK
      <4>6. \A q \in Operators : Len(results'[q]) <= Len(Programme[doing'[q]])
        BY <4>1, <4>3, <4>5 DEF Typed, TypeOK
      <4>7. InFlight'
        BY <4>1, <4>5 DEF Typed, InFlight
      <4>8. Listed'
        <5> SUFFICES ASSUME NEW q \in Operators
                     PROVE  /\ answer'[q].listed <= Len(payments)
                            /\ \A i \in DOMAIN results'[q] : results'[q][i].listed <= Len(payments)
          BY <3>2, <3>3 DEF Typed, Listed, Recorded
        <5>1. CASE /\ q = p /\ results'[q] = Append(results[p], answer[p])
                   /\ answer'[q] = NoAnswer
          <6>1. /\ DOMAIN results'[q] = 1 .. Len(results[p]) + 1
                /\ \A i \in 1 .. Len(results[p]) : results'[q][i] = results[p][i]
                /\ results'[q][Len(results[p]) + 1] = answer[p]
            BY <5>1, <4>2
          <6>2. \A i \in 1 .. Len(results[p]) : results[p][i].listed <= Len(payments)
            BY <4>2 DEF Typed, Listed
          <6>3. answer[p].listed <= Len(payments) /\ 0 <= Len(payments)
            BY Types DEF Typed, Listed
          <6>4. \A i \in 1 .. Len(results[p]) + 1 :
                  i \in 1 .. Len(results[p]) \/ i = Len(results[p]) + 1
            BY Types
          <6>5. QED
            BY <6>1, <6>2, <6>3, <6>4, <5>1, NoAnswerTyped
        <5>2. CASE results'[q] = results[q] /\ answer'[q] = answer[q]
          BY <5>2 DEF Typed, Listed
        <5>3. QED
          BY <4>5, <5>1, <5>2
      <4>9. QED
        BY <3>2, <3>3, <4>1, <4>4, <4>6, <4>7, <4>8 DEF Typed, TypeOK
    <3>6. QED
      BY <3>4, <3>5
  <2>4. CASE EndProbe(p)
    BY <2>4, ExitTyped DEF EndProbe, log, artefacts, losses, Typed, TypeOK, Listed, Recorded
  <2>5. CASE WriteSeeded(p)
    <3>1. Len(results[p]) = 3
      BY <2>5, Programmes DEF WriteSeeded, Done
    <3>2. \A i \in 1 .. 3 : results[p][i].object \in Object \cup {NoObject}
      <4>1. \A i \in 1 .. 3 : results[p][i] \in Answer
        BY <3>1, Types
      <4>2. QED
        BY <4>1 DEF Answer
    <3>3. seeded' \in File(Ids)
      BY <2>5, <3>2 DEF WriteSeeded, File, Ids, NoIds
    <3>4. QED
      BY <2>5, <3>3, ExitTyped DEF WriteSeeded, log, losses, Typed, TypeOK, Listed, Recorded
  <2>6. CASE WriteReport(p)
    <3>1. Len(results[p]) = 1
      BY <2>6, Programmes DEF WriteReport, Done
    <3>2. results[p][1] \in Answer /\ results[p][1].listed <= Len(payments)
      BY <3>1, Types DEF Typed, Listed
    <3>3. ReportOn(results[p][1]) \in Report
      BY <3>2, ReportTyped
    <3>4. reconciliation' \in File(Report)
      BY <2>6, <3>3 DEF WriteReport, File, Report, NoReport
    <3>5. QED
      BY <2>6, <3>4, ExitTyped DEF WriteReport, log, losses, Typed, TypeOK, Listed, Recorded
  <2>7. CASE Die(p)
    BY <2>7, ExitTyped DEF Die, Fault, log, artefacts, Typed, TypeOK, Listed, Recorded
  <2>8. CASE TearLine(p)
    <3>1. /\ transcript' \subseteq Line /\ ragged' \in BOOLEAN
          /\ \A l \in transcript' : l.answer.listed <= Len(payments)
      <4>1. [answer |-> answer[p], whole |-> FALSE] \in Line
        BY Types DEF Line
      <4>2. answer[p].listed <= Len(payments)
        BY DEF Typed, Listed
      <4>3. /\ transcript' = transcript \cup {[answer |-> answer[p], whole |-> FALSE]}
            /\ ragged' \in BOOLEAN
        BY <2>8 DEF TearLine
      <4>4. \A l \in transcript : l.answer.listed <= Len(payments)
        BY DEF Typed, Listed, Recorded
      <4>5. transcript' \subseteq Line
        BY <4>1, <4>3, Types
      <4>6. \A l \in transcript' : l.answer.listed <= Len(payments)
        BY <4>2, <4>3, <4>4
      <4>7. QED
        BY <4>3, <4>5, <4>6
    <3>2. QED
      BY <2>8, <3>1, ExitTyped DEF TearLine, Fault, artefacts, Typed, TypeOK
  <2>9. CASE TearArtefact(p)
    <3>1. seeded' \in File(Ids) /\ reconciliation' \in File(Report)
      BY <2>9 DEF TearArtefact, File, Ids, NoIds, Report, NoReport, Typed, TypeOK
    <3>2. QED
      BY <2>9, <3>1, ExitTyped DEF TearArtefact, Fault, log, Typed, TypeOK, Listed, Recorded
  <2>10. CASE Truncate(p)
    <3>1. seeded' \in File(Ids) /\ reconciliation' \in File(Report)
      BY <2>10 DEF Truncate, File, Ids, NoIds, Report, NoReport, Typed, TypeOK
    <3>2. /\ UNCHANGED <<objects, payments, issued, doing, results, answer, transcript, ragged,
                         gone, faults, outages>>
          /\ writing' \subseteq Operators
      BY <2>10 DEF Truncate, sandbox, log, losses, Typed, TypeOK
    <3>3. QED
      BY <3>1, <3>2 DEF Typed, TypeOK, InFlight, Listed, Recorded
  <2>11. QED
    BY <2>1, <2>2, <2>3, <2>4, <2>5, <2>6, <2>7, <2>8, <2>9, <2>10 DEF Step
<1>4. CASE PowerFails
  BY <1>4, PowerFailsTyped
<1>5. QED
  BY <1>1, <1>2, <1>3, <1>4 DEF Next

(* Every variable of the live slice keeps its type, and a call whose answer *)
(* was lost never counts as answered (RazorpayLiveClient._call).            *)
THEOREM LiveTypeCorrect == Spec => []TypeOK
<1>1. Typed => TypeOK
  BY DEF Typed
<1>2. QED
  BY <1>1, InitTyped, NextTyped, PTL DEF Spec

-------------------------------------------------------------------------------
(* Artefacts.                                                               *)

(* What a command has returned with has been recorded, in order.            *)
Backed ==
  \A p \in Operators : \A i \in 1 .. Len(results[p]) :
    /\ results[p][i].path = Programme[doing[p]][i]
    /\ \E l \in Recorded : l.answer = results[p][i]

LEMMA SeededKept ==
  ASSUME SeededIsBacked, UNCHANGED seeded \/ seeded'.text # "written",
         Recorded \subseteq Recorded'
  PROVE  SeededIsBacked'
<1> SUFFICES ASSUME UNCHANGED seeded, seeded.text = "written", NEW i \in 1 .. 3
             PROVE  \E l \in Recorded' :
                      l.answer.path = SeedPaths[i] /\ l.answer.object = seeded.says[i]
  BY DEF SeededIsBacked
<1>1. PICK l \in Recorded : l.answer.path = SeedPaths[i] /\ l.answer.object = seeded.says[i]
  BY DEF SeededIsBacked
<1>2. QED
  BY <1>1

LEMMA ReportKept ==
  ASSUME Typed, ReportIsBacked, UNCHANGED reconciliation \/ reconciliation'.text # "written",
         Recorded \subseteq Recorded',
         \/ UNCHANGED payments
         \/ \E payment \in Payment : payments' = Append(payments, payment)
  PROVE  ReportIsBacked'
<1> SUFFICES ASSUME UNCHANGED reconciliation, reconciliation.text = "written"
             PROVE  \E l \in Recorded' :
               /\ l.answer.path = "/payments"
               /\ reconciliation.says.observed \subseteq Shown(l.answer)'
               /\ \A i \in Shown(l.answer)' : payments'[i].status = "failed" =>
                    /\ i \in reconciliation.says.observed
                    /\ clean(reconciliation.says) => payments'[i].envelope \in DECLINE_CODES
  BY DEF ReportIsBacked
<1>1. PICK l \in Recorded :
        /\ l.answer.path = "/payments"
        /\ reconciliation.says.observed \subseteq Shown(l.answer)
        /\ \A i \in Shown(l.answer) : payments[i].status = "failed" =>
             /\ i \in reconciliation.says.observed
             /\ clean(reconciliation.says) => payments[i].envelope \in DECLINE_CODES
  BY DEF ReportIsBacked
<1>2. l.answer.listed \in Nat /\ l.answer.listed <= Len(payments)
  BY Types DEF Typed, Listed, Line, Answer, Recorded
<1>3. Shown(l.answer)' = Shown(l.answer) /\ \A i \in Shown(l.answer) : payments'[i] = payments[i]
  <2>1. CASE UNCHANGED payments
    BY <2>1 DEF Shown
  <2>2. ASSUME NEW payment \in Payment, payments' = Append(payments, payment)
        PROVE  Shown(l.answer)' = Shown(l.answer) /\ \A i \in Shown(l.answer) : payments'[i] = payments[i]
    <3>1. /\ DOMAIN payments' = 1 .. Len(payments) + 1
          /\ DOMAIN payments = 1 .. Len(payments)
          /\ \A i \in 1 .. Len(payments) : payments'[i] = payments[i]
      BY <2>2, Types
    <3>2. \A i \in 1 .. Len(payments) + 1 : i <= l.answer.listed => i \in 1 .. Len(payments)
      BY <1>2, Types
    <3>3. \A i \in 1 .. Len(payments) : i \in 1 .. Len(payments) + 1
      BY Types
    <3>4. QED
      BY <3>1, <3>2, <3>3 DEF Shown
  <2>3. QED
    BY <2>1, <2>2
<1>4. QED
  BY <1>1, <1>3

(* The report of an answer is of what that answer showed.                   *)
LEMMA ReportOnShown ==
  ASSUME Typed, NEW a \in Answer, a.listed <= Len(payments)
  PROVE  /\ ReportOn(a).observed \subseteq Shown(a)
         /\ \A i \in Shown(a) : payments[i].status = "failed" =>
              /\ i \in ReportOn(a).observed
              /\ clean(ReportOn(a)) => payments[i].envelope \in DECLINE_CODES
<1> DEFINE S == IF a.status = "ok" THEN Observations(a.listed) ELSE {}
<1>1. /\ S \subseteq Shown(a)
      /\ \A i \in Shown(a) : payments[i].status = "failed" => i \in S
  <2>1. a.listed \in Nat /\ Page \in Nat /\ DOMAIN payments = 1 .. Len(payments)
    BY Types, LiveBounds DEF Answer
  <2>2. QED
    BY <2>1, Types DEF Observations, Shown
<1>2. ReportOn(a) = reconcile(S)
  BY DEF ReportOn
<1> HIDE DEF S
<1>3. reconcile(S).observed = S /\ (clean(reconcile(S)) => \A i \in S : payments[i].envelope \in DECLINE_CODES)
  BY DEF reconcile, clean
<1>4. QED
  BY <1>1, <1>2, <1>3

BackInv == Typed /\ Backed /\ ArtefactsAreBacked

LEMMA InitBacked == Init => BackInv
<1> SUFFICES ASSUME Init PROVE BackInv
  OBVIOUS
<1>1. seeded.text = "absent" /\ reconciliation.text = "absent"
  BY DEF Init
<1>2. Backed
  <2>1. \A p \in Operators : Len(results[p]) = 0
    BY DEF Init
  <2>2. QED
    BY <2>1 DEF Backed
<1>3. QED
  BY <1>1, <1>2, InitTyped DEF BackInv, ArtefactsAreBacked, SeededIsBacked, ReportIsBacked

(* Commands that leave nothing behind.                                      *)
LEMMA ExitBacked ==
  ASSUME Typed, Backed, NEW p \in Operators, Exit(p), Recorded \subseteq Recorded'
  PROVE  Backed'
<1>1. \A q \in Operators :
        \/ Len(results'[q]) = 0
        \/ /\ results'[q] = results[q]
           /\ doing'[q] = doing[q]
  BY DEF Exit, Typed, TypeOK
<1>2. QED
  BY <1>1 DEF Backed

LEMMA RequestBacked ==
  ASSUME BackInv, NEW p \in Operators, NEW command, NEW path, NEW status,
         Request(p, command, path, status), command = doing[p] \/ Len(results[p]) = 0
  PROVE  Backed' /\ ArtefactsAreBacked'
<1>1. UNCHANGED <<payments, results, Recorded, seeded, reconciliation>>
  BY DEF Request, log, artefacts, Recorded
<1>2. doing' = [doing EXCEPT ![p] = command]
  BY DEF Request
<1>3. \A q \in Operators : doing'[q] = doing[q] \/ Len(results[q]) = 0
  BY <1>2 DEF BackInv, Typed, TypeOK
<1>4. Backed'
  BY <1>1, <1>3 DEF BackInv, Backed
<1>5. QED
  BY <1>1, <1>4, SeededKept, ReportKept DEF BackInv, ArtefactsAreBacked

LEMMA NextBacked == BackInv /\ [Next]_liveVars => BackInv'
<1> SUFFICES ASSUME BackInv, [Next]_liveVars PROVE Backed' /\ ArtefactsAreBacked'
  BY NextTyped DEF BackInv
<1> USE DEF BackInv
<1>1. CASE UNCHANGED liveVars
  <2>1. UNCHANGED <<payments, doing, results, Recorded, seeded, reconciliation>>
    BY <1>1 DEF liveVars, Recorded
  <2>2. QED
    BY <2>1, SeededKept, ReportKept DEF Backed, ArtefactsAreBacked
<1>2. ASSUME NEW payment \in Payment, Pay(payment)
      PROVE  Backed' /\ ArtefactsAreBacked'
  <2>1. /\ UNCHANGED <<doing, results, Recorded, seeded, reconciliation>>
        /\ payments' = Append(payments, payment)
    BY <1>2 DEF Pay, log, artefacts, Recorded
  <2>2. QED
    BY <2>1, SeededKept, ReportKept DEF Backed, ArtefactsAreBacked
<1>3. ASSUME NEW p \in Operators, Step(p)
      PROVE  Backed' /\ ArtefactsAreBacked'
  <2> USE <1>3
  <2>1. ASSUME NEW status \in Status, NEW command \in Commands, Begin(p, command, status)
        PROVE  Backed' /\ ArtefactsAreBacked'
    <3>1. doing[p] = "none" /\ Request(p, command, Programme[command][1], status)
      BY <2>1 DEF Begin
    <3>2. Len(results[p]) \in Nat /\ Len(results[p]) <= 0
      BY <3>1, Types, Programmes
    <3>3. Len(results[p]) = 0
      BY <3>2
    <3>4. QED
      BY <3>1, <3>3, RequestBacked
  <2>2. ASSUME NEW status \in Status, Call(p, status)
        PROVE  Backed' /\ ArtefactsAreBacked'
    BY <2>2, RequestBacked DEF Call
  <2>3. CASE Record(p)
    <3>1. /\ transcript' = transcript \cup {[answer |-> answer[p], whole |-> ~ragged]}
          /\ UNCHANGED <<payments, gone, seeded, reconciliation>> /\ answer[p] # NoAnswer
      BY <2>3 DEF Record, AppendLine, sandbox, artefacts
    <3>2. Recorded \subseteq Recorded' /\ transcript' \subseteq Recorded'
      BY <3>1 DEF Recorded
    <3>3. ArtefactsAreBacked'
      BY <3>1, <3>2, SeededKept, ReportKept DEF ArtefactsAreBacked
    <3>4. CASE answer[p].status = "lost"
      BY <2>3, <3>2, <3>3, <3>4, ExitBacked DEF Record
    <3>5. CASE answer[p].status # "lost"
      <4>1. results' = [results EXCEPT ![p] = Append(results[p], answer[p])] /\ UNCHANGED doing
        BY <2>3, <3>5 DEF Record, Return
      <4>2. \E l \in Recorded' : l.answer = answer[p]
        <5>1. [answer |-> answer[p], whole |-> ~ragged].answer = answer[p]
          OBVIOUS
        <5>2. [answer |-> answer[p], whole |-> ~ragged] \in transcript'
          BY <3>1
        <5>3. QED
          BY <5>1, <5>2, <3>2
      <4>3. answer[p].path = Programme[doing[p]][Len(results[p]) + 1]
        BY <3>1 DEF Typed, InFlight
      <4>4. Backed'
        <5> SUFFICES ASSUME NEW q \in Operators, NEW i \in 1 .. Len(results'[q])
                     PROVE  /\ results'[q][i].path = Programme[doing[q]][i]
                            /\ \E l \in Recorded' : l.answer = results'[q][i]
          BY <4>1 DEF Backed
        <5>1. CASE q # p
          <6>1. results'[q] = results[q]
            BY <5>1, <4>1 DEF Typed, TypeOK
          <6>2. QED
            BY <6>1, <3>2 DEF Backed
        <5>2. CASE q = p
          <6>1. results'[q] = Append(results[p], answer[p]) /\ results[p] \in Seq(Returned)
            BY <5>2, <4>1, Types DEF Typed, TypeOK
          <6>2. /\ i \in 1 .. Len(results[p]) \/ i = Len(results[p]) + 1
                /\ i \in 1 .. Len(results[p]) => results'[q][i] = results[p][i]
                /\ i = Len(results[p]) + 1 => results'[q][i] = answer[p]
            BY <6>1, Types
          <6>3. QED
            BY <6>2, <5>2, <4>2, <4>3, <3>2 DEF Backed
        <5>3. QED
          BY <5>1, <5>2
      <4>5. QED
        BY <3>3, <4>4
    <3>6. QED
      BY <3>4, <3>5
  <2>4. CASE EndProbe(p)
    <3>1. Exit(p) /\ UNCHANGED <<payments, Recorded, seeded, reconciliation>>
      BY <2>4 DEF EndProbe, sandbox, log, artefacts, Recorded
    <3>2. QED
      BY <3>1, ExitBacked, SeededKept, ReportKept DEF ArtefactsAreBacked
  <2>5. CASE WriteSeeded(p)
    <3>1. /\ Exit(p) /\ UNCHANGED <<payments, Recorded, reconciliation>>
          /\ \/ seeded' = [text |-> "written", says |-> [i \in 1 .. 3 |-> results[p][i].object]]
             \/ seeded'.text = "torn"
          /\ doing[p] = "seed" /\ Len(results[p]) = 3
      BY <2>5, Programmes DEF WriteSeeded, Done, sandbox, log, Recorded
    <3>2. SeededIsBacked'
      <4> SUFFICES ASSUME NEW i \in 1 .. 3
                   PROVE  \E l \in Recorded : /\ l.answer.path = SeedPaths[i]
                                               /\ l.answer.object = results[p][i].object
        BY <3>1 DEF SeededIsBacked
      <4>1. i \in 1 .. Len(results[p])
        BY <3>1
      <4>2. results[p][i].path = SeedPaths[i] /\ \E l \in Recorded : l.answer = results[p][i]
        BY <4>1, <3>1, Programmes DEF Backed
      <4>3. QED
        BY <4>2
    <3>3. QED
      BY <3>1, <3>2, ExitBacked, ReportKept DEF ArtefactsAreBacked
  <2>6. CASE WriteReport(p)
    <3>1. /\ Exit(p) /\ UNCHANGED <<payments, Recorded, seeded>>
          /\ \/ reconciliation' = [text |-> "written", says |-> ReportOn(results[p][1])]
             \/ reconciliation'.text = "torn"
          /\ doing[p] = "reconcile" /\ Len(results[p]) = 1
      BY <2>6, Programmes DEF WriteReport, Done, sandbox, log, Recorded
    <3>2. results[p][1] \in Answer /\ results[p][1].listed <= Len(payments)
      BY <3>1, Types DEF Typed, Listed
    <3>3. PICK l \in Recorded : l.answer = results[p][1] /\ l.answer.path = "/payments"
      <4>1. 1 \in 1 .. Len(results[p])
        BY <3>1
      <4>2. Programme[doing[p]][1] = "/payments"
        BY <3>1, Programmes
      <4>3. QED
        BY <4>1, <4>2 DEF Backed
    <3>4. ReportIsBacked'
      <4> SUFFICES ASSUME reconciliation'.text = "written" PROVE ReportIsBacked'
        BY DEF ReportIsBacked
      <4>1. reconciliation'.says = ReportOn(l.answer) /\ l \in Recorded' /\ payments' = payments
        BY <3>1, <3>3
      <4>2. /\ ReportOn(l.answer).observed \subseteq Shown(l.answer)
            /\ \A i \in Shown(l.answer) : payments[i].status = "failed" =>
                 /\ i \in ReportOn(l.answer).observed
                 /\ clean(ReportOn(l.answer)) => payments[i].envelope \in DECLINE_CODES
        BY <3>2, <3>3, ReportOnShown
      <4>3. Shown(l.answer)' = Shown(l.answer)
        BY <4>1 DEF Shown
      <4>4. QED
        BY <4>1, <4>2, <4>3, <3>3 DEF ReportIsBacked, clean
    <3>5. QED
      BY <3>1, <3>4, ExitBacked, SeededKept DEF ArtefactsAreBacked
  <2>7. CASE Die(p)
    <3>1. Exit(p) /\ UNCHANGED <<payments, Recorded, seeded, reconciliation>>
      BY <2>7 DEF Die, Fault, sandbox, log, artefacts, Recorded
    <3>2. QED
      BY <3>1, ExitBacked, SeededKept, ReportKept DEF ArtefactsAreBacked
  <2>8. CASE TearLine(p)
    <3>1. /\ Exit(p) /\ UNCHANGED <<payments, seeded, reconciliation>>
          /\ Recorded \subseteq Recorded'
      BY <2>8 DEF TearLine, Fault, sandbox, artefacts, Recorded
    <3>2. QED
      BY <3>1, ExitBacked, SeededKept, ReportKept DEF ArtefactsAreBacked
  <2>9. CASE TearArtefact(p)
    <3>1. /\ Exit(p) /\ UNCHANGED <<payments, Recorded>>
          /\ UNCHANGED seeded \/ seeded'.text = "torn"
          /\ UNCHANGED reconciliation \/ reconciliation'.text = "torn"
      BY <2>9 DEF TearArtefact, Fault, sandbox, log, Recorded
    <3>2. QED
      BY <3>1, ExitBacked, SeededKept, ReportKept DEF ArtefactsAreBacked
  <2>10. CASE Truncate(p)
    <3>1. /\ UNCHANGED <<doing, results, payments, Recorded>>
          /\ UNCHANGED seeded \/ seeded'.text = "empty"
          /\ UNCHANGED reconciliation \/ reconciliation'.text = "empty"
      BY <2>10 DEF Truncate, sandbox, log, Recorded
    <3>2. QED
      BY <3>1, SeededKept, ReportKept DEF Backed, ArtefactsAreBacked
  <2>11. QED
    BY <2>1, <2>2, <2>3, <2>4, <2>5, <2>6, <2>7, <2>8, <2>9, <2>10 DEF Step
<1>4. CASE PowerFails
  <2>1. /\ Recorded' = Recorded /\ UNCHANGED payments
        /\ UNCHANGED seeded \/ seeded'.text = "torn"
        /\ UNCHANGED reconciliation \/ reconciliation'.text = "torn"
    BY <1>4 DEF PowerFails, Survives, sandbox, Recorded
  <2>2. \A p \in Operators : Len(results'[p]) = 0
    BY <1>4 DEF PowerFails
  <2>3. QED
    BY <2>1, <2>2, SeededKept, ReportKept DEF Backed, ArtefactsAreBacked
<1>5. QED
  BY <1>1, <1>2, <1>3, <1>4 DEF Next

(* What seeded.json and the reconciliation say has been recorded first, and *)
(* a clean reconciliation clears every failed payment its listing showed    *)
(* (live_seed, live_reconcile).                                             *)
THEOREM RecordedBeforeWritten == Spec => []ArtefactsAreBacked
<1>1. BackInv => ArtefactsAreBacked
  BY DEF BackInv
<1>2. QED
  BY <1>1, InitBacked, NextBacked, PTL DEF Spec

-------------------------------------------------------------------------------
(* The transcript.                                                          *)

(* Objects are known by the calls that made them, and an answer that names  *)
(* an object was not the maker of another.                                  *)
Single(a, made, n) ==
  /\ a.object \in made \cup {NoObject} /\ a.call <= n
  /\ \A o \in made : a.object # NoObject /\ o.call = a.call => o = a.object

OneEach ==
  /\ \A o, q \in objects : o.call = q.call => o = q
  /\ \A o \in objects : o.call \in 1 .. issued
  /\ \A p \in Operators : Single(answer[p], objects, issued)
  /\ \A l \in Recorded : Single(l.answer, objects, issued)

(* An answer that is not recorded yet is one operator's, and no line has it;*)
(* no line comes back.                                                      *)
Apart ==
  /\ \A p \in InHands : \A l \in Recorded : l.answer.call # answer[p].call
  /\ \A p, q \in InHands : answer[p].call = answer[q].call => p = q
  /\ transcript \cap gone = {}

(* A torn line at the end is going to cost one line more.                   *)
Counted ==
  /\ IsFiniteSet(objects) /\ IsFiniteSet(transcript) /\ IsFiniteSet(gone)
  /\ Cardinality(Unaccounted) + (IF ragged THEN 1 ELSE 0) <= 2 * (faults + Cardinality(gone))

CountInv == Typed /\ OneEach /\ Apart /\ Counted

Told(a) == {o \in objects : Explains(a, o)}

(* A recorded object has the number of a call, which no absent one has.     *)
LEMMA ObjectsNumbered ==
  ASSUME CountInv PROVE NoObject.call = 0 /\ \A x \in objects : x.call # 0
<1>1. NoObject.call = 0
  BY DEF NoObject
<1>2. issued \in Nat /\ \A x \in objects : x.call \in 1 .. issued
  BY Types DEF CountInv, OneEach
<1>3. QED
  BY <1>1, <1>2

LEMMA ToldOnce ==
  ASSUME CountInv, NEW a, Single(a, objects, issued), NEW o \in Told(a), NEW q \in Told(a)
  PROVE  o = q
<1>1. o \in objects /\ q \in objects /\ o # NoObject /\ q # NoObject
  <2>1. NoObject.call = 0 /\ \A x \in objects : x.call # 0
    BY ObjectsNumbered
  <2>2. QED
    BY <2>1 DEF Told
<1>2. Explains(a, o) /\ Explains(a, q)
  BY DEF Told
<1>3. QED
  BY <1>1, <1>2 DEF CountInv, OneEach, Single, Explains

LEMMA NoAnswerTellsNothing ==
  ASSUME CountInv PROVE Told(NoAnswer) = {}
<1>1. NoObject.call = 0 /\ \A x \in objects : x.call # 0
  BY ObjectsNumbered
<1>2. QED
  BY <1>1, NoAnswerTyped DEF Told, Explains

LEMMA UnaccountedFinite ==
  ASSUME CountInv
  PROVE  IsFiniteSet(Unaccounted) /\ Cardinality(Unaccounted) \in Nat
<1>1. Unaccounted \subseteq objects /\ IsFiniteSet(objects)
  BY DEF Unaccounted, CountInv, Counted
<1>2. QED
  BY <1>1, FS_Subset, FS_CardinalityType

(* What one step can add to the unaccounted.                                *)
LEMMA AtMostOneMore ==
  ASSUME CountInv, NEW p \in Operators, NEW U,
         U \subseteq Unaccounted \cup Told(answer[p])
  PROVE  Cardinality(U) \in Nat /\ Cardinality(U) <= Cardinality(Unaccounted) + 1
<1>1. CASE Told(answer[p]) = {}
  <2>1. U \subseteq Unaccounted
    BY <1>1
  <2>2. QED
    BY <2>1, UnaccountedFinite, FS_Subset, FS_CardinalityType
<1>2. CASE Told(answer[p]) # {}
  <2>1. PICK o : o \in Told(answer[p])
    BY <1>2
  <2>2. U \subseteq Unaccounted \cup {o}
    <3>1. Single(answer[p], objects, issued)
      BY DEF CountInv, OneEach
    <3>2. QED
      BY <2>1, <3>1, ToldOnce
  <2>3. /\ IsFiniteSet(Unaccounted \cup {o})
        /\ \/ Cardinality(Unaccounted \cup {o}) = Cardinality(Unaccounted) + 1
           \/ Cardinality(Unaccounted \cup {o}) = Cardinality(Unaccounted)
    BY UnaccountedFinite, FS_AddElement
  <2>4. /\ Cardinality(U) \in Nat /\ Cardinality(Unaccounted \cup {o}) \in Nat
        /\ Cardinality(U) <= Cardinality(Unaccounted \cup {o})
    BY <2>2, <2>3, FS_Subset, FS_CardinalityType
  <2>5. QED
    BY <2>3, <2>4, UnaccountedFinite
<1>3. QED
  BY <1>1, <1>2

LEMMA NoneMore ==
  ASSUME CountInv, NEW U, U \subseteq Unaccounted
  PROVE  Cardinality(U) \in Nat /\ Cardinality(U) <= Cardinality(Unaccounted)
  BY UnaccountedFinite, FS_Subset, FS_CardinalityType

(* An answer is dropped: recorded or not.                                   *)
LEMMA Dropped ==
  ASSUME CountInv, NEW p \in Operators, UNCHANGED <<objects, issued, gone>>,
         answer' = [answer EXCEPT ![p] = NoAnswer],
         \/ UNCHANGED transcript
         \/ \E l : l.answer = answer[p] /\ p \in InHands /\ transcript' = transcript \cup {l}
  PROVE  /\ OneEach' /\ Apart' /\ IsFiniteSet(transcript')
         /\ Unaccounted' \subseteq Unaccounted \cup Told(answer[p])
         /\ ~ragged /\ (\E l \in transcript' : l.whole /\ l.answer = answer[p])
              => Unaccounted' \subseteq Unaccounted
<1>1. \A q \in Operators : answer'[q] = IF q = p THEN NoAnswer ELSE answer[q]
  BY DEF CountInv, Typed, TypeOK
<1>2. OneEach'
  <2>1. Single(NoAnswer, objects, issued)
    BY NoAnswerTyped, Types DEF CountInv, Single
  <2>2. \A l \in Recorded' : Single(l.answer, objects, issued)
    <3>1. \A l \in Recorded' : l \in Recorded \/ l.answer = answer[p]
      BY DEF Recorded
    <3>2. QED
      BY <3>1 DEF CountInv, OneEach
  <2>3. \A q \in Operators : Single(answer'[q], objects, issued)
    BY <1>1, <2>1 DEF CountInv, OneEach
  <2>4. QED
    BY <2>2, <2>3 DEF CountInv, OneEach
<1>3. Apart'
  <2>1. \A q \in InHands' : q \in InHands /\ q # p /\ answer'[q] = answer[q]
    BY <1>1 DEF InHands
  <2>2. \A l \in Recorded' : l \in Recorded \/ (l.answer = answer[p] /\ p \in InHands)
    BY DEF Recorded
  <2>3. transcript' \cap gone' = {}
    BY DEF CountInv, Apart, Recorded
  <2>4. QED
    BY <2>1, <2>2, <2>3 DEF CountInv, Apart
<1>4. IsFiniteSet(transcript')
  BY FS_AddElement DEF CountInv, Counted
<1>5. ASSUME NEW o \in Unaccounted', ~Explains(answer[p], o)
      PROVE  o \in Unaccounted
  <2>1. o \in objects /\ \A q \in Operators : ~Explains(answer'[q], o)
    BY <1>5 DEF Unaccounted, InHand
  <2>2. \A q \in Operators : ~Explains(answer[q], o)
    BY <2>1, <1>1, <1>5
  <2>3. \A l \in transcript : l.whole => ~Explains(l.answer, o)
    BY <1>5 DEF Unaccounted
  <2>4. QED
    BY <2>1, <2>2, <2>3 DEF Unaccounted, InHand
<1>6. Unaccounted' \subseteq objects
  BY DEF Unaccounted
<1>7. Unaccounted' \subseteq Unaccounted \cup Told(answer[p])
  BY <1>5, <1>6 DEF Told
<1>8. ASSUME NEW l \in transcript', l.whole, l.answer = answer[p]
      PROVE  Unaccounted' \subseteq Unaccounted
  <2>1. \A o \in Unaccounted' : ~Explains(l.answer, o)
    BY <1>8 DEF Unaccounted
  <2>2. QED
    BY <2>1, <1>5, <1>8
<1>9. QED
  BY <1>2, <1>7, <1>8, <1>3, <1>4

LEMMA RequestCounted ==
  ASSUME CountInv, NEW p \in Operators, NEW command \in Commands, NEW path \in Paths,
         NEW status \in Status, Request(p, command, path, status)
  PROVE  OneEach' /\ Apart' /\ Counted'
<1>1. PICK made, o : Made_by(p, path, status, made, o)
  BY RequestShape
<1>2. /\ issued \in Nat /\ issued' = issued + 1 /\ answer[p] = NoAnswer
      /\ UNCHANGED <<transcript, ragged, gone, faults>>
  BY Types DEF CountInv, Request, log, losses
<1> DEFINE new == [path |-> path, call |-> issued + 1]
           a == Answered(path, status, o)
<1>3. /\ made = {} \/ (status # "refused" /\ made = {new}) \/ made \subseteq objects
      /\ o \in made \cup {NoObject} /\ objects' = objects \cup made
      /\ answer' = [answer EXCEPT ![p] = a]
  BY <1>1 DEF Made_by
<1>4. a.call = issued + 1 /\ a.object = o /\ a.status = status
  BY DEF Answered
<1>5. new.call = issued + 1
  OBVIOUS
<1> HIDE DEF new, a
<1>6. \A x \in objects' : x \in objects \/ (x = new /\ made = {new} /\ status # "refused")
  BY <1>3
<1>7. \A q \in Operators : answer'[q] = IF q = p THEN a ELSE answer[q]
  BY <1>3 DEF CountInv, Typed, TypeOK
<1>8. \A x \in objects : x.call \in 1 .. issued /\ x.call # issued + 1
  BY <1>2 DEF CountInv, OneEach
<1>9. \A x, y \in objects' : x.call = y.call => x = y
  BY <1>5, <1>6, <1>8 DEF CountInv, OneEach
<1>10. \A x \in objects' : x.call \in 1 .. issued'
  BY <1>2, <1>5, <1>6, <1>8
<1>11. \A b \in Answer : Single(b, objects, issued) =>
         Single(b, objects', issued') /\ b.call # issued + 1
  <2> SUFFICES ASSUME NEW b \in Answer, Single(b, objects, issued)
               PROVE  Single(b, objects', issued') /\ b.call # issued + 1
    OBVIOUS
  <2>1. b.call \in Nat /\ b.call <= issued /\ b.object \in objects \cup {NoObject}
    BY DEF Answer, Single
  <2>2. b.call # issued + 1 /\ b.call <= issued'
    BY <2>1, <1>2
  <2>3. \A x \in objects' : b.object # NoObject /\ x.call = b.call => x = b.object
    BY <2>2, <1>5, <1>6 DEF Single
  <2>4. QED
    BY <2>1, <2>2, <2>3, <1>3 DEF Single
<1>12. Single(a, objects', issued')
  <2>1. \A x \in objects' : o # NoObject /\ x.call = issued + 1 => x = o
    BY <1>3, <1>6, <1>8
  <2>2. QED
    BY <2>1, <1>2, <1>3, <1>4 DEF Single
<1>13. \A q \in Operators : answer[q] \in Answer /\ Single(answer[q], objects, issued)
  BY Types DEF CountInv, OneEach
<1>14. /\ Recorded' = Recorded
       /\ \A l \in Recorded : l.answer \in Answer /\ Single(l.answer, objects, issued)
  BY <1>2, Types DEF CountInv, OneEach, Recorded, Line
<1>15. OneEach'
  <2>1. \A q \in Operators : Single(answer'[q], objects', issued')
    BY <1>7, <1>11, <1>12, <1>13
  <2>2. \A l \in Recorded' : Single(l.answer, objects', issued')
    BY <1>11, <1>14
  <2>3. QED
    BY <1>9, <1>10, <2>1, <2>2 DEF OneEach
<1>16. Apart'
  <2>1. \A q \in InHands' :
          \/ q = p /\ answer'[q].call = issued + 1
          \/ q # p /\ q \in InHands /\ answer'[q] = answer[q]
    BY <1>4, <1>7 DEF InHands
  <2>2. /\ \A l \in Recorded : l.answer.call # issued + 1
        /\ \A q \in Operators : answer[q].call # issued + 1
    BY <1>11, <1>13, <1>14
  <2>3. transcript' \cap gone' = {}
    BY <1>2 DEF CountInv, Apart
  <2>4. \A q \in InHands : q \in Operators
    BY DEF InHands
  <2>5. QED
    BY <1>14, <2>1, <2>2, <2>3, <2>4 DEF CountInv, Apart
<1>17. Unaccounted' \subseteq Unaccounted
  <2> SUFFICES ASSUME NEW x \in Unaccounted' PROVE x \in Unaccounted
    OBVIOUS
  <2>1. /\ x \in objects' /\ \A q \in Operators : ~Explains(answer'[q], x)
        /\ \A l \in transcript : l.whole => ~Explains(l.answer, x)
    BY <1>2 DEF Unaccounted, InHand
  <2>2. x \in objects
    <3>1. ASSUME x = new, status # "refused" PROVE FALSE
      <4>1. Explains(answer'[p], x)
        BY <3>1, <1>4, <1>5, <1>7 DEF Explains
      <4>2. QED
        BY <4>1, <2>1
    <3>2. QED
      BY <3>1, <2>1, <1>6
  <2>3. ~Explains(answer[p], x)
    BY <2>2, <1>2, NoAnswerTellsNothing DEF Told
  <2>4. \A q \in Operators : ~Explains(answer[q], x)
    BY <2>1, <2>3, <1>7
  <2>5. QED
    BY <2>1, <2>2, <2>4 DEF Unaccounted, InHand
<1>18. IsFiniteSet(objects')
  <2>1. IsFiniteSet(objects) /\ IsFiniteSet(objects \cup {new})
    BY FS_AddElement DEF CountInv, Counted
  <2>2. objects' = objects \/ objects' = objects \cup {new}
    BY <1>3
  <2>3. QED
    BY <2>1, <2>2
<1>19. Cardinality(Unaccounted') \in Nat /\ Cardinality(Unaccounted') <= Cardinality(Unaccounted)
  BY <1>17, NoneMore
<1>20. Counted'
  <2>1. /\ Cardinality(Unaccounted) + (IF ragged THEN 1 ELSE 0) <= 2 * (faults + Cardinality(gone))
        /\ IsFiniteSet(transcript) /\ IsFiniteSet(gone)
    BY DEF CountInv, Counted
  <2>2. Cardinality(gone) \in Nat /\ faults \in Nat /\ Cardinality(Unaccounted) \in Nat
    BY <2>1, FS_CardinalityType, UnaccountedFinite, Types DEF CountInv
  <2>3. /\ Cardinality(Unaccounted') + (IF ragged THEN 1 ELSE 0)
             <= 2 * (faults + Cardinality(gone))
    BY <1>19, <2>1, <2>2
  <2>4. QED
    BY <1>2, <1>18, <2>1, <2>3 DEF Counted
<1>21. QED
  BY <1>15, <1>20, <1>16

(* One thing of S tells of at most one thing of T.                          *)
LEMMA ToldBy ==
  ASSUME NEW S, IsFiniteSet(S), NEW F, NEW T,
         \A o \in T : \E s \in S : o \in F[s],
         \A s \in S : \A x, y \in F[s] : x = y
  PROVE  IsFiniteSet(T) /\ Cardinality(T) \in Nat /\ Cardinality(T) <= Cardinality(S)
<1> DEFINE g == [o \in T |-> CHOOSE s \in S : o \in F[s]]
<1>1. \A o \in T : g[o] \in S /\ o \in F[g[o]]
  OBVIOUS
<1>2. g \in [T -> S]
  BY <1>1
<1>3. \A x, y \in T : g[x] = g[y] => x = y
  BY <1>1
<1>4. DOMAIN g = T
  OBVIOUS
<1> HIDE DEF g
<1>5. g \in Injection(T, S)
  BY <1>2, <1>3, <1>4 DEF Injection, IsInjective
<1>6. QED
  BY <1>5, FS_Injection, FS_CardinalityType

LEMMA UnionBound ==
  ASSUME NEW S, IsFiniteSet(S), NEW T, IsFiniteSet(T)
  PROVE  /\ IsFiniteSet(S \cup T) /\ Cardinality(S \cup T) \in Nat
         /\ Cardinality(S \cup T) <= Cardinality(S) + Cardinality(T)
<1>1. IsFiniteSet(S \cap T)
  BY FS_Intersection
<1>2. /\ Cardinality(S) \in Nat /\ Cardinality(T) \in Nat
      /\ Cardinality(S \cap T) \in Nat /\ Cardinality(S \cup T) \in Nat
  BY <1>1, FS_Union, FS_CardinalityType
<1>3. Cardinality(S \cup T) = Cardinality(S) + Cardinality(T) - Cardinality(S \cap T)
  BY FS_Union
<1>4. IsFiniteSet(S \cup T)
  BY FS_Union
<1>5. QED
  BY <1>2, <1>3, <1>4

(* What a power failure hides is what the commands had in hand and what the *)
(* lines said that it took.                                                 *)
LEMMA Hidden ==
  ASSUME CountInv, PowerFails
  PROVE  /\ IsFiniteSet(transcript \ transcript') /\ Cardinality(transcript \ transcript') \in Nat
         /\ Cardinality(Unaccounted') \in Nat
         /\ Cardinality(Unaccounted') <=
              Cardinality(Unaccounted) + Cardinality(Running) + Cardinality(transcript \ transcript')
<1> DEFINE taken == transcript \ transcript'
           byHand == {o \in objects : \E p \in Running : o \in Told(answer[p])}
           byLine == {o \in objects : \E l \in taken : o \in Told(l.answer)}
<1>1. UNCHANGED objects /\ transcript' \subseteq transcript
  BY DEF PowerFails, sandbox
<1>2. IsFiniteSet(taken) /\ Cardinality(taken) \in Nat
  BY FS_Subset, FS_CardinalityType DEF CountInv, Counted
<1>3. InHands \subseteq Running
  <2>1. \A p \in InHands : /\ Len(results[p]) \in Nat /\ doing[p] \in Commands
                            /\ Len(results[p]) < Len(Programme[doing[p]])
    BY Types DEF CountInv, Typed, InFlight, InHands
  <2>2. QED
    BY <2>1, Programmes DEF InHands, Running
<1>4. Unaccounted' \subseteq (Unaccounted \cup byHand) \cup byLine
  <2> SUFFICES ASSUME NEW o \in Unaccounted', o \notin byHand, o \notin byLine
               PROVE  o \in Unaccounted
    OBVIOUS
  <2>1. o \in objects /\ \A l \in transcript' : l.whole => ~Explains(l.answer, o)
    BY <1>1 DEF Unaccounted
  <2>2. \A l \in taken : ~Explains(l.answer, o)
    BY <2>1 DEF Told
  <2>3. \A p \in Running : ~Explains(answer[p], o)
    BY <2>1 DEF Told
  <2>4. \A p \in Operators : ~Explains(answer[p], o)
    BY <1>3, <2>1, <2>3, NoAnswerTellsNothing DEF InHands, Told
  <2>5. \A l \in transcript : l.whole => ~Explains(l.answer, o)
    BY <2>1, <2>2
  <2>6. QED
    BY <2>1, <2>4, <2>5 DEF Unaccounted, InHand
<1>5. /\ IsFiniteSet(byHand) /\ Cardinality(byHand) \in Nat
      /\ Cardinality(byHand) <= Cardinality(Running)
  <2> DEFINE F == [p \in Running |-> Told(answer[p])]
  <2>1. \A p \in Running : F[p] = Told(answer[p]) /\ Single(answer[p], objects, issued)
    BY DEF Running, CountInv, OneEach
  <2>2. \A p \in Running : \A x, y \in F[p] : x = y
    BY <2>1, ToldOnce
  <2>3. \A o \in byHand : \E p \in Running : o \in F[p]
    BY <2>1
  <2> HIDE DEF F, byHand
  <2>4. QED
    BY <2>2, <2>3, CountableOperators, ToldBy
<1>6. /\ IsFiniteSet(byLine) /\ Cardinality(byLine) \in Nat
      /\ Cardinality(byLine) <= Cardinality(taken)
  <2> DEFINE F == [l \in taken |-> Told(l.answer)]
  <2>1. \A l \in taken : F[l] = Told(l.answer) /\ Single(l.answer, objects, issued)
    BY DEF CountInv, OneEach, Recorded
  <2>2. \A l \in taken : \A x, y \in F[l] : x = y
    BY <2>1, ToldOnce
  <2>3. \A o \in byLine : \E l \in taken : o \in F[l]
    BY <2>1
  <2> HIDE DEF F, byLine, taken
  <2>4. QED
    BY <2>2, <2>3, <1>2, ToldBy
<1>7. IsFiniteSet(Unaccounted) /\ Cardinality(Unaccounted) \in Nat
  BY UnaccountedFinite
<1> HIDE DEF byHand, byLine
<1>8. /\ IsFiniteSet(Unaccounted \cup byHand)
      /\ Cardinality(Unaccounted \cup byHand) <= Cardinality(Unaccounted) + Cardinality(byHand)
      /\ Cardinality(Unaccounted \cup byHand) \in Nat
  BY <1>5, <1>7, UnionBound
<1>9. /\ IsFiniteSet((Unaccounted \cup byHand) \cup byLine)
      /\ Cardinality((Unaccounted \cup byHand) \cup byLine)
           <= Cardinality(Unaccounted \cup byHand) + Cardinality(byLine)
      /\ Cardinality((Unaccounted \cup byHand) \cup byLine) \in Nat
  BY <1>6, <1>8, UnionBound
<1>10. /\ Cardinality(Unaccounted') \in Nat
       /\ Cardinality(Unaccounted') <= Cardinality((Unaccounted \cup byHand) \cup byLine)
  BY <1>4, <1>9, FS_Subset, FS_CardinalityType
<1>11. Cardinality(Running) \in Nat
  BY CountableOperators
<1>12. Cardinality(Unaccounted') <= Cardinality(Unaccounted) + Cardinality(Running) + Cardinality(taken)
  BY <1>2, <1>5, <1>6, <1>7, <1>8, <1>9, <1>10, <1>11
<1>13. QED
  BY <1>2, <1>10, <1>12

LEMMA PowerFailsCounted ==
  ASSUME CountInv, PowerFails
  PROVE  OneEach' /\ Apart' /\ Counted'
<1> DEFINE taken == transcript \ transcript'
<1>1. /\ UNCHANGED <<objects, issued>> /\ transcript' \subseteq transcript
      /\ gone' = gone \cup taken /\ faults' = faults + Cardinality(Running)
      /\ ragged' \in BOOLEAN /\ (ragged' => ragged \/ taken # {} \/ InHands # {})
      /\ \A p \in Operators : answer'[p] = NoAnswer
  BY DEF PowerFails, sandbox
<1>2. OneEach'
  <2>1. Recorded' = Recorded
    BY <1>1 DEF Recorded
  <2>2. Single(NoAnswer, objects, issued)
    BY NoAnswerTyped, Types DEF CountInv, Single
  <2>3. QED
    BY <1>1, <2>1, <2>2 DEF CountInv, OneEach
<1>3. Apart'
  <2>1. InHands' = {}
    BY <1>1 DEF InHands
  <2>2. transcript' \cap gone' = {}
    BY <1>1 DEF CountInv, Apart
  <2>3. QED
    BY <2>1, <2>2 DEF Apart
<1>4. IsFiniteSet(transcript') /\ IsFiniteSet(gone') /\ IsFiniteSet(objects')
  BY <1>1, FS_Subset, FS_Union DEF CountInv, Counted
<1>5. Cardinality(gone') = Cardinality(gone) + Cardinality(taken) /\ Cardinality(gone) \in Nat
  <2>1. IsFiniteSet(gone) /\ IsFiniteSet(taken) /\ gone \cap taken = {}
    BY FS_Subset DEF CountInv, Counted, Apart
  <2>2. Cardinality({}) = 0
    BY FS_EmptySet
  <2>3. Cardinality(gone) \in Nat /\ Cardinality(taken) \in Nat
    BY <2>1, FS_CardinalityType
  <2>4. Cardinality(gone \cup taken) =
          Cardinality(gone) + Cardinality(taken) - Cardinality(gone \cap taken)
    BY <2>1, FS_Union
  <2>5. Cardinality(gone \cap taken) = 0
    BY <2>1, <2>2, Zenon
  <2>6. QED
    BY <1>1, <2>3, <2>4, <2>5
<1>6. \/ ~ragged' \/ ragged
      \/ Cardinality(taken) > 0 \/ Cardinality(Running) > 0
  <2>1. IsFiniteSet(taken) /\ Cardinality(taken) \in Nat
    BY Hidden
  <2>2. taken # {} => Cardinality(taken) # 0
    BY <2>1, FS_EmptySet
  <2>3. InHands # {} => Running # {}
    <3>1. \A p \in InHands : /\ Len(results[p]) \in Nat /\ doing[p] \in Commands
                              /\ Len(results[p]) < Len(Programme[doing[p]])
      BY Types DEF CountInv, Typed, InFlight, InHands
    <3>2. QED
      BY <3>1, Programmes DEF InHands, Running
  <2>4. Running # {} => Cardinality(Running) # 0
    BY CountableOperators, FS_EmptySet
  <2>5. QED
    BY <1>1, <2>1, <2>2, <2>3, <2>4, CountableOperators
<1>7. Counted'
  <2> DEFINE c == Cardinality(Unaccounted)
             d == Cardinality(Unaccounted')
             n == Cardinality(Running)
             k == Cardinality(taken)
             g == Cardinality(gone)
  <2>1. c \in Nat /\ d \in Nat /\ n \in Nat /\ k \in Nat /\ g \in Nat /\ d <= c + n + k
    BY Hidden, UnaccountedFinite, CountableOperators, <1>5
  <2>2. faults \in Nat /\ c + (IF ragged THEN 1 ELSE 0) <= 2 * (faults + g)
    BY Types DEF CountInv, Counted
  <2>3. ~ragged' \/ ragged \/ k > 0 \/ n > 0
    BY <1>6
  <2>4. Cardinality(gone') = g + k
    BY <1>5
  <2> HIDE DEF c, d, n, k, g
  <2>5. d + (IF ragged' THEN 1 ELSE 0) <= 2 * ((faults + n) + (g + k))
    BY <2>1, <2>2, <2>3
  <2>6. QED
    BY <2>4, <2>5, <1>1, <1>4 DEF Counted, d, n
<1>8. QED
  BY <1>2, <1>3, <1>7

LEMMA NextCounted == CountInv /\ [Next]_liveVars => CountInv'
<1> SUFFICES ASSUME CountInv, [Next]_liveVars PROVE OneEach' /\ Apart' /\ Counted'
  BY NextTyped DEF CountInv
<1>0. /\ faults \in Nat /\ ragged \in BOOLEAN /\ IsFiniteSet(objects)
      /\ Cardinality(Unaccounted) \in Nat
      /\ IsFiniteSet(transcript) /\ IsFiniteSet(gone) /\ Cardinality(gone) \in Nat
      /\ Cardinality(Unaccounted) + (IF ragged THEN 1 ELSE 0) <= 2 * (faults + Cardinality(gone))
  BY UnaccountedFinite, Types, FS_CardinalityType DEF CountInv, Counted
<1>1. ASSUME UNCHANGED <<objects, issued, answer, transcript, ragged, gone, faults>>
      PROVE  OneEach' /\ Apart' /\ Counted'
  <2>1. OneEach'
    BY <1>1 DEF CountInv, OneEach, Single, Recorded
  <2>2. Apart'
    BY <1>1 DEF CountInv, Apart, Recorded, InHands
  <2>3. Counted'
    BY <1>1 DEF CountInv, Counted, Unaccounted, InHand
  <2>4. QED
    BY <2>1, <2>2, <2>3
<1>2. ASSUME NEW p \in Operators, Exit(p), answer[p] = NoAnswer,
             UNCHANGED <<objects, issued, transcript, ragged, gone, faults>>
      PROVE  OneEach' /\ Apart' /\ Counted'
  <2>1. answer' = answer
    BY <1>2 DEF Exit, CountInv, Typed, TypeOK
  <2>2. QED
    BY <1>1, <1>2, <2>1
<1>3. ASSUME NEW p \in Operators, Fault(p), UNCHANGED <<sandbox, gone>>, ragged' \in BOOLEAN,
             \/ UNCHANGED transcript
             \/ \E l : l.answer = answer[p] /\ p \in InHands /\ transcript' = transcript \cup {l},
             UNCHANGED ragged \/ ragged'
      PROVE  OneEach' /\ Apart' /\ Counted'
  <2>1. faults' = faults + 1 /\ answer' = [answer EXCEPT ![p] = NoAnswer]
    BY <1>3 DEF Fault, Exit
  <2>2. /\ OneEach' /\ Apart' /\ IsFiniteSet(transcript')
        /\ Unaccounted' \subseteq Unaccounted \cup Told(answer[p])
    BY <1>3, <2>1, Dropped DEF sandbox
  <2>3. /\ Cardinality(Unaccounted') \in Nat
        /\ Cardinality(Unaccounted') <= Cardinality(Unaccounted) + 1
    BY <2>2, AtMostOneMore
  <2>4. Cardinality(Unaccounted') + (IF ragged' THEN 1 ELSE 0)
          <= 2 * (faults' + Cardinality(gone))
    <3> DEFINE c == Cardinality(Unaccounted)
               d == Cardinality(Unaccounted')
               g == Cardinality(gone)
    <3>1. c \in Nat /\ d \in Nat /\ g \in Nat /\ d <= c + 1 /\ c <= 2 * (faults + g)
      BY <1>0, <2>3
    <3> HIDE DEF c, d, g
    <3>2. d + (IF ragged' THEN 1 ELSE 0) <= 2 * ((faults + 1) + g)
      BY <3>1, <1>0, <1>3
    <3>3. QED
      BY <3>2, <2>1 DEF d, g
  <2>5. Counted'
    BY <1>0, <1>3, <2>2, <2>4 DEF Counted, sandbox
  <2>6. QED
    BY <2>2, <2>5
<1>4. CASE UNCHANGED liveVars
  BY <1>1, <1>4 DEF liveVars
<1>5. ASSUME NEW payment \in Payment, Pay(payment)
      PROVE  OneEach' /\ Apart' /\ Counted'
  BY <1>1, <1>5 DEF Pay, log, losses
<1>6. ASSUME NEW p \in Operators, Step(p)
      PROVE  OneEach' /\ Apart' /\ Counted'
  <2> USE <1>6
  <2>1. ASSUME NEW status \in Status, NEW command \in Commands, Begin(p, command, status)
        PROVE  OneEach' /\ Apart' /\ Counted'
    <3>1. command # "none" /\ Request(p, command, Programme[command][1], status)
      BY <2>1 DEF Begin
    <3>2. 1 \in 1 .. Len(Programme[command])
      BY <3>1, Programmes
    <3>3. QED
      BY <3>1, <3>2, Programmes, RequestCounted
  <2>2. ASSUME NEW status \in Status, Call(p, status)
        PROVE  OneEach' /\ Apart' /\ Counted'
    <3>1. /\ doing[p] \in Commands /\ Len(results[p]) \in Nat
          /\ Len(results[p]) <= Len(Programme[doing[p]])
          /\ Len(results[p]) # Len(Programme[doing[p]])
      BY <2>2, Types DEF Call, Done, CountInv
    <3>2. Len(results[p]) + 1 \in 1 .. Len(Programme[doing[p]])
      BY <3>1, Programmes
    <3>3. QED
      BY <2>2, <3>1, <3>2, Programmes, RequestCounted DEF Call
  <2>3. CASE Record(p)
    <3> DEFINE l == [answer |-> answer[p], whole |-> ~ragged]
    <3>1. /\ transcript' = transcript \cup {l} /\ ragged' = FALSE
          /\ UNCHANGED <<objects, issued, gone, faults>> /\ p \in InHands
      BY <2>3 DEF Record, AppendLine, sandbox, losses, InHands
    <3>2. answer' = [answer EXCEPT ![p] = NoAnswer]
      BY <2>3 DEF Record, Exit, Return
    <3>3. l.answer = answer[p] /\ l.whole = ~ragged
      OBVIOUS
    <3> HIDE DEF l
    <3>4. /\ OneEach' /\ Apart' /\ IsFiniteSet(transcript')
          /\ Unaccounted' \subseteq Unaccounted \cup Told(answer[p])
          /\ ~ragged => Unaccounted' \subseteq Unaccounted
      <4>1. \E k : k.answer = answer[p] /\ p \in InHands /\ transcript' = transcript \cup {k}
        BY <3>1, <3>3
      <4>2. /\ OneEach' /\ Apart' /\ IsFiniteSet(transcript')
            /\ Unaccounted' \subseteq Unaccounted \cup Told(answer[p])
            /\ ~ragged /\ (\E k \in transcript' : k.whole /\ k.answer = answer[p])
                 => Unaccounted' \subseteq Unaccounted
        BY <3>1, <3>2, <4>1, Dropped
      <4>3. QED
        BY <3>1, <3>3, <4>2
    <3>5. /\ Cardinality(Unaccounted') \in Nat
          /\ Cardinality(Unaccounted') <= Cardinality(Unaccounted) + (IF ragged THEN 1 ELSE 0)
      <4>1. CASE ragged
        BY <4>1, <3>4, AtMostOneMore
      <4>2. CASE ~ragged
        BY <4>2, <3>4, NoneMore, <1>0
      <4>3. QED
        BY <4>1, <4>2
    <3>6. Counted'
      BY <1>0, <3>1, <3>4, <3>5 DEF Counted
    <3>7. QED
      BY <3>4, <3>6
  <2>4. CASE EndProbe(p) \/ WriteSeeded(p) \/ WriteReport(p)
    <3>1. /\ Exit(p) /\ Len(results[p]) = Len(Programme[doing[p]])
          /\ UNCHANGED <<objects, issued, transcript, ragged, gone, faults>>
      BY <2>4 DEF EndProbe, WriteSeeded, WriteReport, Done, sandbox, log, losses
    <3>2. answer[p] = NoAnswer
      <4>1. Len(results[p]) \in Nat
        BY Types DEF CountInv
      <4>2. QED
        BY <4>1, <3>1 DEF CountInv, Typed, InFlight
    <3>3. QED
      BY <3>1, <3>2, <1>2
  <2>5. CASE Die(p)
    BY <2>5, <1>0, <1>3 DEF Die, log
  <2>6. CASE TearLine(p)
    <3>1. /\ Fault(p) /\ UNCHANGED <<sandbox, gone>> /\ ragged' = TRUE /\ p \in InHands
          /\ transcript' = transcript \cup {[answer |-> answer[p], whole |-> FALSE]}
      BY <2>6 DEF TearLine, InHands
    <3>2. \E l : l.answer = answer[p] /\ p \in InHands /\ transcript' = transcript \cup {l}
      <4>1. [answer |-> answer[p], whole |-> FALSE].answer = answer[p]
        OBVIOUS
      <4>2. QED
        BY <3>1, <4>1
    <3>3. QED
      BY <3>1, <3>2, <1>3
  <2>7. CASE TearArtefact(p)
    BY <2>7, <1>0, <1>3 DEF TearArtefact, log
  <2>8. CASE Truncate(p)
    BY <2>8, <1>1 DEF Truncate, sandbox, log, losses
  <2>9. QED
    BY <2>1, <2>2, <2>3, <2>4, <2>5, <2>6, <2>7, <2>8 DEF Step
<1>7. CASE PowerFails
  BY <1>7, PowerFailsCounted
<1>8. QED
  BY <1>4, <1>5, <1>6, <1>7 DEF Next

LEMMA InitCounted == Init => CountInv
<1> SUFFICES ASSUME Init PROVE CountInv
  OBVIOUS
<1>1. Unaccounted = {} /\ IsFiniteSet(objects)
  BY FS_EmptySet DEF Init, Unaccounted
<1>2. (\A p \in Operators : answer[p] = NoAnswer) /\ Recorded = {} /\ InHands = {}
  BY DEF Init, Recorded, InHands
<1>3. OneEach
  BY <1>2, NoAnswerTyped DEF Init, OneEach, Single
<1>4. Apart
  BY <1>2 DEF Apart, Recorded
<1>5. Cardinality(Unaccounted) = 0
  BY <1>1, FS_EmptySet
<1>6. Counted
  BY <1>1, <1>5, FS_EmptySet DEF Init, Counted
<1>7. QED
  BY <1>3, <1>6, <1>4, InitTyped DEF CountInv

(* The transcript names no object that does not exist, and accounts for     *)
(* every object that does, but for two of each command that died and of each*)
(* line that a power failure took (_call, record).                          *)
THEOREM TranscriptIsEvidence == Spec => []TranscriptAccounts
<1>1. CountInv => TranscriptAccounts
  <2> SUFFICES ASSUME CountInv PROVE TranscriptAccounts
    OBVIOUS
  <2>1. \A l \in transcript : l.answer.object \in objects \cup {NoObject}
    BY DEF CountInv, OneEach, Single, Recorded
  <2>2. Cardinality(Unaccounted) <= 2 * (faults + Cardinality(gone))
    <3>1. /\ Cardinality(Unaccounted) \in Nat /\ Cardinality(gone) \in Nat /\ faults \in Nat
          /\ ragged \in BOOLEAN
      BY UnaccountedFinite, Types, FS_CardinalityType DEF CountInv, Counted
    <3>2. QED
      BY <3>1 DEF CountInv, Counted
  <2>3. QED
    BY <2>1, <2>2 DEF TranscriptAccounts
<1>2. QED
  BY <1>1, InitCounted, NextCounted, PTL DEF Spec
===============================================================================
