----------------------------- MODULE IngestProofs -----------------------------
(***************************************************************************)
(* Theorems about Ingest, for any events, bodies, handlers and deliveries.  *)
(*                                                                          *)
(* That an acknowledged event has a row of its own rests on IdsTold: rows   *)
(* made for different events, or for an event and a rejection, never have   *)
(* the same id, whether they are in the table or on their way to it, unless *)
(* both events are nameless.  That redeliveries add nothing rests on the    *)
(* same shapes of ids, which tell in what form the delivery came.           *)
(***************************************************************************)
EXTENDS Ingest, TLAPS, FiniteSetTheorems

-------------------------------------------------------------------------------
(* Rows.                                                                    *)

(* What parse and _reject can make, given that serials below n were used    *)
(* and the deliveries in S accepted.                                        *)
MadeOf(d, r, n) ==
  /\ d.event = r.event
  /\ \/ d.header = "present" /\ r.id = HeaderId(r.event)
     \/ d.header = "empty" /\ r.id = EmptyId /\ r.event \in Nameless
     \/ /\ d.header = "absent" /\ r.id = BodyId(BodyOf[r.event])
        /\ BodyOf[r.event] \in Distinguishing
     \/ /\ d.header = "absent" /\ BodyOf[r.event] \notin Distinguishing
        /\ \E m \in Nat : m < n /\ r.id = NoDedupeId(BodyOf[r.event], m)

Shaped(r, n, S) ==
  \/ r.signature_verified /\ \E d \in S : MadeOf(d, r, n)
  \/ ~r.signature_verified /\ r.id = RejectedId(BodyOf[r.event])

(* Two rows that have one id are about one thing.                           *)
Agree(r, q) ==
  r.id = q.id => /\ r.signature_verified = q.signature_verified
                 /\ r.signature_verified => \/ r.event = q.event
                                            \/ r.event \in Nameless /\ q.event \in Nameless

(* The rows in the table and those on their way to it.                      *)
Made == {events[i] : i \in DOMAIN events} \cup {row[h] : h \in {g \in Handlers : pc[g] # "idle"}}

IdsTold == /\ \A r \in Made : Shaped(r, received, seen)
           /\ \A r, q \in Made : Agree(r, q)

IdsUnique == \A i, j \in DOMAIN events : events[i].id = events[j].id => i = j

(* A verified row that a handler has seen in the table is there.            *)
Kept ==
  \A h \in Handlers :
    /\ pc[h] \in {"stored", "found", "recorded"} /\ row[h].signature_verified
    /\ row[h].event \notin Nameless
    => RowsOf(row[h].event) # {}

AcknowledgedIsStored == \A e \in acked \ Nameless : RowsOf(e) # {}

IngestInv == TypeOK /\ IdsTold /\ IdsUnique /\ Kept /\ AcknowledgedIsStored

LEMMA NoRowTyped == NoRow \in Row
  BY EventsAssumption DEF NoRow, Row, Ids

(* Ids of different kinds differ, and an id tells what it was made of.      *)
LEMMA IdsApart ==
  ASSUME NEW e, NEW f, NEW b, NEW c, NEW m, NEW n
  PROVE  /\ HeaderId(e) = HeaderId(f) => e = f
         /\ BodyId(b) = BodyId(c) => b = c
         /\ NoDedupeId(b, m) = NoDedupeId(c, n) => b = c /\ m = n
         /\ HeaderId(e) # BodyId(b) /\ HeaderId(e) # NoDedupeId(b, m)
         /\ HeaderId(e) # RejectedId(b)
         /\ BodyId(b) # NoDedupeId(c, m) /\ BodyId(b) # RejectedId(c)
         /\ NoDedupeId(b, m) # RejectedId(c)
         /\ EmptyId \notin {HeaderId(e), BodyId(b), NoDedupeId(b, m), RejectedId(b)}
<1>1. /\ HeaderId(e)[1] = "header" /\ BodyId(b)[1] = "evt_body"
      /\ NoDedupeId(b, m)[1] = "evt_nodedupe" /\ NoDedupeId(c, m)[1] = "evt_nodedupe"
      /\ RejectedId(b)[1] = "rej" /\ RejectedId(c)[1] = "rej" /\ EmptyId[1] = "empty"
  BY DEF HeaderId, BodyId, NoDedupeId, RejectedId, EmptyId
<1>2. /\ HeaderId(e)[2] = e /\ HeaderId(f)[2] = f
      /\ BodyId(b)[2] = b /\ BodyId(c)[2] = c
      /\ NoDedupeId(b, m)[2] = b /\ NoDedupeId(c, n)[2] = c
      /\ NoDedupeId(b, m)[3] = m /\ NoDedupeId(c, n)[3] = n
  BY DEF HeaderId, BodyId, NoDedupeId
<1> QED
  BY <1>1, <1>2

(* A row that a delivery is made into.                                      *)
LEMMA RowForShaped ==
  ASSUME NEW d \in Delivery, NEW n \in Nat
  PROVE  /\ RowFor(d, n) \in Row
         /\ RowFor(d, n).event = d.event
         /\ RowFor(d, n).signature_verified = Accepts(d)
         /\ \/ ~Accepts(d) /\ RowFor(d, n).id = RejectedId(BodyOf[d.event])
            \/ Accepts(d) /\ RowFor(d, n).id = HeaderId(d.event) /\ d.header = "present"
            \/ /\ Accepts(d) /\ RowFor(d, n).id = EmptyId /\ d.header = "empty"
               /\ d.event \in Nameless
            \/ /\ Accepts(d) /\ RowFor(d, n).id = BodyId(BodyOf[d.event])
               /\ d.header = "absent" /\ BodyOf[d.event] \in Distinguishing
            \/ /\ Accepts(d) /\ RowFor(d, n).id = NoDedupeId(BodyOf[d.event], n)
               /\ d.header = "absent" /\ BodyOf[d.event] \notin Distinguishing
<1>1. /\ d.event \in Events /\ BodyOf[d.event] \in Bodies
      /\ d.header \in {"present", "absent", "empty"}
      /\ Accepts(d) \in BOOLEAN
      /\ d.header = "empty" => d.event \in Nameless
  BY BodiesAssumption DEF Delivery, Accepts
<1>2. \/ EventId(d, n) = HeaderId(d.event) /\ d.header = "present"
      \/ EventId(d, n) = EmptyId /\ d.header = "empty"
      \/ /\ EventId(d, n) = BodyId(BodyOf[d.event]) /\ d.header = "absent"
         /\ BodyOf[d.event] \in Distinguishing
      \/ /\ EventId(d, n) = NoDedupeId(BodyOf[d.event], n) /\ d.header = "absent"
         /\ BodyOf[d.event] \notin Distinguishing
  <2>1. CASE d.header = "present"
    BY <2>1 DEF EventId
  <2>2. CASE d.header = "absent"
    BY <2>2 DEF EventId, derive_event_id
  <2>3. CASE d.header = "empty"
    BY <2>3 DEF EventId
  <2> QED
    BY <1>1, <2>1, <2>2, <2>3
<1>3. EventId(d, n) \in Ids /\ RejectedId(BodyOf[d.event]) \in Ids
  BY <1>1, <1>2 DEF Ids, HeaderId, BodyId, NoDedupeId, RejectedId
<1> QED
  BY <1>1, <1>2, <1>3 DEF RowFor, Row

(* A new row agrees with every row made before: a derived serial is fresh,  *)
(* and a body that is deduplicated on belongs to one event.                 *)
LEMMA NewRowAgrees ==
  ASSUME NEW n \in Nat, NEW d \in Delivery, NEW q \in Row, NEW S, Shaped(q, n, S)
  PROVE  Agree(RowFor(d, n), q) /\ Agree(q, RowFor(d, n))
<1> DEFINE r == RowFor(d, n)
<1>1. /\ r.event = d.event /\ r.signature_verified = Accepts(d)
      /\ \/ ~Accepts(d) /\ r.id = RejectedId(BodyOf[d.event])
         \/ Accepts(d) /\ r.id = HeaderId(d.event)
         \/ Accepts(d) /\ r.id = EmptyId /\ d.event \in Nameless
         \/ /\ Accepts(d) /\ r.id = BodyId(BodyOf[d.event])
            /\ BodyOf[d.event] \in Distinguishing
         \/ Accepts(d) /\ r.id = NoDedupeId(BodyOf[d.event], n)
  BY RowForShaped
<1>2. Accepts(d) \in BOOLEAN /\ q.signature_verified \in BOOLEAN
      /\ d.event \in Events /\ q.event \in Events
  BY DEF Accepts, Row, Delivery
<1> HIDE DEF r
<1>3. SUFFICES ASSUME r.id = q.id
               PROVE  /\ r.signature_verified = q.signature_verified
                      /\ r.signature_verified => \/ r.event = q.event
                                                 \/ r.event \in Nameless /\ q.event \in Nameless
  BY DEF Agree, r
<1>4. CASE q.signature_verified /\ q.id = HeaderId(q.event)
  <2>1. r.id = HeaderId(q.event)
    BY <1>3, <1>4
  <2>2. /\ r.id # RejectedId(BodyOf[d.event]) /\ r.id # BodyId(BodyOf[d.event])
        /\ r.id # NoDedupeId(BodyOf[d.event], n) /\ r.id # EmptyId
    BY <2>1, IdsApart
  <2>3. Accepts(d) /\ r.id = HeaderId(d.event)
    BY <1>1, <2>2
  <2>4. d.event = q.event
    BY <2>1, <2>3, IdsApart
  <2> QED
    BY <1>1, <1>4, <2>3, <2>4
<1>5. CASE /\ q.signature_verified /\ q.id = BodyId(BodyOf[q.event])
           /\ BodyOf[q.event] \in Distinguishing
  <2>1. Accepts(d) /\ BodyOf[d.event] = BodyOf[q.event]
    BY <1>1, <1>3, <1>5, IdsApart
  <2> QED
    BY <1>1, <1>2, <1>5, <2>1, DistinguishingAssumption
<1>6. CASE q.signature_verified /\ \E m \in Nat : m < n /\ q.id = NoDedupeId(BodyOf[q.event], m)
  <2>1. PICK m \in Nat : m < n /\ q.id = NoDedupeId(BodyOf[q.event], m)
    BY <1>6
  <2>2. r.id # NoDedupeId(BodyOf[d.event], n)
    BY <1>3, <2>1, IdsApart
  <2>3. r.id # RejectedId(BodyOf[d.event]) /\ r.id # HeaderId(d.event)
        /\ r.id # BodyId(BodyOf[d.event]) /\ r.id # EmptyId
    BY <1>3, <2>1, IdsApart
  <2> QED
    BY <1>1, <2>2, <2>3
<1>7. CASE ~q.signature_verified /\ q.id = RejectedId(BodyOf[q.event])
  BY <1>1, <1>2, <1>3, <1>7, IdsApart
<1>8. CASE q.signature_verified /\ q.id = EmptyId /\ q.event \in Nameless
  <2>1. EmptyId # RejectedId(BodyOf[d.event])
    BY IdsApart
  <2>2. EmptyId # HeaderId(d.event) /\ EmptyId # BodyId(BodyOf[d.event])
        /\ EmptyId # NoDedupeId(BodyOf[d.event], n)
    BY IdsApart
  <2> QED
    BY <1>1, <1>3, <1>8, <2>1, <2>2
<1> QED
  BY <1>4, <1>5, <1>6, <1>7, <1>8 DEF Shaped, MadeOf

LEMMA ShapedLater ==
  ASSUME NEW r, NEW n \in Nat, NEW m \in {n, n + 1}, NEW S, NEW Z, S \subseteq Z,
         Shaped(r, n, S)
  PROVE  Shaped(r, m, Z)
  BY DEF Shaped, MadeOf

LEMMA RowForIsShaped ==
  ASSUME NEW d \in Delivery, NEW n \in Nat, NEW S, Accepts(d) => d \in S
  PROVE  Shaped(RowFor(d, n), n + 1, S)
  BY RowForShaped DEF Shaped, MadeOf

-------------------------------------------------------------------------------
(* The inductive invariant.                                                 *)

LEMMA InitInv == Init => IngestInv
<1> SUFFICES ASSUME Init PROVE IngestInv
  OBVIOUS
<1>1. TypeOK
  <2>1. /\ pc \in [Handlers -> Locations] /\ row \in [Handlers -> Row]
        /\ events \in Seq(Row) /\ log \in Seq(Line)
    BY NoRowTyped DEF Init, Locations
  <2> QED
    BY <2>1 DEF Init, TypeOK
<1>2. DOMAIN events = {}
  BY DEF Init
<1>3. Made = {}
  <2>1. {g \in Handlers : pc[g] # "idle"} = {}
    BY DEF Init
  <2> QED
    BY <1>2, <2>1 DEF Made
<1>4. Kept
  BY DEF Init, Kept
<1> QED
  BY <1>1, <1>2, <1>3, <1>4 DEF Init, IngestInv, IdsTold, IdsUnique, AcknowledgedIsStored

(* What a step shows that changes neither the table nor the rows made.      *)
LEMMA MadeShrinks ==
  ASSUME IdsTold, Made' \subseteq Made, UNCHANGED <<received, seen>>
  PROVE  IdsTold'
  BY DEF IdsTold, Shaped, MadeOf, Agree

LEMMA RowsOfGrow ==
  ASSUME NEW r \in Row, events \in Seq(Row), events' = Append(events, r)
  PROVE  /\ \A e : RowsOf(e) \subseteq RowsOf(e)'
         /\ r.signature_verified => RowsOf(r.event)' # {}
         /\ {events'[i] : i \in DOMAIN events'} = {events[i] : i \in DOMAIN events} \cup {r}
<1>1. /\ DOMAIN events' = DOMAIN events \cup {Len(events) + 1}
      /\ \A i \in DOMAIN events : events'[i] = events[i]
      /\ events'[Len(events) + 1] = r
  OBVIOUS
<1>2. \A e : RowsOf(e) \subseteq RowsOf(e)'
  BY <1>1 DEF RowsOf
<1>3. r.signature_verified => Len(events) + 1 \in RowsOf(r.event)'
  BY <1>1 DEF RowsOf
<1> QED
  BY <1>1, <1>2, <1>3

LEMMA ParseKeeps ==
  ASSUME IngestInv, NEW h \in Handlers, NEW d \in Delivery, Parse(h, d)
  PROVE  IngestInv'
<1> DEFINE n == received
           r == RowFor(d, n)
<1>1. /\ pc[h] = "idle" /\ pc' = [pc EXCEPT ![h] = "parsed"]
      /\ row' = [row EXCEPT ![h] = r] /\ received' = n + 1
      /\ seen' = IF Accepts(d) THEN seen \cup {d} ELSE seen
      /\ UNCHANGED <<events, log, acked, faults>>
  BY DEF Parse, Receive, Goto
<1>2. n \in Nat /\ r \in Row /\ TypeOK
  BY RowForShaped DEF IngestInv, TypeOK
<1> HIDE DEF r
<1>3. TypeOK'
  BY <1>1, <1>2 DEF TypeOK, Locations
<1>4. Made' \subseteq Made \cup {r}
  BY <1>1, <1>2 DEF Made, TypeOK
<1>5. \A q \in Made : q \in Row /\ Shaped(q, n, seen)
  BY <1>2 DEF IngestInv, IdsTold, Made, TypeOK
<1>6. IdsTold'
  <2>1. ASSUME NEW q \in Made'
        PROVE  Shaped(q, n + 1, seen')
    <3>1. CASE q = r
      BY <1>1, <1>2, <3>1, RowForIsShaped DEF r
    <3>2. CASE q \in Made
      BY <1>1, <1>2, <1>5, <3>2, ShapedLater
    <3> QED
      BY <1>4, <3>1, <3>2
  <2>2. ASSUME NEW p \in Made', NEW q \in Made'
        PROVE  Agree(p, q)
    <3>1. Agree(r, r)
      BY DEF Agree
    <3>2. \A m \in Made : Agree(r, m) /\ Agree(m, r)
      BY <1>2, <1>5, NewRowAgrees DEF r
    <3>3. \A k, m \in Made : Agree(k, m)
      BY DEF IngestInv, IdsTold
    <3> QED
      BY <1>4, <3>1, <3>2, <3>3
  <2>3. \A q \in Made' : Shaped(q, received', seen')
    BY <1>1, <2>1
  <2> QED
    BY <2>2, <2>3 DEF IdsTold, Agree, Shaped, MadeOf
<1>7. Kept'
  <2>1. \A g \in Handlers : g # h => pc'[g] = pc[g] /\ row'[g] = row[g]
    BY <1>1, <1>2 DEF TypeOK
  <2>2. pc'[h] = "parsed"
    BY <1>1, <1>2 DEF TypeOK
  <2>3. \A e : RowsOf(e)' = RowsOf(e)
    BY <1>1 DEF RowsOf
  <2> QED
    BY <2>1, <2>2, <2>3 DEF IngestInv, Kept
<1>8. AcknowledgedIsStored' /\ IdsUnique'
  BY <1>1 DEF IngestInv, AcknowledgedIsStored, RowsOf, IdsUnique
<1> QED
  BY <1>3, <1>6, <1>7, <1>8 DEF IngestInv

LEMMA InsertKeeps ==
  ASSUME IngestInv, NEW h \in Handlers, Insert(h)
  PROVE  IngestInv'
<1> DEFINE r == row[h]
<1>1. /\ pc[h] = "parsed" /\ pc' = [pc EXCEPT ![h] = "stored"]
      /\ events' = Append(events, r) /\ r.id \notin StoredIds
      /\ UNCHANGED <<row, log, acked, seen, received, faults>>
  BY DEF Insert, Goto
<1>2. TypeOK /\ r \in Row /\ events \in Seq(Row)
  BY DEF IngestInv, TypeOK
<1>3. /\ \A e : RowsOf(e) \subseteq RowsOf(e)'
      /\ r.signature_verified => RowsOf(r.event)' # {}
      /\ {events'[i] : i \in DOMAIN events'} = {events[i] : i \in DOMAIN events} \cup {r}
  BY <1>1, <1>2, RowsOfGrow
<1>4. TypeOK'
  <2>1. events' \in Seq(Row)
    BY <1>1, <1>2
  <2> QED
    BY <1>1, <1>2, <2>1 DEF TypeOK, Locations
<1>5. Made' \subseteq Made
  <2>1. \A g \in Handlers : pc'[g] # "idle" => pc[g] # "idle" /\ row'[g] = row[g]
    BY <1>1, <1>2 DEF TypeOK
  <2>2. r \in Made
    BY <1>1 DEF Made
  <2> QED
    BY <1>3, <2>1, <2>2 DEF Made
<1>6. IdsTold'
  BY <1>1, <1>5, MadeShrinks DEF IngestInv
<1>7. Kept'
  <2>1. \A g \in Handlers : g # h => pc'[g] = pc[g] /\ row'[g] = row[g]
    BY <1>1, <1>2 DEF TypeOK
  <2>2. row'[h] = r
    BY <1>1
  <2> QED
    BY <1>3, <2>1, <2>2 DEF IngestInv, Kept
<1>8. AcknowledgedIsStored'
  BY <1>1, <1>3 DEF IngestInv, AcknowledgedIsStored
<1>9. IdsUnique'
  <2>1. /\ DOMAIN events' = DOMAIN events \cup {Len(events) + 1}
        /\ \A i \in DOMAIN events : events'[i] = events[i] /\ events[i].id # r.id
        /\ events'[Len(events) + 1] = r
    BY <1>1, <1>2 DEF StoredIds
  <2> QED
    BY <2>1 DEF IngestInv, IdsUnique
<1> QED
  BY <1>4, <1>6, <1>7, <1>8, <1>9 DEF IngestInv

(* The row that is there already is about the same event.                   *)
LEMMA InsertLosesKeeps ==
  ASSUME IngestInv, NEW h \in Handlers, InsertLoses(h)
  PROVE  IngestInv'
<1> DEFINE r == row[h]
<1>1. /\ pc[h] = "parsed" /\ pc' = [pc EXCEPT ![h] = "found"]
      /\ r.id \in StoredIds
      /\ UNCHANGED <<row, events, log, acked, seen, received, faults>>
  BY DEF InsertLoses, Goto
<1>2. TypeOK
  BY DEF IngestInv
<1>3. TypeOK'
  BY <1>1, <1>2 DEF TypeOK, Locations
<1>4. \A g \in Handlers : pc'[g] # "idle" => pc[g] # "idle" /\ row'[g] = row[g]
  BY <1>1, <1>2 DEF TypeOK
<1>5. Made' \subseteq Made
  BY <1>1, <1>4 DEF Made
<1>6. IdsTold'
  BY <1>1, <1>5, MadeShrinks DEF IngestInv
<1>7. r.signature_verified /\ r.event \notin Nameless => RowsOf(r.event) # {}
  <2>1. PICK i \in DOMAIN events : events[i].id = r.id
    BY <1>1 DEF StoredIds
  <2>2. events[i] \in Made /\ r \in Made
    BY <1>1 DEF Made
  <2>3. Agree(r, events[i])
    BY <2>2 DEF IngestInv, IdsTold
  <2>4. SUFFICES ASSUME r.signature_verified, r.event \notin Nameless
                 PROVE  i \in RowsOf(r.event)
    BY <2>1
  <2>5. r.event = events[i].event /\ r.signature_verified = events[i].signature_verified
    BY <2>1, <2>3, <2>4 DEF Agree
  <2> QED
    BY <2>1, <2>4, <2>5 DEF RowsOf
<1>8. Kept'
  <2>1. \A g \in Handlers : g # h => pc'[g] = pc[g]
    BY <1>1, <1>2 DEF TypeOK
  <2>2. \A e : RowsOf(e)' = RowsOf(e)
    BY <1>1 DEF RowsOf
  <2> QED
    BY <1>1, <1>7, <2>1, <2>2 DEF IngestInv, Kept
<1>9. AcknowledgedIsStored' /\ IdsUnique'
  BY <1>1 DEF IngestInv, AcknowledgedIsStored, RowsOf, IdsUnique
<1> QED
  BY <1>3, <1>6, <1>8, <1>9 DEF IngestInv

LEMMA RecordKeeps ==
  ASSUME IngestInv, NEW h \in Handlers, Record(h)
  PROVE  IngestInv'
<1>1. /\ pc[h] \in {"stored", "found"} /\ pc' = [pc EXCEPT ![h] = "recorded"]
      /\ log' = Append(log, [row |-> row[h], duplicate |-> pc[h] = "found"])
      /\ UNCHANGED <<row, events, acked, seen, received, faults>>
  BY DEF Record, Goto
<1>2. TypeOK /\ row[h] \in Row
  BY DEF IngestInv, TypeOK
<1>3. TypeOK'
  <2>1. [row |-> row[h], duplicate |-> pc[h] = "found"] \in Line /\ log \in Seq(Line)
    BY <1>2 DEF TypeOK, Line
  <2>2. log' \in Seq(Line)
    BY <1>1, <2>1
  <2> QED
    BY <1>1, <1>2, <2>2 DEF TypeOK, Locations
<1>4. \A g \in Handlers : pc'[g] # "idle" => pc[g] # "idle" /\ row'[g] = row[g]
  BY <1>1, <1>2 DEF TypeOK
<1>5. IdsTold'
  <2>1. Made' \subseteq Made
    BY <1>1, <1>4 DEF Made
  <2> QED
    BY <1>1, <2>1, MadeShrinks DEF IngestInv
<1>6. \A g \in Handlers : pc'[g] \in {"stored", "found", "recorded"}
                           => pc[g] \in {"stored", "found", "recorded"}
  BY <1>1, <1>2 DEF TypeOK
<1>7. Kept' /\ AcknowledgedIsStored' /\ IdsUnique'
  BY <1>1, <1>6 DEF IngestInv, Kept, AcknowledgedIsStored, RowsOf, IdsUnique
<1> QED
  BY <1>3, <1>5, <1>7 DEF IngestInv

(* A handler that is done, whether it has answered or died.                 *)
LEMMA FinishKeeps ==
  ASSUME IngestInv, NEW h \in Handlers, Finish(h),
         acked' \subseteq Events, \A e \in acked' \ Nameless : RowsOf(e) # {},
         faults' \in Nat, UNCHANGED <<events, log, seen, received>>
  PROVE  IngestInv'
<1>1. pc' = [pc EXCEPT ![h] = "idle"] /\ row' = [row EXCEPT ![h] = NoRow]
  BY DEF Finish, Goto
<1>2. TypeOK
  BY DEF IngestInv
<1>3. TypeOK'
  BY <1>1, <1>2, NoRowTyped DEF TypeOK, Locations
<1>4. \A g \in Handlers : pc'[g] # "idle" => pc'[g] = pc[g] /\ row'[g] = row[g]
  BY <1>1, <1>2 DEF TypeOK
<1>5. IdsTold'
  <2>1. Made' \subseteq Made
    BY <1>4 DEF Made
  <2> QED
    BY <2>1, MadeShrinks DEF IngestInv
<1>6. Kept' /\ AcknowledgedIsStored' /\ IdsUnique'
  BY <1>4 DEF IngestInv, Kept, AcknowledgedIsStored, RowsOf, IdsUnique
<1> QED
  BY <1>3, <1>5, <1>6 DEF IngestInv

LEMMA RespondAndDieKeep ==
  ASSUME IngestInv, NEW h \in Handlers, Respond(h) \/ Die(h)
  PROVE  IngestInv'
<1>1. row[h].event \in Events
  BY DEF IngestInv, TypeOK, Row
<1>2. acked' \subseteq Events /\ \A e \in acked' \ Nameless : RowsOf(e) # {}
  BY <1>1 DEF Respond, Die, IngestInv, TypeOK, Kept, AcknowledgedIsStored
<1>3. /\ Finish(h) /\ faults' \in Nat
      /\ UNCHANGED <<events, log, seen, received>>
  BY DEF Respond, Die, IngestInv, TypeOK
<1> QED
  BY <1>2, <1>3, FinishKeeps

LEMMA RaiseKeeps ==
  ASSUME IngestInv, NEW h \in Handlers, NEW d \in Delivery, Raise(h, d)
  PROVE  IngestInv'
<1>1. /\ received' = received + 1
      /\ UNCHANGED <<pc, row, events, log, acked, seen, faults>>
  BY DEF Raise, Receive
<1>2. TypeOK /\ received \in Nat
  BY DEF IngestInv, TypeOK
<1>3. TypeOK'
  BY <1>1, <1>2 DEF TypeOK
<1>4. IdsTold'
  <2>1. Made' = Made
    BY <1>1 DEF Made
  <2>2. \A r \in Made : Shaped(r, received + 1, seen)
    BY <1>2, ShapedLater DEF IngestInv, IdsTold
  <2>3. \A r \in Made' : Shaped(r, received', seen')
    BY <1>1, <2>1, <2>2
  <2>4. \A r, q \in Made' : Agree(r, q)
    BY <2>1 DEF IngestInv, IdsTold
  <2> QED
    BY <2>3, <2>4 DEF IdsTold, Agree, Shaped, MadeOf
<1>5. Kept' /\ AcknowledgedIsStored' /\ IdsUnique'
  BY <1>1 DEF IngestInv, Kept, AcknowledgedIsStored, RowsOf, IdsUnique
<1> QED
  BY <1>3, <1>4, <1>5 DEF IngestInv

LEMMA NextInv ==
  ASSUME IngestInv, [Next]_vars
  PROVE  IngestInv'
<1>1. CASE UNCHANGED vars
  <2>1. Made' = Made
    BY <1>1 DEF vars, Made
  <2>2. IdsTold'
    BY <1>1, <2>1, MadeShrinks DEF vars, IngestInv
  <2> QED
    BY <1>1, <2>2 DEF vars, IngestInv, TypeOK, Kept, AcknowledgedIsStored, RowsOf, IdsUnique
<1>2. ASSUME NEW h \in Handlers, Serve(h)
      PROVE  IngestInv'
  BY <1>2, InsertKeeps, InsertLosesKeeps, RecordKeeps, RespondAndDieKeep DEF Serve
<1>3. ASSUME NEW h \in Handlers, Die(h)
      PROVE  IngestInv'
  BY <1>3, RespondAndDieKeep
<1> QED
  BY <1>1, <1>2, <1>3, ParseKeeps, RaiseKeeps DEF Next

-------------------------------------------------------------------------------
(* The inductive invariant holds in every state.                            *)
THEOREM IngestInvariance == Spec => []IngestInv
<1>1. IngestInv /\ [Next]_vars => IngestInv'
  BY NextInv
<1> QED
  BY <1>1, InitInv, PTL DEF Spec

(* Every variable of the endpoint keeps its type.                           *)
THEOREM IngestTypeCorrect == Spec => []TypeOK
<1>1. IngestInv => TypeOK
  BY DEF IngestInv
<1> QED
  BY <1>1, IngestInvariance, PTL

(* An event whose sender was told 200 has a verified row of its own, unless *)
(* its id header may arrive empty.                                          *)
THEOREM NoEventCollapses == Spec => []AcknowledgedIsStored
<1>1. IngestInv => AcknowledgedIsStored
  BY DEF IngestInv
<1> QED
  BY <1>1, IngestInvariance, PTL

(* A form that tells an event apart gives all its rows one id.              *)
LEMMA OneFormOneRow ==
  ASSUME IngestInv
  PROVE  RedeliveriesAddNothing
<1>1. \A i \in DOMAIN events : events[i] \in Row /\ Shaped(events[i], received, seen)
  BY DEF IngestInv, IdsTold, Made, TypeOK
<1>2. ASSUME NEW e \in Events, NEW i \in RowsOf(e), NEW j \in RowsOf(e),
             FormsOf(e) = {"present"} \/ (FormsOf(e) = {"absent"} /\ BodyOf[e] \in Distinguishing)
      PROVE  i = j
  <2>1. ASSUME NEW k \in RowsOf(e)
        PROVE  /\ k \in DOMAIN events
               /\ FormsOf(e) = {"present"} => events[k].id = HeaderId(e)
               /\ FormsOf(e) = {"absent"} => events[k].id = BodyId(BodyOf[e])
    <3>1. k \in DOMAIN events /\ events[k].event = e /\ events[k].signature_verified
      BY DEF RowsOf
    <3>2. PICK d \in seen : MadeOf(d, events[k], received)
      BY <1>1, <3>1 DEF Shaped
    <3>3. d.header \in FormsOf(e)
      BY <3>1, <3>2 DEF FormsOf, MadeOf
    <3> QED
      BY <1>2, <3>1, <3>2, <3>3 DEF MadeOf
  <2>2. events[i].id = events[j].id /\ i \in DOMAIN events /\ j \in DOMAIN events
    BY <1>2, <2>1
  <2> QED
    BY <2>2 DEF IngestInv, IdsUnique
<1>3. ASSUME NEW i \in DOMAIN events, NEW j \in DOMAIN events,
             ~events[i].signature_verified, ~events[j].signature_verified,
             BodyOf[events[i].event] = BodyOf[events[j].event]
      PROVE  i = j
  <2>1. events[i].id = events[j].id
    BY <1>1, <1>3 DEF Shaped
  <2> QED
    BY <2>1 DEF IngestInv, IdsUnique
<1> QED
  BY <1>2, <1>3 DEF RedeliveriesAddNothing

(* However many deliveries race, an event delivered in one form that tells  *)
(* it apart has one verified row, and a rejected body has one.              *)
THEOREM RowsDoNotRepeat == Spec => []RedeliveriesAddNothing
<1>1. IngestInv => RedeliveriesAddNothing
  BY OneFormOneRow
<1> QED
  BY <1>1, IngestInvariance, PTL

-------------------------------------------------------------------------------
(* The log.                                                                 *)

Storing == {h \in Handlers : pc[h] = "stored"}

LogInv ==
  /\ \A k \in DOMAIN log : log[k].row.id \in StoredIds
  /\ \A k, m \in DOMAIN log :
       ~log[k].duplicate /\ ~log[m].duplicate /\ log[k].row.id = log[m].row.id => k = m
  /\ \A h \in Handlers : pc[h] \in {"stored", "found"} => row[h].id \in StoredIds
  /\ \A h \in Storing, k \in DOMAIN log : log[k].row.id = row[h].id => log[k].duplicate
  /\ \A g, h \in Storing : row[g].id = row[h].id => g = h
  /\ \A h \in Handlers : pc[h] = "recorded" /\ row[h].signature_verified =>
       \E k \in DOMAIN log : log[k].row.event = row[h].event /\ log[k].row.signature_verified
  /\ \A e \in acked : \E k \in DOMAIN log :
       log[k].row.event = e /\ log[k].row.signature_verified
  /\ Cardinality(Unannounced) <= faults + Cardinality(Storing)

LEMMA Countable ==
  ASSUME TypeOK
  PROVE  /\ IsFiniteSet(Storing) /\ IsFiniteSet(Unannounced)
         /\ Cardinality(Storing) \in Nat /\ Cardinality(Unannounced) \in Nat
<1>1. IsFiniteSet(1 .. Len(events)) /\ Len(events) \in Nat /\ DOMAIN events = 1 .. Len(events)
  BY FS_Interval DEF TypeOK
<1>2. IsFiniteSet(Storing) /\ IsFiniteSet(Unannounced)
  BY <1>1, HandlersAssumption, FS_Subset DEF Storing, Unannounced
<1> QED
  BY <1>2, FS_CardinalityType

LEMMA LogInit == Init => LogInv
<1> SUFFICES ASSUME Init PROVE LogInv
  OBVIOUS
<1>1. Storing = {} /\ Unannounced = {} /\ DOMAIN log = {} /\ acked = {} /\ faults = 0
  BY DEF Init, Storing, Unannounced
<1>2. \A h \in Handlers : pc[h] = "idle"
  BY DEF Init
<1>3. Cardinality({}) = 0
  BY FS_EmptySet
<1>4. Cardinality(Unannounced) <= faults + Cardinality(Storing)
  BY <1>1, <1>3
<1> QED
  BY <1>1, <1>2, <1>4 DEF LogInv

(* A step that leaves the table and the log alone.                          *)
LEMMA LogUntouched ==
  ASSUME LogInv, UNCHANGED <<events, log>>,
         \A g \in Handlers :
           /\ pc'[g] = "stored" => pc[g] = "stored" /\ row'[g] = row[g]
           /\ pc'[g] = "found" => row'[g].id \in StoredIds
           /\ pc'[g] = "recorded" => pc[g] = "recorded" /\ row'[g] = row[g],
         \A e \in acked' : \E k \in DOMAIN log :
           log[k].row.event = e /\ log[k].row.signature_verified,
         Cardinality(Unannounced) <= faults' + Cardinality(Storing')
  PROVE  LogInv'
<1>1. /\ StoredIds' = StoredIds /\ Unannounced' = Unannounced
      /\ \A r : NewLines(r)' = NewLines(r)
  BY DEF StoredIds, Unannounced, NewLines
<1>2. Storing' \subseteq Storing /\ \A h \in Storing' : row'[h] = row[h]
  BY DEF Storing
<1>3. /\ \A k \in DOMAIN log' : log'[k].row.id \in StoredIds'
      /\ \A k, m \in DOMAIN log' :
           ~log'[k].duplicate /\ ~log'[m].duplicate /\ log'[k].row.id = log'[m].row.id => k = m
  BY <1>1 DEF LogInv
<1>4. \A h \in Handlers : pc'[h] \in {"stored", "found"} => row'[h].id \in StoredIds'
  BY <1>1 DEF LogInv
<1>5. \A g, h \in Storing' : row'[g].id = row'[h].id => g = h
  BY <1>2 DEF LogInv
<1>6. \A h \in Storing', k \in DOMAIN log' : log'[k].row.id = row'[h].id => log'[k].duplicate
  BY <1>2 DEF LogInv
<1>8. Cardinality(Unannounced)' <= faults' + Cardinality(Storing)'
  BY <1>1
<1>9. \A h \in Handlers : pc'[h] = "recorded" /\ row'[h].signature_verified =>
        \E k \in DOMAIN log' : log'[k].row.event = row'[h].event /\ log'[k].row.signature_verified
  BY DEF LogInv
<1> QED
  BY <1>3, <1>4, <1>5, <1>6, <1>8, <1>9 DEF LogInv

LEMMA InsertKeepsLog ==
  ASSUME IngestInv, LogInv, NEW h \in Handlers, Insert(h)
  PROVE  LogInv'
<1> DEFINE r == row[h]
           n == Len(events) + 1
<1>1. /\ pc[h] = "parsed" /\ pc' = [pc EXCEPT ![h] = "stored"]
      /\ events' = Append(events, r) /\ r.id \notin StoredIds
      /\ UNCHANGED <<row, log, acked, faults>>
  BY DEF Insert, Goto
<1>2. TypeOK /\ events \in Seq(Row) /\ r \in Row
  BY DEF IngestInv, TypeOK
<1>3. /\ DOMAIN events' = DOMAIN events \cup {n} /\ n \notin DOMAIN events
      /\ \A i \in DOMAIN events : events'[i] = events[i]
      /\ events'[n] = r
  BY <1>1, <1>2
<1>4. StoredIds' = StoredIds \cup {r.id}
  BY <1>3 DEF StoredIds
<1>5. \A x : NewLines(x)' = NewLines(x)
  BY <1>1 DEF NewLines
<1>6. /\ Storing' = Storing \cup {h} /\ h \notin Storing
      /\ \A g \in Handlers : g # h => pc'[g] = pc[g]
      /\ pc'[h] = "stored"
  BY <1>1, <1>2 DEF Storing, TypeOK
<1>7. NewLines(r) = {}
  BY <1>1 DEF LogInv, NewLines
<1>8. Unannounced' = Unannounced \cup {n} /\ n \notin Unannounced
  BY <1>3, <1>5, <1>7 DEF Unannounced
<1>9. /\ Cardinality(Storing') = Cardinality(Storing) + 1
      /\ Cardinality(Unannounced') = Cardinality(Unannounced) + 1
  BY <1>2, <1>6, <1>8, Countable, FS_AddElement
<1>10. Cardinality(Unannounced)' <= faults' + Cardinality(Storing)'
  <2>1. faults \in Nat /\ faults' = faults
    BY <1>1, <1>2 DEF TypeOK
  <2>2. Cardinality(Unannounced) <= faults + Cardinality(Storing)
    BY DEF LogInv
  <2> QED
    BY <1>2, <1>9, <2>1, <2>2, Countable
<1>11. \A g \in Handlers : pc'[g] \in {"stored", "found"} => row'[g].id \in StoredIds'
  BY <1>1, <1>4, <1>6 DEF LogInv
<1>12. \A g \in Storing', k \in DOMAIN log' : log'[k].row.id = row'[g].id => log'[k].duplicate
  <2>1. \A k \in DOMAIN log : log[k].row.id # r.id
    BY <1>1 DEF LogInv
  <2> QED
    BY <1>1, <1>6, <2>1 DEF LogInv
<1>13. \A f, g \in Storing' : row'[f].id = row'[g].id => f = g
  <2>1. \A g \in Storing : row[g].id # r.id
    BY <1>1 DEF LogInv, Storing
  <2> QED
    BY <1>1, <1>6, <2>1 DEF LogInv
<1>14. \A k \in DOMAIN log' : log'[k].row.id \in StoredIds'
  BY <1>1, <1>4 DEF LogInv
<1>15. \A g \in Handlers : pc'[g] = "recorded" => pc[g] = "recorded"
  BY <1>6
<1> QED
  BY <1>1, <1>10, <1>11, <1>12, <1>13, <1>14, <1>15 DEF LogInv

LEMMA RecordKeepsLog ==
  ASSUME IngestInv, LogInv, NEW h \in Handlers, Record(h)
  PROVE  LogInv'
<1> DEFINE r == row[h]
           n == Len(log) + 1
           duplicate == pc[h] = "found"
<1>1. /\ pc[h] \in {"stored", "found"} /\ pc' = [pc EXCEPT ![h] = "recorded"]
      /\ log' = Append(log, [row |-> r, duplicate |-> duplicate])
      /\ UNCHANGED <<row, events, acked, faults>>
  BY DEF Record, Goto
<1>2. TypeOK /\ r \in Row /\ log \in Seq(Line)
  BY DEF IngestInv, TypeOK
<1>3. /\ DOMAIN log' = DOMAIN log \cup {n} /\ n \notin DOMAIN log
      /\ \A k \in DOMAIN log : log'[k] = log[k]
      /\ log'[n].row = r /\ log'[n].duplicate = duplicate
  <2>1. [row |-> r, duplicate |-> duplicate] \in Line
    BY <1>2 DEF Line
  <2>2. /\ DOMAIN log' = DOMAIN log \cup {n} /\ n \notin DOMAIN log
        /\ \A k \in DOMAIN log : log'[k] = log[k]
        /\ log'[n] = [row |-> r, duplicate |-> duplicate]
    BY <1>1, <1>2, <2>1
  <2> QED
    BY <2>2
<1>4. StoredIds' = StoredIds /\ r.id \in StoredIds
  BY <1>1 DEF StoredIds, LogInv
<1>5. /\ pc'[h] = "recorded" /\ \A g \in Handlers : g # h => pc'[g] = pc[g]
      /\ Storing' = Storing \ {h}
      /\ h \in Storing <=> ~duplicate
  BY <1>1, <1>2 DEF Storing, TypeOK
<1>6. \A x : NewLines(x)' = IF x.id = r.id /\ ~duplicate THEN NewLines(x) \cup {n}
                           ELSE NewLines(x)
  BY <1>3 DEF NewLines
<1>7. ~duplicate => \A k \in DOMAIN log : log[k].row.id = r.id => log[k].duplicate
  BY <1>5 DEF LogInv
<1> HIDE DEF r, n, duplicate
<1>8. \A k, m \in DOMAIN log' :
        ~log'[k].duplicate /\ ~log'[m].duplicate /\ log'[k].row.id = log'[m].row.id => k = m
  BY <1>3, <1>7 DEF LogInv
<1>9. \A g \in Storing', k \in DOMAIN log' : log'[k].row.id = row'[g].id => log'[k].duplicate
  <2>1. \A g \in Storing' : g \in Storing /\ g # h
    BY <1>5
  <2>2. ~duplicate => \A g \in Storing' : row[g].id # r.id
    BY <1>5, <2>1 DEF LogInv, r
  <2> QED
    BY <1>1, <1>3, <2>1, <2>2 DEF LogInv
<1>10. Cardinality(Unannounced)' <= faults' + Cardinality(Storing)'
  <2>1. Cardinality(Unannounced) <= faults + Cardinality(Storing) /\ faults \in Nat /\ faults' = faults
    BY <1>1, <1>2 DEF LogInv, TypeOK
  <2>2. CASE duplicate
    <3>1. Unannounced' = Unannounced
      BY <1>1, <1>6, <2>2 DEF Unannounced
    <3>2. Storing' = Storing
      BY <1>5, <2>2
    <3> QED
      BY <2>1, <3>1, <3>2
  <2>3. CASE ~duplicate
    <3>1. PICK i \in DOMAIN events : events[i].id = r.id
      BY <1>4 DEF StoredIds
    <3>2. \A j \in DOMAIN events : events[j].id = r.id => j = i
      BY <3>1 DEF IngestInv, IdsUnique
    <3>3. i \in Unannounced
      BY <1>7, <2>3, <3>1 DEF Unannounced, NewLines
    <3>4. Unannounced' = Unannounced \ {i}
      BY <1>1, <1>6, <2>3, <3>1, <3>2 DEF Unannounced
    <3>5. /\ Cardinality(Storing') = Cardinality(Storing) - 1
          /\ Cardinality(Unannounced') = Cardinality(Unannounced) - 1
      BY <1>2, <1>5, <2>3, <3>3, <3>4, Countable, FS_RemoveElement
    <3> QED
      BY <1>2, <2>1, <3>5, Countable
  <2> QED
    BY <2>2, <2>3
<1>11. \A g \in Handlers : pc'[g] = "recorded" /\ row'[g].signature_verified =>
         \E k \in DOMAIN log' : log'[k].row.event = row'[g].event /\ log'[k].row.signature_verified
  <2>1. ASSUME NEW g \in Handlers, g # h, pc'[g] = "recorded", row'[g].signature_verified
        PROVE  \E k \in DOMAIN log : log[k].row.event = row'[g].event /\ log[k].row.signature_verified
    BY <1>1, <1>5, <2>1 DEF LogInv
  <2>2. n \in DOMAIN log' /\ log'[n].row = row'[h]
    BY <1>1, <1>3 DEF r
  <2> QED
    BY <1>3, <2>1, <2>2
<1>12. \A e \in acked' : \E k \in DOMAIN log' :
         log'[k].row.event = e /\ log'[k].row.signature_verified
  BY <1>1, <1>3 DEF LogInv
<1>13. \A k \in DOMAIN log' : log'[k].row.id \in StoredIds'
  BY <1>3, <1>4 DEF LogInv
<1>14. \A g \in Handlers : pc'[g] \in {"stored", "found"} => row'[g].id \in StoredIds'
  BY <1>1, <1>4, <1>5 DEF LogInv
<1>15. \A f, g \in Storing' : row'[f].id = row'[g].id => f = g
  BY <1>1, <1>5 DEF LogInv
<1> QED
  BY <1>8, <1>9, <1>10, <1>11, <1>12, <1>13, <1>14, <1>15 DEF LogInv

LEMMA RestKeepsLog ==
  ASSUME IngestInv, LogInv, NEW h \in Handlers,
         \/ \E d \in Delivery : Parse(h, d) \/ Raise(h, d)
         \/ InsertLoses(h) \/ Respond(h) \/ Die(h)
  PROVE  LogInv'
<1>1. /\ TypeOK /\ UNCHANGED <<events, log>>
      /\ pc' \in [Handlers -> Locations] /\ row' \in [Handlers -> Row]
  <2>1. IngestInv'
    BY NextInv DEF Next, Serve
  <2> QED
    BY <2>1 DEF IngestInv, TypeOK, Parse, Raise, InsertLoses, Respond, Die
<1>2. \A g \in Handlers : g # h => pc'[g] = pc[g] /\ row'[g] = row[g]
  BY <1>1 DEF TypeOK, Parse, Raise, InsertLoses, Respond, Die, Finish, Goto
<1>3. /\ pc'[h] = "stored" => pc[h] = "stored" /\ row'[h] = row[h]
      /\ pc'[h] = "found" => row'[h].id \in StoredIds
      /\ pc'[h] = "recorded" => pc[h] = "recorded" /\ row'[h] = row[h]
  <2>1. CASE \E d \in Delivery : Parse(h, d)
    BY <1>1, <2>1 DEF TypeOK, Parse, Goto
  <2>2. CASE \E d \in Delivery : Raise(h, d)
    BY <2>2 DEF Raise, LogInv
  <2>3. CASE InsertLoses(h)
    BY <1>1, <2>3 DEF TypeOK, InsertLoses, Goto
  <2>4. CASE Respond(h) \/ Die(h)
    BY <1>1, <2>4 DEF TypeOK, Respond, Die, Finish, Goto
  <2> QED
    BY <2>1, <2>2, <2>3, <2>4
<1>4. \A g \in Handlers :
        /\ pc'[g] = "stored" => pc[g] = "stored" /\ row'[g] = row[g]
        /\ pc'[g] = "found" => row'[g].id \in StoredIds
        /\ pc'[g] = "recorded" => pc[g] = "recorded" /\ row'[g] = row[g]
  BY <1>2, <1>3 DEF LogInv
<1>5. \A e \in acked' : \E k \in DOMAIN log :
        log[k].row.event = e /\ log[k].row.signature_verified
  <2>1. UNCHANGED acked \/ Respond(h)
    BY DEF Parse, Raise, InsertLoses, Die
  <2>2. CASE Respond(h)
    BY <2>2 DEF Respond, LogInv
  <2> QED
    BY <2>1, <2>2 DEF LogInv
<1>6. Cardinality(Unannounced) <= faults' + Cardinality(Storing')
  <2>1. faults \in Nat /\ Cardinality(Unannounced) <= faults + Cardinality(Storing)
    BY <1>1 DEF TypeOK, LogInv
  <2>2. CASE Die(h)
    <3>1. faults' = faults + 1 /\ Storing' = Storing \ {h}
      BY <1>1, <2>2 DEF Die, Finish, Goto, Storing, TypeOK
    <3>2. \/ Cardinality(Storing \ {h}) = Cardinality(Storing) - 1
          \/ Cardinality(Storing \ {h}) = Cardinality(Storing)
      BY <1>1, Countable, FS_RemoveElement
    <3> QED
      BY <1>1, <2>1, <3>1, <3>2, Countable
  <2>3. CASE ~Die(h)
    <3>1. UNCHANGED faults
      BY <2>3 DEF Parse, Raise, InsertLoses, Respond
    <3>2. (pc'[h] = "stored") <=> (pc[h] = "stored")
      BY <1>1, <2>3 DEF TypeOK, Parse, Raise, InsertLoses, Respond, Finish, Goto
    <3>3. Storing' = Storing
      BY <1>2, <3>2 DEF Storing
    <3> QED
      BY <2>1, <3>1, <3>3
  <2> QED
    BY <2>2, <2>3
<1> QED
  BY <1>1, <1>4, <1>5, <1>6, LogUntouched

(* Rows not logged as new are those of handlers that have died or are about *)
(* to log them, and every acknowledged event is in the log.                 *)
THEOREM TheLogAccountsForTheTable == Spec => []LogAccountsForTable
<1>1. LogInv => LogAccountsForTable
  <2> SUFFICES ASSUME LogInv PROVE LogAccountsForTable
    OBVIOUS
  <2>1. \A i \in DOMAIN events : \A k, m \in NewLines(events[i]) : k = m
    BY DEF LogInv, NewLines
  <2> QED
    BY <2>1 DEF LogInv, LogAccountsForTable, Storing
<1>2. IngestInv /\ LogInv /\ [Next]_vars => LogInv'
  <2> SUFFICES ASSUME IngestInv, LogInv, [Next]_vars PROVE LogInv'
    OBVIOUS
  <2>1. CASE UNCHANGED vars
    BY <2>1 DEF vars, LogInv, StoredIds, Unannounced, NewLines, Storing
  <2> QED
    BY <2>1, InsertKeepsLog, RecordKeepsLog, RestKeepsLog DEF Next, Serve
<1> QED
  BY <1>1, <1>2, LogInit, IngestInvariance, PTL DEF Spec

-------------------------------------------------------------------------------
(* For the events whose id header is never empty, every step of the endpoint*)
(* records an event, acknowledges one on record, or stutters.               *)
THEOREM EndpointImplementsInbox == Spec => ImplementsInbox
<1> DEFINE recorded == {e \in Events \ Nameless : RowsOf(e) # {}}
           acknowledged == acked \ Nameless
<1>1. Init => Promise!Init
  BY DEF Init, Promise!Init, RowsOf
<1>2. ASSUME IngestInv, [Next]_vars
      PROVE  [Promise!Next]_<<recorded, acknowledged>>
  <2>1. ASSUME UNCHANGED <<events, acked>>
        PROVE  UNCHANGED <<recorded, acknowledged>>
    BY <2>1 DEF RowsOf
  <2>2. ASSUME NEW h \in Handlers, Insert(h)
        PROVE  [Promise!Next]_<<recorded, acknowledged>>
    <3>1. row[h] \in Row /\ events \in Seq(Row) /\ events' = Append(events, row[h])
          /\ UNCHANGED acked
      BY <1>2, <2>2 DEF Insert, IngestInv, TypeOK
    <3>2. /\ DOMAIN events' = DOMAIN events \cup {Len(events) + 1}
          /\ \A i \in DOMAIN events : events'[i] = events[i]
          /\ events'[Len(events) + 1] = row[h]
      BY <3>1
    <3>3. \A e : e # row[h].event => RowsOf(e)' = RowsOf(e)
      BY <3>2 DEF RowsOf
    <3>4. /\ \A e : RowsOf(e) \subseteq RowsOf(e)'
          /\ row[h].event \in Events
      BY <3>1, RowsOfGrow DEF Row
    <3>5. \/ recorded' = recorded
          \/ row[h].event \in Events \ Nameless /\ recorded' = recorded \cup {row[h].event}
      BY <3>3, <3>4
    <3>6. acknowledged' = acknowledged
      BY <3>1
    <3>7. \/ recorded' = recorded
          \/ row[h].event \in Events \ Nameless /\ Promise!Record(row[h].event)
      BY <3>5, <3>6 DEF Promise!Record
    <3> HIDE DEF recorded, acknowledged
    <3> QED
      BY <3>6, <3>7 DEF Promise!Next
  <2>3. ASSUME NEW h \in Handlers, Respond(h)
        PROVE  [Promise!Next]_<<recorded, acknowledged>>
    <3>1. row[h].event \in Events /\ UNCHANGED events /\ pc[h] = "recorded"
          /\ acked' = IF row[h].signature_verified THEN acked \cup {row[h].event} ELSE acked
      BY <1>2, <2>3 DEF Respond, IngestInv, TypeOK, Row
    <3>2. \/ acknowledged' = acknowledged
          \/ /\ row[h].event \in Events \ Nameless /\ row[h].signature_verified
             /\ acknowledged' = acknowledged \cup {row[h].event}
      BY <3>1
    <3>3. row[h].signature_verified /\ row[h].event \in Events \ Nameless
            => row[h].event \in recorded
      BY <1>2, <3>1 DEF IngestInv, Kept
    <3>4. recorded' = recorded
      BY <3>1 DEF RowsOf
    <3>5. \/ acknowledged' = acknowledged
          \/ row[h].event \in Events \ Nameless /\ Promise!Acknowledge(row[h].event)
      BY <3>2, <3>3, <3>4 DEF Promise!Acknowledge
    <3> HIDE DEF recorded, acknowledged
    <3> QED
      BY <3>4, <3>5 DEF Promise!Next
  <2>7. ASSUME NEW h \in Handlers, InsertLoses(h) \/ Record(h) \/ Die(h)
                                   \/ \E d \in Delivery : Parse(h, d) \/ Raise(h, d)
        PROVE  UNCHANGED <<events, acked>>
    BY <2>7 DEF InsertLoses, Record, Die, Parse, Raise
  <2> QED
    BY <1>2, <2>1, <2>2, <2>3, <2>7 DEF Next, Serve, vars
<1>3. Spec => []IngestInv
  BY IngestInvariance
<1> QED
  BY <1>1, <1>2, <1>3, PTL DEF Spec, ImplementsInbox, Promise!Spec

-------------------------------------------------------------------------------
(* Every delivery is answered, or its handler dies.                         *)

(* A handler that has a delivery dies or takes its next step, sooner or     *)
(* later: the weak fairness of FairSpec with "has a delivery" written out   *)
(* where WF has ENABLED.  Serve has an action for every place such a handler*)
(* can be at, and at "parsed" for either answer of the UNIQUE constraint.   *)
GoesOn(h) == <>(pc[h] = "idle") \/ <><<Serve(h)>>_vars
AllGoOn == \A h \in Handlers : GoesOn(h)

LEMMA WeakFairnessGoesOn ==
  ASSUME NEW h \in Handlers
  PROVE  WF_vars(Serve(h)) /\ [](pc[h] # "idle" => ENABLED <<Serve(h)>>_vars) => []GoesOn(h)
<1>1. pc[h] # "idle" <=> ~(pc[h] = "idle")
  OBVIOUS
<1> QED
  BY <1>1, PTL DEF GoesOn

(* Where a step of its own takes a handler.                                 *)
Left == [parsed |-> {"stored", "found"}, stored |-> {"recorded"}, found |-> {"recorded"},
         recorded |-> {"idle"}]

LEMMA Forward ==
  ASSUME TypeOK, NEW h \in Handlers, pc[h] # "idle", [Next]_vars
  PROVE  /\ pc'[h] \in {pc[h], "idle"} \cup Left[pc[h]]
         /\ <<Serve(h)>>_vars => pc'[h] \in Left[pc[h]]
<1>1. ASSUME NEW g \in Handlers, Serve(g)
      PROVE  /\ g = h => pc'[h] \in Left[pc[h]]
             /\ g # h => pc'[h] = pc[h]
  BY <1>1 DEF Serve, Insert, InsertLoses, Record, Respond, Finish, Goto, Left, TypeOK
<1>2. ASSUME NEW g \in Handlers, Die(g)
      PROVE  pc'[h] \in {pc[h], "idle"}
  BY <1>2 DEF Die, Finish, Goto, TypeOK
<1>3. ASSUME NEW g \in Handlers, NEW d \in Delivery, Parse(g, d) \/ Raise(g, d)
      PROVE  pc'[h] = pc[h]
  BY <1>3 DEF Parse, Raise, Goto, TypeOK
<1>4. UNCHANGED vars => pc'[h] = pc[h]
  BY DEF vars
<1> QED
  BY <1>1, <1>2, <1>3, <1>4 DEF Next

(* Every handler returns, in every behaviour in which handlers that have a  *)
(* delivery go on: losing the race for the row, or finding a row that is not*)
(* logged yet, makes nobody wait for anybody.                               *)
THEOREM EveryHandlerReturns == Spec /\ []AllGoOn => HandlersReturn
<1> SUFFICES ASSUME NEW h \in Handlers
             PROVE  Spec /\ []AllGoOn => (pc[h] # "idle" ~> pc[h] = "idle")
  BY DEF HandlersReturn
<1> DEFINE Parsed == pc[h] = "parsed"
           Told == pc[h] \in {"stored", "found"}
           Recorded == pc[h] = "recorded"
           Out == pc[h] = "idle"
<1>1. TypeOK /\ [Next]_vars =>
        /\ Parsed => (Parsed \/ Told \/ Out)'
        /\ Told => (Told \/ Recorded \/ Out)'
        /\ Recorded => (Recorded \/ Out)'
  BY Forward DEF Left
<1>2. TypeOK /\ [Next]_vars /\ <<Serve(h)>>_vars =>
        /\ Parsed => Told'
        /\ Told => Recorded'
        /\ Recorded => Out'
  BY Forward DEF Left
<1>3. TypeOK => Parsed \/ Told \/ Recorded \/ Out
  BY DEF TypeOK, Locations
<1>4. /\ ~(Parsed /\ Told) /\ ~(Parsed /\ Recorded) /\ ~(Told /\ Recorded)
      /\ ~(Out /\ (Parsed \/ Told \/ Recorded))
      /\ pc[h] # "idle" <=> ~Out
  OBVIOUS
<1>5. []AllGoOn => []GoesOn(h)
  <2>1. AllGoOn => GoesOn(h)
    BY DEF AllGoOn
  <2> QED
    BY <2>1, PTL
<1>6. Spec => []TypeOK /\ [][Next]_vars
  BY IngestTypeCorrect, PTL DEF Spec
<1> QED
  BY <1>1, <1>2, <1>3, <1>4, <1>5, <1>6, PTL DEF GoesOn

===============================================================================
