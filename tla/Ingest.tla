-------------------------------- MODULE Ingest --------------------------------
(***************************************************************************)
(* Webhook ingestion: ingest/webhook.py and ingest/signature.py behind      *)
(* live/webhook_receiver.py, over store/events.py.  A sender delivers each  *)
(* event at least once: in any order, again and again, with the event id    *)
(* header or without, signed or not.  A handler (a thread with its own      *)
(* SQLite connection) verifies, parses, appends, logs and answers; it may   *)
(* die between any two of these.                                            *)
(***************************************************************************)
EXTENDS Naturals, Sequences, FiniteSets

CONSTANTS
  Handlers,        \* threads that serve deliveries
  Events,          \* what has happened at the sender
  Bodies,          \* request bodies
  BodyOf,          \* event -> the body it is delivered with
  Kind,            \* body -> event, malformed or poison
  Distinguishing,  \* the bodies with a timestamp and an entity id
  Nameless,        \* events whose id header may arrive empty
  MaxDeliveries,   \* bound: deliveries received
  MaxFaults        \* bound: handlers that die

(* malformed: no JSON, no object or no event envelope.  poison: an event    *)
(* envelope that cannot be stored, because created_at is out of the range   *)
(* of datetime or canonical_json refuses the payload (a float *_paise).     *)
Kinds == {"event", "malformed", "poison"}

(* How X-Razorpay-Event-Id and X-Razorpay-Signature arrive.  good: the one  *)
(* for the body; bad: another one, or none; foreign: with a character that  *)
(* is not ASCII.                                                            *)
Delivery ==
  {d \in [event: Events, header: {"present", "absent", "empty"},
           signature: {"good", "bad", "foreign"}] :
     d.header = "empty" => d.event \in Nameless}

ASSUME DeliveryBounds == MaxDeliveries \in Nat /\ MaxFaults \in Nat
ASSUME EventsAssumption == Events # {}
ASSUME HandlersAssumption == IsFiniteSet(Handlers)
ASSUME BodiesAssumption ==
  /\ BodyOf \in [Events -> Bodies]
  /\ Kind \in [Bodies -> Kinds]
  /\ Distinguishing \subseteq Bodies
ASSUME NamelessAssumption == Nameless \subseteq Events

(* Two events of one kind, of one entity and of one second are one event.   *)
ASSUME DistinguishingAssumption ==
  \A e, f \in Events : BodyOf[e] = BodyOf[f] /\ BodyOf[e] \in Distinguishing => e = f

(* Event ids.  The header's id is the sender's, one per event; evt_body_ and*)
(* rej_ ids carry the digest of the body; evt_nodedupe_ ids a fresh uuid.   *)
HeaderId(e) == <<"header", e>>
EmptyId == <<"empty">>
BodyId(b) == <<"evt_body", b>>
NoDedupeId(b, n) == <<"evt_nodedupe", b, n>>
RejectedId(b) == <<"rej", b>>

Ids ==
  ({"header"} \X Events) \cup {EmptyId}
    \cup ({"evt_body", "rej"} \X Bodies) \cup ({"evt_nodedupe"} \X Bodies \X Nat)

(* A row of the events table.  event is what happened; the columns of a     *)
(* rejected row do not tell it: they have the digest of the body alone.     *)
Row == [id: Ids, event: Events, signature_verified: BOOLEAN]

VARIABLES
  pc,          \* where a handler is: idle, parsed, stored, found, recorded
  row,         \* the InboundEvent it appends
  events,      \* the events table, in seq order
  log,         \* the lines of webhooks.jsonl
  acked,       \* the events whose sender has received a 200
  seen,        \* history: the deliveries that were accepted
  received, faults       \* counters for the bounds

vars == <<pc, row, events, log, acked, seen, received, faults>>

(* stored: append made a row; found: it read back the one that was there.   *)
Locations == {"idle", "parsed", "stored", "found", "recorded"}

(* A WebhookDelivery, as far as ingest's result is in it.                   *)
Line == [row: Row, duplicate: BOOLEAN]
NoRow == [id |-> EmptyId, event |-> CHOOSE e \in Events : TRUE, signature_verified |-> FALSE]

Init ==
  /\ pc = [h \in Handlers |-> "idle"]
  /\ row = [h \in Handlers |-> NoRow]
  /\ events = <<>> /\ log = <<>>
  /\ acked = {} /\ seen = {}
  /\ received = 0 /\ faults = 0

Goto(h, place) == pc' = [pc EXCEPT ![h] = place]

Finish(h) ==
  /\ Goto(h, "idle")
  /\ row' = [row EXCEPT ![h] = NoRow]

StoredIds == {events[i].id : i \in DOMAIN events}

-------------------------------------------------------------------------------
(* What ingest makes of a delivery.                                         *)

(* derive_event_id: deduplicate on the digest only when the body tells two  *)
(* events apart, and never otherwise; n stands for the uuid.                *)
derive_event_id(b, n) == IF b \in Distinguishing THEN BodyId(b) ELSE NoDedupeId(b, n)

(* Mutant: the digest of the body is good enough for every body.            *)
EventIdDigest(d, n) ==
  CASE d.header = "present" -> HeaderId(d.event)
    [] d.header = "empty"   -> EmptyId
    [] d.header = "absent"  -> BodyId(BodyOf[d.event])

(* The id of an accepted delivery.  An empty header is not None, so no id   *)
(* is derived for it and the empty string is used.                          *)
EventId(d, n) ==
  CASE d.header = "present" -> HeaderId(d.event)
    [] d.header = "empty"   -> EmptyId
    [] d.header = "absent"  -> derive_event_id(BodyOf[d.event], n)

(* verify_signature, json.loads and the envelope check of parse.            *)
Accepts(d) == d.signature = "good" /\ Kind[BodyOf[d.event]] # "malformed"

(* Mutant: a rejection is filed under the event, not under the body.        *)
RowForRejectedEvent(d, n) ==
  [id |-> IF Accepts(d) THEN EventId(d, n) ELSE RejectedId(d.event),
   event |-> d.event, signature_verified |-> Accepts(d)]

(* parse, or _reject: the row to append.                                    *)
RowFor(d, n) ==
  [id |-> IF Accepts(d) THEN EventId(d, n) ELSE RejectedId(BodyOf[d.event]),
   event |-> d.event, signature_verified |-> Accepts(d)]

-------------------------------------------------------------------------------
(* A handler.                                                               *)

Receive ==
  /\ received < MaxDeliveries
  /\ received' = received + 1

(* compare_digest refuses a str that is not ASCII; or the event is poison.  *)
Raises(d) == d.signature = "foreign" \/ (Accepts(d) /\ Kind[BodyOf[d.event]] = "poison")

(* A delivery comes in and is made into a row to append.                    *)
Parse(h, d) ==
  /\ pc[h] = "idle"
  /\ Receive
  /\ ~Raises(d)
  /\ row' = [row EXCEPT ![h] = RowFor(d, received)]
  /\ seen' = IF Accepts(d) THEN seen \cup {d} ELSE seen
  /\ Goto(h, "parsed")
  /\ UNCHANGED <<events, log, acked, faults>>

(* An exception that ingest does not catch: the connection closes without   *)
(* an answer and nothing is stored or logged.                               *)
Raise(h, d) ==
  /\ pc[h] = "idle"
  /\ Receive
  /\ Raises(d)
  /\ UNCHANGED <<pc, row, events, log, acked, seen, faults>>

(* Mutant: append trusts a look at the table made before the INSERT.        *)
InsertUnchecked(h) ==
  /\ pc[h] = "parsed"
  /\ events' = Append(events, row[h])
  /\ Goto(h, "stored")
  /\ UNCHANGED <<row, log, acked, seen, received, faults>>

(* append: the INSERT makes a row ...                                       *)
Insert(h) ==
  /\ pc[h] = "parsed"
  /\ row[h].id \notin StoredIds
  /\ events' = Append(events, row[h])
  /\ Goto(h, "stored")
  /\ UNCHANGED <<row, log, acked, seen, received, faults>>

(* Mutant: a redelivery waits for the first delivery to be logged.          *)
InsertLosesAndWaits(h) ==
  /\ pc[h] = "parsed"
  /\ row[h].id \in StoredIds
  /\ \E i \in DOMAIN log : log[i].row.id = row[h].id
  /\ Goto(h, "found")
  /\ UNCHANGED <<row, events, log, acked, seen, received, faults>>

(* ... or UNIQUE (event_id) refuses it, and the row that is there is read.  *)
InsertLoses(h) ==
  /\ pc[h] = "parsed"
  /\ row[h].id \in StoredIds
  /\ Goto(h, "found")
  /\ UNCHANGED <<row, events, log, acked, seen, received, faults>>

(* Mutant: a redelivery is logged like a first delivery.                    *)
RecordAsNew(h) ==
  /\ pc[h] \in {"stored", "found"}
  /\ log' = Append(log, [row |-> row[h], duplicate |-> FALSE])
  /\ Goto(h, "recorded")
  /\ UNCHANGED <<row, events, acked, seen, received, faults>>

(* ReceiverState.record.                                                    *)
Record(h) ==
  /\ pc[h] \in {"stored", "found"}
  /\ log' = Append(log, [row |-> row[h], duplicate |-> pc[h] = "found"])
  /\ Goto(h, "recorded")
  /\ UNCHANGED <<row, events, acked, seen, received, faults>>

(* 200 for what was accepted, 400 for what was rejected.                    *)
Respond(h) ==
  /\ pc[h] = "recorded"
  /\ acked' = IF row[h].signature_verified THEN acked \cup {row[h].event} ELSE acked
  /\ Finish(h)
  /\ UNCHANGED <<events, log, seen, received, faults>>

(* The handler dies, the store is busy beyond its timeout, the log cannot   *)
(* be written or the answer is lost: the sender hears nothing.              *)
Die(h) ==
  /\ faults < MaxFaults
  /\ faults' = faults + 1
  /\ pc[h] # "idle"
  /\ Finish(h)
  /\ UNCHANGED <<events, log, acked, seen, received>>

-------------------------------------------------------------------------------
Serve(h) ==
  Insert(h) \/ InsertLoses(h) \/ Record(h) \/ Respond(h)

Next ==
  \E h \in Handlers : (\E d \in Delivery : Parse(h, d) \/ Raise(h, d)) \/ Serve(h) \/ Die(h)

Spec == Init /\ [][Next]_vars

(* A handler that has a delivery goes on with it.                           *)
FairSpec == Spec /\ \A h \in Handlers : WF_vars(Serve(h))

-------------------------------------------------------------------------------
(* Every variable stays in the set its comment gives it.                    *)
TypeOK ==
  /\ pc \in [Handlers -> Locations]
  /\ row \in [Handlers -> Row]
  /\ events \in Seq(Row)
  /\ log \in Seq(Line)
  /\ acked \subseteq Events
  /\ seen \subseteq Delivery
  /\ received \in Nat /\ faults \in Nat

(* The verified rows of an event.                                           *)
RowsOf(e) == {i \in DOMAIN events : events[i].event = e /\ events[i].signature_verified}

FormsOf(e) == {d.header : d \in {s \in seen : s.event = e}}

(* Redeliveries add nothing, however many race: an event has one verified   *)
(* row if all its deliveries came with the id header, or all without it and *)
(* with a body that tells it apart (EventStore.append); and the table, which*)
(* nothing can ever prune, grows by one row for each body that is rejected, *)
(* whatever events it claims to be (_reject).                               *)
RedeliveriesAddNothing ==
  /\ \A e \in Events :
       FormsOf(e) = {"present"} \/ (FormsOf(e) = {"absent"} /\ BodyOf[e] \in Distinguishing)
         => \A i, j \in RowsOf(e) : i = j
  /\ \A i, j \in DOMAIN events :
       /\ ~events[i].signature_verified /\ ~events[j].signature_verified
       /\ BodyOf[events[i].event] = BodyOf[events[j].event]
       => i = j

(* The log accounts for the table: a row is logged as new at most once, and *)
(* not at all only if its handler has yet to log it or has died; a duplicate*)
(* is logged only of a row that is there; and what was answered 200 is in   *)
(* the log (do_POST; ReceiverState.record).                                 *)
NewLines(r) == {k \in DOMAIN log : log[k].row.id = r.id /\ ~log[k].duplicate}
Unannounced == {i \in DOMAIN events : NewLines(events[i]) = {}}

LogAccountsForTable ==
  /\ \A i \in DOMAIN events : \A k, m \in NewLines(events[i]) : k = m
  /\ Cardinality(Unannounced) <= faults + Cardinality({h \in Handlers : pc[h] = "stored"})
  /\ \A k \in DOMAIN log : log[k].row.id \in StoredIds
  /\ \A e \in acked : \E k \in DOMAIN log :
       log[k].row.event = e /\ log[k].row.signature_verified

(* Every delivery is answered, or its handler dies: no handler waits for    *)
(* another one.                                                             *)
HandlersReturn == \A h \in Handlers : pc[h] # "idle" ~> pc[h] = "idle"

(* The endpoint implements its promise, "never toward a collapse": an event *)
(* is recorded for good and acknowledged only once it is, so it was neither *)
(* merged into another event's row nor shadowed by a rejection              *)
(* (derive_event_id).  Nameless events are left out: they share the id "",  *)
(* and the second of them is acknowledged without a row.                    *)
Promise == INSTANCE Inbox WITH
  Events <- Events \ Nameless,
  recorded <- {e \in Events \ Nameless : RowsOf(e) # {}},
  acknowledged <- acked \ Nameless

ImplementsInbox == Promise!Spec
===============================================================================
