-------------------------------- MODULE Inbox --------------------------------
(***************************************************************************)
(* What the webhook endpoint promises its sender, with no signature, id or  *)
(* table in sight: an event is recorded for good, and only what is recorded *)
(* is acknowledged.  The sender stops sending what was acknowledged, so an  *)
(* event acknowledged and not recorded is an event lost.                    *)
(***************************************************************************)
CONSTANT Events

VARIABLES recorded,      \* the events on record
          acknowledged   \* those the sender was told 200 for

Init == recorded = {} /\ acknowledged = {}

Record(e) ==
  /\ recorded' = recorded \cup {e}
  /\ UNCHANGED acknowledged

Acknowledge(e) ==
  /\ e \in recorded
  /\ acknowledged' = acknowledged \cup {e}
  /\ UNCHANGED recorded

Next == \E e \in Events : Record(e) \/ Acknowledge(e)

Spec == Init /\ [][Next]_<<recorded, acknowledged>>
===============================================================================
