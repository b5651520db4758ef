----------------------------- MODULE DecisionLog -----------------------------
(***************************************************************************)
(* What the decision ledger promises, with no writer, lock or digest in     *)
(* sight: decisions go on record one after the other, each caller is owed a *)
(* receipt that commits to the whole history up to its own decision and gets*)
(* it, soon or late, or fails for ever to hear of its own decision; what    *)
(* is on disk is never undone, and whoever verifies is told that all is     *)
(* well - until somebody changes the record behind the ledger's back.  From *)
(* then on it promises no more than that receipts are never taken back.     *)
(***************************************************************************)
EXTENDS Naturals, Sequences

CONSTANT Decisions

VARIABLES
  history,      \* the decisions on record
  durable,      \* how many of them nothing can undo
  owed,         \* the decisions whose caller has not heard of them yet
  receipts,     \* for each decision that returned, the history it was told
  touched,      \* somebody has changed the record
  verified      \* what verification says

logVars == <<history, durable, owed, receipts, touched, verified>>

Init ==
  /\ history = <<>> /\ durable = 0 /\ owed = {} /\ receipts = <<>>
  /\ touched = FALSE /\ verified = TRUE

Decide(d) ==
  /\ history' = Append(history, d)
  /\ owed' = owed \cup {Len(history')}
  /\ UNCHANGED <<durable, receipts>>

(* The caller is told of the n-th decision, whatever has followed it.       *)
Receive(n) ==
  /\ n \in owed
  /\ owed' = owed \ {n}
  /\ receipts' = Append(receipts, SubSeq(history, 1, n))
  /\ UNCHANGED <<history, durable>>

(* The caller is gone, or gets an error, and the decision stands.           *)
NeverHeard(n) ==
  /\ n \in owed
  /\ owed' = owed \ {n}
  /\ UNCHANGED <<history, durable, receipts>>

Keep ==
  /\ durable' = Len(history)
  /\ UNCHANGED <<history, owed, receipts>>

(* Decisions made since the last Keep are undone, the newest first, and     *)
(* everybody who waited for a receipt is gone.                              *)
Forget ==
  /\ \E n \in durable .. Len(history) :
       history' = SubSeq(history, 1, n) /\ durable' = n
  /\ owed' = {}
  /\ UNCHANGED receipts

Honest ==
  /\ ~touched /\ UNCHANGED <<touched, verified>>
  /\ \/ \E d \in Decisions : Decide(d)
     \/ \E n \in owed : Receive(n) \/ NeverHeard(n)
     \/ Keep
     \/ Forget

ReceiptsStand ==
  /\ Len(receipts') >= Len(receipts)
  /\ SubSeq(receipts', 1, Len(receipts)) = receipts

Touched == touched' /\ ReceiptsStand

Next == Honest \/ Touched

Spec == Init /\ [][Next]_logVars
===============================================================================
