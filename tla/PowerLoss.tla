------------------------------ MODULE PowerLoss ------------------------------
(***************************************************************************)
(* MoneyPath on the SQLite settings of store/db.py: WAL journal with        *)
(* synchronous = NORMAL.  A commit survives the death of the process but is *)
(* only forced to disk by a checkpoint, so when the machine loses power the *)
(* database comes back as it was after some prefix of the commits made      *)
(* since the last checkpoint.                                               *)
(***************************************************************************)
EXTENDS MoneyPathProperties

CONSTANT MaxLosses          \* bound: power losses in a behaviour

ASSUME LossesAssumption == MaxLosses \in Nat

VARIABLES
  wal,       \* the store after the last checkpoint, then after each commit since
  losses     \* power losses so far

powerVars == <<vars, wal, losses>>

Store == [claimed |-> claimed, result |-> result]

PowerInit == Init /\ wal = <<Store>> /\ losses = 0

(* Any step of the money path; one that writes the store is a commit.       *)
Commit ==
  /\ Next
  /\ wal' = IF storeVars' = storeVars THEN wal ELSE Append(wal, Store')
  /\ UNCHANGED losses

Checkpoint ==
  /\ Len(wal) > 1
  /\ wal' = <<Store>>
  /\ UNCHANGED <<vars, losses>>

(* Mutant: rows come back from different commits.                           *)
LosePowerTorn ==
  /\ losses < MaxLosses
  /\ losses' = losses + 1
  /\ \E i, j \in DOMAIN wal : /\ claimed' = wal[i].claimed
                              /\ result' = wal[j].result
                              /\ wal' = <<[claimed |-> claimed', result |-> result']>>
  /\ pc' = [w \in Workers |-> "idle"]
  /\ request' = [w \in Workers |-> NoRequest]
  /\ answer' = [w \in Workers |-> 0]
  /\ reply' = [w \in Workers |-> NoReply]
  /\ UNCHANGED <<presented, now, calls, faults>>

(* Every process dies and the store restarts from a prefix of its commits.  *)
(* What the gateway has done stays done.                                    *)
LosePower ==
  /\ losses < MaxLosses
  /\ losses' = losses + 1
  /\ \E i \in DOMAIN wal : /\ claimed' = wal[i].claimed
                           /\ result' = wal[i].result
                           /\ wal' = <<wal[i]>>
  /\ pc' = [w \in Workers |-> "idle"]
  /\ request' = [w \in Workers |-> NoRequest]
  /\ answer' = [w \in Workers |-> 0]
  /\ reply' = [w \in Workers |-> NoReply]
  /\ UNCHANGED <<presented, now, calls, faults>>

PowerNext == Commit \/ Checkpoint \/ LosePower

PowerSpec == PowerInit /\ [][PowerNext]_powerVars

-------------------------------------------------------------------------------
(* The damage is bounded: an action is repeated at most once per power loss,*)
(* never by a replay, a race or an error.                                   *)
RepeatsOnlyByPowerLoss ==
  \A k \in Keys :
    Cardinality({i \in DOMAIN presented : presented[i].key = k}) <= 1 + losses

(* A result that survives has its claim with it and still tells what the    *)
(* gateway did, so what a replay reads after the restart is true.           *)
SurvivingResultsAreTrue ==
  ResultsAreTrue /\ \A k \in Keys : result[k] # NoResult => k \in claimed
===============================================================================
