----------------------------- MODULE LedgerProofs -----------------------------
(***************************************************************************)
(* Theorems about Ledger, for any number of writers, bodies, appends,       *)
(* faults, power losses and edits.                                          *)
(*                                                                          *)
(* ChainVerifies is not inductive alone.  A commit keeps the chain only if  *)
(* the head its writer has read is still the head (Linked), which is so     *)
(* because no other writer is inside a transaction (Exclusive).  The        *)
(* refinement of DecisionLog rests on the same two, on a writer's row being *)
(* made of what it was called with (Genuine), and on the rows that writers  *)
(* between COMMIT and return are about to return being in the table, each at*)
(* its own place (Placed).                                                  *)
(***************************************************************************)
EXTENDS Ledger, SequenceTheorems, FiniteSetTheorems, WellFoundedInduction, TLAPS

-------------------------------------------------------------------------------
(* Chains.                                                                  *)

(* What a commit and a power loss do to a table.                            *)
LEMMA AppendedRow ==
  ASSUME NEW t \in Seq(Row), NEW r \in Row
  PROVE  /\ Append(t, r) \in Seq(Row)
         /\ Len(Append(t, r)) = Len(t) + 1
         /\ DOMAIN Append(t, r) = DOMAIN t \cup {Len(t) + 1}
         /\ \A i \in DOMAIN t : Append(t, r)[i] = t[i]
         /\ Append(t, r)[Len(t) + 1] = r
  OBVIOUS

LEMMA PrefixOfTable ==
  ASSUME NEW t \in Seq(Row), NEW k \in 0 .. Len(t)
  PROVE  /\ SubSeq(t, 1, k) \in Seq(Row)
         /\ Len(SubSeq(t, 1, k)) = k
         /\ DOMAIN SubSeq(t, 1, k) = 1 .. k
         /\ \A i \in 1 .. k : SubSeq(t, 1, k)[i] = t[i]
  OBVIOUS

(* Whether a row is a break depends on that row and the one before it.      *)
LEMMA BreaksAreLocal ==
  ASSUME NEW t \in Seq(Row), NEW u \in Seq(Row), NEW i \in DOMAIN t, i \in DOMAIN u,
         \A j \in 1 .. i : u[j] = t[j]
  PROVE  i \in Breaks(u) <=> i \in Breaks(t)
<1>1. u[i] = t[i] /\ (i # 1 => u[i-1] = t[i-1])
  OBVIOUS
<1> QED
  BY <1>1 DEF Breaks, ExpectedPrev

(* A row linked to the head extends a chain without breaks.                 *)
LEMMA ChainExtends ==
  ASSUME NEW t \in Seq(Row), NEW r \in Row, Breaks(t) = {},
         r.prev = HeadHash(t), r.hash = chain_hash(r.prev, r.body)
  PROVE  Breaks(Append(t, r)) = {}
<1> DEFINE u == Append(t, r)
<1>1. /\ u \in Seq(Row)
      /\ DOMAIN u = DOMAIN t \cup {Len(t) + 1}
      /\ \A i \in DOMAIN t : u[i] = t[i]
      /\ u[Len(t) + 1] = r
  BY AppendedRow
<1> HIDE DEF u
<1>2. ASSUME NEW i \in DOMAIN t
      PROVE  i \notin Breaks(u)
  <2>1. \A j \in 1 .. i : u[j] = t[j]
    BY <1>1
  <2> QED
    BY <1>1, <2>1, BreaksAreLocal
<1>3. Len(t) + 1 \notin Breaks(u)
  <2>1. ExpectedPrev(u, Len(t) + 1) = HeadHash(t)
    <3>1. CASE t = <<>>
      BY <3>1 DEF ExpectedPrev, HeadHash
    <3>2. CASE t # <<>>
      BY <1>1, <3>2 DEF ExpectedPrev, HeadHash
    <3> QED
      BY <3>1, <3>2
  <2> QED
    BY <1>1, <2>1 DEF Breaks
<1>4. Breaks(u) \subseteq DOMAIN u
  BY DEF Breaks
<1> QED
  BY <1>1, <1>2, <1>3, <1>4 DEF u

(* Every prefix of a chain without breaks has none.                         *)
LEMMA ChainTruncates ==
  ASSUME NEW t \in Seq(Row), NEW k \in 0 .. Len(t), Breaks(t) = {}
  PROVE  Breaks(SubSeq(t, 1, k)) = {}
<1> DEFINE u == SubSeq(t, 1, k)
<1>1. u \in Seq(Row) /\ DOMAIN u = 1 .. k /\ \A i \in 1 .. k : u[i] = t[i]
  BY PrefixOfTable
<1> HIDE DEF u
<1>2. ASSUME NEW i \in 1 .. k
      PROVE  i \notin Breaks(u)
  <2>1. i \in DOMAIN t /\ \A j \in 1 .. i : u[j] = t[j]
    BY <1>1
  <2> QED
    BY <1>1, <2>1, BreaksAreLocal
<1> QED
  BY <1>1, <1>2 DEF Breaks, u

-------------------------------------------------------------------------------
(* The inductive invariant.                                                 *)

(* A transaction holds the write lock, alone.                               *)
Exclusive == \A w \in Writers : pc[w] \in InTransaction => lock = {w}

(* What a transaction has read, and the row it is about to commit, link to  *)
(* the table as it is now.                                                  *)
Linked ==
  \A w \in Writers :
    /\ pc[w] = "read" => prev[w] = HeadHash(table)
    /\ pc[w] = "inserted" =>
         /\ pending[w].prev = HeadHash(table)
         /\ pending[w].hash = chain_hash(pending[w].prev, pending[w].body)

(* The chain is whole before any edit and after one that no hash covers.    *)
Whole == edits = 0 \/ (edits = 1 /\ edited = "stamp") => Breaks(table) = {}

(* An inner edit has left a break among the rows no power loss can undo.    *)
Scarred == edits = 1 /\ edited = "inner" => \E i \in 1 .. synced : i \in Breaks(table)

LedgerInv == TypeOK /\ Exclusive /\ Linked /\ Whole /\ Scarred

LEMMA DigestsGrow ==
  ASSUME NEW d \in Digest, NEW b \in Texts
  PROVE  chain_hash(d, b) \in Digest
  BY DEF Digest, chain_hash

LEMMA NoRowTyped == NoRow \in Row /\ GENESIS_HASH \in Digest /\ Forged \in Texts
  BY DEF NoRow, Row, GENESIS_HASH, Digest, Texts

LEMMA HeadTyped ==
  ASSUME NEW t \in Seq(Row)
  PROVE  HeadHash(t) \in Digest
<1>1. CASE t = <<>>
  BY <1>1, NoRowTyped DEF HeadHash
<1>2. CASE t # <<>>
  <2>1. t[Len(t)] \in Row
    BY <1>2
  <2> QED
    BY <1>2, <2>1 DEF HeadHash, Row
<1> QED
  BY <1>1, <1>2

LEMMA InitInv == Init => LedgerInv
<1> SUFFICES ASSUME Init PROVE LedgerInv
  OBVIOUS
<1>1. TypeOK
  <2>1. /\ pc \in [Writers -> Locations]
        /\ body \in [Writers -> Texts]
        /\ prev \in [Writers -> Digest]
        /\ pending \in [Writers -> Row]
        /\ entry \in [Writers -> Row]
    BY NoRowTyped DEF Init, Locations
  <2>2. table \in Seq(Row) /\ returned \in Seq(Row) /\ synced \in 0 .. Len(table)
    BY DEF Init
  <2>3. lock \subseteq Writers /\ edited \in {"nothing", "stamp", "last", "inner"}
    BY DEF Init
  <2>4. appends \in Nat /\ faults \in Nat /\ losses \in Nat /\ edits \in Nat
    BY DEF Init
  <2> QED
    BY <2>1, <2>2, <2>3, <2>4 DEF TypeOK
<1>2. Breaks(table) = {}
  <2>1. table = <<>>
    BY DEF Init
  <2> QED
    BY <2>1 DEF Breaks
<1> QED
  BY <1>1, <1>2 DEF Init, LedgerInv, Exclusive, Linked, Whole, Scarred, InTransaction

(* What a step that leaves the file alone has to show.                      *)
LEMMA SameFile ==
  ASSUME LedgerInv, UNCHANGED <<fileVars, tamperVars>>
  PROVE  Whole' /\ Scarred'
  BY DEF LedgerInv, Whole, Scarred, fileVars, tamperVars

(* A call that is over leaves no local behind, and ends nobody else's       *)
(* transaction.                                                             *)
LEMMA LeavingKeeps ==
  ASSUME LedgerInv, NEW w \in Writers, Leave(w), UNCHANGED table,
         \/ lock' = lock \ {w}
         \/ UNCHANGED lock /\ pc[w] \notin InTransaction
  PROVE  /\ pc' \in [Writers -> Locations]
         /\ body' \in [Writers -> Texts] /\ prev' \in [Writers -> Digest]
         /\ pending' \in [Writers -> Row]
         /\ lock' \subseteq Writers
         /\ Exclusive' /\ Linked'
<1>1. /\ pc' = [pc EXCEPT ![w] = "idle"]
      /\ body' = [body EXCEPT ![w] = Forged]
      /\ prev' = [prev EXCEPT ![w] = GENESIS_HASH]
      /\ pending' = [pending EXCEPT ![w] = NoRow]
  BY DEF Leave, Goto
<1>2. /\ pc \in [Writers -> Locations] /\ body \in [Writers -> Texts]
      /\ prev \in [Writers -> Digest] /\ pending \in [Writers -> Row]
      /\ lock \subseteq Writers
  BY DEF LedgerInv, TypeOK
<1>3. pc' \in [Writers -> Locations] /\ pc'[w] = "idle"
  BY <1>1, <1>2 DEF Locations
<1>4. /\ body' \in [Writers -> Texts] /\ prev' \in [Writers -> Digest]
      /\ pending' \in [Writers -> Row] /\ lock' \subseteq Writers
  BY <1>1, <1>2, NoRowTyped
<1>5. \A v \in Writers : v # w => pc'[v] = pc[v] /\ prev'[v] = prev[v]
                                  /\ pending'[v] = pending[v]
  BY <1>1, <1>2
<1>6. Exclusive'
  BY <1>3, <1>5 DEF LedgerInv, Exclusive, InTransaction
<1>7. Linked'
  BY <1>3, <1>5 DEF LedgerInv, Linked
<1> QED
  BY <1>3, <1>4, <1>6, <1>7

LEMMA BeginsKeeps ==
  ASSUME LedgerInv, NEW w \in Writers, Begins(w)
  PROVE  LedgerInv'
<1>1. UNCHANGED <<prev, pending, lock, fileVars, tamperVars>>
  BY DEF Begins, RefusePayload, BeginAppend
<1>2. Whole' /\ Scarred'
  BY <1>1, SameFile
<1>3. CASE RefusePayload(w)
  BY <1>1, <1>2, <1>3, NoRowTyped
     DEF RefusePayload, Call, LedgerInv, TypeOK, Exclusive, Linked, fileVars, tamperVars
<1>4. CASE \E b \in Bodies : BeginAppend(w, b)
  <2>1. PICK b \in Bodies : BeginAppend(w, b)
    BY <1>4
  <2>2. b \in Texts
    BY DEF Texts
  <2>3. pc' = [pc EXCEPT ![w] = "ready"] /\ body' = [body EXCEPT ![w] = b]
    BY <2>1 DEF BeginAppend, Goto
  <2>4. TypeOK'
    BY <1>1, <2>1, <2>2, <2>3, NoRowTyped
       DEF BeginAppend, Call, LedgerInv, TypeOK, fileVars, tamperVars, Locations
  <2>5. Exclusive' /\ Linked'
    BY <1>1, <2>3 DEF LedgerInv, TypeOK, Exclusive, Linked, fileVars, InTransaction
  <2> QED
    BY <1>2, <2>4, <2>5 DEF LedgerInv
<1> QED
  BY <1>3, <1>4 DEF Begins

LEMMA LockingKeeps ==
  ASSUME LedgerInv, NEW w \in Writers, BeginImmediate(w) \/ GiveUp(w) \/ ReadHead(w)
  PROVE  LedgerInv'
<1>1. UNCHANGED <<entry, fileVars, returned, tamperVars, appends, faults, losses>>
  BY DEF BeginImmediate, GiveUp, ReadHead
<1>2. Whole' /\ Scarred'
  BY <1>1, SameFile
<1>3. HeadHash(table) \in Digest
  BY HeadTyped DEF LedgerInv, TypeOK
<1>4. CASE BeginImmediate(w)
  BY <1>1, <1>2, <1>4 DEF BeginImmediate, Goto, LedgerInv, TypeOK, Exclusive, Linked,
                          fileVars, tamperVars, Locations, InTransaction
<1>5. CASE GiveUp(w)
  <2>1. Leave(w) /\ UNCHANGED <<table, lock>> /\ pc[w] \notin InTransaction
    BY <1>5 DEF GiveUp, fileVars, InTransaction
  <2> QED
    BY <1>1, <1>2, <2>1, LeavingKeeps DEF LedgerInv, TypeOK, fileVars, tamperVars
<1>6. CASE ReadHead(w)
  BY <1>1, <1>2, <1>3, <1>6 DEF ReadHead, Goto, LedgerInv, TypeOK, Exclusive, Linked,
                                fileVars, tamperVars, Locations, InTransaction
<1> QED
  BY <1>4, <1>5, <1>6

LEMMA InsertKeeps ==
  ASSUME LedgerInv, NEW w \in Writers, Insert(w)
  PROVE  LedgerInv'
<1> DEFINE h == chain_hash(prev[w], body[w])
           r == [prev |-> prev[w], hash |-> h, body |-> body[w], stamp |-> "own"]
<1>1. UNCHANGED <<entry, fileVars, returned, tamperVars, appends, faults, losses>>
  BY DEF Insert
<1>2. Whole' /\ Scarred'
  BY <1>1, SameFile
<1>3. r \in Row
  BY DigestsGrow DEF LedgerInv, TypeOK, Row
<1>4. CASE Rollback(w)
  <2>1. UNCHANGED table /\ Leave(w) /\ lock' = lock \ {w}
    BY <1>1, <1>4 DEF fileVars, Rollback
  <2> QED
    BY <1>1, <1>2, <2>1, LeavingKeeps DEF LedgerInv, TypeOK, fileVars, tamperVars
<1>5. CASE /\ pending' = [pending EXCEPT ![w] = r] /\ Goto(w, "inserted")
           /\ UNCHANGED <<body, prev, lock>>
  <2>1. pc[w] = "read"
    BY DEF Insert
  <2>2. pending' \in [Writers -> Row]
    BY <1>3, <1>5 DEF LedgerInv, TypeOK
  <2> HIDE DEF h
  <2>3. pc' = [pc EXCEPT ![w] = "inserted"] /\ pc \in [Writers -> Locations]
    BY <1>5 DEF Goto, LedgerInv, TypeOK
  <2>4. pc' \in [Writers -> Locations]
    BY <2>3 DEF Locations
  <2>5. TypeOK'
    BY <1>1, <1>5, <2>2, <2>4 DEF LedgerInv, TypeOK, fileVars, tamperVars
  <2>6. Exclusive'
    BY <1>5, <2>1, <2>3 DEF LedgerInv, Exclusive, InTransaction
  <2>7. pending'[w].prev = HeadHash(table) /\ pending'[w].hash = chain_hash(prev[w], body[w])
        /\ pending'[w].prev = prev[w] /\ pending'[w].body = body[w]
    BY <1>5, <2>1 DEF LedgerInv, TypeOK, Linked, h
  <2>8. \A v \in Writers : v # w => pending'[v] = pending[v] /\ pc'[v] = pc[v]
    BY <1>5, <2>3 DEF LedgerInv, TypeOK
  <2>9. Linked'
    BY <1>1, <1>5, <2>3, <2>7, <2>8 DEF LedgerInv, Linked, fileVars
  <2> QED
    BY <1>2, <2>5, <2>6, <2>9 DEF LedgerInv
<1> QED
  BY <1>4, <1>5 DEF Insert

LEMMA CommitKeeps ==
  ASSUME LedgerInv, NEW w \in Writers, Commit(w)
  PROVE  LedgerInv'
<1> DEFINE r == pending[w]
<1>1. /\ table' = Append(table, r)
      /\ pc[w] = "inserted"
      /\ UNCHANGED <<body, prev, pending, entry, synced, returned, tamperVars, appends, faults,
                     losses>>
  BY DEF Commit
<1>2. table \in Seq(Row) /\ r \in Row /\ synced \in 0 .. Len(table)
  BY DEF LedgerInv, TypeOK
<1>3. /\ table' \in Seq(Row)
      /\ Len(table') = Len(table) + 1
      /\ DOMAIN table' = DOMAIN table \cup {Len(table) + 1}
      /\ \A i \in DOMAIN table : table'[i] = table[i]
  BY <1>1, <1>2, AppendedRow
<1>4. r.prev = HeadHash(table) /\ r.hash = chain_hash(r.prev, r.body)
  BY <1>1 DEF LedgerInv, Linked
<1>5. lock = {w} /\ \A v \in Writers : v # w => pc[v] \notin InTransaction
  BY <1>1 DEF LedgerInv, Exclusive, InTransaction
<1>6. pc' = [pc EXCEPT ![w] = "committed"] /\ lock' = lock \ {w}
  BY DEF Commit, Goto
<1>7. TypeOK'
  <2>1. pc' \in [Writers -> Locations]
    BY <1>6 DEF LedgerInv, TypeOK, Locations
  <2>2. synced' \in 0 .. Len(table')
    BY <1>1, <1>2, <1>3
  <2> QED
    BY <1>1, <1>3, <1>6, <2>1, <2>2 DEF LedgerInv, TypeOK, tamperVars
<1>8. \A v \in Writers : pc'[v] \notin InTransaction
  BY <1>5, <1>6 DEF LedgerInv, TypeOK, InTransaction
<1>9. Exclusive' /\ Linked'
  BY <1>8 DEF Exclusive, Linked, InTransaction
<1>10. Whole'
  BY <1>1, <1>2, <1>4, ChainExtends DEF LedgerInv, Whole, tamperVars
<1>11. Scarred'
  <2>1. ASSUME NEW i \in 1 .. synced, i \in Breaks(table)
        PROVE  i \in Breaks(table')
    <3>1. synced \in Nat /\ Len(table) \in Nat /\ synced <= Len(table)
      BY <1>2
    <3>2. 1 .. i \subseteq DOMAIN table /\ i \in DOMAIN table
      BY <1>2, <3>1
    <3>3. i \in DOMAIN table' /\ \A j \in 1 .. i : table'[j] = table[j]
      BY <1>3, <3>2
    <3> QED
      BY <1>2, <1>3, <2>1, <3>2, <3>3, BreaksAreLocal
  <2> QED
    BY <1>1, <2>1 DEF LedgerInv, Scarred, tamperVars
<1> QED
  BY <1>7, <1>9, <1>10, <1>11 DEF LedgerInv

LEMMA ReturnKeeps ==
  ASSUME LedgerInv, NEW w \in Writers, Return(w)
  PROVE  LedgerInv'
<1>1. /\ entry' = [entry EXCEPT ![w] = pending[w]]
      /\ returned' = Append(returned, pending[w])
      /\ Leave(w) /\ pc[w] \notin InTransaction
      /\ UNCHANGED <<lock, fileVars, tamperVars, appends, faults, losses>>
  BY DEF Return, InTransaction
<1>2. UNCHANGED table
  BY <1>1 DEF fileVars
<1>3. Whole' /\ Scarred'
  BY <1>1, SameFile
<1>4. pending[w] \in Row /\ returned \in Seq(Row) /\ entry \in [Writers -> Row]
  BY DEF LedgerInv, TypeOK
<1>5. entry' \in [Writers -> Row] /\ returned' \in Seq(Row)
  BY <1>1, <1>4
<1> QED
  BY <1>1, <1>2, <1>3, <1>5, LeavingKeeps DEF LedgerInv, TypeOK, fileVars, tamperVars

LEMMA FailsKeeps ==
  ASSUME LedgerInv, NEW w \in Writers, Fails(w)
  PROVE  LedgerInv'
<1>1. /\ Leave(w) /\ faults' = faults + 1
      /\ UNCHANGED <<entry, fileVars, returned, tamperVars, appends, losses>>
      /\ \/ lock' = lock \ {w}
         \/ UNCHANGED lock /\ pc[w] \notin InTransaction
  BY DEF Fails, Abort, ReturnRaises, Crash, Fault, Rollback, InTransaction
<1>2. UNCHANGED table
  BY <1>1 DEF fileVars
<1>3. Whole' /\ Scarred'
  BY <1>1, SameFile
<1> QED
  BY <1>1, <1>2, <1>3, LeavingKeeps DEF LedgerInv, TypeOK, fileVars, tamperVars

LEMMA CheckpointKeeps ==
  ASSUME LedgerInv, Checkpoint
  PROVE  LedgerInv'
<1>1. synced' = Len(table) /\ synced < Len(table)
      /\ UNCHANGED <<writerVars, lock, table, returned, tamperVars, appends, faults, losses>>
  BY DEF Checkpoint
<1>2. synced' \in 0 .. Len(table') /\ synced \in 0 .. Len(table)
  BY <1>1 DEF LedgerInv, TypeOK
<1>3. TypeOK'
  BY <1>1, <1>2 DEF LedgerInv, TypeOK, writerVars, tamperVars
<1>4. Exclusive' /\ Linked' /\ Whole'
  BY <1>1 DEF LedgerInv, Exclusive, Linked, Whole, writerVars, tamperVars
<1>5. Scarred'
  <2>1. Len(table) \in Nat
    BY DEF LedgerInv, TypeOK
  <2>2. 1 .. synced \subseteq 1 .. synced'
    BY <1>1, <1>2, <2>1
  <2> QED
    BY <1>1, <2>2 DEF LedgerInv, Scarred, tamperVars
<1> QED
  BY <1>3, <1>4, <1>5 DEF LedgerInv

LEMMA LosePowerKeeps ==
  ASSUME LedgerInv, LosePower
  PROVE  LedgerInv'
<1>1. PICK k \in synced .. Len(table) : table' = SubSeq(table, 1, k) /\ synced' = k
  BY DEF LosePower
<1>2. /\ Restart /\ losses' = losses + 1
      /\ UNCHANGED <<returned, tamperVars, appends, faults>>
  BY DEF LosePower, Restart
<1>3. table \in Seq(Row) /\ synced \in 0 .. Len(table) /\ Len(table) \in Nat
  BY DEF LedgerInv, TypeOK
<1>4. k \in 0 .. Len(table) /\ k \in Nat /\ synced <= k
  BY <1>3
<1>5. /\ table' \in Seq(Row) /\ Len(table') = k /\ DOMAIN table' = 1 .. k
      /\ \A i \in 1 .. k : table'[i] = table[i]
  BY <1>1, <1>3, <1>4, PrefixOfTable
<1>6. TypeOK'
  <2>1. synced' \in 0 .. Len(table')
    BY <1>1, <1>4, <1>5
  <2>2. /\ pc' \in [Writers -> Locations] /\ body' \in [Writers -> Texts]
        /\ prev' \in [Writers -> Digest] /\ pending' \in [Writers -> Row]
        /\ entry' \in [Writers -> Row] /\ lock' \subseteq Writers
    BY <1>2, NoRowTyped DEF Restart, Locations
  <2> QED
    BY <1>2, <1>5, <2>1, <2>2 DEF LedgerInv, TypeOK, tamperVars
<1>7. Exclusive' /\ Linked'
  BY <1>2 DEF Restart, Exclusive, Linked, InTransaction
<1>8. Whole'
  BY <1>1, <1>2, <1>3, <1>4, ChainTruncates DEF LedgerInv, Whole, tamperVars
<1>9. Scarred'
  <2>1. ASSUME NEW i \in 1 .. synced, i \in Breaks(table)
        PROVE  i \in 1 .. synced' /\ i \in Breaks(table')
    <3>1. i \in 1 .. k /\ i \in DOMAIN table /\ 1 .. i \subseteq 1 .. k
      BY <1>3, <1>4
    <3>2. i \in DOMAIN table' /\ \A j \in 1 .. i : table'[j] = table[j]
      BY <1>5, <3>1
    <3> QED
      BY <1>1, <1>3, <1>5, <2>1, <3>1, <3>2, BreaksAreLocal
  <2> QED
    BY <1>2, <2>1 DEF LedgerInv, Scarred, tamperVars
<1> QED
  BY <1>6, <1>7, <1>8, <1>9 DEF LedgerInv

-------------------------------------------------------------------------------
(* What a digest commits to.  Induction along the table: were there rows    *)
(* whose hash is not that of the bodies up to them, the first of them would *)
(* break the chain.                                                         *)

(* The row at i carries the digest of the bodies up to it.                  *)
Faithful(t, i) == t[i].hash = [j \in 1 .. i |-> t[j].body]

LEMMA FirstOfNumbers ==
  ASSUME NEW T \in SUBSET Nat, T # {}
  PROVE  \E x \in T : \A y \in T : ~(y < x)
<1> DEFINE R == {p \in Nat \X Nat : p[1] < p[2]}
<1>1. IsWellFoundedOn(R, Nat)
  BY NatLessThanWellFounded, Zenon DEF OpToRel
<1>2. \A x, y \in Nat : <<y, x>> \in R <=> y < x
  OBVIOUS
<1> HIDE DEF R
<1>3. \E x \in T : \A y \in T : ~(<<y, x>> \in R)
  BY <1>1, WFMin
<1> QED
  BY <1>2, <1>3

LEMMA ChainCommits ==
  ASSUME NEW t \in Seq(Row), Breaks(t) = {}
  PROVE  \A i \in DOMAIN t : Faithful(t, i)
<1> DEFINE T == {i \in DOMAIN t : ~Faithful(t, i)}
<1> SUFFICES ASSUME T # {}
             PROVE  FALSE
  OBVIOUS
<1>1. T \in SUBSET Nat
  OBVIOUS
<1>2. PICK i \in T : \A j \in T : ~(j < i)
  BY <1>1, FirstOfNumbers
<1>3. i \in DOMAIN t /\ ~Faithful(t, i) /\ i \in 1 .. Len(t) /\ Len(t) \in Nat
  BY <1>2
<1>4. /\ t[i].prev = ExpectedPrev(t, i) /\ t[i].hash = Append(t[i].prev, t[i].body)
  BY <1>3 DEF Breaks, chain_hash
<1>5. t[i].body \in Texts /\ \A j \in 1 .. i : t[j].body \in Texts
  <2>1. \A j \in 1 .. i : t[j] \in Row
    BY <1>3
  <2> QED
    BY <1>3, <2>1 DEF Row
<1>6. t[i].prev = [j \in 1 .. i - 1 |-> t[j].body]
  <2>1. CASE i = 1
    BY <1>4, <2>1 DEF ExpectedPrev, GENESIS_HASH
  <2>2. CASE i # 1
    <3>1. i - 1 \in DOMAIN t /\ i - 1 < i
      BY <1>3, <2>2
    <3>2. Faithful(t, i - 1)
      BY <1>2, <3>1
    <3> QED
      BY <1>4, <2>2, <3>2 DEF ExpectedPrev, Faithful
  <2> QED
    BY <2>1, <2>2
<1>7. Append([j \in 1 .. i - 1 |-> t[j].body], t[i].body) = [j \in 1 .. i |-> t[j].body]
  <2>1. PICK d : d = [j \in 1 .. i - 1 |-> t[j].body]
    OBVIOUS
  <2>2. PICK e : e = [j \in 1 .. i |-> t[j].body]
    OBVIOUS
  <2>3. d \in Seq(Texts) /\ Len(d) = i - 1 /\ e \in Seq(Texts) /\ Len(e) = i
    <3>1. i - 1 \in Nat /\ i \in Nat /\ 1 .. i - 1 \subseteq 1 .. i
      BY <1>3
    <3>2. d \in [1 .. i - 1 -> Texts] /\ e \in [1 .. i -> Texts]
      BY <1>5, <2>1, <2>2, <3>1
    <3>3. ASSUME NEW n \in Nat, NEW f \in [1 .. n -> Texts]
          PROVE  f \in Seq(Texts) /\ Len(f) = n
      OBVIOUS
    <3> QED
      BY <3>1, <3>2, <3>3
  <2>4. Append(d, t[i].body) \in Seq(Texts) /\ Len(Append(d, t[i].body)) = i
        /\ Append(d, t[i].body)[i] = t[i].body
        /\ \A j \in 1 .. i - 1 : Append(d, t[i].body)[j] = d[j]
    BY <1>3, <1>5, <2>3
  <2>5. \A j \in 1 .. i : Append(d, t[i].body)[j] = e[j]
    BY <1>3, <2>1, <2>2, <2>4
  <2> QED
    BY <2>1, <2>2, <2>3, <2>4, <2>5
<1> QED
  BY <1>3, <1>4, <1>6, <1>7 DEF Faithful

-------------------------------------------------------------------------------
(* Edits.                                                                   *)

(* A digest commits to exactly the two texts it was made of.                *)
LEMMA DigestsAreInjective ==
  ASSUME NEW d \in Digest, NEW e \in Digest, NEW b \in Texts, NEW c \in Texts,
         chain_hash(d, b) = chain_hash(e, c)
  PROVE  d = e /\ b = c
<1>1. Len(Append(d, b)) = Len(d) + 1 /\ Len(Append(e, c)) = Len(e) + 1
  BY DEF Digest
<1>2. Len(d) = Len(e)
  BY <1>1 DEF chain_hash, Digest
<1>3. Append(d, b)[Len(d) + 1] = b /\ Append(e, c)[Len(e) + 1] = c
  BY DEF Digest
<1>4. \A i \in 1 .. Len(d) : Append(d, b)[i] = d[i] /\ Append(e, c)[i] = e[i]
  BY <1>2 DEF Digest
<1>5. \A i \in 1 .. Len(d) : d[i] = e[i]
  BY <1>4 DEF chain_hash
<1> QED
  BY <1>2, <1>3, <1>5 DEF chain_hash, Digest

LEMMA DigestsAreLonger ==
  ASSUME NEW d \in Digest, NEW b \in Texts
  PROVE  chain_hash(d, b) # d
<1>1. Len(Append(d, b)) = Len(d) + 1 /\ Len(d) \in Nat
  BY DEF Digest
<1> QED
  BY <1>1 DEF chain_hash

(* What a rewrite makes of a row is a row, and not the same one.            *)
LEMMA RewrittenTyped ==
  ASSUME NEW r \in Row, NEW n \in Rewritten(r)
  PROVE  n \in Row /\ n # r
<1>1. <<Forged>> \in Digest /\ r.prev \in Digest /\ r.hash \in Digest
  BY DEF Digest, Row, Texts
<1>2. \A p \in {r.prev, <<Forged>>}, b \in Texts : chain_hash(p, b) \in Digest
  BY <1>1, DigestsGrow
<1>3. {r.hash, <<Forged>>} \cup {chain_hash(p, b) : p \in {r.prev, <<Forged>>}, b \in Texts}
        \subseteq Digest
  BY <1>1, <1>2
<1> QED
  BY <1>1, <1>3 DEF Rewritten, Row

(* Rewriting a covered column of a row below the last breaks its own hash or*)
(* its successor's link.                                                    *)
LEMMA RewriteShows ==
  ASSUME NEW t \in Seq(Row), Breaks(t) = {}, NEW i \in DOMAIN t, i < Len(t),
         NEW n \in Row, ~SameChain(t[i], n)
  PROVE  \E j \in DOMAIN t : j \in Breaks([t EXCEPT ![i] = n])
<1> DEFINE u == [t EXCEPT ![i] = n]
<1>1. t[i] \in Row /\ n \in Row
  OBVIOUS
<1>2. i \in 1 .. Len(t) /\ i + 1 \in DOMAIN t /\ i + 1 # 1 /\ (i + 1) - 1 = i
  OBVIOUS
<1>3. DOMAIN u = DOMAIN t /\ u[i] = n /\ u[i+1] = t[i+1]
  BY <1>2
<1>4. /\ t[i].hash = chain_hash(t[i].prev, t[i].body)
      /\ t[i+1].prev = t[i].hash
  BY <1>2 DEF Breaks, ExpectedPrev
<1> HIDE DEF u
<1>5. CASE n.hash # t[i].hash
  <2>1. ExpectedPrev(u, i + 1) = n.hash
    BY <1>2, <1>3 DEF ExpectedPrev
  <2>2. i + 1 \in Breaks(u)
    BY <1>2, <1>3, <1>4, <1>5, <2>1 DEF Breaks
  <2> QED
    BY <1>2, <2>2 DEF u
<1>6. CASE n.hash = t[i].hash
  <2>1. n.hash # chain_hash(n.prev, n.body)
    <3>1. SUFFICES ASSUME chain_hash(n.prev, n.body) = chain_hash(t[i].prev, t[i].body)
                   PROVE  FALSE
      BY <1>4, <1>6
    <3>2. n.prev = t[i].prev /\ n.body = t[i].body
      BY <1>1, <3>1, DigestsAreInjective DEF Row
    <3> QED
      BY <1>6, <3>2 DEF SameChain
  <2>2. i \in Breaks(u)
    BY <1>3, <2>1 DEF Breaks
  <2> QED
    BY <2>2 DEF u
<1> QED
  BY <1>5, <1>6

(* A new stamp breaks nothing.                                              *)
LEMMA RestampHides ==
  ASSUME NEW t \in Seq(Row), Breaks(t) = {}, NEW i \in DOMAIN t,
         NEW n \in Row, SameChain(t[i], n)
  PROVE  Breaks([t EXCEPT ![i] = n]) = {}
<1> DEFINE u == [t EXCEPT ![i] = n]
<1>1. DOMAIN u = DOMAIN t /\ \A k \in DOMAIN t : SameChain(t[k], u[k])
  BY DEF SameChain
<1> HIDE DEF u
<1>2. ASSUME NEW k \in DOMAIN t
      PROVE  k \notin Breaks(u)
  <2>1. k = 1 \/ k - 1 \in DOMAIN t
    OBVIOUS
  <2>2. ExpectedPrev(u, k) = ExpectedPrev(t, k)
    BY <1>1, <2>1 DEF ExpectedPrev, SameChain
  <2> QED
    BY <1>1, <2>2 DEF Breaks, SameChain
<1> QED
  BY <1>1, <1>2 DEF Breaks, u

LEMMA TailOf ==
  ASSUME NEW S, NEW m \in Nat, NEW k \in 1 .. m + 1, NEW q \in Seq(S), Len(q) = m
  PROVE  /\ SubSeq(q, k, m) \in Seq(S) /\ Len(SubSeq(q, k, m)) = m + 1 - k
         /\ \A j \in 1 .. m + 1 - k : SubSeq(q, k, m)[j] = q[k + j - 1]
  OBVIOUS

LEMMA WithoutRow ==
  ASSUME NEW t \in Seq(Row), NEW i \in DOMAIN t
  PROVE  /\ Without(t, i) \in Seq(Row)
         /\ Len(Without(t, i)) = Len(t) - 1
         /\ \A j \in 1 .. Len(t) - 1 :
              Without(t, i)[j] = IF j < i THEN t[j] ELSE t[j+1]
<1> DEFINE a == SubSeq(t, 1, i - 1)
           b == SubSeq(t, i + 1, Len(t))
<1>1. i \in 1 .. Len(t) /\ Len(t) \in Nat
  OBVIOUS
<1>2. /\ SubSeq(t, 1, i - 1) \in Seq(Row) /\ Len(SubSeq(t, 1, i - 1)) = i - 1
      /\ \A j \in 1 .. i - 1 : SubSeq(t, 1, i - 1)[j] = t[j]
  BY <1>1
<1>3. /\ SubSeq(t, i + 1, Len(t)) \in Seq(Row) /\ Len(SubSeq(t, i + 1, Len(t))) = Len(t) - i
      /\ \A j \in 1 .. Len(t) - i : SubSeq(t, i + 1, Len(t))[j] = t[i + j]
  <2>2. i + 1 \in 1 .. Len(t) + 1 /\ Len(t) + 1 - (i + 1) = Len(t) - i
    BY <1>1
  <2>3. /\ SubSeq(t, i + 1, Len(t)) \in Seq(Row) /\ Len(SubSeq(t, i + 1, Len(t))) = Len(t) - i
        /\ \A j \in 1 .. Len(t) - i : SubSeq(t, i + 1, Len(t))[j] = t[(i + 1) + j - 1]
    BY <1>1, <2>2, TailOf
  <2>4. \A j \in 1 .. Len(t) - i : (i + 1) + j - 1 = i + j
    BY <1>1
  <2> QED
    BY <2>3, <2>4
<1> HIDE DEF a, b
<1>4. a \in Seq(Row) /\ b \in Seq(Row) /\ Len(a) = i - 1 /\ Len(b) = Len(t) - i
  BY <1>2, <1>3 DEF a, b
<1>5. /\ a \o b \in Seq(Row) /\ Len(a \o b) = Len(t) - 1
      /\ \A j \in 1 .. Len(t) - 1 : (a \o b)[j] = IF j < i THEN a[j] ELSE b[j - (i - 1)]
  <2>1. /\ a \o b \in Seq(Row) /\ Len(a \o b) = Len(a) + Len(b)
        /\ \A j \in 1 .. Len(a) + Len(b) :
             (a \o b)[j] = IF j <= Len(a) THEN a[j] ELSE b[j - Len(a)]
    BY <1>4, ConcatProperties
  <2>2. Len(a) + Len(b) = Len(t) - 1
    BY <1>1, <1>4
  <2>3. \A j \in 1 .. Len(t) - 1 : j < i <=> j <= Len(a)
    BY <1>1, <1>4
  <2>4. ASSUME NEW j \in 1 .. Len(t) - 1
        PROVE  (a \o b)[j] = IF j < i THEN a[j] ELSE b[j - (i - 1)]
    <3>1. j \in 1 .. Len(a) + Len(b) /\ (j < i <=> j <= Len(a)) /\ Len(a) = i - 1
      BY <1>4, <2>2, <2>3
    <3>2. (a \o b)[j] = IF j <= Len(a) THEN a[j] ELSE b[j - Len(a)]
      BY <2>1, <3>1
    <3> QED
      BY <3>1, <3>2
  <2> QED
    BY <2>1, <2>2, <2>4
<1>6. ASSUME NEW j \in 1 .. Len(t) - 1
      PROVE  (a \o b)[j] = IF j < i THEN t[j] ELSE t[j+1]
  <2>1. CASE j < i
    <3>1. j \in 1 .. i - 1
      BY <1>1, <2>1
    <3> QED
      BY <1>2, <1>5, <2>1, <3>1 DEF a
  <2>2. CASE ~(j < i)
    <3>1. j - (i - 1) \in 1 .. Len(t) - i /\ i + (j - (i - 1)) = j + 1
      BY <1>1, <2>2
    <3> QED
      BY <1>3, <1>5, <2>2, <3>1 DEF b
  <2> QED
    BY <2>1, <2>2
<1> QED
  BY <1>5, <1>6 DEF Without, a, b

LEMMA WithoutTyped ==
  ASSUME NEW t \in Seq(Row), NEW i \in DOMAIN t
  PROVE  Without(t, i) \in Seq(Row) /\ Len(Without(t, i)) = Len(t) - 1
  BY WithoutRow, Zenon

(* Deleting a row below the last breaks the link of the row that moves up.  *)
LEMMA DeletionShows ==
  ASSUME NEW t \in Seq(Row), Breaks(t) = {}, NEW i \in DOMAIN t, i < Len(t)
  PROVE  i \in Breaks(Without(t, i))
<1> DEFINE u == Without(t, i)
<1>1. i \in 1 .. Len(t) - 1 /\ i \in 1 .. Len(t) /\ i + 1 \in DOMAIN t
      /\ i + 1 # 1 /\ (i + 1) - 1 = i /\ Len(t) \in Nat
  OBVIOUS
<1>2. /\ u \in Seq(Row) /\ Len(u) = Len(t) - 1
      /\ \A j \in 1 .. Len(t) - 1 : u[j] = IF j < i THEN t[j] ELSE t[j+1]
  BY WithoutRow
<1> HIDE DEF u
<1>3. i \in DOMAIN u /\ u[i] = t[i+1]
  BY <1>1, <1>2
<1>4. ExpectedPrev(u, i) = ExpectedPrev(t, i)
  <2>1. CASE i = 1
    BY <2>1 DEF ExpectedPrev
  <2>2. CASE i # 1
    <3>1. i - 1 \in 1 .. Len(t) - 1 /\ i - 1 < i
      BY <1>1, <2>2
    <3> QED
      BY <1>2, <2>2, <3>1 DEF ExpectedPrev
  <2> QED
    BY <2>1, <2>2
<1>5. t[i+1].prev = t[i].hash /\ t[i].prev = ExpectedPrev(t, i)
      /\ t[i].hash = chain_hash(t[i].prev, t[i].body)
  BY <1>1 DEF Breaks, ExpectedPrev
<1>6. t[i].hash # t[i].prev
  <2>1. t[i].prev \in Digest /\ t[i].body \in Texts
    <3>1. t[i] \in Row
      BY <1>1
    <3> QED
      BY <3>1 DEF Row
  <2> QED
    BY <1>5, <2>1, DigestsAreLonger
<1> QED
  BY <1>3, <1>4, <1>5, <1>6 DEF Breaks, u

(* A link is as long as the chain before it.                                *)
LEMMA LinksGrow ==
  ASSUME NEW t \in Seq(Row), Breaks(t) = {}, NEW i \in DOMAIN t
  PROVE  t[i].prev = ExpectedPrev(t, i) /\ Len(t[i].prev) = i - 1
<1>1. t[i].prev = ExpectedPrev(t, i)
  BY DEF Breaks
<1>2. CASE i = 1
  BY <1>1, <1>2 DEF ExpectedPrev, GENESIS_HASH
<1>3. CASE i # 1
  <2>1. i - 1 \in DOMAIN t /\ i - 1 \in Nat
    BY <1>3
  <2>2. t[i-1].hash = [j \in 1 .. i - 1 |-> t[j].body]
    BY <2>1, ChainCommits DEF Faithful
  <2>3. ASSUME NEW n \in Nat, NEW f, f = [j \in 1 .. n |-> t[j].body]
        PROVE  Len(f) = n
    BY <2>3
  <2> QED
    BY <1>1, <1>3, <2>1, <2>2, <2>3 DEF ExpectedPrev
<1> QED
  BY <1>2, <1>3 DEF Breaks

(* A row moved elsewhere, or the one that takes its place, has a link that  *)
(* is too long or too short.                                                *)
LEMMA MoveShows ==
  ASSUME NEW t \in Seq(Row), NEW i \in DOMAIN t, NEW j \in DOMAIN t, i # j
  PROVE  /\ Moved(t, i, j) \in Seq(Row) /\ Len(Moved(t, i, j)) = Len(t)
         /\ Breaks(t) = {} => \E k \in DOMAIN t : k \in Breaks(Moved(t, i, j))
<1> DEFINE u == Moved(t, i, j)
<1>1. i \in 1 .. Len(t) /\ j \in 1 .. Len(t) /\ Len(t) \in Nat /\ DOMAIN t = 1 .. Len(t)
  OBVIOUS
<1>2. ASSUME NEW k \in DOMAIN t
      PROVE  u[k] \in Row
  BY <1>1 DEF Moved
<1>3. u \in Seq(Row) /\ Len(u) = Len(t) /\ DOMAIN u = DOMAIN t
  <2>1. u \in [1 .. Len(t) -> Row]
    BY <1>1, <1>2 DEF Moved
  <2>2. ASSUME NEW n \in Nat, NEW f \in [1 .. n -> Row]
        PROVE  f \in Seq(Row) /\ Len(f) = n /\ DOMAIN f = 1 .. n
    OBVIOUS
  <2> QED
    BY <1>1, <2>1, <2>2
<1>4. SUFFICES ASSUME Breaks(t) = {}
               PROVE  \E k \in DOMAIN t : k \in Breaks(u)
  BY <1>3
<1>5. CASE i < j
  <2>1. i + 1 \in DOMAIN t
    BY <1>1, <1>5
  <2>2. u[i] = t[i+1] /\ (i # 1 => u[i-1] = t[i-1])
    BY <1>1, <1>5 DEF Moved
  <2>3. ExpectedPrev(u, i) = ExpectedPrev(t, i)
    BY <2>2 DEF ExpectedPrev
  <2>4. Len(t[i+1].prev) = (i + 1) - 1 /\ ExpectedPrev(t, i) = t[i].prev
        /\ Len(t[i].prev) = i - 1
    BY <1>4, <2>1, LinksGrow
  <2>5. u[i].prev # ExpectedPrev(u, i)
    BY <1>1, <2>2, <2>3, <2>4
  <2> QED
    BY <1>3, <2>5 DEF Breaks
<1>6. CASE j < i
  <2>1. u[j] = t[i] /\ (j # 1 => u[j-1] = t[j-1])
    BY <1>1, <1>6 DEF Moved
  <2>2. ExpectedPrev(u, j) = ExpectedPrev(t, j)
    BY <2>1 DEF ExpectedPrev
  <2>3. Len(t[i].prev) = i - 1 /\ ExpectedPrev(t, j) = t[j].prev /\ Len(t[j].prev) = j - 1
    BY <1>4, LinksGrow
  <2>4. u[j].prev # ExpectedPrev(u, j)
    BY <1>1, <1>6, <2>1, <2>2, <2>3
  <2> QED
    BY <1>3, <2>4 DEF Breaks
<1> QED
  BY <1>1, <1>5, <1>6

(* What an edit leaves: a table, and of a whole chain a broken one if a hash*)
(* covers what was edited below the last row, a whole one if none does.     *)
LEMMA EditsOfChain ==
  ASSUME TypeOK, NEW i \in DOMAIN table, Edit(i)
  PROVE  /\ table' \in Seq(Row)
         /\ edited' \in {"stamp", "last", "inner"}
         /\ Breaks(table) = {} =>
              /\ edited' = "inner" => \E j \in 1 .. Len(table') : j \in Breaks(table')
              /\ edited' = "stamp" => Breaks(table') = {}
<1> DEFINE Goal == /\ table' \in Seq(Row)
                   /\ edited' \in {"stamp", "last", "inner"}
                   /\ Breaks(table) = {} =>
                        /\ edited' = "inner" =>
                             \E j \in 1 .. Len(table') : j \in Breaks(table')
                        /\ edited' = "stamp" => Breaks(table') = {}
<1>1. table \in Seq(Row) /\ Len(table) \in Nat /\ table[i] \in Row
      /\ DOMAIN table = 1 .. Len(table)
  BY DEF TypeOK
<1>2. Depth(i) = (IF i < Len(table) THEN "inner" ELSE "last")
  BY DEF Depth
<1>3. ASSUME NEW n \in Rewritten(table[i]), table' = [table EXCEPT ![i] = n],
             edited' = IF SameChain(table[i], n) THEN "stamp" ELSE Depth(i)
      PROVE  Goal
  <2>1. n \in Row
    BY <1>1, RewrittenTyped
  <2>2. table' \in Seq(Row) /\ Len(table') = Len(table)
    BY <1>1, <1>3, <2>1
  <2>3. CASE SameChain(table[i], n)
    BY <1>1, <1>3, <2>1, <2>2, <2>3, RestampHides
  <2>4. CASE ~SameChain(table[i], n) /\ i < Len(table)
    BY <1>1, <1>2, <1>3, <2>1, <2>2, <2>4, RewriteShows
  <2>5. CASE ~SameChain(table[i], n) /\ ~(i < Len(table))
    BY <1>2, <1>3, <2>2, <2>5
  <2> QED
    BY <2>3, <2>4, <2>5
<1>4. ASSUME table' = Without(table, i), edited' = Depth(i)
      PROVE  Goal
  <2>1. table' \in Seq(Row) /\ Len(table') = Len(table) - 1
    <3>1. PICK t : t = table
      OBVIOUS
    <3>2. t \in Seq(Row) /\ i \in DOMAIN t
      BY <1>1, <3>1
    <3>3. Without(t, i) \in Seq(Row) /\ Len(Without(t, i)) = Len(t) - 1
      BY <3>2, WithoutTyped
    <3> QED
      BY <1>4, <3>1, <3>3
  <2>2. CASE i < Len(table)
    <3>1. Breaks(table) = {} => i \in Breaks(table')
      BY <1>1, <1>4, <2>2, DeletionShows
    <3>2. i \in 1 .. Len(table')
      BY <1>1, <2>1, <2>2
    <3> QED
      BY <1>2, <1>4, <2>1, <2>2, <3>1, <3>2
  <2>3. CASE ~(i < Len(table))
    BY <1>2, <1>4, <2>1, <2>3
  <2> QED
    BY <2>2, <2>3
<1>5. ASSUME NEW j \in DOMAIN table \ {i}, table' = Moved(table, i, j), edited' = "inner"
      PROVE  Goal
  BY <1>1, <1>5, MoveShows
<1> QED
  BY <1>3, <1>4, <1>5 DEF Edit

LEMMA EditKeeps ==
  ASSUME LedgerInv, NEW i \in DOMAIN table, Edit(i)
  PROVE  LedgerInv'
<1>1. /\ edits' = edits + 1 /\ lock = {}
      /\ synced' = Len(table')
      /\ UNCHANGED <<writerVars, lock, returned, appends, faults, losses>>
  BY DEF Edit
<1>2. edits \in Nat /\ TypeOK
  BY DEF LedgerInv, TypeOK
<1>3. /\ table' \in Seq(Row)
      /\ edited' \in {"stamp", "last", "inner"}
      /\ Breaks(table) = {} =>
           /\ edited' = "inner" => \E j \in 1 .. Len(table') : j \in Breaks(table')
           /\ edited' = "stamp" => Breaks(table') = {}
  BY <1>2, EditsOfChain
<1>4. Len(table') \in Nat /\ synced' \in 0 .. Len(table')
  BY <1>1, <1>3
<1>5. TypeOK'
  BY <1>1, <1>2, <1>3, <1>4 DEF TypeOK, writerVars
<1>6. Exclusive' /\ Linked'
  <2>1. \A w \in Writers : pc[w] \notin InTransaction
    BY <1>1 DEF LedgerInv, Exclusive
  <2> QED
    BY <1>1, <2>1 DEF Exclusive, Linked, InTransaction, writerVars
<1>7. edits' = 1 => Breaks(table) = {}
  BY <1>1, <1>2 DEF LedgerInv, Whole
<1>8. Whole'
  BY <1>1, <1>2, <1>3, <1>7 DEF Whole
<1>9. Scarred'
  BY <1>1, <1>3, <1>7 DEF Scarred
<1> QED
  BY <1>5, <1>6, <1>8, <1>9 DEF LedgerInv

-------------------------------------------------------------------------------
LEMMA NextInv == LedgerInv /\ [Next]_vars => LedgerInv'
<1> SUFFICES ASSUME LedgerInv, [Next]_vars PROVE LedgerInv'
  OBVIOUS
<1>1. ASSUME NEW w \in Writers, Proceed(w)
      PROVE  LedgerInv'
  BY <1>1, LockingKeeps, InsertKeeps, CommitKeeps, ReturnKeeps DEF Proceed
<1>2. CASE UNCHANGED vars
  BY <1>2 DEF vars, writerVars, fileVars, tamperVars, LedgerInv, TypeOK, Exclusive, Linked,
              Whole, Scarred
<1> QED
  BY <1>1, <1>2, BeginsKeeps, FailsKeeps, CheckpointKeeps, LosePowerKeeps, EditKeeps DEF Next

(* The inductive invariant holds in every state.                            *)
THEOREM LedgerInvariance == Spec => []LedgerInv
<1> QED
  BY InitInv, NextInv, PTL DEF Spec

(* Every variable of the ledger keeps its type.                             *)
THEOREM LedgerTypeCorrect == Spec => []TypeOK
<1>1. LedgerInv => TypeOK
  BY DEF LedgerInv
<1> QED
  BY <1>1, LedgerInvariance, PTL

(* However many threads append, fail, crash and lose power, a ledger nobody *)
(* has edited verifies at every moment: the chain never forks.              *)
THEOREM ChainNeverForks == Spec => []ChainVerifies
<1>1. LedgerInv => ChainVerifies
  BY DEF LedgerInv, Whole, ChainVerifies
<1> QED
  BY <1>1, LedgerInvariance, PTL

(* One edit below the last row of a column that the hash covers, a deletion *)
(* or a renumbering that moves a row shows in verify for ever after,        *)
(* whatever is appended or lost; an edit of recorded_at alone never does.   *)
THEOREM InnerEditsShow == Spec => []ForgerMustRewriteTheTail
<1>1. LedgerInv => ForgerMustRewriteTheTail
  BY DEF LedgerInv, Whole, Scarred, ForgerMustRewriteTheTail
<1> QED
  BY <1>1, LedgerInvariance, PTL

-------------------------------------------------------------------------------
(* A chain that verifies and holds a hash some caller kept tells the bodies *)
(* that hash was made of, up to that row, after any number of edits, faults *)
(* and power losses (verify; the LedgerEntry that append returns).          *)
THEOREM KeptHashesAnchor == Spec => []KeptHashAnchorsHistory
<1>1. TypeOK => KeptHashAnchorsHistory
  BY ChainCommits DEF TypeOK, KeptHashAnchorsHistory, Faithful
<1> QED
  BY <1>1, LedgerTypeCorrect, PTL

-------------------------------------------------------------------------------
(* The refinement of DecisionLog.                                           *)

(* What a writer appends is what it was called with.                        *)
Genuine ==
  \A w \in Writers :
    /\ pc[w] # "idle" => body[w] \in Bodies
    /\ pc[w] = "inserted" => pending[w].body = body[w]

LEMMA GenuineKept ==
  ASSUME TypeOK, Genuine, [Next]_vars
  PROVE  Genuine'
<1>1. ASSUME NEW w \in Writers, Begins(w)
      PROVE  Genuine'
  <2>1. CASE RefusePayload(w)
    BY <2>1 DEF RefusePayload, Genuine
  <2>2. ASSUME NEW b \in Bodies, BeginAppend(w, b)
        PROVE  Genuine'
    BY <2>2 DEF BeginAppend, Call, Goto, Genuine, TypeOK
  <2> QED
    BY <1>1, <2>1, <2>2 DEF Begins
<1>2. ASSUME NEW w \in Writers, Leave(w)
      PROVE  Genuine'
  BY <1>2 DEF Leave, Goto, Genuine, TypeOK
<1>3. ASSUME NEW w \in Writers, BeginImmediate(w) \/ ReadHead(w) \/ Commit(w)
      PROVE  Genuine'
  BY <1>3 DEF BeginImmediate, ReadHead, Commit, Goto, Genuine, TypeOK
<1>4. ASSUME NEW w \in Writers, Insert(w), ~Rollback(w)
      PROVE  Genuine'
  <2>1. PICK h : pending' = [pending EXCEPT ![w] = [prev |-> prev[w], hash |-> h,
                                                    body |-> body[w], stamp |-> "own"]]
    BY <1>4 DEF Insert
  <2>2. pc' = [pc EXCEPT ![w] = "inserted"] /\ UNCHANGED body /\ pc[w] = "read"
    BY <1>4 DEF Insert, Goto
  <2> QED
    BY <2>1, <2>2 DEF Genuine, TypeOK
<1>5. ASSUME NEW w \in Writers, GiveUp(w) \/ Return(w) \/ Rollback(w) \/ Fails(w)
      PROVE  Genuine'
  BY <1>2, <1>5 DEF GiveUp, Return, Rollback, Fails, Abort, ReturnRaises, Crash
<1>6. CASE LosePower
  BY <1>6 DEF LosePower, Restart, Genuine
<1>7. CASE Checkpoint \/ (\E i \in DOMAIN table : Edit(i)) \/ UNCHANGED vars
  BY <1>7 DEF Checkpoint, Edit, vars, writerVars, Genuine
<1> QED
  BY <1>1, <1>3, <1>4, <1>5, <1>6, <1>7 DEF Next, Proceed

(* A writer between COMMIT and return has its row in the table, at a place  *)
(* it shares with no other.                                                 *)
Placed ==
  edits = 0 =>
    \A w \in Writers : pc[w] = "committed" =>
      /\ Place(pending[w]) \in DOMAIN table /\ table[Place(pending[w])] = pending[w]
      /\ \A v \in Writers :
           pc[v] = "committed" /\ Place(pending[v]) = Place(pending[w]) => v = w

(* What a step other than a COMMIT does to the writers after theirs: they   *)
(* stay there with their rows, or leave.                                    *)
LEMMA CommittedStay ==
  ASSUME TypeOK, [Next]_vars, \A w \in Writers : ~Commit(w)
  PROVE  \A v \in Writers : pc'[v] = "committed" =>
           pc[v] = "committed" /\ pending'[v] = pending[v]
<1>1. ASSUME NEW w \in Writers, Leave(w)
      PROVE  \A v \in Writers : pc'[v] = "committed" =>
               pc[v] = "committed" /\ pending'[v] = pending[v]
  BY <1>1 DEF Leave, Goto, TypeOK
<1>2. ASSUME NEW w \in Writers, Begins(w) \/ BeginImmediate(w) \/ ReadHead(w)
      PROVE  \A v \in Writers : pc'[v] = "committed" =>
               pc[v] = "committed" /\ pending'[v] = pending[v]
  BY <1>2 DEF Begins, RefusePayload, BeginAppend, BeginImmediate, ReadHead, Goto, TypeOK
<1>3. ASSUME NEW w \in Writers, Insert(w), ~Rollback(w)
      PROVE  \A v \in Writers : pc'[v] = "committed" =>
               pc[v] = "committed" /\ pending'[v] = pending[v]
  <2>1. pc' = [pc EXCEPT ![w] = "inserted"] /\ \E r : pending' = [pending EXCEPT ![w] = r]
    BY <1>3 DEF Insert, Goto
  <2> QED
    BY <2>1 DEF TypeOK
<1>4. ASSUME NEW w \in Writers, GiveUp(w) \/ Rollback(w) \/ Return(w) \/ Fails(w)
      PROVE  Leave(w)
  BY <1>4 DEF GiveUp, Rollback, Return, Fails, Abort, ReturnRaises, Crash
<1>5. CASE LosePower
  BY <1>5 DEF LosePower, Restart
<1>6. CASE Checkpoint \/ (\E i \in DOMAIN table : Edit(i)) \/ UNCHANGED vars
  BY <1>6 DEF Checkpoint, Edit, vars, writerVars
<1> QED
  BY <1>1, <1>2, <1>3, <1>4, <1>5, <1>6 DEF Next, Proceed

(* The hash of the row just committed is the digest of all there is, and its*)
(* place is the last.                                                       *)
LEMMA CommitPlaces ==
  ASSUME LedgerInv, LedgerInv', NEW w \in Writers, Commit(w), edits = 0
  PROVE  /\ table' = Append(table, pending[w])
         /\ pending[w].hash = [j \in 1 .. Len(table) + 1 |-> table'[j].body]
         /\ Place(pending[w]) = Len(table) + 1
         /\ table'[Len(table) + 1] = pending[w]
         /\ DOMAIN table = 1 .. Len(table) /\ DOMAIN table' = 1 .. Len(table) + 1
         /\ Len(table) \in Nat
         /\ \A i \in DOMAIN table : table'[i] = table[i]
<1>1. PICK t : t = table
  OBVIOUS
<1>2. PICK r : r = pending[w]
  OBVIOUS
<1>3. PICK u : u = table'
  OBVIOUS
<1>4. /\ t \in Seq(Row) /\ r \in Row /\ u = Append(t, r)
      /\ u \in Seq(Row) /\ Breaks(u) = {}
  <2>1. edits' = 0
    BY DEF Commit, tamperVars
  <2> QED
    BY <1>1, <1>2, <1>3, <2>1 DEF Commit, LedgerInv, TypeOK, Whole
<1>5. /\ DOMAIN t = 1 .. Len(t) /\ Len(t) \in Nat /\ DOMAIN u = 1 .. Len(t) + 1
      /\ \A i \in DOMAIN t : u[i] = t[i]
      /\ u[Len(t) + 1] = r
  BY <1>4, AppendedRow
<1>6. Faithful(u, Len(t) + 1)
  <2>1. \A i \in DOMAIN u : Faithful(u, i)
    BY <1>4, ChainCommits
  <2>2. Len(t) + 1 \in DOMAIN u
    BY <1>5
  <2> QED
    BY <2>1, <2>2
<1>7. r.hash = [j \in 1 .. Len(t) + 1 |-> u[j].body]
  BY <1>5, <1>6 DEF Faithful
<1>8. Len(r.hash) = Len(t) + 1
  <2>1. ASSUME NEW n \in Nat, NEW f, f = [j \in 1 .. n |-> u[j].body]
        PROVE  Len(f) = n
    BY <2>1
  <2> QED
    BY <1>5, <1>7, <2>1
<1> QED
  BY <1>1, <1>2, <1>3, <1>4, <1>5, <1>7, <1>8 DEF Place

LEMMA PlacedKept ==
  ASSUME LedgerInv, LedgerInv', Placed, [Next]_vars
  PROVE  Placed'
<1>1. SUFFICES ASSUME edits' = 0
               PROVE  Placed'
  BY DEF Placed
<1>2. edits = 0
  <2>1. edits \in Nat
    BY DEF LedgerInv, TypeOK
  <2>2. ASSUME NEW w \in Writers, Begins(w) \/ Proceed(w) \/ Fails(w)
        PROVE  UNCHANGED edits
    BY <2>2 DEF tamperVars, Begins, Proceed, Fails, RefusePayload, BeginAppend, BeginImmediate,
       GiveUp, ReadHead, Insert, Commit, Return, Abort, ReturnRaises, Crash
  <2>3. ASSUME Checkpoint \/ LosePower \/ UNCHANGED vars
        PROVE  UNCHANGED edits
    BY <2>3 DEF vars, tamperVars, Checkpoint, LosePower, Restart
  <2>4. ASSUME NEW i \in DOMAIN table, Edit(i)
        PROVE  edits' = edits + 1
    BY <2>4 DEF Edit
  <2> QED
    BY <1>1, <2>1, <2>2, <2>3, <2>4 DEF Next
<1>3. TypeOK
  BY DEF LedgerInv
<1>4. ASSUME NEW w \in Writers, Commit(w)
      PROVE  Placed'
  <2>1. PICK n : n = Len(table)
    OBVIOUS
  <2>2. /\ Place(pending[w]) = n + 1 /\ table'[n + 1] = pending[w] /\ n \in Nat
        /\ DOMAIN table = 1 .. n /\ DOMAIN table' = 1 .. n + 1
        /\ \A i \in DOMAIN table : table'[i] = table[i]
    BY <1>2, <1>4, <2>1, CommitPlaces
  <2>3. pc' = [pc EXCEPT ![w] = "committed"] /\ UNCHANGED pending
    BY <1>4 DEF Commit, Goto
  <2>4. \A v \in Writers : v # w /\ pc'[v] = "committed" =>
          /\ pc[v] = "committed"
          /\ Place(pending[v]) \in 1 .. n /\ table[Place(pending[v])] = pending[v]
    BY <1>2, <1>3, <2>2, <2>3 DEF Placed, TypeOK
  <2>5. \A v \in Writers : pc'[v] = "committed" =>
          Place(pending[v]) \in DOMAIN table' /\ table'[Place(pending[v])] = pending[v]
    BY <2>2, <2>4
  <2>6. \A v, x \in Writers :
          pc'[v] = "committed" /\ pc'[x] = "committed" /\ Place(pending[v]) = Place(pending[x])
            => v = x
    BY <1>2, <2>2, <2>4 DEF Placed
  <2> QED
    BY <2>3, <2>5, <2>6 DEF Placed, Place
<1>5. ASSUME \A w \in Writers : ~Commit(w)
      PROVE  Placed'
  <2>1. \A v \in Writers : pc'[v] = "committed" =>
          pc[v] = "committed" /\ pending'[v] = pending[v]
    BY <1>3, <1>5, CommittedStay
  <2>2. UNCHANGED table \/ \A v \in Writers : pc'[v] # "committed"
    BY <1>1, <1>2, <1>5 DEF Next, vars, Begins, Proceed, Fails, RefusePayload, BeginAppend,
       BeginImmediate, GiveUp, ReadHead, Insert, Return, Abort, ReturnRaises, Crash, Checkpoint,
       LosePower, Restart, Edit, fileVars
  <2> QED
    BY <1>2, <2>1, <2>2 DEF Placed, Place
<1> QED
  BY <1>4, <1>5

(* What of the writers after their COMMIT a step leaves as it was.          *)
LEMMA StillOwed ==
  ASSUME \A v \in Writers : /\ pc'[v] = "committed" <=> pc[v] = "committed"
                            /\ pc[v] = "committed" => pending'[v] = pending[v]
  PROVE  Unreturned' = Unreturned
  BY DEF Unreturned

(* One writer leaves it: its row is owed no more, and every other one is.   *)
LEMMA OneLess ==
  ASSUME TypeOK, Placed, edits = 0, NEW w \in Writers, pc[w] = "committed", Leave(w)
  PROVE  /\ Place(pending[w]) \in Places(Unreturned)
         /\ Unreturned' = Unreturned \ {pending[w]}
         /\ Places(Unreturned') = Places(Unreturned) \ {Place(pending[w])}
<1>1. pc'[w] # "committed"
      /\ \A v \in Writers : v # w => pc'[v] = pc[v] /\ pending'[v] = pending[v]
  BY DEF Leave, Goto, TypeOK
<1>2. \A v \in Writers : v # w /\ pc[v] = "committed" =>
        Place(pending[v]) # Place(pending[w]) /\ pending[v] # pending[w]
  BY DEF Placed
<1>3. Unreturned' = {pending[v] : v \in {x \in Writers : x # w /\ pc[x] = "committed"}}
  BY <1>1 DEF Unreturned
<1>4. Unreturned' = Unreturned \ {pending[w]}
  BY <1>2, <1>3 DEF Unreturned
<1>5. \A e \in Unreturned : e # pending[w] => Place(e) # Place(pending[w])
  BY <1>2 DEF Unreturned
<1>6. pending[w] \in Unreturned
  BY DEF Unreturned
<1>7. PICK U : U = Unreturned
  OBVIOUS
<1>8. PICK V : V = Unreturned'
  OBVIOUS
<1>9. PICK r : r = pending[w]
  OBVIOUS
<1>10. Places(V) = Places(U) \ {Place(r)}
  BY <1>4, <1>5, <1>7, <1>8, <1>9 DEF Places
<1> QED
  BY <1>4, <1>6, <1>7, <1>8, <1>9, <1>10 DEF Places

(* The bodies and the hashes of a table, of a prefix, of a longer table.     *)
LEMMA ColumnsTyped ==
  ASSUME NEW t \in Seq(Row)
  PROVE  /\ BodiesOf(t) \in Seq(Texts) /\ Len(BodiesOf(t)) = Len(t)
         /\ \A i \in 1 .. Len(t) : BodiesOf(t)[i] = t[i].body
         /\ HashesOf(t) \in Seq(Digest) /\ Len(HashesOf(t)) = Len(t)
         /\ \A i \in 1 .. Len(t) : HashesOf(t)[i] = t[i].hash
<1>1. Len(t) \in Nat /\ DOMAIN t = 1 .. Len(t) /\ \A i \in 1 .. Len(t) : t[i] \in Row
  OBVIOUS
<1>2. \A i \in 1 .. Len(t) : t[i].body \in Texts /\ t[i].hash \in Digest
  BY <1>1 DEF Row
<1>3. ASSUME NEW S, NEW n \in Nat, NEW f \in [1 .. n -> S]
      PROVE  f \in Seq(S) /\ Len(f) = n
  OBVIOUS
<1>4. BodiesOf(t) \in [1 .. Len(t) -> Texts] /\ HashesOf(t) \in [1 .. Len(t) -> Digest]
  BY <1>1, <1>2 DEF BodiesOf, HashesOf
<1> QED
  BY <1>1, <1>3, <1>4 DEF BodiesOf, HashesOf

LEMMA Appended ==
  ASSUME NEW S, NEW q \in Seq(S), NEW x \in S
  PROVE  /\ Append(q, x) \in Seq(S) /\ Len(Append(q, x)) = Len(q) + 1
         /\ DOMAIN Append(q, x) = 1 .. Len(q) + 1
         /\ Append(q, x)[Len(q) + 1] = x
         /\ \A i \in 1 .. Len(q) : Append(q, x)[i] = q[i]
  OBVIOUS

LEMMA ColumnsOfPrefix ==
  ASSUME NEW t \in Seq(Row), NEW k \in 0 .. Len(t)
  PROVE  BodiesOf(SubSeq(t, 1, k)) = SubSeq(BodiesOf(t), 1, k)
<1> DEFINE u == SubSeq(t, 1, k)
           b == BodiesOf(t)
<1>1. u \in Seq(Row) /\ Len(u) = k /\ DOMAIN u = 1 .. k /\ \A i \in 1 .. k : u[i] = t[i]
  BY PrefixOfTable
<1>2. b \in Seq(Texts) /\ Len(b) = Len(t) /\ \A i \in 1 .. Len(t) : b[i] = t[i].body
  BY ColumnsTyped
<1> HIDE DEF b
<1>3. /\ SubSeq(b, 1, k) \in Seq(Texts) /\ Len(SubSeq(b, 1, k)) = k
      /\ DOMAIN SubSeq(b, 1, k) = 1 .. k
      /\ \A i \in 1 .. k : SubSeq(b, 1, k)[i] = b[i]
  BY <1>2
<1>4. BodiesOf(u) = [i \in 1 .. k |-> u[i].body]
  BY <1>1 DEF BodiesOf
<1>5. SubSeq(b, 1, k) = [i \in 1 .. k |-> u[i].body]
  <2>1. \A i \in 1 .. k : i \in 1 .. Len(t)
    OBVIOUS
  <2>2. \A i \in 1 .. k : SubSeq(b, 1, k)[i] = u[i].body
    BY <1>1, <1>2, <1>3, <2>1
  <2> QED
    BY <1>3, <2>2
<1> QED
  BY <1>4, <1>5 DEF b

LEMMA ColumnsGrow ==
  ASSUME NEW t \in Seq(Row), NEW r \in Row
  PROVE  /\ BodiesOf(Append(t, r)) = Append(BodiesOf(t), r.body)
         /\ HashesOf(Append(t, r)) = Append(HashesOf(t), r.hash)
         /\ Len(BodiesOf(t)) = Len(t) /\ BodiesOf(t) \in Seq(Texts)
         /\ Len(HashesOf(t)) = Len(t) /\ HashesOf(t) \in Seq(Digest)
<1> DEFINE u == Append(t, r)
           b == BodiesOf(t)
           h == HashesOf(t)
           n == Len(t)
<1>1. /\ u \in Seq(Row) /\ Len(u) = n + 1 /\ DOMAIN u = 1 .. n + 1 /\ n \in Nat
      /\ \A i \in 1 .. n : u[i] = t[i]
      /\ u[n + 1] = r
  BY AppendedRow
<1>2. /\ b \in Seq(Texts) /\ Len(b) = n /\ \A i \in 1 .. n : b[i] = t[i].body
      /\ h \in Seq(Digest) /\ Len(h) = n /\ \A i \in 1 .. n : h[i] = t[i].hash
  BY ColumnsTyped
<1>3. BodiesOf(u) = [i \in 1 .. n + 1 |-> u[i].body]
      /\ HashesOf(u) = [i \in 1 .. n + 1 |-> u[i].hash]
  BY <1>1 DEF BodiesOf, HashesOf
<1>4. r.body \in Texts /\ r.hash \in Digest
  BY DEF Row
<1> HIDE DEF u, b, h
<1>5. /\ Append(b, r.body) \in Seq(Texts) /\ DOMAIN Append(b, r.body) = 1 .. n + 1
      /\ Append(b, r.body)[n + 1] = r.body
      /\ \A i \in 1 .. n : Append(b, r.body)[i] = b[i]
  BY <1>2, <1>4, Appended
<1>6. /\ Append(h, r.hash) \in Seq(Digest) /\ DOMAIN Append(h, r.hash) = 1 .. n + 1
      /\ Append(h, r.hash)[n + 1] = r.hash
      /\ \A i \in 1 .. n : Append(h, r.hash)[i] = h[i]
  BY <1>2, <1>4, Appended
<1>7. \A i \in 1 .. n + 1 : i \in 1 .. n \/ i = n + 1
  BY <1>1
<1>8. \A i \in 1 .. n + 1 : Append(b, r.body)[i] = u[i].body /\ Append(h, r.hash)[i] = u[i].hash
  BY <1>1, <1>2, <1>5, <1>6, <1>7
<1>9. Append(b, r.body) = [i \in 1 .. n + 1 |-> u[i].body]
      /\ Append(h, r.hash) = [i \in 1 .. n + 1 |-> u[i].hash]
  BY <1>5, <1>6, <1>8
<1> QED
  BY <1>2, <1>3, <1>9 DEF u, b, h

(* Whatever ends with the bodies, the hashes and the marks as they were is  *)
(* no step of the promise.                                                  *)
LEMMA LogStutters ==
  ASSUME UNCHANGED <<table, synced, returned, edits>>, Unreturned' = Unreturned
  PROVE  UNCHANGED Promise!logVars
  BY DEF Promise!logVars, BodiesOf, HashesOf, Breaks, ExpectedPrev, chain_hash, Places, Place

(* A commit is a decision, and owes an entry for the last place.            *)
LEMMA CommitDecides ==
  ASSUME LedgerInv, LedgerInv', Genuine, NEW w \in Writers, Commit(w), edits = 0
  PROVE  \E d \in Bodies : Promise!Decide(d)
<1>1. PICK t : t = table
  OBVIOUS
<1>2. PICK r : r = pending[w]
  OBVIOUS
<1>3. PICK u : u = table'
  OBVIOUS
<1>4. t \in Seq(Row) /\ r \in Row /\ u = Append(t, r) /\ Place(r) = Len(t) + 1
  BY <1>1, <1>2, <1>3, CommitPlaces DEF LedgerInv, TypeOK
<1>5. r.body \in Bodies
  BY <1>2 DEF Commit, Genuine
<1>6. BodiesOf(u) = Append(BodiesOf(t), r.body) /\ Len(BodiesOf(u)) = Len(t) + 1
  <2>1. u \in Seq(Row) /\ Len(u) = Len(t) + 1
    BY <1>4, AppendedRow
  <2> QED
    BY <1>4, <2>1, ColumnsGrow, ColumnsTyped
<1>7. BodiesOf(table)' = Append(BodiesOf(table), r.body)
  <2>1. BodiesOf(table)' = BodiesOf(u)
    BY <1>3 DEF BodiesOf
  <2> QED
    BY <1>1, <1>6, <2>1
<1>8. Places(Unreturned)' = Places(Unreturned) \cup {Len(BodiesOf(table)')}
  <2>1. pc' = [pc EXCEPT ![w] = "committed"] /\ pc[w] = "inserted" /\ UNCHANGED pending
    BY DEF Commit, Goto
  <2>2. Unreturned' = Unreturned \cup {r}
    BY <1>2, <2>1 DEF Unreturned, LedgerInv, TypeOK
  <2>3. PICK U : U = Unreturned
    OBVIOUS
  <2>4. PICK V : V = Unreturned'
    OBVIOUS
  <2>5. Places(V) = Places(U) \cup {Place(r)}
    BY <2>2, <2>3, <2>4 DEF Places
  <2>6. Places(Unreturned)' = Places(V)
    BY <2>4 DEF Places, Place
  <2>7. BodiesOf(table)' = BodiesOf(u)
    BY <1>3 DEF BodiesOf
  <2> QED
    BY <1>4, <1>6, <2>3, <2>5, <2>6, <2>7
<1>9. UNCHANGED <<synced, HashesOf(returned)>>
  BY DEF Commit, HashesOf
<1> QED
  BY <1>5, <1>7, <1>8, <1>9 DEF Promise!Decide

(* The bodies up to a row of a whole chain are what its hash commits to.    *)
LEMMA HashIsPrefix ==
  ASSUME NEW t \in Seq(Row), Breaks(t) = {}, NEW n \in DOMAIN t
  PROVE  t[n].hash = SubSeq(BodiesOf(t), 1, n)
<1>1. n \in 0 .. Len(t) /\ n \in Nat
  OBVIOUS
<1>2. PICK u : u = SubSeq(t, 1, n)
  OBVIOUS
<1>3. u \in Seq(Row) /\ DOMAIN u = 1 .. n /\ \A i \in 1 .. n : u[i] = t[i]
  BY <1>1, <1>2, PrefixOfTable
<1>4. BodiesOf(u) = SubSeq(BodiesOf(t), 1, n)
  BY <1>1, <1>2, ColumnsOfPrefix
<1>5. BodiesOf(u) = [i \in 1 .. n |-> t[i].body]
  BY <1>3 DEF BodiesOf
<1>6. Faithful(t, n)
  BY ChainCommits
<1> QED
  BY <1>4, <1>5, <1>6 DEF Faithful

(* A return is the receipt of a decision that was owed one.                 *)
LEMMA ReturnReceives ==
  ASSUME LedgerInv, Placed, NEW w \in Writers, Return(w), edits = 0
  PROVE  \E n \in Places(Unreturned) : Promise!Receive(n)
<1>1. PICK r : r = pending[w]
  OBVIOUS
<1>2. PICK t : t = table
  OBVIOUS
<1>3. PICK q : q = returned
  OBVIOUS
<1>4. PICK n : n = Place(r)
  OBVIOUS
<1>5. pc[w] = "committed" /\ Leave(w) /\ returned' = Append(q, r) /\ UNCHANGED fileVars
  BY <1>1, <1>3 DEF Return
<1>6. t \in Seq(Row) /\ Breaks(t) = {} /\ q \in Seq(Row) /\ r \in Row
  BY <1>1, <1>2, <1>3 DEF LedgerInv, TypeOK, Whole
<1>7. n \in DOMAIN t /\ t[n] = r
  BY <1>1, <1>2, <1>4, <1>5 DEF Placed
<1>8. r.hash = SubSeq(BodiesOf(t), 1, n)
  BY <1>6, <1>7, HashIsPrefix
<1>9. HashesOf(returned)' = Append(HashesOf(returned), r.hash)
  <2>1. HashesOf(Append(q, r)) = Append(HashesOf(q), r.hash)
    BY <1>6, ColumnsGrow
  <2>2. HashesOf(returned)' = HashesOf(Append(q, r))
    BY <1>5 DEF HashesOf
  <2> QED
    BY <1>3, <2>1, <2>2
<1>10. n \in Places(Unreturned) /\ Places(Unreturned)' = Places(Unreturned) \ {n}
  <2>1. TypeOK
    BY DEF LedgerInv
  <2>2. Places(Unreturned)' = Places(Unreturned')
    BY DEF Places, Place
  <2> QED
    BY <1>1, <1>4, <1>5, <2>1, <2>2, OneLess
<1>11. UNCHANGED <<BodiesOf(table), synced>>
  BY <1>5 DEF fileVars, BodiesOf
<1> QED
  BY <1>2, <1>8, <1>9, <1>10, <1>11 DEF Promise!Receive

(* A failure between COMMIT and return leaves a decision nobody hears of;   *)
(* one before it leaves nothing.                                            *)
LEMMA FailureUnheard ==
  ASSUME LedgerInv, Placed, NEW w \in Writers, Fails(w), edits = 0
  PROVE  (\E n \in Places(Unreturned) : Promise!NeverHeard(n)) \/ UNCHANGED Promise!logVars
<1>1. Leave(w) /\ UNCHANGED <<table, synced, returned, edits>>
  BY DEF Fails, Abort, ReturnRaises, Crash, Rollback, fileVars, tamperVars
<1>2. TypeOK
  BY DEF LedgerInv
<1>3. CASE pc[w] = "committed"
  <2>1. Places(Unreturned)' = Places(Unreturned')
    BY DEF Places, Place
  <2>2. /\ Place(pending[w]) \in Places(Unreturned)
        /\ Places(Unreturned)' = Places(Unreturned) \ {Place(pending[w])}
    BY <1>1, <1>2, <1>3, <2>1, OneLess
  <2>3. UNCHANGED <<BodiesOf(table), synced, HashesOf(returned)>>
    BY <1>1 DEF BodiesOf, HashesOf
  <2> QED
    BY <2>2, <2>3 DEF Promise!NeverHeard
<1>4. CASE pc[w] # "committed"
  <2>1. Unreturned' = Unreturned
    BY <1>1, <1>2, <1>4, StillOwed DEF Leave, Goto, TypeOK
  <2> QED
    BY <1>1, <2>1, LogStutters
<1> QED
  BY <1>3, <1>4

(* A power loss undoes the newest rows that no checkpoint has saved.        *)
LEMMA UndoneNewestFirst ==
  ASSUME LedgerInv, LosePower
  PROVE  Promise!Forget
<1>1. PICK t : t = table
  OBVIOUS
<1>2. PICK k \in synced .. Len(table) : table' = SubSeq(table, 1, k) /\ synced' = k
  BY DEF LosePower
<1>3. t \in Seq(Row) /\ synced \in 0 .. Len(t)
  BY <1>1 DEF LedgerInv, TypeOK
<1>4. k \in 0 .. Len(t) /\ Len(BodiesOf(t)) = Len(t)
  BY <1>1, <1>2, <1>3, ColumnsTyped
<1>5. BodiesOf(SubSeq(t, 1, k)) = SubSeq(BodiesOf(t), 1, k)
  BY <1>3, <1>4, ColumnsOfPrefix
<1>6. BodiesOf(table)' = SubSeq(BodiesOf(table), 1, k)
  <2>1. BodiesOf(table)' = BodiesOf(SubSeq(t, 1, k))
    BY <1>1, <1>2 DEF BodiesOf
  <2> QED
    BY <1>1, <1>5, <2>1
<1>7. k \in synced .. Len(BodiesOf(table))
  BY <1>1, <1>2, <1>4
<1>8. HashesOf(returned)' = HashesOf(returned)
  BY DEF LosePower, Restart, HashesOf
<1>9. Places(Unreturned)' = {}
  BY DEF LosePower, Restart, Unreturned, Places
<1> QED
  BY <1>2, <1>6, <1>7, <1>8, <1>9 DEF Promise!Forget

(* The entries returned stay as they are, after an edit too.                *)
LEMMA ReceiptsKept ==
  ASSUME TypeOK, [Next]_vars
  PROVE  Promise!ReceiptsStand
<1>1. PICK q : q = returned
  OBVIOUS
<1>2. q \in Seq(Row)
  BY <1>1 DEF TypeOK
<1>3. /\ HashesOf(q) \in Seq(Digest)
      /\ SubSeq(HashesOf(q), 1, Len(HashesOf(q))) = HashesOf(q)
  BY <1>2, ColumnsTyped
<1>4. CASE UNCHANGED returned
  <2>1. HashesOf(returned)' = HashesOf(q)
    BY <1>1, <1>4 DEF HashesOf
  <2> QED
    BY <1>1, <1>3, <2>1 DEF Promise!ReceiptsStand
<1>5. ASSUME NEW w \in Writers, Return(w)
      PROVE  Promise!ReceiptsStand
  <2>1. PICK r : r = pending[w]
    OBVIOUS
  <2>2. r \in Row /\ returned' = Append(q, r)
    BY <1>1, <1>5, <2>1 DEF Return, TypeOK
  <2>3. HashesOf(Append(q, r)) = Append(HashesOf(q), r.hash) /\ r.hash \in Digest
    BY <1>2, <2>2, ColumnsGrow DEF Row
  <2>4. ASSUME NEW h \in Seq(Digest), NEW d \in Digest
        PROVE  Len(Append(h, d)) >= Len(h) /\ SubSeq(Append(h, d), 1, Len(h)) = h
    OBVIOUS
  <2>5. HashesOf(returned)' = Append(HashesOf(q), r.hash)
    BY <2>2, <2>3 DEF HashesOf
  <2> QED
    BY <1>1, <1>3, <2>3, <2>4, <2>5 DEF Promise!ReceiptsStand
<1>6. UNCHANGED returned \/ \E w \in Writers : Return(w)
  BY DEF Next, vars, Begins, Proceed, Fails, RefusePayload, BeginAppend, BeginImmediate, GiveUp,
         ReadHead, Insert, Commit, Abort, ReturnRaises, Crash, Checkpoint, LosePower, Restart, Edit
<1> QED
  BY <1>4, <1>5, <1>6

(* A step before the COMMIT moves no writer to or from after it.            *)
LEMMA EarlyStep ==
  ASSUME TypeOK, NEW w \in Writers,
         Begins(w) \/ BeginImmediate(w) \/ GiveUp(w) \/ ReadHead(w) \/ Insert(w)
  PROVE  /\ pc[w] # "committed" /\ pc'[w] # "committed"
         /\ \A v \in Writers : v # w => pc'[v] = pc[v] /\ pending'[v] = pending[v]
<1>1. CASE Begins(w)
  BY <1>1 DEF Begins, RefusePayload, BeginAppend, Call, Goto, TypeOK
<1>2. CASE BeginImmediate(w) \/ ReadHead(w)
  BY <1>2 DEF BeginImmediate, ReadHead, Goto, TypeOK
<1>3. CASE GiveUp(w)
  BY <1>3 DEF GiveUp, Leave, Goto, TypeOK
<1>4. CASE Insert(w)
  <2>1. pc[w] = "read" /\ \E p : pc' = [pc EXCEPT ![w] = p] /\ p # "committed"
    BY <1>4 DEF Insert, Rollback, Leave, Goto
  <2>2. \E r : pending' = [pending EXCEPT ![w] = r]
    BY <1>4 DEF Insert, Rollback, Leave
  <2> QED
    BY <2>1, <2>2 DEF TypeOK
<1> QED
  BY <1>1, <1>2, <1>3, <1>4

LEMMA LogSteps ==
  ASSUME LedgerInv, LedgerInv', Genuine, Placed, [Next]_vars
  PROVE  [Promise!Next]_Promise!logVars
<1>1. edits \in Nat /\ edits' \in Nat /\ TypeOK
  BY DEF LedgerInv, TypeOK
<1>2. CASE edits' > 0
  <2>1. Promise!ReceiptsStand
    BY <1>1, ReceiptsKept
  <2> QED
    BY <1>2, <2>1 DEF Promise!Next, Promise!Touched
<1>3. CASE ~(edits' > 0)
  <2>1. ASSUME NEW w \in Writers, Begins(w) \/ Proceed(w) \/ Fails(w)
        PROVE  UNCHANGED edits
    BY <2>1 DEF tamperVars, Begins, Proceed, Fails, RefusePayload, BeginAppend, BeginImmediate,
       GiveUp, ReadHead, Insert, Commit, Return, Abort, ReturnRaises, Crash
  <2>2. ASSUME Checkpoint \/ LosePower \/ UNCHANGED vars
        PROVE  UNCHANGED edits
    BY <2>2 DEF vars, tamperVars, Checkpoint, LosePower, Restart
  <2>3. ASSUME NEW i \in DOMAIN table, Edit(i)
        PROVE  FALSE
    BY <1>1, <1>3, <2>3 DEF Edit
  <2>4. edits = 0 /\ edits' = 0
    BY <1>1, <1>3, <2>1, <2>2, <2>3 DEF Next
  <2>5. (Breaks(table) = {}) /\ (Breaks(table) = {})'
    BY <2>4 DEF LedgerInv, Whole
  <2>6. ASSUME \/ \E d \in Bodies : Promise!Decide(d)
               \/ \E n \in Places(Unreturned) : Promise!Receive(n) \/ Promise!NeverHeard(n)
               \/ Promise!Keep
               \/ Promise!Forget
        PROVE  Promise!Next
    BY <2>4, <2>5, <2>6 DEF Promise!Honest, Promise!Next
  <2>7. ASSUME NEW w \in Writers, Commit(w)
        PROVE  Promise!Next
    BY <2>4, <2>6, <2>7, CommitDecides
  <2>8. ASSUME NEW w \in Writers, Return(w)
        PROVE  Promise!Next
    BY <2>4, <2>6, <2>8, ReturnReceives
  <2>9. ASSUME NEW w \in Writers, Fails(w)
        PROVE  [Promise!Next]_Promise!logVars
    BY <2>4, <2>6, <2>9, FailureUnheard
  <2>10. ASSUME Checkpoint
         PROVE  Promise!Next
    <3>1. Len(BodiesOf(table)) = Len(table)
      BY ColumnsTyped DEF LedgerInv, TypeOK
    <3>2. Promise!Keep
      BY <2>10, <3>1 DEF Checkpoint, Promise!Keep, BodiesOf, HashesOf, Places, Place, Unreturned,
                         writerVars
    <3> QED
      BY <2>6, <3>2
  <2>11. ASSUME LosePower
         PROVE  Promise!Next
    BY <2>6, <2>11, UndoneNewestFirst
  <2>12. ASSUME NEW w \in Writers,
                Begins(w) \/ BeginImmediate(w) \/ GiveUp(w) \/ ReadHead(w) \/ Insert(w)
         PROVE  UNCHANGED Promise!logVars
    <3>1. UNCHANGED <<table, synced, returned, edits>>
      BY <2>12 DEF Begins, RefusePayload, BeginAppend, BeginImmediate, GiveUp, ReadHead, Insert,
                   fileVars, tamperVars
    <3>2. /\ pc[w] # "committed" /\ pc'[w] # "committed"
          /\ \A v \in Writers : v # w => pc'[v] = pc[v] /\ pending'[v] = pending[v]
      BY <1>1, <2>12, EarlyStep
    <3>3. Unreturned' = Unreturned
      BY <3>2, StillOwed
    <3> QED
      BY <3>1, <3>3, LogStutters
  <2>13. CASE UNCHANGED vars
    <3>1. UNCHANGED <<table, synced, returned, edits>> /\ Unreturned' = Unreturned
      BY <2>13 DEF vars, fileVars, tamperVars, writerVars, Unreturned
    <3> QED
      BY <3>1, LogStutters
  <2> HIDE DEF Next
  <2>14. \/ \E w \in Writers : \/ Commit(w) \/ Return(w) \/ Fails(w) \/ Begins(w)
                               \/ BeginImmediate(w) \/ GiveUp(w) \/ ReadHead(w) \/ Insert(w)
         \/ Checkpoint
         \/ LosePower
         \/ UNCHANGED vars
    BY <2>3 DEF Next, Proceed
  <2> QED
    BY <2>7, <2>8, <2>9, <2>10, <2>11, <2>12, <2>13, <2>14
<1> QED
  BY <1>2, <1>3

(* A writer's row is made of what it was called with and, once committed,   *)
(* has a place of its own, in every state.                                  *)
LEMMA PlacedInvariance == Spec => [](LedgerInv /\ Genuine /\ Placed)
<1>1. Init => Genuine /\ Placed
  BY DEF Init, Genuine, Placed
<1>2. LedgerInv => TypeOK
  BY DEF LedgerInv
<1>3. TypeOK /\ Genuine /\ [Next]_vars => Genuine'
  BY GenuineKept
<1>4. LedgerInv /\ LedgerInv' /\ Placed /\ [Next]_vars => Placed'
  BY PlacedKept
<1> QED
  BY <1>1, <1>2, <1>3, <1>4, LedgerInvariance, PTL DEF Spec

(* The ledger implements DecisionLog: the refinement, step by step.         *)
THEOREM LedgerImplementsDecisionLog == Spec => ImplementsLog
<1>1. Init => Promise!Init
  <2> SUFFICES ASSUME Init PROVE Promise!Init
    OBVIOUS
  <2>1. table = <<>> /\ returned = <<>> /\ synced = 0 /\ edits = 0
    BY DEF Init
  <2>2. BodiesOf(table) = <<>> /\ HashesOf(returned) = <<>> /\ Breaks(table) = {}
    BY <2>1 DEF BodiesOf, HashesOf, Breaks
  <2>3. Places(Unreturned) = {}
    BY DEF Init, Unreturned, Places
  <2> QED
    BY <2>1, <2>2, <2>3 DEF Promise!Init
<1>2. LedgerInv /\ LedgerInv' /\ Genuine /\ Placed /\ [Next]_vars
        => [Promise!Next]_Promise!logVars
  BY LogSteps
<1> QED
  BY <1>1, <1>2, PlacedInvariance, PTL DEF Spec, ImplementsLog, Promise!Spec

(* What a caller can make of the entries it has.                            *)
Accounts ==
  losses = 0 /\ edits = 0 =>
    /\ TableIsWhatWasReturned
    /\ \A w \in Writers, n \in DOMAIN returned :
         pc[w] = "committed" => returned[n] # pending[w]

LEMMA StraysGrowByOne ==
  ASSUME NEW n \in Nat, NEW S, NEW T, NEW p, NEW f \in Nat,
         S \subseteq 1 .. n, T \subseteq S \cup {p}, T \subseteq 1 .. n, Cardinality(S) <= f
  PROVE  Cardinality(T) <= f + 1
<1>1. IsFiniteSet(1 .. n)
  BY FS_Interval
<1>2. IsFiniteSet(S)
  BY <1>1, FS_Subset
<1>3. IsFiniteSet(S \cup {p}) /\ Cardinality(S \cup {p}) <= Cardinality(S) + 1
      /\ Cardinality(S) \in Nat
  <2>1. Cardinality(S) \in Nat
    BY <1>2, FS_CardinalityType
  <2>2. /\ IsFiniteSet(S \cup {p})
        /\ Cardinality(S \cup {p}) = IF p \in S THEN Cardinality(S) ELSE Cardinality(S) + 1
    BY <1>2, FS_AddElement
  <2> QED
    BY <2>1, <2>2
<1>4. IsFiniteSet(T) /\ Cardinality(T) <= Cardinality(S \cup {p})
  BY <1>3, FS_Subset
<1>5. Cardinality(T) \in Nat /\ Cardinality(S \cup {p}) \in Nat
  BY <1>3, <1>4, FS_CardinalityType
<1> QED
  BY <1>3, <1>4, <1>5

LEMMA AccountsAtCommit ==
  ASSUME LedgerInv, LedgerInv', Accounts, NEW w \in Writers, Commit(w), losses = 0, edits = 0
  PROVE  Accounts'
<1>1. PICK n : n = Len(table)
  OBVIOUS
<1>2. PICK r : r = pending[w]
  OBVIOUS
<1>3. PICK R : R = Returned
  OBVIOUS
<1>4. PICK U : U = Unreturned
  OBVIOUS
<1>5. PICK V : V = Unreturned'
  OBVIOUS
<1>6. /\ Place(r) = n + 1 /\ n \in Nat /\ DOMAIN table = 1 .. n /\ DOMAIN table' = 1 .. n + 1
      /\ \A i \in 1 .. n : table'[i] = table[i]
  BY <1>1, <1>2, CommitPlaces
<1>7. pc' = [pc EXCEPT ![w] = "committed"] /\ UNCHANGED <<pending, returned, faults>>
      /\ pc[w] = "inserted"
  BY DEF Commit, Goto
<1>8. /\ \A m \in DOMAIN returned : Place(returned[m]) \in 1 .. n
                                  /\ table[Place(returned[m])] = returned[m]
      /\ \A m, k \in DOMAIN returned : returned[m] = returned[k] => m = k
      /\ Cardinality(1 .. n \ Places(R \cup U)) <= faults
  BY <1>3, <1>4, <1>6 DEF Accounts, TableIsWhatWasReturned
<1>9. \A m \in DOMAIN returned : returned[m] # r
  BY <1>6, <1>8
<1>10. V = U \cup {r}
  BY <1>2, <1>4, <1>5, <1>7 DEF Unreturned, LedgerInv, TypeOK
<1>11. 1 .. n + 1 \ Places(R \cup V) = 1 .. n \ Places(R \cup U)
  <2>1. Places(R \cup V) = Places(R \cup U) \cup {n + 1}
    BY <1>6, <1>10 DEF Places
  <2>2. 1 .. n + 1 = 1 .. n \cup {n + 1} /\ n + 1 \notin 1 .. n
    BY <1>6
  <2> QED
    BY <2>1, <2>2
<1>12. Returned' = R
  BY <1>3, <1>7 DEF Returned
<1>13. TableIsWhatWasReturned'
  <2>1. /\ \A m \in DOMAIN returned : Place(returned[m]) \in DOMAIN table'
                                     /\ table'[Place(returned[m])] = returned[m]
        /\ Cardinality(DOMAIN table' \ Places(R \cup V)) <= faults
    <3>1. \A i \in 1 .. n : i \in DOMAIN table' /\ table'[i] = table[i]
      BY <1>6
    <3>2. Cardinality(DOMAIN table' \ Places(R \cup V)) <= faults
      BY <1>6, <1>8, <1>11, Zenon
    <3> QED
      BY <1>8, <3>1, <3>2
  <2> QED
    BY <1>5, <1>7, <1>8, <1>12, <2>1 DEF TableIsWhatWasReturned, Places, Place
<1>14. \A v \in Writers, m \in DOMAIN returned :
         pc'[v] = "committed" => returned[m] # pending[v]
  BY <1>2, <1>7, <1>9 DEF Accounts, LedgerInv, TypeOK
<1> QED
  BY <1>7, <1>13, <1>14 DEF Accounts

LEMMA AccountsAtReturn ==
  ASSUME LedgerInv, Placed, Accounts, NEW w \in Writers, Return(w), losses = 0, edits = 0
  PROVE  Accounts'
<1>1. PICK r : r = pending[w]
  OBVIOUS
<1>2. PICK q : q = returned
  OBVIOUS
<1>3. PICK R : R = Returned
  OBVIOUS
<1>4. PICK U : U = Unreturned
  OBVIOUS
<1>5. PICK V : V = Unreturned'
  OBVIOUS
<1>6. PICK p : p = returned'
  OBVIOUS
<1>7. /\ pc[w] = "committed" /\ Leave(w) /\ p = Append(q, r) /\ TypeOK
      /\ UNCHANGED <<table, faults, losses, edits>>
  BY <1>1, <1>2, <1>6 DEF Return, fileVars, tamperVars, LedgerInv
<1>8. q \in Seq(Row) /\ r \in Row
  BY <1>1, <1>2, <1>7 DEF TypeOK
<1>9. /\ DOMAIN q = 1 .. Len(q) /\ Len(q) \in Nat /\ DOMAIN p = 1 .. Len(q) + 1
      /\ p[Len(q) + 1] = r /\ \A m \in 1 .. Len(q) : p[m] = q[m]
  BY <1>7, <1>8, Appended
<1>10. /\ \A m \in DOMAIN q : Place(q[m]) \in DOMAIN table /\ table[Place(q[m])] = q[m]
       /\ \A m, k \in DOMAIN q : q[m] = q[k] => m = k
       /\ Cardinality(DOMAIN table \ Places(R \cup U)) <= faults
       /\ \A m \in DOMAIN q : q[m] # r
  BY <1>1, <1>2, <1>3, <1>4, <1>7 DEF Accounts, TableIsWhatWasReturned
<1>11. Place(r) \in DOMAIN table /\ table[Place(r)] = r
  BY <1>1, <1>7 DEF Placed
<1>12. V = U \ {r} /\ r \in U
  <2>1. pending[w] \in Unreturned
    BY <1>7 DEF Unreturned
  <2> QED
    BY <1>1, <1>4, <1>5, <1>7, <2>1, OneLess
<1>13. Returned' = R \cup {r}
  <2>1. Returned' = {p[m] : m \in DOMAIN p}
    BY <1>6 DEF Returned
  <2>2. R = {q[m] : m \in DOMAIN q}
    BY <1>2, <1>3 DEF Returned
  <2>3. DOMAIN p = DOMAIN q \cup {Len(q) + 1}
    BY <1>9
  <2> QED
    BY <1>9, <2>1, <2>2, <2>3
<1>14. (R \cup {r}) \cup V = R \cup U
  BY <1>12
<1>15. /\ \A m \in DOMAIN p : Place(p[m]) \in DOMAIN table /\ table[Place(p[m])] = p[m]
       /\ \A m, k \in DOMAIN p : p[m] = p[k] => m = k
  <2>1. \A m \in DOMAIN p : m \in DOMAIN q \/ m = Len(q) + 1
    BY <1>9
  <2> QED
    BY <1>9, <1>10, <1>11, <2>1
<1>16. TableIsWhatWasReturned'
  <2>1. Cardinality(DOMAIN table \ Places((R \cup {r}) \cup V)) <= faults
    BY <1>10, <1>14
  <2> QED
    BY <1>5, <1>6, <1>7, <1>13, <1>15, <2>1 DEF TableIsWhatWasReturned, Places, Place
<1>17. \A v \in Writers, m \in DOMAIN p : pc'[v] = "committed" => p[m] # pending'[v]
  <2>1. SUFFICES ASSUME NEW v \in Writers, NEW m \in DOMAIN p, pc'[v] = "committed"
                 PROVE  p[m] # pending'[v]
    OBVIOUS
  <2>2. v # w /\ pc[v] = "committed" /\ pending'[v] = pending[v]
    BY <1>7, <2>1 DEF Leave, Goto, TypeOK
  <2>3. pending[v] # r
    BY <1>1, <1>7, <2>2 DEF Placed
  <2>4. \A k \in DOMAIN q : q[k] # pending[v]
    BY <1>2, <2>2 DEF Accounts
  <2>5. m \in DOMAIN q \/ m = Len(q) + 1
    BY <1>9
  <2> QED
    BY <1>9, <2>2, <2>3, <2>4, <2>5
<1> QED
  BY <1>6, <1>16, <1>17 DEF Accounts

LEMMA AccountsAtFailure ==
  ASSUME LedgerInv, Accounts, NEW w \in Writers, Fails(w), losses = 0, edits = 0
  PROVE  Accounts'
<1>1. PICK r : r = pending[w]
  OBVIOUS
<1>2. PICK R : R = Returned
  OBVIOUS
<1>3. PICK U : U = Unreturned
  OBVIOUS
<1>4. PICK V : V = Unreturned'
  OBVIOUS
<1>5. /\ Leave(w) /\ TypeOK /\ faults' = faults + 1 /\ faults \in Nat
      /\ UNCHANGED <<table, returned, losses, edits>>
  BY DEF Fails, Abort, ReturnRaises, Crash, Fault, Rollback, fileVars, tamperVars, LedgerInv,
         TypeOK
<1>6. \A v \in Writers : v # w => pc'[v] = pc[v] /\ pending'[v] = pending[v]
  BY <1>5 DEF Leave, Goto, TypeOK
<1>7. pc'[w] = "idle"
  BY <1>5 DEF Leave, Goto, TypeOK
<1>8. U \subseteq V \cup {r}
  BY <1>1, <1>3, <1>4, <1>6 DEF Unreturned
<1>9. PICK n : n = Len(table)
  OBVIOUS
<1>10. n \in Nat /\ DOMAIN table = 1 .. n
  BY <1>5, <1>9 DEF TypeOK
<1>11. Cardinality(1 .. n \ Places(R \cup V)) <= faults + 1
  <2>1. Cardinality(1 .. n \ Places(R \cup U)) <= faults
    BY <1>2, <1>3, <1>10 DEF Accounts, TableIsWhatWasReturned
  <2>2. Places(R \cup U) \subseteq Places(R \cup V) \cup {Place(r)}
    BY <1>8 DEF Places
  <2>3. 1 .. n \ Places(R \cup V) \subseteq (1 .. n \ Places(R \cup U)) \cup {Place(r)}
    BY <2>2
  <2>4. 1 .. n \ Places(R \cup U) \subseteq 1 .. n /\ 1 .. n \ Places(R \cup V) \subseteq 1 .. n
    OBVIOUS
  <2> QED
    BY <1>5, <1>10, <2>1, <2>3, <2>4, StraysGrowByOne
<1>12. Returned' = R
  BY <1>2, <1>5 DEF Returned
<1>13. TableIsWhatWasReturned'
  BY <1>4, <1>5, <1>10, <1>11, <1>12 DEF Accounts, TableIsWhatWasReturned, Places, Place
<1>14. \A v \in Writers, m \in DOMAIN returned :
         pc'[v] = "committed" => returned[m] # pending'[v]
  BY <1>6, <1>7 DEF Accounts
<1> QED
  BY <1>5, <1>13, <1>14 DEF Accounts

(* Nothing but an edit or a power loss raises their counts, and nothing     *)
(* lowers them.                                                             *)
LEMMA CountsStand ==
  ASSUME TypeOK, [Next]_vars, losses' = 0, edits' = 0
  PROVE  /\ losses = 0 /\ edits = 0
         /\ ~LosePower /\ \A i \in DOMAIN table : ~Edit(i)
<1>1. losses \in Nat /\ edits \in Nat
  BY DEF TypeOK
<1>2. ASSUME NEW w \in Writers, Begins(w) \/ Proceed(w) \/ Fails(w)
      PROVE  UNCHANGED <<losses, edits>>
  BY <1>2 DEF tamperVars, Begins, Proceed, Fails, RefusePayload, BeginAppend, BeginImmediate,
     GiveUp, ReadHead, Insert, Commit, Return, Abort, ReturnRaises, Crash
<1>3. ASSUME Checkpoint \/ UNCHANGED vars
      PROVE  UNCHANGED <<losses, edits>>
  BY <1>3 DEF vars, tamperVars, Checkpoint
<1>4. ~LosePower
  BY <1>1 DEF LosePower
<1>5. ASSUME NEW i \in DOMAIN table
      PROVE  ~Edit(i)
  BY <1>1 DEF Edit
<1> QED
  BY <1>2, <1>3, <1>4, <1>5 DEF Next

LEMMA AccountsKept ==
  ASSUME LedgerInv, LedgerInv', Placed, Accounts, [Next]_vars
  PROVE  Accounts'
<1>1. SUFFICES ASSUME losses' = 0, edits' = 0
               PROVE  Accounts'
  BY DEF Accounts
<1>2. TypeOK
  BY DEF LedgerInv
<1>3. losses = 0 /\ edits = 0 /\ ~LosePower /\ \A i \in DOMAIN table : ~Edit(i)
  BY <1>1, <1>2, CountsStand
<1>4. ASSUME UNCHANGED <<table, returned, faults>>, Unreturned' = Unreturned,
             \A v \in Writers : pc'[v] = "committed" =>
               pc[v] = "committed" /\ pending'[v] = pending[v]
      PROVE  Accounts'
  <2>1. Returned' = Returned
    BY <1>4 DEF Returned
  <2>2. Places(Returned \cup Unreturned)' = Places(Returned \cup Unreturned)
    BY <1>4, <2>1 DEF Places, Place
  <2>3. TableIsWhatWasReturned'
    BY <1>3, <1>4, <2>2 DEF Accounts, TableIsWhatWasReturned, Place
  <2> QED
    BY <1>3, <1>4, <2>3 DEF Accounts
<1>5. ASSUME NEW w \in Writers,
             Begins(w) \/ BeginImmediate(w) \/ GiveUp(w) \/ ReadHead(w) \/ Insert(w)
      PROVE  Accounts'
  <2>1. UNCHANGED <<table, returned, faults>>
    BY <1>5 DEF Begins, RefusePayload, BeginAppend, BeginImmediate, GiveUp, ReadHead, Insert,
                fileVars
  <2>2. /\ pc[w] # "committed" /\ pc'[w] # "committed"
        /\ \A v \in Writers : v # w => pc'[v] = pc[v] /\ pending'[v] = pending[v]
    BY <1>2, <1>5, EarlyStep
  <2>3. Unreturned' = Unreturned
    BY <2>2, StillOwed
  <2> QED
    BY <1>4, <2>1, <2>2, <2>3
<1>6. CASE Checkpoint \/ UNCHANGED vars
  <2>1. UNCHANGED <<table, returned, faults, pc, pending>>
    BY <1>6 DEF Checkpoint, vars, fileVars, writerVars
  <2>2. Unreturned' = Unreturned
    BY <2>1 DEF Unreturned
  <2> QED
    BY <1>4, <2>1, <2>2
<1> HIDE DEF Next
<1>7. \/ \E w \in Writers : \/ Commit(w) \/ Return(w) \/ Fails(w) \/ Begins(w)
                            \/ BeginImmediate(w) \/ GiveUp(w) \/ ReadHead(w) \/ Insert(w)
      \/ Checkpoint \/ UNCHANGED vars
  BY <1>3 DEF Next, Proceed
<1> QED
  BY <1>3, <1>5, <1>6, <1>7, AccountsAtCommit, AccountsAtReturn, AccountsAtFailure

(* Without power losses and edits every entry returned is the row at its own*)
(* seq, no two appends return the same, and the rows that nobody was or will*)
(* be told of are at most one for each error or death (ledger.py:102-113).  *)
THEOREM TableIsHistory == Spec => []TableIsWhatWasReturned
<1>1. Init => Accounts
  <2> SUFFICES ASSUME Init PROVE Accounts
    OBVIOUS
  <2>1. table = <<>> /\ returned = <<>> /\ faults = 0 /\ DOMAIN table = {} /\ DOMAIN returned = {}
    BY DEF Init
  <2>2. Cardinality(DOMAIN table \ Places(Returned \cup Unreturned)) = 0
    <3>1. DOMAIN table \ Places(Returned \cup Unreturned) = {}
      BY <2>1
    <3> QED
      BY <3>1, FS_EmptySet
  <2> QED
    BY <2>1, <2>2 DEF Accounts, TableIsWhatWasReturned
<1>2. LedgerInv /\ LedgerInv' /\ Placed /\ Accounts /\ [Next]_vars => Accounts'
  BY AccountsKept
<1>3. Accounts => TableIsWhatWasReturned
  BY DEF Accounts, TableIsWhatWasReturned
<1> QED
  BY <1>1, <1>2, <1>3, PlacedInvariance, PTL DEF Spec

(* The head of a chain that verifies is the digest of all its bodies, so    *)
(* two copies of a ledger that verify and agree on the head agree on every  *)
(* decision, however each of them was come by (chain_hash, verify, head).   *)
THEOREM HeadsCommit ==
  ASSUME NEW t \in Seq(Row), NEW u \in Seq(Row), Breaks(t) = {}, Breaks(u) = {},
         HeadHash(t) = HeadHash(u)
  PROVE  BodiesOf(t) = BodiesOf(u)
<1>1. ASSUME NEW q \in Seq(Row), Breaks(q) = {}
      PROVE  HeadHash(q) = BodiesOf(q)
  <2>1. CASE q = <<>>
    BY <2>1 DEF HeadHash, GENESIS_HASH, BodiesOf
  <2>2. CASE q # <<>>
    <3>1. Len(q) \in DOMAIN q /\ DOMAIN q = 1 .. Len(q)
      BY <2>2
    <3>2. Faithful(q, Len(q))
      BY <1>1, <3>1, ChainCommits
    <3> QED
      BY <2>2, <3>1, <3>2 DEF HeadHash, Faithful, BodiesOf
  <2> QED
    BY <2>1, <2>2
<1> QED
  BY <1>1

-------------------------------------------------------------------------------
(* Every append ends.  A writer moves forward through the six places of     *)
(* append or is back at idle at once, and the lock leaves it when it leaves *)
(* its transaction.                                                         *)

(* A thread inside append leaves it or takes its next statement, sooner or  *)
(* later.  It is the weak fairness of FairSpec with "inside append" written *)
(* out where WF has ENABLED, about which nothing can be proved here:        *)
(* Proceed has an action for every place a writer inside append can be at.  *)
GoesOn(w) == <>(pc[w] = "idle") \/ <><<Proceed(w)>>_vars
AllGoOn == \A w \in Writers : GoesOn(w)

LEMMA WeakFairnessGoesOn ==
  ASSUME NEW w \in Writers
  PROVE  WF_vars(Proceed(w)) /\ [](pc[w] # "idle" => ENABLED <<Proceed(w)>>_vars)
           => []GoesOn(w)
<1>1. pc[w] # "idle" <=> ~(pc[w] = "idle")
  OBVIOUS
<1> QED
  BY <1>1, PTL DEF GoesOn

(* The lock is held from within a transaction only.                         *)
Freed == \A w \in lock : pc[w] \in InTransaction

LEMMA FreedKept ==
  ASSUME TypeOK, Freed, [Next]_vars
  PROVE  Freed'
<1>1. ASSUME NEW w \in Writers, Begins(w) \/ BeginImmediate(w) \/ ReadHead(w) \/ Commit(w)
      PROVE  Freed'
  BY <1>1 DEF Begins, RefusePayload, BeginAppend, Call, BeginImmediate, ReadHead, Commit, Goto,
              Freed, InTransaction, TypeOK
<1>2. ASSUME NEW w \in Writers, Leave(w),
             lock' = lock \ {w} \/ (UNCHANGED lock /\ pc[w] \notin InTransaction)
      PROVE  Freed'
  BY <1>2 DEF Leave, Goto, Freed, InTransaction, TypeOK
<1>3. ASSUME NEW w \in Writers, pc[w] = "read", Goto(w, "inserted"), UNCHANGED lock
      PROVE  Freed'
  BY <1>3 DEF Goto, Freed, InTransaction, TypeOK
<1>4. ASSUME NEW w \in Writers, GiveUp(w) \/ Insert(w) \/ Return(w) \/ Fails(w)
      PROVE  Freed'
  <2>1. \/ Leave(w) /\ (lock' = lock \ {w} \/ (UNCHANGED lock /\ pc[w] \notin InTransaction))
        \/ pc[w] = "read" /\ Goto(w, "inserted") /\ UNCHANGED lock
    BY <1>4 DEF GiveUp, Insert, Return, Fails, Abort, ReturnRaises, Crash, Rollback, InTransaction
  <2> QED
    BY <1>2, <1>3, <2>1
<1>5. CASE LosePower
  BY <1>5 DEF LosePower, Restart, Freed
<1>6. CASE Checkpoint \/ (\E i \in DOMAIN table : Edit(i)) \/ UNCHANGED vars
  BY <1>6 DEF Checkpoint, Edit, vars, writerVars, Freed
<1> QED
  BY <1>1, <1>4, <1>5, <1>6 DEF Next, Proceed

LEMMA FreedInvariance == Spec => [](TypeOK /\ Freed)
<1>1. Init => Freed
  BY DEF Init, Freed
<1>2. TypeOK /\ Freed /\ [Next]_vars => Freed'
  BY FreedKept
<1> QED
  BY <1>1, <1>2, LedgerTypeCorrect, PTL DEF Spec

Following == [ready |-> "begun", begun |-> "read", read |-> "inserted",
              inserted |-> "committed", committed |-> "idle"]

(* One step forward, or out.                                                *)
LEMMA Forward ==
  ASSUME TypeOK, NEW w \in Writers, pc[w] # "idle", [Next]_vars
  PROVE  /\ pc'[w] \in {pc[w], Following[pc[w]], "idle"}
         /\ <<Proceed(w)>>_vars => pc'[w] # pc[w]
<1>1. ASSUME NEW v \in Writers, BeginImmediate(v) \/ ReadHead(v) \/ Commit(v)
      PROVE  /\ pc'[w] \in {pc[w], Following[pc[w]], "idle"}
             /\ v = w => pc'[w] # pc[w]
  BY <1>1 DEF BeginImmediate, ReadHead, Commit, Goto, TypeOK, Following
<1>2. ASSUME NEW v \in Writers, Leave(v)
      PROVE  pc'[w] \in {pc[w], "idle"} /\ (v = w => pc'[w] # pc[w])
  BY <1>2 DEF Leave, Goto, TypeOK
<1>3. ASSUME NEW v \in Writers, pc[v] = "read", Goto(v, "inserted")
      PROVE  /\ pc'[w] \in {pc[w], Following[pc[w]], "idle"}
             /\ v = w => pc'[w] # pc[w]
  BY <1>3 DEF Goto, TypeOK, Following
<1>4. ASSUME NEW v \in Writers, GiveUp(v) \/ Insert(v) \/ Return(v) \/ Fails(v)
      PROVE  Leave(v) \/ (pc[v] = "read" /\ Goto(v, "inserted"))
  BY <1>4 DEF GiveUp, Insert, Return, Fails, Abort, ReturnRaises, Crash, Rollback
<1>5. ASSUME NEW v \in Writers, Begins(v)
      PROVE  pc'[w] = pc[w]
  BY <1>5 DEF Begins, RefusePayload, BeginAppend, Call, Goto, TypeOK
<1>6. ASSUME LosePower
      PROVE  pc'[w] = "idle"
  BY <1>6 DEF LosePower, Restart
<1>7. ASSUME Checkpoint \/ (\E i \in DOMAIN table : Edit(i)) \/ UNCHANGED vars
      PROVE  pc'[w] = pc[w]
  BY <1>7 DEF Checkpoint, Edit, vars, writerVars
<1>8. pc'[w] \in {pc[w], Following[pc[w]], "idle"}
  BY <1>1, <1>2, <1>3, <1>4, <1>5, <1>6, <1>7 DEF Next, Proceed
<1>9. Proceed(w) => pc'[w] # pc[w]
  BY <1>1, <1>2, <1>3, <1>4 DEF Proceed
<1> QED
  BY <1>8, <1>9

(* Every append ends and gives the write lock back, in every behaviour in   *)
(* which a thread inside append goes on: whoever holds the lock, whatever   *)
(* fails or dies, nobody waits for ever.                                    *)
THEOREM EveryAppendEnds == Spec /\ []AllGoOn => AppendsEnd
<1> SUFFICES ASSUME NEW w \in Writers
             PROVE  Spec /\ []AllGoOn =>
                      (pc[w] # "idle" \/ w \in lock ~> pc[w] = "idle" /\ w \notin lock)
  BY DEF AppendsEnd
<1> DEFINE Ready == pc[w] = "ready"
           Begun == pc[w] = "begun"
           Read == pc[w] = "read"
           Inserted == pc[w] = "inserted"
           Committed == pc[w] = "committed"
           Out == pc[w] = "idle"
           Inv == TypeOK /\ Freed
<1>1. Inv /\ [Next]_vars =>
        /\ Ready => (Ready \/ Begun \/ Out)'
        /\ Begun => (Begun \/ Read \/ Out)'
        /\ Read => (Read \/ Inserted \/ Out)'
        /\ Inserted => (Inserted \/ Committed \/ Out)'
        /\ Committed => (Committed \/ Out)'
  BY Forward DEF Following
<1>2. Inv /\ [Next]_vars /\ <<Proceed(w)>>_vars =>
        /\ Ready => ~Ready'
        /\ Begun => ~Begun'
        /\ Read => ~Read'
        /\ Inserted => ~Inserted'
        /\ Committed => ~Committed'
  BY Forward
<1>3. Inv => Ready \/ Begun \/ Read \/ Inserted \/ Committed \/ Out
  BY DEF TypeOK, Locations
<1>4. ~(Out /\ (Ready \/ Begun \/ Read \/ Inserted \/ Committed))
  OBVIOUS
<1>5. Inv => (pc[w] = "idle" => w \notin lock)
  BY DEF Freed, InTransaction
<1>6. []AllGoOn => []GoesOn(w)
  <2>1. AllGoOn => GoesOn(w)
    BY DEF AllGoOn
  <2> QED
    BY <2>1, PTL
<1>7. Spec => []Inv /\ [][Next]_vars
  BY FreedInvariance, PTL DEF Spec
<1> QED
  BY <1>1, <1>2, <1>3, <1>4, <1>5, <1>6, <1>7, PTL DEF GoesOn

===============================================================================
