-------------------------------- MODULE Ledger --------------------------------
(***************************************************************************)
(* The decision ledger: store/ledger.py over store/canonical.py and         *)
(* store/db.py.  Writers (threads, one SQLite connection each) append to    *)
(* one hash-chained table, each in its own BEGIN IMMEDIATE transaction;     *)
(* readers only ever see committed rows.                                    *)
(*                                                                          *)
(* A digest is modelled by what it commits to.  sha256(prev || body) is     *)
(* Append(prev, body), so a digest is the sequence of bodies hashed into it,*)
(* equal only to the digest of the same bodies; the genesis constant is the *)
(* empty one, and Forged in it makes a string that is no digest at all.     *)
(***************************************************************************)
EXTENDS Naturals, Sequences, FiniteSets

CONSTANTS
  Writers,       \* threads that append
  Bodies,        \* canonical JSON of the payloads appended
  Forged,        \* what somebody with the file in an editor writes
  MaxAppends,    \* bound: appends begun
  MaxFaults,     \* bound: crashes and errors inside a transaction
  MaxLosses,     \* bound: power losses
  MaxEdits       \* bound: edits of the file behind the ledger's back

ASSUME LedgerBounds ==
  {MaxAppends, MaxFaults, MaxLosses, MaxEdits} \subseteq Nat
ASSUME ForgedAssumption == Forged \notin Bodies

Texts == Bodies \cup {Forged}
Digest == Seq(Texts)
GENESIS_HASH == <<>>
chain_hash(p, b) == Append(p, b)

(* A row of the table, and the LedgerEntry that append returns of it.  seq  *)
(* is AUTOINCREMENT, so the order of seq is the order of the commits and the*)
(* place in the table stands for it.  The stamp is what no hash covers and  *)
(* verify does not look at: recorded_at, and the number in seq as far as it *)
(* keeps the row in its place; it is append's own or somebody else's.       *)
Row == [prev: Digest, hash: Digest, body: Texts, stamp: {"own", "other"}]
NoRow == [prev |-> GENESIS_HASH, hash |-> GENESIS_HASH, body |-> Forged, stamp |-> "own"]

VARIABLES
  pc,          \* where a writer is: idle, ready, begun, read, inserted, committed
  body,        \* the canonical JSON it appends
  prev,        \* the head it has read
  pending,     \* the row it has inserted and not returned
  entry,       \* the LedgerEntry its last append returned; NoRow: it raised
  lock,        \* the writers that hold the database's write lock
  table,       \* the committed rows, in seq order
  synced,      \* how many of them are safe on disk
  returned,    \* every entry that append has returned, in order
  edited,      \* what the last edit did: nothing yet, stamp, last or inner
  appends, faults, losses, edits        \* counters for the bounds

writerVars == <<pc, body, prev, pending, entry>>
fileVars == <<table, synced>>
tamperVars == <<edited, edits>>
vars == <<writerVars, lock, fileVars, returned, tamperVars, appends, faults, losses>>

Locations == {"idle", "ready", "begun", "read", "inserted", "committed"}
InTransaction == {"begun", "read", "inserted"}

Init ==
  /\ pc = [w \in Writers |-> "idle"]
  /\ body = [w \in Writers |-> Forged]
  /\ prev = [w \in Writers |-> GENESIS_HASH]
  /\ pending = [w \in Writers |-> NoRow]
  /\ entry = [w \in Writers |-> NoRow]
  /\ lock = {}
  /\ table = <<>> /\ synced = 0 /\ returned = <<>>
  /\ edited = "nothing"
  /\ appends = 0 /\ faults = 0 /\ losses = 0 /\ edits = 0

-------------------------------------------------------------------------------
(* Reading.                                                                 *)

HeadHash(t) == IF t = <<>> THEN GENESIS_HASH ELSE t[Len(t)].hash

(* What verify expects the i-th row to link to: the hash stored before it.  *)
ExpectedPrev(t, i) == IF i = 1 THEN GENESIS_HASH ELSE t[i-1].hash

(* Mutant: verify recomputes the hashes and does not follow the links.      *)
BreaksOfHash(t) ==
  {i \in DOMAIN t : t[i].hash # chain_hash(t[i].prev, t[i].body)}

(* Mutant: verify follows the links and does not recompute the hashes.      *)
BreaksOfLink(t) == {i \in DOMAIN t : t[i].prev # ExpectedPrev(t, i)}

(* verify: the rows reported, for a broken link or for a wrong hash.        *)
Breaks(t) ==
  {i \in DOMAIN t : \/ t[i].prev # ExpectedPrev(t, i)
                    \/ t[i].hash # chain_hash(t[i].prev, t[i].body)}

-------------------------------------------------------------------------------
(* append.                                                                  *)

Goto(w, place) == pc' = [pc EXCEPT ![w] = place]

(* The call is over and its locals are gone.                                *)
Leave(w) ==
  /\ Goto(w, "idle")
  /\ body' = [body EXCEPT ![w] = Forged]
  /\ prev' = [prev EXCEPT ![w] = GENESIS_HASH]
  /\ pending' = [pending EXCEPT ![w] = NoRow]

Rollback(w) == Leave(w) /\ lock' = lock \ {w}

Call(w) ==
  /\ pc[w] = "idle"
  /\ appends < MaxAppends
  /\ appends' = appends + 1
  /\ entry' = [entry EXCEPT ![w] = NoRow]

(* canonical_json renders the payload ...                                   *)
BeginAppend(w, b) ==
  /\ Call(w)
  /\ body' = [body EXCEPT ![w] = b]
  /\ Goto(w, "ready")
  /\ UNCHANGED <<prev, pending, lock, fileVars, returned, tamperVars, faults, losses>>

(* ... or refuses it (float money, a type it cannot encode) before BEGIN.   *)
RefusePayload(w) ==
  /\ Call(w)
  /\ UNCHANGED <<pc, body, prev, pending, lock, fileVars, returned, tamperVars,
                 faults, losses>>

(* Mutant: a plain BEGIN takes no write lock.                               *)
BeginDeferred(w) ==
  /\ pc[w] = "ready"
  /\ lock' = lock \cup {w}
  /\ Goto(w, "begun")
  /\ UNCHANGED <<body, prev, pending, entry, fileVars, returned, tamperVars,
                 appends, faults, losses>>

(* BEGIN IMMEDIATE takes the database's one write lock.                     *)
BeginImmediate(w) ==
  /\ pc[w] = "ready"
  /\ lock = {}
  /\ lock' = {w}
  /\ Goto(w, "begun")
  /\ UNCHANGED <<body, prev, pending, entry, fileVars, returned, tamperVars,
                 appends, faults, losses>>

(* busy_timeout expires while another writer holds the lock; BEGIN is       *)
(* outside the try, so nothing is rolled back.                              *)
GiveUp(w) ==
  /\ pc[w] = "ready"
  /\ lock # {}
  /\ Leave(w)
  /\ UNCHANGED <<entry, lock, fileVars, returned, tamperVars,
                 appends, faults, losses>>

ReadHead(w) ==
  /\ pc[w] = "begun"
  /\ prev' = [prev EXCEPT ![w] = HeadHash(table)]
  /\ Goto(w, "read")
  /\ UNCHANGED <<body, pending, entry, lock, fileVars, returned, tamperVars,
                 appends, faults, losses>>

(* The INSERT, linked to the head read; entry_hash is UNIQUE, and a hash    *)
(* that is in the table already is an IntegrityError and a rollback.        *)
Insert(w) ==
  /\ pc[w] = "read"
  /\ LET h == chain_hash(prev[w], body[w])
     IN IF \E i \in DOMAIN table : table[i].hash = h
          THEN Rollback(w)
          ELSE /\ pending' = [pending EXCEPT ![w] =
                                [prev |-> prev[w], hash |-> h, body |-> body[w],
                                 stamp |-> "own"]]
               /\ Goto(w, "inserted")
               /\ UNCHANGED <<body, prev, lock>>
  /\ UNCHANGED <<entry, fileVars, returned, tamperVars,
                 appends, faults, losses>>

(* COMMIT: the row is in the table and the lock is free, and the caller     *)
(* does not know it yet.                                                    *)
Commit(w) ==
  /\ pc[w] = "inserted"
  /\ table' = Append(table, pending[w])
  /\ lock' = lock \ {w}
  /\ Goto(w, "committed")
  /\ UNCHANGED <<body, prev, pending, entry, synced, returned, tamperVars,
                 appends, faults, losses>>

(* The LedgerEntry is made of the locals and returned, perhaps after those  *)
(* of later rows.                                                           *)
Return(w) ==
  /\ pc[w] = "committed"
  /\ entry' = [entry EXCEPT ![w] = pending[w]]
  /\ returned' = Append(returned, pending[w])
  /\ Leave(w)
  /\ UNCHANGED <<lock, fileVars, tamperVars, appends, faults, losses>>

-------------------------------------------------------------------------------
(* Errors, crashes, power.                                                  *)

Fault == faults < MaxFaults /\ faults' = faults + 1

(* Mutant: the row is in the table although the append raised.              *)
AbortAfterAutocommit(w) ==
  /\ Fault
  /\ pc[w] \in InTransaction
  /\ table' = IF pc[w] = "inserted" THEN Append(table, pending[w]) ELSE table
  /\ Rollback(w)
  /\ UNCHANGED <<entry, synced, returned, tamperVars, appends, losses>>

(* Mutant: the exception leaves append with the transaction open.           *)
AbortWithoutRollback(w) ==
  /\ Fault
  /\ pc[w] \in InTransaction
  /\ Leave(w)
  /\ UNCHANGED <<entry, lock, fileVars, returned, tamperVars,
                 appends, losses>>

(* A statement of the transaction fails: ROLLBACK, and the exception goes   *)
(* on to the caller.                                                        *)
Abort(w) ==
  /\ Fault
  /\ pc[w] \in InTransaction
  /\ Rollback(w)
  /\ UNCHANGED <<entry, fileVars, returned, tamperVars, appends, losses>>

(* Making the LedgerEntry raises (it is validated, and outside the try): the*)
(* append has failed and its row stays.                                     *)
ReturnRaises(w) ==
  /\ Fault
  /\ pc[w] = "committed"
  /\ Leave(w)
  /\ UNCHANGED <<entry, lock, fileVars, returned, tamperVars, appends, losses>>

(* The writer's process dies; SQLite drops its transaction and its lock, but*)
(* not what it has committed.                                               *)
Crash(w) ==
  /\ Fault
  /\ pc[w] # "idle"
  /\ Rollback(w)
  /\ UNCHANGED <<entry, fileVars, returned, tamperVars, appends, losses>>

(* A WAL checkpoint forces the commits made so far to disk.                 *)
Checkpoint ==
  /\ synced < Len(table)
  /\ synced' = Len(table)
  /\ UNCHANGED <<writerVars, lock, table, returned, tamperVars, appends, faults, losses>>

Restart ==
  /\ pc' = [w \in Writers |-> "idle"]
  /\ body' = [w \in Writers |-> Forged]
  /\ prev' = [w \in Writers |-> GENESIS_HASH]
  /\ pending' = [w \in Writers |-> NoRow]
  /\ entry' = [w \in Writers |-> NoRow]
  /\ lock' = {}
  /\ UNCHANGED <<returned, tamperVars, appends, faults>>

(* Mutant: a power loss undoes commits that a checkpoint has forced to disk.*)
LosePowerForgets ==
  /\ losses < MaxLosses
  /\ losses' = losses + 1
  /\ \E k \in 0 .. Len(table) : table' = SubSeq(table, 1, k)
  /\ UNCHANGED synced
  /\ Restart

(* synchronous = NORMAL: a power loss undoes a suffix of the commits made   *)
(* since the last checkpoint.                                               *)
LosePower ==
  /\ losses < MaxLosses
  /\ losses' = losses + 1
  /\ \E k \in synced .. Len(table) : table' = SubSeq(table, 1, k) /\ synced' = k
  /\ Restart

-------------------------------------------------------------------------------
(* Somebody drops the triggers and edits the file: one row is rewritten, in *)
(* any of its columns, with the hash it had, a recomputed one or another; or*)
(* deleted; or given a seq that moves it to another place.  The edit is     *)
(* saved, so no power loss undoes it.                                       *)
Rewritten(r) ==
  { n \in [prev: {r.prev, <<Forged>>}, body: Texts, stamp: {"own", "other"},
           hash: {r.hash, <<Forged>>} \cup {chain_hash(p, b) : p \in {r.prev, <<Forged>>},
                                                               b \in Texts}] :
      n # r /\ n.hash \in {r.hash, <<Forged>>, chain_hash(n.prev, n.body)} }

Without(t, i) == SubSeq(t, 1, i - 1) \o SubSeq(t, i + 1, Len(t))

Moved(t, i, j) ==
  [k \in DOMAIN t |-> IF k = j THEN t[i]
                      ELSE IF i <= k /\ k < j THEN t[k+1]
                      ELSE IF j < k /\ k <= i THEN t[k-1]
                      ELSE t[k]]

(* Two rows that differ in their stamp at most.                             *)
SameChain(r, n) == r.prev = n.prev /\ r.hash = n.hash /\ r.body = n.body

Depth(i) == IF i < Len(table) THEN "inner" ELSE "last"

Edit(i) ==
  /\ edits < MaxEdits
  /\ edits' = edits + 1
  /\ lock = {}
  /\ \/ \E r \in Rewritten(table[i]) :
          /\ table' = [table EXCEPT ![i] = r]
          /\ edited' = IF SameChain(table[i], r) THEN "stamp" ELSE Depth(i)
     \/ table' = Without(table, i) /\ edited' = Depth(i)
     \/ \E j \in DOMAIN table \ {i} : table' = Moved(table, i, j) /\ edited' = "inner"
  /\ synced' = Len(table')
  /\ UNCHANGED <<writerVars, lock, returned, appends, faults, losses>>

-------------------------------------------------------------------------------
Begins(w) == RefusePayload(w) \/ \E b \in Bodies : BeginAppend(w, b)

Proceed(w) ==
  BeginImmediate(w) \/ GiveUp(w) \/ ReadHead(w) \/ Insert(w) \/ Commit(w) \/ Return(w)

Fails(w) == Abort(w) \/ ReturnRaises(w) \/ Crash(w)

Next ==
  \/ \E w \in Writers : Begins(w) \/ Proceed(w) \/ Fails(w)
  \/ Checkpoint
  \/ LosePower
  \/ \E i \in DOMAIN table : Edit(i)

Spec == Init /\ [][Next]_vars

(* A thread inside append goes on: each statement returns or raises.        *)
FairSpec == Spec /\ \A w \in Writers : WF_vars(Proceed(w))

-------------------------------------------------------------------------------
(* Every variable stays in the set its comment gives it.                    *)
TypeOK ==
  /\ pc \in [Writers -> Locations]
  /\ body \in [Writers -> Texts]
  /\ prev \in [Writers -> Digest]
  /\ pending \in [Writers -> Row]
  /\ entry \in [Writers -> Row]
  /\ lock \subseteq Writers
  /\ table \in Seq(Row)
  /\ synced \in 0 .. Len(table)
  /\ returned \in Seq(Row)
  /\ edited \in {"nothing", "stamp", "last", "inner"}
  /\ appends \in Nat /\ faults \in Nat /\ losses \in Nat /\ edits \in Nat

(* A ledger nobody has edited verifies, at every moment and whatever the    *)
(* writers, the errors, the crashes and the power losses: the chain never   *)
(* forks and never has a hole (module doc of ledger.py; append, verify).    *)
ChainVerifies == edits = 0 => Breaks(table) = {}

(* The seq of an entry is the length of what its hash commits to.           *)
Place(e) == Len(e.hash)
Places(S) == {Place(e) : e \in S}
Returned == {returned[n] : n \in DOMAIN returned}
Unreturned == {pending[w] : w \in {v \in Writers : pc[v] = "committed"}}

(* Every entry that append has returned is the row at its seq, and no two   *)
(* appends returned the same; the rows that belong to no such entry and to  *)
(* no append about to return one are at most one for each error or death.   *)
(* Entries may be returned in another order than that of their rows, and an *)
(* append that died or raised after COMMIT has left a row (ledger.py:102).  *)
TableIsWhatWasReturned ==
  losses = 0 /\ edits = 0 =>
    /\ \A n \in DOMAIN returned :
         Place(returned[n]) \in DOMAIN table /\ table[Place(returned[n])] = returned[n]
    /\ \A m, n \in DOMAIN returned : returned[m] = returned[n] => m = n
    /\ Cardinality(DOMAIN table \ Places(Returned \cup Unreturned)) <= faults

(* One edit of the payload, the previous hash or the hash of a row that has *)
(* a successor, its deletion, or a seq that moves a row, shows in verify and*)
(* goes on showing after any number of further appends: a forger has to     *)
(* rewrite the whole tail (module doc of ledger.py, chain_hash).  A new     *)
(* recorded_at, in any row, never shows: neither chain_hash nor verify looks*)
(* at it (ledger.py:131-167).                                               *)
ForgerMustRewriteTheTail ==
  edits = 1 => /\ edited = "inner" => Breaks(table) # {}
               /\ edited = "stamp" => Breaks(table) = {}

(* A chain that verifies and holds the hash of an entry some caller kept    *)
(* still tells the history as it was when that entry was appended, up to    *)
(* that row, whatever has been edited.                                      *)
KeptHashAnchorsHistory ==
  \A w \in Writers, i \in DOMAIN table :
    /\ Breaks(table) = {}
    /\ entry[w] # NoRow /\ table[i].hash = entry[w].hash
    => [j \in 1 .. i |-> table[j].body] = entry[w].hash

(* Every append ends, and with it its hold on the write lock: an error in   *)
(* the transaction never leaves the database locked for the others.         *)
AppendsEnd ==
  \A w \in Writers :
    pc[w] # "idle" \/ w \in lock ~> pc[w] = "idle" /\ w \notin lock

-------------------------------------------------------------------------------
(* The ledger implements its promise: what it holds is what was decided, in *)
(* the order of the commits; each decision owes its caller one entry, whose *)
(* hash is the digest of all up to that decision whatever came after it; an *)
(* entry is lost only with the append that should have returned it, and an  *)
(* append that raised before COMMIT has left no trace; rows that a          *)
(* checkpoint has saved outlive every power loss; and verify has no         *)
(* complaint before somebody edits the file (module doc of ledger.py).      *)
BodiesOf(t) == [i \in DOMAIN t |-> t[i].body]
HashesOf(t) == [i \in DOMAIN t |-> t[i].hash]

Promise == INSTANCE DecisionLog WITH
  Decisions <- Bodies, history <- BodiesOf(table), durable <- synced,
  owed <- Places(Unreturned), receipts <- HashesOf(returned), touched <- edits > 0, verified <- Breaks(table) = {}

ImplementsLog == Promise!Spec
===============================================================================
