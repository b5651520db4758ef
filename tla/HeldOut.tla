-------------------------------- MODULE HeldOut --------------------------------
(***************************************************************************)
(* The held-out discipline: the commands gen, eval and report of cli.py     *)
(* over generator/generate.py, eval/runner.py and eval/report.py.  They     *)
(* share a directory of dataset files, a directory of runs and the log of   *)
(* held-out reads, and only the order in which they write these keeps the   *)
(* three consistent.  An operator gives one command at a time; a command    *)
(* may die between two files, or in the middle of one.                      *)
(***************************************************************************)
EXTENDS Naturals, Sequences, FiniteSets

CONSTANTS
  Seeds,
  Dataset,          \* what gen may be asked for: a seed (--seed), a number of records
                    \* (--n) and a held-out share in tenths (--test-fraction)
  HashOf(_),        \* the rank of a record's sha256(subscription_id)
  MaxCommands,      \* bound: commands given
  MaxCrashes        \* bound: commands that die

(* A record is the i-th that its seed yields: a longer dataset of the same  *)
(* seed begins with the shorter one.                                        *)
Records == Seeds \X Nat
generate(d) == {d[1]} \X (1 .. d[2])

ASSUME DatasetAssumption == Dataset \subseteq Seeds \X Nat \X (0 .. 10)
ASSUME HashAssumption ==
  \A d \in Dataset : \A q, r \in generate(d) :
    HashOf(q) \in Nat /\ (HashOf(q) = HashOf(r) => q = r)
ASSUME CommandBounds == MaxCommands \in Nat /\ MaxCrashes \in Nat

(* round, of a number of tenths: halves go to the even neighbour.           *)
round(tenths) ==
  LET q == tenths \div 10
      r == tenths % 10
  IN IF r > 5 \/ (r = 5 /\ q % 2 = 1) THEN q + 1 ELSE q

(* The place of a record in the order of the hashes, from 0.                *)
place(r, S) == Cardinality({q \in S : HashOf(q) < HashOf(r)})

(* Mutant: each side is rounded by itself.                                  *)
split_rounded_twice(S, share) ==
  LET n == Cardinality(S)
  IN [test  |-> {r \in S : place(r, S) < round(n * share)},
      train |-> {r \in S : place(r, S) >= n - round(n * (10 - share))}]

split_records(S, share) ==
  LET n_test == round(Cardinality(S) * share)
  IN [test  |-> {r \in S : place(r, S) < n_test},
      train |-> {r \in S : place(r, S) >= n_test}]

VARIABLES
  pc,          \* idle, or what the command does next
  asked,       \* the datasets gen was asked for; it is writing, or wrote, the last
  run,         \* the EvalRun in the hands of eval
  rows,        \* side -> the records in <side>.jsonl
  world,       \* side -> the records with a truth in <side>.world.json
  manifest,    \* manifest.json: the digests of the jsonl files, by what they digest
  runs,        \* side -> what is in eval-<side>.json
  readable,    \* the files that are there and parse
  log,         \* the lines of held-out-reads.log
  eval_md,     \* what EVAL.md shows: a run and a number of held-out reads
  cut,         \* history: the last gen has not come to its end
  looks,       \* history: the runs of the held-out split written out, in order
  looked,      \* history: side -> the records in some run of it written out
  commands, crashes

Sides == {"train", "test"}
DataFiles == {"train", "train.world", "test", "test.world", "manifest"}
Files == DataFiles \cup {"eval-train", "eval-test"}
WorldOf == [train |-> "train.world", test |-> "test.world"]
EvalOf == [train |-> "eval-train", test |-> "eval-test"]

dataVars == <<rows, world, manifest>>
historyVars == <<looks, looked>>
resultVars == <<runs, log, eval_md, historyVars>>
vars == <<pc, asked, cut, run, dataVars, readable, resultVars, commands, crashes>>

(* A run quotes the manifest; nth and cut are history: it is, or would be,  *)
(* the nth look, and the dataset may have been cut short.                   *)
Sealed == [Sides -> SUBSET Records]
Run == [side: Sides, manifest: Sealed, scored: SUBSET Records, nth: Nat, cut: BOOLEAN]
Empty == [side \in Sides |-> {}]
NoRun == [side |-> "train", manifest |-> Empty, scored |-> {}, nth |-> 0, cut |-> TRUE]

(* A torn line of the log lacks its end, and the next one is joined to it.  *)
Line == [checksum: SUBSET Records, text: {"whole", "torn", "joined"}]

(* crashes is history: how many commands had died by then.                  *)
Report == [run: Run, reads: Nat, crashes: Nat]

Init ==
  /\ pc = "idle"
  /\ asked = <<>> /\ cut = TRUE /\ run = NoRun
  /\ rows = Empty /\ world = Empty /\ manifest = Empty
  /\ runs = [side \in Sides |-> NoRun] /\ readable = {}
  /\ log = <<>> /\ eval_md = [run |-> NoRun, reads |-> 0, crashes |-> 0]
  /\ looks = <<>> /\ looked = Empty
  /\ commands = 0 /\ crashes = 0

job == asked[Len(asked)]
SideOf(d, side) == split_records(generate(d), d[3])[side]

Command ==
  /\ pc = "idle"
  /\ commands < MaxCommands
  /\ commands' = commands + 1
  /\ UNCHANGED crashes

Goto(next) == pc' = next /\ UNCHANGED <<commands, crashes>>

-------------------------------------------------------------------------------
(* gen: build_dataset.                                                      *)

Gen(d) ==
  /\ Command
  /\ asked' = Append(asked, d)
  /\ cut' = TRUE
  /\ pc' = "train"
  /\ UNCHANGED <<run, dataVars, readable, resultVars>>

WriteRecords(side) ==
  /\ pc = side
  /\ rows' = [rows EXCEPT ![side] = SideOf(job, side)]
  /\ readable' = readable \cup {side}
  /\ Goto(WorldOf[side])
  /\ UNCHANGED <<asked, cut, run, world, manifest, resultVars>>

(* Mutant: a world file that is there already is kept.                      *)
KeepWorld(side) ==
  /\ pc = WorldOf[side]
  /\ world' = IF WorldOf[side] \in readable THEN world
              ELSE [world EXCEPT ![side] = SideOf(job, side)]
  /\ readable' = readable \cup {WorldOf[side]}
  /\ Goto(IF side = "train" THEN "test" ELSE "manifest")
  /\ UNCHANGED <<asked, cut, run, rows, manifest, resultVars>>

WriteWorld(side) ==
  /\ pc = WorldOf[side]
  /\ world' = [world EXCEPT ![side] = SideOf(job, side)]
  /\ readable' = readable \cup {WorldOf[side]}
  /\ Goto(IF side = "train" THEN "test" ELSE "manifest")
  /\ UNCHANGED <<asked, cut, run, rows, manifest, resultVars>>

(* Mutant: a manifest that is there already is kept.                        *)
KeepManifest ==
  /\ pc = "manifest"
  /\ job[2] > 0
  /\ manifest' = IF "manifest" \in readable THEN manifest ELSE rows
  /\ readable' = readable \cup {"manifest"}
  /\ cut' = FALSE
  /\ Goto("idle")
  /\ UNCHANGED <<asked, run, rows, world, resultVars>>

(* The digests are taken of the files as they are on disk.                  *)
WriteManifest ==
  /\ pc = "manifest"
  /\ job[2] > 0
  /\ manifest' = rows
  /\ readable' = readable \cup {"manifest"}
  /\ cut' = FALSE
  /\ Goto("idle")
  /\ UNCHANGED <<asked, run, rows, world, resultVars>>

(* Without records the failure mix divides by zero, after four files have   *)
(* been written.                                                            *)
MixOfNothing ==
  /\ pc = "manifest"
  /\ job[2] = 0
  /\ Goto("idle")
  /\ UNCHANGED <<asked, cut, run, dataVars, readable, resultVars>>

-------------------------------------------------------------------------------
(* eval.                                                                    *)

(* Every record scored has to have its truth, or world[...] raises.         *)
Scorable(side) ==
  /\ {"manifest", side, WorldOf[side]} \subseteq readable
  /\ rows[side] \subseteq world[side]

(* evaluate reads the dataset and scores every policy on it.                *)
Evaluate(side) ==
  /\ Command
  /\ Scorable(side)
  /\ run' = [side |-> side, manifest |-> manifest, scored |-> rows[side],
             nth |-> Len(looks) + 1, cut |-> cut]
  /\ pc' = "write_run"
  /\ UNCHANGED <<asked, cut, dataVars, readable, resultVars>>

EvaluateRaises(side) ==
  /\ Command
  /\ ~Scorable(side)
  /\ UNCHANGED <<pc, asked, cut, run, dataVars, readable, resultVars>>

Seen ==
  /\ looked' = [looked EXCEPT ![run.side] = @ \cup run.scored]
  /\ looks' = IF run.side = "test" THEN Append(looks, run) ELSE looks

(* write_run; for the held-out split the line in the log is still to come.  *)
WriteRun ==
  /\ pc = "write_run"
  /\ runs' = [runs EXCEPT ![run.side] = run]
  /\ readable' = readable \cup {EvalOf[run.side]}
  /\ Seen
  /\ Goto(IF run.side = "test" THEN "record_read" ELSE "idle")
  /\ UNCHANGED <<asked, cut, run, dataVars, log, eval_md>>

Torn == log # <<>> /\ log[Len(log)].text = "torn"

(* The log with one more line, or with its last one written on.             *)
Logging(joined, text) ==
  IF Torn THEN [log EXCEPT ![Len(log)] = [checksum |-> run.manifest["test"], text |-> joined]]
  ELSE Append(log, [checksum |-> run.manifest["test"], text |-> text])

(* Mutant: a dataset that is in the log already is not logged again.        *)
RecordFirstRead ==
  /\ pc = "record_read"
  /\ log' = IF \E i \in DOMAIN log : log[i].checksum = run.manifest["test"] THEN log
            ELSE Logging("joined", "whole")
  /\ Goto("idle")
  /\ UNCHANGED <<asked, cut, run, dataVars, readable, runs, eval_md, historyVars>>

(* record_holdout_read, with the manifest's checksum of the test split.     *)
RecordRead ==
  /\ pc = "record_read"
  /\ log' = Logging("joined", "whole")
  /\ Goto("idle")
  /\ UNCHANGED <<asked, cut, run, dataVars, readable, runs, eval_md, historyVars>>

-------------------------------------------------------------------------------
(* report.                                                                  *)

(* Mutant: a header of two lines is taken off the count.                    *)
CountLessHeader(side) == Len(log) - 2

(* Mutant: only the reads of the dataset that is reported are counted.      *)
CountOfThisSplit(side) ==
  Cardinality({i \in DOMAIN log : log[i].checksum = runs[side].manifest["test"]})

holdout_read_count(side) == Len(log)

(* read_run, holdout_read_count, write.                                     *)
WriteReport(side) ==
  /\ Command
  /\ EvalOf[side] \in readable
  /\ eval_md' = [run |-> runs[side], reads |-> holdout_read_count(side), crashes |-> crashes]
  /\ UNCHANGED <<pc, asked, cut, run, dataVars, readable, runs, log, historyVars>>

ReportRaises(side) ==
  /\ Command
  /\ EvalOf[side] \notin readable
  /\ UNCHANGED <<pc, asked, cut, run, dataVars, readable, resultVars>>

-------------------------------------------------------------------------------
(* A command dies.                                                          *)

Crash ==
  /\ pc # "idle"
  /\ crashes < MaxCrashes
  /\ crashes' = crashes + 1
  /\ pc' = "idle"
  /\ UNCHANGED <<commands, asked, cut, run, world, manifest, runs, eval_md, historyVars>>

(* Between two files.                                                       *)
DieBetween == Crash /\ UNCHANGED <<rows, readable, log>>

(* In the middle of a file: what has been flushed of it does not parse ...  *)
DieWriting ==
  /\ pc # "record_read"
  /\ Crash
  /\ readable' = readable \ {IF pc = "write_run" THEN EvalOf[run.side] ELSE pc}
  /\ UNCHANGED <<rows, log>>

(* ... or, of the log, is a line without its end ...                        *)
DieLogging ==
  /\ pc = "record_read"
  /\ Crash
  /\ log' = Logging("torn", "torn")
  /\ UNCHANGED <<rows, readable>>

(* ... or, of a jsonl file, ends with a line and parses as fewer records.   *)
DieBetweenLines(side) ==
  /\ pc = side
  /\ Crash
  /\ \E k \in 0 .. Cardinality(SideOf(job, side)) :
       rows' = [rows EXCEPT ![side] = {r \in SideOf(job, side) : place(r, SideOf(job, side)) < k}]
  /\ readable' = readable \cup {side}
  /\ UNCHANGED log

-------------------------------------------------------------------------------
Begins ==
  \/ \E d \in Dataset : Gen(d)
  \/ \E side \in Sides : Evaluate(side) \/ EvaluateRaises(side)
                         \/ WriteReport(side) \/ ReportRaises(side)

Proceeds ==
  \/ \E side \in Sides : WriteRecords(side) \/ WriteWorld(side)
  \/ WriteManifest \/ MixOfNothing \/ WriteRun \/ RecordRead

Dies == DieBetween \/ DieWriting \/ DieLogging \/ \E side \in Sides : DieBetweenLines(side)

Next == Begins \/ Proceeds \/ Dies

Spec == Init /\ [][Next]_vars

-------------------------------------------------------------------------------
(* Every variable stays in the set its comment gives it.                    *)
TypeOK ==
  /\ pc \in {"idle", "write_run", "record_read"} \cup DataFiles
  /\ asked \in Seq(Dataset) /\ cut \in BOOLEAN /\ run \in Run
  /\ rows \in Sealed /\ world \in Sealed /\ manifest \in Sealed
  /\ runs \in [Sides -> Run] /\ readable \subseteq Files
  /\ log \in Seq(Line) /\ eval_md \in Report
  /\ looks \in Seq(Run) /\ looked \in Sealed
  /\ commands \in Nat /\ crashes \in Nat

(* Looks are counted: every held-out result that was ever on disk has a line*)
(* in the log, but for one for each command that died and the one about to  *)
(* be logged; and the log has no line without a look, nor a checksum of     *)
(* another dataset (record_holdout_read, "makes an undisclosed sixth look   *)
(* at the test split into a visible act").                                  *)
LooksAreLogged ==
  /\ Len(looks) <= Len(log) + crashes + (IF pc = "record_read" THEN 1 ELSE 0)
  /\ Len(log) + (IF pc = "record_read" THEN 1 ELSE 0) <= Len(looks)
  /\ \A i \in DOMAIN log : log[i].text # "torn" =>
       \E j \in DOMAIN looks : log[i].checksum = looks[j].manifest["test"]

(* EVAL.md counts its own result: the number of reads printed with a        *)
(* held-out run includes that run and all before it, but for those whose    *)
(* command died (report.py, "how many times we looked").                    *)
ReportsCountTheirRun ==
  eval_md.run.side = "test" => eval_md.run.nth <= eval_md.reads + eval_md.crashes

(* The checksum of a run identifies the records it scored, as long as the   *)
(* last gen came to its end (module doc of generate.py, "verify that the    *)
(* numbers were produced against the split we claim").                      *)
ChecksumNamesTheScored ==
  \A side \in Sides :
    EvalOf[side] \in readable /\ ~runs[side].cut => runs[side].scored = runs[side].manifest[side]

(* A gen that comes to its end repairs whatever an earlier one has left:    *)
(* both sides can then be scored, and the manifest tells what they hold.    *)
CompleteMeansConsistent ==
  ~cut => manifest = rows /\ \A side \in Sides : Scorable(side)

(* No record is scored on both sides, whatever died and was begun again, as *)
(* long as no seed was asked for in two sizes or with two shares, either of *)
(* which moves the boundary (split_records; gen --n, --test-fraction).      *)
SealHoldsUnlessMoved ==
  (\A i, j \in DOMAIN asked : asked[i][1] = asked[j][1] => asked[i] = asked[j])
    => looked["train"] \cap looked["test"] = {}

(* split_records: "the held-out split cannot quietly absorb data we have    *)
(* already looked at".  Violated by what the code does.                     *)
HeldOutStaysUnseen == looked["train"] \cap looked["test"] = {}
===============================================================================
