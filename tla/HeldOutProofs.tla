----------------------------- MODULE HeldOutProofs -----------------------------
(***************************************************************************)
(* Theorems about HeldOut, for any seeds, sizes, shares and hashes, and any *)
(* number of commands and crashes.                                          *)
(*                                                                          *)
(* Logged holds the count of looks against the lines of the log, of which   *)
(* one without its end is lost to the next; Numbered ties each run to the look it was.  Written says how far gen has come,    *)
(* which is what a complete gen ends with.  Sided follows each record from  *)
(* the split it was given to: through the files, a run, to what was seen.   *)
(* The split itself is a count of the places below its boundary.            *)
(***************************************************************************)
EXTENDS HeldOut, FiniteSetTheorems, TLAPS

(* What a gen that is at this point has written already.                    *)
RowsWritten(side) == side \in readable /\ rows[side] = SideOf(job, side)
WorldWritten(side) == WorldOf[side] \in readable /\ world[side] = SideOf(job, side)

Written ==
  /\ pc \in DataFiles => asked # <<>> /\ cut
  /\ pc \in {"train.world", "test", "test.world", "manifest"} => RowsWritten("train")
  /\ pc \in {"test", "test.world", "manifest"} => WorldWritten("train")
  /\ pc \in {"test.world", "manifest"} => RowsWritten("test")
  /\ pc = "manifest" => WorldWritten("test")

Honest(r, side) == ~r.cut => r.scored = r.manifest[side]

Checksummed ==
  /\ CompleteMeansConsistent
  /\ Honest(run, run.side)
  /\ \A side \in Sides : Honest(runs[side], side)

Logged ==
  /\ LooksAreLogged
  /\ Len(looks) + (IF Torn THEN 1 ELSE 0) <= Len(log) + crashes + (IF pc = "record_read" THEN 1 ELSE 0)
  /\ pc = "record_read" => Len(looks) > 0 /\ looks[Len(looks)] = run

Numbered ==
  /\ pc = "write_run" => run.nth = Len(looks) + 1
  /\ \A side \in Sides : runs[side].side = "test" => runs[side].nth <= Len(looks)
  /\ ReportsCountTheirRun

(* The records of S were on this side in some dataset gen was asked for.    *)
Stems(S, side) == \A r \in S : \E i \in DOMAIN asked : r \in SideOf(asked[i], side)

Sided ==
  /\ Stems(run.scored, run.side)
  /\ \A side \in Sides : Stems(rows[side], side) /\ Stems(looked[side], side)

HeldInv == TypeOK /\ Written /\ Checksummed /\ Logged /\ Numbered /\ Sided

-------------------------------------------------------------------------------
(* Splits.                                                                  *)

LEMMA SidesTyped ==
  ASSUME NEW d \in Dataset, NEW side \in Sides
  PROVE  SideOf(d, side) \subseteq Records
<1>1. generate(d) \subseteq Records
  BY DatasetAssumption DEF generate, Records
<1>2. SideOf(d, side) \subseteq generate(d)
  BY DEF SideOf, split_records, Sides
<1> QED
  BY <1>1, <1>2

LEMMA DatasetsFinite ==
  ASSUME NEW d \in Dataset
  PROVE  IsFiniteSet(generate(d)) /\ Cardinality(generate(d)) \in Nat
<1>1. d[2] \in Nat
  BY DatasetAssumption
<1>2. IsFiniteSet(1 .. d[2])
  <2>1. \A n \in Nat : IsFiniteSet(1 .. n)
    BY FS_Interval
  <2> QED
    BY <1>1, <2>1
<1>3. IsFiniteSet({d[1]})
  BY FS_Singleton
<1> QED
  BY <1>2, <1>3, FS_Product, FS_CardinalityType DEF generate

LEMMA PlacesTyped ==
  ASSUME NEW d \in Dataset, NEW r
  PROVE  place(r, generate(d)) \in Nat
<1>1. IsFiniteSet({q \in generate(d) : HashOf(q) < HashOf(r)})
  BY DatasetsFinite, FS_Subset
<1> QED
  BY <1>1, FS_CardinalityType DEF place

LEMMA RoundTyped ==
  ASSUME NEW n \in Nat
  PROVE  round(n) \in Nat
BY DEF round

LEMMA SharesTyped ==
  ASSUME NEW d \in Dataset
  PROVE  round(Cardinality(generate(d)) * d[3]) \in Nat
<1>1. Cardinality(generate(d)) * d[3] \in Nat
  <2>1. d[3] \in 0 .. 10
    BY DatasetAssumption
  <2>2. Cardinality(generate(d)) \in Nat
    BY DatasetsFinite
  <2> QED
    BY <2>1, <2>2
<1> QED
  BY <1>1, RoundTyped

(* What is held out of a dataset is not in the rest of it.                  *)
LEMMA SidesApart ==
  ASSUME NEW d \in Dataset, NEW r, r \in SideOf(d, "train"), r \in SideOf(d, "test")
  PROVE  FALSE
<1> DEFINE n == round(Cardinality(generate(d)) * d[3])
           k == place(r, generate(d))
<1>1. k \in Nat /\ n \in Nat
  BY PlacesTyped, SharesTyped
<1>2. k < n /\ k >= n
  BY DEF SideOf, split_records
<1> QED
  BY <1>1, <1>2

(* A record tells the seed of the dataset it is in.                         *)
LEMMA SeedOfRecord ==
  ASSUME NEW d \in Dataset, NEW side \in Sides, NEW r \in SideOf(d, side)
  PROVE  r[1] = d[1]
BY DEF SideOf, split_records, generate, Sides

-------------------------------------------------------------------------------
(* The inductive invariant.                                                 *)

LEMMA JobTyped ==
  ASSUME HeldInv, pc \in DataFiles
  PROVE  job \in Dataset /\ Len(asked) \in DOMAIN asked
<1>1. asked \in Seq(Dataset) /\ asked # <<>>
  BY DEF HeldInv, TypeOK, Written
<1> QED
  BY <1>1 DEF job

LEMMA InitInv == Init => HeldInv
<1> SUFFICES ASSUME Init PROVE HeldInv
  OBVIOUS
<1>1. NoRun \in Run /\ Empty \in Sealed
  BY DEF NoRun, Run, Empty, Sealed, Sides, Honest
<1>2. TypeOK
  BY <1>1 DEF Init, TypeOK, Report, Line
<1>3. Written
  BY DEF Init, Written, DataFiles
<1>4. Checksummed
  BY DEF Init, Checksummed, CompleteMeansConsistent, Honest, NoRun
<1>5. Logged /\ Numbered
  BY DEF Init, Logged, LooksAreLogged, Torn, Numbered, ReportsCountTheirRun, NoRun
<1>6. Sided
  BY DEF Init, Sided, Stems, NoRun, Empty
<1> QED
  BY <1>2, <1>3, <1>4, <1>5, <1>6 DEF HeldInv

(* What does not depend on the actions that leave these variables alone.    *)
LEMMA ResultsKept ==
  ASSUME HeldInv, UNCHANGED <<run, resultVars>>, crashes' \in Nat, crashes' >= crashes,
         pc' \notin {"write_run", "record_read"}, pc # "record_read" \/ crashes' = crashes + 1
  PROVE  Logged' /\ Numbered'
<1>1. Len(looks) \in Nat /\ Len(log) \in Nat /\ crashes \in Nat
  BY DEF HeldInv, TypeOK
<1>2. Torn' = Torn
  BY DEF Torn, resultVars
<1>3. Logged'
  BY <1>1, <1>2 DEF HeldInv, Logged, LooksAreLogged, resultVars, historyVars
<1>4. ReportsCountTheirRun'
  BY DEF HeldInv, Numbered, ReportsCountTheirRun, resultVars
<1> QED
  BY <1>3, <1>4 DEF HeldInv, Numbered, resultVars, historyVars

LEMMA StemsGrow ==
  ASSUME NEW S, NEW side, Stems(S, side), asked \in Seq(Dataset),
         UNCHANGED asked \/ \E d \in Dataset : asked' = Append(asked, d)
  PROVE  \A r \in S : \E i \in DOMAIN asked' : r \in SideOf(asked'[i], side)
<1>1. \A i \in DOMAIN asked : i \in DOMAIN asked' /\ asked'[i] = asked[i]
  OBVIOUS
<1> QED
  BY <1>1 DEF Stems

LEMMA GenKeeps ==
  ASSUME HeldInv, NEW d \in Dataset, Gen(d)
  PROVE  HeldInv'
<1> USE DEF Gen, Command
<1>1. TypeOK'
  BY DEF HeldInv, TypeOK, dataVars, resultVars, historyVars, DataFiles
<1>2. Written'
  <2>1. asked' # <<>>
    BY DEF HeldInv, TypeOK
  <2> QED
    BY <2>1 DEF Written
<1>3. Checksummed'
  BY DEF HeldInv, Checksummed, CompleteMeansConsistent, Honest, resultVars, dataVars
<1>4. Logged' /\ Numbered'
  <2>1. crashes' \in Nat /\ crashes' >= crashes
    BY DEF HeldInv, TypeOK
  <2> QED
    BY <2>1, ResultsKept
<1>5. Sided'
  BY StemsGrow DEF HeldInv, TypeOK, Sided, Stems, dataVars, resultVars, historyVars
<1> QED
  BY <1>1, <1>2, <1>3, <1>4, <1>5 DEF HeldInv

(* A step of gen, from its first file to its last but one.                  *)
LEMMA WriteRecordsKeeps ==
  ASSUME HeldInv, NEW side \in Sides, WriteRecords(side)
  PROVE  HeldInv'
<1>1. pc \in DataFiles /\ job \in Dataset /\ Len(asked) \in DOMAIN asked
  BY JobTyped DEF WriteRecords, Sides, DataFiles
<1>2. /\ rows' = [rows EXCEPT ![side] = SideOf(job, side)]
      /\ readable' = readable \cup {side}
      /\ pc = side /\ pc' = WorldOf[side]
      /\ UNCHANGED <<asked, cut, run, world, manifest, commands, crashes, resultVars>>
  BY DEF WriteRecords, Goto
<1>3. TypeOK'
  <2>1. rows' \in Sealed
    BY <1>1, <1>2, SidesTyped DEF HeldInv, TypeOK, Sealed
  <2>2. pc' \in DataFiles /\ side \in Files
    BY <1>2 DEF DataFiles, Files, WorldOf, Sides
  <2>3. readable' \subseteq Files
    BY <1>2, <2>2 DEF HeldInv, TypeOK
  <2> QED
    BY <1>2, <2>1, <2>2, <2>3 DEF HeldInv, TypeOK, resultVars, historyVars
<1>4. Written'
  <2>1. rows \in [Sides -> SUBSET Records]
    BY DEF HeldInv, TypeOK, Sealed
  <2>2. job' = job
    BY <1>2 DEF job
  <2>3. rows'[side] = SideOf(job, side) /\ \A s \in Sides : s # side => rows'[s] = rows[s]
    BY <1>2, <2>1
  <2> QED
    BY <1>1, <1>2, <2>2, <2>3 DEF HeldInv, Written, RowsWritten, WorldWritten, Sides, WorldOf, DataFiles
<1>5. Checksummed'
  BY <1>1, <1>2 DEF HeldInv, Written, Checksummed, CompleteMeansConsistent, Honest, resultVars
<1>6. Logged' /\ Numbered'
  <2>1. crashes' \in Nat /\ crashes' >= crashes
    BY <1>2 DEF HeldInv, TypeOK
  <2> QED
    BY <1>2, <2>1, ResultsKept DEF Sides, WorldOf
<1>7. Sided'
  <2>1. rows \in [Sides -> SUBSET Records]
    BY DEF HeldInv, TypeOK, Sealed
  <2>2. job = asked[Len(asked)]
    BY DEF job
  <2>3. Stems(SideOf(job, side), side)
    BY <1>1, <2>2 DEF Stems
  <2> QED
    BY <1>2, <2>1, <2>3 DEF HeldInv, Sided, Stems, resultVars, historyVars
<1> QED
  BY <1>3, <1>4, <1>5, <1>6, <1>7 DEF HeldInv

LEMMA WriteWorldKeeps ==
  ASSUME HeldInv, NEW side \in Sides, WriteWorld(side)
  PROVE  HeldInv'
<1>1. pc \in DataFiles /\ job \in Dataset
  BY JobTyped DEF WriteWorld, WorldOf, Sides, DataFiles
<1>2. /\ world' = [world EXCEPT ![side] = SideOf(job, side)]
      /\ readable' = readable \cup {WorldOf[side]}
      /\ pc = WorldOf[side] /\ pc' = IF side = "train" THEN "test" ELSE "manifest"
      /\ UNCHANGED <<asked, cut, run, rows, manifest, commands, crashes, resultVars>>
  BY DEF WriteWorld, Goto
<1>3. TypeOK'
  <2>1. world' \in Sealed
    BY <1>1, <1>2, SidesTyped DEF HeldInv, TypeOK, Sealed
  <2>2. pc' \in DataFiles
    BY <1>2 DEF DataFiles
  <2>3. readable' \subseteq Files
    <3>1. WorldOf[side] \in Files
      BY DEF WorldOf, Sides, Files, DataFiles
    <3> QED
      BY <1>2, <3>1 DEF HeldInv, TypeOK
  <2> QED
    BY <1>2, <2>1, <2>2, <2>3 DEF HeldInv, TypeOK, resultVars, historyVars
<1>4. Written'
  <2>1. world \in [Sides -> SUBSET Records]
    BY DEF HeldInv, TypeOK, Sealed
  <2>2. job' = job
    BY <1>2 DEF job
  <2>3. world'[side] = SideOf(job, side) /\ \A s \in Sides : s # side => world'[s] = world[s]
    BY <1>2, <2>1
  <2> QED
    BY <1>1, <1>2, <2>2, <2>3 DEF HeldInv, Written, RowsWritten, WorldWritten, Sides, WorldOf, DataFiles
<1>5. Checksummed'
  BY <1>1, <1>2 DEF HeldInv, Written, Checksummed, CompleteMeansConsistent, Honest, resultVars
<1>6. Logged' /\ Numbered'
  <2>1. crashes' \in Nat /\ crashes' >= crashes
    BY <1>2 DEF HeldInv, TypeOK
  <2> QED
    BY <1>2, <2>1, ResultsKept DEF Sides, WorldOf
<1>7. Sided'
  BY <1>2 DEF HeldInv, Sided, Stems, resultVars, historyVars
<1> QED
  BY <1>3, <1>4, <1>5, <1>6, <1>7 DEF HeldInv

LEMMA WriteManifestKeeps ==
  ASSUME HeldInv, WriteManifest \/ MixOfNothing
  PROVE  HeldInv'
<1>1. /\ pc = "manifest" /\ pc' = "idle"
      /\ UNCHANGED <<asked, run, rows, world, commands, crashes, resultVars>>
  BY DEF WriteManifest, MixOfNothing, Goto, dataVars
<1>2. /\ manifest' \in Sealed /\ readable' \in {readable, readable \cup {"manifest"}}
      /\ cut' \in BOOLEAN
  BY DEF WriteManifest, MixOfNothing, HeldInv, TypeOK, dataVars
<1>3. TypeOK'
  <2>1. readable' \subseteq Files
    BY <1>2 DEF HeldInv, TypeOK, Files, DataFiles
  <2> QED
    BY <1>1, <1>2, <2>1 DEF HeldInv, TypeOK, resultVars, historyVars
<1>4. Written'
  BY <1>1 DEF Written, DataFiles
<1>5. CompleteMeansConsistent'
  <2>1. CASE WriteManifest
    <3>1. manifest' = rows /\ readable' = readable \cup {"manifest"}
      BY <2>1 DEF WriteManifest
    <3>2. Scorable("train")' /\ Scorable("test")'
      BY <1>1, <3>1 DEF HeldInv, Written, RowsWritten, WorldWritten, Scorable, WorldOf
    <3> QED
      BY <1>1, <3>1, <3>2 DEF Sides, CompleteMeansConsistent
  <2>2. CASE MixOfNothing
    BY <1>1, <2>2 DEF MixOfNothing, HeldInv, Written, DataFiles, CompleteMeansConsistent
  <2> QED
    BY <2>1, <2>2
<1>6. Checksummed'
  BY <1>1, <1>5 DEF HeldInv, Checksummed, Honest, resultVars
<1>7. Logged' /\ Numbered'
  <2>1. crashes' \in Nat /\ crashes' >= crashes
    BY <1>1 DEF HeldInv, TypeOK
  <2> QED
    BY <1>1, <2>1, ResultsKept
<1>8. Sided'
  BY <1>1 DEF HeldInv, Sided, Stems, resultVars, historyVars
<1> QED
  BY <1>3, <1>4, <1>6, <1>7, <1>8 DEF HeldInv

-------------------------------------------------------------------------------
(* eval and report.                                                         *)

LEMMA EvaluateKeeps ==
  ASSUME HeldInv, NEW side \in Sides, Evaluate(side)
  PROVE  HeldInv'
<1> DEFINE r == [side |-> side, manifest |-> manifest, scored |-> rows[side],
                 nth |-> Len(looks) + 1, cut |-> cut]
<1>1. /\ pc = "idle" /\ pc' = "write_run" /\ run' = r /\ Scorable(side)
      /\ UNCHANGED <<asked, cut, rows, world, manifest, readable, resultVars, crashes>>
  BY DEF Evaluate, Command, dataVars
<1>2. r \in Run
  BY DEF HeldInv, TypeOK, Run, Sealed
<1>3. TypeOK'
  <2>1. commands' \in Nat
    BY DEF Evaluate, Command, HeldInv, TypeOK
  <2> QED
    BY <1>1, <1>2, <2>1 DEF HeldInv, TypeOK, resultVars, historyVars
<1>4. Written'
  BY <1>1 DEF HeldInv, Written, DataFiles
<1>5. Checksummed'
  <2>1. ~cut => manifest = rows
    BY DEF HeldInv, Checksummed, CompleteMeansConsistent
  <2>2. Honest(r, side)
    BY <2>1 DEF Honest
  <2> QED
    BY <1>1, <2>2 DEF HeldInv, Checksummed, CompleteMeansConsistent, Scorable, Honest, resultVars
<1>6. Logged'
  BY <1>1 DEF HeldInv, Logged, LooksAreLogged, Torn, resultVars, historyVars
<1>7. Numbered'
  BY <1>1 DEF HeldInv, Numbered, ReportsCountTheirRun, resultVars, historyVars
<1>8. Sided'
  BY <1>1 DEF HeldInv, Sided, Stems, resultVars, historyVars
<1> QED
  BY <1>3, <1>4, <1>5, <1>6, <1>7, <1>8 DEF HeldInv

LEMMA WriteRunKeeps ==
  ASSUME HeldInv, WriteRun
  PROVE  HeldInv'
<1>1. /\ pc = "write_run" /\ runs' = [runs EXCEPT ![run.side] = run]
      /\ pc' = IF run.side = "test" THEN "record_read" ELSE "idle"
      /\ readable' = readable \cup {EvalOf[run.side]}
      /\ looked' = [looked EXCEPT ![run.side] = looked[run.side] \cup run.scored]
      /\ looks' = IF run.side = "test" THEN Append(looks, run) ELSE looks
      /\ UNCHANGED <<asked, cut, run, rows, world, manifest, log, eval_md, commands, crashes>>
  BY DEF WriteRun, Seen, Goto, dataVars
<1>2. /\ run \in Run /\ run.side \in Sides /\ run.scored \subseteq Records
      /\ looks \in Seq(Run) /\ looked \in [Sides -> SUBSET Records]
      /\ runs \in [Sides -> Run]
  BY DEF HeldInv, TypeOK, Run, Sealed
<1>3. TypeOK'
  <2>1. looks' \in Seq(Run) /\ looked' \in Sealed /\ runs' \in [Sides -> Run]
    BY <1>1, <1>2 DEF Sealed
  <2>2. readable' \subseteq Files
    BY <1>1, <1>2 DEF HeldInv, TypeOK, Files, EvalOf, Sides
  <2>3. pc' \in {"idle", "record_read"}
    BY <1>1
  <2> QED
    BY <1>1, <2>1, <2>2, <2>3 DEF HeldInv, TypeOK
<1>4. Written'
  BY <1>1 DEF Written, DataFiles
<1>5. Checksummed'
  <2>1. CompleteMeansConsistent'
    BY <1>1 DEF HeldInv, Checksummed, CompleteMeansConsistent, Scorable
  <2>2. \A side \in Sides : Honest(runs'[side], side)
    BY <1>1, <1>2 DEF HeldInv, Checksummed
  <2> QED
    BY <1>1, <2>1, <2>2 DEF HeldInv, Checksummed, Honest
<1>6. Len(looks) \in Nat /\ Len(log) \in Nat /\ crashes \in Nat
  BY DEF HeldInv, TypeOK
<1>7. ASSUME run.side = "test" PROVE Logged' /\ Numbered'
  <2>1. /\ looks' = Append(looks, run) /\ Len(looks') = Len(looks) + 1
        /\ looks'[Len(looks')] = run
        /\ \A j \in DOMAIN looks : j \in DOMAIN looks' /\ looks'[j] = looks[j]
    BY <1>1, <1>2, <1>7
  <2>2. LooksAreLogged'
    BY <1>1, <1>6, <1>7, <2>1 DEF HeldInv, Logged, LooksAreLogged
  <2>3. Logged'
    BY <1>1, <1>6, <1>7, <2>1, <2>2 DEF HeldInv, Logged, Torn
  <2>4. \A side \in Sides : runs'[side].side = "test" => runs'[side].nth <= Len(looks')
    BY <1>1, <1>2, <1>6, <2>1 DEF HeldInv, Numbered, Run
  <2> QED
    BY <1>1, <1>7, <2>3, <2>4 DEF HeldInv, Numbered, ReportsCountTheirRun
<1>8. ASSUME run.side # "test" PROVE Logged' /\ Numbered'
  <2>1. looks' = looks /\ pc' = "idle"
    BY <1>1, <1>8
  <2>2. Logged'
    BY <1>1, <2>1 DEF HeldInv, Logged, LooksAreLogged, Torn
  <2>3. \A side \in Sides : runs'[side].side = "test" => runs'[side].nth <= Len(looks')
    BY <1>1, <1>2, <1>8, <2>1 DEF HeldInv, Numbered
  <2> QED
    BY <1>1, <2>1, <2>2, <2>3 DEF HeldInv, Numbered, ReportsCountTheirRun
<1>9. Sided'
  BY <1>1, <1>2 DEF HeldInv, Sided, Stems
<1> QED
  BY <1>3, <1>4, <1>5, <1>7, <1>8, <1>9 DEF HeldInv

(* A line that is written is the last one of the log, and there is one more *)
(* of them, unless it is joined to a torn one.                              *)
LEMMA LineWritten ==
  ASSUME HeldInv, NEW joined \in {"joined", "torn"}, NEW text \in {"whole", "torn"},
         log' = Logging(joined, text)
  PROVE  /\ log' \in Seq(Line) /\ log' # <<>>
         /\ log'[Len(log')] = [checksum |-> run.manifest["test"], text |-> IF Torn THEN joined ELSE text]
         /\ Len(log') = Len(log) + (IF Torn THEN 0 ELSE 1)
         /\ \A i \in DOMAIN log' : i = Len(log') \/ (i \in DOMAIN log /\ log'[i] = log[i])
<1>1. log \in Seq(Line) /\ run.manifest["test"] \in SUBSET Records
  BY DEF HeldInv, TypeOK, Run, Sealed, Sides
<1>2. \A t \in {"whole", "torn", "joined"} : [checksum |-> run.manifest["test"], text |-> t] \in Line
  BY <1>1 DEF Line
<1>3. CASE Torn
  <2>1. PICK l \in Line : l = [checksum |-> run.manifest["test"], text |-> joined]
    BY <1>2
  <2>2. log' = [log EXCEPT ![Len(log)] = l] /\ log # <<>>
    BY <1>3, <2>1 DEF Logging, Torn
  <2>3. Len(log) \in DOMAIN log /\ log' \in Seq(Line) /\ Len(log') = Len(log) /\ log'[Len(log')] = l
    BY <1>1, <2>2
  <2> QED
    BY <1>1, <1>3, <2>1, <2>2, <2>3
<1>4. CASE ~Torn
  <2>1. PICK l \in Line : l = [checksum |-> run.manifest["test"], text |-> text]
    BY <1>2
  <2>2. log' = Append(log, l)
    BY <1>4, <2>1 DEF Logging
  <2> QED
    BY <1>1, <1>4, <2>1, <2>2
<1> QED
  BY <1>3, <1>4

(* Whether the line is whole or torn, the look it is of is accounted for.   *)
LEMMA LineCounts ==
  ASSUME HeldInv, pc = "record_read", pc' = "idle", UNCHANGED <<looks, run>>,
         NEW joined \in {"joined", "torn"}, NEW text \in {"whole", "torn"},
         log' = Logging(joined, text),
         joined = "torn" <=> text = "torn",
         crashes' = IF joined = "torn" THEN crashes + 1 ELSE crashes
  PROVE  Logged'
<1>1. /\ log' \in Seq(Line) /\ log' # <<>>
      /\ log'[Len(log')] = [checksum |-> run.manifest["test"], text |-> IF Torn THEN joined ELSE text]
      /\ Len(log') = Len(log) + (IF Torn THEN 0 ELSE 1)
      /\ \A i \in DOMAIN log' : i = Len(log') \/ (i \in DOMAIN log /\ log'[i] = log[i])
  BY LineWritten
<1>2. /\ Len(looks) \in Nat /\ Len(log) \in Nat /\ crashes \in Nat
      /\ Len(looks) \in DOMAIN looks /\ looks[Len(looks)] = run
  BY DEF HeldInv, TypeOK, Logged
<1>3. /\ Len(looks) + (IF Torn THEN 1 ELSE 0) <= Len(log) + crashes + 1
      /\ Len(log) + 1 <= Len(looks)
      /\ \A i \in DOMAIN log : log[i].text # "torn" =>
           \E j \in DOMAIN looks : log[i].checksum = looks[j].manifest["test"]
  BY DEF HeldInv, Logged, LooksAreLogged
<1>4. Torn' <=> joined = "torn"
  <2>1. Torn' <=> log'[Len(log')].text = "torn"
    BY <1>1 DEF Torn
  <2> QED
    BY <1>1, <2>1
<1>5. PICK t \in {0, 1} : t = IF Torn THEN 1 ELSE 0
  OBVIOUS
<1>6. PICK u \in {0, 1} : /\ u = IF Torn' THEN 1 ELSE 0
                          /\ u = IF joined = "torn" THEN 1 ELSE 0
  BY <1>4
<1>7. looks' = looks /\ crashes' = crashes + u /\ Len(log') = Len(log) + 1 - t
  BY <1>1, <1>2, <1>5, <1>6
<1>8. Len(looks) + t <= Len(log) + crashes + 1 /\ Len(log) + 1 <= Len(looks)
  BY <1>3, <1>5
<1>9. /\ Len(looks') + u <= Len(log') + crashes' /\ Len(log') <= Len(looks')
      /\ Len(looks') <= Len(log') + crashes'
  BY <1>2, <1>7, <1>8
<1>10. \A i \in DOMAIN log' : log'[i].text # "torn" =>
         \E j \in DOMAIN looks' : log'[i].checksum = looks'[j].manifest["test"]
  <2> SUFFICES ASSUME NEW i \in DOMAIN log', log'[i].text # "torn"
               PROVE  \E j \in DOMAIN looks : log'[i].checksum = looks[j].manifest["test"]
    BY <1>7
  <2>1. CASE i = Len(log')
    BY <1>1, <1>2, <2>1
  <2>2. CASE i # Len(log')
    BY <1>1, <1>3, <2>2
  <2> QED
    BY <2>1, <2>2
<1>11. (pc' = "record_read") = FALSE
  OBVIOUS
<1>12. Len(looks') \in Nat /\ Len(log') \in Nat /\ crashes' \in Nat
  BY <1>1, <1>2, <1>6, <1>7
<1>13. LooksAreLogged'
  BY <1>9, <1>10, <1>11, <1>12 DEF LooksAreLogged
<1> QED
  BY <1>6, <1>9, <1>11, <1>12, <1>13 DEF Logged

LEMMA RecordReadKeeps ==
  ASSUME HeldInv, RecordRead
  PROVE  HeldInv'
<1>1. /\ pc = "record_read" /\ pc' = "idle"
      /\ log' = Logging("joined", "whole")
      /\ UNCHANGED <<asked, cut, run, dataVars, readable, runs, eval_md, historyVars, commands, crashes>>
  BY DEF RecordRead, Goto
<1>2. log' \in Seq(Line)
  BY <1>1, LineWritten
<1>3. TypeOK'
  BY <1>1, <1>2 DEF HeldInv, TypeOK, dataVars, historyVars
<1>4. Written' /\ Checksummed'
  BY <1>1 DEF HeldInv, Written, DataFiles, Checksummed, CompleteMeansConsistent, Scorable, Honest, dataVars
<1>5. Logged'
  <2>1. looks' = looks /\ run' = run /\ crashes' = crashes
    BY <1>1 DEF historyVars
  <2>2. "joined" \in {"joined", "torn"} /\ "whole" \in {"whole", "torn"}
    OBVIOUS
  <2> QED
    BY <1>1, <2>1, <2>2, LineCounts
<1>6. Numbered'
  BY <1>1 DEF HeldInv, Numbered, ReportsCountTheirRun, historyVars
<1>7. Sided'
  BY <1>1 DEF HeldInv, Sided, Stems, dataVars, historyVars
<1> QED
  BY <1>3, <1>4, <1>5, <1>6, <1>7 DEF HeldInv

LEMMA WriteReportKeeps ==
  ASSUME HeldInv, NEW side \in Sides, WriteReport(side)
  PROVE  HeldInv'
<1>1. /\ pc = "idle" /\ commands' = commands + 1
      /\ eval_md' = [run |-> runs[side], reads |-> Len(log), crashes |-> crashes]
      /\ UNCHANGED <<pc, asked, cut, run, dataVars, readable, runs, log, historyVars, crashes>>
  BY DEF WriteReport, Command, holdout_read_count
<1>2. Len(looks) \in Nat /\ Len(log) \in Nat /\ crashes \in Nat /\ runs[side] \in Run
  BY DEF HeldInv, TypeOK
<1>3. TypeOK'
  <2>1. eval_md' \in Report
    BY <1>1, <1>2 DEF Report
  <2>2. commands' \in Nat
    BY <1>1 DEF HeldInv, TypeOK
  <2> QED
    BY <1>1, <2>1, <2>2 DEF HeldInv, TypeOK, dataVars, historyVars
<1>4. Written' /\ Checksummed'
  BY <1>1 DEF HeldInv, Written, DataFiles, Checksummed, CompleteMeansConsistent, Scorable, Honest, dataVars
<1>5. Logged'
  BY <1>1 DEF HeldInv, Logged, LooksAreLogged, Torn, historyVars
<1>6. Numbered'
  <2>1. runs[side].nth \in Nat
    BY <1>2 DEF Run
  <2>2. Len(looks) <= Len(log) + crashes
    BY <1>1, <1>2 DEF HeldInv, Logged, LooksAreLogged
  <2>3. runs[side].side = "test" => runs[side].nth <= Len(looks)
    BY DEF HeldInv, Numbered
  <2>4. runs[side].side = "test" => runs[side].nth <= Len(log) + crashes
    BY <1>2, <2>1, <2>2, <2>3
  <2>5. eval_md'.run = runs[side] /\ eval_md'.reads = Len(log) /\ eval_md'.crashes = crashes
    BY <1>1
  <2>6. ReportsCountTheirRun'
    BY <2>4, <2>5 DEF ReportsCountTheirRun
  <2> QED
    BY <1>1, <2>6 DEF HeldInv, Numbered, historyVars
<1>7. Sided'
  BY <1>1 DEF HeldInv, Sided, Stems, dataVars, historyVars
<1> QED
  BY <1>3, <1>4, <1>5, <1>6, <1>7 DEF HeldInv

(* A command that raises does nothing but to have been given.               *)
LEMMA RaisesKeeps ==
  ASSUME HeldInv, NEW side \in Sides, EvaluateRaises(side) \/ ReportRaises(side)
  PROVE  HeldInv'
<1>1. /\ pc = "idle" /\ commands' = commands + 1
      /\ UNCHANGED <<pc, asked, cut, run, dataVars, readable, resultVars, crashes>>
  BY DEF EvaluateRaises, ReportRaises, Command
<1>2. TypeOK'
  <2>1. commands' \in Nat
    BY <1>1 DEF HeldInv, TypeOK
  <2> QED
    BY <1>1, <2>1 DEF HeldInv, TypeOK, dataVars, resultVars, historyVars
<1>3. Written' /\ Checksummed'
  BY <1>1 DEF HeldInv, Written, DataFiles, Checksummed, CompleteMeansConsistent, Scorable, Honest, dataVars, resultVars
<1>4. Logged' /\ Numbered'
  <2>1. crashes' \in Nat /\ crashes' >= crashes
    BY <1>1 DEF HeldInv, TypeOK
  <2> QED
    BY <1>1, <2>1, ResultsKept
<1>5. Sided'
  BY <1>1 DEF HeldInv, Sided, Stems, dataVars, resultVars, historyVars
<1> QED
  BY <1>2, <1>3, <1>4, <1>5 DEF HeldInv

-------------------------------------------------------------------------------
(* Crashes.                                                                 *)

(* Until its end, gen has made no promise that what dies could break; eval  *)
(* writes no dataset file.                                                  *)
LEMMA CrashKeeps ==
  ASSUME HeldInv, Crash, rows' \in Sealed, readable' \subseteq Files,
         log' \in Seq(Line), UNCHANGED log \/ Logged',
         ~cut => rows' = rows /\ readable \cap DataFiles \subseteq readable',
         \A side \in Sides : Stems(rows'[side], side)
  PROVE  HeldInv'
<1>1. /\ pc # "idle" /\ pc' = "idle" /\ crashes' = crashes + 1
      /\ UNCHANGED <<commands, asked, cut, run, world, manifest, runs, eval_md, looks, looked>>
  BY DEF Crash, historyVars
<1>2. crashes' \in Nat /\ crashes' >= crashes
  BY <1>1 DEF HeldInv, TypeOK
<1>3. TypeOK'
  BY <1>1, <1>2 DEF HeldInv, TypeOK
<1>4. Written'
  BY <1>1 DEF Written, DataFiles
<1>5. Checksummed'
  <2>1. ~cut' => \A side \in Sides : {"manifest", side, WorldOf[side]} \subseteq readable
    BY <1>1 DEF HeldInv, Checksummed, CompleteMeansConsistent, Scorable
  <2>2. \A side \in Sides : {"manifest", side, WorldOf[side]} \subseteq DataFiles
    BY DEF Sides, WorldOf, DataFiles
  <2>3. CompleteMeansConsistent'
    BY <1>1, <2>1, <2>2 DEF HeldInv, Checksummed, CompleteMeansConsistent, Scorable
  <2> QED
    BY <1>1, <2>3 DEF HeldInv, Checksummed, Honest
<1>6. Logged'
  <2>1. ASSUME UNCHANGED log PROVE Logged'
    BY <1>1, <1>2, <2>1, ResultsKept DEF resultVars, historyVars
  <2> QED
    BY <2>1
<1>7. Numbered'
  BY <1>1 DEF HeldInv, Numbered, ReportsCountTheirRun
<1>8. Sided'
  BY <1>1 DEF HeldInv, Sided, Stems
<1> QED
  BY <1>3, <1>4, <1>5, <1>6, <1>7, <1>8 DEF HeldInv

LEMMA DiesKeeps ==
  ASSUME HeldInv, Dies
  PROVE  HeldInv'
<1>1. rows \in Sealed /\ readable \subseteq Files /\ run.side \in Sides /\ log \in Seq(Line)
  BY DEF HeldInv, TypeOK, Run
<1>2. \A side \in Sides : Stems(rows[side], side)
  BY DEF HeldInv, Sided
<1>3. CASE DieBetween
  BY <1>1, <1>2, <1>3, CrashKeeps DEF DieBetween
<1>4. CASE DieWriting
  <2>1. Crash /\ rows' = rows /\ log' = log /\ readable' = readable \ {IF pc = "write_run" THEN EvalOf[run.side] ELSE pc}
    BY <1>4 DEF DieWriting
  <2>2. ~cut => pc = "write_run"
    BY <1>4, <2>1 DEF DieWriting, Crash, HeldInv, TypeOK, Written
  <2>3. EvalOf[run.side] \notin DataFiles
    BY <1>1 DEF EvalOf, Sides, DataFiles
  <2>4. ~cut => readable \cap DataFiles \subseteq readable'
    BY <2>1, <2>2, <2>3
  <2> QED
    BY <1>1, <1>2, <2>1, <2>4, CrashKeeps
<1>5. CASE DieLogging
  <2>1. /\ Crash /\ rows' = rows /\ readable' = readable /\ log' = Logging("torn", "torn")
        /\ pc = "record_read"
    BY <1>5 DEF DieLogging
  <2>2. /\ pc' = "idle" /\ crashes' = crashes + 1
        /\ UNCHANGED <<looks, run>>
    BY <2>1 DEF Crash, historyVars
  <2>3. log' \in Seq(Line)
    BY <2>1, LineWritten
  <2>4. Logged'
    BY <2>1, <2>2, LineCounts
  <2> QED
    BY <1>1, <1>2, <2>1, <2>3, <2>4, CrashKeeps
<1>6. ASSUME NEW side \in Sides, DieBetweenLines(side) PROVE HeldInv'
  <2>1. pc = side /\ Crash /\ readable' = readable \cup {side} /\ log' = log
    BY <1>6 DEF DieBetweenLines
  <2>2. pc \in DataFiles
    BY <2>1 DEF Sides, DataFiles
  <2>3. cut /\ job \in Dataset /\ Len(asked) \in DOMAIN asked
    BY <2>2, JobTyped DEF HeldInv, Written
  <2>4. PICK S \in SUBSET SideOf(job, side) : rows' = [rows EXCEPT ![side] = S]
    BY <1>6 DEF DieBetweenLines
  <2>5. job = asked[Len(asked)]
    BY DEF job
  <2>6. Stems(S, side)
    BY <2>3, <2>4, <2>5 DEF Stems
  <2>7. rows' \in Sealed
    BY <1>1, <2>3, <2>4, SidesTyped DEF Sealed
  <2>8. \A s \in Sides : Stems(rows'[s], s)
    BY <1>1, <1>2, <2>4, <2>6 DEF Sealed
  <2>9. readable' \subseteq Files
    BY <1>1, <2>1, <2>2 DEF Files
  <2> QED
    BY <1>1, <2>1, <2>3, <2>7, <2>8, <2>9, CrashKeeps
<1> QED
  BY <1>3, <1>4, <1>5, <1>6 DEF Dies

-------------------------------------------------------------------------------
LEMMA NextInv == HeldInv /\ [Next]_vars => HeldInv'
<1> SUFFICES ASSUME HeldInv, [Next]_vars PROVE HeldInv'
  OBVIOUS
<1>1. CASE Begins
  BY <1>1, GenKeeps, EvaluateKeeps, WriteReportKeeps, RaisesKeeps DEF Begins
<1>2. CASE Proceeds
  BY <1>2, WriteRecordsKeeps, WriteWorldKeeps, WriteManifestKeeps, WriteRunKeeps, RecordReadKeeps DEF Proceeds
<1>3. CASE Dies
  BY <1>3, DiesKeeps
<1>4. CASE UNCHANGED vars
  <2>1. UNCHANGED <<pc, asked, cut, run, rows, world, manifest, readable, runs, log, eval_md,
                    looks, looked, commands, crashes>>
    BY <1>4 DEF vars, dataVars, resultVars, historyVars
  <2>2. TypeOK'
    BY <2>1 DEF HeldInv, TypeOK
  <2>3. Written'
    <3>1. job' = job
      BY <2>1 DEF job
    <3> QED
      BY <2>1, <3>1 DEF HeldInv, Written, RowsWritten, WorldWritten
  <2>4. Checksummed' /\ Logged' /\ Numbered' /\ Sided'
    BY <2>1 DEF HeldInv, Checksummed, CompleteMeansConsistent, Scorable, Honest, Logged, LooksAreLogged,
                Torn, Numbered, ReportsCountTheirRun, Sided, Stems
  <2> QED
    BY <2>2, <2>3, <2>4 DEF HeldInv
<1> QED
  BY <1>1, <1>2, <1>3, <1>4 DEF Next

(* What holds of the files, the log and the runs in hand after every step.  *)
THEOREM HeldInvariance == Spec => []HeldInv
BY InitInv, NextInv, PTL DEF Spec

(* Every variable stays in the set its comment gives it.                    *)
THEOREM HeldOutTypeCorrect == Spec => []TypeOK
<1>1. HeldInv => TypeOK
  BY DEF HeldInv
<1> QED
  BY HeldInvariance, <1>1, PTL

(* Every held-out result that was ever on disk has its line in the log, but *)
(* for one for each command that died.                                      *)
THEOREM LooksAreCounted == Spec => []LooksAreLogged
<1>1. HeldInv => LooksAreLogged
  BY DEF HeldInv, Logged
<1> QED
  BY HeldInvariance, <1>1, PTL

(* The number of reads in EVAL.md covers the run it is printed with.        *)
THEOREM ReportsAreHonest == Spec => []ReportsCountTheirRun
<1>1. HeldInv => ReportsCountTheirRun
  BY DEF HeldInv, Numbered
<1> QED
  BY HeldInvariance, <1>1, PTL

(* A run of a dataset that was not cut short quotes the digest of what it   *)
(* scored.                                                                  *)
THEOREM ChecksumsAreHonest == Spec => []ChecksumNamesTheScored
<1>1. HeldInv => ChecksumNamesTheScored
  BY DEF HeldInv, Checksummed, Honest, ChecksumNamesTheScored
<1> QED
  BY HeldInvariance, <1>1, PTL

(* A gen that comes to its end leaves a dataset that can be scored.         *)
THEOREM CompleteGenRepairs == Spec => []CompleteMeansConsistent
<1>1. HeldInv => CompleteMeansConsistent
  BY DEF HeldInv, Checksummed
<1> QED
  BY HeldInvariance, <1>1, PTL

(* The split is sealed against crashes, reruns and other seeds; only the    *)
(* same seed in another size or with another share can break it.            *)
THEOREM SealHolds == Spec => []SealHoldsUnlessMoved
<1>1. HeldInv => SealHoldsUnlessMoved
  <2> SUFFICES ASSUME HeldInv,
                      \A i, j \in DOMAIN asked : asked[i][1] = asked[j][1] => asked[i] = asked[j],
                      NEW r \in looked["train"], r \in looked["test"]
               PROVE  FALSE
    BY DEF SealHoldsUnlessMoved
  <2>1. asked \in Seq(Dataset)
    BY DEF HeldInv, TypeOK
  <2>2. Stems(looked["train"], "train") /\ Stems(looked["test"], "test")
    BY DEF HeldInv, Sided, Sides
  <2>3. PICK i \in DOMAIN asked : r \in SideOf(asked[i], "train")
    BY <2>2 DEF Stems
  <2>4. PICK j \in DOMAIN asked : r \in SideOf(asked[j], "test")
    BY <2>2 DEF Stems
  <2>5. asked[i] \in Dataset /\ asked[j] \in Dataset
    BY <2>1
  <2>6. r[1] = asked[i][1] /\ r[1] = asked[j][1]
    BY <2>3, <2>4, <2>5, SeedOfRecord DEF Sides
  <2>7. asked[i] = asked[j]
    BY <2>6
  <2> QED
    BY <2>3, <2>4, <2>5, <2>7, SidesApart
<1> QED
  BY HeldInvariance, <1>1, PTL

-------------------------------------------------------------------------------
(* The split itself.                                                        *)

(* The places of the records of a dataset are 0, 1, 2 ... in some order.    *)
LEMMA PlacesAreInjective ==
  ASSUME NEW d \in Dataset
  PROVE  [r \in generate(d) |-> place(r, generate(d))]
           \in Injection(generate(d), 0 .. Cardinality(generate(d)) - 1)
<1> DEFINE S == generate(d)
           Lower(r) == {q \in S : HashOf(q) < HashOf(r)}
<1>1. IsFiniteSet(S) /\ Cardinality(S) \in Nat
  BY DatasetsFinite
<1>2. \A r \in S : HashOf(r) \in Nat
  BY HashAssumption
<1>3. \A q, r \in S : HashOf(q) = HashOf(r) => q = r
  BY HashAssumption
<1> HIDE DEF S
<1>4. \A r : IsFiniteSet(Lower(r)) /\ Cardinality(Lower(r)) \in Nat
  BY <1>1, FS_Subset, FS_CardinalityType
<1>5. ASSUME NEW r \in S
      PROVE  Cardinality(Lower(r)) \in 0 .. Cardinality(S) - 1
  <2>1. Lower(r) \subseteq S /\ r \notin Lower(r)
    BY <1>2
  <2>2. Cardinality(Lower(r)) <= Cardinality(S) /\ Cardinality(Lower(r)) # Cardinality(S)
    BY <1>1, <2>1, FS_Subset
  <2> QED
    BY <1>1, <1>4, <2>2
<1>6. ASSUME NEW q \in S, NEW r \in S, HashOf(q) < HashOf(r)
      PROVE  Cardinality(Lower(q)) # Cardinality(Lower(r))
  <2>1. Lower(q) \subseteq Lower(r)
    BY <1>2, <1>6
  <2>2. q \in Lower(r) /\ q \notin Lower(q)
    BY <1>2, <1>6
  <2>3. Lower(q) # Lower(r)
    BY <2>2
  <2> HIDE DEF Lower
  <2> QED
    BY <1>4, <2>1, <2>3, FS_Subset
<1>7. ASSUME NEW q \in S, NEW r \in S, Cardinality(Lower(q)) = Cardinality(Lower(r))
      PROVE  q = r
  <2>1. ~(HashOf(q) < HashOf(r)) /\ ~(HashOf(r) < HashOf(q))
    BY <1>6, <1>7
  <2>2. HashOf(q) = HashOf(r)
    BY <1>2, <2>1
  <2> QED
    BY <1>3, <2>2
<1>8. \A r : place(r, S) = Cardinality(Lower(r))
  BY DEF place
<1> HIDE DEF Lower
<1>9. [r \in S |-> place(r, S)] \in Injection(S, 0 .. Cardinality(S) - 1)
  BY <1>5, <1>7, <1>8 DEF Injection, IsInjective
<1> QED
  BY <1>9 DEF S

(* Rounding a share of the whole does not exceed the whole.                 *)
LEMMA ShareWithin ==
  ASSUME NEW n \in Nat, NEW share \in 0 .. 10
  PROVE  round(n * share) \in 0 .. n
<1>1. n * share \in Nat /\ n * share <= 10 * n
  OBVIOUS
<1>2. ASSUME NEW m \in Nat, m <= 10 * n
      PROVE  round(m) \in 0 .. n
  <2>1. PICK q \in Nat : q = m \div 10
    OBVIOUS
  <2>2. PICK r \in 0 .. 9 : r = m % 10
    OBVIOUS
  <2>3. m = 10 * q + r
    BY <2>1, <2>2
  <2>4. round(m) \in {q, q + 1} /\ (r = 0 => round(m) = q)
    BY <2>1, <2>2 DEF round
  <2> QED
    BY <1>2, <2>3, <2>4
<1> QED
  BY <1>1, <1>2

(* The split is exact and disjoint (test_split_is_exact_and_disjoint;       *)
(* split_records, "deterministically and exactly"): every record of a       *)
(* dataset is on one side, and the held-out side has the rounded share.     *)
ExactAndDisjoint(d) ==
  LET S == generate(d)
      n_test == round(Cardinality(S) * d[3])
  IN /\ SideOf(d, "train") \cup SideOf(d, "test") = S
     /\ SideOf(d, "train") \cap SideOf(d, "test") = {}
     /\ Cardinality(SideOf(d, "test")) = n_test
     /\ Cardinality(SideOf(d, "train")) = Cardinality(S) - n_test

(* For every seed, size and share: the places of the records held out are   *)
(* exactly those below the boundary.                                        *)
THEOREM SplitIsExactAndDisjoint == \A d \in Dataset : ExactAndDisjoint(d)
<1> SUFFICES ASSUME NEW d \in Dataset PROVE ExactAndDisjoint(d)
  OBVIOUS
<1> DEFINE S == generate(d)
           n == Cardinality(S)
           k == round(n * d[3])
           f == [r \in S |-> place(r, S)]
           test == {r \in S : place(r, S) < k}
           train == {r \in S : place(r, S) >= k}
<1>1. IsFiniteSet(S) /\ n \in Nat
  BY DatasetsFinite
<1>2. k \in 0 .. n
  <2>1. d[3] \in 0 .. 10
    BY DatasetAssumption
  <2> QED
    BY <1>1, <2>1, ShareWithin
<1>3. f \in Injection(S, 0 .. n - 1)
  BY PlacesAreInjective
<1>4. SideOf(d, "test") = test /\ SideOf(d, "train") = train
  BY DEF SideOf, split_records
<1>5. \A r \in S : f[r] = place(r, S) /\ f[r] \in 0 .. n - 1
  BY <1>3 DEF Injection
<1>6. \A q, r \in S : f[q] = f[r] => q = r
  BY <1>3 DEF Injection, IsInjective
<1> HIDE DEF S, n, k, f
<1>7. \A i \in 0 .. n - 1 : \E r \in S : f[r] = i
  <2>1. IsFiniteSet(0 .. n - 1) /\ Cardinality(0 .. n - 1) = n
    BY <1>1, FS_Interval
  <2>2. f \in Surjection(S, 0 .. n - 1)
    BY <1>3, <2>1, FS_Injection DEF n
  <2> QED
    BY <2>2 DEF Surjection
<1>8. test \cup train = S /\ test \cap train = {}
  BY <1>1, <1>2, <1>5
<1>9. IsFiniteSet(test)
  BY <1>1, FS_Subset
<1>10. Cardinality(test) = k
  <2> DEFINE g == [r \in test |-> f[r]]
  <2>1. g \in [test -> 0 .. k - 1]
    BY <1>1, <1>2, <1>5
  <2>2. \A q, r \in test : g[q] = g[r] => q = r
    BY <1>6
  <2>3. \A i \in 0 .. k - 1 : \E r \in test : g[r] = i
    BY <1>1, <1>2, <1>5, <1>7
  <2> HIDE DEF g, test
  <2>4. g \in Bijection(test, 0 .. k - 1)
    BY <2>1, <2>2, <2>3 DEF Bijection, Injection, Surjection, IsInjective
  <2>5. Cardinality(0 .. k - 1) = Cardinality(test)
    BY <1>9, <2>4, FS_Bijection DEF ExistsBijection
  <2>6. Cardinality(0 .. k - 1) = k
    BY <1>1, <1>2, FS_Interval
  <2> QED
    BY <2>5, <2>6
<1>11. Cardinality(train) = n - k
  <2>1. train = S \ test /\ S \cap test = test
    BY <1>8
  <2> HIDE DEF test, train
  <2>2. Cardinality(S \ test) = Cardinality(S) - Cardinality(S \cap test)
    BY <1>1, FS_Difference
  <2> QED
    BY <1>10, <2>1, <2>2 DEF n
<1> QED
  BY <1>4, <1>8, <1>10, <1>11 DEF ExactAndDisjoint, S, n, k

===============================================================================
