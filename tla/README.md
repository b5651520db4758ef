# ReclaimOS in TLA+

ReclaimOS recovers failed subscription charges. A failure is diagnosed from its
error tuple, an agent decides what to do about it inside a consent envelope, an
executor carries the decision out exactly once, and every decision is chained
into a ledger; webhooks tell it what has become of payments; an evaluation
harness runs the agent and its baselines against a simulated world and keeps
account of every look at the held-out split.

This directory models the parts of it whose correctness depends on order,
concurrency, failure and limits, checks them with TLC on small instances and
proves the most important results with TLAPS for every value of the constants.
Paths below are relative to the package, `src/src/reclaimos/`.

## 1. Inventory

### How the parts meet

```
 gateway ──webhook──> live/webhook_receiver ─> ingest/webhook ─> store/events
                                                                     (table)
 generator/* ─> records ─> eval/harness.run_record <──────> policy/agent.decide
                              │   (safety envelope)            │ diagnose/*
                              v                                v policy/timing
                        generator/outcome_model          policy/hitl (queue)
                        (the world answers)

 cli gen ─> generator/generate ─> dataset files, manifest
 cli eval ─> eval/runner ─> eval-<split>.json, then held-out-reads.log
 cli report ─> EVAL.md (the run, and the number of reads in the log)
 cli live probe | seed | reconcile ─> live/client ─> gateway's sandbox
                                          └─> live/recorder (transcript)

 caller ─> policy/mandate.authorize ─> policy/executor ─> store/idempotency
                                             └──────────> gateway
 caller ─> store/ledger.append ─> store/db (SQLite, WAL, synchronous=NORMAL)
```

Nothing in the package yet wires the recovery loop to the executor, or the
executor to the ledger: the harness asks the world directly, and the executor is
driven by its callers. The parts share only SQLite files (through `store/db`),
the mandate and the idempotency key; the commands `gen`, `eval` and `report`, and
the live ones, share only files. The models are cut along the same lines.

### Components, their state and operations, what is hard, what must be true

| component | state | operations | what is hard | what makes it correct |
|---|---|---|---|---|
| **Executor** `policy/executor.py` | none of its own; a request and a gateway answer on the stack of each caller | `build_charge`, `execute_charge`, `execute_contact` | several threads deliver one action; the process dies or an error leaves between claim, gateway and result; the loser reads while the winner is still on its way | one gateway call per key, true results and receipts, nothing refused burns a key, every call returns |
| **Mandate** `policy/mandate.py` | per-process secret; the signed token | `authorize`, `verify`, `ChargeRequest` | time passes between authorising and executing; a caller may name another mandate | no charge outside amount, method and time of the mandate it was authorised against |
| **Idempotency store** `store/idempotency.py` | table key → result | `claim`, `record_result`, `get` | the PRIMARY KEY decides races; a power loss undoes commits | a key is claimed once; a result is written once |
| **Decision ledger** `store/ledger.py`, `store/canonical.py` | append-only table, each row hashed over its predecessor | `append`, `verify`; `head`, `entries`, `count`, export | writers race for the head; a statement fails inside the transaction; a power loss; a forger | the chain never forks, holds what `append` returned, and shows an edit of what its hashes cover |
| **Webhook ingestion** `ingest/webhook.py`, `ingest/signature.py` | none | `verify_signature`, `parse`, `derive_event_id`, `ingest`, `_reject` | at-least-once delivery, with and without an id header; bad deliveries next to good ones | no event is merged into another's row, none counted twice, nothing unsigned becomes a fact |
| **Event store** `store/events.py` | append-only table with UNIQUE event_id | `append`; `get`, `all`, `for_subscription`, `count` | two redeliveries race to the INSERT | one row per id |
| **Webhook receiver** `live/webhook_receiver.py` | delivery log | `do_POST`, `ReceiverState.record`, `do_GET` | it may die between row, log and answer | what is acknowledged is on record, and the log accounts for the table |
| **Recovery agent** `policy/agent.py`, `policy/config.py`, `policy/timing.py` | its configuration | `decide` over `_charge_budget`, `_retry_target_hours`, `_stop`, `_act` | four gates in order, a ladder, a payday, a planned moment that is not now | never proposes what the mandate forbids, asks a human first, does not charge after outreach, terminates |
| **Diagnosis** `diagnose/classifier.py`, `diagnose/propensity.py`, `domain/decline_codes.py` | none | `classify`, `score` | error tuples shared by soft and hard declines | an ambiguous decline costs attempts |
| **Evaluation harness** `eval/harness.py` | the history of one record | `run_record`, `compute_oracles`, `run_policy`, `run_oracle` | an unbounded loop around any policy, with the safety envelope inside | every charge is inside the mandate when it is made, every record ends |
| **Baselines** `eval/baselines.py` | none | four `decide`s | — | they stop |
| **Review queue** `policy/hitl.py` | pending and decided items | `submit`, `approve`, `reject`, `gated_paise` | it outlives a run and keys its items by a fresh id | submitting is instead of executing; one item for each escalation, whatever becomes of it |
| **World and ceiling** `generator/outcome_model.py` | the truth and the draws of each record, fixed by its seed | `success_probability`, `resolve`, `oracle_recovers` | the ceiling tries fewer actions, on a coarser grid, than policies may | policies share their luck; the ceiling is beaten only from beyond its reach |
| **Held-out read log and evaluation run** `eval/runner.py`, `cli.py` | run files, the log of reads | `evaluate`, `write_run`, `record_holdout_read`, `holdout_read_count` | a crash between the scored run and its log line; rows of one `gen` under the manifest of another | looks are logged, EVAL.md counts its own run, a checksum names what was scored |
| **Dataset generator** `generator/generate.py`, `profiles.py` | five files | `build_dataset`: `generate`, `split_records`, `write_records`, `write_world` | a crash between files; regeneration in another size or with another share | a complete `gen` repairs a cut one; no record is seen on both sides |
| **Explainer and redaction** `diagnose/explainer.py`, `redact.py` | none | `explain` | a language model that fails or invents | fails closed to a template |
| **Live client, recorder, reconciliation** `live/client.py`, `recorder.py`, `reconcile.py` | the transcript; `seeded.json`, `reconciliation.json` | `probe`, `seed`, `reconcile` over `_call`, `record`, `write_json` | a POST that times out may have acted; a death between the answer and its line, or inside a line; a power failure, as nothing is synced; commands side by side, two of which may write one file | the transcript accounts for what the sandbox has made; artefacts say what recorded answers said |
| **Metrics and costs** `eval/metrics.py`, `costs.py` | none | `compute`, `exceptions`, `cost_of` | recoverability comes from the ceiling, computed before | books balance, and every policy has the same denominator |
| **Report** `eval/report.py` | none | text | — | arithmetic |
| **Money, settings, command line** `money.py`, `config.py`, `cli.py` | none | arithmetic, environment, presentation | — | — |

The hazards of this code, each at its line with the properties that would catch
it, are the list `hazards` of PROJECT.json.

## 2. Plan

Most important behaviour first: money, then the record of it, then what comes
in from outside, then the decisions.

1. **Money path**: `OnceOnly` (abstract), `MoneyPath`, `MoneyPathProperties`,
   `PowerLoss` (extends it), `MoneyPathProofs`, `PowerLossProofs`. *Done.*
2. **Ledger**: `DecisionLog` (abstract), `Ledger`, `LedgerProofs`. *Done.*
3. **Ingestion**: `Inbox` (abstract), `Ingest` (webhook, event store and
   receiver in one: they share each delivery), `IngestProofs`. *Done.*
4. **Recovery loop**: `RecoveryLoop` (agent, diagnosis, harness, baselines, one
   review item), `RecoveryLoopProofs`. *Done.*
5. **Held-out discipline**: `HeldOut` (gen, eval and report over their files),
   `HeldOutProofs`. *Done.*
6. **Evaluation**: `World` (probabilities, draws, the ceiling's options) and
   `Evaluation`, which composes it with `RecoveryLoop`: ceilings, every policy over
   every record, metrics, and the review queue that outlives the evaluation.
   `EvaluationProofs`. *Done.*
7. **Live slice**: `Live` (three commands, the client, the recorder, the
   reconciliation), `LiveProofs`. *Done.*
8. A composition of agent, executor and ledger would be worth having only if callers
   of that kind appear in the package; until then it would model code that does not
   exist.

## 3. Modules and the code

`map` in PROJECT.json gives the lines of every definition. The correspondence
in outline:

### MoneyPath — `execute_charge`, `execute_contact` over mandate and idempotency

| variable | in the code |
|---|---|
| `pc`, `request`, `answer`, `reply` | a thread's position in the executor, its `ChargeRequest`, the `GatewayResult` it holds, the receipt or exception it ended with |
| `claimed`, `result` | rows of the table `idempotency` and their `result` column |
| `presented` | what the gateway was asked to do; the gateway is external |
| `now` | the clock `authorize` compares with the mandate's expiry |

| action | in the code |
|---|---|
| `BuildCharge`, `RefuseCharge`, `BeginContact` | `build_charge` (which calls `authorize`) or the start of `execute_contact` |
| `ClaimWon`, `ChargeClaimLost`, `ContactClaimLost` | `claim`: one INSERT, or its IntegrityError |
| `ReadPrior` | `get` and the replayed receipt |
| `Present` | `gateway.charge`, `gateway.contact` |
| `RecordResult` | `record_result`: UPDATE … WHERE result IS NULL, or `ResultAlreadyRecorded` |
| `StoreBusy`, `GatewayRaises`, `Crash` | `OperationalError` after busy_timeout; the gateway raising, having acted or not; the process dying |

A statement of SQLite is an atomic step, and anything can happen between two of
them. The token's HMAC is abstracted to the fields it covers (it is unforgeable
and dies with its process). A charge is authorised for any moment, as
`build_charge`'s `at` allows: later, now, or past (`backdated`). It is authorised
against the mandate of its record or against one that the caller names
(`Envelopes`), since `build_charge` takes a `mandate` and neither the token nor the
`ChargeRequest` says whose mandate it was. So the envelope that `WithinEnvelope` speaks
of is that of the mandate the charge was authorised against, which each
presentation carries with it; that it was the subscription's own is nothing the
code promises, and no property says so.

`PowerLoss` adds `store/db.py`'s pragmas: every write of the store is a commit
in the write-ahead log, `Checkpoint` forces them to disk, `LosePower` kills every
process and brings back a prefix of the commits since.

`OnceOnly` is the promise of ADR-0004 without stores, workers or clocks: an
action is taken once, performed at most once, and what is reported of it is that
performance, for good. The refinement maps `taken` to the claimed keys, `effects`
to what the gateway has seen for each key, `reported` to the result column.

### Ledger — `store/ledger.py`

`append` statement by statement: `BeginAppend` / `RefusePayload`
(canonical_json), `BeginImmediate` / `GiveUp` (BEGIN IMMEDIATE, busy_timeout),
`ReadHead`, `Insert` (with UNIQUE entry_hash), `Commit`, and, as steps of their own
after it, `Return` (the `LedgerEntry` is made and returned) or `ReturnRaises`; `Abort`
(the except clause), `Crash`; `Checkpoint` and `LosePower` as above. Between COMMIT and
return anything may happen: another append commits and returns first, or this one
never does and its row stays. `Edit` is somebody with the file in an editor, who
rewrites any column of a row, deletes it, or moves it by another `seq`. A row's
`stamp` stands for the columns no hash covers (`recorded_at`, and `seq` while the row
keeps its place), and `edited` says whether an edit was of that only (`stamp`), of the
last row, or of an inner one. `Breaks` is `verify`. A digest is modelled by what it
commits to: the sequence of bodies hashed into it, so equal digests are digests
of equal bodies (SHA-256 taken as collision-free), and a string that is no
digest of anything the model hashed is a sequence with `Forged` in it.

`DecisionLog` is the ledger's promise without writers, locks or digests: decisions go
on record one after the other (`Decide`), and each owes its caller a receipt for the
whole history up to it, which comes soon or late (`Receive`) or never (`NeverHeard`);
what is durable is not undone (`Keep`, `Forget`); verification is content until somebody
touches the record, and after that only receipts are promised to stand. The
refinement maps `history` to the bodies of the table, `durable` to the rows a
checkpoint has saved, `owed` to the rows of writers between COMMIT and return,
`receipts` to the hashes `append` has returned, `touched` to an edit having happened
and `verified` to `Breaks` being empty. That an `append` that raised before COMMIT
leaves no trace, that a receipt tells of its own decision and those before it even
when later ones are on record already, and that power losses undo the newest rows
first, are steps of it.

### Ingest — receiver, `ingest`, `EventStore.append`

`Parse` is `verify_signature`, `json.loads`, the envelope check and
`derive_event_id` (or `_reject`); `Raise` the exceptions that leave `ingest`. A
signature is good, bad, or `foreign`: not ASCII, which `hmac.compare_digest` answers
with a TypeError;
`Insert` / `InsertLoses` the INSERT and the read-back after UNIQUE refuses it;
`Record` the line of webhooks.jsonl; `Respond` the 200 or 400; `Die` everything
that ends a handler early. A row keeps, besides its columns, which event it is
about: that is what the properties compare. Bodies matter by kind (an event,
malformed, one that cannot be stored) and by whether they tell two events apart
(a timestamp and an entity id). The id header arrives, is missing, or, for the
events in `Nameless`, arrives empty. `Inbox` is the promise to the sender:
recorded for good, acknowledged only when recorded; the endpoint keeps it for all
events that are not `Nameless`.

### RecoveryLoop — `run_record` with each policy

One behaviour is one record under one configuration and one policy. `decision`
is `Policy.decide`: `AgentDecision` in the order of the gates (window, charge
wanted, mandate, human, outreach, stop), or a baseline's. The actions of the loop
are the ways an iteration of `run_record` ends: `Stop`, `Escalate`, `AttemptCap`,
`WindowClosed`, `Blocked`, `Charge`, `Contact`; `Review` is an operator with the
queue. The world answers either way wherever its probability is not zero
(`CanSucceed`). Times are whole hours; a record's payday is the hour its month
turns; the propensity score is abstracted to the number of attempts after which
it is below the floor (`patience`); record and configuration are drawn from sets,
so the theorems hold for all of them.

### HeldOut — `gen`, `eval`, `report` and their files

| variable | in the code |
|---|---|
| `rows`, `world`, `manifest` | `<split>.jsonl`, `<split>.world.json`, the digests in manifest.json |
| `runs`, `log`, `eval_md` | `eval-<split>.json`, the lines of held-out-reads.log, EVAL.md |
| `readable` | which files are there and parse |
| `pc`, `asked`, `run` | the command that runs, what `gen` was asked for (seed, `--n`, `--test-fraction`), the `EvalRun` in memory |
| `cut`, `looks`, `looked` | history: has the last `gen` ended, which runs were written out, of which records |

`Gen`, `WriteRecords`, `WriteWorld`, `WriteManifest` are `build_dataset` file by
file; `MixOfNothing` is its division by zero when `--n 0` is given. `Evaluate` reads
the dataset and scores it, `WriteRun` and `RecordRead` are the two writes `eval_cmd`
makes in that order; `WriteReport` is `report`. The commands that raise before they
write anything are actions too. A command dies between two files (`DieBetween`),
within one that then does not parse (`DieWriting`), within a line of the read log
(`DieLogging`), or within a jsonl file at the end of a line, which parses as fewer
records (`DieBetweenLines`). `report` writes one file that the next `report`
replaces: its death in the middle is left out. A record is its seed and its index,
as a longer dataset of one seed begins with the shorter one; `split_records` is
modelled in full, with `HashOf` for the order of the digests and `round` for
Python's. The held-out share is part of what each `gen` is asked for, in tenths; the
code has a float, which is 0.30 by default.

### World and Evaluation — `evaluate` over harness, world, metrics, queue

`World` has the tables and the arithmetic of `success_probability` in
ten-thousandths, rounded down after each factor, where the code has floats; times
are half hours, so that all delays of the ceiling's grid are whole. What the code
samples from a record's seed (when funds return, when an outage ends, intent, the
draw of each slot) is a `WorldRecord`, any of a set.

`Evaluation` extends `RecoveryLoop`: the loop's variables are those of the record in
hand, and its actions appear inside `Halts` and `Acts`, where the world's free
choice is replaced by the draw of the slot.

| variable | in the code |
|---|---|
| `turn`, `row` | the loops of `evaluate`, `run_policy`, `run_oracle`: ceilings first, then each policy, then the ceiling's score |
| `ceiling` | `oracle_recovers` for each record, slot by slot (`OracleSlot`, `OracleMisses`); `best` is the probability of each choice |
| `cost`, `predicted` | what `run_record` adds up, and the prediction of its first decision |
| `ends`, `books` | the outcomes, and each `PolicyMetrics` as sums; `Enter` adds one outcome's `Share` |
| `shelf` | the `ReviewQueue`, which a second evaluation with the same agent finds as the first has left it |

### Live — the commands `probe`, `seed`, `reconcile`

A command is a `Programme` of calls. `Begin` / `Call` send a request and choose how
it ends (`ok`, `refused`, `unclear`, `lost`); `Record` appends the line and goes on, or
raises when the request did; `EndProbe` ends a command that writes nothing, and the
others `Truncate` their artefact and then write it (`WriteSeeded`, `WriteReport`), as
`write_json` does: in between it is empty, and of two commands in one file the second
to write may leave a mixture of both texts (`Overwrites`).
Commands run side by side over one transcript. `TearLine` is a process killed, or a
disk full, inside a line: it stays without its end, and the next one becomes a part
of it (`ragged`); `TearArtefact` is a death inside `write_json`; `Die` any other.
`PowerFails` ends all commands at once and takes any lines of the transcript with it,
those of commands long ended too, since the recorder never syncs; what it took is
remembered in `gone`. The sandbox (`Acts`, `Made`) may act without saying so; `Pay` is
the payer of a link.

## 4. Runs

| run | what it asks | bounds | result |
|---|---|---|---|
| `money_path` | 5 invariants, that claims settle, the refinement of `OnceOnly` | 2 threads, 1 subscription, 1 attempt, a charge and a contact key, 3 calls, 2 faults, clock 0..1, two mandates to authorise against (the subscription's: cap 1, card, ends at 1; a named one: cap 2, another method, ends at 0), amounts 0, 1, 2 (about 421,000 states) | holds |
| `power_loss` | how much a power loss can repeat, and that what survives is true | 2 threads, 1 charge key, 2 mandates, 4 calls, 1 fault, 2 losses (about 52,000 states up to the symmetry of threads) | holds |
| `ledger` | chain, forgery, that appends end, the refinement of `DecisionLog` | 2 threads, 2 bodies, 3 appends, 1 fault, 1 loss, 1 edit (about 900,000 states) | holds |
| `ingest` | redeliveries and rejections, the log against the table, that handlers return, refinement of `Inbox` | 2 handlers, 5 events with 4 bodies, 2 of them nameless, 3 deliveries, 1 death (about 891,000 states) | holds |
| `recovery_loop` | envelope, budgets, outreach, ambiguity, humans, termination | 1512 records × 4 set-ups × 5 policies, the limits of the code (8 slots, 720 hours; about 111,000 states) | holds |
| `held_out` | the log of looks, the report's count, checksums, repair, the seal | 5 datasets: one seed with sizes 3 and 5 and shares 0.3 and 0.6, another with size 5 and without records; 5 commands, 2 deaths (about 3,825,000 states) | holds |
| `evaluation` | the ceiling's limits and reach, common luck, balanced books, the queue | 4 splits of 2 records, 13 truths for each, 5 policies, with a queue and without, ceiling of 4 actions, 2 evaluations (about 153,000 states) | holds |
| `live` | transcript against sandbox, artefacts against transcript | 2 operators, 1 endpoint to probe, 4 calls, 2 payments of 3 kinds, a page of 1, 1 death or power failure, at most one answer other than ok (`MaxUnsure`, a state constraint) besides those that a fault took (about 2,667,000 states up to the symmetry of operators) | holds |
| `replay_before_it_ran` | "A lost claim means this exact logical action already ran" | 2 threads, 1 charge key, 2 calls, no fault | violated |
| `charge_after_expiry` | "a mandate can expire in the gap" and execution re-verifies | 1 thread, 1 charge key, clock 0..2, mandate that ends at 1, no fault | violated |
| `double_charge_after_power_loss` | "Duplicate charges become structurally impossible" | 1 thread, 1 charge key, 2 calls, 1 loss | violated |
| `resized` | "the held-out split cannot quietly absorb data we have already looked at" | 2 seeds, sizes 3 and 5, one share, 4 commands, no death | violated |

**Why the bounds are enough.** Keys do not interact, so races need two threads on
one key; three calls give a winner, a loser and a later replay; two faults let a
crash follow an error; the named mandate permits what the subscription's own forbids
and the other way round. Two losses show that repeats add up. In the ledger three
appends make a row with two successors, so that an inner edit, an append above it
and a loss all occur in one behaviour, and two threads return in the other order
than they have committed. Three deliveries give an event, a
redelivery and an interloper; a nameless event whose body tells it apart and one
whose body does not meet events with a header. In the evaluation the draws make
every slot from the first to the fifth the one that hits, for likely and for
unlikely actions, so that the ceiling is met, missed and beaten; two evaluations
make the queue keep the items of the first beside those of the second. Four calls
give a whole seed and a reconciliation beside it, or two reconciliations with
different listings; a page of one makes a listing cut off a payment; one power
failure takes the three lines of a seed that has ended. That only one answer is not ok
leaves every way of being unsure alone and beside a fault; the theorem has any
number of them. In the recovery loop every branch of the
classifier, the ladder, the payday rule and the gates is taken by some record:
mandates that have lapsed, run out within the ladder, or last; amounts below,
at and above the mandate and the review threshold; set-ups that fit the harness's
limits and ones that do not. Five commands let a `gen` die, an `eval` score what it
left, a second `gen` follow and both sides be scored; sizes 3 and 5, and shares 0.3
and 0.6 of one size, move the boundary of the split past a record, and five times 0.3
is a half to be rounded. Within these bounds runs are exhaustive, and the
theorems of section 5 do without them.

**Fairness.** `WF` on each thread's own steps, nothing else. A thread inside a
store call returns or raises within busy_timeout and the gateway call answers or
raises (`MoneyPath`, `Ledger`); a handler's thread goes on (`Ingest`); `run_record`
is one thread over total calls (`RecoveryLoop`). `HeldOut`, `Live` and `Evaluation` have
none: their commands are given by hand, and they state no liveness property; that
each record of an evaluation ends is `EveryRecordEnds`. No fairness is assumed of callers
beginning calls, of faults, of the clock, of checkpoints or of operators looking
at the review queue. `GiveUp` in `Ledger` is what makes it enough: a writer
behind a held lock leaves with an error and needs nobody.

**Deadlock** is not checked: every module bounds what callers begin, or ends with
its record, so behaviours come to rest; that nobody is stuck in the middle is
what `ClaimsSettle`, `AppendsEnd`, `HandlersReturn` and `EveryRecordEnds` say.

## 5. Proofs

All theorems hold for any number of threads, keys, bodies, events, records,
configurations and for any value of the bounds. They use the named ASSUMEs of the
modules, which TLC evaluates in every run.

**`MoneyPathProofs`.** `AtMostOnce` is not inductive: a gateway call is new only
because its worker has *won* its key and nobody else can have. The invariant is
`Typed /\ Claims /\ Truths`: a held key is claimed and its result still empty; a
key that is won has not been presented; no two workers hold one key; whatever was
presented or recorded was claimed. From it: `ActionsHappenAtMostOnce`,
`RecordedResultsAreTrue`, `ReturnedReceiptsAreTrue`, `RecordIsNeverRefused`, and
`ExecutorImplementsOnceOnly` step by step; `ReceiptsNeverDisagree` puts truth and
uniqueness together. `ChargesStayWithinEnvelope` has an
invariant of its own: requests in workers' hands are authorised as they stand, by
the mandate they were signed against, whichever of `Envelopes` that was.
`KeysAreSpentByFaults` counts: the keys without a result in nobody's hands are
finitely many, and a step adds at most the key of the one worker that a fault has
sent back to idle, in the step that counts the fault. `EveryClaimSettles` follows one
worker from its claim to the result (liveness, below).

**`PowerLossProofs`.** A power loss takes the claims away, and `AtMostOnce` with them.
What is left is counted per key (`Counted`): presented at most `losses + 1` times, and
one time fewer while it is unclaimed or won and not presented yet, since presenting
it is what is still to come. `WhatSurvivesIsTrue` needs every state in the
write-ahead log, not only the current one, to be true of what the gateway has done
(`Walled`); it stays true because the gateway's record only grows. Of the theorems
about the executor, those that do not count presentations hold here as well:
`RepeatsStayWithinEnvelope` (a repeated charge is an authorised one) and
`ReceiptsStayTrue`. `OnlyPowerLossForgets` says what the store may never do, and
`NoLossNoDifference` that with `MaxLosses = 0` this module implements `MoneyPath`, so
that the power loss alone is to blame for what `double_charge_after_power_loss` shows.

**`LedgerProofs`.** `ChainVerifies` needs that the head a writer has read is still
the head when it commits (`Linked`), which needs that a transaction is alone
(`Exclusive`). `Whole` says that a table edited in stamps only still verifies, and
`InnerEditsShow` needs for all other inner edits a break among the rows that are
safe on disk (`Scarred`), since a power loss may cut off the others; a lemma says
that whether row *i* is a break depends on rows *i-1* and *i* only.
`KeptHashesAnchor` is induction along the table, made of the first row whose hash is
not that of the bodies up to it (`FirstOfNumbers`, from `WFMin`); `HeadsCommit` uses
it for two tables, whose heads are then the digests of all their bodies.
`LedgerImplementsDecisionLog` needs, before an edit, that a commit adds to the head
that was read (`Linked`) the body its caller gave (`Genuine`), and that the row of a
writer between COMMIT and return is still at its place and owed to that writer alone
(`Placed`), whatever has been committed since; after it, only that `returned` grows
at its end. `TableIsHistory` is about table and returned entries alone, without
losses and edits: each entry returned is the row at its `seq`, none is returned
twice, and the rows nobody was told of are counted against the errors and deaths
(`Accounts`), as one death between COMMIT and return leaves one. No run repeats it.

**`IngestProofs`.** The invariant `IdsTold` is about rows in the table *and on their
way to it*: each has one of five shapes, and two with the same id are about the
same event unless the id is the empty one, which nameless events share.
`NoEventCollapses` and `EndpointImplementsInbox` follow. `RowsDoNotRepeat` needs that
the shape of a verified row is that of a delivery in `seen`.
`TheLogAccountsForTheTable` counts rows without a line: a step adds one only by a
row whose handler is then at `stored`, and takes a handler away from there only
with a line or a fault. `EveryHandlerReturns` is its liveness.

**`RecoveryLoopProofs`.** `Outreached` — after a contact the agent would not charge
— is inductive because class, budget and propensity depend on attempts, which then
stand still, and the earliest next charge only moves away from an expiry already
passed. `Timely` — elapsed time leaves room for the slots still to come — gives
`AgentNeedsNoStopping` for set-ups with `Fits(config)`: budgets that add up to no
more than `MAX_SLOTS` and delays that end before the write-off. The frozen
configuration fits; the bounds of `AgentConfig`'s fields admit ones that do not,
and those the harness does stop. `MandateBoundsCharges`,
`ContactIsTheEndOfCharging`, `HardRetriesAreTheFloor` and `HumansComeFirst` come
from the same invariant. `PoliciesKeepTheirBudgets` is stricter than the harness's
caps: each policy stays within its own configuration, and an agent one attempt short
of it where a decline may be hard; the baselines need that their clock is
`24 * slot` (`Plain`). `IterationsAreCounted` is the variant of the loop, and
`EveryRecordEndsInTime` goes up it slot by slot.

**`HeldOutProofs`.** `HeldInv` says how far `gen` has come (`Written`), which is
what its end makes `CompleteMeansConsistent` of; that a run in hand, and each run on
disk, quotes what it scored unless its dataset was cut (`Checksummed`); the count of
looks against lines and deaths (`Logged`) and the number of each run among the looks
(`Numbered`), which give `LooksAreCounted` and `ReportsAreHonest`; and that every
record seen on a side was put there by the split of some dataset asked for
(`Sided`). `SealHolds` follows because a split's sides are disjoint and a record
tells its seed: it holds as long as one seed is asked for in one size and with one
share only, and `resized` and section 6 say what happens otherwise.
`SplitIsExactAndDisjoint` is about the algorithm: the places of the records are an
injection into `0 .. n - 1` (a smaller hash has a strictly smaller set below it),
hence a bijection, so exactly `round(n * share)` of them are below the boundary,
which is within `0 .. n`.

**`EvaluationProofs`.** The loop's invariant of `RecoveryLoopProofs` goes on under the
evaluation: `Halts`, `Acts` and `ReviewInHand` are steps of the loop's `Next`, and `Score`
starts it again. On it stand four more. `CeilingInv`: what the ceiling chose was
the best of what it was permitted, and each choice but a winning one lost its
draw; that a best option exists is `LeastOf`, a least element of a set of naturals
by well-founded induction (`WFMin`), applied to the order of options. `QueueInv`:
items and ended records tell of the same escalations; only the record in hand may
have an item that is not on the shelf yet. `BooksInv`: each metric is the sum of
the shares of the records so far, stated with partial sums along the split
(`AddsUp`), so that "the same achievable money" is two equal sums of equal terms.
`LuckInv`: a policy that only retries is, until its first draw, where the other one
was, so both meet `FirstRetryWins` of the same record or neither does.
`CeilingIsBeatenFromBeyond` puts `CeilingInv` and `LuckInv` together: what recovered
was likelier than the draw, the ceiling's choice for that slot was not.

`EvaluationsAreLoops` says that the composition is one: seen through the loop's
variables an evaluation is a sequence of behaviours of `RecoveryLoop`, each begun by
its `Init` when the one before has ended. So `LoopPromisesHoldInEvaluations` carries
the results about one record over to all of them. `EvaluationsGetDone` is the variant
of `evaluate`: every step of its own moves it on, within a limit, lexicographically by
evaluation, policy, record and slot, and no operator moves it back.

**`LiveProofs`.** Besides types: every answer in a command's results has a line that
was recorded, in the transcript or among those a power failure has taken (`gone`;
`RecordedBeforeWritten`), and a listing's answer shows a prefix of payments that only
grow behind it. `TranscriptIsEvidence` bounds the objects that no line explains by two
for each command that died and for each line that a power failure took: one whose
answer died with its command, one whose line was lost to a torn one, and those that
the lost lines told of. The count works because a torn line spoils at most one later
line, which `ragged` remembers, and because no two lines or hands tell of one object
(`OneEach`, `Apart`), so that what a failure hides is no more than what it took.

**Liveness.** The runs check `ClaimsSettle`, `AppendsEnd`, `HandlersReturn` and
`EveryRecordEnds` under the `WF` of `FairSpec`. The provers know nothing of ENABLED, so
the theorems assume what that fairness gives, with the guard written out: `[]AllGoOn`,
where `GoesOn(w)` is that thread *w* is idle some time or takes a step of its own some
time. The lemmas `WeakFairnessGoesOn` derive it from `WF` and from a step being enabled
wherever the thread is not idle, which is the one thing left to TLC. The proofs then
are a chain of places: at each, a step of the thread's own leads to a later one, and
no step of another thread moves it. Where others can interfere the invariants say that
they do not matter: a writer behind a lock has `GiveUp`, a loser of a race its own
way out. `EveryRecordEndsInTime` assumes `MAX_SLOTS <= 8`, the value in the code
(`generator/outcome_model.py`): one step of the proof for each slot, as induction over
a temporal formula is not to be had; `IterationsAreCounted` holds for any value.

**Only model-checked**: that the steps of section 4's fairness are enabled;
`EveryRecordEnds` for `MAX_SLOTS` above 8. What the recursive functions of `World`
compute (`Decayed`) is not proved, as induction over data is out of the provers' reach;
the theorems hold whatever its values.

## 6. What the checks found

Four statements of the docs that the code does not keep; each is a run with a
counterexample, quoted in PROJECT.json `findings`:

1. A lost claim does not mean the action has run: the loser answers "already
   executed" before the winner reaches the gateway, and for ever if it never does.
2. Execution re-verifies the token's signature, not the clock: a request built in
   time is charged after the mandate has expired.
3. With `synchronous = NORMAL` a power loss can undo a claim whose charge has
   happened; the replay charges again, once per loss at most.
4. The side of a record depends on the size of its dataset: with more records of
   the same seed the boundary moves, and records already scored in train are
   scored in test.

Smaller observations made on the way, not checked as properties:

- Under the frozen configuration (`max_contact_actions` 2) a hard decline is asked
  twice, an hour apart; the knob's description says "One ask, not a ladder."
- Between `write_run` and `record_holdout_read` a death leaves a held-out result
  on disk that no line of the log records; every later report counts one less.
  Deaths are what `LooksAreLogged` allows for, and nothing else is.
- A `gen` that dies, or `gen --n 0`, which divides by zero after four files, leaves
  new rows under the old manifest; `eval` scores them and quotes the old checksum.
  A death within `write_run` destroys the previous run of that split.
- `contact_on_hard_decline` makes no difference to what is done: with it off, the
  fallback of `decide` sends the same link.
- The fields of `AgentConfig` admit 8 + 4 actions, more than `MAX_SLOTS`, whose
  comment says it is larger than any sane policy's total.
- Payday alignment can put successive retries one hour apart: the target does not
  move, and the delay to a target in the past is one hour.
- The command line builds its agent without a review queue, so that an escalation
  is queued nowhere. `hitl.gated_paise` says it is "Reported in EVAL.md as its own
  column"; the column is computed from the outcomes, which is why it is right
  without a queue.
- An `X-Razorpay-Event-Id` header that arrives empty is used as the id: all such
  events share the id `""`, and the second is acknowledged without a row, though
  `derive_event_id` promises to err "never toward a collapse". `Nameless` has them.
- A signed body that parses but cannot be stored (a date out of range, a float where
  paise belong) leaves `ingest` as an exception, whose doc says "Never raises for bad
  input". `Raise` has it: no row, no line, no answer.
- The ceiling is not one: it tries at most `max_attempts` (4) actions and only hours of
  its grid, the frozen agent up to five and the hour of a payday. What the agent
  recovers beyond it counts as a false positive and its cost as "money burned with no
  upside available, under any policy" (metrics.py:181), and the share of the
  recoverable money it captures may pass 100 %.
- "Hard cap on charge attempts per subscription before we halt" (config.py:31) and
  "Attempt cap: 4" (report.py:113) are about a setting that limits the ceiling only,
  and its contacts as well as its charges; policies are limited by their own budgets
  and by `MAX_SLOTS`.
- Nothing ties a charge's token to its subscription: the HMAC covers the terms of
  the mandate (its fingerprint), amount, method and time, but not whose they are. A
  caller may name another mandate than the record's, and the executor cannot tell.
  `WithinEnvelope` speaks of the mandate that was named. A moment that is past is
  accepted as `at`, too.
- "Editing any row changes its hash" (ledger.py:4-5) is not so for `recorded_at`, which
  `chain_hash` leaves out and `verify` does not look at: an edit of it never shows, as
  `ForgerMustRewriteTheTail` says of `stamp`.
- `append` commits before it makes the entry it returns: an error or a death in between
  leaves a row whose `append` never returned, and entries may be returned in another
  order than that of their rows.
- The share decides the side of a record as the size does: one seed and size
  generated with two values of `--test-fraction` moves the boundary, and a record
  scored in train is scored in test. `SealHoldsUnlessMoved` excludes both.
- A death inside the line of held-out-reads.log leaves a torn line, which later lines
  are appended to (`DieLogging`).
- The transcript is never synced: one power failure can take the lines of commands that
  ended before it, and with them the account of more objects than one death can.
- `write_json` truncates its file and then writes it: in between there is an empty
  file, and two commands that write one file at once may leave a mixture.
- A signature header that is not ASCII raises TypeError out of `ingest`, where the doc
  of `verify_signature` says that it returns False "rather than raising".
- `live reconcile` does not look at the status of the answer: after a 401 it replaces
  reconciliation.json by a report of no payments at all.
- A transcript line that is cut short takes the next line with it, and makes
  `read_transcript`, and so `live transcript`, raise for good.
- `live seed` writes seeded.json with missing ids when the sandbox has refused.
- The agent's own stop at the end of its window carries the harness's reason
  `RECOVERY_WINDOW_CLOSED`, and the two cannot be told apart afterwards.

## 7. Not modelled, and why

Randomness and distributions (profiles, sampling, bootstrap intervals): nothing in
them depends on order, and what they fix is arbitrary in the models. The propensity
score: it only falls with attempts, and what is kept of it is when it falls below
the floor. Rendering, wording, redaction patterns, money formatting, settings: no
state. The explainer: nothing in the package calls `explain`, so there is no order of
events around it to model; it keeps no state, and every failure of its model ends in
the same template (but for a `RecursionError` of the JSON parser, which is not among
the exceptions it catches). Composing executor, ledger and agent: the package has no
caller that does. SQLite itself is taken at its documentation: statements
are atomic, BEGIN IMMEDIATE excludes writers, a commit on WAL survives its
process. Cryptography is ideal: HMACs are not forged, digests do not collide.
Rates, medians and intervals are functions of the sums that are modelled. Two
hazards have no property: the idempotency key that does not name a billing cycle
(who numbers attempts is not in the package), and an empty retry ladder, which makes
the first decision raise (excluded by `ConfigsAssumption`). A third, set-ups with more
actions than `MAX_SLOTS`, is in the `recovery_loop` run, but `HarnessNeverIntervenes`
leaves it out (`Fits`): there the cap does stop the agent.

## 8. Running

`tlc -config X.cfg M` for the pairs in PROJECT.json `runs`, and `tlapm M.tla` for
the eight `*Proofs` modules. Operators marked "Mutant:" are plausible bugs kept
next to the definition they would replace; each property is violated when its
mutant takes that definition's place, which shows that the property depends on
the code being as it is.
