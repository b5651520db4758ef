---------------------------------- MODULE Live ----------------------------------
(***************************************************************************)
(* The live slice: the commands probe, seed and reconcile of cli.py over    *)
(* live/client.py, live/recorder.py and live/reconcile.py.  Each command is *)
(* a process that calls the gateway's sandbox, one call after the other;    *)
(* all of them append to one transcript.  A call is not idempotent and has a*)
(* timeout; a process may die between two steps, or in the middle of a      *)
(* write, and the power may fail, which takes lines that were written: no   *)
(* file is synced.  The sandbox and the payer of a link are external.       *)
(***************************************************************************)
EXTENDS Naturals, Sequences, FiniteSets

CONSTANTS
  Operators,      \* those who give commands, each one at a time
  PROBE_PATHS,    \* the endpoints that probe asks for
  Envelopes,      \* the error envelopes that payments carry
  Payment,        \* the payments that may be made: a status and an envelope
  Carries,        \* envelope -> the expected fields that are not empty in it
  DECLINE_CODES,  \* the envelopes whose tuple the taxonomy contains
  Page,           \* how many payments a listing shows (100)
  MaxCalls,       \* bound: calls to the sandbox
  MaxPayments,    \* bound: payments at the sandbox
  MaxFaults       \* bound: commands that die by themselves and power failures

EXPECTED_FIELDS ==
  {"error_code", "error_source", "error_step", "error_reason", "error_description"}

ASSUME OperatorsAssumption == IsFiniteSet(Operators)
ASSUME PathsAssumption == PROBE_PATHS \in Seq(STRING) /\ Len(PROBE_PATHS) > 0
ASSUME EnvelopesAssumption ==
  /\ Carries \in [Envelopes -> SUBSET EXPECTED_FIELDS]
  /\ DECLINE_CODES \subseteq Envelopes
  /\ Payment \subseteq [status : {"failed", "captured"}, envelope : Envelopes]
ASSUME LiveBounds ==
  /\ Page \in Nat \ {0} /\ MaxCalls \in Nat /\ MaxPayments \in Nat
  /\ MaxFaults \in Nat

(* What a command calls, in order.                                          *)
SeedPaths == <<"/customers", "/orders", "/payment_links">>
Programme ==
  [probe |-> PROBE_PATHS, seed |-> SeedPaths, reconcile |-> <<"/payments">>, none |-> <<>>]
Commands == DOMAIN Programme
Paths ==
  {"", "/payments"} \cup {SeedPaths[i] : i \in 1 .. 3}
    \cup {PROBE_PATHS[i] : i \in 1 .. Len(PROBE_PATHS)}
Posts(command) == command = "seed"

(* An object of the sandbox, known by the call that made it.                *)
Object == [path : Paths, call : Nat]
NoObject == [path |-> "", call |-> 0]

(* How a call ends.  refused: a 4xx; unclear: a 5xx, or a body that is no   *)
(* JSON; lost: a RequestException, a timeout for one.  listed is the number *)
(* of payments there were when the sandbox answered a listing of them.      *)
Status == {"ok", "refused", "unclear", "lost"}
Answer ==
  [call : Nat, path : Paths, status : Status, object : Object \cup {NoObject}, listed : Nat]
NoAnswer == [call |-> 0, path |-> "", status |-> "lost", object |-> NoObject, listed |-> 0]

(* What a file of live/ is like, and what it says if it was written whole.  *)
(* empty: truncated, to be written; torn: a part, or a mixture of two texts.*)
File(contents) == [text : {"absent", "empty", "torn", "written"}, says : contents]
Ids == [1 .. 3 -> Object \cup {NoObject}]
NoIds == [i \in 1 .. 3 |-> NoObject]
Report ==
  [observed : SUBSET Nat, matched : SUBSET Envelopes, unmodelled : SUBSET Envelopes,
   fields_missing : SUBSET EXPECTED_FIELDS]
NoReport == [observed |-> {}, matched |-> {}, unmodelled |-> {}, fields_missing |-> {}]

(* A line of the transcript; whole is FALSE when it cannot be parsed.       *)
Line == [answer : Answer, whole : BOOLEAN]

VARIABLES
  objects, payments,     \* the sandbox
  doing,                 \* operator -> the command that runs
  results,               \* operator -> the answers its command has returned with
  answer,                \* operator -> the answer that is not recorded yet
  writing,               \* the commands that have truncated their artefact
  transcript, ragged,    \* the lines of transcript.jsonl; does the last one lack its end?
  gone,                  \* history: the lines that power failures took
  seeded,                \* seeded.json
  reconciliation,        \* reconciliation.json
  issued,                \* counts the calls
  faults, outages        \* count the commands that died and the power failures

liveVars == <<objects, payments, doing, results, answer, writing, transcript, ragged, gone,
              seeded, reconciliation, issued, faults, outages>>
sandbox == <<objects, payments, issued>>
log == <<transcript, ragged, gone>>
artefacts == <<seeded, reconciliation>>
losses == <<faults, outages>>

Init ==
  /\ objects = {} /\ payments = <<>>
  /\ doing = [p \in Operators |-> "none"]
  /\ results = [p \in Operators |-> <<>>]
  /\ answer = [p \in Operators |-> NoAnswer]
  /\ writing = {}
  /\ transcript = {} /\ ragged = FALSE /\ gone = {}
  /\ seeded = [text |-> "absent", says |-> NoIds]
  /\ reconciliation = [text |-> "absent", says |-> NoReport]
  /\ issued = 0 /\ faults = 0 /\ outages = 0

-------------------------------------------------------------------------------
(* reconcile.py.                                                            *)

Has(payment, field) == field \in Carries[payment.envelope]

(* Mutant: an envelope is one only with a code.                             *)
ObservationsWithCode(n) ==
  {i \in 1 .. n : i + Page > n /\ Has(payments[i], "error_code")}

(* observations_from_payments, of the listing of the first n payments.      *)
Observations(n) ==
  {i \in 1 .. n : /\ i + Page > n
                  /\ payments[i].status = "failed" \/ Has(payments[i], "error_code")}

reconcile(observed) ==
  LET seen == {payments[i].envelope : i \in observed}
  IN [observed |-> observed, matched |-> seen \cap DECLINE_CODES,
      unmodelled |-> seen \ DECLINE_CODES,
      fields_missing |-> {f \in EXPECTED_FIELDS :
                            observed # {} /\ \A i \in observed : ~Has(payments[i], f)}]

clean(report) == report.unmodelled = {} /\ report.fields_missing = {}

(* The report of an answer: what is not a listing has no items.             *)
ReportOn(a) == reconcile(IF a.status = "ok" THEN Observations(a.listed) ELSE {})

-------------------------------------------------------------------------------
(* The sandbox, external.                                                   *)

(* It may have acted without an answer that says so, and never if it refused.*)
Acts(status) ==
  CASE status = "ok"      -> {TRUE}
    [] status = "refused" -> {FALSE}
    [] OTHER              -> BOOLEAN

(* A customer is made once (fail_existing); orders and links every time.    *)
Existing(path) == {o \in objects : o.path = path /\ path = "/customers"}
Made(path) == IF Existing(path) = {} THEN {[path |-> path, call |-> issued + 1]} ELSE Existing(path)

(* The payer of a link tries to pay it.                                     *)
Pay(payment) ==
  /\ \E o \in objects : o.path = "/payment_links"
  /\ Len(payments) < MaxPayments
  /\ payments' = Append(payments, payment)
  /\ UNCHANGED <<objects, doing, results, answer, writing, log, artefacts, issued, losses>>

-------------------------------------------------------------------------------
(* A command.                                                               *)

(* RazorpayLiveClient._call: the request, the next one of a command that has*)
(* begun or the first one of another.                                       *)
Request(p, command, path, status) ==
  /\ answer[p] = NoAnswer
  /\ issued < MaxCalls
  /\ issued' = issued + 1
  /\ doing' = [doing EXCEPT ![p] = command]
  /\ \E acts \in Acts(status) :
       LET made == IF Posts(command) /\ acts THEN Made(path) ELSE {}
       IN /\ objects' = objects \cup made
          /\ \E o \in IF status = "ok" /\ made # {} THEN made ELSE {NoObject} :
               answer' = [answer EXCEPT ![p] =
                 [call |-> issued + 1, path |-> path, status |-> status, object |-> o,
                  listed |-> IF path = "/payments" THEN Len(payments) ELSE 0]]
  /\ UNCHANGED <<payments, results, writing, log, artefacts, losses>>

Done(p) == Len(results[p]) = Len(Programme[doing[p]])

Begin(p, command, status) ==
  /\ doing[p] = "none"
  /\ command # "none"
  /\ Request(p, command, Programme[command][1], status)

Call(p, status) ==
  /\ ~Done(p)
  /\ Request(p, doing[p], Programme[doing[p]][Len(results[p]) + 1], status)

Exit(p) ==
  /\ doing' = [doing EXCEPT ![p] = "none"]
  /\ results' = [results EXCEPT ![p] = <<>>]
  /\ answer' = [answer EXCEPT ![p] = NoAnswer]
  /\ writing' = writing \ {p}

(* A line that comes after a torn one is a part of it.                      *)
AppendLine(a) ==
  /\ transcript' = transcript \cup {[answer |-> a, whole |-> ~ragged]}
  /\ ragged' = FALSE
  /\ UNCHANGED gone

(* _call returns what was recorded.                                         *)
Return(p) ==
  /\ results' = [results EXCEPT ![p] = Append(@, answer[p])]
  /\ answer' = [answer EXCEPT ![p] = NoAnswer]
  /\ UNCHANGED <<doing, writing>>

(* Mutant: only what has a status is recorded.                              *)
RecordAnswered(p) ==
  /\ answer[p] # NoAnswer
  /\ IF answer[p].status = "lost"
     THEN UNCHANGED log /\ Exit(p)
     ELSE AppendLine(answer[p]) /\ Return(p)
  /\ UNCHANGED <<sandbox, artefacts, losses>>

(* Mutant: a lost call is recorded and then taken for an answer.            *)
RecordAndGoOn(p) ==
  /\ answer[p] # NoAnswer
  /\ AppendLine(answer[p])
  /\ Return(p)
  /\ UNCHANGED <<sandbox, artefacts, losses>>

(* Recorder.record; then _call returns, or raises what the request raised.  *)
Record(p) ==
  /\ answer[p] # NoAnswer
  /\ AppendLine(answer[p])
  /\ IF answer[p].status = "lost" THEN Exit(p) ELSE Return(p)
  /\ UNCHANGED <<sandbox, artefacts, losses>>

EndProbe(p) ==
  /\ doing[p] = "probe" /\ Done(p)
  /\ Exit(p)
  /\ UNCHANGED <<sandbox, log, artefacts, losses>>

(* write_json opens its file, which truncates it, and then writes the text. *)
Truncate(p) ==
  /\ Done(p)
  /\ p \notin writing
  /\ writing' = writing \cup {p}
  /\ \/ /\ doing[p] = "seed"
        /\ seeded' = [text |-> "empty", says |-> NoIds]
        /\ UNCHANGED reconciliation
     \/ /\ doing[p] = "reconcile"
        /\ reconciliation' = [text |-> "empty", says |-> NoReport]
        /\ UNCHANGED seeded
  /\ UNCHANGED <<sandbox, doing, results, answer, log, losses>>

(* Over what another command has written meanwhile, a shorter text leaves   *)
(* the end of the longer one.                                               *)
Overwrites(file) == file.text # "empty"

(* live_seed: the ids, None for an answer that has none.                    *)
WriteSeeded(p) ==
  /\ p \in writing
  /\ doing[p] = "seed" /\ Done(p)
  /\ \/ seeded' = [text |-> "written", says |-> [i \in 1 .. 3 |-> results[p][i].object]]
     \/ Overwrites(seeded) /\ seeded' = [text |-> "torn", says |-> NoIds]
  /\ Exit(p)
  /\ UNCHANGED <<sandbox, log, reconciliation, losses>>

(* live_reconcile: the status of the answer is not looked at.               *)
WriteReport(p) ==
  /\ p \in writing
  /\ doing[p] = "reconcile" /\ Done(p)
  /\ \/ reconciliation' = [text |-> "written", says |-> ReportOn(results[p][1])]
     \/ Overwrites(reconciliation) /\ reconciliation' = [text |-> "torn", says |-> NoReport]
  /\ Exit(p)
  /\ UNCHANGED <<sandbox, log, seeded, losses>>

-------------------------------------------------------------------------------
(* Faults.                                                                  *)

Fault(p) ==
  /\ faults + outages < MaxFaults
  /\ faults' = faults + 1
  /\ doing[p] # "none"
  /\ Exit(p)
  /\ UNCHANGED outages

Die(p) == Fault(p) /\ UNCHANGED <<sandbox, log, artefacts>>

(* The disk is full, or the process is killed, in the middle of a line ...  *)
TearLine(p) ==
  /\ Fault(p)
  /\ answer[p] # NoAnswer
  /\ transcript' = transcript \cup {[answer |-> answer[p], whole |-> FALSE]}
  /\ ragged' = TRUE
  /\ UNCHANGED <<sandbox, gone, artefacts>>

(* ... or of an artefact, which write_json has truncated before.            *)
TearArtefact(p) ==
  /\ Fault(p)
  /\ p \in writing
  /\ \/ /\ doing[p] = "seed"
        /\ seeded' = [text |-> "torn", says |-> NoIds]
        /\ UNCHANGED reconciliation
     \/ /\ doing[p] = "reconcile"
        /\ reconciliation' = [text |-> "torn", says |-> NoReport]
        /\ UNCHANGED seeded
  /\ UNCHANGED <<sandbox, log>>

Running == {p \in Operators : doing[p] # "none"}
InHands == {p \in Operators : answer[p] # NoAnswer}

Survives(file, nothing) ==
  {file} \cup IF file.text = "absent" THEN {} ELSE {[text |-> "torn", says |-> nothing]}

(* The power fails.  Nothing was synced: any of the lines, of ended commands*)
(* too, may be gone, one of them but for its beginning; so may an artefact. *)
PowerFails ==
  /\ faults + outages < MaxFaults
  /\ outages' = outages + 1
  /\ faults' = faults + Cardinality(Running)
  /\ transcript' \in SUBSET transcript
  /\ gone' = gone \cup (transcript \ transcript')
  /\ ragged' \in BOOLEAN
  /\ ragged' => ragged \/ transcript' # transcript \/ InHands # {}
  /\ seeded' \in Survives(seeded, NoIds)
  /\ reconciliation' \in Survives(reconciliation, NoReport)
  /\ doing' = [p \in Operators |-> "none"]
  /\ results' = [p \in Operators |-> <<>>]
  /\ answer' = [p \in Operators |-> NoAnswer]
  /\ writing' = {}
  /\ UNCHANGED sandbox

-------------------------------------------------------------------------------
Step(p) ==
  \/ \E status \in Status : Call(p, status) \/ \E command \in Commands : Begin(p, command, status)
  \/ Record(p) \/ EndProbe(p) \/ Truncate(p) \/ WriteSeeded(p) \/ WriteReport(p)
  \/ Die(p) \/ TearLine(p) \/ TearArtefact(p)

Next ==
  \/ \E p \in Operators : Step(p)
  \/ \E payment \in Payment : Pay(payment)
  \/ PowerFails

Spec == Init /\ [][Next]_liveVars

-------------------------------------------------------------------------------
(* Every variable stays in the set its comment gives it; what is lost is    *)
(* never taken for an answer.                                               *)
TypeOK ==
  /\ objects \subseteq Object /\ payments \in Seq(Payment)
  /\ doing \in [Operators -> Commands]
  /\ results \in [Operators -> Seq({a \in Answer : a.status # "lost"})]
  /\ \A p \in Operators : Len(results[p]) <= Len(Programme[doing[p]])
  /\ answer \in [Operators -> Answer]
  /\ writing \subseteq Operators
  /\ transcript \subseteq Line /\ ragged \in BOOLEAN /\ gone \subseteq Line
  /\ seeded \in File(Ids) /\ reconciliation \in File(Report)
  /\ issued \in Nat /\ faults \in Nat /\ outages \in Nat

(* The transcript is evidence: an object that it names exists; and one that *)
(* exists is named by it, or was made by a call that it shows to have ended *)
(* without a readable answer, but for two objects of each command that died *)
(* and of each line that a power failure took (docs/live-slice.md, "Every   *)
(* call appends"; _call, record).  Two, because a torn line takes the next  *)
(* one with it.                                                             *)
Explains(a, o) == a.object = o \/ (a.call = o.call /\ a.status # "refused")
InHand(o) == \E p \in Operators : Explains(answer[p], o)
Unaccounted ==
  {o \in objects : ~InHand(o) /\ \A l \in transcript : l.whole => ~Explains(l.answer, o)}

TranscriptAccounts ==
  /\ \A l \in transcript : l.answer.object \in objects \cup {NoObject}
  /\ Cardinality(Unaccounted) <= 2 * (faults + Cardinality(gone))

(* What was in the transcript, there still or not.                          *)
Recorded == transcript \cup gone

SeededIsBacked ==
  seeded.text = "written" => \A i \in 1 .. 3 : \E l \in Recorded :
    l.answer.path = SeedPaths[i] /\ l.answer.object = seeded.says[i]

Shown(a) ==
  {i \in DOMAIN payments : a.status = "ok" /\ i <= a.listed /\ a.listed < i + Page}

ReportIsBacked ==
  reconciliation.text = "written" => \E l \in Recorded :
    /\ l.answer.path = "/payments"
    /\ reconciliation.says.observed \subseteq Shown(l.answer)
    /\ \A i \in Shown(l.answer) : payments[i].status = "failed" =>
         /\ i \in reconciliation.says.observed
         /\ clean(reconciliation.says) => payments[i].envelope \in DECLINE_CODES

(* The artefacts say what the recorded answers said, whatever else runs,    *)
(* another writer of the same file for one: a field of seeded.json is an id,*)
(* or the lack of one, from a line of that path, in the transcript unless a *)
(* power failure took it; and a reconciliation is of one listing, so that,  *)
(* if it is clean, every failed payment that the listing showed is in the   *)
(* taxonomy (live_seed, live_reconcile; Reconciliation.clean).              *)
ArtefactsAreBacked == SeededIsBacked /\ ReportIsBacked
===============================================================================
