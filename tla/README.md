# Vendor compliance gate: specification, model checking and proofs

The service decides procurement cases with a deterministic rule engine, sends
what it cannot close to human review, and keeps every decision and review with
an audit history. This directory holds its TLA+ specification. Paths below are
relative to the repository.

## 1. The system

| Component | State | Operations | Interacts with |
|---|---|---|---|
| Review workflow (`app/main.py`) | none of its own | evaluate, assign, start, submit, reopen; the read endpoints | reads and writes the store, calls the engine |
| SQLite store (`app/storage_sqlite.py`) | tables `decisions`, `decision_history`, `reviews`, `review_history` | `save_decision`, `save_review` (one transaction each), `get_*`, `list_*` | called by the workflow |
| DynamoDB store (`app/storage_dynamodb.py`) | the same four tables | the same operations, as separate `put_item` calls and a paginated scan | its history tables feed the audit export |
| Rule engine (`app/engine.py`) | none | `evaluate_vendor_case` and its eight evaluators | reads the catalogs |
| Reports (`app/main.py`, `app/engine.py`) | none | queue, metrics, summary, dashboard | `list_decisions`, `list_review_queue` |
| Rule catalogs (`data/rules`, `load_rules`) | files | load, check against regulatory minima | the engine, the codec, the dashboard |
| Record codec (`app/storage_common.py`) | none | serialize; deserialize, filling in what old rows lack | both stores, the catalogs |
| Authentication (`app/auth.py`) | Cognito key cache | decode a token, `require_roles` | guards every handler |
| Audit export (`infra/lambda/audit_export`, `infra/api_stack.py`) | objects in S3; the position in the stream | export one batch of stream records | DynamoDB streams |
| Triage agent (`orchestrator.py`, `tools.py`, `router.py`) | session: messages, last risk band, trace, log | a turn of the model, a tool call | calls the HTTP API |
| Infrastructure, demo scripts, storage dispatcher | - | - | - |

What makes each correct, and what is hard about it:

- **Workflow.** A case moves only along its lifecycle, every change is
  attributed and recorded, a completed case has been adjudicated by the person
  it names. Handlers run in a thread pool (or in several processes); each
  *reads* a row, decides, and *writes* it back whole, with no lock or version
  check between; `submit_review` writes in two transactions. So updates are
  lost, submissions cross, and a crash can leave half a submission.
- **Stores.** History is never rewritten, and never ahead of the rows. With
  SQLite a row and its event are one transaction. With DynamoDB they are two
  unconditional puts, reads may be stale, and the history is ordered by the
  writers' clocks.
- **Engine.** Approved exactly when the evidence its catalog requires is on
  file, with what exceptions there are named; more risk never means less scrutiny. Six scores, eight chains of early
  returns and a dozen thresholds make that hard to test exhaustively.
- **Catalogs and codec.** The files are read anew for every request; decisions
  outlive them. A stored decision keeps the rule it was made under, never reads
  as made below a regulatory minimum, and stays readable, whatever is deployed in
  between, unless a file is broken so that the codec does not catch it.
- **Reports.** Counts taken in different ways from the same rows agree, and a
  report fails only where it must.
- **Audit export.** An exportable event reaches the bucket in spite of its
  neighbours, of redelivery and of errors, within the retry limit; the shard is
  never stuck.
- **Triage agent.** What a session reports agrees with what the service wrote,
  although calls that the client gave up are carried out later; the gate follows
  the evaluations that were answered; every call is logged; a session ends.

## 2. The modules

| Module | Models or states |
|---|---|
| `ReviewRecords` | the rows and what each handler makes of the row it read |
| `ReviewLifecycle` | abstract: what may happen to one case, each operation taken at once |
| `ReviewService` | the handlers over the SQLite store: a step that reads and plans, one step per transaction, and the stop of a handler in between |
| `AuditLedger` | abstract: an append-only log and the rows it determines |
| `ReviewProperties` | the properties of the service; both refinement mappings |
| `ReviewReports` | queue, metrics and summary, and how they have to agree |
| `DynamoStore` | the handlers over the DynamoDB store, and its properties |
| `AuditTrail` | abstract: what is left of the ledger when a row and its event are two writes |
| `AuditExport` | the export handler, record by record, and the event source around it |
| `TriageAgent` | a session of the agent, composed with `ReviewService` |
| `VendorEngine` | the eight evaluators, as operators from a transaction to a decision |
| `VendorGate` | a case evaluated and re-evaluated, and the properties of the engine |
| `RuleCatalog` | loading and checking the catalogs, and decoding stored metadata under them |
| `CatalogHistory` | decisions and catalogs that change, each at its own time; the dashboard's totals and lines, and when it raises |
| `MCReview`, `MCDynamo`, `MCAgent`, `MCCatalog` | instances for TLC |
| `ReviewRecordProofs`, `ReviewServiceProofs`, `TriageAgentProofs`, `AuditLedgerProofs`, `DynamoStoreProofs`, `AuditExportProofs`, `VendorGateProofs`, `CatalogProofs` | the proofs |

### Review service

`decisions` and `reviews` map a case to its row or `None`; the two histories are
sequences in `event_id` order. `request[w]` is what the handler on worker `w`
still has to write. A handler's checks are its guards in the order of the code;
`Admits` is `require_roles`, `MayReview` joins the check of the assignee and the
check that the caller is the reviewer he names. A refused request changes
nothing and is not a step. `EvaluateCase` takes any verdict the engine can give
(`VendorGate` shows that the verdict determines the review fields, as
`ReviewNeeded` says); it replaces the row without looking at it, as the code
does. `SaveReview` and `SaveDecision` are the two transactions; `AbortRequest`
is a handler that never commits its next one, because SQLite raises or the
process stops. After a restart there is nothing to recover: workers are free
and the tables are as committed.

Abstracted: timestamps are "set or not" (no handler compares them), texts,
scores, evidence and rule metadata are carried unread. A refused or aborted
request and a read-only endpoint leave the tables as they are.

### DynamoDB store

`DynamoStore` has the same handlers and the same row operators, over tables that
keep *every version* a row has had. A handler decides on any of them, or on no
row at all (`Readable`): `get_item` is eventually consistent by default and has
no bound in its contract. A save is three steps, `StampSave` (the
`datetime.now`), a put of the row and a put of the history item, so
`submit_review` is six, and `AbortRequest` may stop it before any. `clock` is
the time of the last stamp: the workers' clocks are taken to agree and to give
no time twice, and the random suffix of the item key is left out. Everything
said of the order of the history therefore holds as far as the clocks agree.

`AuditTrail` is the abstract specification: an event is written with its row,
stays pending, and is recorded once or lost. Its two instances map `pending` to
the saves that have put their row and not yet their item.

### Audit export

One shard of a history table's stream. `ExportRecord` is one turn of the
handler's loop; a `put_object` that raises may have stored the object.
`Invoke`, `Return`, `Retry` and `Crash` are the event source that
`infra/api_stack.py` configures, an external service modelled by how it is
used: on failure it repeats the batch, or a first part of it, until the retries
are used up and the rest of the batch is dropped. The handler reports the
`eventID` where the event source expects a sequence number, so the record from
which a batch is repeated is left open, and every property holds for each
choice. The handler returns without a word for an `INSERT` that has no
`NewImage`; the streams carry `NEW_IMAGE` (`infra/data_stack.py:54` and `:65`),
so no such record reaches it and it has no case here. A poison record is one that cannot be converted or written. `faults`
counts, up to `RetryAttempts + 1`, the errors that are not a record's own fault.
The stream's retention of 24 hours is not modelled: the retries configured end
long before.

### Triage agent

`TriageAgent` extends the review service with a session of `run_agent`. The
model is external and may ask for any tool, answer, or fail. A call that writes
is sent (`SendCall`), taken or refused by the service, and answered when its
worker is done (`Respond`), if the client still waits; `ClientTimeout` is the
15 s of `tools.py`, after which the call may still be taken. The gate is
`Gated`: the band of the *last answered evaluation of the session*, as in the
code. The log is written once, when the session has its answer or has used its
turns. `ModelFails` and `LogFails` are the exceptions that leave `run_agent`
before that, from the model's client and from the log file: the trace is lost,
and nothing is returned. `Account` is therefore what a session really tells: its
trace while it runs, the logged trace when it has ended, nothing when it failed.

### Rule engine

Scores are in tenths (every increment in the code is a multiple of one half, so
the floats are exact), amounts are whole cents. An evidence record is named
for the cases the evaluator tells apart: a screening record is `none`,
`incomplete`, `passed`, `failed` or `no_result` (completed, with
`sanctions_check_passed` `None`), and so on. The order of the conditions is the
order of the early returns. In `Mismatch` the division of floats is modelled by
what it decides: beside the tolerance it is exact, at the tolerance it may fall
on either side (`float_above`).

What `ApprovedExactlyOnEvidence` compares the evaluators with is `EvidenceMet`: what
each catalog's `description` and `escalation_triggers` ask for, written down in
terms of the transaction and the amounts, without any operator of the
evaluators, whose boundaries (`ScreeningRequired`, `EnhancedRequired`,
`GiftApprovalRequired`, `Mismatch`) are among what it tests. In three places the
comparison is not plain:

- `ResultOpen`: `proc_vendor_duediligence.json:6` asks for "completed due-diligence
  screening, including a sanctions/watchlist check", and `engine.py:390` refuses
  only a result that is `False`. A completed screening whose result is `None`
  passes; the property names it as the one exception and says that there is no
  other. `proc_intl_vendor_jurisdiction.json` asks only for completed screening, so
  under `INTL` there is no such difference.
- Gifts below the amounts of the triggers are approved without an approval, although
  the first sentence of `proc_gifts_hospitality.json:6` speaks of gifts without a
  limit; its notes (line 40) and `docs/mvp.md:108` set the amounts, and
  `EvidenceMet` follows those.
- `AtTolerance`: a receipt that is off by the tolerance itself is excluded, because
  the floats decide it. One cent to either side it is not.

The thresholds are constants. The boolean switches of the screening catalog
(`new_vendor_requires_screening`, `high_risk_vendor_requires_screening`) have
the value true that the shipped catalog gives them. An amount above
`ElevatedAmount` stands for the 5000 of four different catalogs; a
transaction has one control, so they never meet.

### Catalogs

A catalog gives each control a rule, a broken file, or none. Of a rule are kept
its version, one escalation trigger and one regulatory minimum for it;
`Conflicting` is the check of `validate_no_internal_policy_conflicts`, and one
conflicting file makes every load fail, as in the code. Which exception a load
raises is told apart as far as the codec does: it catches a `ValueError`, which a
conflict raises, and so do a file that is not JSON and one that is no valid rule;
an `OSError` or a `TypeError` of a file that cannot be opened or is not an object
(`Broken`) passes through it. Files are read in the order of their names, so the
first one that raises decides (`Rank`, `Escapes`). `Shipped` are the rules that are
ever deployed. `Merged` is the dictionary merge of
`deserialize_decision`: what is stored wins, what is missing comes from the rule
now in force, if that loads. A field without a default that is missing after the
merge makes the row unreadable. `Load` and `Save` are a handler of the workflow
with catalogs, and other writers, moving in between. `governing` is a history
variable: the metadata at the time of the decision.

`Dashboard` is `calculate_dashboard_summary` when it returns: the totals, and the
decisions and active reviews of each control's line. `DashboardFails` is when it
raises: a stored row cannot be read, or `load_rules` raises, whatever the rows are.

## 3. The runs

| Run | Instance | Shows |
|---|---|---|
| `review_serial` | 1 worker, 2 cases, 3 users (manager, analyst, employee), 2 reopen reasons | the service implements `ReviewLifecycle`; the review row agrees with the completed decision; the reports reconcile |
| `review_concurrent` | 2 workers, 1 case, manager and analyst, 4 history entries | rows stay consistent, events have a basis, completions are adjudicated, planned writes stay safe, both histories implement `AuditLedger` |
| `dynamo_store` | 2 workers, 1 case, 4 stamped saves, stale reads, a stop between any two writes | every version has its basis in an earlier one, no completion before its review is in the history, both histories implement `AuditTrail` |
| `triage_agent` | 1 case, 1 worker, a session of 2 turns with up to 2 tools each, an analyst beside it | the session's account agrees with the history (a failed session gives none), the gate follows the trace, the band is the engine's, the session ends |
| `audit_export` | batches of 2, 1 retry, 3 records on 2 days | no exportable event is lost to its neighbours, one object per event, nothing given up early; the shard advances, healthy events arrive |
| `catalog_upgrade` | 2 controls, 2 cases, 4 rules over 2 versions and 2 thresholds, broken and missing files, 2 changes of the files, rows of three older forms | a decision keeps its rule, stays readable unless a broken file comes first, and never reads as below its minimum; the dashboard's lines add up to its totals, and it fails only where it must |
| `vendor_gate` | 5 amounts, all evidence, all risk flags, all eight controls | approval exactly on the evidence the catalogs require, with the exceptions named; only low-risk approvals escape review; risk never helps |
| `lost_completion` | as `review_concurrent` | **violation**: an assignment undoes a completion |
| `mixed_adjudication` | as `review_concurrent` | **violation**: crossing submissions leave two verdicts |
| `queue_omission` | as `review_serial` | **violation**: a reopened case is not in the queue |
| `unlogged_calls` | a session alone with one case | **violation**: a session that fails leaves an evaluation in the history and nothing in the agent log |
| `agent_gate` | as `triage_agent`, 2 cases | **violation**: the agent assigns a case of high risk |

**Bounds.** `MaxEvents`, `MaxSaves`, `MaxRecords`, `LastDay` and `MaxDeploys` stop
*new* requests, records, days or changes, never one in progress. They, and the
end of a session, are the only places where an instance stops, and the reason
for `CHECK_DEADLOCK FALSE`; the system does not stop there.

- Reviews: eight entries are enough for a case to be evaluated, assigned, started,
  submitted (two entries), reopened and settled again, or to be reopened while
  the second case is evaluated and assigned. Four entries and two workers are
  enough for a completed submission with another handler's write on either side,
  for two crossing submissions, and for a handler that sleeps through a completion
  and a reopening. `review_serial` uses a `VIEW` that forgets what the histories
  say and keeps their length: with one worker no guard reads them, and none of
  its properties does but `TypeOK`, whose new entries are the planned writes that
  the view keeps. `review_concurrent` keeps the whole state.
- DynamoDB: four saves are an evaluation, a submission and one more save of the
  other worker on either side, with every stale read of the versions so far;
  cases share nothing but the clock, so one is enough.
- Agent: two tools in a turn and two turns let a call time out and be taken while
  the next one is sent, and a late answer meet another call's wait.
- Export: three records are a batch of two with a neighbour; one retry has a first,
  a repeated and a last attempt.
- Catalogs: a decision under one rule, a change before it is read, another before it
  is written back; the second control is the conflicting or broken neighbour, before
  or after it in the order of names; the second case makes the lines differ from
  the totals. The four rules have a minimum missing, met, lowered with its trigger,
  and exceeded.
- Engine: amounts lie below, at, between and above the thresholds (scaled to 20 and
  40); 20 and 21 differ by exactly the receipt tolerance, and all other pairs by less
  or more. Every transaction is an
  initial state, so every pair of transactions is a step.

Symmetry is used for interchangeable workers (`review_concurrent`,
`dynamo_store`) and cases (`catalog_upgrade`), in runs without liveness
properties only.

**Fairness.** Liveness is stated where something in the code drives the step.

- `AuditExport`: weak fairness of `Invoke`, because the event source polls its
  shard for ever, and of `ExportRecord \/ Return`, because an invocation runs to
  its end unless it is stopped, which its time limit (60 s) makes sure of. Nothing
  is assumed of S3: any call may fail, any invocation may be stopped.
  `HealthyEventsArrive` accordingly ends in "or more went wrong than the retries
  make up for"; `ShardAdvances` has no such condition, as the retry limit is there
  to guarantee it.
- `TriageAgent`: weak fairness of `SessionStep`. The loop is sequential, its model
  client and its HTTP client both give up in the end, and its turns are limited.
  Nothing is assumed of the service, which may never answer.
- The review workflow has none: nothing in the service obliges a reviewer to act,
  and a handler may always fail.

**Violations.** The five violated properties quote what the documentation, a
docstring or an error message says; `findings` in `PROJECT.json` gives the lines.
What *does* hold of overlapping handlers is the subject of `review_concurrent`, and
what does hold of the gate and of a session's account that of `triage_agent`. Two
more disagreements, of the engine with its catalogs, are exceptions of a property
that holds, and stand under "Rule engine" above.

Each property of a passing run has a variant of a modelled definition (a missing
guard, a swapped order, a forgotten field) that breaks it. They stand before the
definition they vary and nothing else uses them.

## 4. The proofs

The proofs are for any sets of users, cases, workers, verdicts, submissions,
controls and versions, finite or not, and any bounds, batch sizes, retries, turns,
tools, thresholds and amounts. Five theorems have a hypothesis of their own:

- `ReportsAlwaysReconcile` and `HistoryShownInFull`, which count cases: `Cases` is
  finite, as the rows of a table are;
- `SerialReviewsMatch` and `SerialImplementsLifecycle`: one worker (`OneWorker`);
- `HistoryReadsAboveMinimum`: no decision stored by an older release has a trigger
  above its minimum. The check came after those releases, so the code cannot vouch
  for them; the forms of `MCLegacy` lack the minimum.

Assumptions: `NoneAssumption`,
`ServiceAssumption`, `StoreAssumption`, `CatalogAssumption` and `AgentAssumption`
(the null is no value of the fields that may be null; the inputs are of their
types; the agent is a caller of its own, with at least one turn and one tool),
`ExportAssumption` and `HistoryAssumption` (numbers are natural, a batch is not
empty), `EngineAssumption` (thresholds are natural numbers, and single approval
is asked for no later than dual approval). TLC evaluates them in the runs.

- **`ReviewRecordProofs`**: each row operator keeps the type and, on the rows its
  handler accepts, the consistency of a row.
- **`ReviewServiceProofs`**: with any number of handlers at once. `RowsConsistent`,
  `EventsHaveBasis` and `CompletionsAdjudicated` are not inductive: a handler
  writes what it planned from a row that may be long gone. The invariant
  `ServiceInvariant` adds `RowsRecorded` (a stored row is in the history) and
  `PendingWritesSafe` (a planned row is consistent and has a basis in the
  history; a planned completion has its review next, or stored). Planning a
  write establishes this from the row read, which the history records;
  it survives the steps of others because the history only grows; and writing
  turns it into the properties of the tables. The step is proved once, for
  `Moves`, what any client makes of the tables, so that the agent's calls are
  covered too. On top of the invariant stand the theorems for the five invariants
  of `review_concurrent` and for its two ledger refinements. `TablesFollowHistories`
  composes these with the ledger's own theorem: a stored row is what the last event
  of its case in the history recorded, however handlers overlap or stop.
  - With one worker (`OneWorker`) a planned write
    follows the row *now* stored, so the service implements `ReviewLifecycle`, and
    the review table agrees with completed decisions. The runs `lost_completion` and
    `mixed_adjudication` show that the hypothesis cannot be dropped.
  - `ReportsReconcile` needs only that rows are consistent, so it holds while handlers
    overlap as well. The total of a report's counts is the number of cases because
    the counted pairs (a field's value, a number up to its count) are matched with
    the cases by a bijection, one for each class; no induction over the set is needed.
- **`TriageAgentProofs`**: the four invariants of `triage_agent`, and that the service
  still implements both ledgers with the agent beside it. A step of the agent is a
  step of the session, a `Moves` of the service, or both, so `ServiceInvariant` is kept
  and the rest is about the session. `HistoryAccountedFor` is not inductive: it does
  not say what the calls that nobody waits for may still write. `AgentInvariant`
  adds where each call is: in flight, served by a worker whose request it is, or
  ended (`WorkersServe`, `CallsApart`); only the call that is waited for has no entry
  in the trace (`OpenCallsAwaited`), and it passed the gate (`WaitedPassedGate`). The
  account is then kept by two inequalities over the trace (`AllCounted`): what is done
  there, with a good answer not yet read, is written; and what is written, with what
  is still open, is done, failed or waited for. The trace of a session that ended
  well is the one it logged, and a failed session's claims nothing, so the account
  inherits both. A taken, refused or committed call moves one
  unit from one side to the other. For the gate, `BandFollowsTrace` ties the band kept
  by the session to the last evaluation in the trace, and `BandsEvaluated` ties the
  band, and the one in an unread answer, to an event of the history.
- **`AuditLedgerProofs`**: in a ledger, the log determines the rows.
- **`DynamoStoreProofs`**: all five properties of `dynamo_store`. The history can be
  behind the rows here, so the argument goes over the versions instead: a planned
  row is a first state or follows a version that was *put*, however old, and its
  review is still to be saved or in the history (`SafePlans`). Two more parts order
  things in time: no time is later than the clock (`TimesPast`), so the stamp of a
  save is later than all its plan rests on; and a save in progress shares its time
  with no other and with no recorded item (`OwnTimes`), so an event is recorded at
  most once, at a time of its own. Both refinements of `AuditTrail` rest on that:
  a put of a row is `Write`, a put of its item is `Record`, an abort between them
  is `Lose`, and every other step is a stutter.
- **`AuditExportProofs`**: the four safety properties of `audit_export`. That a healthy
  event is lost only after more faults than retries is not inductive: the invariant
  adds what the running handler has noted (a record it has passed is stored, of no
  interest, or among the failures) and that each failed attempt at a batch whose
  healthy events are not all stored is covered by a fault.
- **`VendorGateProofs`**: all four properties of `vendor_gate`, for all thresholds, one
  lemma per evaluator. What the early returns let through is first stated in the
  evaluators' own terms (`Accepted`), and review exactly of what is no low-risk
  approval follows from their order; a second set of lemmas (`ScreeningAccepts`,
  `JurisdictionAccepts`, `ReceiptAccepts`, `GiftAccepts`, `PlainlyAccepts`) shows that
  to be what the catalogs require, with the two exceptions; that risk never
  helps follows because less risk asks for no more evidence and scores are
  monotone, and the low band lies below every threshold.
- **`CatalogProofs`**: all five properties of `catalog_upgrade`. The merge keeps what
  was stored, so it also keeps what a write-back stores anew. `ReadsAboveMinimum` is
  about what is *read*, which may be filled in from any later catalog, and is not
  inductive: the invariant adds that what governed a decision, when it was made, had
  no trigger above its minimum (`AllMadeAbove`), from the check in `load_rules` for
  new decisions and from the hypothesis for old ones; `GoverningRuleKept` and the
  merge carry both fields, together, to the reader. The dashboard's lines add up
  because the classes of a finite set of cases by control are matched with the
  counted pairs by a bijection for each class (`TotalOfClasses`), and each held
  decision's control has a line; that a row can be unreadable under files that load
  only for want of a required field and of a rule is `UnreadableLacks`.

Every invariant and action property of the passing runs is a theorem. Only
model-checked: the liveness properties `ShardAdvances`, `HealthyEventsArrive` and
`SessionEnds`, which need fairness and `ENABLED`, and the five violations, which a
counterexample settles.

## 5. What is not modelled, and why

- **Infrastructure stacks, the Lambda entry point, the storage dispatcher, demo and
  development scripts.** Declarations, or clients without state of their own. The
  settings that matter, those of the export's event source, are constants of
  `AuditExport`.
- **How a token becomes an identity** (`app/auth.py`). A library's decision without
  state of the service's; what follows from the identity, `require_roles`, guards
  every modelled handler.
- **Ages and SLA breaches** in the metrics. They need hours of a clock that no row
  of the model has; no handler acts on them.
- **Reports read while rows change**: `list_review_queue` and the paginated scan of
  `list_decisions` are read in several steps. The queue is modelled as read at one
  instant; what a report shows is promised to be of no particular moment and no
  handler acts on it.
- **Constant defaults of the codec**, and notification recipients, texts, signals
  and evidence references of decisions: carried along, branched on by nothing.
- **A procurement control no shipped catalog names** is evaluated as spend approval
  by the engine; it is left out of `VendorEngine`'s dispatch.
- **The rest of a broken catalog.** Which of the exceptions that are no `ValueError`
  a file causes, and a directory that cannot be listed, make no difference to what is
  read and are one `Broken` file. A log file that `_append_log` leaves with half a
  line is one that it failed to write.
- **The rest of the dashboard**: counts by decision, band, signal and recipient.
- **Clocks that disagree** between the processes that write to DynamoDB. With them
  the order of the history would not be that of `VersionsHaveBasis`; which versions
  follow which, and the audit trails, do not depend on the order of the times.
