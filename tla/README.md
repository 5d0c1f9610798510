# Verification of the Verifiable Action Assistant

TLA+ modules, TLC runs and TLAPS proofs about the task workflow of `src/src/vaa`:
a web service that analyses project documents, proposes a ticket, waits for a
person's decision and then writes the ticket through a gateway. Paths below are
relative to `src/src/vaa` unless they say otherwise.

## 1. The system

| Part | State it keeps | Operations | What makes it correct |
|---|---|---|---|
| Task API (`api/tasks.py`, `db.py`) | a database session per request | POST create, approve, reject, resume; GETs read | requests overlap on a thread pool; each sees what its own session read |
| Orchestrator (`services/orchestrator.py`, `services/audit.py`) | tables `tasks`, `approvals`, `audit_events`, `evidence_records` | `create_task`, `approve_task`, `reject_task`, `resume_task`, `_execute_action` | one decision per task governs every effect; states follow the documented machine; the timeline explains the tables |
| Tool gateway (`services/tool_gateway.py`) | table `execution_attempts` | `execute_jira_ticket` with reconciliation after a timeout | attempts say the truth; a timeout makes no second ticket |
| Ticket store (`tools/fake_jira.py`) | table `external_tickets` | `find_by_idempotency_key`, `create_ticket` | one ticket per key, numbers without gaps |
| Access policy (`services/policy.py`) | reads users, projects, memberships | `require_read/write/approval`, `enforce_tool_policy` | only members act, only within their tenant |
| Router (`services/router.py`) | none | `choose_lane`, `build_contract` | a write tool is in a contract only behind an approval |
| Retrieval, scan (`services/retrieval.py`, `security.py`) | reads `documents` | `retrieve_documents`, `scan_untrusted_content` | current approved versions only; flagged lines have no effect |
| Analyzers (`services/analyzer.py`) | none | rule-based and language-model `analyze` | claims carry their sources, conflicts are labelled |
| Verifier (`services/verifier.py`) | none | `verify_analysis` | nothing ungrounded passes |
| Workspace API (`api/workspace.py`) | the whole database | `reset_workspace`; GETs read | no ticket of a new workspace without an approval, no receipt of it without a ticket |
| Start-up, configuration and seeding (`main.py`, `config.py`, `seed.py`, `cli.py`) | tables, indexes and reference data | `lifespan`, `seed_reference_data`, the seed command | every table is there and all reference data or none |
| Web client (`web/static/app.js`) | the task it last rendered | run, decide, reset | what it says is true, and it finds out what became of its clicks |
| `src/evals`, `src/scripts` | none | drivers of the API | not part of the service |

A request runs the orchestrator on a session of its own. The orchestrator calls
policy, router, retrieval, analyzer and verifier in process, and the gateway,
which calls the ticket store; they share nothing but the database. Every
`session.commit()` is a point where another request may come in between and
after which a crash leaves what was written.

What is hard here, line by line, is the `hazards` list of `PROJECT.json`. In short:

* **Stale sessions.** The session factory sets `expire_on_commit=False`
  (`db.py:25`): a request loads its task once and decides for ever by what it read.
  UPDATEs assign columns whatever the row holds by then.
* **Several commits per operation.** Approval row and state, attempt, ticket and
  result, receipt and COMPLETED are separate commits.
* **Check, then act, against unique constraints.** The decision, the idempotency
  key and the ticket number are guarded only by constraints that bite inside a commit.
* **The unknown outcome.** The ticket is written and the call reports a timeout.
* **Untrusted text** that must neither steer nor be echoed.
* **A schema that comes and goes.** A reset drops the tables under requests that
  hold copies of their rows; on SQLite every statement of it is committed by itself,
  and one question about one table decides whether four are seeded.
* **A page that never asks.** It shows its last answer, leaves its buttons enabled,
  and renders answers in the order of their arrival.

## 2. The modules

| Module | Models |
|---|---|
| `AccessPolicy` | memberships as a constant relation; `CanRead`, `CanWrite`, `CanApprove` |
| `TaskContract` | states, lanes, the contract as a function of the lane, the tool policy |
| `TicketStore` | the ticket table with its lookup, its next number and its two constraints |
| `TaskWorkflow` | the composition: sessions, tasks, approvals, attempts, audit, and one action per database statement or commit of the orchestrator and the gateway |
| `TicketGate` | what the assistant promises of its one side effect, without sessions or retries |
| `EvidencePipeline` | retrieval, scan, both analyzers and the verifier for one request |
| `WorkspaceReset` | `TaskWorkflow` while a reset drops, creates and seeds the tables under it |
| `Provisioning` | the statements of start-ups and resets that overlap and die, on SQLite and on PostgreSQL |
| `WebClient` | pages in front of `TaskWorkflow`: clicks, answers, broken connections, reloads |
| `MCTaskWorkflow`, `MCWorkspaceReset`, `MCWebClient`, `MCProvisioning`, `MCEvidencePipeline` | the instances for TLC: members of `seed.py`, documents shaped like its documents |
| `TaskWorkflowProofs` | proofs of type correctness and of the invariant about decisions |
| `TaskTruthProofs` | proofs that the decision about a task governs its effects, that attempts and receipts are true and that admitted executions are not refused |
| `TaskOutcomeProofs` | proofs about receipts, final states and the audit, and about what overlap costs |
| `TicketGateProofs` | proofs that tickets are numbered without gaps and that `TaskWorkflow` implements `TicketGate` |
| `EvidencePipelineProofs` | proofs of grounding, inertness and the surfacing of conflicts |
| `ProvisioningProofs` | proofs about tables, index and reference data under overlapping runs |
| `WebClientProofs` | proofs that pages leave the workflow alone, say what is true and are not left behind |
| `WorkspaceResetProofs` | proofs about what a reset leaves to the requests it overtakes |

### How `TaskWorkflow` corresponds to the code

`session[w]` is the request on worker `w`: `at` names its next statement, `seen` is
the state its cached `Task` object holds, `attempt` and `result` are the local
variables of `execute_jira_ticket`. A row that a request has not read since is
`tasks[t]`, which other workers change under it. Reads and commits are actions:

* `create_task`: `CreateTask` (97-136), `CreateContract`, `GatherDocuments`,
  `RetrieveDocuments`, `StartAnalysis`, `Analyze`, `RejectAnalysis` or
  `ProposalReady`, `ConcludeCreation`; `CreationFails` is the `except` clause.
* `approve_task`, `reject_task`, `resume_task`: `Approve`, `Reject`, `Resume` read
  the row and check it, `StoreApproval`/`StoreRejection` commit the decision or
  end in `DecisionConflict`, `MarkApproved`/`MarkRejected` commit the state,
  `PauseAfterApproval`, `LogResume`.
* `_execute_action` and the gateway: `BeginExecution`, `OpenAttempt`, `FindTicket`
  or `MissTicket`, `CountTickets`, `InsertTicket`, `RecordSuccess` or
  `RecordTimeout`, `FindAfterTimeout`, `RecordReconciled`, `ConfirmTicket`,
  `RecordReceipt`, `CompleteAction`; `ExecutionFails` is a step that raises by
  what it finds.
* `RequestDies` is a crash of the process, or an exception that nothing handles
  (`Faults` has "crash"); with "error" in `Faults` the statements of creation may raise.

Requests that are refused before they write anything (unknown ids, missing
permissions, another state, a COMPLETED task) are disabled actions. Evidence
records, comments, texts, budgets and error messages are left out: no property is
about them and no code reads them back. `_idempotency_key` is the pair of project
and normalised content; the tool is always the same and a project lies in one
tenant. `uuid4` draws any unused task id. Memberships do not change.

### The modules around it

`WorkspaceReset` EXTENDS `TaskWorkflow` and wraps its steps. `DropTables` empties the
tables and remembers the `erased` tasks, whose `tasks[t]` is from then on the copy in
the sessions of their requests. What becomes of the next commit of such a request
is decided by its statements: an UPDATE of an erased row matches nothing and raises
(`UpdatesTask`), a row that refers to the task is refused by PostgreSQL and accepted
by SQLite, whose foreign keys are off (`InsertsReference`, both outcomes), and a
ticket, which refers to nothing, always goes through. Between `CreateTables` and
`SeedTables` there are no users and no memberships.

`Provisioning` takes the reset apart. A run is a start-up (`lifespan`, with or without
`VAA_AUTO_SEED`) or a reset (`reset_workspace`, `seed.py --reset`): it lists the tables
(`ListForDrop`, `ListForCreate`), issues a statement per table and for the unique
index (`DropNext`, `CreateNext`), asks for a user (`ReadUsers`) and inserts
(`InsertReferenceData`). `Batches` is the difference between the engines: in PostgreSQL
the statements are one transaction, in SQLite each is one. The four tables that
refer to tasks are one element, and so are their indexes with them.

`WebClient` EXTENDS `TaskWorkflow`. `shown[p]` is `currentTask`; `ClickRun` and
`ClickDecision` start the request of `TaskWorkflow` that the button sends, `Serve` is
`Proceed` with the answer at the end, `ViewBySession` what `task_to_read` makes of the
row the session holds, `Render` is `renderTask`. A connection may break before or
after the answer, and `ArriveElsewhere` is a client that is no page.

Operators with names such as `MayDecideAnyState`, `NeverTaken` or `ReportOnly`, each
in front of the definition it differs from, state a mistake that code could
contain. They are not part of the model: they are what the properties are tried
against (`mutants` in `PROJECT.json`).

## 3. What the runs check

The last column counts the distinct states that TLC finds.

| Run | Instance | Checks | States |
|---|---|---|---|
| `Races` | 1 task, 3 fair workers, all seeded users, all modes, statements of creation raise | `TypeOK`, `RejectionIsFinal`, `StaleOriginsNeedResume`, `QuietTasksAreSettled`, `OnlyTheInsertIsRefused`, `CreationEnds`, `ApprovedTaskCompletes`, `PausedTaskCompletes` | 136,871 |
| `TwoTexts` | 2 tasks, 2 fair workers, 2 texts, timeouts | `NoWriteBeforeApproval`, `TicketsAreNumberedInOrder`, `ImplementsTicketGate`, `SomeExecutionCompletes` | 398,183 |
| `Crashes` | 2 tasks with one text, 2 workers, with and without timeout, crashes anywhere | `CompletedIsConfirmed`, `AttemptsAreTruthful`, `AuditExplainsEffects`, `OneOriginalReceipt`, `OutcomesAreStable` | 747,213 |
| `OneWorker` | 2 tasks, 1 worker, all modes, errors and crashes | `StatesFollowDiagram` | 371,623 |
| `Evidence` | every part of a library of 9 documents, 8 requests, 2 analyzers | `AcceptedClaimsAreGrounded`, `FlaggedLinesAreInert`, `ConflictsAreSurfaced`, `RulesFailOnlyByText` | 334,480 |
| `Reset` | 2 tasks, 2 workers, 2 texts, with and without timeout, errors, 1 reset at any moment | `TicketsWereApproved`, `LiveReceiptsAreTrue`, `GapsComeFromOvertakenRequests`, `UnconfirmedOnlyAfterReset` | 1,641,032 |
| `Provision` | 3 start-ups and resets, both engines, deaths anywhere | `TypeOK`, `TransactionsKeepItSeedable`, `SeedableAtRest`, `KeyIndexIsLostOnlyByDeath`, `AllFailOnlyAroundReset`, `SuccessMeansReady` | 683,956 |
| `Pages` | 1 task, 1 page and other clients, 2 fair workers, all modes, 2 broken connections | `WebTypeOK`, `PageTellsTheTruth`, `OwnPageIsCurrent`, `ShownNeverGoesBack`, `CompletionIsShown` | 120,292 |

`OneWorker` asks what holds as long as requests do not overlap: `StatesFollowDiagram`
fails for two workers on one task, which is what the finding of `StaleResume` is
about. Section 4 shows that nothing else is needed for it: requests for different
tasks may overlap.

**What an instance leaves to the others.** With one task, as in `Races`, nobody
competes for a ticket number: `QuietTasksAreSettled`, `ApprovedTaskCompletes` and
`PausedTaskCompletes` are statements about a task alone, and of two that compete one
may stay in EXECUTING (`NumberClash`). `TwoTexts` has one user, so that it looks at the
order of decision and write; who may decide is varied in `Races`, and both
together are the theorem `WritesAreApproved`. A first receipt says that it is not
replayed only if the call did not report a timeout, so that what is said of original
receipts needs a mode without timeouts, as in `Crashes` and `Reset`.

**Why the bounds are enough.** A task is touched by its creator and, once pending,
by any number of deciders. Two workers give every pairwise race, a third lets a
stale request overtake a pair (`Races`). Two tasks with equal and with
different texts give the races for the key and for the number. Task ids are the
only counter: when they run out the server waits, hence `CHECK_DEADLOCK FALSE`.
Attempts are bounded by the approvals and resumes a task can receive: an execution
starts from APPROVED and never returns there. In `Evidence` the limits 8 and 3 of
the code are scaled to 3 and 2, so that both cut something off the library.
One reset (`MaxResets`) meets every place of two requests and leaves time for new
tasks after it. In `Provision` two runs get in each other's way and the third, at
rest before or after them, finds what they left. In `Pages` two connections
(`MaxLost`) may break, so that the answer to a click and that to its repetition
are both lost; a second task or a third worker makes that instance too large.

**Symmetry** is used only in runs without liveness properties.

**Fairness.** `Fairness` is weak fairness of each worker's next step: the thread pool
runs a request that has started to its end. No client is bound to send a
request; `PausedTaskCompletes` assumes in its own statement (`ClientsRetry`) that
clients keep asking to resume an APPROVED task. `CreationEnds` has errors of the
statements of creation, but assumes that the commit of the `except` clause goes
through; if it raises as well, the task stays where it was, as after a crash.
`Races` and `TwoTexts` have no crashes: a crash strands a task, see below.
`PatientUser` adds to the workers that a browser renders what arrives and that the
user of a page keeps clicking on a button that the server answers; broken
connections are not fair, so `CompletionIsShown` says that a page whose connection
breaks only so often learns the end of its task.

### What the code does that its documentation does not say

Four runs look for a violation and find it.

* `StaleResume` (`CompletedIsFinal`). A client resumes while the approve request is
  between its commit of APPROVED and of EXECUTING. The approval executes to the
  end; the resume, which still believes in APPROVED, then stores EXECUTING over
  COMPLETED (`services/orchestrator.py:341`) and executes again. The ticket is
  found and replayed, so there is no second one, and the task completes again
  (`ApprovedTaskCompletes`); but a COMPLETED task is not at rest, and its receipt
  then says `replayed`.
* `NumberClash` (`ErrorsReachFailed`). Two executions count the tickets before either
  inserts. The loser's IntegrityError is handled nowhere, and its task stays in
  EXECUTING, which no request leads out of; `src/README.md:135` promises FAILED.
* `LostApproval` (`ApprovalIsResumable`). A crash between the two commits of an
  approval leaves the task in APPROVAL_PENDING with an approval: it cannot be
  resumed and not be approved again.
* `AutoSeed` (`AutoSeedSeeds`). A reset of a SQLite database dies after it dropped
  `documents` and before it dropped `users`. The next start-up creates the missing
  tables, finds a user (`seed.py:15`) and seeds nothing, and so does every one after
  it; `src/README.md:222` promises "Seed reference data on startup". On PostgreSQL
  this cannot happen (`TransactionsProtectSeeding`).

Passing properties that state a limit say something of the same kind.
`StaleOriginsNeedResume`: the origin that a STATE_TRANSITION event names is the state
the row leaves, but for executions of a resumed task. It is about the events that
are written: the moves to RECONCILING and CONFIRMING and the FAILED of the `except`
clause write none, so that the events alone are not the history of the row.
`RulesFailOnlyByText`: the verifier scans the excerpts that the analyzer cut at 240
characters (`services/analyzer.py:65`) and the text of the conflicts with their
document ids, so that documents without a signal can fail the analysis of the
rule-based analyzer too.
`AllFailOnlyAroundReset`: a start-up and a reset of one SQLite database can both
fail. The start-up finds the first tables dropped, the reset drops the others and
finds all of them missing, the start-up creates the first tables and fails because
others are gone, the reset because the first are there.
`SeedableAtRest` and `SuccessMeansReady` do not speak of an SQLite database in which
a reset died or met another run and none was run alone since (`disturbed`);
`AutoSeed` shows what can happen there.
`GapsComeFromOvertakenRequests`: a request that counted tickets before a reset and
inserts after it leaves a gap, and once a later count names a ticket that exists, no
ticket can be created any more. `UnconfirmedOnlyAfterReset`: only such a request can
close an attempt as FAILED_UNCONFIRMED, and it may be the attempt of another task,
because the row number is given anew. `KeyIndexIsLostOnlyByDeath`: the unique index on
the idempotency key may be missing for good after a crash of the first start-up on
SQLite. `OwnPageIsCurrent` needs a page without a competitor and without a lost
answer: an approval that pauses and whose answer is lost leaves a page that will
never offer Resume.

## 4. What is proved

TLAPS checks the theorems below for every value of the constants: any sets of
tasks, workers, users, projects, texts, pages, runs and documents, any
memberships, modes and faults. They rest on the assumptions that TLC evaluates in
the runs: `PolicyAssumption` and `WorkflowAssumption`, `WebAssumption`, `ResetAssumption`
(the number of resets, which is any), `ProvisioningAssumption`, and for documents `PipelineAssumption` (the unique
constraint of versions, the limits of retrieval) and `DocumentAssumption` (documents
are finite, versions are integers, a fact is a key with a value).

Before the proof TLC has checked every inductive invariant as an invariant too: those
of the workflow on the instances of `Races`, `TwoTexts` and `Crashes` (`SeenInv` on
that of `OneWorker`, `CarriedInv` on those of `Races` and `TwoTexts`, `OriginInv` on
those of `Races` and `Crashes`), and the others
on those of `Pages`, `Reset`, `Evidence` and `Provision`. `PageInv` was checked with two
pages as well.

### The workflow

* `TypeCorrect`: `Spec => []TypeOK`. A session's fields are used at the places where
  the code uses its variables, so `TypeOK` is not inductive: `TypeInv` adds, for
  each place, the task, analysis, preview, attempt and number that the next
  statement reads (`Sound`), that only tasks with an action have a preview, and that
  the ticket table is finite. A step of one worker keeps the others sound because no
  UPDATE takes from a row what a session relies on (`Kept`, `KeptSound`). There is a
  lemma per action.
* `WritesAreApproved`: `Spec => []NoWriteBeforeApproval`, and `RejectionsAreFinal`:
  `Spec => []RejectionIsFinal`. They rest on `DecisionInv`. A request executes long
  after it read its task, so the tickets alone say too little; the invariant ties
  each place to the stored decision: who is past the commit of an approval, or
  resumes, works on a task whose approval is stored (`ExecutorsGranted`), who is
  about to decide may do so and finds the task pending unless it is decided
  (`DecidersAuthorized`, `PendingUntilDecided`), nobody shares a task with the request
  that creates it (`CreatorsAlone`), there is one decision per task, of somebody who
  may take it (`OneDecision`, `DecisionsAuthorized`), who is about to store a rejection's
  state has its rejection (`DeniersDenied`), and state and receipt follow the decision
  (`RowsJustified`). The steps are sorted into a few kinds (a request ends, creation
  goes on, a decided request goes on, the insert, the read of a row, the commit of a
  decision); the invariant is proved for each kind, and each action is shown to be of
  one. The effects follow: `EffectsInv` says that every attempt and every ticket
  belongs to a task whose approval is stored (`AttemptsGranted`, `TicketsGranted`).
* `CompletionIsConfirmed` follows from `TruthInv`. A commit
  overwrites a row without looking at it, so what it stores must be true of the
  tables at that moment, not of what the request once read. `TruthInv` says of each
  place what the request holds in its hands: who has inserted or found a ticket
  finds it in the table (`WritesFound`), who is about to complete finds a receipt on
  the row (`ReceiptsStored`), and receipts, attempts, keys and states follow
  (`ReceiptsNameTickets`, `KeysDistinct`, `CompletedHasReceipt`). What a step may do to each table is stated once
  (`StepFrom`) and proved once per action; this proof and the later ones start there.
* `AttemptsTellTheTruth`: `Spec => []AttemptsAreTruthful`. `EffectsInv` adds that a
  request in the gateway has announced, in an attempt of its own, the proposal that it
  is about to write (`AttemptsAnnounce`).
* `RefusalsComeFromTheInsert`: `Spec => []OnlyTheInsertIsRefused`. `AdmittedInv`: what
  `ExecutionRefused` tests a second time was true when the task was created or
  decided and cannot have changed.
* `OneReceiptIsOriginal`: of all receipts for one ticket at most one is original.
  `OriginalInv` counts the claim to have created the ticket wherever it is, first
  with the request that inserted it and then on the row: there is one per key.
* `OutcomesStayStable`, an action property: no writer takes FAILED, REJECTED or a
  receipt back, although each overwrites the row blindly. `GrantedGoOn` adds that a
  task with a stored approval is neither FAILED nor REJECTED.
* `EffectsAreAudited`: `AuditInv` adds to the audit that the event of the call is
  there as soon as the request may store a receipt. The outcome of an attempt has its
  event (`StatusAudited`) because one commit stores both.
* `OriginsAreStaleOnlyAfterResume`: `Spec => []StaleOriginsNeedResume`. A decision is
  stored once, so there is one request that goes on from it until somebody resumes;
  `OriginInv` says that as long as nobody did, whoever works on a task does it alone
  and has seen its state.
* `TicketsAreNumbered`: `Spec => []TicketsAreNumberedInOrder`. `NumberInv` adds that a
  count which a request carries to its insert may be behind the table but never ahead
  of it (`CountsAreBehind`): the number that does not clash is then the next one. The
  step from counting to inserting and the insert are the two that matter; every
  other one leaves the table alone and brings nobody to the insert (`Apart`).
* `WorkflowImplementsGate`: `Spec => ImplementsTicketGate`, the refinement that
  `TwoTexts` checks. Each step of a request is one step of
  `TicketGate` or a stutter. `GateInv` joins the invariants above: the gate decides
  once because there is one decision per task, writes only what is granted because
  executors are, confirms only what is written because receipts name tickets.

Some properties hold only while requests stay out of each other's way. These
theorems say exactly how far, and the findings of section 3 show what happens
beyond:

* `LoneRequestsFollowTheDiagram` and `LoneRequestsKeepCompleted`:
  `Spec /\ []OneRequestPerTask` implies `StatesFollowDiagram` and `CompletedIsFinal`. Under the
  hypothesis the state that a request has read is the state of the row (`SeenInv`),
  whatever requests for other tasks do. `OneWorker` is the special case of one
  worker; `StaleResume` shows that the second fails without the hypothesis.
* `NoTaskIsLeftBehind`: when no process dies, `Spec /\ []NoRivals` implies
  `[]QuietTasksAreSettled`. `NoRivals`: no two tasks have one key, and no request
  inserts a number that another key holds; the finding of `NumberClash` is a
  behaviour with a rival. `CarriedInv` says that an unsettled task has a request in
  progress that carries it on: it stands where nothing refuses it, or it is the
  first to insert the ticket. `OneTaskIsNotLeftBehind`: for one task the hypothesis
  holds by itself, so that this is what `Races` checks, for any number of workers.
  A crash strands a task, so neither can do without the assumption.

### The pages

* `PagesAreTyped`: `SpecWeb => []WebTypeOK`. `WebTyped` adds that a page shows only tasks
  that exist.
* `WebIsWorkflow`: `SpecWeb => Spec`. What the pages add never changes the workflow but
  by its own steps, so that all the theorems above hold behind any number of pages.
* `PagesTellTheTruth`: `SpecWeb => []PageTellsTheTruth`. What a page shows may be old;
  the invariant `ViewsAreTrue` says of every page and of every answer under way that it
  shows only what cannot become false, and `DecidedInv` ties the words "rejected" and
  "approved" to the stored decision. It uses `DecisionInv` and `TruthInv` through
  `WebIsWorkflow`.
* `OwnPagesAreCurrent`: `SpecWeb => []OwnPageIsCurrent`, and `PagesNeverGoBack`:
  `SpecWeb => ShownNeverGoesBack`. A page keeps no order of its requests and renders
  whatever comes in, and a user may click on while an answer is out, so that several
  requests of one page can work on its task at once. What saves the page is that the
  server refuses all of them but one. For each task that no other client has acted
  on, `Owned` says that one page at most knows it (`OnePage`), that an answer on its way
  which leaves something to do is the state of the row (`NewsIsFresh`), that a request
  which pauses is the only one that can tell of it (`PausersAlone`), and, as long as no
  connection broke, why a page may show another state than the row's: an execution is
  under way or was left, or an answer or a pausing request will bring it (`Explained`). `ViewsFollowed` says how far a row
  can have gone on from a view of it, `MarkersAlone` and `ConfirmersWork` that the states in
  between belong to a request in progress. A step leaves a task aside (`Aside`) or has
  a lemma: `OwnRender`, `OwnClick`, `OwnRun`, `OwnGoesOn`, `OwnCreated`, `OwnAnswered`.

### The reset

Rows vanish under requests here, and a row number is given anew, so that no invariant of
the workflow holds as it is. `WorkspaceResetProofs` looks at the live part of the
workspace: the rows that are not erased, the decisions about them and the sessions
that a reset has not overtaken. It instantiates the proofs of the workflow for that
part, with crashes among the faults (`L`). Each step is then a step of the workflow
(a request that finds the tables dropped dies), the start of a new behaviour (a reset), or
a step from outside: an overtaken request can still write an attempt and a ticket,
and `OutsideKeeps` of `TicketGateProofs` shows that the invariants stand that.

* `ResetInvariant`: `SpecWithReset => []ResetInv`. `LiveInv` is the invariants of the
  workflow on the live part; `HeldInv` is what an overtaken request still holds: its
  preview, its number, and a state that only an approval leads to.
* `ResetsKeepApproval`: `SpecWithReset => []TicketsWereApproved`. `TicketsProposed` names
  for each ticket the task it comes from, whether or not its row is still there.
* `LiveReceiptsStayTrue`: `SpecWithReset => []LiveReceiptsAreTrue`, which is `TruthInv`
  of the live part.
* `GapsNeedOvertakenRequests`: `SpecWithReset => GapsComeFromOvertakenRequests`. A count of a
  request that was not overtaken may be behind the table but not ahead of it.
* `UnconfirmedNeedsReset`: `SpecWithReset => UnconfirmedOnlyAfterReset`. Whoever
  reconciles without having been overtaken finds the ticket it has written.

### Retrieval, analysis and verification

`PipelineInv` says for each stage what the request holds. From it:

* `ClaimsAreGrounded`: sources of an accepted claim are retrieved, approved, of the
  project and not superseded, whatever the model answers.
* `InstructionsAreInert`: a value in a rule-based claim stands in a line without a signal.
* `DisagreementIsShown`: two values in clean lines of retrieved documents are both shown.
* `RulesAgreeWithVerifier`: the verifier rejects the rule-based analyzer only for lack
  of required evidence, for the title of a document that it cites, for a cut excerpt or
  for what the parts of a conflict say side by side. Its sources and labels are
  always right.

### Provisioning

* `ProvisioningTypeCorrect`, and `TransactionsProtectSeeding`:
  `Spec => []TransactionsKeepItSeedable`, for any number of start-ups and resets. That
  all reference tables are filled or none is not inductive by itself: a drop that
  is still going on could take one of them. `AllOrNothing` adds that on PostgreSQL
  the tables exist together or not at all, and that whoever drops or creates means to
  do it with every one.
* `IndexIsLostOnlyByDeath`. The index is a statement of its own after the table's.
  `IndexInv`: as long as the index is missing, on SQLite, the run that created the table still
  owes it (`OwesIndex`), or a run has died.
* `SeedingIsRightAtRest` and `SuccessIsReady` (an action property), on SQLite too.
  There a reset commits each statement; `AloneInv` says that as long as no reset was
  disturbed, a reset is alone, and what it has dropped it creates again.
* `AllFailNeedsReset`: `Spec => []AllFailOnlyAroundReset`. Runs that create the same
  tables do so in the same order, and one at most owes the index (`OrderInv`); so once
  a run has begun, and as long as no reset was disturbed, there is always one that
  has ended well, has died, or finds nothing in the way of its next statement
  (`LeaderInv`). A disturbed database is one of SQLite in which a reset met another
  run or died (`CulpritInv`).

### Only model-checked

* Liveness, which is out of the prover's reach: `CreationEnds`, `ApprovedTaskCompletes`,
  `PausedTaskCompletes`, `SomeExecutionCompletes`, `CompletionIsShown`.
* The runs that expect a violation.

Every other property of a run has its theorem.

## 5. What is not modelled

* The reset button of the page, and resets under open pages: a late answer then
  renders a task that no longer exists.
* Two tasks on one page, and a third worker behind it, for the size of the instance.
* Crashes together with a reset, for the same reason; `Crashes` and `Provision` have one each.
* `config.py` but for `VAA_AUTO_SEED`, and `cli.py`, which passes its own command line on
  to the parser of `seed.py`: no state is involved.
* Regular expressions, tokens and wording: lines carry their facts, terms and
  signals, and of a cut excerpt the signals it raises. The joining of the idempotency
  key is a data detail listed as a hazard.
* The shared connection of an in-memory SQLite database, where two requests would
  share one transaction; sessions are taken to have connections of their own.
* Reading endpoints, evaluations and scripts.

## 6. Plan

1. The reset button: `WebClient` over `WorkspaceReset`, for the late answer that renders a
   task which is gone; the proofs of both are written over `TaskWorkflow` and would be
   joined by the live part.
2. `IdempotencyKey`: the key as a function of its parts, for parts that contain the
   separator.
